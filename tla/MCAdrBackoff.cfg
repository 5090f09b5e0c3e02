SPECIFICATION Spec
CONSTANTS
  ADRACKLIMIT = 64
  ADRACKDELAY = 32
  CntHalf = 128
  MinDR = 0
  MaxDR = 2
  Fragments <- SmallFragments
  MaxSilence = 400
INVARIANTS
  RequestAfterSilence
PROPERTIES
  SilenceBeforeBackOff
  AdrNeverLowersRate
