CONSTANTS
  SupportedOtaa = TRUE
  SupportedADR = TRUE
  DataRateInitial = 1
  DisableFCntDown = FALSE
  NbRepConfirmed = 1
  MAXFCNTGAP = 2
  MaxDown = 2
  MaxQueue = 1
  ADRACKLIMIT = 1
  ADRACKDELAY = 1
  CntHalf = 3
  MinDR = 1
  MaxDR = 1
  NbReps <- TwoRepetitions
  Fragments <- SmallFragments

SPECIFICATION FairSpec

INVARIANTS
  UplinkModes
  RepetitionsBounded
  AckStopsRepetition
  NoReplay

PROPERTIES
  TurnOffCompletes
