CONSTANTS
  SupportedOtaa = TRUE
  SupportedADR = TRUE
  DataRateInitial = 1
  DisableFCntDown = FALSE
  NbRepConfirmed = 1
  MAXFCNTGAP = 3
  MaxDown = 1
  MaxQueue = 0
  ADRACKLIMIT = 2
  ADRACKDELAY = 1
  CntHalf = 4
  MinDR = 0
  MaxDR = 1
  NbReps <- SmallNbReps
  Fragments <- SmallFragments

SPECIFICATION Spec

PROPERTIES
  AllRetransmissionsMade
