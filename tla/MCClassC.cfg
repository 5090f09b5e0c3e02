SPECIFICATION FairSpec
CONSTANTS
  MaxObj = 1
  FreqPairs <- MCFreqPairs
  Msg = {m1, m2}
  NoMsg = NoMsg
  MaxStarts = 2
INVARIANTS
  OneTaker
PROPERTIES
  Rx1Closes
  Rx2WakesAgain
  StopReturns
CHECK_DEADLOCK FALSE
