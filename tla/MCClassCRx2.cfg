SPECIFICATION FairSpec
CONSTANTS
  MaxObj = 1
  FreqPairs <- MCFreqPairs
  Msg = {m1}
  NoMsg = NoMsg
  MaxStarts = 1
PROPERTIES
  Rx2DownlinkExecuted
CHECK_DEADLOCK FALSE
