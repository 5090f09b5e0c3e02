SPECIFICATION FairSpec
CONSTANTS
  Sender = {s1, s2, s3}
  MaxUplinks = 2
  s1 = s1
  s2 = s2
  s3 = s3
INVARIANTS
  SentOnceInOrder
  NoSleepOnUplinks
PROPERTIES
  ImplementsDelivery
  CrashesOnlyInSetup
  TurnOffReturns
  BufferDrains
\* The program may have crashed, or every sender may sleep for ever.
CHECK_DEADLOCK FALSE
