SPECIFICATION FairSpec
CONSTANTS
  Device = {d1}
  Gateway = {g1}
  Handler = {h1, h2}
  MaxRoutines = 2
  MaxInactive = 3
INVARIANTS
  CalmNeverCrashes
  OneRoutine
  StatesAgree
  WaitedForAll
PROPERTIES
  HandlersReturn
\* The program may have crashed, or all handlers may wait for each other.
CHECK_DEADLOCK FALSE
