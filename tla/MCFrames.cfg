SPECIFICATION Spec
CONSTANTS
  MaxCommands = 2
  MaxBytes = 5
  Requests <- MCRequests
  Lengths = {3}
  Configurations <- MCConfigurations
  Sizes <- MCSizes
  MaxUplinks = 2
  MaxAnswers = 3
INVARIANTS
  SentOnceInOrder
  Reassembles
CHECK_DEADLOCK FALSE
