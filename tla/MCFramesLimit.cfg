SPECIFICATION Spec
CONSTANTS
  MaxCommands = 15
  MaxBytes = 15
  Requests <- NoRequests
  Lengths = {1}
  Configurations <- OneConfiguration
  Sizes <- OneSize
  MaxUplinks = 0
  MaxAnswers = 15
INVARIANTS
  AnswersSentOnce
CHECK_DEADLOCK FALSE
