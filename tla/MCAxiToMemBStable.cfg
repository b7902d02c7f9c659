\* B is offered and the manager is not ready.
CONSTANTS
  NumBanks = 2
  BankBytes = 4
  BufDepth = 2
  Reads <- NoShapes
  Writes <- OneWrite
  Strobes <- SomeStrobes
  Answers <- FaultAnswers
  OneDirection = TRUE
  MaxReads = 0
  MaxWrites = 1
SPECIFICATION Spec
PROPERTY BStable
CHECK_DEADLOCK FALSE
