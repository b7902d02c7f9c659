\* Narrow reads, and reads past the first 32 of each 64 bytes.
CONSTANTS
  NumBanks = 2
  BankBytes = 4
  BufDepth = 2
  Reads <- AllReads
  Writes <- NoShapes
  Strobes <- AnyStrobe
  Answers <- FaultAnswers
  OneDirection = TRUE
  MaxReads = 1
  MaxWrites = 0
SPECIFICATION Spec
INVARIANT ReadFaultsReported
CHECK_DEADLOCK FALSE
