\* Faults in any bank; reads or writes, and the reads as wide as the AXI data.
CONSTANTS
  NumBanks = 2
  BankBytes = 4
  BufDepth = 2
  Reads <- WideReads
  Writes <- SomeWrites
  Strobes <- SomeStrobes
  Answers <- FaultAnswers
  OneDirection = TRUE
  MaxReads = 2
  MaxWrites = 2
SPECIFICATION Spec
INVARIANTS WriteFaultsReported ReadFaultsReported
PROPERTIES ResponsesHeld
CHECK_DEADLOCK FALSE
