\* Reads and writes compete for a memory that has no faults.
CONSTANTS
  NumBanks = 2
  BankBytes = 4
  BufDepth = 2
  Reads <- ArbReads
  Writes <- ArbWrites
  Strobes <- AnyStrobe
  Answers <- Quiet
  OneDirection = FALSE
  MaxReads = 1
  MaxWrites = 2
SPECIFICATION FairSpec
INVARIANTS TypeOK ForkInStep ForkedBeatHeld BurstBeats SingleReadPassedOnce
PROPERTIES EveryBurstAnswered ServesAxi
CHECK_DEADLOCK FALSE
