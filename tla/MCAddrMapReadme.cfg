\* The parameters the README of the island assumes.
CONSTANTS
  BaseAddr = 1610612736
  AddrRange = 8388608
  MemOffset = 0
  PeriphOffset = 2097152
  BankNumBytes = 65536
  NumBanks = 2
  Simulation = FALSE
  UseTCLS = TRUE
  CARFIELD = TRUE
  Addrs <- BoundaryAddrs
SPECIFICATION Spec
INVARIANT MemoryMapKept
