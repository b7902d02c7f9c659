\* The island of the archi headers, with the testbench's printf and no lockstep.
CONSTANTS
  BaseAddr = 1610612736
  AddrRange = 8388608
  MemOffset = 0
  PeriphOffset = 2097152
  BankNumBytes = 65536
  NumBanks = 2
  Simulation = TRUE
  UseTCLS = FALSE
  CARFIELD = TRUE
  Addrs <- BoundaryAddrs
SPECIFICATION Spec
INVARIANTS IslandClosed BanksApart RoutedAsDocumented SoftwareFindsUnits
