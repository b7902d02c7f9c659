CONSTANTS
  Size = 36
  StrbWidth = 4
  BurstBytes = 8
  WordBytes = 2
  Files <- MCFiles
  Programs <- MCPrograms
SPECIFICATION ElfSpec
INVARIANT ElfTypeOK LoadedWhole OnlySectionsWritten StopsOnlyAtWholeBursts
INVARIANT ResourcesReleased BufferHoldsSection CompleteOrTruncated
PROPERTY ImplementsPreload
CHECK_DEADLOCK FALSE
