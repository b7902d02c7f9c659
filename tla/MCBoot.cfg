\* Both documented modes, four words, two resets at any time.
CONSTANTS
  NumWords = 4
  Pins = {0, 1}
  FetchTied = FALSE
  Codes = {0, 1}
  MaxBoots = 3
SPECIFICATION FairSpec
INVARIANTS TypeOK ProgramComplete ExitOfThisBoot
PROPERTIES EveryBootEnds
CHECK_DEADLOCK FALSE
