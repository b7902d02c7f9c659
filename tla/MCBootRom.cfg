\* Fetch enable tied high and the mode the boot ROM calls preloaded.
CONSTANTS
  NumWords = 2
  Pins = {2}
  FetchTied = TRUE
  Codes = {0, 1}
  MaxBoots = 1
SPECIFICATION Spec
INVARIANT JumpsToBootaddr
CHECK_DEADLOCK FALSE
