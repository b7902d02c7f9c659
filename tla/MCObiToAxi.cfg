\* Three requests of every kind, two of them outstanding, with every mark.
CONSTANTS
  MaxRequests = 2
  Kinds = {"read", "lr", "write", "sc", "amo"}
  Aids = {0, 1}
  Lanes = {0}
  MarkSets = {{}, {"err"}, {"ecc", "exok"}}
  MaxPresented = 3
  OrderedR = TRUE
SPECIFICATION FairSpec
INVARIANTS TypeOK TagsMatchGrants WriteBeatsPair HalfSentHoldsPlace
PROPERTIES ValidsStable FaultsReported InOrderService EveryRequestAnswered
CHECK_DEADLOCK FALSE
