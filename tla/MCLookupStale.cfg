SPECIFICATION Spec
CONSTANTS
  rose = rose
  brook = brook
  Nick <- Nicks
  NicksWithOK = {}
  Patient = FALSE
  MaxLoss = 0
  MaxLookups = 2
  MaxHeartbeats = 0
INVARIANT ReplyIsForLookup
CHECK_DEADLOCK FALSE
