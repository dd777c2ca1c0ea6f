SPECIFICATION FairSpec
CONSTANTS
  rose = rose
  brook = brook
  Nick <- Nicks
  NicksWithOK = {brook}
  Patient = TRUE
  MaxLoss = 3
  MaxLookups = 2
  MaxHeartbeats = 2
INVARIANTS
  TypeOK
  ReplyIsForLookup
  TerminatesUnanswered
PROPERTY EveryLookupEnds
CHECK_DEADLOCK FALSE
