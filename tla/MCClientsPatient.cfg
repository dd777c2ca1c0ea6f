SPECIFICATION FairSpec
CONSTANTS
  a = a
  b = b
  Client = {a, b}
  MayWrite <- BothWays
  MayBlock <- Nobody
  MayQuit = {b}
  LookupAnswers = {"found", "not found", "silent"}
  Patient = TRUE
  MaxTyped <- TwoAndOne
  MaxLoss = 1
  SocketBuffer = 2
INVARIANT NeverPopsEmpty
PROPERTIES
  OrderedConversation
  HeadSettles
CHECK_DEADLOCK FALSE
