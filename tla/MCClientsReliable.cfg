SPECIFICATION FairSpec
CONSTANTS
  a = a
  b = b
  Client = {a, b}
  MayWrite <- OneWay
  MayBlock <- Nobody
  MayQuit = {}
  LookupAnswers = {"found"}
  Patient = TRUE
  MaxTyped <- Three
  MaxLoss = 3
  SocketBuffer = 3
INVARIANT AckIsForHead
PROPERTIES
  ExactConversation
  EveryMessageShown
CHECK_DEADLOCK FALSE
