SPECIFICATION Spec
CONSTANTS
  a = a
  b = b
  Client = {a, b}
  MayWrite <- OneWay
  MayBlock <- BBlocksA
  MayQuit = {b}
  LookupAnswers = {"found", "not found", "silent"}
  Patient = FALSE
  MaxTyped <- Three
  MaxLoss = 2
  SocketBuffer = 2
INVARIANTS
  TypeOK
  OneOutstanding
PROPERTY OrderedConversation
CHECK_DEADLOCK FALSE
