SPECIFICATION Spec
CONSTANTS
  a = a
  b = b
  Client = {a, b}
  MayWrite <- OneWay
  MayBlock <- Nobody
  MayQuit = {}
  LookupAnswers = {"found"}
  Patient = FALSE
  MaxTyped <- Two
  MaxLoss = 1
  SocketBuffer = 3
INVARIANT AckIsForHead
CHECK_DEADLOCK FALSE
