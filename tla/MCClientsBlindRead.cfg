SPECIFICATION Spec
CONSTANTS
  a = a
  b = b
  Client = {a, b}
  MayWrite <- OneWay
  MayBlock <- Nobody
  MayQuit = {}
  LookupAnswers = {"found"}
  Patient = FALSE
  MaxTyped <- One
  MaxLoss = 1
  SocketBuffer = 3
INVARIANT SocketHasDatagram
CHECK_DEADLOCK FALSE
