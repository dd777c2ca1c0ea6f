SPECIFICATION Spec
CONSTANTS
  a = a
  b1 = b1
  b2 = b2
  Process = {a, b1, b2}
  client_nick <- Nicks
  Port = {q1, q2, q3}
  NoPort = NoPort
  BadNick = {"nick_that_is_too_long"}
  BadMessage = {}
  MayType <- Typists
  MaxTyped <- OnlyAlice
  MaxStarts <- AliceAgain
  MaxLoss = 1
  SocketBuffer = 2
  Unheard = {b1}
  MaxLate = 1
INVARIANTS
  TypeOK
  ShownAsTyped
  HandlersFindWords
  ShownInOrder
  ParsesAsDocumented
SYMMETRY Ports
CHECK_DEADLOCK FALSE
