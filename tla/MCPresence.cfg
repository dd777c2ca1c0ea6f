SPECIFICATION PresenceSpec
CONSTANTS
  alpha = alpha
  beta = beta
  home = home
  away = away
  p1 = p1
  p2 = p2
  Nick = {alpha, beta}
  Ip = {home, away}
  Port = {p1, p2}
  Sources <- FixedHosts
  Expiry = 3
  Period = 1
  Timeout = 1
  Delay = 1
  MaxMissed = 1
  MaxTime = 6
INVARIANTS
  PresenceTypeOK
  OneRecordPerNick
  ConnectedIsFound
PROPERTY IsNameService
