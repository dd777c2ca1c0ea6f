SPECIFICATION Spec
CONSTANTS
  alpha = alpha
  beta = beta
  home = home
  away = away
  p1 = p1
  p2 = p2
  Nick = {alpha, beta}
  Ip = {home, away}
  Port = {p1, p2}
  Sources <- MovingHosts
  Expiry = 1
  MaxTime = 2
PROPERTY ReportsLastAddress
