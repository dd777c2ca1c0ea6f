---------------------------- MODULE MCServerRegistry ---------------------------
(* Instances of ServerRegistry for TLC: where the clients register from. *)
EXTENDS ServerRegistry

CONSTANTS alpha, beta, home, away, p1, p2

At(ip, port) == [ip |-> ip, port |-> port]

\* alpha moves to another host, beta has one address.
MovingHosts == [n \in {alpha, beta} |->
  IF n = alpha THEN {At(home, p1), At(away, p1)} ELSE {At(away, p2)}]
=============================================================================
