------------------------------- MODULE MCPresence ------------------------------
(* Instances of Presence for TLC: where the clients register from. *)
EXTENDS Presence

CONSTANTS alpha, beta, home, away, p1, p2

At(ip, port) == [ip |-> ip, port |-> port]

\* alpha comes back on another port of its host, beta has one address.
FixedHosts == [n \in {alpha, beta} |->
  IF n = alpha THEN {At(home, p1), At(home, p2)} ELSE {At(away, p1)}]
=============================================================================
