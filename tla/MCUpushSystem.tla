------------------------------ MODULE MCUpushSystem -----------------------------
(* Instances of UpushSystem for TLC: alice, and two processes that call themselves bob. *)
EXTENDS UpushSystem

CONSTANTS a, b1, b2

Nicks == [p \in Process |-> IF p = a THEN "alice" ELSE "bob"]
Typists == [p \in Process |->
              IF p = a THEN {<<SP, "bob", SP, SP, "hi">>, <<"carol", SP, "hi">>, <<"bob", SP>>}
              ELSE {<<"alice", SP, "yo", SP>>, <<"nick_that_is_too_long", SP, "yo">>}]
OnlyAlice == [p \in Process |-> IF p = a THEN 2 ELSE 0]
AliceAgain == [p \in Process |-> IF p = a THEN 2 ELSE 1]
Ports    == Permutations(Port)
=============================================================================
