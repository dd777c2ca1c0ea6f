------------------------------ MODULE NameService ------------------------------
(***************************************************************************)
(* What the server promises: a lookup is answered with the address of the  *)
(* nick's last registration, for as long as that registration is fresh.    *)
(***************************************************************************)
EXTENDS Naturals

CONSTANTS Nick, Address, Expiry

VARIABLES
  now,         \* the clock, in seconds
  registered,  \* the last registration of every nick
  answer       \* what the server last said

vars == <<now, registered, answer>>

Never    == [at |-> "never"]
OK       == [kind |-> "OK"]
NotFound(n) == [kind |-> "NOT FOUND", nick |-> n]
Found(n, a) == [kind |-> "NICK", nick |-> n, addr |-> a]

Fresh(n) == registered[n] # Never /\ now - registered[n].at <= Expiry

Init ==
  /\ now = 0
  /\ registered = [n \in Nick |-> Never]
  /\ answer = OK

Register(n, a) ==
  /\ registered' = [registered EXCEPT ![n] = [at |-> now, addr |-> a]]
  /\ answer' = OK
  /\ UNCHANGED now

LookUp(n) ==
  /\ answer' = IF Fresh(n) THEN Found(n, registered[n].addr) ELSE NotFound(n)
  /\ UNCHANGED <<now, registered>>

Restart ==
  /\ registered' = [n \in Nick |-> Never]
  /\ answer' = OK
  /\ UNCHANGED now

Tick == now' = now + 1 /\ UNCHANGED <<registered, answer>>

Next ==
  \/ \E n \in Nick : LookUp(n) \/ \E a \in Address : Register(n, a)
  \/ Restart \/ Tick

Spec == Init /\ [][Next]_vars
=============================================================================
