------------------------------ MODULE Conversation -----------------------------
(***************************************************************************)
(* What the stop-and-wait protocol promises the two ends of a conversation *)
(* about the messages typed by a sender and printed by a recipient.        *)
(* A message is the number of its turn among those typed from one client   *)
(* to another.                                                             *)
(***************************************************************************)
EXTENDS Naturals, Sequences

CONSTANTS
  Client,
  Lossless   \* TRUE: nothing typed is skipped or repeated on the screen

VARIABLES
  typed,       \* typed[s][r]: how many messages s typed to r
  screen,      \* screen[r][s]: the messages r printed from s, in order
  recordStart  \* recordStart[r][s]: how many of them r no longer remembers

vars == <<typed, screen, recordStart>>

Init ==
  /\ typed = [s \in Client |-> [r \in Client |-> 0]]
  /\ screen = [r \in Client |-> [s \in Client |-> <<>>]]
  /\ recordStart = [r \in Client |-> [s \in Client |-> 0]]

Type(s, r) ==
  /\ typed' = [typed EXCEPT ![s][r] = @ + 1]
  /\ UNCHANGED <<screen, recordStart>>

\* Nothing is printed before what was typed earlier; a message is repeated only
\* to a recipient that has forgotten the sender since.
MayPrint(r, s, id) ==
  /\ id \in 1 .. typed[s][r]
  /\ \A i \in DOMAIN screen[r][s] :
       /\ screen[r][s][i] <= id
       /\ i > recordStart[r][s] => screen[r][s][i] < id
  /\ Lossless => id = Len(screen[r][s]) + 1

Display(r, s) ==
  /\ \E id \in 1 .. typed[s][r] :
       /\ MayPrint(r, s, id)
       /\ screen' = [screen EXCEPT ![r][s] = Append(@, id)]
  /\ UNCHANGED <<typed, recordStart>>

\* r deletes its records of the clients in S.
Forget(r, S) ==
  /\ recordStart' = [recordStart EXCEPT ![r] =
       [s \in Client |-> IF s \in S THEN Len(screen[r][s]) ELSE @[s]]]
  /\ UNCHANGED <<typed, screen>>

Next ==
  \E c \in Client :
    \/ \E d \in Client : Type(c, d) \/ Display(c, d)
    \/ \E S \in SUBSET Client : Forget(c, S)

Spec == Init /\ [][Next]_vars
=============================================================================
