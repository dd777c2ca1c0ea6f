------------------------------- MODULE OrderedList ------------------------------
(***************************************************************************)
(* What the operations of base_linked_list.h promise: a sequence of items, *)
(* newest first, that is searched from the newest and popped at the oldest. *)
(***************************************************************************)
EXTENDS Naturals, SequencesExt

CONSTANTS Data, NULL

VARIABLES
  items,      \* what the list holds, newest first
  todo,       \* what its iterator has still to return
  result,     \* the last operation that returned, and what
  iterating,  \* an iterator is in use
  gone        \* the list is destroyed, or its process is

vars == <<items, todo, result, iterating, gone>>

Returns(name, M, value) == result' = [of |-> name, match |-> M, is |-> value]

IsFirst(i, M) ==
  /\ i \in DOMAIN items /\ items[i] \in M
  /\ \A j \in 1 .. i - 1 : items[j] \notin M

Matches(M) == \E i \in DOMAIN items : items[i] \in M

Init ==
  /\ items = <<>> /\ todo = <<>>
  /\ result = [of |-> "none", match |-> {}, is |-> NULL]
  /\ iterating = FALSE /\ gone = FALSE

Add(d) ==
  /\ items' = <<d>> \o items
  /\ Returns("add", {d}, NULL)
  /\ UNCHANGED <<todo, iterating, gone>>

Pop ==
  /\ items # <<>>
  /\ Returns("pop", {}, Last(items))
  /\ items' = Front(items)
  /\ UNCHANGED <<todo, iterating, gone>>

Peek ==
  /\ Returns("peek", {}, IF items = <<>> THEN NULL ELSE Last(items))
  /\ UNCHANGED <<items, todo, iterating, gone>>

Find(M) ==
  /\ \/ \E i \in DOMAIN items : IsFirst(i, M) /\ Returns("find", M, items[i])
     \/ ~ Matches(M) /\ Returns("find", M, NULL)
  /\ UNCHANGED <<items, todo, iterating, gone>>

Take(M) ==
  /\ \/ \E i \in DOMAIN items :
          IsFirst(i, M) /\ Returns("take", M, items[i]) /\ items' = RemoveAt(items, i)
     \/ ~ Matches(M) /\ Returns("take", M, NULL) /\ UNCHANGED items
  /\ UNCHANGED <<todo, iterating, gone>>

Iterate ==
  /\ ~ iterating
  /\ iterating' = TRUE
  /\ todo' = items
  /\ UNCHANGED <<items, result, gone>>

Yield ==
  /\ iterating /\ todo # <<>>
  /\ Returns("next", {}, Head(todo))
  /\ todo' = Tail(todo)
  /\ UNCHANGED <<items, iterating, gone>>

\* An iteration ends when every item has been returned.
EndIteration ==
  /\ iterating /\ todo = <<>>
  /\ iterating' = FALSE
  /\ UNCHANGED <<items, todo, result, gone>>

\* The list is freed, or a pop of the empty list ends the process.  The operation it
\* interrupts may have added an item, or removed one.
Destroy ==
  /\ ~ gone /\ gone' = TRUE
  /\ \/ UNCHANGED items
     \/ \E d \in Data : items' = <<d>> \o items
     \/ \E i \in DOMAIN items : items' = RemoveAt(items, i)
  /\ UNCHANGED <<todo, result, iterating>>

\* A destroyed list releases its items, the newest first.
Release ==
  /\ gone /\ items # <<>>
  /\ items' = Tail(items)
  /\ UNCHANGED <<todo, result, iterating, gone>>

Next ==
  \/ ~ gone /\ \/ \E d \in Data : Add(d)
               \/ \E M \in SUBSET Data : Find(M) \/ Take(M)
               \/ Pop \/ Peek \/ Iterate \/ Yield \/ EndIteration
  \/ Destroy \/ Release

Spec == Init /\ [][Next]_vars
=============================================================================
