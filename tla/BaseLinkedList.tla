----------------------------- MODULE BaseLinkedList ----------------------------
(***************************************************************************)
(* The doubly linked list that every list of UPUSH is (base_linked_list.c),*)
(* at the level of its pointers: two sentinels, nodes that are allocated   *)
(* and freed, loops that follow next, and the iterator with which          *)
(* resend_pending_messages serves the contacts and may detach the one it   *)
(* was last given.  A cell freed before may be allocated again.            *)
(*                                                                         *)
(* quit_client destroys the list, called by main or by the handler of      *)
(* SIGINT, which runs between any two assignments and never returns.  The  *)
(* handler is not interrupted: signal() masks SIGINT while it runs.        *)
(***************************************************************************)
EXTENDS Naturals, FiniteSets, SequencesExt

CONSTANTS
  Cell,        \* the nodes malloc may return
  Data,        \* the objects a list may hold: contacts, messages, nicks
  head, tail,  \* the sentinels
  NULL

ASSUME ListAssumption ==
  /\ {head, tail, NULL} \cap Cell = {}
  /\ head # tail /\ head # NULL /\ tail # NULL
  /\ NULL \notin Data

Node == Cell \cup {head, tail}

VARIABLES
  next, prev, data,  \* the fields of the nodes
  allocated,         \* the nodes that are not freed
  op,                \* the loop that is running, if any
  match,             \* what its cmp accepts
  tmp,               \* the node it has reached
  handler,           \* quit_client runs in the handler of SIGINT
  current,           \* iterator->current, NULL without an iterator
  served,            \* what the iterator returned last
  result,            \* the last operation that returned, and what
  chain,             \* history: the linked nodes, from head to tail
  todo               \* history: what the iterator has still to return

fields  == <<next, prev, data, allocated, chain>>
loop    == <<op, match, tmp, handler>>
walker  == <<current, served, todo>>
vars == <<fields, loop, walker, result>>

Linkable == {d \in Data : \A n \in allocated : data[n] # d}

Position(node) == CHOOSE i \in DOMAIN chain : chain[i] = node

Init ==
  /\ next = [n \in Node |-> IF n = head THEN tail ELSE NULL]
  /\ prev = [n \in Node |-> IF n = tail THEN head ELSE NULL]
  /\ data = [n \in Node |-> NULL]
  /\ allocated = {}
  /\ op = "none" /\ match = {} /\ tmp = NULL /\ handler = FALSE
  /\ current = NULL /\ served = NULL
  /\ result = [of |-> "none", match |-> {}, is |-> NULL]
  /\ chain = <<>>
  /\ todo = <<>>

Returns(name, M, value) == result' = [of |-> name, match |-> M, is |-> value]

Idle == op = "none" /\ current = NULL

Gone == op \in {"free", "freed", "crashed"}

-----------------------------------------------------------------------------
\* The pointers after the first k of the four assignments of each function.

\* Faulty variant: the node to the right is not linked back.
ll_insert_node_between_OneWay(left, middle, right, k) ==
  /\ next' = [next EXCEPT ![middle] = IF k >= 1 THEN right ELSE @,
                          ![left] = IF k >= 3 THEN middle ELSE @]
  /\ prev' = [prev EXCEPT ![middle] = IF k >= 2 THEN left ELSE @]

\* Faulty variant: the list is linked to the node before the node to the list.
ll_insert_node_between_ListFirst(left, middle, right, k) ==
  /\ next' = [next EXCEPT ![left] = IF k >= 1 THEN middle ELSE @,
                          ![middle] = IF k >= 3 THEN right ELSE @]
  /\ prev' = [prev EXCEPT ![right] = IF k >= 2 THEN middle ELSE @,
                          ![middle] = IF k >= 4 THEN left ELSE @]

ll_insert_node_between(left, middle, right, k) ==
  /\ next' = [next EXCEPT ![middle] = IF k >= 1 THEN right ELSE @,
                          ![left] = IF k >= 3 THEN middle ELSE @]
  /\ prev' = [prev EXCEPT ![middle] = IF k >= 2 THEN left ELSE @,
                          ![right] = IF k >= 4 THEN middle ELSE @]

ll_dettach_node(node, k) ==
  /\ prev' = [prev EXCEPT ![next[node]] = IF k >= 1 THEN prev[node] ELSE @,
                          ![node] = IF k >= 4 THEN NULL ELSE @]
  /\ next' = [next EXCEPT ![prev[node]] = IF k >= 2 THEN next[node] ELSE @,
                          ![node] = IF k >= 3 THEN NULL ELSE @]

\* A new node, as far as ll_add_node has linked it.
Insert(n, d, k) ==
  /\ Idle
  /\ n \in Cell \ allocated
  /\ d \in Linkable
  /\ ll_insert_node_between(head, n, next[head], k)
  /\ data' = [data EXCEPT ![n] = d]
  /\ allocated' = allocated \cup {n}
  /\ chain' = IF k >= 3 THEN <<n>> \o chain ELSE chain

ll_add_node(n, d) ==
  /\ Insert(n, d, 4)
  /\ Returns("add", {d}, NULL)
  /\ UNCHANGED <<loop, walker>>

\* ll_dettach_node and free: what the fields held is lost.
Delete(node) ==
  /\ ll_dettach_node(node, 4)
  /\ data' = [data EXCEPT ![node] = NULL]
  /\ allocated' = allocated \ {node}
  /\ chain' = RemoveAt(chain, Position(node))

\* Faulty variant: the newest node is popped.
ll_pop_node_AtHead ==
  /\ Idle
  /\ next[head] # tail
  /\ Returns("pop", {}, data[next[head]])
  /\ Delete(next[head])
  /\ UNCHANGED <<loop, walker>>

ll_pop_node ==
  /\ Idle
  /\ prev[tail] # head
  /\ Returns("pop", {}, data[prev[tail]])
  /\ Delete(prev[tail])
  /\ UNCHANGED <<loop, walker>>

\* On an empty list the node to pop is head, and head->prev is NULL.
PopEmpty ==
  /\ Idle
  /\ prev[tail] = head
  /\ op' = "crashed"
  /\ UNCHANGED <<fields, match, tmp, handler, walker, result>>

ll_peek ==
  /\ Idle
  /\ Returns("peek", {}, IF next[head] # tail THEN data[prev[tail]] ELSE NULL)
  /\ UNCHANGED <<fields, loop, walker>>

-----------------------------------------------------------------------------
(* The loops over the nodes: find (and contains, which returns whether it  *)
(* found something), pop on a match (and remove, which frees what it pops) *)
(* and the destruction of the list.                                        *)

Start(name, M) ==
  /\ op' = name
  /\ match' = M
  /\ tmp' = next[head]
  /\ UNCHANGED <<fields, handler, walker, result>>

Finish(value) ==
  /\ Returns(op, match, value)
  /\ op' = "none" /\ match' = {} /\ tmp' = NULL
  /\ UNCHANGED handler

ll_find_by_matching_data(M) == Idle /\ Start("find", M)

\* A nick is removed between iterations, a contact while it is being served.
ll_pop_on_match(M) ==
  /\ op = "none"
  /\ current # NULL => served # NULL /\ M = {served}
  /\ Start("take", M)

Skip ==
  /\ op \in {"find", "take"}
  /\ tmp # tail /\ data[tmp] \notin match
  /\ tmp' = next[tmp]
  /\ UNCHANGED <<fields, op, match, handler, walker, result>>

Found ==
  /\ op = "find"
  /\ tmp # tail /\ data[tmp] \in match
  /\ Finish(data[tmp])
  /\ UNCHANGED <<fields, walker>>

\* Faulty variant: the node is returned in place of its data.
Taken_Node ==
  /\ op = "take"
  /\ tmp # tail /\ data[tmp] \in match
  /\ Finish(tmp)
  /\ Delete(tmp)
  /\ served' = NULL
  /\ UNCHANGED <<current, todo>>

Taken ==
  /\ op = "take"
  /\ tmp # tail /\ data[tmp] \in match
  /\ Finish(data[tmp])
  /\ Delete(tmp)
  /\ served' = NULL
  /\ UNCHANGED <<current, todo>>

Missed ==
  /\ op \in {"find", "take"}
  /\ tmp = tail
  /\ Finish(NULL)
  /\ UNCHANGED <<fields, walker>>

\* quit_client may run in the middle of an iteration over the contacts.
ll_free_linked_list == op = "none" /\ Start("free", Data)

FreeNode ==
  /\ op = "free"
  /\ tmp # tail
  /\ tmp' = next[tmp]
  /\ Delete(tmp)
  /\ UNCHANGED <<op, match, handler, walker, result>>

FreeSentinels ==
  /\ op = "free"
  /\ tmp = tail
  /\ op' = "freed"
  /\ UNCHANGED <<fields, match, tmp, handler, walker, result>>

-----------------------------------------------------------------------------
(* SIGINT: the handler destroys the list as it finds it.                   *)

Handle ==
  /\ ~ handler /\ op \notin {"freed", "crashed"}
  /\ handler' = TRUE
  /\ op' = "free" /\ match' = Data /\ tmp' = next'[head]
  /\ UNCHANGED <<walker, result>>

Sigint == UNCHANGED fields /\ Handle

SigintInAdd(n, d, k) == Insert(n, d, k) /\ Handle

\* The node that a pop, a pop on a match or the destruction is about to detach.
Detaching(node) ==
  \/ Idle /\ node = prev[tail] /\ node # head
  \/ op = "take" /\ tmp # tail /\ data[tmp] \in match /\ node = tmp
  \/ op = "free" /\ tmp # tail /\ node = tmp

\* The node is lost once the list does not lead to it.
SigintInDetach(node, k) ==
  /\ Detaching(node)
  /\ ll_dettach_node(node, k)
  /\ chain' = IF k >= 2 THEN RemoveAt(chain, Position(node)) ELSE chain
  /\ Handle
  /\ UNCHANGED <<data, allocated>>

\* quit_client, called by main, has freed the sentinels but not yet exited.
SigintTooLate ==
  /\ op = "freed" /\ ~ handler
  /\ op' = "crashed"
  /\ UNCHANGED <<fields, match, tmp, handler, walker, result>>

-----------------------------------------------------------------------------
(* The iterator of resend_pending_messages.                                *)

get_base_iterator ==
  /\ Idle
  /\ current' = next[head]
  /\ todo' = [i \in DOMAIN chain |-> data[chain[i]]]
  /\ UNCHANGED <<fields, loop, served, result>>

\* Faulty variant: the iterator stays where it is.
base_iterator_next_Stays ==
  /\ op = "none"
  /\ current \notin {NULL, tail}
  /\ Returns("next", {}, data[current])
  /\ served' = data[current]
  /\ UNCHANGED <<fields, loop, current, todo>>

base_iterator_next ==
  /\ op = "none"
  /\ current \notin {NULL, tail}
  /\ Returns("next", {}, data[current])
  /\ served' = data[current]
  /\ current' = next[current]
  /\ todo' = Tail(todo)
  /\ UNCHANGED <<fields, loop>>

\* base_iterator_has_next is false.
base_iterator_free ==
  /\ op = "none"
  /\ current = tail
  /\ current' = NULL
  /\ served' = NULL
  /\ UNCHANGED <<fields, loop, todo, result>>

Next ==
  \/ \E n \in Cell, d \in Data : ll_add_node(n, d)
  \/ \E M \in SUBSET Data : ll_find_by_matching_data(M) \/ ll_pop_on_match(M)
  \/ ll_pop_node \/ PopEmpty \/ ll_peek
  \/ Skip \/ Found \/ Taken \/ Missed
  \/ ll_free_linked_list \/ FreeNode \/ FreeSentinels
  \/ Sigint \/ SigintTooLate
  \/ \E n \in Cell, k \in 0 .. 4 :
       SigintInDetach(n, k) \/ \E d \in Data : SigintInAdd(n, d, k)
  \/ get_base_iterator \/ base_iterator_next \/ base_iterator_free

Spec == Init /\ [][Next]_vars

-----------------------------------------------------------------------------
(* Properties.                                                             *)

\* The fields, the loop and the iterator keep their types.
TypeOK ==
  /\ next \in [Node -> Node \cup {NULL}]
  /\ prev \in [Node -> Node \cup {NULL}]
  /\ data \in [Node -> Data \cup {NULL}]
  /\ allocated \subseteq Cell
  /\ op \in {"none", "find", "take", "free", "freed", "crashed"}
  /\ match \subseteq Data
  /\ tmp \in Node \cup {NULL} /\ handler \in BOOLEAN
  /\ current \in Node \cup {NULL}
  /\ served \in Data \cup {NULL}
  /\ result.of \in {"none", "add", "pop", "peek", "find", "take", "next"}
  /\ result.match \subseteq Data /\ result.is \in Data \cup {NULL}
  /\ chain \in Seq(Cell)
  /\ todo \in Seq(Data)

At(i) ==
  IF i = 0 THEN head ELSE IF i = Len(chain) + 1 THEN tail ELSE chain[i]

\* The list can be followed in both directions from sentinel to sentinel, meets
\* every node that is not freed once, and no other: nothing dangles, nothing leaks.
Linked ==
  ~ Gone =>
  /\ \A i \in 0 .. Len(chain) : next[At(i)] = At(i + 1) /\ prev[At(i + 1)] = At(i)
  /\ \A i, j \in DOMAIN chain : chain[i] = chain[j] => i = j
  /\ allocated = {chain[i] : i \in DOMAIN chain}

\* Wherever SIGINT interrupts an operation, or a destruction that main began, the
\* handler frees allocated nodes only, each once, follows no pointer to a freed node,
\* and loses at most the node that was being linked or detached (upush_client.c:4).
DestructionIsSafe ==
  /\ op = "free" =>
       \/ tmp = tail
       \/ tmp \in allocated /\ {next[tmp], prev[tmp]} \subseteq allocated \cup {head, tail}
  /\ op = "freed" => Cardinality(allocated) <= 1

\* The iterator never stands on a freed node, although contacts are detached and
\* freed while it is in use; when the list is destroyed the iterator is abandoned.
IteratorIsValid == ~ Gone => current \in allocated \cup {tail, NULL}

List == INSTANCE OrderedList WITH
  items <- [i \in DOMAIN chain |-> data[chain[i]]],
  iterating <- current # NULL,
  gone <- Gone

\* The operations return what those of OrderedList return, and an iteration that
\* ends has returned every item the list held when it began, once and in order,
\* whatever was detached meanwhile (base_linked_list.h).
IsOrderedList == List!Spec
=============================================================================
