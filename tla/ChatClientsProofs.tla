---------------------------- MODULE ChatClientsProofs --------------------------
(***************************************************************************)
(* Proofs about ChatClients for every set of clients and every bound: the  *)
(* types, that only the oldest message of a queue is ever outstanding, and *)
(* that with patient timers no empty queue is popped.                      *)
(***************************************************************************)
EXTENDS ChatClients, TLAPS

Queues  == [Client -> [Client -> Seq(Message)]]
Inboxes == [Client -> [Client -> Seq(Datagram)]]

\* OneOutstanding of a single queue.
WellKept(q) ==
  \A i \in DOMAIN q : q[i].attempts <= 4 /\ (i > 1 => q[i].attempts = 0)

\* What main and resend_pending_messages rely on: a contact whose timer expired has
\* a message to resend, contacts wait for a resend only while c goes through them,
\* and a lookup made to resend is one for a message sent twice.
InLoop(c) ==
  /\ pc[c] = "lookup" => lookup[c] \in Lookup
  /\ due[c] # {} => pc[c] = "resend" \/ InLookup(c, "resend")
  /\ \A k \in due[c] : queue[c][k] # <<>>
  /\ InLookup(c, "resend") =>
       lookup[c].nick \in due[c] /\ Attempts(c, lookup[c].nick) = 2

LoopInv == \A c \in Client : InLoop(c)

IInv == TypeOK /\ LoopInv /\ OneOutstanding

-----------------------------------------------------------------------------
(* Queues.                                                                 *)

LEMMA Update ==
  ASSUME NEW S, NEW f \in [Client -> [Client -> S]],
         NEW c \in Client, NEW k \in Client, NEW v \in S,
         NEW g, g = [f EXCEPT ![c][k] = v]
  PROVE  /\ g \in [Client -> [Client -> S]]
         /\ g[c][k] = v
         /\ \A d, e \in Client : d # c \/ e # k => g[d][e] = f[d][e]
  OBVIOUS

LEMMA SentMessageType ==
  ASSUME NEW m \in Message
  PROVE  /\ [m EXCEPT !.attempts = @ + 1] \in Message
         /\ [m EXCEPT !.attempts = @ + 1].attempts = m.attempts + 1
         /\ m.id \in Nat /\ m.attempts \in Nat
  BY DEF Message

LEMMA SentQueue ==
  ASSUME NEW q \in Seq(Message), q # <<>>,
         NEW r, r = [q EXCEPT ![1].attempts = @ + 1]
  PROVE  /\ r \in Seq(Message)
         /\ r # <<>>
         /\ Head(q).id \in Nat /\ Head(q).attempts \in Nat
         /\ Head(q).attempts < 4 /\ WellKept(q) => WellKept(r)
<1>1. 1 \in DOMAIN q /\ q[1] \in Message /\ Head(q) = q[1]
  OBVIOUS
<1>2. [q[1] EXCEPT !.attempts = @ + 1] \in Message
  BY <1>1, SentMessageType
<1>3. r = [i \in DOMAIN q |-> IF i = 1 THEN [q[1] EXCEPT !.attempts = @ + 1] ELSE q[i]]
  BY <1>1
<1>4. r \in Seq(Message) /\ DOMAIN r = DOMAIN q
  BY <1>2, <1>3
<1>5. r # <<>>
  BY <1>1, <1>4
<1>6. Head(q).id \in Nat /\ Head(q).attempts \in Nat
  BY <1>1, SentMessageType
<1>7. ASSUME q[1].attempts < 4, WellKept(q)
      PROVE  WellKept(r)
  <2>1. r[1].attempts = q[1].attempts + 1
    BY <1>1, <1>3, SentMessageType
  <2>2. \A i \in DOMAIN q : i # 1 => r[i] = q[i]
    BY <1>3
  <2> QED
    BY <1>1, <1>4, <1>6, <1>7, <2>1, <2>2 DEF WellKept
<1> QED
  BY <1>1, <1>4, <1>5, <1>6, <1>7

LEMMA RestOfQueue ==
  ASSUME NEW q \in Seq(Message), q # <<>>
  PROVE  /\ Tail(q) \in Seq(Message)
         /\ WellKept(q) => WellKept(Tail(q))
         /\ WellKept(q) /\ Tail(q) # <<>> => Head(Tail(q)).attempts = 0
<1>1. /\ Tail(q) \in Seq(Message)
      /\ DOMAIN Tail(q) = 1 .. (Len(q) - 1)
      /\ \A i \in 1 .. (Len(q) - 1) : i + 1 \in DOMAIN q /\ Tail(q)[i] = q[i + 1]
  OBVIOUS
<1>2. ASSUME WellKept(q), NEW i \in DOMAIN Tail(q)
      PROVE  Tail(q)[i].attempts = 0
  BY <1>1, <1>2 DEF WellKept
<1>3. WellKept(q) => WellKept(Tail(q))
  BY <1>2 DEF WellKept
<1>4. Tail(q) # <<>> => 1 \in DOMAIN Tail(q) /\ Head(Tail(q)) = Tail(q)[1]
  BY <1>1
<1> QED
  BY <1>1, <1>2, <1>3, <1>4

LEMMA LongerQueue ==
  ASSUME NEW q \in Seq(Message), NEW id \in Nat
  PROVE  /\ NewMessage(id) \in Message
         /\ Append(q, NewMessage(id)) \in Seq(Message)
         /\ WellKept(q) => WellKept(Append(q, NewMessage(id)))
<1>1. NewMessage(id) \in Message /\ NewMessage(id).attempts = 0
  BY DEF NewMessage, Message
<1> QED
  BY <1>1 DEF WellKept, Message

\* A step changes no queue but the one c has for k.
QueueOnly(c, k) ==
  \A d, e \in Client : d # c \/ e # k => queue'[d][e] = queue[d][e]

\* A change of one queue that keeps the invariant on queues.
LEMMA QueueChange ==
  ASSUME TypeOK, OneOutstanding, NEW c \in Client, NEW k \in Client,
         NEW q \in Seq(Message), WellKept(q), queue' = [queue EXCEPT ![c][k] = q]
  PROVE  /\ queue' \in Queues
         /\ OneOutstanding'
         /\ queue'[c][k] = q
         /\ QueueOnly(c, k)
<1>1. queue \in Queues
  BY DEF TypeOK, Queues
<1>2. /\ queue' \in Queues
      /\ queue'[c][k] = q
      /\ QueueOnly(c, k)
  BY <1>1 DEF Queues, QueueOnly
<1>3. OneOutstanding'
  BY <1>2 DEF OneOutstanding, WellKept, QueueOnly
<1> QED
  BY <1>2, <1>3

LEMMA QueueIsWellKept ==
  ASSUME TypeOK, OneOutstanding, NEW c \in Client, NEW k \in Client
  PROVE  queue[c][k] \in Seq(Message) /\ WellKept(queue[c][k])
  BY DEF TypeOK, OneOutstanding, WellKept

-----------------------------------------------------------------------------
(* Datagrams.                                                              *)

LEMMA SentPacket ==
  ASSUME TypeOK, NEW net \in Inboxes, NEW s \in Client, NEW r \in Client,
         NEW d \in Datagram, send_packet(net, s, r, d)
  PROVE  inbox' \in Inboxes /\ losses' \in Nat
<1>1. Append(net[r][s], d) \in Seq(Datagram)
  BY DEF Inboxes
<1>2. [net EXCEPT ![r][s] = Append(@, d)] \in Inboxes
  BY <1>1 DEF Inboxes
<1>3. Arrive(net, s, r, d) \in Inboxes
  BY <1>2 DEF Arrive
<1>4. losses \in Nat
  BY DEF TypeOK
<1> QED
  BY <1>3, <1>4 DEF send_packet

LEMMA ReceivedPacket ==
  ASSUME TypeOK, NEW c \in Client, NEW k \in Client, inbox[c][k] # <<>>
  PROVE  /\ inbox \in Inboxes
         /\ Received(c, k) \in Inboxes
         /\ Head(inbox[c][k]) \in Datagram
<1>1. inbox \in Inboxes /\ inbox[c][k] \in Seq(Datagram)
  BY DEF TypeOK, Inboxes
<1>2. Tail(inbox[c][k]) \in Seq(Datagram) /\ Head(inbox[c][k]) \in Datagram
  BY <1>1
<1> QED
  BY <1>1, <1>2 DEF Received, Inboxes

LEMMA SentMessage ==
  ASSUME TypeOK, OneOutstanding, NEW net \in Inboxes,
         NEW c \in Client, NEW k \in Client,
         NEW q \in Seq(Message), q # <<>>, WellKept(q), Head(q).attempts < 4,
         NEW num \in {0, 1},
         send_message_to_contact(net, c, k, q, num)
  PROVE  /\ inbox' \in Inboxes /\ losses' \in Nat
         /\ queue' \in Queues /\ OneOutstanding'
         /\ queue'[c][k] # <<>>
         /\ QueueOnly(c, k)
<1>1. PICK r \in Seq(Message) :
        r = [q EXCEPT ![1].attempts = @ + 1] /\ r # <<>> /\ WellKept(r)
  BY SentQueue
<1>2. inbox' \in Inboxes /\ losses' \in Nat
  <2>1. Head(q).id \in Nat
    BY SentQueue
  <2>2. Pkt(num, Head(q).id) \in Datagram
    BY <2>1 DEF Pkt, Datagram
  <2> QED
    BY <2>2, SentPacket DEF send_message_to_contact
<1>3. queue' = [queue EXCEPT ![c][k] = r]
  BY <1>1 DEF send_message_to_contact
<1>4. /\ queue' \in Queues /\ OneOutstanding'
      /\ QueueOnly(c, k)
  <2>1. WellKept(r)
    BY <1>1
  <2> QED
    BY <2>1, <1>3, QueueChange
<1>5. queue'[c][k] = r
  <2>1. queue \in Queues
    BY DEF TypeOK, Queues
  <2> QED
    BY <1>3, <2>1 DEF Queues
<1> QED
  BY <1>1, <1>2, <1>4, <1>5

LEMMA SentNextMessage ==
  ASSUME TypeOK, OneOutstanding, NEW net \in Inboxes,
         NEW c \in Client, NEW k \in Client, NEW q \in Seq(Message), WellKept(q),
         q # <<>> => Head(q).attempts = 0,
         send_next_message_to_contact(net, c, k, q)
  PROVE  /\ inbox' \in Inboxes /\ losses' \in Nat
         /\ last_pkt_sent' \in [Client -> [Client -> {0, 1}]]
         /\ queue' \in Queues /\ OneOutstanding'
         /\ QueueOnly(c, k)
<1>1. CASE q = <<>>
  BY <1>1, QueueChange DEF send_next_message_to_contact, TypeOK
<1>2. CASE q # <<>>
  <2>1. last_pkt_sent[c][k] \in {0, 1}
    BY DEF TypeOK
  <2>2. 1 - last_pkt_sent[c][k] \in {0, 1}
    BY <2>1
  <2>3. /\ last_pkt_sent' = [last_pkt_sent EXCEPT ![c][k] = 1 - @]
        /\ send_message_to_contact(net, c, k, q, 1 - last_pkt_sent[c][k])
    BY <1>2 DEF send_next_message_to_contact
  <2>4. last_pkt_sent' \in [Client -> [Client -> {0, 1}]]
    BY <2>2, <2>3 DEF TypeOK
  <2>5. Head(q).attempts < 4
    BY <1>2
  <2> QED
    BY <1>2, <2>2, <2>3, <2>4, <2>5, SentMessage
<1> QED
  BY <1>1, <1>2

LEMMA QueuedMessage ==
  ASSUME TypeOK, OneOutstanding, NEW c \in Client, NEW k \in Client,
         NEW id \in Nat, QueueMessage(c, k, id)
  PROVE  /\ inbox' \in Inboxes /\ losses' \in Nat
         /\ last_pkt_sent' \in [Client -> [Client -> {0, 1}]]
         /\ queue' \in Queues /\ OneOutstanding'
         /\ QueueOnly(c, k)
<1>1. inbox \in Inboxes
  BY DEF TypeOK, Inboxes
<1>2. CASE queue[c][k] = <<>>
  <2>1. send_next_message_to_contact(inbox, c, k, <<NewMessage(id)>>)
    BY <1>2 DEF QueueMessage
  <2>2. /\ <<NewMessage(id)>> \in Seq(Message)
        /\ Head(<<NewMessage(id)>>).attempts = 0
        /\ WellKept(<<NewMessage(id)>>)
    BY DEF WellKept, NewMessage, Message
  <2> QED
    BY <1>1, <2>1, <2>2, SentNextMessage
<1>3. CASE queue[c][k] # <<>>
  <2>1. /\ queue' = [queue EXCEPT ![c][k] = Append(queue[c][k], NewMessage(id))]
        /\ UNCHANGED <<last_pkt_sent, netVars>>
    BY <1>3 DEF QueueMessage
  <2>2. /\ Append(queue[c][k], NewMessage(id)) \in Seq(Message)
        /\ WellKept(Append(queue[c][k], NewMessage(id)))
    BY QueueIsWellKept, LongerQueue
  <2> QED
    BY <1>1, <2>1, <2>2, QueueChange DEF netVars, TypeOK
<1> QED
  BY <1>2, <1>3

LEMMA AcceptedPkt ==
  ASSUME TypeOK, NEW net \in Inboxes, NEW c \in Client, NEW k \in Client,
         NEW num \in {0, 1}, NEW id \in Nat, AcceptPkt(net, c, k, num, id)
  PROVE  /\ inbox' \in Inboxes /\ losses' \in Nat
         /\ last_pkt_received' \in [Client -> [Client -> {-1, 0, 1}]]
         /\ accepted' \in [Client -> [Client -> Nat]]
         /\ screen' \in [Client -> [Client -> Seq(Nat)]]
<1>1. Ack(num) \in Datagram
  BY DEF Ack, Datagram
<1>2. inbox' \in Inboxes /\ losses' \in Nat
  BY <1>1, SentPacket DEF AcceptPkt
<1>3. /\ last_pkt_received \in [Client -> [Client -> {-1, 0, 1}]]
      /\ accepted \in [Client -> [Client -> Nat]]
      /\ screen \in [Client -> [Client -> Seq(Nat)]]
  BY DEF TypeOK
<1>4. CASE num # last_pkt_received[c][k]
  <2>1. /\ last_pkt_received' = [last_pkt_received EXCEPT ![c][k] = num]
        /\ accepted' = [accepted EXCEPT ![c][k] = id]
    BY <1>4 DEF AcceptPkt
  <2>2. \/ screen' = screen
        \/ screen' = [screen EXCEPT ![c][k] = Append(@, id)]
    BY <1>4 DEF AcceptPkt
  <2>3. Append(screen[c][k], id) \in Seq(Nat)
    BY <1>3
  <2>4. screen' \in [Client -> [Client -> Seq(Nat)]]
    <3>1. CASE screen' = [screen EXCEPT ![c][k] = Append(@, id)]
      <4>1. screen \in [Client -> [Client -> Seq(Nat)]]
        BY <1>3
      <4>2. screen' = [screen EXCEPT ![c][k] = Append(screen[c][k], id)]
        BY <3>1
      <4> QED
        BY <2>3, <4>1, <4>2, Update
    <3> QED
      BY <1>3, <2>2, <3>1
  <2>5. last_pkt_received' \in [Client -> [Client -> {-1, 0, 1}]]
    BY <1>3, <2>1
  <2>6. accepted' \in [Client -> [Client -> Nat]]
    BY <1>3, <2>1
  <2> QED
    BY <1>2, <2>4, <2>5, <2>6
<1>5. CASE num = last_pkt_received[c][k]
  BY <1>2, <1>3, <1>5 DEF AcceptPkt
<1> QED
  BY <1>4, <1>5

-----------------------------------------------------------------------------
(* The event loop.                                                         *)

Places == {"loop", "resend", "input", "lookup", "down", "crashed"}
Ready  == {"none", "stdin", "socket"}

\* Client c moved in its loop: the other clients did not, and all types are kept.
Moved(c) ==
  /\ pc' \in [Client -> Places]
  /\ ready' \in [Client -> Ready]
  /\ due' \in [Client -> SUBSET Client]
  /\ lookup' \in [Client -> Lookup \cup {NoLookup}]
  /\ \A d \in Client \ {c} :
       pc'[d] = pc[d] /\ due'[d] = due[d] /\ lookup'[d] = lookup[d]

LEMMA LoopTypes ==
  ASSUME TypeOK
  PROVE  /\ pc \in [Client -> Places]
         /\ ready \in [Client -> Ready]
         /\ due \in [Client -> SUBSET Client]
         /\ lookup \in [Client -> Lookup \cup {NoLookup}]
  BY DEF TypeOK, Places, Ready

LEMMA MovedByEndIteration ==
  ASSUME TypeOK, NEW c \in Client, EndIteration(c), UNCHANGED <<due, lookup>>
  PROVE  Moved(c) /\ pc'[c] = "loop" /\ due'[c] = due[c]
  BY LoopTypes DEF EndIteration, Moved, Places, Ready

LEMMA MovedByVisited ==
  ASSUME TypeOK, NEW c \in Client, NEW k \in Client, Visited(c, k),
         UNCHANGED <<ready, lookup>>
  PROVE  /\ Moved(c) /\ due'[c] = due[c] \ {k}
         /\ due'[c] # {} => pc'[c] = "resend"
         /\ pc'[c] # "lookup"
  BY LoopTypes DEF Visited, Phase, Moved, Places, Ready

LEMMA MovedByResumeResend ==
  ASSUME TypeOK, NEW c \in Client, lookup[c].nick \in Client, ResumeResend(c)
  PROVE  /\ Moved(c) /\ due'[c] = due[c] \ {lookup[c].nick}
         /\ due'[c] # {} => pc'[c] = "resend"
         /\ pc'[c] # "lookup"
  BY LoopTypes DEF ResumeResend, Visited, Phase, Moved, Places, Ready

LEMMA MovedByLeaveLookup ==
  ASSUME TypeOK, NEW c \in Client, LeaveLookup(c)
  PROVE  Moved(c) /\ pc'[c] = "loop" /\ due'[c] = due[c]
  BY LoopTypes DEF LeaveLookup, EndIteration, Moved, Places, Ready

LEMMA MovedByStartLookup ==
  ASSUME TypeOK, NEW c \in Client, NEW why \in {"send", "receive", "resend"},
         NEW k \in Client, NEW num \in {0, 1}, NEW id \in Nat,
         StartLookup(c, why, k, num, id), UNCHANGED <<ready, due>>
  PROVE  /\ Moved(c) /\ pc'[c] = "lookup" /\ due'[c] = due[c]
         /\ lookup'[c] \in Lookup
         /\ lookup'[c].why = why /\ lookup'[c].nick = k
  BY LoopTypes DEF StartLookup, Lookup, Moved, Places, Ready

\* The loop invariant is one of each client, and no client acts on another's part.
LEMMA MovedInLoop ==
  ASSUME LoopInv, NEW c \in Client, Moved(c), InLoop(c)',
         \A d \in Client \ {c} : \A k \in Client : queue'[d][k] = queue[d][k],
         TypeOK
  PROVE  LoopInv'
<1> SUFFICES ASSUME NEW d \in Client, d # c
             PROVE  InLoop(d)'
  BY DEF LoopInv
<1>1. InLoop(d) /\ due[d] \in SUBSET Client
  BY LoopTypes DEF LoopInv
<1>2. /\ pc'[d] = pc[d] /\ due'[d] = due[d] /\ lookup'[d] = lookup[d]
      /\ \A k \in Client : queue'[d][k] = queue[d][k]
  BY DEF Moved
<1>3. InLookup(d, "resend") => lookup[d].nick \in Client
  BY <1>1 DEF InLoop
<1> QED
  BY <1>1, <1>2, <1>3 DEF InLoop, InLookup, Attempts

\* Outside resend_pending_messages nothing is due.
LEMMA IdleInLoop ==
  ASSUME NEW c \in Client, due'[c] = {},
         pc'[c] = "lookup" => lookup'[c] \in Lookup /\ lookup'[c].why # "resend"
  PROVE  InLoop(c)'
  BY DEF InLoop, InLookup

LEMMA NothingDue ==
  ASSUME LoopInv, NEW c \in Client,
         pc[c] # "resend", ~ InLookup(c, "resend")
  PROVE  due[c] = {}
  BY DEF LoopInv, InLoop

-----------------------------------------------------------------------------
(* Types: the parts of TypeOK that are not the loop's.                     *)

Sent     == [Client -> [Client -> {0, 1}]]
Seen     == [Client -> [Client -> {-1, 0, 1}]]
Counts   == [Client -> [Client -> Nat]]
Screens  == [Client -> [Client -> Seq(Nat)]]

RestTypeOK ==
  /\ known \in [Client -> SUBSET Client]
  /\ queue \in Queues
  /\ last_pkt_sent \in Sent
  /\ last_pkt_received \in Seen
  /\ blocked \in [Client -> SUBSET Client]
  /\ inbox \in Inboxes
  /\ losses \in Nat
  /\ typed \in Counts
  /\ accepted \in Counts
  /\ screen \in Screens
  /\ recordStart \in Counts

LEMMA TypeParts ==
  /\ TypeOK => RestTypeOK
  /\ \A c \in Client : Moved(c) /\ RestTypeOK' => TypeOK'
<1>1. TypeOK => RestTypeOK
  BY DEF TypeOK, RestTypeOK, Queues, Inboxes, Sent, Seen, Counts, Screens
<1>2. ASSUME NEW c \in Client, Moved(c), RestTypeOK'
      PROVE  TypeOK'
  BY <1>2 DEF TypeOK, RestTypeOK, Queues, Inboxes, Sent, Seen, Counts, Screens,
              Moved, Places, Ready
<1> QED
  BY <1>1, <1>2

-----------------------------------------------------------------------------
(* Steps.                                                                  *)

LEMMA QuietStep ==
  ASSUME IInv, NEW c \in Client, Moved(c), InLoop(c)', RestTypeOK', UNCHANGED queue
  PROVE  IInv'
<1>1. TypeOK'
  BY TypeParts
<1>2. LoopInv'
  BY MovedInLoop DEF IInv
<1>3. OneOutstanding'
  BY DEF IInv, OneOutstanding
<1> QED
  BY <1>1, <1>2, <1>3 DEF IInv

LEMMA SelectKeeps ==
  ASSUME IInv, NEW c \in Client, NEW expired \in SUBSET Client,
         NEW fd \in Ready, Select(c, expired, fd)
  PROVE  IInv'
<1>1. TypeOK /\ RestTypeOK
  BY TypeParts DEF IInv
<1>2. Moved(c)
  BY <1>1, LoopTypes DEF Select, Moved, Phase, Places, Ready
<1>3. RestTypeOK'
  BY <1>1 DEF Select, RestTypeOK, contactVars, netVars, displayVars
<1>4. /\ pc'[c] = Phase(expired, fd) /\ due'[c] = expired
      /\ queue' = queue /\ expired \subseteq MayBeDue(c)
  BY <1>1, LoopTypes DEF Select, contactVars
<1>5. InLoop(c)'
  BY <1>4 DEF InLoop, InLookup, Phase, MayBeDue
<1> QED
  BY <1>2, <1>3, <1>4, <1>5, QuietStep

LEMMA LookupAgainKeeps ==
  ASSUME IInv, NEW c \in Client, NEW k \in Client, LookupAgain(c, k)
  PROVE  IInv'
<1>1. TypeOK /\ RestTypeOK
  BY TypeParts DEF IInv
<1>2. StartLookup(c, "resend", k, 0, 0) /\ UNCHANGED <<ready, due, queue>>
  BY DEF LookupAgain, contactVars
<1>3. /\ Moved(c) /\ pc'[c] = "lookup" /\ due'[c] = due[c]
      /\ lookup'[c] \in Lookup /\ lookup'[c].why = "resend" /\ lookup'[c].nick = k
  BY <1>1, <1>2, MovedByStartLookup
<1>4. RestTypeOK'
  BY <1>1 DEF LookupAgain, RestTypeOK, contactVars, netVars, displayVars
<1>5. /\ k \in due[c] /\ Head(queue[c][k]).attempts = 2
      /\ \A e \in due[c] : queue[c][e] # <<>>
  BY DEF LookupAgain, AtContact, Attempts, IInv, LoopInv, InLoop
<1>6. InLoop(c)'
  BY <1>2, <1>3, <1>5 DEF InLoop, InLookup, Attempts
<1> QED
  BY <1>2, <1>3, <1>4, <1>6, QuietStep

\* A step of main that ends its iteration and leaves the queues alone.
LEMMA EndedQuietly ==
  ASSUME IInv, NEW c \in Client, pc[c] = "input", EndIteration(c),
         UNCHANGED <<due, lookup, queue>>, RestTypeOK'
  PROVE  IInv'
<1>1. TypeOK /\ due[c] = {}
  BY NothingDue DEF IInv, InLookup
<1>2. Moved(c) /\ pc'[c] = "loop" /\ due'[c] = {}
  BY <1>1, MovedByEndIteration
<1>3. InLoop(c)'
  BY <1>2, IdleInLoop
<1> QED
  BY <1>2, <1>3, QuietStep

LEMMA StdinKeeps ==
  ASSUME IInv, NEW c \in Client, NEW k \in Client,
         RejectInput(c) \/ Block(c, k) \/ Unblock(c, k)
  PROVE  IInv'
<1>1. RestTypeOK
  BY TypeParts DEF IInv
<1>2. RestTypeOK'
  BY <1>1 DEF RejectInput, Block, Unblock, RestTypeOK, contactVars, netVars,
              displayVars
<1>3. /\ pc[c] = "input" /\ EndIteration(c)
      /\ UNCHANGED <<due, lookup, queue>>
  BY DEF RejectInput, Block, Unblock, AtStdin, contactVars
<1> QED
  BY <1>2, <1>3, EndedQuietly

\* A step of main that starts a lookup for a stranger.
LEMMA StartedLookupKeeps ==
  ASSUME IInv, NEW c \in Client, NEW k \in Client, pc[c] = "input",
         NEW why \in {"send", "receive"}, NEW num \in {0, 1}, NEW id \in Nat,
         StartLookup(c, why, k, num, id), UNCHANGED <<ready, due, queue>>,
         RestTypeOK'
  PROVE  IInv'
<1>1. TypeOK /\ due[c] = {}
  BY NothingDue DEF IInv, InLookup
<1>2. why \in {"send", "receive", "resend"} /\ why # "resend"
  OBVIOUS
<1>3. /\ Moved(c) /\ pc'[c] = "lookup" /\ due'[c] = {}
      /\ lookup'[c] \in Lookup /\ lookup'[c].why = why
  BY <1>1, <1>2, MovedByStartLookup
<1>4. InLoop(c)'
  BY <1>2, <1>3, IdleInLoop
<1> QED
  BY <1>3, <1>4, QuietStep

LEMMA TypeToStrangerKeeps ==
  ASSUME IInv, NEW c \in Client, NEW k \in Client, TypeToStranger(c, k)
  PROVE  IInv'
<1>1. RestTypeOK
  BY TypeParts DEF IInv
<1>2. typed[c][k] + 1 \in Nat /\ typed' \in Counts
  BY <1>1 DEF RestTypeOK, Counts, TypeToStranger, Typing
<1>3. RestTypeOK'
  BY <1>1, <1>2
  DEF TypeToStranger, Typing, RestTypeOK, contactVars, netVars, displayVars
<1>4. /\ pc[c] = "input" /\ StartLookup(c, "send", k, 0, typed[c][k] + 1)
      /\ UNCHANGED <<ready, due, queue>>
  BY DEF TypeToStranger, Typing, AtStdin, contactVars
<1> QED
  BY <1>2, <1>3, <1>4, StartedLookupKeeps

LEMMA ReceivePktFromStrangerKeeps ==
  ASSUME IInv, NEW c \in Client, NEW k \in Client, ReceivePktFromStranger(c, k)
  PROVE  IInv'
<1>1. RestTypeOK /\ TypeOK
  BY TypeParts DEF IInv
<1>2. /\ Received(c, k) \in Inboxes
      /\ Head(inbox[c][k]) \in Datagram
  BY <1>1, ReceivedPacket DEF ReceivePktFromStranger, Next_is
<1>3. Head(inbox[c][k]).num \in {0, 1} /\ Head(inbox[c][k]).id \in Nat
  BY <1>2 DEF Datagram
<1>4. RestTypeOK'
  BY <1>1, <1>2
  DEF ReceivePktFromStranger, RestTypeOK, contactVars, displayVars
<1>5. /\ pc[c] = "input"
      /\ StartLookup(c, "receive", k, Head(inbox[c][k]).num, Head(inbox[c][k]).id)
      /\ UNCHANGED <<ready, due, queue>>
  BY DEF ReceivePktFromStranger, AtSocket, contactVars
<1> QED
  BY <1>3, <1>4, <1>5, StartedLookupKeeps

LEMMA ReceivePktKeeps ==
  ASSUME IInv, NEW c \in Client, NEW k \in Client, ReceivePkt(c, k)
  PROVE  IInv'
<1>1. RestTypeOK /\ TypeOK
  BY TypeParts DEF IInv
<1>2. /\ Received(c, k) \in Inboxes
      /\ Head(inbox[c][k]) \in Datagram
  BY <1>1, ReceivedPacket DEF ReceivePkt, Next_is
<1>3. Head(inbox[c][k]).num \in {0, 1} /\ Head(inbox[c][k]).id \in Nat
  BY <1>2 DEF Datagram
<1>4. AcceptPkt(Received(c, k), c, k, Head(inbox[c][k]).num, Head(inbox[c][k]).id)
  BY DEF ReceivePkt
<1>5. /\ inbox' \in Inboxes /\ losses' \in Nat
      /\ last_pkt_received' \in Seen /\ accepted' \in Counts /\ screen' \in Screens
  BY <1>1, <1>2, <1>3, <1>4, AcceptedPkt DEF Seen, Counts, Screens
<1>6. RestTypeOK'
  BY <1>1, <1>5 DEF ReceivePkt, RestTypeOK
<1>7. /\ pc[c] = "input" /\ EndIteration(c)
      /\ UNCHANGED <<due, lookup, queue>>
  BY DEF ReceivePkt, AtSocket
<1> QED
  BY <1>6, <1>7, EndedQuietly

LEMMA ReceiveAckFromStrangerKeeps ==
  ASSUME IInv, NEW c \in Client, NEW k \in Client, ReceiveAckFromStranger(c, k)
  PROVE  IInv'
<1>1. RestTypeOK /\ TypeOK
  BY TypeParts DEF IInv
<1>2. Received(c, k) \in Inboxes
  BY <1>1, ReceivedPacket DEF ReceiveAckFromStranger, Next_is
<1>3. RestTypeOK'
  BY <1>1, <1>2
  DEF ReceiveAckFromStranger, RestTypeOK, contactVars, displayVars
<1>4. /\ pc[c] = "input" /\ EndIteration(c)
      /\ UNCHANGED <<due, lookup, queue>>
  BY DEF ReceiveAckFromStranger, AtSocket, contactVars
<1> QED
  BY <1>3, <1>4, EndedQuietly

-----------------------------------------------------------------------------
(* Steps that change a queue.                                              *)

LEMMA BusyStep ==
  ASSUME IInv, NEW c \in Client, Moved(c), InLoop(c)', RestTypeOK', OneOutstanding',
         \A d \in Client \ {c} : \A k \in Client : queue'[d][k] = queue[d][k]
  PROVE  IInv'
<1>1. TypeOK'
  BY TypeParts
<1>2. LoopInv'
  BY MovedInLoop DEF IInv
<1> QED
  BY <1>1, <1>2 DEF IInv

LEMMA EndedBusily ==
  ASSUME IInv, NEW c \in Client, pc[c] = "input", EndIteration(c),
         UNCHANGED <<due, lookup>>, RestTypeOK', OneOutstanding',
         \A d \in Client \ {c} : \A k \in Client : queue'[d][k] = queue[d][k]
  PROVE  IInv'
<1>1. TypeOK /\ due[c] = {}
  BY NothingDue DEF IInv, InLookup
<1>2. Moved(c) /\ pc'[c] = "loop" /\ due'[c] = {}
  BY <1>1, MovedByEndIteration
<1>3. InLoop(c)'
  BY <1>2, IdleInLoop
<1> QED
  BY <1>2, <1>3, BusyStep

LEMMA TypeToContactKeeps ==
  ASSUME IInv, NEW c \in Client, NEW k \in Client, TypeToContact(c, k)
  PROVE  IInv'
<1>1. RestTypeOK /\ TypeOK /\ OneOutstanding
  BY TypeParts DEF IInv
<1>2. typed[c][k] + 1 \in Nat /\ typed' \in Counts
  BY <1>1 DEF RestTypeOK, Counts, TypeToContact, Typing
<1>3. QueueMessage(c, k, typed[c][k] + 1)
  BY DEF TypeToContact
<1>4. /\ inbox' \in Inboxes /\ losses' \in Nat /\ last_pkt_sent' \in Sent
      /\ queue' \in Queues /\ OneOutstanding'
      /\ QueueOnly(c, k)
  BY <1>1, <1>2, <1>3, QueuedMessage DEF Sent
<1>5. RestTypeOK'
  BY <1>1, <1>2, <1>4
  DEF TypeToContact, Typing, RestTypeOK, displayVars
<1>6. /\ pc[c] = "input" /\ EndIteration(c) /\ UNCHANGED <<due, lookup>>
  BY DEF TypeToContact, Typing, AtStdin
<1> QED
  BY <1>4, <1>5, <1>6, EndedBusily DEF QueueOnly

LEMMA ReceiveAckKeeps ==
  ASSUME IInv, NEW c \in Client, NEW k \in Client, ReceiveAck(c, k)
  PROVE  IInv'
<1>1. RestTypeOK /\ TypeOK /\ OneOutstanding
  BY TypeParts DEF IInv
<1>2. Received(c, k) \in Inboxes
  BY <1>1, ReceivedPacket DEF ReceiveAck, Next_is
<1>3. /\ Tail(queue[c][k]) \in Seq(Message)
      /\ WellKept(Tail(queue[c][k]))
      /\ Tail(queue[c][k]) # <<>> => Head(Tail(queue[c][k])).attempts = 0
  BY <1>1, QueueIsWellKept, RestOfQueue DEF ReceiveAck
<1>4. send_next_message_to_contact(Received(c, k), c, k, Tail(queue[c][k]))
  BY DEF ReceiveAck
<1>5. /\ inbox' \in Inboxes /\ losses' \in Nat /\ last_pkt_sent' \in Sent
      /\ queue' \in Queues /\ OneOutstanding'
      /\ QueueOnly(c, k)
  BY <1>1, <1>2, <1>3, <1>4, SentNextMessage DEF Sent
<1>6. RestTypeOK'
  BY <1>1, <1>5 DEF ReceiveAck, RestTypeOK, displayVars
<1>7. /\ pc[c] = "input" /\ EndIteration(c) /\ UNCHANGED <<due, lookup>>
  BY DEF ReceiveAck, AtSocket
<1> QED
  BY <1>5, <1>6, <1>7, EndedBusily DEF QueueOnly

LEMMA StopKeeps ==
  ASSUME IInv, NEW c \in Client, NEW how \in {"down", "crashed"}, Stop(c, how)
  PROVE  IInv'
<1>1. RestTypeOK /\ TypeOK /\ OneOutstanding
  BY TypeParts DEF IInv
<1>2. /\ Moved(c) /\ due'[c] = {} /\ pc'[c] # "lookup"
  BY <1>1, LoopTypes DEF Stop, Moved, Places, Ready
<1>3. /\ queue' = [queue EXCEPT ![c] = [k \in Client |-> <<>>]]
      /\ queue \in Queues
  BY <1>1 DEF Stop, RestTypeOK
<1>4. /\ queue' \in Queues
      /\ \A k \in Client : queue'[c][k] = <<>>
      /\ \A d \in Client \ {c} : \A k \in Client : queue'[d][k] = queue[d][k]
  <2>1. <<>> \in Seq(Message)
    OBVIOUS
  <2>2. [k \in Client |-> <<>>] \in [Client -> Seq(Message)]
    BY <2>1
  <2> QED
    BY <1>3, <2>2 DEF Queues
<1>5. OneOutstanding'
  BY <1>1, <1>4 DEF OneOutstanding
<1>6. inbox' \in Inboxes
  <2>1. <<>> \in Seq(Datagram)
    OBVIOUS
  <2>2. [k \in Client |-> <<>>] \in [Client -> Seq(Datagram)]
    BY <2>1
  <2> QED
    BY <1>1, <2>2 DEF Stop, RestTypeOK, Inboxes
<1>7. recordStart' \in Counts
  <2>1. \A k \in Client : Len(screen[c][k]) \in Nat
    BY <1>1 DEF RestTypeOK, Screens
  <2>2. [k \in Client |-> Len(screen[c][k])] \in [Client -> Nat]
    BY <2>1
  <2> QED
    BY <1>1, <2>2 DEF Stop, RestTypeOK, Counts
<1>8. last_pkt_sent' \in Sent /\ last_pkt_received' \in Seen
  BY <1>1 DEF Stop, RestTypeOK, Sent, Seen
<1>9. RestTypeOK'
  BY <1>1, <1>4, <1>6, <1>7, <1>8 DEF Stop, RestTypeOK
<1>10. InLoop(c)'
  BY <1>2, IdleInLoop
<1> QED
  BY <1>2, <1>4, <1>5, <1>9, <1>10, BusyStep

\* c goes on to the contacts that are still due after k.
LEMMA ResendInLoop ==
  ASSUME LoopInv, NEW c \in Client, NEW k \in Client,
         due'[c] = due[c] \ {k}, due'[c] # {} => pc'[c] = "resend",
         pc'[c] # "lookup", QueueOnly(c, k), TypeOK
  PROVE  InLoop(c)'
<1>1. \A e \in due[c] : e \in Client /\ queue[c][e] # <<>>
  BY LoopTypes DEF LoopInv, InLoop
<1>2. \A e \in due'[c] : queue'[c][e] # <<>>
  BY <1>1 DEF QueueOnly
<1> QED
  BY <1>2 DEF InLoop, InLookup

LEMMA ResendKeeps ==
  ASSUME IInv, NEW c \in Client, NEW k \in Client, Resend(c, k)
  PROVE  IInv'
<1>1. RestTypeOK /\ TypeOK /\ OneOutstanding /\ LoopInv
  BY TypeParts DEF IInv
<1>2. /\ queue[c][k] \in Seq(Message) /\ queue[c][k] # <<>>
      /\ WellKept(queue[c][k])
  BY <1>1, QueueIsWellKept DEF Resend, AtContact, LoopInv, InLoop
<1>3. Head(queue[c][k]).attempts < 4
  <2>1. /\ Head(queue[c][k]) = queue[c][k][1] /\ 1 \in DOMAIN queue[c][k]
        /\ queue[c][k][1] \in Message
    BY <1>2
  <2>2. Head(queue[c][k]).attempts \in Nat /\ Head(queue[c][k]).attempts <= 4
    BY <1>2, <2>1, SentMessageType DEF WellKept
  <2>3. Head(queue[c][k]).attempts # 4
    BY DEF Resend, Attempts
  <2> QED
    BY <2>2, <2>3
<1>4. /\ inbox \in Inboxes /\ last_pkt_sent[c][k] \in {0, 1}
      /\ send_message_to_contact(inbox, c, k, queue[c][k], last_pkt_sent[c][k])
  BY <1>1 DEF RestTypeOK, Sent, Resend
<1>5. /\ inbox' \in Inboxes /\ losses' \in Nat
      /\ queue' \in Queues /\ OneOutstanding' /\ QueueOnly(c, k)
  BY <1>1, <1>2, <1>3, <1>4, SentMessage
<1>6. RestTypeOK'
  BY <1>1, <1>5 DEF Resend, RestTypeOK, displayVars
<1>7. /\ Moved(c) /\ due'[c] = due[c] \ {k}
      /\ due'[c] # {} => pc'[c] = "resend"
      /\ pc'[c] # "lookup"
  BY <1>1, MovedByVisited DEF Resend
<1>8. InLoop(c)'
  BY <1>1, <1>5, <1>7, ResendInLoop
<1> QED
  BY <1>5, <1>6, <1>7, <1>8, BusyStep DEF QueueOnly

LEMMA GiveUpKeeps ==
  ASSUME IInv, NEW c \in Client, NEW k \in Client, GiveUp(c, k)
  PROVE  IInv'
<1>1. RestTypeOK /\ TypeOK /\ OneOutstanding /\ LoopInv
  BY TypeParts DEF IInv
<1>2. <<>> \in Seq(Message) /\ WellKept(<<>>)
  BY DEF WellKept
<1>3. queue' = [queue EXCEPT ![c][k] = <<>>]
  BY DEF GiveUp
<1>4. queue' \in Queues /\ OneOutstanding' /\ QueueOnly(c, k)
  BY <1>1, <1>2, <1>3, QueueChange
<1>5. last_pkt_sent' \in Sent /\ last_pkt_received' \in Seen
  BY <1>1 DEF GiveUp, RestTypeOK, Sent, Seen
<1>6. recordStart' \in Counts
  <2>1. Len(screen[c][k]) \in Nat
    BY <1>1 DEF RestTypeOK, Screens
  <2> QED
    BY <1>1, <2>1 DEF GiveUp, RestTypeOK, Counts
<1>7. RestTypeOK'
  BY <1>1, <1>4, <1>5, <1>6 DEF GiveUp, RestTypeOK, netVars
<1>8. /\ Moved(c) /\ due'[c] = due[c] \ {k}
      /\ due'[c] # {} => pc'[c] = "resend"
      /\ pc'[c] # "lookup"
  BY <1>1, MovedByVisited DEF GiveUp
<1>9. InLoop(c)'
  BY <1>1, <1>4, <1>8, ResendInLoop
<1> QED
  BY <1>4, <1>7, <1>8, <1>9, BusyStep DEF QueueOnly

-----------------------------------------------------------------------------
(* The ends of a lookup.                                                   *)

LEMMA LookupIgnoresKeeps ==
  ASSUME IInv, NEW c \in Client, NEW k \in Client, LookupIgnores(c, k)
  PROVE  IInv'
<1>1. RestTypeOK /\ TypeOK
  BY TypeParts DEF IInv
<1>2. Received(c, k) \in Inboxes
  BY <1>1, ReceivedPacket DEF LookupIgnores
<1>3. RestTypeOK'
  BY <1>1, <1>2 DEF LookupIgnores, RestTypeOK, contactVars, displayVars
<1>4. Moved(c) /\ InLoop(c)' /\ UNCHANGED queue
  BY <1>1, LoopTypes
  DEF LookupIgnores, loopVars, contactVars, Moved, IInv, LoopInv, InLoop,
      InLookup, Attempts
<1> QED
  BY <1>3, <1>4, QuietStep

LEMMA ResendLookup ==
  ASSUME IInv, NEW c \in Client, InLookup(c, "resend")
  PROVE  LET k == lookup[c].nick IN
         /\ k \in Client
         /\ queue[c][k] \in Seq(Message) /\ queue[c][k] # <<>>
         /\ WellKept(queue[c][k])
         /\ Head(queue[c][k]).attempts = 2
<1>1. /\ lookup[c].nick \in due[c] /\ Attempts(c, lookup[c].nick) = 2
      /\ \A k \in due[c] : queue[c][k] # <<>>
  BY DEF IInv, LoopInv, InLoop
<1>2. lookup[c].nick \in Client
  BY <1>1, LoopTypes DEF IInv
<1> QED
  BY <1>1, <1>2, QueueIsWellKept DEF IInv, Attempts

LEMMA FoundForResendKeeps ==
  ASSUME IInv, NEW c \in Client, FoundForResend(c)
  PROVE  IInv'
<1> DEFINE k == lookup[c].nick
<1>1. RestTypeOK /\ TypeOK /\ OneOutstanding /\ LoopInv
  BY TypeParts DEF IInv
<1>2. /\ k \in Client
      /\ queue[c][k] \in Seq(Message) /\ queue[c][k] # <<>>
      /\ WellKept(queue[c][k]) /\ Head(queue[c][k]).attempts = 2
  BY ResendLookup DEF FoundForResend
<1>3. /\ send_message_to_contact(inbox, c, k, queue[c][k], last_pkt_sent[c][k])
      /\ ResumeResend(c)
  BY DEF FoundForResend
<1>4. RestTypeOK' <=> inbox' \in Inboxes /\ losses' \in Nat /\ queue' \in Queues
  BY <1>1 DEF FoundForResend, RestTypeOK, displayVars
<1>5. /\ Moved(c) /\ due'[c] = due[c] \ {k}
      /\ due'[c] # {} => pc'[c] = "resend"
      /\ pc'[c] # "lookup"
  BY <1>1, <1>2, <1>3, MovedByResumeResend
<1> HIDE DEF k
<1>6. Head(queue[c][k]).attempts < 4
  BY <1>2
<1>7. inbox \in Inboxes /\ last_pkt_sent[c][k] \in {0, 1}
  BY <1>1, <1>2 DEF RestTypeOK, Sent
<1>8. /\ inbox' \in Inboxes /\ losses' \in Nat
      /\ queue' \in Queues /\ OneOutstanding' /\ QueueOnly(c, k)
  BY <1>1, <1>2, <1>3, <1>6, <1>7, SentMessage
<1>9. InLoop(c)'
  BY <1>1, <1>2, <1>5, <1>8, ResendInLoop
<1> QED
  BY <1>2, <1>4, <1>5, <1>8, <1>9, BusyStep DEF QueueOnly

LEMMA NotFoundForResendKeeps ==
  ASSUME IInv, NEW c \in Client, NotFoundForResend(c)
  PROVE  IInv'
<1> DEFINE k == lookup[c].nick
<1>1. RestTypeOK /\ TypeOK /\ OneOutstanding /\ LoopInv
  BY TypeParts DEF IInv
<1>2. /\ k \in Client
      /\ queue[c][k] \in Seq(Message) /\ queue[c][k] # <<>>
      /\ WellKept(queue[c][k])
  BY ResendLookup DEF NotFoundForResend
<1>3. /\ queue' = [queue EXCEPT ![c][k] = Tail(queue[c][k])]
      /\ ResumeResend(c)
  BY DEF NotFoundForResend
<1>4. RestTypeOK' <=> queue' \in Queues
  BY <1>1 DEF NotFoundForResend, RestTypeOK, netVars, displayVars
<1>5. /\ Moved(c) /\ due'[c] = due[c] \ {k}
      /\ due'[c] # {} => pc'[c] = "resend"
      /\ pc'[c] # "lookup"
  BY <1>1, <1>2, <1>3, MovedByResumeResend
<1> HIDE DEF k
<1>6. Tail(queue[c][k]) \in Seq(Message) /\ WellKept(Tail(queue[c][k]))
  BY <1>2, RestOfQueue
<1>7. queue' \in Queues /\ OneOutstanding' /\ QueueOnly(c, k)
  BY <1>1, <1>2, <1>3, <1>6, QueueChange
<1>8. InLoop(c)'
  BY <1>1, <1>2, <1>5, <1>7, ResendInLoop
<1> QED
  BY <1>2, <1>4, <1>5, <1>7, <1>8, BusyStep DEF QueueOnly

\* A lookup made to send or to receive ends with the iteration.
LEMMA LeftLookup ==
  ASSUME IInv, NEW c \in Client, pc[c] = "lookup", ~ InLookup(c, "resend"),
         LeaveLookup(c)
  PROVE  Moved(c) /\ InLoop(c)'
<1>1. TypeOK /\ due[c] = {}
  BY NothingDue DEF IInv
<1>2. Moved(c) /\ pc'[c] = "loop" /\ due'[c] = {}
  BY <1>1, MovedByLeaveLookup
<1> QED
  BY <1>2, IdleInLoop

LEMMA FoundForSendKeeps ==
  ASSUME IInv, NEW c \in Client, FoundForSend(c)
  PROVE  IInv'
<1> DEFINE k == lookup[c].nick
<1>1. RestTypeOK /\ TypeOK /\ OneOutstanding
  BY TypeParts DEF IInv
<1>2. k \in Client /\ lookup[c].id \in Nat
  BY DEF FoundForSend, InLookup, IInv, LoopInv, InLoop, Lookup
<1>3. /\ QueueMessage(c, k, lookup[c].id) /\ LeaveLookup(c)
      /\ pc[c] = "lookup" /\ ~ InLookup(c, "resend")
  BY DEF FoundForSend, InLookup
<1>4. known' \in [Client -> SUBSET Client]
  BY <1>1, <1>2 DEF FoundForSend, RestTypeOK
<1>5. RestTypeOK' <=> /\ inbox' \in Inboxes /\ losses' \in Nat
                      /\ queue' \in Queues /\ last_pkt_sent' \in Sent
  BY <1>1, <1>4 DEF FoundForSend, RestTypeOK, displayVars
<1> HIDE DEF k
<1>6. /\ inbox' \in Inboxes /\ losses' \in Nat /\ last_pkt_sent' \in Sent
      /\ queue' \in Queues /\ OneOutstanding' /\ QueueOnly(c, k)
  BY <1>1, <1>2, <1>3, QueuedMessage DEF Sent
<1>7. Moved(c) /\ InLoop(c)'
  BY <1>3, LeftLookup
<1> QED
  BY <1>2, <1>5, <1>6, <1>7, BusyStep DEF QueueOnly

LEMMA FoundForReceiveKeeps ==
  ASSUME IInv, NEW c \in Client, FoundForReceive(c)
  PROVE  IInv'
<1> DEFINE k == lookup[c].nick
<1>1. RestTypeOK /\ TypeOK
  BY TypeParts DEF IInv
<1>2. k \in Client /\ lookup[c].id \in Nat /\ lookup[c].num \in {0, 1}
  BY DEF FoundForReceive, InLookup, IInv, LoopInv, InLoop, Lookup
<1>3. /\ AcceptPkt(inbox, c, k, lookup[c].num, lookup[c].id) /\ LeaveLookup(c)
      /\ pc[c] = "lookup" /\ ~ InLookup(c, "resend") /\ UNCHANGED queue
  BY DEF FoundForReceive, InLookup
<1>4. known' \in [Client -> SUBSET Client] /\ inbox \in Inboxes
  BY <1>1, <1>2 DEF FoundForReceive, RestTypeOK
<1>5. /\ inbox' \in Inboxes /\ losses' \in Nat
      /\ last_pkt_received' \in Seen /\ accepted' \in Counts /\ screen' \in Screens
  BY <1>1, <1>2, <1>3, <1>4, AcceptedPkt DEF Seen, Counts, Screens
<1>6. RestTypeOK'
  BY <1>1, <1>4, <1>5 DEF FoundForReceive, RestTypeOK
<1>7. Moved(c) /\ InLoop(c)'
  BY <1>3, LeftLookup
<1> QED
  BY <1>3, <1>6, <1>7, QuietStep

LEMMA NotFoundForStrangerKeeps ==
  ASSUME IInv, NEW c \in Client, NotFoundForStranger(c)
  PROVE  IInv'
<1>1. RestTypeOK'
  BY TypeParts
  DEF IInv, NotFoundForStranger, RestTypeOK, contactVars, netVars, displayVars
<1>2. Moved(c) /\ InLoop(c)' /\ UNCHANGED queue
  BY LeftLookup DEF NotFoundForStranger, InLookup, contactVars
<1> QED
  BY <1>1, <1>2, QuietStep

-----------------------------------------------------------------------------
LEMMA ClientStepKeeps ==
  ASSUME IInv, NEW c \in Client, ClientStep(c)
  PROVE  IInv'
<1>1. CASE SelectStep(c)
  BY <1>1, SelectKeeps DEF SelectStep, Ready
<1>2. CASE ResendStep(c)
  BY <1>2, ResendKeeps, LookupAgainKeeps, GiveUpKeeps DEF ResendStep
<1>3. CASE StdinStep(c)
  BY <1>3, StdinKeeps, TypeToContactKeeps, TypeToStrangerKeeps DEF StdinStep
<1>4. CASE SocketStep(c)
  BY <1>4, ReceivePktKeeps, ReceivePktFromStrangerKeeps, ReceiveAckKeeps,
     ReceiveAckFromStrangerKeeps, StopKeeps
  DEF SocketStep, PopEmptyQueue
<1>5. CASE \E k \in Client : LookupIgnores(c, k)
  BY <1>5, LookupIgnoresKeeps
<1>6. CASE LookupEnds(c)
  BY <1>6, FoundForResendKeeps, NotFoundForResendKeeps, FoundForSendKeeps,
     FoundForReceiveKeeps, NotFoundForStrangerKeeps, StopKeeps
  DEF LookupEnds, ServerSilent
<1>7. CASE Quit(c)
  BY <1>7, StopKeeps DEF Quit
<1> QED
  BY <1>1, <1>2, <1>3, <1>4, <1>5, <1>6, <1>7 DEF ClientStep

LEMMA InvariantHolds == Spec => []IInv
<1>1. Init => IInv
  <2> SUFFICES ASSUME Init
               PROVE  IInv
    OBVIOUS
  <2>1. TypeOK
    BY DEF Init, TypeOK, NoLookup
  <2>2. OneOutstanding
    BY DEF Init, OneOutstanding
  <2>3. LoopInv
    BY DEF Init, LoopInv, InLoop, InLookup
  <2> QED
    BY <2>1, <2>2, <2>3 DEF IInv
<1>2. IInv /\ [Next]_vars => IInv'
  <2>1. IInv /\ Next => IInv'
    BY ClientStepKeeps DEF Next
  <2>2. IInv /\ UNCHANGED vars => IInv'
    BY DEF IInv, TypeOK, LoopInv, InLoop, InLookup, Attempts, OneOutstanding,
           vars, loopVars, contactVars, netVars, displayVars
  <2> QED
    BY <2>1, <2>2
<1> QED
  BY <1>1, <1>2, PTL DEF Spec

\* The clients of upush_client.c keep the types of their lists, numbers and sockets.
THEOREM TypeCorrect == Spec => []TypeOK
<1>1. IInv => TypeOK
  BY DEF IInv
<1> QED
  BY <1>1, InvariantHolds, PTL

\* Of the messages queued for a contact only the oldest was ever sent, and none is
\* sent more than four times, whatever the clients, the losses, the lookups and the
\* timers do (client_to_client_com.c:35-75).
THEOREM OnlyHeadOutstanding == Spec => []OneOutstanding
<1>1. IInv => OneOutstanding
  BY DEF IInv
<1> QED
  BY <1>1, InvariantHolds, PTL

-----------------------------------------------------------------------------
(* What a step of one client does to the sockets of all.                   *)

\* The numbers of packets.
Number == {0, 1}

LEMMA PairTypes ==
  ASSUME IInv, NEW s \in Client, NEW r \in Client
  PROVE  /\ queue[s][r] \in Seq(Message) /\ last_pkt_sent[s][r] \in {0, 1}
         /\ typed[s][r] \in Nat /\ accepted[r][s] \in Nat
         /\ last_pkt_received[r][s] \in {-1, 0, 1}
         /\ screen[r][s] \in Seq(Nat) /\ recordStart[r][s] \in Nat
         /\ inbox[r][s] \in Seq(Datagram)
<1>1. TypeOK
  BY DEF IInv
<1>2. queue[s][r] \in Seq(Message) /\ last_pkt_sent[s][r] \in {0, 1}
  BY <1>1 DEF TypeOK
<1>3. typed[s][r] \in Nat /\ accepted[r][s] \in Nat
  BY <1>1 DEF TypeOK
<1>4. last_pkt_received[r][s] \in {-1, 0, 1} /\ inbox[r][s] \in Seq(Datagram)
  BY <1>1 DEF TypeOK
<1>5. screen[r][s] \in Seq(Nat) /\ recordStart[r][s] \in Nat
  BY <1>1 DEF TypeOK
<1> QED
  BY <1>2, <1>3, <1>4, <1>5

LEMMA Loop ==
  ASSUME IInv
  PROVE  /\ pc \in [Client -> Places]
         /\ due \in [Client -> SUBSET Client]
         /\ lookup \in [Client -> Lookup \cup {NoLookup}]
  BY LoopTypes DEF IInv

LEMMA Behind ==
  ASSUME NEW box \in Seq(Datagram), NEW d \in Datagram, NEW b, b = Append(box, d)
  PROVE  /\ b \in Seq(Datagram) /\ Len(box) \in Nat
         /\ DOMAIN box = 1 .. Len(box) /\ DOMAIN b = 1 .. (Len(box) + 1)
         /\ \A i \in DOMAIN box : b[i] = box[i]
         /\ b[Len(box) + 1] = d
  OBVIOUS

LEMMA Ahead ==
  ASSUME NEW box \in Seq(Datagram), box # <<>>, NEW b, b = Tail(box)
  PROVE  /\ b \in Seq(Datagram) /\ Len(box) \in Nat
         /\ DOMAIN box = 1 .. Len(box) /\ DOMAIN b = 1 .. (Len(box) - 1)
         /\ 1 \in DOMAIN box /\ Head(box) = box[1] /\ Head(box) \in Datagram
         /\ \A i \in DOMAIN b : i + 1 \in DOMAIN box /\ b[i] = box[i + 1]
  OBVIOUS

\* At most the oldest datagram was taken.
Taken(b, box) == b = box \/ (box # <<>> /\ b = Tail(box))

LEMMA TakenOff ==
  ASSUME IInv, NEW c \in Client, NEW k \in Client, inbox[c][k] # <<>>,
         NEW s \in Client, NEW r \in Client
  PROVE  /\ Taken(Received(c, k)[r][s], inbox[r][s])
         /\ Received(c, k)[c][k] = Tail(inbox[c][k])
         /\ r # c \/ s # k => Received(c, k)[r][s] = inbox[r][s]
<1>1. inbox \in Inboxes
  BY DEF IInv, TypeOK, Inboxes
<1>2. /\ Received(c, k)[c][k] = Tail(inbox[c][k])
      /\ r # c \/ s # k => Received(c, k)[r][s] = inbox[r][s]
  BY <1>1 DEF Received, Inboxes
<1> QED
  BY <1>2 DEF Taken

\* No socket but that of r gets a datagram, and it gets one from s only.
BoxOnly(net, r, s) ==
  \A a, b \in Client : a # r \/ b # s => inbox'[a][b] = net[a][b]

LEMMA SentBoxes ==
  ASSUME NEW net \in Inboxes, NEW s \in Client, NEW r \in Client, NEW d,
         send_packet(net, s, r, d)
  PROVE  /\ BoxOnly(net, r, s)
         /\ \/ inbox'[r][s] = net[r][s]
            \/ inbox'[r][s] = Append(net[r][s], d)
<1>1. \/ inbox' = net
      \/ inbox' = [net EXCEPT ![r][s] = Append(net[r][s], d)]
  <2>1. \/ Arrive(net, s, r, d) = net
        \/ Arrive(net, s, r, d) = [net EXCEPT ![r][s] = Append(net[r][s], d)]
    BY DEF Arrive
  <2>2. inbox' = Arrive(net, s, r, d) \/ inbox' = net
    BY DEF send_packet
  <2> QED
    BY <2>1, <2>2
<1>2. CASE inbox' = net
  BY <1>2 DEF BoxOnly
<1>3. CASE inbox' = [net EXCEPT ![r][s] = Append(net[r][s], d)]
  <2>1. DOMAIN net = Client /\ \A a \in Client : DOMAIN net[a] = Client
    BY DEF Inboxes
  <2>2. inbox'[r][s] = Append(net[r][s], d)
    BY <1>3, <2>1
  <2>3. \A a, b \in Client : a # r \/ b # s => inbox'[a][b] = net[a][b]
    BY <1>3, <2>1
  <2> QED
    BY <2>2, <2>3 DEF BoxOnly
<1> QED
  BY <1>1, <1>2, <1>3

-----------------------------------------------------------------------------
(* Patient timers.  A packet, the lookup it causes and its acknowledgement *)
(* are one exchange; with patient timers there is at most one between any  *)
(* two clients, for a message that is still in its queue.                  *)

Has(box, type) == \E i \in DOMAIN box : box[i].type = type

Single(box, type) ==
  \A i, j \in DOMAIN box : box[i].type = type /\ box[j].type = type => i = j

\* r looks up s for a packet that it has received.
Looked(r, s) == lookup[r].why = "receive" /\ lookup[r].nick = s

OneFlight(s, r) ==
  /\ Single(inbox[r][s], "PKT") /\ Single(inbox[s][r], "ACK")
  /\ Has(inbox[r][s], "PKT") => ~ Looked(r, s)
  /\ Has(inbox[s][r], "ACK") => ~ Has(inbox[r][s], "PKT") /\ ~ Looked(r, s)

Flying(s, r) == Has(inbox[r][s], "PKT") \/ Looked(r, s) \/ Has(inbox[s][r], "ACK")

\* A running sender keeps the message of an exchange under way, and its timer for
\* the recipient does not fire meanwhile.
PatientPair(s, r) ==
  /\ OneFlight(s, r)
  /\ Alive(s) /\ Flying(s, r) => r \in known[s] /\ queue[s][r] # <<>>
  /\ r \in due[s] => r \in known[s] /\ ~ Flying(s, r)

PatientInv == NeverPopsEmpty /\ \A s, r \in Client : PatientPair(s, r)

\* What a step adds to a socket.
Fewer(b, box, type) ==
  /\ Single(box, type) => Single(b, type)
  /\ Has(b, type) => Has(box, type)

LEMMA FewerTail ==
  ASSUME NEW box \in Seq(Datagram), box # <<>>, NEW type
  PROVE  /\ Fewer(Tail(box), box, type)
         /\ Single(box, type) /\ Head(box).type = type => ~ Has(Tail(box), type)
<1> DEFINE b == Tail(box)
<1>1. /\ Len(box) \in Nat /\ DOMAIN box = 1 .. Len(box)
      /\ DOMAIN b = 1 .. (Len(box) - 1)
      /\ 1 \in DOMAIN box /\ Head(box) = box[1]
      /\ \A i \in DOMAIN b : i + 1 \in DOMAIN box /\ b[i] = box[i + 1]
  BY Ahead
<1> HIDE DEF b
<1>2. \A i, j \in DOMAIN b : i \in Nat /\ j \in Nat /\ i + 1 # 1 /\ (i + 1 = j + 1 => i = j)
  BY <1>1
<1>3. Fewer(b, box, type)
  BY <1>1, <1>2 DEF Fewer, Single, Has
<1>4. Single(box, type) /\ Head(box).type = type => ~ Has(b, type)
  BY <1>1, <1>2 DEF Single, Has
<1> QED
  BY <1>3, <1>4 DEF b

LEMMA FewerAppend ==
  ASSUME NEW box \in Seq(Datagram), NEW d \in Datagram, NEW type
  PROVE  /\ d.type # type => Fewer(Append(box, d), box, type)
         /\ ~ Has(box, type) => Single(Append(box, d), type)
<1> DEFINE b == Append(box, d)
<1>1. /\ Len(box) \in Nat /\ DOMAIN box = 1 .. Len(box)
      /\ DOMAIN b = 1 .. (Len(box) + 1)
      /\ \A i \in DOMAIN box : b[i] = box[i]
      /\ b[Len(box) + 1] = d
  BY Behind
<1> HIDE DEF b
<1>2. \A i \in DOMAIN b : (i \in DOMAIN box /\ b[i] = box[i]) \/ (i = Len(box) + 1 /\ b[i] = d)
  <2>1. \A i \in DOMAIN b : i \in DOMAIN box \/ i = Len(box) + 1
    BY <1>1
  <2> QED
    BY <1>1, <2>1
<1>3. d.type # type => Fewer(b, box, type)
  BY <1>2 DEF Fewer, Single, Has
<1>4. ~ Has(box, type) => Single(b, type)
  BY <1>2 DEF Single, Has
<1> QED
  BY <1>3, <1>4 DEF b

LEMMA FewerTaken ==
  ASSUME NEW box \in Seq(Datagram), NEW b, Taken(b, box), NEW type
  PROVE  b \in Seq(Datagram) /\ Fewer(b, box, type)
<1>1. CASE b = box
  BY <1>1 DEF Fewer
<1>2. CASE box # <<>> /\ b = Tail(box)
  BY <1>2, FewerTail
<1> QED
  BY <1>1, <1>2 DEF Taken

\* The sockets that held net have got no datagram but at most one, of type t, from
\* c to k.
Traffic(net, c, k, t) ==
  \A a, b \in Client : \A u \in {"PKT", "ACK"} :
    a # k \/ b # c \/ u # t => Fewer(inbox'[a][b], net[a][b], u)

LEMMA TakenTraffic ==
  ASSUME IInv, NEW net, \A s, r \in Client : Taken(net[r][s], inbox[r][s]),
         NEW c \in Client, NEW k \in Client, NEW t, Traffic(net, c, k, t)
  PROVE  Traffic(inbox, c, k, t)
<1> SUFFICES ASSUME NEW a \in Client, NEW b \in Client, NEW u \in {"PKT", "ACK"},
                    a # k \/ b # c \/ u # t
             PROVE  Fewer(inbox'[a][b], inbox[a][b], u)
  BY DEF Traffic
<1>1. Fewer(net[a][b], inbox[a][b], u)
  BY PairTypes, FewerTaken
<1>2. Fewer(inbox'[a][b], net[a][b], u)
  BY DEF Traffic
<1> QED
  BY <1>1, <1>2 DEF Fewer

LEMMA SentTraffic ==
  ASSUME NEW net \in Inboxes, NEW c \in Client, NEW k \in Client,
         NEW d \in Datagram, send_packet(net, c, k, d)
  PROVE  Traffic(net, c, k, d.type)
<1> SUFFICES ASSUME NEW a \in Client, NEW b \in Client, NEW u \in {"PKT", "ACK"},
                    a # k \/ b # c \/ u # d.type
             PROVE  Fewer(inbox'[a][b], net[a][b], u)
  BY DEF Traffic
<1>1. net[a][b] \in Seq(Datagram)
  BY DEF Inboxes
<1>2. /\ BoxOnly(net, k, c)
      /\ \/ inbox'[k][c] = net[k][c]
         \/ inbox'[k][c] = Append(net[k][c], d)
  BY SentBoxes
<1>3. CASE inbox'[a][b] = net[a][b]
  BY <1>3 DEF Fewer
<1>4. CASE inbox'[a][b] # net[a][b]
  <2>1. a = k /\ b = c /\ u # d.type /\ inbox'[a][b] = Append(net[a][b], d)
    BY <1>2, <1>4 DEF BoxOnly
  <2> QED
    BY <1>1, <2>1, FewerAppend
<1> QED
  BY <1>3, <1>4

-----------------------------------------------------------------------------
(* What a step leaves of an exchange.                                      *)

NoNewFlight(s, r) ==
  /\ Fewer(inbox'[r][s], inbox[r][s], "PKT")
  /\ Fewer(inbox'[s][r], inbox[s][r], "ACK")
  /\ Looked(r, s)' => Looked(r, s)

\* s goes on with its contact for r.
KeepsContact(s, r) ==
  /\ Alive(s)' => Alive(s)
  /\ r \in known[s] => r \in known'[s]
  /\ queue[s][r] # <<>> => queue'[s][r] # <<>>
  /\ r \in due'[s] => r \in due[s]

\* s has ended, or has no exchange with r to lose.
NothingToLose(s, r) == r \notin due'[s] /\ (~ Alive(s)' \/ ~ Flying(s, r))

LEMMA OldFlight ==
  ASSUME NEW s \in Client, NEW r \in Client, PatientPair(s, r), NoNewFlight(s, r),
         KeepsContact(s, r) \/ NothingToLose(s, r)
  PROVE  PatientPair(s, r)'
<1>1. Flying(s, r)' => Flying(s, r)
  BY DEF NoNewFlight, Flying, Fewer
<1>2. OneFlight(s, r)'
  BY DEF NoNewFlight, OneFlight, PatientPair, Fewer
<1> QED
  BY <1>1, <1>2 DEF PatientPair, KeepsContact, NothingToLose

\* The exchange goes on: a packet read, a lookup begun or an answer sent.
LEMMA MovedFlight ==
  ASSUME NEW s \in Client, NEW r \in Client, PatientPair(s, r), Flying(s, r),
         OneFlight(s, r)', KeepsContact(s, r)
  PROVE  PatientPair(s, r)'
  BY DEF PatientPair, KeepsContact

\* An exchange is begun after the last one has ended.
LEMMA NewFlight ==
  ASSUME NEW s \in Client, NEW r \in Client, NEW box \in Seq(Datagram),
         ~ Has(box, "PKT"), ~ Has(inbox'[s][r], "ACK"), ~ Looked(r, s)',
         r \notin due'[s],
         \/ inbox'[r][s] = box
         \/ /\ \E d \in Datagram : inbox'[r][s] = Append(box, d)
            /\ r \in known'[s] /\ queue'[s][r] # <<>>
  PROVE  PatientPair(s, r)'
<1>1. Single(inbox'[r][s], "PKT")
  <2>1. Single(box, "PKT")
    BY DEF Single, Has
  <2> QED
    BY <2>1, FewerAppend
<1>2. OneFlight(s, r)'
  BY <1>1 DEF OneFlight, Single, Has
<1>3. Flying(s, r)' => r \in known'[s] /\ queue'[s][r] # <<>>
  BY DEF Flying
<1> QED
  BY <1>2, <1>3 DEF PatientPair

-----------------------------------------------------------------------------
(* Steps of a client c.                                                    *)

OthersStay(c) ==
  \A d \in Client : d # c =>
    /\ pc'[d] = pc[d] /\ due'[d] = due[d] /\ lookup'[d] = lookup[d]
    /\ known'[d] = known[d] /\ \A r \in Client : queue'[d][r] = queue[d][r]

\* c begins to look up no client for a packet, but perhaps k.
LooksUpOnly(c, k) == \A s \in Client : s # k /\ Looked(c, s)' => Looked(c, s)

LooksUpNobody(c) == \A s \in Client : Looked(c, s)' => Looked(c, s)

\* c loses no message of an exchange under way, unless it is one with k.
Careful(c, k) == \A r \in Client : r # k => KeepsContact(c, r) \/ NothingToLose(c, r)

CarefulWithAll(c) == \A r \in Client : KeepsContact(c, r) \/ NothingToLose(c, r)

LEMMA OthersKeep ==
  ASSUME NEW c \in Client, OthersStay(c), NEW s \in Client, s # c, NEW r \in Client
  PROVE  KeepsContact(s, r) /\ (Looked(s, r)' => Looked(s, r))
  BY DEF OthersStay, KeepsContact, Alive, Looked

LEMMA NobodyCrashes ==
  ASSUME PatientInv, NEW c \in Client, OthersStay(c), pc'[c] # "crashed"
  PROVE  NeverPopsEmpty'
  BY DEF PatientInv, NeverPopsEmpty, OthersStay

\* A step that sends at most a packet to k.
LEMMA SenderStep ==
  ASSUME IInv, PatientInv, NEW c \in Client, NEW k \in Client,
         OthersStay(c), pc'[c] # "crashed", LooksUpNobody(c),
         Traffic(inbox, c, k, "PKT"), Careful(c, k), PatientPair(c, k)'
  PROVE  PatientInv'
<1> SUFFICES ASSUME NEW s \in Client, NEW r \in Client, s # c \/ r # k
             PROVE  PatientPair(s, r)'
  BY NobodyCrashes DEF PatientInv
<1>1. PatientPair(s, r)
  BY DEF PatientInv
<1>2. NoNewFlight(s, r)
  BY OthersKeep DEF Traffic, NoNewFlight, LooksUpNobody
<1>3. KeepsContact(s, r) \/ NothingToLose(s, r)
  BY OthersKeep DEF Careful
<1> QED
  BY <1>1, <1>2, <1>3, OldFlight

\* A step that answers at most a packet of k.
LEMMA RecipientStep ==
  ASSUME IInv, PatientInv, NEW c \in Client, NEW k \in Client,
         OthersStay(c), pc'[c] # "crashed", LooksUpOnly(c, k),
         Traffic(inbox, c, k, "ACK"), CarefulWithAll(c), PatientPair(k, c)'
  PROVE  PatientInv'
<1> SUFFICES ASSUME NEW s \in Client, NEW r \in Client, s # k \/ r # c
             PROVE  PatientPair(s, r)'
  BY NobodyCrashes DEF PatientInv
<1>1. PatientPair(s, r)
  BY DEF PatientInv
<1>2. NoNewFlight(s, r)
  BY OthersKeep DEF Traffic, NoNewFlight, LooksUpOnly
<1>3. KeepsContact(s, r) \/ NothingToLose(s, r)
  BY OthersKeep DEF CarefulWithAll
<1> QED
  BY <1>1, <1>2, <1>3, OldFlight

\* A step that sends nothing.
LEMMA SilentStep ==
  ASSUME IInv, PatientInv, NEW c \in Client,
         OthersStay(c), pc'[c] # "crashed", LooksUpNobody(c),
         \A s, r \in Client : inbox'[r][s] = <<>> \/ Taken(inbox'[r][s], inbox[r][s]),
         CarefulWithAll(c)
  PROVE  PatientInv'
<1> SUFFICES ASSUME NEW s \in Client, NEW r \in Client
             PROVE  PatientPair(s, r)'
  BY NobodyCrashes DEF PatientInv
<1>1. PatientPair(s, r)
  BY DEF PatientInv
<1>2. Fewer(<<>>, inbox[r][s], "PKT") /\ Fewer(<<>>, inbox[s][r], "ACK")
  BY DEF Fewer, Single, Has
<1>3. Fewer(inbox'[r][s], inbox[r][s], "PKT") /\ Fewer(inbox'[s][r], inbox[s][r], "ACK")
  BY <1>2, PairTypes, FewerTaken
<1>4. NoNewFlight(s, r)
  BY <1>3, OthersKeep DEF NoNewFlight, LooksUpNobody
<1>5. KeepsContact(s, r) \/ NothingToLose(s, r)
  BY OthersKeep DEF CarefulWithAll
<1> QED
  BY <1>1, <1>4, <1>5, OldFlight

-----------------------------------------------------------------------------
(* Steps that send nothing.                                                *)

\* c goes on in its loop and keeps its contacts, their queues and their timers.
LEMMA IdleStep ==
  ASSUME IInv, PatientInv, NEW c \in Client, Alive(c), pc'[c] # "crashed",
         \A d \in Client : d # c => pc'[d] = pc[d] /\ lookup'[d] = lookup[d],
         LooksUpNobody(c), UNCHANGED <<known, queue, due>>,
         \/ UNCHANGED inbox
         \/ \E k \in Client : inbox[c][k] # <<>> /\ inbox' = Received(c, k)
  PROVE  PatientInv'
<1>1. \A s, r \in Client : Taken(inbox'[r][s], inbox[r][s])
  BY TakenOff DEF Taken
<1>2. OthersStay(c)
  BY DEF OthersStay
<1>3. CarefulWithAll(c)
  BY DEF CarefulWithAll, KeepsContact
<1> QED
  BY <1>1, <1>2, <1>3, SilentStep

LEMMA LookupAgainIsPatient ==
  ASSUME IInv, PatientInv, NEW c \in Client, NEW k \in Client, LookupAgain(c, k)
  PROVE  PatientInv'
<1>1. /\ pc[c] = "resend" /\ pc' = [pc EXCEPT ![c] = "lookup"]
      /\ lookup' = [lookup EXCEPT ![c] = [why |-> "resend", nick |-> k, num |-> 0, id |-> 0]]
      /\ UNCHANGED <<known, queue, due, inbox>>
  BY DEF LookupAgain, StartLookup, AtContact, contactVars, netVars
<1>2. LooksUpNobody(c)
  BY <1>1, Loop DEF LooksUpNobody, Looked
<1> QED
  BY <1>1, <1>2, Loop, IdleStep DEF Alive

LEMMA StdinIsPatient ==
  ASSUME IInv, PatientInv, NEW c \in Client, NEW k \in Client,
         RejectInput(c) \/ Block(c, k) \/ Unblock(c, k)
  PROVE  PatientInv'
<1>1. /\ pc[c] = "input" /\ pc' = [pc EXCEPT ![c] = "loop"]
      /\ UNCHANGED <<known, queue, due, lookup, inbox>>
  BY DEF RejectInput, Block, Unblock, AtStdin, EndIteration, contactVars, netVars
<1>2. LooksUpNobody(c)
  BY <1>1 DEF LooksUpNobody, Looked
<1> QED
  BY <1>1, <1>2, Loop, IdleStep DEF Alive

LEMMA TypeToStrangerIsPatient ==
  ASSUME IInv, PatientInv, NEW c \in Client, NEW k \in Client, TypeToStranger(c, k)
  PROVE  PatientInv'
<1>1. PICK n : StartLookup(c, "send", k, 0, n)
  BY DEF TypeToStranger
<1>2. /\ pc[c] = "input" /\ pc' = [pc EXCEPT ![c] = "lookup"]
      /\ lookup' = [lookup EXCEPT ![c] = [why |-> "send", nick |-> k, num |-> 0, id |-> n]]
      /\ UNCHANGED <<known, queue, due, inbox>>
  BY <1>1 DEF TypeToStranger, Typing, StartLookup, AtStdin, contactVars, netVars
<1>3. LooksUpNobody(c)
  BY <1>2, Loop DEF LooksUpNobody, Looked
<1> QED
  BY <1>2, <1>3, Loop, IdleStep DEF Alive

LEMMA ReceiveAckFromStrangerIsPatient ==
  ASSUME IInv, PatientInv, NEW c \in Client, NEW k \in Client,
         ReceiveAckFromStranger(c, k)
  PROVE  PatientInv'
<1>1. /\ pc[c] = "input" /\ pc' = [pc EXCEPT ![c] = "loop"]
      /\ inbox[c][k] # <<>> /\ inbox' = Received(c, k)
      /\ UNCHANGED <<known, queue, due, lookup>>
  BY DEF ReceiveAckFromStranger, AtSocket, Next_is, EndIteration, contactVars
<1>2. LooksUpNobody(c)
  BY <1>1 DEF LooksUpNobody, Looked
<1> QED
  BY <1>1, <1>2, Loop, IdleStep DEF Alive

LEMMA LookupIgnoresIsPatient ==
  ASSUME IInv, PatientInv, NEW c \in Client, NEW k \in Client, LookupIgnores(c, k)
  PROVE  PatientInv'
<1>1. /\ pc[c] = "lookup" /\ inbox[c][k] # <<>> /\ inbox' = Received(c, k)
      /\ UNCHANGED <<known, queue, due, pc, lookup>>
  BY DEF LookupIgnores, loopVars, contactVars
<1>2. LooksUpNobody(c)
  BY <1>1 DEF LooksUpNobody, Looked
<1> QED
  BY <1>1, <1>2, IdleStep DEF Alive

LEMMA NotFoundForStrangerIsPatient ==
  ASSUME IInv, PatientInv, NEW c \in Client, NotFoundForStranger(c)
  PROVE  PatientInv'
<1>1. /\ pc[c] = "lookup" /\ pc' = [pc EXCEPT ![c] = "loop"]
      /\ lookup' = [lookup EXCEPT ![c] = NoLookup]
      /\ UNCHANGED <<known, queue, due, inbox>>
  BY DEF NotFoundForStranger, InLookup, LeaveLookup, EndIteration, contactVars, netVars
<1>2. LooksUpNobody(c)
  BY <1>1, Loop DEF LooksUpNobody, Looked, NoLookup
<1> QED
  BY <1>1, <1>2, Loop, IdleStep DEF Alive

\* select finds late only contacts without an exchange under way.
LEMMA SelectIsPatient ==
  ASSUME Patient, IInv, PatientInv, NEW c \in Client, NEW expired \in SUBSET Client,
         NEW fd \in Ready, Select(c, expired, fd)
  PROVE  PatientInv'
<1>1. /\ pc[c] = "loop" /\ due' = [due EXCEPT ![c] = expired]
      /\ pc' = [pc EXCEPT ![c] = Phase(expired, fd)]
      /\ UNCHANGED <<known, queue, lookup, inbox>>
  BY DEF Select, contactVars, netVars
<1>2. OthersStay(c) /\ pc'[c] # "crashed" /\ due'[c] = expired
  BY <1>1, Loop DEF OthersStay, Phase
<1>3. \A r \in expired : r \in known[c] /\ ~ Flying(c, r)
  BY DEF Select, MayBeDue, InFlight, Flying, Looked, Waiting, Has
<1> SUFFICES ASSUME NEW s \in Client, NEW r \in Client
             PROVE  PatientPair(s, r)'
  BY <1>2, NobodyCrashes DEF PatientInv
<1>4. PatientPair(s, r)
  BY DEF PatientInv
<1>5. /\ NoNewFlight(s, r) /\ (Flying(s, r)' <=> Flying(s, r))
      /\ OneFlight(s, r)' <=> OneFlight(s, r)
  BY <1>1 DEF NoNewFlight, Fewer, Looked, Flying, OneFlight
<1>6. CASE s = c
  BY <1>1, <1>2, <1>3, <1>4, <1>5, <1>6 DEF PatientPair, Alive
<1>7. CASE s # c
  BY <1>2, <1>4, <1>5, <1>7, OthersKeep, OldFlight
<1> QED
  BY <1>6, <1>7

\* c has gone through the contact k, and goes on with the others.
GoesOn(c, k) ==
  /\ Alive(c) /\ pc'[c] # "crashed" /\ OthersStay(c) /\ LooksUpNobody(c)
  /\ due'[c] = due[c] \ {k}

LEMMA VisitedGoesOn ==
  ASSUME IInv, NEW c \in Client, NEW k \in Client, AtContact(c, k), Visited(c, k),
         UNCHANGED lookup, QueueOnly(c, k), \A d \in Client : d # c => known'[d] = known[d]
  PROVE  GoesOn(c, k)
<1>1. /\ pc' = [pc EXCEPT ![c] = Phase(due[c] \ {k}, ready[c])] /\ pc[c] = "resend"
      /\ due' = [due EXCEPT ![c] = due[c] \ {k}]
  BY DEF Visited, AtContact
<1>2. LooksUpNobody(c)
  BY DEF LooksUpNobody, Looked
<1>3. OthersStay(c)
  BY <1>1, Loop DEF OthersStay, QueueOnly
<1> QED
  BY <1>1, <1>2, <1>3, Loop DEF GoesOn, Alive, Phase

LEMMA ResumeGoesOn ==
  ASSUME IInv, NEW c \in Client, NEW k \in Client, InLookup(c, "resend"),
         k = lookup[c].nick, ResumeResend(c),
         QueueOnly(c, k), \A d \in Client : d # c => known'[d] = known[d]
  PROVE  GoesOn(c, k) /\ k \in due[c]
<1>1. /\ pc' = [pc EXCEPT ![c] = Phase(due[c] \ {k}, ready[c])] /\ pc[c] = "lookup"
      /\ due' = [due EXCEPT ![c] = due[c] \ {k}]
      /\ lookup' = [lookup EXCEPT ![c] = NoLookup]
  BY DEF ResumeResend, Visited, InLookup
<1>2. LooksUpNobody(c)
  BY <1>1, Loop DEF LooksUpNobody, Looked, NoLookup
<1>3. OthersStay(c)
  BY <1>1, Loop DEF OthersStay, QueueOnly
<1>4. k \in due[c]
  BY DEF IInv, LoopInv, InLoop
<1> QED
  BY <1>1, <1>2, <1>3, <1>4, Loop DEF GoesOn, Alive, Phase

\* A message, or the contact itself, is given up: no exchange is under way.
LEMMA GivenUp ==
  ASSUME IInv, PatientInv, NEW c \in Client, NEW k \in Client, GoesOn(c, k),
         k \in due[c], QueueOnly(c, k), known[c] \ {k} \in SUBSET known'[c],
         UNCHANGED inbox
  PROVE  PatientInv'
<1>1. \A s, r \in Client : Taken(inbox'[r][s], inbox[r][s])
  BY DEF Taken
<1>2. NothingToLose(c, k)
  BY DEF NothingToLose, GoesOn, PatientInv, PatientPair
<1>3. ASSUME NEW r \in Client, r # k
      PROVE  KeepsContact(c, r)
  BY <1>3 DEF KeepsContact, GoesOn, QueueOnly
<1>4. CarefulWithAll(c)
  BY <1>2, <1>3 DEF CarefulWithAll
<1> QED
  BY <1>1, <1>4, SilentStep DEF GoesOn

LEMMA GiveUpIsPatient ==
  ASSUME IInv, PatientInv, NEW c \in Client, NEW k \in Client, GiveUp(c, k)
  PROVE  PatientInv'
<1>1. /\ queue' = [queue EXCEPT ![c][k] = <<>>]
      /\ known' = [known EXCEPT ![c] = @ \ {k}]
      /\ AtContact(c, k) /\ k \in due[c] /\ Visited(c, k)
      /\ UNCHANGED <<lookup, inbox>>
  BY DEF GiveUp, AtContact, netVars
<1>2. queue \in Queues /\ known \in [Client -> SUBSET Client]
  BY TypeParts DEF IInv, RestTypeOK
<1>3. QueueOnly(c, k) /\ known'[c] = known[c] \ {k}
      /\ \A d \in Client : d # c => known'[d] = known[d]
  BY <1>1, <1>2 DEF QueueOnly, Queues
<1> QED
  BY <1>1, <1>3, VisitedGoesOn, GivenUp

LEMMA NotFoundForResendIsPatient ==
  ASSUME IInv, PatientInv, NEW c \in Client, NotFoundForResend(c)
  PROVE  PatientInv'
<1>1. PICK k \in Client : k = lookup[c].nick
  BY ResendLookup DEF NotFoundForResend
<1>2. /\ queue' = [queue EXCEPT ![c][k] = Tail(queue[c][k])]
      /\ InLookup(c, "resend") /\ ResumeResend(c)
      /\ UNCHANGED <<known, inbox>>
  BY <1>1 DEF NotFoundForResend, netVars
<1>3. queue \in Queues
  BY TypeParts DEF IInv, RestTypeOK
<1>4. QueueOnly(c, k)
  BY <1>2, <1>3 DEF QueueOnly, Queues
<1> QED
  BY <1>1, <1>2, <1>4, ResumeGoesOn, GivenUp

LEMMA StopIsPatient ==
  ASSUME IInv, PatientInv, NEW c \in Client, Stop(c, "down")
  PROVE  PatientInv'
<1>1. /\ inbox \in Inboxes /\ queue \in Queues /\ known \in [Client -> SUBSET Client]
  BY TypeParts DEF IInv, RestTypeOK
<1>2. \A s, r \in Client : inbox'[r][s] = <<>> \/ Taken(inbox'[r][s], inbox[r][s])
  BY <1>1 DEF Stop, Inboxes, Taken
<1>3. /\ pc' = [pc EXCEPT ![c] = "down"]
      /\ due' = [due EXCEPT ![c] = {}]
      /\ lookup' = [lookup EXCEPT ![c] = NoLookup]
      /\ known' = [known EXCEPT ![c] = {}]
      /\ queue' = [queue EXCEPT ![c] = [k \in Client |-> <<>>]]
  BY DEF Stop
<1>4. OthersStay(c) /\ pc'[c] = "down" /\ due'[c] = {}
  BY <1>1, <1>3, Loop DEF OthersStay, Queues
<1>5. LooksUpNobody(c)
  BY <1>3, Loop DEF LooksUpNobody, Looked, NoLookup
<1>6. CarefulWithAll(c)
  BY <1>4 DEF CarefulWithAll, NothingToLose, Alive
<1> QED
  BY <1>2, <1>4, <1>5, <1>6, SilentStep

-----------------------------------------------------------------------------
(* Steps that send a packet.                                               *)

\* In net, no exchange from c to k is under way.
Clear(net, c, k) == ~ Has(net[k][c], "PKT") /\ ~ Has(net[c][k], "ACK")

\* c has k as a contact and may begin an exchange with it.
MayBegin(c, k) == k \in known'[c] /\ k \notin due'[c] /\ ~ Looked(k, c)'

LEMMA PacketBegins ==
  ASSUME IInv, NEW net \in Inboxes, NEW c \in Client, NEW k \in Client,
         Clear(net, c, k), MayBegin(c, k),
         NEW q \in Seq(Message), q # <<>>, NEW num \in Number,
         send_message_to_contact(net, c, k, q, num)
  PROVE  Traffic(net, c, k, "PKT") /\ PatientPair(c, k)' /\ QueueOnly(c, k)
<1>1. queue \in Queues /\ net[k][c] \in Seq(Datagram)
  BY TypeParts DEF IInv, RestTypeOK, Inboxes
<1>2. PICK r \in Seq(Message) : r = [q EXCEPT ![1].attempts = @ + 1] /\ r # <<>>
  BY SentQueue
<1>3. queue'[c][k] # <<>> /\ QueueOnly(c, k)
  BY <1>1, <1>2 DEF send_message_to_contact, Queues, QueueOnly
<1>4. PICK d \in Datagram : d = Pkt(num, Head(q).id) /\ d.type = "PKT"
  <2>1. Head(q).id \in Nat
    BY SentQueue
  <2>2. Pkt(num, Head(q).id) \in Datagram /\ Pkt(num, Head(q).id).type = "PKT"
    BY <2>1 DEF Pkt, Datagram, Number
  <2> QED
    BY <2>2
<1>5. send_packet(net, c, k, d)
  BY <1>4 DEF send_message_to_contact
<1>6. Traffic(net, c, k, "PKT")
  BY <1>4, <1>5, SentTraffic
<1>7. ~ Has(inbox'[c][k], "ACK")
  BY <1>6 DEF Traffic, Clear, Fewer
<1>8. \/ inbox'[k][c] = net[k][c]
      \/ inbox'[k][c] = Append(net[k][c], d)
  BY <1>5, SentBoxes
<1>9. ~ Has(net[k][c], "PKT")
  BY DEF Clear
<1>10. PatientPair(c, k)'
  BY <1>1, <1>3, <1>7, <1>8, <1>9, NewFlight DEF MayBegin
<1> QED
  BY <1>3, <1>6, <1>10

LEMMA NextBegins ==
  ASSUME IInv, NEW net \in Inboxes, NEW c \in Client, NEW k \in Client,
         Clear(net, c, k), MayBegin(c, k),
         NEW q \in Seq(Message), send_next_message_to_contact(net, c, k, q)
  PROVE  Traffic(net, c, k, "PKT") /\ PatientPair(c, k)' /\ QueueOnly(c, k)
<1>1. queue \in Queues /\ last_pkt_sent \in Sent /\ net[k][c] \in Seq(Datagram)
  BY TypeParts DEF IInv, RestTypeOK, Inboxes
<1>2. CASE q = <<>>
  <2>1. inbox' = net /\ queue' = [queue EXCEPT ![c][k] = q]
    BY <1>2 DEF send_next_message_to_contact
  <2>2. QueueOnly(c, k)
    BY <1>1, <2>1 DEF Queues, QueueOnly
  <2>3. Traffic(net, c, k, "PKT")
    BY <2>1 DEF Traffic, Fewer
  <2>4. ~ Has(net[k][c], "PKT") /\ ~ Has(inbox'[c][k], "ACK") /\ inbox'[k][c] = net[k][c]
    BY <2>1 DEF Clear
  <2>5. PatientPair(c, k)'
    BY <1>1, <2>4, NewFlight DEF MayBegin
  <2> QED
    BY <2>2, <2>3, <2>5
<1>3. CASE q # <<>>
  <2>1. PICK num \in Number : num = 1 - last_pkt_sent[c][k]
    <3>1. last_pkt_sent[c][k] \in {0, 1}
      BY <1>1 DEF Sent
    <3> QED
      BY <3>1 DEF Number
  <2>2. send_message_to_contact(net, c, k, q, num)
    BY <1>3, <2>1 DEF send_next_message_to_contact
  <2> QED
    BY <1>3, <2>2, PacketBegins
<1> QED
  BY <1>2, <1>3

\* A contact whose timer has expired has no exchange under way: it is sent its
\* message again.
LEMMA SentAgainIsPatient ==
  ASSUME IInv, PatientInv, NEW c \in Client, NEW k \in Client, GoesOn(c, k),
         k \in due[c], queue[c][k] # <<>>, UNCHANGED known,
         send_message_to_contact(inbox, c, k, queue[c][k], last_pkt_sent[c][k])
  PROVE  PatientInv'
<1>1. inbox \in Inboxes /\ queue[c][k] \in Seq(Message) /\ last_pkt_sent[c][k] \in Number
  BY PairTypes, TypeParts DEF IInv, RestTypeOK, Number
<1>2. PatientPair(c, k)
  BY DEF PatientInv
<1>3. Clear(inbox, c, k) /\ k \in known[c] /\ ~ Looked(k, c)
  BY <1>2 DEF PatientPair, Flying, Clear
<1>4. MayBegin(c, k)
  BY <1>3, OthersKeep DEF MayBegin, GoesOn, LooksUpNobody
<1>5. Traffic(inbox, c, k, "PKT") /\ PatientPair(c, k)' /\ QueueOnly(c, k)
  BY <1>1, <1>3, <1>4, PacketBegins
<1>6. Careful(c, k)
  BY <1>5 DEF Careful, KeepsContact, GoesOn, QueueOnly
<1> QED
  BY <1>5, <1>6, SenderStep DEF GoesOn

LEMMA QueueOfSent ==
  ASSUME IInv, NEW net, NEW c \in Client, NEW k \in Client, NEW q, NEW num,
         send_message_to_contact(net, c, k, q, num)
  PROVE  QueueOnly(c, k)
<1>1. queue \in Queues
  BY TypeParts DEF IInv, RestTypeOK
<1> QED
  BY <1>1 DEF send_message_to_contact, Queues, QueueOnly

LEMMA ResendIsPatient ==
  ASSUME IInv, PatientInv, NEW c \in Client, NEW k \in Client, Resend(c, k)
  PROVE  PatientInv'
<1>1. /\ AtContact(c, k) /\ k \in due[c] /\ Visited(c, k)
      /\ send_message_to_contact(inbox, c, k, queue[c][k], last_pkt_sent[c][k])
      /\ UNCHANGED <<lookup, known>>
  BY DEF Resend, AtContact
<1>2. queue[c][k] # <<>>
  BY <1>1 DEF IInv, LoopInv, InLoop
<1>3. QueueOnly(c, k)
  BY <1>1, QueueOfSent
<1>4. GoesOn(c, k)
  BY <1>1, <1>3, VisitedGoesOn
<1> QED
  BY <1>1, <1>2, <1>4, SentAgainIsPatient

LEMMA FoundForResendIsPatient ==
  ASSUME IInv, PatientInv, NEW c \in Client, FoundForResend(c)
  PROVE  PatientInv'
<1>1. PICK k \in Client : k = lookup[c].nick /\ queue[c][k] # <<>>
  BY ResendLookup DEF FoundForResend
<1>2. /\ InLookup(c, "resend") /\ ResumeResend(c)
      /\ send_message_to_contact(inbox, c, k, queue[c][k], last_pkt_sent[c][k])
      /\ UNCHANGED known
  BY <1>1 DEF FoundForResend
<1>3. QueueOnly(c, k)
  BY <1>2, QueueOfSent
<1>4. GoesOn(c, k) /\ k \in due[c]
  BY <1>1, <1>2, <1>3, ResumeGoesOn
<1> QED
  BY <1>1, <1>2, <1>4, SentAgainIsPatient

\* c ends its iteration, and has the contact k from now on.
EndsWith(c, k) ==
  /\ Alive(c) /\ pc' = [pc EXCEPT ![c] = "loop"] /\ LooksUpNobody(c)
  /\ \A d \in Client : d # c => lookup'[d] = lookup[d]
  /\ known \in [Client -> SUBSET Client] /\ known' = [known EXCEPT ![c] = @ \cup {k}]
  /\ UNCHANGED due /\ due[c] = {}

LEMMA EndedWith ==
  ASSUME IInv, NEW c \in Client, NEW k \in Client, EndsWith(c, k), QueueOnly(c, k)
  PROVE  OthersStay(c) /\ pc'[c] # "crashed" /\ Careful(c, k)
<1>1. /\ \A d \in Client : d # c => pc'[d] = pc[d] /\ known'[d] = known[d]
      /\ pc'[c] = "loop" /\ known'[c] = known[c] \cup {k}
  BY Loop DEF EndsWith
<1>2. OthersStay(c)
  BY <1>1 DEF OthersStay, EndsWith, QueueOnly
<1>3. Careful(c, k)
  BY <1>1 DEF Careful, KeepsContact, EndsWith, QueueOnly
<1> QED
  BY <1>1, <1>2, <1>3

\* A message is queued, and sent if it is alone in its queue.
LEMMA QueuedIsPatient ==
  ASSUME IInv, PatientInv, NEW c \in Client, NEW k \in Client, EndsWith(c, k),
         NEW n \in Nat, QueueMessage(c, k, n)
  PROVE  PatientInv'
<1> DEFINE q == Append(queue[c][k], NewMessage(n))
<1>1. inbox \in Inboxes /\ queue \in Queues /\ queue[c][k] \in Seq(Message)
  BY PairTypes, TypeParts DEF IInv, RestTypeOK
<1>2. q \in Seq(Message) /\ q # <<>>
  BY <1>1, LongerQueue
<1>3. PatientPair(c, k)
  BY DEF PatientInv
<1>4. k \in known'[c] /\ k \notin due'[c] /\ (Looked(k, c)' => Looked(k, c))
  BY DEF EndsWith, LooksUpNobody, Looked
<1>5. CASE queue[c][k] = <<>>
  <2>1. q = <<NewMessage(n)>>
    BY <1>5
  <2>2. send_next_message_to_contact(inbox, c, k, q)
    BY <1>5, <2>1 DEF QueueMessage
  <2> HIDE DEF q
  <2>3. Clear(inbox, c, k) /\ ~ Looked(k, c)
    BY <1>3, <1>5 DEF PatientPair, Flying, Clear, EndsWith
  <2>4. MayBegin(c, k)
    BY <1>4, <2>3 DEF MayBegin
  <2>5. Traffic(inbox, c, k, "PKT") /\ PatientPair(c, k)' /\ QueueOnly(c, k)
    BY <1>1, <1>2, <2>2, <2>3, <2>4, NextBegins
  <2> QED
    BY <2>5, EndedWith, SenderStep DEF EndsWith
<1>6. CASE queue[c][k] # <<>>
  <2>1. queue' = [queue EXCEPT ![c][k] = q] /\ UNCHANGED inbox
    BY <1>6 DEF QueueMessage, netVars
  <2> HIDE DEF q
  <2>2. QueueOnly(c, k) /\ queue'[c][k] # <<>>
    BY <1>1, <1>2, <2>1 DEF QueueOnly, Queues
  <2>3. OthersStay(c) /\ pc'[c] # "crashed" /\ Careful(c, k)
    BY <2>2, EndedWith
  <2>4. KeepsContact(c, k)
    BY <1>4, <2>2 DEF KeepsContact, EndsWith
  <2>5. CarefulWithAll(c)
    BY <2>3, <2>4 DEF CarefulWithAll, Careful
  <2>6. \A s, r \in Client : Taken(inbox'[r][s], inbox[r][s])
    BY <2>1 DEF Taken
  <2> QED
    BY <2>3, <2>5, <2>6, SilentStep DEF EndsWith
<1> QED
  BY <1>5, <1>6

LEMMA TypeToContactIsPatient ==
  ASSUME IInv, PatientInv, NEW c \in Client, NEW k \in Client, TypeToContact(c, k)
  PROVE  PatientInv'
<1>1. /\ pc[c] = "input" /\ pc' = [pc EXCEPT ![c] = "loop"]
      /\ k \in known[c] /\ UNCHANGED <<known, lookup, due>>
  BY DEF TypeToContact, Typing, AtStdin, EndIteration
<1>2. due[c] = {} /\ known \in [Client -> SUBSET Client]
  BY <1>1, NothingDue, TypeParts DEF IInv, InLookup, RestTypeOK
<1>3. known' = [known EXCEPT ![c] = known[c] \cup {k}]
  BY <1>1, <1>2
<1>4. EndsWith(c, k)
  BY <1>1, <1>2, <1>3 DEF EndsWith, Alive, LooksUpNobody, Looked
<1>5. PICK n \in Nat : QueueMessage(c, k, n)
  <2>1. typed[c][k] + 1 \in Nat
    BY PairTypes
  <2> QED
    BY <2>1 DEF TypeToContact
<1> QED
  BY <1>4, <1>5, QueuedIsPatient

LEMMA FoundForSendIsPatient ==
  ASSUME IInv, PatientInv, NEW c \in Client, FoundForSend(c)
  PROVE  PatientInv'
<1>1. PICK k \in Client, n \in Nat : k = lookup[c].nick /\ n = lookup[c].id
  BY DEF FoundForSend, InLookup, IInv, LoopInv, InLoop, Lookup
<1>2. /\ pc[c] = "lookup" /\ ~ InLookup(c, "resend") /\ pc' = [pc EXCEPT ![c] = "loop"]
      /\ lookup' = [lookup EXCEPT ![c] = NoLookup]
      /\ known' = [known EXCEPT ![c] = known[c] \cup {k}]
      /\ UNCHANGED due /\ QueueMessage(c, k, n)
  BY <1>1 DEF FoundForSend, InLookup, LeaveLookup, EndIteration
<1>3. due[c] = {} /\ known \in [Client -> SUBSET Client]
  BY <1>2, NothingDue, TypeParts DEF IInv, RestTypeOK
<1>4. LooksUpNobody(c) /\ \A d \in Client : d # c => lookup'[d] = lookup[d]
  BY <1>2, Loop DEF LooksUpNobody, Looked, NoLookup
<1>5. EndsWith(c, k)
  BY <1>2, <1>3, <1>4 DEF EndsWith, Alive
<1> QED
  BY <1>2, <1>5, QueuedIsPatient

\* An acknowledgement ends the exchange; the next message begins another.
LEMMA ReceiveAckIsPatient ==
  ASSUME IInv, PatientInv, NEW c \in Client, NEW k \in Client, ReceiveAck(c, k)
  PROVE  PatientInv'
<1>1. /\ pc[c] = "input" /\ pc' = [pc EXCEPT ![c] = "loop"]
      /\ inbox[c][k] # <<>> /\ Head(inbox[c][k]).type = "ACK"
      /\ k \in known[c] /\ queue[c][k] # <<>>
      /\ send_next_message_to_contact(Received(c, k), c, k, Tail(queue[c][k]))
      /\ UNCHANGED <<known, lookup, due>>
  BY DEF ReceiveAck, AtSocket, Next_is, EndIteration
<1>2. due[c] = {} /\ known \in [Client -> SUBSET Client]
  BY <1>1, NothingDue, TypeParts DEF IInv, InLookup, RestTypeOK
<1>3. EndsWith(c, k)
  <2>1. known' = [known EXCEPT ![c] = known[c] \cup {k}]
    BY <1>1, <1>2
  <2> QED
    BY <1>1, <1>2, <2>1 DEF EndsWith, Alive, LooksUpNobody, Looked
<1>4. PICK net \in Inboxes : net = Received(c, k)
  BY <1>1, ReceivedPacket DEF IInv
<1>5. \A s, r \in Client : Taken(net[r][s], inbox[r][s])
  BY <1>1, <1>4, TakenOff DEF Taken
<1>6. /\ inbox[c][k] \in Seq(Datagram) /\ inbox[k][c] \in Seq(Datagram)
      /\ Tail(queue[c][k]) \in Seq(Message)
  BY <1>1, PairTypes
<1>7. Has(inbox[c][k], "ACK")
  BY <1>1, <1>6, Ahead DEF Has
<1>8. OneFlight(c, k)
  BY DEF PatientInv, PatientPair
<1>9. ~ Has(net[c][k], "ACK")
  <2>1. net[c][k] = Tail(inbox[c][k])
    BY <1>1, <1>4, TakenOff
  <2> QED
    BY <1>1, <1>6, <1>8, <2>1, FewerTail DEF OneFlight
<1>10. ~ Has(net[k][c], "PKT")
  BY <1>5, <1>6, <1>7, <1>8, FewerTaken DEF OneFlight, Fewer
<1>11. Clear(net, c, k) /\ MayBegin(c, k)
  BY <1>1, <1>2, <1>7, <1>8, <1>9, <1>10 DEF Clear, MayBegin, OneFlight, Looked
<1>12. Traffic(net, c, k, "PKT") /\ PatientPair(c, k)' /\ QueueOnly(c, k)
  BY <1>1, <1>4, <1>6, <1>11, NextBegins
<1>13. Traffic(inbox, c, k, "PKT")
  BY <1>5, <1>12, TakenTraffic
<1> QED
  BY <1>3, <1>12, <1>13, EndedWith, SenderStep DEF EndsWith

-----------------------------------------------------------------------------
(* Steps that read a packet, and those that answer it.                     *)

\* c keeps its contacts and gains at most k.
KeepsAll(c, k) ==
  /\ Alive(c) /\ pc'[c] \in {"loop", "lookup"}
  /\ \A d \in Client : d # c => pc'[d] = pc[d] /\ lookup'[d] = lookup[d]
  /\ known \in [Client -> SUBSET Client]
  /\ known' \in {known, [known EXCEPT ![c] = @ \cup {k}]}
  /\ UNCHANGED <<due, queue>>

LEMMA KeptAll ==
  ASSUME NEW c \in Client, NEW k \in Client, KeepsAll(c, k)
  PROVE  /\ OthersStay(c) /\ pc'[c] # "crashed" /\ CarefulWithAll(c)
         /\ KeepsContact(k, c)
<1>1. \A d \in Client : known[d] \in SUBSET known'[d] /\ (d # c => known'[d] = known[d])
  BY DEF KeepsAll
<1>2. OthersStay(c)
  BY <1>1 DEF KeepsAll, OthersStay
<1>3. \A r \in Client : KeepsContact(c, r)
  BY <1>1 DEF KeepsAll, KeepsContact
<1>4. KeepsContact(k, c)
  BY <1>2, <1>3, OthersKeep
<1> QED
  BY <1>2, <1>3, <1>4 DEF KeepsAll, CarefulWithAll

\* c has taken the packet of k, or has it in its lookup, and answers it.
LEMMA AnswerIsPatient ==
  ASSUME IInv, PatientInv, NEW c \in Client, NEW k \in Client, KeepsAll(c, k),
         LooksUpNobody(c), ~ Looked(c, k)', Flying(k, c),
         NEW net \in Inboxes, \A s, r \in Client : Taken(net[r][s], inbox[r][s]),
         Clear(net, k, c), NEW num \in Number, send_packet(net, c, k, Ack(num))
  PROVE  PatientInv'
<1>1. PICK d \in Datagram : d = Ack(num) /\ d.type = "ACK"
  BY DEF Ack, Datagram, Number
<1>2. Traffic(net, c, k, "ACK")
  BY <1>1, SentTraffic
<1>3. ~ Has(net[c][k], "PKT") /\ ~ Has(net[k][c], "ACK") /\ net[k][c] \in Seq(Datagram)
  BY DEF Clear, Inboxes
<1>4. ~ Has(inbox'[c][k], "PKT")
  BY <1>2, <1>3 DEF Traffic, Fewer
<1>5. Single(inbox'[k][c], "ACK")
  <2>1. Single(net[k][c], "ACK")
    BY <1>3 DEF Single, Has
  <2>2. \/ inbox'[k][c] = net[k][c]
        \/ inbox'[k][c] = Append(net[k][c], d)
    BY <1>1, SentBoxes
  <2> QED
    BY <1>3, <2>1, <2>2, FewerAppend
<1>6. OneFlight(k, c)'
  BY <1>4, <1>5 DEF OneFlight, Single, Has
<1>7. PatientPair(k, c)'
  BY <1>6, KeptAll, MovedFlight DEF PatientInv
<1>8. LooksUpOnly(c, k)
  BY DEF LooksUpNobody, LooksUpOnly
<1>9. Traffic(inbox, c, k, "ACK")
  BY <1>2, TakenTraffic
<1> QED
  BY <1>7, <1>8, <1>9, KeptAll, RecipientStep

\* A packet that c takes from its socket is the whole exchange.
LEMMA TakenPkt ==
  ASSUME IInv, PatientInv, NEW c \in Client, NEW k \in Client, Next_is(c, k, "PKT")
  PROVE  /\ Received(c, k) \in Inboxes
         /\ \A s, r \in Client : Taken(Received(c, k)[r][s], inbox[r][s])
         /\ Flying(k, c) /\ ~ Looked(c, k) /\ Clear(Received(c, k), k, c)
         /\ Head(inbox[c][k]) \in Datagram
<1> DEFINE net == Received(c, k)
<1>1. inbox[c][k] # <<>> /\ Head(inbox[c][k]).type = "PKT"
  BY DEF Next_is
<1>2. net \in Inboxes /\ Head(inbox[c][k]) \in Datagram
  BY <1>1, ReceivedPacket DEF IInv
<1>3. \A s, r \in Client : Taken(net[r][s], inbox[r][s])
  BY <1>1, TakenOff DEF Taken
<1>4. inbox[c][k] \in Seq(Datagram) /\ inbox[k][c] \in Seq(Datagram)
  BY PairTypes
<1>5. net[c][k] = Tail(inbox[c][k])
  BY <1>1, TakenOff
<1> HIDE DEF net
<1>6. Has(inbox[c][k], "PKT")
  BY <1>1, <1>4, Ahead DEF Has
<1>7. OneFlight(k, c)
  BY DEF PatientInv, PatientPair
<1>8. ~ Has(net[c][k], "PKT")
  BY <1>1, <1>4, <1>5, <1>7, FewerTail DEF OneFlight
<1>9. ~ Has(net[k][c], "ACK")
  BY <1>3, <1>4, <1>6, <1>7, FewerTaken DEF OneFlight, Fewer
<1>10. Flying(k, c) /\ ~ Looked(c, k) /\ Clear(net, k, c)
  BY <1>6, <1>7, <1>8, <1>9 DEF Flying, OneFlight, Clear
<1> QED
  BY <1>2, <1>3, <1>10 DEF net

LEMMA ReceivePktIsPatient ==
  ASSUME IInv, PatientInv, NEW c \in Client, NEW k \in Client, ReceivePkt(c, k)
  PROVE  PatientInv'
<1>1. PICK d \in Datagram : d = Head(inbox[c][k])
  BY TakenPkt DEF ReceivePkt
<1>2. PICK num \in Number : num = d.num
  BY DEF Datagram, Number
<1>3. /\ pc[c] = "input" /\ pc' = [pc EXCEPT ![c] = "loop"] /\ Next_is(c, k, "PKT")
      /\ send_packet(Received(c, k), c, k, Ack(num))
      /\ UNCHANGED <<known, lookup, due, queue>>
  BY <1>1, <1>2 DEF ReceivePkt, AtSocket, AcceptPkt, EndIteration
<1>4. known \in [Client -> SUBSET Client]
  BY TypeParts DEF IInv, RestTypeOK
<1>5. KeepsAll(c, k)
  BY <1>3, <1>4, Loop DEF KeepsAll, Alive
<1>6. LooksUpNobody(c) /\ (Looked(c, k)' => Looked(c, k))
  BY <1>3 DEF LooksUpNobody, Looked
<1> QED
  BY <1>3, <1>5, <1>6, TakenPkt, AnswerIsPatient

LEMMA FoundForReceiveIsPatient ==
  ASSUME IInv, PatientInv, NEW c \in Client, FoundForReceive(c)
  PROVE  PatientInv'
<1>1. PICK k \in Client, num \in Number : k = lookup[c].nick /\ num = lookup[c].num
  BY DEF FoundForReceive, InLookup, IInv, LoopInv, InLoop, Lookup, Number
<1>2. /\ pc[c] = "lookup" /\ lookup[c].why = "receive" /\ pc' = [pc EXCEPT ![c] = "loop"]
      /\ lookup' = [lookup EXCEPT ![c] = NoLookup]
      /\ known' = [known EXCEPT ![c] = known[c] \cup {k}]
      /\ send_packet(inbox, c, k, Ack(num))
      /\ UNCHANGED <<due, queue>>
  BY <1>1 DEF FoundForReceive, InLookup, LeaveLookup, EndIteration, AcceptPkt
<1>3. known \in [Client -> SUBSET Client] /\ inbox \in Inboxes
  BY TypeParts DEF IInv, RestTypeOK
<1>4. KeepsAll(c, k)
  BY <1>2, <1>3, Loop DEF KeepsAll, Alive
<1>5. LooksUpNobody(c) /\ ~ Looked(c, k)'
  BY <1>2, Loop DEF LooksUpNobody, Looked, NoLookup
<1>6. Looked(c, k) /\ Flying(k, c)
  BY <1>1, <1>2 DEF Looked, Flying
<1>7. Clear(inbox, k, c)
  BY <1>6 DEF PatientInv, PatientPair, OneFlight, Clear
<1>8. \A s, r \in Client : Taken(inbox[r][s], inbox[r][s])
  BY DEF Taken
<1> QED
  BY <1>2, <1>3, <1>4, <1>5, <1>6, <1>7, <1>8, AnswerIsPatient

LEMMA ReceivePktFromStrangerIsPatient ==
  ASSUME IInv, PatientInv, NEW c \in Client, NEW k \in Client,
         ReceivePktFromStranger(c, k)
  PROVE  PatientInv'
<1>1. PICK num, id : StartLookup(c, "receive", k, num, id)
  BY DEF ReceivePktFromStranger
<1>2. /\ pc[c] = "input" /\ pc' = [pc EXCEPT ![c] = "lookup"] /\ Next_is(c, k, "PKT")
      /\ lookup' = [lookup EXCEPT ![c] =
                      [why |-> "receive", nick |-> k, num |-> num, id |-> id]]
      /\ inbox' = Received(c, k)
      /\ UNCHANGED <<known, due, queue>>
  BY <1>1 DEF ReceivePktFromStranger, AtSocket, StartLookup, contactVars
<1>3. known \in [Client -> SUBSET Client]
  BY TypeParts DEF IInv, RestTypeOK
<1>4. KeepsAll(c, k)
  BY <1>2, <1>3, Loop DEF KeepsAll, Alive
<1>5. LooksUpOnly(c, k)
  BY <1>2, Loop DEF LooksUpOnly, Looked
<1>6. /\ \A s, r \in Client : Taken(Received(c, k)[r][s], inbox[r][s])
      /\ Flying(k, c) /\ Clear(Received(c, k), k, c)
  BY <1>2, TakenPkt
<1>7. Traffic(inbox, c, k, "ACK")
  <2>1. Traffic(Received(c, k), c, k, "ACK")
    BY <1>2 DEF Traffic, Fewer
  <2> QED
    BY <1>6, <2>1, TakenTraffic
<1>8. OneFlight(k, c)'
  BY <1>2, <1>6 DEF OneFlight, Clear, Single, Has
<1>9. PatientPair(k, c)'
  BY <1>4, <1>6, <1>8, KeptAll, MovedFlight DEF PatientInv
<1> QED
  BY <1>4, <1>5, <1>7, <1>9, KeptAll, RecipientStep

-----------------------------------------------------------------------------
LEMMA PopEmptyQueueIsImpossible ==
  ASSUME IInv, PatientInv, NEW c \in Client, NEW k \in Client, PopEmptyQueue(c, k)
  PROVE  FALSE
<1>1. /\ pc[c] = "input" /\ queue[c][k] = <<>>
      /\ inbox[c][k] # <<>> /\ Head(inbox[c][k]).type = "ACK"
  BY DEF PopEmptyQueue, AtSocket, Next_is
<1>2. Has(inbox[c][k], "ACK")
  BY <1>1, PairTypes, Ahead DEF Has
<1> QED
  BY <1>1, <1>2 DEF PatientInv, PatientPair, Flying, Alive

LEMMA ClientStepIsPatient ==
  ASSUME Patient, IInv, PatientInv, NEW c \in Client, ClientStep(c)
  PROVE  PatientInv'
<1>1. CASE SelectStep(c)
  BY <1>1, SelectIsPatient DEF SelectStep, Ready
<1>2. CASE ResendStep(c)
  BY <1>2, ResendIsPatient, LookupAgainIsPatient, GiveUpIsPatient DEF ResendStep
<1>3. CASE StdinStep(c)
  <2>1. CASE RejectInput(c)
    BY <2>1, StdinIsPatient
  <2>2. ASSUME NEW k \in Client, Block(c, k) \/ Unblock(c, k)
        PROVE  PatientInv'
    BY <2>2, StdinIsPatient
  <2>3. ASSUME NEW k \in Client, TypeToContact(c, k) \/ TypeToStranger(c, k)
        PROVE  PatientInv'
    BY <2>3, TypeToContactIsPatient, TypeToStrangerIsPatient
  <2> QED
    BY <1>3, <2>1, <2>2, <2>3 DEF StdinStep
<1>4. CASE SocketStep(c)
  BY <1>4, ReceivePktIsPatient, ReceivePktFromStrangerIsPatient, ReceiveAckIsPatient,
     ReceiveAckFromStrangerIsPatient, PopEmptyQueueIsImpossible
  DEF SocketStep
<1>5. CASE \E k \in Client : LookupIgnores(c, k)
  BY <1>5, LookupIgnoresIsPatient
<1>6. CASE LookupEnds(c)
  BY <1>6, FoundForResendIsPatient, NotFoundForResendIsPatient, FoundForSendIsPatient,
     FoundForReceiveIsPatient, NotFoundForStrangerIsPatient, StopIsPatient
  DEF LookupEnds, ServerSilent
<1>7. CASE Quit(c)
  BY <1>7, StopIsPatient DEF Quit
<1> QED
  BY <1>1, <1>2, <1>3, <1>4, <1>5, <1>6, <1>7 DEF ClientStep

\* With timers that wait for the exchange under way, the exchanges of all clients are
\* in order.
LEMMA PatienceHolds ==
  ASSUME Patient
  PROVE  Spec => []PatientInv
<1>1. Init => PatientInv
  <2> SUFFICES ASSUME Init
               PROVE  PatientInv
    OBVIOUS
  <2>1. NeverPopsEmpty
    BY DEF Init, NeverPopsEmpty
  <2>2. ASSUME NEW s \in Client, NEW r \in Client
        PROVE  PatientPair(s, r)
    <3>1. inbox[r][s] = <<>> /\ inbox[s][r] = <<>> /\ due[s] = {} /\ lookup[r] = NoLookup
      BY DEF Init
    <3>2. ~ Has(<<>>, "PKT") /\ ~ Has(<<>>, "ACK") /\ Single(<<>>, "PKT") /\ Single(<<>>, "ACK")
      BY DEF Has, Single
    <3>3. ~ Looked(r, s)
      BY <3>1 DEF Looked, NoLookup
    <3> QED
      BY <3>1, <3>2, <3>3 DEF PatientPair, OneFlight, Flying
  <2> QED
    BY <2>1, <2>2 DEF PatientInv
<1>2. IInv /\ PatientInv /\ [Next]_vars => PatientInv'
  <2>1. IInv /\ PatientInv /\ Next => PatientInv'
    BY ClientStepIsPatient DEF Next
  <2>2. PatientInv /\ UNCHANGED vars => PatientInv'
    BY DEF PatientInv, NeverPopsEmpty, PatientPair, OneFlight, Flying, Looked, Alive,
           vars, loopVars, contactVars, netVars, displayVars
  <2> QED
    BY <2>1, <2>2
<1> QED
  BY <1>1, <1>2, InvariantHolds, PTL DEF Spec

\* With timers that wait for the exchange under way, no client pops a message from an
\* empty queue, whatever is lost, quit or not found: the message an ACK answers is
\* still there (register_ack_message, client_to_client_com.c:78).
THEOREM PatientClientsNeverCrash ==
  ASSUME Patient
  PROVE  Spec => []NeverPopsEmpty
<1>1. PatientInv => NeverPopsEmpty
  BY DEF PatientInv
<1> QED
  BY <1>1, PatienceHolds, PTL
===============================================================================
