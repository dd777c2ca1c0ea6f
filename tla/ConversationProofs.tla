--------------------------- MODULE ConversationProofs --------------------------
(***************************************************************************)
(* The clients of ChatClients keep the promise of Conversation, for every  *)
(* set of clients, every loss, lookup and timer: messages are printed in   *)
(* the order they were typed, and twice only by a recipient that deleted   *)
(* the sender's contact.  The invariant is one of each pair: a sender's    *)
(* queue and number, the packets from it that the recipient has still to   *)
(* handle, and what the recipient remembers of the last message it took.   *)
(*                                                                         *)
(* With patient timers and nothing given up an acknowledgement is for the  *)
(* message it pops, since the numbers of a pair stay in step; clients that *)
(* look each other up at once and lose fewer datagrams than a packet has   *)
(* attempts give nothing up; and what is not given up is printed exactly   *)
(* as it was typed.                                                        *)
(***************************************************************************)
EXTENDS ChatClientsProofs

\* The packet of s that r looks up, and the message for r that s looks up.
Held(r, s) ==
  IF InLookup(r, "receive") /\ lookup[r].nick = s
  THEN {Pkt(lookup[r].num, lookup[r].id)} ELSE {}

Asked(s, r) ==
  IF InLookup(s, "send") /\ lookup[s].nick = r THEN {lookup[s].id} ELSE {}

\* The packets among the datagrams of a socket, with the one held back.
Packets(box, held) ==
  held \cup {d \in Datagram : d.type = "PKT" /\ \E i \in DOMAIN box : box[i] = d}

\* Packets wait in the order of their messages, behind the one held back.
InOrder(box, held) ==
  /\ \A i, j \in DOMAIN box :
       i < j /\ box[i].type = "PKT" /\ box[j].type = "PKT" => box[i].id <= box[j].id
  /\ \A d \in held : \A i \in DOMAIN box : box[i].type = "PKT" => d.id <= box[i].id

-----------------------------------------------------------------------------
(* The parts of the invariant, for the packets P under way, the queue q    *)
(* and last_pkt_sent of the sender, the message asked about in its lookup, *)
(* the last message the recipient accepted, the last number it has seen,   *)
(* and the count of messages typed.                                        *)

QueueInOrder(q) == \A i, j \in DOMAIN q : i < j => q[i].id < q[j].id

\* A message has one number, the sender's current one if it heads the queue, and
\* nothing under way is younger than what is queued.
Numbered(P, q, sent) ==
  /\ \A d, e \in P : d.id = e.id => d.num = e.num
  /\ \A d \in P : \A i \in DOMAIN q : d.id <= q[i].id
  /\ q # <<>> => \A d \in P : d.id = q[1].id => d.num = sent

\* What is accepted, under way, queued and asked about was typed in this order.
Typed(P, q, asked, acc, typ) ==
  /\ acc <= typ
  /\ \A d \in P : acc <= d.id /\ d.id \in 1 .. typ
  /\ \A i \in DOMAIN q : acc <= q[i].id /\ q[i].id \in 1 .. typ
  /\ \A n \in asked :
       /\ acc < n /\ n \in 1 .. typ
       /\ \A d \in P : d.id < n
       /\ \A i \in DOMAIN q : q[i].id < n

\* A recipient that remembers the last message recognises every copy of it.
Remembered(P, q, sent, acc, seen) ==
  seen # -1 =>
    /\ \A d \in P : d.id = acc => d.num = seen
    /\ q # <<>> /\ q[1].id = acc => sent = seen

Sound(P, q, sent, asked, acc, seen, typ) ==
  /\ QueueInOrder(q)
  /\ Numbered(P, q, sent)
  /\ Typed(P, q, asked, acc, typ)
  /\ Remembered(P, q, sent, acc, seen)

\* Nothing on the screen is younger than the last message accepted, and a contact
\* that was never heard has printed nothing since its record was made.
Shown(scr, start, acc, seen) ==
  /\ \A i \in DOMAIN scr : scr[i] <= acc
  /\ seen = -1 => start = Len(scr)

PairInv(s, r) ==
  /\ InOrder(inbox[r][s], Held(r, s))
  /\ Sound(Packets(inbox[r][s], Held(r, s)), queue[s][r], last_pkt_sent[s][r],
           Asked(s, r), accepted[r][s], last_pkt_received[r][s], typed[s][r])
  /\ Shown(screen[r][s], recordStart[r][s], accepted[r][s],
           last_pkt_received[r][s])

ConversationInv == \A s, r \in Client : PairInv(s, r)

-----------------------------------------------------------------------------
(* What the steps of the protocol do to a pair.                            *)

LEMMA Ids ==
  ASSUME NEW q \in Seq(Message)
  PROVE  /\ \A i \in DOMAIN q : q[i].id \in Nat
         /\ q # <<>> => 1 \in DOMAIN q
<1>1. \A i \in DOMAIN q : q[i] \in Message
  OBVIOUS
<1>2. \A m \in Message : m.id \in Nat
  BY DEF Message
<1>3. q # <<>> => 1 \in DOMAIN q
  OBVIOUS
<1> QED
  BY <1>1, <1>2, <1>3

LEMMA Shrunk ==
  ASSUME NEW P, NEW Q \in SUBSET P, NEW q, NEW sent, NEW asked, NEW n \in SUBSET asked,
         NEW acc, NEW seen, NEW typ, Sound(P, q, sent, asked, acc, seen, typ)
  PROVE  Sound(Q, q, sent, n, acc, seen, typ)
  BY DEF Sound, Numbered, Typed, Remembered

\* A message is typed: it is younger than all before.
LEMMA TypedNext ==
  ASSUME NEW P \in SUBSET Datagram, NEW q \in Seq(Message), NEW sent, NEW asked,
         NEW acc \in Nat, NEW seen, NEW typ \in Nat,
         Sound(P, q, sent, asked, acc, seen, typ)
  PROVE  Sound(P, q, sent, {typ + 1}, acc, seen, typ + 1)
<1>1. Typed(P, q, asked, acc, typ)
  BY DEF Sound
<1>2. \A d \in P : d.id \in Nat
  BY DEF Datagram
<1>3. \A i \in DOMAIN q : q[i].id \in Nat
  BY Ids
<1>4. Typed(P, q, {typ + 1}, acc, typ + 1)
  BY <1>1, <1>2, <1>3 DEF Typed
<1> QED
  BY <1>4 DEF Sound

\* The message at the head was never under way, and is not the last one accepted.
Fresh(P, q, acc) ==
  q # <<>> => acc < q[1].id /\ \A d \in P : d.id < q[1].id

\* The message asked about goes to the back of the queue.
LEMMA Enqueued ==
  ASSUME NEW P \in SUBSET Datagram, NEW q \in Seq(Message), NEW sent, NEW n \in Nat,
         NEW acc \in Nat, NEW seen, NEW typ \in Nat,
         Sound(P, q, sent, {n}, acc, seen, typ)
  PROVE  /\ Sound(P, Append(q, NewMessage(n)), sent, {}, acc, seen, typ)
         /\ q = <<>> => Fresh(P, Append(q, NewMessage(n)), acc)
<1> DEFINE r == Append(q, NewMessage(n))
<1>1. NewMessage(n) \in Message /\ NewMessage(n).id = n
  BY DEF NewMessage, Message
<1>2. /\ r \in Seq(Message) /\ r # <<>> /\ Len(q) \in Nat
      /\ DOMAIN q = 1 .. Len(q) /\ DOMAIN r = 1 .. (Len(q) + 1)
      /\ \A i \in DOMAIN q : r[i] = q[i]
      /\ r[Len(q) + 1].id = n
  BY <1>1
<1>3. /\ acc < n /\ n \in 1 .. typ
      /\ \A d \in P : d.id < n
      /\ \A i \in DOMAIN q : q[i].id < n
  BY DEF Sound, Typed
<1>4. \A d \in P : d.id \in Nat
  BY DEF Datagram
<1>5. \A i \in DOMAIN r :
        \/ i \in DOMAIN q /\ r[i].id = q[i].id
        \/ i = Len(q) + 1 /\ r[i].id = n
  <2> SUFFICES ASSUME NEW i \in 1 .. (Len(q) + 1)
               PROVE  \/ i \in 1 .. Len(q) /\ r[i].id = q[i].id
                      \/ i = Len(q) + 1 /\ r[i].id = n
    BY <1>2
  <2> HIDE DEF r
  <2> QED
    BY <1>2
<1>6. q # <<>> => r[1] = q[1] /\ 1 \in DOMAIN q
  BY <1>2
<1>7. q = <<>> => r[1].id = n
  BY <1>2
<1> HIDE DEF r
<1>8. QueueInOrder(r)
  BY <1>2, <1>3, <1>5 DEF Sound, QueueInOrder
<1>9. Numbered(P, r, sent)
  <2>1. \A d \in P : \A i \in DOMAIN r : d.id <= r[i].id
    BY <1>3, <1>4, <1>5 DEF Sound, Numbered
  <2>2. \A d \in P : d.id = r[1].id => d.num = sent
    BY <1>3, <1>4, <1>6, <1>7 DEF Sound, Numbered
  <2> QED
    BY <2>1, <2>2 DEF Sound, Numbered
<1>10. Typed(P, r, {}, acc, typ)
  BY <1>3, <1>5 DEF Sound, Typed
<1>11. Remembered(P, r, sent, acc, seen)
  BY <1>3, <1>6, <1>7 DEF Sound, Remembered
<1>12. q = <<>> => Fresh(P, r, acc)
  BY <1>3, <1>7 DEF Fresh
<1> QED
  BY <1>8, <1>9, <1>10, <1>11, <1>12 DEF Sound, r

\* The oldest message leaves the queue, acknowledged or given up.
LEMMA Popped ==
  ASSUME NEW P \in SUBSET Datagram, NEW q \in Seq(Message), q # <<>>, NEW sent,
         NEW asked, NEW acc \in Nat, NEW seen, NEW typ \in Nat,
         Sound(P, q, sent, asked, acc, seen, typ)
  PROVE  /\ Sound(P, Tail(q), sent, asked, acc, seen, typ)
         /\ Fresh(P, Tail(q), acc)
<1> DEFINE r == Tail(q)
<1>1. /\ r \in Seq(Message) /\ Len(q) \in Nat
      /\ DOMAIN q = 1 .. Len(q) /\ DOMAIN r = 1 .. (Len(q) - 1) /\ 1 \in DOMAIN q
      /\ \A i \in DOMAIN r : i + 1 \in DOMAIN q /\ r[i] = q[i + 1]
      /\ r # <<>> => 1 \in DOMAIN r /\ 2 \in DOMAIN q /\ r[1] = q[2]
  OBVIOUS
<1>2. \A i \in DOMAIN q : q[i].id \in Nat
  BY Ids
<1>3. \A d \in P : d.id \in Nat
  BY DEF Datagram
<1> HIDE DEF r
<1>4. QueueInOrder(r)
  BY <1>1 DEF Sound, QueueInOrder
<1>5. Fresh(P, r, acc)
  <2> SUFFICES ASSUME r # <<>>
               PROVE  acc < r[1].id /\ \A d \in P : d.id < r[1].id
    BY DEF Fresh
  <2>1. q[1].id < q[2].id /\ r[1] = q[2] /\ q[1].id \in Nat /\ q[2].id \in Nat
    BY <1>1, <1>2 DEF Sound, QueueInOrder
  <2>2. acc <= q[1].id /\ \A d \in P : d.id <= q[1].id
    BY <1>1 DEF Sound, Typed, Numbered
  <2> QED
    BY <2>1, <2>2, <1>3
<1>6. Typed(P, r, asked, acc, typ)
  BY <1>1 DEF Sound, Typed
<1>7. Numbered(P, r, sent)
  <2>1. \A d \in P : \A i \in DOMAIN r : d.id <= r[i].id
    BY <1>1 DEF Sound, Numbered
  <2>2. r # <<>> => r[1].id \in Nat
    BY <1>1, <1>2
  <2> QED
    BY <1>3, <1>5, <2>1, <2>2 DEF Sound, Numbered, Fresh
<1>8. Remembered(P, r, sent, acc, seen)
  <2>1. r # <<>> => r[1].id # acc
    BY <1>1, <1>2, <1>5 DEF Fresh
  <2> QED
    BY <2>1 DEF Sound, Remembered
<1> QED
  BY <1>4, <1>5, <1>6, <1>7, <1>8 DEF Sound, r

\* A message at the head that was never sent may take any number.
LEMMA Toggled ==
  ASSUME NEW P \in SUBSET Datagram, NEW q \in Seq(Message), NEW sent, NEW num,
         NEW asked, NEW acc \in Nat, NEW seen, NEW typ \in Nat,
         Sound(P, q, sent, asked, acc, seen, typ), Fresh(P, q, acc)
  PROVE  Sound(P, q, num, asked, acc, seen, typ)
<1>1. q # <<>> => 1 \in DOMAIN q /\ q[1].id \in Nat
  BY Ids
<1>2. \A d \in P : d.id \in Nat
  BY DEF Datagram
<1> QED
  BY <1>1, <1>2 DEF Sound, Fresh, Numbered, Remembered

\* The same messages, whatever their attempts.
SameMessages(q, r) ==
  DOMAIN q = DOMAIN r /\ \A i \in DOMAIN q : q[i].id = r[i].id

LEMMA Transmitted ==
  ASSUME NEW P \in SUBSET Datagram, NEW q \in Seq(Message), NEW r \in Seq(Message),
         q # <<>>, SameMessages(q, r), NEW num \in {0, 1}, NEW asked,
         NEW acc \in Nat, NEW seen, NEW typ \in Nat,
         Sound(P, q, num, asked, acc, seen, typ)
  PROVE  Sound(P \cup {Pkt(num, q[1].id)}, r, num, asked, acc, seen, typ)
<1> DEFINE d == Pkt(num, q[1].id)
<1>1. /\ 1 \in DOMAIN q /\ r # <<>> /\ q[1].id = r[1].id /\ q[1].id \in Nat
      /\ d.id = q[1].id /\ d.num = num
  <2>1. 1 \in DOMAIN q /\ q[1].id \in Nat /\ 1 \in DOMAIN r /\ q[1].id = r[1].id
    BY Ids DEF SameMessages
  <2>2. d.id = q[1].id /\ d.num = num
    BY DEF Pkt
  <2> QED
    BY <2>1, <2>2
<1>2. \A i \in DOMAIN q : q[i].id \in Nat /\ q[1].id <= q[i].id
  <2>1. \A i \in DOMAIN q : i = 1 \/ 1 < i
    OBVIOUS
  <2> QED
    BY <1>1, <2>1, Ids DEF Sound, QueueInOrder
<1> HIDE DEF d
<1>3. QueueInOrder(r)
  BY DEF Sound, QueueInOrder, SameMessages
<1>4. Numbered(P \cup {d}, r, num)
  <2>1. \A e \in P \cup {d} : \A i \in DOMAIN r : e.id <= r[i].id
    BY <1>1, <1>2 DEF Sound, Numbered, SameMessages
  <2>2. \A e \in P \cup {d} : e.id = r[1].id => e.num = num
    BY <1>1 DEF Sound, Numbered
  <2>3. \A e, f \in P \cup {d} : e.id = f.id => e.num = f.num
    BY <1>1, <2>2 DEF Sound, Numbered
  <2> QED
    BY <2>1, <2>2, <2>3 DEF Numbered
<1>5. Typed(P \cup {d}, r, asked, acc, typ)
  <2>1. Typed(P, q, asked, acc, typ)
    BY DEF Sound
  <2>2. acc <= d.id /\ d.id \in 1 .. typ /\ \A n \in asked : d.id < n
    BY <1>1, <2>1 DEF Typed
  <2>3. \A i \in DOMAIN r : i \in DOMAIN q /\ r[i].id = q[i].id
    BY DEF SameMessages
  <2> QED
    BY <2>1, <2>2, <2>3 DEF Typed
<1>6. Remembered(P \cup {d}, r, num, acc, seen)
  BY <1>1 DEF Sound, Remembered
<1> QED
  BY <1>3, <1>4, <1>5, <1>6 DEF Sound, d

\* The queue and its contact are freed.
LEMMA Emptied ==
  ASSUME NEW P, NEW q, NEW sent, NEW num, NEW asked, NEW acc, NEW seen, NEW typ,
         Sound(P, q, sent, asked, acc, seen, typ)
  PROVE  Sound(P, <<>>, num, asked, acc, seen, typ)
  BY DEF Sound, QueueInOrder, Numbered, Typed, Remembered

\* The recipient forgets the number it has seen.
LEMMA Forgotten ==
  ASSUME NEW P, NEW q, NEW sent, NEW asked, NEW acc, NEW seen, NEW typ,
         Sound(P, q, sent, asked, acc, seen, typ)
  PROVE  Sound(P, q, sent, asked, acc, -1, typ)
  BY DEF Sound, Remembered

\* The recipient takes the packet d, the oldest under way, as new.
LEMMA TakenAsNew ==
  ASSUME NEW P \in SUBSET Datagram, NEW q \in Seq(Message), NEW sent, NEW asked,
         NEW acc \in Nat, NEW seen, NEW typ \in Nat,
         Sound(P, q, sent, asked, acc, seen, typ),
         NEW d \in P, \A e \in P : d.id <= e.id
  PROVE  Sound(P, q, sent, asked, d.id, d.num, typ)
<1>1. Numbered(P, q, sent) /\ Typed(P, q, asked, acc, typ)
  BY DEF Sound
<1>2. Typed(P, q, asked, d.id, typ)
  BY <1>1 DEF Typed, Numbered
<1>3. Remembered(P, q, sent, d.id, d.num)
  BY <1>1 DEF Numbered, Remembered
<1> QED
  BY <1>2, <1>3 DEF Sound

-----------------------------------------------------------------------------
(* What the steps of the network do to the datagrams at a socket.          *)

LEMMA PacketSet ==
  ASSUME NEW box, NEW held \in SUBSET Datagram
  PROVE  /\ Packets(box, held) \in SUBSET Datagram
         /\ held \subseteq Packets(box, held)
         /\ \A d \in Packets(box, held) :
              d \in held \/ (d.type = "PKT" /\ \E i \in DOMAIN box : box[i] = d)
  BY DEF Packets

LEMMA BoxTail ==
  ASSUME NEW box \in Seq(Datagram), box # <<>>, NEW held, InOrder(box, held)
  PROVE  InOrder(Tail(box), held) /\ Packets(Tail(box), held) \subseteq Packets(box, held)
<1> DEFINE b == Tail(box)
<1>1. /\ Len(box) \in Nat /\ DOMAIN box = 1 .. Len(box)
      /\ DOMAIN b = 1 .. (Len(box) - 1)
      /\ \A i \in DOMAIN b : i + 1 \in DOMAIN box /\ b[i] = box[i + 1]
  BY Ahead
<1> HIDE DEF b
<1>2. \A i, j \in DOMAIN b : i < j => i + 1 < j + 1
  BY <1>1
<1>3. InOrder(b, held)
  BY <1>1, <1>2 DEF InOrder
<1>4. Packets(b, held) \subseteq Packets(box, held)
  BY <1>1 DEF Packets
<1> QED
  BY <1>3, <1>4 DEF b

LEMMA BoxAck ==
  ASSUME NEW box \in Seq(Datagram), NEW held, InOrder(box, held),
         NEW d \in Datagram, d.type = "ACK"
  PROVE  /\ InOrder(Append(box, d), held)
         /\ Packets(Append(box, d), held) \subseteq Packets(box, held)
<1> DEFINE b == Append(box, d)
<1>1. /\ Len(box) \in Nat /\ DOMAIN box = 1 .. Len(box)
      /\ DOMAIN b = 1 .. (Len(box) + 1)
      /\ \A i \in DOMAIN box : b[i] = box[i]
      /\ b[Len(box) + 1] = d
  BY Behind
<1> HIDE DEF b
<1>2. \A i \in DOMAIN b : b[i].type = "PKT" => i \in DOMAIN box /\ b[i] = box[i]
  <2>1. \A i \in DOMAIN b : i \in DOMAIN box \/ i = Len(box) + 1
    BY <1>1
  <2>2. b[Len(box) + 1].type # "PKT"
    BY <1>1
  <2> QED
    BY <1>1, <2>1, <2>2
<1>3. InOrder(b, held)
  BY <1>2 DEF InOrder
<1>4. Packets(b, held) \subseteq Packets(box, held)
  BY <1>2 DEF Packets
<1> QED
  BY <1>3, <1>4 DEF b

LEMMA BoxPkt ==
  ASSUME NEW box \in Seq(Datagram), NEW held \in SUBSET Datagram, InOrder(box, held),
         NEW d \in Datagram, \A e \in Packets(box, held) : e.id <= d.id
  PROVE  /\ InOrder(Append(box, d), held)
         /\ Packets(Append(box, d), held) \subseteq Packets(box, held) \cup {d}
<1> DEFINE b == Append(box, d)
<1>1. /\ Len(box) \in Nat /\ DOMAIN box = 1 .. Len(box)
      /\ DOMAIN b = 1 .. (Len(box) + 1)
      /\ \A i \in DOMAIN box : b[i] = box[i] /\ box[i] \in Datagram
      /\ b[Len(box) + 1] = d
  BY Behind
<1> HIDE DEF b
<1>2. \A i \in DOMAIN b :
        \/ i \in DOMAIN box /\ b[i] = box[i]
        \/ i = Len(box) + 1 /\ b[i] = d
  <2>1. \A i \in DOMAIN b : i \in DOMAIN box \/ i = Len(box) + 1
    BY <1>1
  <2> QED
    BY <1>1, <2>1
<1>3. \A i \in DOMAIN box : box[i].type = "PKT" => box[i].id <= d.id
  BY <1>1 DEF Packets
<1>4. \A e \in held : e.id <= d.id
  BY DEF Packets
<1>5. InOrder(b, held)
  <2>1. \A i, j \in DOMAIN b : i < j => i \in DOMAIN box
    BY <1>1
  <2> QED
    BY <1>2, <1>3, <1>4, <2>1 DEF InOrder
<1>6. Packets(b, held) \subseteq Packets(box, held) \cup {d}
  BY <1>2 DEF Packets
<1> QED
  BY <1>5, <1>6 DEF b

\* The first packet of the socket is the oldest under way, also while it is held back.
LEMMA BoxFirst ==
  ASSUME NEW box \in Seq(Datagram), box # <<>>, InOrder(box, {}), Head(box).type = "PKT"
  PROVE  /\ Head(box) \in Packets(box, {})
         /\ \A e \in Packets(box, {}) : Head(box).id <= e.id
         /\ InOrder(Tail(box), {Head(box)})
         /\ Packets(Tail(box), {Head(box)}) \subseteq Packets(box, {})
<1> DEFINE b == Tail(box)
           d == Head(box)
<1>1. /\ Len(box) \in Nat /\ DOMAIN box = 1 .. Len(box)
      /\ DOMAIN b = 1 .. (Len(box) - 1)
      /\ 1 \in DOMAIN box /\ d = box[1] /\ d \in Datagram
      /\ \A i \in DOMAIN b : i + 1 \in DOMAIN box /\ b[i] = box[i + 1]
  BY Ahead
<1>2. d.type = "PKT"
  OBVIOUS
<1> HIDE DEF b, d
<1>3. d.id <= d.id
  BY <1>1 DEF Datagram
<1>4. \A i \in DOMAIN box : box[i].type = "PKT" => d.id <= box[i].id
  <2>1. \A i \in DOMAIN box : i = 1 \/ 1 < i
    BY <1>1
  <2> QED
    BY <1>1, <1>2, <1>3, <2>1 DEF InOrder
<1>5. d \in Packets(box, {})
  BY <1>1, <1>2 DEF Packets
<1>6. \A e \in Packets(box, {}) : d.id <= e.id
  BY <1>4 DEF Packets
<1>7. InOrder(b, {d})
  <2>1. \A i, j \in DOMAIN b : i < j => i + 1 < j + 1
    BY <1>1
  <2>2. \A i \in DOMAIN b : b[i].type = "PKT" => d.id <= b[i].id
    BY <1>1, <1>4
  <2> QED
    BY <1>1, <2>1, <2>2 DEF InOrder
<1>8. Packets(b, {d}) \subseteq Packets(box, {})
  BY <1>1, <1>5 DEF Packets
<1> QED
  BY <1>5, <1>6, <1>7, <1>8 DEF b, d

LEMMA BoxHeld ==
  ASSUME NEW box \in Seq(Datagram), NEW d \in Datagram, InOrder(box, {d})
  PROVE  /\ d \in Packets(box, {d})
         /\ \A e \in Packets(box, {d}) : d.id <= e.id
  BY DEF Packets, InOrder, Datagram

\* Less held back.
LEMMA BoxReleased ==
  ASSUME NEW box, NEW held, NEW h \in SUBSET held, InOrder(box, held)
  PROVE  InOrder(box, h) /\ Packets(box, h) \subseteq Packets(box, held)
  BY DEF InOrder, Packets

-----------------------------------------------------------------------------
(* Pairs that a step leaves alone.                                         *)

LEMMA HeldTypes ==
  ASSUME IInv, NEW s \in Client, NEW r \in Client
  PROVE  Held(r, s) \in SUBSET Datagram /\ Asked(s, r) \in SUBSET Nat
<1>1. TypeOK /\ LoopInv
  BY DEF IInv
<1>2. ASSUME InLookup(r, "receive")
      PROVE  Pkt(lookup[r].num, lookup[r].id) \in Datagram
  <2>1. lookup[r] \in Lookup
    BY <1>1, <1>2 DEF LoopInv, InLoop, InLookup
  <2>2. lookup[r].num \in {0, 1} /\ lookup[r].id \in Nat
    BY <2>1 DEF Lookup
  <2> QED
    BY <2>2 DEF Pkt, Datagram
<1>3. Held(r, s) \in SUBSET Datagram
  BY <1>2 DEF Held
<1>4. ASSUME InLookup(s, "send")
      PROVE  lookup[s].id \in Nat
  BY <1>1, <1>4 DEF LoopInv, InLoop, InLookup, Lookup
<1>5. Asked(s, r) \in SUBSET Nat
  BY <1>4 DEF Asked
<1> QED
  BY <1>3, <1>5

\* At most the oldest datagram was taken, and an acknowledgement was put last.
Lighter(b, box) ==
  \/ b = box
  \/ box # <<>> /\ b = Tail(box)
  \/ \E d \in Datagram :
       /\ d.type = "ACK"
       /\ \/ b = Append(box, d)
          \/ box # <<>> /\ b = Append(Tail(box), d)

LEMMA LighterBox ==
  ASSUME NEW box \in Seq(Datagram), NEW b, Lighter(b, box),
         NEW held, NEW h \in SUBSET held, InOrder(box, held)
  PROVE  InOrder(b, h) /\ Packets(b, h) \subseteq Packets(box, held)
<1>1. InOrder(box, h) /\ Packets(box, h) \subseteq Packets(box, held)
  BY BoxReleased
<1>2. ASSUME box # <<>>
      PROVE  /\ Tail(box) \in Seq(Datagram) /\ InOrder(Tail(box), h)
             /\ Packets(Tail(box), h) \subseteq Packets(box, held)
  BY <1>1, <1>2, BoxTail
<1>3. ASSUME NEW d \in Datagram, d.type = "ACK", b = Append(box, d)
      PROVE  InOrder(b, h) /\ Packets(b, h) \subseteq Packets(box, held)
  BY <1>1, <1>3, BoxAck
<1>4. ASSUME NEW d \in Datagram, d.type = "ACK", box # <<>>, b = Append(Tail(box), d)
      PROVE  InOrder(b, h) /\ Packets(b, h) \subseteq Packets(box, held)
  <2>1. /\ InOrder(Append(Tail(box), d), h)
        /\ Packets(Append(Tail(box), d), h) \subseteq Packets(Tail(box), h)
    BY <1>2, <1>4, BoxAck
  <2> QED
    BY <1>2, <1>4, <2>1
<1> QED
  BY <1>1, <1>2, <1>3, <1>4 DEF Lighter

SameSender(s, r) ==
  /\ queue'[s][r] = queue[s][r]
  /\ last_pkt_sent'[s][r] = last_pkt_sent[s][r]
  /\ typed'[s][r] = typed[s][r]

SameRecipient(r, s) ==
  /\ accepted'[r][s] = accepted[r][s]
  /\ last_pkt_received'[r][s] = last_pkt_received[r][s]
  /\ screen'[r][s] = screen[r][s]
  /\ recordStart'[r][s] = recordStart[r][s]

LEMMA LightPair ==
  ASSUME IInv, NEW s \in Client, NEW r \in Client, PairInv(s, r),
         SameSender(s, r), SameRecipient(r, s),
         Held(r, s)' \subseteq Held(r, s), Asked(s, r)' \subseteq Asked(s, r),
         Lighter(inbox'[r][s], inbox[r][s])
  PROVE  PairInv(s, r)'
<1>1. /\ InOrder(inbox'[r][s], Held(r, s)')
      /\ Packets(inbox'[r][s], Held(r, s)') \subseteq Packets(inbox[r][s], Held(r, s))
  BY PairTypes, HeldTypes, LighterBox DEF PairInv
<1>2. Sound(Packets(inbox'[r][s], Held(r, s)'), queue[s][r], last_pkt_sent[s][r],
            Asked(s, r)', accepted[r][s], last_pkt_received[r][s], typed[s][r])
  BY <1>1, Shrunk DEF PairInv
<1> QED
  BY <1>1, <1>2 DEF PairInv, SameSender, SameRecipient

\* No other client's lookup changes, and c begins none for a message or a packet.
NoNewLookup(c) ==
  /\ \A d \in Client \ {c} : pc'[d] = pc[d] /\ lookup'[d] = lookup[d]
  /\ \/ pc'[c] # "lookup"
     \/ lookup'[c].why = "resend"
     \/ pc'[c] = pc[c] /\ lookup'[c] = lookup[c]

LEMMA LessHeld ==
  ASSUME NEW c \in Client, NoNewLookup(c), NEW s \in Client, NEW r \in Client
  PROVE  Held(r, s)' \subseteq Held(r, s) /\ Asked(s, r)' \subseteq Asked(s, r)
<1>1. Held(r, s)' \subseteq Held(r, s)
  BY DEF NoNewLookup, Held, InLookup
<1>2. Asked(s, r)' \subseteq Asked(s, r)
  BY DEF NoNewLookup, Asked, InLookup
<1> QED
  BY <1>1, <1>2

\* A step that touches no conversation: at most it drops a datagram.
LEMMA QuietConversation ==
  ASSUME IInv, ConversationInv, NEW c \in Client, NoNewLookup(c),
         UNCHANGED <<queue, last_pkt_sent, typed, accepted, last_pkt_received, screen,
                     recordStart>>,
         \/ UNCHANGED inbox
         \/ \E k \in Client : inbox[c][k] # <<>> /\ inbox' = Received(c, k)
  PROVE  ConversationInv'
<1> SUFFICES ASSUME NEW s \in Client, NEW r \in Client
             PROVE  PairInv(s, r)'
  BY DEF ConversationInv
<1>1. Lighter(inbox'[r][s], inbox[r][s])
  BY TakenOff DEF Taken, Lighter
<1>2. SameSender(s, r) /\ SameRecipient(r, s) /\ PairInv(s, r)
  BY DEF SameSender, SameRecipient, ConversationInv
<1> QED
  BY <1>1, <1>2, LessHeld, LightPair

LEMMA SelectConverses ==
  ASSUME IInv, ConversationInv, NEW c \in Client, NEW expired \in SUBSET Client,
         NEW fd \in Ready, Select(c, expired, fd)
  PROVE  ConversationInv'
<1>1. NoNewLookup(c)
  BY Loop DEF Select, Phase, NoNewLookup
<1>2. UNCHANGED <<queue, last_pkt_sent, typed, accepted, last_pkt_received, screen,
                  recordStart, inbox>>
  BY DEF Select, contactVars, netVars, displayVars
<1> QED
  BY <1>1, <1>2, QuietConversation

LEMMA LookupAgainConverses ==
  ASSUME IInv, ConversationInv, NEW c \in Client, NEW k \in Client, LookupAgain(c, k)
  PROVE  ConversationInv'
<1>1. /\ pc' = [pc EXCEPT ![c] = "lookup"]
      /\ lookup' = [lookup EXCEPT ![c] = [why |-> "resend", nick |-> k, num |-> 0, id |-> 0]]
  BY DEF LookupAgain, StartLookup
<1>2. NoNewLookup(c)
  BY <1>1, Loop DEF NoNewLookup
<1>3. UNCHANGED <<queue, last_pkt_sent, typed, accepted, last_pkt_received, screen,
                  recordStart, inbox>>
  BY DEF LookupAgain, contactVars, netVars, displayVars
<1> QED
  BY <1>2, <1>3, QuietConversation

LEMMA StdinConverses ==
  ASSUME IInv, ConversationInv, NEW c \in Client, NEW k \in Client,
         RejectInput(c) \/ Block(c, k) \/ Unblock(c, k)
  PROVE  ConversationInv'
<1>1. EndIteration(c) /\ UNCHANGED lookup
  BY DEF RejectInput, Block, Unblock
<1>2. NoNewLookup(c)
  BY <1>1, Loop DEF EndIteration, NoNewLookup
<1>3. UNCHANGED <<queue, last_pkt_sent, typed, accepted, last_pkt_received, screen,
                  recordStart, inbox>>
  BY DEF RejectInput, Block, Unblock, contactVars, netVars, displayVars
<1> QED
  BY <1>2, <1>3, QuietConversation

LEMMA ReceiveAckFromStrangerConverses ==
  ASSUME IInv, ConversationInv, NEW c \in Client, NEW k \in Client,
         ReceiveAckFromStranger(c, k)
  PROVE  ConversationInv'
<1>1. EndIteration(c) /\ UNCHANGED lookup
  BY DEF ReceiveAckFromStranger
<1>2. NoNewLookup(c)
  BY <1>1, Loop DEF EndIteration, NoNewLookup
<1>3. /\ inbox[c][k] # <<>> /\ inbox' = Received(c, k)
      /\ UNCHANGED <<queue, last_pkt_sent, typed, accepted, last_pkt_received, screen,
                     recordStart>>
  BY DEF ReceiveAckFromStranger, Next_is, contactVars, displayVars
<1> QED
  BY <1>2, <1>3, QuietConversation

LEMMA LookupIgnoresConverses ==
  ASSUME IInv, ConversationInv, NEW c \in Client, NEW k \in Client, LookupIgnores(c, k)
  PROVE  ConversationInv'
<1>1. NoNewLookup(c)
  BY DEF LookupIgnores, loopVars, NoNewLookup
<1>2. /\ inbox[c][k] # <<>> /\ inbox' = Received(c, k)
      /\ UNCHANGED <<queue, last_pkt_sent, typed, accepted, last_pkt_received, screen,
                     recordStart>>
  BY DEF LookupIgnores, contactVars, displayVars
<1> QED
  BY <1>1, <1>2, QuietConversation

LEMMA NotFoundForStrangerConverses ==
  ASSUME IInv, ConversationInv, NEW c \in Client, NotFoundForStranger(c)
  PROVE  ConversationInv'
<1>1. LeaveLookup(c)
  BY DEF NotFoundForStranger
<1>2. NoNewLookup(c)
  BY <1>1, Loop DEF LeaveLookup, EndIteration, NoNewLookup
<1>3. UNCHANGED <<queue, last_pkt_sent, typed, accepted, last_pkt_received, screen,
                  recordStart, inbox>>
  BY DEF NotFoundForStranger, contactVars, netVars, displayVars
<1> QED
  BY <1>2, <1>3, QuietConversation

-----------------------------------------------------------------------------
(* Sending.                                                                *)

LEMMA CountedQueue ==
  ASSUME NEW q \in Seq(Message), q # <<>>, NEW r, r = [q EXCEPT ![1].attempts = @ + 1]
  PROVE  r \in Seq(Message) /\ SameMessages(q, r)
<1>1. r \in Seq(Message)
  BY SentQueue
<1>2. r = [i \in DOMAIN q |-> IF i = 1 THEN [q[1] EXCEPT !.attempts = @ + 1] ELSE q[i]]
  OBVIOUS
<1>3. \A i \in DOMAIN q : q[i] \in Message
  OBVIOUS
<1>4. \A m \in Message : [m EXCEPT !.attempts = @ + 1].id = m.id
  BY DEF Message
<1>5. DOMAIN r = DOMAIN q
  BY <1>2
<1>6. ASSUME NEW i \in DOMAIN q
      PROVE  q[i].id = r[i].id
  BY <1>2, <1>3, <1>4
<1> QED
  BY <1>1, <1>5, <1>6 DEF SameMessages

\* A step of c changes no conversation but the one it writes to k, and that one in
\* its queue, its number and the packets under way.
OnlyWritesTo(c, k) ==
  \A s, r \in Client : s # c \/ r # k =>
    /\ queue'[s][r] = queue[s][r]
    /\ last_pkt_sent'[s][r] = last_pkt_sent[s][r]

LEMMA SentToPair ==
  ASSUME NEW net \in Inboxes, queue \in Queues, NEW c \in Client, NEW k \in Client,
         NEW q \in Seq(Message), q # <<>>, NEW num \in Number,
         NEW held \in SUBSET Datagram, NEW asked,
         NEW acc \in Nat, NEW seen, NEW typ \in Nat,
         InOrder(net[k][c], held),
         Sound(Packets(net[k][c], held), q, num, asked, acc, seen, typ),
         send_message_to_contact(net, c, k, q, num)
  PROVE  /\ InOrder(inbox'[k][c], held)
         /\ Sound(Packets(inbox'[k][c], held), queue'[c][k], num, asked, acc, seen, typ)
         /\ BoxOnly(net, k, c)
         /\ QueueOnly(c, k)
<1> DEFINE d == Pkt(num, q[1].id)
           P == Packets(net[k][c], held)
           Q == Packets(inbox'[k][c], held)
<1>1. 1 \in DOMAIN q /\ q[1].id \in Nat /\ Head(q) = q[1]
  BY Ids
<1>2. d \in Datagram /\ d.id = q[1].id
  BY <1>1 DEF Pkt, Datagram, Number
<1>3. P \in SUBSET Datagram /\ \A e \in P : e.id <= d.id
  BY <1>1, <1>2, PacketSet DEF Sound, Numbered
<1>4. net[k][c] \in Seq(Datagram)
  BY DEF Inboxes
<1>5. /\ BoxOnly(net, k, c)
      /\ \/ inbox'[k][c] = net[k][c]
         \/ inbox'[k][c] = Append(net[k][c], d)
  BY <1>1, SentBoxes DEF send_message_to_contact
<1>6. PICK r \in Seq(Message) :
        r = [q EXCEPT ![1].attempts = @ + 1] /\ SameMessages(q, r)
  BY CountedQueue
<1>7. /\ queue'[c][k] = r
      /\ QueueOnly(c, k)
  BY <1>6 DEF send_message_to_contact, Queues, QueueOnly
<1>8. Sound(P \cup {d}, r, num, asked, acc, seen, typ)
  BY <1>3, <1>6, Transmitted DEF Number
<1>9. InOrder(Append(net[k][c], d), held)
      /\ Packets(Append(net[k][c], d), held) \subseteq P \cup {d}
  BY <1>2, <1>3, <1>4, BoxPkt
<1>10. InOrder(inbox'[k][c], held) /\ Q \subseteq P \cup {d}
  BY <1>5, <1>9
<1> HIDE DEF d, P, Q
<1>11. Sound(Q, r, num, asked, acc, seen, typ)
  BY <1>8, <1>10, Shrunk
<1> QED
  BY <1>5, <1>7, <1>10, <1>11 DEF Q

LEMMA SentNextToPair ==
  ASSUME NEW net \in Inboxes, queue \in Queues, last_pkt_sent \in Sent,
         NEW c \in Client, NEW k \in Client, NEW q \in Seq(Message),
         NEW held \in SUBSET Datagram, NEW asked,
         NEW acc \in Nat, NEW seen, NEW typ \in Nat,
         InOrder(net[k][c], held), Fresh(Packets(net[k][c], held), q, acc),
         Sound(Packets(net[k][c], held), q, last_pkt_sent[c][k], asked, acc, seen, typ),
         send_next_message_to_contact(net, c, k, q)
  PROVE  /\ InOrder(inbox'[k][c], held)
         /\ Sound(Packets(inbox'[k][c], held), queue'[c][k], last_pkt_sent'[c][k], asked,
                  acc, seen, typ)
         /\ BoxOnly(net, k, c)
         /\ OnlyWritesTo(c, k)
<1>1. CASE q = <<>>
  <2>1. /\ queue' = [queue EXCEPT ![c][k] = q]
        /\ inbox' = net /\ last_pkt_sent' = last_pkt_sent
    BY <1>1 DEF send_next_message_to_contact
  <2>2. /\ queue'[c][k] = q
        /\ QueueOnly(c, k)
    BY <2>1 DEF Queues, QueueOnly
  <2> QED
    BY <2>1, <2>2 DEF OnlyWritesTo, QueueOnly, BoxOnly
<1>2. CASE q # <<>>
  <2>1. PICK num \in Number : num = 1 - last_pkt_sent[c][k]
    <3>1. last_pkt_sent[c][k] \in {0, 1}
      BY DEF Sent
    <3> QED
      BY <3>1 DEF Number
  <2>2. /\ last_pkt_sent' = [last_pkt_sent EXCEPT ![c][k] = num]
        /\ send_message_to_contact(net, c, k, q, num)
    BY <1>2, <2>1 DEF send_next_message_to_contact
  <2>3. /\ last_pkt_sent'[c][k] = num
        /\ \A a, b \in Client : a # c \/ b # k =>
             last_pkt_sent'[a][b] = last_pkt_sent[a][b]
    BY <2>2 DEF Sent
  <2>4. Sound(Packets(net[k][c], held), q, num, asked, acc, seen, typ)
    BY PacketSet, Toggled
  <2>5. /\ InOrder(inbox'[k][c], held)
        /\ Sound(Packets(inbox'[k][c], held), queue'[c][k], num, asked, acc, seen, typ)
        /\ BoxOnly(net, k, c)
        /\ QueueOnly(c, k)
    <3>1. q # <<>> /\ send_message_to_contact(net, c, k, q, num)
      BY <1>2, <2>2
    <3> QED
      BY <2>4, <3>1, SentToPair
  <2> QED
    BY <2>3, <2>5 DEF OnlyWritesTo, QueueOnly
<1> QED
  BY <1>1, <1>2

\* What becomes of the conversation from c to k when c queues the message n.
LEMMA QueuedForPair ==
  ASSUME IInv, NEW c \in Client, NEW k \in Client, NEW n \in Nat,
         NEW held \in SUBSET Datagram, NEW acc \in Nat, NEW seen, NEW typ \in Nat,
         InOrder(inbox[k][c], held),
         Sound(Packets(inbox[k][c], held), queue[c][k], last_pkt_sent[c][k], {n},
               acc, seen, typ),
         QueueMessage(c, k, n)
  PROVE  /\ InOrder(inbox'[k][c], held)
         /\ Sound(Packets(inbox'[k][c], held), queue'[c][k], last_pkt_sent'[c][k], {},
                  acc, seen, typ)
         /\ BoxOnly(inbox, k, c)
         /\ OnlyWritesTo(c, k)
<1> DEFINE q == Append(queue[c][k], NewMessage(n))
           P == Packets(inbox[k][c], held)
<1>1. /\ inbox \in Inboxes /\ queue \in Queues /\ last_pkt_sent \in Sent
      /\ queue[c][k] \in Seq(Message)
  BY TypeParts DEF IInv, RestTypeOK, Queues
<1>2. q \in Seq(Message)
  BY <1>1, LongerQueue
<1>3. P \in SUBSET Datagram
  BY PacketSet
<1>4. /\ Sound(P, q, last_pkt_sent[c][k], {}, acc, seen, typ)
      /\ queue[c][k] = <<>> => Fresh(P, q, acc)
  BY <1>1, <1>3, Enqueued
<1>5. CASE queue[c][k] = <<>>
  <2>1. q = <<NewMessage(n)>>
    BY <1>5
  <2>2. send_next_message_to_contact(inbox, c, k, q)
    BY <1>5, <2>1 DEF QueueMessage
  <2> HIDE DEF q
  <2>3. Fresh(P, q, acc)
    BY <1>4, <1>5
  <2> QED
    BY <1>1, <1>2, <1>4, <2>2, <2>3, SentNextToPair
<1>6. CASE queue[c][k] # <<>>
  <2>1. /\ queue' = [queue EXCEPT ![c][k] = q]
        /\ UNCHANGED <<last_pkt_sent, inbox>>
    BY <1>6 DEF QueueMessage, netVars
  <2> HIDE DEF q
  <2>2. /\ queue'[c][k] = q
        /\ QueueOnly(c, k)
    BY <1>1, <2>1 DEF Queues, QueueOnly
  <2> QED
    BY <1>4, <2>1, <2>2 DEF OnlyWritesTo, QueueOnly, BoxOnly
<1> QED
  BY <1>5, <1>6

-----------------------------------------------------------------------------
(* The steps of a sender.                                                  *)

\* A step of c that changes at most the conversation from c to k, of which net is
\* what the sockets hold before c sends.
WritesTo(net, c, k) ==
  /\ NoNewLookup(c)
  /\ OnlyWritesTo(c, k)
  /\ BoxOnly(net, k, c)
  /\ \A s, r \in Client : Lighter(net[r][s], inbox[r][s])
  /\ \A s, r \in Client : s # c \/ r # k => typed'[s][r] = typed[s][r]
  /\ UNCHANGED <<accepted, last_pkt_received, screen, recordStart>>

LEMMA WriterStep ==
  ASSUME IInv, ConversationInv, NEW c \in Client, NEW k \in Client,
         NEW net, WritesTo(net, c, k),
         NEW held, NEW asked,
         InOrder(inbox'[k][c], held),
         Sound(Packets(inbox'[k][c], held), queue'[c][k], last_pkt_sent'[c][k], asked,
               accepted[k][c], last_pkt_received[k][c], typed'[c][k]),
         Held(k, c)' \in SUBSET held, Asked(c, k)' \in SUBSET asked
  PROVE  ConversationInv'
<1> SUFFICES ASSUME NEW s \in Client, NEW r \in Client
             PROVE  PairInv(s, r)'
  BY DEF ConversationInv
<1>1. SameRecipient(r, s) /\ PairInv(s, r)
  BY DEF WritesTo, SameRecipient, ConversationInv
<1>2. CASE s = c /\ r = k
  <2>1. /\ InOrder(inbox'[k][c], Held(k, c)')
        /\ Packets(inbox'[k][c], Held(k, c)') \in SUBSET Packets(inbox'[k][c], held)
    BY BoxReleased
  <2>2. Sound(Packets(inbox'[k][c], Held(k, c)'), queue'[c][k], last_pkt_sent'[c][k],
              Asked(c, k)', accepted[k][c], last_pkt_received[k][c], typed'[c][k])
    BY <2>1, Shrunk
  <2> QED
    BY <1>1, <1>2, <2>1, <2>2 DEF PairInv, SameRecipient
<1>3. CASE s # c \/ r # k
  <2>1. SameSender(s, r)
    BY <1>3 DEF WritesTo, OnlyWritesTo, SameSender
  <2>2. Lighter(inbox'[r][s], inbox[r][s])
    BY <1>3 DEF WritesTo, BoxOnly
  <2>3. Held(r, s)' \subseteq Held(r, s) /\ Asked(s, r)' \subseteq Asked(s, r)
    BY LessHeld DEF WritesTo
  <2> QED
    BY <1>1, <2>1, <2>2, <2>3, LightPair
<1> QED
  BY <1>2, <1>3

LEMMA InboxIsLight ==
  \A s, r \in Client : Lighter(inbox[r][s], inbox[r][s])
  BY DEF Lighter

\* The message at the head of a queue is sent again.
LEMMA SentAgain ==
  ASSUME IInv, ConversationInv, NEW c \in Client, NEW k \in Client, NoNewLookup(c),
         queue[c][k] # <<>>,
         send_message_to_contact(inbox, c, k, queue[c][k], last_pkt_sent[c][k]),
         UNCHANGED <<last_pkt_sent, typed, accepted, last_pkt_received, screen,
                     recordStart>>
  PROVE  ConversationInv'
<1>1. /\ inbox \in Inboxes /\ queue \in Queues
      /\ queue[c][k] \in Seq(Message) /\ last_pkt_sent[c][k] \in Number
      /\ Held(k, c) \in SUBSET Datagram
      /\ accepted[k][c] \in Nat /\ typed[c][k] \in Nat
  BY PairTypes, HeldTypes, TypeParts DEF IInv, RestTypeOK, Number
<1>2. PairInv(c, k)
  BY DEF ConversationInv
<1>3. /\ InOrder(inbox[k][c], Held(k, c))
      /\ Sound(Packets(inbox[k][c], Held(k, c)), queue[c][k], last_pkt_sent[c][k],
               Asked(c, k), accepted[k][c], last_pkt_received[k][c], typed[c][k])
  BY <1>2 DEF PairInv
<1>4. /\ InOrder(inbox'[k][c], Held(k, c))
      /\ Sound(Packets(inbox'[k][c], Held(k, c)), queue'[c][k], last_pkt_sent[c][k],
               Asked(c, k), accepted[k][c], last_pkt_received[k][c], typed[c][k])
      /\ BoxOnly(inbox, k, c)
      /\ QueueOnly(c, k)
  BY <1>1, <1>3, SentToPair
<1>5. WritesTo(inbox, c, k)
  BY <1>4, InboxIsLight DEF WritesTo, OnlyWritesTo, QueueOnly
<1>6. Held(k, c)' \in SUBSET Held(k, c) /\ Asked(c, k)' \in SUBSET Asked(c, k)
  BY LessHeld
<1> QED
  BY <1>4, <1>5, <1>6, WriterStep

LEMMA ResendConverses ==
  ASSUME IInv, ConversationInv, NEW c \in Client, NEW k \in Client, Resend(c, k)
  PROVE  ConversationInv'
<1>1. queue[c][k] # <<>>
  BY DEF Resend, AtContact, IInv, LoopInv, InLoop
<1>2. NoNewLookup(c)
  BY Loop DEF Resend, Visited, Phase, NoNewLookup
<1>3. /\ send_message_to_contact(inbox, c, k, queue[c][k], last_pkt_sent[c][k])
      /\ UNCHANGED <<last_pkt_sent, typed, accepted, last_pkt_received, screen,
                     recordStart>>
  BY DEF Resend, displayVars
<1> QED
  BY <1>1, <1>2, <1>3, SentAgain

LEMMA ResumedLookup ==
  ASSUME IInv, NEW c \in Client, InLookup(c, "resend"), ResumeResend(c)
  PROVE  NoNewLookup(c) /\ lookup[c].nick \in Client
  BY Loop, ResendLookup DEF ResumeResend, Visited, Phase, NoNewLookup

LEMMA FoundForResendConverses ==
  ASSUME IInv, ConversationInv, NEW c \in Client, FoundForResend(c)
  PROVE  ConversationInv'
<1> DEFINE k == lookup[c].nick
<1>1. /\ k \in Client /\ queue[c][k] # <<>>
      /\ NoNewLookup(c)
  BY ResendLookup, ResumedLookup DEF FoundForResend
<1>2. /\ send_message_to_contact(inbox, c, k, queue[c][k], last_pkt_sent[c][k])
      /\ UNCHANGED <<last_pkt_sent, typed, accepted, last_pkt_received, screen,
                     recordStart>>
  BY DEF FoundForResend, displayVars
<1> QED
  BY <1>1, <1>2, SentAgain

LEMMA NotFoundForResendConverses ==
  ASSUME IInv, ConversationInv, NEW c \in Client, NotFoundForResend(c)
  PROVE  ConversationInv'
<1>1. PICK k \in Client :
        k = lookup[c].nick /\ queue[c][k] # <<>> /\ NoNewLookup(c)
  BY ResendLookup, ResumedLookup DEF NotFoundForResend
<1> DEFINE H == Held(k, c)
<1>2. /\ queue' = [queue EXCEPT ![c][k] = Tail(queue[c][k])]
      /\ UNCHANGED <<last_pkt_sent, typed, inbox, accepted, last_pkt_received, screen,
                     recordStart>>
  BY <1>1 DEF NotFoundForResend, netVars, displayVars
<1>3. /\ queue[c][k] \in Seq(Message) /\ H \in SUBSET Datagram
      /\ accepted[k][c] \in Nat /\ typed[c][k] \in Nat
      /\ queue \in Queues
  BY <1>1, PairTypes, HeldTypes, TypeParts DEF IInv, RestTypeOK
<1>4. /\ queue'[c][k] = Tail(queue[c][k])
      /\ OnlyWritesTo(c, k)
  BY <1>1, <1>2, <1>3 DEF Queues, OnlyWritesTo
<1>5. /\ InOrder(inbox[k][c], H)
      /\ Sound(Packets(inbox[k][c], H), queue[c][k], last_pkt_sent[c][k], Asked(c, k),
               accepted[k][c], last_pkt_received[k][c], typed[c][k])
  BY <1>1 DEF ConversationInv, PairInv
<1>6. Sound(Packets(inbox[k][c], H), Tail(queue[c][k]), last_pkt_sent[c][k],
            Asked(c, k), accepted[k][c], last_pkt_received[k][c], typed[c][k])
  BY <1>1, <1>3, <1>5, PacketSet, Popped
<1>7. WritesTo(inbox, c, k)
  BY <1>1, <1>2, <1>4, InboxIsLight DEF WritesTo, BoxOnly
<1>8. Held(k, c)' \in SUBSET H /\ Asked(c, k)' \in SUBSET Asked(c, k)
  BY <1>1, LessHeld
<1>9. /\ InOrder(inbox'[k][c], H)
      /\ Sound(Packets(inbox'[k][c], H), queue'[c][k], last_pkt_sent'[c][k],
               Asked(c, k), accepted[k][c], last_pkt_received[k][c], typed'[c][k])
  BY <1>2, <1>4, <1>5, <1>6
<1> HIDE DEF H
<1> QED
  BY <1>7, <1>8, <1>9, WriterStep

LEMMA ReceiveAckConverses ==
  ASSUME IInv, ConversationInv, NEW c \in Client, NEW k \in Client, ReceiveAck(c, k)
  PROVE  ConversationInv'
<1> DEFINE net == Received(c, k)
           H == Held(k, c)
           q == Tail(queue[c][k])
           A == Asked(c, k)
<1>1. /\ inbox[c][k] # <<>> /\ queue[c][k] # <<>>
      /\ send_next_message_to_contact(net, c, k, q)
      /\ UNCHANGED <<typed, accepted, last_pkt_received, screen, recordStart>>
  BY DEF ReceiveAck, Next_is, displayVars
<1>2. NoNewLookup(c)
  BY Loop DEF ReceiveAck, EndIteration, NoNewLookup
<1>3. /\ queue[c][k] \in Seq(Message) /\ q \in Seq(Message) /\ H \in SUBSET Datagram
      /\ accepted[k][c] \in Nat /\ typed[c][k] \in Nat /\ inbox[k][c] \in Seq(Datagram)
      /\ queue \in Queues /\ last_pkt_sent \in Sent
  BY <1>1, PairTypes, HeldTypes, TypeParts DEF IInv, RestTypeOK
<1>4. net \in Inboxes
  BY <1>1, ReceivedPacket DEF IInv
<1>5. \A s, r \in Client : Lighter(net[r][s], inbox[r][s])
  BY <1>1, TakenOff DEF Taken, Lighter
<1>6. /\ InOrder(inbox[k][c], H)
      /\ Sound(Packets(inbox[k][c], H), queue[c][k], last_pkt_sent[c][k], A,
               accepted[k][c], last_pkt_received[k][c], typed[c][k])
  BY DEF ConversationInv, PairInv
<1> HIDE DEF net, H, A
<1>7. InOrder(net[k][c], H) /\ Packets(net[k][c], H) \in SUBSET Packets(inbox[k][c], H)
  BY <1>3, <1>5, <1>6, LighterBox
<1>8. Sound(Packets(net[k][c], H), queue[c][k], last_pkt_sent[c][k], A,
            accepted[k][c], last_pkt_received[k][c], typed[c][k])
  BY <1>6, <1>7, Shrunk
<1>9. /\ Sound(Packets(net[k][c], H), q, last_pkt_sent[c][k], A,
               accepted[k][c], last_pkt_received[k][c], typed[c][k])
      /\ Fresh(Packets(net[k][c], H), q, accepted[k][c])
  BY <1>1, <1>3, <1>8, PacketSet, Popped
<1> HIDE DEF q
<1>10. /\ InOrder(inbox'[k][c], H)
       /\ Sound(Packets(inbox'[k][c], H), queue'[c][k], last_pkt_sent'[c][k], A,
                accepted[k][c], last_pkt_received[k][c], typed[c][k])
       /\ BoxOnly(net, k, c)
       /\ OnlyWritesTo(c, k)
  BY <1>1, <1>3, <1>4, <1>7, <1>9, SentNextToPair
<1>11. WritesTo(net, c, k)
  BY <1>1, <1>2, <1>5, <1>10 DEF WritesTo
<1>12. Held(k, c)' \in SUBSET H /\ Asked(c, k)' \in SUBSET A
  BY <1>2, LessHeld DEF H, A
<1> QED
  BY <1>1, <1>10, <1>11, <1>12, WriterStep

\* A message is typed to k: it is the youngest of the conversation.
LEMMA TypedToPair ==
  ASSUME IInv, ConversationInv, NEW c \in Client, NEW k \in Client, Typing(c, k)
  PROVE  /\ typed[c][k] + 1 \in Nat /\ typed'[c][k] = typed[c][k] + 1
         /\ \A s, r \in Client : s # c \/ r # k => typed'[s][r] = typed[s][r]
         /\ InOrder(inbox[k][c], Held(k, c))
         /\ Sound(Packets(inbox[k][c], Held(k, c)), queue[c][k], last_pkt_sent[c][k],
                  {typed[c][k] + 1}, accepted[k][c], last_pkt_received[k][c],
                  typed[c][k] + 1)
<1>1. /\ typed \in Counts /\ typed[c][k] \in Nat /\ accepted[k][c] \in Nat
      /\ queue[c][k] \in Seq(Message) /\ Held(k, c) \in SUBSET Datagram
  BY PairTypes, HeldTypes, TypeParts DEF IInv, RestTypeOK
<1>2. /\ typed'[c][k] = typed[c][k] + 1
      /\ \A s, r \in Client : s # c \/ r # k => typed'[s][r] = typed[s][r]
  BY <1>1 DEF Typing, Counts
<1>3. /\ InOrder(inbox[k][c], Held(k, c))
      /\ Sound(Packets(inbox[k][c], Held(k, c)), queue[c][k], last_pkt_sent[c][k],
               Asked(c, k), accepted[k][c], last_pkt_received[k][c], typed[c][k])
  BY DEF ConversationInv, PairInv
<1>4. Sound(Packets(inbox[k][c], Held(k, c)), queue[c][k], last_pkt_sent[c][k],
            {typed[c][k] + 1}, accepted[k][c], last_pkt_received[k][c], typed[c][k] + 1)
  BY <1>1, <1>3, PacketSet, TypedNext
<1> QED
  BY <1>1, <1>2, <1>3, <1>4

LEMMA TypeToContactConverses ==
  ASSUME IInv, ConversationInv, NEW c \in Client, NEW k \in Client, TypeToContact(c, k)
  PROVE  ConversationInv'
<1> DEFINE n == typed[c][k] + 1
           H == Held(k, c)
<1>1. /\ Typing(c, k) /\ QueueMessage(c, k, n)
      /\ UNCHANGED <<accepted, last_pkt_received, screen, recordStart>>
  BY DEF TypeToContact, Typing, displayVars
<1>2. NoNewLookup(c)
  BY Loop DEF TypeToContact, EndIteration, NoNewLookup
<1>3. /\ n \in Nat /\ typed'[c][k] = n
      /\ \A s, r \in Client : s # c \/ r # k => typed'[s][r] = typed[s][r]
      /\ InOrder(inbox[k][c], H)
      /\ Sound(Packets(inbox[k][c], H), queue[c][k], last_pkt_sent[c][k], {n},
               accepted[k][c], last_pkt_received[k][c], n)
  BY <1>1, TypedToPair
<1>4. H \in SUBSET Datagram /\ accepted[k][c] \in Nat
  BY PairTypes, HeldTypes
<1>5. pc[c] = "input"
  BY DEF TypeToContact, Typing, AtStdin
<1>6. Held(k, c)' \in SUBSET H /\ Asked(c, k)' \in SUBSET {}
  BY <1>2, <1>5, LessHeld DEF Asked, InLookup
<1> HIDE DEF n, H
<1>7. /\ InOrder(inbox'[k][c], H)
      /\ Sound(Packets(inbox'[k][c], H), queue'[c][k], last_pkt_sent'[c][k], {},
               accepted[k][c], last_pkt_received[k][c], n)
      /\ BoxOnly(inbox, k, c)
      /\ OnlyWritesTo(c, k)
  BY <1>1, <1>3, <1>4, QueuedForPair DEF BoxOnly
<1>8. WritesTo(inbox, c, k)
  BY <1>1, <1>2, <1>3, <1>7, InboxIsLight DEF WritesTo
<1> QED
  BY <1>3, <1>6, <1>7, <1>8, WriterStep

LEMMA FoundForSendConverses ==
  ASSUME IInv, ConversationInv, NEW c \in Client, FoundForSend(c)
  PROVE  ConversationInv'
<1>1. PICK k \in Client, n \in Nat : k = lookup[c].nick /\ n = lookup[c].id
  BY DEF FoundForSend, InLookup, IInv, LoopInv, InLoop, Lookup
<1> DEFINE H == Held(k, c)
<1>2. /\ InLookup(c, "send") /\ LeaveLookup(c) /\ QueueMessage(c, k, n)
      /\ UNCHANGED <<accepted, last_pkt_received, screen, recordStart, typed>>
  BY <1>1 DEF FoundForSend, displayVars
<1>3. NoNewLookup(c) /\ pc'[c] = "loop"
  BY <1>2, Loop DEF LeaveLookup, EndIteration, NoNewLookup
<1>4. Asked(c, k) = {n}
  BY <1>1, <1>2 DEF Asked
<1>5. /\ InOrder(inbox[k][c], H)
      /\ Sound(Packets(inbox[k][c], H), queue[c][k], last_pkt_sent[c][k], {n},
               accepted[k][c], last_pkt_received[k][c], typed[c][k])
  BY <1>4 DEF ConversationInv, PairInv
<1>6. H \in SUBSET Datagram /\ accepted[k][c] \in Nat /\ typed[c][k] \in Nat
  BY PairTypes, HeldTypes
<1>7. Held(k, c)' \in SUBSET H /\ Asked(c, k)' \in SUBSET {}
  BY <1>3, LessHeld DEF Asked, InLookup
<1> HIDE DEF H
<1>8. /\ InOrder(inbox'[k][c], H)
      /\ Sound(Packets(inbox'[k][c], H), queue'[c][k], last_pkt_sent'[c][k], {},
               accepted[k][c], last_pkt_received[k][c], typed[c][k])
      /\ BoxOnly(inbox, k, c)
      /\ OnlyWritesTo(c, k)
  BY <1>2, <1>5, <1>6, QueuedForPair DEF BoxOnly
<1>9. WritesTo(inbox, c, k)
  BY <1>2, <1>3, <1>8, InboxIsLight DEF WritesTo
<1>10. typed'[c][k] = typed[c][k]
  BY <1>2
<1> QED
  BY <1>7, <1>8, <1>9, <1>10, WriterStep

\* The lookups of the other clients go on, and c began one.
LEMMA BegunLookup ==
  ASSUME IInv, NEW c \in Client, pc[c] = "input", NEW why, NEW k, NEW num, NEW id,
         StartLookup(c, why, k, num, id)
  PROVE  /\ pc'[c] = "lookup"
         /\ lookup'[c] = [why |-> why, nick |-> k, num |-> num, id |-> id]
         /\ \A d \in Client : d # c => pc'[d] = pc[d] /\ lookup'[d] = lookup[d]
         /\ \A d \in Client : Held(c, d) = {} /\ Asked(c, d) = {}
  BY Loop DEF StartLookup, Held, Asked, InLookup

LEMMA TypeToStrangerConverses ==
  ASSUME IInv, ConversationInv, NEW c \in Client, NEW k \in Client, TypeToStranger(c, k)
  PROVE  ConversationInv'
<1> DEFINE n == typed[c][k] + 1
<1>1. /\ Typing(c, k) /\ pc[c] = "input"
      /\ StartLookup(c, "send", k, 0, n)
      /\ UNCHANGED <<queue, last_pkt_sent, inbox, accepted, last_pkt_received, screen,
                     recordStart>>
  BY DEF TypeToStranger, Typing, AtStdin, contactVars, netVars, displayVars
<1>2. /\ pc'[c] = "lookup"
      /\ lookup'[c].why = "send" /\ lookup'[c].nick = k /\ lookup'[c].id = n
      /\ \A d \in Client : d # c => pc'[d] = pc[d] /\ lookup'[d] = lookup[d]
      /\ \A d \in Client : Held(c, d) = {} /\ Asked(c, d) = {}
  <2> HIDE DEF n
  <2>1. /\ pc'[c] = "lookup"
        /\ lookup'[c] = [why |-> "send", nick |-> k, num |-> 0, id |-> n]
        /\ \A d \in Client : d # c => pc'[d] = pc[d] /\ lookup'[d] = lookup[d]
        /\ \A d \in Client : Held(c, d) = {} /\ Asked(c, d) = {}
    BY <1>1, BegunLookup
  <2> QED
    BY <2>1
<1>3. /\ typed'[c][k] = n
      /\ \A s, r \in Client : s # c \/ r # k => typed'[s][r] = typed[s][r]
      /\ InOrder(inbox[k][c], Held(k, c))
      /\ Sound(Packets(inbox[k][c], Held(k, c)), queue[c][k], last_pkt_sent[c][k],
               {n}, accepted[k][c], last_pkt_received[k][c], n)
  BY <1>1, TypedToPair
<1> HIDE DEF n
<1>4. ASSUME NEW s \in Client, NEW r \in Client
      PROVE  /\ Held(r, s)' = Held(r, s)
             /\ s # c \/ r # k => Asked(s, r)' \subseteq Asked(s, r)
             /\ Asked(c, k)' = {n}
  BY <1>2 DEF Held, Asked, InLookup
<1> SUFFICES ASSUME NEW s \in Client, NEW r \in Client
             PROVE  PairInv(s, r)'
  BY DEF ConversationInv
<1>5. PairInv(s, r) /\ SameRecipient(r, s)
  BY <1>1 DEF ConversationInv, SameRecipient
<1>6. CASE s = c /\ r = k
  BY <1>1, <1>3, <1>4, <1>5, <1>6 DEF PairInv
<1>7. CASE s # c \/ r # k
  <2>1. SameSender(s, r) /\ Lighter(inbox'[r][s], inbox[r][s])
    BY <1>1, <1>3, <1>7 DEF SameSender, Lighter
  <2>2. Held(r, s)' \subseteq Held(r, s) /\ Asked(s, r)' \subseteq Asked(s, r)
    BY <1>4, <1>7
  <2> QED
    BY <1>5, <2>1, <2>2, LightPair
<1> QED
  BY <1>6, <1>7

-----------------------------------------------------------------------------
(* The steps that delete contacts.                                         *)

\* What c does to its conversations with k when it deletes its contact for k.
DropsSender(c, k) == queue'[c][k] = <<>>

DropsRecipient(c, k) ==
  /\ last_pkt_received'[c][k] = -1
  /\ recordStart'[c][k] = Len(screen[c][k])
  /\ accepted'[c][k] = accepted[c][k]
  /\ screen'[c][k] = screen[c][k]

\* A step that does nothing to the conversation from s to r but to drop the contact
\* of either end, and all that waits at the socket.
DropsPair(s, r) ==
  /\ SameSender(s, r) \/ (DropsSender(s, r) /\ typed'[s][r] = typed[s][r])
  /\ SameRecipient(r, s) \/ DropsRecipient(r, s)
  /\ inbox'[r][s] \in {inbox[r][s], <<>>}

LEMMA DroppedPair ==
  ASSUME IInv, NEW s \in Client, NEW r \in Client, PairInv(s, r), DropsPair(s, r),
         Held(r, s)' \in SUBSET Held(r, s), Asked(s, r)' \in SUBSET Asked(s, r)
  PROVE  PairInv(s, r)'
<1> DEFINE Q == Packets(inbox'[r][s], Held(r, s)')
<1>1. /\ InOrder(inbox'[r][s], Held(r, s)')
      /\ Q \in SUBSET Packets(inbox[r][s], Held(r, s))
  <2>1. CASE inbox'[r][s] = inbox[r][s]
    BY <2>1, BoxReleased DEF PairInv
  <2>2. CASE inbox'[r][s] = <<>>
    BY <2>2 DEF PairInv, InOrder, Packets
  <2> QED
    BY <2>1, <2>2 DEF DropsPair
<1> HIDE DEF Q
<1>2. Sound(Q, queue[s][r], last_pkt_sent[s][r], Asked(s, r)', accepted[r][s],
            last_pkt_received[r][s], typed[s][r])
  BY <1>1, Shrunk DEF PairInv
<1>3. Sound(Q, queue'[s][r], last_pkt_sent'[s][r], Asked(s, r)', accepted[r][s],
            last_pkt_received[r][s], typed'[s][r])
  BY <1>2, Emptied DEF DropsPair, SameSender, DropsSender
<1>4. Sound(Q, queue'[s][r], last_pkt_sent'[s][r], Asked(s, r)', accepted'[r][s],
            last_pkt_received'[r][s], typed'[s][r])
  BY <1>3, Forgotten DEF DropsPair, SameRecipient, DropsRecipient
<1>5. Shown(screen'[r][s], recordStart'[r][s], accepted'[r][s], last_pkt_received'[r][s])
  <2>1. Shown(screen[r][s], recordStart[r][s], accepted[r][s], last_pkt_received[r][s])
    BY DEF PairInv
  <2> QED
    BY <2>1 DEF DropsPair, SameRecipient, DropsRecipient, Shown
<1> QED
  BY <1>1, <1>4, <1>5 DEF PairInv, Q

LEMMA GiveUpConverses ==
  ASSUME IInv, ConversationInv, NEW c \in Client, NEW k \in Client, GiveUp(c, k)
  PROVE  ConversationInv'
<1>1. /\ queue \in Queues /\ last_pkt_sent \in Sent
      /\ last_pkt_received \in [Client -> [Client -> {-1, 0, 1}]]
      /\ recordStart \in Counts
  BY TypeParts DEF IInv, RestTypeOK, TypeOK, Counts
<1>2. NoNewLookup(c)
  BY Loop DEF GiveUp, Visited, Phase, NoNewLookup
<1>3. UNCHANGED <<inbox, typed, accepted, screen>>
  BY DEF GiveUp, netVars
<1> SUFFICES ASSUME NEW s \in Client, NEW r \in Client
             PROVE  PairInv(s, r)'
  BY DEF ConversationInv
<1>4. SameSender(s, r) \/ DropsSender(s, r)
  BY <1>1, <1>3 DEF GiveUp, SameSender, DropsSender, Queues, Sent
<1>5. SameRecipient(r, s) \/ DropsRecipient(r, s)
  BY <1>1, <1>3 DEF GiveUp, SameRecipient, DropsRecipient, Counts
<1>6. DropsPair(s, r)
  BY <1>3, <1>4, <1>5 DEF DropsPair
<1>7. Held(r, s)' \in SUBSET Held(r, s) /\ Asked(s, r)' \in SUBSET Asked(s, r)
  BY <1>2, LessHeld
<1> QED
  BY <1>6, <1>7, DroppedPair DEF ConversationInv

LEMMA StopConverses ==
  ASSUME IInv, ConversationInv, NEW c \in Client, NEW how \in {"down", "crashed"},
         Stop(c, how)
  PROVE  ConversationInv'
<1>1. /\ queue \in Queues /\ last_pkt_sent \in Sent /\ inbox \in Inboxes
      /\ last_pkt_received \in [Client -> [Client -> {-1, 0, 1}]]
      /\ recordStart \in Counts
  BY TypeParts DEF IInv, RestTypeOK, TypeOK, Counts
<1>2. NoNewLookup(c)
  BY Loop DEF Stop, NoNewLookup
<1>3. UNCHANGED <<typed, accepted, screen>>
  BY DEF Stop
<1> SUFFICES ASSUME NEW s \in Client, NEW r \in Client
             PROVE  PairInv(s, r)'
  BY DEF ConversationInv
<1>4. SameSender(s, r) \/ DropsSender(s, r)
  BY <1>1, <1>3 DEF Stop, SameSender, DropsSender, Queues, Sent
<1>5. SameRecipient(r, s) \/ DropsRecipient(r, s)
  BY <1>1, <1>3 DEF Stop, SameRecipient, DropsRecipient, Counts
<1>6. inbox'[r][s] \in {inbox[r][s], <<>>}
  BY <1>1 DEF Stop, Inboxes
<1>7. DropsPair(s, r)
  BY <1>3, <1>4, <1>5, <1>6 DEF DropsPair
<1>8. Held(r, s)' \in SUBSET Held(r, s) /\ Asked(s, r)' \in SUBSET Asked(s, r)
  BY <1>2, LessHeld
<1> QED
  BY <1>7, <1>8, DroppedPair DEF ConversationInv

-----------------------------------------------------------------------------
(* The steps of a recipient.                                               *)

\* The packet d, which is the oldest under way from k, is in the hands of c.
InHand(c, k, d) ==
  /\ d \in Packets(inbox[c][k], Held(c, k))
  /\ \A e \in Packets(inbox[c][k], Held(c, k)) : d.id <= e.id

\* Only what c remembers of k, and has printed from it, changes.
OnlyHears(c, k) ==
  \A r, s \in Client : r # c \/ s # k => SameRecipient(r, s)

\* What c does with a packet of k: a new one is accepted, and perhaps printed.
Hears(c, k, d) ==
  \/ SameRecipient(c, k)
  \/ /\ d.num # last_pkt_received[c][k]
     /\ last_pkt_received'[c][k] = d.num
     /\ accepted'[c][k] = d.id
     /\ screen'[c][k] \in {screen[c][k], Append(screen[c][k], d.id)}
     /\ recordStart'[c][k] = recordStart[c][k]

LEMMA HeardPkt ==
  ASSUME IInv, NEW net, NEW c \in Client, NEW k \in Client, NEW d,
         AcceptPkt(net, c, k, d.num, d.id), UNCHANGED recordStart
  PROVE  Hears(c, k, d) /\ OnlyHears(c, k)
<1>1. /\ last_pkt_received \in Seen /\ accepted \in Counts /\ screen \in Screens
  BY TypeParts DEF IInv, RestTypeOK
<1>2. CASE d.num # last_pkt_received[c][k]
  <2>1. /\ last_pkt_received' = [last_pkt_received EXCEPT ![c][k] = d.num]
        /\ accepted' = [accepted EXCEPT ![c][k] = d.id]
    BY <1>2 DEF AcceptPkt
  <2>2. \/ screen' = screen
        \/ screen' = [screen EXCEPT ![c][k] = Append(screen[c][k], d.id)]
    BY <1>2 DEF AcceptPkt
  <2>3. /\ screen'[c][k] \in {screen[c][k], Append(screen[c][k], d.id)}
        /\ \A r, s \in Client : r # c \/ s # k => screen'[r][s] = screen[r][s]
    <3>1. PICK new : new = Append(screen[c][k], d.id)
      OBVIOUS
    <3>2. CASE screen' = screen
      BY <3>2
    <3>3. CASE screen' = [screen EXCEPT ![c][k] = new]
      BY <1>1, <3>1, <3>3 DEF Screens
    <3> QED
      BY <2>2, <3>1, <3>2, <3>3
  <2>4. /\ last_pkt_received'[c][k] = d.num /\ accepted'[c][k] = d.id
        /\ \A r, s \in Client : r # c \/ s # k =>
             /\ last_pkt_received'[r][s] = last_pkt_received[r][s]
             /\ accepted'[r][s] = accepted[r][s]
    BY <1>1, <2>1 DEF Seen, Counts
  <2>5. Hears(c, k, d)
    BY <1>2, <2>3, <2>4 DEF Hears
  <2>6. OnlyHears(c, k)
    BY <2>3, <2>4 DEF OnlyHears, SameRecipient
  <2> QED
    BY <2>5, <2>6
<1>3. CASE d.num = last_pkt_received[c][k]
  BY <1>3 DEF AcceptPkt, Hears, OnlyHears, SameRecipient
<1> QED
  BY <1>2, <1>3

\* A packet that is new to its recipient may be printed: nothing printed before is
\* younger, and nothing printed since the contact was made is the same message.
LEMMA Printable ==
  ASSUME IInv, NEW c \in Client, NEW k \in Client, PairInv(k, c), NEW d \in Datagram,
         d \in Packets(inbox[c][k], Held(c, k)), d.num # last_pkt_received[c][k]
  PROVE  /\ accepted[c][k] <= d.id /\ d.id \in 1 .. typed[k][c]
         /\ \A i \in DOMAIN screen[c][k] :
              /\ screen[c][k][i] <= d.id
              /\ i > recordStart[c][k] => screen[c][k][i] < d.id
<1>1. /\ accepted[c][k] \in Nat /\ screen[c][k] \in Seq(Nat)
      /\ last_pkt_received[c][k] \in {-1, 0, 1} /\ d.id \in Nat
  BY PairTypes DEF Datagram
<1>2. accepted[c][k] <= d.id /\ d.id \in 1 .. typed[k][c]
  BY DEF PairInv, Sound, Typed
<1>3. last_pkt_received[c][k] # -1 => accepted[c][k] < d.id
  <2>1. last_pkt_received[c][k] # -1 => d.id # accepted[c][k]
    BY DEF PairInv, Sound, Remembered
  <2> QED
    BY <1>1, <1>2, <2>1
<1>4. \A i \in DOMAIN screen[c][k] :
        screen[c][k][i] \in Nat /\ screen[c][k][i] <= accepted[c][k]
  BY <1>1 DEF PairInv, Shown
<1>5. \A i \in DOMAIN screen[c][k] :
        last_pkt_received[c][k] = -1 => ~ (i > recordStart[c][k])
  BY <1>1 DEF PairInv, Shown
<1> QED
  BY <1>1, <1>2, <1>3, <1>4, <1>5

\* The conversation from k to c once c has heard d.
LEMMA HeardPair ==
  ASSUME IInv, NEW c \in Client, NEW k \in Client, PairInv(k, c), NEW d \in Datagram,
         InHand(c, k, d), Hears(c, k, d), SameSender(k, c),
         Lighter(inbox'[c][k], inbox[c][k]),
         Held(c, k)' \in SUBSET Held(c, k), Asked(k, c)' \in SUBSET Asked(k, c)
  PROVE  PairInv(k, c)'
<1> DEFINE P == Packets(inbox[c][k], Held(c, k))
           Q == Packets(inbox'[c][k], Held(c, k)')
<1>1. /\ queue[k][c] \in Seq(Message) /\ typed[k][c] \in Nat /\ accepted[c][k] \in Nat
      /\ inbox[c][k] \in Seq(Datagram) /\ Held(c, k) \in SUBSET Datagram
      /\ P \in SUBSET Datagram /\ d.num \in {0, 1} /\ d.id \in Nat
      /\ screen[c][k] \in Seq(Nat)
  <2>1. Held(c, k) \in SUBSET Datagram
    BY HeldTypes
  <2>2. P \in SUBSET Datagram
    BY <2>1, PacketSet
  <2>3. d.num \in {0, 1} /\ d.id \in Nat
    BY DEF Datagram
  <2> QED
    BY <2>1, <2>2, <2>3, PairTypes
<1>2. /\ InOrder(inbox'[c][k], Held(c, k)') /\ Q \in SUBSET P
  BY <1>1, LighterBox DEF PairInv
<1>3. CASE SameRecipient(c, k)
  BY <1>3, LightPair
<1>4. ASSUME d.num # last_pkt_received[c][k],
             last_pkt_received'[c][k] = d.num, accepted'[c][k] = d.id,
             screen'[c][k] \in {screen[c][k], Append(screen[c][k], d.id)},
             recordStart'[c][k] = recordStart[c][k]
      PROVE  PairInv(k, c)'
  <2>1. d \in P /\ \A e \in P : d.id <= e.id
    BY DEF InHand
  <2>2. Sound(P, queue[k][c], last_pkt_sent[k][c], Asked(k, c), accepted[c][k],
              last_pkt_received[c][k], typed[k][c])
    BY DEF PairInv
  <2> HIDE DEF P, Q
  <2>3. Sound(P, queue[k][c], last_pkt_sent[k][c], Asked(k, c), d.id, d.num, typed[k][c])
    BY <1>1, <2>1, <2>2, TakenAsNew
  <2>4. Sound(Q, queue[k][c], last_pkt_sent[k][c], Asked(k, c)', d.id, d.num,
              typed[k][c])
    BY <1>2, <2>3, Shrunk
  <2>5. /\ accepted[c][k] <= d.id
        /\ \A i \in DOMAIN screen[c][k] : screen[c][k][i] <= d.id
    BY <1>4, <2>1, Printable DEF P
  <2>6. \A i \in DOMAIN screen'[c][k] : screen'[c][k][i] <= d.id
    <3>1. CASE screen'[c][k] = screen[c][k]
      BY <2>5, <3>1
    <3>2. CASE screen'[c][k] = Append(screen[c][k], d.id)
      BY <1>1, <2>5, <3>2
    <3> QED
      BY <1>4, <3>1, <3>2
  <2>7. Shown(screen'[c][k], recordStart'[c][k], accepted'[c][k],
              last_pkt_received'[c][k])
    BY <1>1, <1>4, <2>6 DEF Shown
  <2> QED
    BY <1>2, <1>4, <2>4, <2>7 DEF PairInv, SameSender, Q
<1> QED
  BY <1>3, <1>4 DEF Hears

LEMMA AcceptConverses ==
  ASSUME IInv, ConversationInv, NEW c \in Client, NEW k \in Client, NoNewLookup(c),
         NEW net \in Inboxes, \A s, r \in Client : Taken(net[r][s], inbox[r][s]),
         NEW d \in Datagram, InHand(c, k, d), AcceptPkt(net, c, k, d.num, d.id),
         UNCHANGED <<queue, last_pkt_sent, typed, recordStart>>
  PROVE  ConversationInv'
<1>1. Hears(c, k, d) /\ OnlyHears(c, k)
  BY HeardPkt
<1>2. Ack(d.num) \in Datagram /\ Ack(d.num).type = "ACK"
  BY DEF Ack, Datagram
<1>3. /\ BoxOnly(net, k, c)
      /\ \/ inbox'[k][c] = net[k][c]
         \/ inbox'[k][c] = Append(net[k][c], Ack(d.num))
  BY SentBoxes DEF AcceptPkt
<1> SUFFICES ASSUME NEW s \in Client, NEW r \in Client
             PROVE  PairInv(s, r)'
  BY DEF ConversationInv
<1>4. Lighter(inbox'[r][s], inbox[r][s])
  <2>1. CASE r # k \/ s # c
    BY <1>3, <2>1 DEF BoxOnly, Taken, Lighter
  <2>2. CASE r = k /\ s = c
    BY <1>2, <1>3, <2>2 DEF Taken, Lighter
  <2> QED
    BY <2>1, <2>2
<1>5. SameSender(s, r) /\ PairInv(s, r)
  BY DEF SameSender, ConversationInv
<1>6. Held(r, s)' \in SUBSET Held(r, s) /\ Asked(s, r)' \in SUBSET Asked(s, r)
  BY LessHeld
<1>7. CASE s = k /\ r = c
  BY <1>1, <1>4, <1>5, <1>6, <1>7, HeardPair
<1>8. CASE s # k \/ r # c
  BY <1>1, <1>4, <1>5, <1>6, <1>8, LightPair DEF OnlyHears
<1> QED
  BY <1>7, <1>8

\* The packet that c reads, and the one whose sender it looked up, are in its hands.
LEMMA ReadPkt ==
  ASSUME IInv, ConversationInv, NEW c \in Client, NEW k \in Client,
         AtSocket(c), Next_is(c, k, "PKT")
  PROVE  /\ Held(c, k) = {} /\ Head(inbox[c][k]) \in Datagram
         /\ InHand(c, k, Head(inbox[c][k]))
<1>1. Held(c, k) = {}
  BY DEF AtSocket, Held, InLookup
<1>2. /\ inbox[c][k] \in Seq(Datagram) /\ inbox[c][k] # <<>>
      /\ Head(inbox[c][k]).type = "PKT" /\ Head(inbox[c][k]) \in Datagram
  BY PairTypes, ReceivedPacket DEF Next_is, IInv
<1>3. InOrder(inbox[c][k], {})
  BY <1>1 DEF ConversationInv, PairInv
<1> QED
  BY <1>1, <1>2, <1>3, BoxFirst DEF InHand

LEMMA LookedUpPkt ==
  ASSUME IInv, ConversationInv, NEW c \in Client, NEW k \in Client,
         InLookup(c, "receive"), k = lookup[c].nick
  PROVE  /\ Pkt(lookup[c].num, lookup[c].id) \in Datagram
         /\ InHand(c, k, Pkt(lookup[c].num, lookup[c].id))
<1> DEFINE d == Pkt(lookup[c].num, lookup[c].id)
<1>1. Held(c, k) = {d}
  BY DEF Held
<1>2. d \in Datagram /\ inbox[c][k] \in Seq(Datagram)
  BY <1>1, PairTypes, HeldTypes
<1>3. InOrder(inbox[c][k], {d})
  BY <1>1 DEF ConversationInv, PairInv
<1> HIDE DEF d
<1>4. InHand(c, k, d)
  BY <1>1, <1>2, <1>3, BoxHeld DEF InHand
<1> QED
  BY <1>2, <1>4 DEF d

LEMMA ReceivePktConverses ==
  ASSUME IInv, ConversationInv, NEW c \in Client, NEW k \in Client, ReceivePkt(c, k)
  PROVE  ConversationInv'
<1>1. PICK d \in Datagram : d = Head(inbox[c][k]) /\ InHand(c, k, d)
  BY ReadPkt DEF ReceivePkt
<1>2. PICK net \in Inboxes : net = Received(c, k)
  BY ReceivedPacket DEF ReceivePkt, Next_is, IInv
<1>3. /\ AcceptPkt(net, c, k, d.num, d.id)
      /\ UNCHANGED <<queue, last_pkt_sent, typed, recordStart>>
  BY <1>1, <1>2 DEF ReceivePkt
<1>4. NoNewLookup(c)
  BY Loop DEF ReceivePkt, EndIteration, NoNewLookup
<1>5. \A s, r \in Client : Taken(net[r][s], inbox[r][s])
  BY <1>2, TakenOff DEF ReceivePkt, Next_is, Taken
<1> QED
  BY <1>1, <1>3, <1>4, <1>5, AcceptConverses

LEMMA FoundForReceiveConverses ==
  ASSUME IInv, ConversationInv, NEW c \in Client, FoundForReceive(c)
  PROVE  ConversationInv'
<1>1. PICK k \in Client : k = lookup[c].nick
  BY DEF FoundForReceive, InLookup, IInv, LoopInv, InLoop, Lookup
<1>2. PICK d \in Datagram : d = Pkt(lookup[c].num, lookup[c].id) /\ InHand(c, k, d)
  BY <1>1, LookedUpPkt DEF FoundForReceive
<1>3. d.num = lookup[c].num /\ d.id = lookup[c].id
  BY <1>2 DEF Pkt
<1>4. /\ AcceptPkt(inbox, c, k, d.num, d.id)
      /\ UNCHANGED <<queue, last_pkt_sent, typed, recordStart>>
  BY <1>1, <1>3 DEF FoundForReceive
<1>5. NoNewLookup(c)
  BY Loop DEF FoundForReceive, LeaveLookup, EndIteration, NoNewLookup
<1>6. inbox \in Inboxes /\ \A s, r \in Client : Taken(inbox[r][s], inbox[r][s])
  BY DEF IInv, TypeOK, Inboxes, Taken
<1> QED
  BY <1>2, <1>4, <1>5, <1>6, AcceptConverses

LEMMA ReceivePktFromStrangerConverses ==
  ASSUME IInv, ConversationInv, NEW c \in Client, NEW k \in Client,
         ReceivePktFromStranger(c, k)
  PROVE  ConversationInv'
<1>1. PICK d \in Datagram : d = Head(inbox[c][k]) /\ d.type = "PKT"
  BY ReadPkt DEF ReceivePktFromStranger, Next_is
<1>2. d = Pkt(d.num, d.id)
  BY <1>1 DEF Datagram, Pkt
<1>3. /\ pc[c] = "input" /\ inbox[c][k] # <<>> /\ inbox' = Received(c, k)
      /\ StartLookup(c, "receive", k, d.num, d.id)
      /\ UNCHANGED <<queue, last_pkt_sent, typed, accepted, last_pkt_received, screen,
                     recordStart>>
  BY <1>1 DEF ReceivePktFromStranger, AtSocket, Next_is, contactVars, displayVars
<1>4. /\ pc'[c] = "lookup"
      /\ lookup'[c].why = "receive" /\ lookup'[c].nick = k
      /\ Pkt(lookup'[c].num, lookup'[c].id) = d
      /\ \A e \in Client : e # c => pc'[e] = pc[e] /\ lookup'[e] = lookup[e]
      /\ \A e \in Client : Held(c, e) = {} /\ Asked(c, e) = {}
  <2>1. /\ pc'[c] = "lookup"
        /\ lookup'[c] = [why |-> "receive", nick |-> k, num |-> d.num, id |-> d.id]
        /\ \A e \in Client : e # c => pc'[e] = pc[e] /\ lookup'[e] = lookup[e]
        /\ \A e \in Client : Held(c, e) = {} /\ Asked(c, e) = {}
    BY <1>3, BegunLookup
  <2> QED
    BY <1>2, <2>1
<1>5. Held(c, k)' = {d}
  BY <1>4 DEF Held, InLookup
<1>6. /\ Received(c, k)[c][k] = Tail(inbox[c][k])
      /\ \A s, r \in Client : Lighter(inbox'[r][s], inbox[r][s])
  BY <1>3, TakenOff DEF Taken, Lighter
<1> SUFFICES ASSUME NEW s \in Client, NEW r \in Client
             PROVE  PairInv(s, r)'
  BY DEF ConversationInv
<1>7. SameSender(s, r) /\ SameRecipient(r, s) /\ PairInv(s, r)
  BY <1>3 DEF SameSender, SameRecipient, ConversationInv
<1>8. Asked(s, r)' \in SUBSET Asked(s, r)
  BY <1>4 DEF Asked, InLookup
<1>9. CASE r = c /\ s = k
  <2>1. InOrder(inbox[c][k], {}) /\ inbox[c][k] \in Seq(Datagram)
    BY <1>4, <1>7, <1>9, PairTypes DEF PairInv
  <2>2. /\ InOrder(inbox'[c][k], {d})
        /\ Packets(inbox'[c][k], {d}) \in SUBSET Packets(inbox[c][k], {})
    BY <1>1, <1>3, <1>6, <2>1, BoxFirst
  <2>3. Sound(Packets(inbox[c][k], {}), queue[k][c], last_pkt_sent[k][c], Asked(k, c),
              accepted[c][k], last_pkt_received[c][k], typed[k][c])
    BY <1>4, <1>7, <1>9 DEF PairInv
  <2>4. Sound(Packets(inbox'[c][k], {d}), queue[k][c], last_pkt_sent[k][c],
              Asked(k, c)', accepted[c][k], last_pkt_received[c][k], typed[k][c])
    BY <1>8, <1>9, <2>2, <2>3, Shrunk
  <2>5. /\ InOrder(inbox'[r][s], Held(r, s)')
        /\ Sound(Packets(inbox'[r][s], Held(r, s)'), queue[s][r], last_pkt_sent[s][r],
                 Asked(s, r)', accepted[r][s], last_pkt_received[r][s], typed[s][r])
    BY <1>5, <1>9, <2>2, <2>4
  <2>6. Shown(screen[r][s], recordStart[r][s], accepted[r][s], last_pkt_received[r][s])
    BY <1>7 DEF PairInv
  <2> QED
    BY <1>7, <2>5, <2>6 DEF PairInv, SameSender, SameRecipient
<1>10. CASE r # c \/ s # k
  <2>1. Held(r, s)' \in SUBSET Held(r, s)
    BY <1>4, <1>10 DEF Held, InLookup
  <2> QED
    BY <1>6, <1>7, <1>8, <2>1, LightPair
<1> QED
  BY <1>9, <1>10

-----------------------------------------------------------------------------
LEMMA ClientStepConverses ==
  ASSUME IInv, ConversationInv, NEW c \in Client, ClientStep(c)
  PROVE  ConversationInv'
<1>1. CASE SelectStep(c)
  BY <1>1, SelectConverses DEF SelectStep, Ready
<1>2. CASE ResendStep(c)
  BY <1>2, ResendConverses, LookupAgainConverses, GiveUpConverses DEF ResendStep
<1>3. CASE StdinStep(c)
  <2>1. CASE RejectInput(c)
    BY <2>1, StdinConverses
  <2>2. ASSUME NEW k \in Client, Block(c, k) \/ Unblock(c, k)
        PROVE  ConversationInv'
    BY <2>2, StdinConverses
  <2>3. ASSUME NEW k \in Client, TypeToContact(c, k) \/ TypeToStranger(c, k)
        PROVE  ConversationInv'
    BY <2>3, TypeToContactConverses, TypeToStrangerConverses
  <2> QED
    BY <1>3, <2>1, <2>2, <2>3 DEF StdinStep
<1>4. CASE SocketStep(c)
  BY <1>4, ReceivePktConverses, ReceivePktFromStrangerConverses, ReceiveAckConverses,
     ReceiveAckFromStrangerConverses, StopConverses
  DEF SocketStep, PopEmptyQueue
<1>5. CASE \E k \in Client : LookupIgnores(c, k)
  BY <1>5, LookupIgnoresConverses
<1>6. CASE LookupEnds(c)
  BY <1>6, FoundForResendConverses, NotFoundForResendConverses, FoundForSendConverses,
     FoundForReceiveConverses, NotFoundForStrangerConverses, StopConverses
  DEF LookupEnds, ServerSilent
<1>7. CASE Quit(c)
  BY <1>7, StopConverses DEF Quit
<1> QED
  BY <1>1, <1>2, <1>3, <1>4, <1>5, <1>6, <1>7 DEF ClientStep

\* Whatever is lost, resent, looked up or abandoned, the two ends of every
\* conversation agree: packets wait in the order of their messages, each message has
\* one packet number, and a recipient that remembers the last message it took
\* recognises every copy of it by that number (client_to_client_com.c).
THEOREM ConversationsAgree == Spec => []ConversationInv
<1>1. Init => ConversationInv
  <2> SUFFICES ASSUME Init, NEW s \in Client, NEW r \in Client
               PROVE  PairInv(s, r)
    BY DEF ConversationInv
  <2>1. /\ inbox[r][s] = <<>> /\ queue[s][r] = <<>> /\ screen[r][s] = <<>>
        /\ last_pkt_received[r][s] = -1 /\ recordStart[r][s] = 0
        /\ accepted[r][s] = 0 /\ typed[s][r] = 0
    BY DEF Init
  <2>2. Held(r, s) = {} /\ Asked(s, r) = {}
    BY DEF Init, Held, Asked, InLookup
  <2>3. Packets(<<>>, {}) = {} /\ InOrder(<<>>, {})
    BY DEF Packets, InOrder
  <2>4. Sound({}, <<>>, last_pkt_sent[s][r], {}, 0, -1, 0)
    BY DEF Sound, QueueInOrder, Numbered, Typed, Remembered
  <2>5. Shown(<<>>, 0, 0, -1)
    BY DEF Shown
  <2> QED
    BY <2>1, <2>2, <2>3, <2>4, <2>5 DEF PairInv
<1>2. IInv /\ ConversationInv /\ [Next]_vars => ConversationInv'
  <2>1. IInv /\ ConversationInv /\ Next => ConversationInv'
    BY ClientStepConverses DEF Next
  <2>2. IInv /\ ConversationInv /\ UNCHANGED vars => ConversationInv'
    <3> SUFFICES ASSUME IInv, ConversationInv, UNCHANGED vars,
                        NEW s \in Client, NEW r \in Client
                 PROVE  PairInv(s, r)'
      BY DEF ConversationInv
    <3>1. Held(r, s)' = Held(r, s) /\ Asked(s, r)' = Asked(s, r)
      BY DEF Held, Asked, InLookup, vars, loopVars
    <3>2. /\ SameSender(s, r) /\ SameRecipient(r, s)
          /\ Lighter(inbox'[r][s], inbox[r][s])
      BY DEF SameSender, SameRecipient, Lighter, vars, contactVars, netVars, displayVars
    <3> QED
      BY <3>1, <3>2, LightPair DEF ConversationInv
  <2> QED
    BY <2>1, <2>2
<1> QED
  BY <1>1, <1>2, InvariantHolds, PTL DEF Spec

-----------------------------------------------------------------------------
(* Every step of a client is one of Conversation, or changes nothing of it. *)

\* What Conversation sees of the clients.
Promised == <<typed, screen, recordStart>>

LEMMA TypeRefines ==
  ASSUME IInv, NEW c \in Client, NEW k \in Client, Typing(c, k)
  PROVE  Ordered!Type(c, k)
  BY DEF Typing, displayVars, Ordered!Type

LEMMA HearRefines ==
  ASSUME IInv, ConversationInv, NEW c \in Client, NEW k \in Client, NEW net,
         NEW d \in Datagram, InHand(c, k, d), AcceptPkt(net, c, k, d.num, d.id),
         UNCHANGED <<typed, recordStart>>
  PROVE  Ordered!Display(c, k) \/ UNCHANGED Promised
<1>1. CASE d.num # last_pkt_received[c][k] /\ k \notin blocked[c]
  <2>1. screen' = [screen EXCEPT ![c][k] = Append(@, d.id)]
    BY <1>1 DEF AcceptPkt
  <2>2. /\ d.id \in 1 .. typed[k][c]
        /\ \A i \in DOMAIN screen[c][k] :
             /\ screen[c][k][i] <= d.id
             /\ i > recordStart[c][k] => screen[c][k][i] < d.id
    BY <1>1, Printable DEF InHand, ConversationInv
  <2>3. Ordered!MayPrint(c, k, d.id)
    BY <2>2 DEF Ordered!MayPrint
  <2> QED
    BY <2>1, <2>2, <2>3 DEF Ordered!Display
<1>2. CASE ~ (d.num # last_pkt_received[c][k] /\ k \notin blocked[c])
  BY <1>2 DEF AcceptPkt, Promised
<1> QED
  BY <1>1, <1>2

LEMMA GiveUpRefines ==
  ASSUME IInv, NEW c \in Client, NEW k \in Client, GiveUp(c, k)
  PROVE  Ordered!Forget(c, {k})
<1>1. recordStart \in Counts
  BY TypeParts DEF IInv, RestTypeOK
<1>2. /\ recordStart' = [recordStart EXCEPT ![c][k] = Len(screen[c][k])]
      /\ UNCHANGED <<typed, screen>>
  BY DEF GiveUp
<1>3. recordStart' = [recordStart EXCEPT ![c] =
        [s \in Client |-> IF s \in {k} THEN Len(screen[c][s]) ELSE recordStart[c][s]]]
  BY <1>1, <1>2 DEF Counts
<1> QED
  BY <1>2, <1>3 DEF Ordered!Forget

LEMMA StopRefines ==
  ASSUME IInv, NEW c \in Client, NEW how, Stop(c, how)
  PROVE  Ordered!Forget(c, Client)
<1>1. recordStart \in Counts
  BY TypeParts DEF IInv, RestTypeOK
<1>2. /\ recordStart' = [recordStart EXCEPT ![c] = [k \in Client |-> Len(screen[c][k])]]
      /\ UNCHANGED <<typed, screen>>
  BY DEF Stop
<1>3. [k \in Client |-> Len(screen[c][k])] =
      [s \in Client |-> IF s \in Client THEN Len(screen[c][s]) ELSE recordStart[c][s]]
  OBVIOUS
<1>4. recordStart' = [recordStart EXCEPT ![c] =
        [s \in Client |-> IF s \in Client THEN Len(screen[c][s]) ELSE recordStart[c][s]]]
  BY <1>2, <1>3
<1> QED
  BY <1>2, <1>4 DEF Ordered!Forget

LEMMA ReceivePktRefines ==
  ASSUME IInv, ConversationInv, NEW c \in Client, NEW k \in Client, ReceivePkt(c, k)
  PROVE  Ordered!Display(c, k) \/ UNCHANGED Promised
<1>1. PICK d \in Datagram : d = Head(inbox[c][k]) /\ InHand(c, k, d)
  BY ReadPkt DEF ReceivePkt
<1>2. AcceptPkt(Received(c, k), c, k, d.num, d.id) /\ UNCHANGED <<typed, recordStart>>
  BY <1>1 DEF ReceivePkt
<1> QED
  BY <1>1, <1>2, HearRefines

LEMMA FoundForReceiveRefines ==
  ASSUME IInv, ConversationInv, NEW c \in Client, FoundForReceive(c)
  PROVE  (\E k \in Client : Ordered!Display(c, k)) \/ UNCHANGED Promised
<1>1. PICK k \in Client : k = lookup[c].nick
  BY DEF FoundForReceive, InLookup, IInv, LoopInv, InLoop, Lookup
<1>2. PICK d \in Datagram : d = Pkt(lookup[c].num, lookup[c].id) /\ InHand(c, k, d)
  BY <1>1, LookedUpPkt DEF FoundForReceive
<1>3. d.num = lookup[c].num /\ d.id = lookup[c].id
  BY <1>2 DEF Pkt
<1>4. AcceptPkt(inbox, c, k, d.num, d.id) /\ UNCHANGED <<typed, recordStart>>
  BY <1>1, <1>3 DEF FoundForReceive
<1> QED
  BY <1>2, <1>4, HearRefines

LEMMA ClientStepRefines ==
  ASSUME IInv, ConversationInv, NEW c \in Client, ClientStep(c)
  PROVE  Ordered!Next \/ UNCHANGED Promised
<1>1. CASE SelectStep(c)
  BY <1>1 DEF SelectStep, Select, displayVars, Promised
<1>2. ASSUME NEW k \in Client, Resend(c, k) \/ LookupAgain(c, k)
      PROVE  UNCHANGED Promised
  BY <1>2 DEF Resend, LookupAgain, displayVars, Promised
<1>3. ASSUME NEW k \in Client, GiveUp(c, k)
      PROVE  Ordered!Next
  BY <1>3, GiveUpRefines DEF Ordered!Next
<1>4. ASSUME NEW how, Stop(c, how)
      PROVE  Ordered!Next
  BY <1>4, StopRefines DEF Ordered!Next
<1>5. CASE RejectInput(c)
  BY <1>5 DEF RejectInput, displayVars, Promised
<1>6. ASSUME NEW k \in Client, Block(c, k) \/ Unblock(c, k)
      PROVE  UNCHANGED Promised
  BY <1>6 DEF Block, Unblock, displayVars, Promised
<1>7. ASSUME NEW k \in Client, TypeToContact(c, k) \/ TypeToStranger(c, k)
      PROVE  Ordered!Next
  BY <1>7, TypeRefines DEF TypeToContact, TypeToStranger, Ordered!Next
<1>8. ASSUME NEW k \in Client, ReceivePkt(c, k)
      PROVE  Ordered!Next \/ UNCHANGED Promised
  BY <1>8, ReceivePktRefines DEF Ordered!Next
<1>9. ASSUME NEW k \in Client,
             \/ ReceivePktFromStranger(c, k) \/ ReceiveAck(c, k)
             \/ ReceiveAckFromStranger(c, k) \/ LookupIgnores(c, k)
      PROVE  UNCHANGED Promised
  BY <1>9 DEF ReceivePktFromStranger, ReceiveAck, ReceiveAckFromStranger, LookupIgnores,
              displayVars, Promised
<1>10. CASE FoundForReceive(c)
  BY <1>10, FoundForReceiveRefines DEF Ordered!Next
<1>11. CASE FoundForResend(c) \/ NotFoundForResend(c) \/ FoundForSend(c)
            \/ NotFoundForStranger(c)
  BY <1>11 DEF FoundForResend, NotFoundForResend, FoundForSend, NotFoundForStranger,
               displayVars, Promised
<1>12. CASE ResendStep(c)
  BY <1>2, <1>3, <1>12 DEF ResendStep
<1>13. CASE StdinStep(c)
  BY <1>5, <1>6, <1>7, <1>13 DEF StdinStep
<1>14. CASE SocketStep(c)
  BY <1>4, <1>8, <1>9, <1>14 DEF SocketStep, PopEmptyQueue
<1>15. CASE LookupEnds(c)
  BY <1>4, <1>10, <1>11, <1>15 DEF LookupEnds, ServerSilent
<1>16. CASE Quit(c)
  BY <1>4, <1>16 DEF Quit
<1> QED
  BY <1>1, <1>9, <1>12, <1>13, <1>14, <1>15, <1>16 DEF ClientStep

\* The clients implement Conversation: whatever is lost, resent, looked up or
\* abandoned, messages are printed in the order they were typed, and twice only if
\* the recipient deleted the sender's contact (client_to_client_com.c,
\* upush_client.c:276-390).
THEOREM ImplementsConversation == Spec => OrderedConversation
<1>1. Init => Ordered!Init
  BY DEF Init, Ordered!Init
<1>2. IInv /\ ConversationInv /\ [Next]_vars => [Ordered!Next]_(Ordered!vars)
  <2>1. IInv /\ ConversationInv /\ Next => Ordered!Next \/ UNCHANGED Promised
    BY ClientStepRefines DEF Next
  <2>2. UNCHANGED vars => UNCHANGED Promised
    BY DEF vars, displayVars, Promised
  <2> QED
    BY <2>1, <2>2 DEF Promised, Ordered!vars
<1> QED
  BY <1>1, <1>2, InvariantHolds, ConversationsAgree, PTL
  DEF Spec, OrderedConversation, Ordered!Spec

-----------------------------------------------------------------------------
(* The list of contacts.  A client that has ended has none, messages are   *)
(* queued for contacts only, and a nick is looked up for a typed message   *)
(* only while it is not a contact.                                         *)

Lists(c) ==
  /\ ~ Alive(c) => known[c] = {}
  /\ \A k \in Client : queue[c][k] # <<>> => k \in known[c]
  /\ InLookup(c, "send") => lookup[c].nick \notin known[c]

ContactInv == \A c \in Client : Lists(c)

\* What the functions that send do to the queues.
LEMMA QueueOfNext ==
  ASSUME IInv, NEW net, NEW c \in Client, NEW k \in Client, NEW q,
         send_next_message_to_contact(net, c, k, q)
  PROVE  QueueOnly(c, k)
<1>1. queue \in Queues
  BY TypeParts DEF IInv, RestTypeOK
<1>2. CASE q = <<>>
  <2>1. queue' = [queue EXCEPT ![c][k] = q]
    BY <1>2 DEF send_next_message_to_contact
  <2> QED
    BY <1>1, <2>1 DEF Queues, QueueOnly
<1>3. CASE q # <<>>
  BY <1>3, QueueOfSent DEF send_next_message_to_contact
<1> QED
  BY <1>2, <1>3

LEMMA QueueOfQueued ==
  ASSUME IInv, NEW c \in Client, NEW k \in Client, NEW n, QueueMessage(c, k, n)
  PROVE  QueueOnly(c, k)
<1>1. queue \in Queues
  BY TypeParts DEF IInv, RestTypeOK
<1>2. CASE queue[c][k] = <<>>
  BY <1>2, QueueOfNext DEF QueueMessage
<1>3. CASE queue[c][k] # <<>>
  <2>1. queue' = [queue EXCEPT ![c][k] = Append(queue[c][k], NewMessage(n))]
    BY <1>3 DEF QueueMessage
  <2> QED
    BY <1>1, <2>1 DEF Queues, QueueOnly
<1> QED
  BY <1>2, <1>3

LEMMA OthersList ==
  ASSUME ContactInv, NEW c \in Client, NEW k \in Client, QueueOnly(c, k),
         \A d \in Client : d # c =>
           pc'[d] = pc[d] /\ lookup'[d] = lookup[d] /\ known'[d] = known[d],
         Lists(c)'
  PROVE  ContactInv'
<1> SUFFICES ASSUME NEW d \in Client, d # c
             PROVE  Lists(d)'
  BY DEF ContactInv
<1>1. Lists(d) /\ \A r \in Client : queue'[d][r] = queue[d][r]
  BY DEF ContactInv, QueueOnly
<1> QED
  BY <1>1 DEF Lists, Alive, InLookup

\* c goes on: at most its contact for k and their queue have changed.
LEMMA GoesOnListing ==
  ASSUME ContactInv, NEW c \in Client, NEW k \in Client, QueueOnly(c, k),
         \A d \in Client : d # c =>
           pc'[d] = pc[d] /\ lookup'[d] = lookup[d] /\ known'[d] = known[d],
         pc'[c] \notin {"down", "crashed"},
         known[c] \ {k} \in SUBSET known'[c], queue'[c][k] # <<>> => k \in known'[c],
         InLookup(c, "send")' => lookup'[c].nick \notin known'[c]
  PROVE  ContactInv'
<1>1. Alive(c)'
  BY DEF Alive
<1>2. ASSUME NEW r \in Client, queue'[c][r] # <<>>
      PROVE  r \in known'[c]
  <2>1. CASE r = k
    BY <1>2, <2>1
  <2>2. CASE r # k
    BY <1>2, <2>2 DEF QueueOnly, ContactInv, Lists
  <2> QED
    BY <2>1, <2>2
<1>3. Lists(c)'
  BY <1>1, <1>2 DEF Lists
<1> QED
  BY <1>3, OthersList

\* c goes on, and neither its contacts nor their queues change.
LEMMA KeepsListing ==
  ASSUME ContactInv, NEW c \in Client, UNCHANGED <<known, queue>>,
         \A d \in Client : d # c => pc'[d] = pc[d] /\ lookup'[d] = lookup[d],
         pc'[c] \notin {"down", "crashed"},
         InLookup(c, "send")' => lookup'[c].nick \notin known[c]
  PROVE  ContactInv'
<1>1. QueueOnly(c, c) /\ (queue'[c][c] # <<>> => c \in known'[c])
  BY DEF QueueOnly, ContactInv, Lists
<1> QED
  BY <1>1, GoesOnListing

LEMMA StopLists ==
  ASSUME IInv, ContactInv, NEW c \in Client, NEW how, Stop(c, how), how # "lookup"
  PROVE  ContactInv'
<1>1. queue \in Queues /\ known \in [Client -> SUBSET Client]
  BY TypeParts DEF IInv, RestTypeOK
<1>2. /\ \A d \in Client : d # c =>
           pc'[d] = pc[d] /\ lookup'[d] = lookup[d] /\ known'[d] = known[d]
      /\ known'[c] = {} /\ pc'[c] = how
  BY <1>1, Loop DEF Stop
<1>3. \A r \in Client : queue'[c][r] = <<>>
  BY <1>1 DEF Stop, Queues
<1>4. Lists(c)'
  BY <1>2, <1>3 DEF Lists, InLookup
<1>5. ASSUME NEW d \in Client, d # c
      PROVE  Lists(d)'
  <2>1. \A r \in Client : queue'[d][r] = queue[d][r]
    BY <1>1, <1>5 DEF Stop, Queues
  <2> QED
    BY <1>2, <1>5, <2>1 DEF ContactInv, Lists, Alive, InLookup
<1> QED
  BY <1>4, <1>5 DEF ContactInv

LEMMA ResendLists ==
  ASSUME IInv, ContactInv, NEW c \in Client, NEW k \in Client,
         Resend(c, k) \/ GiveUp(c, k)
  PROVE  ContactInv'
<1>1. queue \in Queues /\ known \in [Client -> SUBSET Client]
  BY TypeParts DEF IInv, RestTypeOK
<1>2. pc' = [pc EXCEPT ![c] = Phase(due[c] \ {k}, ready[c])] /\ UNCHANGED lookup
  BY DEF Resend, GiveUp, Visited
<1>3. /\ \A d \in Client : d # c => pc'[d] = pc[d] /\ lookup'[d] = lookup[d]
      /\ pc'[c] \notin {"down", "crashed"} /\ ~ InLookup(c, "send")'
  BY <1>2, Loop DEF Phase, InLookup
<1>4. CASE Resend(c, k)
  <2>1. queue[c][k] # <<>> /\ UNCHANGED known
    BY <1>4 DEF Resend, AtContact, IInv, LoopInv, InLoop
  <2>2. QueueOnly(c, k) /\ k \in known[c]
    BY <1>4, <2>1, QueueOfSent DEF Resend, ContactInv, Lists
  <2> QED
    BY <1>3, <2>1, <2>2, GoesOnListing
<1>5. CASE GiveUp(c, k)
  <2>1. /\ queue' = [queue EXCEPT ![c][k] = <<>>]
        /\ known' = [known EXCEPT ![c] = @ \ {k}]
    BY <1>5 DEF GiveUp
  <2>2. QueueOnly(c, k) /\ queue'[c][k] = <<>> /\ known'[c] = known[c] \ {k}
        /\ \A d \in Client : d # c => known'[d] = known[d]
    BY <1>1, <2>1 DEF QueueOnly, Queues
  <2> QED
    BY <1>3, <2>2, GoesOnListing
<1> QED
  BY <1>4, <1>5

LEMMA StdinLists ==
  ASSUME IInv, ContactInv, NEW c \in Client, NEW k \in Client,
         \/ RejectInput(c) \/ Block(c, k) \/ Unblock(c, k)
         \/ TypeToContact(c, k) \/ TypeToStranger(c, k)
  PROVE  ContactInv'
<1>1. queue \in Queues /\ UNCHANGED known
  BY TypeParts DEF IInv, RestTypeOK, RejectInput, Block, Unblock, TypeToContact,
                   TypeToStranger, contactVars
<1>2. CASE RejectInput(c) \/ Block(c, k) \/ Unblock(c, k)
  <2>1. /\ pc' = [pc EXCEPT ![c] = "loop"] /\ UNCHANGED <<known, queue, lookup>>
    BY <1>2 DEF RejectInput, Block, Unblock, EndIteration, contactVars
  <2> QED
    BY <2>1, Loop, KeepsListing DEF InLookup
<1>3. CASE TypeToContact(c, k)
  <2>1. /\ k \in known[c] /\ pc' = [pc EXCEPT ![c] = "loop"] /\ UNCHANGED lookup
    BY <1>3 DEF TypeToContact, EndIteration
  <2>2. QueueOnly(c, k)
    <3>1. PICK n : QueueMessage(c, k, n)
      BY <1>3 DEF TypeToContact
    <3> QED
      BY <3>1, QueueOfQueued
  <2> QED
    BY <1>1, <2>1, <2>2, Loop, GoesOnListing DEF InLookup
<1>4. CASE TypeToStranger(c, k)
  <2>1. PICK n : StartLookup(c, "send", k, 0, n)
    BY <1>4 DEF TypeToStranger
  <2>2. /\ k \notin known[c] /\ pc' = [pc EXCEPT ![c] = "lookup"]
        /\ lookup' = [lookup EXCEPT ![c] =
                        [why |-> "send", nick |-> k, num |-> 0, id |-> n]]
        /\ UNCHANGED queue
    BY <1>4, <2>1 DEF TypeToStranger, StartLookup, contactVars
  <2> QED
    BY <1>1, <2>2, Loop, KeepsListing
<1> QED
  BY <1>2, <1>3, <1>4

LEMMA SocketLists ==
  ASSUME IInv, ContactInv, NEW c \in Client, NEW k \in Client,
         \/ ReceivePkt(c, k) \/ ReceivePktFromStranger(c, k)
         \/ ReceiveAck(c, k) \/ ReceiveAckFromStranger(c, k)
  PROVE  ContactInv'
<1>1. queue \in Queues /\ UNCHANGED known
  BY TypeParts DEF IInv, RestTypeOK, ReceivePkt, ReceivePktFromStranger, ReceiveAck,
                   ReceiveAckFromStranger, contactVars
<1>2. CASE ReceivePkt(c, k) \/ ReceiveAckFromStranger(c, k)
  <2>1. /\ pc' = [pc EXCEPT ![c] = "loop"] /\ UNCHANGED <<queue, lookup>>
    BY <1>2 DEF ReceivePkt, ReceiveAckFromStranger, EndIteration, contactVars
  <2> QED
    BY <1>1, <2>1, Loop, KeepsListing DEF InLookup
<1>3. CASE ReceiveAck(c, k)
  <2>1. /\ k \in known[c] /\ pc' = [pc EXCEPT ![c] = "loop"] /\ UNCHANGED lookup
        /\ send_next_message_to_contact(Received(c, k), c, k, Tail(queue[c][k]))
    BY <1>3 DEF ReceiveAck, EndIteration
  <2>2. QueueOnly(c, k)
    BY <2>1, QueueOfNext
  <2> QED
    BY <1>1, <2>1, <2>2, Loop, GoesOnListing DEF InLookup
<1>4. CASE ReceivePktFromStranger(c, k)
  <2>1. PICK num, id : StartLookup(c, "receive", k, num, id)
    BY <1>4 DEF ReceivePktFromStranger
  <2>2. /\ pc' = [pc EXCEPT ![c] = "lookup"]
        /\ lookup' = [lookup EXCEPT ![c] =
                        [why |-> "receive", nick |-> k, num |-> num, id |-> id]]
        /\ UNCHANGED queue
    BY <1>4, <2>1 DEF ReceivePktFromStranger, StartLookup, contactVars
  <2>3. ~ InLookup(c, "send")'
    BY <2>2, Loop DEF InLookup
  <2> QED
    BY <1>1, <2>2, <2>3, Loop, KeepsListing
<1> QED
  BY <1>2, <1>3, <1>4

LEMMA LookupLists ==
  ASSUME IInv, ContactInv, NEW c \in Client,
         \/ FoundForResend(c) \/ NotFoundForResend(c) \/ FoundForSend(c)
         \/ FoundForReceive(c) \/ NotFoundForStranger(c)
  PROVE  ContactInv'
<1>1. queue \in Queues /\ known \in [Client -> SUBSET Client]
  BY TypeParts DEF IInv, RestTypeOK
<1>2. PICK k \in Client : k = lookup[c].nick
  BY DEF FoundForResend, NotFoundForResend, FoundForSend, FoundForReceive,
         NotFoundForStranger, InLookup, IInv, LoopInv, InLoop, Lookup
<1>3. ASSUME LeaveLookup(c)
      PROVE  /\ pc' = [pc EXCEPT ![c] = "loop"] /\ ~ InLookup(c, "send")'
             /\ pc'[c] \notin {"down", "crashed"}
             /\ \A d \in Client : d # c => pc'[d] = pc[d] /\ lookup'[d] = lookup[d]
  BY <1>3, Loop DEF LeaveLookup, EndIteration, InLookup
<1>4. CASE FoundForResend(c) \/ NotFoundForResend(c)
  <2>1. InLookup(c, "resend") /\ ResumeResend(c) /\ UNCHANGED known
    BY <1>4 DEF FoundForResend, NotFoundForResend
  <2>2. k \in known[c]
    BY <1>2, <2>1, ResendLookup DEF ContactInv, Lists
  <2>3. QueueOnly(c, k)
    <3>1. CASE FoundForResend(c)
      BY <1>2, <3>1, QueueOfSent DEF FoundForResend
    <3>2. CASE NotFoundForResend(c)
      <4>1. queue' = [queue EXCEPT ![c][k] = Tail(queue[c][k])]
        BY <1>2, <3>2 DEF NotFoundForResend
      <4> QED
        BY <1>1, <4>1 DEF Queues, QueueOnly
    <3> QED
      BY <1>4, <3>1, <3>2
  <2>4. /\ pc'[c] \notin {"down", "crashed"} /\ ~ InLookup(c, "send")'
        /\ \A d \in Client : d # c => pc'[d] = pc[d] /\ lookup'[d] = lookup[d]
    BY <2>1, Loop DEF ResumeResend, Visited, Phase, InLookup
  <2> QED
    BY <2>1, <2>2, <2>3, <2>4, GoesOnListing
<1>5. CASE FoundForSend(c)
  <2>1. LeaveLookup(c) /\ known' = [known EXCEPT ![c] = known[c] \cup {k}]
    BY <1>2, <1>5 DEF FoundForSend
  <2>2. QueueOnly(c, k)
    <3>1. PICK n : QueueMessage(c, k, n)
      BY <1>2, <1>5 DEF FoundForSend
    <3> QED
      BY <3>1, QueueOfQueued
  <2>3. k \in known'[c] /\ known[c] \in SUBSET known'[c]
        /\ \A d \in Client : d # c => known'[d] = known[d]
    BY <1>1, <2>1
  <2> QED
    BY <1>3, <2>1, <2>2, <2>3, GoesOnListing
<1>6. CASE FoundForReceive(c)
  <2>1. /\ LeaveLookup(c) /\ known' = [known EXCEPT ![c] = known[c] \cup {k}]
        /\ UNCHANGED queue
    BY <1>2, <1>6 DEF FoundForReceive
  <2>2. k \in known'[c] /\ known[c] \in SUBSET known'[c]
        /\ \A d \in Client : d # c => known'[d] = known[d]
    BY <1>1, <2>1
  <2>3. QueueOnly(c, k)
    BY <2>1 DEF QueueOnly
  <2> QED
    BY <1>3, <2>1, <2>2, <2>3, GoesOnListing
<1>7. CASE NotFoundForStranger(c)
  <2>1. LeaveLookup(c) /\ UNCHANGED <<known, queue>>
    BY <1>7 DEF NotFoundForStranger, contactVars
  <2> QED
    BY <1>3, <2>1, KeepsListing
<1> QED
  BY <1>4, <1>5, <1>6, <1>7

LEMMA ClientStepLists ==
  ASSUME IInv, ContactInv, NEW c \in Client, ClientStep(c)
  PROVE  ContactInv'
<1>1. CASE SelectStep(c)
  <2>1. PICK expired, fd : Select(c, expired, fd)
    BY <1>1 DEF SelectStep
  <2>2. /\ pc' = [pc EXCEPT ![c] = Phase(expired, fd)] /\ UNCHANGED <<known, queue, lookup>>
    BY <2>1 DEF Select, contactVars
  <2> QED
    BY <2>2, Loop, KeepsListing DEF Phase, InLookup
<1>2. CASE ResendStep(c)
  <2>1. ASSUME NEW k \in Client, LookupAgain(c, k)
        PROVE  ContactInv'
    <3>1. /\ pc' = [pc EXCEPT ![c] = "lookup"]
          /\ lookup' = [lookup EXCEPT ![c] = [why |-> "resend", nick |-> k, num |-> 0, id |-> 0]]
          /\ UNCHANGED <<known, queue>>
      BY <2>1 DEF LookupAgain, StartLookup, contactVars
    <3>2. ~ InLookup(c, "send")'
      BY <3>1, Loop DEF InLookup
    <3> QED
      BY <3>1, <3>2, Loop, KeepsListing
  <2> QED
    BY <1>2, <2>1, ResendLists DEF ResendStep
<1>3. CASE StdinStep(c)
  BY <1>3, StdinLists DEF StdinStep
<1>4. CASE SocketStep(c)
  BY <1>4, SocketLists, StopLists DEF SocketStep, PopEmptyQueue
<1>5. CASE \E k \in Client : LookupIgnores(c, k)
  <2>1. pc[c] = "lookup" /\ UNCHANGED <<pc, lookup, known, queue>>
    BY <1>5 DEF LookupIgnores, loopVars, contactVars
  <2>2. InLookup(c, "send")' => lookup[c].nick \notin known[c]
    BY <2>1 DEF InLookup, ContactInv, Lists
  <2> QED
    BY <2>1, <2>2, KeepsListing
<1>6. CASE LookupEnds(c)
  BY <1>6, LookupLists, StopLists DEF LookupEnds, ServerSilent
<1>7. CASE Quit(c)
  BY <1>7, StopLists DEF Quit
<1> QED
  BY <1>1, <1>2, <1>3, <1>4, <1>5, <1>6, <1>7 DEF ClientStep

LEMMA ContactsAreListed == Spec => []ContactInv
<1>1. Init => ContactInv
  <2> SUFFICES ASSUME Init, NEW c \in Client
               PROVE  Lists(c)
    BY DEF ContactInv
  <2>1. pc[c] = "loop" /\ known[c] = {} /\ \A k \in Client : queue[c][k] = <<>>
    BY DEF Init
  <2> QED
    BY <2>1 DEF Lists, InLookup, Alive
<1>2. IInv /\ ContactInv /\ [Next]_vars => ContactInv'
  <2>1. IInv /\ ContactInv /\ Next => ContactInv'
    BY ClientStepLists DEF Next
  <2>2. ContactInv /\ UNCHANGED vars => ContactInv'
    BY DEF ContactInv, Lists, Alive, InLookup, vars, loopVars, contactVars
  <2> QED
    BY <2>1, <2>2
<1> QED
  BY <1>1, <1>2, InvariantHolds, PTL DEF Spec

-----------------------------------------------------------------------------
(* The exchange under way.  With patient timers, and while no message is   *)
(* given up, all copies of a packet and its acknowledgement are of the     *)
(* message at the head of the sender's queue.                              *)

\* A message is given up, with its contact or alone, while others may follow it.
GivesUp == \E c \in Client : NotFoundForResend(c) \/ \E k \in Client : GiveUp(c, k)

\* For the packets P under way, the queue q and last_pkt_sent of the sender, the
\* socket it is acknowledged at, the last message the recipient accepted and the last
\* number it has seen.
Agree(P, q, sent, box, acc, seen) ==
  /\ q = <<>> => seen \in {-1, sent}
  /\ q # <<>> =>
       /\ \A d \in P : d.num = sent /\ d.id = q[1].id
       /\ seen = sent \/ Has(box, "ACK") => acc = q[1].id

AgreePair(s, r) ==
  Alive(s) =>
    Agree(Packets(inbox[r][s], Held(r, s)), queue[s][r], last_pkt_sent[s][r],
          inbox[s][r], accepted[r][s], last_pkt_received[r][s])

AgreeInv == \A s, r \in Client : AgreePair(s, r)

\* A conversation of which a step at most drops datagrams.
Spared(s, r) ==
  /\ queue'[s][r] = queue[s][r] /\ last_pkt_sent'[s][r] = last_pkt_sent[s][r]
  /\ accepted'[r][s] = accepted[r][s]
  /\ last_pkt_received'[r][s] = last_pkt_received[r][s]
  /\ Alive(s)' => Alive(s)
  /\ Packets(inbox'[r][s], Held(r, s)') \in SUBSET Packets(inbox[r][s], Held(r, s))
  /\ Fewer(inbox'[s][r], inbox[s][r], "ACK")

LEMMA AgreeLess ==
  ASSUME NEW P, NEW Q \in SUBSET P, NEW q, NEW sent, NEW box, NEW b, Fewer(b, box, "ACK"),
         NEW acc, NEW seen, Agree(P, q, sent, box, acc, seen)
  PROVE  Agree(Q, q, sent, b, acc, seen)
  BY DEF Agree, Fewer

LEMMA SparedAgrees ==
  ASSUME NEW s \in Client, NEW r \in Client, AgreePair(s, r), Spared(s, r)
  PROVE  AgreePair(s, r)'
<1> SUFFICES ASSUME Alive(s)'
             PROVE  Agree(Packets(inbox'[r][s], Held(r, s)'), queue'[s][r],
                          last_pkt_sent'[s][r], inbox'[s][r], accepted'[r][s],
                          last_pkt_received'[r][s])
  BY DEF AgreePair
<1>1. Agree(Packets(inbox[r][s], Held(r, s)), queue[s][r], last_pkt_sent[s][r],
            inbox[s][r], accepted[r][s], last_pkt_received[r][s])
  BY DEF AgreePair, Spared
<1>2. Agree(Packets(inbox'[r][s], Held(r, s)'), queue[s][r], last_pkt_sent[s][r],
            inbox'[s][r], accepted[r][s], last_pkt_received[r][s])
  BY <1>1, AgreeLess DEF Spared
<1> QED
  BY <1>2 DEF Spared

\* No packet is under way.
LEMMA NoPackets ==
  ASSUME NEW box, ~ Has(box, "PKT"), NEW r, NEW s, ~ Looked(r, s)
  PROVE  Packets(box, {}) = {} /\ Held(r, s) = {}
<1>1. Packets(box, {}) = {}
  BY DEF Packets, Has
<1>2. Held(r, s) = {}
  BY DEF Held, InLookup, Looked
<1> QED
  BY <1>1, <1>2

-----------------------------------------------------------------------------
(* What sending does to an exchange.                                       *)

LEMMA PacketsOfSent ==
  ASSUME NEW box \in Seq(Datagram), NEW d \in Datagram, NEW held
  PROVE  Packets(Append(box, d), held) \subseteq Packets(box, held) \cup {d}
<1> DEFINE b == Append(box, d)
<1>1. /\ Len(box) \in Nat /\ DOMAIN box = 1 .. Len(box)
      /\ DOMAIN b = 1 .. (Len(box) + 1)
      /\ \A i \in DOMAIN box : b[i] = box[i]
      /\ b[Len(box) + 1] = d
  BY Behind
<1> HIDE DEF b
<1>2. \A i \in DOMAIN b : i \in DOMAIN box \/ b[i] = d
  BY <1>1
<1>3. Packets(b, held) \subseteq Packets(box, held) \cup {d}
  BY <1>1, <1>2 DEF Packets
<1> QED
  BY <1>3 DEF b

\* The effect of send_message_to_contact on the conversation from c to k.
LEMMA SendDoes ==
  ASSUME NEW net \in Inboxes, queue \in Queues, NEW c \in Client, NEW k \in Client,
         NEW q \in Seq(Message), q # <<>>, NEW num \in Number, NEW held,
         send_message_to_contact(net, c, k, q, num)
  PROVE  /\ Packets(inbox'[k][c], held)
              \subseteq Packets(net[k][c], held) \cup {Pkt(num, q[1].id)}
         /\ queue'[c][k] # <<>> /\ SameMessages(q, queue'[c][k])
         /\ queue'[c][k][1].id = q[1].id
<1> DEFINE d == Pkt(num, q[1].id)
<1>1. 1 \in DOMAIN q /\ q[1].id \in Nat /\ Head(q) = q[1]
  BY Ids
<1>2. d \in Datagram
  BY <1>1 DEF Pkt, Datagram, Number
<1>3. net[k][c] \in Seq(Datagram)
  BY DEF Inboxes
<1>4. PICK r \in Seq(Message) :
        r = [q EXCEPT ![1].attempts = @ + 1] /\ SameMessages(q, r)
  BY CountedQueue
<1>5. queue'[c][k] = r
  BY <1>4 DEF send_message_to_contact, Queues
<1>6. r # <<>> /\ r[1].id = q[1].id
  <2>1. 1 \in DOMAIN r /\ r[1].id = q[1].id
    BY <1>1, <1>4 DEF SameMessages
  <2> QED
    BY <2>1
<1> HIDE DEF d
<1>7. send_packet(net, c, k, d)
  BY <1>1 DEF send_message_to_contact, d
<1>8. inbox'[k][c] = net[k][c] \/ inbox'[k][c] = Append(net[k][c], d)
  BY <1>7, SentBoxes
<1>9. Packets(inbox'[k][c], held) \subseteq Packets(net[k][c], held) \cup {d}
  BY <1>2, <1>3, <1>8, PacketsOfSent
<1> QED
  BY <1>4, <1>5, <1>6, <1>9 DEF d

LEMMA AgreeAgain ==
  ASSUME NEW P, NEW q, NEW sent, NEW box, NEW acc, NEW seen, q # <<>>,
         Agree(P, q, sent, box, acc, seen),
         NEW Q \in SUBSET (P \cup {Pkt(sent, q[1].id)}), NEW r, r # <<>>, r[1].id = q[1].id,
         NEW b, Fewer(b, box, "ACK")
  PROVE  Agree(Q, r, sent, b, acc, seen)
<1>1. \A d \in Q : d.num = sent /\ d.id = q[1].id
  BY DEF Agree, Pkt
<1> QED
  BY <1>1 DEF Agree, Fewer

LEMMA AgreeNext ==
  ASSUME NEW q, NEW sent \in Number, NEW seen, seen \in {-1, sent}, q # <<>>,
         NEW Q \in SUBSET {Pkt(1 - sent, q[1].id)}, NEW r, r # <<>>, r[1].id = q[1].id,
         NEW b, ~ Has(b, "ACK"), NEW acc
  PROVE  Agree(Q, r, 1 - sent, b, acc, seen)
<1>1. \A d \in Q : d.num = 1 - sent /\ d.id = q[1].id
  BY DEF Pkt
<1>2. seen # 1 - sent
  BY DEF Number
<1> QED
  BY <1>1, <1>2 DEF Agree

\* The effect of send_next_message_to_contact when no exchange is under way.
LEMMA SendNextAgrees ==
  ASSUME NEW net \in Inboxes, queue \in Queues, last_pkt_sent \in Sent,
         NEW c \in Client, NEW k \in Client, NEW q \in Seq(Message),
         ~ Has(net[k][c], "PKT"), ~ Has(inbox'[c][k], "ACK"),
         NEW acc, NEW seen, seen \in {-1, last_pkt_sent[c][k]},
         send_next_message_to_contact(net, c, k, q)
  PROVE  Agree(Packets(inbox'[k][c], {}), queue'[c][k], last_pkt_sent'[c][k],
               inbox'[c][k], acc, seen)
<1> DEFINE sent == last_pkt_sent[c][k]
<1>1. sent \in Number /\ 1 - sent \in Number
  <2>1. sent \in {0, 1}
    BY DEF Sent
  <2> QED
    BY <2>1 DEF Number
<1>2. Packets(net[k][c], {}) = {}
  BY DEF Packets, Has
<1>3. CASE q = <<>>
  <2>1. queue'[c][k] = <<>> /\ last_pkt_sent'[c][k] = sent
    BY <1>3 DEF send_next_message_to_contact, Queues
  <2> QED
    BY <2>1 DEF Agree
<1>4. CASE q # <<>>
  <2>1. /\ last_pkt_sent'[c][k] = 1 - sent
        /\ send_message_to_contact(net, c, k, q, 1 - sent)
    BY <1>4 DEF send_next_message_to_contact, Sent
  <2> HIDE DEF sent
  <2>2. /\ Packets(inbox'[k][c], {})
              \subseteq Packets(net[k][c], {}) \cup {Pkt(1 - sent, q[1].id)}
        /\ queue'[c][k] # <<>> /\ queue'[c][k][1].id = q[1].id
    BY <1>1, <1>4, <2>1, SendDoes, ZenonT(30)
  <2>3. seen \in {-1, sent} /\ Packets(inbox'[k][c], {}) \in SUBSET {Pkt(1 - sent, q[1].id)}
    BY <1>2, <2>2 DEF sent
  <2>4. Agree(Packets(inbox'[k][c], {}), queue'[c][k], 1 - sent, inbox'[c][k], acc, seen)
    BY <1>1, <1>4, <2>2, <2>3, AgreeNext
  <2> QED
    BY <2>1, <2>4
<1> QED
  BY <1>3, <1>4

-----------------------------------------------------------------------------
(* The steps and the exchanges.                                            *)

\* A step that begins nothing, and drops at most the datagram that c reads.
LEMMA QuietAgrees ==
  ASSUME IInv, ConversationInv, AgreeInv, NEW c \in Client,
         Alive(c), \A d \in Client \ {c} : pc'[d] = pc[d],
         \A s, r \in Client : Held(r, s)' \in SUBSET Held(r, s),
         UNCHANGED <<queue, last_pkt_sent, accepted, last_pkt_received>>,
         \/ UNCHANGED inbox
         \/ \E k \in Client : inbox[c][k] # <<>> /\ inbox' = Received(c, k)
  PROVE  AgreeInv'
<1> SUFFICES ASSUME NEW s \in Client, NEW r \in Client
             PROVE  AgreePair(s, r)'
  BY DEF AgreeInv
<1>1. \A a, b \in Client : Taken(inbox'[a][b], inbox[a][b])
  BY TakenOff DEF Taken
<1>2. Packets(inbox'[r][s], Held(r, s)') \in SUBSET Packets(inbox[r][s], Held(r, s))
  <2>1. Lighter(inbox'[r][s], inbox[r][s])
    BY <1>1 DEF Taken, Lighter
  <2>2. InOrder(inbox[r][s], Held(r, s))
    BY DEF ConversationInv, PairInv
  <2> QED
    BY <2>1, <2>2, PairTypes, LighterBox
<1>3. Fewer(inbox'[s][r], inbox[s][r], "ACK")
  BY <1>1, PairTypes, FewerTaken
<1>4. Spared(s, r)
  BY <1>2, <1>3 DEF Spared, Alive
<1> QED
  BY <1>4, SparedAgrees DEF AgreeInv

LEMMA SelectAgrees ==
  ASSUME IInv, ConversationInv, AgreeInv, NEW c \in Client,
         NEW expired \in SUBSET Client, NEW fd \in Ready, Select(c, expired, fd)
  PROVE  AgreeInv'
<1>1. /\ NoNewLookup(c) /\ Alive(c)
      /\ UNCHANGED <<queue, last_pkt_sent, accepted, last_pkt_received, inbox>>
  BY Loop DEF Select, Phase, NoNewLookup, Alive, contactVars, netVars, displayVars
<1>2. \A s, r \in Client : Held(r, s)' \in SUBSET Held(r, s)
  BY <1>1, LessHeld
<1> QED
  BY <1>1, <1>2, QuietAgrees DEF NoNewLookup

LEMMA LookupAgainAgrees ==
  ASSUME IInv, ConversationInv, AgreeInv, NEW c \in Client, NEW k \in Client,
         LookupAgain(c, k)
  PROVE  AgreeInv'
<1>1. /\ pc[c] = "resend" /\ pc' = [pc EXCEPT ![c] = "lookup"]
      /\ lookup' = [lookup EXCEPT ![c] = [why |-> "resend", nick |-> k, num |-> 0, id |-> 0]]
      /\ UNCHANGED <<queue, last_pkt_sent, accepted, last_pkt_received, inbox>>
  BY DEF LookupAgain, StartLookup, AtContact, contactVars, netVars, displayVars
<1>2. NoNewLookup(c) /\ Alive(c)
  BY <1>1, Loop DEF NoNewLookup, Alive
<1>3. \A s, r \in Client : Held(r, s)' \in SUBSET Held(r, s)
  BY <1>2, LessHeld
<1> QED
  BY <1>1, <1>2, <1>3, QuietAgrees DEF NoNewLookup

LEMMA StdinAgrees ==
  ASSUME IInv, ConversationInv, AgreeInv, NEW c \in Client, NEW k \in Client,
         RejectInput(c) \/ Block(c, k) \/ Unblock(c, k)
  PROVE  AgreeInv'
<1>1. /\ pc[c] = "input" /\ pc' = [pc EXCEPT ![c] = "loop"]
      /\ UNCHANGED <<lookup, queue, last_pkt_sent, accepted, last_pkt_received, inbox>>
  BY DEF RejectInput, Block, Unblock, AtStdin, EndIteration, contactVars, netVars,
         displayVars
<1>2. NoNewLookup(c) /\ Alive(c)
  BY <1>1, Loop DEF NoNewLookup, Alive
<1>3. \A s, r \in Client : Held(r, s)' \in SUBSET Held(r, s)
  BY <1>2, LessHeld
<1> QED
  BY <1>1, <1>2, <1>3, QuietAgrees DEF NoNewLookup

LEMMA TypeToStrangerAgrees ==
  ASSUME IInv, ConversationInv, AgreeInv, NEW c \in Client, NEW k \in Client,
         TypeToStranger(c, k)
  PROVE  AgreeInv'
<1>1. /\ pc[c] = "input" /\ StartLookup(c, "send", k, 0, typed[c][k] + 1)
      /\ UNCHANGED <<queue, last_pkt_sent, accepted, last_pkt_received, inbox>>
  BY DEF TypeToStranger, Typing, AtStdin, contactVars, netVars, displayVars
<1>2. /\ pc' = [pc EXCEPT ![c] = "lookup"]
      /\ lookup' = [lookup EXCEPT ![c] =
                      [why |-> "send", nick |-> k, num |-> 0, id |-> typed[c][k] + 1]]
  BY <1>1 DEF StartLookup
<1>3. /\ Alive(c) /\ lookup'[c].why = "send"
      /\ \A d \in Client \ {c} : pc'[d] = pc[d] /\ lookup'[d] = lookup[d]
  BY <1>1, <1>2, Loop DEF Alive
<1>4. \A s, r \in Client : Held(r, s)' \in SUBSET Held(r, s)
  BY <1>3 DEF Held, InLookup
<1> QED
  BY <1>1, <1>3, <1>4, QuietAgrees

LEMMA ReceiveAckFromStrangerAgrees ==
  ASSUME IInv, ConversationInv, AgreeInv, NEW c \in Client, NEW k \in Client,
         ReceiveAckFromStranger(c, k)
  PROVE  AgreeInv'
<1>1. /\ pc[c] = "input" /\ pc' = [pc EXCEPT ![c] = "loop"]
      /\ inbox[c][k] # <<>> /\ inbox' = Received(c, k)
      /\ UNCHANGED <<lookup, queue, last_pkt_sent, accepted, last_pkt_received>>
  BY DEF ReceiveAckFromStranger, AtSocket, Next_is, EndIteration, contactVars, displayVars
<1>2. NoNewLookup(c) /\ Alive(c)
  BY <1>1, Loop DEF NoNewLookup, Alive
<1>3. \A s, r \in Client : Held(r, s)' \in SUBSET Held(r, s)
  BY <1>2, LessHeld
<1> QED
  BY <1>1, <1>2, <1>3, QuietAgrees DEF NoNewLookup

LEMMA LookupIgnoresAgrees ==
  ASSUME IInv, ConversationInv, AgreeInv, NEW c \in Client, NEW k \in Client,
         LookupIgnores(c, k)
  PROVE  AgreeInv'
<1>1. /\ pc[c] = "lookup" /\ inbox[c][k] # <<>> /\ inbox' = Received(c, k)
      /\ UNCHANGED <<pc, lookup, queue, last_pkt_sent, accepted, last_pkt_received>>
  BY DEF LookupIgnores, loopVars, contactVars, displayVars
<1>2. NoNewLookup(c) /\ Alive(c)
  BY <1>1, Loop DEF NoNewLookup, Alive
<1>3. \A s, r \in Client : Held(r, s)' \in SUBSET Held(r, s)
  BY <1>2, LessHeld
<1> QED
  BY <1>1, <1>2, <1>3, QuietAgrees DEF NoNewLookup

\* A packet whose sender is looked up stays under way.
LEMMA ReceivePktFromStrangerAgrees ==
  ASSUME IInv, ConversationInv, AgreeInv, NEW c \in Client, NEW k \in Client,
         ReceivePktFromStranger(c, k)
  PROVE  AgreeInv'
<1>1. PICK d \in Datagram : d = Head(inbox[c][k]) /\ d.type = "PKT"
  BY ReadPkt DEF ReceivePktFromStranger, Next_is
<1>2. d = Pkt(d.num, d.id)
  BY <1>1 DEF Datagram, Pkt
<1>3. /\ pc[c] = "input" /\ inbox[c][k] # <<>> /\ inbox' = Received(c, k)
      /\ StartLookup(c, "receive", k, d.num, d.id)
      /\ UNCHANGED <<queue, last_pkt_sent, accepted, last_pkt_received>>
  BY <1>1 DEF ReceivePktFromStranger, AtSocket, Next_is, contactVars, displayVars
<1>4. /\ Pkt(lookup'[c].num, lookup'[c].id) = d
      /\ lookup'[c].nick = k
      /\ \A e \in Client : e # c => pc'[e] = pc[e] /\ lookup'[e] = lookup[e]
      /\ Held(c, k) = {}
  <2>1. /\ lookup'[c] = [why |-> "receive", nick |-> k, num |-> d.num, id |-> d.id]
        /\ \A e \in Client : e # c => pc'[e] = pc[e] /\ lookup'[e] = lookup[e]
        /\ \A e \in Client : Held(c, e) = {}
    BY <1>3, BegunLookup
  <2> QED
    BY <1>2, <2>1
<1>5. Held(c, k)' \in SUBSET {d} /\ \A s \in Client : s # k => Held(c, s)' = {}
  BY <1>4 DEF Held
<1>6. \A s, r \in Client : r # c => Held(r, s)' \in SUBSET Held(r, s)
  BY <1>4 DEF Held, InLookup
<1>7. /\ Received(c, k)[c][k] = Tail(inbox[c][k])
      /\ \A a, b \in Client : Taken(inbox'[a][b], inbox[a][b])
  BY <1>3, TakenOff
<1> SUFFICES ASSUME NEW s \in Client, NEW r \in Client
             PROVE  AgreePair(s, r)'
  BY DEF AgreeInv
<1>8. Packets(inbox'[r][s], Held(r, s)') \in SUBSET Packets(inbox[r][s], Held(r, s))
  <2>1. InOrder(inbox[r][s], Held(r, s)) /\ inbox[r][s] \in Seq(Datagram)
    BY PairTypes DEF ConversationInv, PairInv
  <2>2. CASE r = c /\ s = k
    <3>1. Packets(inbox'[c][k], {d}) \in SUBSET Packets(inbox[c][k], {})
      BY <1>1, <1>3, <1>4, <1>7, <2>1, <2>2, BoxFirst
    <3>2. Packets(inbox'[c][k], Held(c, k)') \in SUBSET Packets(inbox'[c][k], {d})
      BY <1>5 DEF Packets
    <3> QED
      BY <1>4, <2>2, <3>1, <3>2
  <2>3. CASE r # c \/ s # k
    <3>1. Lighter(inbox'[r][s], inbox[r][s])
      BY <1>7 DEF Taken, Lighter
    <3>2. Held(r, s)' \in SUBSET Held(r, s)
      BY <1>5, <1>6, <2>3
    <3> QED
      BY <2>1, <3>1, <3>2, LighterBox
  <2> QED
    BY <2>2, <2>3
<1>9. Fewer(inbox'[s][r], inbox[s][r], "ACK")
  BY <1>7, PairTypes, FewerTaken
<1>10. Spared(s, r)
  BY <1>3, <1>4, <1>8, <1>9 DEF Spared, Alive
<1> QED
  BY <1>10, SparedAgrees DEF AgreeInv

\* c writes to k, and every other conversation is spared.
LEMMA WriterAgrees ==
  ASSUME IInv, ConversationInv, AgreeInv, NEW c \in Client, NEW k \in Client, Alive(c),
         NEW net, WritesTo(net, c, k), Traffic(inbox, c, k, "PKT"), AgreePair(c, k)'
  PROVE  AgreeInv'
<1> SUFFICES ASSUME NEW s \in Client, NEW r \in Client, s # c \/ r # k
             PROVE  AgreePair(s, r)'
  BY DEF AgreeInv
<1>1. Packets(inbox'[r][s], Held(r, s)') \in SUBSET Packets(inbox[r][s], Held(r, s))
  <2>1. Lighter(inbox'[r][s], inbox[r][s])
    BY DEF WritesTo, BoxOnly
  <2>2. Held(r, s)' \in SUBSET Held(r, s)
    BY LessHeld DEF WritesTo
  <2>3. InOrder(inbox[r][s], Held(r, s))
    BY DEF ConversationInv, PairInv
  <2> QED
    BY <2>1, <2>2, <2>3, PairTypes, LighterBox
<1>2. Fewer(inbox'[s][r], inbox[s][r], "ACK")
  BY DEF Traffic
<1>3. Alive(s)' => Alive(s)
  BY DEF WritesTo, NoNewLookup, Alive
<1>4. Spared(s, r)
  BY <1>1, <1>2, <1>3 DEF Spared, WritesTo, OnlyWritesTo
<1> QED
  BY <1>4, SparedAgrees DEF AgreeInv

\* The message at the head of a queue is sent again.
LEMMA SentAgainAgrees ==
  ASSUME IInv, ConversationInv, AgreeInv, NEW c \in Client, NEW k \in Client,
         Alive(c), NoNewLookup(c), queue[c][k] # <<>>,
         send_message_to_contact(inbox, c, k, queue[c][k], last_pkt_sent[c][k]),
         UNCHANGED <<last_pkt_sent, typed, accepted, last_pkt_received, screen,
                     recordStart>>
  PROVE  AgreeInv'
<1> DEFINE H == Held(k, c)
<1>1. /\ inbox \in Inboxes /\ queue \in Queues /\ queue[c][k] \in Seq(Message)
      /\ last_pkt_sent[c][k] \in Number
  BY PairTypes, TypeParts DEF IInv, RestTypeOK, Number
<1>2. PICK d \in Datagram :
        d.type = "PKT" /\ send_packet(inbox, c, k, d)
  <2>1. Head(queue[c][k]).id \in Nat
    BY <1>1, SentQueue
  <2>2. Pkt(last_pkt_sent[c][k], Head(queue[c][k]).id) \in Datagram
        /\ Pkt(last_pkt_sent[c][k], Head(queue[c][k]).id).type = "PKT"
    BY <1>1, <2>1 DEF Pkt, Datagram, Number
  <2> QED
    BY <2>2 DEF send_message_to_contact
<1>3. Traffic(inbox, c, k, "PKT") /\ BoxOnly(inbox, k, c)
  BY <1>1, <1>2, SentTraffic, SentBoxes
<1>4. WritesTo(inbox, c, k)
  BY <1>3, InboxIsLight, QueueOfSent DEF WritesTo, OnlyWritesTo, QueueOnly
<1>5. /\ Packets(inbox'[k][c], H)
           \subseteq Packets(inbox[k][c], H) \cup {Pkt(last_pkt_sent[c][k], queue[c][k][1].id)}
      /\ queue'[c][k] # <<>> /\ queue'[c][k][1].id = queue[c][k][1].id
  BY <1>1, SendDoes, ZenonT(30)
<1>6. AgreePair(c, k)'
  <2>1. Agree(Packets(inbox[k][c], H), queue[c][k], last_pkt_sent[c][k],
              inbox[c][k], accepted[k][c], last_pkt_received[k][c])
    BY DEF AgreeInv, AgreePair
  <2>2. Held(k, c)' \in SUBSET H
    BY LessHeld
  <2>3. Packets(inbox'[k][c], Held(k, c)') \in
          SUBSET (Packets(inbox[k][c], H) \cup {Pkt(last_pkt_sent[c][k], queue[c][k][1].id)})
    BY <1>5, <2>2 DEF Packets
  <2>4. Fewer(inbox'[c][k], inbox[c][k], "ACK")
    BY <1>3 DEF Traffic
  <2> HIDE DEF H
  <2>5. Agree(Packets(inbox'[k][c], Held(k, c)'), queue'[c][k], last_pkt_sent[c][k],
              inbox'[c][k], accepted[k][c], last_pkt_received[k][c])
    BY <1>5, <2>1, <2>3, <2>4, AgreeAgain
  <2> QED
    BY <2>5 DEF AgreePair
<1> QED
  BY <1>3, <1>4, <1>6, WriterAgrees

LEMMA ResendAgrees ==
  ASSUME IInv, ConversationInv, AgreeInv, NEW c \in Client, NEW k \in Client, Resend(c, k)
  PROVE  AgreeInv'
<1>1. queue[c][k] # <<>> /\ Alive(c)
  BY DEF Resend, AtContact, IInv, LoopInv, InLoop, Alive
<1>2. NoNewLookup(c)
  BY Loop DEF Resend, Visited, Phase, NoNewLookup
<1>3. /\ send_message_to_contact(inbox, c, k, queue[c][k], last_pkt_sent[c][k])
      /\ UNCHANGED <<last_pkt_sent, typed, accepted, last_pkt_received, screen,
                     recordStart>>
  BY DEF Resend, displayVars
<1> QED
  BY <1>1, <1>2, <1>3, SentAgainAgrees

LEMMA FoundForResendAgrees ==
  ASSUME IInv, ConversationInv, AgreeInv, NEW c \in Client, FoundForResend(c)
  PROVE  AgreeInv'
<1>1. PICK k \in Client : k = lookup[c].nick /\ queue[c][k] # <<>>
  BY ResendLookup DEF FoundForResend
<1>2. NoNewLookup(c) /\ Alive(c)
  BY ResumedLookup DEF FoundForResend, InLookup, Alive
<1>3. /\ send_message_to_contact(inbox, c, k, queue[c][k], last_pkt_sent[c][k])
      /\ UNCHANGED <<last_pkt_sent, typed, accepted, last_pkt_received, screen,
                     recordStart>>
  BY <1>1 DEF FoundForResend, displayVars
<1> QED
  BY <1>1, <1>2, <1>3, SentAgainAgrees

LEMMA NextTraffic ==
  ASSUME NEW net \in Inboxes, last_pkt_sent \in Sent, NEW c \in Client, NEW k \in Client,
         NEW q \in Seq(Message), send_next_message_to_contact(net, c, k, q)
  PROVE  Traffic(net, c, k, "PKT")
<1>1. CASE q = <<>>
  <2>1. inbox' = net
    BY <1>1 DEF send_next_message_to_contact
  <2> QED
    BY <2>1 DEF Traffic, Fewer
<1>2. CASE q # <<>>
  <2>1. 1 - last_pkt_sent[c][k] \in {0, 1}
    <3>1. last_pkt_sent[c][k] \in {0, 1}
      BY DEF Sent
    <3> QED
      BY <3>1
  <2>2. Head(q).id \in Nat
    BY <1>2, SentQueue
  <2>3. PICK d \in Datagram : d.type = "PKT" /\ send_packet(net, c, k, d)
    <3>1. /\ Pkt(1 - last_pkt_sent[c][k], Head(q).id) \in Datagram
          /\ Pkt(1 - last_pkt_sent[c][k], Head(q).id).type = "PKT"
      BY <2>1, <2>2 DEF Pkt, Datagram
    <3> QED
      BY <1>2, <3>1 DEF send_next_message_to_contact, send_message_to_contact
  <2> QED
    BY <2>3, SentTraffic
<1> QED
  BY <1>1, <1>2

\* A message is queued, and sent if it is alone in its queue.
LEMMA QueuedAgrees ==
  ASSUME IInv, ConversationInv, PatientInv, AgreeInv, NEW c \in Client, NEW k \in Client,
         Alive(c), WritesTo(inbox, c, k), NEW n \in Nat, QueueMessage(c, k, n)
  PROVE  AgreeInv'
<1> DEFINE q == Append(queue[c][k], NewMessage(n))
           H == Held(k, c)
<1>1. /\ inbox \in Inboxes /\ queue \in Queues /\ queue[c][k] \in Seq(Message)
      /\ last_pkt_sent \in Sent
  BY PairTypes, TypeParts DEF IInv, RestTypeOK
<1>2. q \in Seq(Message) /\ q # <<>>
  BY <1>1, LongerQueue
<1>3. Agree(Packets(inbox[k][c], H), queue[c][k], last_pkt_sent[c][k],
            inbox[c][k], accepted[k][c], last_pkt_received[k][c])
  BY DEF AgreeInv, AgreePair
<1>4. Held(k, c)' \in SUBSET H
  BY LessHeld DEF WritesTo
<1>5. UNCHANGED <<accepted, last_pkt_received>>
  BY DEF WritesTo
<1>6. CASE queue[c][k] = <<>>
  <2>1. q = <<NewMessage(n)>>
    BY <1>6
  <2>2. send_next_message_to_contact(inbox, c, k, q)
    BY <1>6, <2>1 DEF QueueMessage
  <2> HIDE DEF q
  <2>3. Traffic(inbox, c, k, "PKT")
    BY <1>1, <1>2, <2>2, NextTraffic
  <2>4. ~ Flying(c, k)
    BY <1>6 DEF PatientInv, PatientPair
  <2>5. H = {} /\ ~ Has(inbox[k][c], "PKT") /\ ~ Has(inbox'[c][k], "ACK")
    BY <2>3, <2>4, NoPackets DEF Flying, Traffic, Fewer
  <2>6. last_pkt_received[k][c] \in {-1, last_pkt_sent[c][k]}
    BY <1>3, <1>6 DEF Agree
  <2>7. Agree(Packets(inbox'[k][c], {}), queue'[c][k], last_pkt_sent'[c][k],
              inbox'[c][k], accepted[k][c], last_pkt_received[k][c])
    BY <1>1, <1>2, <2>2, <2>5, <2>6, SendNextAgrees
  <2>8. Held(k, c)' = {}
    BY <1>4, <2>5
  <2>9. AgreePair(c, k)'
    BY <1>5, <2>7, <2>8 DEF AgreePair
  <2> QED
    BY <2>3, <2>9, WriterAgrees
<1>7. CASE queue[c][k] # <<>>
  <2>1. queue' = [queue EXCEPT ![c][k] = q] /\ UNCHANGED <<inbox, last_pkt_sent>>
    BY <1>7 DEF QueueMessage, netVars
  <2>2. q[1] = queue[c][k][1]
    <3>1. Len(queue[c][k]) \in Nat /\ 1 \in 1 .. Len(queue[c][k])
      BY <1>1, <1>7
    <3> QED
      BY <1>1, <3>1
  <2> HIDE DEF q, H
  <2>3. queue'[c][k] = q
    BY <1>1, <2>1 DEF Queues
  <2>4. Traffic(inbox, c, k, "PKT")
    BY <2>1 DEF Traffic, Fewer
  <2>5. Packets(inbox'[k][c], Held(k, c)') \in SUBSET Packets(inbox[k][c], H)
    BY <1>4, <2>1 DEF Packets
  <2>6. Agree(Packets(inbox'[k][c], Held(k, c)'), q, last_pkt_sent[c][k],
              inbox[c][k], accepted[k][c], last_pkt_received[k][c])
    BY <1>2, <1>3, <1>7, <2>2, <2>5 DEF Agree
  <2>7. AgreePair(c, k)'
    BY <1>5, <2>1, <2>3, <2>6 DEF AgreePair
  <2> QED
    BY <2>4, <2>7, WriterAgrees
<1> QED
  BY <1>6, <1>7

LEMMA NextOnly ==
  ASSUME NEW net \in Inboxes, queue \in Queues, last_pkt_sent \in Sent,
         NEW c \in Client, NEW k \in Client, NEW q,
         send_next_message_to_contact(net, c, k, q)
  PROVE  BoxOnly(net, k, c) /\ OnlyWritesTo(c, k)
<1>1. CASE q = <<>>
  <2>1. /\ queue' = [queue EXCEPT ![c][k] = q]
        /\ inbox' = net /\ last_pkt_sent' = last_pkt_sent
    BY <1>1 DEF send_next_message_to_contact
  <2> QED
    BY <2>1 DEF OnlyWritesTo, BoxOnly, Queues
<1>2. CASE q # <<>>
  <2>1. /\ last_pkt_sent' = [last_pkt_sent EXCEPT ![c][k] = 1 - @]
        /\ send_message_to_contact(net, c, k, q, 1 - last_pkt_sent[c][k])
    BY <1>2 DEF send_next_message_to_contact
  <2>2. BoxOnly(net, k, c)
    BY <2>1, SentBoxes DEF send_message_to_contact
  <2>3. OnlyWritesTo(c, k)
    BY <2>1 DEF send_message_to_contact, OnlyWritesTo, Queues, Sent
  <2> QED
    BY <2>2, <2>3
<1> QED
  BY <1>1, <1>2

LEMMA QueuedOnly ==
  ASSUME IInv, NEW c \in Client, NEW k \in Client, NEW n, QueueMessage(c, k, n)
  PROVE  BoxOnly(inbox, k, c) /\ OnlyWritesTo(c, k)
<1>1. inbox \in Inboxes /\ queue \in Queues /\ last_pkt_sent \in Sent
  BY TypeParts DEF IInv, RestTypeOK
<1>2. CASE queue[c][k] = <<>>
  <2>1. send_next_message_to_contact(inbox, c, k, <<NewMessage(n)>>)
    BY <1>2 DEF QueueMessage
  <2> QED
    BY <1>1, <2>1, NextOnly
<1>3. CASE queue[c][k] # <<>>
  <2>1. /\ queue' = [queue EXCEPT ![c][k] = Append(queue[c][k], NewMessage(n))]
        /\ UNCHANGED <<last_pkt_sent, inbox>>
    BY <1>3 DEF QueueMessage, netVars
  <2> QED
    BY <1>1, <2>1 DEF OnlyWritesTo, Queues, BoxOnly
<1> QED
  BY <1>2, <1>3

LEMMA TypeToContactWrites ==
  ASSUME IInv, ConversationInv, NEW c \in Client, NEW k \in Client, TypeToContact(c, k)
  PROVE  /\ WritesTo(inbox, c, k) /\ Alive(c) /\ pc[c] = "input"
         /\ typed[c][k] + 1 \in Nat /\ QueueMessage(c, k, typed[c][k] + 1)
         /\ typed'[c][k] = typed[c][k] + 1
<1>1. /\ Typing(c, k) /\ QueueMessage(c, k, typed[c][k] + 1)
      /\ UNCHANGED <<accepted, last_pkt_received, screen, recordStart>>
  BY DEF TypeToContact, Typing, displayVars
<1>2. NoNewLookup(c)
  BY Loop DEF TypeToContact, EndIteration, NoNewLookup
<1>3. pc[c] = "input"
  BY DEF TypeToContact, Typing, AtStdin
<1>4. /\ typed[c][k] + 1 \in Nat /\ typed'[c][k] = typed[c][k] + 1
      /\ \A s, r \in Client : s # c \/ r # k => typed'[s][r] = typed[s][r]
  BY <1>1, TypedToPair
<1>5. BoxOnly(inbox, k, c) /\ OnlyWritesTo(c, k)
  BY <1>1, QueuedOnly
<1> QED
  BY <1>1, <1>2, <1>3, <1>4, <1>5, InboxIsLight DEF WritesTo, Alive

LEMMA FoundForSendWrites ==
  ASSUME IInv, NEW c \in Client, FoundForSend(c)
  PROVE  /\ lookup[c].nick \in Client /\ lookup[c].id \in Nat
         /\ WritesTo(inbox, c, lookup[c].nick) /\ Alive(c) /\ pc'[c] = "loop"
         /\ QueueMessage(c, lookup[c].nick, lookup[c].id)
<1>1. PICK k \in Client, n \in Nat : k = lookup[c].nick /\ n = lookup[c].id
  BY DEF FoundForSend, InLookup, IInv, LoopInv, InLoop, Lookup
<1>2. /\ InLookup(c, "send") /\ LeaveLookup(c) /\ QueueMessage(c, k, n)
      /\ UNCHANGED <<accepted, last_pkt_received, screen, recordStart, typed>>
  BY <1>1 DEF FoundForSend, displayVars
<1>3. NoNewLookup(c) /\ pc'[c] = "loop" /\ Alive(c)
  BY <1>2, Loop DEF LeaveLookup, EndIteration, NoNewLookup, InLookup, Alive
<1>4. BoxOnly(inbox, k, c) /\ OnlyWritesTo(c, k)
  BY <1>2, QueuedOnly
<1>5. WritesTo(inbox, c, k)
  BY <1>2, <1>3, <1>4, InboxIsLight DEF WritesTo
<1> QED
  BY <1>1, <1>2, <1>3, <1>5

LEMMA TypeToContactAgrees ==
  ASSUME IInv, ConversationInv, PatientInv, AgreeInv, NEW c \in Client, NEW k \in Client,
         TypeToContact(c, k)
  PROVE  AgreeInv'
  BY TypeToContactWrites, QueuedAgrees

LEMMA FoundForSendAgrees ==
  ASSUME IInv, ConversationInv, PatientInv, AgreeInv, NEW c \in Client, FoundForSend(c)
  PROVE  AgreeInv'
<1>1. PICK k \in Client, n \in Nat :
        k = lookup[c].nick /\ WritesTo(inbox, c, k) /\ Alive(c) /\ QueueMessage(c, k, n)
  BY FoundForSendWrites
<1> QED
  BY <1>1, QueuedAgrees

\* What an acknowledgement finds: the exchange is over once it is taken.
LEMMA AckTaken ==
  ASSUME IInv, PatientInv, NEW c \in Client, NEW k \in Client, ReceiveAck(c, k)
  PROVE  /\ Received(c, k) \in Inboxes
         /\ \A s, r \in Client : Taken(Received(c, k)[r][s], inbox[r][s])
         /\ Clear(Received(c, k), c, k) /\ ~ Looked(k, c)
         /\ Has(inbox[c][k], "ACK")
<1> DEFINE net == Received(c, k)
<1>1. /\ inbox[c][k] # <<>> /\ Head(inbox[c][k]).type = "ACK"
  BY DEF ReceiveAck, Next_is
<1>2. net \in Inboxes
  BY <1>1, ReceivedPacket DEF IInv
<1>3. \A s, r \in Client : Taken(net[r][s], inbox[r][s])
  BY <1>1, TakenOff
<1>4. inbox[c][k] \in Seq(Datagram) /\ inbox[k][c] \in Seq(Datagram)
  BY PairTypes
<1>5. Has(inbox[c][k], "ACK")
  BY <1>1, <1>4, Ahead DEF Has
<1>6. OneFlight(c, k)
  BY DEF PatientInv, PatientPair
<1>7. ~ Has(net[c][k], "ACK")
  <2>1. net[c][k] = Tail(inbox[c][k])
    BY <1>1, TakenOff
  <2> QED
    BY <1>1, <1>4, <1>6, <2>1, FewerTail DEF OneFlight
<1> HIDE DEF net
<1>8. ~ Has(net[k][c], "PKT") /\ ~ Looked(k, c)
  BY <1>3, <1>4, <1>5, <1>6, FewerTaken DEF OneFlight, Fewer
<1> QED
  BY <1>2, <1>3, <1>5, <1>7, <1>8 DEF net, Clear

\* The message at the head is the last one that the recipient accepted.
LEMMA AckFinds ==
  ASSUME IInv, ConversationInv, PatientInv, AgreeInv, NEW c \in Client, NEW k \in Client,
         ReceiveAck(c, k)
  PROVE  /\ accepted[k][c] = queue[c][k][1].id
         /\ last_pkt_received[k][c] \in {-1, last_pkt_sent[c][k]}
<1>1. Alive(c) /\ queue[c][k] # <<>>
  BY DEF ReceiveAck, AtSocket, Alive
<1>2. Has(inbox[c][k], "ACK")
  BY AckTaken
<1>3. accepted[k][c] = queue[c][k][1].id
  BY <1>1, <1>2 DEF AgreeInv, AgreePair, Agree
<1>4. last_pkt_received[k][c] \in {-1, last_pkt_sent[c][k]}
  BY <1>1, <1>3 DEF ConversationInv, PairInv, Sound, Remembered
<1> QED
  BY <1>3, <1>4

\* What ReceiveAck does to the conversations.
LEMMA ReceiveAckWrites ==
  ASSUME IInv, NEW c \in Client, NEW k \in Client, ReceiveAck(c, k)
  PROVE  /\ WritesTo(Received(c, k), c, k) /\ Alive(c) /\ queue[c][k] # <<>>
         /\ queue[c][k] \in Seq(Message) /\ Tail(queue[c][k]) \in Seq(Message)
         /\ send_next_message_to_contact(Received(c, k), c, k, Tail(queue[c][k]))
         /\ UNCHANGED typed /\ pc[c] = "input"
<1> DEFINE net == Received(c, k)
<1>1. /\ inbox[c][k] # <<>> /\ queue[c][k] # <<>> /\ pc[c] = "input"
      /\ send_next_message_to_contact(net, c, k, Tail(queue[c][k]))
      /\ UNCHANGED <<typed, accepted, last_pkt_received, screen, recordStart>>
  BY DEF ReceiveAck, AtSocket, Next_is, displayVars
<1>2. NoNewLookup(c)
  BY Loop DEF ReceiveAck, EndIteration, NoNewLookup
<1>3. net \in Inboxes /\ queue \in Queues /\ last_pkt_sent \in Sent
  BY <1>1, ReceivedPacket, TypeParts DEF IInv, RestTypeOK
<1>4. \A s, r \in Client : Lighter(net[r][s], inbox[r][s])
  BY <1>1, TakenOff DEF Taken, Lighter
<1>5. queue[c][k] \in Seq(Message)
  BY PairTypes
<1>6. Tail(queue[c][k]) \in Seq(Message)
  BY <1>1, <1>5
<1> HIDE DEF net
<1>7. BoxOnly(net, k, c) /\ OnlyWritesTo(c, k)
  BY <1>1, <1>3, NextOnly
<1>8. WritesTo(net, c, k)
  BY <1>1, <1>2, <1>4, <1>7 DEF WritesTo
<1> QED
  BY <1>1, <1>5, <1>6, <1>8 DEF net, Alive

LEMMA ReceiveAckAgrees ==
  ASSUME IInv, ConversationInv, PatientInv, AgreeInv, NEW c \in Client, NEW k \in Client,
         ReceiveAck(c, k)
  PROVE  AgreeInv'
<1>1. PICK net \in Inboxes : net = Received(c, k)
  BY AckTaken
<1>2. /\ \A s, r \in Client : Taken(net[r][s], inbox[r][s])
      /\ Clear(net, c, k) /\ ~ Looked(k, c)
      /\ last_pkt_received[k][c] \in {-1, last_pkt_sent[c][k]}
  BY <1>1, AckTaken, AckFinds
<1>3. PICK q \in Seq(Message) : send_next_message_to_contact(net, c, k, q)
  BY <1>1, ReceiveAckWrites
<1>4. WritesTo(net, c, k) /\ Alive(c) /\ UNCHANGED <<accepted, last_pkt_received>>
  BY <1>1, ReceiveAckWrites DEF WritesTo
<1>5. queue \in Queues /\ last_pkt_sent \in Sent
  BY TypeParts DEF IInv, RestTypeOK
<1>6. Traffic(net, c, k, "PKT")
  BY <1>3, <1>5, NextTraffic
<1>7. Traffic(inbox, c, k, "PKT")
  BY <1>2, <1>6, TakenTraffic
<1>8. ~ Has(net[k][c], "PKT") /\ ~ Has(inbox'[c][k], "ACK")
  BY <1>2, <1>6 DEF Clear, Traffic, Fewer
<1>9. Agree(Packets(inbox'[k][c], {}), queue'[c][k], last_pkt_sent'[c][k],
            inbox'[c][k], accepted[k][c], last_pkt_received[k][c])
  BY <1>2, <1>3, <1>5, <1>8, SendNextAgrees
<1>10. Held(k, c)' = {}
  <2>1. Held(k, c) = {}
    BY <1>2 DEF Held, InLookup, Looked
  <2> QED
    BY <1>4, <2>1, LessHeld DEF WritesTo
<1>11. AgreePair(c, k)'
  BY <1>4, <1>9, <1>10 DEF AgreePair
<1> QED
  BY <1>4, <1>7, <1>11, WriterAgrees

-----------------------------------------------------------------------------
(* Packets answered.                                                       *)

\* The packet d of k, the whole exchange, is answered by c.
Answers(net, c, k, d) ==
  /\ Alive(c) /\ NoNewLookup(c) /\ ~ Looked(c, k)'
  /\ net \in Inboxes /\ d \in Datagram
  /\ \A s, r \in Client : Taken(net[r][s], inbox[r][s])
  /\ Flying(k, c) /\ Clear(net, k, c) /\ InHand(c, k, d)
  /\ AcceptPkt(net, c, k, d.num, d.id)
  /\ UNCHANGED <<queue, last_pkt_sent, typed, recordStart>>

LEMMA AnsweredTraffic ==
  ASSUME IInv, NEW c \in Client, NEW k \in Client, NEW net, NEW d, Answers(net, c, k, d)
  PROVE  /\ Traffic(inbox, c, k, "ACK") /\ Hears(c, k, d) /\ OnlyHears(c, k)
         /\ \A s, r \in Client : Lighter(inbox'[r][s], inbox[r][s])
         /\ Packets(inbox'[c][k], Held(c, k)') = {}
<1>1. PICK e \in Datagram : e.type = "ACK" /\ send_packet(net, c, k, e)
  <2>1. d.num \in {0, 1}
    BY DEF Answers, Datagram
  <2>2. Ack(d.num) \in Datagram /\ Ack(d.num).type = "ACK"
    BY <2>1 DEF Ack, Datagram
  <2> QED
    BY <2>2 DEF Answers, AcceptPkt
<1>2. net \in Inboxes /\ \A s, r \in Client : Taken(net[r][s], inbox[r][s])
  BY DEF Answers
<1>3. Traffic(net, c, k, "ACK")
  BY <1>1, <1>2, SentTraffic
<1>4. Traffic(inbox, c, k, "ACK")
  BY <1>2, <1>3, TakenTraffic
<1>5. Hears(c, k, d) /\ OnlyHears(c, k)
  BY HeardPkt DEF Answers
<1>6. /\ BoxOnly(net, k, c)
      /\ inbox'[k][c] = net[k][c] \/ inbox'[k][c] = Append(net[k][c], e)
  BY <1>1, <1>2, SentBoxes
<1>7. ASSUME NEW s \in Client, NEW r \in Client
      PROVE  Lighter(inbox'[r][s], inbox[r][s])
  <2>1. CASE r # k \/ s # c
    BY <1>2, <1>6, <2>1 DEF BoxOnly, Taken, Lighter
  <2>2. CASE r = k /\ s = c
    BY <1>1, <1>2, <1>6, <2>2 DEF Taken, Lighter
  <2> QED
    BY <2>1, <2>2
<1>8. Packets(inbox'[c][k], Held(c, k)') = {}
  <2>1. ~ Has(inbox'[c][k], "PKT")
    BY <1>3 DEF Answers, Clear, Traffic, Fewer
  <2>2. Held(c, k)' = {}
    BY DEF Answers, Held, InLookup, Looked
  <2> QED
    BY <2>1, <2>2 DEF Packets, Has
<1> QED
  BY <1>4, <1>5, <1>7, <1>8

LEMMA AnswerAgrees ==
  ASSUME IInv, ConversationInv, PatientInv, AgreeInv, NEW c \in Client, NEW k \in Client,
         NEW net, NEW d, Answers(net, c, k, d)
  PROVE  AgreeInv'
<1>1. /\ Traffic(inbox, c, k, "ACK") /\ Hears(c, k, d) /\ OnlyHears(c, k)
      /\ \A s, r \in Client : Lighter(inbox'[r][s], inbox[r][s])
      /\ Packets(inbox'[c][k], Held(c, k)') = {}
  BY AnsweredTraffic
<1>2. /\ NoNewLookup(c) /\ Alive(c)
      /\ UNCHANGED <<queue, last_pkt_sent>>
  BY DEF Answers
<1>3. AgreePair(k, c)'
  <2> SUFFICES ASSUME Alive(k)'
               PROVE  Agree({}, queue[k][c], last_pkt_sent[k][c], inbox'[k][c],
                            accepted'[c][k], last_pkt_received'[c][k])
    BY <1>1, <1>2 DEF AgreePair
  <2>1. Alive(k)
    BY <1>2 DEF NoNewLookup, Alive
  <2>2. queue[k][c] # <<>>
    BY <2>1 DEF Answers, PatientInv, PatientPair
  <2>3. d.num = last_pkt_sent[k][c] /\ d.id = queue[k][c][1].id
    BY <2>1, <2>2 DEF Answers, InHand, AgreeInv, AgreePair, Agree
  <2>4. last_pkt_received[c][k] = last_pkt_sent[k][c] => accepted[c][k] = queue[k][c][1].id
    BY <2>1, <2>2 DEF AgreeInv, AgreePair, Agree
  <2>5. accepted'[c][k] = queue[k][c][1].id
    <3>1. CASE d.num # last_pkt_received[c][k]
      <4>1. accepted' = [accepted EXCEPT ![c][k] = d.id]
        BY <3>1 DEF Answers, AcceptPkt
      <4>2. accepted \in [Client -> [Client -> Nat]]
        BY TypeParts DEF IInv, RestTypeOK, Counts
      <4>3. accepted'[c][k] = d.id
        BY <4>1, <4>2
      <4> QED
        BY <2>3, <4>3
    <3>2. CASE d.num = last_pkt_received[c][k]
      BY <2>3, <2>4, <3>2 DEF Answers, AcceptPkt
    <3> QED
      BY <3>1, <3>2
  <2> QED
    BY <2>2, <2>5 DEF Agree
<1> SUFFICES ASSUME NEW s \in Client, NEW r \in Client, s # k \/ r # c
             PROVE  AgreePair(s, r)'
  BY <1>3 DEF AgreeInv
<1>4. Packets(inbox'[r][s], Held(r, s)') \in SUBSET Packets(inbox[r][s], Held(r, s))
  <2>1. Held(r, s)' \in SUBSET Held(r, s)
    BY <1>2, LessHeld
  <2>2. InOrder(inbox[r][s], Held(r, s))
    BY DEF ConversationInv, PairInv
  <2> QED
    BY <1>1, <2>1, <2>2, PairTypes, LighterBox
<1>5. Fewer(inbox'[s][r], inbox[s][r], "ACK")
  BY <1>1 DEF Traffic
<1>6. Spared(s, r)
  BY <1>1, <1>2, <1>4, <1>5 DEF Spared, OnlyHears, SameRecipient, NoNewLookup, Alive
<1> QED
  BY <1>6, SparedAgrees DEF AgreeInv

LEMMA ReceivePktAnswers ==
  ASSUME IInv, ConversationInv, PatientInv, NEW c \in Client, NEW k \in Client,
         ReceivePkt(c, k)
  PROVE  Answers(Received(c, k), c, k, Head(inbox[c][k]))
<1>1. PICK d \in Datagram : d = Head(inbox[c][k]) /\ InHand(c, k, d)
  BY ReadPkt DEF ReceivePkt
<1>2. PICK net : net = Received(c, k)
  OBVIOUS
<1>3. /\ pc[c] = "input" /\ Next_is(c, k, "PKT")
      /\ AcceptPkt(net, c, k, d.num, d.id)
      /\ UNCHANGED <<lookup, queue, last_pkt_sent, typed, recordStart>>
  BY <1>1, <1>2 DEF ReceivePkt, AtSocket
<1>4. NoNewLookup(c) /\ Alive(c)
  BY <1>3, Loop DEF ReceivePkt, EndIteration, NoNewLookup, Alive
<1>5. /\ net \in Inboxes /\ \A s, r \in Client : Taken(net[r][s], inbox[r][s])
      /\ Flying(k, c) /\ ~ Looked(c, k) /\ Clear(net, k, c)
  BY <1>2, <1>3, TakenPkt
<1>6. ~ Looked(c, k)'
  BY <1>3, <1>5 DEF Looked
<1> QED
  BY <1>1, <1>2, <1>3, <1>4, <1>5, <1>6 DEF Answers

LEMMA FoundForReceiveAnswers ==
  ASSUME IInv, ConversationInv, PatientInv, NEW c \in Client, FoundForReceive(c)
  PROVE  /\ lookup[c].nick \in Client
         /\ Answers(inbox, c, lookup[c].nick, Pkt(lookup[c].num, lookup[c].id))
<1>1. PICK k \in Client : k = lookup[c].nick
  BY DEF FoundForReceive, InLookup, IInv, LoopInv, InLoop, Lookup
<1>2. PICK d \in Datagram : d = Pkt(lookup[c].num, lookup[c].id) /\ InHand(c, k, d)
  BY <1>1, LookedUpPkt DEF FoundForReceive
<1>3. d.num = lookup[c].num /\ d.id = lookup[c].id
  BY <1>2 DEF Pkt
<1>4. /\ pc[c] = "lookup" /\ lookup[c].why = "receive" /\ pc' = [pc EXCEPT ![c] = "loop"]
      /\ lookup' = [lookup EXCEPT ![c] = NoLookup]
      /\ AcceptPkt(inbox, c, k, d.num, d.id)
      /\ UNCHANGED <<queue, last_pkt_sent, typed, recordStart>>
  BY <1>1, <1>3 DEF FoundForReceive, InLookup, LeaveLookup, EndIteration
<1>5. NoNewLookup(c) /\ Alive(c) /\ ~ Looked(c, k)'
  BY <1>4, Loop DEF NoNewLookup, Alive, Looked, NoLookup
<1>6. inbox \in Inboxes /\ \A s, r \in Client : Taken(inbox[r][s], inbox[r][s])
  BY DEF IInv, TypeOK, Inboxes, Taken
<1>7. Looked(c, k) /\ Flying(k, c)
  BY <1>1, <1>4 DEF Looked, Flying
<1>8. Clear(inbox, k, c)
  BY <1>7 DEF PatientInv, PatientPair, OneFlight, Clear
<1>9. Answers(inbox, c, k, d)
  BY <1>2, <1>4, <1>5, <1>6, <1>7, <1>8 DEF Answers
<1> QED
  BY <1>1, <1>2, <1>9

LEMMA ReceivePktAgrees ==
  ASSUME IInv, ConversationInv, PatientInv, AgreeInv, NEW c \in Client, NEW k \in Client,
         ReceivePkt(c, k)
  PROVE  AgreeInv'
  BY ReceivePktAnswers, AnswerAgrees

LEMMA FoundForReceiveAgrees ==
  ASSUME IInv, ConversationInv, PatientInv, AgreeInv, NEW c \in Client, FoundForReceive(c)
  PROVE  AgreeInv'
  BY FoundForReceiveAnswers, AnswerAgrees

LEMMA NotFoundForStrangerAgrees ==
  ASSUME IInv, ConversationInv, AgreeInv, NEW c \in Client, NotFoundForStranger(c)
  PROVE  AgreeInv'
<1>1. /\ Alive(c) /\ LeaveLookup(c)
      /\ UNCHANGED <<queue, last_pkt_sent, accepted, last_pkt_received, inbox>>
  BY DEF NotFoundForStranger, InLookup, Alive, contactVars, netVars, displayVars
<1>2. NoNewLookup(c)
  BY <1>1, Loop DEF LeaveLookup, EndIteration, NoNewLookup
<1>3. \A s, r \in Client : Held(r, s)' \in SUBSET Held(r, s)
  BY <1>2, LessHeld
<1> QED
  BY <1>1, <1>2, <1>3, QuietAgrees DEF NoNewLookup

\* A client that stops forgets what it has seen, and what waited at its socket.
LEMMA StopAgrees ==
  ASSUME IInv, ConversationInv, AgreeInv, NEW c \in Client, Stop(c, "down")
  PROVE  AgreeInv'
<1>1. /\ queue \in Queues /\ last_pkt_sent \in Sent /\ inbox \in Inboxes
      /\ last_pkt_received \in [Client -> [Client -> {-1, 0, 1}]]
  BY TypeParts DEF IInv, RestTypeOK, TypeOK
<1>2. /\ NoNewLookup(c) /\ pc'[c] = "down" /\ UNCHANGED accepted
  BY Loop DEF Stop, NoNewLookup
<1>3. ~ Alive(c)'
  BY <1>2 DEF Alive
<1> SUFFICES ASSUME NEW s \in Client, NEW r \in Client, s # c
             PROVE  AgreePair(s, r)'
  BY <1>3 DEF AgreeInv, AgreePair
<1>4. /\ queue'[s][r] = queue[s][r] /\ last_pkt_sent'[s][r] = last_pkt_sent[s][r]
      /\ inbox'[s][r] = inbox[s][r] /\ (Alive(s)' <=> Alive(s))
  BY <1>1, <1>2 DEF Stop, Queues, Sent, Inboxes, NoNewLookup, Alive
<1>5. Held(r, s)' \in SUBSET Held(r, s)
  BY <1>2, LessHeld
<1>6. CASE r # c
  <2>1. inbox'[r][s] = inbox[r][s] /\ last_pkt_received'[r][s] = last_pkt_received[r][s]
    BY <1>1, <1>6 DEF Stop, Inboxes
  <2>2. Spared(s, r)
    BY <1>2, <1>4, <1>5, <2>1 DEF Spared, Packets, Fewer
  <2> QED
    BY <2>2, SparedAgrees DEF AgreeInv
<1>7. CASE r = c
  <2>1. inbox'[r][s] = <<>> /\ last_pkt_received'[r][s] = -1
    BY <1>1, <1>7 DEF Stop, Inboxes
  <2>2. Held(r, s)' = {}
    BY <1>2, <1>7 DEF Held, InLookup
  <2>3. Packets(inbox'[r][s], Held(r, s)') = {}
    BY <2>1, <2>2 DEF Packets
  <2>4. last_pkt_sent[s][r] # -1
    BY <1>1 DEF Sent
  <2> SUFFICES ASSUME Alive(s)
               PROVE  Agree({}, queue[s][r], last_pkt_sent[s][r], inbox[s][r],
                            accepted[r][s], -1)
    BY <1>2, <1>4, <2>1, <2>3 DEF AgreePair
  <2>5. queue[s][r] # <<>> /\ Has(inbox[s][r], "ACK") =>
          accepted[r][s] = queue[s][r][1].id
    BY DEF AgreeInv, AgreePair, Agree
  <2> QED
    BY <2>4, <2>5 DEF Agree
<1> QED
  BY <1>6, <1>7

LEMMA ClientStepAgrees ==
  ASSUME IInv, ConversationInv, PatientInv, AgreeInv, NEW c \in Client, ClientStep(c),
         ~ GivesUp
  PROVE  AgreeInv'
<1>1. CASE SelectStep(c)
  BY <1>1, SelectAgrees DEF SelectStep, Ready
<1>2. CASE ResendStep(c)
  BY <1>2, ResendAgrees, LookupAgainAgrees DEF ResendStep, GivesUp
<1>3. CASE StdinStep(c)
  <2>1. CASE RejectInput(c)
    BY <2>1, StdinAgrees
  <2>2. ASSUME NEW k \in Client, Block(c, k) \/ Unblock(c, k)
        PROVE  AgreeInv'
    BY <2>2, StdinAgrees
  <2>3. ASSUME NEW k \in Client, TypeToContact(c, k) \/ TypeToStranger(c, k)
        PROVE  AgreeInv'
    BY <2>3, TypeToContactAgrees, TypeToStrangerAgrees
  <2> QED
    BY <1>3, <2>1, <2>2, <2>3 DEF StdinStep
<1>4. CASE SocketStep(c)
  BY <1>4, ReceivePktAgrees, ReceivePktFromStrangerAgrees, ReceiveAckAgrees,
     ReceiveAckFromStrangerAgrees, PopEmptyQueueIsImpossible
  DEF SocketStep
<1>5. CASE \E k \in Client : LookupIgnores(c, k)
  BY <1>5, LookupIgnoresAgrees
<1>6. CASE LookupEnds(c)
  BY <1>6, FoundForResendAgrees, FoundForSendAgrees, FoundForReceiveAgrees,
     NotFoundForStrangerAgrees, StopAgrees
  DEF LookupEnds, ServerSilent, GivesUp
<1>7. CASE Quit(c)
  BY <1>7, StopAgrees DEF Quit
<1> QED
  BY <1>1, <1>2, <1>3, <1>4, <1>5, <1>6, <1>7 DEF ClientStep

-----------------------------------------------------------------------------
\* The exchange under way is about the message at the head of the queue.
LEMMA ExchangesAgree ==
  ASSUME Patient
  PROVE  Spec /\ [][~ GivesUp]_vars => []AgreeInv
<1>1. Init => AgreeInv
  <2> SUFFICES ASSUME Init, NEW s \in Client, NEW r \in Client
               PROVE  AgreePair(s, r)
    BY DEF AgreeInv
  <2>1. /\ inbox[r][s] = <<>> /\ inbox[s][r] = <<>> /\ queue[s][r] = <<>>
        /\ last_pkt_received[r][s] = -1
    BY DEF Init
  <2> QED
    BY <2>1 DEF AgreePair, Agree
<1>2. IInv /\ ConversationInv /\ PatientInv /\ AgreeInv /\ [Next]_vars
        /\ [~ GivesUp]_vars => AgreeInv'
  <2>1. IInv /\ ConversationInv /\ PatientInv /\ AgreeInv /\ Next /\ ~ GivesUp => AgreeInv'
    BY ClientStepAgrees DEF Next
  <2>2. AgreeInv /\ UNCHANGED vars => AgreeInv'
    <3> SUFFICES ASSUME AgreeInv, UNCHANGED vars, NEW s \in Client, NEW r \in Client
                 PROVE  AgreePair(s, r)'
      BY DEF AgreeInv
    <3>1. UNCHANGED <<pc, lookup, queue, last_pkt_sent, last_pkt_received, inbox, accepted>>
      BY DEF vars, loopVars, contactVars, netVars, displayVars
    <3>2. Spared(s, r)
      BY <3>1 DEF Spared, Alive, Held, InLookup, Fewer
    <3> QED
      BY <3>2, SparedAgrees DEF AgreeInv
  <2> QED
    BY <2>1, <2>2
<1> QED
  BY <1>1, <1>2, InvariantHolds, ConversationsAgree, PatienceHolds, PTL DEF Spec

LEMMA AgreementSuffices ==
  ASSUME IInv, PatientInv, ContactInv, AgreeInv
  PROVE  AckIsForHead
<1> SUFFICES ASSUME NEW c \in Client, NEW k \in Client, k \in known[c],
                    Waiting(c, k, "ACK")
             PROVE  queue[c][k] # <<>> /\ accepted[k][c] >= Head(queue[c][k]).id
  BY DEF AckIsForHead
<1>1. Alive(c)
  BY DEF ContactInv, Lists
<1>2. Has(inbox[c][k], "ACK") /\ Flying(c, k)
  BY DEF Waiting, Has, Flying
<1>3. queue[c][k] # <<>>
  BY <1>1, <1>2 DEF PatientInv, PatientPair
<1>4. accepted[k][c] = queue[c][k][1].id
  BY <1>1, <1>2, <1>3 DEF AgreeInv, AgreePair, Agree
<1>5. queue[c][k] \in Seq(Message) /\ accepted[k][c] \in Nat
  BY PairTypes
<1>6. Head(queue[c][k]) = queue[c][k][1]
  BY <1>3, <1>5
<1> QED
  BY <1>3, <1>4, <1>5, <1>6

\* While timers wait for the exchange under way and no message is given up, the
\* message that an acknowledgement will pop is in its queue, and the client that
\* acknowledged has taken it, whatever is lost, typed both ways, blocked or quit:
\* "the one that was just ACKed" (client_to_client_com.h:16).
THEOREM AckPopsItsMessage ==
  ASSUME Patient
  PROVE  Spec /\ [][~ GivesUp]_vars => []AckIsForHead
  BY AgreementSuffices, ExchangesAgree, ContactsAreListed, InvariantHolds, PatienceHolds, PTL

-----------------------------------------------------------------------------
(* A team: clients that write to nobody but their one partner, which does  *)
(* not write back, with timers that wait, a server that finds every nick,  *)
(* sockets with room for a datagram, and fewer losses than attempts.       *)

Writes(s, r) == <<s, r>> \in MayWrite

Team ==
  /\ Patient /\ LookupAnswers = {"found"} /\ MayQuit = {}
  /\ MaxLoss <= 3 /\ SocketBuffer >= 1
  /\ \A s, r, p, t \in Client :
       Writes(s, r) /\ Writes(p, t) => p # r /\ t # s /\ (p = s <=> t = r)

\* s looks up r for a message typed to it.
Asks(s, r) == InLookup(s, "send") /\ lookup[s].nick = r

\* s has nothing to say to r.
Idle(s, r) == queue[s][r] = <<>> /\ ~ Flying(s, r) /\ ~ Asks(s, r)

\* Every attempt at the message at the head has cost a datagram, but the last one
\* while its exchange is under way.
Tried(s, r) ==
  queue[s][r] # <<>> =>
    \/ queue[s][r][1].attempts <= losses
    \/ Flying(s, r) /\ queue[s][r][1].attempts <= losses + 1

TeamPair(s, r) == IF Writes(s, r) THEN Tried(s, r) ELSE Idle(s, r)

TeamInv ==
  /\ losses <= MaxLoss
  /\ \A c \in Client : Alive(c)
  /\ \A s, r \in Client : TeamPair(s, r)

LEMMA WhoWrites ==
  ASSUME TeamInv, NEW s \in Client, NEW r \in Client,
         queue[s][r] # <<>> \/ Flying(s, r) \/ Asks(s, r)
  PROVE  Writes(s, r)
  BY DEF TeamInv, TeamPair, Idle

LEMMA HeadAttempts ==
  ASSUME IInv, NEW s \in Client, NEW r \in Client, queue[s][r] # <<>>
  PROVE  /\ queue[s][r][1].attempts \in Nat /\ Attempts(s, r) = queue[s][r][1].attempts
         /\ \A i \in DOMAIN queue[s][r] : i > 1 => queue[s][r][i].attempts = 0
<1>1. queue[s][r] \in Seq(Message)
  BY PairTypes
<1>2. 1 \in DOMAIN queue[s][r] /\ queue[s][r][1] \in Message
      /\ Head(queue[s][r]) = queue[s][r][1]
  BY <1>1
<1>3. queue[s][r][1].attempts \in Nat
  BY <1>2 DEF Message
<1> QED
  BY <1>2, <1>3 DEF Attempts, IInv, OneOutstanding

\* What the datagram at the head of a socket says of its exchange.
LEMMA HeadFlies ==
  ASSUME IInv, NEW c \in Client, NEW k \in Client, inbox[c][k] # <<>>
  PROVE  /\ Next_is(c, k, "PKT") \/ Next_is(c, k, "ACK")
         /\ Next_is(c, k, "PKT") => Has(inbox[c][k], "PKT") /\ Flying(k, c)
         /\ Next_is(c, k, "ACK") => Has(inbox[c][k], "ACK") /\ Flying(c, k)
<1>1. inbox[c][k] \in Seq(Datagram)
  BY PairTypes
<1>2. 1 \in DOMAIN inbox[c][k] /\ Head(inbox[c][k]) = inbox[c][k][1]
      /\ Head(inbox[c][k]) \in Datagram
  BY <1>1, Ahead
<1>3. Head(inbox[c][k]).type \in {"PKT", "ACK"}
  BY <1>2 DEF Datagram
<1>4. \A t \in {"PKT", "ACK"} : Next_is(c, k, t) => Has(inbox[c][k], t)
  BY <1>2 DEF Next_is, Has
<1> QED
  BY <1>3, <1>4 DEF Next_is, Flying

-----------------------------------------------------------------------------
(* What does not happen in a team.                                         *)

\* A contact whose timer has expired has cost as many datagrams as attempts.
LEMMA DueTried ==
  ASSUME TeamInv, PatientInv, IInv, NEW c \in Client, NEW k \in Client, k \in due[c]
  PROVE  /\ queue[c][k] # <<>> /\ Writes(c, k) /\ ~ Flying(c, k)
         /\ queue[c][k][1].attempts <= losses
<1>1. queue[c][k] # <<>>
  BY DEF IInv, LoopInv, InLoop
<1>2. ~ Flying(c, k)
  BY DEF PatientInv, PatientPair
<1>3. Writes(c, k)
  BY <1>1, WhoWrites
<1> QED
  BY <1>1, <1>2, <1>3 DEF TeamInv, TeamPair, Tried

LEMMA NoGivingUp ==
  ASSUME Team, TeamInv, PatientInv, IInv
  PROVE  ~ GivesUp
<1>1. ASSUME NEW c \in Client, NotFoundForResend(c)
      PROVE  FALSE
  BY <1>1 DEF NotFoundForResend, Team
<1>2. ASSUME NEW c \in Client, NEW k \in Client, GiveUp(c, k)
      PROVE  FALSE
  <2>1. k \in due[c] /\ Attempts(c, k) = 4
    BY <1>2 DEF GiveUp, AtContact
  <2>2. queue[c][k] # <<>> /\ queue[c][k][1].attempts <= losses
    BY <2>1, DueTried
  <2>3. queue[c][k][1].attempts = 4
    BY <2>1, <2>2, HeadAttempts
  <2>4. losses <= MaxLoss /\ MaxLoss <= 3 /\ losses \in Nat /\ MaxLoss \in Nat
    BY ClientsAssumption, TypeParts DEF TeamInv, Team, IInv, RestTypeOK
  <2> QED
    BY <2>2, <2>3, <2>4
<1> QED
  BY <1>1, <1>2 DEF GivesUp

\* The client in a lookup is one of the two of its exchange: nothing else reaches it.
LEMMA NothingIgnored ==
  ASSUME Team, TeamInv, PatientInv, ContactInv, IInv,
         NEW c \in Client, NEW k \in Client, LookupIgnores(c, k)
  PROVE  FALSE
<1>1. pc[c] = "lookup" /\ inbox[c][k] # <<>> /\ Alive(c)
  BY DEF LookupIgnores, Alive
<1>2. PICK n \in Client : n = lookup[c].nick
  BY <1>1 DEF IInv, LoopInv, InLoop, Lookup
<1>3. InLookup(c, "send") \/ InLookup(c, "receive") \/ InLookup(c, "resend")
  BY <1>1 DEF IInv, LoopInv, InLoop, Lookup, InLookup
<1>4. InLookup(c, "send") => Writes(c, n) /\ n \notin known[c]
  BY <1>2, WhoWrites DEF Asks, ContactInv, Lists
<1>5. InLookup(c, "receive") => Writes(n, c) /\ Looked(c, n)
  BY <1>2, WhoWrites DEF InLookup, Looked, Flying
<1>6. InLookup(c, "resend") => Writes(c, n) /\ ~ Flying(c, n)
  BY <1>2, DueTried DEF IInv, LoopInv, InLoop
<1>7. CASE Next_is(c, k, "PKT")
  <2>1. Has(inbox[c][k], "PKT") /\ Writes(k, c)
    BY <1>1, <1>7, HeadFlies, WhoWrites
  <2>2. Writes(n, c) /\ Looked(c, n) /\ n = k
    BY <1>3, <1>4, <1>5, <1>6, <2>1 DEF Team
  <2> QED
    BY <2>1, <2>2 DEF PatientInv, PatientPair, OneFlight
<1>8. CASE Next_is(c, k, "ACK")
  <2>1. Flying(c, k) /\ Writes(c, k)
    BY <1>1, <1>8, HeadFlies, WhoWrites
  <2>2. k \in known[c]
    BY <1>1, <2>1 DEF PatientInv, PatientPair
  <2> QED
    BY <1>3, <1>4, <1>5, <1>6, <2>1, <2>2 DEF Team
<1> QED
  BY <1>1, <1>7, <1>8, HeadFlies

LEMMA NoStrangerAnswers ==
  ASSUME TeamInv, PatientInv, IInv, NEW c \in Client, NEW k \in Client,
         ReceiveAckFromStranger(c, k)
  PROVE  FALSE
<1>1. Next_is(c, k, "ACK") /\ inbox[c][k] # <<>> /\ k \notin known[c]
  BY DEF ReceiveAckFromStranger, Next_is
<1>2. Flying(c, k)
  BY <1>1, HeadFlies
<1> QED
  BY <1>1, <1>2 DEF TeamInv, PatientInv, PatientPair

-----------------------------------------------------------------------------
(* The steps of a team.                                                    *)

\* c goes on, and begins no lookup.
Calm(c) ==
  /\ \A d \in Client : d # c => pc'[d] = pc[d] /\ lookup'[d] = lookup[d]
  /\ pc'[c] \in {"loop", "resend", "input"}
  /\ lookup'[c] \in {lookup[c], NoLookup}

LEMMA CalmLooks ==
  ASSUME NEW c \in Client, Calm(c), NEW s \in Client, NEW r \in Client
  PROVE  /\ Looked(r, s)' => Looked(r, s)
         /\ r # c => (Looked(r, s)' <=> Looked(r, s))
         /\ Asks(s, r)' => Asks(s, r)
<1>1. NoLookup.why # "receive"
  BY DEF NoLookup
<1> QED
  BY <1>1 DEF Calm, Looked, Asks, InLookup

\* A step in which no two clients but s and r take part.
Between(s, r) ==
  /\ \A d \in Client : Alive(d)'
  /\ \A p, t \in Client : p # s \/ t # r =>
       /\ queue'[p][t] = queue[p][t] /\ NoNewFlight(p, t) /\ (Asks(p, t)' => Asks(p, t))
  /\ \A p, t \in Client : {p, t} \cap {s, r} = {} => (Flying(p, t) => Flying(p, t)')

LEMMA Later ==
  ASSUME NEW n \in Nat, NEW a \in Nat, NEW b \in Nat, a <= b
  PROVE  (n <= a => n <= b) /\ (n <= a + 1 => n <= b + 1)
  OBVIOUS

LEMMA TeamGoesOn ==
  ASSUME Team, TeamInv, IInv, NEW s \in Client, NEW r \in Client, Writes(s, r),
         Between(s, r), losses' \in {losses, losses + 1}, losses' <= MaxLoss, Tried(s, r)'
  PROVE  TeamInv'
<1>1. PICK a \in Nat, b \in Nat : a = losses /\ b = losses' /\ a <= b
  <2>1. losses \in Nat
    BY TypeParts DEF IInv, RestTypeOK
  <2>2. losses' \in Nat /\ losses <= losses'
    BY <2>1
  <2> QED
    BY <2>1, <2>2
<1> SUFFICES ASSUME NEW p \in Client, NEW t \in Client, p # s \/ t # r
             PROVE  TeamPair(p, t)'
  BY DEF TeamInv, TeamPair, Between
<1>2. queue'[p][t] = queue[p][t] /\ NoNewFlight(p, t) /\ (Asks(p, t)' => Asks(p, t))
  BY DEF Between
<1>3. CASE Writes(p, t)
  <2>1. {p, t} \cap {s, r} = {}
    BY <1>3 DEF Team
  <2>2. Flying(p, t) => Flying(p, t)'
    BY <2>1 DEF Between
  <2>3. Tried(p, t)
    BY <1>3 DEF TeamInv, TeamPair
  <2>4. CASE queue[p][t] = <<>>
    BY <1>2, <1>3, <2>4 DEF TeamPair, Tried
  <2>5. CASE queue[p][t] # <<>>
    <3>1. PICK n \in Nat : n = queue[p][t][1].attempts
      BY <2>5, HeadAttempts
    <3>2. n <= losses \/ (Flying(p, t) /\ n <= losses + 1)
      BY <2>3, <2>5, <3>1 DEF Tried
    <3>3. (n <= a => n <= b) /\ (n <= a + 1 => n <= b + 1)
      BY <1>1, Later
    <3>4. n <= losses' \/ (Flying(p, t)' /\ n <= losses' + 1)
      BY <1>1, <2>2, <3>2, <3>3
    <3>5. Tried(p, t)'
      BY <1>2, <3>1, <3>4 DEF Tried
    <3> QED
      BY <1>3, <3>5 DEF TeamPair
  <2> QED
    BY <2>4, <2>5
<1>4. CASE ~ Writes(p, t)
  <2>1. Idle(p, t)
    BY <1>4 DEF TeamInv, TeamPair
  <2>2. ~ Flying(p, t)'
    BY <1>2, <2>1 DEF Idle, NoNewFlight, Flying, Fewer
  <2> QED
    BY <1>2, <1>4, <2>1, <2>2 DEF TeamPair, Idle
<1> QED
  BY <1>3, <1>4

\* A step that leaves exchanges and queues alone.
LEMMA TeamStays ==
  ASSUME TeamInv, UNCHANGED <<losses, queue, inbox>>, \A d \in Client : Alive(d)',
         \A s, r \in Client :
           (Looked(r, s)' <=> Looked(r, s)) /\ (Asks(s, r)' => Asks(s, r))
  PROVE  TeamInv'
<1> SUFFICES ASSUME NEW s \in Client, NEW r \in Client
             PROVE  TeamPair(s, r)'
  BY DEF TeamInv
<1>1. Flying(s, r)' <=> Flying(s, r)
  BY DEF Flying
<1>2. TeamPair(s, r)
  BY DEF TeamInv
<1> QED
  BY <1>1, <1>2 DEF TeamPair, Tried, Idle

\* Between two clients, in one direction or the other, only c writes to the socket of k.
LEMMA CalmBetween ==
  ASSUME TeamInv, IInv, NEW c \in Client, NEW k \in Client, c # k, Calm(c), QueueOnly(c, k),
         NEW t \in {"PKT", "ACK"}, Traffic(inbox, c, k, t),
         \A a, b \in Client : {a, b} \cap {c, k} = {} => inbox'[a][b] = inbox[a][b]
  PROVE  /\ t = "PKT" => Between(c, k)
         /\ t = "ACK" /\ UNCHANGED queue => Between(k, c)
<1>1. \A d \in Client : Alive(d)'
  BY DEF Calm, TeamInv, Alive
<1>2. ASSUME NEW p \in Client, NEW s \in Client
      PROVE  Asks(p, s)' => Asks(p, s)
  BY CalmLooks
<1>3. ASSUME NEW p \in Client, NEW s \in Client, {p, s} \cap {c, k} = {}, Flying(p, s)
      PROVE  Flying(p, s)'
  <2>1. inbox'[s][p] = inbox[s][p] /\ inbox'[p][s] = inbox[p][s] /\ s # c
    BY <1>3
  <2>2. Looked(s, p)' <=> Looked(s, p)
    BY <2>1, CalmLooks
  <2> QED
    BY <1>3, <2>1, <2>2 DEF Flying
<1>4. ASSUME t = "PKT", NEW p \in Client, NEW s \in Client, p # c \/ s # k
      PROVE  NoNewFlight(p, s) /\ queue'[p][s] = queue[p][s]
  <2>1. Fewer(inbox'[s][p], inbox[s][p], "PKT") /\ Fewer(inbox'[p][s], inbox[p][s], "ACK")
    BY <1>4 DEF Traffic
  <2> QED
    BY <1>4, <2>1, CalmLooks DEF NoNewFlight, QueueOnly
<1>5. ASSUME t = "ACK", NEW p \in Client, NEW s \in Client, p # k \/ s # c
      PROVE  NoNewFlight(p, s)
  <2>1. Fewer(inbox'[s][p], inbox[s][p], "PKT") /\ Fewer(inbox'[p][s], inbox[p][s], "ACK")
    BY <1>5 DEF Traffic
  <2> QED
    BY <2>1, CalmLooks DEF NoNewFlight
<1>6. t = "PKT" => Between(c, k)
  BY <1>1, <1>2, <1>3, <1>4 DEF Between
<1>7. t = "ACK" /\ UNCHANGED queue => Between(k, c)
  BY <1>1, <1>2, <1>3, <1>5 DEF Between
<1> QED
  BY <1>6, <1>7

LEMMA EmptyBox ==
  ASSUME NEW box \in Seq(Datagram), ~ Has(box, "PKT"), ~ Has(box, "ACK")
  PROVE  box = <<>>
<1> SUFFICES ASSUME box # <<>>
             PROVE  FALSE
  OBVIOUS
<1>1. 1 \in DOMAIN box /\ box[1] \in Datagram
  OBVIOUS
<1>2. box[1].type \in {"PKT", "ACK"}
  BY <1>1 DEF Datagram
<1> QED
  BY <1>1, <1>2 DEF Has

\* A datagram sent to an empty socket arrives, or it is lost.
LEMMA SentOrLost ==
  ASSUME Team, TeamInv, IInv, NEW net \in Inboxes, NEW c \in Client, NEW k \in Client,
         net[k][c] = <<>>, NEW d \in Datagram, send_packet(net, c, k, d)
  PROVE  /\ losses' <= MaxLoss
         /\ \/ losses' = losses /\ Has(inbox'[k][c], d.type)
            \/ losses' = losses + 1
<1>1. losses \in Nat /\ MaxLoss \in Nat /\ SocketBuffer \in Nat /\ SocketBuffer >= 1
  BY TypeParts, ClientsAssumption DEF IInv, RestTypeOK, Team
<1>2. losses <= MaxLoss /\ Alive(k)
  BY DEF TeamInv
<1>3. CASE inbox' = Arrive(net, c, k, d) /\ UNCHANGED losses
  <2>1. Len(net[k][c]) < SocketBuffer
    <3>1. Len(net[k][c]) = 0
      OBVIOUS
    <3> QED
      BY <1>1, <3>1
  <2>2. inbox' = [net EXCEPT ![k][c] = Append(net[k][c], d)]
    BY <1>2, <1>3, <2>1 DEF Arrive
  <2>3. inbox'[k][c] = Append(<<>>, d)
    BY <2>2 DEF Inboxes
  <2>4. Append(<<>>, d)[1] = d /\ 1 \in DOMAIN Append(<<>>, d)
    OBVIOUS
  <2>5. Has(inbox'[k][c], d.type)
    BY <2>3, <2>4 DEF Has
  <2> QED
    BY <1>2, <1>3, <2>5
<1>4. CASE losses < MaxLoss /\ losses' = losses + 1 /\ inbox' = net
  BY <1>1, <1>4
<1> QED
  BY <1>3, <1>4 DEF send_packet

LEMMA AttemptCounted ==
  ASSUME NEW q \in Seq(Message), q # <<>>, NEW r, r = [q EXCEPT ![1].attempts = @ + 1]
  PROVE  r[1].attempts = q[1].attempts + 1 /\ q[1].attempts \in Nat
<1>1. 1 \in DOMAIN q /\ q[1] \in Message
  OBVIOUS
<1>2. r[1] = [q[1] EXCEPT !.attempts = @ + 1]
  BY <1>1
<1>3. \A m \in Message : [m EXCEPT !.attempts = @ + 1].attempts = m.attempts + 1
                         /\ m.attempts \in Nat
  BY DEF Message
<1> QED
  BY <1>1, <1>2, <1>3

\* net is what the sockets hold when c sends to k, or answers it.
Handed(net, c, k) ==
  /\ net \in Inboxes
  /\ \A a, b \in Client : Taken(net[a][b], inbox[a][b])
  /\ \A a, b \in Client : a # c \/ b # k => net[a][b] = inbox[a][b]

LEMMA HandedApart ==
  ASSUME NEW net, NEW c \in Client, NEW k \in Client, Handed(net, c, k), BoxOnly(net, k, c)
  PROVE  \A a, b \in Client : {a, b} \cap {c, k} = {} => inbox'[a][b] = inbox[a][b]
<1> SUFFICES ASSUME NEW a \in Client, NEW b \in Client, {a, b} \cap {c, k} = {}
             PROVE  inbox'[a][b] = inbox[a][b]
  OBVIOUS
<1>1. a # c /\ a # k
  OBVIOUS
<1>2. inbox'[a][b] = net[a][b]
  BY <1>1 DEF BoxOnly
<1>3. net[a][b] = inbox[a][b]
  BY <1>1 DEF Handed
<1> QED
  BY <1>2, <1>3

\* c sends the message at the head of its queue to k, no exchange being under way.
LEMMA TeamSends ==
  ASSUME Team, TeamInv, IInv, NEW c \in Client, NEW k \in Client, Writes(c, k), Calm(c),
         NEW net, Handed(net, c, k), Clear(net, c, k),
         NEW q \in Seq(Message), q # <<>>, q[1].attempts <= losses, NEW num \in Number,
         send_message_to_contact(net, c, k, q, num)
  PROVE  TeamInv'
<1>1. /\ c # k /\ ~ Writes(k, c) /\ queue \in Queues /\ losses \in Nat /\ net \in Inboxes
      /\ \A a, b \in Client : Taken(net[a][b], inbox[a][b])
  BY TypeParts DEF Team, IInv, RestTypeOK, Handed
<1>2. net[k][c] = <<>>
  <2>1. ~ Has(inbox[k][c], "ACK")
    BY <1>1 DEF TeamInv, TeamPair, Idle, Flying
  <2>2. net[k][c] \in Seq(Datagram) /\ Fewer(net[k][c], inbox[k][c], "ACK")
    BY <1>1, PairTypes, FewerTaken
  <2>3. ~ Has(net[k][c], "PKT") /\ ~ Has(net[k][c], "ACK")
    BY <2>1, <2>2 DEF Clear, Fewer
  <2> QED
    BY <2>2, <2>3, EmptyBox
<1>3. PICK d \in Datagram : d.type = "PKT" /\ send_packet(net, c, k, d)
  <2>1. Head(q).id \in Nat
    BY SentQueue
  <2>2. Pkt(num, Head(q).id) \in Datagram /\ Pkt(num, Head(q).id).type = "PKT"
    BY <2>1 DEF Pkt, Datagram, Number
  <2> QED
    BY <2>2 DEF send_message_to_contact
<1>4. PICK r : r = [q EXCEPT ![1].attempts = @ + 1]
  OBVIOUS
<1>5. queue'[c][k] = r /\ QueueOnly(c, k)
  BY <1>1, <1>4, QueueOfSent DEF send_message_to_contact, Queues
<1>6. Traffic(net, c, k, "PKT") /\ BoxOnly(net, k, c)
  BY <1>1, <1>3, SentTraffic, SentBoxes
<1>7. Traffic(inbox, c, k, "PKT")
  BY <1>1, <1>6, TakenTraffic
<1>8. /\ losses' <= MaxLoss
      /\ \/ losses' = losses /\ Has(inbox'[k][c], "PKT")
         \/ losses' = losses + 1
  BY <1>1, <1>2, <1>3, SentOrLost
<1>9. Tried(c, k)'
  <2>1. r[1].attempts = q[1].attempts + 1 /\ q[1].attempts \in Nat
    BY <1>4, AttemptCounted
  <2>2. r[1].attempts <= losses + 1
    BY <1>1, <2>1
  <2>3. CASE losses' = losses /\ Has(inbox'[k][c], "PKT")
    BY <1>5, <2>2, <2>3 DEF Tried, Flying
  <2>4. CASE losses' = losses + 1
    <3>1. r[1].attempts <= losses'
      BY <2>2, <2>4
    <3> QED
      BY <1>5, <3>1 DEF Tried
  <2> QED
    BY <1>8, <2>3, <2>4
<1>10. Between(c, k)
  <2>1. \A a, b \in Client : {a, b} \cap {c, k} = {} => inbox'[a][b] = inbox[a][b]
    BY <1>6, HandedApart
  <2> QED
    BY <1>1, <1>5, <1>7, <2>1, CalmBetween
<1>11. losses' \in {losses, losses + 1} /\ losses' <= MaxLoss
  BY <1>8
<1> QED
  BY <1>9, <1>10, <1>11, TeamGoesOn

\* c answers the packet of k, which was the whole exchange.
LEMMA TeamAnswers ==
  ASSUME Team, TeamInv, IInv, NEW c \in Client, NEW k \in Client, Writes(k, c), Calm(c),
         NEW net, Handed(net, c, k), NEW d, Answers(net, c, k, d)
  PROVE  TeamInv'
<1>1. /\ c # k /\ ~ Writes(c, k) /\ losses \in Nat /\ net \in Inboxes
      /\ \A a, b \in Client : Taken(net[a][b], inbox[a][b])
      /\ UNCHANGED queue
  BY TypeParts DEF Team, IInv, RestTypeOK, Handed, Answers
<1>2. net[k][c] = <<>>
  <2>1. ~ Has(inbox[k][c], "PKT")
    BY <1>1 DEF TeamInv, TeamPair, Idle, Flying
  <2>2. net[k][c] \in Seq(Datagram) /\ Fewer(net[k][c], inbox[k][c], "PKT")
    BY <1>1, PairTypes, FewerTaken
  <2>3. ~ Has(net[k][c], "PKT") /\ ~ Has(net[k][c], "ACK")
    BY <2>1, <2>2 DEF Answers, Clear, Fewer
  <2> QED
    BY <2>2, <2>3, EmptyBox
<1>3. PICK e \in Datagram : e.type = "ACK" /\ send_packet(net, c, k, e)
  <2>1. d.num \in {0, 1}
    BY DEF Answers, Datagram
  <2>2. Ack(d.num) \in Datagram /\ Ack(d.num).type = "ACK"
    BY <2>1 DEF Ack, Datagram
  <2> QED
    BY <2>2 DEF Answers, AcceptPkt
<1>4. Traffic(inbox, c, k, "ACK") /\ BoxOnly(net, k, c)
  <2>1. Traffic(net, c, k, "ACK") /\ BoxOnly(net, k, c)
    BY <1>1, <1>3, SentTraffic, SentBoxes
  <2> QED
    BY <1>1, <2>1, TakenTraffic
<1>5. /\ losses' <= MaxLoss
      /\ \/ losses' = losses /\ Has(inbox'[k][c], "ACK")
         \/ losses' = losses + 1
  BY <1>1, <1>2, <1>3, SentOrLost
<1>6. Tried(k, c)'
  <2> SUFFICES ASSUME queue[k][c] # <<>>
               PROVE  \/ queue[k][c][1].attempts <= losses'
                      \/ Flying(k, c)' /\ queue[k][c][1].attempts <= losses' + 1
    BY <1>1 DEF Tried
  <2>1. PICK n \in Nat : n = queue[k][c][1].attempts
    BY HeadAttempts
  <2>2. n <= losses + 1
    <3>1. n <= losses \/ n <= losses + 1
      BY <2>1 DEF TeamInv, TeamPair, Tried
    <3> QED
      BY <1>1, <3>1
  <2>3. CASE losses' = losses /\ Has(inbox'[k][c], "ACK")
    BY <2>1, <2>2, <2>3 DEF Flying
  <2>4. CASE losses' = losses + 1
    BY <2>1, <2>2, <2>4
  <2> QED
    BY <1>5, <2>3, <2>4
<1>7. Between(k, c)
  <2>1. \A a, b \in Client : {a, b} \cap {c, k} = {} => inbox'[a][b] = inbox[a][b]
    BY <1>4, HandedApart
  <2>2. QueueOnly(c, k)
    BY <1>1 DEF QueueOnly
  <2> QED
    BY <1>1, <1>4, <2>1, <2>2, CalmBetween
<1>8. losses' \in {losses, losses + 1} /\ losses' <= MaxLoss
  BY <1>5
<1> QED
  BY <1>6, <1>7, <1>8, TeamGoesOn

-----------------------------------------------------------------------------
(* The steps of a team, one by one.                                        *)

LEMMA CalmLoop ==
  ASSUME IInv, NEW c \in Client, NEW p \in {"loop", "resend", "input"},
         pc' = [pc EXCEPT ![c] = p],
         UNCHANGED lookup \/ lookup' = [lookup EXCEPT ![c] = NoLookup]
  PROVE  Calm(c)
  BY Loop DEF Calm

LEMMA QuietTeam ==
  ASSUME TeamInv, IInv, NEW c \in Client, NEW k \in Client,
         \/ SelectStep(c) \/ RejectInput(c) \/ Block(c, k) \/ Unblock(c, k)
  PROVE  TeamInv'
<1>1. UNCHANGED <<lookup, queue, inbox, losses>>
  BY DEF SelectStep, Select, RejectInput, Block, Unblock, contactVars, netVars
<1>2. PICK p \in {"loop", "resend", "input"} : pc' = [pc EXCEPT ![c] = p]
  BY DEF SelectStep, Select, RejectInput, Block, Unblock, EndIteration, Phase
<1>3. Calm(c)
  BY <1>1, <1>2, CalmLoop
<1>4. \A d \in Client : Alive(d)'
  BY <1>3 DEF Calm, TeamInv, Alive
<1>5. \A s, r \in Client : (Looked(r, s)' <=> Looked(r, s)) /\ (Asks(s, r)' => Asks(s, r))
  BY <1>1, <1>3, CalmLooks DEF Looked
<1> QED
  BY <1>1, <1>4, <1>5, TeamStays

\* c begins to look up its partner.
LEMMA TeamLooks ==
  ASSUME Team, TeamInv, IInv, NEW c \in Client, NEW k \in Client, Writes(c, k),
         NEW why \in {"send", "resend"}, NEW n, StartLookup(c, why, k, 0, n),
         UNCHANGED <<queue, inbox, losses>>
  PROVE  TeamInv'
<1>1. /\ pc' = [pc EXCEPT ![c] = "lookup"]
      /\ lookup' = [lookup EXCEPT ![c] = [why |-> why, nick |-> k, num |-> 0, id |-> n]]
  BY DEF StartLookup
<1>2. /\ \A d \in Client : d # c => pc'[d] = pc[d] /\ lookup'[d] = lookup[d]
      /\ pc'[c] = "lookup" /\ lookup'[c].why = why /\ lookup'[c].nick = k
  BY <1>1, Loop
<1>3. \A p, t \in Client : Looked(t, p)' => Looked(t, p)
  BY <1>2 DEF Looked
<1>4. \A p, t \in Client : t # c => (Looked(t, p)' <=> Looked(t, p))
  BY <1>2 DEF Looked
<1>5. \A p, t \in Client : p # c \/ t # k => (Asks(p, t)' => Asks(p, t))
  BY <1>2 DEF Asks, InLookup
<1>6. \A p, t \in Client : t # c => (Flying(p, t)' <=> Flying(p, t))
  BY <1>4 DEF Flying
<1>7. \A d \in Client : Alive(d)'
  BY <1>2 DEF TeamInv, Alive
<1>8. Between(c, k)
  <2>1. \A p, t \in Client : NoNewFlight(p, t)
    BY <1>3 DEF NoNewFlight, Fewer
  <2>2. ASSUME NEW p \in Client, NEW t \in Client, {p, t} \cap {c, k} = {}, Flying(p, t)
        PROVE  Flying(p, t)'
    <3>1. t # c
      BY <2>2
    <3> QED
      BY <1>6, <2>2, <3>1
  <2> QED
    BY <1>5, <1>7, <2>1, <2>2 DEF Between
<1>9. Tried(c, k)'
  <2>1. k # c /\ Tried(c, k)
    BY DEF Team, TeamInv, TeamPair
  <2> QED
    BY <1>6, <2>1 DEF Tried
<1>10. losses' \in {losses, losses + 1} /\ losses' <= MaxLoss
  BY DEF TeamInv
<1> QED
  BY <1>8, <1>9, <1>10, TeamGoesOn

LEMMA TeamTypesToStranger ==
  ASSUME Team, TeamInv, IInv, NEW c \in Client, NEW k \in Client, TypeToStranger(c, k)
  PROVE  TeamInv'
<1>1. Writes(c, k) /\ StartLookup(c, "send", k, 0, typed[c][k] + 1)
      /\ UNCHANGED <<queue, inbox, losses>>
  BY DEF TypeToStranger, Typing, Writes, contactVars, netVars
<1> QED
  BY <1>1, TeamLooks

LEMMA TeamLooksAgain ==
  ASSUME Team, TeamInv, PatientInv, IInv, NEW c \in Client, NEW k \in Client,
         LookupAgain(c, k)
  PROVE  TeamInv'
<1>1. k \in due[c] /\ StartLookup(c, "resend", k, 0, 0) /\ UNCHANGED <<queue, inbox, losses>>
  BY DEF LookupAgain, AtContact, contactVars, netVars
<1>2. Writes(c, k)
  BY <1>1, DueTried
<1> QED
  BY <1>1, <1>2, TeamLooks

\* A packet is read, and its sender looked up: it is in the recipient's hands.
LEMMA TeamHears ==
  ASSUME Team, TeamInv, IInv, NEW c \in Client, NEW k \in Client,
         ReceivePktFromStranger(c, k)
  PROVE  TeamInv'
<1>1. PICK n, m : StartLookup(c, "receive", k, n, m)
  BY DEF ReceivePktFromStranger
<1>2. /\ inbox[c][k] # <<>> /\ Next_is(c, k, "PKT") /\ inbox' = Received(c, k)
      /\ UNCHANGED <<queue, losses>>
  BY DEF ReceivePktFromStranger, Next_is, contactVars
<1>3. Writes(k, c)
  BY <1>2, HeadFlies, WhoWrites
<1>4. /\ pc' = [pc EXCEPT ![c] = "lookup"]
      /\ lookup' = [lookup EXCEPT ![c] = [why |-> "receive", nick |-> k, num |-> n, id |-> m]]
  BY <1>1 DEF StartLookup
<1>5. /\ \A d \in Client : d # c => pc'[d] = pc[d] /\ lookup'[d] = lookup[d]
      /\ pc'[c] = "lookup" /\ lookup'[c].why = "receive" /\ lookup'[c].nick = k
  BY <1>4, Loop
<1>6. \A p, t \in Client : p # k \/ t # c => (Looked(t, p)' => Looked(t, p))
  BY <1>5 DEF Looked
<1>7. \A p, t \in Client : t # c => (Looked(t, p)' <=> Looked(t, p))
  BY <1>5 DEF Looked
<1>8. \A p, t \in Client : Asks(p, t)' => Asks(p, t)
  BY <1>5 DEF Asks, InLookup
<1>9. \A d \in Client : Alive(d)'
  BY <1>5 DEF TeamInv, Alive
<1>10. \A a, b \in Client : /\ Taken(inbox'[a][b], inbox[a][b])
                            /\ a # c => inbox'[a][b] = inbox[a][b]
  BY <1>2, TakenOff
<1>11. Between(k, c)
  <2>1. ASSUME NEW p \in Client, NEW t \in Client, p # k \/ t # c
        PROVE  NoNewFlight(p, t)
    <3>1. Fewer(inbox'[t][p], inbox[t][p], "PKT") /\ Fewer(inbox'[p][t], inbox[p][t], "ACK")
      BY <1>10, PairTypes, FewerTaken
    <3> QED
      BY <1>6, <2>1, <3>1 DEF NoNewFlight
  <2>2. ASSUME NEW p \in Client, NEW t \in Client, {p, t} \cap {k, c} = {}, Flying(p, t)
        PROVE  Flying(p, t)'
    <3>1. t # c /\ p # c
      BY <2>2
    <3>2. inbox'[t][p] = inbox[t][p] /\ inbox'[p][t] = inbox[p][t]
      BY <1>10, <3>1
    <3> QED
      BY <1>7, <2>2, <3>1, <3>2 DEF Flying
  <2>3. \A p, t \in Client : queue'[p][t] = queue[p][t]
    BY <1>2
  <2> QED
    BY <1>8, <1>9, <2>1, <2>2, <2>3 DEF Between
<1>12. Tried(k, c)'
  <2>1. Flying(k, c)'
    BY <1>5 DEF Flying, Looked
  <2> SUFFICES ASSUME queue[k][c] # <<>>
               PROVE  queue[k][c][1].attempts <= losses + 1
    BY <1>2, <2>1 DEF Tried
  <2>2. PICK n1 \in Nat, l \in Nat : n1 = queue[k][c][1].attempts /\ l = losses
    BY HeadAttempts, TypeParts DEF IInv, RestTypeOK
  <2>3. n1 <= l \/ n1 <= l + 1
    BY <1>3, <2>2 DEF TeamInv, TeamPair, Tried
  <2>4. n1 <= l + 1
    BY <2>3
  <2> QED
    BY <2>2, <2>4
<1>13. losses' \in {losses, losses + 1} /\ losses' <= MaxLoss
  BY <1>2 DEF TeamInv
<1> QED
  BY <1>3, <1>11, <1>12, <1>13, TeamGoesOn

\* The oldest message is sent again when its timer has expired.
LEMMA TeamSendsAgain ==
  ASSUME Team, TeamInv, PatientInv, IInv, NEW c \in Client, NEW k \in Client,
         k \in due[c], Calm(c),
         send_message_to_contact(inbox, c, k, queue[c][k], last_pkt_sent[c][k])
  PROVE  TeamInv'
<1>1. /\ inbox \in Inboxes /\ queue[c][k] \in Seq(Message) /\ last_pkt_sent[c][k] \in Number
  BY PairTypes, TypeParts DEF IInv, RestTypeOK, Number
<1>2. /\ queue[c][k] # <<>> /\ Writes(c, k) /\ ~ Flying(c, k)
      /\ queue[c][k][1].attempts <= losses
  BY DueTried
<1>3. Handed(inbox, c, k) /\ Clear(inbox, c, k)
  BY <1>1, <1>2 DEF Handed, Taken, Clear, Flying
<1>4. PICK q \in Seq(Message), num \in Number :
        q = queue[c][k] /\ num = last_pkt_sent[c][k]
  BY <1>1
<1>5. PICK net : net = inbox
  OBVIOUS
<1>6. /\ q # <<>> /\ q[1].attempts <= losses /\ Handed(net, c, k) /\ Clear(net, c, k)
      /\ send_message_to_contact(net, c, k, q, num)
  BY <1>2, <1>3, <1>4, <1>5
<1> QED
  BY <1>2, <1>6, TeamSends

LEMMA TeamResends ==
  ASSUME Team, TeamInv, PatientInv, IInv, NEW c \in Client, NEW k \in Client,
         Resend(c, k)
  PROVE  TeamInv'
<1>1. /\ k \in due[c] /\ UNCHANGED lookup
      /\ send_message_to_contact(inbox, c, k, queue[c][k], last_pkt_sent[c][k])
  BY DEF Resend, AtContact
<1>2. PICK p \in {"loop", "resend", "input"} : pc' = [pc EXCEPT ![c] = p]
  BY DEF Resend, Visited, Phase
<1>3. Calm(c)
  BY <1>1, <1>2, CalmLoop
<1> QED
  BY <1>1, <1>3, TeamSendsAgain

LEMMA TeamFindsForResend ==
  ASSUME Team, TeamInv, PatientInv, IInv, NEW c \in Client, FoundForResend(c)
  PROVE  TeamInv'
<1>1. PICK k \in Client : k = lookup[c].nick /\ k \in due[c]
  BY DEF FoundForResend, InLookup, IInv, LoopInv, InLoop, Lookup
<1>2. /\ lookup' = [lookup EXCEPT ![c] = NoLookup]
      /\ send_message_to_contact(inbox, c, k, queue[c][k], last_pkt_sent[c][k])
  BY <1>1 DEF FoundForResend, ResumeResend
<1>3. PICK p \in {"loop", "resend", "input"} : pc' = [pc EXCEPT ![c] = p]
  BY DEF FoundForResend, ResumeResend, Visited, Phase
<1>4. Calm(c)
  BY <1>2, <1>3, CalmLoop
<1> QED
  BY <1>1, <1>2, <1>4, TeamSendsAgain

\* The next message is sent, no exchange being under way.
LEMMA TeamSendsNext ==
  ASSUME Team, TeamInv, IInv, NEW c \in Client, NEW k \in Client, Writes(c, k), Calm(c),
         NEW net, Handed(net, c, k), Clear(net, c, k),
         NEW q \in Seq(Message), q # <<>> => q[1].attempts = 0,
         send_next_message_to_contact(net, c, k, q)
  PROVE  TeamInv'
<1>1. /\ c # k /\ queue \in Queues /\ last_pkt_sent \in Sent /\ losses \in Nat
      /\ net \in Inboxes
      /\ \A a, b \in Client : Taken(net[a][b], inbox[a][b])
  BY TypeParts DEF Team, IInv, RestTypeOK, Handed
<1>2. CASE q = <<>>
  <2>1. inbox' = net /\ UNCHANGED losses /\ queue' = [queue EXCEPT ![c][k] = q]
    BY <1>2 DEF send_next_message_to_contact
  <2>2. QueueOnly(c, k)
    BY QueueOfNext
  <2>3. Traffic(inbox, c, k, "PKT")
    BY <1>1, NextTraffic, TakenTraffic
  <2>4. BoxOnly(net, k, c)
    BY <2>1 DEF BoxOnly
  <2>5. \A a, b \in Client : {a, b} \cap {c, k} = {} => inbox'[a][b] = inbox[a][b]
    BY <2>4, HandedApart
  <2>6. Between(c, k)
    BY <1>1, <2>2, <2>3, <2>5, CalmBetween
  <2>7. queue'[c][k] = <<>>
    BY <1>1, <1>2, <2>1 DEF Queues
  <2>8. Tried(c, k)'
    BY <2>7 DEF Tried
  <2>9. losses' \in {losses, losses + 1} /\ losses' <= MaxLoss
    BY <2>1 DEF TeamInv
  <2> QED
    BY <2>6, <2>8, <2>9, TeamGoesOn
<1>3. CASE q # <<>>
  <2>1. PICK num \in Number : num = 1 - last_pkt_sent[c][k]
    <3>1. last_pkt_sent[c][k] \in {0, 1}
      BY <1>1 DEF Sent
    <3> QED
      BY <3>1 DEF Number
  <2>2. send_message_to_contact(net, c, k, q, num)
    BY <1>3, <2>1 DEF send_next_message_to_contact
  <2>3. q[1].attempts <= losses
    BY <1>1, <1>3
  <2> QED
    BY <1>3, <2>2, <2>3, TeamSends
<1> QED
  BY <1>2, <1>3

LEMMA TeamQueues ==
  ASSUME Team, TeamInv, PatientInv, IInv, NEW c \in Client, NEW k \in Client,
         Writes(c, k), Calm(c), NEW n \in Nat, QueueMessage(c, k, n)
  PROVE  TeamInv'
<1> DEFINE q == Append(queue[c][k], NewMessage(n))
<1>1. /\ inbox \in Inboxes /\ queue \in Queues /\ queue[c][k] \in Seq(Message) /\ c # k
  <2>1. c # k
    BY DEF Team
  <2>2. queue[c][k] \in Seq(Message)
    BY PairTypes
  <2>3. inbox \in Inboxes /\ queue \in Queues
    BY TypeParts DEF IInv, RestTypeOK
  <2> QED
    BY <2>1, <2>2, <2>3
<1>2. q \in Seq(Message) /\ q # <<>>
  <2>1. queue[c][k] \in Seq(Message)
    BY <1>1
  <2> QED
    BY <2>1, LongerQueue
<1>3. CASE queue[c][k] = <<>>
  <2>1. q = <<NewMessage(n)>>
    BY <1>3
  <2>2. send_next_message_to_contact(inbox, c, k, q)
    BY <1>3, <2>1 DEF QueueMessage
  <2>3. q[1].attempts = 0
    BY <2>1 DEF NewMessage
  <2>4. Handed(inbox, c, k) /\ Clear(inbox, c, k)
    <3>1. Alive(c)
      BY DEF TeamInv
    <3>2. ~ Flying(c, k)
      BY <1>3, <3>1 DEF PatientInv, PatientPair
    <3> QED
      BY <1>1, <3>2 DEF Handed, Taken, Clear, Flying
  <2> HIDE DEF q
  <2>5. PICK net : net = inbox
    OBVIOUS
  <2>6. Handed(net, c, k) /\ Clear(net, c, k) /\ send_next_message_to_contact(net, c, k, q)
    BY <2>2, <2>4, <2>5
  <2> QED
    BY <1>2, <2>3, <2>6, TeamSendsNext
<1>4. CASE queue[c][k] # <<>>
  <2>1. queue' = [queue EXCEPT ![c][k] = q] /\ UNCHANGED <<inbox, losses>>
    BY <1>4 DEF QueueMessage, netVars
  <2>2. q[1] = queue[c][k][1]
    <3>1. Len(queue[c][k]) \in Nat /\ 1 \in 1 .. Len(queue[c][k])
      BY <1>1, <1>4
    <3> QED
      BY <1>1, <3>1
  <2> HIDE DEF q
  <2>3. queue'[c][k] = q
    BY <1>1, <2>1 DEF Queues
  <2>4. QueueOnly(c, k)
    BY QueueOfQueued
  <2>5. Traffic(inbox, c, k, "PKT")
    BY <2>1 DEF Traffic, Fewer
  <2>6. Between(c, k)
    <3>1. \A a, b \in Client : {a, b} \cap {c, k} = {} => inbox'[a][b] = inbox[a][b]
      BY <2>1
    <3> QED
      BY <1>1, <2>4, <2>5, <3>1, CalmBetween
  <2>7. Tried(c, k)'
    <3>1. Flying(c, k)' <=> Flying(c, k)
      BY <1>1, <2>1, CalmLooks DEF Flying
    <3>2. Tried(c, k)
      BY DEF TeamInv, TeamPair
    <3> QED
      BY <1>4, <2>1, <2>2, <2>3, <3>1, <3>2 DEF Tried
  <2>8. losses' \in {losses, losses + 1} /\ losses' <= MaxLoss
    BY <2>1 DEF TeamInv
  <2> QED
    BY <2>6, <2>7, <2>8, TeamGoesOn
<1> QED
  BY <1>3, <1>4

LEMMA TeamTypes ==
  ASSUME Team, TeamInv, PatientInv, IInv, NEW c \in Client, NEW k \in Client,
         TypeToContact(c, k)
  PROVE  TeamInv'
<1>1. /\ Writes(c, k) /\ UNCHANGED lookup /\ pc' = [pc EXCEPT ![c] = "loop"]
      /\ QueueMessage(c, k, typed[c][k] + 1)
  BY DEF TypeToContact, Typing, Writes, EndIteration
<1>2. Calm(c)
  BY <1>1, CalmLoop
<1>3. typed[c][k] + 1 \in Nat
  BY PairTypes
<1> QED
  BY <1>1, <1>2, <1>3, TeamQueues

LEMMA TeamFindsForSend ==
  ASSUME Team, TeamInv, PatientInv, IInv, NEW c \in Client, FoundForSend(c)
  PROVE  TeamInv'
<1>1. PICK k \in Client, n \in Nat : k = lookup[c].nick /\ n = lookup[c].id
  BY DEF FoundForSend, InLookup, IInv, LoopInv, InLoop, Lookup
<1>2. /\ InLookup(c, "send") /\ QueueMessage(c, k, n)
      /\ pc' = [pc EXCEPT ![c] = "loop"] /\ lookup' = [lookup EXCEPT ![c] = NoLookup]
  BY <1>1 DEF FoundForSend, LeaveLookup, EndIteration
<1>3. Calm(c)
  BY <1>2, CalmLoop
<1>4. Writes(c, k)
  BY <1>1, <1>2, WhoWrites DEF Asks
<1> QED
  BY <1>2, <1>3, <1>4, TeamQueues

\* An acknowledgement ends the exchange; the next message begins another.
LEMMA TeamPops ==
  ASSUME Team, TeamInv, PatientInv, IInv, NEW c \in Client, NEW k \in Client,
         ReceiveAck(c, k)
  PROVE  TeamInv'
<1>1. PICK net : net = Received(c, k)
  OBVIOUS
<1>2. /\ queue[c][k] # <<>> /\ inbox[c][k] # <<>>
      /\ UNCHANGED lookup /\ pc' = [pc EXCEPT ![c] = "loop"]
      /\ send_next_message_to_contact(net, c, k, Tail(queue[c][k]))
  BY <1>1 DEF ReceiveAck, EndIteration, Next_is
<1>3. Calm(c)
  BY <1>2, CalmLoop
<1>4. Writes(c, k)
  BY <1>2, WhoWrites
<1>5. Handed(net, c, k) /\ Clear(net, c, k)
  BY <1>1, <1>2, AckTaken, TakenOff DEF Handed
<1>6. PICK q \in Seq(Message) : q = Tail(queue[c][k])
  <2>1. queue[c][k] \in Seq(Message)
    BY PairTypes
  <2>2. Tail(queue[c][k]) \in Seq(Message)
    BY <1>2, <2>1
  <2> QED
    BY <2>2
<1>8. q # <<>> => q[1].attempts = 0
  <2>1. queue[c][k] \in Seq(Message)
    BY PairTypes
  <2>2. \A i \in DOMAIN queue[c][k] : i > 1 => queue[c][k][i].attempts = 0
    BY <1>2, HeadAttempts
  <2>3. q # <<>> => 2 \in DOMAIN queue[c][k] /\ q[1] = queue[c][k][2]
    BY <1>2, <1>6, <2>1
  <2> QED
    BY <2>2, <2>3
<1>7. send_next_message_to_contact(net, c, k, q)
  BY <1>2, <1>6
<1> QED
  BY <1>3, <1>4, <1>5, <1>7, <1>8, TeamSendsNext

LEMMA TeamReceives ==
  ASSUME Team, TeamInv, ConversationInv, PatientInv, IInv,
         NEW c \in Client, NEW k \in Client, ReceivePkt(c, k)
  PROVE  TeamInv'
<1>1. PICK net, d : net = Received(c, k) /\ d = Head(inbox[c][k])
  OBVIOUS
<1>2. Answers(net, c, k, d)
  BY <1>1, ReceivePktAnswers
<1>3. /\ inbox[c][k] # <<>> /\ UNCHANGED lookup /\ pc' = [pc EXCEPT ![c] = "loop"]
  BY DEF ReceivePkt, EndIteration, Next_is
<1>4. Calm(c)
  BY <1>3, CalmLoop
<1>5. Writes(k, c)
  BY <1>2, WhoWrites DEF Answers
<1>6. Handed(net, c, k)
  BY <1>1, <1>2, <1>3, TakenOff DEF Handed, Answers
<1> QED
  BY <1>2, <1>4, <1>5, <1>6, TeamAnswers

LEMMA TeamFindsForReceive ==
  ASSUME Team, TeamInv, ConversationInv, PatientInv, IInv,
         NEW c \in Client, FoundForReceive(c)
  PROVE  TeamInv'
<1>1. PICK k, d : k \in Client /\ Answers(inbox, c, k, d)
  <2>1. PICK d : d = Pkt(lookup[c].num, lookup[c].id)
    OBVIOUS
  <2> QED
    BY <2>1, FoundForReceiveAnswers
<1>2. lookup' = [lookup EXCEPT ![c] = NoLookup] /\ pc' = [pc EXCEPT ![c] = "loop"]
  BY DEF FoundForReceive, LeaveLookup, EndIteration
<1>3. Calm(c)
  BY <1>2, CalmLoop
<1>4. Writes(k, c)
  BY <1>1, WhoWrites DEF Answers
<1>5. Handed(inbox, c, k)
  BY <1>1 DEF Handed, Answers
<1> QED
  BY <1>1, <1>3, <1>4, <1>5, TeamAnswers

LEMMA ClientStepOfTeam ==
  ASSUME Team, TeamInv, ConversationInv, PatientInv, ContactInv, IInv,
         NEW c \in Client, ClientStep(c)
  PROVE  TeamInv'
<1>1. CASE SelectStep(c)
  BY <1>1, QuietTeam
<1>2. CASE ResendStep(c)
  <2>1. ASSUME NEW k \in Client, Resend(c, k) \/ LookupAgain(c, k) \/ GiveUp(c, k)
        PROVE  TeamInv'
    BY <2>1, TeamResends, TeamLooksAgain, NoGivingUp DEF GivesUp
  <2> QED
    BY <1>2, <2>1 DEF ResendStep
<1>3. CASE StdinStep(c)
  <2>1. CASE RejectInput(c)
    BY <2>1, QuietTeam
  <2>2. ASSUME NEW k \in Client, Block(c, k) \/ Unblock(c, k)
        PROVE  TeamInv'
    BY <2>2, QuietTeam
  <2>3. ASSUME NEW k \in Client, TypeToContact(c, k) \/ TypeToStranger(c, k)
        PROVE  TeamInv'
    BY <2>3, TeamTypes, TeamTypesToStranger
  <2> QED
    BY <1>3, <2>1, <2>2, <2>3 DEF StdinStep
<1>4. CASE SocketStep(c)
  BY <1>4, TeamReceives, TeamHears, TeamPops, NoStrangerAnswers, PopEmptyQueueIsImpossible
  DEF SocketStep
<1>5. CASE \E k \in Client : LookupIgnores(c, k)
  BY <1>5, NothingIgnored
<1>6. CASE LookupEnds(c)
  <2>1. ~ NotFoundForResend(c) /\ ~ NotFoundForStranger(c) /\ ~ ServerSilent(c)
    BY DEF Team, NotFoundForResend, NotFoundForStranger, ServerSilent
  <2> QED
    BY <1>6, <2>1, TeamFindsForResend, TeamFindsForSend, TeamFindsForReceive DEF LookupEnds
<1>7. CASE Quit(c)
  BY <1>7 DEF Quit, Team
<1> QED
  BY <1>1, <1>2, <1>3, <1>4, <1>5, <1>6, <1>7 DEF ClientStep

-----------------------------------------------------------------------------
\* A team stays a team: nobody ends, and the attempts at a message never exceed the
\* datagrams lost.
LEMMA TeamHolds ==
  ASSUME Team
  PROVE  Spec => []TeamInv
<1>1. Init => TeamInv
  <2>1. ASSUME Init
        PROVE  losses <= MaxLoss
    <3>1. losses = 0 /\ MaxLoss \in Nat
      BY <2>1, ClientsAssumption DEF Init
    <3> QED
      BY <3>1
  <2>2. ASSUME Init, NEW s \in Client, NEW r \in Client
        PROVE  Alive(s) /\ TeamPair(s, r)
    <3>1. /\ inbox[r][s] = <<>> /\ inbox[s][r] = <<>> /\ queue[s][r] = <<>>
          /\ pc[s] = "loop" /\ lookup[r] = NoLookup /\ lookup[s] = NoLookup
      BY <2>2 DEF Init
    <3>2. ~ Flying(s, r) /\ ~ Asks(s, r)
      BY <3>1 DEF Flying, Has, Looked, NoLookup, Asks, InLookup
    <3> QED
      BY <3>1, <3>2 DEF Alive, TeamPair, Tried, Idle
  <2> QED
    BY <2>1, <2>2 DEF TeamInv
<1>2. IInv /\ ConversationInv /\ PatientInv /\ ContactInv /\ TeamInv /\ [Next]_vars
        => TeamInv'
  <2>1. IInv /\ ConversationInv /\ PatientInv /\ ContactInv /\ TeamInv /\ Next => TeamInv'
    BY ClientStepOfTeam DEF Next
  <2>2. TeamInv /\ UNCHANGED vars => TeamInv'
    <3> SUFFICES ASSUME TeamInv, UNCHANGED vars
                 PROVE  TeamInv'
      OBVIOUS
    <3>1. UNCHANGED <<pc, lookup, queue, inbox, losses>>
      BY DEF vars, loopVars, contactVars, netVars
    <3> QED
      BY <3>1 DEF TeamInv, TeamPair, Tried, Idle, Flying, Looked, Asks, InLookup, Alive
  <2> QED
    BY <2>1, <2>2
<1>3. Patient
  BY DEF Team
<1> QED
  BY <1>1, <1>2, <1>3, InvariantHolds, ConversationsAgree, PatienceHolds, ContactsAreListed,
     PTL
  DEF Spec

\* With a partner each, timers that wait, a server that finds every nick and fewer
\* losses than attempts (client_to_client_com.c:40), no message is given up.
THEOREM NothingGivenUp ==
  ASSUME Team
  PROVE  Spec => [][~ GivesUp]_vars
<1>1. Patient
  BY DEF Team
<1>2. TeamInv /\ PatientInv /\ IInv => ~ GivesUp
  BY NoGivingUp
<1>3. TeamInv /\ PatientInv /\ IInv /\ [Next]_vars => [~ GivesUp]_vars
  BY <1>2
<1> QED
  BY <1>1, <1>3, TeamHolds, InvariantHolds, PatienceHolds, PTL DEF Spec

\* In a team the message that an acknowledgement will pop is in its queue, and the
\* client that acknowledged has taken it: "the one that was just ACKed"
\* (client_to_client_com.h:16).
THEOREM TeamAcksItsMessages ==
  ASSUME Team
  PROVE  Spec => []AckIsForHead
<1>1. Patient
  BY DEF Team
<1> QED
  BY <1>1, NothingGivenUp, AckPopsItsMessage, PTL

-----------------------------------------------------------------------------
(* What is typed is printed, once and in order, as long as nobody ends,    *)
(* blocks or gives up and the server finds every nick.                     *)

Undisturbed == Patient /\ LookupAnswers = {"found"} /\ MayQuit = {} /\ MayBlock = {}

\* The screen shows all that was typed but what is queued or asked about; the message
\* at the head of the queue may have been printed before its acknowledgement arrives.
\* b messages have been acknowledged.
Exactly(b, q, asked, acc, seen, scr, typ) ==
  /\ \A i \in DOMAIN scr : scr[i] = i
  /\ acc = Len(scr) /\ (seen = -1 => acc = 0)
  /\ acc = b \/ (q # <<>> /\ acc = b + 1)
  /\ \A i \in DOMAIN q : q[i].id = b + i
  /\ asked = {} => typ = b + Len(q)
  /\ asked # {} => q = <<>> /\ typ = b + 1 /\ asked = {typ}

ExactPair(s, r) ==
  \E b \in Nat : Exactly(b, queue[s][r], Asked(s, r), accepted[r][s],
                         last_pkt_received[r][s], screen[r][s], typed[s][r])

ExactInv == \A s, r \in Client : ExactPair(s, r)

Present == \A c \in Client : Alive(c) /\ blocked[c] = {}

LEMMA SameLength ==
  ASSUME NEW q \in Seq(Message), NEW r \in Seq(Message), SameMessages(q, r)
  PROVE  Len(q) = Len(r) /\ (q = <<>> <=> r = <<>>)
<1>1. /\ Len(q) \in Nat /\ Len(r) \in Nat
      /\ DOMAIN q = 1 .. Len(q) /\ DOMAIN r = 1 .. Len(r)
  OBVIOUS
<1>2. 1 .. Len(q) = 1 .. Len(r)
  BY <1>1 DEF SameMessages
<1>3. ASSUME NEW m \in Nat, NEW n \in Nat, 1 .. m = 1 .. n
      PROVE  m <= n
  <2>1. CASE m = 0
    BY <2>1
  <2>2. CASE m # 0
    <3>1. m \in 1 .. m
      BY <2>2
    <3>2. m \in 1 .. n
      BY <1>3, <3>1
    <3> QED
      BY <3>2
  <2> QED
    BY <2>1, <2>2
<1>4. PICK m \in Nat, n \in Nat : m = Len(q) /\ n = Len(r)
  BY <1>1
<1>5. m <= n /\ n <= m
  BY <1>2, <1>3, <1>4
<1>6. Len(q) = Len(r)
  BY <1>4, <1>5
<1> QED
  BY <1>6

\* What the functions that send leave of a queue.
LEMMA SentQueueMessages ==
  ASSUME queue \in Queues, NEW net, NEW c \in Client, NEW k \in Client,
         NEW q \in Seq(Message), q # <<>>, NEW num,
         send_message_to_contact(net, c, k, q, num)
  PROVE  queue'[c][k] \in Seq(Message) /\ SameMessages(q, queue'[c][k])
<1>1. PICK r : r = [q EXCEPT ![1].attempts = @ + 1]
  OBVIOUS
<1>2. r \in Seq(Message) /\ SameMessages(q, r)
  BY <1>1, CountedQueue
<1>3. queue' = [queue EXCEPT ![c][k] = r]
  BY <1>1 DEF send_message_to_contact
<1>4. queue'[c][k] = r
  BY <1>3 DEF Queues
<1> QED
  BY <1>2, <1>4

LEMMA NextQueueMessages ==
  ASSUME queue \in Queues, NEW net, NEW c \in Client, NEW k \in Client,
         NEW q \in Seq(Message), send_next_message_to_contact(net, c, k, q)
  PROVE  queue'[c][k] \in Seq(Message) /\ SameMessages(q, queue'[c][k])
<1>1. CASE q = <<>>
  <2>1. queue' = [queue EXCEPT ![c][k] = q]
    BY <1>1 DEF send_next_message_to_contact
  <2>2. queue'[c][k] = q
    BY <2>1 DEF Queues
  <2> QED
    BY <2>2 DEF SameMessages
<1>2. CASE q # <<>>
  <2>1. send_message_to_contact(net, c, k, q, 1 - last_pkt_sent[c][k])
    BY <1>2 DEF send_next_message_to_contact
  <2> QED
    BY <1>2, <2>1, SentQueueMessages
<1> QED
  BY <1>1, <1>2

LEMMA QueuedMessages ==
  ASSUME queue \in Queues, NEW c \in Client, NEW k \in Client, queue[c][k] \in Seq(Message),
         NEW n \in Nat, QueueMessage(c, k, n)
  PROVE  /\ queue'[c][k] \in Seq(Message)
         /\ SameMessages(Append(queue[c][k], NewMessage(n)), queue'[c][k])
<1> DEFINE q == Append(queue[c][k], NewMessage(n))
<1>1. q \in Seq(Message)
  BY LongerQueue
<1>2. CASE queue[c][k] = <<>>
  <2>1. q = <<NewMessage(n)>>
    BY <1>2
  <2>2. send_next_message_to_contact(inbox, c, k, q)
    BY <1>2, <2>1 DEF QueueMessage
  <2> HIDE DEF q
  <2>3. queue'[c][k] \in Seq(Message) /\ SameMessages(q, queue'[c][k])
    BY <1>1, <2>2, NextQueueMessages
  <2> QED
    BY <2>3 DEF q
<1>3. CASE queue[c][k] # <<>>
  <2>1. queue' = [queue EXCEPT ![c][k] = q]
    BY <1>3 DEF QueueMessage
  <2> HIDE DEF q
  <2>2. queue'[c][k] = q
    BY <2>1 DEF Queues
  <2>3. SameMessages(q, q)
    BY DEF SameMessages
  <2>4. queue'[c][k] \in Seq(Message) /\ SameMessages(q, queue'[c][k])
    BY <1>1, <2>2, <2>3
  <2> QED
    BY <2>4 DEF q
<1> QED
  BY <1>2, <1>3

-----------------------------------------------------------------------------
(* What the protocol does to an exact conversation.                        *)

LEMMA ExactAgain ==
  ASSUME NEW b, NEW q \in Seq(Message), NEW r \in Seq(Message), SameMessages(q, r),
         NEW asked, NEW acc, NEW seen, NEW scr, NEW typ,
         Exactly(b, q, asked, acc, seen, scr, typ)
  PROVE  Exactly(b, r, asked, acc, seen, scr, typ)
<1>1. Len(q) = Len(r) /\ (q = <<>> <=> r = <<>>)
  BY SameLength
<1>2. \A i \in DOMAIN r : r[i].id = b + i
  BY DEF Exactly, SameMessages
<1> QED
  BY <1>1, <1>2 DEF Exactly

\* The next message of the conversation is queued.
LEMMA ExactQueued ==
  ASSUME NEW b \in Nat, NEW q \in Seq(Message), NEW n \in Nat, n = b + Len(q) + 1,
         NEW asked, NEW acc, NEW seen, NEW scr, NEW typ,
         Exactly(b, q, asked, acc, seen, scr, typ)
  PROVE  Exactly(b, Append(q, NewMessage(n)), {}, acc, seen, scr, n)
<1> DEFINE r == Append(q, NewMessage(n))
<1>1. NewMessage(n).id = n
  BY DEF NewMessage
<1>2. /\ Len(q) \in Nat /\ DOMAIN q = 1 .. Len(q) /\ DOMAIN r = 1 .. (Len(q) + 1)
      /\ Len(r) = Len(q) + 1
      /\ \A i \in DOMAIN q : r[i] = q[i]
      /\ r[Len(q) + 1] = NewMessage(n)
      /\ r # <<>>
  <2>1. NewMessage(n) \in Message
    BY DEF NewMessage, Message
  <2> QED
    BY <2>1
<1> HIDE DEF r
<1>3. ASSUME NEW i \in DOMAIN r
      PROVE  r[i].id = b + i
  <2>1. CASE i \in DOMAIN q
    BY <1>2, <2>1 DEF Exactly
  <2>2. CASE i = Len(q) + 1
    BY <1>1, <1>2, <2>2
  <2> QED
    BY <1>2, <2>1, <2>2
<1>4. n = b + Len(r)
  BY <1>2
<1> QED
  BY <1>2, <1>3, <1>4 DEF Exactly, r

\* The message at the head is acknowledged.
LEMMA ExactPopped ==
  ASSUME NEW b \in Nat, NEW q \in Seq(Message), q # <<>>,
         NEW asked, NEW acc, acc = q[1].id, NEW seen, NEW scr, NEW typ,
         Exactly(b, q, asked, acc, seen, scr, typ)
  PROVE  Exactly(b + 1, Tail(q), {}, acc, seen, scr, typ)
<1> DEFINE r == Tail(q)
<1>1. /\ Len(q) \in Nat /\ Len(q) >= 1 /\ Len(r) = Len(q) - 1 /\ 1 \in DOMAIN q
      /\ \A i \in DOMAIN r : i \in Nat /\ i + 1 \in DOMAIN q /\ r[i] = q[i + 1]
  OBVIOUS
<1> HIDE DEF r
<1>2. acc = b + 1
  BY <1>1 DEF Exactly
<1>3. ASSUME NEW i \in DOMAIN r
      PROVE  r[i].id = (b + 1) + i
  <2>1. r[i].id = b + (i + 1)
    BY <1>1 DEF Exactly
  <2> QED
    BY <1>1, <2>1
<1>4. typ = (b + 1) + Len(r)
  <2>1. typ = b + Len(q)
    BY DEF Exactly
  <2> QED
    BY <1>1, <2>1
<1> QED
  BY <1>2, <1>3, <1>4 DEF Exactly, r

\* The message at the head is new to its recipient, and is printed.
LEMMA ExactHeard ==
  ASSUME NEW b \in Nat, NEW q \in Seq(Message), q # <<>>, NEW asked, NEW acc,
         NEW seen, NEW scr \in Seq(Nat), NEW typ,
         Exactly(b, q, asked, acc, seen, scr, typ),
         seen # -1 => q[1].id # acc, NEW num \in {0, 1}
  PROVE  Exactly(b, q, asked, q[1].id, num, Append(scr, q[1].id), typ)
<1>1. q[1].id = b + 1
  <2>1. 1 \in DOMAIN q
    OBVIOUS
  <2> QED
    BY <2>1 DEF Exactly
<1>2. acc = b
  BY <1>1 DEF Exactly
<1>3. PICK n \in Nat : n = q[1].id
  BY <1>1
<1> DEFINE t == Append(scr, n)
<1>4. /\ Len(t) = Len(scr) + 1
      /\ DOMAIN scr = 1 .. Len(scr) /\ DOMAIN t = 1 .. (Len(scr) + 1)
      /\ \A i \in DOMAIN scr : t[i] = scr[i]
      /\ t[Len(scr) + 1] = n
  OBVIOUS
<1>5. Len(scr) = b
  BY <1>2 DEF Exactly
<1> HIDE DEF t
<1>6. /\ Len(t) = Len(scr) + 1 /\ Len(scr) = b
      /\ DOMAIN scr = 1 .. Len(scr) /\ DOMAIN t = 1 .. (Len(scr) + 1)
      /\ \A i \in DOMAIN scr : t[i] = scr[i]
      /\ t[Len(scr) + 1] = n
  BY <1>4, <1>5
<1>7. ASSUME NEW i \in DOMAIN t
      PROVE  t[i] = i
  <2>1. CASE i \in DOMAIN scr
    BY <1>6, <2>1 DEF Exactly
  <2>2. CASE i = Len(scr) + 1
    BY <1>1, <1>3, <1>6, <2>2
  <2> QED
    BY <1>6, <2>1, <2>2
<1>8. q[1].id = Len(t)
  BY <1>1, <1>6
<1>9. num # -1
  OBVIOUS
<1> QED
  BY <1>1, <1>3, <1>7, <1>8, <1>9 DEF Exactly, t

-----------------------------------------------------------------------------
(* The steps and the exact conversations.                                  *)

\* Nobody ends, and nobody is blocked.
LEMMA StaysPresent ==
  ASSUME Undisturbed, IInv, PatientInv, Present, NEW c \in Client, ClientStep(c)
  PROVE  Present'
<1> SUFFICES ASSUME /\ \E p \in {"loop", "resend", "input", "lookup"} :
                         pc' = [pc EXCEPT ![c] = p]
                    /\ UNCHANGED blocked
             PROVE  Present'
  <2>1. ASSUME UNCHANGED <<pc, blocked>>
        PROVE  Present'
    BY <2>1 DEF Present, Alive
  <2>2. \/ \E p \in {"loop", "resend", "input", "lookup"} :
             pc' = [pc EXCEPT ![c] = p] /\ UNCHANGED blocked
        \/ UNCHANGED <<pc, blocked>>
    <3>1. CASE SelectStep(c)
      BY <3>1 DEF SelectStep, Select, Phase
    <3>2. CASE ResendStep(c)
      <4>1. ASSUME NEW k \in Client, Resend(c, k) \/ GiveUp(c, k)
            PROVE  Visited(c, k) /\ UNCHANGED blocked
        BY <4>1 DEF Resend, GiveUp
      <4>2. ASSUME NEW k \in Client, LookupAgain(c, k)
            PROVE  pc' = [pc EXCEPT ![c] = "lookup"] /\ UNCHANGED blocked
        BY <4>2 DEF LookupAgain, StartLookup
      <4> QED
        BY <3>2, <4>1, <4>2 DEF ResendStep, Visited, Phase
    <3>3. CASE StdinStep(c)
      <4>1. \A k \in Client : ~ Block(c, k) /\ ~ Unblock(c, k)
        BY DEF Block, Unblock, Undisturbed
      <4>2. CASE RejectInput(c)
        BY <4>2 DEF RejectInput, EndIteration
      <4>3. ASSUME NEW k \in Client, TypeToContact(c, k)
            PROVE  pc' = [pc EXCEPT ![c] = "loop"] /\ UNCHANGED blocked
        BY <4>3 DEF TypeToContact, Typing, EndIteration
      <4>4. ASSUME NEW k \in Client, TypeToStranger(c, k)
            PROVE  pc' = [pc EXCEPT ![c] = "lookup"] /\ UNCHANGED blocked
        BY <4>4 DEF TypeToStranger, Typing, StartLookup
      <4> QED
        BY <3>3, <4>1, <4>2, <4>3, <4>4 DEF StdinStep
    <3>4. CASE SocketStep(c)
      <4>1. ASSUME NEW k \in Client,
                   ReceivePkt(c, k) \/ ReceiveAck(c, k) \/ ReceiveAckFromStranger(c, k)
            PROVE  pc' = [pc EXCEPT ![c] = "loop"] /\ UNCHANGED blocked
        BY <4>1 DEF ReceivePkt, ReceiveAck, ReceiveAckFromStranger, EndIteration
      <4>2. ASSUME NEW k \in Client, ReceivePktFromStranger(c, k)
            PROVE  pc' = [pc EXCEPT ![c] = "lookup"] /\ UNCHANGED blocked
        BY <4>2 DEF ReceivePktFromStranger, StartLookup
      <4> QED
        BY <3>4, <4>1, <4>2, PopEmptyQueueIsImpossible DEF SocketStep
    <3>5. CASE \E k \in Client : LookupIgnores(c, k)
      BY <3>5 DEF LookupIgnores, loopVars
    <3>6. CASE LookupEnds(c)
      <4>1. ASSUME FoundForResend(c) \/ NotFoundForResend(c)
            PROVE  ResumeResend(c) /\ UNCHANGED blocked
        BY <4>1 DEF FoundForResend, NotFoundForResend
      <4>2. ASSUME FoundForSend(c) \/ FoundForReceive(c) \/ NotFoundForStranger(c)
            PROVE  LeaveLookup(c) /\ UNCHANGED blocked
        BY <4>2 DEF FoundForSend, FoundForReceive, NotFoundForStranger
      <4>3. ~ ServerSilent(c)
        BY DEF ServerSilent, Undisturbed
      <4> QED
        BY <3>6, <4>1, <4>2, <4>3
        DEF LookupEnds, ResumeResend, Visited, Phase, LeaveLookup, EndIteration
    <3>7. ~ Quit(c)
      BY DEF Quit, Undisturbed
    <3> QED
      BY <3>1, <3>2, <3>3, <3>4, <3>5, <3>6, <3>7 DEF ClientStep
  <2> QED
    BY <2>1, <2>2
<1> QED
  BY Loop DEF Present, Alive

\* A conversation that a step leaves alone.
LEMMA ExactStill ==
  ASSUME NEW s \in Client, NEW r \in Client, ExactPair(s, r),
         queue'[s][r] = queue[s][r], typed'[s][r] = typed[s][r],
         Asked(s, r)' = Asked(s, r), SameRecipient(r, s)
  PROVE  ExactPair(s, r)'
<1>1. PICK b \in Nat : Exactly(b, queue[s][r], Asked(s, r), accepted[r][s],
                               last_pkt_received[r][s], screen[r][s], typed[s][r])
  BY DEF ExactPair
<1>2. Exactly(b, queue'[s][r], Asked(s, r)', accepted'[r][s],
              last_pkt_received'[r][s], screen'[r][s], typed'[s][r])
  BY <1>1 DEF SameRecipient
<1> QED
  BY <1>2 DEF ExactPair

\* What is asked about by a client that begins no lookup.
LEMMA SameAsked ==
  ASSUME NEW c \in Client, NoNewLookup(c), NEW s \in Client, NEW r \in Client,
         s = c => Asked(c, r) = {}
  PROVE  Asked(s, r)' = Asked(s, r)
<1>1. CASE s = c
  BY <1>1, LessHeld
<1>2. CASE s # c
  BY <1>2 DEF NoNewLookup, Asked, InLookup
<1> QED
  BY <1>1, <1>2

LEMMA QuietIsExact ==
  ASSUME ExactInv, \A s, r \in Client : Asked(s, r)' = Asked(s, r),
         UNCHANGED <<queue, typed, accepted, last_pkt_received, screen, recordStart>>
  PROVE  ExactInv'
<1> SUFFICES ASSUME NEW s \in Client, NEW r \in Client
             PROVE  ExactPair(s, r)'
  BY DEF ExactInv
<1> QED
  BY ExactStill DEF ExactInv, SameRecipient

LEMMA WriterIsExact ==
  ASSUME ExactInv, NEW c \in Client, NEW k \in Client, NEW net, WritesTo(net, c, k),
         \A r \in Client : r # k => Asked(c, r) = {},
         ExactPair(c, k)'
  PROVE  ExactInv'
<1> SUFFICES ASSUME NEW s \in Client, NEW r \in Client, s # c \/ r # k
             PROVE  ExactPair(s, r)'
  BY DEF ExactInv
<1>1. queue'[s][r] = queue[s][r] /\ typed'[s][r] = typed[s][r] /\ SameRecipient(r, s)
  BY DEF WritesTo, OnlyWritesTo, SameRecipient
<1>2. Asked(s, r)' = Asked(s, r)
  BY SameAsked DEF WritesTo
<1> QED
  BY <1>1, <1>2, ExactStill DEF ExactInv

LEMMA QuietStepIsExact ==
  ASSUME IInv, ExactInv, NEW c \in Client,
         \/ SelectStep(c) \/ RejectInput(c)
         \/ \E k \in Client :
              \/ LookupAgain(c, k) \/ ReceivePktFromStranger(c, k)
              \/ ReceiveAckFromStranger(c, k) \/ LookupIgnores(c, k)
  PROVE  ExactInv'
<1>1. UNCHANGED <<queue, typed, accepted, last_pkt_received, screen, recordStart>>
  BY DEF SelectStep, Select, RejectInput, LookupAgain, ReceivePktFromStranger,
         ReceiveAckFromStranger, LookupIgnores, contactVars, displayVars
<1>2. CASE SelectStep(c) \/ RejectInput(c) \/ \E k \in Client : ReceiveAckFromStranger(c, k)
  <2>1. pc[c] # "lookup" /\ NoNewLookup(c)
    BY <1>2, Loop
    DEF SelectStep, Select, Phase, RejectInput, ReceiveAckFromStranger, AtStdin, AtSocket,
        EndIteration, NoNewLookup
  <2>2. \A r \in Client : Asked(c, r) = {}
    BY <2>1 DEF Asked, InLookup
  <2> QED
    BY <1>1, <2>1, <2>2, SameAsked, QuietIsExact
<1>3. ASSUME NEW k \in Client, LookupAgain(c, k) \/ ReceivePktFromStranger(c, k)
      PROVE  ExactInv'
  <2>1. PICK why, num, id :
          why \in {"resend", "receive"} /\ StartLookup(c, why, k, num, id)
    BY <1>3 DEF LookupAgain, ReceivePktFromStranger
  <2>2. pc[c] # "lookup"
    BY <1>3 DEF LookupAgain, ReceivePktFromStranger, AtContact, AtSocket
  <2>3. /\ pc' = [pc EXCEPT ![c] = "lookup"]
        /\ lookup' = [lookup EXCEPT ![c] = [why |-> why, nick |-> k, num |-> num, id |-> id]]
    BY <2>1 DEF StartLookup
  <2>4. /\ \A d \in Client : d # c => pc'[d] = pc[d] /\ lookup'[d] = lookup[d]
        /\ lookup'[c].why # "send"
    BY <2>1, <2>3, Loop
  <2>5. \A s, r \in Client : Asked(s, r)' = Asked(s, r)
    BY <2>2, <2>4 DEF Asked, InLookup
  <2> QED
    BY <1>1, <2>5, QuietIsExact
<1>4. ASSUME NEW k \in Client, LookupIgnores(c, k)
      PROVE  ExactInv'
  <2>1. \A s, r \in Client : Asked(s, r)' = Asked(s, r)
    BY <1>4 DEF LookupIgnores, loopVars, Asked, InLookup
  <2> QED
    BY <1>1, <2>1, QuietIsExact
<1> QED
  BY <1>2, <1>3, <1>4

\* A message is queued: the next of the conversation.
LEMMA QueuedIsExact ==
  ASSUME IInv, ExactInv, NEW c \in Client, NEW k \in Client, NEW n \in Nat,
         WritesTo(inbox, c, k), QueueMessage(c, k, n), typed'[c][k] = n,
         \A r \in Client : r # k => Asked(c, r) = {},
         Asked(c, k)' = {},
         Asked(c, k) = {} => n = typed[c][k] + 1, Asked(c, k) # {} => n = typed[c][k]
  PROVE  ExactInv'
<1>1. PICK b \in Nat : Exactly(b, queue[c][k], Asked(c, k), accepted[k][c],
                               last_pkt_received[k][c], screen[k][c], typed[c][k])
  BY DEF ExactInv, ExactPair
<1>2. PICK q \in Seq(Message) : q = queue[c][k]
  BY PairTypes
<1>3. n = b + Len(q) + 1
  <2>1. PICK l \in Nat : l = Len(q)
    BY <1>2
  <2>2. CASE Asked(c, k) = {}
    BY <1>1, <1>2, <2>1, <2>2 DEF Exactly
  <2>3. CASE Asked(c, k) # {}
    <3>1. q = <<>> /\ n = b + 1
      BY <1>1, <1>2, <2>3 DEF Exactly
    <3>2. l = 0
      BY <2>1, <3>1
    <3> QED
      BY <2>1, <3>1, <3>2
  <2> QED
    BY <2>2, <2>3
<1>4. Exactly(b, Append(q, NewMessage(n)), {}, accepted[k][c], last_pkt_received[k][c],
              screen[k][c], n)
  BY <1>1, <1>2, <1>3, ExactQueued
<1>5. queue \in Queues
  BY TypeParts DEF IInv, RestTypeOK
<1>6. queue'[c][k] \in Seq(Message) /\ SameMessages(Append(q, NewMessage(n)), queue'[c][k])
  BY <1>2, <1>5, QueuedMessages
<1>7. Append(q, NewMessage(n)) \in Seq(Message)
  BY <1>2, LongerQueue
<1>8. Exactly(b, queue'[c][k], {}, accepted[k][c], last_pkt_received[k][c], screen[k][c], n)
  BY <1>4, <1>6, <1>7, ExactAgain
<1>9. Exactly(b, queue'[c][k], Asked(c, k)', accepted'[k][c], last_pkt_received'[k][c],
              screen'[k][c], typed'[c][k])
  BY <1>8 DEF WritesTo
<1>10. ExactPair(c, k)'
  BY <1>9 DEF ExactPair
<1> QED
  BY <1>10, WriterIsExact

LEMMA TypeToContactIsExact ==
  ASSUME IInv, ConversationInv, ExactInv, NEW c \in Client, NEW k \in Client,
         TypeToContact(c, k)
  PROVE  ExactInv'
<1>1. /\ WritesTo(inbox, c, k) /\ pc[c] = "input"
      /\ QueueMessage(c, k, typed[c][k] + 1)
      /\ typed'[c][k] = typed[c][k] + 1 /\ typed[c][k] + 1 \in Nat
  BY TypeToContactWrites
<1>2. \A r \in Client : Asked(c, r) = {}
  BY <1>1 DEF Asked, InLookup
<1>3. Asked(c, k)' = {}
  BY <1>1, <1>2, SameAsked DEF WritesTo
<1> QED
  BY <1>1, <1>2, <1>3, QueuedIsExact

LEMMA FoundForSendIsExact ==
  ASSUME IInv, ConversationInv, ExactInv, NEW c \in Client, FoundForSend(c)
  PROVE  ExactInv'
<1>1. PICK k \in Client, n \in Nat : k = lookup[c].nick /\ n = lookup[c].id
  BY FoundForSendWrites
<1>2. WritesTo(inbox, c, k) /\ pc'[c] = "loop" /\ QueueMessage(c, k, n)
  BY <1>1, FoundForSendWrites
<1>3. Asked(c, k) = {n} /\ \A r \in Client : r # k => Asked(c, r) = {}
  BY <1>1 DEF FoundForSend, Asked, InLookup
<1>4. Asked(c, k)' = {}
  BY <1>2 DEF Asked, InLookup
<1>5. typed'[c][k] = typed[c][k]
  BY DEF FoundForSend
<1>6. n = typed[c][k]
  <2>1. {n} = {typed[c][k]}
    BY <1>3 DEF ExactInv, ExactPair, Exactly
  <2> QED
    BY <2>1
<1> QED
  BY <1>2, <1>3, <1>4, <1>5, <1>6, QueuedIsExact

LEMMA TypeToStrangerIsExact ==
  ASSUME IInv, ConversationInv, ContactInv, ExactInv, NEW c \in Client, NEW k \in Client,
         TypeToStranger(c, k)
  PROVE  ExactInv'
<1>1. PICK n \in Nat : n = typed[c][k] + 1
  BY PairTypes
<1>2. /\ Typing(c, k) /\ pc[c] = "input"
      /\ StartLookup(c, "send", k, 0, n)
      /\ UNCHANGED <<queue, accepted, last_pkt_received, screen, recordStart>>
  BY <1>1 DEF TypeToStranger, Typing, AtStdin, contactVars, displayVars
<1>3. /\ pc'[c] = "lookup"
      /\ lookup'[c] = [why |-> "send", nick |-> k, num |-> 0, id |-> n]
      /\ \A d \in Client : d # c => pc'[d] = pc[d] /\ lookup'[d] = lookup[d]
      /\ \A d \in Client : Asked(c, d) = {}
  BY <1>2, BegunLookup
<1>4. /\ typed'[c][k] = n
      /\ \A s, r \in Client : s # c \/ r # k => typed'[s][r] = typed[s][r]
  BY <1>1, <1>2, TypedToPair
<1>5. \A s, r \in Client : s # c \/ r # k => Asked(s, r)' = Asked(s, r)
  BY <1>3 DEF Asked, InLookup
<1>6. Asked(c, k)' = {n}
  BY <1>3 DEF Asked, InLookup
<1>7. ExactPair(c, k)'
  <2>1. PICK b \in Nat : Exactly(b, queue[c][k], {}, accepted[k][c],
                                 last_pkt_received[k][c], screen[k][c], typed[c][k])
    BY <1>3 DEF ExactInv, ExactPair
  <2>2. queue[c][k] = <<>>
    BY DEF ContactInv, Lists, TypeToStranger
  <2>3. typed[c][k] = b + Len(<<>>) /\ Len(<<>>) = 0
    BY <2>1, <2>2 DEF Exactly
  <2>4. n = b + 1
    BY <1>1, <2>3
  <2>5. Exactly(b, <<>>, {n}, accepted[k][c], last_pkt_received[k][c], screen[k][c], n)
    BY <2>1, <2>2, <2>4 DEF Exactly
  <2>6. Exactly(b, queue'[c][k], Asked(c, k)', accepted'[k][c], last_pkt_received'[k][c],
                screen'[k][c], typed'[c][k])
    BY <1>2, <1>4, <1>6, <2>2, <2>5
  <2> QED
    BY <2>6 DEF ExactPair
<1> SUFFICES ASSUME NEW s \in Client, NEW r \in Client, s # c \/ r # k
             PROVE  ExactPair(s, r)'
  BY <1>7 DEF ExactInv
<1> QED
  BY <1>2, <1>4, <1>5, ExactStill DEF ExactInv, SameRecipient

\* The message at the head of a queue is sent again.
LEMMA SentAgainIsExact ==
  ASSUME IInv, ExactInv, NEW c \in Client, NEW k \in Client, NoNewLookup(c),
         \A r \in Client : Asked(c, r) = {}, queue[c][k] # <<>>,
         send_message_to_contact(inbox, c, k, queue[c][k], last_pkt_sent[c][k]),
         UNCHANGED <<typed, accepted, last_pkt_received, screen, recordStart>>
  PROVE  ExactInv'
<1>1. queue \in Queues /\ queue[c][k] \in Seq(Message)
  BY PairTypes, TypeParts DEF IInv, RestTypeOK
<1>2. queue'[c][k] \in Seq(Message) /\ SameMessages(queue[c][k], queue'[c][k])
  BY <1>1, SentQueueMessages
<1>3. queue' = [queue EXCEPT ![c][k] = [queue[c][k] EXCEPT ![1].attempts = @ + 1]]
  BY DEF send_message_to_contact
<1>4. \A s, r \in Client : s # c \/ r # k => queue'[s][r] = queue[s][r]
  BY <1>1, <1>3 DEF Queues
<1>5. \A s, r \in Client : Asked(s, r)' = Asked(s, r)
  BY SameAsked
<1> SUFFICES ASSUME NEW s \in Client, NEW r \in Client
             PROVE  ExactPair(s, r)'
  BY DEF ExactInv
<1>6. CASE s # c \/ r # k
  BY <1>4, <1>5, <1>6, ExactStill DEF ExactInv, SameRecipient
<1>7. CASE s = c /\ r = k
  <2>1. PICK b \in Nat : Exactly(b, queue[c][k], Asked(c, k), accepted[k][c],
                                 last_pkt_received[k][c], screen[k][c], typed[c][k])
    BY DEF ExactInv, ExactPair
  <2>2. Exactly(b, queue'[c][k], Asked(c, k), accepted[k][c],
                last_pkt_received[k][c], screen[k][c], typed[c][k])
    BY <1>1, <1>2, <2>1, ExactAgain
  <2>3. Exactly(b, queue'[c][k], Asked(c, k)', accepted'[k][c],
                last_pkt_received'[k][c], screen'[k][c], typed'[c][k])
    BY <1>5, <2>2
  <2> QED
    BY <1>7, <2>3 DEF ExactPair
<1> QED
  BY <1>6, <1>7

LEMMA ResendIsExact ==
  ASSUME IInv, ExactInv, NEW c \in Client, NEW k \in Client, Resend(c, k)
  PROVE  ExactInv'
<1>1. queue[c][k] # <<>> /\ pc[c] = "resend"
  BY DEF Resend, AtContact, IInv, LoopInv, InLoop
<1>2. NoNewLookup(c)
  BY Loop DEF Resend, Visited, Phase, NoNewLookup
<1>3. /\ send_message_to_contact(inbox, c, k, queue[c][k], last_pkt_sent[c][k])
      /\ UNCHANGED <<typed, accepted, last_pkt_received, screen, recordStart>>
  BY DEF Resend, displayVars
<1>4. \A r \in Client : Asked(c, r) = {}
  BY <1>1 DEF Asked, InLookup
<1> QED
  BY <1>1, <1>2, <1>3, <1>4, SentAgainIsExact

LEMMA FoundForResendIsExact ==
  ASSUME IInv, ExactInv, NEW c \in Client, FoundForResend(c)
  PROVE  ExactInv'
<1>1. PICK k \in Client : k = lookup[c].nick /\ queue[c][k] # <<>>
  BY ResendLookup DEF FoundForResend
<1>2. NoNewLookup(c)
  BY ResumedLookup DEF FoundForResend
<1>3. /\ send_message_to_contact(inbox, c, k, queue[c][k], last_pkt_sent[c][k])
      /\ UNCHANGED <<typed, accepted, last_pkt_received, screen, recordStart>>
  BY <1>1 DEF FoundForResend, displayVars
<1>4. \A r \in Client : Asked(c, r) = {}
  BY DEF FoundForResend, Asked, InLookup
<1> QED
  BY <1>1, <1>2, <1>3, <1>4, SentAgainIsExact

LEMMA ReceiveAckIsExact ==
  ASSUME IInv, ConversationInv, PatientInv, AgreeInv, ExactInv,
         NEW c \in Client, NEW k \in Client, ReceiveAck(c, k)
  PROVE  ExactInv'
<1>1. PICK net : net = Received(c, k)
  OBVIOUS
<1>2. PICK q \in Seq(Message) : q = queue[c][k]
  BY PairTypes
<1>3. PICK t \in Seq(Message) : t = Tail(q)
  BY <1>2, ReceiveAckWrites
<1>4. /\ WritesTo(net, c, k) /\ q # <<>> /\ pc[c] = "input" /\ UNCHANGED typed
      /\ send_next_message_to_contact(net, c, k, t)
  BY <1>1, <1>2, <1>3, ReceiveAckWrites
<1>5. accepted[k][c] = q[1].id
  BY <1>2, AckFinds
<1>6. queue \in Queues
  BY TypeParts DEF IInv, RestTypeOK
<1>7. queue'[c][k] \in Seq(Message) /\ SameMessages(t, queue'[c][k])
  BY <1>4, <1>6, NextQueueMessages
<1>8. \A r \in Client : Asked(c, r) = {}
  BY <1>4 DEF Asked, InLookup
<1>9. Asked(c, k)' = {}
  BY <1>4, <1>8, SameAsked DEF WritesTo
<1>10. PICK b \in Nat : Exactly(b, q, {}, accepted[k][c],
                                last_pkt_received[k][c], screen[k][c], typed[c][k])
  BY <1>2, <1>8 DEF ExactInv, ExactPair
<1>11. Exactly(b + 1, t, {}, accepted[k][c],
               last_pkt_received[k][c], screen[k][c], typed[c][k])
  BY <1>3, <1>4, <1>5, <1>10, ExactPopped
<1>12. Exactly(b + 1, queue'[c][k], {}, accepted[k][c],
               last_pkt_received[k][c], screen[k][c], typed[c][k])
  BY <1>7, <1>11, ExactAgain
<1>13. Exactly(b + 1, queue'[c][k], Asked(c, k)', accepted'[k][c],
               last_pkt_received'[k][c], screen'[k][c], typed'[c][k])
  BY <1>4, <1>9, <1>12 DEF WritesTo
<1>14. ExactPair(c, k)'
  <2>1. b + 1 \in Nat
    OBVIOUS
  <2> QED
    BY <1>13, <2>1 DEF ExactPair
<1> QED
  BY <1>4, <1>8, <1>14, WriterIsExact

\* A packet is answered: the message at the head of its queue is printed if it is new.
LEMMA AnswerIsExact ==
  ASSUME IInv, ConversationInv, PatientInv, AgreeInv, Present, ExactInv,
         NEW c \in Client, NEW k \in Client, \A r \in Client : Asked(c, r) = {},
         NEW net, NEW d, Answers(net, c, k, d)
  PROVE  ExactInv'
<1>1. OnlyHears(c, k) /\ NoNewLookup(c) /\ UNCHANGED <<queue, typed, recordStart>>
  BY AnsweredTraffic DEF Answers
<1>2. \A s, r \in Client : Asked(s, r)' = Asked(s, r)
  BY <1>1, SameAsked
<1>3. ExactPair(k, c)'
  <2>1. PICK b \in Nat : Exactly(b, queue[k][c], Asked(k, c), accepted[c][k],
                                 last_pkt_received[c][k], screen[c][k], typed[k][c])
    BY DEF ExactInv, ExactPair
  <2>2. CASE d.num = last_pkt_received[c][k]
    <3>1. SameRecipient(c, k)
      BY <2>2 DEF Answers, AcceptPkt, SameRecipient
    <3> QED
      BY <1>1, <1>2, <3>1, ExactStill DEF ExactInv
  <2>3. CASE d.num # last_pkt_received[c][k]
    <3>1. PICK q \in Seq(Message), scr \in Seq(Nat) : q = queue[k][c] /\ scr = screen[c][k]
      BY PairTypes
    <3>2. Alive(k) /\ k \notin blocked[c]
      BY DEF Present
    <3>3. q # <<>>
      BY <3>1, <3>2 DEF Answers, PatientInv, PatientPair
    <3>4. d.id = q[1].id
      BY <3>1, <3>2, <3>3 DEF Answers, InHand, AgreeInv, AgreePair, Agree
    <3>5. d.num \in {0, 1}
      BY DEF Answers, Datagram
    <3>6. last_pkt_received[c][k] # -1 => q[1].id # accepted[c][k]
      <4>1. d \in Packets(inbox[c][k], Held(c, k))
        BY DEF Answers, InHand
      <4>2. last_pkt_received[c][k] # -1 /\ d.id = accepted[c][k]
              => d.num = last_pkt_received[c][k]
        BY <4>1 DEF ConversationInv, PairInv, Sound, Remembered
      <4> QED
        BY <2>3, <3>4, <4>2
    <3>7. /\ last_pkt_received' = [last_pkt_received EXCEPT ![c][k] = d.num]
          /\ accepted' = [accepted EXCEPT ![c][k] = d.id]
          /\ screen' = [screen EXCEPT ![c][k] = Append(@, d.id)]
      BY <2>3, <3>2 DEF Answers, AcceptPkt
    <3>8. last_pkt_received \in Seen /\ accepted \in Counts /\ screen \in Screens
      BY TypeParts DEF IInv, RestTypeOK
    <3>9. last_pkt_received'[c][k] = d.num
      BY <3>7, <3>8 DEF Seen
    <3>10. accepted'[c][k] = d.id
      BY <3>7, <3>8 DEF Counts
    <3>11. screen'[c][k] = Append(scr, d.id)
      BY <3>1, <3>7, <3>8 DEF Screens
    <3>12. PICK num \in {0, 1} : num = d.num
      BY <3>5
    <3>13. Exactly(b, q, Asked(k, c), accepted[c][k], last_pkt_received[c][k], scr, typed[k][c])
      BY <2>1, <3>1
    <3>14. Exactly(b, q, Asked(k, c), q[1].id, num, Append(scr, q[1].id), typed[k][c])
      BY <3>3, <3>6, <3>13, ExactHeard
    <3>15. Exactly(b, queue'[k][c], Asked(k, c)', accepted'[c][k],
                   last_pkt_received'[c][k], screen'[c][k], typed'[k][c])
      BY <1>1, <1>2, <3>1, <3>4, <3>9, <3>10, <3>11, <3>12, <3>14
    <3> QED
      BY <3>15 DEF ExactPair
  <2> QED
    BY <2>2, <2>3
<1> SUFFICES ASSUME NEW s \in Client, NEW r \in Client, s # k \/ r # c
             PROVE  ExactPair(s, r)'
  BY <1>3 DEF ExactInv
<1>4. SameRecipient(r, s)
  BY <1>1 DEF OnlyHears
<1> QED
  BY <1>1, <1>2, <1>4, ExactStill DEF ExactInv

LEMMA ReceivePktIsExact ==
  ASSUME IInv, ConversationInv, PatientInv, AgreeInv, Present, ExactInv,
         NEW c \in Client, NEW k \in Client, ReceivePkt(c, k)
  PROVE  ExactInv'
<1>1. PICK net, d : net = Received(c, k) /\ d = Head(inbox[c][k])
  OBVIOUS
<1>2. Answers(net, c, k, d)
  BY <1>1, ReceivePktAnswers
<1>3. \A r \in Client : Asked(c, r) = {}
  BY DEF ReceivePkt, AtSocket, Asked, InLookup
<1> QED
  BY <1>2, <1>3, AnswerIsExact

LEMMA FoundForReceiveIsExact ==
  ASSUME IInv, ConversationInv, PatientInv, AgreeInv, Present, ExactInv,
         NEW c \in Client, FoundForReceive(c)
  PROVE  ExactInv'
<1>1. PICK k, d : k = lookup[c].nick /\ d = Pkt(lookup[c].num, lookup[c].id)
  OBVIOUS
<1>2. k \in Client /\ Answers(inbox, c, k, d)
  BY <1>1, FoundForReceiveAnswers
<1>3. \A r \in Client : Asked(c, r) = {}
  BY DEF FoundForReceive, Asked, InLookup
<1> QED
  BY <1>2, <1>3, AnswerIsExact

LEMMA ClientStepIsExact ==
  ASSUME Undisturbed, IInv, ConversationInv, PatientInv, ContactInv, AgreeInv, Present,
         ExactInv, NEW c \in Client, ClientStep(c), ~ GivesUp
  PROVE  ExactInv'
<1>1. CASE SelectStep(c)
  BY <1>1, QuietStepIsExact
<1>2. CASE ResendStep(c)
  BY <1>2, ResendIsExact, QuietStepIsExact DEF ResendStep, GivesUp
<1>3. CASE StdinStep(c)
  <2>1. \A k \in Client : ~ Block(c, k) /\ ~ Unblock(c, k)
    BY DEF Block, Unblock, Undisturbed
  <2>2. CASE RejectInput(c)
    BY <2>2, QuietStepIsExact
  <2> QED
    BY <1>3, <2>1, <2>2, TypeToContactIsExact, TypeToStrangerIsExact DEF StdinStep
<1>4. CASE SocketStep(c)
  BY <1>4, ReceivePktIsExact, QuietStepIsExact, ReceiveAckIsExact, PopEmptyQueueIsImpossible
  DEF SocketStep
<1>5. CASE \E k \in Client : LookupIgnores(c, k)
  BY <1>5, QuietStepIsExact
<1>6. CASE LookupEnds(c)
  <2>1. ~ NotFoundForStranger(c) /\ ~ ServerSilent(c) /\ ~ NotFoundForResend(c)
    BY DEF NotFoundForStranger, ServerSilent, NotFoundForResend, Undisturbed
  <2> QED
    BY <1>6, <2>1, FoundForResendIsExact, FoundForSendIsExact, FoundForReceiveIsExact
    DEF LookupEnds
<1>7. ~ Quit(c)
  BY DEF Quit, Undisturbed
<1> QED
  BY <1>1, <1>2, <1>3, <1>4, <1>5, <1>6, <1>7 DEF ClientStep

\* While nobody ends, blocks or gives up, every message typed is on the screen, in its
\* queue or being asked about, and none of them twice.
LEMMA ExactHolds ==
  ASSUME Undisturbed
  PROVE  Spec /\ [][~ GivesUp]_vars => [](Present /\ ExactInv)
<1>1. Init => Present /\ ExactInv
  <2>1. Init => Present
    BY DEF Init, Present, Alive
  <2>2. ASSUME Init, NEW s \in Client, NEW r \in Client
        PROVE  ExactPair(s, r)
    <3>1. /\ queue[s][r] = <<>> /\ accepted[r][s] = 0 /\ last_pkt_received[r][s] = -1
          /\ screen[r][s] = <<>> /\ typed[s][r] = 0 /\ Asked(s, r) = {}
      BY <2>2 DEF Init, Asked, InLookup
    <3>2. Exactly(0, <<>>, {}, 0, -1, <<>>, 0)
      BY DEF Exactly
    <3>3. 0 \in Nat
      OBVIOUS
    <3> QED
      BY <3>1, <3>2, <3>3 DEF ExactPair
  <2> QED
    BY <2>1, <2>2 DEF ExactInv
<1>2. (IInv /\ ConversationInv /\ PatientInv /\ ContactInv /\ AgreeInv)
        /\ Present /\ ExactInv /\ [Next]_vars /\ [~ GivesUp]_vars
        => (Present /\ ExactInv)'
  <2>1. (IInv /\ ConversationInv /\ PatientInv /\ ContactInv /\ AgreeInv)
          /\ Present /\ ExactInv /\ Next /\ ~ GivesUp
          => Present' /\ ExactInv'
    <3> SUFFICES ASSUME IInv, ConversationInv, PatientInv, ContactInv, AgreeInv, Present,
                        ExactInv, Next, ~ GivesUp
                 PROVE  Present' /\ ExactInv'
      OBVIOUS
    <3>1. PICK c \in Client : ClientStep(c)
      BY DEF Next
    <3>2. Present'
      BY <3>1, StaysPresent
    <3>3. ExactInv'
      BY <3>1, ClientStepIsExact
    <3> QED
      BY <3>2, <3>3
  <2>2. Present /\ ExactInv /\ UNCHANGED vars => Present' /\ ExactInv'
    <3> SUFFICES ASSUME Present, ExactInv, UNCHANGED vars
                 PROVE  Present' /\ ExactInv'
      OBVIOUS
    <3>1. UNCHANGED <<pc, lookup, queue, last_pkt_received, blocked, typed, accepted,
                      screen, recordStart>>
      BY DEF vars, loopVars, contactVars, displayVars
    <3>2. Present'
      BY <3>1 DEF Present, Alive
    <3>3. \A s, r \in Client : Asked(s, r)' = Asked(s, r)
      BY <3>1 DEF Asked, InLookup
    <3> QED
      BY <3>1, <3>2, <3>3, QuietIsExact
  <2> QED
    BY <2>1, <2>2
<1>3. Patient
  BY DEF Undisturbed
<1> QED
  BY <1>1, <1>2, <1>3, InvariantHolds, ConversationsAgree, PatienceHolds, ContactsAreListed,
     ExchangesAgree, PTL
  DEF Spec

\* A step that keeps the order prints the next message, if nothing is left out.
LEMMA OrderIsExact ==
  ASSUME IInv, ExactInv', Ordered!Next
  PROVE  Exact!Next
<1>1. ASSUME NEW c \in Client, NEW k \in Client, Ordered!Display(c, k)
      PROVE  Exact!Display(c, k)
  <2>1. PICK id \in 1 .. typed[k][c] :
          /\ Ordered!MayPrint(c, k, id)
          /\ screen' = [screen EXCEPT ![c][k] = Append(@, id)]
    BY <1>1 DEF Ordered!Display
  <2>2. PICK scr \in Seq(Nat) : scr = screen[c][k]
    BY PairTypes
  <2>3. screen \in Screens
    BY TypeParts DEF IInv, RestTypeOK
  <2>4. screen'[c][k] = Append(scr, id)
    BY <2>1, <2>2, <2>3 DEF Screens
  <2>5. \A i \in DOMAIN Append(scr, id) : Append(scr, id)[i] = i
    <3>1. \A i \in DOMAIN screen'[c][k] : screen'[c][k][i] = i
      BY DEF ExactInv, ExactPair, Exactly
    <3> QED
      BY <2>4, <3>1, ZenonT(30)
  <2>6. /\ Len(scr) + 1 \in DOMAIN Append(scr, id)
        /\ Append(scr, id)[Len(scr) + 1] = id
    BY <2>2
  <2>7. id = Len(screen[c][k]) + 1
    BY <2>2, <2>5, <2>6
  <2>8. Exact!MayPrint(c, k, id)
    BY <2>1, <2>7 DEF Ordered!MayPrint, Exact!MayPrint
  <2> QED
    BY <1>1, <2>1, <2>8 DEF Ordered!Display, Exact!Display
<1>2. \A c, k \in Client : Ordered!Type(c, k) => Exact!Type(c, k)
  BY DEF Ordered!Type, Exact!Type
<1>3. \A c \in Client : \A S \in SUBSET Client : Ordered!Forget(c, S) => Exact!Forget(c, S)
  BY DEF Ordered!Forget, Exact!Forget
<1> QED
  BY <1>1, <1>2, <1>3 DEF Ordered!Next, Exact!Next

\* Clients that are not disturbed implement the lossless Conversation until a message
\* is given up: whatever is lost or sent again, each message is printed once, and in
\* its turn (client_to_client_com.c, upush_client.c:276-390).
THEOREM ExactUntilGivenUp ==
  ASSUME Undisturbed
  PROVE  Spec /\ [][~ GivesUp]_vars => ExactConversation
<1>1. Init => Exact!Init
  BY DEF Init, Exact!Init
<1>2. IInv /\ ConversationInv /\ ExactInv' /\ [Next]_vars => [Exact!Next]_(Exact!vars)
  <2>1. IInv /\ ConversationInv /\ Next => Ordered!Next \/ UNCHANGED Promised
    BY ClientStepRefines DEF Next
  <2>2. UNCHANGED vars => UNCHANGED Promised
    BY DEF vars, displayVars, Promised
  <2> QED
    BY <2>1, <2>2, OrderIsExact DEF Promised, Exact!vars
<1> QED
  BY <1>1, <1>2, InvariantHolds, ConversationsAgree, ExactHolds, PTL
  DEF Spec, ExactConversation, Exact!Spec

\* A team that blocks nobody implements the lossless Conversation: fewer losses than
\* attempts (client_to_client_com.c:40) change nothing of what is printed.
THEOREM TeamIsExact ==
  ASSUME Team, MayBlock = {}
  PROVE  Spec => ExactConversation
<1>1. Undisturbed
  BY DEF Team, Undisturbed
<1> QED
  BY <1>1, NothingGivenUp, ExactUntilGivenUp, PTL
===============================================================================
