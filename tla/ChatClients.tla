------------------------------ MODULE ChatClients ------------------------------
(***************************************************************************)
(* The client processes of UPUSH and the UDP conversations between them:   *)
(* main's event loop (upush_client.c), the stop-and-wait protocol          *)
(* (client_to_client_com.c), contacts and their message queues             *)
(* (contact.c, contact_list.c, message.c, message_list.c) and the list of  *)
(* blocked nicks (blocked_nick_list.c).                                    *)
(*                                                                         *)
(* A client is identified with its nick and with the address its socket is *)
(* bound to.  The server appears only as the answer of a blocking lookup;  *)
(* ServerRegistry models it.  The model starts once a client is connected. *)
(***************************************************************************)
EXTENDS Integers, Sequences

CONSTANTS
  Client,         \* the client processes
  MayWrite,       \* bound: who types messages to whom
  MayBlock,       \* bound: who types BLOCK and UNBLOCK for whom
  MayQuit,        \* bound: the clients that may receive QUIT or SIGINT
  LookupAnswers,  \* how a lookup may end: found, not found, silent
  Patient,        \* TRUE: no timer fires while an exchange is under way
  MaxTyped,       \* bound: messages typed, for each sender and recipient
  MaxLoss,        \* bound: datagrams dropped by send_packet
  SocketBuffer    \* datagrams a socket holds for one source

ASSUME ClientsAssumption ==
  /\ MayWrite \subseteq Client \X Client
  /\ MayBlock \subseteq Client \X Client
  /\ MayQuit \subseteq Client
  /\ LookupAnswers \subseteq {"found", "not found", "silent"}
  /\ Patient \in BOOLEAN
  /\ MaxTyped \in [MayWrite -> Nat] /\ MaxLoss \in Nat /\ SocketBuffer \in Nat

VARIABLES
  pc,                 \* where a client is in its event loop
  ready,              \* the descriptor this iteration serves: FD_ISSET on copy_fds
  due,                \* contacts whose timer resend_pending_messages finds expired
  lookup,             \* the lookup a client is blocked in, and what it is for
  known,              \* contact_list
  queue,              \* contact->message_list, oldest message first
  last_pkt_sent,      \* contact->last_pkt_sent
  last_pkt_received,  \* contact->last_pkt_received
  blocked,            \* blocked_list
  inbox,              \* inbox[r][s]: datagrams from s that wait at the socket of r
  losses,             \* datagrams dropped so far
  typed,              \* history: messages typed by a client to another
  accepted,           \* history: the last message a client took as new from another
  screen,             \* history: the messages a client printed from another
  recordStart         \* history: Len(screen) when the contact record was made

loopVars    == <<pc, ready, due, lookup>>
contactVars == <<known, queue, last_pkt_sent, last_pkt_received>>
netVars     == <<inbox, losses>>
displayVars == <<accepted, screen, recordStart>>
vars == <<loopVars, contactVars, blocked, netVars, typed, displayVars>>

NewMessage(id) == [id |-> id, attempts |-> 0]
Pkt(num, id)   == [type |-> "PKT", num |-> num, id |-> id]
Ack(num)       == [type |-> "ACK", num |-> num, id |-> 0]
NoLookup       == [why |-> "none"]

Alive(c) == pc[c] \notin {"down", "crashed"}

-----------------------------------------------------------------------------
(* The network: send_packet and the sockets it reaches.                    *)

\* A datagram reaches the socket of a running client that has room for it.
Arrive(net, s, r, d) ==
  IF Alive(r) /\ Len(net[r][s]) < SocketBuffer
  THEN [net EXCEPT ![r][s] = Append(@, d)]
  ELSE net

\* net is what the sockets hold once the datagram being handled was received.
send_packet(net, s, r, d) ==
  \/ /\ inbox' = Arrive(net, s, r, d)
     /\ UNCHANGED losses
  \/ /\ losses < MaxLoss
     /\ losses' = losses + 1
     /\ inbox' = net

\* recvfrom takes the oldest datagram that c holds from k.
Received(c, k) == [inbox EXCEPT ![c][k] = Tail(@)]

Next_is(c, k, type) == inbox[c][k] # <<>> /\ Head(inbox[c][k]).type = type

-----------------------------------------------------------------------------
(* client_to_client_com.c: q is the contact's queue as the caller left it. *)

\* Faulty variant: message->attempts is not counted.
send_message_Uncounted(net, c, k, q, num) ==
  /\ queue' = [queue EXCEPT ![c][k] = q]
  /\ send_packet(net, c, k, Pkt(num, Head(q).id))

send_message_to_contact(net, c, k, q, num) ==
  /\ queue' = [queue EXCEPT ![c][k] = [q EXCEPT ![1].attempts = @ + 1]]
  /\ send_packet(net, c, k, Pkt(num, Head(q).id))

\* Faulty variant: the packet number is incremented instead of toggled.
send_next_message_Increments(net, c, k, q) ==
  \/ /\ q = <<>>
     /\ queue' = [queue EXCEPT ![c][k] = q]
     /\ inbox' = net
     /\ UNCHANGED <<last_pkt_sent, losses>>
  \/ /\ q # <<>>
     /\ last_pkt_sent' = [last_pkt_sent EXCEPT ![c][k] = @ + 1]
     /\ send_message_to_contact(net, c, k, q, last_pkt_sent[c][k] + 1)

send_next_message_to_contact(net, c, k, q) ==
  \/ /\ q = <<>>
     /\ queue' = [queue EXCEPT ![c][k] = q]
     /\ inbox' = net
     /\ UNCHANGED <<last_pkt_sent, losses>>
  \/ /\ q # <<>>
     /\ last_pkt_sent' = [last_pkt_sent EXCEPT ![c][k] = 1 - @]
     /\ send_message_to_contact(net, c, k, q, 1 - last_pkt_sent[c][k])

\* A new message goes to the back of the queue and is sent if it is alone there.
QueueMessage(c, k, id) ==
  \/ /\ queue[c][k] = <<>>
     /\ send_next_message_to_contact(inbox, c, k, <<NewMessage(id)>>)
  \/ /\ queue[c][k] # <<>>
     /\ queue' = [queue EXCEPT ![c][k] = Append(@, NewMessage(id))]
     /\ UNCHANGED <<last_pkt_sent, netVars>>

-----------------------------------------------------------------------------
Init ==
  /\ pc = [c \in Client |-> "loop"]
  /\ ready = [c \in Client |-> "none"]
  /\ due = [c \in Client |-> {}]
  /\ lookup = [c \in Client |-> NoLookup]
  /\ known = [c \in Client |-> {}]
  /\ queue = [c \in Client |-> [k \in Client |-> <<>>]]
  /\ last_pkt_sent = [c \in Client |-> [k \in Client |-> 1]]
  /\ last_pkt_received = [c \in Client |-> [k \in Client |-> -1]]
  /\ blocked = [c \in Client |-> {}]
  /\ inbox = [c \in Client |-> [k \in Client |-> <<>>]]
  /\ losses = 0
  /\ typed = [c \in Client |-> [k \in Client |-> 0]]
  /\ accepted = [c \in Client |-> [k \in Client |-> 0]]
  /\ screen = [c \in Client |-> [k \in Client |-> <<>>]]
  /\ recordStart = [c \in Client |-> [k \in Client |-> 0]]

-----------------------------------------------------------------------------
(* The event loop.                                                         *)

\* Where an iteration stands once the contacts in todo are left to resend to.
Phase(todo, fd) ==
  IF todo # {} THEN "resend" ELSE IF fd = "none" THEN "loop" ELSE "input"

EndIteration(c) ==
  /\ pc' = [pc EXCEPT ![c] = "loop"]
  /\ ready' = [ready EXCEPT ![c] = "none"]

Visited(c, k) ==
  /\ due' = [due EXCEPT ![c] = @ \ {k}]
  /\ pc' = [pc EXCEPT ![c] = Phase(due[c] \ {k}, ready[c])]

StartLookup(c, why, k, num, id) ==
  /\ lookup' = [lookup EXCEPT ![c] =
                  [why |-> why, nick |-> k, num |-> num, id |-> id]]
  /\ pc' = [pc EXCEPT ![c] = "lookup"]

\* Standard input is served before the socket; nothing is served on a timeout.
Readable(c) ==
  {"stdin"} \cup
  (IF \E k \in Client : inbox[c][k] # <<>> THEN {"socket"} ELSE {"none"})

Waiting(r, s, type) ==
  \E i \in DOMAIN inbox[r][s] : inbox[r][s][i].type = type

\* A packet from c to k, or the answer to it, is on its way or in k's hands.
InFlight(c, k) ==
  \/ Waiting(k, c, "PKT")
  \/ lookup[k].why = "receive" /\ lookup[k].nick = c
  \/ Waiting(c, k, "ACK")

MayBeDue(c) ==
  {k \in known[c] : queue[c][k] # <<>> /\ (Patient => ~ InFlight(c, k))}

\* select returns; expired are the contacts resend_pending_messages will find late.
Select(c, expired, fd) ==
  /\ pc[c] = "loop"
  /\ expired \subseteq MayBeDue(c)
  /\ fd \in Readable(c)
  /\ due' = [due EXCEPT ![c] = expired]
  /\ ready' = [ready EXCEPT ![c] = fd]
  /\ pc' = [pc EXCEPT ![c] = Phase(expired, fd)]
  /\ UNCHANGED <<lookup, contactVars, blocked, netVars, typed, displayVars>>

-----------------------------------------------------------------------------
(* resend_message_to_contact, by the number of attempts already made.      *)

AtContact(c, k) == pc[c] = "resend" /\ k \in due[c]

Attempts(c, k) == Head(queue[c][k]).attempts

\* Faulty variant: no limit on the number of attempts.
Resend_Unlimited(c, k) ==
  /\ AtContact(c, k)
  /\ Attempts(c, k) # 2
  /\ send_message_to_contact(inbox, c, k, queue[c][k], last_pkt_sent[c][k])
  /\ Visited(c, k)
  /\ UNCHANGED <<ready, lookup, known, last_pkt_sent, last_pkt_received,
                 blocked, typed, displayVars>>

\* Faulty variant: a packet that is sent again takes the next number.
Resend_Toggles(c, k) ==
  /\ AtContact(c, k)
  /\ Attempts(c, k) \notin {2, 4}
  /\ last_pkt_sent' = [last_pkt_sent EXCEPT ![c][k] = 1 - @]
  /\ send_message_to_contact(inbox, c, k, queue[c][k], 1 - last_pkt_sent[c][k])
  /\ Visited(c, k)
  /\ UNCHANGED <<ready, lookup, known, last_pkt_received, blocked, typed,
                 displayVars>>

Resend(c, k) ==
  /\ AtContact(c, k)
  /\ Attempts(c, k) \notin {2, 4}
  /\ send_message_to_contact(inbox, c, k, queue[c][k], last_pkt_sent[c][k])
  /\ Visited(c, k)
  /\ UNCHANGED <<ready, lookup, known, last_pkt_sent, last_pkt_received,
                 blocked, typed, displayVars>>

LookupAgain(c, k) ==
  /\ AtContact(c, k)
  /\ Attempts(c, k) = 2
  /\ StartLookup(c, "resend", k, 0, 0)
  /\ UNCHANGED <<ready, due, contactVars, blocked, netVars, typed, displayVars>>

\* The contact and its queue are freed: a later record for k starts afresh.
GiveUp(c, k) ==
  /\ AtContact(c, k)
  /\ Attempts(c, k) = 4
  /\ known' = [known EXCEPT ![c] = @ \ {k}]
  /\ queue' = [queue EXCEPT ![c][k] = <<>>]
  /\ last_pkt_sent' = [last_pkt_sent EXCEPT ![c][k] = 1]
  /\ last_pkt_received' = [last_pkt_received EXCEPT ![c][k] = -1]
  /\ recordStart' = [recordStart EXCEPT ![c][k] = Len(screen[c][k])]
  /\ Visited(c, k)
  /\ UNCHANGED <<ready, lookup, blocked, netVars, typed, accepted, screen>>

-----------------------------------------------------------------------------
(* Standard input.                                                         *)

AtStdin(c) == pc[c] = "input" /\ ready[c] = "stdin"

\* A line that changes nothing: malformed, or addressed to a blocked nick.
RejectInput(c) ==
  /\ AtStdin(c)
  /\ EndIteration(c)
  /\ UNCHANGED <<due, lookup, contactVars, blocked, netVars, typed, displayVars>>

Block(c, k) ==
  /\ AtStdin(c)
  /\ <<c, k>> \in MayBlock
  /\ blocked' = [blocked EXCEPT ![c] = @ \cup {k}]
  /\ EndIteration(c)
  /\ UNCHANGED <<due, lookup, contactVars, netVars, typed, displayVars>>

Unblock(c, k) ==
  /\ AtStdin(c)
  /\ <<c, k>> \in MayBlock
  /\ blocked' = [blocked EXCEPT ![c] = @ \ {k}]
  /\ EndIteration(c)
  /\ UNCHANGED <<due, lookup, contactVars, netVars, typed, displayVars>>

Typing(c, k) ==
  /\ AtStdin(c)
  /\ <<c, k>> \in MayWrite
  /\ k \notin blocked[c]
  /\ typed[c][k] < MaxTyped[<<c, k>>]
  /\ typed' = [typed EXCEPT ![c][k] = @ + 1]
  /\ UNCHANGED <<due, blocked, displayVars>>

TypeToContact(c, k) ==
  /\ Typing(c, k)
  /\ k \in known[c]
  /\ QueueMessage(c, k, typed[c][k] + 1)
  /\ EndIteration(c)
  /\ UNCHANGED <<lookup, known, last_pkt_received>>

TypeToStranger(c, k) ==
  /\ Typing(c, k)
  /\ k \notin known[c]
  /\ StartLookup(c, "send", k, 0, typed[c][k] + 1)
  /\ UNCHANGED <<ready, contactVars, netVars>>

-----------------------------------------------------------------------------
(* The socket.  recvfrom blocks: there is no step while the inbox is empty. *)

AtSocket(c) == pc[c] = "input" /\ ready[c] = "socket"

\* Faulty variant: every packet is taken as new.
AcceptPkt_Always(net, c, k, num, id) ==
  /\ last_pkt_received' = [last_pkt_received EXCEPT ![c][k] = num]
  /\ accepted' = [accepted EXCEPT ![c][k] = id]
  /\ screen' = IF k \in blocked[c] THEN screen
               ELSE [screen EXCEPT ![c][k] = Append(@, id)]
  /\ send_packet(net, c, k, Ack(num))

\* A packet whose number is not the last one received is new; it is printed
\* unless the sender is blocked, and acknowledged in any case.
AcceptPkt(net, c, k, num, id) ==
  /\ IF num # last_pkt_received[c][k]
     THEN /\ last_pkt_received' = [last_pkt_received EXCEPT ![c][k] = num]
          /\ accepted' = [accepted EXCEPT ![c][k] = id]
          /\ screen' = IF k \in blocked[c] THEN screen
                       ELSE [screen EXCEPT ![c][k] = Append(@, id)]
     ELSE UNCHANGED <<last_pkt_received, accepted, screen>>
  /\ send_packet(net, c, k, Ack(num))

ReceivePkt(c, k) ==
  /\ AtSocket(c)
  /\ Next_is(c, k, "PKT")
  /\ k \in known[c]
  /\ LET d == Head(inbox[c][k]) IN AcceptPkt(Received(c, k), c, k, d.num, d.id)
  /\ EndIteration(c)
  /\ UNCHANGED <<due, lookup, known, queue, last_pkt_sent, blocked, typed,
                 recordStart>>

\* Faulty variant: the packet is acknowledged before its sender is looked up.
ReceivePktFromStranger_AcksAtOnce(c, k) ==
  /\ AtSocket(c)
  /\ Next_is(c, k, "PKT")
  /\ k \notin known[c]
  /\ LET d == Head(inbox[c][k]) IN
       /\ StartLookup(c, "receive", k, d.num, d.id)
       /\ send_packet(Received(c, k), c, k, Ack(d.num))
  /\ UNCHANGED <<ready, due, contactVars, blocked, typed, displayVars>>

ReceivePktFromStranger(c, k) ==
  /\ AtSocket(c)
  /\ Next_is(c, k, "PKT")
  /\ k \notin known[c]
  /\ LET d == Head(inbox[c][k]) IN StartLookup(c, "receive", k, d.num, d.id)
  /\ inbox' = Received(c, k)
  /\ UNCHANGED <<ready, due, contactVars, blocked, losses, typed, displayVars>>

\* Faulty variant: the next message waits for its timer.
ReceiveAck_SendsNothing(c, k) ==
  /\ AtSocket(c)
  /\ Next_is(c, k, "ACK")
  /\ k \in known[c]
  /\ queue[c][k] # <<>>
  /\ queue' = [queue EXCEPT ![c][k] = Tail(@)]
  /\ inbox' = Received(c, k)
  /\ EndIteration(c)
  /\ UNCHANGED <<due, lookup, known, last_pkt_sent, last_pkt_received, losses,
                 blocked, typed, displayVars>>

\* register_ack_message: whatever its number, an ACK pops the oldest message.
ReceiveAck(c, k) ==
  /\ AtSocket(c)
  /\ Next_is(c, k, "ACK")
  /\ k \in known[c]
  /\ queue[c][k] # <<>>
  /\ send_next_message_to_contact(Received(c, k), c, k, Tail(queue[c][k]))
  /\ EndIteration(c)
  /\ UNCHANGED <<due, lookup, known, last_pkt_received, blocked, typed,
                 displayVars>>

ReceiveAckFromStranger(c, k) ==
  /\ AtSocket(c)
  /\ Next_is(c, k, "ACK")
  /\ k \notin known[c]
  /\ inbox' = Received(c, k)
  /\ EndIteration(c)
  /\ UNCHANGED <<due, lookup, contactVars, blocked, losses, typed, displayVars>>

-----------------------------------------------------------------------------
(* The end of a process: its lists are freed and its socket is closed.     *)

Stop(c, how) ==
  /\ pc' = [pc EXCEPT ![c] = how]
  /\ ready' = [ready EXCEPT ![c] = "none"]
  /\ due' = [due EXCEPT ![c] = {}]
  /\ lookup' = [lookup EXCEPT ![c] = NoLookup]
  /\ known' = [known EXCEPT ![c] = {}]
  /\ queue' = [queue EXCEPT ![c] = [k \in Client |-> <<>>]]
  /\ last_pkt_sent' = [last_pkt_sent EXCEPT ![c] = [k \in Client |-> 1]]
  /\ last_pkt_received' = [last_pkt_received EXCEPT ![c] = [k \in Client |-> -1]]
  /\ blocked' = [blocked EXCEPT ![c] = {}]
  /\ inbox' = [inbox EXCEPT ![c] = [k \in Client |-> <<>>]]
  /\ recordStart' = [recordStart EXCEPT ![c] = [k \in Client |-> Len(screen[c][k])]]
  /\ UNCHANGED <<losses, typed, accepted, screen>>

\* pop_message on an empty list detaches the list's head node, whose prev is NULL.
PopEmptyQueue(c, k) ==
  /\ AtSocket(c)
  /\ Next_is(c, k, "ACK")
  /\ k \in known[c]
  /\ queue[c][k] = <<>>
  /\ Stop(c, "crashed")

\* quit_client, typed as QUIT or run by the SIGINT handler at any point.
Quit(c) ==
  /\ c \in MayQuit
  /\ Alive(c)
  /\ Stop(c, "down")

-----------------------------------------------------------------------------
(* lookup_user_on_server blocks the client until the server answers or     *)
(* three attempts time out.                                                *)

InLookup(c, why) == pc[c] = "lookup" /\ lookup[c].why = why

\* A datagram from another client is received by the lookup loop and dropped.
LookupIgnores(c, k) ==
  /\ pc[c] = "lookup"
  /\ inbox[c][k] # <<>>
  /\ inbox' = Received(c, k)
  /\ UNCHANGED <<loopVars, contactVars, blocked, losses, typed, displayVars>>

LeaveLookup(c) ==
  /\ lookup' = [lookup EXCEPT ![c] = NoLookup]
  /\ EndIteration(c)
  /\ UNCHANGED due

\* The lookup of resend_message_to_contact returns to the iteration over contacts.
ResumeResend(c) ==
  /\ lookup' = [lookup EXCEPT ![c] = NoLookup]
  /\ Visited(c, lookup[c].nick)
  /\ UNCHANGED ready

FoundForResend(c) ==
  LET k == lookup[c].nick IN
  /\ "found" \in LookupAnswers
  /\ InLookup(c, "resend")
  /\ send_message_to_contact(inbox, c, k, queue[c][k], last_pkt_sent[c][k])
  /\ ResumeResend(c)
  /\ UNCHANGED <<known, last_pkt_sent, last_pkt_received, blocked, typed,
                 displayVars>>

\* Faulty variant: the message is given up and yet sent once more.
NotFoundForResend_Sends(c) ==
  LET k == lookup[c].nick IN
  /\ "not found" \in LookupAnswers
  /\ InLookup(c, "resend")
  /\ queue' = [queue EXCEPT ![c][k] = Tail(@)]
  /\ send_packet(inbox, c, k, Pkt(last_pkt_sent[c][k], Head(queue[c][k]).id))
  /\ ResumeResend(c)
  /\ UNCHANGED <<known, last_pkt_sent, last_pkt_received, blocked, typed,
                 displayVars>>

\* The message is given up; its successor is not sent here.
NotFoundForResend(c) ==
  LET k == lookup[c].nick IN
  /\ "not found" \in LookupAnswers
  /\ InLookup(c, "resend")
  /\ queue' = [queue EXCEPT ![c][k] = Tail(@)]
  /\ ResumeResend(c)
  /\ UNCHANGED <<known, last_pkt_sent, last_pkt_received, blocked, netVars,
                 typed, displayVars>>

FoundForSend(c) ==
  LET k == lookup[c].nick IN
  /\ "found" \in LookupAnswers
  /\ InLookup(c, "send")
  /\ known' = [known EXCEPT ![c] = @ \cup {k}]
  /\ QueueMessage(c, k, lookup[c].id)
  /\ LeaveLookup(c)
  /\ UNCHANGED <<last_pkt_received, blocked, typed, displayVars>>

\* Faulty variant: the number of the first packet is not recorded.
FoundForReceive_Forgets(c) ==
  LET k == lookup[c].nick IN
  /\ "found" \in LookupAnswers
  /\ InLookup(c, "receive")
  /\ known' = [known EXCEPT ![c] = @ \cup {k}]
  /\ accepted' = [accepted EXCEPT ![c][k] = lookup[c].id]
  /\ screen' = IF k \in blocked[c] THEN screen
               ELSE [screen EXCEPT ![c][k] = Append(@, lookup[c].id)]
  /\ send_packet(inbox, c, k, Ack(lookup[c].num))
  /\ LeaveLookup(c)
  /\ UNCHANGED <<queue, last_pkt_sent, last_pkt_received, blocked, typed,
                 recordStart>>

FoundForReceive(c) ==
  LET k == lookup[c].nick IN
  /\ "found" \in LookupAnswers
  /\ InLookup(c, "receive")
  /\ known' = [known EXCEPT ![c] = @ \cup {k}]
  /\ AcceptPkt(inbox, c, k, lookup[c].num, lookup[c].id)
  /\ LeaveLookup(c)
  /\ UNCHANGED <<queue, last_pkt_sent, blocked, typed, recordStart>>

\* The nick is not registered: the typed message, or the received one, is dropped.
NotFoundForStranger(c) ==
  /\ "not found" \in LookupAnswers
  /\ InLookup(c, "send") \/ InLookup(c, "receive")
  /\ LeaveLookup(c)
  /\ UNCHANGED <<contactVars, blocked, netVars, typed, displayVars>>

ServerSilent(c) ==
  /\ "silent" \in LookupAnswers
  /\ pc[c] = "lookup"
  /\ Stop(c, "down")

-----------------------------------------------------------------------------
ResendStep(c) ==
  \E k \in Client : Resend(c, k) \/ LookupAgain(c, k) \/ GiveUp(c, k)

StdinStep(c) ==
  \/ RejectInput(c)
  \/ \E k \in Client : \/ Block(c, k) \/ Unblock(c, k)
                       \/ TypeToContact(c, k) \/ TypeToStranger(c, k)

SocketStep(c) ==
  \E k \in Client : \/ ReceivePkt(c, k) \/ ReceivePktFromStranger(c, k)
                    \/ ReceiveAck(c, k) \/ ReceiveAckFromStranger(c, k)
                    \/ PopEmptyQueue(c, k)

LookupEnds(c) ==
  \/ FoundForResend(c) \/ NotFoundForResend(c)
  \/ FoundForSend(c) \/ FoundForReceive(c) \/ NotFoundForStranger(c)
  \/ ServerSilent(c)

SelectStep(c) ==
  \E expired \in SUBSET Client, fd \in {"stdin", "socket", "none"} :
    Select(c, expired, fd)

ClientStep(c) ==
  \/ SelectStep(c) \/ ResendStep(c) \/ StdinStep(c) \/ SocketStep(c)
  \/ (\E k \in Client : LookupIgnores(c, k)) \/ LookupEnds(c) \/ Quit(c)

Next == \E c \in Client : ClientStep(c)

Spec == Init /\ [][Next]_vars

\* The loop keeps running, time passes, the user stops typing now and then, and
\* a blocking lookup ends.
Fairness ==
  \A c \in Client :
    /\ \A k \in Client :
         SF_vars(\E E \in SUBSET Client, fd \in {"stdin", "socket", "none"} :
                   k \in E /\ Select(c, E, fd))
    /\ SF_vars(\E E \in SUBSET Client : Select(c, E, "socket"))
    /\ WF_vars(ResendStep(c))
    /\ WF_vars(StdinStep(c))
    /\ WF_vars(SocketStep(c))
    /\ WF_vars(LookupEnds(c))

FairSpec == Spec /\ Fairness

-----------------------------------------------------------------------------
(* Properties.                                                             *)

Message  == [id : Nat, attempts : Nat]
Datagram == [type : {"PKT", "ACK"}, num : {0, 1}, id : Nat]
Lookup   == [why : {"send", "receive", "resend"}, nick : Client,
             num : {0, 1}, id : Nat]

\* Every variable of the clients and their sockets keeps its type.
TypeOK ==
  /\ pc \in [Client -> {"loop", "resend", "input", "lookup", "down", "crashed"}]
  /\ ready \in [Client -> {"none", "stdin", "socket"}]
  /\ due \in [Client -> SUBSET Client]
  /\ lookup \in [Client -> Lookup \cup {NoLookup}]
  /\ known \in [Client -> SUBSET Client]
  /\ queue \in [Client -> [Client -> Seq(Message)]]
  /\ last_pkt_sent \in [Client -> [Client -> {0, 1}]]
  /\ last_pkt_received \in [Client -> [Client -> {-1, 0, 1}]]
  /\ blocked \in [Client -> SUBSET Client]
  /\ inbox \in [Client -> [Client -> Seq(Datagram)]]
  /\ losses \in Nat
  /\ typed \in [Client -> [Client -> Nat]]
  /\ accepted \in [Client -> [Client -> Nat]]
  /\ screen \in [Client -> [Client -> Seq(Nat)]]
  /\ recordStart \in [Client -> [Client -> Nat]]

\* Stop and wait: of the messages queued for a contact only the oldest was ever
\* sent, and no message is sent more than four times (client_to_client_com.c:40).
OneOutstanding ==
  \A c, k \in Client : \A i \in DOMAIN queue[c][k] :
    /\ queue[c][k][i].attempts <= 4
    /\ i > 1 => queue[c][k][i].attempts = 0

Ordered == INSTANCE Conversation WITH Lossless <- FALSE
Exact   == INSTANCE Conversation WITH Lossless <- TRUE

\* Whatever is lost, resent or abandoned, messages are printed in the order they
\* were typed, and twice only if the recipient deleted the sender's contact.
OrderedConversation == Ordered!Spec

\* With patient timers, fewer losses than attempts and a server that finds every
\* nick, every message is printed exactly once and in order.
ExactConversation == Exact!Spec

\* register_ack_message never pops an empty queue (a NULL dereference).
NeverPopsEmpty == \A c \in Client : pc[c] # "crashed"

\* The message an ACK will pop is there, and the acknowledging client has taken it:
\* "pop a message from the queue (the one that was just ACKed)"
\* (client_to_client_com.h:16).
AckIsForHead ==
  \A c, k \in Client :
    k \in known[c] /\ Waiting(c, k, "ACK")
      => queue[c][k] # <<>> /\ accepted[k][c] >= Head(queue[c][k]).id

\* main reads the socket only while a datagram waits there, so that an iteration
\* of the loop always ends: "is there new message on our socket?"
\* (upush_client.c:258).
SocketHasDatagram ==
  \A c \in Client : AtSocket(c) => \E k \in Client : inbox[c][k] # <<>>

\* main waits in recvfrom for a datagram that a lookup has consumed.
HangsInRead(c) == AtSocket(c) /\ \A k \in Client : inbox[c][k] = <<>>

\* No message stays at the head of a queue for ever: it is acknowledged, given up
\* with its contact, or reported as undeliverable, unless its sender stops, or
\* hangs in recvfrom (the violation of SocketHasDatagram).
HeadSettles ==
  \A pair \in MayWrite : \A n \in 1 .. MaxTyped[pair] :
    LET c == pair[1] k == pair[2] IN
    (queue[c][k] # <<>> /\ Head(queue[c][k]).id = n)
      ~> (queue[c][k] = <<>> \/ Head(queue[c][k]).id # n \/ HangsInRead(c))

\* With the environment of ExactConversation every message typed is printed.
EveryMessageShown ==
  \A pair \in MayWrite : \A n \in 1 .. MaxTyped[pair] :
    LET c == pair[1] k == pair[2] IN
    typed[c][k] = n ~> Len(screen[k][c]) >= n
=============================================================================
