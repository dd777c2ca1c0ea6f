------------------------------- MODULE UpushSystem ------------------------------
(***************************************************************************)
(* Clients that start, stop and start again, the ports they are bound to,  *)
(* the contacts in which they cache the ports of others, the server's      *)
(* records, and the texts they send each other.  A nick may have several   *)
(* owners, and a port that a process gave up may be bound by another one.  *)
(*                                                                         *)
(* A line of input, a datagram or a contact's turn to resend is one step   *)
(* here, with the lookup made for it; ChatClients has the order of these   *)
(* inside an iteration, and ClientLookup the inside of a lookup.  Of a     *)
(* lookup this module keeps what outlives it: the answers to its repeated  *)
(* requests, which the next lookup takes for its own.                      *)
(***************************************************************************)
EXTENDS Datagrams, Integers

CONSTANTS
  Process,       \* the clients
  client_nick,   \* their nicks
  Port,          \* the ports bind may choose
  MayType,       \* bound: the lines that the user of a process may type
  MaxTyped,      \* bound: how many of them
  MaxStarts,     \* bound: how often a process is started
  MaxLoss,       \* bound: datagrams dropped by send_packet
  SocketBuffer,  \* datagrams a socket holds
  Unheard,       \* bound: the clients that may lose their record while they run
  MaxLate,       \* bound: answers to lookups that nobody has read
  NoPort         \* not bound; not registered

ASSUME SystemAssumption ==
  /\ NoPort \notin Port
  /\ MaxTyped \in [Process -> Nat] /\ MaxStarts \in [Process -> Nat]
  /\ Unheard \subseteq Process
  /\ MaxLoss \in Nat /\ SocketBuffer \in Nat /\ MaxLate \in Nat

\* Nicks and ports are words, and a line is a text.
ASSUME TextAssumption ==
  /\ \A p \in Process : client_nick[p] # SP
  /\ SP \notin Port
  /\ \A p \in Process : \A line \in MayType[p] : line \in Seq(Range(line)) /\ IsText(line)

VARIABLES
  state,     \* off, starting, connected, crashed
  port,      \* the port of a process' socket
  starts,    \* how often a process was started
  contacts,  \* contact_list, the newest first
  inbox,     \* the datagrams that wait at the socket bound to a port
  record,    \* the server's client_list: the port of a nick
  answers,   \* the answers to lookups made from a port that nobody has read
  losses,    \* datagrams dropped so far
  typed,     \* history: what was typed and accepted, as [to, text]
  misled     \* history: who made a contact of another nick than it looked up

vars == <<state, port, starts, contacts, inbox, record, answers, losses, typed, misled>>

Nick == {client_nick[p] : p \in Process}

Owners(n) == {p \in Process : client_nick[p] = n}

Running(p) == state[p] = "connected"

-----------------------------------------------------------------------------
(* Contacts.  A message is [text, id, attempts]; id says who typed it, and *)
(* as what turn.  shown is a history of what was printed from the contact. *)

create_contact(nick, addr) ==
  [nick |-> nick, addr |-> addr, queue |-> <<>>, last_pkt_sent |-> 1,
   last_pkt_received |-> -1, shown |-> <<>>]

\* The first index of a list where Test holds, 0 if there is none.
First(list, Test(_)) == SelectInSeq(list, Test)

find_contact_by_nick(list, n) == First(list, LAMBDA c : c.nick = n)
find_contact_by_addr(list, q) == First(list, LAMBDA c : c.addr = q)

WithContact(p, list) == contacts' = [contacts EXCEPT ![p] = list]

-----------------------------------------------------------------------------
(* Datagrams between clients: [from, id, text].                            *)

\* sent is a sequence of at most one datagram.
Arrive(net, to, sent) ==
  IF \E p \in Process : port[p] = to
  THEN [net EXCEPT ![to] = IF Len(@) < SocketBuffer THEN @ \o sent ELSE @]
  ELSE net

send_packet(net, to, sent) ==
  \/ inbox' = Arrive(net, to, sent) /\ UNCHANGED losses
  \/ sent # <<>> /\ losses < MaxLoss /\ losses' = losses + 1 /\ inbox' = net

Received(p) == [inbox EXCEPT ![port[p]] = Tail(@)]

\* What a blocking lookup leaves of a socket: it drops what arrives before its answer.
AfterLookup(net, p) ==
  {[net EXCEPT ![port[p]] = SubSeq(@, n + 1, Len(@))] : n \in 0 .. Len(net[port[p]])}

\* send_message_to_contact: the datagram, and the contact that has sent it.
PktFor(p, c) ==
  <<[from |-> port[p], id |-> Head(c.queue).id,
     text |-> PktMessage(c.last_pkt_sent, client_nick[p], c.nick, Head(c.queue).text)]>>

Counted(c) == [c EXCEPT !.queue[1].attempts = @ + 1]

Toggled(c) == [c EXCEPT !.last_pkt_sent = 1 - @]

\* send_message_to_contact for the contact c that is to be the i-th of list.
SendTo(net, p, list, i, c) ==
  /\ WithContact(p, [list EXCEPT ![i] = Counted(c)])
  /\ send_packet(net, c.addr, PktFor(p, c))

send_next_message_to_contact(net, p, list, i, c) ==
  \/ c.queue # <<>> /\ SendTo(net, p, list, i, Toggled(c))
  \/ /\ c.queue = <<>>
     /\ WithContact(p, [list EXCEPT ![i] = c])
     /\ inbox' = net
     /\ UNCHANGED losses

-----------------------------------------------------------------------------
(* The server.                                                             *)

\* The record that a registration leaves; a request that is not recognised changes nothing.
Registered(text, q) ==
  LET parsed == parse_message(text, 4) IN
  IF is_reg_message(parsed) THEN [record EXCEPT ![Head(parsed[4])] = q] ELSE record

\* The answer to a lookup.
Answer(text) ==
  LET parsed == parse_message(text, 4)
      n      == Head(parsed[4])
  IN  IF n \in Nick /\ record[n] # NoPort
      THEN FoundAnswer(parsed[2], n, record[n])
      ELSE NotFoundAnswer(parsed[2])

\* The nick and port the client takes from an answer, if there are any.
LookedUp(text) ==
  LET parsed == parse_message(text, 8) IN
  IF text = NotFoundAnswer(<<"0">>) THEN {}
  ELSE {[nick |-> Head(parsed[4]), addr |-> Head(parsed[8])]}

\* A lookup finds that no heartbeat of a nick arrived for 30 seconds.
Expire(n) ==
  /\ record[n] # NoPort
  /\ \A p \in Owners(n) : Running(p) /\ port[p] = record[n] => p \in Unheard
  /\ record' = [record EXCEPT ![n] = NoPort]
  /\ UNCHANGED <<state, port, starts, contacts, inbox, answers, losses, typed, misled>>

-----------------------------------------------------------------------------
(* Lookups.                                                                *)

Served(n) == [asked |-> n, text |-> Answer(LookupMessage(0, n))]

\* lookup_user_on_server takes the first answer, whoever that one was looked up for;
\* the server may have read its request long ago, or only now.
Taken(p, n) ==
  LET first == Head(Append(answers[port[p]], Served(n))) IN
  {LookedUp(first.text), LookedUp(Served(first.asked).text)}

Unread(box) == UNION {{q} \X DOMAIN box[q] : q \in Port}

\* Of up to three requests the server gets k; the client reads one answer.
LeaveAnswers(p, n) ==
  \E k \in 0 .. 3 :
    LET waiting == answers[port[p]] \o [i \in 1 .. k |-> Served(n)] IN
    /\ waiting # <<>>
    /\ answers' = [answers EXCEPT ![port[p]] = Tail(waiting)]
    /\ Cardinality(Unread(answers')) <= MaxLate

-----------------------------------------------------------------------------
(* The life of a client.                                                   *)

Init ==
  /\ state = [p \in Process |-> "off"]
  /\ port = [p \in Process |-> NoPort]
  /\ starts = [p \in Process |-> 0]
  /\ contacts = [p \in Process |-> <<>>]
  /\ inbox = [q \in Port |-> <<>>]
  /\ record = [n \in Nick |-> NoPort]
  /\ answers = [q \in Port |-> <<>>]
  /\ losses = 0
  /\ typed = [p \in Process |-> <<>>]
  /\ misled = {}

Free == Port \ {port[p] : p \in Process}

\* The requests from the port that the server is still to read are read after this.
Launch(p, q) ==
  /\ state[p] = "off" /\ starts[p] < MaxStarts[p]
  /\ q \in Free
  /\ port' = [port EXCEPT ![p] = q]
  /\ starts' = [starts EXCEPT ![p] = @ + 1]
  /\ answers' = [answers EXCEPT ![q] = [i \in DOMAIN @ |-> Served(@[i].asked)]]
  /\ UNCHANGED <<contacts, inbox, typed, misled>>

StartAnswered(p, q) ==
  /\ Launch(p, q)
  /\ state' = [state EXCEPT ![p] = "connected"]
  /\ record' = Registered(RegMessage(0, client_nick[p]), q)
  /\ UNCHANGED losses

\* The registration is dropped, or the answer to it.
StartUnanswered(p, q) ==
  /\ Launch(p, q)
  /\ losses < MaxLoss /\ losses' = losses + 1
  /\ state' = [state EXCEPT ![p] = "starting"]
  /\ record' \in {record, Registered(RegMessage(0, client_nick[p]), q)}

\* The first select returns for any datagram, and leaves it at the socket.
StrayAnswer(p) ==
  /\ state[p] = "starting"
  /\ inbox[port[p]] # <<>> \/ answers[port[p]] # <<>>
  /\ state' = [state EXCEPT ![p] = "connected"]
  /\ UNCHANGED <<port, starts, contacts, inbox, record, answers, losses, typed, misled>>

Heartbeat(p) ==
  /\ Running(p)
  /\ record' = Registered(RegMessage(0, client_nick[p]), port[p])
  /\ UNCHANGED <<state, port, starts, contacts, inbox, answers, losses, typed, misled>>

\* The process ends: its lists are freed and its socket is closed, with the answers to
\* the requests that the server has read.
End(p, how) ==
  /\ state' = [state EXCEPT ![p] = how]
  /\ port' = [port EXCEPT ![p] = NoPort]
  /\ contacts' = [contacts EXCEPT ![p] = <<>>]
  /\ inbox' = [inbox EXCEPT ![port[p]] = <<>>]
  /\ \E i \in 0 .. Len(answers[port[p]]) :
       answers' = [answers EXCEPT ![port[p]] = SubSeq(@, i + 1, Len(@))]
  /\ UNCHANGED <<starts, record, losses, typed, misled>>

\* QUIT, SIGINT, a server that does not answer the start-up or three lookups.
Quit(p) == state[p] \in {"starting", "connected"} /\ End(p, "off")

-----------------------------------------------------------------------------
(* A line of standard input.                                               *)

\* create_contact is given the nick of the answer.
Misled(p, n, found) == misled' = IF found.nick # n THEN misled \cup {p} ELSE misled

Enqueued(c, message) == [c EXCEPT !.queue = Append(@, message)]

\* The message goes to the i-th contact of list, and is sent if it is alone there.
Queue(net, p, list, i, message) ==
  LET c == Enqueued(list[i], message) IN
  \/ Len(c.queue) = 1 /\ send_next_message_to_contact(net, p, list, i, c)
  \/ /\ Len(c.queue) > 1
     /\ WithContact(p, [list EXCEPT ![i] = c])
     /\ inbox' = net
     /\ UNCHANGED losses

Type(p, line) ==
  LET n       == recipient_nick(line)
      message == [text |-> recipient_message(line), attempts |-> 0,
                  id |-> [by |-> p, turn |-> Len(typed[p]) + 1]]
      i       == find_contact_by_nick(contacts[p], n)
  IN
  /\ Running(p) /\ line \in MayType[p] /\ Len(typed[p]) < MaxTyped[p]
  /\ IsClientInput(line)
  /\ typed' = [typed EXCEPT ![p] = Append(@, [to |-> n, text |-> message.text])]
  /\ \/ /\ i # 0 /\ Queue(inbox, p, contacts[p], i, message)
        /\ UNCHANGED <<answers, misled>>
     \/ /\ i = 0 /\ LeaveAnswers(p, n)
        /\ \E answer \in Taken(p, n) :
             \/ \E net \in AfterLookup(inbox, p), found \in answer :
                  /\ Queue(net, p, <<create_contact(found.nick, found.addr)>> \o contacts[p],
                           1, message)
                  /\ Misled(p, n, found)
             \/ /\ answer = {}
                /\ inbox' \in AfterLookup(inbox, p)
                /\ UNCHANGED <<contacts, losses, misled>>
  /\ UNCHANGED <<state, port, starts, record>>

-----------------------------------------------------------------------------
(* A datagram at the socket.                                               *)

Arrived(p) == Running(p) /\ inbox[port[p]] # <<>>

Parsed(d) == parse_message(d.text, 8)

IsAck(d) == Parsed(d)[1] = <<"ACK">>

\* Faulty variant: every packet is taken.
ForUs_Unchecked(p, d) == TRUE

\* "we have to make sure the message was for us" (upush_client.c:310)
ForUs(p, d) == Parsed(d)[6] = <<client_nick[p]>>

\* Faulty variant: a packet is new whatever its number.
IsNew_Always(c, num) == TRUE

IsNew(c, num) == num # c.last_pkt_received

\* The packet is printed if it is new, and acknowledged to the address in the contact.
Accept(net, p, list, i, d) ==
  LET c   == list[i]
      num == atoi(Parsed(d)[2])
  IN
  /\ WithContact(p, IF IsNew(c, num)
                    THEN [list EXCEPT ![i].last_pkt_received = num,
                                      ![i].shown = Append(@, [text |-> Parsed(d)[8],
                                                              id |-> d.id])]
                    ELSE list)
  /\ send_packet(net, c.addr, <<[from |-> port[p], id |-> d.id, text |-> AckMessage(num)]>>)

ReceivePkt(p) ==
  LET d == Head(inbox[port[p]])
      n == Head(Parsed(d)[4])
      i == find_contact_by_nick(contacts[p], n)
  IN
  /\ Arrived(p) /\ ~ IsAck(d) /\ ForUs(p, d)
  /\ \/ /\ i # 0 /\ Accept(Received(p), p, contacts[p], i, d)
        /\ UNCHANGED <<answers, misled>>
     \/ /\ i = 0 /\ LeaveAnswers(p, n)
        /\ \E answer \in Taken(p, n) :
             \/ \E net \in AfterLookup(Received(p), p), found \in answer :
                  /\ Accept(net, p, <<create_contact(found.nick, found.addr)>> \o contacts[p],
                            1, d)
                  /\ Misled(p, n, found)
             \/ /\ answer = {}
                /\ inbox' \in AfterLookup(Received(p), p)
                /\ UNCHANGED <<contacts, losses, misled>>
  /\ UNCHANGED <<state, port, starts, record, typed>>

SkipPkt(p) ==
  /\ Arrived(p)
  /\ LET d == Head(inbox[port[p]]) IN ~ IsAck(d) /\ ~ ForUs(p, d)
  /\ inbox' = Received(p)
  /\ UNCHANGED <<state, port, starts, contacts, record, answers, losses, typed, misled>>

\* A datagram of the server is dropped (upush_client.c:279).
IgnoreAnswer(p) ==
  /\ Running(p) /\ answers[port[p]] # <<>>
  /\ answers' = [answers EXCEPT ![port[p]] = Tail(@)]
  /\ UNCHANGED <<state, port, starts, contacts, inbox, record, losses, typed, misled>>

\* register_ack_message for the newest contact with the address the ACK came from.
ReceiveAck(p) ==
  LET d == Head(inbox[port[p]])
      i == find_contact_by_addr(contacts[p], d.from)
  IN
  /\ Arrived(p) /\ IsAck(d)
  /\ \/ /\ i # 0 /\ contacts[p][i].queue # <<>>
        /\ send_next_message_to_contact(Received(p), p, contacts[p], i,
                                        [contacts[p][i] EXCEPT !.queue = Tail(@)])
     \/ /\ i = 0
        /\ inbox' = Received(p)
        /\ UNCHANGED <<contacts, losses>>
  /\ UNCHANGED <<state, port, starts, record, answers, typed, misled>>

\* The contact with that address has no message: pop_message dereferences NULL.
ReceiveAckForNothing(p) ==
  LET i == find_contact_by_addr(contacts[p], Head(inbox[port[p]]).from) IN
  /\ Arrived(p) /\ IsAck(Head(inbox[port[p]]))
  /\ i # 0 /\ contacts[p][i].queue = <<>>
  /\ End(p, "crashed")

-----------------------------------------------------------------------------
(* A contact whose timer has expired.  Timers are patient: none expires    *)
(* while a datagram of the message waits at a socket.                      *)

Late(p, i) ==
  /\ Running(p)
  /\ i \in DOMAIN contacts[p] /\ contacts[p][i].queue # <<>>
  /\ \A q \in Port : \A j \in DOMAIN inbox[q] :
       inbox[q][j].id # Head(contacts[p][i].queue).id

Attempts(p, i) == Head(contacts[p][i].queue).attempts

\* Faulty variant: a packet that is sent again takes the next number.
Resend_Toggles(p, i) ==
  /\ Late(p, i) /\ Attempts(p, i) \notin {2, 4}
  /\ SendTo(inbox, p, contacts[p], i, Toggled(contacts[p][i]))
  /\ UNCHANGED <<state, port, starts, record, answers, typed, misled>>

\* Faulty variant: no limit on the number of attempts.
Resend_Unlimited(p, i) ==
  /\ Late(p, i) /\ Attempts(p, i) # 2
  /\ SendTo(inbox, p, contacts[p], i, contacts[p][i])
  /\ UNCHANGED <<state, port, starts, record, answers, typed, misled>>

Resend(p, i) ==
  /\ Late(p, i) /\ Attempts(p, i) \notin {2, 4}
  /\ SendTo(inbox, p, contacts[p], i, contacts[p][i])
  /\ UNCHANGED <<state, port, starts, record, answers, typed, misled>>

\* The third attempt goes to the address in the answer, if any: the nick is not read.
ResendAfterLookup(p, i) ==
  LET c == contacts[p][i] IN
  /\ Late(p, i) /\ Attempts(p, i) = 2
  /\ LeaveAnswers(p, c.nick)
  /\ \E net \in AfterLookup(inbox, p), answer \in Taken(p, c.nick) :
       \/ \E found \in answer :
            SendTo(net, p, contacts[p], i, [c EXCEPT !.addr = found.addr])
       \/ /\ answer = {}
          /\ WithContact(p, [contacts[p] EXCEPT ![i].queue = Tail(@)])
          /\ inbox' = net
          /\ UNCHANGED losses
  /\ UNCHANGED <<state, port, starts, record, typed, misled>>

GiveUp(p, i) ==
  /\ Late(p, i) /\ Attempts(p, i) = 4
  /\ WithContact(p, RemoveAt(contacts[p], i))
  /\ UNCHANGED <<state, port, starts, inbox, record, answers, losses, typed, misled>>

-----------------------------------------------------------------------------
Lines == UNION {MayType[p] : p \in Process}

ClientStep(p) ==
  \/ \E q \in Port : StartAnswered(p, q) \/ StartUnanswered(p, q)
  \/ StrayAnswer(p) \/ Heartbeat(p) \/ Quit(p)
  \/ \E line \in Lines : Type(p, line)
  \/ ReceivePkt(p) \/ SkipPkt(p) \/ ReceiveAck(p) \/ ReceiveAckForNothing(p)
  \/ IgnoreAnswer(p)
  \/ \E i \in DOMAIN contacts[p] :
       Resend(p, i) \/ ResendAfterLookup(p, i) \/ GiveUp(p, i)

Next == (\E p \in Process : ClientStep(p)) \/ (\E n \in Nick : Expire(n))

Spec == Init /\ [][Next]_vars

-----------------------------------------------------------------------------
(* Properties.                                                             *)

Id      == [by : Process, turn : Nat]
Message == [text : {t.text : t \in UNION {Range(typed[p]) : p \in Process}},
            id : Id, attempts : 0 .. 4]
Shown   == [text : {t.text : t \in UNION {Range(typed[p]) : p \in Process}}, id : Id]
Contact == [nick : Nick, addr : Port, queue : Seq(Message), last_pkt_sent : {0, 1},
            last_pkt_received : {-1, 0, 1}, shown : Seq(Shown)]

\* Processes, contacts, sockets and records keep their types; a process has a port
\* exactly while it runs, and no two processes have the same one.
TypeOK ==
  /\ state \in [Process -> {"off", "starting", "connected", "crashed"}]
  /\ port \in [Process -> Port \cup {NoPort}]
  /\ starts \in [Process -> Nat]
  /\ contacts \in [Process -> Seq(Contact)]
  /\ DOMAIN inbox = Port
  /\ \A q \in Port : \A d \in Range(inbox[q]) :
       d.from \in Port /\ d.id \in Id /\ IsText(d.text)
  /\ record \in [Nick -> Port \cup {NoPort}]
  /\ DOMAIN answers = Port
  /\ \A q \in Port : \A a \in Range(answers[q]) :
       \A found \in LookedUp(a.text) : found.nick \in Nick /\ found.addr \in Port
  /\ losses \in Nat
  /\ DOMAIN typed = Process
  /\ misled \subseteq Process
  /\ \A p \in Process : (port[p] = NoPort) = (state[p] \in {"off", "crashed"})
  /\ \A p, q \in Process : port[p] = port[q] /\ port[p] # NoPort => p = q

\* Whatever a client prints was typed by somebody for the nick the client has, and is
\* printed unchanged under that author's nick, wherever stale addresses, ports that
\* were bound again and start-ups on stray datagrams have led it (upush_client.c:311,
\* 339).  A late answer takes from this what it must, and no more: a line may reach
\* another nick than it was typed for only if its author made a contact of a nick it
\* had not asked for (238), and may be printed under another nick only if the client
\* that prints it did (321).
ShownAsTyped ==
  \A p \in Process : \A c \in Range(contacts[p]) : \A e \in Range(c.shown) :
    /\ typed[e.id.by][e.id.turn].text = e.text
    /\ e.id.by \notin misled => typed[e.id.by][e.id.turn].to = client_nick[p]
    /\ p \notin misled => client_nick[e.id.by] = c.nick

\* Every datagram a client may receive parses to all the words its handler reads:
\* the number of an ACK, and the number, sender, recipient and text of a packet
\* (upush_client.c:306, 311, 317, 339).
HandlersFindWords ==
  \A q \in Port : \A d \in Range(inbox[q]) :
    IF IsAck(d) THEN Len(Parsed(d)) >= 2 ELSE Len(Parsed(d)) = 8

\* parse_message does what common.h:63 says with every datagram that waits at a
\* socket; and, compared once, with every text of up to six words and spaces.
ParsesAsDocumented ==
  LET waiting == UNION {{d.text : d \in Range(inbox[q])} : q \in Port}
      others  == IF starts = [p \in Process |-> 0] THEN TextsOver({"x", "y"}, 6) ELSE {}
  IN  /\ \A t \in waiting : AsDocumented(t, 8)
      /\ \A t \in others, max \in {2, 3, 4, 8} : AsDocumented(t, max)

\* What a contact was seen to say appears in the order in which it was typed and no
\* message twice, also when the sender or the recipient starts again on another
\* port, as long as the nick has one owner and no late answer made a contact of
\* another nick for either of the two.
ShownInOrder ==
  \A p \in Process : \A c \in Range(contacts[p]) :
    /\ \A q, r \in Owners(c.nick) : q = r
    /\ (Owners(c.nick) \cup {p}) \cap misled = {}
    => \A i, j \in DOMAIN c.shown : i < j => c.shown[i].id.turn < c.shown[j].id.turn

\* A packet that its recipient has not printed is new to it: "is this a new message
\* which we haven't seen before?" (upush_client.c:334).
NewMessageIsNew ==
  [][\A p \in Process :
       LET d == Head(inbox[port[p]]) IN
       (Arrived(p) /\ ReceivePkt(p) /\ ~ IsAck(d)) =>
         \A i \in DOMAIN contacts[p] :
           contacts[p][i].nick = Head(Parsed(d)[4]) =>
             \E e \in Range(contacts'[p][i].shown) : e.id = d.id]_vars
=============================================================================
