# UPUSH in TLA+

A verification project for UPUSH, a chat service over UDP: a name server, and
clients that send each other messages with a stop-and-wait protocol over a network
that loses datagrams. The modules model the program in `src/`; TLC checks them on
small instances and TLAPS proves the theorems listed below for every value of the
constants. `PROJECT.json` maps every definition to the lines it models and lists the
runs, faulty variants, findings, hazards and theorems.

## The system

| Part | Source | State | Operations |
|---|---|---|---|
| client event loop | `upush_client.c` | descriptors, `last_heartbeat_time` | start-up, `select`, heartbeat, resend, stdin, socket, quit |
| client to client | `client_to_client_com.c` | queue head, packet number and timer of each contact | send, resend, register an ACK, give up |
| client to server | `client_to_server_com.c`, `client_server.c` | the server's address, `last_ack_received` | registration, blocking lookup in three attempts |
| contacts, messages | `contact*.c`, `message*.c` | nick, address, queue, `last_pkt_sent`, `last_pkt_received`; payload, `attempts` | create, find, iterate, detach, free |
| blocked nicks | `blocked_nick*.c` | list of nicks | block, unblock, test |
| server | `upush_server.c`, `server_client*.c` | list of nick, ip, port, `last_heartbeat` | register, look up, expire, quit |
| linked list | `base_linked_list.c` | doubly linked nodes between two sentinels | add at the head, pop at the tail, find, remove, iterate, free |
| network | `send_packet.c` | loss probability | drop or send |
| helpers | `common.c`, `time_functions.c` | none | parsing, addresses, time arithmetic |

Every process is single threaded. Processes interact only by datagrams: client to
server `REG` and `LOOKUP`, answered `OK`, `NICK ... IP ... PORT ...` or `NOT FOUND`;
client to client `PKT` with a number 0 or 1, answered `ACK` with that number. One
socket of a client receives all of it, which is where most of the difficulty lies:

- a blocking lookup runs inside an iteration of the event loop, receives from the same
  socket, and drops what is not the server's;
- timers are looked at before the socket is read, so a message may be sent again
  while its ACK waits;
- neither the number of an ACK nor that of a server's answer is compared with anything;
- giving a contact up resets the packet numbers at one end only;
- heartbeats are sent between iterations, and an iteration may block for long;
- SIGINT runs `quit_client` at any instruction, also inside an operation on a list;
- addresses are cached in contacts, and a client that starts again has another port,
  which may be one that somebody else gave up;
- whatever reaches the socket before the first `select` counts as the server's answer.

What makes the parts correct: messages are shown once and in order (protocol); at
most one message per contact is outstanding, at most four times (queues); every
message leaves its queue (liveness); an operation on a list is never applied to an
empty one; the result of a lookup is about the nick asked for, and every lookup ends
(client to server); answers are those of the last fresh registration (server); a
client that runs registers in bounded time and is found while its registration is fresh
(client and server together). Each hazard is listed at its
line in `PROJECT.json`, with the properties aimed at it.

## Modules

| Module | What it is |
|---|---|
| `ChatClients` | clients in their event loops, contacts, queues, sockets and losses |
| `Conversation` | abstract: what a conversation promises about messages typed and shown |
| `ClientLookup` | one client's blocking lookup, with stale answers and heartbeats |
| `ServerRegistry` | the server and its records, for arbitrary sequences of requests |
| `NameService` | abstract: lookups answered from the last registration |
| `BaseLinkedList` | the doubly linked list, its loops, its iterator and SIGINT, at the level of pointers |
| `OrderedList` | abstract: a sequence that is searched, popped and iterated over |
| `Presence` | `ServerRegistry` composed with the clients' start-up and heartbeats, in time |
| `UpushSystem` | clients that start again on other ports, cached addresses, the server's records and the texts they exchange |
| `Datagrams` | how lines and datagrams are formatted, parsed and recognised |
| `TimeFunctions` | the arithmetic on `struct timeval`, with its theorems |
| `ChatClientsProofs`, `ConversationProofs`, `ClientLookupProofs`, `ServerRegistryProofs`, `PresenceProofs`, `BaseLinkedListProofs`, `UpushSystemProofs` | theorems and proofs |
| `MC*` | instances for TLC; one `.cfg` per run |

Operators ending in `_Something` under a comment "Faulty variant" are not part of the
specifications: each is the definition that follows it with a plausible bug, and shows
that a property can fail.

### ChatClients

A step is the code between two points where a client waits or hands over: `Select`
is the return of `select`; `Resend`, `LookupAgain` and `GiveUp` are one contact's turn in
`resend_pending_messages`; `Block` to `TypeToStranger` serve one line of stdin;
`ReceivePkt` to `PopEmptyQueue` serve one datagram; `LookupIgnores`, the `FoundFor`
and `NotFoundFor` actions and `ServerSilent` are the lookup, seen from the caller it
returns to. `pc` is the point in the loop, `ready` the descriptor that `copy_fds`
says is readable and that the iteration will serve (stdin wins: the code `continue`s
after it), `due` the contacts whose timer is found expired. A heartbeat changes
nothing here and ends the iteration, so it is a stuttering step.

Abstractions, and why they are sound for what is checked:

- A message is its turn among those typed to one recipient. The history variables
  `typed`, `accepted`, `screen` and `recordStart` record what was typed, taken as new,
  printed, and printed before the contact record was last created anew; no guard
  of the code's actions reads them but `typed`, for its bound.
- A client is its nick and its address. Clients that start again, where the cached
  address matters, are in `UpushSystem`. The model starts with connected clients.
- `contact->last_ack_received` is written and never read by the program; it is left out.
- All expired timers of one iteration are chosen at `Select`, although the code reads
  the clock for each contact. A lookup for one contact may make the next one late;
  the model covers it, since any set of contacts may be chosen at `Select`.
- Datagrams from one sender to one recipient stay in order (`inbox[r][s]` is a queue).
  The run targets of the makefile use the loopback address, where UDP keeps the order.
  Datagrams of different senders are read in any order. Each queue holds
  `SocketBuffer` datagrams; what does not fit is lost, like in the kernel's buffer.
- Failures of `malloc` and of system calls, which quit the client, are the `Quit` of a
  client in `MayQuit`.

`Patient` separates two environments. FALSE: timers may fire at any moment, which is
what the code permits (`timeout_sec` may be 0, and the timer is compared before the
socket is read). TRUE: no timer fires while a packet, its ACK or the recipient's
lookup for it is under way. The design document notes that the protocol
behaves oddly when the clients' timeouts differ much; `Patient` rules that out.

### ServerRegistry, NameService, Presence

`register_client` and `lookup_client` are atomic: the server handles one datagram at a
time and shares nothing. `lookup_client` has three cases (unknown, stale, found). The
list is a set; `OneRecordPerNick` is what makes the order of a search immaterial.
`update_client` keeps the comparison of upush_server.c:60 as it is written. `Restart`
is SIGINT (which makes `select` return with an error, so that the server quits) followed by
a new start. Requests arrive in any order and number.

`Presence` adds what clients do. A client is off, starting (in the first `select`), or in its
loop, idle or busy in an iteration. `StartHeard` and `StartLost` send the first registration;
`FirstDatagram` is the first `select` returning. Any datagram ends that `select`, and a stray
one may come whether or not the registration arrived, so `FirstDatagram` has no
condition: the client is then connected, perhaps with no record or with one that an
earlier start left. `last_heartbeat_time` is taken there and not when the registration was sent,
up to `Timeout` seconds later. `Disconnect` is the end of a client in any of these states,
the first `select` timing out included. Heartbeats arrive or are lost, an iteration takes at
most `Delay` seconds, and the server restarts. `TimePasses` says that an idle loop, which
polls every half second, notices within the second that a heartbeat is due. `Delay` stands
for the lookups one iteration may be blocked in, each at most three timeouts long. A
registration that arrives does so at once: on the loopback address none overtakes another.

`ConnectedIsFound` has two parts. A client that runs was registered, or started, no more than
`Silence = Timeout + (MaxMissed + 1) * (Period + Delay)` seconds ago. And once a
registration of its socket has arrived, a lookup finds it at that socket until this
registration is older than `Expiry` or the server was restarted after it. With the
code's period of 10 and expiry of 30 seconds, and the timeouts of the makefile's run targets
(4, 5 and 8 seconds, so 12 to 24 seconds for one lookup of three attempts), `Silence` is
10 + 24 + 8 = 42 seconds for a timeout of 8 with nothing lost and one lookup that is answered at
its last attempt: a client may be connected and not be found, and the property says when and
for how long.
The instance of the run has `Silence > Expiry` as well. Where `Silence <= Expiry`, the exception
for stale registrations never applies.

### ClientLookup

One client's lookups, one after the other, with the datagrams to and from the server
in order. Heartbeats are sent and answered between lookups, so their answers may be
read inside the next one and are ignored there (`IgnoreOK`). Datagrams of other
clients, which the loop drops, are in `ChatClients`. `registered` changes freely; how
the server decides is `ServerRegistry`'s subject. `wasIn`, `wasOut` and `answered` are
histories of the lookup. `Patient` here: no attempt times out while its request
or answer is under way. An answer may contain OK because its nick does.

### BaseLinkedList, OrderedList

`next`, `prev` and `data` are the fields of the nodes, `allocated` the nodes that malloc
gave out and nobody freed; a freed cell may be given out again. A loop over the list is
stepped through: `ll_find_by_matching_data`, `ll_pop_on_match` and `ll_free_linked_list`
begin one, `Skip`, `Found`, `Taken`, `Missed`, `FreeNode` and `FreeSentinels` are its turns.
What `cmp` accepts is a set of objects. `ll_contains_matching_data` takes the steps of a
find; `ll_base_list_size` and `ll_do_on_each` only read. While an iterator is in use the program does one thing to the
list: `resend_message_to_contact` detaches the contact the iterator has just returned
(client_to_client_com.c:43), or the client quits. The contents of `ChatClients`' queues
and contacts are lists of this kind, with operations that are not interrupted.

The refinement maps the list to `items`, the data along `chain`. `result` names the
operation that returned, what it looked for and what it returned, so that a pop of the
wrong end is not mistaken for some other operation. The abstract `EndIteration` needs
`todo` empty: an iteration returns every item the list had when it began, although
the program removes nodes during it.

SIGINT calls `quit_client`, which destroys the list as it finds it and never returns.
`Sigint` comes between operations or between two turns of a loop, `SigintInAdd` and
`SigintInDetach` after the first `k` of the four assignments of `ll_insert_node_between`
and `ll_dettach_node`; `quit_client` may also interrupt its own loop in main. The
handler is not interrupted again, because `signal` blocks SIGINT while it runs, and
`malloc` and `free` are taken to be atomic. `DestructionIsSafe` says that the order of
the eight assignments is right for this: the handler meets allocated nodes only, and
at most the node being linked or detached is lost. `Destroy` of `OrderedList` therefore
may find one item more or less. One interruption is not safe, and the model shows it
as a crash: after main's own call has freed the sentinels (`SigintTooLate`).

### UpushSystem, Datagrams

`UpushSystem` composes what the other modules separate: a process is off, starting,
connected or crashed, its socket is bound to a port while it runs, and it may start
again on any port that is free, also one that another process gave up and that is
still cached in contacts. Two processes may have one nick. A contact is a record with
a nick, a cached address, a queue and the packet numbers, in the order of
`contact_list`, and is found by its nick or by its address, as in the code. The
server is its records, nick to port; a lookup reads the answer with the same
`parse_message` as the client does.

A line of input, a datagram, or a contact's turn to resend is one step, with the lookup
made for it. The interleavings inside an iteration are in `ChatClients` and inside a
lookup in `ClientLookup`. A lookup does two things to the rest of the system. It drops the
datagrams of clients that reach the socket before the answer: `AfterLookup`, any
number of those that wait. And it takes the first answer there is, to whatever request
(client_to_server_com.c:84), and leaves the others: `answers` holds, for each port, what was
asked from it and what the server answered and nobody has read. `LeaveAnswers` puts the
answers to up to three requests behind those that wait, and removes the first; `Taken` is
what the client makes of it. A request may still be on its way when it is counted
among `answers`, so `Taken` reads it either as it was served then or as it would be
now. Hence typing a line, or a packet from a stranger, may create a contact with another nick
than was looked up, or a second contact of one nick (upush_client.c:238, 321), and a resend may get
the address of another nick. `misled` remembers who made a contact of a nick it had not
asked for. In the event loop answers of the server are dropped (`IgnoreAnswer`). The record
of a nick does not change between the answer that is taken and the end of that lookup.
Answers to a port whose process ended go to whoever binds it next (`Launch`) if the request
had not been served, and are lost with the socket if it had (`End`).

`StartUnanswered` is a start whose registration or whose
answer is lost, and `StrayAnswer` the first `select` returning for another datagram,
so that a client is connected although the server may not know it. Timers are patient,
as with `Patient` in `ChatClients`. Any record may expire, but those of running owners only if
they are in `Unheard`: a client in long lookups, or whose heartbeats are lost, is not
heard for more than `Expiry` seconds (see `ConnectedIsFound`). The theorems hold for any
`Unheard`, the run has one of the two owners of a nick there. `End` frees the contacts;
typed lines and the `shown` of a contact are histories. An ACK for a contact without
messages (possible when two contacts or two processes share an address one after the
other) crashes the client, `ReceiveAckForNothing`. Blocked nicks are in `ChatClients` only.

`Datagrams` is about texts: sequences of words and single spaces, where a word is an
atom. That is what `strtok` with a space, the comparisons of words and the formats of
`sprintf` tell apart. `parse_message` returns the first words and, as a last element, what
follows one space behind them, spaces included; `IsClientInput` is `parse_client_input`'s
verdict on what follows the `@`, `IsRequest` the server's on a request. `BadNick` and
`BadMessage` are the words that the checks of length and characters refuse.

### TimeFunctions

The functions of `time_functions.c` on normalised times, with the theorems that
`compare_time` orders moments and that a difference is the distance of two moments,
normalised and never negative. The program calls `set_time` alone.

## Runs

All configurations of `ChatClients`, `ClientLookup`, `BaseLinkedList` and `UpushSystem` set
`CHECK_DEADLOCK FALSE`: all clients may have quit for good, a client that quit or terminated takes
no step, and a list that is freed is not used. In
`ServerRegistry` and `Presence` some action is always enabled.

| Run | Checks | Bounds and why they suffice |
|---|---|---|
| `one_way` | `TypeOK`, `OneOutstanding`, `OrderedConversation` | 3 messages (head, next, and one behind it), 2 losses, premature timers, all lookup outcomes, the recipient quits, blocks and unblocks. Four attempts are reached by dropped datagrams of a recipient that is down or in a lookup |
| `patient` | `NeverPopsEmpty`, `OrderedConversation`, `HeadSettles` | 2 messages one way and 1 the other, 1 loss, all lookup outcomes; one client quits, so that all four attempts are made and contacts are given up |
| `reliable` | `AckIsForHead`, `ExactConversation`, `EveryMessageShown` | 3 messages, 3 losses: one less than the four attempts. All nicks are found |
| `presence` | `PresenceTypeOK`, `OneRecordPerNick`, `ConnectedIsFound`, `IsNameService` | two nicks, one with two ports; period, delay and timeout 1, one loss in a row, so that `Silence` is 5 and is reached; expiry 3, so that records of clients that run go stale, are removed by lookups and made again. Clock to 6, one more than `Silence`: a client that is a second late is seen |
| `linked_list` | `TypeOK`, `Linked`, `DestructionIsSafe`, `IteratorIsValid`, `IsOrderedList` | 3 nodes and 3 objects: a node between two others, and as many nodes again after they were freed; every set of objects as what a comparison accepts; SIGINT after every assignment |
| `system` | `TypeOK`, `ShownAsTyped`, `HandlersFindWords`, `ShownInOrder`, `ParsesAsDocumented` | one nick with one owner, who starts twice, and one with two owners; 3 ports, so that each can be bound again by another process, and symmetric, because no step tells one from another; 2 lines of one client (head and next), 1 loss, 1 answer that nobody has read, one client whose record may expire while it runs; lines with several spaces, a trailing space, a nick alone, and a nick that is too long. `ParsesAsDocumented` compares, besides the datagrams, every text of up to six words and spaces |
| `lookup` | `TypeOK`, `ReplyIsForLookup`, `TerminatesUnanswered`, `EveryLookupEnds` | 2 nicks, one of which contains OK; 2 lookups, 2 heartbeats, 3 losses: enough to lose all three attempts |
| `ack_found` | `AckIsForHead` violated | a packet sent twice because its timer fired early |
| `blind_read` | `SocketHasDatagram` violated | a lookup while resending consumes the datagram |
| `swallow` | `NewMessageIsNew` violated | bounds of `system`: a sender starts again, the recipient remembers its last number |
| `registry_moves` | `ReportsLastAddress` violated | a nick registers from a second ip |
| `lookup_stale` | `ReplyIsForLookup` violated | an attempt times out early, its answer ends the next lookup |

`OrderedConversation` and `ExactConversation` are refinements: `ChatClients` implements
`Conversation` with the identity mapping on `typed`, `screen` and `recordStart`. The
first allows a repeated or skipped message only as the code can produce it: messages
are shown in order, and one is shown twice only if the recipient deleted the sender's
contact in between. The second allows neither, under `Patient`, losses below the number
of attempts, and a server that finds every nick.

What the violated runs show, with the lines they contradict, is under "findings" in
`PROJECT.json`. In short: an ACK pops whatever is at the head, so that the second ACK
of a message sent twice drops the next message unseen, or pops an empty list and
dereferences NULL; a client can hang in `recvfrom` for a datagram its own lookup
consumed; the first message after a client started again, or after a contact was given up,
can be dropped as a duplicate;
a changed ip is never stored; a late answer of the server is taken for the next lookup's.

The hang has a consequence for liveness: a client that hangs with messages queued, and
to which nobody writes any more, never sends them. `HeadSettles` excepts exactly this
(`HangsInRead`); without the exception TLC finds the hang as its counterexample.

`system` says what is left of the promises when addresses change and nicks are shared.
A message is never shown under a nick whose owner did not type it for the nick of the
reader, because both ends compare nicks and not addresses; which of two owners of a
nick gets it is a matter of who registered last. Within the life of one contact record
of a nick with one owner, messages stay in order also over restarts, but some may be
swallowed (`swallow`). Late answers are the exception, and the properties say how far it
reaches. A client that was given the answer to an earlier lookup makes a contact of the
nick in it: what its user typed for one nick is then queued for, sent to and shown by
another; a packet from one stranger is shown from another nick's contact; and two
contacts of one nick have packet numbers of their own, so that a message resent from the
older one is shown after younger ones. `ShownAsTyped` and `ShownInOrder` except the clients in
`misled`, each where it matters (the author for whom a text is meant, the reader for whose
nick it is shown under), and nothing else: whoever else talks to such a client is not
affected. TLC reaches each of these states if the exception is left out; for the order
it takes a third line.

### Fairness

`ChatClients`: weak fairness of the steps inside an iteration and of the end of a
lookup, because the code runs on without waiting (the lookup's three `select`s have
timeouts). Strong fairness of the `select` that finds a contact late, because `select`
returns every half second and time passes; and of the `select` that serves the
socket, because the user does not type for ever (stdin is served first, so a user who
never pauses does starve the socket, and so does a closed
standard input, which is always readable). Nothing is assumed of losses, which the bound
makes finite, of quitting, or of typing. `ClientLookup`: weak fairness of the steps
of a lookup that its `select` ends, and of the server. In Linux `select` leaves the
time that remains in `timeout`, so ignored datagrams do not extend an attempt.

## Proofs

TLAPS checks the following, for all constants that satisfy the named assumptions of
the modules.

| Theorem | Statement |
|---|---|
| `TimeFunctions!ComparesMoments`, `DifferenceIsDistance`, `SmallestIsSmallest` | what the functions on times compute, for all normalised times |
| `ChatClientsProofs!TypeCorrect` | `Spec => []TypeOK` |
| `ChatClientsProofs!OnlyHeadOutstanding` | `Spec => []OneOutstanding` |
| `ChatClientsProofs!PatientClientsNeverCrash` | `Spec => []NeverPopsEmpty`, if timers are patient |
| `ConversationProofs!ConversationsAgree` | `Spec => []ConversationInv`, the invariant of both ends of every conversation |
| `ConversationProofs!ImplementsConversation` | `Spec => OrderedConversation`, timers patient or not |
| `ConversationProofs!AckPopsItsMessage` | `[]AckIsForHead`, if timers are patient and as long as nothing is given up |
| `ConversationProofs!NothingGivenUp`, `TeamAcksItsMessages` | a `Team` gives nothing up; `Spec => []AckIsForHead` for it |
| `ConversationProofs!ExactUntilGivenUp` | `ExactConversation`, for clients that are `Undisturbed` and as long as nothing is given up |
| `ConversationProofs!TeamIsExact` | `Spec => ExactConversation`, for a `Team` that blocks nobody |
| `ClientLookupProofs!TypeCorrect` | `Spec => []TypeOK`, with at most three attempts |
| `ClientLookupProofs!AnsweredLookupReturns` | `Spec => []TerminatesUnanswered` |
| `ClientLookupProofs!PatientReplyIsForLookup` | `Spec => []ReplyIsForLookup`, if attempts are patient |
| `BaseLinkedListProofs!TypeCorrect`, `AlwaysLinked` | `Spec => []TypeOK`, `Spec => []Linked` |
| `BaseLinkedListProofs!IteratorNeverDangles` | `Spec => []IteratorIsValid` |
| `BaseLinkedListProofs!DestructionNeverDangles` | `Spec => []DestructionIsSafe` |
| `BaseLinkedListProofs!ImplementsOrderedList` | `Spec => IsOrderedList` |
| `UpushSystemProofs!TypeCorrect` | `Spec => []TypeOK` |
| `UpushSystemProofs!OnlyWhatWasTypedIsShown` | `Spec => []ShownAsTyped`, late answers included |
| `UpushSystemProofs!WordsAreThere` | `Spec => []HandlersFindWords` |
| `UpushSystemProofs!ShownAsOrdered` | `Spec => []ShownInOrder`, late answers included |
| `UpushSystemProofs!ParsesEveryText` | `AsDocumented(t, max)` for every text `t` and every `max > 1` |
| `UpushSystemProofs!ParsedAsDocumented` | `Spec => []ParsesAsDocumented` |
| `UpushSystemProofs!ParsesPkt`, `ParsesLine` | what `parse_message` makes of a packet, and of a line that is accepted, for all texts |
| `ServerRegistryProofs!TypeCorrect` | `Spec => []TypeOK` |
| `ServerRegistryProofs!RecordsAreUnique` | `Spec => []OneRecordPerNick` |
| `ServerRegistryProofs!ImplementsNameService` | `Spec => IsNameService`, if no nick changes its ip |
| `PresenceProofs!PresenceTypeCorrect` | `PresenceSpec => []PresenceTypeOK` |
| `PresenceProofs!PresenceImplementsRegistry` | `PresenceSpec => Spec` of `ServerRegistry`, so that its theorems hold of the composition |
| `PresenceProofs!ConnectedClientsAreFound` | `PresenceSpec => []ConnectedIsFound`, if no nick changes its ip; nothing is assumed of `Silence` and `Expiry` |

*Clients.* `IInv` is `TypeOK /\ LoopInv /\ OneOutstanding`. `TypeOK` alone is not
inductive: the head of a queue is read where a contact is due, and in a lookup made
for a resend. `LoopInv` says what the loop has established there: a contact that is
due, or that a resend looks up, is known and has a queued message, and `lookup` holds a
record exactly in the lookup. `OneOutstanding` needs that a resend of the head
happens below four attempts, which is the split of `Resend`, `LookupAgain` and `GiveUp`.

*Server.* The records agree with the history: a nick has a record when it is
registered, with the time and (while ips do not change) the address of the last
registration; a nick whose record was removed as stale is still registered in the
abstract service, where it is no longer fresh. From this every step maps to a step of
`NameService`.

*Presence.* `ConnectedIsFound` speaks of the last registration that arrived and of the server's
record; the invariant relates both to what the client knows. `Punctual`: in the loop
`last_heartbeat_time` is at most `Period` seconds old plus what an iteration has lasted; in the first
`select` at most `Timeout` seconds have passed. `Accounted`: `last_heartbeat_time` is at most
`Timeout + missed * Gap` later than the registration that arrived last, because the first
`select` may end late, and each registration that is lost costs a `Gap`; and from that
registration on every record of the nick is the one it left, and if there is none, it was
removed as stale or with the server. The first part of the property follows with
`missed <= MaxMissed`; the second needs that no other registration of the nick touches the
record, and that a lookup removes only what is older than `Expiry`. Nothing is assumed
about how `Silence` and `Expiry` compare.

*Patient clients.* `PatientInv` adds to `NeverPopsEmpty` what is true of every pair of
clients while no timer expires early (`PatientPair`): at most one thing is on its way
between them for a sender, which is a packet, the recipient's lookup for it, or its
acknowledgement, and meanwhile the queue is not empty and its contact is not due.
So an acknowledgement always finds a message to pop. Without patience the theorem is
false, which the run `ack_found` shows in another form.

*Conversation.* A contact's queue and number at one end, the packets under way, and what
the other end remembers are related by `ConversationInv`, one conjunct per ordered pair of
clients. Packets wait in the order of their messages (`InOrder`); a message has one number,
and nothing under way is younger than the queue (`Numbered`); what is accepted, under way,
queued and asked about was typed in that order (`Typed`); a recipient that remembers the
last message recognises every copy of it by its number (`Remembered`); and nothing on
the screen is younger than the last message accepted, while a contact that was never heard
has printed nothing since its record was made (`Shown`). The step from this to
`Conversation` is one lemma per action. It needs no patience: a message that
is acknowledged in place of another is missing on the screen, which the abstract
conversation allows, and a record that is deleted is its `Forget`.

*Acknowledgements.* An ACK is not compared with anything, so that `AckIsForHead` rests on what
is under way. `AgreeInv` says of every ordered pair that all copies of a packet under way have
the number and the message of the head of the queue; that a recipient which remembers that
number, or whose ACK is under way, has taken the head; and that with an empty queue it
remembers the sender's number or nothing. The last part is what a message given up breaks: the
recipient may not have seen its number, and a sender that deletes the contact starts with
number 0 again while the recipient does not. Hence the hypothesis `[][~ GivesUp]_vars`. Together with `PatientInv` this is inductive. Without
`Patient` the statement is false (`ack_found`).

*Teams.* A `Team` has the constants of the run `reliable` in general: patient timers, a server
that finds every nick, nobody quits, at most three losses, room for a datagram in each
socket, and each client writes to one partner at most, which writes to nobody. The last
condition is what the account below needs: a client in a lookup of its own throws away the
datagrams that reach its socket, and the bound on the network's losses does not cover
those. `TeamInv` accounts for the attempts: each one but that of the exchange under way has
cost a datagram (`Tried`), so that a message that is given up after four would have cost
four. `NothingGivenUp` discharges the hypothesis of the theorem above.

*Exact conversations.* `ExactInv` counts: with `b` messages acknowledged, the queue holds
the messages from `b + 1` on, the screen shows `1, 2, ...` up to the last one
accepted, which is `b` or, while its acknowledgement is missing, `b + 1`. Blocking is
excluded (`Undisturbed`), because a blocked sender's message is acknowledged unseen, and so
is quitting, because what waits at a socket that is closed is gone. A step of `OrderedConversation` that
prints then prints the next message, which is a step of the lossless `Conversation`.

*Lookup.* `AnswerWaits` carries `TerminatesUnanswered`: an answer the client cannot
mistake for another one's stays at the socket until the client takes it, so that the third
attempt is given up only when none came. `ReplyIsForLookup` holds if an attempt is repeated
only when nothing of it is on its way. Then between two lookups nothing is asked or told,
and during one there is at most one question or answer, which is about the target and says
what was true of it at a moment since the lookup began (`ExchangeInv`).

*List.* `Linked`, `IteratorIsValid` and `DestructionIsSafe` are inductive together, with
what the loops know of their pointers (`ListInv`). Outside a destruction the list is
`Whole`: it can be followed both ways, no node appears twice, the linked nodes are the
allocated ones, and no object is held twice. A search stands at a place with no match
before it (`Searching`); the iterator stands behind the item it returned last, so that
detaching that item leaves it on the list (`Walking`). SIGINT may begin the destruction
between any two assignments of an operation; what holds from then on is `Doomed`: from the
head the list leads through allocated nodes, the first of which links back to the head, and
at most one allocated node, that of the interrupted operation, is not among them. The
backward links of the others may be wrong, and the destruction does not read them.

*System.* `SystemInv` says of everything a client holds or may receive who typed it and for
whom. A datagram is `Genuine`: an ACK, or a packet with the words of a turn that the owner of
its sender's nick really typed. A queue holds what its owner typed for the contact, and only
its head was ever sent (`QueuedAsTyped`); what a contact was seen to say, an owner of its nick
typed for the reader's nick (`HeardAsTyped`). Each of these leaves out for whom a text was
typed when its author is in `misled`, and `HeardAsTyped` leaves out the nick when the reader is.
`misled` only grows, and a step that makes a contact of another nick puts the client there
before anything is queued in the contact or shown from it. What waits in `answers` is an answer
that `Answer` gives (`LookupInv`). None of these mentions an address, which
is why stale addresses, ports that are bound again and stray start-ups do no harm: a step
only has to show that what it sends is genuine, and that what it accepts is for its own
nick. The history `typed` only grows, so what was said stays said (`Grown`). The
proof goes through the texts: `ParsesText`, `ParsesPkt`, `ParsesAck`, `ParsesFound`
and `ParsesLine` say what `parse_message` returns of each kind of datagram and of a line, from
where the words of a text stand (`LeadingPlaces`: the k-th word of a text made by `Text` is at
position 2k - 1). `TextAssumption` says that nicks and ports contain no space and that
lines are texts, which is what the checks of nicks and the formats of `sprintf` give.

*Order in the system.* `ShownInOrder` crosses restarts, and packet numbers do not help there: the
invariant `OrderInv` is about turns. It speaks of a set `P` of processes, those that no late
answer has misled (`Straight`). Each of them has one contact of a nick at most (`OneEach`). The
datagrams at a socket that one of them sent to one nick are in the order of their turns
(`InStep`); nothing that it sent to a nick, and nothing that was shown of it, is younger than
what it has queued for that nick, in whatever process of `P` the nick's packets landed
(`Follows`); and nothing shown from a contact is younger than what waits at the socket of
its process (`Recognises`). Where two turns are equal they are copies of one message, and
`InPlace` has their numbers equal too: that is what makes a copy a duplicate to its
recipient. A message that is swallowed after a restart leaves all of this true. A nick with
two owners is excluded by `SoleOwner`, because one contact record then shows the turns of two
processes. Processes outside `P` are not spoken of, and what is in order among some
processes is so among fewer (`OrderAmong`): a step that misleads its process takes it out of
`P`, after which its second contact disturbs nothing (`OrderMisled`).

*Every text.* `ParsesEveryText` needs no induction over texts: the k-th word is at the least
place up to which there are k words (`PlaceIs`), places are counted by the theorems on
finite sets, and the words behind place `i` are those of the text shifted by `i + 1`
(`PlacesBehind`, by a bijection). That a text has a space behind each word which is not its last
element (`IsText`) is why no word is lost in front of the last element. For `max = 1` the
code returns nothing, and the program never passes it.

Each strengthened invariant was checked by TLC on the instance of the component's run
before it was proved.

Only model checked:

- All liveness: `HeadSettles`, `EveryMessageShown`, `EveryLookupEnds`. Fairness and
  ENABLED are out of this prover's reach.

Every invariant and every refinement that a passing run checks is stated by a theorem. Those that
name a hypothesis hold under it only: what happens without it is what the violated runs show.

## Not modelled

- The checks of the programs' parameters (`validate_input_params`), the set-up of sockets
  and addresses, and printing: they decide nothing after the start.
- Failures of `malloc` and of system calls other than a send that is dropped: all of
  them quit the process, which is `Quit` at another moment.
- Texts below the level of words: buffer sizes, tabs and characters out of ASCII are the
  constants `BadNick` and `BadMessage`; a packet number is 0 or 1. Datagrams that no UPUSH
  process sends are out of scope.
- `last_ack_received` of contacts and of the server's record in the client: written, and
  read only for the number of a request, which nobody compares. `update_client_nick`,
  `pop_contact`, `pop_client`, `next_message_number_contact`, `get_blocked_nick_by_nick`,
  `toggle_binary` are never called by the two programs.
- `ll_remove_on_match`, by which a nick is unblocked: its parameter `free` hides the library's
  `free`, so that base_linked_list.c:97 applies `free_blocked_nick` to the node too. That frees
  the node's first field, which is `next` and NULL after the detach, and then the node, so it
  comes to the same as a pop on a match, but the code is not the same.
- SIGINT inside the server's handlers: it clears `keep_going`, which nothing reads.
- The manual test programs.

Differences between comments and code that no run shows: client_to_server_com.h:21
exchanges the meanings of -1 and 0; common.h:80 allows nicks of 20 characters and the
code 19; blocked_nick_list.h:39 says a record is returned where the code also removes
it from the list.

## Plan

1. (done) `ChatClients` with `Conversation`; `ServerRegistry` with `NameService`;
   `Presence`; `ClientLookup`; `BaseLinkedList` with `OrderedList`; type correctness, stop
   and wait, the server's refinement and presence proved.
2. (done) `UpushSystem` with `Datagrams`: addresses, restarts, shared nicks, stray start-ups
   and parsing; SIGINT inside the operations on a list; `TimeFunctions`.
3. (done) Proofs: `ClientLookup`'s `TerminatesUnanswered` and `ReplyIsForLookup`; `Linked`,
   `IteratorIsValid`, `DestructionIsSafe` and the refinement of `OrderedList`;
   `OrderedConversation`; `NeverPopsEmpty` under `Patient`.
4. (done) `UpushSystem`: what `parse_message` makes of lines and of every kind of datagram,
   `TypeOK`, `ShownAsTyped` and `HandlersFindWords`.
5. (done) Proofs: `AsDocumented` for every text; `ShownInOrder`; `AckIsForHead` and
   `ExactConversation` under `Patient`, with losses below the attempts and until a message is
   given up.
6. Left: a team whose clients answer each other, which needs a bound on the datagrams that
   lookups throw away.
