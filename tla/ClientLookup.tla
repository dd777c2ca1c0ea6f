------------------------------ MODULE ClientLookup -----------------------------
(***************************************************************************)
(* The blocking lookup of one client (client_to_server_com.c), with what   *)
(* it shares its socket with: the answers to heartbeats and to earlier     *)
(* attempts.  Nothing in a reply but the nick it names tells which request *)
(* it answers, for the code never compares its number.  Registrations      *)
(* come and go; how the server decides on them is ServerRegistry's.        *)
(***************************************************************************)
EXTENDS Naturals, Sequences

CONSTANTS
  Nick,
  NicksWithOK,    \* the nicks whose spelling contains "OK"
  Patient,        \* TRUE: no lookup times out while its request or reply is under way
  MaxLoss,        \* bound: datagrams lost
  MaxLookups,     \* bound: lookups made
  MaxHeartbeats   \* bound: heartbeats sent

ASSUME LookupAssumption ==
  /\ NicksWithOK \subseteq Nick
  /\ Patient \in BOOLEAN
  /\ MaxLoss \in Nat /\ MaxLookups \in Nat /\ MaxHeartbeats \in Nat

VARIABLES
  state,       \* idle in the event loop, waiting in a lookup, or terminated
  target,      \* target_nick of the last lookup
  attempt,     \* i of lookup_user_on_server, counted from 1
  result,      \* what the last lookup returned
  requests,    \* datagrams on their way to the server
  replies,     \* datagrams from the server that wait at the socket
  registered,  \* the nicks the server would find
  losses, lookups, heartbeats,
  wasIn,       \* history: target was registered at some time in this lookup
  wasOut,      \* history: target was not registered at some time in this lookup
  answered     \* history: an answer about target reached the client in this lookup

clientVars  == <<state, target, attempt, result>>
boundVars   == <<losses, lookups, heartbeats>>
historyVars == <<wasIn, wasOut, answered>>
vars == <<clientVars, requests, replies, registered, boundVars, historyVars>>

LookupOf(n) == [kind |-> "LOOKUP", nick |-> n]
Reg         == [kind |-> "REG"]
OK          == [kind |-> "OK"]
Found(n)    == [kind |-> "NICK", nick |-> n]
NotFound(n) == [kind |-> "NOT FOUND", nick |-> n]  \* the nick is not in the datagram

Init ==
  /\ state = "idle"
  /\ target \in Nick
  /\ attempt = 0
  /\ result = [kind |-> "none"]
  /\ requests = <<>>
  /\ replies = <<>>
  /\ registered \in SUBSET Nick
  /\ losses = 0 /\ lookups = 0 /\ heartbeats = 0
  /\ wasIn = FALSE /\ wasOut = FALSE /\ answered = FALSE

\* send_packet: the datagram is appended to the channel or dropped.
SendRequest(d) ==
  \/ requests' = Append(requests, d) /\ UNCHANGED losses
  \/ losses < MaxLoss /\ losses' = losses + 1 /\ UNCHANGED requests

-----------------------------------------------------------------------------
\* lookup_user_on_server makes its first attempt.
Begin(n) ==
  /\ state = "idle"
  /\ lookups < MaxLookups
  /\ lookups' = lookups + 1
  /\ state' = "waiting"
  /\ target' = n
  /\ attempt' = 1
  /\ SendRequest(LookupOf(n))
  /\ wasIn' = (n \in registered)
  /\ wasOut' = (n \notin registered)
  /\ answered' = FALSE
  /\ UNCHANGED <<result, replies, registered, heartbeats>>

\* A heartbeat of the event loop.
Heartbeat ==
  /\ state = "idle"
  /\ heartbeats < MaxHeartbeats
  /\ heartbeats' = heartbeats + 1
  /\ SendRequest(Reg)
  /\ UNCHANGED <<clientVars, replies, registered, lookups, historyVars>>

\* The event loop reads what the server sent and discards it.
Discard ==
  /\ state = "idle"
  /\ replies # <<>>
  /\ replies' = Tail(replies)
  /\ UNCHANGED <<clientVars, requests, registered, boundVars, historyVars>>

Returns(outcome) ==
  /\ state' = "idle"
  /\ attempt' = 0
  /\ result' = outcome
  /\ UNCHANGED <<target, requests, registered, boundVars, historyVars>>

\* strstr(inc_buf, "OK"): an answer to a heartbeat, and any answer with such a nick.
ContainsOK(d) == d.kind = "OK" \/ (d.kind = "NICK" /\ d.nick \in NicksWithOK)

IgnoreOK ==
  /\ state = "waiting"
  /\ replies # <<>> /\ ContainsOK(Head(replies))
  /\ replies' = Tail(replies)
  /\ UNCHANGED <<clientVars, requests, registered, boundVars, historyVars>>

\* Any other datagram of the server ends the lookup, with the nick it names.
TakeReply ==
  /\ state = "waiting"
  /\ replies # <<>> /\ ~ ContainsOK(Head(replies))
  /\ replies' = Tail(replies)
  /\ \/ /\ Head(replies).kind = "NICK"
        /\ Returns([kind |-> "found", nick |-> Head(replies).nick])
     \/ /\ Head(replies).kind = "NOT FOUND"
        /\ Returns([kind |-> "not found"])

\* Faulty variant: the timer is looked at before the socket.
TimedOut_DespiteReplies ==
  /\ state = "waiting"
  /\ Patient => requests = <<>>

\* select reports a timeout only while nothing can be read.
TimedOut ==
  /\ state = "waiting"
  /\ replies = <<>>
  /\ Patient => requests = <<>>

\* Faulty variant: the loop over attempts never ends.
TryAgain_Unlimited ==
  /\ TimedOut
  /\ SendRequest(LookupOf(target))
  /\ UNCHANGED <<clientVars, replies, registered, lookups, heartbeats, historyVars>>

\* Faulty variant: one attempt too many.
TryAgain_OffByOne ==
  /\ TimedOut
  /\ attempt <= 3
  /\ attempt' = attempt + 1
  /\ SendRequest(LookupOf(target))
  /\ UNCHANGED <<state, target, result, replies, registered, lookups, heartbeats,
                 historyVars>>

\* Faulty variant: the next attempt does not wait for the timeout.
TryAgain_AtOnce ==
  /\ state = "waiting"
  /\ attempt < 3
  /\ attempt' = attempt + 1
  /\ SendRequest(LookupOf(target))
  /\ UNCHANGED <<state, target, result, replies, registered, lookups, heartbeats,
                 historyVars>>

TryAgain ==
  /\ TimedOut
  /\ attempt < 3
  /\ attempt' = attempt + 1
  /\ SendRequest(LookupOf(target))
  /\ UNCHANGED <<state, target, result, replies, registered, lookups, heartbeats,
                 historyVars>>

\* "Server is not responding, terminating."
Terminate ==
  /\ TimedOut
  /\ attempt = 3
  /\ state' = "terminated"
  /\ UNCHANGED <<target, attempt, result, requests, replies, registered, boundVars,
                 historyVars>>

-----------------------------------------------------------------------------
(* The server and the clients it knows.                                    *)

Reply(d) ==
  IF d.kind = "REG" THEN OK
  ELSE IF d.nick \in registered THEN Found(d.nick) ELSE NotFound(d.nick)

Serve ==
  /\ requests # <<>>
  /\ requests' = Tail(requests)
  /\ LET r == Reply(Head(requests)) IN
       \/ /\ replies' = Append(replies, r)
          /\ answered' = \/ answered
                         \/ state = "waiting" /\ r.kind # "OK" /\ r.nick = target
          /\ UNCHANGED losses
       \/ /\ losses < MaxLoss
          /\ losses' = losses + 1
          /\ UNCHANGED <<replies, answered>>
  /\ UNCHANGED <<clientVars, registered, lookups, heartbeats, wasIn, wasOut>>

Arrives(n) ==
  /\ n \notin registered
  /\ registered' = registered \cup {n}
  /\ wasIn' = (wasIn \/ n = target)
  /\ UNCHANGED <<clientVars, requests, replies, boundVars, wasOut, answered>>

Expires(n) ==
  /\ n \in registered
  /\ registered' = registered \ {n}
  /\ wasOut' = (wasOut \/ n = target)
  /\ UNCHANGED <<clientVars, requests, replies, boundVars, wasIn, answered>>

Next ==
  \/ \E n \in Nick : Begin(n) \/ Arrives(n) \/ Expires(n)
  \/ Heartbeat \/ Discard \/ IgnoreOK \/ TakeReply \/ TryAgain \/ Terminate
  \/ Serve

Spec == Init /\ [][Next]_vars

\* The select of a lookup returns, and the server answers.
Fairness ==
  WF_vars(IgnoreOK \/ TakeReply \/ TryAgain \/ Terminate) /\ WF_vars(Serve)

FairSpec == Spec /\ Fairness

-----------------------------------------------------------------------------
(* Properties.                                                             *)

Request == {Reg} \cup [kind : {"LOOKUP"}, nick : Nick]
Answer  == {OK} \cup [kind : {"NICK", "NOT FOUND"}, nick : Nick]
Outcome == [kind : {"none", "not found"}] \cup [kind : {"found"}, nick : Nick]

\* The lookup's variables and the datagrams keep their types.
TypeOK ==
  /\ state \in {"idle", "waiting", "terminated"}
  /\ target \in Nick
  /\ attempt \in 0 .. 3
  /\ result \in Outcome
  /\ requests \in Seq(Request)
  /\ replies \in Seq(Answer)
  /\ registered \subseteq Nick
  /\ losses \in Nat /\ lookups \in Nat /\ heartbeats \in Nat
  /\ wasIn \in BOOLEAN /\ wasOut \in BOOLEAN /\ answered \in BOOLEAN

\* What a lookup returns is true of the nick it was asked for, at some time since it
\* was asked: "this must be a reply for our lookup message"
\* (client_to_server_com.c:84).
ReplyIsForLookup ==
  state = "idle" =>
    /\ result.kind = "found" => result.nick = target /\ wasIn
    /\ result.kind = "not found" => wasOut

\* An answer that reached a waiting client keeps it from terminating, unless the nick
\* asked for contains "OK": "we attempted lookup 3 times. Seems like server is not
\* responding." (client_to_server_com.c:142).
TerminatesUnanswered ==
  state = "terminated" /\ answered => target \in NicksWithOK

\* Every lookup returns or terminates the client, however many answers to other
\* requests arrive meanwhile.
EveryLookupEnds == state = "waiting" ~> state # "waiting"
=============================================================================
