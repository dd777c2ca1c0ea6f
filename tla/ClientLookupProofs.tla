--------------------------- MODULE ClientLookupProofs --------------------------
(***************************************************************************)
(* Proofs about ClientLookup for every set of nicks and every bound: the   *)
(* types, that an answer which reaches a waiting client keeps it from      *)
(* terminating, and that a lookup whose timer is patient returns what is   *)
(* true of the nick it was made for.                                       *)
(***************************************************************************)
EXTENDS ClientLookup, TLAPS

\* The datagrams that ask about a nick and those that tell about one.
Asks(d)  == d.kind = "LOOKUP"
Tells(d) == d.kind # "OK"

\* What is on its way is about the lookup in progress: one question, or the answer
\* to it, at a time, and none between two lookups.
OneExchange ==
  /\ \A i, j \in DOMAIN requests :
       Asks(requests[i]) /\ Asks(requests[j]) => i = j
  /\ \A i, j \in DOMAIN replies :
       Tells(replies[i]) /\ Tells(replies[j]) => i = j
  /\ \A i \in DOMAIN requests, j \in DOMAIN replies :
       ~ (Asks(requests[i]) /\ Tells(replies[j]))

NothingAsked ==
  /\ \A i \in DOMAIN requests : ~ Asks(requests[i])
  /\ \A j \in DOMAIN replies : ~ Tells(replies[j])

\* The question names the target, and the answer is one the server could give since
\* the lookup began.
AboutTarget ==
  /\ \A i \in DOMAIN requests : Asks(requests[i]) => requests[i].nick = target
  /\ \A j \in DOMAIN replies : Tells(replies[j]) =>
       /\ replies[j].nick = target
       /\ replies[j].kind = "NICK" => wasIn
       /\ replies[j].kind = "NOT FOUND" => wasOut

\* The history of the target includes the present.
HistoryInv == IF target \in registered THEN wasIn ELSE wasOut

ExchangeInv ==
  /\ state = "idle" => NothingAsked
  /\ state = "waiting" => OneExchange /\ AboutTarget /\ HistoryInv

\* An answer the waiting client cannot ignore stays at the socket until it is taken.
AnswerWaits ==
  answered /\ target \notin NicksWithOK /\ state = "waiting" =>
    \E i \in DOMAIN replies : ~ ContainsOK(replies[i])

-----------------------------------------------------------------------------
(* Channels.                                                               *)

LEMMA Longer ==
  ASSUME NEW S, NEW s \in Seq(S), NEW e \in S
  PROVE  /\ Append(s, e) \in Seq(S)
         /\ DOMAIN Append(s, e) = DOMAIN s \cup {Len(s) + 1}
         /\ Len(s) + 1 \notin DOMAIN s
         /\ \A i \in DOMAIN s : Append(s, e)[i] = s[i]
         /\ Append(s, e)[Len(s) + 1] = e
  OBVIOUS

LEMMA Shorter ==
  ASSUME NEW S, NEW s \in Seq(S), s # <<>>
  PROVE  /\ Tail(s) \in Seq(S)
         /\ 1 \in DOMAIN s /\ Head(s) = s[1] /\ Head(s) \in S
         /\ \A i \in DOMAIN Tail(s) :
              i + 1 \in DOMAIN s /\ i + 1 # 1 /\ Tail(s)[i] = s[i + 1]
         /\ \A i \in DOMAIN s : i # 1 =>
              i - 1 \in DOMAIN Tail(s) /\ Tail(s)[i - 1] = s[i]
         /\ \A i, j \in DOMAIN Tail(s) : i + 1 = j + 1 => i = j
  OBVIOUS

LEMMA RequestTypes ==
  /\ Reg \in Request /\ ~ Asks(Reg)
  /\ \A n \in Nick : /\ LookupOf(n) \in Request
                     /\ Asks(LookupOf(n)) /\ LookupOf(n).nick = n
  BY DEF Request, Reg, LookupOf, Asks

LEMMA ReplyTypes ==
  ASSUME NEW d \in Request
  PROVE  /\ Reply(d) \in Answer
         /\ ~ Asks(d) => Reply(d) = OK /\ ~ Tells(Reply(d))
         /\ Asks(d) =>
              /\ d.nick \in Nick /\ Tells(Reply(d)) /\ Reply(d).nick = d.nick
              /\ Reply(d).kind = IF d.nick \in registered THEN "NICK" ELSE "NOT FOUND"
<1> USE DEF Reply, Asks, Tells
<1>1. CASE d = Reg
  BY <1>1 DEF Reg, OK, Answer
<1>2. CASE d \in [kind : {"LOOKUP"}, nick : Nick]
  <2>1. d.kind = "LOOKUP" /\ d.nick \in Nick
    BY <1>2
  <2>2. CASE d.nick \in registered
    <3>1. /\ Found(d.nick) \in Answer
          /\ Found(d.nick).kind = "NICK" /\ Found(d.nick).nick = d.nick
      BY <2>1 DEF Found, Answer
    <3> QED
      BY <2>1, <2>2, <3>1
  <2>3. CASE d.nick \notin registered
    <3>1. /\ NotFound(d.nick) \in Answer
          /\ NotFound(d.nick).kind = "NOT FOUND" /\ NotFound(d.nick).nick = d.nick
      BY <2>1 DEF NotFound, Answer
    <3> QED
      BY <2>1, <2>3, <3>1
  <2> QED
    BY <2>2, <2>3
<1> QED
  BY <1>1, <1>2 DEF Request

LEMMA AnswerTypes ==
  ASSUME NEW d \in Answer
  PROVE  /\ d.kind \in {"OK", "NICK", "NOT FOUND"}
         /\ Tells(d) => d.nick \in Nick
<1>1. CASE d = OK
  BY <1>1 DEF OK, Tells
<1>2. CASE d \in [kind : {"NICK", "NOT FOUND"}, nick : Nick]
  BY <1>2
<1> QED
  BY <1>1, <1>2 DEF Answer

\* What send_packet does to the requests.
LEMMA SentRequest ==
  ASSUME TypeOK, NEW d \in Request, SendRequest(d)
  PROVE  /\ requests' \in Seq(Request) /\ losses' \in Nat
         /\ requests' = requests \/ requests' = Append(requests, d)
  BY Longer DEF TypeOK, SendRequest

-----------------------------------------------------------------------------
(* Types.                                                                  *)

LEMMA TypeKept == TypeOK /\ [Next]_vars => TypeOK'
<1> SUFFICES ASSUME TypeOK, [Next]_vars
             PROVE  TypeOK'
  OBVIOUS
<1>1. ASSUME NEW n \in Nick, Begin(n)
      PROVE  TypeOK'
  <2>1. LookupOf(n) \in Request /\ SendRequest(LookupOf(n))
    BY <1>1, RequestTypes DEF Begin
  <2>2. requests' \in Seq(Request) /\ losses' \in Nat
    BY <2>1, SentRequest
  <2>3. wasIn' \in BOOLEAN /\ wasOut' \in BOOLEAN
    BY <1>1 DEF Begin
  <2>4. answered' \in BOOLEAN
    BY <1>1 DEF Begin
  <2>5. /\ state' = "waiting" /\ target' = n /\ attempt' = 1
        /\ lookups' = lookups + 1
        /\ UNCHANGED <<result, replies, registered, heartbeats>>
    BY <1>1 DEF Begin
  <2> QED
    BY <2>2, <2>3, <2>4, <2>5 DEF TypeOK
<1>2. ASSUME NEW n \in Nick, Arrives(n) \/ Expires(n)
      PROVE  TypeOK'
  BY <1>2 DEF Arrives, Expires, TypeOK, clientVars, boundVars
<1>3. CASE Heartbeat
  <2>1. requests' \in Seq(Request) /\ losses' \in Nat
    BY <1>3, RequestTypes, SentRequest DEF Heartbeat
  <2> QED
    BY <1>3, <2>1 DEF Heartbeat, TypeOK, clientVars, historyVars
<1>4. CASE Discard \/ IgnoreOK
  <2>1. replies' \in Seq(Answer)
    BY <1>4, Shorter DEF Discard, IgnoreOK, TypeOK
  <2> QED
    BY <1>4, <2>1 DEF Discard, IgnoreOK, TypeOK, clientVars, boundVars, historyVars
<1>5. CASE TakeReply
  <2>1. Head(replies) \in Answer /\ replies' \in Seq(Answer)
    BY <1>5, Shorter DEF TakeReply, TypeOK
  <2>2. PICK outcome \in Outcome : Returns(outcome)
    <3>1. CASE Head(replies).kind = "NICK"
      <4>1. Head(replies).nick \in Nick
        BY <2>1, <3>1, AnswerTypes DEF Tells
      <4>2. [kind |-> "found", nick |-> Head(replies).nick] \in Outcome
        BY <4>1 DEF Outcome
      <4> QED
        BY <1>5, <3>1, <4>2 DEF TakeReply
    <3>2. CASE Head(replies).kind = "NOT FOUND"
      <4>1. [kind |-> "not found"] \in Outcome
        BY DEF Outcome
      <4> QED
        BY <1>5, <3>2, <4>1 DEF TakeReply
    <3> QED
      BY <2>1, <3>1, <3>2, <1>5 DEF TakeReply
  <2> QED
    BY <2>1, <2>2 DEF Returns, TypeOK, boundVars, historyVars
<1>6. CASE TryAgain
  <2>1. requests' \in Seq(Request) /\ losses' \in Nat
    BY <1>6, RequestTypes, SentRequest DEF TryAgain, TypeOK
  <2> QED
    BY <1>6, <2>1 DEF TryAgain, TypeOK, historyVars
<1>7. CASE Terminate
  BY <1>7 DEF Terminate, TypeOK, boundVars, historyVars
<1>8. CASE Serve
  <2>1. Head(requests) \in Request /\ requests' \in Seq(Request)
    BY <1>8, Shorter DEF Serve, TypeOK
  <2>2. Reply(Head(requests)) \in Answer
    BY <2>1, ReplyTypes
  <2>3. replies' \in Seq(Answer) /\ losses' \in Nat
    <3>1. Append(replies, Reply(Head(requests))) \in Seq(Answer)
      BY <2>2, Longer DEF TypeOK
    <3>2. \/ replies' = Append(replies, Reply(Head(requests))) /\ UNCHANGED losses
          \/ losses' = losses + 1 /\ UNCHANGED replies
      BY <1>8 DEF Serve
    <3>3. replies \in Seq(Answer) /\ losses \in Nat
      BY DEF TypeOK
    <3> QED
      BY <3>1, <3>2, <3>3
  <2>4. answered' \in BOOLEAN
    BY <1>8 DEF Serve, TypeOK
  <2> QED
    BY <1>8, <2>1, <2>3, <2>4 DEF Serve, TypeOK, clientVars
<1>9. CASE UNCHANGED vars
  BY <1>9 DEF vars, TypeOK, clientVars, boundVars, historyVars
<1> QED
  BY <1>1, <1>2, <1>3, <1>4, <1>5, <1>6, <1>7, <1>8, <1>9 DEF Next

\* A lookup's variables and the datagrams of client_to_server_com.c keep their types,
\* and no lookup makes more than three attempts.
THEOREM TypeCorrect == Spec => []TypeOK
<1>1. Init => TypeOK
  <2>1. [kind |-> "none"] \in Outcome
    BY DEF Outcome
  <2>2. Init => /\ requests \in Seq(Request) /\ replies \in Seq(Answer)
               /\ result \in Outcome
    BY <2>1 DEF Init
  <2>3. Init => /\ state = "idle" /\ target \in Nick /\ attempt = 0
                /\ registered \subseteq Nick
                /\ losses = 0 /\ lookups = 0 /\ heartbeats = 0
                /\ ~ wasIn /\ ~ wasOut /\ ~ answered
    BY DEF Init
  <2>4. Init => wasIn \in BOOLEAN /\ wasOut \in BOOLEAN /\ answered \in BOOLEAN
    BY DEF Init
  <2> QED
    BY <2>2, <2>3, <2>4 DEF TypeOK
<1> QED
  BY <1>1, TypeKept, PTL DEF Spec

-----------------------------------------------------------------------------
(* An answer that reached the client.                                      *)

\* Taking the oldest datagram off the socket leaves an answer behind it in place.
LEMMA AnswerStays ==
  ASSUME TypeOK, replies # <<>>, ContainsOK(Head(replies)), replies' = Tail(replies),
         \E i \in DOMAIN replies : ~ ContainsOK(replies[i])
  PROVE  \E i \in DOMAIN replies' : ~ ContainsOK(replies'[i])
<1>1. PICK i \in DOMAIN replies : ~ ContainsOK(replies[i])
  OBVIOUS
<1>2. replies \in Seq(Answer)
  BY DEF TypeOK
<1>3. i # 1
  BY <1>1, <1>2, Shorter
<1>4. i - 1 \in DOMAIN replies' /\ replies'[i - 1] = replies[i]
  BY <1>2, <1>3, Shorter
<1> QED
  BY <1>1, <1>4

LEMMA AnswerServed ==
  ASSUME TypeOK, AnswerWaits, Serve
  PROVE  AnswerWaits'
<1> DEFINE r == Reply(Head(requests))
<1>1. Head(requests) \in Request /\ requests # <<>>
  BY Shorter DEF Serve, TypeOK
<1>2. r \in Answer /\ replies \in Seq(Answer)
  BY <1>1, ReplyTypes DEF TypeOK
<1>3. UNCHANGED <<state, target>>
  BY DEF Serve, clientVars
<1>4. CASE UNCHANGED <<replies, answered>>
  BY <1>3, <1>4 DEF AnswerWaits
<1>5. CASE /\ replies' = Append(replies, r)
           /\ answered' = (answered \/ (state = "waiting" /\ r.kind # "OK" /\ r.nick = target))
  <2>1. ASSUME ~ ContainsOK(r)
        PROVE  \E i \in DOMAIN replies' : ~ ContainsOK(replies'[i])
    BY <1>2, <1>5, <2>1, Longer
  <2>2. ASSUME \E i \in DOMAIN replies : ~ ContainsOK(replies[i])
        PROVE  \E i \in DOMAIN replies' : ~ ContainsOK(replies'[i])
    BY <1>2, <1>5, <2>2, Longer
  <2>3. r.kind # "OK" /\ r.nick = target /\ target \notin NicksWithOK => ~ ContainsOK(r)
    BY DEF ContainsOK
  <2> HIDE DEF r
  <2> QED
    BY <1>3, <1>5, <2>1, <2>2, <2>3 DEF AnswerWaits
<1> QED
  BY <1>4, <1>5 DEF Serve

LEMMA AnswerWaitsKept == TypeOK /\ AnswerWaits /\ [Next]_vars => AnswerWaits'
<1> SUFFICES ASSUME TypeOK, AnswerWaits, [Next]_vars
             PROVE  AnswerWaits'
  OBVIOUS
<1>1. ASSUME NEW n \in Nick, Begin(n)
      PROVE  AnswerWaits'
  BY <1>1 DEF Begin, AnswerWaits
<1>2. ASSUME NEW n \in Nick, Arrives(n) \/ Expires(n)
      PROVE  AnswerWaits'
  BY <1>2 DEF Arrives, Expires, clientVars, AnswerWaits
<1>3. CASE Heartbeat \/ Discard
  BY <1>3 DEF Heartbeat, Discard, clientVars, historyVars, AnswerWaits
<1>4. CASE IgnoreOK
  <2>1. /\ replies # <<>> /\ ContainsOK(Head(replies)) /\ replies' = Tail(replies)
        /\ UNCHANGED <<state, target, answered>>
    BY <1>4 DEF IgnoreOK, clientVars, historyVars
  <2> QED
    BY <2>1, AnswerStays DEF AnswerWaits
<1>5. CASE TakeReply
  BY <1>5 DEF TakeReply, Returns, AnswerWaits
<1>6. CASE TryAgain
  BY <1>6 DEF TryAgain, historyVars, AnswerWaits
<1>7. CASE Terminate
  BY <1>7 DEF Terminate, AnswerWaits
<1>8. CASE Serve
  BY <1>8, AnswerServed
<1>9. CASE UNCHANGED vars
  BY <1>9 DEF vars, clientVars, historyVars, AnswerWaits
<1> QED
  BY <1>1, <1>2, <1>3, <1>4, <1>5, <1>6, <1>7, <1>8, <1>9 DEF Next

\* Only Terminate ends the client, and it does so at an empty socket.
LEMMA TerminationKept ==
  TypeOK /\ AnswerWaits /\ TerminatesUnanswered /\ [Next]_vars
    => TerminatesUnanswered'
<1> SUFFICES ASSUME TypeOK, AnswerWaits, TerminatesUnanswered, [Next]_vars,
                    state' = "terminated", answered'
             PROVE  target' \in NicksWithOK
  BY DEF TerminatesUnanswered
<1>1. CASE Terminate
  <2>1. replies = <<>> /\ state = "waiting" /\ UNCHANGED <<target, answered>>
    BY <1>1 DEF Terminate, TimedOut, historyVars
  <2>2. ~ \E i \in DOMAIN replies : ~ ContainsOK(replies[i])
    BY <2>1
  <2> QED
    BY <2>1, <2>2 DEF AnswerWaits
<1>2. CASE state = "terminated"
  <2>1. UNCHANGED target /\ (answered' => answered)
    BY <1>2 DEF Next, vars, Begin, Arrives, Expires, Heartbeat, Discard, IgnoreOK,
       TakeReply, TryAgain, TimedOut, Terminate, Serve, clientVars, historyVars
  <2> QED
    BY <1>2, <2>1 DEF TerminatesUnanswered
<1>3. CASE state # "terminated" /\ ~ Terminate
  BY <1>3 DEF Next, vars, Begin, Arrives, Expires, Heartbeat, Discard, IgnoreOK,
     TakeReply, Returns, TryAgain, TimedOut, Serve, clientVars, historyVars
<1> QED
  BY <1>1, <1>2, <1>3

\* However many replies to heartbeats and to earlier attempts the client reads, an
\* answer about the nick it waits for keeps it from terminating, unless strstr finds
\* "OK" in the nick (client_to_server_com.c:61-142).
THEOREM AnsweredLookupReturns == Spec => []TerminatesUnanswered
<1>1. Init => AnswerWaits /\ TerminatesUnanswered
  BY DEF Init, AnswerWaits, TerminatesUnanswered
<1> QED
  BY <1>1, TypeCorrect, AnswerWaitsKept, TerminationKept, PTL DEF Spec

-----------------------------------------------------------------------------
(* Patient timers: what is under way is the exchange of this lookup.       *)

\* A timer that waits for the exchange leaves nothing of it behind.
LEMMA TimedOutAlone ==
  ASSUME Patient, TimedOut
  PROVE  NothingAsked
  BY DEF TimedOut, NothingAsked

LEMMA Asking ==
  ASSUME TypeOK, NothingAsked, NEW n \in Nick, SendRequest(LookupOf(n)),
         UNCHANGED replies, target' = n
  PROVE  OneExchange' /\ AboutTarget'
<1>1. \A j \in DOMAIN replies' : ~ Tells(replies'[j])
  BY DEF NothingAsked
<1>2. \/ requests' = requests
      \/ requests' = Append(requests, LookupOf(n))
  BY DEF SendRequest
<1>3. requests \in Seq(Request) /\ LookupOf(n) \in Request /\ LookupOf(n).nick = n
  BY RequestTypes DEF TypeOK
<1>4. \A i \in DOMAIN requests' :
        Asks(requests'[i]) => i = Len(requests) + 1 /\ requests'[i] = LookupOf(n)
  BY <1>2, <1>3, Longer DEF NothingAsked
<1> QED
  BY <1>1, <1>3, <1>4 DEF OneExchange, AboutTarget

\* Taking a datagram off the socket brings no other one there.
LEMMA ReplyTaken ==
  ASSUME TypeOK, replies # <<>>, replies' = Tail(replies),
         UNCHANGED <<requests, target, wasIn, wasOut>>
  PROVE  /\ NothingAsked => NothingAsked'
         /\ OneExchange /\ AboutTarget => OneExchange' /\ AboutTarget'
         /\ OneExchange /\ Tells(Head(replies)) => NothingAsked'
<1>1. /\ replies \in Seq(Answer) /\ 1 \in DOMAIN replies /\ Head(replies) = replies[1]
      /\ \A i \in DOMAIN replies' :
           i + 1 \in DOMAIN replies /\ i + 1 # 1 /\ replies'[i] = replies[i + 1]
      /\ \A i, j \in DOMAIN replies' : i + 1 = j + 1 => i = j
  BY Shorter DEF TypeOK
<1>2. NothingAsked => NothingAsked'
  BY <1>1 DEF NothingAsked
<1>3. ASSUME OneExchange, AboutTarget
      PROVE  OneExchange' /\ AboutTarget'
  <2>1. AboutTarget'
    <3>1. /\ UNCHANGED <<requests, target>>
          /\ wasIn' <=> wasIn
          /\ wasOut' <=> wasOut
      OBVIOUS
    <3>2. \A j \in DOMAIN replies' : \E i \in DOMAIN replies : replies'[j] = replies[i]
      BY <1>1
    <3> QED
      BY <1>3, <3>1, <3>2, Zenon DEF AboutTarget
  <2>2. OneExchange'
    BY <1>1, <1>3 DEF OneExchange
  <2> QED
    BY <2>1, <2>2
<1>4. ASSUME OneExchange, Tells(Head(replies))
      PROVE  NothingAsked'
  BY <1>1, <1>4 DEF OneExchange, NothingAsked
<1> QED
  BY <1>2, <1>3, <1>4

LEMMA TakenReplyIsTrue ==
  ASSUME TypeOK, ExchangeInv, TakeReply
  PROVE  ExchangeInv' /\ ReplyIsForLookup'
<1> DEFINE d == Head(replies)
<1>1. /\ replies \in Seq(Answer) /\ replies # <<>>
      /\ d \in Answer /\ 1 \in DOMAIN replies /\ d = replies[1]
  BY Shorter DEF TakeReply, TypeOK
<1>2. Tells(d)
  BY DEF TakeReply, Tells
<1>3. /\ state = "waiting" /\ state' = "idle" /\ replies' = Tail(replies)
      /\ UNCHANGED <<target, requests, registered, wasIn, wasOut>>
  BY DEF TakeReply, Returns, historyVars
<1>4. OneExchange /\ AboutTarget
  BY <1>3 DEF ExchangeInv
<1>5. NothingAsked'
  BY <1>1, <1>2, <1>3, <1>4, ReplyTaken
<1>6. /\ d.nick = target
      /\ d.kind = "NICK" => wasIn
      /\ d.kind = "NOT FOUND" => wasOut
  BY <1>1, <1>2, <1>4 DEF AboutTarget
<1>7. \/ d.kind = "NICK" /\ result' = [kind |-> "found", nick |-> d.nick]
      \/ d.kind = "NOT FOUND" /\ result' = [kind |-> "not found"]
  BY DEF TakeReply, Returns
<1> HIDE DEF d
<1>8. /\ result'.kind = "found" => result'.nick = target' /\ wasIn'
      /\ result'.kind = "not found" => wasOut'
  <2>1. CASE d.kind = "NICK"
    <3>1. result'.kind = "found" /\ result'.nick = d.nick
      BY <1>7, <2>1
    <3>2. target' = target /\ (wasIn => wasIn')
      BY <1>3
    <3> QED
      BY <1>6, <2>1, <3>1, <3>2
  <2>2. CASE d.kind = "NOT FOUND"
    <3>1. result'.kind = "not found"
      <4>1. result' = [kind |-> "not found"]
        BY <1>7, <2>2
      <4> QED
        BY <4>1
    <3>2. wasOut => wasOut'
      BY <1>3
    <3> QED
      BY <1>6, <2>2, <3>1, <3>2
  <2> QED
    BY <1>7, <2>1, <2>2
<1>9. ReplyIsForLookup'
  BY <1>8 DEF ReplyIsForLookup
<1> QED
  BY <1>3, <1>5, <1>9 DEF ExchangeInv

\* The server reads the question and puts its answer in its place.
LEMMA ServedExchange ==
  ASSUME TypeOK, ExchangeInv, Serve
  PROVE  ExchangeInv'
<1> DEFINE d == Head(requests)
           r == Reply(d)
<1>1. /\ requests \in Seq(Request) /\ requests # <<>> /\ requests' = Tail(requests)
      /\ d \in Request /\ 1 \in DOMAIN requests /\ d = requests[1]
      /\ \A i \in DOMAIN requests' :
           i + 1 \in DOMAIN requests /\ i + 1 # 1 /\ requests'[i] = requests[i + 1]
      /\ \A i, j \in DOMAIN requests' : i + 1 = j + 1 => i = j
  BY Shorter DEF Serve, TypeOK
<1>2. replies \in Seq(Answer) /\ r \in Answer
  BY <1>1, ReplyTypes DEF TypeOK
<1>3. \/ replies' = replies
      \/ replies' = Append(replies, r)
  BY DEF Serve
<1>4. UNCHANGED <<state, target, registered, wasIn, wasOut>>
  BY DEF Serve, clientVars
<1>5. \A j \in DOMAIN replies' :
        \/ j \in DOMAIN replies /\ replies'[j] = replies[j]
        \/ j = Len(replies) + 1 /\ replies'[j] = r
  BY <1>2, <1>3, Longer
<1>6. /\ Tells(r) <=> Asks(d)
      /\ Asks(d) => /\ r.nick = d.nick
                    /\ r.kind = IF d.nick \in registered THEN "NICK" ELSE "NOT FOUND"
  BY <1>1, ReplyTypes
<1> HIDE DEF r, d
<1>7. ASSUME NothingAsked
      PROVE  NothingAsked'
  BY <1>1, <1>5, <1>6, <1>7 DEF NothingAsked
<1>8. ASSUME OneExchange, AboutTarget, HistoryInv
      PROVE  OneExchange' /\ AboutTarget' /\ HistoryInv'
  <2>1. HistoryInv'
    BY <1>4, <1>8 DEF HistoryInv
  <2>2. AboutTarget'
    <3>1. \A i \in DOMAIN requests' : Asks(requests'[i]) => requests'[i].nick = target'
      <4>1. \A i \in DOMAIN requests' : \E j \in DOMAIN requests :
              requests'[i] = requests[j]
        BY <1>1
      <4>2. \A i \in DOMAIN requests : Asks(requests[i]) => requests[i].nick = target
        BY <1>8 DEF AboutTarget
      <4> QED
        BY <1>4, <4>1, <4>2
    <3>2. Tells(r) => /\ r.nick = target
                      /\ r.kind = "NICK" => wasIn
                      /\ r.kind = "NOT FOUND" => wasOut
      BY <1>1, <1>6, <1>8 DEF AboutTarget, HistoryInv
    <3> QED
      BY <1>4, <1>5, <1>8, <3>1, <3>2 DEF AboutTarget
  <2>3. OneExchange'
    <3>1. Asks(d) => /\ \A i \in DOMAIN requests' : ~ Asks(requests'[i])
                     /\ \A j \in DOMAIN replies : ~ Tells(replies[j])
      BY <1>1, <1>8 DEF OneExchange
    <3>2. \A i, j \in DOMAIN requests' :
            Asks(requests'[i]) /\ Asks(requests'[j]) => i = j
      BY <1>1, <1>8 DEF OneExchange
    <3>3. \A i, j \in DOMAIN replies' :
            Tells(replies'[i]) /\ Tells(replies'[j]) => i = j
      BY <1>5, <1>6, <1>8, <3>1 DEF OneExchange
    <3>4. \A i \in DOMAIN requests', j \in DOMAIN replies' :
            ~ (Asks(requests'[i]) /\ Tells(replies'[j]))
      BY <1>1, <1>5, <1>6, <1>8, <3>1 DEF OneExchange
    <3> QED
      BY <3>2, <3>3, <3>4 DEF OneExchange
  <2> QED
    BY <2>1, <2>2, <2>3
<1> QED
  BY <1>4, <1>7, <1>8 DEF ExchangeInv

LEMMA ExchangeKept ==
  ASSUME Patient, TypeOK, ExchangeInv, ReplyIsForLookup, [Next]_vars
  PROVE  ExchangeInv' /\ ReplyIsForLookup'
<1>1. ASSUME NEW n \in Nick, Begin(n)
      PROVE  ExchangeInv' /\ ReplyIsForLookup'
  <2>1. NothingAsked /\ state' = "waiting" /\ target' = n
    BY <1>1 DEF Begin, ExchangeInv
  <2>2. OneExchange' /\ AboutTarget'
    BY <1>1, <2>1, Asking DEF Begin
  <2>3. HistoryInv'
    BY <1>1 DEF Begin, HistoryInv
  <2> QED
    BY <2>1, <2>2, <2>3 DEF ExchangeInv, ReplyIsForLookup
<1>2. ASSUME NEW n \in Nick, Arrives(n) \/ Expires(n)
      PROVE  ExchangeInv' /\ ReplyIsForLookup'
  <2>1. /\ UNCHANGED <<state, target, result, requests, replies>>
        /\ wasIn => wasIn'
        /\ wasOut => wasOut'
    <3>1. CASE Arrives(n)
      BY <3>1 DEF Arrives, clientVars
    <3>2. CASE Expires(n)
      BY <3>2 DEF Expires, clientVars
    <3> QED
      BY <1>2, <3>1, <3>2
  <2>2. HistoryInv => HistoryInv'
    BY <1>2, <2>1 DEF Arrives, Expires, HistoryInv
  <2>3. ReplyIsForLookup'
    BY <2>1 DEF ReplyIsForLookup
  <2>4. AboutTarget => AboutTarget'
    BY <2>1 DEF AboutTarget
  <2> QED
    BY <2>1, <2>2, <2>3, <2>4 DEF ExchangeInv, NothingAsked, OneExchange
<1>3. CASE Heartbeat
  <2>1. state = "idle" /\ UNCHANGED <<state, target, result, replies, wasIn, wasOut>>
    BY <1>3 DEF Heartbeat, clientVars, historyVars
  <2>2. SendRequest(Reg) /\ requests \in Seq(Request) /\ Reg \in Request /\ ~ Asks(Reg)
    BY <1>3, RequestTypes DEF Heartbeat, TypeOK
  <2>3. requests' = requests \/ requests' = Append(requests, Reg)
    BY <2>2 DEF SendRequest
  <2>4. NothingAsked'
    BY <2>1, <2>2, <2>3, Longer DEF ExchangeInv, NothingAsked
  <2> QED
    BY <2>1, <2>4 DEF ExchangeInv, ReplyIsForLookup
<1>4. CASE Discard \/ IgnoreOK
  <2>1. /\ replies # <<>> /\ replies' = Tail(replies)
        /\ UNCHANGED <<state, target, result, requests, registered, wasIn, wasOut>>
    BY <1>4 DEF Discard, IgnoreOK, clientVars, historyVars
  <2>2. /\ NothingAsked => NothingAsked'
        /\ OneExchange /\ AboutTarget => OneExchange' /\ AboutTarget'
    BY <2>1, ReplyTaken
  <2> QED
    BY <2>1, <2>2 DEF ExchangeInv, HistoryInv, ReplyIsForLookup
<1>5. CASE TakeReply
  BY <1>5, TakenReplyIsTrue
<1>6. CASE TryAgain
  <2>1. /\ TimedOut /\ state = "waiting" /\ SendRequest(LookupOf(target))
        /\ UNCHANGED <<state, target, replies, registered, wasIn, wasOut>>
    BY <1>6 DEF TryAgain, TimedOut, historyVars
  <2>2. OneExchange' /\ AboutTarget'
    BY <2>1, TimedOutAlone, Asking DEF TypeOK
  <2> QED
    BY <2>1, <2>2 DEF ExchangeInv, HistoryInv, ReplyIsForLookup
<1>7. CASE Terminate
  BY <1>7 DEF Terminate, ExchangeInv, ReplyIsForLookup
<1>8. CASE Serve
  <2>1. UNCHANGED <<state, target, result, wasIn, wasOut>>
    BY <1>8 DEF Serve, clientVars
  <2> QED
    BY <1>8, <2>1, ServedExchange DEF ReplyIsForLookup
<1>9. CASE UNCHANGED vars
  <2>1. UNCHANGED <<state, target, result, requests, replies, registered, wasIn, wasOut>>
    BY <1>9 DEF vars, clientVars, historyVars
  <2> QED
    BY <2>1 DEF ExchangeInv, NothingAsked, OneExchange, AboutTarget, HistoryInv,
                ReplyIsForLookup
<1> QED
  BY <1>1, <1>2, <1>3, <1>4, <1>5, <1>6, <1>7, <1>8, <1>9 DEF Next

\* When no lookup times out before its request or the reply to it has arrived, what
\* lookup_user_on_server returns is true of the nick it was asked for at some time
\* since it was asked, although the code compares neither the reply's number nor the
\* nick in it (client_to_server_com.c:61-110).  MCLookupStale shows that the
\* assumption is needed.
THEOREM PatientReplyIsForLookup ==
  ASSUME Patient
  PROVE  Spec => []ReplyIsForLookup
<1>1. Init => ExchangeInv /\ ReplyIsForLookup
  BY DEF Init, ExchangeInv, NothingAsked, ReplyIsForLookup
<1>2. TypeOK /\ ExchangeInv /\ ReplyIsForLookup /\ [Next]_vars
        => ExchangeInv' /\ ReplyIsForLookup'
  BY ExchangeKept
<1> QED
  BY <1>1, <1>2, TypeCorrect, PTL DEF Spec
=============================================================================
