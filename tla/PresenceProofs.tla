----------------------------- MODULE PresenceProofs ----------------------------
(***************************************************************************)
(* Proof that every client that runs is registered within Silence seconds, *)
(* and found by every lookup while its last registration is not older than *)
(* Expiry, for every heartbeat period, timeout, delay, expiry time and     *)
(* number of registrations lost in a row.                                  *)
(***************************************************************************)
EXTENDS Presence, ServerRegistryProofs

RegistryInv == TypeOK /\ OneRecordPerNick /\ ListMatches

\* No client is late: one that waits for its first datagram has waited for at most
\* Timeout, and the last heartbeat of one in the event loop is at most Gap old.
Punctual(n) ==
  /\ arrived[n] <= now
  /\ status[n] = "starting" => since[n] = arrived[n] /\ now <= since[n] + Timeout
  /\ status[n] # "starting" => last_heartbeat_time[n] <= now
  /\ status[n] = "idle" => now <= last_heartbeat_time[n] + Period + Delay
  /\ status[n] = "busy" => /\ since[n] <= last_heartbeat_time[n] + Period
                           /\ now <= since[n] + Delay

\* The last heartbeat is at most missed * Gap later than the first datagram after the
\* registration that arrived last; what that left is the client's record, until it is
\* removed, which happens only when it is stale and when the server stops.
Accounted(n) ==
  /\ status[n] # "starting" =>
       last_heartbeat_time[n] <= arrived[n] + Timeout + missed[n] * Gap
  /\ heard[n] => \A record \in Records(n) :
                   /\ record.ip = socket[n].ip /\ record.port = socket[n].port
                   /\ record.last_heartbeat = arrived[n]
  /\ heard[n] /\ Records(n) = {} =>
       now > arrived[n] + Expiry \/ restarted >= arrived[n]

ClientsAccounted == \A n \in Nick : Running(n) => Punctual(n) /\ Accounted(n)

IInv ==
  /\ PresenceTypeOK
  /\ RegistryInv
  /\ ClientsAccounted

-----------------------------------------------------------------------------
LEMMA GapType == Gap \in Nat /\ Period + 1 <= Gap
  BY PresenceAssumption DEF PresenceAssumption, Gap

LEMMA Multiples ==
  ASSUME NEW m \in Nat, NEW max \in Nat, NEW g \in Nat, m <= max
  PROVE  /\ m * g \in Nat
         /\ (m + 1) * g = m * g + g
         /\ (m + 1) * g <= (max + 1) * g
<1>1. PICK d \in Nat : max = m + d
  <2>1. max - m \in Nat /\ max = m + (max - m)
    OBVIOUS
  <2> QED
    BY <2>1
<1>2. d * g \in Nat /\ m * g \in Nat
  OBVIOUS
<1>3. (m + d + 1) * g = (m + 1) * g + d * g
  OBVIOUS
<1> QED
  BY <1>1, <1>2, <1>3

LEMMA PunctualWithinGap ==
  ASSUME PresenceTypeOK, NEW n \in Nick, Running(n), status[n] # "starting", Punctual(n)
  PROVE  now <= last_heartbeat_time[n] + Gap
<1>1. status[n] \in {"idle", "busy"}
  BY DEF PresenceTypeOK, Running
<1>2. /\ now \in Nat /\ last_heartbeat_time[n] \in Nat /\ since[n] \in Nat
      /\ Period \in Nat /\ Delay \in Nat \ {0}
  BY PresenceAssumption DEF PresenceAssumption, PresenceTypeOK, TypeOK
<1> QED
  BY <1>1, <1>2 DEF Punctual, Gap

LEMMA NeverSilent ==
  ASSUME IInv, NEW n \in Nick, Running(n)
  PROVE  now <= arrived[n] + Silence
<1>1. /\ now \in Nat /\ last_heartbeat_time[n] \in Nat /\ arrived[n] \in Nat
      /\ since[n] \in Nat /\ Timeout \in Nat
      /\ missed[n] \in Nat /\ MaxMissed \in Nat /\ missed[n] <= MaxMissed
  BY PresenceAssumption DEF IInv, PresenceTypeOK, TypeOK, PresenceAssumption
<1>2. Punctual(n) /\ Accounted(n)
  BY DEF IInv, ClientsAccounted
<1>3. /\ missed[n] * Gap \in Nat
      /\ Timeout + missed[n] * Gap + Gap <= Silence
      /\ Timeout <= Silence
      /\ Gap \in Nat /\ Silence \in Nat
  <2>1. /\ missed[n] * Gap \in Nat
        /\ missed[n] * Gap + Gap <= (MaxMissed + 1) * Gap
    BY <1>1, GapType, Multiples
  <2>2. (MaxMissed + 1) * Gap \in Nat
    BY <1>1, GapType
  <2> QED
    BY <1>1, <2>1, <2>2, GapType DEF Silence
<1>4. CASE status[n] = "starting"
  BY <1>1, <1>2, <1>3, <1>4 DEF Punctual
<1>5. CASE status[n] # "starting"
  <2>1. now <= last_heartbeat_time[n] + Gap
    BY <1>2, <1>5, PunctualWithinGap DEF IInv
  <2>2. last_heartbeat_time[n] <= arrived[n] + Timeout + missed[n] * Gap
    BY <1>2, <1>5 DEF Accounted
  <2> QED
    BY <1>1, <1>3, <2>1, <2>2
<1> QED
  BY <1>4, <1>5

LEMMA AccountedIsFound ==
  ASSUME IInv
  PROVE  ConnectedIsFound
<1> SUFFICES ASSUME NEW n \in Nick, Running(n), heard[n], ~ (now > arrived[n] + Expiry)
             PROVE  Reachable(n) \/ (Records(n) = {} /\ restarted >= arrived[n])
  BY NeverSilent DEF ConnectedIsFound
<1>1. /\ now \in Nat /\ arrived[n] \in Nat /\ Expiry \in Nat
  BY RegistryAssumption DEF IInv, PresenceTypeOK, TypeOK, RegistryAssumption
<1>2. Accounted(n)
  BY DEF IInv, ClientsAccounted
<1>3. ASSUME NEW record \in Records(n)
      PROVE  Reachable(n)
  <2>1. /\ record.ip = socket[n].ip /\ record.port = socket[n].port
        /\ record.last_heartbeat = arrived[n]
    BY <1>2 DEF Accounted
  <2>2. get_seconds_since_last_heartbeat(record) <= Expiry
    BY <1>1, <2>1 DEF get_seconds_since_last_heartbeat
  <2> QED
    BY <2>1, <2>2 DEF Reachable
<1> QED
  BY <1>2, <1>3 DEF Accounted

-----------------------------------------------------------------------------
(* Steps.                                                                  *)

LEMMA StepIsRegistryStep ==
  ASSUME PresenceTypeOK, PresenceNext
  PROVE  [Next]_vars
<1>1. ASSUME NEW n \in Nick,
             \/ \E src \in Sources[n] : StartHeard(n, src)
             \/ HeartbeatArrives(n)
      PROVE  Next
  <2>1. socket[n] \in Sources[n]
    BY DEF PresenceTypeOK
  <2>2. \E src \in Sources[n] : register_client(n, src)
    BY <1>1, <2>1 DEF StartHeard, HeartbeatArrives
  <2> QED
    BY <2>2 DEF Next
<1>2. ASSUME NEW n \in Nick,
             \/ \E src \in Sources[n] : StartLost(n, src)
             \/ FirstDatagram(n) \/ HeartbeatLost(n)
             \/ EnterIteration(n) \/ LeaveIteration(n) \/ Disconnect(n)
      PROVE  UNCHANGED vars
  BY <1>2 DEF StartLost, FirstDatagram, HeartbeatLost, EnterIteration, LeaveIteration,
              Disconnect
<1>3. ASSUME NEW n \in Nick, LookedUp(n)
      PROVE  Next
  BY <1>3 DEF LookedUp, Next
<1>4. ServerRestarts \/ TimePasses => Next
  BY DEF ServerRestarts, TimePasses, Next
<1> QED
  BY <1>1, <1>2, <1>3, <1>4 DEF PresenceNext

LEMMA RegistryStep ==
  ASSUME FixedIps, RegistryInv, [Next]_vars
  PROVE  RegistryInv'
<1>1. CASE Next
  BY <1>1, TypeStep, OneRecordStep, ServiceStep DEF RegistryInv
<1>2. CASE UNCHANGED vars
  BY <1>2, ServiceStep DEF RegistryInv, vars, TypeOK, OneRecordPerNick
<1> QED
  BY <1>1, <1>2

LEMMA PresenceTypeStep ==
  ASSUME PresenceTypeOK, TypeOK', PresenceNext
  PROVE  PresenceTypeOK'
<1> USE DEF PresenceTypeOK
<1>1. now \in Nat
  BY DEF TypeOK
<1>2. ASSUME NEW n \in Nick, NEW src \in Sources[n], StartHeard(n, src)
      PROVE  PresenceTypeOK'
  BY <1>1, <1>2, SourcesAreAddresses, PresenceAssumption
  DEF StartHeard, Launch, PresenceAssumption
<1>3. ASSUME NEW n \in Nick, NEW src \in Sources[n], StartLost(n, src)
      PROVE  PresenceTypeOK'
  BY <1>1, <1>3, SourcesAreAddresses, PresenceAssumption
  DEF StartLost, Launch, PresenceAssumption
<1>11. ASSUME NEW n \in Nick, FirstDatagram(n)
       PROVE  PresenceTypeOK'
  BY <1>1, <1>11 DEF FirstDatagram
<1>4. ASSUME NEW n \in Nick, HeartbeatArrives(n)
      PROVE  PresenceTypeOK'
  BY <1>1, <1>4, PresenceAssumption DEF HeartbeatArrives, PresenceAssumption
<1>5. ASSUME NEW n \in Nick, HeartbeatLost(n)
      PROVE  PresenceTypeOK'
  BY <1>1, <1>5, PresenceAssumption DEF HeartbeatLost, PresenceAssumption
<1>6. ASSUME NEW n \in Nick, EnterIteration(n) \/ LeaveIteration(n)
      PROVE  PresenceTypeOK'
  BY <1>1, <1>6 DEF EnterIteration, LeaveIteration
<1>7. ASSUME NEW n \in Nick, Disconnect(n)
      PROVE  PresenceTypeOK'
  BY <1>7, PresenceAssumption DEF Disconnect, PresenceAssumption
<1>8. ASSUME NEW n \in Nick, LookedUp(n)
      PROVE  PresenceTypeOK'
  BY <1>8 DEF LookedUp, clientVars
<1>9. CASE ServerRestarts
  BY <1>1, <1>9 DEF ServerRestarts, clientVars
<1>10. CASE TimePasses
  BY <1>10 DEF TimePasses, clientVars
<1> QED
  BY <1>2, <1>3, <1>4, <1>5, <1>6, <1>7, <1>8, <1>9, <1>10, <1>11 DEF PresenceNext

LEMMA PresenceInitTyped == PresenceInit => PresenceTypeOK
<1>1. PresenceInit => TypeOK
  BY DEF PresenceInit, Init, TypeOK, Answer
<1> QED
  BY <1>1, PresenceAssumption DEF PresenceInit, PresenceTypeOK, PresenceAssumption

\* The clients' variables keep their types, and no more than MaxMissed registrations of
\* a client are lost in a row (upush_client.c:145-192).
THEOREM PresenceTypeCorrect == PresenceSpec => []PresenceTypeOK
<1>1. PresenceTypeOK /\ [PresenceNext]_presenceVars => PresenceTypeOK'
  <2> SUFFICES ASSUME PresenceTypeOK, [PresenceNext]_presenceVars
               PROVE  PresenceTypeOK'
    OBVIOUS
  <2>1. CASE PresenceNext
    <3>1. [Next]_vars
      BY <2>1, StepIsRegistryStep
    <3>2. TypeOK'
      BY <3>1, TypeStep DEF PresenceTypeOK, TypeOK, vars
    <3> QED
      BY <2>1, <3>2, PresenceTypeStep
  <2>2. CASE UNCHANGED presenceVars
    BY <2>2 DEF PresenceTypeOK, TypeOK, presenceVars, vars, clientVars
  <2> QED
    BY <2>1, <2>2
<1> QED
  BY <1>1, PresenceInitTyped, PTL DEF PresenceSpec

\* What clients and server do together is a behaviour of the server alone: every
\* theorem about ServerRegistry holds of the composition.
THEOREM PresenceImplementsRegistry == PresenceSpec => Spec
<1>1. PresenceInit => Init
  BY DEF PresenceInit
<1>2. PresenceTypeOK /\ [PresenceNext]_presenceVars => [Next]_vars
  BY StepIsRegistryStep DEF presenceVars
<1> QED
  BY <1>1, <1>2, PresenceTypeCorrect, PTL DEF PresenceSpec, Spec

\* A step that leaves alone the server's records of n, and n itself.
Untouched(n) ==
  /\ Records(n)' = Records(n)
  /\ status'[n] = status[n]
  /\ socket'[n] = socket[n]
  /\ last_heartbeat_time'[n] = last_heartbeat_time[n]
  /\ missed'[n] = missed[n]
  /\ since'[n] = since[n]
  /\ arrived'[n] = arrived[n]
  /\ heard'[n] = heard[n]
  /\ now' = now
  /\ restarted' = restarted

LEMMA UntouchedStaysAccounted ==
  ASSUME NEW n \in Nick, Running(n)', Untouched(n), ClientsAccounted
  PROVE  (Punctual(n) /\ Accounted(n))'
<1>1. Punctual(n) /\ Accounted(n)
  BY DEF Untouched, Running, ClientsAccounted
<1> QED
  BY <1>1 DEF Untouched, Punctual, Accounted

LEMMA HeldAlone ==
  ASSUME TypeOK, NEW n \in Nick, NEW src \in Sources[n], NEW record \in Record,
         HoldsInstead(record, n, src)
  PROVE  /\ Records(n)' = {record}
         /\ \A m \in Nick : m # n => Records(m)' = Records(m)
BY DEF HoldsInstead, Records

\* After a registration that arrived, n is accounted for.
LEMMA HeardIsAccounted ==
  ASSUME FixedIps, IInv, NEW n \in Nick, NEW src \in Sources[n],
         register_client(n, src), socket'[n] = src,
         arrived'[n] = now, missed'[n] = 0,
         \/ status'[n] = "idle" /\ last_heartbeat_time'[n] = now
         \/ status'[n] = "starting" /\ since'[n] = now
  PROVE  (Punctual(n) /\ Accounted(n))'
<1>1. PICK record \in Record : HoldsInstead(record, n, src)
  BY RegisteredRecord DEF IInv, RegistryInv
<1>2. Records(n)' = {record}
  BY <1>1, HeldAlone DEF IInv, RegistryInv
<1>3. /\ now' = now /\ now \in Nat
      /\ Gap \in Nat /\ Period \in Nat /\ Delay \in Nat /\ Timeout \in Nat
  BY GapType, PresenceAssumption
  DEF register_client, IInv, RegistryInv, TypeOK, PresenceAssumption
<1>4. Punctual(n)'
  BY <1>3 DEF Punctual
<1>5. Accounted(n)'
  <2>1. 0 * Gap = 0
    BY <1>3
  <2>2. now <= now + Timeout + 0 * Gap
    BY <1>3, <2>1
  <2>3. /\ record.ip = src.ip /\ record.port = src.port
        /\ record.last_heartbeat = now
    BY <1>1 DEF HoldsInstead
  <2>4. Records(n)' # {}
    BY <1>2
  <2> QED
    BY <1>2, <1>3, <2>2, <2>3, <2>4 DEF Accounted
<1> QED
  BY <1>4, <1>5

LEMMA OthersUntouched ==
  ASSUME FixedIps, IInv, NEW n \in Nick, NEW src \in Sources[n],
         register_client(n, src), NEW m \in Nick, m # n
  PROVE  Records(m)' = Records(m) /\ now' = now
<1>1. PICK record \in Record : HoldsInstead(record, n, src)
  BY RegisteredRecord DEF IInv, RegistryInv
<1> QED
  BY <1>1, HeldAlone DEF IInv, RegistryInv, register_client

LEMMA RegisteringStep ==
  ASSUME FixedIps, IInv, NEW n \in Nick, NEW src \in Sources[n],
         \/ StartHeard(n, src)
         \/ HeartbeatArrives(n) /\ src = socket[n]
  PROVE  ClientsAccounted'
<1>1. register_client(n, src)
  BY DEF StartHeard, HeartbeatArrives
<1>2. ASSUME NEW m \in Nick, Running(m)', m # n
      PROVE  (Punctual(m) /\ Accounted(m))'
  <2>1. Untouched(m)
    BY <1>1, <1>2, OthersUntouched
    DEF Untouched, StartHeard, Launch, HeartbeatArrives, IInv, PresenceTypeOK
  <2> QED
    BY <1>2, <2>1, UntouchedStaysAccounted DEF IInv
<1>3. (Punctual(n) /\ Accounted(n))'
  <2>1. CASE StartHeard(n, src)
    BY <1>1, <2>1, HeardIsAccounted DEF StartHeard, Launch, IInv, PresenceTypeOK
  <2>2. CASE HeartbeatArrives(n) /\ src = socket[n]
    BY <1>1, <2>2, HeardIsAccounted DEF HeartbeatArrives, IInv, PresenceTypeOK
  <2> QED
    BY <2>1, <2>2
<1> QED
  BY <1>2, <1>3 DEF ClientsAccounted

LEMMA ClientStepTypes ==
  ASSUME IInv, NEW n \in Nick
  PROVE  /\ now \in Nat /\ last_heartbeat_time[n] \in Nat /\ restarted \in Nat
         /\ missed[n] \in Nat /\ since[n] \in Nat /\ arrived[n] \in Nat
         /\ Period \in Nat /\ Delay \in Nat \ {0} /\ Timeout \in Nat /\ Gap \in Nat
         /\ missed[n] * Gap \in Nat /\ (missed[n] + 1) * Gap = missed[n] * Gap + Gap
BY PresenceAssumption, GapType, Multiples
DEF IInv, PresenceTypeOK, TypeOK, PresenceAssumption

\* A registration that is lost: the client's history starts anew.
LEMMA LostStartAccounted ==
  ASSUME IInv, NEW n \in Nick, NEW src \in Sources[n], StartLost(n, src)
  PROVE  (Punctual(n) /\ Accounted(n))'
<1>1. /\ now' = now /\ status'[n] = "starting" /\ ~ heard'[n]
      /\ since'[n] = now /\ arrived'[n] = now
  BY DEF StartLost, Launch, vars, IInv, PresenceTypeOK
<1>2. Punctual(n)'
  BY <1>1, ClientStepTypes DEF Punctual
<1>3. Accounted(n)'
  BY <1>1 DEF Accounted
<1> QED
  BY <1>2, <1>3

LEMMA FirstDatagramAccounted ==
  ASSUME IInv, NEW n \in Nick, FirstDatagram(n)
  PROVE  (Punctual(n) /\ Accounted(n))'
<1>1. /\ now' = now /\ restarted' = restarted /\ Records(n)' = Records(n)
      /\ status[n] = "starting" /\ status'[n] = "idle"
      /\ last_heartbeat_time'[n] = now
      /\ socket'[n] = socket[n] /\ missed'[n] = missed[n]
      /\ arrived'[n] = arrived[n] /\ heard'[n] = heard[n]
  BY DEF FirstDatagram, vars, Records, IInv, PresenceTypeOK
<1>2. Running(n)
  BY <1>1 DEF Running
<1>3. Punctual(n) /\ Accounted(n)
  BY <1>2 DEF IInv, ClientsAccounted
<1>4. now <= arrived[n] + Timeout + missed[n] * Gap
  BY <1>1, <1>3, ClientStepTypes DEF Punctual
<1>5. Punctual(n)'
  BY <1>1, <1>3, ClientStepTypes DEF Punctual
<1>6. Accounted(n)'
  BY <1>1, <1>3, <1>4 DEF Accounted
<1> QED
  BY <1>5, <1>6

LEMMA LostHeartbeatAccounted ==
  ASSUME IInv, NEW n \in Nick, HeartbeatLost(n)
  PROVE  (Punctual(n) /\ Accounted(n))'
<1>1. /\ now' = now /\ restarted' = restarted /\ Records(n)' = Records(n)
      /\ status[n] = "idle" /\ status'[n] = "idle"
      /\ last_heartbeat_time'[n] = now /\ missed'[n] = missed[n] + 1
      /\ socket'[n] = socket[n]
      /\ arrived'[n] = arrived[n] /\ heard'[n] = heard[n]
  BY DEF HeartbeatLost, vars, Records, IInv, PresenceTypeOK
<1>2. Running(n)
  BY <1>1 DEF Running
<1>3. Punctual(n) /\ Accounted(n)
  BY <1>2 DEF IInv, ClientsAccounted
<1>4. now <= last_heartbeat_time[n] + Gap
  BY <1>1, <1>2, <1>3, PunctualWithinGap DEF IInv
<1>5. last_heartbeat_time[n] <= arrived[n] + Timeout + missed[n] * Gap
  BY <1>1, <1>3 DEF Accounted
<1>6. now <= arrived[n] + Timeout + (missed[n] + 1) * Gap
  BY <1>4, <1>5, ClientStepTypes
<1>7. Punctual(n)'
  BY <1>1, <1>3, ClientStepTypes DEF Punctual
<1>8. Accounted(n)'
  BY <1>1, <1>3, <1>6 DEF Accounted
<1> QED
  BY <1>7, <1>8

LEMMA IterationAccounted ==
  ASSUME IInv, NEW n \in Nick, EnterIteration(n) \/ LeaveIteration(n)
  PROVE  (Punctual(n) /\ Accounted(n))'
<1>1. /\ now' = now /\ restarted' = restarted /\ Records(n)' = Records(n)
      /\ status[n] \in {"idle", "busy"} /\ status'[n] \in {"idle", "busy"}
      /\ last_heartbeat_time'[n] = last_heartbeat_time[n] /\ missed'[n] = missed[n]
      /\ socket'[n] = socket[n]
      /\ arrived'[n] = arrived[n] /\ heard'[n] = heard[n]
  BY DEF EnterIteration, LeaveIteration, vars, Records, IInv, PresenceTypeOK
<1>2. Punctual(n) /\ Accounted(n)
  BY <1>1 DEF Running, IInv, ClientsAccounted
<1>3. Accounted(n)'
  BY <1>1, <1>2 DEF Accounted
<1>4. CASE EnterIteration(n)
  <2>1. /\ status'[n] = "busy" /\ since'[n] = now
        /\ now <= last_heartbeat_time[n] + Period
    BY <1>4, ClientStepTypes DEF EnterIteration, HeartbeatDue, IInv, PresenceTypeOK
  <2> QED
    BY <1>1, <1>2, <1>3, <2>1, ClientStepTypes DEF Punctual
<1>5. CASE LeaveIteration(n)
  <2>1. status[n] = "busy" /\ status'[n] = "idle"
    BY <1>5 DEF LeaveIteration, IInv, PresenceTypeOK
  <2> QED
    BY <1>1, <1>2, <1>3, <2>1, ClientStepTypes DEF Punctual
<1> QED
  BY <1>4, <1>5

\* The client's own steps: the server's records stay as they are.
LEMMA ClientStepAccounted ==
  ASSUME IInv, NEW n \in Nick,
         \/ \E src \in Sources[n] : StartLost(n, src)
         \/ FirstDatagram(n) \/ HeartbeatLost(n)
         \/ EnterIteration(n) \/ LeaveIteration(n) \/ Disconnect(n)
  PROVE  ClientsAccounted'
<1>1. UNCHANGED <<vars, restarted>>
  BY DEF StartLost, Launch, FirstDatagram, HeartbeatLost, EnterIteration,
         LeaveIteration, Disconnect
<1>2. now' = now /\ restarted' = restarted /\ \A m \in Nick : Records(m)' = Records(m)
  BY <1>1 DEF vars, Records
<1>3. ASSUME NEW m \in Nick, Running(m)', m # n
      PROVE  (Punctual(m) /\ Accounted(m))'
  <2>1. /\ status'[m] = status[m] /\ socket'[m] = socket[m]
        /\ last_heartbeat_time'[m] = last_heartbeat_time[m]
        /\ missed'[m] = missed[m] /\ since'[m] = since[m]
        /\ arrived'[m] = arrived[m] /\ heard'[m] = heard[m]
    BY <1>3
    DEF StartLost, Launch, FirstDatagram, HeartbeatLost, EnterIteration, LeaveIteration,
        Disconnect, IInv, PresenceTypeOK
  <2>2. Untouched(m)
    BY <1>2, <2>1 DEF Untouched
  <2> QED
    BY <1>3, <2>2, UntouchedStaysAccounted DEF IInv
<1>4. ASSUME Running(n)'
      PROVE  (Punctual(n) /\ Accounted(n))'
  <2>1. ~ Disconnect(n)
    BY <1>4 DEF Disconnect, Running, IInv, PresenceTypeOK
  <2> QED
    BY <2>1, LostStartAccounted, FirstDatagramAccounted, LostHeartbeatAccounted,
       IterationAccounted
<1> QED
  BY <1>3, <1>4 DEF ClientsAccounted

\* What a lookup removes is stale.
LEMMA LookupAccounted ==
  ASSUME IInv, NEW n \in Nick, LookedUp(n)
  PROVE  ClientsAccounted'
<1>1. UNCHANGED <<now, clientVars, restarted>>
  BY DEF LookedUp, lookup_client, LookupUnknown, LookupStale, LookupFound
<1>2. ASSUME NEW m \in Nick, Records(m)' = Records(m), Running(m)'
      PROVE  (Punctual(m) /\ Accounted(m))'
  <2>1. Untouched(m)
    BY <1>1, <1>2 DEF Untouched, clientVars
  <2> QED
    BY <1>2, <2>1, UntouchedStaysAccounted DEF IInv
<1>3. CASE LookupUnknown(n) \/ LookupFound(n)
  <2>1. \A m \in Nick : Records(m)' = Records(m)
    BY <1>3 DEF LookupUnknown, LookupFound, Records
  <2> QED
    BY <1>2, <2>1 DEF ClientsAccounted
<1>4. CASE LookupStale(n)
  <2>1. PICK record \in Records(n) :
          /\ get_seconds_since_last_heartbeat(record) > Expiry
          /\ client_list' = client_list \ {record}
    BY <1>4 DEF LookupStale
  <2>2. ASSUME NEW m \in Nick, Running(m)', m # n
        PROVE  (Punctual(m) /\ Accounted(m))'
    <3>1. Records(m)' = Records(m)
      BY <2>1, <2>2 DEF Records
    <3> QED
      BY <1>2, <2>2, <3>1
  <2>3. ASSUME Running(n)'
        PROVE  (Punctual(n) /\ Accounted(n))'
    <3>1. /\ status'[n] = status[n] /\ socket'[n] = socket[n]
          /\ last_heartbeat_time'[n] = last_heartbeat_time[n]
          /\ missed'[n] = missed[n] /\ since'[n] = since[n]
          /\ arrived'[n] = arrived[n] /\ heard'[n] = heard[n]
          /\ now' = now /\ restarted' = restarted
      BY <1>1 DEF clientVars
    <3>2. Punctual(n) /\ Accounted(n)
      BY <2>3, <3>1 DEF Running, IInv, ClientsAccounted
    <3>3. Records(n)' \subseteq Records(n)
      BY <2>1 DEF Records
    <3>4. heard[n] => now > arrived[n] + Expiry
      <4>1. heard[n] => record.last_heartbeat = arrived[n]
        BY <3>2 DEF Accounted
      <4>2. arrived[n] \in Nat /\ now \in Nat /\ Expiry \in Nat
        BY ClientStepTypes, RegistryAssumption DEF RegistryAssumption
      <4> QED
        BY <2>1, <4>1, <4>2 DEF get_seconds_since_last_heartbeat
    <3>5. Punctual(n)'
      BY <3>1, <3>2 DEF Punctual
    <3>6. Accounted(n)'
      BY <3>1, <3>2, <3>3, <3>4 DEF Accounted
    <3> QED
      BY <3>5, <3>6
  <2> QED
    BY <2>2, <2>3 DEF ClientsAccounted
<1> QED
  BY <1>3, <1>4 DEF LookedUp, lookup_client

LEMMA RestartAccounted ==
  ASSUME IInv, ServerRestarts
  PROVE  ClientsAccounted'
<1> SUFFICES ASSUME NEW n \in Nick, Running(n)'
             PROVE  (Punctual(n) /\ Accounted(n))'
  BY DEF ClientsAccounted
<1>1. /\ UNCHANGED clientVars /\ now' = now /\ restarted' = now
      /\ Records(n)' = {}
  BY DEF ServerRestarts, Restart, Records
<1>2. Punctual(n) /\ Accounted(n)
  BY <1>1 DEF clientVars, Running, IInv, ClientsAccounted
<1>3. restarted' >= arrived'[n]
  BY <1>1, <1>2, ClientStepTypes DEF Punctual, clientVars
<1>4. Punctual(n)'
  BY <1>1, <1>2 DEF Punctual, clientVars
<1>5. Accounted(n)'
  BY <1>1, <1>2, <1>3 DEF Accounted, clientVars
<1> QED
  BY <1>4, <1>5

LEMMA TimeAccounted ==
  ASSUME IInv, TimePasses
  PROVE  ClientsAccounted'
<1> SUFFICES ASSUME NEW n \in Nick, Running(n)'
             PROVE  (Punctual(n) /\ Accounted(n))'
  BY DEF ClientsAccounted
<1>1. /\ UNCHANGED <<clientVars, restarted>> /\ now' = now + 1
      /\ Records(n)' = Records(n)
  BY DEF TimePasses, Tick, Records
<1>2. Punctual(n) /\ Accounted(n)
  BY <1>1 DEF clientVars, Running, IInv, ClientsAccounted
<1>3. /\ status[n] = "starting" => now < since[n] + Timeout
      /\ status[n] = "idle" => now <= last_heartbeat_time[n] + Period
      /\ status[n] = "busy" => now < since[n] + Delay
  BY ClientStepTypes DEF TimePasses, HeartbeatDue
<1>4. Punctual(n)'
  BY <1>1, <1>2, <1>3, ClientStepTypes DEF Punctual, clientVars
<1>5. now > arrived[n] + Expiry => now' > arrived[n] + Expiry
  BY <1>1, ClientStepTypes, RegistryAssumption DEF RegistryAssumption
<1>6. Accounted(n)'
  BY <1>1, <1>2, <1>5 DEF Accounted, clientVars
<1> QED
  BY <1>4, <1>6

LEMMA InvariantStep ==
  ASSUME FixedIps, IInv, [PresenceNext]_presenceVars
  PROVE  IInv'
<1>1. CASE PresenceNext
  <2>1. RegistryInv'
    BY <1>1, StepIsRegistryStep, RegistryStep DEF IInv
  <2>2. PresenceTypeOK'
    BY <1>1, <2>1, PresenceTypeStep DEF IInv, RegistryInv
  <2>3. ASSUME NEW n \in Nick, NEW src \in Sources[n],
               StartHeard(n, src)
        PROVE  ClientsAccounted'
    BY <2>3, RegisteringStep
  <2>4. ASSUME NEW n \in Nick, HeartbeatArrives(n)
        PROVE  ClientsAccounted'
    <3>1. socket[n] \in Sources[n]
      BY DEF IInv, PresenceTypeOK
    <3> QED
      BY <2>4, <3>1, RegisteringStep
  <2>5. ClientsAccounted'
    BY <1>1, <2>3, <2>4, ClientStepAccounted, LookupAccounted,
       RestartAccounted, TimeAccounted
    DEF PresenceNext
  <2> QED
    BY <2>1, <2>2, <2>5 DEF IInv
<1>2. CASE UNCHANGED presenceVars
  <2>1. RegistryInv'
    BY <1>2, RegistryStep DEF IInv, presenceVars
  <2>2. PresenceTypeOK'
    BY <1>2, <2>1
    DEF IInv, RegistryInv, PresenceTypeOK, presenceVars, clientVars
  <2>3. ASSUME NEW n \in Nick
        PROVE  Untouched(n) /\ (Running(n)' = Running(n))
    BY <1>2 DEF Untouched, presenceVars, vars, clientVars, Records, Running
  <2>4. ClientsAccounted'
    BY <2>3, UntouchedStaysAccounted DEF IInv, ClientsAccounted
  <2> QED
    BY <2>1, <2>2, <2>4 DEF IInv
<1> QED
  BY <1>1, <1>2

\* For every period, timeout, delay, expiry time and number of registrations lost in a
\* row, a client that runs is registered at least every Silence seconds, and found at
\* its own socket until that registration is stale or the server is restarted
\* (upush_client.c:145-192, upush_server.c:101).
THEOREM ConnectedClientsAreFound ==
  ASSUME FixedIps
  PROVE  PresenceSpec => []ConnectedIsFound
<1>1. PresenceInit => IInv
  <2> SUFFICES ASSUME PresenceInit
               PROVE  IInv
    OBVIOUS
  <2>1. TypeOK /\ OneRecordPerNick
    BY PresenceInitTyped DEF PresenceInit, Init, PresenceTypeOK, OneRecordPerNick
  <2>2. ListMatches
    BY DEF PresenceInit, Init, ListMatches, Records, Service!Fresh, Never,
           Service!Never
  <2>3. PresenceTypeOK
    BY PresenceInitTyped
  <2>4. ClientsAccounted
    BY DEF PresenceInit, ClientsAccounted, Running
  <2> QED
    BY <2>1, <2>2, <2>3, <2>4 DEF IInv, RegistryInv
<1>2. IInv /\ [PresenceNext]_presenceVars => IInv'
  BY InvariantStep
<1>3. IInv => ConnectedIsFound
  BY AccountedIsFound
<1> QED
  BY <1>1, <1>2, <1>3, PTL DEF PresenceSpec
=============================================================================
