-------------------------------- MODULE Presence -------------------------------
(***************************************************************************)
(* The clients' side of registration composed with the server: start-up,   *)
(* heartbeats and their loss (upush_client.c, client_to_server_com.c), the *)
(* time an event loop is held up in blocking lookups, and restarts of the  *)
(* server.  A client is called by its nick; time is what gettimeofday says *)
(* in seconds, the unit of the comparisons in the code.                    *)
(***************************************************************************)
EXTENDS ServerRegistry

CONSTANTS
  Period,     \* a heartbeat is due once more than Period seconds passed: 10
  Timeout,    \* timeout_sec, the seconds that the first select waits
  Delay,      \* bound: seconds that one iteration of the event loop may take
  MaxMissed   \* bound: registrations of one client lost in a row

ASSUME PresenceAssumption ==
  /\ Period \in Nat
  /\ Timeout \in Nat
  /\ Delay \in Nat \ {0}
  /\ MaxMissed \in Nat

\* The longest time between two heartbeats, and between two registrations that arrive.
Gap == Period + Delay
Silence == Timeout + (MaxMissed + 1) * Gap

VARIABLES
  status,               \* off, starting, or in the event loop: idle, or busy in an iteration
  socket,               \* the address a client's socket is bound to
  last_heartbeat_time,  \* last_heartbeat_time of main
  missed,               \* registrations lost since one arrived
  since,                \* when the start or the iteration began that a client is in, or 0
  arrived,              \* history: when the last registration of the client's socket
                        \* arrived, or when the client was started if none has
  heard,                \* history: whether one has
  restarted             \* history: when the server was last started

clientVars   == <<status, socket, last_heartbeat_time, missed, since, arrived, heard>>
presenceVars == <<vars, clientVars, restarted>>

Running(n) == status[n] # "off"

HeartbeatDue(n) == now > last_heartbeat_time[n] + Period

PresenceInit ==
  /\ Init
  /\ status = [n \in Nick |-> "off"]
  /\ socket \in [Nick -> Address] /\ \A n \in Nick : socket[n] \in Sources[n]
  /\ last_heartbeat_time = [n \in Nick |-> 0]
  /\ missed = [n \in Nick |-> 0]
  /\ since = [n \in Nick |-> 0]
  /\ arrived = [n \in Nick |-> 0]
  /\ heard = [n \in Nick |-> FALSE]
  /\ restarted = 0

-----------------------------------------------------------------------------
\* A socket is bound and send_reg_msg_to_server called; the first select is next.
Launch(n, src) ==
  /\ status[n] = "off"
  /\ status' = [status EXCEPT ![n] = "starting"]
  /\ socket' = [socket EXCEPT ![n] = src]
  /\ since' = [since EXCEPT ![n] = now]
  /\ arrived' = [arrived EXCEPT ![n] = now]
  /\ UNCHANGED <<last_heartbeat_time, restarted>>

\* The registration arrives, whatever becomes of the answer to it.
StartHeard(n, src) ==
  /\ Launch(n, src)
  /\ register_client(n, src)
  /\ missed' = [missed EXCEPT ![n] = 0]
  /\ heard' = [heard EXCEPT ![n] = TRUE]

StartLost(n, src) ==
  /\ Launch(n, src)
  /\ MaxMissed > 0 /\ missed' = [missed EXCEPT ![n] = 1]
  /\ heard' = [heard EXCEPT ![n] = FALSE]
  /\ UNCHANGED vars

\* Whatever datagram ends the first select, the server's answer or a stray one, which
\* may come whether or not the registration arrived, the client is connected.
FirstDatagram(n) ==
  /\ status[n] = "starting"
  /\ status' = [status EXCEPT ![n] = "idle"]
  /\ last_heartbeat_time' = [last_heartbeat_time EXCEPT ![n] = now]
  /\ since' = [since EXCEPT ![n] = 0]
  /\ UNCHANGED <<vars, socket, missed, arrived, heard, restarted>>

HeartbeatArrives(n) ==
  /\ status[n] = "idle"
  /\ HeartbeatDue(n)
  /\ register_client(n, socket[n])
  /\ last_heartbeat_time' = [last_heartbeat_time EXCEPT ![n] = now]
  /\ missed' = [missed EXCEPT ![n] = 0]
  /\ arrived' = [arrived EXCEPT ![n] = now]
  /\ heard' = [heard EXCEPT ![n] = TRUE]
  /\ UNCHANGED <<status, socket, since, restarted>>

\* The time is taken although nothing tells the client that its message was lost.
HeartbeatLost(n) ==
  /\ status[n] = "idle"
  /\ HeartbeatDue(n)
  /\ missed[n] < MaxMissed
  /\ last_heartbeat_time' = [last_heartbeat_time EXCEPT ![n] = now]
  /\ missed' = [missed EXCEPT ![n] = @ + 1]
  /\ UNCHANGED <<vars, status, socket, since, arrived, heard, restarted>>

\* Faulty variant: input is served before the time of the last heartbeat is checked.
EnterIteration_Unchecked(n) ==
  /\ status[n] = "idle"
  /\ status' = [status EXCEPT ![n] = "busy"]
  /\ since' = [since EXCEPT ![n] = now]
  /\ UNCHANGED <<vars, socket, last_heartbeat_time, missed, arrived, heard, restarted>>

\* No heartbeat is due: the loop goes on to contacts and input, which may block
\* in lookups.
EnterIteration(n) ==
  /\ status[n] = "idle"
  /\ ~ HeartbeatDue(n)
  /\ status' = [status EXCEPT ![n] = "busy"]
  /\ since' = [since EXCEPT ![n] = now]
  /\ UNCHANGED <<vars, socket, last_heartbeat_time, missed, arrived, heard, restarted>>

LeaveIteration(n) ==
  /\ status[n] = "busy"
  /\ status' = [status EXCEPT ![n] = "idle"]
  /\ since' = [since EXCEPT ![n] = 0]
  /\ UNCHANGED <<vars, socket, last_heartbeat_time, missed, arrived, heard, restarted>>

\* No datagram came before the first select timed out, QUIT or a signal: quit_client
\* tells the server nothing.
Disconnect(n) ==
  /\ Running(n)
  /\ status' = [status EXCEPT ![n] = "off"]
  /\ last_heartbeat_time' = [last_heartbeat_time EXCEPT ![n] = 0]
  /\ missed' = [missed EXCEPT ![n] = 0]
  /\ since' = [since EXCEPT ![n] = 0]
  /\ arrived' = [arrived EXCEPT ![n] = 0]
  /\ heard' = [heard EXCEPT ![n] = FALSE]
  /\ UNCHANGED <<vars, socket, restarted>>

LookedUp(n) ==
  /\ lookup_client(n)
  /\ UNCHANGED <<clientVars, restarted>>

ServerRestarts ==
  /\ Restart
  /\ restarted' = now
  /\ UNCHANGED clientVars

\* The first select waits no longer than Timeout.  The loop polls every half second,
\* so an idle client sends its heartbeat within the second it is due in; an iteration
\* ends within Delay seconds.
TimePasses ==
  /\ \A n \in Nick :
       /\ status[n] = "starting" => now < since[n] + Timeout
       /\ status[n] = "idle" => ~ HeartbeatDue(n)
       /\ status[n] = "busy" => now < since[n] + Delay
  /\ Tick
  /\ UNCHANGED <<clientVars, restarted>>

PresenceNext ==
  \/ \E n \in Nick :
       \/ \E src \in Sources[n] : StartHeard(n, src) \/ StartLost(n, src)
       \/ FirstDatagram(n)
       \/ HeartbeatArrives(n) \/ HeartbeatLost(n)
       \/ EnterIteration(n) \/ LeaveIteration(n)
       \/ Disconnect(n) \/ LookedUp(n)
  \/ ServerRestarts \/ TimePasses

PresenceSpec == PresenceInit /\ [][PresenceNext]_presenceVars

-----------------------------------------------------------------------------
(* Properties.                                                             *)

\* The variables of the clients keep their types.
PresenceTypeOK ==
  /\ TypeOK
  /\ status \in [Nick -> {"off", "starting", "idle", "busy"}]
  /\ socket \in [Nick -> Address] /\ \A n \in Nick : socket[n] \in Sources[n]
  /\ last_heartbeat_time \in [Nick -> Nat]
  /\ missed \in [Nick -> 0 .. MaxMissed]
  /\ since \in [Nick -> Nat] /\ arrived \in [Nick -> Nat]
  /\ heard \in [Nick -> BOOLEAN]
  /\ restarted \in Nat

Reachable(n) ==
  \E record \in Records(n) :
    /\ get_seconds_since_last_heartbeat(record) <= Expiry
    /\ record.ip = socket[n].ip /\ record.port = socket[n].port

\* A client that runs, on whatever datagram it was started, is registered within Silence
\* seconds, and again within Silence seconds of each time; and once it is, a lookup finds
\* it at its own socket until its record is older than Expiry or the server is restarted
\* (upush_client.c:145-192, upush_server.c:101).  Holds if no nick changes its ip.
ConnectedIsFound ==
  \A n \in Nick : Running(n) =>
    /\ now <= arrived[n] + Silence
    /\ heard[n] => \/ Reachable(n)
                   \/ now > arrived[n] + Expiry
                   \/ Records(n) = {} /\ restarted >= arrived[n]
=============================================================================
