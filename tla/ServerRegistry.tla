----------------------------- MODULE ServerRegistry ----------------------------
(***************************************************************************)
(* The server process (upush_server.c) and its list of clients             *)
(* (server_client.c, server_client_list.c).                                *)
(*                                                                         *)
(* The server is one loop that handles one datagram at a time.  Requests   *)
(* arrive in any order, any number of times and from any address in        *)
(* Sources, which covers lost, duplicated and delayed ones.  The linked    *)
(* list is a set of records: its order shows only if a nick has two.       *)
(***************************************************************************)
EXTENDS Integers, FiniteSets

CONSTANTS
  Nick,     \* the nicks that clients register
  Ip, Port,
  Sources,  \* Sources[n]: the addresses the client called n registers from
  Expiry,   \* seconds after which a registration is stale: 30 in lookup_client
  MaxTime   \* bound: the clock stops there

Address == [ip : Ip, port : Port]

ASSUME RegistryAssumption ==
  /\ Sources \in [Nick -> SUBSET Address]
  /\ Expiry \in Nat
  /\ MaxTime \in Nat

VARIABLES
  now,          \* gettimeofday, in seconds
  client_list,  \* the records [nick, ip, port, last_heartbeat]
  answer,       \* the last datagram the server sent
  registered    \* history: the last registration of each nick, as NameService has it

vars == <<now, client_list, answer, registered>>

Never       == [at |-> "never"]
OK          == [kind |-> "OK"]
NotFound(n) == [kind |-> "NOT FOUND", nick |-> n]
Found(n, a) == [kind |-> "NICK", nick |-> n, addr |-> a]

\* find_client_by_nick returns a record of this set, or NULL when it is empty.
Records(n) == {client \in client_list : client.nick = n}

get_seconds_since_last_heartbeat(client) == now - client.last_heartbeat

\* Faulty variant: the time of the first heartbeat is not set.
create_client_WithoutTime(n, src) ==
  [nick |-> n, ip |-> src.ip, port |-> src.port, last_heartbeat |-> -1]

create_client(n, src) ==
  [nick |-> n, ip |-> src.ip, port |-> src.port, last_heartbeat |-> now]

\* Faulty variant: a registration leaves the time of the last one.
update_client_KeepsHeartbeat(client, src) ==
  [client EXCEPT !.ip = IF client.ip = src.ip THEN src.ip ELSE @,
                 !.port = src.port]

\* The address is compared the wrong way round: a new ip is never stored.
update_client(client, src) ==
  [client EXCEPT !.ip = IF client.ip = src.ip THEN src.ip ELSE @,
                 !.port = src.port,
                 !.last_heartbeat = now]

Init ==
  /\ now = 0
  /\ client_list = {}
  /\ answer = OK
  /\ registered = [n \in Nick |-> Never]

-----------------------------------------------------------------------------
\* Faulty variant: a registration always adds a record.
register_client_Adds(n, src) ==
  /\ client_list' = client_list \cup {create_client(n, src)}
  /\ answer' = OK
  /\ registered' = [registered EXCEPT ![n] = [at |-> now, addr |-> src]]
  /\ UNCHANGED now

register_client(n, src) ==
  /\ \/ /\ Records(n) = {}
        /\ client_list' = client_list \cup {create_client(n, src)}
     \/ \E client \in Records(n) :
          client_list' = (client_list \ {client}) \cup {update_client(client, src)}
  /\ answer' = OK
  /\ registered' = [registered EXCEPT ![n] = [at |-> now, addr |-> src]]
  /\ UNCHANGED now

LookupUnknown(n) ==
  /\ Records(n) = {}
  /\ answer' = NotFound(n)
  /\ UNCHANGED <<now, client_list, registered>>

\* A stale record is noticed, and removed, only when it is looked up.
LookupStale(n) ==
  /\ \E client \in Records(n) :
       /\ get_seconds_since_last_heartbeat(client) > Expiry
       /\ client_list' = client_list \ {client}
  /\ answer' = NotFound(n)
  /\ UNCHANGED <<now, registered>>

LookupFound(n) ==
  /\ \E client \in Records(n) :
       /\ get_seconds_since_last_heartbeat(client) <= Expiry
       /\ answer' = Found(n, [ip |-> client.ip, port |-> client.port])
  /\ UNCHANGED <<now, client_list, registered>>

lookup_client(n) == LookupUnknown(n) \/ LookupStale(n) \/ LookupFound(n)

\* SIGINT makes select fail, quit_server frees the list; the server is run again.
Restart ==
  /\ client_list' = {}
  /\ answer' = OK
  /\ registered' = [n \in Nick |-> Never]
  /\ UNCHANGED now

Tick ==
  /\ now < MaxTime
  /\ now' = now + 1
  /\ UNCHANGED <<client_list, answer, registered>>

Next ==
  \/ \E n \in Nick : lookup_client(n) \/ \E src \in Sources[n] : register_client(n, src)
  \/ Restart \/ Tick

Spec == Init /\ [][Next]_vars

-----------------------------------------------------------------------------
(* Properties.                                                             *)

Record == [nick : Nick, ip : Ip, port : Port, last_heartbeat : Nat]

Registration == [at : Nat, addr : Address]

Answer == {OK} \cup [kind : {"NOT FOUND"}, nick : Nick]
               \cup [kind : {"NICK"}, nick : Nick, addr : Address]

\* The clock, the records, the answers and the history keep their types.
TypeOK ==
  /\ now \in Nat
  /\ client_list \subseteq Record
  /\ answer \in Answer
  /\ registered \in [Nick -> Registration \cup {Never}]

\* A nick has one record at most, so that which one a search of the list finds
\* first does not matter (register_client searches before it adds).
OneRecordPerNick ==
  \A client, other \in client_list : client.nick = other.nick => client = other

Service == INSTANCE NameService

\* Every answer is the one NameService gives from the last registration: no
\* fresh nick is missed, no stale one reported, and the address is the last one.
\* Holds while no nick changes its ip, for ports may change but ips do not.
IsNameService == Service!Spec

\* "registers the nick, ip and port of client" (upush_server.c:42).
ReportsLastAddress ==
  [][\A n \in Nick : LookupFound(n)
       => answer'.addr = registered[n].addr]_vars
=============================================================================
