-------------------------- MODULE ServerRegistryProofs -------------------------
(***************************************************************************)
(* Proofs about ServerRegistry, for every set of nicks and addresses and   *)
(* every expiry time: the types, the uniqueness of records, and that the   *)
(* server implements NameService when no nick changes its ip.              *)
(***************************************************************************)
EXTENDS ServerRegistry, TLAPS

\* Every nick registers from one host, on any of its ports.
FixedIps ==
  \A n \in Nick : \A src, other \in Sources[n] : src.ip = other.ip

LEMMA UpdatedRecord ==
  ASSUME NEW client \in Record, NEW src \in Address, TypeOK
  PROVE  /\ update_client(client, src) \in Record
         /\ update_client(client, src).nick = client.nick
         /\ update_client(client, src).ip = client.ip
         /\ update_client(client, src).port = src.port
         /\ update_client(client, src).last_heartbeat = now
  BY DEF TypeOK, Record, Address, update_client

LEMMA CreatedRecord ==
  ASSUME NEW n \in Nick, NEW src \in Address, TypeOK
  PROVE  /\ create_client(n, src) \in Record
         /\ create_client(n, src).nick = n
         /\ create_client(n, src).ip = src.ip
         /\ create_client(n, src).port = src.port
         /\ create_client(n, src).last_heartbeat = now
  BY DEF TypeOK, Record, Address, create_client

LEMMA SourcesAreAddresses ==
  ASSUME NEW n \in Nick, NEW src \in Sources[n]
  PROVE  src \in Address
  BY RegistryAssumption DEF RegistryAssumption

-----------------------------------------------------------------------------
LEMMA TypeStep ==
  ASSUME TypeOK, Next
  PROVE  TypeOK'
<1>1. ASSUME NEW n \in Nick, NEW src \in Sources[n], register_client(n, src)
      PROVE  TypeOK'
  <2>1. src \in Address
    BY SourcesAreAddresses
  <2>2. client_list' \subseteq Record
    <3>1. CASE client_list' = client_list \cup {create_client(n, src)}
      BY <3>1, <2>1, CreatedRecord DEF TypeOK
    <3>2. CASE \E client \in Records(n) :
                 client_list' = (client_list \ {client}) \cup {update_client(client, src)}
      BY <3>2, <2>1, UpdatedRecord DEF TypeOK, Records
    <3> QED
      BY <3>1, <3>2, <1>1 DEF register_client
  <2>3. registered' \in [Nick -> Registration \cup {Never}]
    BY <1>1, <2>1 DEF register_client, TypeOK, Registration
  <2> QED
    BY <1>1, <2>2, <2>3 DEF register_client, TypeOK, Answer
<1>2. ASSUME NEW n \in Nick, lookup_client(n)
      PROVE  TypeOK'
  <2>1. CASE LookupUnknown(n)
    BY <2>1 DEF LookupUnknown, TypeOK, Answer, NotFound
  <2>2. CASE LookupStale(n)
    BY <2>2 DEF LookupStale, TypeOK, Answer, NotFound
  <2>3. CASE LookupFound(n)
    <3>1. PICK client \in Records(n) :
            answer' = Found(n, [ip |-> client.ip, port |-> client.port])
      BY <2>3 DEF LookupFound
    <3>2. [ip |-> client.ip, port |-> client.port] \in Address
      BY DEF Records, TypeOK, Record, Address
    <3>3. answer' \in Answer
      BY <3>1, <3>2 DEF Answer, Found
    <3> QED
      BY <2>3, <3>3 DEF LookupFound, TypeOK
  <2> QED
    BY <1>2, <2>1, <2>2, <2>3 DEF lookup_client
<1>3. CASE Restart
  BY <1>3 DEF Restart, TypeOK, Answer, Registration
<1>4. CASE Tick
  BY <1>4 DEF Tick, TypeOK
<1> QED
  BY <1>1, <1>2, <1>3, <1>4 DEF Next

\* The clock, the records and the answers of upush_server.c keep their types.
THEOREM TypeCorrect == Spec => []TypeOK
<1>1. Init => TypeOK
  BY DEF Init, TypeOK, Answer, Record
<1>2. TypeOK /\ [Next]_vars => TypeOK'
  <2>1. TypeOK /\ Next => TypeOK'
    BY TypeStep
  <2>2. TypeOK /\ UNCHANGED vars => TypeOK'
    BY DEF vars, TypeOK
  <2> QED
    BY <2>1, <2>2
<1> QED
  BY <1>1, <1>2, PTL DEF Spec

-----------------------------------------------------------------------------
LEMMA OneRecordStep ==
  ASSUME TypeOK, OneRecordPerNick, Next
  PROVE  OneRecordPerNick'
<1>1. ASSUME NEW n \in Nick, NEW src \in Sources[n], register_client(n, src)
      PROVE  OneRecordPerNick'
  <2>1. src \in Address
    BY SourcesAreAddresses
  <2>2. CASE /\ Records(n) = {}
             /\ client_list' = client_list \cup {create_client(n, src)}
    BY <2>1, <2>2, CreatedRecord DEF OneRecordPerNick, Records
  <2>3. CASE \E client \in Records(n) :
               client_list' = (client_list \ {client}) \cup {update_client(client, src)}
    BY <2>1, <2>3, UpdatedRecord DEF OneRecordPerNick, Records, TypeOK
  <2> QED
    BY <1>1, <2>2, <2>3 DEF register_client
<1>2. CASE client_list' \subseteq client_list
  BY <1>2 DEF OneRecordPerNick
<1>3. ASSUME NEW n \in Nick, lookup_client(n)
      PROVE  client_list' \subseteq client_list
  BY <1>3 DEF lookup_client, LookupUnknown, LookupStale, LookupFound
<1> QED
  BY <1>1, <1>2, <1>3 DEF Next, Restart, Tick

\* The list never holds two records of a nick, whatever is registered and looked
\* up in whatever order.
THEOREM RecordsAreUnique == Spec => []OneRecordPerNick
<1>1. Init => OneRecordPerNick
  BY DEF Init, OneRecordPerNick
<1>2. TypeOK /\ OneRecordPerNick /\ [Next]_vars => OneRecordPerNick'
  <2>1. TypeOK /\ OneRecordPerNick /\ Next => OneRecordPerNick'
    BY OneRecordStep
  <2>2. OneRecordPerNick /\ UNCHANGED vars => OneRecordPerNick'
    BY DEF vars, OneRecordPerNick
  <2> QED
    BY <2>1, <2>2
<1> QED
  BY <1>1, <1>2, TypeCorrect, PTL DEF Spec
-----------------------------------------------------------------------------
(* Refinement.  The list agrees with the history of registrations: a record *)
(* holds its nick's last registration, and only a stale one may be gone.    *)

ListMatches ==
  \A n \in Nick :
    /\ \A client \in Records(n) :
         registered[n] = [at |-> client.last_heartbeat,
                          addr |-> [ip |-> client.ip, port |-> client.port]]
    /\ registered[n] # Never => registered[n].addr \in Sources[n]
    /\ Service!Fresh(n) => Records(n) # {}

LEMMA FoundIsLastRegistration ==
  ASSUME TypeOK, ListMatches, NEW n \in Nick, NEW client \in Records(n)
  PROVE  /\ registered[n] # Never
         /\ registered[n].at = client.last_heartbeat
         /\ registered[n].addr = [ip |-> client.ip, port |-> client.port]
         /\ Service!Fresh(n) <=> get_seconds_since_last_heartbeat(client) <= Expiry
<1>1. registered[n] = [at |-> client.last_heartbeat,
                       addr |-> [ip |-> client.ip, port |-> client.port]]
  BY DEF ListMatches
<1>2. registered[n] # Never
  BY <1>1 DEF Never
<1>3. Service!Never = Never
  BY DEF Never, Service!Never
<1> QED
  BY <1>1, <1>2, <1>3 DEF Service!Fresh, get_seconds_since_last_heartbeat

\* Of n, the list holds next the one record made from src; of others, what it held.
HoldsInstead(record, n, src) ==
  /\ record.nick = n /\ record.last_heartbeat = now
  /\ record.ip = src.ip /\ record.port = src.port
  /\ record \in client_list'
  /\ \A client \in client_list' :
       client = record \/ (client.nick # n /\ client \in client_list)
  /\ \A client \in client_list : client.nick # n => client \in client_list'

LEMMA RegisteredRecord ==
  ASSUME FixedIps, TypeOK, OneRecordPerNick, ListMatches,
         NEW n \in Nick, NEW src \in Sources[n], register_client(n, src)
  PROVE  \E record \in Record : HoldsInstead(record, n, src)
<1>1. src \in Address
  BY SourcesAreAddresses
<1>2. CASE /\ Records(n) = {}
           /\ client_list' = client_list \cup {create_client(n, src)}
  <2>1. \A client \in client_list : client.nick # n
    BY <1>2 DEF Records
  <2> QED
    BY <1>1, <1>2, <2>1, CreatedRecord DEF HoldsInstead
<1>3. ASSUME NEW client \in Records(n),
             client_list' = (client_list \ {client}) \cup {update_client(client, src)}
      PROVE  \E record \in Record : HoldsInstead(record, n, src)
  <2>1. /\ client \in Record
        /\ client \in client_list
        /\ client.nick = n
        /\ \A other \in client_list : other.nick = n => other = client
    BY DEF Records, TypeOK, OneRecordPerNick
  <2>2. registered[n].addr = [ip |-> client.ip, port |-> client.port]
        /\ registered[n] # Never
    BY FoundIsLastRegistration
  <2>3. client.ip = src.ip
    BY <2>2 DEF ListMatches, FixedIps
  <2> QED
    BY <1>1, <1>3, <2>1, <2>3, UpdatedRecord DEF HoldsInstead
<1> QED
  BY <1>2, <1>3 DEF register_client

LEMMA RegisterRefines ==
  ASSUME FixedIps, TypeOK, OneRecordPerNick, ListMatches,
         NEW n \in Nick, NEW src \in Sources[n], register_client(n, src)
  PROVE  ListMatches' /\ Service!Register(n, src)
<1>1. src \in Address
  BY SourcesAreAddresses
<1> DEFINE registration == [at |-> now, addr |-> src]
<1>2. /\ registered' = [registered EXCEPT ![n] = registration]
      /\ answer' = OK
      /\ now' = now
  BY DEF register_client
<1>3. PICK record \in Record : HoldsInstead(record, n, src)
  BY RegisteredRecord
<1>4. ListMatches'
  <2> SUFFICES ASSUME NEW m \in Nick
               PROVE  /\ \A client \in Records(m)' :
                           registered'[m] =
                             [at |-> client.last_heartbeat,
                              addr |-> [ip |-> client.ip, port |-> client.port]]
                      /\ registered'[m] # Never => registered'[m].addr \in Sources[m]
                      /\ Service!Fresh(m)' => Records(m)' # {}
    BY DEF ListMatches
  <2>1. CASE m = n
    <3>1. Records(m)' = {record}
      BY <1>3, <2>1 DEF HoldsInstead, Records
    <3>2. src = [ip |-> src.ip, port |-> src.port]
      BY <1>1 DEF Address
    <3>3. registered'[m] = registration
      BY <1>2, <2>1 DEF TypeOK
    <3> QED
      BY <1>3, <2>1, <3>1, <3>2, <3>3 DEF HoldsInstead
  <2>2. CASE m # n
    <3>1. Records(m)' = Records(m)
      BY <1>3, <2>2 DEF HoldsInstead, Records
    <3>2. registered'[m] = registered[m]
      BY <1>2, <2>2 DEF TypeOK
    <3> QED
      BY <1>2, <3>1, <3>2 DEF ListMatches, Service!Fresh
  <2> QED
    BY <2>1, <2>2
<1>5. Service!Register(n, src)
  BY <1>2 DEF Service!Register, OK, Service!OK
<1> QED
  BY <1>4, <1>5

LEMMA LookupRefines ==
  ASSUME TypeOK, OneRecordPerNick, ListMatches, NEW n \in Nick, lookup_client(n)
  PROVE  ListMatches' /\ Service!LookUp(n)
<1>1. CASE LookupUnknown(n)
  <2>1. ~ Service!Fresh(n)
    BY <1>1 DEF LookupUnknown, ListMatches
  <2>2. ListMatches'
    BY <1>1 DEF LookupUnknown, ListMatches, Records, Service!Fresh
  <2> QED
    BY <1>1, <2>1, <2>2
    DEF LookupUnknown, Service!LookUp, NotFound, Service!NotFound
<1>2. CASE LookupStale(n)
  <2>1. PICK client \in Records(n) :
          /\ ~ (get_seconds_since_last_heartbeat(client) <= Expiry)
          /\ client_list' = client_list \ {client}
          /\ answer' = NotFound(n)
          /\ UNCHANGED <<now, registered>>
    BY <1>2, RegistryAssumption
    DEF LookupStale, get_seconds_since_last_heartbeat, TypeOK, Record, Records,
        RegistryAssumption
  <2>2. ~ Service!Fresh(n)
    BY <2>1, FoundIsLastRegistration
  <2>3. ListMatches'
    BY <2>1, <2>2 DEF ListMatches, Records, Service!Fresh
  <2> QED
    BY <2>1, <2>2, <2>3 DEF Service!LookUp, NotFound, Service!NotFound
<1>3. CASE LookupFound(n)
  <2>1. PICK client \in Records(n) :
          /\ get_seconds_since_last_heartbeat(client) <= Expiry
          /\ answer' = Found(n, [ip |-> client.ip, port |-> client.port])
    BY <1>3 DEF LookupFound
  <2>2. /\ Service!Fresh(n)
        /\ registered[n].addr = [ip |-> client.ip, port |-> client.port]
    BY <2>1, FoundIsLastRegistration
  <2>3. ListMatches'
    BY <1>3 DEF LookupFound, ListMatches, Records, Service!Fresh
  <2> QED
    BY <1>3, <2>1, <2>2, <2>3 DEF LookupFound, Service!LookUp, Found, Service!Found
<1> QED
  BY <1>1, <1>2, <1>3 DEF lookup_client

LEMMA ServiceStep ==
  ASSUME FixedIps, TypeOK, OneRecordPerNick, ListMatches, [Next]_vars
  PROVE  ListMatches' /\ [Service!Next]_(Service!vars)
<1>1. ASSUME NEW n \in Nick, lookup_client(n)
      PROVE  ListMatches' /\ Service!Next
  BY <1>1, LookupRefines DEF Service!Next
<1>2. ASSUME NEW n \in Nick, NEW src \in Sources[n], register_client(n, src)
      PROVE  ListMatches' /\ Service!Next
  BY <1>2, FixedIps, RegisterRefines, SourcesAreAddresses DEF Service!Next
<1>3. CASE Restart
  <2>1. ListMatches'
    BY <1>3 DEF Restart, ListMatches, Records, Service!Fresh, Never,
                Service!Never
  <2>2. Service!Restart
    BY <1>3 DEF Restart, Service!Restart, Never, Service!Never, OK, Service!OK
  <2> QED
    BY <2>1, <2>2 DEF Service!Next
<1>4. CASE Tick
  <2>1. ASSUME NEW n \in Nick, Service!Fresh(n)'
        PROVE  Service!Fresh(n)
    BY <1>4, <2>1, RegistryAssumption
    DEF Tick, TypeOK, Registration, Service!Fresh, Never, Service!Never,
        RegistryAssumption
  <2>2. ListMatches'
    BY <1>4, <2>1 DEF Tick, ListMatches, Records
  <2>3. Service!Tick
    BY <1>4 DEF Tick, Service!Tick
  <2> QED
    BY <2>2, <2>3 DEF Service!Next
<1>5. CASE UNCHANGED vars
  BY <1>5 DEF vars, ListMatches, Records, Service!Fresh, Service!vars
<1> QED
  BY <1>1, <1>2, <1>3, <1>4, <1>5 DEF Next

\* upush_server.c implements NameService when no nick changes its ip: every lookup
\* is answered from the last registration, found exactly while it is fresh.
THEOREM ImplementsNameService == ASSUME FixedIps PROVE Spec => IsNameService
<1>1. Init => ListMatches /\ Service!Init
  BY DEF Init, ListMatches, Records, Service!Init, Service!Fresh, Never, OK,
         Service!Never, Service!OK
<1>2. /\ TypeOK /\ OneRecordPerNick /\ ListMatches /\ [Next]_vars
      => ListMatches' /\ [Service!Next]_(Service!vars)
  BY ServiceStep
<1> QED
  BY <1>1, <1>2, TypeCorrect, RecordsAreUnique, PTL
  DEF Spec, IsNameService, Service!Spec
=============================================================================
