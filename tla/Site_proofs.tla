---------------------------- MODULE Site_proofs -----------------------------
(***************************************************************************)
(* Proofs about the site: the registry of devices, the tree of places, the *)
(* circuits and the log of the bypass sweeps, for any number of devices,   *)
(* invitations, sockets, places, circuits, modules and sweeps.             *)
(***************************************************************************)
EXTENDS Devices, Places, Power, Bypass, FiniteSetTheorems, WellFoundedInduction, TLAPS

-----------------------------------------------------------------------------
(* Codes *)

DeviceRows == [live : BOOLEAN, deleted : BOOLEAN, code : Invitations \cup {NoCode}, key : BOOLEAN,
               name : Names, seen : BOOLEAN, facts : BOOLEAN]
RegistrationTypeOK ==
    /\ invite \in [Invitations -> [issued : BOOLEAN, expires : Int, used : BOOLEAN]]
    /\ gear \in [Kit -> DeviceRows]
    /\ joining \in [Kit -> SUBSET Invitations] /\ deviceHour \in Int

\* A code is never taken back once it is out, so that used says forever that
\* some device has it: not by issuing it again, nor through a registration that
\* found it good before another claimed it.
CodesAreSpent ==
    /\ \A c \in Invitations : invite[c].used => invite[c].issued
    /\ \A d \in Kit : \A c \in joining[d] : invite[c].issued
    /\ \A d \in Kit : gear[d].live => gear[d].code \in Invitations /\ invite[gear[d].code].used

CodeInvariant == RegistrationTypeOK /\ CodesAreSpent /\ CodeMakesOneDevice

\* Writing to a device's row what leaves its code alone, and whether it is
\* registered, leaves codes apart (rename_device, delete_device and the
\* heartbeats and reports of handle_heartbeat and handle_device_data).
LEMMA RowKeepsCodes ==
    ASSUME CodeInvariant, NEW d \in Kit, NEW row \in DeviceRows, row.live = gear[d].live, row.code = gear[d].code,
           gear' = [gear EXCEPT ![d] = row], UNCHANGED <<invite, joining, deviceHour>>
    PROVE  CodeInvariant'
BY DEF CodeInvariant, RegistrationTypeOK, CodesAreSpent, CodeMakesOneDevice

\* So does what a transport says first.
LEMMA GreetingKeepsCodes ==
    ASSUME CodeInvariant, NEW d \in Kit, Greets(d), UNCHANGED deviceHour
    PROVE  CodeInvariant'
<1> DEFINE row == handle_device_data(handle_heartbeat(gear[d]))
<1>1. row.live = gear[d].live /\ row.code = gear[d].code /\ row \in DeviceRows
  BY DEF CodeInvariant, RegistrationTypeOK, handle_device_data, handle_heartbeat, DeviceRows
<1>2. gear' = [gear EXCEPT ![d] = row] /\ UNCHANGED <<invite, joining, deviceHour>>
  BY DEF Greets
<1> HIDE DEF row
<1> QED  BY <1>1, <1>2, RowKeepsCodes

\* Every step keeps codes apart.
LEMMA CodesStep ==
    ASSUME CodeInvariant, [DevicesNext]_deviceVars
    PROVE  CodeInvariant'
<1> USE DEF CodeInvariant, RegistrationTypeOK, CodesAreSpent, CodeMakesOneDevice
<1>1. CASE UNCHANGED <<invite, gear, joining, deviceHour>>
  BY <1>1
<1>2. ASSUME NEW c \in Invitations, create_device_invite(c) PROVE CodeInvariant'
  <2>1. /\ ~ invite[c].issued
        /\ invite' = [invite EXCEPT ![c] = [issued |-> TRUE, expires |-> deviceHour + InviteTtl, used |-> FALSE]]
        /\ UNCHANGED <<gear, joining, deviceHour>>
    BY <1>2 DEF create_device_invite, DeviceStep
  <2> QED  BY <2>1, DevicesAssumption
<1>3. ASSUME NEW c \in Invitations, NEW d \in Kit, RegisterReads(d, c) PROVE CodeInvariant'
  <2>1. invite[c].issued /\ joining' = [joining EXCEPT ![d] = {c}] /\ UNCHANGED <<invite, gear, deviceHour>>
    BY <1>3 DEF RegisterReads, invite_refused, Quietly
  <2> QED  BY <2>1
<1>4. ASSUME NEW c \in Invitations, NEW d \in Kit, NEW answered \in BOOLEAN, register_device(d, c, answered)
      PROVE  CodeInvariant'
  <2>1. joining[d] = {c} /\ joining' = [joining EXCEPT ![d] = {}] /\ UNCHANGED deviceHour
    BY <1>4 DEF register_device, Quietly
  <2>2. CASE UNCHANGED <<invite, gear>>
    BY <2>1, <2>2
  <2>3. CASE ~ UNCHANGED <<invite, gear>>
    <3>1. /\ ~ invite[c].used /\ invite' = [invite EXCEPT ![c].used = TRUE]
          /\ gear' = [gear EXCEPT ![d] = [@ EXCEPT !.live = TRUE, !.code = c, !.key = CardCipher]]
      BY <1>4, <2>3 DEF register_device, claims
    <3>2. RegistrationTypeOK'
      <4> DEFINE row == [gear[d] EXCEPT !.live = TRUE, !.code = c, !.key = CardCipher]
                 spent == [invite[c] EXCEPT !.used = TRUE]
      <4>1. row \in DeviceRows
        <5>1. gear[d] \in DeviceRows /\ CardCipher \in BOOLEAN
          BY DevicesAssumption
        <5> HIDE DEF CodeInvariant
        <5> QED  BY <5>1 DEF DeviceRows
      <4>2. spent \in [issued : BOOLEAN, expires : Int, used : BOOLEAN]
        OBVIOUS
      <4>3. gear' = [gear EXCEPT ![d] = row] /\ invite' = [invite EXCEPT ![c] = spent]
        BY <3>1
      <4> HIDE DEF row, spent
      <4> QED  BY <2>1, <4>1, <4>2, <4>3
    <3>3. CodesAreSpent'
      BY <2>1, <3>1
    <3>4. \A e \in Kit \ {d} : gear'[e] = gear[e] /\ (gear[e].live => gear[e].code # c)
      BY <3>1
    <3>5. gear'[d].code = c
      BY <3>1
    <3>6. CodeMakesOneDevice'
      BY <3>4, <3>5
    <3> QED  BY <3>2, <3>3, <3>6
  <2> QED  BY <2>2, <2>3
<1>5. ASSUME NEW c \in list_device_invites, expire_device_invite(c) PROVE CodeInvariant'
  <2>1. c \in Invitations /\ invite' = [invite EXCEPT ![c].expires = deviceHour] /\ UNCHANGED <<gear, joining, deviceHour>>
    BY <1>5 DEF list_device_invites, expire_device_invite, DeviceStep
  <2> QED  BY <2>1
<1>6. ASSUME NEW d \in list_devices, delete_device(d) PROVE CodeInvariant'
  <2>1. d \in Kit /\ gear' = [gear EXCEPT ![d].deleted = TRUE] /\ UNCHANGED <<invite, joining, deviceHour>>
    BY <1>6 DEF list_devices, delete_device, DeviceStep
  <2> DEFINE row == [gear[d] EXCEPT !.deleted = TRUE]
  <2>2. row \in DeviceRows /\ row.live = gear[d].live /\ row.code = gear[d].code
    BY <2>1 DEF DeviceRows
  <2>3. gear' = [gear EXCEPT ![d] = row]
    BY <2>1
  <2> HIDE DEF row, CodeInvariant
  <2> QED  BY <2>1, <2>2, <2>3, RowKeepsCodes
<1>7. ASSUME NEW d \in list_devices, NEW name \in Names, rename_device(d, name) PROVE CodeInvariant'
  <2>1. d \in Kit /\ gear' = [gear EXCEPT ![d].name = name] /\ UNCHANGED <<invite, joining, deviceHour>>
    BY <1>7 DEF list_devices, rename_device, DeviceStep
  <2> DEFINE row == [gear[d] EXCEPT !.name = name]
  <2>2. row \in DeviceRows /\ row.live = gear[d].live /\ row.code = gear[d].code
    BY <2>1 DEF DeviceRows
  <2>3. gear' = [gear EXCEPT ![d] = row]
    BY <2>1
  <2> HIDE DEF row, CodeInvariant
  <2> QED  BY <2>1, <2>2, <2>3, RowKeepsCodes
<1>8. CASE DeviceHourPasses
  BY <1>8 DEF DeviceHourPasses, registered
<1>9. ASSUME NEW d \in Kit, EdgeStarts(d) PROVE CodeInvariant'
  <2>1. CASE Greets(d)
    BY <1>9, <2>1, GreetingKeepsCodes DEF EdgeStarts, Quietly
  <2>2. CASE UNCHANGED registered
    BY <1>1, <1>9, <2>2 DEF EdgeStarts, Quietly, registered
  <2> QED  BY <1>9, <2>1, <2>2 DEF EdgeStarts
<1>10. ASSUME NEW d \in Kit, connect_once(d) PROVE CodeInvariant'
  BY <1>10, GreetingKeepsCodes DEF connect_once, Quietly
<1>11. \/ UNCHANGED deviceVars \/ \E d \in list_devices : unlock(d)
       \/ \E x \in Kit \cup {Server} : BrokerDrops(x) \/ Reconnects(x)
       \/ ServerResubscribes \/ end_resource_session
       \/ \E d \in Kit : \/ SocketTaskPanics(d) \/ supervise(d) \/ SendsOverSocket(d) \/ publish_doors_event(d)
                         \/ \E granted \in BOOLEAN : report_door_event(d, granted)
       \/ \E s \in sockets : WireBreaks(s) \/ EdgeNotices(s) \/ ServerNotices(s)
       => UNCHANGED <<invite, gear, joining, deviceHour>>
  BY DEF deviceVars, registered, unlock, BrokerDrops, Reconnects, ServerResubscribes, end_resource_session,
         SocketTaskPanics, supervise, SendsOverSocket, publish_doors_event, report_door_event, WireBreaks,
         EdgeNotices, ServerNotices, DeviceStep, Quietly, Outage
<1> HIDE DEF CodeInvariant
<1> QED  BY <1>1, <1>2, <1>3, <1>4, <1>5, <1>6, <1>7, <1>8, <1>9, <1>10, <1>11 DEF DevicesNext

-----------------------------------------------------------------------------
(* Sockets *)

Sockets == [of : Kit, epoch : Nat, held : BOOLEAN, served : BOOLEAN, wire : BOOLEAN]
SocketTypeOK ==
    /\ sockets \subseteq Sockets
    /\ registry \in [Kit -> SUBSET Nat] /\ nextEpoch \in Nat

\* An epoch names one connection, and an edge holds one at a time.
EpochsAreFresh ==
    /\ \A s \in sockets : s.epoch < nextEpoch
    /\ \A s, t \in sockets : s.epoch = t.epoch => s = t
    /\ \A s, t \in sockets : s.of = t.of /\ s.held /\ t.held => s = t

SocketInvariant == SocketTypeOK /\ EpochsAreFresh /\ WorkingSocketIsRegistered

\* An end that notices, or a wire that breaks, leaves at most the same socket
\* with less to it; the registry may lose its epoch if it no longer works.
LEMMA LessOfASocket ==
    ASSUME SocketInvariant, NEW s \in sockets, NEW t, Becomes(s, t), UNCHANGED nextEpoch,
           t \in Sockets,
           t.of = s.of, t.epoch = s.epoch, t.held => s.held, t.wire => s.wire,
           \/ UNCHANGED registry
           \/ ~ (s.held /\ s.wire) /\ unregister(s.of, s.epoch)
    PROVE  SocketInvariant'
<1>1. sockets' \subseteq (sockets \ {s}) \cup {t}
  BY DEF Becomes
<1>2. s.of \in Kit /\ s.epoch \in Nat
  BY DEF SocketInvariant, SocketTypeOK, Sockets
<1>3. registry' = registry \/ registry' = [registry EXCEPT ![s.of] = @ \ {s.epoch}]
  BY DEF unregister
<1>4. SocketTypeOK'
  BY <1>1, <1>2, <1>3 DEF SocketInvariant, SocketTypeOK
<1>5. EpochsAreFresh'
  BY <1>1 DEF SocketInvariant, EpochsAreFresh
<1>6. ASSUME NEW x \in sockets', x.held, x.wire PROVE registry'[x.of] = {x.epoch}
  <2>1. CASE x = t
    <3>1. s.held /\ s.wire /\ registry[s.of] = {s.epoch}
      BY <1>6, <2>1 DEF SocketInvariant, WorkingSocketIsRegistered
    <3> QED  BY <2>1, <3>1
  <2>2. CASE x # t
    <3>1. x \in sockets /\ x # s
      BY <1>1, <2>2
    <3>2. x.epoch # s.epoch /\ registry[x.of] = {x.epoch} /\ x.of \in Kit
      BY <1>6, <3>1 DEF SocketInvariant, EpochsAreFresh, WorkingSocketIsRegistered, SocketTypeOK, Sockets
    <3> QED  BY <1>2, <1>3, <3>2 DEF SocketInvariant, SocketTypeOK
  <2> QED  BY <2>1, <2>2
<1> QED  BY <1>4, <1>5, <1>6 DEF SocketInvariant, WorkingSocketIsRegistered

\* Every step keeps the registry right about the sockets that work.
LEMMA SocketsStep ==
    ASSUME SocketInvariant, [DevicesNext]_deviceVars
    PROVE  SocketInvariant'
<1>1. CASE UNCHANGED <<sockets, registry, nextEpoch>>
  BY <1>1 DEF SocketInvariant, SocketTypeOK, EpochsAreFresh, WorkingSocketIsRegistered
<1>2. ASSUME NEW d \in Kit, connect_once(d) PROVE SocketInvariant'
  <2> DEFINE new == [of |-> d, epoch |-> nextEpoch, held |-> TRUE, served |-> TRUE, wire |-> TRUE]
  <2>1. /\ sockets' = sockets \cup {new} /\ HeldBy(d) = {}
        /\ registry' = [registry EXCEPT ![d] = {nextEpoch}] /\ nextEpoch' = nextEpoch + 1
    BY <1>2 DEF connect_once, register
  <2>2. SocketTypeOK'
    <3>1. new \in Sockets
      BY DEF SocketInvariant, SocketTypeOK, Sockets
    <3> HIDE DEF new
    <3> QED  BY <2>1, <3>1 DEF SocketInvariant, SocketTypeOK
  <2>3. \A s \in sockets : s.epoch # new.epoch /\ s.epoch < nextEpoch' /\ ~ (s.of = d /\ s.held)
    BY <2>1 DEF SocketInvariant, SocketTypeOK, Sockets, EpochsAreFresh, HeldBy
  <2>4. new.epoch < nextEpoch'
    BY <2>1 DEF SocketInvariant, SocketTypeOK
  <2>5. EpochsAreFresh'
    <3>1. new.of = d
      OBVIOUS
    <3> HIDE DEF new
    <3> QED  BY <2>1, <2>3, <2>4, <3>1 DEF SocketInvariant, EpochsAreFresh
  <2>6. WorkingSocketIsRegistered'
    BY <2>1, <2>3 DEF SocketInvariant, SocketTypeOK, Sockets, WorkingSocketIsRegistered
  <2> QED  BY <2>2, <2>5, <2>6 DEF SocketInvariant
<1>3. ASSUME NEW s \in sockets, WireBreaks(s) PROVE SocketInvariant'
  BY <1>3, LessOfASocket DEF WireBreaks, SocketInvariant, SocketTypeOK, Sockets
<1>4. ASSUME NEW s \in sockets, EdgeNotices(s) PROVE SocketInvariant'
  BY <1>4, LessOfASocket DEF EdgeNotices, SocketInvariant, SocketTypeOK, Sockets
<1>5. ASSUME NEW s \in sockets, ServerNotices(s) PROVE SocketInvariant'
  BY <1>5, LessOfASocket DEF ServerNotices, SocketInvariant, SocketTypeOK, Sockets
<1>6. ASSUME NEW d \in Kit, SocketTaskPanics(d) PROVE SocketInvariant'
  <2> DEFINE less(x) == [x EXCEPT !.held = x.held /\ x.of # d]
  <2>1. \A y \in sockets' : \E x \in sockets : y = less(x)
    BY <1>6 DEF SocketTaskPanics
  <2>2. \A x \in sockets : /\ less(x).of = x.of /\ less(x).epoch = x.epoch /\ less(x).wire = x.wire
                           /\ less(x).held => x.held
                           /\ less(x) \in Sockets
    BY DEF SocketInvariant, SocketTypeOK, Sockets
  <2>3. UNCHANGED <<registry, nextEpoch>>
    BY <1>6 DEF SocketTaskPanics
  <2> HIDE DEF less
  <2>4. SocketTypeOK'
    BY <2>1, <2>2, <2>3 DEF SocketInvariant, SocketTypeOK
  <2>5. EpochsAreFresh'
    BY <2>1, <2>2, <2>3 DEF SocketInvariant, EpochsAreFresh
  <2>6. WorkingSocketIsRegistered'
    BY <2>1, <2>2, <2>3 DEF SocketInvariant, WorkingSocketIsRegistered
  <2> QED  BY <2>4, <2>5, <2>6 DEF SocketInvariant
<1>7. \/ UNCHANGED deviceVars \/ ServerResubscribes \/ end_resource_session \/ DeviceHourPasses
      \/ \E c \in Invitations : create_device_invite(c) \/ \E d \in Kit : RegisterReads(d, c) \/
                                \E answered \in BOOLEAN : register_device(d, c, answered)
      \/ \E c \in list_device_invites : expire_device_invite(c)
      \/ \E d \in list_devices : delete_device(d) \/ unlock(d) \/ \E name \in Names : rename_device(d, name)
      \/ \E x \in Kit \cup {Server} : BrokerDrops(x) \/ Reconnects(x)
      \/ \E d \in Kit : \/ EdgeStarts(d) \/ supervise(d) \/ SendsOverSocket(d) \/ publish_doors_event(d)
                        \/ \E granted \in BOOLEAN : report_door_event(d, granted)
      => UNCHANGED <<sockets, registry, nextEpoch>>
  BY DEF deviceVars, channels, ServerResubscribes, end_resource_session, DeviceHourPasses, create_device_invite,
         RegisterReads, register_device, expire_device_invite, delete_device, unlock, rename_device, BrokerDrops,
         Reconnects, EdgeStarts, supervise, SendsOverSocket, publish_doors_event, report_door_event
<1> QED  BY <1>1, <1>2, <1>3, <1>4, <1>5, <1>6, <1>7 DEF DevicesNext

-----------------------------------------------------------------------------

\* A code makes one device though two registrations both found it unused, and
\* the socket that works is the one that the server pushes into, in whatever
\* order the ends of the older ones are noticed (register_device,
\* DeviceChannelRegistry).
THEOREM RegistryHolds == DevicesSpec => []DeviceRegistryHolds
<1>1. ASSUME DevicesInit PROVE CodeInvariant /\ SocketInvariant
  <2>1. CodeInvariant
    BY <1>1 DEF DevicesInit, CodeInvariant, RegistrationTypeOK, CodesAreSpent, CodeMakesOneDevice, DeviceRows, Names, NoCode
  <2>2. SocketInvariant
    BY <1>1 DEF DevicesInit, SocketInvariant, SocketTypeOK, EpochsAreFresh, WorkingSocketIsRegistered
  <2> QED  BY <2>1, <2>2
<1>2. CodeInvariant /\ SocketInvariant /\ [DevicesNext]_deviceVars => CodeInvariant' /\ SocketInvariant'
  BY CodesStep, SocketsStep
<1>3. CodeInvariant /\ SocketInvariant => DeviceRegistryHolds
  BY DEF CodeInvariant, SocketInvariant, DeviceRegistryHolds
<1> QED  BY <1>1, <1>2, <1>3, PTL DEF DevicesSpec

-----------------------------------------------------------------------------
(* Places *)

\* A place has one row, and in it one parent at most.
PlacesTyped ==
    /\ places = [p \in PlaceIds |-> places[p]]
    /\ \A p \in PlaceIds : places[p] # {} =>
          /\ places[p] = {get_place(p)}
          /\ get_place(p).parent = {} \/ \E q \in PlaceIds : get_place(p).parent = {q}
PlacesInvariant == PlacesTyped /\ TreesStayTrees

\* The row of a place is the one that was stored.
LEMMA OneRow == \A r : (CHOOSE row \in {r} : TRUE) = r
OBVIOUS

\* Every parent stands.
LEMMA ParentsStand ==
    ASSUME PlacesFormAForest
    PROVE  \A p \in Standing : get_place(p).parent \subseteq Standing /\ p \notin get_place(p).parent
<1> SUFFICES ASSUME NEW p \in Standing
             PROVE  get_place(p).parent \subseteq Standing /\ p \notin get_place(p).parent
  OBVIOUS
<1>1. {p} \in SUBSET Standing /\ {p} # {}
  OBVIOUS
<1>2. \E x \in {p} : get_place(x).parent \cap {p} = {} /\ get_place(x).parent \subseteq Standing
  BY <1>1 DEF PlacesFormAForest
<1> QED  BY <1>2

\* What storing a row does.
LEMMA Stored ==
    ASSUME PlacesTyped, NEW p \in PlaceIds, NEW row, Store(p, row)
    PROVE  /\ Standing' = Standing \cup {p} /\ places' = [x \in PlaceIds |-> places'[x]]
           /\ places'[p] = {row} /\ get_place(p)' = row
           /\ \A x \in PlaceIds \ {p} : places'[x] = places[x] /\ get_place(x)' = get_place(x)
<1>1. places' = [places EXCEPT ![p] = {row}] /\ places = [x \in PlaceIds |-> places[x]]
  BY DEF Store, PlacesTyped
<1>2. places' = [x \in PlaceIds |-> IF x = p THEN {row} ELSE places[x]]
  BY <1>1
<1>3. places'[p] = {row} /\ \A x \in PlaceIds \ {p} : places'[x] = places[x]
  BY <1>2
<1>4. get_place(p)' = row
  BY <1>3, OneRow DEF get_place
<1>5. \A x \in PlaceIds \ {p} : get_place(x)' = get_place(x)
  BY <1>3 DEF get_place
<1>6. Standing' = Standing \cup {p}
  BY <1>3 DEF Standing
<1>7. places' = [x \in PlaceIds |-> places'[x]]
  BY <1>2
<1> QED  BY <1>3, <1>4, <1>5, <1>6, <1>7

\* A place that is stored under a standing place, and not under itself or what is
\* below it, closes no loop.
LEMMA NoLoop ==
    ASSUME PlacesTyped, PlacesFormAForest, NEW p \in PlaceIds, NEW row, Store(p, row),
           row.parent \subseteq Standing, p \notin row.parent,
           NEW A \in SUBSET PlaceIds, row.parent \subseteq A, p \notin A,
           \A x \in A \cap Standing : get_place(x).parent \subseteq A
    PROVE  PlacesFormAForest'
<1> SUFFICES ASSUME NEW S \in SUBSET Standing', S # {}
             PROVE  \E x \in S : get_place(x)'.parent \cap S = {} /\ get_place(x)'.parent \subseteq Standing'
  BY DEF PlacesFormAForest
<1>1. /\ Standing' = Standing \cup {p} /\ get_place(p)' = row
      /\ \A x \in PlaceIds \ {p} : get_place(x)' = get_place(x)
  BY Stored
<1>2. \A x \in Standing : x \in PlaceIds /\ get_place(x).parent \subseteq Standing
  BY ParentsStand DEF Standing
<1>3. CASE p \notin S
  <2>1. S \in SUBSET Standing
    BY <1>1, <1>3
  <2>2. PICK x \in S : get_place(x).parent \cap S = {}
    BY <2>1 DEF PlacesFormAForest
  <2>3. get_place(x)' = get_place(x) /\ get_place(x).parent \subseteq Standing'
    BY <1>1, <1>2, <1>3, <2>1, <2>2
  <2> QED  BY <2>2, <2>3
<1>4. CASE p \in S
  <2> DEFINE T == S \cap A
  <2>1. CASE T = {}
    <3>1. row.parent \cap S = {}
      BY <2>1
    <3> QED  BY <1>1, <1>4, <3>1
  <2>2. CASE T # {}
    <3>1. T \in SUBSET Standing
      BY <1>1
    <3>2. PICK x \in T : get_place(x).parent \cap T = {}
      BY <2>2, <3>1 DEF PlacesFormAForest
    <3>3. x # p /\ x \in Standing /\ x \in A /\ x \in S
      BY <3>1, <3>2
    <3>4. get_place(x).parent \subseteq A /\ get_place(x).parent \subseteq Standing' /\ get_place(x)' = get_place(x)
      BY <1>1, <1>2, <3>3
    <3>5. get_place(x)'.parent \cap S = {}
      BY <3>2, <3>4
    <3> QED  BY <3>3, <3>4, <3>5
  <2> QED  BY <2>1, <2>2
<1> QED  BY <1>3, <1>4

\* The rows that are stored keep the rest of the invariant.
LEMMA RowFits ==
    ASSUME PlacesInvariant, NEW p \in PlaceIds, NEW row, Store(p, row), validate_place_payload(row),
           row.parent = {} \/ \E q \in PlaceIds : row.parent = {q}
    PROVE  PlacesTyped' /\ SpecialPlacesStandAlone'
<1>1. /\ Standing' = Standing \cup {p} /\ places' = [x \in PlaceIds |-> places'[x]]
      /\ places'[p] = {row} /\ get_place(p)' = row
      /\ \A x \in PlaceIds \ {p} : places'[x] = places[x] /\ get_place(x)' = get_place(x)
  BY Stored DEF PlacesInvariant
<1>2. PlacesTyped'
  BY <1>1 DEF PlacesInvariant, PlacesTyped
<1>3. IF row.special THEN row.parent = {} ELSE row.type # OtherLabel
  BY PlacesAssumption DEF validate_place_payload, index_of
<1>4. Standing \subseteq PlaceIds
  BY DEF Standing
<1>5. SpecialPlacesStandAlone'
  BY <1>1, <1>3, <1>4 DEF PlacesInvariant, TreesStayTrees, SpecialPlacesStandAlone
<1> QED  BY <1>2, <1>5

\* The tree is a matter of the rows alone.
LEMMA PlacesStill == ASSUME PlacesInvariant, UNCHANGED places PROVE PlacesInvariant'
<1>1. Standing' = Standing /\ \A x : get_place(x)' = get_place(x)
  BY DEF Standing, get_place
<1>2. PlacesTyped'
  BY <1>1 DEF PlacesInvariant, PlacesTyped
<1>3. PlacesFormAForest'
  BY <1>1 DEF PlacesInvariant, TreesStayTrees, PlacesFormAForest
<1>4. SpecialPlacesStandAlone'
  BY <1>1 DEF PlacesInvariant, TreesStayTrees, SpecialPlacesStandAlone
<1> QED  BY <1>2, <1>3, <1>4 DEF PlacesInvariant, TreesStayTrees

\* Every request keeps the tree.
LEMMA PlacesStep == ASSUME PlacesInvariant, PlacesNext PROVE PlacesInvariant'
<1>1. /\ Standing \subseteq PlaceIds
      /\ \A x \in Standing : get_place(x).parent \subseteq Standing /\ x \notin get_place(x).parent
  BY ParentsStand DEF Standing, PlacesInvariant, TreesStayTrees
<1>2. ASSUME NEW p \in PlaceIds, NEW row \in PlaceRows, create_place(p, row) PROVE PlacesInvariant'
  <2>1. /\ Store(p, row) /\ validate_place_payload(row) /\ row.parent \subseteq Standing /\ p \notin Standing
        /\ row.parent = {} \/ \E q \in PlaceIds : row.parent = {q}
    BY <1>2 DEF create_place, PlaceRows
  <2>2. PlacesFormAForest'
    BY <1>1, <2>1, NoLoop DEF PlacesInvariant, TreesStayTrees
  <2> QED  BY <2>1, <2>2, RowFits DEF PlacesInvariant, TreesStayTrees
<1>3. ASSUME NEW p \in PlaceIds, NEW asked \in SUBSET UPDATABLE, NEW row \in PlaceRows, update_place(p, asked, row)
      PROVE  PlacesInvariant'
  <2>1. PICK after : after = merged(get_place(p), asked, row)
    OBVIOUS
  <2>2. /\ p \in Standing /\ move_allowed(p, after) /\ validate_place_payload(after) /\ Store(p, after)
    BY <1>3, <2>1 DEF update_place, validates
  <2>3. after.parent = {} \/ \E q \in PlaceIds : after.parent = {q}
    <3>1. after.parent = (IF "parent" \in asked THEN row.parent ELSE get_place(p).parent)
      BY <2>1 DEF merged, UPDATABLE
    <3>2. row.parent = {} \/ \E q \in PlaceIds : row.parent = {q}
      BY DEF PlaceRows
    <3>3. get_place(p).parent = {} \/ \E q \in PlaceIds : get_place(p).parent = {q}
      BY <2>2 DEF PlacesInvariant, PlacesTyped, Standing
    <3> QED  BY <3>1, <3>2, <3>3
  <2>4. PlacesFormAForest'
    <3>1. p \notin after.parent /\ after.parent \subseteq Standing
      BY <2>2 DEF move_allowed
    <3>2. CASE after.parent = {}
      <4>1. {} \in SUBSET PlaceIds
        OBVIOUS
      <4> QED  BY <2>2, <3>1, <3>2, <4>1, NoLoop DEF PlacesInvariant, TreesStayTrees
    <3>3. ASSUME NEW q \in PlaceIds, after.parent = {q} PROVE PlacesFormAForest'
      <4>1. q \in Standing /\ q # p /\ p \notin place_ancestors(q)
        BY <2>2, <3>3 DEF move_allowed
      <4>2. PICK U \in SUBSET PlaceIds :
               get_place(q).parent \subseteq U /\ (\A x \in U \cap Standing : get_place(x).parent \subseteq U) /\ p \notin U
        BY <4>1 DEF place_ancestors
      <4> DEFINE A == U \cup {q}
      <4>3. A \in SUBSET PlaceIds /\ p \notin A /\ after.parent \subseteq A
            /\ \A x \in A \cap Standing : get_place(x).parent \subseteq A
        BY <3>3, <4>1, <4>2
      <4> HIDE DEF A
      <4> QED  BY <2>2, <3>1, <4>3, NoLoop DEF PlacesInvariant, TreesStayTrees
    <3> QED  BY <2>3, <3>2, <3>3
  <2> QED  BY <2>2, <2>3, <2>4, RowFits DEF PlacesInvariant, TreesStayTrees
<1>4. ASSUME NEW p \in PlaceIds, delete_place(p) PROVE PlacesInvariant'
  <2>1. /\ p \in Standing /\ (\A q \in Standing : p \notin get_place(q).parent)
        /\ places' = [places EXCEPT ![p] = {}] /\ places = [x \in PlaceIds |-> places[x]]
    BY <1>4 DEF delete_place, list_child_places, PlacesInvariant, PlacesTyped
  <2>2. places' = [x \in PlaceIds |-> IF x = p THEN {} ELSE places[x]]
    BY <2>1
  <2>3. /\ Standing' = Standing \ {p}
        /\ \A x \in PlaceIds \ {p} : places'[x] = places[x] /\ get_place(x)' = get_place(x)
    BY <2>2 DEF Standing, get_place
  <2>4. PlacesTyped'
    BY <2>2, <2>3 DEF PlacesInvariant, PlacesTyped
  <2>5. SpecialPlacesStandAlone'
    BY <1>1, <2>3 DEF PlacesInvariant, TreesStayTrees, SpecialPlacesStandAlone
  <2>6. PlacesFormAForest'
    <3> SUFFICES ASSUME NEW S \in SUBSET Standing', S # {}
                 PROVE  \E x \in S : get_place(x)'.parent \cap S = {} /\ get_place(x)'.parent \subseteq Standing'
      BY DEF PlacesFormAForest
    <3>1. PICK x \in S : get_place(x).parent \cap S = {}
      BY <2>3 DEF PlacesInvariant, TreesStayTrees, PlacesFormAForest
    <3>2. x \in Standing /\ x # p /\ get_place(x)' = get_place(x)
      BY <1>1, <2>3
    <3>3. get_place(x).parent \subseteq Standing'
      BY <1>1, <2>1, <2>3, <3>2
    <3> QED  BY <3>1, <3>2, <3>3
  <2> QED  BY <2>4, <2>5, <2>6 DEF PlacesInvariant, TreesStayTrees
<1>5. CASE SwitchPlaces
  BY <1>5, PlacesStill DEF SwitchPlaces
<1> QED  BY <1>2, <1>3, <1>4, <1>5 DEF PlacesNext

\* Places stay a tree through every sequence of requests, however many there are:
\* a move closes no loop, a deletion orphans nobody, and a special place stands
\* alone (update_place, delete_place, validate_place_payload).
THEOREM PlacesStayATree == PlacesSpec => []TreesStayTrees
<1>1. PlacesInit => PlacesInvariant
  <2> SUFFICES ASSUME PlacesInit PROVE PlacesInvariant
    OBVIOUS
  <2>1. \A p \in PlaceIds : places[p] = {}
    BY DEF PlacesInit
  <2>2. Standing = {}
    BY <2>1 DEF Standing
  <2>3. places = [p \in PlaceIds |-> places[p]]
    BY DEF PlacesInit
  <2> QED  BY <2>1, <2>2, <2>3 DEF PlacesInvariant, PlacesTyped, TreesStayTrees, PlacesFormAForest, SpecialPlacesStandAlone
<1>2. PlacesInvariant /\ UNCHANGED placeVars => PlacesInvariant'
  BY PlacesStill DEF placeVars
<1>3. PlacesInvariant => TreesStayTrees
  BY DEF PlacesInvariant
<1> QED  BY <1>1, <1>2, <1>3, PlacesStep, PTL DEF PlacesSpec

-----------------------------------------------------------------------------
(* Circuits *)

ParentOf(cs, d) == IF d \in DOMAIN cs THEN {cs[d].parent} \ {Unset} ELSE {}
UpClosed(cs, S) == \A x \in S : ParentOf(cs, x) \subseteq S

\* A circuit is not above another as soon as some set holds all above it and not the one.
LEMMA NotAbove ==
    ASSUME NEW cs, NEW c, NEW d \in Circuits
    PROVE  d \notin above(cs, c) <=>
               \E S \in SUBSET Circuits : ParentOf(cs, c) \subseteq S /\ UpClosed(cs, S) /\ d \notin S
BY DEF above, ParentOf, UpClosed

CircuitTyped(cs) == DOMAIN cs \subseteq Circuits /\ cs \in [DOMAIN cs -> Breakers]

\* Circuits of which each keeps its parent, or is gone, or came with no other below
\* it, are as much a forest.
LEMMA FewerStayAForest ==
    ASSUME NEW cs, NEW ds, IsAForest(cs), CircuitTyped(cs), CircuitTyped(ds), DOMAIN ds \subseteq DOMAIN cs,
           \A c \in DOMAIN ds : ds[c].parent = cs[c].parent /\ ds[c].parent \in DOMAIN ds \cup {Unset}
    PROVE  IsAForest(ds)
<1> SUFFICES ASSUME NEW c \in DOMAIN ds PROVE c \notin above(ds, c)
  BY DEF IsAForest
<1>1. \A x : ParentOf(ds, x) \subseteq ParentOf(cs, x)
  BY DEF ParentOf
<1>2. c \in Circuits /\ c \notin above(cs, c)
  BY DEF IsAForest, CircuitTyped
<1>3. PICK S \in SUBSET Circuits : ParentOf(cs, c) \subseteq S /\ UpClosed(cs, S) /\ c \notin S
  BY <1>2, NotAbove
<1>4. ParentOf(ds, c) \subseteq S /\ UpClosed(ds, S)
  BY <1>1, <1>3 DEF UpClosed
<1> QED  BY <1>2, <1>3, <1>4, NotAbove

\* A circuit put below one that is neither it nor below it closes no loop, nor does
\* one that is made the root of its own.
LEMMA ReparentedStaysAForest ==
    ASSUME NEW cs, NEW ds, IsAForest(cs), CircuitTyped(cs), CircuitTyped(ds), NEW c \in DOMAIN ds, NEW up,
           DOMAIN ds = DOMAIN cs \cup {c}, ds[c].parent = up,
           \A d \in DOMAIN cs : d # c => ds[d].parent = cs[d].parent,
           up = Unset \/ (up # c /\ up \in DOMAIN cs /\ c \notin above(cs, up))
    PROVE  IsAForest(ds)
<1> SUFFICES ASSUME NEW d \in DOMAIN ds PROVE d \notin above(ds, d)
  BY DEF IsAForest
<1>1. \A x : x # c => ParentOf(ds, x) = ParentOf(cs, x)
  BY DEF ParentOf
<1>2. ParentOf(ds, c) = {up} \ {Unset} /\ c \in Circuits /\ d \in Circuits
  BY DEF ParentOf, CircuitTyped
<1>3. PICK A \in SUBSET Circuits : ParentOf(ds, c) \subseteq A /\ c \notin A /\ UpClosed(cs, A)
  <2>1. CASE up = Unset
    <3>1. {} \in SUBSET Circuits /\ ParentOf(ds, c) \subseteq {} /\ c \notin {} /\ UpClosed(cs, {})
      BY <1>2, <2>1 DEF UpClosed
    <3> QED  BY <3>1
  <2>2. CASE up # c /\ up \in DOMAIN cs /\ c \notin above(cs, up)
    <3>1. PICK S \in SUBSET Circuits : ParentOf(cs, up) \subseteq S /\ UpClosed(cs, S) /\ c \notin S
      BY <1>2, <2>2, NotAbove
    <3>2. S \cup {up} \in SUBSET Circuits
      BY <2>2 DEF CircuitTyped
    <3>3. UpClosed(cs, S \cup {up})
      BY <3>1 DEF UpClosed
    <3> QED  BY <1>2, <2>2, <3>1, <3>2, <3>3
  <2> QED  BY <2>1, <2>2
<1>4. UpClosed(ds, A)
  BY <1>1, <1>3 DEF UpClosed
<1>5. CASE d = c
  BY <1>2, <1>3, <1>4, <1>5, NotAbove
<1>6. CASE d # c
  <2>1. d \in DOMAIN cs /\ d \notin above(cs, d)
    BY <1>6 DEF IsAForest
  <2>2. PICK S \in SUBSET Circuits : ParentOf(cs, d) \subseteq S /\ UpClosed(cs, S) /\ d \notin S
    BY <1>2, <2>1, NotAbove
  <2>3. CASE d \in A
    <3>1. ParentOf(ds, d) \subseteq S \cap A /\ d \notin S \cap A /\ S \cap A \in SUBSET Circuits
      BY <1>1, <1>4, <1>6, <2>2, <2>3 DEF UpClosed
    <3>2. UpClosed(ds, S \cap A)
      BY <1>1, <1>3, <1>4, <2>2 DEF UpClosed
    <3> QED  BY <1>2, <3>1, <3>2, NotAbove
  <2>4. CASE d \notin A
    <3>1. ParentOf(ds, d) \subseteq S \cup A /\ d \notin S \cup A /\ S \cup A \in SUBSET Circuits
      BY <1>1, <1>6, <2>2, <2>4
    <3>2. UpClosed(ds, S \cup A)
      <4> SUFFICES ASSUME NEW x \in S \cup A PROVE ParentOf(ds, x) \subseteq S \cup A
        BY DEF UpClosed
      <4>1. CASE x = c
        BY <1>3, <4>1
      <4>2. CASE x # c
        BY <1>1, <1>4, <2>2, <4>2 DEF UpClosed
      <4> QED  BY <4>1, <4>2
    <3> QED  BY <1>2, <3>1, <3>2, NotAbove
  <2> QED  BY <2>3, <2>4
<1> QED  BY <1>5, <1>6

CircuitsInvariant == CircuitTyped(circuits) /\ CircuitsFormAForest

\* Locking circuits, or unlocking them, moves none.
LEMMA LocksMoveNone ==
    ASSUME CircuitsInvariant, NEW ds, CircuitTyped(ds), DOMAIN ds = DOMAIN circuits,
           \A c \in DOMAIN circuits : ds[c].parent = circuits[c].parent, circuits' = ds
    PROVE  CircuitsInvariant'
<1>1. \A c \in DOMAIN ds : ds[c].parent = circuits[c].parent /\ ds[c].parent \in DOMAIN ds \cup {Unset}
  BY DEF CircuitsInvariant, CircuitsFormAForest, IsAForest
<1>2. IsAForest(ds)
  BY <1>1, FewerStayAForest DEF CircuitsInvariant, CircuitsFormAForest
<1> QED  BY <1>2 DEF CircuitsInvariant, CircuitsFormAForest

\* A lockout keeps what a circuit hangs from.
LEMMA Engaged ==
    ASSUME CircuitsInvariant, NEW cs, circuits' = engage_circuit_lockout(cs)
    PROVE  CircuitsInvariant'
<1>1. PICK ds : ds = engage_circuit_lockout(cs)
  OBVIOUS
<1>2. /\ ds = [c \in DOMAIN circuits |-> IF c \in cs THEN [circuits[c] EXCEPT !.locked = TRUE] ELSE circuits[c]]
      /\ DOMAIN circuits \subseteq Circuits /\ circuits \in [DOMAIN circuits -> Breakers]
  BY <1>1 DEF engage_circuit_lockout, CircuitsInvariant, CircuitTyped
<1>3. \A c \in DOMAIN circuits : [circuits[c] EXCEPT !.locked = TRUE] \in Breakers
                                 /\ [circuits[c] EXCEPT !.locked = TRUE].parent = circuits[c].parent
  <2> SUFFICES ASSUME NEW c \in DOMAIN circuits
               PROVE  [circuits[c] EXCEPT !.locked = TRUE] \in Breakers
                      /\ [circuits[c] EXCEPT !.locked = TRUE].parent = circuits[c].parent
    OBVIOUS
  <2>1. PICK b \in Breakers : b = circuits[c]
    BY <1>2
  <2>2. [b EXCEPT !.locked = TRUE] \in Breakers /\ [b EXCEPT !.locked = TRUE].parent = b.parent
    BY DEF Breakers
  <2> QED  BY <2>1, <2>2
<1>4. DOMAIN ds = DOMAIN circuits /\ ds \in [DOMAIN circuits -> Breakers]
      /\ \A c \in DOMAIN circuits : ds[c].parent = circuits[c].parent
  BY <1>2, <1>3
<1>5. CircuitTyped(ds)
  BY <1>2, <1>4 DEF CircuitTyped
<1> QED  BY <1>1, <1>4, <1>5, LocksMoveNone

\* A step of the staff, the tools, the edge or the network.
LEMMA PowerStep == ASSUME CircuitsInvariant, PowerNext PROVE CircuitsInvariant'
<1>0. DOMAIN circuits \subseteq Circuits /\ circuits \in [DOMAIN circuits -> Breakers] /\ IsAForest(circuits)
  BY DEF CircuitsInvariant, CircuitTyped, CircuitsFormAForest
<1>1. ASSUME circuits' = circuits PROVE CircuitsInvariant'
  BY <1>1 DEF CircuitsInvariant, CircuitsFormAForest
<1>2. ASSUME NEW ds, CircuitTyped(ds), IsAForest(ds), circuits' = ds PROVE CircuitsInvariant'
  BY <1>2 DEF CircuitsInvariant, CircuitsFormAForest
<1>3. ASSUME NEW c \in Circuits, NEW up \in Circuits \cup {Unset}, NEW limit \in Limits, create_circuit(c, up, limit)
      PROVE  CircuitsInvariant'
  <2>1. PICK b : b = [parent |-> up, limit |-> limit, locked |-> FALSE]
    OBVIOUS
  <2>2. b \in Breakers /\ b.parent = up
    BY <2>1, PowerAssumption DEF Breakers
  <2>3. PICK ds : ds = With(circuits, c, b)
    OBVIOUS
  <2>4. c \notin DOMAIN circuits /\ up \in DOMAIN circuits \cup {Unset} /\ circuits' = ds
    BY <1>3, <2>1, <2>3 DEF create_circuit
  <2>5. DOMAIN ds = DOMAIN circuits \cup {c} /\ ds[c] = b /\ \A d \in DOMAIN circuits : ds[d] = circuits[d]
    BY <2>3, <2>4 DEF With
  <2>6. ds \in [DOMAIN ds -> Breakers]
    BY <1>0, <2>2, <2>3, <2>4, <2>5 DEF With
  <2>7. CircuitTyped(ds) /\ CircuitTyped(circuits)
    BY <1>0, <2>5, <2>6 DEF CircuitTyped
  <2>8. ASSUME up # Unset PROVE up # c /\ up \in DOMAIN circuits /\ c \notin above(circuits, up)
    <3>1. up # c /\ up \in DOMAIN circuits
      BY <2>4, <2>8
    <3>2. UpClosed(circuits, DOMAIN circuits) /\ ParentOf(circuits, up) \subseteq DOMAIN circuits
      BY <1>0 DEF UpClosed, ParentOf, IsAForest
    <3> QED  BY <1>0, <2>4, <3>1, <3>2, NotAbove
  <2>9. IsAForest(ds)
    BY <1>0, <2>2, <2>5, <2>7, <2>8, ReparentedStaysAForest
  <2> QED  BY <1>2, <2>4, <2>7, <2>9
<1>4. ASSUME NEW c \in Circuits, NEW up \in Circuits \cup {Unset}, NEW limit \in Limits, update_circuit(c, up, limit)
      PROVE  CircuitsInvariant'
  <2>1. c \in DOMAIN circuits /\ (up = circuits[c].parent \/ no_cycle(c, up))
        /\ circuits' = [circuits EXCEPT ![c].parent = up, ![c].limit = limit]
    BY <1>4 DEF update_circuit
  <2>2. PICK b : b = [circuits[c] EXCEPT !.parent = up, !.limit = limit]
    OBVIOUS
  <2>3. PICK a \in Breakers : a = circuits[c]
    BY <1>0, <2>1
  <2>4. b \in Breakers /\ b.parent = up
    BY <2>2, <2>3, PowerAssumption DEF Breakers
  <2>5. PICK ds : ds = [circuits EXCEPT ![c] = b]
    OBVIOUS
  <2>6. circuits' = ds
    BY <2>1, <2>2, <2>5
  <2>7. DOMAIN ds = DOMAIN circuits \cup {c} /\ ds[c] = b /\ ds \in [DOMAIN ds -> Breakers]
        /\ \A d \in DOMAIN circuits : d # c => ds[d] = circuits[d]
    BY <1>0, <2>1, <2>4, <2>5
  <2>8. CircuitTyped(ds) /\ CircuitTyped(circuits)
    BY <1>0, <2>1, <2>7 DEF CircuitTyped
  <2>9. CASE up = circuits[c].parent
    <3>1. DOMAIN ds = DOMAIN circuits /\ \A d \in DOMAIN circuits : ds[d].parent = circuits[d].parent
      BY <2>1, <2>4, <2>7, <2>9
    <3> QED  BY <2>6, <2>8, <3>1, LocksMoveNone
  <2>10. CASE no_cycle(c, up)
    <3>1. up # c /\ up \in DOMAIN circuits /\ c \notin above(circuits, up)
      BY <2>10 DEF no_cycle, power_circuit_ancestors
    <3>2. IsAForest(ds)
      BY <1>0, <2>4, <2>7, <2>8, <3>1, ReparentedStaysAForest
    <3> QED  BY <1>2, <2>6, <2>8, <3>2
  <2> QED  BY <2>1, <2>9, <2>10
<1>5. ASSUME NEW c \in Circuits, delete_circuit(c) PROVE CircuitsInvariant'
  <2>1. PICK ds : ds = Without(circuits, c)
    OBVIOUS
  <2>2. circuits' = ds /\ \A d \in DOMAIN circuits : circuits[d].parent # c
    BY <1>5, <2>1 DEF delete_circuit
  <2>3. ds = [x \in DOMAIN circuits \ {c} |-> circuits[x]]
    BY <2>1 DEF Without
  <2>4. CircuitTyped(ds) /\ CircuitTyped(circuits)
    BY <1>0, <2>3 DEF CircuitTyped
  <2>5. \A d \in DOMAIN ds : ds[d].parent = circuits[d].parent /\ ds[d].parent \in DOMAIN ds \cup {Unset}
    BY <1>0, <2>2, <2>3 DEF IsAForest
  <2>6. IsAForest(ds)
    BY <1>0, <2>3, <2>4, <2>5, FewerStayAForest
  <2> QED  BY <1>2, <2>2, <2>4, <2>6
<1>6. ASSUME NEW c \in Circuits, reenable_circuit(c) PROVE CircuitsInvariant'
  <2>1. c \in DOMAIN circuits /\ circuits' = [circuits EXCEPT ![c].locked = FALSE]
    BY <1>6 DEF reenable_circuit, clear_circuit_lockout
  <2>2. PICK a \in Breakers : a = circuits[c]
    BY <1>0, <2>1
  <2>3. PICK b : b = [a EXCEPT !.locked = FALSE]
    OBVIOUS
  <2>4. b \in Breakers /\ b.parent = a.parent
    BY <2>3 DEF Breakers
  <2>5. PICK ds : ds = [circuits EXCEPT ![c] = b]
    OBVIOUS
  <2>6. circuits' = ds
    BY <2>1, <2>2, <2>3, <2>5
  <2>7. DOMAIN ds = DOMAIN circuits /\ ds \in [DOMAIN ds -> Breakers]
        /\ \A d \in DOMAIN circuits : ds[d].parent = circuits[d].parent
    BY <1>0, <2>1, <2>2, <2>4, <2>5
  <2>8. CircuitTyped(ds)
    BY <1>0, <2>7 DEF CircuitTyped
  <2> QED  BY <2>6, <2>7, <2>8, LocksMoveNone
<1>7. ASSUME NEW o \in Outlets, delete_outlet(o) \/ \E c \in Circuits : create_outlet(o, c) \/ update_outlet(o, c)
      PROVE  CircuitsInvariant'
  BY <1>1, <1>7 DEF delete_outlet, create_outlet, update_outlet
<1>8. ASSUME NEW r \in Receptacles,
             delete_receptacle(r) \/ \E o \in Outlets : create_receptacle(r, o) \/ update_receptacle(r, o)
      PROVE  CircuitsInvariant'
  BY <1>1, <1>8 DEF delete_receptacle, create_receptacle, update_receptacle
<1>9. ASSUME NEW t \in PoweredTools, reenable_tool(t) \/ \E r \in Receptacles \cup {Unset} : assign_tool_receptacle(t, r)
      PROVE  CircuitsInvariant'
  BY <1>1, <1>9 DEF reenable_tool, assign_tool_receptacle, powerTables
<1>10. ASSUME NEW m \in posts, power_report(m) PROVE CircuitsInvariant'
  <2>1. circuits' = circuits \/ circuits' = evaluate_circuit_overages
    BY <1>10, Zenon DEF power_report, powerTables
  <2> QED  BY <1>1, <2>1, Engaged DEF evaluate_circuit_overages
<1>11. ASSUME NEW m \in posts, power_trip(m) PROVE CircuitsInvariant'
  BY <1>11, Engaged DEF power_trip
<1>12. ASSUME NEW m \in posts, PostLost(m) PROVE CircuitsInvariant'
  BY <1>1, <1>12 DEF PostLost, powerTables
<1>13. CASE power_state
  BY <1>1, <1>13 DEF power_state, powerTables
<1>14. ASSUME NEW s \in snaps, apply_state(s) PROVE CircuitsInvariant'
  BY <1>1, <1>14 DEF apply_state, powerTables
<1>15. ASSUME NEW t \in PoweredTools, handle_power(t) \/ \E a \in Amps, trip \in BOOLEAN : Draws(t, a, trip)
       PROVE  CircuitsInvariant'
  <2>1. circuits' = circuits
    BY <1>15 DEF handle_power, Draws, powerTables
  <2> QED  BY <1>1, <2>1
<1>16. CASE \E c \in Circuits, up \in Circuits \cup {Unset}, limit \in Limits :
                create_circuit(c, up, limit) \/ update_circuit(c, up, limit)
  BY <1>3, <1>4, <1>16
<1>17. CASE \E c \in Circuits : delete_circuit(c) \/ reenable_circuit(c)
  BY <1>5, <1>6, <1>17
<1>18. CASE \E m \in posts : power_report(m) \/ power_trip(m) \/ PostLost(m)
  BY <1>10, <1>11, <1>12, <1>18
<1> QED  BY <1>7, <1>8, <1>9, <1>13, <1>14, <1>15, <1>16, <1>17, <1>18, Zenon DEF PowerNext

\* No circuit comes to be upstream of itself, whatever sequence of creations, re-parentings,
\* deletions and lockouts: the walks over the hierarchy end (update_circuit of power.rs,
\* power_circuit_ancestors).
THEOREM WalksUpEnd == PowerSpec => []CircuitsFormAForest
<1>1. PowerInit => CircuitsInvariant
  BY WiringsAssumption DEF PowerInit, CircuitsInvariant, CircuitTyped, CircuitsFormAForest
<1>2. CircuitsInvariant /\ UNCHANGED powerVars => CircuitsInvariant'
  BY DEF CircuitsInvariant, CircuitsFormAForest, powerVars, powerTables
<1>3. CircuitsInvariant /\ [PowerNext]_powerVars => CircuitsInvariant'
  BY <1>2, PowerStep
<1>4. CircuitsInvariant => CircuitsFormAForest
  BY DEF CircuitsInvariant
<1> QED  BY <1>1, <1>3, <1>4, PTL DEF PowerSpec

-----------------------------------------------------------------------------
(* The log of the sweeps *)

Kinds == {"module", "device", "power"}
LogRows == [kind : Kinds, key : Modules \cup Boxes \cup Machines, says : Int \cup {"silent", "returned"}, at : Int]

\* The rows say when they were written, in the order they were.
LogTyped ==
    /\ sweepLog \in Seq(LogRows) /\ sweeping \subseteq LogRows /\ sweepClock \in Nat
    /\ \A i, j \in DOMAIN sweepLog : i <= j => sweepLog[i].at <= sweepLog[j].at
    /\ \A i \in DOMAIN sweepLog : sweepLog[i].at <= sweepClock
\* Evidence of power is never from the future.
PowerStampsPast ==
    /\ \A t \in Machines : machine[t].since \in Int /\ machine[t].since <= sweepClock
    /\ \A r \in sweeping : r.kind = "power" => r.says \in Int /\ r.says <= sweepClock
    /\ \A i \in DOMAIN sweepLog : sweepLog[i].kind = "power" => sweepLog[i].says \in Int /\ sweepLog[i].says <= sweepLog[i].at
\* A sweep found one row of each, and each says something new.
OneOfEach == \A r, s \in sweeping : r.kind = s.kind /\ r.key = s.key => r = s
RowsAreNews ==
    /\ \A r \in sweeping : r.kind # "power" => \A x \in LatestRow(r.kind, r.key) : x.says # r.says
    /\ \A r \in sweeping : r.kind = "power" => \A i \in RowsOf("power", r.key) : sweepLog[i].says # r.says
Gauges == [inUse : BOOLEAN, relay : BOOLEAN, drawing : BOOLEAN, since : Int]
LogInvariant == LogTyped /\ PowerStampsPast /\ OneOfEach /\ RowsAreNews

\* A log with a row of a kind and key has a latest one.
LEMMA LatestExists ==
    ASSUME LogTyped, NEW kind, NEW key, RowsOf(kind, key) # {}
    PROVE  \E i \in RowsOf(kind, key) : sweepLog[i] \in LatestRow(kind, key) /\ \A k \in RowsOf(kind, key) : k <= i
<1> DEFINE n == Len(sweepLog)
           T == {n - i : i \in RowsOf(kind, key)}
<1>1. n \in Nat /\ \A i \in RowsOf(kind, key) : i \in 1 .. n
  BY DEF LogTyped, RowsOf
<1>2. T \in SUBSET Nat /\ T # {}
  BY <1>1
<1>3. IsWellFoundedOn(OpToRel(<, Nat), Nat)
  BY NatLessThanWellFounded
<1>4. PICK x \in T : \A y \in T : ~(<<y, x>> \in OpToRel(<, Nat))
  BY <1>2, <1>3, WFMin, Zenon
<1>5. \A y \in T : ~(y < x)
  BY <1>2, <1>4 DEF OpToRel
<1>6. PICK i \in RowsOf(kind, key) : x = n - i
  BY <1>4
<1>7. \A k \in RowsOf(kind, key) : k <= i
  <2> SUFFICES ASSUME NEW k \in RowsOf(kind, key) PROVE k <= i
    OBVIOUS
  <2>1. n - k \in T
    OBVIOUS
  <2>2. ~(n - k < n - i)
    BY <1>5, <1>6, <2>1
  <2> QED  BY <1>1, <2>2
<1> QED  BY <1>6, <1>7 DEF LatestRow

\* What a sweep finds says something new of each.
LEMMA SweepsFindNews ==
    ASSUME LogInvariant, NEW rows, rows \in {sweep_once, sweep_unbound_devices, check_unauthorized_power}
    PROVE  /\ rows \subseteq LogRows
           /\ \A r, s \in rows : r.kind = s.kind /\ r.key = s.key => r = s
           /\ \A r \in rows : r.kind # "power" => \A x \in LatestRow(r.kind, r.key) : x.says # r.says
           /\ \A r \in rows : r.kind = "power" => r.says \in Int /\ r.says <= sweepClock
                                /\ \A i \in RowsOf("power", r.key) : sweepLog[i].says # r.says
<1>0. sweepClock \in Int
  BY DEF LogInvariant, LogTyped
<1>1. \A seen, previously : /\ classify_liveness(seen, previously) \subseteq {"silent", "returned"}
                            /\ \A x, y \in classify_liveness(seen, previously) : x = y
                            /\ "silent" \in classify_liveness(seen, previously) => ~ previously
                            /\ "returned" \in classify_liveness(seen, previously) => previously
  BY DEF classify_liveness
<1>2. CASE rows = sweep_once
  <2>1. ASSUME NEW r \in rows
        PROVE  \E m \in Modules : \E says \in classify_liveness(box[bound[m]].seen, latest_module_liveness_records(m) = {"silent"}) :
                   r = Row("module", m, says)
    BY <1>2, <2>1 DEF sweep_once, bound_modules_with_liveness
  <2>2. ASSUME NEW r \in rows
        PROVE  r \in LogRows /\ r.kind = "module" /\ \A x \in LatestRow("module", r.key) : x.says # r.says
    <3>1. PICK m \in Modules : \E says \in classify_liveness(box[bound[m]].seen, latest_module_liveness_records(m) = {"silent"}) :
                   r = Row("module", m, says)
      BY <2>1
    <3>2. PICK says \in classify_liveness(box[bound[m]].seen, latest_module_liveness_records(m) = {"silent"}) :
                   r = Row("module", m, says)
      BY <3>1
    <3>3. says \in {"silent", "returned"}
      BY <1>1
    <3>4. r \in LogRows /\ r.kind = "module" /\ r.key = m /\ r.says = says
      BY <1>0, <3>2, <3>3 DEF Row, LogRows, Kinds
    <3>5. \A x \in LatestRow("module", m) : x.says # says
      <4>1. \A x, y \in LatestRow("module", m) : x = y
        BY DEF LatestRow, RowsOf, LogInvariant, LogTyped
      <4> SUFFICES ASSUME NEW x \in LatestRow("module", m), x.says = says PROVE FALSE
        OBVIOUS
      <4>2. latest_module_liveness_records(m) = {says}
        BY <4>1 DEF latest_module_liveness_records
      <4>3. CASE says = "silent"
        <5>1. ~ (latest_module_liveness_records(m) = {"silent"})
          BY <3>2, <4>3 DEF classify_liveness
        <5> QED  BY <4>2, <4>3, <5>1
      <4>4. CASE says = "returned"
        <5>1. latest_module_liveness_records(m) = {"silent"}
          BY <3>2, <4>4 DEF classify_liveness
        <5> QED  BY <4>2, <4>4, <5>1
      <4> QED  BY <3>3, <4>3, <4>4
    <3> QED  BY <3>4, <3>5
  <2>3. ASSUME NEW r \in rows, NEW s \in rows, r.key = s.key PROVE r = s
    <3>1. PICK m \in Modules : \E says \in classify_liveness(box[bound[m]].seen, latest_module_liveness_records(m) = {"silent"}) :
                   r = Row("module", m, says)
      BY <2>1
    <3>2. PICK k \in Modules : \E says \in classify_liveness(box[bound[k]].seen, latest_module_liveness_records(k) = {"silent"}) :
                   s = Row("module", k, says)
      BY <2>1
    <3>3. m = k
      BY <2>3, <3>1, <3>2 DEF Row
    <3> QED  BY <1>1, <3>1, <3>2, <3>3
  <2> QED  BY <2>2, <2>3
<1>3. CASE rows = sweep_unbound_devices
  <2>1. ASSUME NEW r \in rows
        PROVE  \E d \in Boxes : \E says \in classify_liveness(box[d].seen, latest_device_isolation_records(d) = {"silent"}) :
                   r = Row("device", d, says)
    BY <1>3, <2>1 DEF sweep_unbound_devices, unbound_devices_with_liveness
  <2>2. ASSUME NEW r \in rows
        PROVE  r \in LogRows /\ r.kind = "device" /\ \A x \in LatestRow("device", r.key) : x.says # r.says
    <3>1. PICK d \in Boxes : \E says \in classify_liveness(box[d].seen, latest_device_isolation_records(d) = {"silent"}) :
                   r = Row("device", d, says)
      BY <2>1
    <3>2. PICK says \in classify_liveness(box[d].seen, latest_device_isolation_records(d) = {"silent"}) :
                   r = Row("device", d, says)
      BY <3>1
    <3>3. says \in {"silent", "returned"}
      BY <1>1
    <3>4. r \in LogRows /\ r.kind = "device" /\ r.key = d /\ r.says = says
      BY <1>0, <3>2, <3>3 DEF Row, LogRows, Kinds
    <3>5. \A x \in LatestRow("device", d) : x.says # says
      <4>1. \A x, y \in LatestRow("device", d) : x = y
        BY DEF LatestRow, RowsOf, LogInvariant, LogTyped
      <4> SUFFICES ASSUME NEW x \in LatestRow("device", d), x.says = says PROVE FALSE
        OBVIOUS
      <4>2. latest_device_isolation_records(d) = {says}
        BY <4>1 DEF latest_device_isolation_records
      <4>3. CASE says = "silent"
        <5>1. ~ (latest_device_isolation_records(d) = {"silent"})
          BY <3>2, <4>3 DEF classify_liveness
        <5> QED  BY <4>2, <4>3, <5>1
      <4>4. CASE says = "returned"
        <5>1. latest_device_isolation_records(d) = {"silent"}
          BY <3>2, <4>4 DEF classify_liveness
        <5> QED  BY <4>2, <4>4, <5>1
      <4> QED  BY <3>3, <4>3, <4>4
    <3> QED  BY <3>4, <3>5
  <2>3. ASSUME NEW r \in rows, NEW s \in rows, r.key = s.key PROVE r = s
    <3>1. PICK m \in Boxes : \E says \in classify_liveness(box[m].seen, latest_device_isolation_records(m) = {"silent"}) :
                   r = Row("device", m, says)
      BY <2>1
    <3>2. PICK k \in Boxes : \E says \in classify_liveness(box[k].seen, latest_device_isolation_records(k) = {"silent"}) :
                   s = Row("device", k, says)
      BY <2>1
    <3>3. m = k
      BY <2>3, <3>1, <3>2 DEF Row
    <3> QED  BY <1>1, <3>1, <3>2, <3>3
  <2> QED  BY <2>2, <2>3
<1>4. CASE rows = check_unauthorized_power
  <2>1. ASSUME NEW r \in rows
        PROVE  \E t \in Machines : ~ reported(t) /\ r = Row("power", t, machine[t].since)
    BY <1>4, <2>1 DEF check_unauthorized_power
  <2>2. ASSUME NEW r \in rows
        PROVE  /\ r \in LogRows /\ r.kind = "power" /\ r.says \in Int /\ r.says <= sweepClock
               /\ \A i \in RowsOf("power", r.key) : sweepLog[i].says # r.says
    <3>1. PICK t \in Machines : ~ reported(t) /\ r = Row("power", t, machine[t].since)
      BY <2>1
    <3>2. machine[t].since \in Int /\ machine[t].since <= sweepClock
      BY DEF LogInvariant, PowerStampsPast
    <3>3. r \in LogRows /\ r.kind = "power" /\ r.key = t /\ r.says = machine[t].since
      BY <1>0, <3>1, <3>2 DEF Row, LogRows, Kinds
    <3>4. ASSUME NEW i \in RowsOf("power", t) PROVE sweepLog[i].says # machine[t].since
      <4>1. PICK j \in RowsOf("power", t) : sweepLog[j] \in LatestRow("power", t) /\ \A k \in RowsOf("power", t) : k <= j
        BY <3>4, LatestExists DEF LogInvariant
      <4>2. sweepLog[j].at \in latest_unauthorized_power_reports(t)
        BY <4>1 DEF latest_unauthorized_power_reports
      <4>3. ~(sweepLog[j].at >= machine[t].since)
        BY <3>1, <4>2 DEF reported
      <4>4. i \in DOMAIN sweepLog /\ j \in DOMAIN sweepLog /\ i <= j /\ sweepLog[i].kind = "power"
        BY <3>4, <4>1 DEF RowsOf
      <4>5. sweepLog[i].at \in Int /\ sweepLog[j].at \in Int
        <5>1. sweepLog[i] \in LogRows /\ sweepLog[j] \in LogRows
          BY <4>4 DEF LogInvariant, LogTyped
        <5> QED  BY <5>1 DEF LogRows
      <4>6. sweepLog[i].at <= sweepLog[j].at /\ sweepLog[i].says \in Int /\ sweepLog[i].says <= sweepLog[i].at
        BY <4>4 DEF LogInvariant, LogTyped, PowerStampsPast
      <4> QED  BY <3>2, <4>3, <4>5, <4>6
    <3> QED  BY <3>2, <3>3, <3>4
  <2>3. ASSUME NEW r \in rows, NEW s \in rows, r.key = s.key PROVE r = s
    BY <2>1, <2>3 DEF Row
  <2> QED  BY <2>2, <2>3
<1> QED  BY <1>2, <1>3, <1>4

\* A row is written: it is the newest, and no row of another kind or key is
\* any less the latest of its own.
LEMMA WriteStep ==
    ASSUME LogInvariant, LogHoldsTransitions, EpisodeReportedOnce, NEW r \in sweeping, write(r)
    PROVE  (LogInvariant /\ LogHoldsTransitions /\ EpisodeReportedOnce)'
<1> DEFINE n == Len(sweepLog)
<1>1. PICK row : row = [r EXCEPT !.at = sweepClock]
  OBVIOUS
<1>2. /\ row \in LogRows /\ row.kind = r.kind /\ row.key = r.key /\ row.says = r.says /\ row.at = sweepClock
      /\ r \in LogRows /\ sweepClock \in Nat
  BY <1>1 DEF LogInvariant, LogTyped, LogRows
<1>3. /\ sweepLog' = Append(sweepLog, row) /\ sweeping' = sweeping \ {r}
      /\ UNCHANGED <<machine, sweepClock>>
  BY <1>1 DEF write
<1>4. /\ n \in Nat /\ DOMAIN sweepLog = 1 .. n /\ DOMAIN sweepLog' = 1 .. (n + 1)
      /\ sweepLog'[n + 1] = row /\ \A i \in 1 .. n : sweepLog'[i] = sweepLog[i]
      /\ sweepLog' \in Seq(LogRows)
  <2>1. sweepLog \in Seq(LogRows)
    BY DEF LogInvariant, LogTyped
  <2> QED  BY <1>2, <1>3, <2>1
<1>5. \A kind, key : RowsOf(kind, key)' = RowsOf(kind, key)
                         \cup (IF kind = r.kind /\ key = r.key THEN {n + 1} ELSE {})
  BY <1>2, <1>4 DEF RowsOf
<1>6. \A kind, key : RowsOf(kind, key) \subseteq 1 .. n
  BY <1>4 DEF RowsOf
<1>7. \A kind, key : ~ (kind = r.kind /\ key = r.key) => LatestRow(kind, key)' = LatestRow(kind, key)
  <2> SUFFICES ASSUME NEW kind, NEW key, ~ (kind = r.kind /\ key = r.key)
               PROVE  LatestRow(kind, key)' = LatestRow(kind, key)
    OBVIOUS
  <2>1. RowsOf(kind, key)' = RowsOf(kind, key)
    BY <1>5
  <2>2. \A i \in RowsOf(kind, key) : sweepLog'[i] = sweepLog[i]
    BY <1>4, <1>6
  <2> QED  BY <2>1, <2>2 DEF LatestRow
<1>8. LogTyped'
  <2>1. \A i \in 1 .. n : sweepLog[i].at <= sweepClock
    BY <1>4 DEF LogInvariant, LogTyped
  <2>2. \A i, j \in DOMAIN sweepLog' : i <= j => sweepLog'[i].at <= sweepLog'[j].at
    <3> SUFFICES ASSUME NEW i \in 1 .. (n + 1), NEW j \in 1 .. (n + 1), i <= j PROVE sweepLog'[i].at <= sweepLog'[j].at
      BY <1>4
    <3>1. CASE j = n + 1 /\ i = n + 1
      BY <1>2, <1>4, <3>1
    <3>2. CASE j = n + 1 /\ i \in 1 .. n
      BY <1>2, <1>4, <2>1, <3>2
    <3>3. CASE i \in 1 .. n /\ j \in 1 .. n
      BY <1>4, <3>3 DEF LogInvariant, LogTyped
    <3> QED  BY <1>4, <3>1, <3>2, <3>3
  <2>3. \A i \in DOMAIN sweepLog' : sweepLog'[i].at <= sweepClock
    BY <1>2, <1>4, <2>1
  <2> QED  BY <1>3, <1>4, <2>2, <2>3 DEF LogInvariant, LogTyped
<1>9. PowerStampsPast'
  <2>1. ASSUME NEW i \in DOMAIN sweepLog', sweepLog'[i].kind = "power"
        PROVE  sweepLog'[i].says \in Int /\ sweepLog'[i].says <= sweepLog'[i].at
    <3>1. CASE i = n + 1
      BY <1>2, <1>4, <2>1, <3>1 DEF LogInvariant, PowerStampsPast
    <3>2. CASE i \in 1 .. n
      BY <1>4, <2>1, <3>2 DEF LogInvariant, PowerStampsPast
    <3> QED  BY <1>4, <2>1, <3>1, <3>2
  <2> QED  BY <1>3, <2>1 DEF LogInvariant, PowerStampsPast
<1>10. OneOfEach'
  BY <1>3 DEF LogInvariant, OneOfEach
<1>11. \A s \in sweeping' : s \in sweeping /\ ~ (s.kind = r.kind /\ s.key = r.key)
  BY <1>3 DEF LogInvariant, OneOfEach
<1>12. RowsAreNews'
  <2>1. \A s \in sweeping' : s.kind # "power" => \A x \in LatestRow(s.kind, s.key)' : x.says # s.says
    BY <1>7, <1>11 DEF LogInvariant, RowsAreNews
  <2>2. ASSUME NEW s \in sweeping', s.kind = "power", NEW i \in RowsOf("power", s.key)' PROVE sweepLog'[i].says # s.says
    <3>1. i \in RowsOf("power", s.key)
      BY <1>5, <1>11, <2>2
    <3>2. sweepLog'[i] = sweepLog[i]
      BY <1>4, <1>6, <3>1
    <3> QED  BY <1>11, <2>2, <3>1, <3>2 DEF LogInvariant, RowsAreNews
  <2> QED  BY <2>1, <2>2 DEF RowsAreNews
<1>13. LogHoldsTransitions'
  <2> SUFFICES ASSUME NEW j \in 1 .. (n + 1), sweepLog'[j].kind # "power",
                      NEW i \in RowsOf(sweepLog[j].kind, sweepLog[j].key)', i < j,
                      \A k \in RowsOf(sweepLog[j].kind, sweepLog[j].key)' : k < j => k <= i
               PROVE  sweepLog'[i].says # sweepLog'[j].says
    BY <1>4 DEF LogHoldsTransitions
  <2>1. CASE j = n + 1
    <3>1. sweepLog'[j] = row
      BY <1>4, <2>1
    <3>2. i \in RowsOf(r.kind, r.key)
      BY <1>2, <1>4, <1>5, <2>1, <3>1
    <3>3. \A k \in RowsOf(r.kind, r.key) : k <= i
      BY <1>2, <1>4, <1>5, <1>6, <2>1, <3>1
    <3>4. sweepLog[i] \in LatestRow(r.kind, r.key)
      BY <3>2, <3>3 DEF LatestRow
    <3>5. sweepLog[i].says # r.says
      BY <1>2, <3>1, <3>4 DEF LogInvariant, RowsAreNews
    <3> QED  BY <1>2, <1>4, <1>6, <3>1, <3>2, <3>5
  <2>2. CASE j \in 1 .. n
    <3>1. sweepLog'[j] = sweepLog[j]
      BY <1>4, <2>2
    <3>2. i \in RowsOf(sweepLog[j].kind, sweepLog[j].key)
      BY <1>4, <1>5, <2>2, <3>1
    <3>3. \A k \in RowsOf(sweepLog[j].kind, sweepLog[j].key) : k < j => k <= i
      BY <1>5, <3>1
    <3>4. sweepLog'[i] = sweepLog[i]
      BY <1>4, <1>6, <3>2
    <3> QED  BY <1>4, <2>2, <3>1, <3>2, <3>3, <3>4 DEF LogHoldsTransitions
  <2> QED  BY <1>4, <2>1, <2>2
<1>14. EpisodeReportedOnce'
  <2> SUFFICES ASSUME NEW i \in 1 .. (n + 1), NEW j \in 1 .. (n + 1), i # j, sweepLog'[i].kind = "power",
                      sweepLog'[j].kind = "power", sweepLog'[i].key = sweepLog'[j].key
               PROVE  sweepLog'[i].says # sweepLog'[j].says
    BY <1>4 DEF EpisodeReportedOnce
  <2>1. ASSUME NEW k \in 1 .. n, sweepLog[k].kind = "power", row.kind = "power", sweepLog[k].key = row.key
        PROVE  sweepLog[k].says # row.says
    <3>1. k \in RowsOf("power", r.key)
      BY <1>2, <1>4, <2>1 DEF RowsOf
    <3> QED  BY <1>2, <2>1, <3>1 DEF LogInvariant, RowsAreNews
  <2>2. CASE i \in 1 .. n /\ j \in 1 .. n
    BY <1>4, <2>2 DEF EpisodeReportedOnce
  <2>3. CASE i \in 1 .. n /\ j = n + 1
    BY <1>4, <2>1, <2>3
  <2>4. CASE i = n + 1 /\ j \in 1 .. n
    BY <1>4, <2>1, <2>4
  <2> QED  BY <1>4, <2>2, <2>3, <2>4
<1> QED  BY <1>8, <1>9, <1>10, <1>12, <1>13, <1>14 DEF LogInvariant

\* Every other step leaves the log as it is.
LEMMA LogStays ==
    ASSUME LogInvariant, LogHoldsTransitions, EpisodeReportedOnce, sweepLog' = sweepLog,
           sweepClock' \in Nat, sweepClock <= sweepClock',
           \A t \in Machines : machine'[t].since \in Int /\ machine'[t].since <= sweepClock',
           \/ sweeping' \in SUBSET sweeping
           \/ sweepClock' = sweepClock /\ sweeping' \in {sweep_once, sweep_unbound_devices, check_unauthorized_power}
    PROVE  (LogInvariant /\ LogHoldsTransitions /\ EpisodeReportedOnce)'
<1>1. \A kind, key : RowsOf(kind, key)' = RowsOf(kind, key) /\ LatestRow(kind, key)' = LatestRow(kind, key)
  BY DEF RowsOf, LatestRow
<1>2. LogHoldsTransitions' /\ EpisodeReportedOnce'
  BY <1>1 DEF LogHoldsTransitions, EpisodeReportedOnce
<1>3. \A i \in DOMAIN sweepLog : sweepLog[i].at \in Int
  <2>1. \A i \in DOMAIN sweepLog : sweepLog[i] \in LogRows
    BY DEF LogInvariant, LogTyped
  <2> QED  BY <2>1 DEF LogRows
<1>4. sweepClock \in Int
  BY DEF LogInvariant, LogTyped
<1>5. \A i \in DOMAIN sweepLog : sweepLog[i].at <= sweepClock'
  BY <1>3, <1>4 DEF LogInvariant, LogTyped
<1>6. CASE sweeping' \in SUBSET sweeping
  <2>1. LogTyped'
    BY <1>5, <1>6 DEF LogInvariant, LogTyped
  <2>2. \A r \in sweeping : r.kind = "power" => r.says \in Int /\ r.says <= sweepClock'
    BY <1>4 DEF LogInvariant, PowerStampsPast
  <2>3. PowerStampsPast'
    BY <1>6, <2>2 DEF LogInvariant, PowerStampsPast
  <2>4. OneOfEach' /\ RowsAreNews'
    BY <1>1, <1>6 DEF LogInvariant, OneOfEach, RowsAreNews
  <2> QED  BY <1>2, <2>1, <2>3, <2>4 DEF LogInvariant
<1>7. CASE sweepClock' = sweepClock /\ sweeping' \in {sweep_once, sweep_unbound_devices, check_unauthorized_power}
  <2>1. PICK rows : rows = sweeping'
    OBVIOUS
  <2>2. /\ rows \subseteq LogRows
        /\ \A r, s \in rows : r.kind = s.kind /\ r.key = s.key => r = s
        /\ \A r \in rows : r.kind # "power" => \A x \in LatestRow(r.kind, r.key) : x.says # r.says
        /\ \A r \in rows : r.kind = "power" => r.says \in Int /\ r.says <= sweepClock
                             /\ \A i \in RowsOf("power", r.key) : sweepLog[i].says # r.says
    BY <1>7, <2>1, SweepsFindNews
  <2>3. LogTyped'
    BY <1>7, <2>1, <2>2 DEF LogInvariant, LogTyped
  <2>4. PowerStampsPast'
    BY <1>7, <2>1, <2>2 DEF LogInvariant, PowerStampsPast
  <2>5. OneOfEach'
    BY <2>1, <2>2 DEF OneOfEach
  <2>6. RowsAreNews'
    BY <1>1, <2>1, <2>2 DEF RowsAreNews
  <2> QED  BY <1>2, <2>3, <2>4, <2>5, <2>6 DEF LogInvariant
<1> QED  BY <1>6, <1>7

\* Every step of the sweeps, and of what changes under them.
LEMMA SweepStep ==
    ASSUME LogInvariant, LogHoldsTransitions, EpisodeReportedOnce, machine \in [Machines -> Gauges], BypassNext
    PROVE  (LogInvariant /\ LogHoldsTransitions /\ EpisodeReportedOnce)' /\ machine' \in [Machines -> Gauges]
<1> DEFINE Goal == (LogInvariant /\ LogHoldsTransitions /\ EpisodeReportedOnce)' /\ machine' \in [Machines -> Gauges]
<1>0. /\ sweepClock \in Nat /\ sweepClock <= sweepClock
      /\ \A t \in Machines : machine[t].since \in Int /\ machine[t].since <= sweepClock
  BY DEF LogInvariant, LogTyped, PowerStampsPast
<1>1. ASSUME UNCHANGED <<machine, sweepLog, sweeping, sweepClock>> PROVE Goal
  BY <1>0, <1>1, LogStays
<1>2. ASSUME NEW rows, rows \in {sweep_once, sweep_unbound_devices, check_unauthorized_power}, SweepReads(rows) PROVE Goal
  BY <1>0, <1>2, LogStays DEF SweepReads
<1>10. CASE SweepReads(sweep_once) \/ SweepReads(sweep_unbound_devices) \/ SweepReads(check_unauthorized_power)
  <2>1. ASSUME SweepReads(sweep_once) PROVE Goal
    BY <1>2, <2>1
  <2>2. ASSUME SweepReads(sweep_unbound_devices) PROVE Goal
    BY <1>2, <2>2
  <2>3. ASSUME SweepReads(check_unauthorized_power) PROVE Goal
    BY <1>2, <2>3
  <2> QED  BY <1>10, <2>1, <2>2, <2>3
<1>3. ASSUME NEW r \in sweeping, write(r) PROVE Goal
  <2>1. machine' = machine
    BY <1>3 DEF write
  <2> QED  BY <1>3, <2>1, WriteStep
<1>f. ASSUME NEW r \in sweeping, WriteFails(r) PROVE Goal
  <2>1. UNCHANGED <<machine, sweepLog, sweepClock>> /\ sweeping' \in SUBSET sweeping
    BY <1>f DEF WriteFails, BypassStep
  <2> QED  BY <1>0, <2>1, LogStays
<1>4. ASSUME NEW d \in Boxes, touch_device_last_seen(d) \/ DeviceDeleted(d) PROVE Goal
  BY <1>1, <1>4 DEF touch_device_last_seen, DeviceDeleted, BypassStep
<1>5. ASSUME NEW m \in Modules, NEW d, Bind(m, d) PROVE Goal
  BY <1>1, <1>5 DEF Bind, BypassStep
<1>6. ASSUME NEW t \in Machines, NEW g \in Gauges, g.since <= sweepClock, machine' = [machine EXCEPT ![t] = g],
             UNCHANGED <<sweepLog, sweeping, sweepClock>>
      PROVE  Goal
  <2>1. machine' \in [Machines -> Gauges]
    BY <1>6
  <2>2. \A u \in Machines : machine'[u].since \in Int /\ machine'[u].since <= sweepClock'
    BY <1>0, <1>6 DEF Gauges
  <2> QED  BY <1>0, <1>6, <2>1, <2>2, LogStays
<1>7. ASSUME NEW t \in Machines, UsedOrLeft(t) PROVE Goal
  <2>1. PICK g : g = [machine[t] EXCEPT !.inUse = ~ @]
    OBVIOUS
  <2>2. g \in Gauges /\ g.since = machine[t].since
    BY <2>1 DEF Gauges
  <2>3. machine' = [machine EXCEPT ![t] = g] /\ UNCHANGED <<sweepLog, sweeping, sweepClock>>
    BY <1>7, <2>1 DEF UsedOrLeft, BypassStep
  <2> QED  BY <1>0, <1>6, <2>2, <2>3
<1>8. ASSUME NEW t \in Machines, NEW relay \in BOOLEAN, NEW drawing \in BOOLEAN, Reported(t, relay, drawing) PROVE Goal
  <2>1. PICK since : since = power_evidence_since(t, relay, drawing)
    OBVIOUS
  <2>2. PICK g : g = [machine[t] EXCEPT !.relay = relay, !.drawing = drawing, !.since = since]
    OBVIOUS
  <2>3. since \in Int /\ (since = -1 \/ since <= sweepClock)
    BY <1>0, <2>1 DEF power_evidence_since, NeverSeen
  <2>4. g \in Gauges /\ g.since = since
    BY <2>2, <2>3 DEF Gauges
  <2>5. machine' = [machine EXCEPT ![t] = g] /\ UNCHANGED <<sweepLog, sweeping, sweepClock>>
    BY <1>8, <2>1, <2>2 DEF Reported, BypassStep
  <2>6. g.since <= sweepClock
    BY <1>0, <2>3, <2>4
  <2> QED  BY <1>6, <2>4, <2>5, <2>6
<1>9. CASE SweepClockGoes
  <2>1. /\ sweepClock' = sweepClock + 1 /\ UNCHANGED <<machine, sweepLog, sweeping>>
    BY <1>9 DEF SweepClockGoes
  <2>2. sweepClock' \in Nat /\ sweepClock <= sweepClock'
        /\ \A t \in Machines : machine'[t].since \in Int /\ machine'[t].since <= sweepClock'
    BY <1>0, <2>1
  <2> QED  BY <2>1, <2>2, LogStays
<1>11. CASE \E d \in Boxes : touch_device_last_seen(d) \/ DeviceDeleted(d)
  BY <1>4, <1>11
<1>12. CASE \E m \in Modules, d \in Boxes \cup {NoBox} : Bind(m, d)
  BY <1>5, <1>12
<1>13. CASE \E t \in Machines : UsedOrLeft(t) \/ \E relay, drawing \in BOOLEAN : Reported(t, relay, drawing)
  BY <1>7, <1>8, <1>13
<1>14. CASE \E r \in sweeping : write(r) \/ WriteFails(r)
  BY <1>3, <1>f, <1>14
<1> QED  BY <1>9, <1>10, <1>11, <1>12, <1>13, <1>14 DEF BypassNext

\* However sweeps interleave with reports, bindings, deletions and members, the log holds
\* transitions, one row each, and one row for each stretch of unauthorized power
\* (sweep_once, sweep_unbound_devices, check_unauthorized_power of bypass.rs).
THEOREM LogTellsChanges == BypassSpec => [](LogHoldsTransitions /\ EpisodeReportedOnce)
<1> DEFINE J == LogInvariant /\ LogHoldsTransitions /\ EpisodeReportedOnce /\ machine \in [Machines -> Gauges]
<1>1. BypassInit => J
  <2> SUFFICES ASSUME BypassInit PROVE J
    OBVIOUS
  <2>1. sweepLog = <<>> /\ sweeping = {} /\ sweepClock = 0 /\ machine \in [Machines -> Gauges]
        /\ \A t \in Machines : machine[t].since = -1
    BY DEF BypassInit, Gauges, NeverSeen
  <2>2. LogTyped
    BY <2>1 DEF LogTyped
  <2>3. PowerStampsPast /\ OneOfEach /\ RowsAreNews
    BY <2>1 DEF PowerStampsPast, OneOfEach, RowsAreNews
  <2>4. LogHoldsTransitions /\ EpisodeReportedOnce
    BY <2>1 DEF LogHoldsTransitions, EpisodeReportedOnce
  <2> QED  BY <2>1, <2>2, <2>3, <2>4 DEF LogInvariant
<1>2. J /\ UNCHANGED bypassVars => J'
  <2> SUFFICES ASSUME J, UNCHANGED bypassVars PROVE J'
    OBVIOUS
  <2>1. \A t \in Machines : machine'[t].since \in Int /\ machine'[t].since <= sweepClock'
    BY DEF bypassVars, LogInvariant, PowerStampsPast
  <2>2. sweepClock' \in Nat /\ sweepClock <= sweepClock' /\ UNCHANGED <<sweepLog, sweeping, machine>>
    BY DEF bypassVars, LogInvariant, LogTyped
  <2> QED  BY <2>1, <2>2, LogStays
<1>3. J /\ [BypassNext]_bypassVars => J'
  BY <1>2, SweepStep
<1>4. J => LogHoldsTransitions /\ EpisodeReportedOnce
  OBVIOUS
<1> QED  BY <1>1, <1>3, <1>4, PTL DEF BypassSpec
=============================================================================
