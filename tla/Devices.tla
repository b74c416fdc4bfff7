------------------------------- MODULE Devices -------------------------------
(***************************************************************************)
(* How a device comes to talk with the server, and keeps doing so          *)
(* (server api/devices.rs, devices_transport.rs, devices_inbound.rs,       *)
(* mqtt.rs; edge registration.rs, ws.rs, mqtt.rs, main.rs): invitation,    *)
(* registration, the two transports under outages, and the door scans the  *)
(* edge reports over them.                                                 *)
(***************************************************************************)
EXTENDS Integers, Sequences, FiniteSets

CONSTANTS
    Kit,               \* devices; each registers at most once
    Invitations,        \* device codes
    InviteTtl,          \* expires_in_hours
    CardCipher,         \* the server has a cipher, so it mints a command key
    BrokerConfigured,   \* edge_mqtt_config: registration hands out MQTT settings
    MaxDeviceSteps, MaxScans, MaxOutages, MaxDeviceHour     \* bounds

ASSUME DevicesAssumption == InviteTtl \in Nat /\ CardCipher \in BOOLEAN /\ BrokerConfigured \in BOOLEAN

VARIABLES
    invite,     \* space_device_auth_requests: [issued, expires, used]
    gear,       \* space_devices and space_device_auth: [live, deleted, code, key, name, seen, facts]
    joining,    \* a registration under way: the code it found good
    edgeFile,   \* the edge's config file: [approved, key, broker, name, transport]
    process,    \* the edge process: "off", "up" or, its socket task panicked, "panicked"
    sockets,    \* WebSockets some end still holds: [of, epoch, held (by the edge), served, wire]
    registry,   \* DeviceChannelRegistry: device -> {epoch}
    nextEpoch,
    link,       \* MQTT connections, the server's and each edge's: [up, hears]
    scans,      \* door events the edge has not sent yet
    accessLog,  \* door_access_events
    room,       \* the door's room has an open session
    opened,     \* devices whose door the server has opened
    deviceSteps, scanned, outages, deviceHour
registered == <<invite, gear, joining, edgeFile>>
channels == <<process, sockets, registry, nextEpoch, link>>
events == <<scans, accessLog, room, opened, scanned>>
deviceVars == <<registered, channels, events, deviceSteps, outages, deviceHour>>

Server == "server"
Names == {"old", "new"}
NoCode == "none"

DevicesInit ==
    /\ invite = [c \in Invitations |-> [issued |-> FALSE, expires |-> 0, used |-> FALSE]]
    /\ gear = [d \in Kit |-> [live |-> FALSE, deleted |-> FALSE, code |-> NoCode, key |-> FALSE, name |-> "old",
                             seen |-> FALSE, facts |-> FALSE]]
    /\ joining = [d \in Kit |-> {}]
    /\ edgeFile \in [Kit -> {[approved |-> FALSE, key |-> FALSE, broker |-> FALSE, name |-> "old", transport |-> t] :
                              t \in {"mqtt", "websocket"}}]
    /\ process = [d \in Kit |-> "off"] /\ sockets = {} /\ registry = [d \in Kit |-> {}] /\ nextEpoch = 0
    /\ link = [x \in Kit \cup {Server} |-> [up |-> x = Server, hears |-> x = Server]]
    /\ scans = [d \in Kit |-> <<>>] /\ accessLog = <<>> /\ room = FALSE /\ opened = {}
    /\ deviceSteps = 0 /\ scanned = 0 /\ outages = 0 /\ deviceHour = 0

DeviceStep == deviceSteps < MaxDeviceSteps /\ deviceSteps' = deviceSteps + 1 /\ UNCHANGED <<outages, deviceHour>>
Quietly == UNCHANGED <<deviceSteps, outages, deviceHour>>

-----------------------------------------------------------------------------
(* Staff. *)

list_device_invites == {c \in Invitations : invite[c].issued}
list_devices == {d \in Kit : gear[d].live /\ ~ gear[d].deleted}

create_device_invite(c) ==
    /\ DeviceStep /\ ~ invite[c].issued
    /\ invite' = [invite EXCEPT ![c] = [issued |-> TRUE, expires |-> deviceHour + InviteTtl, used |-> FALSE]]
    /\ UNCHANGED <<gear, joining, edgeFile, channels, events>>
expire_device_invite(c) ==
    /\ DeviceStep /\ ~ invite[c].used /\ invite' = [invite EXCEPT ![c].expires = deviceHour]
    /\ UNCHANGED <<gear, joining, edgeFile, channels, events>>

\* The new name goes out over MQTT alone, and is not sent again.
publish_name_change(d, name) ==
    edgeFile' = IF link[Server].up /\ link[d].hears THEN [edgeFile EXCEPT ![d].name = name] ELSE edgeFile
rename_device(d, name) ==
    /\ DeviceStep /\ gear[d].name # name
    /\ gear' = [gear EXCEPT ![d].name = name] /\ publish_name_change(d, name)
    /\ UNCHANGED <<invite, joining, channels, events>>
delete_device(d) ==
    /\ DeviceStep /\ gear' = [gear EXCEPT ![d].deleted = TRUE]
    /\ UNCHANGED <<invite, joining, edgeFile, channels, events>>

-----------------------------------------------------------------------------
(* Registration: the code is read and judged, then claimed. *)

invite_refused(c) == ~ invite[c].issued \/ invite[c].used \/ invite[c].expires < deviceHour
RegisterReads(d, c) ==
    /\ joining[d] = {} /\ ~ gear[d].live /\ ~ invite_refused(c) /\ joining' = [joining EXCEPT ![d] = {c}]
    /\ Quietly /\ UNCHANGED <<invite, gear, edgeFile, channels, events>>

claims(c) == ~ invite[c].used

\* What the edge saves of the answer; when the answer is lost it has nothing, and the code is spent.
saved_answer(d) ==
    [edgeFile EXCEPT ![d] = [@ EXCEPT !.approved = TRUE, !.broker = BrokerConfigured, !.key = BrokerConfigured /\ CardCipher]]
register_device(d, c, answered) ==
    /\ joining[d] = {c} /\ joining' = [joining EXCEPT ![d] = {}]
    /\ \/ /\ claims(c)
          /\ invite' = [invite EXCEPT ![c].used = TRUE]
          /\ gear' = [gear EXCEPT ![d] = [@ EXCEPT !.live = TRUE, !.code = c, !.key = CardCipher]]
          /\ edgeFile' = IF answered THEN saved_answer(d) ELSE edgeFile
       \/ ~ claims(c) /\ ~ answered /\ UNCHANGED <<invite, gear, edgeFile>>
    /\ Quietly /\ UNCHANGED <<channels, events>>

is_registered(d) == edgeFile[d].approved
find_device_by_auth_token(d) == gear[d].live /\ ~ gear[d].deleted
device_command_key(d) == gear[d].key


\* A transport's first words, and every heartbeat and report after them; a deleted row is left alone.
handle_heartbeat(row) == IF row.live /\ ~ row.deleted THEN [row EXCEPT !.seen = TRUE] ELSE row
handle_device_data(row) == IF row.live /\ ~ row.deleted THEN [row EXCEPT !.facts = TRUE] ELSE row
Greets(d) == gear' = [gear EXCEPT ![d] = handle_device_data(handle_heartbeat(@))] /\ UNCHANGED <<invite, joining, edgeFile>>

-----------------------------------------------------------------------------
(* The edge process: it starts on one transport.  Over MQTT it connects and *)
(* subscribes then and there, or does not start.                            *)

subscribe_to_commands(d) == [link EXCEPT ![d] = [up |-> TRUE, hears |-> TRUE]]
EdgeStarts(d) ==
    /\ is_registered(d) /\ process[d] = "off"
    /\ \/ /\ edgeFile[d].transport = "mqtt" /\ edgeFile[d].broker /\ find_device_by_auth_token(d)
          /\ link' = subscribe_to_commands(d) /\ IF link[Server].hears THEN Greets(d) ELSE UNCHANGED registered
       \/ edgeFile[d].transport = "websocket" /\ UNCHANGED <<link, registered>>
    /\ process' = [process EXCEPT ![d] = "up"]
    /\ Quietly /\ UNCHANGED <<sockets, registry, nextEpoch, events>>

\* MQTT: a clean session, so a lost connection takes the subscriptions with it; the library reconnects by itself.
Outage == outages < MaxOutages /\ outages' = outages + 1 /\ UNCHANGED <<deviceSteps, deviceHour>>
BrokerDrops(x) ==
    /\ Outage /\ link[x].up /\ link' = [link EXCEPT ![x] = [up |-> FALSE, hears |-> FALSE]]
    /\ UNCHANGED <<registered, process, sockets, registry, nextEpoch, events>>
Reconnects(x) ==
    /\ ~ link[x].up /\ (x # Server => process[x] = "up" /\ edgeFile[x].transport = "mqtt")
    /\ link' = [link EXCEPT ![x].up = TRUE]
    /\ Quietly /\ UNCHANGED <<registered, process, sockets, registry, nextEpoch, events>>
subscribe_all == link[Server].up /\ link' = [link EXCEPT ![Server].hears = TRUE]
ServerResubscribes ==
    /\ ~ link[Server].hears /\ subscribe_all
    /\ Quietly /\ UNCHANGED <<registered, process, sockets, registry, nextEpoch, events>>

-----------------------------------------------------------------------------
(* The WebSocket: each end learns of a break in its own time. *)

Becomes(s, t) == sockets' = {x \in (sockets \ {s}) \cup {t} : x.held \/ x.served}
HeldBy(d) == {s \in sockets : s.of = d /\ s.held}

register(d) == registry' = [registry EXCEPT ![d] = {nextEpoch}] /\ nextEpoch' = nextEpoch + 1
connect_once(d) ==
    /\ process[d] = "up" /\ edgeFile[d].transport = "websocket" /\ HeldBy(d) = {} /\ find_device_by_auth_token(d)
    /\ register(d) /\ sockets' = sockets \cup {[of |-> d, epoch |-> nextEpoch, held |-> TRUE, served |-> TRUE, wire |-> TRUE]}
    /\ Greets(d) /\ Quietly /\ UNCHANGED <<process, link, events>>
WireBreaks(s) ==
    /\ Outage /\ s.wire /\ Becomes(s, [s EXCEPT !.wire = FALSE])
    /\ UNCHANGED <<registered, process, registry, nextEpoch, link, events>>
EdgeNotices(s) ==
    /\ s.held /\ ~ s.wire /\ Becomes(s, [s EXCEPT !.held = FALSE])
    /\ Quietly /\ UNCHANGED <<registered, process, registry, nextEpoch, link, events>>

AnyEpoch(d, epoch) == registry' = [registry EXCEPT ![d] = {}]
unregister(d, epoch) == registry' = [registry EXCEPT ![d] = @ \ {epoch}]
ServerNotices(s) ==
    /\ s.served /\ ~ (s.wire /\ s.held) /\ Becomes(s, [s EXCEPT !.served = FALSE]) /\ unregister(s.of, s.epoch)
    /\ Quietly /\ UNCHANGED <<registered, process, nextEpoch, link, events>>

\* The task panics, whatever it was doing, and takes its end of the socket with it; its supervisor restarts it.
SocketTaskPanics(d) ==
    /\ Outage /\ process[d] = "up" /\ edgeFile[d].transport = "websocket" /\ process' = [process EXCEPT ![d] = "panicked"]
    /\ sockets' = {s \in {[x EXCEPT !.held = x.held /\ x.of # d] : x \in sockets} : s.held \/ s.served}
    /\ UNCHANGED <<registered, registry, nextEpoch, link, events>>
StopOnPanic(outcome) == IF outcome = "panicked" THEN "Stop" ELSE "Restart"
verdict(outcome) == IF outcome \in {"returned", "panicked"} THEN "Restart" ELSE "Stop"
supervise(d) ==
    /\ process[d] = "panicked" /\ verdict("panicked") = "Restart" /\ process' = [process EXCEPT ![d] = "up"]
    /\ Quietly /\ UNCHANGED <<registered, sockets, registry, nextEpoch, link, events>>

-----------------------------------------------------------------------------
(* Door scans, and the server's handling of them. *)

report_door_event(d, granted) ==
    /\ scanned < MaxScans /\ scanned' = scanned + 1 /\ process[d] # "off"
    /\ scans' = [scans EXCEPT ![d] = Append(@, [id |-> scanned, granted |-> granted, signed |-> edgeFile[d].key])]
    /\ Quietly /\ UNCHANGED <<registered, channels, accessLog, room, opened>>

open_session_from_scan(granted) == room' = (room \/ granted)
end_resource_session ==
    /\ DeviceStep /\ room /\ room' = FALSE /\ UNCHANGED <<registered, channels, scans, accessLog, opened, scanned>>
handle_doors_event(d, scan) ==
    \/ /\ device_command_key(d) => scan.signed
       /\ accessLog' = Append(accessLog, [of |-> d, id |-> scan.id]) /\ open_session_from_scan(scan.granted)
    \/ device_command_key(d) /\ ~ scan.signed /\ UNCHANGED <<accessLog, room>>

\* Taken from the queue and written; what is written to a broken wire, or published while either side is off
\* the broker, is gone.
SendsOverSocket(d) ==
    /\ scans[d] # <<>> /\ process[d] = "up"
    /\ \E s \in HeldBy(d) :
           \/ s.wire /\ handle_doors_event(d, Head(scans[d]))
           \/ ~ s.wire /\ UNCHANGED <<accessLog, room>>
    /\ scans' = [scans EXCEPT ![d] = Tail(@)] /\ Quietly /\ UNCHANGED <<registered, channels, opened, scanned>>
publish_doors_event(d) ==
    /\ scans[d] # <<>> /\ process[d] = "up" /\ edgeFile[d].transport = "mqtt"
    /\ IF link[d].up /\ link[Server].hears THEN handle_doors_event(d, Head(scans[d])) ELSE UNCHANGED <<accessLog, room>>
    /\ scans' = [scans EXCEPT ![d] = Tail(@)] /\ Quietly /\ UNCHANGED <<registered, channels, opened, scanned>>

-----------------------------------------------------------------------------
(* A push: into the socket the registry names, working or not, and only without one over MQTT.  The edge *)
(* drops an unlock that it can check and that is not signed.                                             *)

try_send(d) == registry[d] # {}
push_reaches(d) ==
    \/ try_send(d) /\ \E s \in HeldBy(d) : s.wire /\ registry[d] = {s.epoch}
    \/ ~ try_send(d) /\ link[Server].up /\ link[d].hears
edge_accepts(d) == edgeFile[d].key => device_command_key(d)
unlock(d) ==
    /\ DeviceStep /\ opened' = IF push_reaches(d) /\ edge_accepts(d) THEN opened \cup {d} ELSE opened
    /\ UNCHANGED <<registered, channels, scans, accessLog, room, scanned>>

DeviceHourPasses ==
    /\ deviceHour < MaxDeviceHour /\ deviceHour' = deviceHour + 1
    /\ UNCHANGED <<registered, channels, events, deviceSteps, outages>>

DevicesNext ==
    \/ \E c \in Invitations : create_device_invite(c) \/ \E d \in Kit : RegisterReads(d, c) \/
                              \E answered \in BOOLEAN : register_device(d, c, answered)
    \/ \E c \in list_device_invites : expire_device_invite(c)
    \/ \E d \in list_devices : delete_device(d) \/ unlock(d) \/ \E name \in Names : rename_device(d, name)
    \/ \E x \in Kit \cup {Server} : BrokerDrops(x) \/ Reconnects(x)
    \/ ServerResubscribes \/ end_resource_session \/ DeviceHourPasses
    \/ \E d \in Kit : EdgeStarts(d) \/ connect_once(d) \/ SocketTaskPanics(d) \/ supervise(d)
                       \/ SendsOverSocket(d) \/ publish_doors_event(d)
                       \/ \E granted \in BOOLEAN : report_door_event(d, granted)
    \/ \E s \in sockets : WireBreaks(s) \/ EdgeNotices(s) \/ ServerNotices(s)

\* Loops of the two programs, and of the MQTT library under them; a socket's keep-alive finds out a broken wire.
DevicesFairness ==
    /\ WF_deviceVars(ServerResubscribes) /\ WF_deviceVars(Reconnects(Server))
    /\ \A d \in Kit : WF_deviceVars(connect_once(d)) /\ WF_deviceVars(supervise(d)) /\ WF_deviceVars(Reconnects(d))
                       /\ WF_deviceVars(SendsOverSocket(d)) /\ WF_deviceVars(\E s \in HeldBy(d) : EdgeNotices(s))
DevicesSpec == DevicesInit /\ [][DevicesNext]_deviceVars /\ DevicesFairness

-----------------------------------------------------------------------------
(* Properties. *)

\* A device code makes one device, though two registrations may both have found it unused.
CodeMakesOneDevice == \A d, e \in Kit : gear[d].live /\ gear[e].live /\ d # e => gear[d].code # gear[e].code

\* Whatever the order in which the ends of older sockets are noticed, the server can push over a working one.
WorkingSocketIsRegistered == \A s \in sockets : s.held /\ s.wire => registry[s.of] = {s.epoch}

\* The server tells its devices, and the sockets of one device, apart while registrations and connections overlap.
DeviceRegistryHolds == CodeMakesOneDevice /\ WorkingSocketIsRegistered

\* After the last outage the server is subscribed again.
ServerHearsAgain == <>[](link[Server].hears)

\* After the last outage, and the last panic of the socket task, a registered edge is connected and has sent
\* every scan it held.
EdgeComesBack == <>[](\A d \in Kit : process[d] # "off" /\ edgeFile[d].transport = "websocket" /\ ~ gear[d].deleted =>
                          gear[d].seen /\ scans[d] = <<>> /\ \E s \in sockets : s.of = d /\ s.held /\ s.wire)

\* After the last outage a running edge on MQTT hears the server again.
EdgeHearsAgain == <>[](\A d \in Kit : process[d] = "up" /\ edgeFile[d].transport = "mqtt" => link[d].hears)
=============================================================================
