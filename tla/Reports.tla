------------------------------- MODULE Reports -------------------------------
(***************************************************************************)
(* Who may report for whom (api/toolguard.rs, edge/mqtt.rs): a device with *)
(* a token speaks for itself, and an edge relays what the modules on its   *)
(* local broker say.  Alive pulses and power reports both write a device's *)
(* last_seen_at, which the silence detector of Bypass.tla reads.           *)
(***************************************************************************)
EXTENDS Integers, FiniteSets

CONSTANTS
    Units,          \* registered devices
    Benches,        \* tools
    EdgeOf,         \* the edge each unit behind one speaks to
    MaxBindSteps    \* bound on an administrator's changes

VARIABLES
    wired,      \* device_bindings: <<device, tool, role>>
    retired,    \* devices with deleted_at set
    fresh,      \* units whose last_seen_at is within the silence threshold
    bindSteps

reportVars == <<wired, retired, fresh, bindSteps>>

ASSUME ReportsAssumption == DOMAIN EdgeOf \subseteq Units

BindingRoles == {"reader", "power", "sensor", "edge", "strike"}

\* A bearer token names a device that is not deleted.
extract_device_auth(d) == d \notin retired

device_bound(d, t) == \E r \in BindingRoles : <<d, t, r>> \in wired
device_is_bound_to_tool_in_role(d, t, r) == <<d, t, r>> \in wired
PowerOnly(e, d) ==
    \E t \in Benches : <<e, t, "edge">> \in wired /\ <<d, t, "power">> \in wired
\* The edge coordinates a tool on which the device holds a binding, in any role.
device_coordinates_device(e, d) ==
    \E t \in Benches : <<e, t, "edge">> \in wired /\ device_bound(d, t)

\* A tool's operations are for the devices bound to it.
authorize_toolguard(d, t) == extract_device_auth(d) /\ device_bound(d, t)
authorize_alive(caller, subject) ==
    /\ extract_device_auth(caller)
    /\ subject = caller \/ device_coordinates_device(caller, subject)
\* The direct rule first, which any binding satisfies; what it refuses may
\* still be a relay by the tool's coordinator for one of its power modules.
authorize_power_report(caller, t, subject) ==
    \/ authorize_toolguard(caller, t)
    \/ /\ extract_device_auth(caller)
       /\ device_is_bound_to_tool_in_role(caller, t, "edge")
       /\ device_is_bound_to_tool_in_role(subject, t, "power")

\* The subject is heard from, if it still exists.
touch(subject) ==
    /\ subject \notin retired
    /\ fresh' = fresh \cup {subject}
    /\ UNCHANGED <<wired, retired, bindSteps>>

\* POST /alive, by the device or forwarded by its edge.
alive(caller, subject) == authorize_alive(caller, subject) /\ touch(subject)
handle_alive(d) == d \in DOMAIN EdgeOf /\ alive(EdgeOf[d], d)

\* POST /power-report: besides the reading, which Power.tla follows, the device
\* the body names is credited.
power_report_credits(caller, t, subject) ==
    /\ authorize_power_report(caller, t, subject)
    /\ touch(subject)

\* The silence threshold passes with nothing heard.
FallsSilent(d) ==
    /\ d \in fresh /\ fresh' = fresh \ {d}
    /\ UNCHANGED <<wired, retired, bindSteps>>

Administers == bindSteps < MaxBindSteps /\ bindSteps' = bindSteps + 1
                /\ UNCHANGED fresh
BindUnit(d, t, r) ==
    /\ d \notin retired /\ <<d, t, r>> \notin wired
    /\ wired' = wired \cup {<<d, t, r>>}
    /\ Administers /\ UNCHANGED retired
UnbindUnit(b) == b \in wired /\ wired' = wired \ {b} /\ Administers /\ UNCHANGED retired
RetireUnit(d) ==
    /\ d \notin retired /\ retired' = retired \cup {d}
    /\ Administers /\ UNCHANGED wired

ReportsInit ==
    /\ wired = {} /\ retired = {} /\ fresh = {} /\ bindSteps = 0

ReportsNext ==
    \/ \E d \in Units, s \in Units : alive(d, s)
    \/ \E d \in DOMAIN EdgeOf : handle_alive(d)
    \/ \E d \in Units, t \in Benches, s \in Units : power_report_credits(d, t, s)
    \/ \E d \in Units : FallsSilent(d) \/ RetireUnit(d)
    \/ \E d \in Units, t \in Benches, r \in BindingRoles : BindUnit(d, t, r)
    \/ \E b \in wired : UnbindUnit(b)

\* A module pulses about once a second and its edge forwards every pulse.
ReportsFairness == \A d \in DOMAIN EdgeOf : WF_reportVars(handle_alive(d))

ReportsSpec == ReportsInit /\ [][ReportsNext]_reportVars /\ ReportsFairness

\* A module that speaks only to an edge, in whatever role it is wired, is heard
\* at the server again and again once the edge coordinates its tool: its
\* silence can be told from its never having been heard.
ModulesBehindAnEdgeAreHeard ==
    \A d \in DOMAIN EdgeOf :
        <>[](/\ {d, EdgeOf[d]} \cap retired = {}
             /\ \E t \in Benches, r \in BindingRoles :
                   <<EdgeOf[d], t, "edge">> \in wired /\ <<d, t, r>> \in wired)
            => []<>(d \in fresh)
=============================================================================
