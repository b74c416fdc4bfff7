--------------------------- MODULE LeaseDelivery ---------------------------
(***************************************************************************)
(* The lease engine with what it drives: the power modules on the local    *)
(* broker.  The watchdog loop publishes what a pass decided, unretained    *)
(* and without retry (edge/src/main.rs, mqtt.rs: publish_tool_lease); each *)
(* module keeps its relay closed for the TTL after a grant arrives and     *)
(* opens it on a refusal (FIRMWARE.md, "Authorization is a lease, not a    *)
(* command"); its power reports come back through handle_power.  Messages  *)
(* may be lost or late, and the edge may restart with empty hands.         *)
(***************************************************************************)
EXTENDS LeaseEngine

CONSTANTS
    Period,       \* longest time between two watchdog passes
    MaxDelay,     \* longest time a lease message is on its way
    ReportDelay,  \* longest time a power report is on its way
    WireCap       \* bound on lease messages on their way to one module

ASSUME DeliveryAssumption ==
    /\ Period \in Nat /\ MaxDelay \in Nat /\ ReportDelay \in Nat /\ WireCap \in Nat
    \* Each device holds one binding, so a pass has one message for it.
    /\ \A s \in Snapshots : \A t, u \in DOMAIN s :
          \A b \in s[t].modules, c \in s[u].modules :
              b.device = c.device => t = u /\ b = c

VARIABLES
    wire,       \* device -> lease messages on their way, in order
    until,      \* device -> when its own lease timer runs out
    reports,    \* power reports on their way
    last_tick,  \* when the last pass began
    last_ok,    \* history: when the engine last had every reason to allow
    last_on     \* history: device -> when its relay was last closed

deliveryVars == <<engineVars, wire, until, reports, last_tick, last_ok, last_on>>

relay_on(d) == until[d] # None /\ now < until[d]

\* History is kept by every step.
Witness ==
    /\ last_ok' = [t \in Tools |->
          IF (t \in Wired /\ evaluate(t, now) = Allow)' THEN now' ELSE last_ok[t]]
    /\ last_on' = [d \in Devices |-> IF relay_on(d)' THEN now' ELSE last_on[d]]

\* A pass begins, on the loop's own clock.
Begin ==
    /\ TickBegin
    /\ last_tick' = now
    /\ UNCHANGED <<wire, until, reports>>

Work ==
    /\ \/ \E t \in Tools : Evaluate(t)
       \/ Renew \/ TickUnwired \/ TickAllow \/ TickDeny
    /\ UNCHANGED <<wire, until, reports, last_tick>>

\* What the pass decided goes out, one message per binding.
Publish ==
    /\ TickEnd
    /\ \A d \in Devices : Len(wire[d]) < WireCap
    /\ wire' = [d \in Devices |->
          IF \E a \in pass.out : a.device = d
          THEN LET a == CHOOSE m \in pass.out : m.device = d
               IN Append(wire[d], [grant |-> a.grant, sent |-> now])
          ELSE wire[d]]
    /\ UNCHANGED <<until, reports, last_tick>>

\* A module takes the next message: a grant restarts its timer, a refusal
\* opens its relay.
LeaseArrives(d) ==
    /\ wire[d] # <<>>
    /\ wire' = [wire EXCEPT ![d] = Tail(@)]
    /\ until' = [until EXCEPT ![d] = IF Head(wire[d]).grant THEN now + Ttl ELSE None]
    /\ UNCHANGED <<engineVars, reports, last_tick>>

LeaseLost(d) ==
    /\ wire[d] # <<>>
    /\ wire' = [wire EXCEPT ![d] = Tail(@)]
    /\ UNCHANGED <<engineVars, until, reports, last_tick>>

\* A module reports its relay, one report at a time; handle_power credits its
\* bindings and notes it as of its arrival.
ReportSent(d) ==
    /\ \A r \in reports : r.device # d
    /\ reports' = reports \cup {[device |-> d, on |-> relay_on(d), sent |-> now]}
    /\ UNCHANGED <<engineVars, wire, until, last_tick>>

HandlePower(r) ==
    /\ reports' = reports \ {r}
    /\ module_seen' = credited(r.device)
    /\ relay_state' = [relay_state EXCEPT ![r.device] = [on |-> r.on, at |-> now]]
    /\ UNCHANGED <<now, snapshot, sessionVars, readings, latched, leases, allowed_since,
                   granted_since, run_on_until, pass, wire, until, last_tick>>

\* The edge process restarts: everything it held is gone, what the broker and
\* the modules hold is not.
Restart ==
    /\ snapshot # NoSnapshot
    /\ pass' = Idle
    /\ snapshot' = NoSnapshot
    /\ readings' = [t \in Tools |-> [c \in Conditions |-> Unread]]
    /\ latched' = {} /\ synced_in_use' = {}
    /\ leases' = [t \in Tools |-> None] /\ allowed_since' = [t \in Tools |-> None]
    /\ module_seen' = [b \in Bindings |-> None]
    /\ local_sessions' = [k \in Names |-> NoSession]
    /\ local_stops' = [k \in Names |-> None] /\ claimed' = [k \in Names |-> None]
    /\ relay_state' = [d \in Devices |-> NoReport]
    /\ granted_since' = [b \in Bindings |-> None]
    /\ run_on_until' = [b \in Bindings |-> None]
    /\ UNCHANGED <<now, wire, until, reports, last_tick>>

\* Sessions and wiring come and go: a sync, or a snapshot.
Policy ==
    /\ \/ \E ids \in SUBSET Tools : ReconcileSessions(Tools, ids, 0)
       \/ \E s \in Snapshots \ {snapshot} : ApplyState(s, {}, 0)
    /\ UNCHANGED <<wire, until, reports, last_tick>>

\* Time passes: a pass is in-memory work and takes none of it, the loop runs at
\* least every Period, and nothing stays on its way longer than its bound.
Elapse ==
    /\ Advance
    /\ pass.pc = "idle"
    /\ Wired # {} => now - last_tick < Period
    /\ \A d \in Devices : \A i \in 1 .. Len(wire[d]) : now - wire[d][i].sent < MaxDelay
    /\ \A r \in reports : now - r.sent < ReportDelay
    /\ UNCHANGED <<wire, until, reports, last_tick>>

DeliveryInit ==
    /\ EngineInit
    /\ wire = [d \in Devices |-> <<>>]
    /\ until = [d \in Devices |-> None]
    /\ reports = {}
    /\ last_tick = 0
    /\ last_ok = [t \in Tools |-> None]
    /\ last_on = [d \in Devices |-> None]

DeliveryNext ==
    /\ \/ Begin \/ Work \/ Publish
       \/ \E d \in Devices : LeaseArrives(d) \/ LeaseLost(d) \/ ReportSent(d)
       \/ \E r \in reports : HandlePower(r)
       \/ Restart \/ Policy \/ Elapse
    /\ Witness

DeliverySpec == DeliveryInit /\ [][DeliveryNext]_deliveryVars

-----------------------------------------------------------------------------
LongestRunOn == CHOOSE n \in UNION {{b.run_on : b \in UNION {s[t].modules : t \in DOMAIN s}} :
                                      s \in Snapshots} :
                   \A s \in Snapshots : \A t \in DOMAIN s : \A b \in s[t].modules : b.run_on <= n

\* The dead man's switch: a relay is never closed longer than one period, one
\* run-on, one delivery and one TTL after the engine last had reason to allow
\* its tool -- whatever is lost or late and wherever the edge restarts
\* ("none of them can leave a tool energized on a stale promise").
NeverOnAStalePromise ==
    \A s \in Snapshots : \A t \in DOMAIN s : \A b \in s[t].modules :
        b.role = "power" /\ relay_on(b.device) =>
            /\ last_ok[t] # None
            /\ now - last_ok[t] <= Period + LongestRunOn + MaxDelay + Ttl

\* A later stage is offered a lease only when every relay of a lower stage has
\* been closed at some moment of the present allow ("a report from before the
\* allow is the previous run's, not this one's").
StageBehindEnergized ==
    pass.pc = "publish" =>
        \A a \in pass.out : a.grant /\ a.tool \in Wired /\ allowed_since[a.tool] # None =>
            \A b, e \in OfRole(a.tool, "power") :
                b.device = a.device /\ e.start_stage < b.start_stage =>
                    last_on[e.device] >= allowed_since[a.tool]
=============================================================================
