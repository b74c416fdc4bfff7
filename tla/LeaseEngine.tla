---------------------------- MODULE LeaseEngine ----------------------------
(***************************************************************************)
(* The edge coordinator's interlock and lease engine: `ModuleState` of     *)
(* edge/src/modules.rs.  The variables are the fields of its `Inner`; the  *)
(* actions are its methods, each one critical section of the `RwLock`.     *)
(* A watchdog pass (`tick`) takes the lock three times for each tool --    *)
(* `evaluate`, the write half of `renew`, the per-binding half of `tick` --*)
(* so each pass is three steps per tool and every other method may run in  *)
(* between.  Callers are left open here: any method may be called at any   *)
(* moment with any argument.  SessionSync and LeaseDelivery close the      *)
(* system with the server, the network and the power modules.              *)
(*                                                                         *)
(* A `HashMap` is a total function whose absent entries hold None; times   *)
(* are ticks of the edge's clock.                                          *)
(***************************************************************************)
EXTENDS Integers, Sequences, FiniteSets

CONSTANTS
    Tools,          \* resource UUIDs, the keys of the wiring snapshot
    ExternalIds,    \* the short names an administrator may give a resource
    Bindings,       \* ids of device bindings
    Devices,        \* the devices those bindings address
    Conditions,     \* interlock conditions, by their wire names
    Snapshots,      \* the wiring snapshots the server may send
    NoSnapshot,     \* no snapshot has arrived yet
    Ttl,            \* module_lease_ttl
    ModuleTimeout,  \* module_offline
    Grace,          \* local_session_grace
    Pulse,          \* how long a momentary resource's session lasts
    MaxTime         \* bound on the clock

None == -1
Time == 0 .. MaxTime

\* A binding of a device to a resource, an interlock rule, and one resource's
\* wiring.  Names, notes and `reset`/`enforcement` labels play no part in a
\* decision and are left out; `room` is a door whose profile is until_stopped.
Binding == [id: Bindings, device: Devices,
            role: {"power", "sensor", "edge", "reader", "strike"},
            fail_off: BOOLEAN, start_stage: Nat, start_delay: Nat, run_on: Nat]
Rule == [kind: {"trip", "start_gate"}, condition: Conditions,
         latch: BOOLEAN, debounce: Nat]
Wiring == [external_id: ExternalIds, room: BOOLEAN,
           modules: SUBSET Binding, interlocks: Seq(Rule)]

ASSUME EngineAssumption ==
    /\ Ttl \in Nat \ {0} /\ ModuleTimeout \in Nat /\ Grace \in Nat
    /\ Pulse \in Nat /\ MaxTime \in Nat
    /\ NoSnapshot \notin Snapshots
    /\ \A s \in Snapshots : /\ DOMAIN s \subseteq Tools
                            /\ \A t \in DOMAIN s : s[t] \in Wiring
    /\ Tools \cap ExternalIds = {}

\* What a request may call a resource; sessions and stops are keyed by the
\* UUID when the snapshot resolves the name and by the name itself otherwise.
Names == Tools \cup ExternalIds

VARIABLES
    now,             \* the edge's clock
    snapshot,        \* latest wiring snapshot, or NoSnapshot
    readings,        \* [tool][condition] -> latest reading and when it changed
    latched,         \* tools with a latched trip
    leases,          \* tool -> when its power lease expires
    module_seen,     \* binding -> when it was last heard from
    local_sessions,  \* key -> the session this edge opened
    synced_in_use,   \* keys the server's last sync said are in use
    local_stops,     \* key -> when this edge last ended a session
    allowed_since,   \* tool -> when its decision last turned Allow
    relay_state,     \* device -> the relay state it last reported, and when
    granted_since,   \* binding -> when first granted in the present allow
    run_on_until,    \* binding -> leased until, after a denial
    pass,            \* the watchdog task: where it is and what it has decided
    claimed          \* history: key -> as_of of the sync that claims it in use

sessionVars == <<local_sessions, synced_in_use, local_stops, claimed>>
interlockVars == <<readings, latched, module_seen>>
leaseVars == <<leases, allowed_since, relay_state, granted_since, run_on_until>>
engineVars == <<now, snapshot, sessionVars, interlockVars, leaseVars, pass>>

NoSession == [opened |-> None, ends_at |-> None]
Unread == [asserted |-> FALSE, since |-> None]
NoReport == [on |-> FALSE, at |-> None]
NoCondition == "none"
Allow == [denial |-> "Allow", condition |-> NoCondition]
Deny(d) == [denial |-> d, condition |-> NoCondition]
DenyFor(d, c) == [denial |-> d, condition |-> c]
Idle == [pc |-> "idle", at |-> None, todo |-> {}, tool |-> None,
         decision |-> Allow, out |-> {}]

TimeOrNone == Time \cup {None}
Decision == [denial: {"Allow", "Unknown", "Latched", "ModuleOffline", "Unobserved",
                      "Tripped", "Gate", "NotInUse"},
             condition: Conditions \cup {NoCondition}]
LeaseAction == [tool: Tools, device: Devices, grant: BOOLEAN]

-----------------------------------------------------------------------------
(* Names, sessions and readings, as the decision reads them *)

Wired == IF snapshot = NoSnapshot THEN {} ELSE DOMAIN snapshot

\* The snapshot's key for a resource named either way, or the name itself.
tool_key(name) ==
    IF name \in Wired \/ ~ \E t \in Wired : snapshot[t].external_id = name
    THEN name
    ELSE CHOOSE t \in Wired : snapshot[t].external_id = name

in_use(key, at) ==
    \/ key \in synced_in_use
    \/ /\ local_sessions[key] # NoSession
       /\ local_sessions[key].ends_at = None \/ at < local_sessions[key].ends_at

is_hazard(condition) == condition \notin {"flow_ok", "authorized"}

observed(tool, rule) == readings[tool][rule.condition] # Unread

\* A reading younger than the rule's debounce counts as its opposite.
satisfied(tool, rule, at) ==
    LET reading == readings[tool][rule.condition]
        settled == at - reading.since >= rule.debounce
        effective == IF settled THEN reading.asserted ELSE ~reading.asserted
    IN IF is_hazard(rule.condition) THEN ~effective ELSE effective

offline_fail_off(tool, at) ==
    \E m \in snapshot[tool].modules :
        /\ m.role # "edge"
        /\ m.fail_off
        /\ module_seen[m.id] = None \/ at - module_seen[m.id] > ModuleTimeout

\* The first rule, in the snapshot's order, that is not satisfied; 0 if none.
first_failing(tool, at) ==
    LET rules == snapshot[tool].interlocks
        fails(i) == ~(observed(tool, rules[i]) /\ satisfied(tool, rules[i], at))
    IN IF \E i \in 1 .. Len(rules) : fails(i)
       THEN CHOOSE i \in 1 .. Len(rules) :
                fails(i) /\ \A j \in 1 .. (i - 1) : ~fails(j)
       ELSE 0

\* The decision one unsatisfied rule leads to.
rule_denial(tool, rule) ==
    IF ~observed(tool, rule) THEN DenyFor("Unobserved", rule.condition)
    ELSE IF rule.kind = "trip" THEN DenyFor("Tripped", rule.condition)
    ELSE DenyFor("Gate", rule.condition)

latch_holds(tool) == tool \in latched

evaluate(tool, at) ==
    CASE snapshot = NoSnapshot -> Deny("Unknown")
      [] snapshot # NoSnapshot /\ tool \notin Wired -> Allow
      [] tool \in Wired ->
           LET i == first_failing(tool, at)
           IN IF latch_holds(tool) THEN Deny("Latched")
              ELSE IF offline_fail_off(tool, at) THEN Deny("ModuleOffline")
              ELSE IF i # 0 THEN rule_denial(tool, snapshot[tool].interlocks[i])
              ELSE IF ~in_use(tool, at) THEN Deny("NotInUse")
              ELSE Allow

-----------------------------------------------------------------------------
(* Sessions *)

\* `opened` is when the scan that led here began; `ends` is the end of the
\* strike's pulse for a momentary resource and None otherwise.
OpenSession(name, opened, ends) ==
    LET key == tool_key(name)
    IN /\ local_stops' = [local_stops EXCEPT ![key] = None]
       /\ local_sessions' =
             [local_sessions EXCEPT ![key] = [opened |-> opened, ends_at |-> ends]]
       /\ UNCHANGED <<now, snapshot, synced_in_use, claimed, interlockVars,
                      leaseVars, pass>>

CloseSession(name) ==
    LET key == tool_key(name)
    IN /\ local_sessions' = [local_sessions EXCEPT ![key] = NoSession]
       /\ synced_in_use' = synced_in_use \ {key}
       /\ local_stops' = [local_stops EXCEPT ![key] = now]
       /\ UNCHANGED <<now, snapshot, claimed, interlockVars, leaseVars, pass>>

\* Stops older than the grace are forgotten.
remembered(stops) ==
    [k \in Names |-> IF stops[k] # None /\ now - stops[k] < Grace
                     THEN stops[k] ELSE None]

\* Deliberate fault: a sync is believed whatever was stopped after it was asked for.
BelievedWithoutStops(in_use_ids, as_of) == in_use_ids

\* What a sync may claim: not a resource stopped after it was asked for.
believed(in_use_ids, as_of) ==
    {k \in in_use_ids : ~(remembered(local_stops)[k] # None
                          /\ remembered(local_stops)[k] > as_of)}

\* Deliberate fault: a session the sync does not list is retired at any age.
SurvivesWithoutGrace(key, tracked, synced) ==
    LET session == local_sessions[key]
    IN /\ ~(session.ends_at # None /\ now >= session.ends_at)
       /\ key \notin tracked \/ key \in synced

\* A session survives a sync unless its pulse has ended, or the sync tracks
\* it, does not list it, and it is older than the grace.
survives(key, tracked, synced) ==
    LET session == local_sessions[key]
    IN /\ ~(session.ends_at # None /\ now >= session.ends_at)
       /\ key \notin tracked \/ key \in synced \/ now - session.opened < Grace

\* The write half shared by both sources of the server's view.  Both name
\* resources by their UUIDs, which tool_key leaves as they are.
reconcile_tracked(in_use_ids, tracked, as_of) ==
    LET synced == believed(in_use_ids, as_of)
    IN /\ local_stops' = remembered(local_stops)
       /\ local_sessions' =
             [k \in Names |-> IF local_sessions[k] # NoSession
                                 /\ survives(k, tracked, synced)
                              THEN local_sessions[k] ELSE NoSession]
       /\ synced_in_use' = (synced_in_use \ tracked) \cup synced
       /\ claimed' = [k \in Names |-> IF k \in synced THEN as_of ELSE claimed[k]]

\* An allow-list sync: it tracks every tool it names.
ReconcileSessions(tracked, in_use_ids, as_of) ==
    /\ reconcile_tracked(in_use_ids, tracked, as_of)
    /\ UNCHANGED <<now, snapshot, interlockVars, leaseVars, pass>>

Rooms(s) == {t \in DOMAIN s : s[t].room}

\* A wiring snapshot replaces the last one and reconciles the rooms it names;
\* latches, readings and leases are kept.
ApplyState(s, in_use_rooms, as_of) ==
    /\ snapshot' = s
    /\ reconcile_tracked(in_use_rooms, Rooms(s), as_of)
    /\ UNCHANGED <<now, interlockVars, leaseVars, pass>>

-----------------------------------------------------------------------------
(* Readings, liveness, latches *)

\* `since` moves only when the value changes.
Observe(tool, condition, asserted) ==
    LET prev == readings[tool][condition]
    IN /\ prev = Unread \/ prev.asserted # asserted
       /\ readings' = [readings EXCEPT ![tool][condition] =
                          [asserted |-> asserted, since |-> now]]
       /\ UNCHANGED <<now, snapshot, sessionVars, latched, module_seen,
                      leaseVars, pass>>

\* Deliberate fault: the stamp is when the device will count as silent.
CreditedUntil(device) ==
    LET held == {m \in UNION {snapshot[t].modules : t \in Wired} : m.device = device}
    IN [b \in Bindings |-> IF \E m \in held : m.id = b
                          THEN now + ModuleTimeout ELSE module_seen[b]]

\* A device is heard from: every binding it holds in the snapshot is credited.
credited(device) ==
    LET held == {m \in UNION {snapshot[t].modules : t \in Wired} : m.device = device}
    IN [b \in Bindings |-> IF \E m \in held : m.id = b THEN now ELSE module_seen[b]]

NoteDeviceSeen(device) ==
    /\ module_seen' = credited(device)
    /\ UNCHANGED <<now, snapshot, sessionVars, readings, latched, leaseVars, pass>>

NoteRelayState(device, on) ==
    /\ relay_state' = [relay_state EXCEPT ![device] = [on |-> on, at |-> now]]
    /\ UNCHANGED <<now, snapshot, sessionVars, interlockVars, leases,
                   allowed_since, granted_since, run_on_until, pass>>

ResetLatch(tool) ==
    /\ latched' = latched \ {tool}
    /\ UNCHANGED <<now, snapshot, sessionVars, readings, module_seen, leaseVars, pass>>

-----------------------------------------------------------------------------
(* The watchdog pass *)

TickBegin ==
    /\ pass.pc = "idle"
    /\ Wired # {}
    /\ pass' = [Idle EXCEPT !.pc = "evaluate", !.at = now, !.todo = Wired]
    /\ UNCHANGED <<now, snapshot, sessionVars, interlockVars, leaseVars>>

Evaluate(tool) ==
    /\ pass.pc = "evaluate"
    /\ tool \in pass.todo
    /\ pass' = [pass EXCEPT !.pc = "renew", !.tool = tool,
                            !.todo = @ \ {tool}, !.decision = evaluate(tool, pass.at)]
    /\ UNCHANGED <<now, snapshot, sessionVars, interlockVars, leaseVars>>

latches(tool, decision) ==
    /\ decision.denial = "Tripped"
    /\ tool \in Wired
    /\ \E i \in 1 .. Len(snapshot[tool].interlocks) :
          LET r == snapshot[tool].interlocks[i]
          IN r.kind = "trip" /\ r.condition = decision.condition /\ r.latch

\* Deliberate fault: a denial leaves the old lease to run out by itself.
LeaseLeftToExpire(tool, decision, at) ==
    IF decision = Allow THEN at + Ttl ELSE leases[tool]

lease_after(tool, decision, at) == IF decision = Allow THEN at + Ttl ELSE None

\* The write half of renew, on a decision taken under an earlier read lock.
Renew ==
    /\ pass.pc = "renew"
    /\ LET t == pass.tool
       IN /\ leases' = [leases EXCEPT ![t] = lease_after(t, pass.decision, pass.at)]
          /\ latched' = IF latches(t, pass.decision) THEN latched \cup {t} ELSE latched
    /\ pass' = [pass EXCEPT !.pc = "lease"]
    /\ UNCHANGED <<now, snapshot, sessionVars, readings, module_seen,
                   allowed_since, relay_state, granted_since, run_on_until>>

OfRole(tool, role) == {b \in snapshot[tool].modules : b.role = role}
Ids(bs) == {b.id : b \in bs}
Offer(tool, bs, grant) == {[tool |-> tool, device |-> b.device, grant |-> grant] : b \in bs}

\* Deliberate fault: any report of a closed relay confirms, however old.
ConfirmedEver(binding, since) == relay_state[binding.device].on

confirmed_on(binding, since) ==
    /\ relay_state[binding.device].on
    /\ relay_state[binding.device].at >= since

\* A binding is due once every lower stage has confirmed since the allow and
\* its own delay has passed since the last of those (or since the allow).
due(b, power, since, at) ==
    /\ at >= since + b.start_delay
    /\ \A e \in power : e.start_stage < b.start_stage =>
          /\ confirmed_on(e, since)
          /\ at >= relay_state[e.device].at + b.start_delay

\* What the rest of the pass does with one tool, and the step after it.
FinishTool(actions) ==
    pass' = [pass EXCEPT !.pc = IF pass.todo = {} THEN "publish" ELSE "evaluate",
                         !.out = @ \cup actions]

TickUnwired ==
    /\ pass.pc = "lease"
    /\ pass.tool \notin Wired
    /\ FinishTool({})
    /\ UNCHANGED <<now, snapshot, sessionVars, interlockVars, leaseVars>>

TickAllow ==
    LET t == pass.tool
        at == pass.at
        power == OfRole(t, "power")
        since == IF allowed_since[t] = None THEN at ELSE allowed_since[t]
        granted == {b \in power : due(b, power, since, at)}
    IN /\ pass.pc = "lease" /\ t \in Wired /\ pass.decision = Allow
       /\ allowed_since' = [allowed_since EXCEPT ![t] = since]
       /\ run_on_until' = [b \in Bindings |->
                              IF b \in Ids(power) THEN None ELSE run_on_until[b]]
       /\ granted_since' = [b \in Bindings |->
                              IF b \in Ids(granted) /\ granted_since[b] = None
                              THEN at ELSE granted_since[b]]
       /\ FinishTool(Offer(t, granted, TRUE) \cup Offer(t, OfRole(t, "sensor"), TRUE))
       /\ UNCHANGED <<now, snapshot, sessionVars, interlockVars, leases, relay_state>>

\* Deliberate fault: every denied pass starts the run-on afresh.
RunOnRestarted(tool, b) == b.run_on > 0 /\ granted_since[b.id] # None

\* Run-on starts in the pass in which an allow ends, for a binding it leased.
run_on_starts(tool, b) ==
    allowed_since[tool] # None /\ b.run_on > 0 /\ granted_since[b.id] # None

TickDeny ==
    LET t == pass.tool
        at == pass.at
        power == OfRole(t, "power")
        started == {b \in power : run_on_starts(t, b)}
        running == {b \in power : \/ b \in started
                                  \/ /\ run_on_until[b.id] # None
                                     /\ at < run_on_until[b.id]}
    IN /\ pass.pc = "lease" /\ t \in Wired /\ pass.decision # Allow
       /\ allowed_since' = [allowed_since EXCEPT ![t] = None]
       /\ run_on_until' = [b \in Bindings |->
              IF b \in Ids(started)
              THEN at + (CHOOSE m \in started : m.id = b).run_on
              ELSE IF b \in Ids(power \ running) THEN None ELSE run_on_until[b]]
       /\ granted_since' = [b \in Bindings |->
              IF b \in Ids(power \ running) THEN None ELSE granted_since[b]]
       /\ FinishTool(Offer(t, running, TRUE) \cup Offer(t, power \ running, FALSE)
                     \cup Offer(t, OfRole(t, "sensor"), FALSE))
       /\ UNCHANGED <<now, snapshot, sessionVars, interlockVars, leases, relay_state>>

\* The pass is over; its caller delivers `out`.
TickEnd ==
    /\ pass.pc = "publish"
    /\ pass' = Idle
    /\ UNCHANGED <<now, snapshot, sessionVars, interlockVars, leaseVars>>

Advance ==
    /\ now < MaxTime
    /\ now' = now + 1
    /\ UNCHANGED <<snapshot, sessionVars, interlockVars, leaseVars, pass>>

-----------------------------------------------------------------------------
EngineInit ==
    /\ now = 0
    /\ snapshot = NoSnapshot
    /\ readings = [t \in Tools |-> [c \in Conditions |-> Unread]]
    /\ latched = {}
    /\ leases = [t \in Tools |-> None]
    /\ module_seen = [b \in Bindings |-> None]
    /\ local_sessions = [k \in Names |-> NoSession]
    /\ synced_in_use = {}
    /\ local_stops = [k \in Names |-> None]
    /\ allowed_since = [t \in Tools |-> None]
    /\ relay_state = [d \in Devices |-> NoReport]
    /\ granted_since = [b \in Bindings |-> None]
    /\ run_on_until = [b \in Bindings |-> None]
    /\ pass = Idle
    /\ claimed = [k \in Names |-> None]

TickStep ==
    \/ TickBegin
    \/ \E t \in Tools : Evaluate(t)
    \/ Renew
    \/ TickUnwired
    \/ TickAllow
    \/ TickDeny

\* The methods outside tasks call: about sessions (scans, stops, the server's
\* syncs), about the machine (sensors, liveness, latch resets) and relay reports.
SessionCall ==
    \/ \E n \in Names, at \in 0 .. now, momentary \in BOOLEAN :
          OpenSession(n, at, IF momentary THEN at + Pulse ELSE None)
    \/ \E n \in Names : CloseSession(n)
    \/ \E tracked \in SUBSET Tools : \E ids \in SUBSET tracked, as_of \in 0 .. now :
          ReconcileSessions(tracked, ids, as_of)
    \/ \E s \in Snapshots : \E ids \in SUBSET Rooms(s), as_of \in 0 .. now :
          ApplyState(s, ids, as_of)

SensorCall ==
    \/ \E t \in Tools, c \in Conditions, v \in BOOLEAN : Observe(t, c, v)
    \/ \E d \in Devices : NoteDeviceSeen(d)
    \/ \E t \in Tools : ResetLatch(t)

RelayCall == \E d \in Devices, v \in BOOLEAN : NoteRelayState(d, v)

EngineNext == SessionCall \/ SensorCall \/ RelayCall \/ TickStep \/ TickEnd \/ Advance

EngineSpec == EngineInit /\ [][EngineNext]_engineVars

-----------------------------------------------------------------------------
(* Properties *)

\* The type of every field of `Inner` and of the watchdog's local state.
TypeOK ==
    /\ now \in Time
    /\ snapshot \in Snapshots \cup {NoSnapshot}
    /\ readings \in [Tools -> [Conditions -> [asserted: BOOLEAN, since: TimeOrNone]]]
    /\ latched \subseteq Tools
    /\ leases \in [Tools -> Int]
    /\ module_seen \in [Bindings -> TimeOrNone]
    /\ local_sessions \in [Names -> [opened: TimeOrNone, ends_at: Int]]
    /\ synced_in_use \subseteq Names
    /\ local_stops \in [Names -> TimeOrNone]
    /\ allowed_since \in [Tools -> TimeOrNone]
    /\ relay_state \in [Devices -> [on: BOOLEAN, at: TimeOrNone]]
    /\ granted_since \in [Bindings -> TimeOrNone]
    /\ run_on_until \in [Bindings -> Int]
    /\ pass \in [pc: {"idle", "evaluate", "renew", "lease", "publish"},
                 at: TimeOrNone, todo: SUBSET Tools, tool: Tools \cup {None},
                 decision: Decision, out: SUBSET LeaseAction]
    /\ claimed \in [Names -> TimeOrNone]

\* A resource this edge stopped is in use again, for as long as the stop is
\* remembered, only on the word of a sync asked for at or after the stop:
\* reconcile_sessions's promise that "a resource this edge stopped after
\* `as_of` is not in use whatever the sync says".
StopOutranksOlderSync ==
    \A k \in Names :
        local_stops[k] # None /\ in_use(k, now) =>
            k \in synced_in_use /\ claimed[k] >= local_stops[k]

\* A tool with a latched trip holds no lease: renew's decision, taken under an
\* earlier lock, never outlives the latch it should have seen.
LatchedNeverRenewed == \A t \in latched : leases[t] = None

\* ... and no pass is about to offer its modules a lease on an Allow ("a latched
\* trip denies until reset").
LatchedNeverGranted ==
    ~(/\ pass.pc = "lease" /\ pass.decision = Allow
      /\ pass.tool \in Wired /\ pass.tool \in latched)

\* The two together: what a latch promises between any two lock holds of a pass.
LatchedToolsAreOff == LatchedNeverRenewed /\ LatchedNeverGranted

\* Run-on starts when an allow ends and is never extended while the tool stays
\* denied, however many passes deny it and whatever arrives in between: a
\* machine that should spin down does stop.
RunOnNeverExtended ==
    [][\A t \in Wired : \A b \in OfRole(t, "power") :
          allowed_since[t] = None =>
              run_on_until'[b.id] \in {None, run_on_until[b.id]}]_engineVars
=============================================================================
