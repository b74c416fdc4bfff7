------------------------------- MODULE Bypass -------------------------------
(***************************************************************************)
(* The bypass service (server/src/bypass.rs, css_lib/src/bypass.rs): three *)
(* sweeps of one background task, which write to the audit log what they   *)
(* have not written there before: modules gone silent and back, unbound    *)
(* devices gone silent and back, and tools powered while the server has    *)
(* them idle.  What they remember is the log itself.                       *)
(*                                                                         *)
(* A sweep reads the tables and the log, then writes its rows; the tables  *)
(* may change in between.                                                  *)
(***************************************************************************)
EXTENDS Integers, Sequences

CONSTANTS
    Boxes, Modules,     \* devices; bindings of a device to a tool
    Machines,           \* tools with a power reading
    SilenceSecs, DebounceSecs,      \* module_silence_secs, unauthorized_power_debounce_secs
    MaxSweepClock, MaxBypassSteps   \* bounds

ASSUME BypassAssumption == SilenceSecs \in Nat /\ DebounceSecs \in Nat

VARIABLES
    box,        \* space_devices: [deleted, seen]
    bound,      \* device_bindings: module -> device, or NoBox
    machine,    \* tools.status = in_use, and tool_power_state: [inUse, relay, drawing, since]
    sweepLog,   \* audit_logs written by the sweeps
    sweeping,   \* rows a sweep has found and not yet written
    sweepClock, bypassSteps
bypassVars == <<box, bound, machine, sweepLog, sweeping, sweepClock, bypassSteps>>

NoBox == "none"
NeverSeen == -1

BypassInit ==
    /\ box = [d \in Boxes |-> [deleted |-> FALSE, seen |-> NeverSeen]]
    /\ bound = [m \in Modules |-> NoBox]
    /\ machine = [t \in Machines |-> [inUse |-> FALSE, relay |-> FALSE, drawing |-> FALSE, since |-> NeverSeen]]
    /\ sweepLog = <<>> /\ sweeping = {} /\ sweepClock = 0 /\ bypassSteps = 0

-----------------------------------------------------------------------------
(* What the sweeps read. *)

bound_modules_with_liveness == {m \in Modules : bound[m] # NoBox /\ ~ box[bound[m]].deleted}
unbound_devices_with_liveness == {d \in Boxes : ~ box[d].deleted /\ \A m \in Modules : bound[m] # d}

RowsOf(kind, key) == {i \in DOMAIN sweepLog : sweepLog[i].kind = kind /\ sweepLog[i].key = key}
LatestRow(kind, key) == {sweepLog[i] : i \in {j \in RowsOf(kind, key) : \A k \in RowsOf(kind, key) : k <= j}}
latest_module_liveness_records(m) == {r.says : r \in LatestRow("module", m)}
latest_device_isolation_records(d) == {r.says : r \in LatestRow("device", d)}
latest_unauthorized_power_reports(t) == {r.at : r \in LatestRow("power", t)}

-----------------------------------------------------------------------------
(* Decisions. *)

classify_liveness(seen, previously) ==
    LET silent == seen = NeverSeen \/ sweepClock - seen > SilenceSecs
    IN  CASE silent /\ ~ previously -> {"silent"} [] ~ silent /\ previously -> {"returned"} [] OTHER -> {}

is_unauthorized_power(t) ==
    /\ ~ machine[t].inUse /\ (machine[t].relay \/ machine[t].drawing)
    /\ (IF machine[t].since = NeverSeen THEN 0 ELSE sweepClock - machine[t].since) >= DebounceSecs
ReportedEver(t) == latest_unauthorized_power_reports(t) # {}
reported(t) ==
    \E at \in latest_unauthorized_power_reports(t) : machine[t].since = NeverSeen \/ at >= machine[t].since

Row(kind, key, says) == [kind |-> kind, key |-> key, says |-> says, at |-> sweepClock]
sweep_once == UNION {{Row("module", m, says) : says \in
    classify_liveness(box[bound[m]].seen, latest_module_liveness_records(m) = {"silent"})} : m \in bound_modules_with_liveness}
sweep_unbound_devices == UNION {{Row("device", d, says) : says \in
    classify_liveness(box[d].seen, latest_device_isolation_records(d) = {"silent"})} : d \in unbound_devices_with_liveness}
check_unauthorized_power ==
    {Row("power", t, machine[t].since) : t \in {v \in Machines : is_unauthorized_power(v) /\ ~ reported(v)}}

-----------------------------------------------------------------------------
(* The task, and what changes under it. *)

\* One of the three sweeps reads; the task does nothing else until its rows are written.
SweepReads(rows) ==
    /\ sweeping = {} /\ rows # {} /\ sweeping' = rows
    /\ UNCHANGED <<box, bound, machine, sweepLog, sweepClock, bypassSteps>>
write(r) ==
    /\ r \in sweeping /\ sweeping' = sweeping \ {r} /\ sweepLog' = Append(sweepLog, [r EXCEPT !.at = sweepClock])
    /\ UNCHANGED <<box, bound, machine, sweepClock, bypassSteps>>

BypassStep == bypassSteps < MaxBypassSteps /\ bypassSteps' = bypassSteps + 1 /\ UNCHANGED <<sweepLog, sweepClock>>
\* create_audit_log fails, and the sweep goes on without the row.
WriteFails(r) ==
    /\ BypassStep /\ r \in sweeping /\ sweeping' = sweeping \ {r} /\ UNCHANGED <<box, bound, machine>>
touch_device_last_seen(d) ==
    /\ BypassStep /\ ~ box[d].deleted /\ box' = [box EXCEPT ![d].seen = sweepClock] /\ UNCHANGED <<bound, machine, sweeping>>
DeviceDeleted(d) ==
    /\ BypassStep /\ ~ box[d].deleted /\ box' = [box EXCEPT ![d].deleted = TRUE] /\ UNCHANGED <<bound, machine, sweeping>>
Bind(m, d) ==
    /\ BypassStep /\ bound[m] # d /\ bound' = [bound EXCEPT ![m] = d] /\ UNCHANGED <<box, machine, sweeping>>

\* power_report: evidence of power lasts since the first report of it, and ends with the first without.
power_evidence_since(t, relay, drawing) ==
    IF ~ relay /\ ~ drawing THEN NeverSeen
    ELSE IF machine[t].since = NeverSeen THEN sweepClock ELSE machine[t].since
Reported(t, relay, drawing) ==
    /\ BypassStep
    /\ machine' = [machine EXCEPT ![t] = [@ EXCEPT !.relay = relay, !.drawing = drawing,
                                             !.since = power_evidence_since(t, relay, drawing)]]
    /\ UNCHANGED <<box, bound, sweeping>>
UsedOrLeft(t) ==
    /\ BypassStep /\ machine' = [machine EXCEPT ![t].inUse = ~ @] /\ UNCHANGED <<box, bound, sweeping>>

SweepClockGoes ==
    /\ sweepClock < MaxSweepClock /\ sweepClock' = sweepClock + 1
    /\ UNCHANGED <<box, bound, machine, sweepLog, sweeping, bypassSteps>>

BypassNext ==
    \/ SweepReads(sweep_once) \/ SweepReads(sweep_unbound_devices) \/ SweepReads(check_unauthorized_power)
    \/ \E r \in sweeping : write(r) \/ WriteFails(r)
    \/ \E d \in Boxes : touch_device_last_seen(d) \/ DeviceDeleted(d)
    \/ \E m \in Modules, d \in Boxes \cup {NoBox} : Bind(m, d)
    \/ \E t \in Machines : UsedOrLeft(t) \/ \E relay, drawing \in BOOLEAN : Reported(t, relay, drawing)
    \/ SweepClockGoes

\* The task sweeps on a timer, each of the three in every round.
BypassFairness ==
    /\ WF_bypassVars(SweepReads(sweep_once)) /\ WF_bypassVars(SweepReads(sweep_unbound_devices))
    /\ WF_bypassVars(SweepReads(check_unauthorized_power)) /\ WF_bypassVars(\E r \in sweeping : write(r))
BypassSpec == BypassInit /\ [][BypassNext]_bypassVars /\ BypassFairness

-----------------------------------------------------------------------------
(* Properties. *)

\* The log holds transitions, not levels: what a row says of a module or a device differs from what the row
\* before it said of the same one, over any interleaving of sweeps with reports, bindings and deletions.
LogHoldsTransitions == \A j \in DOMAIN sweepLog : sweepLog[j].kind # "power" =>
    LET earlier == {i \in RowsOf(sweepLog[j].kind, sweepLog[j].key) : i < j}
    IN  \A i \in earlier : (\A k \in earlier : k <= i) => sweepLog[i].says # sweepLog[j].says

\* A stretch of power without authorization makes one row, however many sweeps fall within it.
EpisodeReportedOnce == \A i, j \in DOMAIN sweepLog :
    i # j /\ sweepLog[i].kind = "power" /\ sweepLog[j].kind = "power" /\ sweepLog[i].key = sweepLog[j].key
        => sweepLog[i].says # sweepLog[j].says

\* When devices and members leave things alone the log comes to tell the truth about every module and device, and of
\* every tool powered without authorization for the debounce it has a row written since that stretch of power began: one
\* of an earlier stretch does not stand in for it, unless it was found then and written after the next began.
LogCatchesUp == <>[](
    /\ \A m \in bound_modules_with_liveness : latest_module_liveness_records(m) = {"silent"} <=>
           box[bound[m]].seen = NeverSeen \/ sweepClock - box[bound[m]].seen > SilenceSecs
    /\ \A d \in unbound_devices_with_liveness : latest_device_isolation_records(d) = {"silent"} <=>
           box[d].seen = NeverSeen \/ sweepClock - box[d].seen > SilenceSecs
    /\ \A t \in Machines :
           (machine[t].relay \/ machine[t].drawing) /\ ~ machine[t].inUse /\ sweepClock - machine[t].since >= DebounceSecs
               => \E i \in RowsOf("power", t) : sweepLog[i].at >= machine[t].since)
=============================================================================
