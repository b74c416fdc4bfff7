------------------------------- MODULE Alerts -------------------------------
(***************************************************************************)
(* Alerts (server/src/api/alerts.rs, alerts.rs): audit rows of a severity  *)
(* that staff must see, acknowledged once each, and the heartbeat, a       *)
(* recurring count of what was raised since the last one.  A heartbeat     *)
(* reads, counts and records in separate statements, and may be cut short  *)
(* by a restart.  Every statement has an instant of its own.               *)
(***************************************************************************)
EXTENDS Integers, Sequences, FiniteSets

CONSTANTS
    AlertTypes,             \* AuditEventType::all
    AlertClass,             \* [AlertTypes -> [category, severity]]
    AckEvent, BeatEvent,    \* AlertAcknowledged, AlertHeartbeat
    Watchers,               \* users with the acknowledge permission
    Notice,                 \* DEFAULT_MIN_SEVERITY
    HeartbeatInterval,      \* alerts.heartbeat_interval_secs
    MaxAlertTime, MaxBeats  \* bounds

ASSUME AlertsAssumption ==
    {AckEvent, BeatEvent} \subseteq AlertTypes /\ AckEvent # BeatEvent /\ HeartbeatInterval \in Nat

VARIABLES
    rows,       \* audit_logs: [type, at, about], about the row acknowledged
    failures,   \* webhook_deliveries without success: when
    acks,       \* alert_acknowledgements: row -> who, when there is one
    acking,     \* acknowledgements stored, whose audit row is not yet written: [row, by]
    beats,      \* alert_heartbeat_runs: [started, raised, unseen, ok]
    beating,    \* the run under way: [started, since, step, ...], if any
    counted,    \* history: the rows some successful run has counted
    failedBeat, \* history: a run has failed
    alertTime
alertVars == <<rows, failures, acks, acking, beats, beating, counted, failedBeat, alertTime>>

Never == -1
AlertsInit ==
    /\ rows = <<>> /\ failures = {} /\ acks = [i \in {} |-> {}] /\ acking = {} /\ beats = <<>> /\ beating = {}
    /\ counted = {} /\ failedBeat = FALSE /\ alertTime = 0

TimeGoes == alertTime < MaxAlertTime /\ alertTime' = alertTime + 1
log_event(k, about) == rows' = Append(rows, [type |-> k, at |-> alertTime, about |-> about])

-----------------------------------------------------------------------------
(* Filters and queries. *)

types_for(min, cats) == {k \in AlertTypes : AlertClass[k].severity >= min /\ AlertClass[k].category \in cats}
Categories == {AlertClass[k].category : k \in AlertTypes}
counted_types == types_for(Notice, Categories \ {"alerts"})
list_alerts(types, acknowledged) == {i \in DOMAIN rows : rows[i].type \in types /\ (i \in DOMAIN acks <=> acknowledged)}
unacknowledged_alert_counts(types) == Cardinality(list_alerts(types, FALSE))
count_audit_rows_since(types, since) == {i \in DOMAIN rows : rows[i].type \in types /\ rows[i].at > since}
count_failed_webhook_deliveries_since(since) == Cardinality({f \in failures : f > since})

-----------------------------------------------------------------------------
(* Acknowledgement. *)

\* INSERT .. ON CONFLICT DO NOTHING: only the one that inserted goes on to write the audit row.
acknowledge_alert(i, u) ==
    IF i \in DOMAIN acks THEN UNCHANGED <<acks, acking>>
    ELSE acks' = [j \in DOMAIN acks \cup {i} |-> IF j = i THEN u ELSE acks[j]] /\ acking' = acking \cup {[row |-> i, by |-> u]}
get_audit_log(i) == i \in DOMAIN rows
acknowledge(i, u) ==
    /\ TimeGoes /\ get_audit_log(i) /\ rows[i].type \in types_for(Notice, Categories)
    /\ acknowledge_alert(i, u) /\ UNCHANGED <<rows, failures, beats, beating, counted, failedBeat>>
AckLogged(a) ==
    /\ TimeGoes /\ a \in acking /\ acking' = acking \ {a} /\ log_event(AckEvent, a.row)
    /\ UNCHANGED <<failures, acks, beats, beating, counted, failedBeat>>

-----------------------------------------------------------------------------
(* The heartbeat. *)

SinceTheEnd == IF beats = <<>> THEN Never ELSE beats[Len(beats)].finished
latest_alert_heartbeat_run == IF beats = <<>> THEN Never ELSE beats[Len(beats)].started
due == HeartbeatInterval > 0 /\ (latest_alert_heartbeat_run = Never \/ alertTime - latest_alert_heartbeat_run >= HeartbeatInterval)
\* since: where the last run began.
run ==
    /\ TimeGoes /\ beating = {} /\ due /\ Len(beats) < MaxBeats
    /\ beating' = {[started |-> alertTime, since |-> latest_alert_heartbeat_run, raised |-> {}, unseen |-> 0, step |-> "count"]}
    /\ UNCHANGED <<rows, failures, acks, acking, beats, counted, failedBeat>>
RunCounts(b) ==
    /\ TimeGoes /\ b \in beating /\ b.step = "count"
    /\ beating' = {[b EXCEPT !.raised = count_audit_rows_since(counted_types, b.since), !.step = "finish",
                             !.unseen = unacknowledged_alert_counts(counted_types) + count_failed_webhook_deliveries_since(b.since)]}
    /\ UNCHANGED <<rows, failures, acks, acking, beats, counted, failedBeat>>
RunFails(b) ==
    /\ TimeGoes /\ b \in beating /\ b.step = "count" /\ beating' = {[b EXCEPT !.step = "failed"]}
    /\ UNCHANGED <<rows, failures, acks, acking, beats, counted, failedBeat>>
record_alert_heartbeat_run(b) ==
    beats' = Append(beats, [started |-> b.started, finished |-> alertTime, raised |-> Cardinality(b.raised), unseen |-> b.unseen,
                            ok |-> b.step = "finish"])
finish_beat(b) ==
    /\ TimeGoes /\ b \in beating /\ b.step \in {"finish", "failed"} /\ beating' = {}
    /\ log_event(BeatEvent, 0) /\ record_alert_heartbeat_run(b)
    /\ counted' = IF b.step = "finish" THEN counted \cup b.raised ELSE counted
    /\ failedBeat' = (failedBeat \/ b.step = "failed") /\ UNCHANGED <<failures, acks, acking>>

-----------------------------------------------------------------------------
(* The rest of the server. *)

AlertRaised(k) ==
    /\ TimeGoes /\ log_event(k, 0) /\ UNCHANGED <<failures, acks, acking, beats, beating, counted, failedBeat>>
DeliveryFails ==
    /\ TimeGoes /\ failures' = failures \cup {alertTime} /\ UNCHANGED <<rows, acks, acking, beats, beating, counted, failedBeat>>
AlertsRestart ==
    /\ (beating # {} \/ acking # {}) /\ beating' = {} /\ acking' = {}
    /\ TimeGoes /\ UNCHANGED <<rows, failures, acks, beats, counted, failedBeat>>

AlertsNext ==
    \/ \E k \in AlertTypes \ {AckEvent, BeatEvent} : AlertRaised(k)
    \/ DeliveryFails
    \/ \E i \in DOMAIN rows, u \in Watchers : acknowledge(i, u)
    \/ \E a \in acking : AckLogged(a)
    \/ run \/ \E b \in beating : RunCounts(b) \/ RunFails(b) \/ finish_beat(b)
    \/ AlertsRestart
AlertsSpec == AlertsInit /\ [][AlertsNext]_alertVars

-----------------------------------------------------------------------------
(* Properties. *)

\* No alert falls between two heartbeats: as long as no run failed, an alert raised before the latest recorded run
\* began has been counted by a run, whatever was raised between the statements of a run and whichever runs a
\* restart cut short.
NoAlertMissed == beats # <<>> /\ ~ failedBeat =>
    \A i \in DOMAIN rows :
        AlertClass[rows[i].type].severity >= Notice /\ AlertClass[rows[i].type].category # "alerts" /\ rows[i].at < beats[Len(beats)].started
            => i \in counted

\* Two watchers who acknowledge the same alert leave one acknowledgement on record: the audit log names the alert
\* once at most.
AcknowledgedOnce == \A i, j \in DOMAIN rows :
    i # j /\ rows[i].type = AckEvent /\ rows[j].type = AckEvent => rows[i].about # rows[j].about

\* Each alert is accounted for: by some heartbeat, and by one acknowledgement at most.
AlertsAreAccountedFor == NoAlertMissed /\ AcknowledgedOnce
=============================================================================
