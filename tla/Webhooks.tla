------------------------------ MODULE Webhooks ------------------------------
(***************************************************************************)
(* Outbound webhooks and the server's shutdown (server/src/webhooks.rs,    *)
(* api/webhooks.rs, shutdown.rs).  Every audit row goes to a channel; a    *)
(* consumer starts one job per event, which loads the subscribed webhooks  *)
(* and serves them one after the other, each with retries, while           *)
(* administrators edit and delete them.  At shutdown jobs under way are    *)
(* waited for, up to a deadline.                                           *)
(*                                                                         *)
(* Addresses, payloads and signatures are left out; what an endpoint       *)
(* answers is a choice.  Test deliveries (test_webhook), which belong to   *)
(* no event, are left out.                                                 *)
(***************************************************************************)
EXTENDS Integers, Sequences, SequencesExt

CONSTANTS
    HookIds, HeaderIds,     \* webhooks, webhook_auth_headers
    EventTypes,             \* AuditEventType::all
    ClassOf,                \* [EventTypes -> [category, severity]]
    Severities,             \* Severity, as numbers
    MaxAttempts,            \* MAX_ATTEMPTS
    AdminEvent,             \* the type of the rows that editing webhooks writes itself
    Subscriptions,          \* what administrators subscribe webhooks to: [types, classes]
    MaxEvents               \* bound on audit rows

ASSUME WebhooksAssumption ==
    MaxAttempts \in Nat \ {0} /\ Severities \subseteq Nat /\ AdminEvent \in EventTypes /\ IsFiniteSet(HookIds)

VARIABLES
    hook,       \* webhooks with their subscriptions: [exists, used, enabled, types, classes, headers]
    header,     \* webhook_auth_headers that exist
    channel,    \* the consumer's channel: ids of events
    typeOf,     \* audit_logs: the type of each event so far
    deliverJobs, \* deliver jobs: [event, left, attempt], left = {} before the webhooks are loaded
    deliveries, \* webhook_deliveries: [hook, event, job, attempt, ok]
    served,     \* history: finished jobs, [event, hooks it had loaded]
    phase       \* "running", "draining" (Shutdown::finish under way), "drained" or "deadline" (the process is gone)
webhookVars == <<hook, header, channel, typeOf, deliverJobs, deliveries, served, phase>>

NoHook == [exists |-> FALSE, used |-> FALSE, enabled |-> FALSE, types |-> {}, classes |-> {}, headers |-> {}]
Enabled(w, xs) == [exists |-> TRUE, used |-> TRUE, enabled |-> TRUE, types |-> w.types, classes |-> w.classes, headers |-> xs]
\* The server starts on the webhooks its database holds.
WebhooksInit ==
    /\ hook \in [HookIds -> {NoHook} \cup {Enabled(w, {}) : w \in Subscriptions}] /\ header = {} /\ channel = <<>> /\ typeOf = <<>> /\ deliverJobs = {}
    /\ deliveries = {} /\ served = {} /\ phase = "running"

AnyCategory == "any"
category(k) == ClassOf[k].category
severity(k) == ClassOf[k].severity

-----------------------------------------------------------------------------
(* Administration. *)

valid_event_types == EventTypes
validate_event_types(types) == types \subseteq valid_event_types
validate_class_subscriptions(cs) ==
    \A c \in cs : c.min \in Severities /\ c.category \in {category(k) : k \in EventTypes} \cup {AnyCategory}

\* An event reaches the channel with its audit row; the consumer is gone once the process is.
create_audit_log(k) ==
    /\ Len(typeOf) < MaxEvents /\ typeOf' = Append(typeOf, k) /\ channel' = Append(channel, Len(typeOf) + 1)
    /\ phase = "running"
audit == create_audit_log(AdminEvent) /\ UNCHANGED <<deliverJobs, served, phase>>

create_auth_header(x) ==
    audit /\ x \notin header /\ header' = header \cup {x} /\ UNCHANGED <<hook, deliveries>>
update_auth_header(x) == audit /\ x \in header /\ UNCHANGED <<hook, header, deliveries>>
count_webhook_auth_header_usage(x) == {h \in HookIds : hook[h].exists /\ x \in hook[h].headers}
delete_auth_header(x) ==
    /\ audit /\ count_webhook_auth_header_usage(x) = {} /\ x \in header
    /\ header' = header \ {x} /\ UNCHANGED <<hook, deliveries>>

\* The row with its event subscriptions and links, in one transaction; then its classes.
StoreWebhook(h, row) == hook' = [hook EXCEPT ![h] = row]
replace_webhook_class_subscriptions(row, cs) == [row EXCEPT !.classes = cs]
create_webhook(h, types, cs, xs) ==
    /\ audit /\ ~ hook[h].used /\ validate_event_types(types) /\ validate_class_subscriptions(cs) /\ xs \subseteq header
    /\ StoreWebhook(h, replace_webhook_class_subscriptions(
           [exists |-> TRUE, used |-> TRUE, enabled |-> TRUE, types |-> types, classes |-> {}, headers |-> xs], cs))
    /\ UNCHANGED <<header, deliveries>>
update_webhook(h, on, types, cs) ==
    /\ audit /\ hook[h].exists /\ validate_event_types(types) /\ validate_class_subscriptions(cs)
    /\ StoreWebhook(h, replace_webhook_class_subscriptions([hook[h] EXCEPT !.enabled = on, !.types = types], cs))
    /\ UNCHANGED <<header, deliveries>>
\* Its deliveries go with it.
delete_webhook(h) ==
    /\ audit /\ hook[h].exists
    /\ hook' = [hook EXCEPT ![h] = [NoHook EXCEPT !.used = TRUE]] /\ deliveries' = {d \in deliveries : d.hook # h}
    /\ UNCHANGED header

-----------------------------------------------------------------------------
(* The consumer and its deliverJobs. *)

get_enabled_webhooks_for_event(k) == {h \in HookIds : hook[h].enabled /\ k \in hook[h].types}
get_enabled_webhooks_for_class(c, at_or_below) ==
    {h \in HookIds : hook[h].enabled /\ \E s \in hook[h].classes : s.category \in {AnyCategory, c} /\ s.min \in at_or_below}
\* Webhooks to serve: by type, then by class those not already there.
subscribers(k) ==
    SetToSeq(get_enabled_webhooks_for_event(k))
        \o SetToSeq(get_enabled_webhooks_for_class(category(k), {s \in Severities : s <= severity(k)})
                       \ get_enabled_webhooks_for_event(k))

NewJob(e) == [event |-> e, loaded |-> FALSE, all |-> <<>>, left |-> <<>>, attempt |-> 1]
Alive == phase \in {"running", "draining"}
\* The consumer's loop and, once shutdown is called, its drain: the same step.
ConsumerSpawns ==
    /\ Alive /\ channel # <<>> /\ channel' = Tail(channel) /\ deliverJobs' = deliverJobs \cup {NewJob(Head(channel))}
    /\ UNCHANGED <<hook, header, typeOf, deliveries, served, phase>>

JobGoesOn(j, k) ==     \* k: the job after the step; one with nothing left is over
    IF k.left = <<>> THEN deliverJobs' = deliverJobs \ {j} /\ served' = served \cup {[event |-> k.event, hooks |-> k.all]}
    ELSE deliverJobs' = (deliverJobs \ {j}) \cup {k} /\ UNCHANGED served
handle_event(j) ==
    /\ Alive /\ ~ j.loaded
    /\ LET to == subscribers(typeOf[j.event]) IN JobGoesOn(j, [j EXCEPT !.loaded = TRUE, !.all = to, !.left = to])
    /\ UNCHANGED <<hook, header, channel, typeOf, deliveries, phase>>

record_webhook_delivery(h, j, ok) ==
    IF hook[h].exists
    THEN deliveries' = deliveries \cup {[hook |-> h, event |-> j.event, turn |-> Len(j.left), attempt |-> j.attempt, ok |-> ok]}
    ELSE UNCHANGED deliveries
NextHook(j) == [j EXCEPT !.left = Tail(@), !.attempt = 1]
DeletedEndsAll(j, ok) ==
    IF ~ hook[Head(j.left)].exists THEN [j EXCEPT !.left = <<>>]
    ELSE IF ok \/ j.attempt = MaxAttempts THEN NextHook(j) ELSE [j EXCEPT !.attempt = @ + 1]
\* An attempt and its record: a webhook gone meanwhile is dropped, the others are not.
after_attempt(j, ok) ==
    IF ~ hook[Head(j.left)].exists \/ ok \/ j.attempt = MaxAttempts THEN NextHook(j) ELSE [j EXCEPT !.attempt = @ + 1]
deliver(j, ok) ==
    /\ Alive /\ j.loaded /\ record_webhook_delivery(Head(j.left), j, ok) /\ JobGoesOn(j, after_attempt(j, ok))
    /\ UNCHANGED <<hook, header, channel, typeOf, phase>>
\* resolve_and_screen refuses the address: one failed attempt and no other.
DeliveryRefused(j) ==
    /\ Alive /\ j.loaded /\ j.attempt = 1 /\ record_webhook_delivery(Head(j.left), j, FALSE) /\ JobGoesOn(j, NextHook(j))
    /\ UNCHANGED <<hook, header, channel, typeOf, phase>>

-----------------------------------------------------------------------------
(* Shutdown. *)

shutdown_signal ==
    /\ phase = "running" /\ phase' = "draining"
    /\ UNCHANGED <<hook, header, channel, typeOf, deliverJobs, deliveries, served>>
\* finish_within: the tracker holds the jobs; the consumer itself is not in it.
tracker_empty == phase = "draining" /\ deliverJobs = {}
finish(by) ==
    /\ IF by = "drained" THEN tracker_empty ELSE phase = "draining"
    /\ phase' = by /\ UNCHANGED <<hook, header, channel, typeOf, deliverJobs, deliveries, served>>

WebhooksNext ==
    \/ \E k \in EventTypes : create_audit_log(k) /\ UNCHANGED <<hook, header, deliverJobs, deliveries, served, phase>>
    \/ \E x \in HeaderIds : create_auth_header(x) \/ update_auth_header(x) \/ delete_auth_header(x)
    \/ \E h \in HookIds : \/ delete_webhook(h)
                          \/ \E w \in Subscriptions : \/ create_webhook(h, w.types, w.classes, header)
                                                      \/ \E on \in BOOLEAN : update_webhook(h, on, w.types, w.classes)
    \/ ConsumerSpawns
    \/ \E j \in deliverJobs : handle_event(j) \/ DeliveryRefused(j) \/ \E ok \in BOOLEAN : deliver(j, ok)
    \/ shutdown_signal \/ \E by \in {"drained", "deadline"} : finish(by)

WebhooksSpec == WebhooksInit /\ [][WebhooksNext]_webhookVars

-----------------------------------------------------------------------------
(* Properties. *)

\* A webhook that fails, is refused or is deleted under a job takes nothing from the others: when the job is over
\* every webhook it had loaded, and that has not been deleted since, has been tried.
OthersStillServed == \A s \in served : \A i \in DOMAIN s.hooks :
    hook[s.hooks[i]].exists => \E d \in deliveries : d.hook = s.hooks[i] /\ d.event = s.event

\* A webhook subscribed to an event both by its type and by its class gets it once: it has one success at most
\* for one event, and no attempt after it.
DeliveredOnce == \A d, f \in deliveries : d.hook = f.hook /\ d.event = f.event /\ d.ok =>
    d = f \/ (f.turn = d.turn /\ f.attempt < d.attempt)

\* A shutdown that reports everything drained abandons no job under way.
DrainedMeansDone == phase = "drained" => deliverJobs = {}

\* An event that was taken up reaches each of its webhooks once, whatever becomes of the others, and before a
\* shutdown says that it is done.
DeliveriesAreKept == OthersStillServed /\ DeliveredOnce /\ DrainedMeansDone
=============================================================================
