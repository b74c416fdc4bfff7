------------------------------ MODULE MCOffice -----------------------------
(* Instances of the parts of the back office: webhooks, alerts, the policy  *)
(* broadcaster, settings and profiles, and the calendar.  They share no     *)
(* state the properties speak of, so a behaviour is of one part.            *)
EXTENDS Webhooks, Alerts, Broadcast, Settings, Calendar

CONSTANTS h1, h2, x1, k1, k2,           \* webhooks, a header, event types
          fire, acked, beat, w1, w2,    \* alert types and watchers
          d1, d2, t1, t2,               \* controllers and tools
          v1, v2, placeholder, envdb, filedb, patron, b1

VARIABLE part       \* the part that runs

partVars == <<webhookVars, alertVars, broadcastVars, settingsVars, calendarVars, part>>

\* One webhook is subscribed by type and to a class, one to a class.
WebhookClasses == k1 :> [category |-> "a", severity |-> 1] @@ k2 :> [category |-> "b", severity |-> 2]
SubscriptionsM ==
    {[types |-> {k1}, classes |-> {[category |-> "any", min |-> 1]}],
     [types |-> {}, classes |-> {[category |-> "b", min |-> 2]}]}
AlertClasses ==
    fire :> [category |-> "safety", severity |-> 2] @@ acked :> [category |-> "alerts", severity |-> 0]
    @@ beat :> [category |-> "alerts", severity |-> 1]
Lean == [asks |-> {"bio"}, must |-> {}, keysOk |-> TRUE]
Full == [asks |-> {"bio", "born"}, must |-> {"born"}, keysOk |-> TRUE]
Twice == [asks |-> {"bio"}, must |-> {}, keysOk |-> FALSE]
SchemasM == {Lean, Full, Twice}
TypesM == "bio" :> "Text" @@ "born" :> "Date"
ValuesM == {[json |-> "string", looks |-> {"Date"}], [json |-> "number", looks |-> {}]}
DefaultsM ==
    "url" :> filedb @@ "seed" :> Lean @@ "seedOn" :> TRUE @@ "mail" :> "off" @@ "verify" :> FALSE
    @@ "membership" :> FALSE @@ "dues" :> 0 @@ "member_rank" :> 3 @@ "lapsed_rank" :> 1 @@ "stripe" :> FALSE
    @@ "billing" :> FALSE @@ "cors" :> FALSE @@ "origins" :> {} @@ "content_origin" :> FALSE
\* A file from before half of the sections existed, one that asks for a verified
\* address with no mail, two whose seed names other fields.
DraftsM ==
    {"url" :> envdb @@ "seed" :> Full,
     "verify" :> TRUE @@ DefaultsM,
     "seed" :> Full @@ "membership" :> TRUE @@ "dues" :> 1 @@ "billing" :> TRUE @@ "secret" :> "" @@ DefaultsM,
     "seed" :> Twice @@ "lapsed_rank" :> 3 @@ "cors" :> TRUE @@ "content_origin" :> TRUE @@ DefaultsM}
\* A series read in the site's zone with an occurrence moved, one with an occurrence
\* skipped, all-day dates of which the first is off, and one time in UTC.
Planned(form, at, long, fates) ==
    {[form |-> form, at |-> at, long |-> long, last |-> Cardinality(DOMAIN fates) - 1, fate |-> fates]}
AsPlanned == Becomes("held", 0)
CalendarsM == 1 :> 1 @@ 2 :> 2
PlansM ==
    1 :> {Planned("floating", 0, {2}, 0 :> AsPlanned @@ 1 :> Becomes("moved", 5)),
          Planned("floating", 1, {2}, 0 :> AsPlanned @@ 1 :> Becomes("skipped", 0)),
          Planned("date", 0, {}, 0 :> Becomes("called_off", 0) @@ 1 :> AsPlanned)}
    @@ 2 :> {Planned("utc", 1, {}, 0 :> AsPlanned)}
\* The clock goes forward, or back.
ZonesM == {[at |-> 1, by |-> 1], [at |-> 2, by |-> -1]}

Init ==
    /\ part \in {"webhooks", "alerts", "broadcast", "settings", "calendar"}
    /\ WebhooksInit /\ (part # "webhooks" => hook[h1] = NoHook /\ hook[h2] = NoHook)
    /\ AlertsInit
    /\ BroadcastInit /\ (part # "broadcast" => binding = {})
    /\ SettingsInit /\ (part # "settings" => file = {})
    /\ CalendarInit /\ (part # "calendar" => zone.by = 1)

\* The part that runs takes its steps, the others rest.
Next ==
    /\ UNCHANGED part
    /\ \/ /\ part = "webhooks" /\ WebhooksNext
          /\ UNCHANGED <<alertVars, broadcastVars, settingsVars, calendarVars>>
       \/ /\ part = "alerts" /\ AlertsNext
          /\ UNCHANGED <<webhookVars, broadcastVars, settingsVars, calendarVars>>
       \/ /\ part = "broadcast" /\ BroadcastNext
          /\ UNCHANGED <<webhookVars, alertVars, settingsVars, calendarVars>>
       \/ /\ part = "settings" /\ SettingsNext
          /\ UNCHANGED <<webhookVars, alertVars, broadcastVars, calendarVars>>
       \/ /\ part = "calendar" /\ CalendarNext
          /\ UNCHANGED <<webhookVars, alertVars, broadcastVars, settingsVars>>

\* What the calendar relies on, while it runs.
Fairness ==
    /\ WF_calendarVars(part = "calendar" /\ CalendarEdge)
    /\ WF_calendarVars(part = "calendar" /\ BodiesAge)

Spec == Init /\ [][Next]_partVars /\ Fairness

-----------------------------------------------------------------------------
\* Where the calendar runs: once organisers rest, the kiosk comes to show a list made
\* from the calendars as they are, though a body is held for a time, an old answer comes
\* late and a feed cannot be reached (feed_body, events_between).
\* Once the feeds rest and can be reached, the display shows them as they are.
CalendarCatchesUp == part = "calendar" => KioskCatchesUp
=============================================================================
