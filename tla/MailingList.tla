---------------------------- MODULE MailingList ----------------------------
(***************************************************************************)
(* The Groups.io mailing list (server/src/groupsio_sync.rs, groupsio.rs,   *)
(* api/groupsio.rs).  The platform owns the list.  A consumer of the audit *)
(* events pushes single changes to the group; reconciliations, by a timer  *)
(* and by hand, compare the roster with the group and repair the rest;     *)
(* members may also leave the group by a link in a mail, which the server  *)
(* learns from a webhook or from the group's list of past members.         *)
(*                                                                         *)
(* The group is external: it folds the case of addresses, and lists as     *)
(* past members those who left and those who were removed.                 *)
(***************************************************************************)
EXTENDS Integers, Sequences, SequencesExt

CONSTANTS
    Readers,            \* users
    Mailboxes,          \* addresses without their case
    FirstMailbox,       \* [Readers -> Mailboxes]
    Protected,          \* groupsio.protected_addresses
    Reconcilers,        \* the ticker and the administrator's button
    SyncEnabled,        \* groupsio.enabled
    MaxReaderSteps, MaxCallFailures     \* bounds

ASSUME MailingListAssumption == SyncEnabled \in BOOLEAN /\ FirstMailbox \in [Readers -> Mailboxes]

VARIABLES
    reader,         \* users: [exists, active, verified, optOut, mail]
    pushes,         \* the consumer's channel of audit events
    listed, past,   \* the group's current and past members
    notices,        \* webhook calls under way: [address, signed]
    recon,          \* each reconciler's plan, when it is applying one
    lastSyncOk,     \* groupsio_sync_runs: the outcome of the latest
    calmLeavers,    \* history: who left by a link while no change of theirs was under way
    readerSteps, callFailures
mailingVars == <<reader, pushes, listed, past, notices, recon, lastSyncOk, calmLeavers, readerSteps, callFailures>>

\* An address is <<mailbox, as it was typed>>.
Addresses == Mailboxes \X {"plain", "Mixed"}
normalize_email(a) == <<a[1], "plain">>
GroupFolds(a) == <<a[1], "plain">>     \* what the group does with an address it is given

MailingListInit ==
    /\ reader \in [Readers -> [exists : {TRUE}, active : {TRUE}, verified : BOOLEAN, optOut : {FALSE},
                               mail : {m \in Addresses : \E u \in Readers : m[1] = FirstMailbox[u]}]]
    /\ \A u \in Readers : reader[u].mail[1] = FirstMailbox[u]
    /\ pushes = <<>> /\ listed = {} /\ past = {} /\ notices = {} /\ recon = [k \in Reconcilers |-> {}]
    /\ lastSyncOk = TRUE /\ calmLeavers = {} /\ readerSteps = 0 /\ callFailures = 0

-----------------------------------------------------------------------------
(* Decisions and queries. *)

intended_subscribed(u) == reader[u].exists /\ reader[u].active /\ reader[u].verified /\ ~ reader[u].optOut
list_mailing_list_intended == {reader[u].mail : u \in {v \in Readers : intended_subscribed(v)}}
find_user_by_email(a) == {u \in Readers : reader[u].exists /\ normalize_email(reader[u].mail) = normalize_email(a)}

NobodyOptedOut(intended, current, gone) ==
    [add |-> (intended \ current) \ gone, remove |-> (current \ intended) \ Protected, optOut |-> {}]
reconcile_plan(intended, current, gone) ==
    [add |-> (intended \ current) \ gone, remove |-> (current \ intended) \ Protected,
     optOut |-> (intended \cap gone) \ current]

-----------------------------------------------------------------------------
(* The group's API.  Every call may fail, after its retries, without       *)
(* effect.                                                                  *)

send_retrying(ok) == /\ ok \/ callFailures < MaxCallFailures
                     /\ callFailures' = callFailures + (IF ok THEN 0 ELSE 1)
Added(as) == listed' = listed \cup {GroupFolds(a) : a \in as} /\ past' = past \ {GroupFolds(a) : a \in as}
RemovedNow(as) == LET gone == listed \cap {GroupFolds(a) : a \in as} IN listed' = listed \ gone /\ past' = past \cup gone
Roster == UNCHANGED <<listed, past>>
direct_add(as, ok) == send_retrying(ok) /\ IF ok THEN Added(as) ELSE Roster
remove_members(as, ok) == send_retrying(ok) /\ IF ok THEN RemovedNow(as) ELSE Roster
get_members == listed
get_past_members == past

-----------------------------------------------------------------------------
(* Event push. *)

Event(kind, u) == [kind |-> kind, user |-> u, mail |-> reader[u].mail]
add_if_intended(u, ok) == IF intended_subscribed(u) THEN direct_add({reader[u].mail}, ok)
                          ELSE UNCHANGED <<listed, past, callFailures>>
\* An address that moved is two calls: the old one is removed, and what is left of the event is to add the new one.
RestOf(e) == IF e.kind = "moved" THEN <<[e EXCEPT !.kind = "movedIn"]>> ELSE <<>>
groupsio_handle_event(ok) ==
    /\ SyncEnabled /\ pushes # <<>> /\ pushes' = RestOf(Head(pushes)) \o Tail(pushes)
    /\ LET e == Head(pushes) IN
           CASE e.kind \in {"subscribe", "verified", "activated", "movedIn"} -> add_if_intended(e.user, ok)
             [] e.kind \in {"unsubscribe", "deactivated"} ->
                    IF reader[e.user].exists THEN remove_members({reader[e.user].mail}, ok)
                    ELSE UNCHANGED <<listed, past, callFailures>>
             [] e.kind \in {"deleted", "moved"} -> remove_members({e.mail}, ok)
    /\ UNCHANGED <<reader, notices, recon, lastSyncOk, calmLeavers, readerSteps>>

-----------------------------------------------------------------------------
(* Reconciliation: a plan from one reading, applied call by call; the      *)
(* first failure ends it.                                                  *)

reconcile_once(k) ==
    LET plan == reconcile_plan({normalize_email(a) : a \in list_mailing_list_intended},
                               {normalize_email(a) : a \in get_members}, {normalize_email(a) : a \in get_past_members})
    IN  /\ SyncEnabled /\ recon[k] = {} /\ recon' = [recon EXCEPT ![k] = {plan}]
        /\ UNCHANGED <<reader, pushes, listed, past, notices, lastSyncOk, calmLeavers, readerSteps, callFailures>>
record_groupsio_sync_run(k, ok) == recon' = [recon EXCEPT ![k] = {}] /\ lastSyncOk' = ok
Still(k, field) == IF recon[k] = {} THEN {} ELSE UNION {p[field] : p \in recon[k]}
ApplyCall(k, field, ok) ==
    /\ IF ok THEN recon' = [recon EXCEPT ![k] = {[p EXCEPT ![field] = {}] : p \in @}] /\ UNCHANGED lastSyncOk
       ELSE record_groupsio_sync_run(k, FALSE)
    /\ UNCHANGED <<reader, pushes, notices, calmLeavers, readerSteps>>
ReconcileAdds(k, ok) == Still(k, "add") # {} /\ direct_add(Still(k, "add"), ok) /\ ApplyCall(k, "add", ok)
ReconcileRemoves(k, ok) ==
    Still(k, "add") = {} /\ Still(k, "remove") # {} /\ remove_members(Still(k, "remove"), ok) /\ ApplyCall(k, "remove", ok)
set_mailing_list_opt_out(us, out) == reader' = [u \in Readers |-> [reader[u] EXCEPT !.optOut = IF u \in us THEN out ELSE @]]
ReconcileOptsOut(k) ==
    /\ recon[k] # {} /\ Still(k, "add") = {} /\ Still(k, "remove") = {}
    /\ set_mailing_list_opt_out(UNION {find_user_by_email(a) : a \in Still(k, "optOut")}, TRUE)
    /\ record_groupsio_sync_run(k, TRUE)
    /\ UNCHANGED <<pushes, listed, past, notices, calmLeavers, readerSteps, callFailures>>

-----------------------------------------------------------------------------
(* Members, administrators and the group's own pages. *)

ReaderChanges(u, row, kind) ==
    /\ readerSteps < MaxReaderSteps /\ readerSteps' = readerSteps + 1 /\ reader[u].exists
    /\ reader' = [reader EXCEPT ![u] = row] /\ pushes' = Append(pushes, Event(kind, u)) /\ calmLeavers' = calmLeavers \ {u}
    /\ UNCHANGED <<listed, past, notices, recon, lastSyncOk, callFailures>>
set_subscription(u, want) == /\ SyncEnabled /\ want = reader[u].optOut
    /\ ReaderChanges(u, [reader[u] EXCEPT !.optOut = ~ want], IF want THEN "subscribe" ELSE "unsubscribe")
EmailIsVerified(u) == ~ reader[u].verified /\ ReaderChanges(u, [reader[u] EXCEPT !.verified = TRUE], "verified")
Activation(u, on) == /\ reader[u].active # on
    /\ ReaderChanges(u, [reader[u] EXCEPT !.active = on], IF on THEN "activated" ELSE "deactivated")
Deletion(u) == ReaderChanges(u, [reader[u] EXCEPT !.exists = FALSE], "deleted")
EmailChange(u, a) == /\ \A v \in Readers : reader[v].exists => reader[v].mail[1] # a[1]
                     /\ ReaderChanges(u, [reader[u] EXCEPT !.mail = a], "moved")

LeavesByLink(u) ==
    LET a == GroupFolds(reader[u].mail)
        calm == recon = [k \in Reconcilers |-> {}] /\ \A i \in DOMAIN pushes : pushes[i].user # u
    IN  /\ reader[u].exists /\ a \in listed /\ readerSteps < MaxReaderSteps /\ readerSteps' = readerSteps + 1
        /\ listed' = listed \ {a} /\ past' = past \cup {a} /\ notices' = notices \cup {[address |-> a, signed |-> TRUE]}
        /\ calmLeavers' = IF calm THEN calmLeavers \cup {u} ELSE calmLeavers
        /\ UNCHANGED <<reader, pushes, recon, lastSyncOk, callFailures>>
\* A call that does not come from the group.
StrayNotice(a) ==
    /\ readerSteps < MaxReaderSteps /\ readerSteps' = readerSteps + 1
    /\ notices' = notices \cup {[address |-> a, signed |-> FALSE]}
    /\ UNCHANGED <<reader, pushes, listed, past, recon, lastSyncOk, calmLeavers, callFailures>>
NoticeLost(n) ==
    /\ n \in notices /\ notices' = notices \ {n}
    /\ UNCHANGED <<reader, pushes, listed, past, recon, lastSyncOk, calmLeavers, readerSteps, callFailures>>
verify_signature(n) == n.signed
receive_webhook(n) ==
    /\ SyncEnabled /\ n \in notices /\ notices' = notices \ {n} /\ verify_signature(n)
    /\ set_mailing_list_opt_out(find_user_by_email(n.address), TRUE)
    /\ UNCHANGED <<pushes, listed, past, recon, lastSyncOk, calmLeavers, readerSteps, callFailures>>

MailingListNext ==
    \/ \E ok \in BOOLEAN : groupsio_handle_event(ok)
    \/ \E k \in Reconcilers, ok \in BOOLEAN :
           reconcile_once(k) \/ ReconcileAdds(k, ok) \/ ReconcileRemoves(k, ok) \/ ReconcileOptsOut(k)
    \/ \E u \in Readers : \/ \E on \in BOOLEAN : set_subscription(u, on) \/ Activation(u, on)
                          \/ EmailIsVerified(u) \/ Deletion(u) \/ LeavesByLink(u)
                          \/ \E a \in Addresses : EmailChange(u, a)
    \/ \E a \in {GroupFolds(b) : b \in Addresses} : StrayNotice(a)
    \/ \E n \in notices : receive_webhook(n) \/ NoticeLost(n)

\* The consumer is a task of its own and the timer starts a reconciliation every interval.
MailingListFairness ==
    /\ WF_mailingVars(\E ok \in BOOLEAN : groupsio_handle_event(ok))
    /\ \A k \in Reconcilers : WF_mailingVars(\E ok \in BOOLEAN :
           reconcile_once(k) \/ ReconcileAdds(k, ok) \/ ReconcileRemoves(k, ok) \/ ReconcileOptsOut(k))
MailingListSpec == MailingListInit /\ [][MailingListNext]_mailingVars /\ MailingListFairness

-----------------------------------------------------------------------------
(* Properties. *)

\* Whatever calls failed and events came between the steps of a reconciliation, the group ends up with exactly the
\* intended members and protected addresses, however their addresses were typed (reconcile_apply).
RosterSettles == <>[](
    /\ \A u \in Readers : intended_subscribed(u) <=> reader[u].exists /\ \E a \in listed \ Protected : a[1] = reader[u].mail[1]
    /\ \A a \in listed \ Protected : \E u \in Readers : reader[u].mail[1] = a[1])

\* A member who leaves by a link, with no change of theirs under way, is recorded as opted out, if the list was
\* meant for them, and stays off the group until they change something themselves, whether or not the webhook arrived (reconcile_plan: to_opt_out).
LeaversStayOut == <>[](\A u \in calmLeavers :
    (reader[u].active /\ reader[u].verified => reader[u].optOut) /\ \A a \in listed : a[1] # reader[u].mail[1])
=============================================================================
