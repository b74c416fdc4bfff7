---------------------------- MODULE Membership -----------------------------
(***************************************************************************)
(* The membership dues ledger: payments credited to it by Stripe's         *)
(* webhooks, by staff and by the renewal cycle, dues debited from it, and  *)
(* the member's role that follows (server/src/membership.rs, stripe.rs,    *)
(* api/membership.rs, api/stripe.rs).                                      *)
(*                                                                         *)
(* No operation holds a transaction over more than one statement, so each  *)
(* database call is a step, and webhooks, staff, the cycle, a failed call  *)
(* and a crash of the server fall between them.  Stripe is external: it    *)
(* opens checkouts, is paid, and delivers an event any number of times or  *)
(* never.                                                                  *)
(*                                                                         *)
(* Amounts are whole dues, every payment one period's.  Days are numbered; *)
(* the calendar is MonthStarts, the number of each month's first day.      *)
(***************************************************************************)
EXTENDS Integers, Sequences, FiniteSets, FiniteSetsExt

CONSTANTS
    Subscribers,    \* the users
    FirstAdmins,    \* the administrators among them
    Customers,      \* bound: customers at Stripe
    MaxInvoices,    \* bound: invoices of each customer
    PollLimit,      \* INVOICE_POLL_LIMIT
    Hooks,          \* bound: webhook and staff requests served at once
    Cycles,         \* renewal cycles at once: the ticker, and "reconcile now"
    MonthStarts,    \* the calendar
    DuesMonths,     \* due_period
    GraceDays,
    MaxDay,         \* bound: the last day
    StaffAmounts,   \* what staff post by hand, in dues
    MaxExtras       \* bound: what staff do, refunds, failed calls and crashes

ASSUME MembershipAssumption ==
    /\ FirstAdmins \subseteq Subscribers
    /\ MaxInvoices \in Nat /\ PollLimit \in Nat \ {0} /\ MaxDay \in Nat /\ MaxExtras \in Nat
    /\ DuesMonths \in Nat \ {0} /\ GraceDays \in Nat
    /\ StaffAmounts \subseteq Int \ {0}
    /\ Hooks \cap Cycles = {}

VARIABLES
    entries,        \* reference -> ledger entries posted under it
    other,          \* subscriber -> sum of the entries without a reference
    duesPaid,       \* subscriber -> dues debits
    nextDue,        \* users.membership_next_due_at
    tier,           \* the user's tier role
    customers,      \* user_stripe_customers
    sessions,       \* at Stripe: completed checkouts
    paid,           \* at Stripe: what was paid, and refunded
    jobs,           \* the requests and cycles in progress
    today,
    extras,         \* how many of MaxExtras there were
    mishap          \* whether one was a failure

ledgerVars == <<entries, other, duesPaid>>
memberVars == <<nextDue, tier, customers, sessions, paid>>
membershipVars == <<ledgerVars, memberVars, jobs, today, extras, mishap>>

NoDate == -1
Nobody == "nobody"
NoReference == <<"none", Nobody, 0>>
\* What a ledger entry may be keyed on: an invoice, a one-shot checkout, here one
\* for each customer, or the refund of either.
Invoices == {<<"invoice", c, n>> : c \in Customers, n \in 1..MaxInvoices}
OneShots == {<<"session", c, 0>> : c \in Customers}
Payments == Invoices \cup OneShots
RefundOf(p) == <<"refund", p[2], p[3]>>
References == Payments \cup {RefundOf(p) : p \in Payments}
CustomerOf(ref) == ref[2]

(* The calendar. *)
Month(day) == CHOOSE i \in 1..(Len(MonthStarts) - 1) :
                 MonthStarts[i] <= day /\ day < MonthStarts[i + 1]
Least2(a, b) == IF a <= b THEN a ELSE b
\* The same day of the month DuesMonths on; a day that month does not have
\* becomes the first of the month after it.
advance_period(day) ==
    LET to == Month(day) + DuesMonths
    IN  MonthStarts[to] + Least2(day - MonthStarts[Month(day)],
                                 MonthStarts[to + 1] - MonthStarts[to])
dues_due(next, now) == now >= next + GraceDays

(* The role state machine: a role to write, or NoChange. *)
NoChange == "no change"
Level(role) == CASE role = "historical" -> 2 [] role = "active" -> 3 [] role = "admin" -> 5
plan_role_transition(role, entitled, last) ==
    CASE entitled /\ Level(role) < Level("active") -> "active"
      [] ~ entitled /\ ~ last /\ Level(role) > Level("historical") -> "historical"
      [] OTHER -> NoChange
count_active_admins == Cardinality({u \in Subscribers : tier[u] = "admin"})

(* The ledger. *)
PostedFor(u) == {r \in References : entries[r] > 0 /\ customers[CustomerOf(r)].owner = u}
SignOf(ref) == IF ref[1] = "refund" THEN -1 ELSE 1
member_balance(u) ==
    other[u] + MapThenSumSet(LAMBDA r : SignOf(r) * entries[r], PostedFor(u)) - duesPaid[u]
entry_exists(ref) == entries[ref] > 0
UniqueIndexMissing(ref) == FALSE
refused_by_index(ref) == entries[ref] > 0

-----------------------------------------------------------------------------
(* A job: where it is, for whom, and what it has read. *)

Job(pc, user) == [pc |-> pc, user |-> user, ref |-> NoReference, amount |-> 0, now |-> 0,
                  next |-> NoDate, role |-> NoChange, entitled |-> TRUE, back |-> "idle",
                  links |-> {}, bills |-> {}, users |-> {}, owed |-> {}]
NoJob == Job("idle", Nobody)
JobIds == Hooks \cup Cycles

MembershipInit ==
    /\ entries = [r \in References |-> 0]
    /\ other = [u \in Subscribers |-> 0] /\ duesPaid = [u \in Subscribers |-> 0]
    /\ nextDue = [u \in Subscribers |-> NoDate]
    /\ tier = [u \in Subscribers |-> IF u \in FirstAdmins THEN "admin" ELSE "historical"]
    /\ customers = [c \in Customers |-> [owner |-> Nobody, live |-> FALSE]]
    /\ sessions = {} /\ paid = {} /\ today = 0 /\ extras = 0 /\ mishap = FALSE
    /\ jobs = [j \in JobIds |-> NoJob]

Extra == extras < MaxExtras /\ extras' = extras + 1
Where(j, pc) == jobs[j].pc = pc
SetJob(j, record) == jobs' = [jobs EXCEPT ![j] = record]
Move(j, pc) == jobs' = [jobs EXCEPT ![j].pc = pc]
\* Back from record_credit or settle_renewal: a webhook is answered, the cycle
\* takes its next invoice or member.
Return(j) ==
    LET job == jobs[j]
    IN  SetJob(j, [NoJob EXCEPT !.pc = job.back, !.back = job.back, !.links = job.links,
                     !.bills = job.bills, !.users = job.users, !.owed = job.owed,
                     !.user = IF job.back = "bills" THEN job.user ELSE Nobody])

-----------------------------------------------------------------------------
(* Stripe. *)

\* current_stripe_customer: one with a live subscription if there is one.
current_stripe_customer(u) ==
    LET mine == {c \in Customers : customers[c].owner = u}
        live == {c \in mine : customers[c].live}
    IN  IF live # {} THEN live ELSE mine

\* create_checkout reuses the member's customer, or lets Stripe make one, and the
\* member completes the checkout there.
create_checkout(u, c, oneShot) ==
    /\ \/ c \in current_stripe_customer(u)
       \/ /\ current_stripe_customer(u) = {}
          /\ customers[c].owner = Nobody /\ \A s \in sessions : s[2] # c
    /\ <<u, c, oneShot>> \notin sessions
    /\ sessions' = sessions \cup {<<u, c, oneShot>>}
    /\ paid' = IF oneShot THEN paid \cup {<<"session", c, 0>>} ELSE paid
    /\ UNCHANGED <<ledgerVars, nextDue, tier, customers, jobs, today, extras, mishap>>

\* A subscription's next invoice is paid.
StripePaid(c, n) ==
    /\ \E u \in Subscribers : <<u, c, FALSE>> \in sessions
    /\ \A k \in 1..MaxInvoices : <<"invoice", c, k>> \in paid <=> k < n
    /\ paid' = paid \cup {<<"invoice", c, n>>}
    /\ UNCHANGED <<ledgerVars, nextDue, tier, customers, sessions, jobs, today, extras, mishap>>

StripeRefunds(p) ==
    /\ Extra /\ p \in paid /\ RefundOf(p) \notin paid
    /\ paid' = paid \cup {RefundOf(p)}
    /\ UNCHANGED <<ledgerVars, nextDue, tier, customers, sessions, jobs, today, mishap>>

\* link_stripe_customer, one transaction: a customer is never taken from its
\* owner, and the subscription the checkout ended with is written each time.
link_stripe_customer(u, c, live) ==
    /\ customers[c].owner \in {Nobody, u}
    /\ customers' = [customers EXCEPT ![c] = [owner |-> u, live |-> live]]

\* checkout.session.completed, delivered at any time after it, and again: the
\* customer is linked and a one-shot payment credited.
handle_checkout_completed(h, u, c, oneShot) ==
    /\ h \in Hooks /\ Where(h, "idle") /\ <<u, c, oneShot>> \in sessions
    /\ link_stripe_customer(u, c, ~ oneShot)
    /\ \/ ~ oneShot /\ UNCHANGED jobs
       \/ oneShot /\ SetJob(h, [Job("check", u) EXCEPT !.ref = <<"session", c, 0>>, !.amount = 1])
    /\ UNCHANGED <<ledgerVars, nextDue, tier, sessions, paid, today, extras, mishap>>

\* invoice.paid and charge.refunded: an event Stripe delivers at any time after
\* the fact, and again.  One for a customer no account has is acknowledged.
HookFor(h, ref) ==
    /\ h \in Hooks /\ Where(h, "idle") /\ ref \in paid
    /\ customers[CustomerOf(ref)].owner # Nobody
    /\ SetJob(h, [Job("check", customers[CustomerOf(ref)].owner) EXCEPT
                    !.ref = ref, !.amount = SignOf(ref)])
    /\ UNCHANGED <<ledgerVars, memberVars, today, extras, mishap>>
handle_invoice_paid(h, i) == HookFor(h, i)
handle_charge_refunded(h, p) == HookFor(h, RefundOf(p))

\* customer.subscription.updated and .deleted, for a customer with an account.
set_stripe_subscription(c, live) ==
    /\ customers[c].owner # Nobody /\ customers[c].live # live
    /\ customers' = [customers EXCEPT ![c].live = live]
    /\ UNCHANGED <<ledgerVars, nextDue, tier, sessions, paid, jobs, today, extras, mishap>>
handle_subscription_updated(c) == set_stripe_subscription(c, TRUE)
handle_subscription_deleted(c) == set_stripe_subscription(c, FALSE)

-----------------------------------------------------------------------------
(* Staff. *)

\* admin_log_payment: a credit with no reference, so nothing to check first.
admin_log_payment(h, u, amount) ==
    /\ h \in Hooks /\ Where(h, "idle")
    /\ Extra
    /\ SetJob(h, [Job("insert", u) EXCEPT !.amount = amount])
    /\ UNCHANGED <<ledgerVars, memberVars, today, mishap>>

\* admin_set_next_due: the anniversary is moved, or the member un-enrolled.
admin_set_next_due(u, day) ==
    /\ Extra
    /\ nextDue[u] # day
    /\ nextDue' = [nextDue EXCEPT ![u] = day]
    /\ UNCHANGED <<ledgerVars, tier, customers, sessions, paid, jobs, today, mishap>>

-----------------------------------------------------------------------------
(* record_credit and settle_after_credit. *)

CheckReference(j) ==
    /\ Where(j, "check")
    /\ IF entry_exists(jobs[j].ref) THEN Return(j) ELSE Move(j, "insert")
    /\ UNCHANGED <<ledgerVars, memberVars, today, extras, mishap>>

\* A duplicate that slipped past the check is refused by the index, silently.
insert_ledger_entry(j) ==
    /\ Where(j, "insert")
    /\ \/ /\ jobs[j].ref = NoReference
          /\ other' = [other EXCEPT ![jobs[j].user] = @ + jobs[j].amount]
          /\ Move(j, "enrol") /\ UNCHANGED entries
       \/ /\ jobs[j].ref # NoReference /\ ~ refused_by_index(jobs[j].ref)
          /\ entries' = [entries EXCEPT ![jobs[j].ref] = @ + 1]
          /\ Move(j, "enrol") /\ UNCHANGED other
       \/ /\ jobs[j].ref # NoReference /\ refused_by_index(jobs[j].ref)
          /\ Return(j) /\ UNCHANGED <<entries, other>>
    /\ UNCHANGED <<duesPaid, memberVars, today, extras, mishap>>

\* settle_after_credit: an enrolled member's credit waits for the renewal.
settle_after_credit(j) ==
    /\ Where(j, "enrol")
    /\ IF nextDue[jobs[j].user] # NoDate THEN Return(j) ELSE Move(j, "afford")
    /\ UNCHANGED <<ledgerVars, memberVars, today, extras, mishap>>

StartMembership(j) ==
    /\ Where(j, "afford")
    /\ IF member_balance(jobs[j].user) >= 1
       THEN Move(j, "first") ELSE Return(j)
    /\ UNCHANGED <<ledgerVars, memberVars, today, extras, mishap>>

\* post_dues, for the first period, counted from today, and for a renewal.
post_dues(j) ==
    /\ jobs[j].pc \in {"first", "renew"}
    /\ duesPaid' = [duesPaid EXCEPT ![jobs[j].user] = @ + 1]
    /\ SetJob(j, [jobs[j] EXCEPT !.pc = "anchor",
                    !.next = advance_period(IF @ = NoDate THEN today ELSE @)])
    /\ UNCHANGED <<entries, other, memberVars, today, extras, mishap>>

set_membership_next_due(j) ==
    /\ Where(j, "anchor")
    /\ nextDue' = [nextDue EXCEPT ![jobs[j].user] = jobs[j].next]
    /\ Move(j, "role")
    /\ UNCHANGED <<ledgerVars, tier, customers, sessions, paid, today, extras, mishap>>

\* apply_role: the level, and who is the last administrator, are read ...
apply_role(j) ==
    /\ Where(j, "role")
    /\ LET u == jobs[j].user
           last == tier[u] = "admin" /\ count_active_admins <= 1
       IN  SetJob(j, [jobs[j] EXCEPT !.pc = "write",
                        !.role = plan_role_transition(tier[u], jobs[j].entitled, last)])
    /\ UNCHANGED <<ledgerVars, memberVars, today, extras, mishap>>

\* ... and the role is written, in a statement of its own.  The renewal loop
\* goes on with the date it has just set.
set_user_primary_role(j) ==
    /\ Where(j, "write")
    /\ tier' = IF jobs[j].role = NoChange THEN tier
               ELSE [tier EXCEPT ![jobs[j].user] = jobs[j].role]
    /\ IF jobs[j].back = "due" THEN Move(j, "loop") ELSE Return(j)
    /\ UNCHANGED <<ledgerVars, nextDue, customers, sessions, paid, today, extras, mishap>>

-----------------------------------------------------------------------------
(* run_cycle. *)

\* `owed`, which the code does not keep: what Stripe had been paid by members it
\* could name when the cycle began.
EnrolledOnly(c) == customers[c].owner # Nobody /\ nextDue[customers[c].owner] # NoDate
users_with_stripe_customer(c) == customers[c].owner # Nobody
run_cycle(j) ==
    /\ j \in Cycles /\ Where(j, "idle")
    /\ SetJob(j, [NoJob EXCEPT !.pc = "poll", !.back = "bills",
                    !.links = {c \in Customers : users_with_stripe_customer(c)},
                    !.owed = {r \in paid \cap Invoices : customers[CustomerOf(r)].owner # Nobody}])
    /\ UNCHANGED <<ledgerVars, memberVars, today, extras, mishap>>

\* list_paid_invoices: the customer's latest, no more than PollLimit of them.
Latest(c) ==
    LET mine == {i \in paid \cap Invoices : i[2] = c}
    IN  {i \in mine : Cardinality({k \in mine : k[3] > i[3]}) < PollLimit}
list_paid_invoices(j) ==
    /\ Where(j, "poll")
    /\ \E c \in jobs[j].links :
          SetJob(j, [jobs[j] EXCEPT !.pc = "bills", !.user = customers[c].owner,
                       !.links = @ \ {c}, !.bills = Latest(c)])
    /\ UNCHANGED <<ledgerVars, memberVars, today, extras, mishap>>

\* Each invoice goes through record_credit; then the next customer.
ReconcileNext(j) ==
    /\ Where(j, "bills")
    /\ IF jobs[j].bills = {} THEN Move(j, "poll")
       ELSE \E r \in jobs[j].bills :
               SetJob(j, [jobs[j] EXCEPT !.pc = "check", !.ref = r, !.amount = 1,
                            !.bills = @ \ {r}])
    /\ UNCHANGED <<ledgerVars, memberVars, today, extras, mishap>>

\* The dues pass, over those enrolled once the poll is done.
enrolled_users(j) ==
    /\ Where(j, "poll") /\ jobs[j].links = {}
    /\ SetJob(j, [NoJob EXCEPT !.pc = "due", !.back = "due", !.owed = jobs[j].owed,
                    !.users = {u \in Subscribers : nextDue[u] # NoDate}])
    /\ UNCHANGED <<ledgerVars, memberVars, today, extras, mishap>>

\* settle_renewal reads the clock and the member's date again.
settle_renewal(j) ==
    /\ Where(j, "due")
    /\ IF jobs[j].users = {} THEN SetJob(j, NoJob)
       ELSE \E u \in jobs[j].users :
               SetJob(j, [jobs[j] EXCEPT !.pc = "loop", !.user = u, !.users = @ \ {u},
                            !.now = today, !.next = nextDue[u]])
    /\ UNCHANGED <<ledgerVars, memberVars, today, extras, mishap>>

\* One turn of the loop: nothing due, a period to debit, or a lapse.
RenewalLoop(j) ==
    /\ Where(j, "loop")
    /\ LET due == jobs[j].next # NoDate /\ dues_due(jobs[j].next, jobs[j].now)
       IN  IF ~ due THEN Return(j)
           ELSE IF member_balance(jobs[j].user) >= 1
           THEN SetJob(j, [jobs[j] EXCEPT !.pc = "renew", !.entitled = TRUE])
           ELSE SetJob(j, [jobs[j] EXCEPT !.pc = "anchor", !.entitled = FALSE,
                             !.next = NoDate])
    /\ UNCHANGED <<ledgerVars, memberVars, today, extras, mishap>>

-----------------------------------------------------------------------------
(* Failures and the clock. *)

\* A call fails.  A webhook is answered with an error, for Stripe to deliver
\* again; the cycle counts it and goes on to the next invoice, customer or member.
JobFails(j) ==
    /\ Extra /\ mishap' = TRUE /\ jobs[j].pc \notin {"idle", "bills"}
    /\ CASE Where(j, "poll") /\ jobs[j].links # {} ->
               \E c \in jobs[j].links : SetJob(j, [jobs[j] EXCEPT !.links = @ \ {c}])
         [] Where(j, "poll") /\ jobs[j].links = {} -> SetJob(j, NoJob)
         [] Where(j, "due") ->
               \E u \in jobs[j].users : SetJob(j, [jobs[j] EXCEPT !.users = @ \ {u}])
         [] OTHER -> Return(j)
    /\ UNCHANGED <<ledgerVars, memberVars, today>>

ServerRestarts ==
    /\ Extra /\ mishap' = TRUE
    /\ \E j \in JobIds : ~ Where(j, "idle")
    /\ jobs' = [j \in JobIds |-> NoJob]
    /\ UNCHANGED <<ledgerVars, memberVars, today>>

DayPasses ==
    /\ today < MaxDay
    /\ today' = today + 1
    /\ UNCHANGED <<ledgerVars, memberVars, jobs, extras, mishap>>

-----------------------------------------------------------------------------
JobStep(j) ==
    \/ CheckReference(j) \/ insert_ledger_entry(j) \/ settle_after_credit(j)
    \/ StartMembership(j) \/ post_dues(j) \/ set_membership_next_due(j)
    \/ apply_role(j) \/ set_user_primary_role(j)
CycleStep(j) ==
    \/ run_cycle(j) \/ list_paid_invoices(j) \/ ReconcileNext(j) \/ enrolled_users(j)
    \/ settle_renewal(j) \/ RenewalLoop(j) \/ JobStep(j)

MembershipNext ==
    \/ \E h \in Hooks, u \in Subscribers, c \in Customers, oneShot \in BOOLEAN :
          handle_checkout_completed(h, u, c, oneShot)
    \/ \E u \in Subscribers, c \in Customers, oneShot \in BOOLEAN : create_checkout(u, c, oneShot)
    \/ \E c \in Customers, n \in 1..MaxInvoices : StripePaid(c, n)
    \/ \E c \in Customers : handle_subscription_updated(c) \/ handle_subscription_deleted(c)
    \/ \E h \in Hooks, i \in Invoices : handle_invoice_paid(h, i)
    \/ \E p \in Payments : StripeRefunds(p) \/ \E h \in Hooks : handle_charge_refunded(h, p)
    \/ \E u \in Subscribers, a \in StaffAmounts, h \in Hooks : admin_log_payment(h, u, a)
    \/ \E u \in Subscribers : admin_set_next_due(u, NoDate) \/ admin_set_next_due(u, today)
    \/ \E h \in Hooks : JobStep(h)
    \/ \E j \in Cycles : CycleStep(j)
    \/ \E j \in JobIds : JobFails(j)
    \/ ServerRestarts
    \/ DayPasses

\* The ticker runs the cycle for as long as the server does.  Nothing is assumed
\* of webhooks: an event may never be delivered, a request never finished.
MembershipFairness == \A j \in Cycles : WF_membershipVars(CycleStep(j))
MembershipSpec == MembershipInit /\ [][MembershipNext]_membershipVars /\ MembershipFairness

-----------------------------------------------------------------------------
(* Properties. *)

\* One ledger entry for each Stripe reference: two deliveries of an event, or a
\* delivery and the cycle's poll, between each other's check and insert, credit
\* a payment once (record_credit).
PaymentPostedOnce == \A r \in References : entries[r] <= 1

\* A paid invoice of a linked customer is credited in the end, though its webhook
\* is lost, the member has lapsed and calls fail: "correctness never depends on
\* webhook delivery" (membership.rs).
EveryPaymentIsCredited ==
    \A r \in Invoices :
        (r \in paid /\ customers[CustomerOf(r)].owner # Nobody) ~> entries[r] > 0

\* No spurious lapse: unless a call failed, by the time a cycle ends a membership
\* every payment Stripe had taken when that cycle began is in the ledger.
LapseSeesEveryPayment ==
    [][\A j \in Cycles :
        (Where(j, "loop") /\ jobs'[j].pc = "anchor" /\ ~ mishap)
            => \A r \in jobs[j].owed : entries[r] > 0]_membershipVars

\* The cycle never leaves the site without an administrator (the last-admin guard
\* of plan_role_transition), whatever a webhook grants between its two statements.
AnAdministratorRemains == FirstAdmins # {} => \E u \in Subscribers : tier[u] = "admin"

\* Dues that fall due are settled: by a debit or by a lapse, across gaps of
\* several periods, failures and restarts.
DuesAreSettled ==
    \A u \in Subscribers :
        (nextDue[u] # NoDate /\ nextDue[u] + GraceDays <= today)
            ~> (nextDue[u] = NoDate \/ nextDue[u] + GraceDays > today)

\* Money and roles stay honest while webhooks, staff and the cycle overlap: a payment counts once, it counts before
\* its membership is ended, and an administrator remains.
LedgerIsHonest ==
    [][PaymentPostedOnce' /\ AnAdministratorRemains']_membershipVars /\ LapseSeesEveryPayment
=============================================================================
