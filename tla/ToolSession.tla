---------------------------- MODULE ToolSession ----------------------------
(***************************************************************************)
(* A metered tool at the server: who may take it into use, the session row *)
(* that holds the member's money, the usage reported onto it, and the ways *)
(* it ends -- a stop, an edge's boot-reset, the session sweep              *)
(* (server/src/api/toolguard.rs, tool_billing.rs, session_sweep.rs).       *)
(*                                                                         *)
(* No handler holds a transaction: each database call is a step of its     *)
(* own, and handlers, the sweep, a database error in one of them and a     *)
(* crash of the server fall between the calls.  What the database does     *)
(* guarantee is in the steps: one open session for each tool and one       *)
(* ledger entry for each session (unique indexes), and updates conditional *)
(* on a status.                                                            *)
(*                                                                         *)
(* Billing is prepaid, at a flat fee and one unit a minute.  The clock is  *)
(* kept as ages in minutes, which stop counting at OldAge, past every      *)
(* comparison the code makes.                                              *)
(***************************************************************************)
EXTENDS Integers, FiniteSets, FiniteSetsExt

CONSTANTS
    Tools, Members,
    Handlers,       \* bound: requests being served at once
    SessionIds,     \* bound: rows of tool_usage_sessions
    Deposit,        \* what each member has paid in
    FlatFee,
    ToolCap,        \* usage_max_session_minutes of the tool
    HoldCap,        \* max_session_minutes of the member's rate tier
    SweepGrace,     \* session_grace_minutes
    StaffStatuses,  \* what staff set a tool to by hand
    MaxFailures     \* bound: database errors and crashes

ASSUME SessionAssumption ==
    /\ SessionIds \subseteq Nat
    /\ Deposit \in Nat /\ FlatFee \in Nat /\ MaxFailures \in Nat
    /\ ToolCap \in Nat \ {0} /\ HoldCap \in Nat \ {0} /\ SweepGrace \in Nat
    /\ StaffStatuses \subseteq {"idle", "in_use", "maintenance"}
    /\ "sweep" \notin Handlers

VARIABLES
    status,     \* tools.status
    since,      \* tool -> age of its latest activation event, if it was ever
                \* activated, and otherwise of its last status change
    rows,       \* tool_usage_sessions
    ledger,     \* session id -> what was debited for it, or None
    procs,      \* the requests being served, and the sweep
    failures    \* failures so far

sessionVars == <<status, since, rows, ledger, procs, failures>>

None == -1
OldAge == ToolCap + SweepGrace + 1
Older(age) == IF age < OldAge THEN age + 1 ELSE age
Least(a, b) == IF a <= b THEN a ELSE b

NoRow == [tool |-> None, member |-> None, age |-> 0, hold |-> 0, reported |-> 0,
          state |-> "none"]
\* A process at `pc`, about a tool and a member, going on to `then` when it has
\* settled and with `todo` still to do.
Task(pc, tool, member, then, todo) ==
    [pc |-> pc, tool |-> tool, member |-> member, seen |-> {}, row |-> None,
     amount |-> 0, then |-> then, todo |-> todo]
Done == Task("idle", None, None, "idle", {})
Procs == Handlers \cup {"sweep"}
Settling == {"settle", "post", "close"}

SessionInit ==
    /\ status = [t \in Tools |-> "idle"]
    /\ since = [t \in Tools |-> [activated |-> FALSE, age |-> 0]]
    /\ rows = [id \in SessionIds |-> NoRow]
    /\ ledger = [id \in SessionIds |-> None]
    /\ procs = [p \in Procs |-> Done]
    /\ failures = 0

is_open(id) == rows[id].state = "open"
OpenOn(t) == {id \in SessionIds : is_open(id) /\ rows[id].tool = t}
RowsReused == {id \in SessionIds : rows[id].state # "open"}
Fresh == {id \in SessionIds : rows[id].state = "none"}

\* A member's ledger balance, from the debits the query finds, and what the
\* open sessions hold of it.
Debits(m) == {id \in SessionIds : ledger[id] # None /\ rows[id].member = m}
BalanceAfter(debits) == Deposit - MapThenSumSet(LAMBDA id : ledger[id], debits)
sum_open_tool_holds(m) ==
    MapThenSumSet(LAMBDA id : rows[id].hold,
        {id \in SessionIds : is_open(id) /\ rows[id].member = m})

\* The prepaid hold: what a session as long as the member's cap would cost.
max_session_cost == FlatFee + HoldCap

\* The charge: reported usage, within the wall clock and the tool's cap.
UncappedCharge(row) == FlatFee + Least(row.reported, row.age)
session_charge(row) == FlatFee + Least(Least(row.reported, row.age), ToolCap)

\* Whether a session or an activation of this age is past the cap and grace.
abandoned(age) == age > ToolCap + SweepGrace

-----------------------------------------------------------------------------
(* What a step does to the process that takes it. *)

Goto(p, pc) == procs' = [procs EXCEPT ![p].pc = pc]
Finish(p) == procs' = [procs EXCEPT ![p] = Done]

\* Back from settle_open_session_for_tool to whoever called it.
Resume(p) ==
    IF procs[p].then = "idle" THEN Finish(p)
    ELSE procs' = [procs EXCEPT ![p] =
                     Task(procs[p].then, procs[p].tool, None, "idle", procs[p].todo)]

At(p, pc) == procs[p].pc = pc
IdleHandler(h) == h \in Handlers /\ At(h, "idle")

\* update_tool_status: unconditional, and it moves updated_at.
SetStatus(t, s) ==
    /\ status' = [status EXCEPT ![t] = s]
    /\ since' = [since EXCEPT ![t].age = IF since[t].activated THEN @ ELSE 0]

-----------------------------------------------------------------------------
(* activate_tool: a scan at the tool. *)

\* The tool was loaded and is idle; every other check passed.
Activate(h, t, m) ==
    /\ IdleHandler(h)
    /\ status[t] = "idle" /\ Fresh # {}
    /\ procs' = [procs EXCEPT ![h] = Task("opening", t, m, "idle", {})]
    /\ UNCHANGED <<status, since, rows, ledger, failures>>

\* open_session: refuse while a session is open on the tool.
CheckOpen(h) ==
    /\ At(h, "opening")
    /\ IF OpenOn(procs[h].tool) # {} THEN Finish(h) ELSE Goto(h, "balance")
    /\ UNCHANGED <<status, since, rows, ledger, failures>>

\* available_balance reads the ledger, then the holds: two queries.
ReadBalance(h) ==
    /\ At(h, "balance")
    /\ procs' = [procs EXCEPT ![h].pc = "gate", ![h].seen = Debits(procs[h].member)]
    /\ UNCHANGED <<status, since, rows, ledger, failures>>

available_balance(h) == BalanceAfter(procs[h].seen) - sum_open_tool_holds(procs[h].member)

Gate(h) ==
    /\ At(h, "gate")
    /\ IF available_balance(h) < max_session_cost THEN Finish(h) ELSE Goto(h, "insert")
    /\ UNCHANGED <<status, since, rows, ledger, failures>>

\* The hold.  A second open session on the tool breaks the unique index.
insert_tool_session(h) ==
    /\ At(h, "insert")
    /\ \/ /\ OpenOn(procs[h].tool) # {} \/ Fresh = {}
          /\ Finish(h) /\ UNCHANGED rows
       \/ /\ OpenOn(procs[h].tool) = {}
          /\ \E id \in Fresh :
                /\ \A other \in Fresh : id <= other
                /\ rows' = [rows EXCEPT ![id] =
                     [tool |-> procs[h].tool, member |-> procs[h].member, age |-> 0,
                      hold |-> max_session_cost, reported |-> 0, state |-> "open"]]
          /\ Goto(h, "take")
    /\ UNCHANGED <<status, since, ledger, failures>>

\* Idle to in use, unless the tool is no longer idle: then the scan is denied
\* and the session just opened stays.
try_activate_tool(h) ==
    /\ At(h, "take")
    /\ IF status[procs[h].tool] = "idle"
       THEN SetStatus(procs[h].tool, "in_use") /\ Goto(h, "event")
       ELSE Finish(h) /\ UNCHANGED <<status, since>>
    /\ UNCHANGED <<rows, ledger, failures>>

\* The activation event, from which the sweep counts.
LogActivation(h) ==
    /\ At(h, "event")
    /\ since' = [since EXCEPT ![procs[h].tool] = [activated |-> TRUE, age |-> 0]]
    /\ Finish(h)
    /\ UNCHANGED <<status, rows, ledger, failures>>

-----------------------------------------------------------------------------
(* report_tool_usage: a minute of use. *)

\* A report naming another member than the open session's is refused.
ReportUsage(h, t, m) ==
    /\ IdleHandler(h)
    /\ \A id \in OpenOn(t) : rows[id].member = m
    /\ procs' = [procs EXCEPT ![h] = Task("usage", t, None, "idle", {})]
    /\ UNCHANGED <<status, since, rows, ledger, failures>>

\* record_usage looks the open session up again.
record_usage(h) ==
    /\ At(h, "usage")
    /\ \/ OpenOn(procs[h].tool) = {} /\ Finish(h)
       \/ \E id \in OpenOn(procs[h].tool) :
             procs' = [procs EXCEPT ![h].pc = "add", ![h].row = id]
    /\ UNCHANGED <<status, since, rows, ledger, failures>>

\* One UPDATE, which finds nothing if the session closed meanwhile.  Past
\* OldAge minutes every cap is exceeded alike.
add_reported_seconds(h) ==
    /\ At(h, "add")
    /\ rows' = IF is_open(procs[h].row)
               THEN [rows EXCEPT ![procs[h].row].reported = Older(@)] ELSE rows
    /\ Finish(h)
    /\ UNCHANGED <<status, since, ledger, failures>>

-----------------------------------------------------------------------------
(* settle_open_session_for_tool, called by a stop, a boot-reset and the sweep. *)

Settle(p) ==
    /\ At(p, "settle")
    /\ \/ OpenOn(procs[p].tool) = {} /\ Resume(p)
       \/ \E id \in OpenOn(procs[p].tool) :
             procs' = [procs EXCEPT ![p].pc = "post", ![p].row = id,
                                    ![p].amount = session_charge(rows[id])]
    /\ UNCHANGED <<status, since, rows, ledger, failures>>

\* Whether the debit for this session is in: asked, and enforced by an index.
NoEntryExists(id) == FALSE
ledger_entry_exists_for_reference(id) == ledger[id] # None

PostDebit(p) ==
    /\ At(p, "post")
    /\ ledger' = IF ledger_entry_exists_for_reference(procs[p].row) THEN ledger
                 ELSE [ledger EXCEPT ![procs[p].row] = procs[p].amount]
    /\ Goto(p, "close")
    /\ UNCHANGED <<status, since, rows, failures>>

\* Close the session unless it is closed already.  Its age and usage are read
\* by nothing afterwards.
settle_tool_session(p) ==
    /\ At(p, "close")
    /\ rows' = IF is_open(procs[p].row)
               THEN [rows EXCEPT ![procs[p].row] =
                       [@ EXCEPT !.state = "closed", !.age = 0, !.reported = 0]]
               ELSE rows
    /\ Resume(p)
    /\ UNCHANGED <<status, since, ledger, failures>>

-----------------------------------------------------------------------------
(* deactivate_tool, boot_reset, staff. *)

\* A stop needs no badge and no session: the tool goes idle, whatever it was.
Stop(h, t) ==
    /\ IdleHandler(h)
    /\ SetStatus(t, "idle")
    /\ procs' = [procs EXCEPT ![h] = Task("settle", t, None, "idle", {})]
    /\ UNCHANGED <<rows, ledger, failures>>

\* Every tool in use when an edge boots.
BootReset(h) ==
    /\ IdleHandler(h)
    /\ \E t \in Tools : status[t] = "in_use"
    /\ procs' = [procs EXCEPT ![h] =
                   Task("boot", None, None, "idle", {t \in Tools : status[t] = "in_use"})]
    /\ UNCHANGED <<status, since, rows, ledger, failures>>

ResetNext(h) ==
    /\ At(h, "boot")
    /\ \/ /\ procs[h].todo = {} /\ Finish(h)
          /\ UNCHANGED <<status, since>>
       \/ \E t \in procs[h].todo :
             /\ SetStatus(t, "idle")
             /\ procs' = [procs EXCEPT ![h] =
                            Task("settle", t, None, "boot", procs[h].todo \ {t})]
    /\ UNCHANGED <<rows, ledger, failures>>

\* Staff set the status; no session is touched.
change_tool_status(t, s) ==
    /\ s \in StaffStatuses /\ s # status[t]
    /\ SetStatus(t, s)
    /\ UNCHANGED <<rows, ledger, procs, failures>>

-----------------------------------------------------------------------------
(* sweep_once. *)

\* The tools in use, and past their cap by the clock read as the pass starts.
\* A tool that is not is passed over, whatever happens meanwhile.
stale_tools == {t \in Tools : status[t] = "in_use" /\ abandoned(since[t].age)}

SweepStart ==
    /\ At("sweep", "idle")
    /\ procs' = [procs EXCEPT !["sweep"] = Task("sweep", None, None, "idle", stale_tools)]
    /\ UNCHANGED <<status, since, rows, ledger, failures>>

\* The latest activation is read tool by tool: a new one spares the tool.  The
\* billing side follows, with the open sessions past the cap as it starts.
OrphansForgotten == {}
sweep_abandoned == {id \in SessionIds : is_open(id) /\ abandoned(rows[id].age)}

SweepNext ==
    /\ At("sweep", "sweep")
    /\ \/ /\ procs["sweep"].todo = {}
          /\ procs' = [procs EXCEPT !["sweep"] =
                         Task("orphans", None, None, "idle", sweep_abandoned)]
       \/ \E t \in procs["sweep"].todo :
             procs' = [procs EXCEPT !["sweep"] =
                IF since[t].activated /\ ~ abandoned(since[t].age)
                THEN Task("sweep", None, None, "idle", procs["sweep"].todo \ {t})
                ELSE Task("settle", t, None, "release", procs["sweep"].todo \ {t})]
    /\ UNCHANGED <<status, since, rows, ledger, failures>>

\* Money first; the release does not wait on it.
release ==
    /\ At("sweep", "release")
    /\ SetStatus(procs["sweep"].tool, "idle")
    /\ procs' = [procs EXCEPT !["sweep"] =
                   Task("sweep", None, None, "idle", procs["sweep"].todo)]
    /\ UNCHANGED <<rows, ledger, failures>>

\* Each listed session's tool is settled -- by tool, not by session.
OrphanNext ==
    /\ At("sweep", "orphans")
    /\ \/ procs["sweep"].todo = {} /\ Finish("sweep")
       \/ \E id \in procs["sweep"].todo :
             procs' = [procs EXCEPT !["sweep"] =
                Task("settle", rows[id].tool, None, "orphans", procs["sweep"].todo \ {id})]
    /\ UNCHANGED <<status, since, rows, ledger, failures>>

-----------------------------------------------------------------------------
(* Failures and the clock. *)

FailedDebitIgnored(p) ==
    /\ failures < MaxFailures /\ ~ At(p, "idle")
    /\ CASE At(p, "post") -> Goto(p, "close")
         [] procs[p].pc \in Settling \ {"post"} -> Resume(p)
         [] OTHER -> Finish(p)
    /\ failures' = failures + 1
    /\ UNCHANGED <<status, since, rows, ledger>>

\* A database call fails.  A failed settle is logged and its caller goes on;
\* any other failure ends the request, or the sweep's pass -- one of them the
\* event boot_reset writes between a tool's new status and its settle.
DatabaseFails(p) ==
    /\ failures < MaxFailures /\ ~ At(p, "idle")
    /\ \/ procs[p].pc \in Settling /\ Resume(p)
       \/ /\ procs[p].pc \notin Settling \/ (At(p, "settle") /\ procs[p].then = "boot")
          /\ Finish(p)
    /\ failures' = failures + 1
    /\ UNCHANGED <<status, since, rows, ledger>>

\* The server stops where it is, and starts again.
Crash ==
    /\ failures < MaxFailures
    /\ \E p \in Procs : ~ At(p, "idle")
    /\ procs' = [p \in Procs |-> Done]
    /\ failures' = failures + 1
    /\ UNCHANGED <<status, since, rows, ledger>>

MinutePasses ==
    /\ since' = [t \in Tools |-> [since[t] EXCEPT !.age = Older(@)]]
    /\ rows' = [id \in SessionIds |->
                  IF is_open(id) THEN [rows[id] EXCEPT !.age = Older(@)] ELSE rows[id]]
    /\ <<since, rows>> # <<since', rows'>>
    /\ UNCHANGED <<status, ledger, procs, failures>>

-----------------------------------------------------------------------------
SettleStep(p) == Settle(p) \/ PostDebit(p) \/ settle_tool_session(p)
ActivateStep(h) ==
    \/ CheckOpen(h) \/ ReadBalance(h) \/ Gate(h)
    \/ insert_tool_session(h) \/ try_activate_tool(h) \/ LogActivation(h)
UsageStep(h) == record_usage(h) \/ add_reported_seconds(h)
SweepStep == SweepStart \/ SweepNext \/ release \/ OrphanNext \/ SettleStep("sweep")

SessionNext ==
    \/ \E h \in Handlers, t \in Tools, m \in Members : Activate(h, t, m) \/ ReportUsage(h, t, m)
    \/ \E h \in Handlers, t \in Tools : Stop(h, t)
    \/ \E h \in Handlers : BootReset(h) \/ ResetNext(h) \/ ActivateStep(h) \/ UsageStep(h)
                           \/ SettleStep(h)
    \/ \E t \in Tools, s \in StaffStatuses : change_tool_status(t, s)
    \/ SweepStep
    \/ \E p \in Procs : DatabaseFails(p)
    \/ Crash
    \/ MinutePasses

\* The sweep runs on a timer for as long as the server does, and time passes.
\* Nothing is assumed of the handlers: a request may never be finished.
SessionSpec ==
    SessionInit /\ [][SessionNext]_sessionVars
    /\ WF_sessionVars(SweepStep) /\ WF_sessionVars(MinutePasses)

-----------------------------------------------------------------------------
(* Properties. *)

\* The types of the tables and of what a process carries between its steps; a
\* list of sessions and a list of tools are never taken for one another.
Row == [tool: Tools \cup {None}, member: Members \cup {None}, age: Nat, hold: Nat,
        reported: Nat, state: {"none", "open", "closed"}]
Proc == [pc: {"idle", "opening", "balance", "gate", "insert", "take", "event", "usage", "add",
              "settle", "post", "close", "boot", "sweep", "release", "orphans"},
         tool: Tools \cup {None}, member: Members \cup {None}, seen: SUBSET SessionIds,
         row: SessionIds \cup {None}, amount: Nat,
         then: {"idle", "boot", "release", "orphans"}, todo: SUBSET (Tools \cup SessionIds)]
Lists(r) ==
    /\ "orphans" \in {r.pc, r.then} => r.todo \subseteq SessionIds
    /\ {r.pc, r.then} \cap {"boot", "sweep", "release"} # {} => r.todo \subseteq Tools
TypeOK ==
    /\ status \in [Tools -> {"idle", "in_use", "maintenance"}]
    /\ since \in [Tools -> [activated: BOOLEAN, age: Nat]]
    /\ rows \in [SessionIds -> Row]
    /\ ledger \in [SessionIds -> Nat \cup {None}]
    /\ procs \in [Procs -> Proc] /\ \A p \in Procs : Lists(procs[p])
    /\ failures \in Nat

\* A closed session has been debited: no interleaving of stop, boot-reset,
\* sweep, failed settle and crash closes a row whose charge was never posted
\* (settle_open_session_for_tool posts before it closes).
SettledIsLedgered == \A id \in SessionIds : rows[id].state = "closed" => ledger[id] # None

\* A session is debited at most what was held for it when it was opened
\* (max_session_cost, "the ceiling on any settled charge"), provided the
\* member's cap is not below the tool's.
ChargeWithinHold == \A id \in SessionIds : ledger[id] <= rows[id].hold

\* A session is debited once: two settles of it, or one repeated after a crash
\* between debit and close, never change what the ledger says.
DebitedOnce ==
    [][\A id \in SessionIds : ledger[id] # None => ledger'[id] = ledger[id]]_sessionVars

\* Every hold is given back: a session left open by a lost stop, a failed
\* settle, a crash, or a scan denied after its hold was placed, is closed
\* in the end.
EveryHoldIsReleased == \A id \in SessionIds : is_open(id) ~> ~ is_open(id)

\* Every tool is given back: one left in use by a device that never stopped it
\* does not stay so (session_sweep.rs: "the net under that instruction").
EveryToolIsReleased == \A t \in Tools : status[t] = "in_use" ~> status[t] # "in_use"

\* Both: the sweep returns what an activation took, though one process takes the
\* two, at different statements, and others give each back.
EverythingIsGivenBack == EveryHoldIsReleased /\ EveryToolIsReleased

-----------------------------------------------------------------------------
(* The promise: the session rows and the ledger, seen as a SessionLedger. *)

Ledger == INSTANCE SessionLedger WITH
            Ids <- SessionIds, Fee <- FlatFee, Hold <- max_session_cost,
            Unpaid <- None, charge <- ledger,
            session <- [id \in SessionIds |->
                          [phase |-> rows[id].state, tool |-> rows[id].tool,
                           member |-> rows[id].member, hold |-> rows[id].hold]]

\* Requests, sweep, failures and crashes together implement the promise: what
\* they do to a session row and its ledger entry is at each step an opening on a
\* tool without an open session, the one debit, a close after it, or nothing.
ImplementsLedger == Ledger!LedgerSpec
=============================================================================
