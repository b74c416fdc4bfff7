------------------------ MODULE ToolSession_proofs ------------------------
(***************************************************************************)
(* What holds of every session's money, for every number of tools,         *)
(* members, sessions, requests served at once and failures among them.     *)
(***************************************************************************)
EXTENDS ToolSession, TLAPS

\* The most a session can be charged.
Ceiling == FlatFee + ToolCap

\* What a process between reading a session and closing it may rely on: the
\* session was opened, the debit it is about to post is within the ceiling,
\* and by the time it is about to close the session a debit has been posted.
Pending(r) ==
    /\ r.pc \in {"post", "close"} => r.row \in SessionIds /\ rows[r.row].state # "none"
    /\ r.pc = "post" => r.amount <= Ceiling
    /\ r.pc = "close" => ledger[r.row] # None

Books ==
    \A id \in SessionIds :
        /\ rows[id].state # "none" => rows[id].hold = max_session_cost
        /\ ledger[id] # None => rows[id].state # "none" /\ ledger[id] <= Ceiling
        /\ rows[id].state = "closed" => ledger[id] # None

\* SettledIsLedgered is not inductive: between a debit and the close, only the
\* process about to close knows that the debit is in.
SettleInvariant ==
    /\ TypeOK
    /\ \A p \in Procs : Pending(procs[p])
    /\ Books

-----------------------------------------------------------------------------
\* A step that touches neither rows nor ledger, and leaves its process with a
\* well-formed record, keeps the invariant.
LEMMA ProcStep ==
    ASSUME SettleInvariant, NEW p \in Procs, NEW r \in Proc, Lists(r), Pending(r),
           procs' = [procs EXCEPT ![p] = r],
           status' \in [Tools -> {"idle", "in_use", "maintenance"}],
           since' \in [Tools -> [activated: BOOLEAN, age: Nat]],
           failures' \in Nat, UNCHANGED <<rows, ledger>>
    PROVE  SettleInvariant'
<1>1. procs' \in [Procs -> Proc] /\ \A q \in Procs : procs'[q] = IF q = p THEN r ELSE procs[q]
  BY DEF SettleInvariant, TypeOK
<1>2. \A q \in Procs : Lists(procs'[q]) /\ Pending(procs'[q])
  BY <1>1, Zenon DEF SettleInvariant, TypeOK
<1>3. \A q \in Procs : Lists(procs[q])' /\ Pending(procs[q])'
  BY <1>2 DEF Lists, Pending
<1> QED  BY <1>1, <1>3 DEF SettleInvariant, TypeOK, Books

\* The record of an idle process is well-formed.
LEMMA DoneTyped == Done \in Proc /\ Lists(Done) /\ Pending(Done)
BY DEF Done, Task, Proc, Lists, Pending, None

\* The record a process starts or resumes with at a point where it holds no row.
LEMMA TaskTyped ==
    ASSUME NEW pc \in {"idle", "opening", "usage", "settle", "boot", "sweep", "release", "orphans"},
           NEW then \in {"idle", "boot", "release", "orphans"},
           NEW tool \in Tools \cup {None}, NEW member \in Members \cup {None},
           NEW todo \in SUBSET (Tools \cup SessionIds),
           "orphans" \in {pc, then} => todo \subseteq SessionIds,
           {pc, then} \cap {"boot", "sweep", "release"} # {} => todo \subseteq Tools
    PROVE  LET r == Task(pc, tool, member, then, todo)
           IN  r \in Proc /\ Lists(r) /\ Pending(r) /\ r.pc = pc
BY DEF Task, Proc, Lists, Pending, None

\* Moving on to another point of the same request.
LEMMA MovingOn ==
    ASSUME SettleInvariant, NEW p \in Procs,
           NEW pc \in {"balance", "gate", "insert", "take", "event", "add"},
           NEW r, r = [procs[p] EXCEPT !.pc = pc]
    PROVE  r \in Proc /\ Lists(r) /\ Pending(r)
<1>1. procs[p] \in Proc /\ Lists(procs[p])
  BY DEF SettleInvariant, TypeOK
<1>2. r \in Proc /\ r.pc = pc /\ r.then = procs[p].then /\ r.todo = procs[p].todo
  BY <1>1 DEF Proc
<1> QED  BY <1>1, <1>2 DEF Lists, Pending

\* Leaving a settle for whoever called it, or ending.
LEMMA Leaving ==
    ASSUME SettleInvariant, NEW p \in Procs, Finish(p) \/ Resume(p)
    PROVE  \E r \in Proc : Lists(r) /\ Pending(r) /\ r.pc \notin {"post", "close"}
                           /\ procs' = [procs EXCEPT ![p] = r]
<1>1. Done.pc \notin {"post", "close"}
  BY DEF Done, Task
<1>2. CASE Finish(p)
  BY <1>1, <1>2, DoneTyped DEF Finish
<1>3. CASE Resume(p) /\ procs[p].then = "idle"
  BY <1>2, <1>3 DEF Resume
<1>4. CASE Resume(p) /\ procs[p].then # "idle"
  <2> DEFINE r == Task(procs[p].then, procs[p].tool, None, "idle", procs[p].todo)
  <2>1. procs[p] \in Proc /\ Lists(procs[p])
    BY DEF SettleInvariant, TypeOK
  <2>2. /\ procs[p].then \in {"boot", "release", "orphans"}
        /\ procs[p].tool \in Tools \cup {None}
        /\ procs[p].todo \in SUBSET (Tools \cup SessionIds)
    BY <1>4, <2>1 DEF Proc
  <2>3. /\ "orphans" \in {procs[p].then, "idle"} => procs[p].todo \subseteq SessionIds
        /\ {procs[p].then, "idle"} \cap {"boot", "sweep", "release"} # {} =>
              procs[p].todo \subseteq Tools
    BY <2>1 DEF Lists
  <2>4. r \in Proc /\ Lists(r) /\ Pending(r) /\ r.pc = procs[p].then
    BY <2>2, <2>3, TaskTyped
  <2>5. procs' = [procs EXCEPT ![p] = r]
    BY <1>4 DEF Resume
  <2> HIDE DEF r
  <2> QED  BY <2>2, <2>4, <2>5
<1> QED  BY <1>2, <1>3, <1>4

\* A status change keeps the types of what it writes.
LEMMA SetStatusTyped ==
    ASSUME TypeOK, NEW t, NEW st \in {"idle", "in_use", "maintenance"}, SetStatus(t, st)
    PROVE  /\ status' \in [Tools -> {"idle", "in_use", "maintenance"}]
           /\ since' \in [Tools -> [activated: BOOLEAN, age: Nat]]
BY DEF TypeOK, SetStatus

\* The charge computed at settle is within the ceiling.
LEMMA ChargeBounded ==
    ASSUME NEW row \in Row
    PROVE  session_charge(row) \in Nat /\ session_charge(row) <= Ceiling
BY SessionAssumption DEF SessionAssumption, Row, session_charge, Least, Ceiling

\* What an activation does: it only moves on, ends, or inserts an open row with
\* its hold.
LEMMA ActivationKeeps ==
    ASSUME SettleInvariant, NEW h \in Handlers,
           \/ \E t \in Tools, m \in Members : Activate(h, t, m)
           \/ ActivateStep(h)
    PROVE  SettleInvariant'
<1> h \in Procs
  BY DEF Procs
<1>t. /\ status \in [Tools -> {"idle", "in_use", "maintenance"}]
      /\ since \in [Tools -> [activated: BOOLEAN, age: Nat]]
      /\ failures \in Nat
      /\ procs \in [Procs -> Proc]
      /\ procs[h] \in Proc
  BY DEF SettleInvariant, TypeOK
<1>1. ASSUME NEW t \in Tools, NEW m \in Members, Activate(h, t, m)
      PROVE  SettleInvariant'
  <2> DEFINE r == Task("opening", t, m, "idle", {})
  <2>1. r \in Proc /\ Lists(r) /\ Pending(r)
    BY TaskTyped
  <2>2. procs' = [procs EXCEPT ![h] = r] /\ UNCHANGED <<status, since, rows, ledger, failures>>
    BY <1>1 DEF Activate
  <2> HIDE DEF r
  <2> QED  BY <1>t, <2>1, <2>2, ProcStep
<1>2. ASSUME Finish(h), UNCHANGED <<status, since, rows, ledger, failures>>
      PROVE  SettleInvariant'
  BY <1>t, <1>2, Leaving, ProcStep
<1>3. ASSUME NEW pc \in {"balance", "gate", "insert", "take", "event"}, Goto(h, pc),
             UNCHANGED <<rows, ledger, failures>>,
             status' \in [Tools -> {"idle", "in_use", "maintenance"}],
             since' \in [Tools -> [activated: BOOLEAN, age: Nat]]
      PROVE  SettleInvariant'
  <2> DEFINE r == [procs[h] EXCEPT !.pc = pc]
  <2>1. r \in Proc /\ Lists(r) /\ Pending(r)
    BY MovingOn
  <2>2. procs' = [procs EXCEPT ![h] = r]
    BY <1>3 DEF Goto
  <2> HIDE DEF r
  <2> QED  BY <1>t, <1>3, <2>1, <2>2, ProcStep
<1>4. CASE CheckOpen(h)
  BY <1>t, <1>2, <1>3, <1>4 DEF CheckOpen
<1>5. CASE ReadBalance(h)
  <2> DEFINE r == [procs[h] EXCEPT !.pc = "gate", !.seen = Debits(procs[h].member)]
  <2>1. Debits(procs[h].member) \in SUBSET SessionIds
    BY DEF Debits
  <2>2. r \in Proc /\ r.pc = "gate" /\ r.then = procs[h].then /\ r.todo = procs[h].todo
    BY <1>t, <2>1 DEF Proc
  <2>3. Lists(r) /\ Pending(r)
    <3>1. Lists(procs[h])
      BY DEF SettleInvariant, TypeOK
    <3> HIDE DEF r
    <3> QED  BY <2>2, <3>1 DEF Lists, Pending
  <2>4. procs' = [procs EXCEPT ![h] = r] /\ UNCHANGED <<status, since, rows, ledger, failures>>
    BY <1>5, <1>t DEF ReadBalance, Proc
  <2> HIDE DEF r
  <2> QED  BY <1>t, <2>2, <2>3, <2>4, ProcStep
<1>6. CASE Gate(h)
  BY <1>t, <1>2, <1>3, <1>6 DEF Gate
<1>7. CASE insert_tool_session(h)
  <2>1. CASE Finish(h) /\ UNCHANGED rows
    BY <1>2, <1>7, <2>1 DEF insert_tool_session
  <2>2. ASSUME NEW id \in Fresh,
               rows' = [rows EXCEPT ![id] =
                  [tool |-> procs[h].tool, member |-> procs[h].member, age |-> 0,
                   hold |-> max_session_cost, reported |-> 0, state |-> "open"]],
               Goto(h, "take")
        PROVE  SettleInvariant'
    <3> DEFINE r == [procs[h] EXCEPT !.pc = "take"]
               row == [tool |-> procs[h].tool, member |-> procs[h].member, age |-> 0,
                       hold |-> max_session_cost, reported |-> 0, state |-> "open"]
    <3>1. r \in Proc /\ Lists(r) /\ r.pc = "take"
      BY <1>t, MovingOn DEF Proc
    <3>2. row \in Row /\ row.hold = max_session_cost /\ row.state = "open"
      BY <1>t, SessionAssumption DEF Proc, Row, max_session_cost, SessionAssumption
    <3>3. id \in SessionIds /\ rows[id].state = "none" /\ ledger[id] = None
      BY DEF Fresh, SettleInvariant, Books
    <3>4. procs' = [procs EXCEPT ![h] = r] /\ rows' = [rows EXCEPT ![id] = row]
      BY <2>2 DEF Goto
    <3>5. UNCHANGED <<status, since, ledger, failures>>
      BY <1>7 DEF insert_tool_session
    <3> HIDE DEF r, row
    <3>6. /\ procs' \in [Procs -> Proc]
          /\ \A q \in Procs : procs'[q] = IF q = h THEN r ELSE procs[q]
          /\ rows' \in [SessionIds -> Row]
          /\ \A i \in SessionIds : rows'[i] = IF i = id THEN row ELSE rows[i]
      BY <3>1, <3>2, <3>3, <3>4 DEF SettleInvariant, TypeOK
    <3>7. TypeOK'
      <4>1. \A q \in Procs : Lists(procs'[q])
        BY <3>1, <3>6, Zenon DEF SettleInvariant, TypeOK
      <4>2. \A q \in Procs : Lists(procs[q])'
        BY <4>1 DEF Lists
      <4> QED  BY <3>5, <3>6, <4>2 DEF SettleInvariant, TypeOK
    <3>8. \A q \in Procs : Pending(procs[q])'
      BY <3>1, <3>2, <3>3, <3>5, <3>6 DEF SettleInvariant, Pending
    <3>9. Books'
      BY <3>2, <3>3, <3>5, <3>6 DEF SettleInvariant, Books, max_session_cost
    <3> QED  BY <3>7, <3>8, <3>9 DEF SettleInvariant
  <2> QED  BY <1>7, <2>1, <2>2 DEF insert_tool_session
<1>8. CASE try_activate_tool(h)
  <2>1. CASE Finish(h) /\ UNCHANGED <<status, since>>
    BY <1>2, <1>8, <2>1 DEF try_activate_tool
  <2>2. CASE SetStatus(procs[h].tool, "in_use") /\ Goto(h, "event")
    BY <1>3, <1>8, <2>2, SetStatusTyped DEF try_activate_tool, SettleInvariant
  <2> QED  BY <1>8, <2>1, <2>2 DEF try_activate_tool
<1>9. CASE LogActivation(h)
  <2>1. since' \in [Tools -> [activated: BOOLEAN, age: Nat]]
    BY <1>9, <1>t DEF LogActivation
  <2>2. Finish(h) /\ UNCHANGED <<status, rows, ledger, failures>>
    BY <1>9 DEF LogActivation
  <2> QED  BY <1>t, <2>1, <2>2, Leaving, ProcStep
<1> QED
  BY <1>1, <1>4, <1>5, <1>6, <1>7, <1>8, <1>9 DEF ActivateStep

\* An age, and a count of minutes, stays a natural number.
LEMMA OlderTyped == ASSUME NEW age \in Nat PROVE Older(age) \in Nat
BY DEF Older

\* A step that rewrites rows without reopening, closing or re-pricing any.
LEMMA RowsTouched ==
    ASSUME SettleInvariant, rows' \in [SessionIds -> Row],
           \A id \in SessionIds : rows'[id].state = rows[id].state /\ rows'[id].hold = rows[id].hold,
           UNCHANGED <<ledger, procs>>,
           status' \in [Tools -> {"idle", "in_use", "maintenance"}],
           since' \in [Tools -> [activated: BOOLEAN, age: Nat]], failures' \in Nat
    PROVE  SettleInvariant'
<1>1. TypeOK'
  BY DEF SettleInvariant, TypeOK, Lists
<1>2. \A q \in Procs : Pending(procs[q])'
  BY DEF SettleInvariant, Pending
<1>3. Books'
  BY DEF SettleInvariant, Books, max_session_cost
<1> QED  BY <1>1, <1>2, <1>3 DEF SettleInvariant

\* Usage changes what is reported and nothing else.
LEMMA UsageKeeps ==
    ASSUME SettleInvariant, NEW h \in Handlers,
           \/ \E t \in Tools, m \in Members : ReportUsage(h, t, m)
           \/ UsageStep(h)
    PROVE  SettleInvariant'
<1> h \in Procs
  BY DEF Procs
<1>t. /\ status \in [Tools -> {"idle", "in_use", "maintenance"}]
      /\ since \in [Tools -> [activated: BOOLEAN, age: Nat]]
      /\ failures \in Nat
      /\ procs \in [Procs -> Proc] /\ procs[h] \in Proc
      /\ rows \in [SessionIds -> Row]
  BY DEF SettleInvariant, TypeOK
<1>1. ASSUME NEW t \in Tools, NEW m \in Members, ReportUsage(h, t, m)
      PROVE  SettleInvariant'
  <2> DEFINE r == Task("usage", t, None, "idle", {})
  <2>1. r \in Proc /\ Lists(r) /\ Pending(r)
    BY DEF Task, Proc, Lists, Pending, None
  <2>2. procs' = [procs EXCEPT ![h] = r] /\ UNCHANGED <<status, since, rows, ledger, failures>>
    BY <1>1 DEF ReportUsage
  <2> HIDE DEF r
  <2> QED  BY <1>t, <2>1, <2>2, ProcStep
<1>2. CASE record_usage(h)
  <2>1. CASE Finish(h)
    BY <1>t, <1>2, <2>1, Leaving, ProcStep DEF record_usage
  <2>2. ASSUME NEW id \in OpenOn(procs[h].tool),
               procs' = [procs EXCEPT ![h].pc = "add", ![h].row = id]
        PROVE  SettleInvariant'
    <3> DEFINE r == [procs[h] EXCEPT !.pc = "add", !.row = id]
    <3>1. id \in SessionIds
      BY DEF OpenOn
    <3>2. r \in Proc /\ r.pc = "add" /\ r.then = procs[h].then /\ r.todo = procs[h].todo
      BY <1>t, <3>1 DEF Proc
    <3>3. procs' = [procs EXCEPT ![h] = r]
      BY <1>t, <2>2 DEF Proc
    <3> HIDE DEF r
    <3>4. Lists(r) /\ Pending(r)
      <4>1. Lists(procs[h])
        BY DEF SettleInvariant, TypeOK
      <4> QED  BY <3>2, <4>1 DEF Lists, Pending
    <3> QED  BY <1>t, <1>2, <3>2, <3>3, <3>4, ProcStep DEF record_usage
  <2> QED  BY <1>2, <2>1, <2>2 DEF record_usage
<1>3. CASE add_reported_seconds(h)
  <2> DEFINE more(row) == [row EXCEPT !.reported = Older(row.reported)]
  <2>0. ASSUME NEW row \in Row
        PROVE  more(row) \in Row /\ more(row).state = row.state /\ more(row).hold = row.hold
    <3>1. Older(row.reported) \in Nat
      BY OlderTyped DEF Row
    <3> QED  BY <3>1 DEF Row
  <2>r. rows' = rows \/ rows' = [rows EXCEPT ![procs[h].row] = more(rows[procs[h].row])]
    BY <1>3 DEF add_reported_seconds
  <2> HIDE DEF more
  <2>1. rows' \in [SessionIds -> Row]
    BY <1>t, <2>0, <2>r
  <2>2. \A id \in SessionIds : rows'[id].state = rows[id].state /\ rows'[id].hold = rows[id].hold
    BY <1>t, <2>0, <2>r
  <2>3. UNCHANGED <<status, since, ledger, failures>>
    BY <1>3 DEF add_reported_seconds
  <2>4. PICK r \in Proc : /\ Lists(r) /\ Pending(r) /\ r.pc \notin {"post", "close"}
                          /\ procs' = [procs EXCEPT ![h] = r]
    BY <1>3, Leaving DEF add_reported_seconds
  <2>5. procs' \in [Procs -> Proc] /\ \A q \in Procs : procs'[q] = IF q = h THEN r ELSE procs[q]
    BY <1>t, <2>4
  <2>6. \A q \in Procs : Lists(procs'[q]) /\ Pending(procs'[q])
    BY <2>4, <2>5, Zenon DEF SettleInvariant, TypeOK
  <2>7. TypeOK'
    <3>1. \A q \in Procs : Lists(procs[q])'
      BY <2>6 DEF Lists
    <3> QED  BY <1>t, <2>1, <2>3, <2>5, <3>1 DEF SettleInvariant, TypeOK
  <2>8. \A q \in Procs : Pending(procs[q])'
    BY <2>2, <2>3, <2>6 DEF Pending
  <2>9. Books'
    BY <2>2, <2>3 DEF SettleInvariant, Books, max_session_cost
  <2> QED  BY <2>7, <2>8, <2>9 DEF SettleInvariant
<1> QED  BY <1>1, <1>2, <1>3 DEF UsageStep

\* A settle posts before it closes, and closes only what was posted.
LEMMA SettleKeeps ==
    ASSUME SettleInvariant, NEW p \in Procs, SettleStep(p)
    PROVE  SettleInvariant'
<1>t. /\ status \in [Tools -> {"idle", "in_use", "maintenance"}]
      /\ since \in [Tools -> [activated: BOOLEAN, age: Nat]]
      /\ failures \in Nat
      /\ procs \in [Procs -> Proc] /\ procs[p] \in Proc /\ Lists(procs[p]) /\ Pending(procs[p])
      /\ rows \in [SessionIds -> Row]
      /\ ledger \in [SessionIds -> Nat \cup {None}]
  BY DEF SettleInvariant, TypeOK
<1>1. CASE Settle(p)
  <2>1. CASE Resume(p)
    BY <1>t, <1>1, <2>1, Leaving, ProcStep DEF Settle
  <2>2. ASSUME NEW id \in OpenOn(procs[p].tool),
               procs' = [procs EXCEPT ![p].pc = "post", ![p].row = id,
                                      ![p].amount = session_charge(rows[id])]
        PROVE  SettleInvariant'
    <3> DEFINE charge == session_charge(rows[id])
               r == [procs[p] EXCEPT !.pc = "post", !.row = id, !.amount = charge]
    <3>1. id \in SessionIds /\ rows[id].state = "open" /\ rows[id] \in Row
      BY <1>t DEF OpenOn, is_open
    <3>2. charge \in Nat /\ charge <= Ceiling
      BY <3>1, ChargeBounded
    <3>3. procs' = [procs EXCEPT ![p] = r]
      BY <1>t, <2>2 DEF Proc
    <3> HIDE DEF charge
    <3>4. /\ r \in Proc /\ r.pc = "post" /\ r.row = id /\ r.amount = charge
          /\ r.then = procs[p].then /\ r.todo = procs[p].todo
      BY <1>t, <3>1, <3>2 DEF Proc
    <3> HIDE DEF r
    <3>5. Lists(r) /\ Pending(r)
      BY <1>t, <3>1, <3>2, <3>4 DEF Lists, Pending
    <3> QED  BY <1>t, <1>1, <3>3, <3>4, <3>5, ProcStep DEF Settle
  <2> QED  BY <1>1, <2>1, <2>2 DEF Settle
<1>2. CASE PostDebit(p)
  <2> DEFINE r == [procs[p] EXCEPT !.pc = "close"]
             id == procs[p].row
  <2>1. /\ id \in SessionIds /\ rows[id].state # "none"
        /\ procs[p].amount \in Nat /\ procs[p].amount <= Ceiling
    BY <1>2, <1>t DEF PostDebit, At, Pending, Proc
  <2>2. /\ r \in Proc /\ r.pc = "close" /\ r.row = id
        /\ r.then = procs[p].then /\ r.todo = procs[p].todo
    BY <1>t DEF Proc
  <2>3. procs' = [procs EXCEPT ![p] = r]
    BY <1>2 DEF PostDebit, Goto
  <2>4. UNCHANGED <<status, since, rows, failures>>
    BY <1>2 DEF PostDebit
  <2>5. /\ ledger' \in [SessionIds -> Nat \cup {None}]
        /\ ledger'[id] # None
        /\ \A i \in SessionIds : \/ ledger'[i] = ledger[i]
                                 \/ i = id /\ ledger'[i] = procs[p].amount
        /\ \A i \in SessionIds : ledger[i] # None => ledger'[i] # None
    BY <1>2, <1>t, <2>1 DEF PostDebit, ledger_entry_exists_for_reference, None
  <2> HIDE DEF r, id
  <2>6. procs' \in [Procs -> Proc] /\ \A q \in Procs : procs'[q] = IF q = p THEN r ELSE procs[q]
    BY <1>t, <2>2, <2>3
  <2>7. TypeOK'
    <3>1. Lists(r)
      BY <1>t, <2>2 DEF Lists
    <3>2. \A q \in Procs : Lists(procs'[q])
      BY <2>6, <3>1, Zenon DEF SettleInvariant, TypeOK
    <3>3. \A q \in Procs : Lists(procs[q])'
      BY <3>2 DEF Lists
    <3> QED  BY <1>t, <2>4, <2>5, <2>6, <3>3 DEF SettleInvariant, TypeOK
  <2>8. \A q \in Procs : Pending(procs[q])'
    <3> SUFFICES ASSUME NEW q \in Procs PROVE Pending(procs[q])'
      OBVIOUS
    <3>1. CASE q = p
      BY <2>1, <2>2, <2>4, <2>5, <2>6, <3>1 DEF Pending
    <3>2. CASE q # p
      <4>1. procs'[q] = procs[q] /\ Pending(procs[q])
        BY <2>6, <3>2 DEF SettleInvariant
      <4> QED  BY <2>4, <2>5, <4>1 DEF Pending
    <3> QED  BY <3>1, <3>2
  <2>9. Books'
    BY <2>1, <2>4, <2>5 DEF SettleInvariant, Books, max_session_cost, Ceiling
  <2> QED  BY <2>7, <2>8, <2>9 DEF SettleInvariant
<1>3. CASE settle_tool_session(p)
  <2> DEFINE id == procs[p].row
  <2>1. id \in SessionIds /\ rows[id].state # "none" /\ ledger[id] # None
    BY <1>3, <1>t DEF settle_tool_session, At, Pending
  <2>2. UNCHANGED <<status, since, ledger, failures>>
    BY <1>3 DEF settle_tool_session
  <2>3. /\ rows' \in [SessionIds -> Row]
        /\ \A i \in SessionIds :
              /\ rows'[i].hold = rows[i].hold
              /\ i # id => rows'[i].state = rows[i].state
              /\ rows[i].state # "none" => rows'[i].state # "none"
              /\ rows'[i].state # "none" => rows[i].state # "none"
    <3> DEFINE closed(row) == [row EXCEPT !.state = "closed", !.age = 0, !.reported = 0]
    <3>1. ASSUME NEW row \in Row
          PROVE  closed(row) \in Row /\ closed(row).hold = row.hold
                 /\ closed(row).state = "closed"
      BY DEF Row
    <3>2. rows' = rows \/ rows' = [rows EXCEPT ![id] = closed(rows[id])]
      BY <1>3 DEF settle_tool_session
    <3> HIDE DEF closed
    <3> QED  BY <1>t, <2>1, <3>1, <3>2
  <2>4. PICK r \in Proc : /\ Lists(r) /\ Pending(r) /\ r.pc \notin {"post", "close"}
                          /\ procs' = [procs EXCEPT ![p] = r]
    BY <1>3, Leaving DEF settle_tool_session
  <2> HIDE DEF id
  <2>5. procs' \in [Procs -> Proc] /\ \A q \in Procs : procs'[q] = IF q = p THEN r ELSE procs[q]
    BY <1>t, <2>4
  <2>6. \A q \in Procs : Lists(procs'[q]) /\ Pending(procs'[q])
    BY <2>4, <2>5, Zenon DEF SettleInvariant, TypeOK
  <2>7. TypeOK'
    <3>1. \A q \in Procs : Lists(procs[q])'
      BY <2>6 DEF Lists
    <3> QED  BY <1>t, <2>2, <2>3, <2>5, <3>1 DEF SettleInvariant, TypeOK
  <2>8. \A q \in Procs : Pending(procs[q])'
    BY <2>2, <2>3, <2>6 DEF Pending
  <2>9. Books'
    BY <2>1, <2>2, <2>3 DEF SettleInvariant, Books, max_session_cost
  <2> QED  BY <2>7, <2>8, <2>9 DEF SettleInvariant
<1> QED  BY <1>1, <1>2, <1>3 DEF SettleStep

\* A process that takes up a task it was given the list for.
LEMMA TaskStep ==
    ASSUME SettleInvariant, NEW p \in Procs, NEW r \in Proc, Lists(r),
           r.pc \notin {"post", "close"}, procs' = [procs EXCEPT ![p] = r],
           UNCHANGED <<rows, ledger, failures>>,
           UNCHANGED <<status, since>> \/ \E t : SetStatus(t, "idle")
    PROVE  SettleInvariant'
<1>1. Pending(r)
  BY DEF Pending
<1>2. /\ status' \in [Tools -> {"idle", "in_use", "maintenance"}]
      /\ since' \in [Tools -> [activated: BOOLEAN, age: Nat]]
      /\ failures' \in Nat
  BY SetStatusTyped DEF SettleInvariant, TypeOK
<1> QED  BY <1>1, <1>2, ProcStep

\* Stops, boot-resets and staff leave rows and ledger to the settle they start.
LEMMA ReleaseKeeps ==
    ASSUME SettleInvariant, NEW h \in Handlers,
           (\E t \in Tools : Stop(h, t)) \/ BootReset(h) \/ ResetNext(h)
    PROVE  SettleInvariant'
<1> h \in Procs
  BY DEF Procs
<1>t. procs[h] \in Proc /\ Lists(procs[h])
  BY DEF SettleInvariant, TypeOK
<1>1. ASSUME NEW t \in Tools, Stop(h, t)
      PROVE  SettleInvariant'
  <2> DEFINE r == Task("settle", t, None, "idle", {})
  <2>1. r \in Proc /\ Lists(r) /\ r.pc = "settle"
    BY DEF Task, Proc, Lists, None
  <2>2. procs' = [procs EXCEPT ![h] = r] /\ UNCHANGED <<rows, ledger, failures>>
        /\ SetStatus(t, "idle")
    BY <1>1 DEF Stop
  <2> HIDE DEF r
  <2> QED  BY <2>1, <2>2, TaskStep
<1>2. CASE BootReset(h)
  <2> DEFINE todo == {t \in Tools : status[t] = "in_use"}
             r == Task("boot", None, None, "idle", todo)
  <2>0. todo \subseteq Tools
    OBVIOUS
  <2>1. procs' = [procs EXCEPT ![h] = r] /\ UNCHANGED <<status, since, rows, ledger, failures>>
    BY <1>2 DEF BootReset
  <2> HIDE DEF todo
  <2>2. r \in Proc /\ Lists(r) /\ r.pc = "boot"
    BY <2>0 DEF Task, Proc, Lists, None
  <2> HIDE DEF r
  <2> QED  BY <2>1, <2>2, TaskStep
<1>3. CASE ResetNext(h)
  <2>1. CASE Finish(h) /\ UNCHANGED <<status, since>>
    <3>1. PICK r \in Proc : /\ Lists(r) /\ r.pc \notin {"post", "close"}
                            /\ procs' = [procs EXCEPT ![h] = r]
      BY <2>1, Leaving
    <3> QED  BY <1>3, <2>1, <3>1, TaskStep DEF ResetNext
  <2>2. ASSUME NEW t \in procs[h].todo, SetStatus(t, "idle"),
               procs' = [procs EXCEPT ![h] =
                            Task("settle", t, None, "boot", procs[h].todo \ {t})]
        PROVE  SettleInvariant'
    <3> DEFINE todo == procs[h].todo \ {t}
               r == Task("settle", t, None, "boot", todo)
    <3>0. todo \subseteq Tools /\ t \in Tools
      BY <1>3, <1>t DEF ResetNext, At, Lists
    <3>1. procs' = [procs EXCEPT ![h] = r] /\ UNCHANGED <<rows, ledger, failures>>
      BY <1>3, <2>2 DEF ResetNext
    <3> HIDE DEF todo
    <3>2. r \in Proc /\ Lists(r) /\ r.pc = "settle"
      BY <3>0 DEF Task, Proc, Lists, None
    <3> HIDE DEF r
    <3> QED  BY <2>2, <3>1, <3>2, TaskStep
  <2> QED  BY <1>3, <2>1, <2>2 DEF ResetNext
<1> QED  BY <1>1, <1>2, <1>3

\* The sweep's own steps leave rows and ledger to the settle they start.
LEMMA SweepKeeps ==
    ASSUME SettleInvariant, SweepStart \/ SweepNext \/ release \/ OrphanNext
    PROVE  SettleInvariant'
<1> DEFINE sweep == procs["sweep"]
<1>p. "sweep" \in Procs
  BY DEF Procs
<1>t. sweep \in Proc /\ Lists(sweep) /\ rows \in [SessionIds -> Row]
  BY <1>p DEF SettleInvariant, TypeOK
<1>1. CASE SweepStart
  <2> DEFINE r == Task("sweep", None, None, "idle", stale_tools)
  <2>0. stale_tools \subseteq Tools
    BY DEF stale_tools
  <2>1. r \in Proc /\ Lists(r) /\ r.pc = "sweep"
    BY <2>0 DEF Task, Proc, Lists, None
  <2>2. procs' = [procs EXCEPT !["sweep"] = r]
        /\ UNCHANGED <<status, since, rows, ledger, failures>>
    BY <1>1 DEF SweepStart
  <2> HIDE DEF r
  <2> QED  BY <1>p, <2>1, <2>2, TaskStep
<1>2. CASE SweepNext
  <2>u. UNCHANGED <<status, since, rows, ledger, failures>> /\ sweep.todo \subseteq Tools
    BY <1>2, <1>t DEF SweepNext, At, Lists
  <2>1. ASSUME procs' = [procs EXCEPT !["sweep"] =
                           Task("orphans", None, None, "idle", sweep_abandoned)]
        PROVE  SettleInvariant'
    <3> DEFINE r == Task("orphans", None, None, "idle", sweep_abandoned)
    <3>0. sweep_abandoned \subseteq SessionIds
      BY DEF sweep_abandoned
    <3>1. r \in Proc /\ Lists(r) /\ r.pc = "orphans"
      BY <3>0 DEF Task, Proc, Lists, None
    <3>2. procs' = [procs EXCEPT !["sweep"] = r]
      BY <2>1
    <3> HIDE DEF r
    <3> QED  BY <1>p, <2>u, <3>1, <3>2, TaskStep
  <2>2. ASSUME NEW t \in sweep.todo, NEW r,
               \/ r = Task("sweep", None, None, "idle", sweep.todo \ {t})
               \/ r = Task("settle", t, None, "release", sweep.todo \ {t}),
               procs' = [procs EXCEPT !["sweep"] = r]
        PROVE  SettleInvariant'
    <3> DEFINE rest == sweep.todo \ {t}
    <3>1. rest \subseteq Tools /\ t \in Tools
      BY <2>u
    <3>2. \/ r = Task("sweep", None, None, "idle", rest)
          \/ r = Task("settle", t, None, "release", rest)
      BY <2>2
    <3> HIDE DEF rest
    <3>3. r \in Proc /\ Lists(r) /\ r.pc \notin {"post", "close"}
      BY <3>1, <3>2 DEF Task, Proc, Lists, None
    <3> QED  BY <1>p, <2>u, <2>2, <3>3, TaskStep
  <2> QED  BY <1>2, <2>1, <2>2 DEF SweepNext
<1>3. CASE release
  <2> DEFINE todo == sweep.todo
             r == Task("sweep", None, None, "idle", todo)
  <2>0. todo \subseteq Tools
    BY <1>3, <1>t DEF release, At, Lists
  <2>1. procs' = [procs EXCEPT !["sweep"] = r] /\ UNCHANGED <<rows, ledger, failures>>
        /\ SetStatus(sweep.tool, "idle")
    BY <1>3 DEF release
  <2> HIDE DEF todo
  <2>2. r \in Proc /\ Lists(r) /\ r.pc = "sweep"
    BY <2>0 DEF Task, Proc, Lists, None
  <2> HIDE DEF r
  <2> QED  BY <1>p, <2>1, <2>2, TaskStep
<1>4. CASE OrphanNext
  <2>u. UNCHANGED <<status, since, rows, ledger, failures>> /\ sweep.todo \subseteq SessionIds
    BY <1>4, <1>t DEF OrphanNext, At, Lists
  <2>1. CASE Finish("sweep")
    <3>1. PICK r \in Proc : /\ Lists(r) /\ r.pc \notin {"post", "close"}
                            /\ procs' = [procs EXCEPT !["sweep"] = r]
      BY <1>p, <2>1, Leaving
    <3> QED  BY <1>p, <2>u, <3>1, TaskStep
  <2>2. ASSUME NEW id \in sweep.todo,
               procs' = [procs EXCEPT !["sweep"] =
                   Task("settle", rows[id].tool, None, "orphans", sweep.todo \ {id})]
        PROVE  SettleInvariant'
    <3> DEFINE rest == sweep.todo \ {id}
               tool == rows[id].tool
               r == Task("settle", tool, None, "orphans", rest)
    <3>1. rest \subseteq SessionIds /\ tool \in Tools \cup {None}
      BY <1>t, <2>u DEF Row
    <3>2. procs' = [procs EXCEPT !["sweep"] = r]
      BY <2>2
    <3> HIDE DEF rest, tool
    <3>3. r \in Proc /\ Lists(r) /\ r.pc = "settle"
      BY <3>1 DEF Task, Proc, Lists, None
    <3> HIDE DEF r
    <3> QED  BY <1>p, <2>u, <3>2, <3>3, TaskStep
  <2> QED  BY <1>4, <2>1, <2>2 DEF OrphanNext
<1> QED  BY <1>1, <1>2, <1>3, <1>4

\* Failures, staff and the clock.
LEMMA OutsideKeeps ==
    ASSUME SettleInvariant,
           \/ \E t \in Tools, st \in StaffStatuses : change_tool_status(t, st)
           \/ \E p \in Procs : DatabaseFails(p)
           \/ Crash \/ MinutePasses
    PROVE  SettleInvariant'
<1>t. /\ status \in [Tools -> {"idle", "in_use", "maintenance"}]
      /\ since \in [Tools -> [activated: BOOLEAN, age: Nat]]
      /\ failures \in Nat
      /\ procs \in [Procs -> Proc]
      /\ rows \in [SessionIds -> Row]
  BY DEF SettleInvariant, TypeOK
<1>1. ASSUME NEW t \in Tools, NEW st \in StaffStatuses, change_tool_status(t, st)
      PROVE  SettleInvariant'
  <2>1. /\ status' \in [Tools -> {"idle", "in_use", "maintenance"}]
        /\ since' \in [Tools -> [activated: BOOLEAN, age: Nat]]
        /\ UNCHANGED <<rows, ledger, procs, failures>>
    BY <1>1, SetStatusTyped, SessionAssumption
       DEF change_tool_status, SettleInvariant, SessionAssumption
  <2> QED  BY <1>t, <2>1, RowsTouched
<1>2. ASSUME NEW p \in Procs, DatabaseFails(p)
      PROVE  SettleInvariant'
  <2>1. failures' \in Nat /\ UNCHANGED <<status, since, rows, ledger>>
        /\ (Finish(p) \/ Resume(p))
    BY <1>2, <1>t DEF DatabaseFails
  <2> QED  BY <1>t, <2>1, Leaving, ProcStep
<1>3. CASE Crash
  <2>1. /\ procs' = [p \in Procs |-> Done] /\ failures' \in Nat
        /\ UNCHANGED <<status, since, rows, ledger>>
    BY <1>3, <1>t DEF Crash
  <2>2. \A p \in Procs : procs'[p] = Done
    BY <2>1
  <2>3. procs' \in [Procs -> Proc]
    BY <2>1, DoneTyped
  <2>4. Done.pc = "idle"
    BY DEF Done, Task
  <2>5. \A p \in Procs : Lists(procs[p])' /\ Pending(procs[p])'
    BY <2>2, <2>4, DoneTyped DEF Lists, Pending
  <2> QED  BY <2>1, <2>3, <2>5 DEF SettleInvariant, TypeOK, Books
<1>4. CASE MinutePasses
  <2>1. since' \in [Tools -> [activated: BOOLEAN, age: Nat]]
    <3>1. since' = [t \in Tools |-> [since[t] EXCEPT !.age = Older(since[t].age)]]
      BY <1>4 DEF MinutePasses
    <3> QED  BY <1>t, <3>1, OlderTyped
  <2> DEFINE aged(row) == [row EXCEPT !.age = Older(row.age)]
  <2>2. ASSUME NEW row \in Row
        PROVE  aged(row) \in Row /\ aged(row).state = row.state /\ aged(row).hold = row.hold
    <3>1. Older(row.age) \in Nat
      BY OlderTyped DEF Row
    <3> QED  BY <3>1 DEF Row
  <2>3. rows' = [id \in SessionIds |-> IF is_open(id) THEN aged(rows[id]) ELSE rows[id]]
    BY <1>4 DEF MinutePasses
  <2> HIDE DEF aged
  <2>4. /\ rows' \in [SessionIds -> Row]
        /\ \A id \in SessionIds : rows'[id].state = rows[id].state /\ rows'[id].hold = rows[id].hold
    BY <1>t, <2>2, <2>3
  <2>5. UNCHANGED <<status, ledger, procs, failures>>
    BY <1>4 DEF MinutePasses
  <2> QED  BY <1>t, <2>1, <2>4, <2>5, RowsTouched
<1> QED  BY <1>1, <1>2, <1>3, <1>4

-----------------------------------------------------------------------------
\* The books and the processes that write them stay in step, through every
\* interleaving of requests, sweep, failures and crashes.
THEOREM SettleInvariantHolds == SessionSpec => []SettleInvariant
<1>1. SessionInit => SettleInvariant
  <2> SUFFICES ASSUME SessionInit PROVE SettleInvariant
    OBVIOUS
  <2>1. NoRow \in Row /\ NoRow.state = "none"
    BY DEF NoRow, Row, None
  <2>2. \A p \in Procs : procs[p] = Done
    BY DEF SessionInit
  <2>3. TypeOK
    BY <2>1, <2>2, DoneTyped DEF SessionInit, TypeOK, None
  <2>4. \A p \in Procs : Pending(procs[p])
    BY <2>2, DoneTyped
  <2>5. Books
    BY <2>1 DEF SessionInit, Books
  <2> QED  BY <2>3, <2>4, <2>5 DEF SettleInvariant
<1>2. SettleInvariant /\ [SessionNext]_sessionVars => SettleInvariant'
  <2> SUFFICES ASSUME SettleInvariant, [SessionNext]_sessionVars PROVE SettleInvariant'
    OBVIOUS
  <2>1. CASE UNCHANGED sessionVars
    <3>1. UNCHANGED <<status, since, rows, ledger, procs, failures>>
      BY <2>1 DEF sessionVars
    <3> QED  BY <3>1, RowsTouched DEF SettleInvariant, TypeOK
  <2>2. CASE \E h \in Handlers, t \in Tools, m \in Members : Activate(h, t, m) \/ ReportUsage(h, t, m)
    BY <2>2, ActivationKeeps, UsageKeeps
  <2>3. CASE \E h \in Handlers, t \in Tools : Stop(h, t)
    BY <2>3, ReleaseKeeps
  <2>4. CASE \E h \in Handlers : BootReset(h) \/ ResetNext(h) \/ ActivateStep(h) \/ UsageStep(h)
                                 \/ SettleStep(h)
    BY <2>4, ReleaseKeeps, ActivationKeeps, UsageKeeps, SettleKeeps DEF Procs
  <2>5. CASE SweepStep
    BY <2>5, SweepKeeps, SettleKeeps DEF SweepStep, Procs
  <2>6. CASE \/ \E t \in Tools, st \in StaffStatuses : change_tool_status(t, st)
             \/ \E p \in Procs : DatabaseFails(p)
             \/ Crash \/ MinutePasses
    BY <2>6, OutsideKeeps
  <2> QED  BY <2>1, <2>2, <2>3, <2>4, <2>5, <2>6 DEF SessionNext
<1> QED  BY <1>1, <1>2, PTL DEF SessionSpec

\* Tables and processes keep their types: in particular the sweep never settles
\* "the tool" of something that is not a session.
THEOREM SessionTyped == SessionSpec => []TypeOK
<1>1. SettleInvariant => TypeOK
  BY DEF SettleInvariant
<1> QED  BY <1>1, SettleInvariantHolds, PTL

\* A session that is closed has been debited, however many processes were
\* settling it and wherever any of them failed.
THEOREM ClosedSessionsAreDebited == SessionSpec => []SettledIsLedgered
<1>1. SettleInvariant => SettledIsLedgered
  BY DEF SettleInvariant, Books, SettledIsLedgered
<1> QED  BY <1>1, SettleInvariantHolds, PTL

\* Where the member's cap is no shorter than the tool's, no session is ever
\* debited more than was held for it.
THEOREM HoldsCoverCharges ==
    ASSUME ToolCap <= HoldCap
    PROVE  SessionSpec => []ChargeWithinHold
<1>1. SettleInvariant => ChargeWithinHold
  <2> SUFFICES ASSUME SettleInvariant, NEW id \in SessionIds PROVE ledger[id] <= rows[id].hold
    BY DEF ChargeWithinHold
  <2>1. ledger[id] \in Nat \cup {None} /\ rows[id] \in Row
    BY DEF SettleInvariant, TypeOK
  <2>2. CASE ledger[id] = None
    BY <2>1, <2>2 DEF None, Row
  <2>3. CASE ledger[id] # None
    <3>1. ledger[id] <= Ceiling /\ rows[id].hold = max_session_cost
      BY <2>3 DEF SettleInvariant, Books
    <3> QED  BY <2>1, <2>3, <3>1, SessionAssumption
             DEF Ceiling, max_session_cost, SessionAssumption
  <2> QED  BY <2>2, <2>3
<1> QED  BY <1>1, SettleInvariantHolds, PTL

\* What was debited for a session never changes: a second settle of it finds
\* the entry and posts nothing.
THEOREM NeverDebitedAgain == SessionSpec => DebitedOnce
<1>1. ASSUME SettleInvariant, [SessionNext]_sessionVars, NEW id \in SessionIds, ledger[id] # None
      PROVE  ledger'[id] = ledger[id]
  <2>1. CASE UNCHANGED ledger
    BY <2>1
  <2>2. ASSUME NEW p \in Procs, PostDebit(p) PROVE ledger'[id] = ledger[id]
    <3>1. ledger' = ledger \/ (/\ ledger[procs[p].row] = None
                               /\ ledger' = [ledger EXCEPT ![procs[p].row] = procs[p].amount])
      BY <2>2 DEF PostDebit, ledger_entry_exists_for_reference
    <3> QED  BY <1>1, <3>1 DEF SettleInvariant, TypeOK
  <2>3. UNCHANGED ledger \/ \E p \in Procs : PostDebit(p)
    BY <1>1 DEF SessionNext, sessionVars, Procs, Activate, ReportUsage, Stop, BootReset,
        ResetNext, ActivateStep, CheckOpen, ReadBalance, Gate, insert_tool_session,
        try_activate_tool, LogActivation, UsageStep, record_usage, add_reported_seconds,
        SettleStep, Settle, settle_tool_session, change_tool_status, SweepStep, SweepStart,
        SweepNext, release, OrphanNext, DatabaseFails, Crash, MinutePasses
  <2> QED  BY <2>1, <2>2, <2>3
<1>2. SettleInvariant /\ [SessionNext]_sessionVars =>
         [\A id \in SessionIds : ledger[id] # None => ledger'[id] = ledger[id]]_sessionVars
  BY <1>1
<1> QED  BY <1>2, SettleInvariantHolds, PTL DEF SessionSpec, DebitedOnce

-----------------------------------------------------------------------------
(* The refinement: rows and ledger, seen as a SessionLedger. *)

\* What an opening and a debit carry to the step that makes them: the tool and
\* the member of the scan, and a charge of at least the fee.
Carries(r) ==
    /\ r.pc \in {"opening", "balance", "gate", "insert"} => r.tool \in Tools /\ r.member \in Members
    /\ r.pc = "post" => r.amount >= FlatFee

\* The clauses only the refinement needs: a row not yet used is blank.
PromiseInvariant ==
    /\ \A id \in SessionIds : rows[id].state = "none" => rows[id] = NoRow
    /\ \A p \in Procs : Carries(procs[p])

\* A step that gives one process a record carrying what it should.
LEMMA CarriesOn ==
    ASSUME SettleInvariant, PromiseInvariant, NEW p \in Procs, NEW r, Carries(r),
           procs' = [procs EXCEPT ![p] = r]
    PROVE  \A q \in Procs : Carries(procs'[q])
<1>1. \A q \in Procs : procs'[q] = IF q = p THEN r ELSE procs[q]
  BY DEF SettleInvariant, TypeOK
<1>2. \A q \in Procs : Carries(procs'[q])
  BY <1>1, Zenon DEF PromiseInvariant
<1> QED  BY <1>2 DEF Carries

\* A process at a point outside an activation, and not about to debit.
LEMMA CarriesNothing ==
    ASSUME NEW r, r.pc \notin {"opening", "balance", "gate", "insert", "post"}
    PROVE  Carries(r)
BY DEF Carries

\* A process that ends, or goes back to whoever called its settle.
LEMMA LeavingCarries ==
    ASSUME SettleInvariant, PromiseInvariant, NEW p \in Procs, Finish(p) \/ Resume(p)
    PROVE  \A q \in Procs : Carries(procs'[q])
<1>1. procs[p] \in Proc
  BY DEF SettleInvariant, TypeOK
<1>2. CASE Finish(p) \/ procs[p].then = "idle"
  <2>1. procs' = [procs EXCEPT ![p] = Done]
    BY <1>2 DEF Finish, Resume
  <2>2. Carries(Done)
    BY DEF Done, Task, Carries
  <2> QED  BY <2>1, <2>2, CarriesOn
<1>3. CASE Resume(p) /\ procs[p].then # "idle"
  <2> DEFINE r == Task(procs[p].then, procs[p].tool, None, "idle", procs[p].todo)
  <2>1. procs' = [procs EXCEPT ![p] = r]
    BY <1>3 DEF Resume
  <2>2. r.pc \in {"boot", "release", "orphans"}
    BY <1>1, <1>3 DEF Task, Proc
  <2> HIDE DEF r
  <2> QED  BY <2>1, <2>2, CarriesNothing, CarriesOn
<1> QED  BY <1>2, <1>3

\* What every step does to what the processes carry.
LEMMA CarriesKept ==
    ASSUME SettleInvariant, PromiseInvariant, SessionNext
    PROVE  \A q \in Procs : Carries(procs'[q])
<1>t. procs \in [Procs -> Proc] /\ rows \in [SessionIds -> Row]
  BY DEF SettleInvariant, TypeOK
<1>s. ASSUME NEW p \in Procs, NEW r, procs' = [procs EXCEPT ![p] = r],
             r.pc \notin {"opening", "balance", "gate", "insert", "post"}
      PROVE  \A q \in Procs : Carries(procs'[q])
  BY <1>s, CarriesNothing, CarriesOn
<1>g. ASSUME NEW p \in Procs, NEW pc, Goto(p, pc), pc # "post",
             pc \in {"opening", "balance", "gate", "insert"} =>
                procs[p].pc \in {"opening", "balance", "gate", "insert"}
      PROVE  \A q \in Procs : Carries(procs'[q])
  <2> DEFINE r == [procs[p] EXCEPT !.pc = pc]
  <2>1. procs' = [procs EXCEPT ![p] = r]
    BY <1>g DEF Goto
  <2>2. r.pc = pc /\ r.tool = procs[p].tool /\ r.member = procs[p].member
    BY <1>t DEF Proc
  <2> HIDE DEF r
  <2>3. Carries(r)
    BY <1>g, <2>2 DEF PromiseInvariant, Carries
  <2> QED  BY <2>1, <2>3, CarriesOn
<1>u. ASSUME UNCHANGED procs
      PROVE  \A q \in Procs : Carries(procs'[q])
  BY <1>u DEF PromiseInvariant, Carries
<1>h. Handlers \subseteq Procs /\ "sweep" \in Procs
  BY DEF Procs
<1>1. ASSUME NEW h \in Handlers, NEW t \in Tools, NEW m \in Members,
             Activate(h, t, m) \/ ReportUsage(h, t, m)
      PROVE  \A q \in Procs : Carries(procs'[q])
  <2>1. CASE Activate(h, t, m)
    <3>1. procs' = [procs EXCEPT ![h] = Task("opening", t, m, "idle", {})]
      BY <2>1 DEF Activate
    <3>2. Carries(Task("opening", t, m, "idle", {}))
      BY DEF Carries, Task
    <3> QED  BY <1>h, <3>1, <3>2, CarriesOn
  <2>2. CASE ReportUsage(h, t, m)
    <3> DEFINE r == Task("usage", t, None, "idle", {})
    <3>1. procs' = [procs EXCEPT ![h] = r]
        BY <2>2 DEF ReportUsage
    <3>2. r.pc = "usage"
        BY DEF Task
    <3> HIDE DEF r
    <3> QED  BY <1>h, <1>s, <3>1, <3>2
  <2> QED  BY <1>1, <2>1, <2>2
<1>2. ASSUME NEW h \in Handlers,
             (\E t \in Tools : Stop(h, t)) \/ BootReset(h) \/ ResetNext(h)
      PROVE  \A q \in Procs : Carries(procs'[q])
  <2>1. ASSUME NEW t \in Tools, Stop(h, t)
        PROVE  \A q \in Procs : Carries(procs'[q])
    <3> DEFINE r == Task("settle", t, None, "idle", {})
    <3>1. procs' = [procs EXCEPT ![h] = r]
        BY <2>1 DEF Stop
    <3>2. r.pc = "settle"
        BY DEF Task
    <3> HIDE DEF r
    <3> QED  BY <1>h, <1>s, <3>1, <3>2
  <2>2. CASE BootReset(h)
    <3> DEFINE r == Task("boot", None, None, "idle", {t \in Tools : status[t] = "in_use"})
    <3>1. procs' = [procs EXCEPT ![h] = r]
        BY <2>2 DEF BootReset
    <3>2. r.pc = "boot"
        BY DEF Task
    <3> HIDE DEF r
    <3> QED  BY <1>h, <1>s, <3>1, <3>2
  <2>3. CASE ResetNext(h)
    <3>1. CASE Finish(h)
      BY <3>1, <1>h, LeavingCarries
    <3>2. ASSUME NEW t, procs' = [procs EXCEPT ![h] =
                                    Task("settle", t, None, "boot", procs[h].todo \ {t})]
          PROVE  \A q \in Procs : Carries(procs'[q])
      <4> DEFINE r == Task("settle", t, None, "boot", procs[h].todo \ {t})
      <4>1. procs' = [procs EXCEPT ![h] = r]
          BY <3>2
      <4>2. r.pc = "settle"
          BY DEF Task
      <4> HIDE DEF r
      <4> QED  BY <1>h, <1>s, <4>1, <4>2
    <3> QED  BY <2>3, <3>1, <3>2 DEF ResetNext
  <2> QED  BY <1>2, <2>1, <2>2, <2>3
<1>3. ASSUME NEW h \in Handlers, ActivateStep(h)
      PROVE  \A q \in Procs : Carries(procs'[q])
  <2>1. CASE CheckOpen(h)
    BY <2>1, <1>h, <1>g, LeavingCarries DEF CheckOpen, At
  <2>2. CASE ReadBalance(h)
    <3> DEFINE r == [procs[h] EXCEPT !.pc = "gate", !.seen = Debits(procs[h].member)]
    <3>1. procs' = [procs EXCEPT ![h] = r]
      BY <1>t, <1>h, <2>2 DEF ReadBalance, Proc
    <3>2. r.pc = "gate" /\ r.tool = procs[h].tool /\ r.member = procs[h].member
      BY <1>t, <1>h DEF Proc
    <3>3. procs[h].pc = "balance"
      BY <2>2 DEF ReadBalance, At
    <3> HIDE DEF r
    <3>4. Carries(r)
      BY <1>h, <3>2, <3>3 DEF PromiseInvariant, Carries
    <3> QED  BY <1>h, <3>1, <3>4, CarriesOn
  <2>3. CASE Gate(h)
    BY <2>3, <1>h, <1>g, LeavingCarries DEF Gate, At
  <2>4. CASE insert_tool_session(h) \/ try_activate_tool(h) \/ LogActivation(h)
    BY <2>4, <1>h, <1>g, LeavingCarries DEF insert_tool_session, try_activate_tool, LogActivation
  <2> QED  BY <1>3, <2>1, <2>2, <2>3, <2>4 DEF ActivateStep
<1>4. ASSUME NEW h \in Handlers, UsageStep(h)
      PROVE  \A q \in Procs : Carries(procs'[q])
  <2>1. CASE Finish(h)
    BY <1>h, <2>1, LeavingCarries
  <2>2. ASSUME NEW id, procs' = [procs EXCEPT ![h].pc = "add", ![h].row = id]
        PROVE  \A q \in Procs : Carries(procs'[q])
    <3> DEFINE r == [procs[h] EXCEPT !.pc = "add", !.row = id]
    <3>1. procs' = [procs EXCEPT ![h] = r] /\ r.pc = "add"
      BY <1>t, <1>h, <2>2 DEF Proc
    <3> HIDE DEF r
    <3> QED  BY <1>h, <3>1, CarriesNothing, CarriesOn
  <2> QED  BY <1>4, <2>1, <2>2 DEF UsageStep, record_usage, add_reported_seconds
<1>5. ASSUME NEW p \in Procs, SettleStep(p)
      PROVE  \A q \in Procs : Carries(procs'[q])
  <2>1. CASE Resume(p)
    BY <2>1, LeavingCarries
  <2>2. ASSUME NEW id \in OpenOn(procs[p].tool),
               procs' = [procs EXCEPT ![p].pc = "post", ![p].row = id,
                                      ![p].amount = session_charge(rows[id])]
        PROVE  \A q \in Procs : Carries(procs'[q])
    <3> DEFINE charge == session_charge(rows[id])
               r == [procs[p] EXCEPT !.pc = "post", !.row = id, !.amount = charge]
    <3>1. procs' = [procs EXCEPT ![p] = r]
      BY <1>t, <2>2 DEF Proc
    <3>2. charge >= FlatFee
      <4>1. rows[id] \in Row
        BY <1>t DEF OpenOn
      <4> QED  BY <4>1, SessionAssumption DEF Row, session_charge, Least, SessionAssumption
    <3> HIDE DEF charge
    <3>3. r.pc = "post" /\ r.amount = charge
      BY <1>t DEF Proc
    <3> HIDE DEF r
    <3>4. Carries(r)
      BY <3>2, <3>3 DEF Carries
    <3> QED  BY <3>1, <3>4, CarriesOn
  <2>3. CASE Goto(p, "close")
    BY <2>3, <1>g
  <2> QED  BY <1>5, <2>1, <2>2, <2>3 DEF SettleStep, Settle, PostDebit, settle_tool_session
<1>6. CASE SweepStart \/ SweepNext \/ release \/ OrphanNext
  <2>1. CASE SweepStart
    <3> DEFINE r == Task("sweep", None, None, "idle", stale_tools)
    <3>1. procs' = [procs EXCEPT !["sweep"] = r]
        BY <2>1 DEF SweepStart
    <3>2. r.pc = "sweep"
        BY DEF Task
    <3> HIDE DEF r
    <3> QED  BY <1>h, <1>s, <3>1, <3>2
  <2>3. CASE release
    <3> DEFINE r == Task("sweep", None, None, "idle", procs["sweep"].todo)
    <3>1. procs' = [procs EXCEPT !["sweep"] = r]
        BY <2>3 DEF release
    <3>2. r.pc = "sweep"
        BY DEF Task
    <3> HIDE DEF r
    <3> QED  BY <1>h, <1>s, <3>1, <3>2
  <2>4. CASE OrphanNext
    <3>1. CASE Finish("sweep")
      BY <3>1, <1>h, LeavingCarries
    <3>2. ASSUME NEW id, procs' = [procs EXCEPT !["sweep"] =
                    Task("settle", rows[id].tool, None, "orphans", procs["sweep"].todo \ {id})]
          PROVE  \A q \in Procs : Carries(procs'[q])
      <4> DEFINE r == Task("settle", rows[id].tool, None, "orphans", procs["sweep"].todo \ {id})
      <4>1. procs' = [procs EXCEPT !["sweep"] = r]
          BY <3>2
      <4>2. r.pc = "settle"
          BY DEF Task
      <4> HIDE DEF r
      <4> QED  BY <1>h, <1>s, <4>1, <4>2
    <3> QED  BY <2>4, <3>1, <3>2 DEF OrphanNext
  <2>2. CASE SweepNext
    <3>1. ASSUME NEW r, procs' = [procs EXCEPT !["sweep"] = r],
                 r.pc \in {"orphans", "sweep", "settle"}
          PROVE  \A q \in Procs : Carries(procs'[q])
      BY <1>h, <1>s, <3>1
    <3>2. CASE procs' = [procs EXCEPT !["sweep"] =
                           Task("orphans", None, None, "idle", sweep_abandoned)]
      <4> DEFINE r == Task("orphans", None, None, "idle", sweep_abandoned)
      <4>1. procs' = [procs EXCEPT !["sweep"] = r]
        BY <3>2
      <4>2. r.pc = "orphans"
        BY DEF Task
      <4> HIDE DEF r
      <4> QED  BY <3>1, <4>1, <4>2
    <3>3. ASSUME NEW t,
                 procs' = [procs EXCEPT !["sweep"] =
                    IF since[t].activated /\ ~ abandoned(since[t].age)
                    THEN Task("sweep", None, None, "idle", procs["sweep"].todo \ {t})
                    ELSE Task("settle", t, None, "release", procs["sweep"].todo \ {t})]
          PROVE  \A q \in Procs : Carries(procs'[q])
      <4> DEFINE r == IF since[t].activated /\ ~ abandoned(since[t].age)
                      THEN Task("sweep", None, None, "idle", procs["sweep"].todo \ {t})
                      ELSE Task("settle", t, None, "release", procs["sweep"].todo \ {t})
      <4>1. procs' = [procs EXCEPT !["sweep"] = r]
        BY <3>3
      <4>2. r.pc \in {"sweep", "settle"}
        BY DEF Task
      <4> HIDE DEF r
      <4> QED  BY <3>1, <4>1, <4>2
    <3> QED  BY <2>2, <3>2, <3>3 DEF SweepNext
  <2> QED  BY <1>6, <2>1, <2>2, <2>3, <2>4
<1>7. CASE \/ \E t \in Tools, st \in StaffStatuses : change_tool_status(t, st)
           \/ MinutePasses
  BY <1>7, <1>u DEF change_tool_status, MinutePasses
<1>8. ASSUME NEW p \in Procs, DatabaseFails(p)
      PROVE  \A q \in Procs : Carries(procs'[q])
  BY <1>8, LeavingCarries DEF DatabaseFails
<1>9. CASE Crash
  <2>1. \A q \in Procs : procs'[q] = Done
    BY <1>9 DEF Crash
  <2>2. Done.pc = "idle"
    BY DEF Done, Task
  <2> QED  BY <2>1, <2>2 DEF Carries
<1> QED  BY <1>1, <1>2, <1>3, <1>4, <1>5, <1>6, <1>7, <1>8, <1>9, <1>h DEF SessionNext, SweepStep

\* The session rows change in five ways; seen as a SessionLedger, in three.
RowsUntouched ==
    \A id \in SessionIds :
        /\ rows'[id].state = rows[id].state /\ rows'[id].hold = rows[id].hold
        /\ rows'[id].tool = rows[id].tool /\ rows'[id].member = rows[id].member
        /\ rows[id].state = "none" => rows'[id] = rows[id]

RowInserted(id, t, m) ==
    /\ rows[id].state = "none" /\ OpenOn(t) = {}
    /\ rows' = [rows EXCEPT ![id] = [tool |-> t, member |-> m, age |-> 0,
                                     hold |-> max_session_cost, reported |-> 0, state |-> "open"]]

RowClosed(id) ==
    /\ is_open(id) /\ ledger[id] # None
    /\ rows' = [rows EXCEPT ![id] = [@ EXCEPT !.state = "closed", !.age = 0, !.reported = 0]]

\* Every step leaves the rows as a SessionLedger sees them, inserts one for a
\* scan, or closes one; and it changes the ledger only by posting a debit.
LEMMA WhatStepsDo ==
    ASSUME SettleInvariant, PromiseInvariant, SessionNext
    PROVE  \/ RowsUntouched /\ UNCHANGED ledger
           \/ UNCHANGED rows /\ \E p \in Procs : PostDebit(p)
           \/ /\ \E id \in SessionIds, t \in Tools, m \in Members : RowInserted(id, t, m)
              /\ UNCHANGED ledger
           \/ (\E id \in SessionIds : RowClosed(id)) /\ UNCHANGED ledger
<1>t. procs \in [Procs -> Proc] /\ rows \in [SessionIds -> Row]
  BY DEF SettleInvariant, TypeOK
<1>h. Handlers \subseteq Procs /\ "sweep" \in Procs
  BY DEF Procs
<1>1. ASSUME UNCHANGED <<rows, ledger>> PROVE RowsUntouched /\ UNCHANGED ledger
  BY <1>1 DEF RowsUntouched
<1>2. \/ UNCHANGED <<rows, ledger>>
      \/ \E h \in Handlers : insert_tool_session(h) \/ add_reported_seconds(h)
      \/ \E p \in Procs : PostDebit(p) \/ settle_tool_session(p)
      \/ MinutePasses
  BY <1>h DEF SessionNext, Activate, ReportUsage, Stop, BootReset, ResetNext, ActivateStep,
     CheckOpen, ReadBalance, Gate, try_activate_tool, LogActivation, UsageStep, record_usage,
     SettleStep, Settle, change_tool_status, SweepStep, SweepStart, SweepNext, release,
     OrphanNext, DatabaseFails, Crash
<1>3. ASSUME NEW h \in Handlers, insert_tool_session(h)
      PROVE  \/ RowsUntouched /\ UNCHANGED ledger
             \/ /\ \E id \in SessionIds, t \in Tools, m \in Members : RowInserted(id, t, m)
                /\ UNCHANGED ledger
  <2>1. procs[h].tool \in Tools /\ procs[h].member \in Members
    BY <1>3, <1>h DEF insert_tool_session, At, PromiseInvariant, Carries
  <2>2. CASE UNCHANGED rows
    BY <1>1, <1>3, <2>2 DEF insert_tool_session
  <2>3. ASSUME NEW id \in Fresh, OpenOn(procs[h].tool) = {},
               rows' = [rows EXCEPT ![id] =
                     [tool |-> procs[h].tool, member |-> procs[h].member, age |-> 0,
                      hold |-> max_session_cost, reported |-> 0, state |-> "open"]]
        PROVE  \E i \in SessionIds, t \in Tools, m \in Members : RowInserted(i, t, m)
    <3>1. id \in SessionIds /\ RowInserted(id, procs[h].tool, procs[h].member)
      BY <2>3 DEF Fresh, RowInserted
    <3> QED  BY <2>1, <3>1
  <2> QED  BY <1>3, <2>2, <2>3 DEF insert_tool_session
<1>4. ASSUME NEW h \in Handlers, add_reported_seconds(h)
      PROVE  RowsUntouched /\ UNCHANGED ledger
  <2> DEFINE more(row) == [row EXCEPT !.reported = Older(row.reported)]
  <2>1. ASSUME NEW row \in Row
        PROVE  /\ more(row).state = row.state /\ more(row).hold = row.hold
               /\ more(row).tool = row.tool /\ more(row).member = row.member
    BY DEF Row
  <2>2. \/ rows' = rows
        \/ /\ rows[procs[h].row].state = "open"
           /\ rows' = [rows EXCEPT ![procs[h].row] = more(rows[procs[h].row])]
    BY <1>4 DEF add_reported_seconds, is_open
  <2> HIDE DEF more
  <2>3. RowsUntouched
    BY <1>t, <2>1, <2>2 DEF RowsUntouched
  <2> QED  BY <1>4, <2>3 DEF add_reported_seconds
<1>5. ASSUME NEW p \in Procs, settle_tool_session(p)
      PROVE  \/ RowsUntouched /\ UNCHANGED ledger
             \/ (\E id \in SessionIds : RowClosed(id)) /\ UNCHANGED ledger
  <2>1. procs[p].row \in SessionIds /\ ledger[procs[p].row] # None
    BY <1>5 DEF settle_tool_session, At, SettleInvariant, Pending
  <2>2. CASE is_open(procs[p].row)
    BY <1>5, <2>1, <2>2 DEF settle_tool_session, RowClosed
  <2>3. CASE ~ is_open(procs[p].row)
    BY <1>1, <1>5, <2>3 DEF settle_tool_session
  <2> QED  BY <2>2, <2>3
<1>6. ASSUME MinutePasses
      PROVE  RowsUntouched /\ UNCHANGED ledger
  <2> DEFINE aged(row) == [row EXCEPT !.age = Older(row.age)]
  <2>1. ASSUME NEW row \in Row
        PROVE  /\ aged(row).state = row.state /\ aged(row).hold = row.hold
               /\ aged(row).tool = row.tool /\ aged(row).member = row.member
    BY DEF Row
  <2>2. rows' = [id \in SessionIds |-> IF is_open(id) THEN aged(rows[id]) ELSE rows[id]]
    BY <1>6 DEF MinutePasses
  <2> HIDE DEF aged
  <2>3. RowsUntouched
    BY <1>t, <2>1, <2>2 DEF RowsUntouched, is_open
  <2> QED  BY <1>6, <2>3 DEF MinutePasses
<1>7. ASSUME NEW p \in Procs, PostDebit(p) PROVE UNCHANGED rows
  BY <1>7 DEF PostDebit
<1> QED  BY <1>1, <1>2, <1>3, <1>4, <1>5, <1>6, <1>7

\* What the refinement needs of rows and processes is kept by every step.
THEOREM PromiseInvariantHolds == SessionSpec => []PromiseInvariant
<1>1. SessionInit => PromiseInvariant
  <2> SUFFICES ASSUME SessionInit PROVE PromiseInvariant
    OBVIOUS
  <2>1. \A p \in Procs : Carries(procs[p])
    BY DEF SessionInit, Done, Task, Carries
  <2> QED  BY <2>1 DEF SessionInit, PromiseInvariant
<1>2. SettleInvariant /\ PromiseInvariant /\ [SessionNext]_sessionVars => PromiseInvariant'
  <2> SUFFICES ASSUME SettleInvariant, PromiseInvariant, [SessionNext]_sessionVars
               PROVE  PromiseInvariant'
    OBVIOUS
  <2>1. CASE UNCHANGED sessionVars
    BY <2>1 DEF sessionVars, PromiseInvariant, Carries
  <2>2. CASE SessionNext
    <3>1. \A q \in Procs : Carries(procs'[q])
      BY <2>2, CarriesKept
    <3>2. ASSUME NEW id \in SessionIds, rows'[id].state = "none"
          PROVE  rows'[id] = NoRow
      <4>t. rows \in [SessionIds -> Row]
        BY DEF SettleInvariant, TypeOK
      <4>1. CASE RowsUntouched
        BY <3>2, <4>1, <4>t DEF RowsUntouched, PromiseInvariant
      <4>2. CASE UNCHANGED rows
        BY <3>2, <4>2 DEF PromiseInvariant
      <4>3. CASE \E i \in SessionIds, t \in Tools, m \in Members : RowInserted(i, t, m)
        BY <3>2, <4>3, <4>t DEF RowInserted, PromiseInvariant
      <4>4. CASE \E i \in SessionIds : RowClosed(i)
        BY <3>2, <4>4, <4>t DEF RowClosed, PromiseInvariant, Row
      <4> QED  BY <2>2, <4>1, <4>2, <4>3, <4>4, WhatStepsDo
    <3> QED  BY <3>1, <3>2 DEF PromiseInvariant
  <2> QED  BY <2>1, <2>2
<1> QED  BY <1>1, <1>2, SettleInvariantHolds, PTL DEF SessionSpec

\* The session a SessionLedger sees in a row.
AsSession(row) ==
    [phase |-> row.state, tool |-> row.tool, member |-> row.member, hold |-> row.hold]

\* Requests, sweep, failures and crashes, for every number of each, implement
\* the billing promise: every step opens a session on a tool without an open
\* one, posts the one debit, closes a debited session, or changes nothing a
\* member could see.
THEOREM SessionsKeepThePromise ==
    ASSUME ToolCap <= HoldCap
    PROVE  SessionSpec => ImplementsLedger
<1> DEFINE session == [id \in SessionIds |-> AsSession(rows[id])]
<1>s. session = [id \in SessionIds |->
                   [phase |-> rows[id].state, tool |-> rows[id].tool,
                    member |-> rows[id].member, hold |-> rows[id].hold]]
  BY DEF AsSession
<1>1. SessionInit => Ledger!LedgerInit
  BY DEF SessionInit, NoRow, Ledger!LedgerInit, Ledger!NoSession
<1>2. ASSUME SettleInvariant, PromiseInvariant, [SessionNext]_sessionVars
      PROVE  [Ledger!LedgerNext]_(Ledger!ledgerVars)
  <2>t. /\ rows \in [SessionIds -> Row] /\ procs \in [Procs -> Proc]
        /\ ledger \in [SessionIds -> Nat \cup {None}]
    BY <1>2 DEF SettleInvariant, TypeOK
  <2>f. \A id \in SessionIds : session[id] = AsSession(rows[id]) /\ session'[id] = AsSession(rows'[id])
    BY DEF AsSession
  <2>1. CASE UNCHANGED sessionVars
    BY <2>1 DEF sessionVars, Ledger!ledgerVars
  <2>2. CASE RowsUntouched /\ UNCHANGED ledger
    <3>1. session' = session
      BY <2>2 DEF RowsUntouched, AsSession
    <3> QED  BY <1>s, <2>2, <3>1 DEF Ledger!ledgerVars, AsSession
  <2>3. ASSUME UNCHANGED rows, NEW p \in Procs, PostDebit(p)
        PROVE  [Ledger!LedgerNext]_(Ledger!ledgerVars)
    <3> DEFINE id == procs[p].row
               amount == procs[p].amount
    <3>1. /\ id \in SessionIds /\ rows[id].state # "none"
          /\ amount \in Nat /\ amount <= Ceiling /\ amount >= FlatFee
      BY <1>2, <2>3, <2>t DEF PostDebit, At, SettleInvariant, Pending, PromiseInvariant,
                              Carries, Proc
    <3>2. CASE ledger[id] # None
      <4>1. UNCHANGED <<rows, ledger>>
        BY <2>3, <3>2 DEF PostDebit, ledger_entry_exists_for_reference
      <4> QED  BY <4>1 DEF Ledger!ledgerVars
    <3>3. CASE ledger[id] = None
      <4>1. rows[id].state = "open" /\ rows[id].hold = max_session_cost
        BY <1>2, <2>t, <3>1, <3>3 DEF SettleInvariant, Books, Row
      <4>2. amount \in FlatFee .. rows[id].hold
        BY <3>1, <4>1, SessionAssumption DEF Ceiling, max_session_cost, SessionAssumption
      <4>3. ledger' = [ledger EXCEPT ![id] = amount]
        BY <2>3, <3>3 DEF PostDebit, ledger_entry_exists_for_reference
      <4>4. session[id].phase = "open" /\ session[id].hold = rows[id].hold
        BY <2>f, <3>1, <4>1 DEF AsSession
      <4> HIDE DEF id, amount
      <4>5. Ledger!Debit(id, amount)
        BY <2>3, <3>1, <3>3, <4>3, <4>4 DEF Ledger!Debit, AsSession
      <4> QED  BY <3>1, <4>2, <4>4, <4>5 DEF Ledger!LedgerNext, AsSession
    <3> QED  BY <3>2, <3>3
  <2>4. ASSUME NEW id \in SessionIds, NEW t \in Tools, NEW m \in Members,
               RowInserted(id, t, m), UNCHANGED ledger
        PROVE  [Ledger!LedgerNext]_(Ledger!ledgerVars)
    <3> DEFINE new == [tool |-> t, member |-> m, age |-> 0, hold |-> max_session_cost,
                       reported |-> 0, state |-> "open"]
    <3>1. rows[id] = NoRow /\ ledger[id] = None
      BY <1>2, <2>4 DEF RowInserted, PromiseInvariant, SettleInvariant, Books
    <3>2. session[id] = Ledger!NoSession
      BY <2>f, <3>1 DEF NoRow, AsSession, Ledger!NoSession
    <3>3. \A other \in SessionIds : session[other].phase = "open" => session[other].tool # t
      BY <2>4, <2>f DEF RowInserted, OpenOn, is_open, AsSession
    <3>4. rows' = [rows EXCEPT ![id] = new]
      BY <2>4 DEF RowInserted
    <3>5. AsSession(new) = [phase |-> "open", tool |-> t, member |-> m, hold |-> max_session_cost]
      BY DEF AsSession
    <3> HIDE DEF new
    <3>6. \A i \in SessionIds : rows'[i] = IF i = id THEN new ELSE rows[i]
      BY <2>t, <3>4
    <3>7. session' = [session EXCEPT ![id] =
              [phase |-> "open", tool |-> t, member |-> m, hold |-> max_session_cost]]
      BY <3>5, <3>6
    <3>8. Ledger!Open(id, t, m)
      BY <1>s, <2>4, <3>1, <3>2, <3>3, <3>7 DEF Ledger!Open, AsSession
    <3> QED  BY <3>8 DEF Ledger!LedgerNext
  <2>5. ASSUME NEW id \in SessionIds, RowClosed(id), UNCHANGED ledger
        PROVE  [Ledger!LedgerNext]_(Ledger!ledgerVars)
    <3> DEFINE closed == [rows[id] EXCEPT !.state = "closed", !.age = 0, !.reported = 0]
    <3>1. rows' = [rows EXCEPT ![id] = closed]
      BY <2>5 DEF RowClosed
    <3>2. AsSession(closed) = [AsSession(rows[id]) EXCEPT !.phase = "closed"]
      BY <2>t DEF AsSession, Row
    <3> HIDE DEF closed
    <3>3. \A i \in SessionIds : rows'[i] = IF i = id THEN closed ELSE rows[i]
      BY <2>t, <3>1
    <3>4. session' = [session EXCEPT ![id].phase = "closed"]
      BY <3>2, <3>3
    <3>5. session[id].phase = "open" /\ ledger[id] # None
      BY <2>5, <2>f DEF RowClosed, is_open, AsSession
    <3>6. Ledger!Close(id)
      BY <1>s, <2>5, <3>4, <3>5 DEF Ledger!Close, AsSession
    <3> QED  BY <3>6 DEF Ledger!LedgerNext
  <2> QED  BY <1>2, <2>1, <2>2, <2>3, <2>4, <2>5, WhatStepsDo
<1> QED  BY <1>1, <1>2, SettleInvariantHolds, PromiseInvariantHolds, PTL
         DEF SessionSpec, ImplementsLedger, Ledger!LedgerSpec
=============================================================================
