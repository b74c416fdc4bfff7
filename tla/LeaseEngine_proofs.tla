------------------------ MODULE LeaseEngine_proofs ------------------------
(***************************************************************************)
(* What the lease engine keeps for every set of tools, snapshots, devices  *)
(* and conditions, every debounce, TTL and grace, and every order in which *)
(* its methods are called between the three steps of a watchdog pass; and  *)
(* what the edge and the server agree on through it (SessionSync), for     *)
(* every number of members' operations, polls and channel capacity.        *)
(***************************************************************************)
EXTENDS SessionSync, WellFoundedInduction, TLAPS

-----------------------------------------------------------------------------
(* Typing *)

\* What a snapshot in hand says about one of its tools has the shape of a
\* wiring: its key is a tool, its bindings are bindings, its rules are rules.
LEMMA WiringTyped ==
    ASSUME snapshot \in Snapshots \cup {NoSnapshot}, NEW t \in Wired
    PROVE  /\ snapshot \in Snapshots
           /\ t \in Tools
           /\ t \in DOMAIN snapshot
           /\ snapshot[t] \in Wiring
           /\ snapshot[t].modules \subseteq Binding
           /\ snapshot[t].interlocks \in Seq(Rule)
BY EngineAssumption DEF EngineAssumption, Wired, Wiring

\* The first failing rule, when there is one, is a rule of the list; when there
\* is none, every rule is observed and satisfied.
LEMMA FirstFailingTyped ==
    ASSUME NEW t, NEW at, snapshot[t].interlocks \in Seq(Rule)
    PROVE  /\ \/ first_failing(t, at) = 0
              \/ first_failing(t, at) \in 1 .. Len(snapshot[t].interlocks)
           /\ first_failing(t, at) = 0 =>
                 \A i \in 1 .. Len(snapshot[t].interlocks) :
                     LET rule == snapshot[t].interlocks[i]
                     IN  observed(t, rule) /\ satisfied(t, rule, at)
<1> DEFINE rules == snapshot[t].interlocks
           fails(i) == ~(observed(t, rules[i]) /\ satisfied(t, rules[i], at))
           first(i) == fails(i) /\ \A j \in 1 .. (i - 1) : ~fails(j)
<1>1. first_failing(t, at) = IF \E i \in 1 .. Len(rules) : fails(i)
                             THEN CHOOSE i \in 1 .. Len(rules) : first(i) ELSE 0
  BY DEF first_failing
<1>2. CASE \E i \in 1 .. Len(rules) : fails(i)
  <2>1. \E i \in 1 .. Len(rules) : first(i)
    <3> HIDE DEF fails
    <3> DEFINE bad == {i \in 1 .. Len(rules) : fails(i)}
    <3>1. Len(rules) \in Nat /\ bad \subseteq Nat /\ bad # {}
      BY <1>2
    <3>2. PICK i \in bad : \A j \in bad : ~(<<j, i>> \in OpToRel(<, Nat))
      BY <3>1, NatLessThanWellFounded, WFMin, Zenon
    <3>3. \A j \in bad : ~(j < i)
      BY <3>1, <3>2 DEF OpToRel
    <3> QED  BY <3>1, <3>3
  <2>2. first_failing(t, at) \in 1 .. Len(rules)
    <3> HIDE DEF first
    <3> QED  BY <1>1, <1>2, <2>1
  <2>3. first_failing(t, at) # 0
    BY <2>2
  <2> QED  BY <2>2, <2>3
<1>3. CASE ~ \E i \in 1 .. Len(rules) : fails(i)
  BY <1>1, <1>3
<1> QED  BY <1>2, <1>3

\* Every branch of the decision is a decision.
LEMMA EvaluateTyped ==
    ASSUME snapshot \in Snapshots \cup {NoSnapshot}, NEW t \in Tools, NEW at
    PROVE  evaluate(t, at) \in Decision
<1> USE DEF Allow, Deny, DenyFor, Decision
<1>1. CASE snapshot = NoSnapshot
  BY <1>1 DEF evaluate, Wired
<1>2. CASE snapshot # NoSnapshot /\ t \notin Wired
  BY <1>2 DEF evaluate
<1>3. CASE snapshot # NoSnapshot /\ t \in Wired
  <2> DEFINE i == first_failing(t, at)
             rules == snapshot[t].interlocks
  <2>1. rules \in Seq(Rule)
    BY <1>3, WiringTyped
  <2>2. i = 0 \/ i \in 1 .. Len(rules)
    BY <2>1, FirstFailingTyped
  <2>3. i # 0 => rule_denial(t, rules[i]) \in Decision
    <3>1. i # 0 => rules[i] \in Rule
      BY <2>1, <2>2
    <3> QED  BY <3>1 DEF rule_denial, Rule
  <2> QED  BY <1>3, <2>3 DEF evaluate
<1> QED  BY <1>1, <1>2, <1>3

\* What is offered to bindings of a wired tool are lease actions.
LEMMA OfferTyped ==
    ASSUME snapshot \in Snapshots \cup {NoSnapshot}, NEW t \in Wired,
           NEW bs \in SUBSET snapshot[t].modules, NEW grant \in BOOLEAN
    PROVE  Offer(t, bs, grant) \subseteq LeaseAction
BY WiringTyped DEF Offer, LeaseAction, Binding

\* Where the watchdog is, it knows which tool it is at and when it began.
PassWellFormed ==
    /\ pass.pc # "idle" => pass.at \in Time /\ snapshot # NoSnapshot
    /\ pass.pc \in {"renew", "lease"} => pass.tool \in Tools

\* The initial state has the types the fields of `Inner` declare.
LEMMA InitTyped == EngineInit => TypeOK
BY EngineAssumption
   DEF EngineInit, TypeOK, EngineAssumption, Time, TimeOrNone, Names, NoSession, Unread,
       NoReport, Idle, Allow, Decision, NoCondition, None

\* The write half of a sync keeps the types of what it writes.
LEMMA ReconcileTyped ==
    ASSUME TypeOK, NEW tracked, NEW ids \in SUBSET Names, NEW asked \in 0 .. now,
           reconcile_tracked(ids, tracked, asked)
    PROVE  /\ local_sessions' \in [Names -> [opened: TimeOrNone, ends_at: Int]]
           /\ synced_in_use' \subseteq Names
           /\ local_stops' \in [Names -> TimeOrNone]
           /\ claimed' \in [Names -> TimeOrNone]
<1>1. asked \in TimeOrNone
  BY EngineAssumption DEF TypeOK, Time, TimeOrNone, EngineAssumption
<1>2. believed(ids, asked) \subseteq Names
  BY DEF believed
<1>3. local_stops' \in [Names -> TimeOrNone]
  BY DEF TypeOK, reconcile_tracked, remembered, TimeOrNone
<1>4. local_sessions' \in [Names -> [opened: TimeOrNone, ends_at: Int]]
  <2>1. NoSession \in [opened: TimeOrNone, ends_at: Int]
    BY DEF NoSession, TimeOrNone, None
  <2> QED  BY <2>1 DEF TypeOK, reconcile_tracked
<1>5. synced_in_use' \subseteq Names
  BY <1>2 DEF TypeOK, reconcile_tracked
<1>6. claimed' \in [Names -> TimeOrNone]
  BY <1>1 DEF TypeOK, reconcile_tracked
<1> QED  BY <1>3, <1>4, <1>5, <1>6

\* Every call from outside the watchdog keeps the types.
LEMMA CallsTyped ==
    ASSUME TypeOK, SessionCall \/ SensorCall \/ RelayCall
    PROVE  TypeOK'
<1> USE EngineAssumption DEF EngineAssumption
<1>0. now \in TimeOrNone /\ None \in TimeOrNone /\ now \in Nat
  BY DEF TypeOK, Time, TimeOrNone, None
<1>1. ASSUME NEW n \in Names, NEW at \in 0 .. now, NEW ends \in Int, OpenSession(n, at, ends)
      PROVE  TypeOK'
  <2>1. at \in TimeOrNone
    BY DEF TypeOK, Time, TimeOrNone
  <2> QED
    BY <1>0, <1>1, <2>1 DEF OpenSession, TypeOK, interlockVars, leaseVars
<1>2. ASSUME NEW n \in Names, CloseSession(n)
      PROVE  TypeOK'
  <2>1. NoSession \in [opened: TimeOrNone, ends_at: Int]
    BY DEF NoSession, TimeOrNone, None
  <2> QED
    BY <1>0, <1>2, <2>1 DEF CloseSession, TypeOK, interlockVars, leaseVars
<1>3. ASSUME NEW tracked \in SUBSET Tools, NEW ids \in SUBSET tracked, NEW asked \in 0 .. now,
             ReconcileSessions(tracked, ids, asked)
      PROVE  TypeOK'
  <2>1. ids \in SUBSET Names
    BY DEF Names
  <2> QED
    BY <1>3, <2>1, ReconcileTyped DEF ReconcileSessions, TypeOK, interlockVars, leaseVars
<1>4. ASSUME NEW s \in Snapshots, NEW ids \in SUBSET Rooms(s), NEW asked \in 0 .. now,
             ApplyState(s, ids, asked)
      PROVE  TypeOK'
  <2>1. ids \in SUBSET Names
    BY DEF Names, Rooms
  <2> QED
    BY <1>4, <2>1, ReconcileTyped DEF ApplyState, TypeOK, interlockVars, leaseVars
<1>5. ASSUME NEW t \in Tools, NEW c \in Conditions, NEW v \in BOOLEAN, Observe(t, c, v)
      PROVE  TypeOK'
  BY <1>0, <1>5 DEF Observe, TypeOK, sessionVars, leaseVars
<1>6. ASSUME NEW d \in Devices, NoteDeviceSeen(d)
      PROVE  TypeOK'
  BY <1>0, <1>6 DEF NoteDeviceSeen, credited, TypeOK, sessionVars, leaseVars
<1>7. ASSUME NEW t \in Tools, ResetLatch(t)
      PROVE  TypeOK'
  BY <1>7 DEF ResetLatch, TypeOK, sessionVars, leaseVars
<1>8. ASSUME NEW d \in Devices, NEW v \in BOOLEAN, NoteRelayState(d, v)
      PROVE  TypeOK'
  BY <1>0, <1>8 DEF NoteRelayState, TypeOK, sessionVars, interlockVars
<1>9. ASSUME NEW n \in Names, NEW at \in 0 .. now, NEW momentary \in BOOLEAN
      PROVE  (IF momentary THEN at + Pulse ELSE None) \in Int
  BY <1>0 DEF None
<1> QED
  BY <1>1, <1>2, <1>3, <1>4, <1>5, <1>6, <1>7, <1>8, <1>9
     DEF SessionCall, SensorCall, RelayCall

\* Every step of a watchdog pass, and the clock, keeps the types.
LEMMA PassTyped ==
    ASSUME TypeOK, PassWellFormed, TickStep \/ TickEnd \/ Advance
    PROVE  TypeOK'
<1> USE EngineAssumption DEF EngineAssumption
<1> DEFINE Pass == [pc: {"idle", "evaluate", "renew", "lease", "publish"},
                    at: TimeOrNone, todo: SUBSET Tools, tool: Tools \cup {None},
                    decision: Decision, out: SUBSET LeaseAction]
<1>0. Idle \in Pass /\ pass \in Pass /\ now \in TimeOrNone /\ None \in TimeOrNone
  BY DEF TypeOK, Idle, Allow, Decision, NoCondition, TimeOrNone, Time, None
<1>w. Wired \subseteq Tools
  BY WiringTyped DEF TypeOK
<1>1. CASE TickBegin
  <2>1. pass' \in Pass
    BY <1>0, <1>1, <1>w DEF TickBegin, Idle
  <2> QED
    BY <1>1, <2>1 DEF TickBegin, TypeOK, sessionVars, interlockVars, leaseVars
<1>2. ASSUME NEW t \in Tools, Evaluate(t)
      PROVE  TypeOK'
  <2>1. evaluate(t, pass.at) \in Decision
    BY EvaluateTyped DEF TypeOK
  <2>2. pass' \in Pass
    BY <1>0, <1>2, <2>1 DEF Evaluate
  <2> QED
    BY <1>2, <2>2 DEF Evaluate, TypeOK, sessionVars, interlockVars, leaseVars
<1>3. CASE Renew
  <2>1. pass' \in Pass
    BY <1>0, <1>3 DEF Renew
  <2>2. pass.tool \in Tools /\ pass.at \in Int
    BY <1>3 DEF Renew, PassWellFormed, Time
  <2>3. leases' \in [Tools -> Int] /\ latched' \subseteq Tools
    BY <1>3, <2>2 DEF Renew, TypeOK, lease_after, None
  <2> QED
    BY <1>3, <2>1, <2>3 DEF Renew, TypeOK, sessionVars
<1>4. CASE TickUnwired
  <2>1. pass' \in Pass
    BY <1>0, <1>4 DEF TickUnwired, FinishTool
  <2> QED
    BY <1>4, <2>1 DEF TickUnwired, TypeOK, sessionVars, interlockVars, leaseVars
<1>5. CASE TickAllow
  <2> DEFINE t == pass.tool
             power == OfRole(t, "power")
             since == IF allowed_since[t] = None THEN pass.at ELSE allowed_since[t]
             due_now == {b \in power : due(b, power, since, pass.at)}
             actions == Offer(t, due_now, TRUE) \cup Offer(t, OfRole(t, "sensor"), TRUE)
  <2>1. t \in Wired /\ t \in Tools
    BY <1>5, <1>w DEF TickAllow
  <2>2. actions \subseteq LeaseAction
    <3>1. /\ due_now \in SUBSET snapshot[t].modules
          /\ OfRole(t, "sensor") \in SUBSET snapshot[t].modules
      BY DEF OfRole
    <3>2. snapshot \in Snapshots \cup {NoSnapshot}
      BY DEF TypeOK
    <3> HIDE DEF due_now, t
    <3> QED  BY <2>1, <3>1, <3>2, OfferTyped
  <2>3. pass' \in Pass
    <3>1. FinishTool(actions)
      BY <1>5 DEF TickAllow
    <3> HIDE DEF actions
    <3> QED  BY <1>0, <2>2, <3>1 DEF FinishTool
  <2>4. since \in TimeOrNone
    BY <1>0, <2>1 DEF TypeOK
  <2>5. allowed_since' \in [Tools -> TimeOrNone]
    BY <1>5, <2>4 DEF TickAllow, TypeOK
  <2>6. granted_since' \in [Bindings -> TimeOrNone]
    <3>1. granted_since' = [b \in Bindings |-> IF b \in Ids(due_now) /\ granted_since[b] = None
                                               THEN pass.at ELSE granted_since[b]]
      BY <1>5 DEF TickAllow
    <3> QED  BY <1>0, <3>1 DEF TypeOK
  <2>7. run_on_until' \in [Bindings -> Int]
    <3>1. run_on_until' = [b \in Bindings |-> IF b \in Ids(power) THEN None ELSE run_on_until[b]]
      BY <1>5 DEF TickAllow
    <3> QED  BY <3>1 DEF TypeOK, None
  <2> QED
    BY <1>5, <2>3, <2>5, <2>6, <2>7 DEF TickAllow, TypeOK, sessionVars, interlockVars
<1>6. CASE TickDeny
  <2> DEFINE t == pass.tool
             power == OfRole(t, "power")
             started == {b \in power : run_on_starts(t, b)}
             running == {b \in power : \/ b \in started
                                       \/ /\ run_on_until[b.id] # None
                                          /\ pass.at < run_on_until[b.id]}
             actions == Offer(t, running, TRUE) \cup Offer(t, power \ running, FALSE)
                        \cup Offer(t, OfRole(t, "sensor"), FALSE)
  <2>1. t \in Wired /\ t \in Tools
    BY <1>6, <1>w DEF TickDeny
  <2>2. actions \subseteq LeaseAction
    <3>1. /\ running \in SUBSET snapshot[t].modules
          /\ power \ running \in SUBSET snapshot[t].modules
          /\ OfRole(t, "sensor") \in SUBSET snapshot[t].modules
      BY DEF OfRole
    <3>2. snapshot \in Snapshots \cup {NoSnapshot}
      BY DEF TypeOK
    <3> HIDE DEF running, power, t
    <3> QED  BY <2>1, <3>1, <3>2, OfferTyped
  <2>3. pass' \in Pass
    <3>1. FinishTool(actions)
      BY <1>6 DEF TickDeny
    <3> HIDE DEF actions
    <3> QED  BY <1>0, <2>2, <3>1 DEF FinishTool
  <2>4. allowed_since' \in [Tools -> TimeOrNone]
    BY <1>0, <1>6 DEF TickDeny, TypeOK
  <2>5. granted_since' \in [Bindings -> TimeOrNone]
    <3>1. granted_since' = [b \in Bindings |->
             IF b \in Ids(power \ running) THEN None ELSE granted_since[b]]
      BY <1>6 DEF TickDeny
    <3> QED  BY <1>0, <3>1 DEF TypeOK
  <2>6. run_on_until' \in [Bindings -> Int]
    <3>1. run_on_until' = [b \in Bindings |->
              IF b \in Ids(started)
              THEN pass.at + (CHOOSE m \in started : m.id = b).run_on
              ELSE IF b \in Ids(power \ running) THEN None ELSE run_on_until[b]]
      BY <1>6 DEF TickDeny
    <3>2. pass.at \in Int
      BY <1>6 DEF TickDeny, PassWellFormed, Time
    <3>3. started \subseteq Binding
      BY <2>1, WiringTyped DEF OfRole, TypeOK
    <3>4. ASSUME NEW b \in Ids(started)
          PROVE  (CHOOSE m \in started : m.id = b).run_on \in Int
      <4> HIDE DEF started
      <4>1. \E m \in started : m.id = b
        BY DEF Ids
      <4>2. (CHOOSE m \in started : m.id = b) \in Binding
        BY <3>3, <4>1
      <4> QED  BY <4>2 DEF Binding
    <3> HIDE DEF started, running, power
    <3> QED  BY <3>1, <3>2, <3>4 DEF TypeOK, None
  <2> QED
    BY <1>6, <2>3, <2>4, <2>5, <2>6 DEF TickDeny, TypeOK, sessionVars, interlockVars
<1>7. CASE TickEnd
  BY <1>0, <1>7 DEF TickEnd, TypeOK, sessionVars, interlockVars, leaseVars
<1>8. CASE Advance
  BY <1>8 DEF Advance, TypeOK, Time, sessionVars, interlockVars, leaseVars
<1> QED
  BY <1>1, <1>2, <1>3, <1>4, <1>5, <1>6, <1>7, <1>8 DEF TickStep

\* ... and no call from another task takes that away from it.
LEMMA PassStaysWellFormed ==
    ASSUME TypeOK, PassWellFormed, [EngineNext]_engineVars
    PROVE  PassWellFormed'
<1> USE EngineAssumption DEF EngineAssumption, PassWellFormed
<1>1. CASE SessionCall
  <2>1. snapshot' = snapshot \/ snapshot' \in Snapshots
    BY <1>1 DEF SessionCall, OpenSession, CloseSession, ReconcileSessions, ApplyState
  <2>2. pass' = pass
    BY <1>1 DEF SessionCall, OpenSession, CloseSession, ReconcileSessions, ApplyState
  <2> QED  BY <2>1, <2>2
<1>2. CASE SensorCall \/ RelayCall \/ Advance \/ UNCHANGED engineVars
  BY <1>2 DEF SensorCall, RelayCall, Advance, engineVars, Observe, NoteDeviceSeen,
              ResetLatch, NoteRelayState
<1>3. CASE TickBegin \/ TickEnd
  <2>1. CASE TickBegin
    <3>1. pass'.pc = "evaluate" /\ pass'.at = now
      BY <2>1 DEF TickBegin, Idle
    <3>2. snapshot' = snapshot /\ snapshot # NoSnapshot
      BY <2>1 DEF TickBegin, Wired
    <3> QED  BY <3>1, <3>2 DEF TypeOK
  <2>2. CASE TickEnd
    BY <2>2 DEF TickEnd, Idle
  <2> QED  BY <1>3, <2>1, <2>2
<1>4. ASSUME NEW t \in Tools, Evaluate(t)
      PROVE  PassWellFormed'
  BY <1>4 DEF Evaluate, TypeOK
<1>5. CASE Renew
  BY <1>5 DEF Renew, TypeOK
<1>6. CASE TickUnwired \/ TickAllow \/ TickDeny
  BY <1>6 DEF TickUnwired, TickAllow, TickDeny, FinishTool, TypeOK
<1> QED
  BY <1>1, <1>2, <1>3, <1>4, <1>5, <1>6 DEF EngineNext, TickStep

\* Every field of the engine keeps its type, and the watchdog always knows the
\* tool and the instant its later locks act on, whatever the other tasks call
\* in between.
THEOREM EngineTyped == EngineSpec => [](TypeOK /\ PassWellFormed)
<1>1. EngineInit => TypeOK /\ PassWellFormed
  BY InitTyped DEF EngineInit, PassWellFormed, Idle
<1>2. TypeOK /\ PassWellFormed /\ [EngineNext]_engineVars => (TypeOK /\ PassWellFormed)'
  <2> SUFFICES ASSUME TypeOK, PassWellFormed, [EngineNext]_engineVars
               PROVE  TypeOK' /\ PassWellFormed'
    OBVIOUS
  <2>1. CASE UNCHANGED engineVars
    BY <2>1, PassStaysWellFormed
       DEF TypeOK, engineVars, sessionVars, interlockVars, leaseVars
  <2>2. CASE EngineNext
    BY <2>2, CallsTyped, PassTyped, PassStaysWellFormed DEF EngineNext
  <2> QED  BY <2>1, <2>2
<1> QED  BY <1>1, <1>2, PTL DEF EngineSpec

-----------------------------------------------------------------------------
(* Stops *)

\* StopOutranksOlderSync is not inductive: it says nothing of a session held
\* beside a remembered stop that is not in use yet, nor of a claim weaker than
\* the stop.  A remembered stop leaves no session of this edge's behind, and
\* any claim standing beside it is at least as new.
StopInvariant ==
    \A k \in Names :
        local_stops[k] # None =>
            /\ local_sessions[k] = NoSession
            /\ k \in synced_in_use => claimed[k] >= local_stops[k]

\* A sync leaves every remembered stop standing over what it claims.
LEMMA ReconcileKeepsStops ==
    ASSUME TypeOK, StopInvariant, NEW tracked, NEW ids \in SUBSET Names,
           NEW asked \in 0 .. now, reconcile_tracked(ids, tracked, asked)
    PROVE  StopInvariant'
<1> SUFFICES ASSUME NEW k \in Names, local_stops'[k] # None
             PROVE  /\ local_sessions'[k] = NoSession
                    /\ k \in synced_in_use' => claimed'[k] >= local_stops'[k]
  BY DEF StopInvariant
<1>1. local_stops'[k] = local_stops[k] /\ remembered(local_stops)[k] = local_stops[k]
  BY DEF reconcile_tracked, remembered
<1>2. local_stops[k] # None /\ local_stops[k] \in Int /\ asked \in Int
  <2>1. local_stops[k] \in TimeOrNone
    BY DEF TypeOK
  <2> QED  BY <1>1, <2>1 DEF TimeOrNone, Time, None, TypeOK
<1>3. local_sessions'[k] = NoSession
  BY <1>2 DEF StopInvariant, reconcile_tracked
<1>4. ASSUME k \in synced_in_use' PROVE claimed'[k] >= local_stops'[k]
  <2>1. CASE k \in believed(ids, asked)
    <3>1. claimed'[k] = asked
      BY <2>1 DEF reconcile_tracked, TypeOK
    <3>2. ~(local_stops[k] > asked)
      BY <1>1, <1>2, <2>1 DEF believed
    <3> QED  BY <1>1, <1>2, <3>1, <3>2
  <2>2. CASE k \notin believed(ids, asked)
    <3>1. k \in synced_in_use /\ claimed'[k] = claimed[k]
      BY <1>4, <2>2 DEF reconcile_tracked
    <3> QED  BY <1>1, <1>2, <3>1 DEF StopInvariant
  <2> QED  BY <2>1, <2>2
<1> QED  BY <1>3, <1>4

\* For as long as a stop made at this edge is remembered, the resource is in
\* use only on the word of a sync asked for at or after the stop, in every
\* order in which scans, stops, syncs, snapshots and watchdog passes arrive.
THEOREM StopsOutrankOlderSyncs == EngineSpec => []StopOutranksOlderSync
<1>1. EngineInit => StopInvariant
  BY DEF EngineInit, StopInvariant
<1>2. TypeOK /\ StopInvariant /\ [EngineNext]_engineVars => StopInvariant'
  <2> SUFFICES ASSUME TypeOK, StopInvariant, [EngineNext]_engineVars
               PROVE  StopInvariant'
    OBVIOUS
  <2>1. ASSUME NEW n \in Names, NEW at, NEW ends, OpenSession(n, at, ends)
        PROVE  StopInvariant'
    BY <2>1 DEF OpenSession, StopInvariant, TypeOK
  <2>2. ASSUME NEW n \in Names, CloseSession(n)
        PROVE  StopInvariant'
    BY <2>2 DEF CloseSession, StopInvariant, TypeOK
  <2>3. ASSUME NEW tracked \in SUBSET Tools, NEW ids \in SUBSET tracked,
               NEW asked \in 0 .. now, ReconcileSessions(tracked, ids, asked)
        PROVE  StopInvariant'
    <3>1. ids \in SUBSET Names
      BY DEF Names
    <3> QED  BY <2>3, <3>1, ReconcileKeepsStops DEF ReconcileSessions
  <2>4. ASSUME NEW s \in Snapshots, NEW ids \in SUBSET Rooms(s), NEW asked \in 0 .. now,
               ApplyState(s, ids, asked)
        PROVE  StopInvariant'
    <3>1. ids \in SUBSET Names
      BY EngineAssumption DEF Names, Rooms, EngineAssumption
    <3> QED  BY <2>4, <3>1, ReconcileKeepsStops DEF ApplyState
  <2>5. CASE SensorCall \/ RelayCall \/ TickStep \/ TickEnd \/ Advance \/ UNCHANGED engineVars
    <3>1. UNCHANGED sessionVars
      BY <2>5 DEF SensorCall, RelayCall, TickStep, TickEnd, Advance, engineVars, Observe,
                  NoteDeviceSeen, ResetLatch, NoteRelayState, TickBegin, Evaluate, Renew,
                  TickUnwired, TickAllow, TickDeny
    <3> QED  BY <3>1 DEF sessionVars, StopInvariant
  <2> QED
    BY <2>1, <2>2, <2>3, <2>4, <2>5 DEF EngineNext, SessionCall
<1>3. StopInvariant => StopOutranksOlderSync
  BY DEF StopInvariant, StopOutranksOlderSync, in_use
<1> QED  BY <1>1, <1>2, <1>3, EngineTyped, PTL DEF EngineSpec

-----------------------------------------------------------------------------
(* Latches *)

\* The case the latch properties are about: the tools of an installation are
\* all wired, in every snapshot it is sent.  (A tool that is taken out of the
\* wiring in the middle of a pass is evaluated as one without rules.)
StableTools == \A s \in Snapshots : DOMAIN s = Tools

\* Neither property about latches is inductive: an Allow decided under an
\* earlier lock must still be safe to act on at both later ones.
LatchInvariant ==
    /\ LatchedNeverRenewed
    /\ pass.pc \in {"renew", "lease"} /\ pass.decision = Allow => pass.tool \notin latched

\* A latched tool of the snapshot is denied.
LEMMA LatchedIsDenied ==
    ASSUME snapshot # NoSnapshot, NEW t \in Wired, t \in latched, NEW at
    PROVE  evaluate(t, at) # Allow
<1>1. Deny("Latched") # Allow
  BY DEF Deny, Allow
<1>2. evaluate(t, at) = Deny("Latched")
  BY DEF evaluate, latch_holds, Wired
<1> QED  BY <1>1, <1>2

\* Every call and every step of a pass keeps a latched tool without a lease and
\* its verdict in hand a denial.
LEMMA LatchInvariantKept ==
    ASSUME StableTools, TypeOK, PassWellFormed, LatchInvariant, [EngineNext]_engineVars
    PROVE  LatchInvariant'
<1> USE DEF LatchInvariant, LatchedNeverRenewed
<1>1. CASE SessionCall
  BY <1>1 DEF SessionCall, OpenSession, CloseSession, ReconcileSessions, ApplyState,
              interlockVars, leaseVars
<1>2. CASE SensorCall \/ RelayCall \/ Advance \/ UNCHANGED engineVars
  BY <1>2 DEF SensorCall, RelayCall, Advance, engineVars, Observe, NoteDeviceSeen, ResetLatch,
              NoteRelayState, interlockVars, leaseVars
<1>3. CASE TickBegin
  <2>1. pass'.pc = "evaluate"
    BY <1>3 DEF TickBegin, Idle
  <2> QED  BY <1>3, <2>1 DEF TickBegin, interlockVars, leaseVars
<1>4. ASSUME NEW t \in Tools, Evaluate(t)
      PROVE  LatchInvariant'
  <2>1. snapshot # NoSnapshot /\ t \in Wired
    BY <1>4 DEF Evaluate, PassWellFormed, TypeOK, Wired, StableTools
  <2>2. pass'.tool = t /\ pass'.decision = evaluate(t, pass.at)
    BY <1>4 DEF Evaluate, TypeOK
  <2>3. pass'.decision = Allow => t \notin latched
    BY <2>1, <2>2, LatchedIsDenied
  <2>4. UNCHANGED <<latched, leases>>
    BY <1>4 DEF Evaluate, interlockVars, leaseVars
  <2>5. Allow' = Allow
    BY DEF Allow, NoCondition
  <2> QED  BY <2>2, <2>3, <2>4, <2>5
<1>5. CASE Renew
  <2>1. latches(pass.tool, pass.decision) => pass.decision # Allow
    BY DEF latches, Allow
  <2>2. /\ pass'.tool = pass.tool /\ pass'.decision = pass.decision
        /\ pass.tool \in Tools
    BY <1>5 DEF Renew, TypeOK, PassWellFormed
  <2>3. pass.decision = Allow => latched' = latched /\ pass.tool \notin latched
    BY <1>5, <2>1 DEF Renew
  <2>4. pass.decision # Allow => leases'[pass.tool] = None
    BY <1>5, <2>2 DEF Renew, lease_after, TypeOK
  <2>5. \A u \in Tools : u # pass.tool => leases'[u] = leases[u]
    BY <1>5 DEF Renew, TypeOK
  <2>6. latched' \subseteq latched \cup {pass.tool} /\ latched \subseteq Tools
    BY <1>5 DEF Renew, TypeOK
  <2>7. \A u \in latched' : leases'[u] = None
    BY <2>2, <2>3, <2>4, <2>5, <2>6
  <2>8. Allow' = Allow
    BY DEF Allow, NoCondition
  <2> QED  BY <2>2, <2>3, <2>7, <2>8
<1>6. CASE TickUnwired \/ TickAllow \/ TickDeny
  <2>1. pass'.pc \in {"publish", "evaluate"}
    BY <1>6 DEF TickUnwired, TickAllow, TickDeny, FinishTool, TypeOK
  <2>2. UNCHANGED <<latched, leases>>
    BY <1>6 DEF TickUnwired, TickAllow, TickDeny, interlockVars, leaseVars
  <2> QED  BY <2>1, <2>2
<1>7. CASE TickEnd
  BY <1>7 DEF TickEnd, Idle, interlockVars, leaseVars
<1> QED
  BY <1>1, <1>2, <1>3, <1>4, <1>5, <1>6, <1>7 DEF EngineNext, TickStep

\* While the wiring keeps naming every tool, a tool with a latched trip holds
\* no lease and no pass is about to grant it one, although each pass decides
\* under one lock and acts under two later ones.
THEOREM LatchedStaysOff ==
    ASSUME StableTools
    PROVE  EngineSpec => []LatchedToolsAreOff
<1>1. EngineInit => LatchInvariant
  BY DEF EngineInit, LatchInvariant, LatchedNeverRenewed, Idle
<1>2. TypeOK /\ PassWellFormed /\ LatchInvariant /\ [EngineNext]_engineVars => LatchInvariant'
  BY LatchInvariantKept
<1>3. LatchInvariant => LatchedToolsAreOff
  BY DEF LatchInvariant, LatchedToolsAreOff, LatchedNeverGranted
<1> QED  BY <1>1, <1>2, <1>3, EngineTyped, PTL DEF EngineSpec

-----------------------------------------------------------------------------
(* Run-on *)

\* A binding is a row of the server's table of modules: it belongs to one
\* resource, and no other resource of the snapshot shows its id.
BindingsHaveOneTool ==
    \A s \in Snapshots : \A t, u \in DOMAIN s :
        \A b \in s[t].modules, c \in s[u].modules : b.id = c.id => t = u

\* What one step may do to the run-on of a tool that stays denied.
RunOnKept ==
    \A t \in Wired : \A b \in OfRole(t, "power") :
        allowed_since[t] = None => run_on_until'[b.id] \in {None, run_on_until[b.id]}

\* A pass touches the run-on of the bindings of its own tool, and starts one
\* only where an allow is ending.
LEMMA PassKeepsRunOn ==
    ASSUME BindingsHaveOneTool, TypeOK, PassWellFormed, TickAllow \/ TickDeny
    PROVE  RunOnKept
<1> SUFFICES ASSUME NEW t \in Wired, NEW b \in OfRole(t, "power"), allowed_since[t] = None
             PROVE  run_on_until'[b.id] \in {None, run_on_until[b.id]}
  BY DEF RunOnKept
<1>1. /\ snapshot \in Snapshots /\ t \in DOMAIN snapshot /\ b \in snapshot[t].modules
      /\ b.id \in Bindings
  <2>1. snapshot \in Snapshots /\ t \in DOMAIN snapshot /\ snapshot[t].modules \subseteq Binding
    BY WiringTyped DEF TypeOK
  <2> QED  BY <2>1 DEF OfRole, Binding
<1>2. CASE TickAllow
  <2> DEFINE power == OfRole(pass.tool, "power")
  <2>1. run_on_until' = [i \in Bindings |-> IF i \in Ids(power) THEN None ELSE run_on_until[i]]
    BY <1>2 DEF TickAllow
  <2> HIDE DEF power
  <2> QED  BY <1>1, <2>1
<1>3. CASE TickDeny
  <2> DEFINE u == pass.tool
             power == OfRole(u, "power")
             started == {m \in power : run_on_starts(u, m)}
             running == {m \in power : \/ m \in started
                                       \/ /\ run_on_until[m.id] # None
                                          /\ pass.at < run_on_until[m.id]}
  <2>1. run_on_until' = [i \in Bindings |->
              IF i \in Ids(started)
              THEN pass.at + (CHOOSE m \in started : m.id = i).run_on
              ELSE IF i \in Ids(power \ running) THEN None ELSE run_on_until[i]]
    BY <1>3 DEF TickDeny
  <2>2. b.id \notin Ids(started)
    <3> SUFFICES ASSUME NEW m \in started, m.id = b.id PROVE FALSE
      BY DEF Ids
    <3>1. u \in Wired /\ m \in snapshot[u].modules /\ allowed_since[u] # None
      BY <1>3 DEF TickDeny, OfRole, run_on_starts
    <3>2. u \in DOMAIN snapshot
      BY <3>1, WiringTyped DEF TypeOK
    <3>3. u = t
      BY <1>1, <3>1, <3>2 DEF BindingsHaveOneTool
    <3> QED  BY <3>1, <3>3
  <2> HIDE DEF power, started, running
  <2> QED  BY <1>1, <2>1, <2>2
<1> QED  BY <1>2, <1>3

\* No other step touches it.
LEMMA OthersKeepRunOn ==
    ASSUME [EngineNext]_engineVars, ~ TickAllow, ~ TickDeny
    PROVE  UNCHANGED run_on_until
BY DEF EngineNext, SessionCall, SensorCall, RelayCall, TickStep, TickEnd, Advance, engineVars,
       OpenSession, CloseSession, ReconcileSessions, ApplyState, Observe, NoteDeviceSeen,
       ResetLatch, NoteRelayState, TickBegin, Evaluate, Renew, TickUnwired, leaseVars

\* However many passes deny a tool and whatever is called between their locks,
\* its modules' run-on is started once, by the pass that ends the allow, and
\* never put off: the machine that should spin down stops.
THEOREM RunOnEnds ==
    ASSUME BindingsHaveOneTool
    PROVE  EngineSpec => RunOnNeverExtended
<1>1. ASSUME TypeOK, PassWellFormed, [EngineNext]_engineVars PROVE RunOnKept
  <2>1. CASE TickAllow \/ TickDeny
    BY <1>1, <2>1, PassKeepsRunOn
  <2>2. CASE ~ TickAllow /\ ~ TickDeny
    BY <1>1, <2>2, OthersKeepRunOn DEF RunOnKept
  <2> QED  BY <2>1, <2>2
<1>2. TypeOK /\ PassWellFormed /\ [EngineNext]_engineVars => [RunOnKept]_engineVars
  BY <1>1
<1> QED  BY <1>2, EngineTyped, PTL DEF EngineSpec, RunOnNeverExtended, RunOnKept

-----------------------------------------------------------------------------
(* Who uses what, as the edge and the server come to agree on it *)

Posts == [kind : {"scan", "stop"}, tool : Tools, op : Nat]
Questions == [tool : Tools, at : Nat, yes : {"asked", "yes", "no"}]
Payloads == [src : {"poll", "push", "alias"}, pc : {"asked", "read", "sent"}, as_of : Int,
             in_use : SUBSET Tools, stamp : Int]
Arrivals == [in_use : SUBSET Tools, as_of : Int]
SyncTyped ==
    /\ now \in Nat /\ ops \in Nat /\ snapshot = NoSnapshot
    /\ DOMAIN local_sessions = Names /\ local_stops \in [Names -> Int] /\ synced_in_use \subseteq Tools
    /\ granted \in [Tools -> Nat] /\ stopped \in [Tools -> Nat] /\ scanned \in [Tools -> Int]
    /\ server \subseteq Tools /\ posts \subseteq Posts /\ asking \subseteq Questions
    /\ payloads \subseteq Payloads /\ arrivals \in Seq(Arrivals) /\ calm \in BOOLEAN

\* A session that began less than the grace ago is open as it was opened.
YoungAreOpen ==
    \A t \in Tools : scanned[t] # None /\ now - scanned[t] < Grace =>
        local_sessions[t] = [opened |-> scanned[t], ends_at |-> None]

-----------------------------------------------------------------------------
(* The engine's steps, without wiring *)

\* No wiring, no short names.
LEMMA ToolsAreKeys ==
    ASSUME snapshot = NoSnapshot, NEW t
    PROVE  tool_key(t) = t
BY DEF tool_key, Wired

\* A session is opened.
LEMMA Opens ==
    ASSUME SyncTyped, NEW t \in Tools, NEW opened, OpenSession(t, opened, None)
    PROVE  /\ local_stops' = [local_stops EXCEPT ![t] = None] /\ local_stops' \in [Names -> Int]
           /\ DOMAIN local_sessions' = Names /\ local_sessions'[t] = [opened |-> opened, ends_at |-> None]
           /\ \A k \in Names : k # t => local_sessions'[k] = local_sessions[k] /\ local_stops'[k] = local_stops[k]
           /\ UNCHANGED <<now, snapshot, synced_in_use>>
<1>1. tool_key(t) = t /\ t \in Names
  BY ToolsAreKeys DEF SyncTyped, Names
<1> QED  BY <1>1 DEF OpenSession, SyncTyped, None

\* A session is closed, and the stop remembered.
LEMMA Closes ==
    ASSUME SyncTyped, NEW t \in Tools, CloseSession(t)
    PROVE  /\ local_stops' \in [Names -> Int] /\ local_stops'[t] = now
           /\ DOMAIN local_sessions' = Names /\ local_sessions'[t] = NoSession
           /\ \A k \in Names : k # t => local_sessions'[k] = local_sessions[k] /\ local_stops'[k] = local_stops[k]
           /\ synced_in_use' = synced_in_use \ {t} /\ UNCHANGED <<now, snapshot>>
<1>1. tool_key(t) = t /\ t \in Names
  BY ToolsAreKeys DEF SyncTyped, Names
<1> QED  BY <1>1 DEF CloseSession, SyncTyped, None

\* A sync of every tool: what it lists is in use unless a stop outranks it, and
\* the young sessions stay.
LEMMA Reconciles ==
    ASSUME SyncTyped, NEW ids \in SUBSET Tools, NEW asked, ReconcileSessions(Tools, ids, asked)
    PROVE  /\ local_stops' = remembered(local_stops) /\ local_stops' \in [Names -> Int]
           /\ DOMAIN local_sessions' = Names
           /\ \A k \in Names : local_sessions'[k] \in {local_sessions[k], NoSession}
           /\ \A k \in Names : local_sessions[k] # NoSession /\ local_sessions[k].ends_at = None
                               /\ now - local_sessions[k].opened < Grace => local_sessions'[k] = local_sessions[k]
           /\ synced_in_use' = believed(ids, asked) /\ synced_in_use' \subseteq Tools
           /\ UNCHANGED <<now, snapshot>>
<1>1. /\ local_stops' = remembered(local_stops) /\ UNCHANGED <<now, snapshot>>
      /\ local_sessions' = [k \in Names |-> IF local_sessions[k] # NoSession /\ survives(k, Tools, believed(ids, asked))
                                            THEN local_sessions[k] ELSE NoSession]
      /\ synced_in_use' = (synced_in_use \ Tools) \cup believed(ids, asked)
  BY DEF ReconcileSessions, reconcile_tracked
<1>2. believed(ids, asked) \subseteq Tools
  BY DEF believed
<1>3. local_stops' \in [Names -> Int]
  BY <1>1 DEF SyncTyped, remembered, None
<1>4. \A k \in Names : local_sessions[k] # NoSession /\ local_sessions[k].ends_at = None
                       /\ now - local_sessions[k].opened < Grace => local_sessions'[k] = local_sessions[k]
  BY <1>1 DEF survives
<1>5. synced_in_use' = believed(ids, asked)
  BY <1>1, <1>2 DEF SyncTyped
<1>6. DOMAIN local_sessions' = Names /\ \A k \in Names : local_sessions'[k] \in {local_sessions[k], NoSession}
  BY <1>1
<1> QED  BY <1>1, <1>2, <1>3, <1>4, <1>5, <1>6

\* What the oldest arrival holds.
LEMMA OldestArrival ==
    ASSUME SyncTyped, arrivals # <<>>
    PROVE  /\ Head(arrivals) = arrivals[1] /\ Head(arrivals) \in Arrivals /\ 1 \in 1 .. Len(arrivals)
           /\ Tail(arrivals) \in Seq(Arrivals) /\ Len(arrivals) \in Nat /\ Len(Tail(arrivals)) = Len(arrivals) - 1
           /\ \A i \in 1 .. Len(Tail(arrivals)) : i + 1 \in 1 .. Len(arrivals) /\ Tail(arrivals)[i] = arrivals[i + 1]
BY DEF SyncTyped

-----------------------------------------------------------------------------
\* Every step keeps the types.
LEMMA SyncTypedStep ==
    ASSUME SyncTyped, SyncNext
    PROVE  SyncTyped'
<1> USE DEF netVars, cacheVars, historyVars, engineVars, sessionVars
<1>0. None \in Int
  BY DEF None
<1>1. ASSUME NEW t \in Tools, ScanLocal(t) PROVE SyncTyped'
  <2>1. OpenSession(t, now, None)
    BY <1>1 DEF ScanLocal
  <2>2. [kind |-> "scan", tool |-> t, op |-> Op] \in Posts
    BY DEF Posts, Op, SyncTyped
  <2>3. posts' \subseteq Posts /\ granted' \in [Tools -> Nat] /\ scanned' \in [Tools -> Int] /\ ops' \in Nat
    BY <1>1, <2>2 DEF ScanLocal, Op, SyncTyped
  <2> QED  BY <1>1, <2>1, <2>3, Opens DEF ScanLocal, SyncTyped
<1>2. ASSUME NEW t \in Tools, ScanAsk(t) PROVE SyncTyped'
  <2>1. [tool |-> t, at |-> now, yes |-> "asked"] \in Questions
    BY DEF Questions, SyncTyped
  <2> QED  BY <1>2, <2>1 DEF ScanAsk, Op, SyncTyped
<1>3. ASSUME NEW t \in Tools, Stop(t) PROVE SyncTyped'
  <2>1. CloseSession(t)
    BY <1>3 DEF Stop
  <2>2. [kind |-> "stop", tool |-> t, op |-> Op] \in Posts
    BY DEF Posts, Op, SyncTyped
  <2>3. posts' \subseteq Posts /\ stopped' \in [Tools -> Nat] /\ scanned' \in [Tools -> Int] /\ ops' \in Nat
    BY <1>0, <1>3, <2>2 DEF Stop, Op, SyncTyped
  <2> QED  BY <1>3, <2>1, <2>3, Closes DEF Stop, SyncTyped
<1>4. ASSUME NEW a \in asking, ScanDecided(a) PROVE SyncTyped'
  <2>1. a \in Questions
    BY DEF SyncTyped
  <2>2. [a EXCEPT !.yes = "yes"] \in Questions /\ [a EXCEPT !.yes = "no"] \in Questions
    BY <2>1 DEF Questions
  <2>3. asking' \subseteq Questions
    BY <1>4, <2>2 DEF ScanDecided, SyncTyped
  <2>4. server' \subseteq Tools /\ granted' \in [Tools -> Nat] /\ ops' \in Nat
    BY <1>4, <2>1 DEF ScanDecided, SyncTyped, Questions, Op
  <2> QED  BY <1>4, <2>3, <2>4 DEF ScanDecided, SyncTyped
<1>5. ASSUME NEW a \in asking, ScanAnswered(a) PROVE SyncTyped'
  <2>1. a.tool \in Tools /\ a.at \in Nat
    BY DEF SyncTyped, Questions
  <2>2. asking' \subseteq Questions /\ UNCHANGED <<server, posts, payloads, dirty, cacheVars, stopped, calm>>
    BY <1>5 DEF ScanAnswered, SyncTyped
  <2>3. CASE OpenSession(a.tool, a.at, None) /\ granted' = [granted EXCEPT ![a.tool] = Op]
             /\ scanned' = [scanned EXCEPT ![a.tool] = a.at] /\ ops' = Op
    <3>1. granted' \in [Tools -> Nat] /\ scanned' \in [Tools -> Int] /\ ops' \in Nat
      BY <2>1, <2>3 DEF SyncTyped, Op
    <3> QED  BY <2>1, <2>2, <2>3, <3>1, Opens DEF SyncTyped
  <2>4. CASE UNCHANGED <<engineVars, granted, scanned, ops>>
    BY <2>2, <2>4 DEF SyncTyped
  <2> QED  BY <1>5, <2>3, <2>4 DEF ScanAnswered
<1>6. ASSUME NEW a \in asking, ScanFailed(a) PROVE SyncTyped'
  <2>1. a.tool \in Tools
    BY DEF SyncTyped, Questions
  <2>2. stopped' \in [Tools -> Nat] /\ ops' \in Nat
    BY <1>6, <2>1 DEF ScanFailed, SyncTyped, Op
  <2> QED  BY <1>6, <2>2 DEF ScanFailed, SyncTyped
<1>7. ASSUME NEW p \in posts, ServerTakes(p) PROVE SyncTyped'
  <2>1. p.tool \in Tools
    BY DEF SyncTyped, Posts
  <2>2. server' \subseteq Tools /\ posts' \subseteq Posts
    BY <1>7, <2>1 DEF ServerTakes, SyncTyped
  <2>3. calm' \in BOOLEAN
    BY <1>7, Zenon DEF ServerTakes
  <2> QED  BY <1>7, <2>2, <2>3 DEF ServerTakes, SyncTyped
<1>8. ASSUME NEW p \in posts, PostLost(p) PROVE SyncTyped'
  BY <1>8 DEF PostLost, SyncTyped
<1>9. CASE PollAsk
  <2>1. [src |-> "poll", pc |-> "asked", as_of |-> now, in_use |-> {}, stamp |-> None] \in Payloads
    BY <1>0 DEF Payloads, SyncTyped
  <2> QED  BY <1>9, <2>1 DEF PollAsk, SyncTyped
<1>10. ASSUME NEW p \in payloads, PolicyRead(p) PROVE SyncTyped'
  <2>1. p \in Payloads /\ server \in SUBSET Tools
    BY DEF SyncTyped
  <2>2. [p EXCEPT !.pc = "read", !.in_use = server] \in Payloads
    BY <2>1 DEF Payloads
  <2>3. calm' \in BOOLEAN
    BY <1>10, Zenon DEF PolicyRead
  <2> QED  BY <1>10, <2>2, <2>3 DEF PolicyRead, SyncTyped
<1>11. ASSUME NEW p \in payloads, PolicyStamp(p) PROVE SyncTyped'
  <2>1. p \in Payloads /\ now \in Int
    BY DEF SyncTyped
  <2>2. [p EXCEPT !.pc = "sent", !.stamp = now] \in Payloads
    BY <2>1 DEF Payloads
  <2> QED  BY <1>11, <2>2 DEF PolicyStamp, SyncTyped
<1>12. ASSUME NEW p \in payloads, PayloadArrives(p) PROVE SyncTyped'
  <2>1. [in_use |-> p.in_use, as_of |-> p.as_of] \in Arrivals
    BY DEF SyncTyped, Payloads, Arrivals
  <2>2. UNCHANGED <<engineVars, server, posts, asking, dirty, historyVars>> /\ payloads' \subseteq payloads
    BY <1>12 DEF PayloadArrives
  <2>3. \/ arrivals' = arrivals
        \/ arrivals' = Append(arrivals, [in_use |-> p.in_use, as_of |-> p.as_of])
    BY <1>12, Zenon DEF PayloadArrives
  <2>4. arrivals' \in Seq(Arrivals)
    <3>1. PICK x : x = [in_use |-> p.in_use, as_of |-> p.as_of]
      OBVIOUS
    <3>2. x \in Arrivals /\ arrivals \in Seq(Arrivals)
      BY <2>1, <3>1 DEF SyncTyped
    <3>3. Append(arrivals, x) \in Seq(Arrivals)
      BY <3>2
    <3> QED  BY <2>3, <3>1, <3>2, <3>3
  <2> QED  BY <2>2, <2>4 DEF SyncTyped
<1>13. ASSUME NEW p \in payloads, PollFails(p) PROVE SyncTyped'
  BY <1>13 DEF PollFails, SyncTyped
<1>14. CASE Push
  <2>1. \A s \in {"push", "alias"} :
          [src |-> s, pc |-> "read", as_of |-> None, in_use |-> server, stamp |-> None] \in Payloads
    BY <1>0 DEF Payloads, SyncTyped
  <2> QED  BY <1>14, <2>1 DEF Push, SyncTyped
<1>15. CASE Drain
  <2>1. PICK a : a = Head(arrivals)
    OBVIOUS
  <2>2. arrivals # <<>> /\ arrivals' = Tail(arrivals) /\ ReconcileSessions(Tools, a.in_use, as_of(a))
        /\ UNCHANGED <<netVars, listed, applied_at, historyVars>>
    BY <1>15, <2>1 DEF Drain
  <2>3. a.in_use \in SUBSET Tools /\ arrivals' \in Seq(Arrivals)
    BY <2>1, <2>2, OldestArrival DEF Arrivals
  <2> QED  BY <2>2, <2>3, Reconciles DEF SyncTyped
<1>16. CASE TimePasses
  BY <1>16 DEF TimePasses, Advance, SyncTyped
<1> QED  BY <1>1, <1>2, <1>3, <1>4, <1>5, <1>6, <1>7, <1>8, <1>9, <1>10, <1>11, <1>12, <1>13, <1>14, <1>15, <1>16
         DEF SyncNext

\* A step closes no young session, but a stop at this edge.
LEMMA YoungStep ==
    ASSUME SyncTyped, YoungAreOpen, SyncNext
    PROVE  YoungAreOpen'
<1> USE DEF netVars, cacheVars, historyVars, engineVars, sessionVars
<1>1. ASSUME NEW u \in Tools, NEW at \in Nat, OpenSession(u, at, None), scanned' = [scanned EXCEPT ![u] = at]
      PROVE  YoungAreOpen'
  <2> SUFFICES ASSUME NEW t \in Tools, scanned'[t] # None, now' - scanned'[t] < Grace
               PROVE  local_sessions'[t] = [opened |-> scanned'[t], ends_at |-> None]
    BY DEF YoungAreOpen
  <2>1. CASE t = u
    BY <1>1, <2>1, Opens DEF SyncTyped
  <2>2. CASE t # u
    BY <1>1, <2>2, Opens DEF SyncTyped, YoungAreOpen, Names
  <2> QED  BY <2>1, <2>2
<1>2. ASSUME UNCHANGED <<scanned, local_sessions, now>> PROVE YoungAreOpen'
  BY <1>2 DEF YoungAreOpen
<1>3. ASSUME NEW t \in Tools, ScanLocal(t) PROVE YoungAreOpen'
  BY <1>1, <1>3 DEF ScanLocal, SyncTyped
<1>4. ASSUME NEW t \in Tools, ScanAsk(t) PROVE YoungAreOpen'
  BY <1>2, <1>4 DEF ScanAsk
<1>5. ASSUME NEW u \in Tools, Stop(u) PROVE YoungAreOpen'
  <2> SUFFICES ASSUME NEW t \in Tools, scanned'[t] # None, now' - scanned'[t] < Grace
               PROVE  local_sessions'[t] = [opened |-> scanned'[t], ends_at |-> None]
    BY DEF YoungAreOpen
  <2>1. t # u /\ scanned'[t] = scanned[t]
    BY <1>5 DEF Stop, SyncTyped
  <2> QED  BY <1>5, <2>1, Closes DEF Stop, YoungAreOpen, Names
<1>6. ASSUME NEW a \in asking, ScanAnswered(a) PROVE YoungAreOpen'
  <2>1. a.tool \in Tools /\ a.at \in Nat
    BY DEF SyncTyped, Questions
  <2> QED  BY <1>1, <1>2, <1>6, <2>1 DEF ScanAnswered
<1>7. ASSUME NEW a \in asking, ScanDecided(a) \/ ScanFailed(a) PROVE YoungAreOpen'
  BY <1>2, <1>7 DEF ScanDecided, ScanFailed
<1>8. ASSUME NEW p \in posts, ServerTakes(p) \/ PostLost(p) PROVE YoungAreOpen'
  BY <1>2, <1>8 DEF ServerTakes, PostLost
<1>9. CASE PollAsk \/ Push
  BY <1>2, <1>9 DEF PollAsk, Push
<1>10. ASSUME NEW p \in payloads, PolicyRead(p) \/ PolicyStamp(p) \/ PayloadArrives(p) \/ PollFails(p)
       PROVE  YoungAreOpen'
  BY <1>2, <1>10 DEF PolicyRead, PolicyStamp, PayloadArrives, PollFails
<1>11. CASE Drain
  <2>1. PICK a : a = Head(arrivals)
    OBVIOUS
  <2>2. arrivals # <<>> /\ ReconcileSessions(Tools, a.in_use, as_of(a)) /\ scanned' = scanned
    BY <1>11, <2>1 DEF Drain
  <2>3. a.in_use \in SUBSET Tools
    BY <2>1, <2>2, OldestArrival DEF Arrivals
  <2> SUFFICES ASSUME NEW t \in Tools, scanned'[t] # None, now' - scanned'[t] < Grace
               PROVE  local_sessions'[t] = [opened |-> scanned'[t], ends_at |-> None]
    BY DEF YoungAreOpen
  <2>4. now' = now
    BY <2>2, <2>3, Reconciles
  <2>5. local_sessions[t] = [opened |-> scanned[t], ends_at |-> None]
    BY <2>2, <2>4 DEF YoungAreOpen
  <2>6. local_sessions[t] # NoSession
    BY <2>2, <2>5 DEF NoSession
  <2>7. t \in Names
    BY DEF Names
  <2>8. local_sessions[t].ends_at = None /\ now - local_sessions[t].opened < Grace
    BY <2>2, <2>4, <2>5
  <2>9. \A k \in Names : local_sessions[k] # NoSession /\ local_sessions[k].ends_at = None
                        /\ now - local_sessions[k].opened < Grace => local_sessions'[k] = local_sessions[k]
    BY <2>2, <2>3, Reconciles
  <2>10. local_sessions'[t] = local_sessions[t]
    BY <2>6, <2>7, <2>8, <2>9
  <2> QED  BY <2>2, <2>5, <2>10
<1>12. CASE TimePasses
  <2>1. now' = now + 1 /\ scanned' = scanned /\ local_sessions' = local_sessions
    BY <1>12 DEF TimePasses, Advance
  <2>2. ASSUME NEW t \in Tools, scanned[t] # None, now + 1 - scanned[t] < Grace
        PROVE  local_sessions[t] = [opened |-> scanned[t], ends_at |-> None]
    <3>1. now - scanned[t] < Grace
      BY <2>2, EngineAssumption DEF SyncTyped
    <3> QED  BY <2>2, <3>1 DEF YoungAreOpen
  <2> SUFFICES ASSUME NEW t \in Tools, scanned'[t] # None, now' - scanned'[t] < Grace
               PROVE  local_sessions'[t] = [opened |-> scanned'[t], ends_at |-> None]
    BY DEF YoungAreOpen
  <2>3. scanned[t] # None /\ now + 1 - scanned[t] < Grace
    <3>1. scanned'[t] = scanned[t] /\ now \in Int /\ scanned[t] \in Int
      BY <2>1 DEF SyncTyped
    <3> QED  BY <2>1, <3>1
  <2>4. local_sessions[t] = [opened |-> scanned[t], ends_at |-> None]
    BY <2>2, <2>3
  <2> QED  BY <2>1, <2>4
<1> QED  BY <1>3, <1>4, <1>5, <1>6, <1>7, <1>8, <1>9, <1>10, <1>11, <1>12 DEF SyncNext

\* At first nothing is open, asked for or on its way.
LEMMA SyncStarts ==
    ASSUME SyncInit
    PROVE  /\ SyncTyped /\ YoungAreOpen /\ posts = {} /\ payloads = {} /\ arrivals = <<>> /\ server = {}
           /\ synced_in_use = {} /\ \A k \in Names : local_sessions[k] = NoSession
<1>1. local_stops \in [Names -> Int] /\ scanned \in [Tools -> Int]
  BY DEF SyncInit, EngineInit, None
<1>2. arrivals \in Seq(Arrivals)
  BY DEF SyncInit
<1>3. granted \in [Tools -> Nat] /\ stopped \in [Tools -> Nat]
  BY DEF SyncInit
<1>4. SyncTyped
  BY <1>1, <1>2, <1>3 DEF SyncInit, EngineInit, SyncTyped
<1> QED  BY <1>4 DEF SyncInit, EngineInit, YoungAreOpen

\* A member who signed on at this edge stays signed on for the grace, whatever the
\* network loses, delays or reorders, unless stopped here (reconcile_tracked).
THEOREM YoungSessionsSurvive == SyncSpec => []YoungSessionSurvives
<1> DEFINE I == SyncTyped /\ YoungAreOpen
<1>1. SyncInit => I
  BY SyncStarts
<1>2. I /\ UNCHANGED syncVars => I'
  BY DEF SyncTyped, YoungAreOpen, syncVars, engineVars, sessionVars, netVars, cacheVars, historyVars
<1>3. I /\ [SyncNext]_syncVars => I'
  BY <1>2, SyncTypedStep, YoungStep
<1>4. I => YoungSessionSurvives
  <2> SUFFICES ASSUME I, NEW t \in DOMAIN scanned, scanned[t] # None, now - scanned[t] < Grace PROVE in_use(t, now)
    BY DEF YoungSessionSurvives
  <2>1. t \in Tools
    BY DEF SyncTyped
  <2>2. local_sessions[t] = [opened |-> scanned[t], ends_at |-> None]
    BY <2>1 DEF YoungAreOpen
  <2> QED  BY <2>2 DEF in_use, NoSession
<1> QED  BY <1>1, <1>3, <1>4, PTL DEF SyncSpec

-----------------------------------------------------------------------------
(* Only after a yes, while POSTs keep up *)

UpToDate(t) == granted[t] > stopped[t]
StopPending(t, after) == \E q \in posts : q.kind = "stop" /\ q.tool = t /\ q.op > after

\* What a polled policy says: no older than the bound, and right about each tool
\* or outranked by a stop the edge made since it asked.
Justified(x) ==
    /\ x.as_of \in Nat /\ x.as_of <= now /\ now - x.as_of <= PollBound
    /\ \A t \in x.in_use : UpToDate(t) \/ local_stops[t] > x.as_of

Counted ==
    /\ \A t \in Tools : granted[t] <= ops /\ stopped[t] <= ops
    /\ \A p \in posts : p.op <= ops
ServerJustified ==
    /\ \A t \in server : UpToDate(t) \/ StopPending(t, -1)
    /\ \A p \in posts : p.kind = "scan" => UpToDate(p.tool) \/ StopPending(p.tool, p.op)
ClaimsJustified ==
    /\ \A p \in payloads : Justified(p)
    /\ \A i \in 1 .. Len(arrivals) : Justified(arrivals[i])
EdgeJustified == \A t \in Tools : t \in synced_in_use \/ local_sessions[t] # NoSession => UpToDate(t)
CalmInvariant == Counted /\ (calm => ServerJustified /\ ClaimsJustified /\ EdgeJustified)

\* Every operation is younger than the ones before.
LEMMA CountedStep ==
    ASSUME SyncTyped, Counted, SyncNext
    PROVE  Counted'
<1> USE DEF netVars, cacheVars, historyVars, engineVars, sessionVars, Op
<1>1. ASSUME NEW t \in Tools, ScanLocal(t) PROVE Counted'
  BY <1>1 DEF ScanLocal, SyncTyped, Counted, Posts
<1>2. ASSUME NEW t \in Tools, ScanAsk(t) PROVE Counted'
  BY <1>2 DEF ScanAsk, SyncTyped, Counted, Posts
<1>3. ASSUME NEW t \in Tools, Stop(t) PROVE Counted'
  BY <1>3 DEF Stop, SyncTyped, Counted, Posts
<1>4. ASSUME NEW a \in asking, ScanDecided(a) PROVE Counted'
  BY <1>4 DEF ScanDecided, SyncTyped, Counted, Posts, Questions
<1>5. ASSUME NEW a \in asking, ScanAnswered(a) PROVE Counted'
  <2>1. a.tool \in Tools /\ posts' = posts /\ stopped' = stopped
    BY <1>5 DEF ScanAnswered, SyncTyped, Questions
  <2>2. CASE granted' = [granted EXCEPT ![a.tool] = Op] /\ ops' = Op
    BY <2>1, <2>2 DEF SyncTyped, Counted, Posts
  <2>3. CASE UNCHANGED <<granted, ops>>
    BY <2>1, <2>3 DEF Counted
  <2> QED  BY <1>5, <2>2, <2>3 DEF ScanAnswered
<1>6. ASSUME NEW a \in asking, ScanFailed(a) PROVE Counted'
  BY <1>6 DEF ScanFailed, SyncTyped, Counted, Posts, Questions
<1>7. ASSUME NEW p \in posts, ServerTakes(p) \/ PostLost(p) PROVE Counted'
  BY <1>7 DEF ServerTakes, PostLost, Counted
<1>8. ASSUME UNCHANGED <<ops, granted, stopped, posts>> PROVE Counted'
  BY <1>8 DEF Counted
<1>9. ASSUME NEW p \in payloads, PolicyRead(p) \/ PolicyStamp(p) \/ PayloadArrives(p) \/ PollFails(p) PROVE Counted'
  BY <1>8, <1>9 DEF PolicyRead, PolicyStamp, PayloadArrives, PollFails
<1>10. CASE PollAsk \/ Push \/ Drain \/ TimePasses
  BY <1>8, <1>10 DEF PollAsk, Push, Drain, TimePasses
<1> QED  BY <1>1, <1>2, <1>3, <1>4, <1>5, <1>6, <1>7, <1>9, <1>10 DEF SyncNext

\* A step after which POSTs have kept up is one after which they had, and lost
\* nothing, overtook nothing and pushed nothing.
LEMMA CalmStep ==
    ASSUME SyncNext, calm'
    PROVE  /\ calm /\ ~Push
           /\ \A a \in asking : ~ScanFailed(a)
           /\ \A p \in posts : ~PostLost(p) /\ (ServerTakes(p) => \A q \in posts : p.op <= q.op)
           /\ \A p \in payloads : PolicyRead(p) => posts = {}
<1> USE DEF historyVars
<1>1. calm
  <2>1. ASSUME NEW t \in Tools, ScanLocal(t) \/ ScanAsk(t) \/ Stop(t) PROVE calm
    BY <2>1 DEF ScanLocal, ScanAsk, Stop
  <2>2. ASSUME NEW a \in asking, ScanDecided(a) \/ ScanAnswered(a) \/ ScanFailed(a) PROVE calm
    BY <2>2 DEF ScanDecided, ScanAnswered, ScanFailed
  <2>3. ASSUME NEW p \in posts, ServerTakes(p) \/ PostLost(p) PROVE calm
    BY <2>3, Zenon DEF ServerTakes, PostLost
  <2>4. ASSUME NEW p \in payloads, PolicyRead(p) \/ PolicyStamp(p) \/ PayloadArrives(p) \/ PollFails(p) PROVE calm
    BY <2>4, Zenon DEF PolicyRead, PolicyStamp, PayloadArrives, PollFails
  <2>5. CASE PollAsk \/ Push \/ Drain \/ TimePasses
    BY <2>5 DEF PollAsk, Push, Drain, TimePasses
  <2> QED  BY <2>1, <2>2, <2>3, <2>4, <2>5, Zenon DEF SyncNext
<1>2. ~Push
  BY DEF Push
<1>3. \A a \in asking : ~ScanFailed(a)
  BY DEF ScanFailed
<1>4. \A p \in posts : ~PostLost(p) /\ (ServerTakes(p) => \A q \in posts : p.op <= q.op)
  BY Zenon DEF PostLost, ServerTakes
<1>5. \A p \in payloads : PolicyRead(p) => posts = {}
  BY Zenon DEF PolicyRead
<1> QED  BY <1>1, <1>2, <1>3, <1>4, <1>5

\* What a policy says stays right while time stands still, nothing it is right about
\* goes out of date, and no stop it is outranked by is forgotten.
LEMMA JustifiedStays ==
    ASSUME NEW x, Justified(x), now' = now,
           \A t \in x.in_use : UpToDate(t) => UpToDate(t)' \/ local_stops'[t] > x.as_of,
           \A t \in x.in_use : local_stops[t] > x.as_of => UpToDate(t)' \/ local_stops'[t] > x.as_of
    PROVE  Justified(x)'
BY DEF Justified

\* What the edge holds of the server's is about tools.
LEMMA ClaimsAreAboutTools ==
    ASSUME SyncTyped
    PROVE  /\ \A p \in payloads : p.in_use \subseteq Tools
           /\ \A i \in 1 .. Len(arrivals) : arrivals[i].in_use \subseteq Tools
<1>1. \A i \in 1 .. Len(arrivals) : arrivals[i] \in Arrivals
  BY DEF SyncTyped
<1> QED  BY <1>1 DEF SyncTyped, Payloads, Arrivals

\* The members' steps: what they are granted is up to date, what they stop is
\* remembered and on its way to the server.
LEMMA MembersJustified ==
    ASSUME SyncTyped, Counted, ServerJustified, ClaimsJustified, EdgeJustified, NEW t \in Tools,
           ScanLocal(t) \/ ScanAsk(t) \/ Stop(t)
    PROVE  ServerJustified' /\ ClaimsJustified' /\ EdgeJustified'
<1> USE DEF netVars, cacheVars, historyVars, engineVars, sessionVars, Op
<1>0. None = -1 /\ \A u \in Tools : u \in Names
  BY DEF None, Names
<1>1. CASE ScanLocal(t)
  <2>1. OpenSession(t, now, None) /\ UNCHANGED <<server, payloads, arrivals, stopped>>
        /\ posts' = posts \cup {[kind |-> "scan", tool |-> t, op |-> Op]} /\ granted' = [granted EXCEPT ![t] = Op]
    BY <1>1 DEF ScanLocal
  <2>2. UpToDate(t)' /\ \A u \in Tools : UpToDate(u) => UpToDate(u)'
    BY <2>1 DEF SyncTyped, Counted, UpToDate
  <2>3. /\ now' = now /\ synced_in_use' = synced_in_use
        /\ \A k \in Names : k # t => local_sessions'[k] = local_sessions[k] /\ local_stops'[k] = local_stops[k]
    BY <2>1, Opens
  <2>4. EdgeJustified'
    BY <1>0, <2>2, <2>3 DEF EdgeJustified
  <2>5. \A u, n : StopPending(u, n) => StopPending(u, n)'
    BY <2>1 DEF StopPending
  <2>6. ServerJustified'
    BY <2>1, <2>2, <2>5 DEF ServerJustified, SyncTyped, Posts
  <2>7. ASSUME NEW x, Justified(x), x.in_use \subseteq Tools PROVE Justified(x)'
    BY <1>0, <2>2, <2>3, <2>7, JustifiedStays
  <2>8. ClaimsJustified'
    BY <2>1, <2>7, ClaimsAreAboutTools DEF ClaimsJustified
  <2> QED  BY <2>4, <2>6, <2>8
<1>2. CASE ScanAsk(t)
  <2>1. UNCHANGED <<now, server, posts, payloads, arrivals, granted, stopped, synced_in_use, local_sessions, local_stops>>
    BY <1>2 DEF ScanAsk
  <2> QED  BY <2>1 DEF ServerJustified, ClaimsJustified, EdgeJustified, Justified, UpToDate, StopPending
<1>3. CASE Stop(t)
  <2>1. /\ CloseSession(t) /\ UNCHANGED <<server, payloads, arrivals, granted>>
        /\ posts' = posts \cup {[kind |-> "stop", tool |-> t, op |-> Op]} /\ stopped' = [stopped EXCEPT ![t] = Op]
        /\ \A p \in payloads : p.as_of # now
        /\ \A i \in 1 .. Len(arrivals) : arrivals[i].as_of # now
    BY <1>3 DEF Stop
  <2>2. \A u \in Tools : u # t => (UpToDate(u) => UpToDate(u)')
    BY <2>1 DEF SyncTyped, UpToDate
  <2>3. /\ now' = now /\ synced_in_use' = synced_in_use \ {t} /\ local_stops'[t] = now /\ local_sessions'[t] = NoSession
        /\ \A k \in Names : k # t => local_sessions'[k] = local_sessions[k] /\ local_stops'[k] = local_stops[k]
    BY <2>1, Closes
  <2>4. EdgeJustified'
    BY <1>0, <2>2, <2>3 DEF EdgeJustified
  <2>5. \A u, n : StopPending(u, n) => StopPending(u, n)'
    BY <2>1 DEF StopPending
  <2>6. StopPending(t, -1)' /\ \A p \in posts : StopPending(t, p.op)'
    <3>1. PICK q : q = [kind |-> "stop", tool |-> t, op |-> Op]
      OBVIOUS
    <3>2. q \in posts' /\ q.kind = "stop" /\ q.tool = t /\ q.op = ops + 1
      BY <2>1, <3>1
    <3>3. q.op > -1 /\ \A p \in posts : q.op > p.op
      BY <3>2 DEF SyncTyped, Counted, Posts
    <3> QED  BY <3>2, <3>3 DEF StopPending
  <2>7. ServerJustified'
    BY <2>1, <2>2, <2>5, <2>6 DEF ServerJustified, SyncTyped, Posts
  <2>8. ASSUME NEW x, Justified(x), x.in_use \subseteq Tools, x.as_of # now PROVE Justified(x)'
    <3>1. now > x.as_of
      BY <2>8 DEF Justified, SyncTyped
    <3> QED  BY <1>0, <2>2, <2>3, <2>8, <3>1, JustifiedStays
  <2>9. ClaimsJustified'
    BY <2>1, <2>8, ClaimsAreAboutTools DEF ClaimsJustified
  <2> QED  BY <2>4, <2>7, <2>9
<1> QED  BY <1>1, <1>2, <1>3

\* The server's own answers: what it takes into use is up to date.
LEMMA AnswersJustified ==
    ASSUME SyncTyped, Counted, ServerJustified, ClaimsJustified, EdgeJustified, NEW a \in asking,
           ScanDecided(a) \/ ScanAnswered(a)
    PROVE  ServerJustified' /\ ClaimsJustified' /\ EdgeJustified'
<1> USE DEF netVars, cacheVars, historyVars, engineVars, sessionVars, Op
<1>0. a.tool \in Tools /\ a.at \in Nat /\ \A u \in Tools : u \in Names
  BY DEF SyncTyped, Questions, Names
<1>1. UNCHANGED <<posts, payloads, arrivals, stopped>>
  BY DEF ScanDecided, ScanAnswered
<1>2. (granted' = granted \/ UpToDate(a.tool)') /\ \A u \in Tools : UpToDate(u) => UpToDate(u)'
  <2>1. granted' = granted \/ granted' = [granted EXCEPT ![a.tool] = Op]
    BY Zenon DEF ScanDecided, ScanAnswered
  <2>2. stopped' = stopped /\ granted \in [Tools -> Nat] /\ ops \in Nat
        /\ \A u \in Tools : granted[u] <= ops /\ stopped[u] <= ops /\ granted[u] \in Nat /\ stopped[u] \in Nat
    BY <1>1 DEF SyncTyped, Counted
  <2>3. CASE granted' = [granted EXCEPT ![a.tool] = Op]
    <3>1. granted'[a.tool] = ops + 1 /\ \A u \in Tools : u # a.tool => granted'[u] = granted[u]
      BY <1>0, <2>2, <2>3
    <3>2. UpToDate(a.tool)'
      BY <1>0, <2>2, <3>1 DEF UpToDate
    <3> QED  BY <2>2, <3>1, <3>2 DEF UpToDate
  <2>4. CASE granted' = granted
    BY <2>2, <2>4 DEF UpToDate
  <2> QED  BY <2>1, <2>3, <2>4
<1>3. \A u, n : StopPending(u, n) => StopPending(u, n)'
  BY <1>1 DEF StopPending
<1>4. \A u \in server' : u \in server \/ UpToDate(u)'
  <2>1. CASE ScanDecided(a)
    BY <1>0, <1>1, <2>1 DEF ScanDecided, SyncTyped, Counted, UpToDate
  <2>2. CASE ScanAnswered(a)
    BY <2>2 DEF ScanAnswered
  <2> QED  BY <2>1, <2>2
<1>5. ServerJustified'
  BY <1>1, <1>2, <1>3, <1>4 DEF ServerJustified, SyncTyped, Posts
<1>6. /\ now' = now /\ synced_in_use' = synced_in_use
      /\ \/ UNCHANGED <<local_sessions, local_stops>>
         \/ /\ UpToDate(a.tool)'
            /\ \A k \in Names : k # a.tool => local_sessions'[k] = local_sessions[k] /\ local_stops'[k] = local_stops[k]
  <2>1. ASSUME UNCHANGED engineVars
        PROVE  now' = now /\ synced_in_use' = synced_in_use /\ UNCHANGED <<local_sessions, local_stops>>
    BY <2>1
  <2>2. CASE ScanDecided(a)
    BY <2>1, <2>2 DEF ScanDecided
  <2>3. CASE ScanAnswered(a)
    <3>1. CASE OpenSession(a.tool, a.at, None) /\ granted' = [granted EXCEPT ![a.tool] = Op]
      <4>1. UpToDate(a.tool)'
        BY <1>0, <1>1, <3>1 DEF SyncTyped, Counted, UpToDate
      <4>2. /\ \A k \in Names : k # a.tool => local_sessions'[k] = local_sessions[k] /\ local_stops'[k] = local_stops[k]
            /\ UNCHANGED <<now, synced_in_use>>
        BY <1>0, <3>1, Opens
      <4> QED  BY <4>1, <4>2
    <3>2. CASE UNCHANGED engineVars
      BY <2>1, <3>2
    <3> QED  BY <2>3, <3>1, <3>2 DEF ScanAnswered
  <2> QED  BY <2>2, <2>3
<1>7. EdgeJustified'
  BY <1>0, <1>2, <1>6 DEF EdgeJustified
<1>8. ASSUME NEW x, Justified(x), x.in_use \subseteq Tools PROVE Justified(x)'
  BY <1>0, <1>2, <1>6, <1>8, JustifiedStays
<1>9. ClaimsJustified'
  BY <1>1, <1>8, ClaimsAreAboutTools DEF ClaimsJustified
<1> QED  BY <1>5, <1>7, <1>9

\* The server takes the POSTs in turn: what it then has in use is up to date, or a
\* stop is still on its way.
LEMMA TakingJustified ==
    ASSUME SyncTyped, ServerJustified, ClaimsJustified, EdgeJustified,
           NEW p \in posts, ServerTakes(p), \A q \in posts : p.op <= q.op
    PROVE  ServerJustified' /\ ClaimsJustified' /\ EdgeJustified'
<1> USE DEF netVars, cacheVars, historyVars, engineVars, sessionVars
<1>1. /\ UNCHANGED <<now, payloads, arrivals, granted, stopped, synced_in_use, local_sessions, local_stops>>
      /\ posts' = posts \ {p}
      /\ server' = IF p.kind = "scan" THEN server \cup {p.tool} ELSE server \ {p.tool}
  BY DEF ServerTakes
<1>2. ClaimsJustified' /\ EdgeJustified' /\ \A t : UpToDate(t) => UpToDate(t)'
  BY <1>1 DEF ClaimsJustified, EdgeJustified, Justified, UpToDate
<1>3. p.kind \in {"scan", "stop"} /\ p.op \in Nat /\ \A q \in posts : q.op \in Nat /\ p.op <= q.op
  BY DEF SyncTyped, Posts
<1>4. \A q \in posts : StopPending(q.tool, q.op) => StopPending(q.tool, q.op)'
  <2> SUFFICES ASSUME NEW q \in posts, StopPending(q.tool, q.op) PROVE StopPending(q.tool, q.op)'
    OBVIOUS
  <2>1. PICK r \in posts : r.kind = "stop" /\ r.tool = q.tool /\ r.op > q.op
    BY DEF StopPending
  <2>2. r # p
    BY <1>3, <2>1
  <2> QED  BY <1>1, <2>1, <2>2 DEF StopPending
<1>5. \A t : StopPending(t, -1) /\ (p.kind = "scan" \/ t # p.tool) => StopPending(t, -1)'
  BY <1>1 DEF StopPending
<1>6. ASSUME NEW t \in server' PROVE UpToDate(t)' \/ StopPending(t, -1)'
  <2>1. CASE t \in server
    <3>1. p.kind = "scan" \/ t # p.tool
      BY <1>1, <1>6
    <3> QED  BY <1>2, <1>5, <2>1, <3>1 DEF ServerJustified
  <2>2. CASE t \notin server
    <3>1. t = p.tool /\ p.kind = "scan"
      BY <1>1, <1>6, <2>2
    <3>2. UpToDate(t) \/ StopPending(p.tool, p.op)
      BY <3>1 DEF ServerJustified
    <3>3. StopPending(p.tool, p.op)' => StopPending(t, -1)'
      BY <1>1, <1>3, <3>1 DEF StopPending
    <3> QED  BY <1>2, <1>4, <3>1, <3>2, <3>3
  <2> QED  BY <2>1, <2>2
<1>7. \A q \in posts' : q.kind = "scan" => UpToDate(q.tool)' \/ StopPending(q.tool, q.op)'
  BY <1>1, <1>2, <1>4 DEF ServerJustified
<1>8. ServerJustified'
  BY <1>6, <1>7 DEF ServerJustified
<1> QED  BY <1>2, <1>8

\* A policy read while nothing is on its way says what is up to date; the other
\* steps of a payload change nothing of what it says.
LEMMA PayloadsJustified ==
    ASSUME SyncTyped, ServerJustified, ClaimsJustified, EdgeJustified,
           \/ PollAsk
           \/ \E p \in payloads : \/ PolicyRead(p) /\ posts = {}
                                  \/ PolicyStamp(p) \/ PayloadArrives(p) \/ PollFails(p)
    PROVE  ServerJustified' /\ ClaimsJustified' /\ EdgeJustified'
<1> USE DEF netVars, cacheVars, historyVars, engineVars, sessionVars
<1>1. UNCHANGED <<now, server, posts, granted, stopped, synced_in_use, local_sessions, local_stops>>
  <2>1. CASE PollAsk
    BY <2>1 DEF PollAsk
  <2>2. ASSUME NEW p \in payloads, PolicyRead(p) \/ PolicyStamp(p) \/ PayloadArrives(p) \/ PollFails(p)
        PROVE  UNCHANGED <<now, server, posts, granted, stopped, synced_in_use, local_sessions, local_stops>>
    BY <2>2 DEF PolicyRead, PolicyStamp, PayloadArrives, PollFails
  <2> QED  BY <2>1, <2>2
<1>2. ServerJustified' /\ EdgeJustified'
  BY <1>1 DEF ServerJustified, EdgeJustified, StopPending, UpToDate
<1>3. \A x : Justified(x) => Justified(x)'
  BY <1>1 DEF Justified, UpToDate
<1>4. \A i \in 1 .. Len(arrivals) : Justified(arrivals[i])
  BY DEF ClaimsJustified
<1>5. ASSUME NEW y, Justified(y), payloads' \subseteq payloads \cup {y}, arrivals' = arrivals PROVE ClaimsJustified'
  BY <1>3, <1>5 DEF ClaimsJustified
<1>6. CASE PollAsk
  <2>1. PICK y : y = [src |-> "poll", pc |-> "asked", as_of |-> now, in_use |-> {}, stamp |-> None]
    OBVIOUS
  <2>2. Justified(y)
    BY <2>1, SyncAssumption DEF Justified, SyncTyped
  <2> QED  BY <1>2, <1>5, <1>6, <2>1, <2>2 DEF PollAsk
<1>7. ASSUME NEW p \in payloads, PolicyRead(p), posts = {} PROVE ClaimsJustified'
  <2>1. PICK y : y = [p EXCEPT !.pc = "read", !.in_use = server]
    OBVIOUS
  <2>2. p \in Payloads /\ Justified(p)
    BY DEF SyncTyped, ClaimsJustified
  <2>3. y.as_of = p.as_of /\ y.in_use = server
    BY <2>1, <2>2 DEF Payloads
  <2>4. \A t \in server : UpToDate(t)
    BY <1>7 DEF ServerJustified, StopPending
  <2>5. Justified(y)
    BY <2>2, <2>3, <2>4 DEF Justified
  <2> QED  BY <1>5, <1>7, <2>1, <2>5 DEF PolicyRead
<1>8. ASSUME NEW p \in payloads, PolicyStamp(p) PROVE ClaimsJustified'
  <2>1. PICK y : y = [p EXCEPT !.pc = "sent", !.stamp = now]
    OBVIOUS
  <2>2. p \in Payloads /\ Justified(p)
    BY DEF SyncTyped, ClaimsJustified
  <2>3. y.as_of = p.as_of /\ y.in_use = p.in_use
    BY <2>1, <2>2 DEF Payloads
  <2>4. Justified(y)
    BY <2>2, <2>3 DEF Justified
  <2> QED  BY <1>5, <1>8, <2>1, <2>4 DEF PolicyStamp
<1>9. ASSUME NEW p \in payloads, PayloadArrives(p) PROVE ClaimsJustified'
  <2>1. PICK x : x = [in_use |-> p.in_use, as_of |-> p.as_of]
    OBVIOUS
  <2>2. Justified(x)
    BY <2>1 DEF ClaimsJustified, Justified
  <2>3. payloads' \subseteq payloads /\ (arrivals' = arrivals \/ arrivals' = Append(arrivals, x))
    BY <1>9, <2>1, Zenon DEF PayloadArrives
  <2>4. ASSUME arrivals' = Append(arrivals, x), NEW i \in 1 .. Len(arrivals') PROVE Justified(arrivals'[i])
    <3>1. arrivals \in Seq(Arrivals) /\ Len(arrivals) \in Nat
      BY DEF SyncTyped
    <3>2. Len(arrivals') = Len(arrivals) + 1
      BY <2>4, <3>1
    <3>3. CASE i = Len(arrivals) + 1
      BY <2>2, <2>4, <3>1, <3>3
    <3>4. CASE i \in 1 .. Len(arrivals)
      BY <1>4, <2>4, <3>1, <3>4
    <3> QED  BY <3>1, <3>2, <3>3, <3>4
  <2>5. ASSUME arrivals' = Append(arrivals, x) PROVE \A i \in 1 .. Len(arrivals') : Justified(arrivals'[i])
    BY <2>4, <2>5
  <2> QED  BY <1>1, <1>3, <2>3, <2>5 DEF ClaimsJustified, Justified, UpToDate
<1>10. ASSUME NEW p \in payloads, PollFails(p) PROVE ClaimsJustified'
  BY <1>3, <1>10 DEF PollFails, ClaimsJustified
<1> QED  BY <1>2, <1>6, <1>7, <1>8, <1>9, <1>10

\* The reconcile believes a policy where no stop outranks it: what it then takes to
\* be in use is up to date, and no stop the other policies need is forgotten.
LEMMA DrainJustified ==
    ASSUME PollBound <= Grace, SyncTyped, ServerJustified, ClaimsJustified, EdgeJustified, Drain
    PROVE  ServerJustified' /\ ClaimsJustified' /\ EdgeJustified'
<1> USE DEF netVars, cacheVars, historyVars, engineVars, sessionVars
<1>1. PICK a : a = Head(arrivals)
  OBVIOUS
<1>2. /\ arrivals # <<>> /\ arrivals' = Tail(arrivals) /\ ReconcileSessions(Tools, a.in_use, as_of(a))
      /\ UNCHANGED <<server, posts, payloads, granted, stopped>>
  BY <1>1 DEF Drain
<1>3. Justified(a) /\ a.in_use \subseteq Tools /\ as_of(a) = a.as_of
  <2>1. a = arrivals[1] /\ a \in Arrivals /\ 1 \in 1 .. Len(arrivals)
    BY <1>1, <1>2, OldestArrival
  <2>2. Justified(a) /\ a.in_use \subseteq Tools
    BY <2>1 DEF ClaimsJustified, Arrivals
  <2> QED  BY <2>2 DEF Justified, as_of, None
<1>4. /\ local_stops' = remembered(local_stops) /\ synced_in_use' = believed(a.in_use, a.as_of) /\ now' = now
      /\ \A k \in Names : local_sessions'[k] \in {local_sessions[k], NoSession}
  BY <1>2, <1>3, Reconciles
<1>5. ASSUME NEW x, Justified(x), NEW t \in Tools, local_stops[t] > x.as_of
      PROVE  remembered(local_stops)[t] = local_stops[t] /\ local_stops[t] # None
  <2>1. local_stops[t] \in Int /\ now \in Nat /\ x.as_of \in Nat /\ now - x.as_of <= PollBound /\ t \in Names
    BY <1>5 DEF SyncTyped, Justified, Names
  <2>2. local_stops[t] # None /\ now - local_stops[t] < Grace
    BY <1>5, <2>1, EngineAssumption, SyncAssumption DEF None
  <2> QED  BY <2>1, <2>2 DEF remembered
<1>6. \A t \in Tools : UpToDate(t) => UpToDate(t)'
  BY <1>2 DEF UpToDate
<1>7. ServerJustified'
  BY <1>2 DEF ServerJustified, UpToDate, StopPending
<1>8. ASSUME NEW x, Justified(x), x.in_use \subseteq Tools PROVE Justified(x)'
  <2>1. \A t \in x.in_use : local_stops[t] > x.as_of => local_stops'[t] > x.as_of
    BY <1>4, <1>5, <1>8
  <2> QED  BY <1>4, <1>6, <1>8, <2>1, JustifiedStays
<1>9. ClaimsJustified'
  <2>1. \A p \in payloads' : Justified(p)'
    BY <1>2, <1>8, ClaimsAreAboutTools DEF ClaimsJustified
  <2>2. ASSUME NEW i \in 1 .. Len(arrivals') PROVE Justified(arrivals[i])'
    <3>1. PICK j \in 1 .. Len(arrivals) : arrivals'[i] = arrivals[j]
      BY <1>2, OldestArrival
    <3>2. PICK x : x = arrivals[j]
      OBVIOUS
    <3>3. Justified(x) /\ x.in_use \subseteq Tools
      BY <3>2, ClaimsAreAboutTools DEF ClaimsJustified
    <3>4. Justified(x)'
      BY <1>8, <3>3
    <3>5. arrivals'[i] = x
      BY <3>1, <3>2
    <3> QED  BY <3>4, <3>5 DEF Justified, UpToDate
  <2> QED  BY <2>1, <2>2 DEF ClaimsJustified
<1>10. ASSUME NEW t \in believed(a.in_use, a.as_of) PROVE UpToDate(t)
  <2>1. t \in a.in_use /\ t \in Tools
        /\ ~(remembered(local_stops)[t] # None /\ remembered(local_stops)[t] > a.as_of)
    BY <1>3, <1>10 DEF believed
  <2>2. UpToDate(t) \/ local_stops[t] > a.as_of
    BY <1>3, <2>1 DEF Justified
  <2>3. ~(local_stops[t] > a.as_of)
    BY <1>3, <1>5, <2>1
  <2> QED  BY <2>2, <2>3
<1>11. EdgeJustified'
  <2>1. ASSUME NEW t \in Tools, t \in synced_in_use' \/ local_sessions'[t] # NoSession PROVE UpToDate(t)
    BY <1>4, <1>10, <2>1 DEF EdgeJustified, Names
  <2> QED  BY <1>6, <2>1 DEF EdgeJustified
<1> QED  BY <1>7, <1>9, <1>11

\* Nothing applied, or on its way, is ever older than the bound.
LEMMA TimeJustified ==
    ASSUME SyncTyped, ServerJustified, ClaimsJustified, EdgeJustified, TimePasses
    PROVE  ServerJustified' /\ ClaimsJustified' /\ EdgeJustified'
<1> USE DEF netVars, cacheVars, historyVars, engineVars, sessionVars
<1>1. /\ UNCHANGED <<server, posts, payloads, arrivals, granted, stopped, synced_in_use, local_sessions, local_stops>>
      /\ now' = now + 1
      /\ \A p \in payloads : p.as_of # None => now - p.as_of < PollBound
      /\ \A i \in 1 .. Len(arrivals) : arrivals[i].as_of # None => now - arrivals[i].as_of < PollBound
  BY DEF TimePasses, Advance
<1>2. ServerJustified' /\ EdgeJustified'
  BY <1>1 DEF ServerJustified, EdgeJustified, StopPending, UpToDate
<1>3. ASSUME NEW x, Justified(x), x.as_of # None => now - x.as_of < PollBound PROVE Justified(x)'
  <2>1. x.as_of \in Nat /\ x.as_of <= now + 1 /\ now + 1 - x.as_of <= PollBound
    BY <1>3, SyncAssumption DEF Justified, SyncTyped, None
  <2>2. x.as_of <= now' /\ now' - x.as_of <= PollBound
    <3>1. now' = now + 1 /\ now \in Nat
      BY <1>1 DEF SyncTyped
    <3> QED  BY <2>1, <3>1
  <2>3. \A t \in x.in_use : (UpToDate(t) \/ local_stops[t] > x.as_of)'
    BY <1>1, <1>3 DEF Justified, UpToDate
  <2> QED  BY <2>1, <2>2, <2>3 DEF Justified
<1>4. ClaimsJustified'
  BY <1>1, <1>3 DEF ClaimsJustified
<1> QED  BY <1>2, <1>4

\* Every step of a system whose POSTs keep up.
LEMMA CalmInvariantStep ==
    ASSUME PollBound <= Grace, SyncTyped, CalmInvariant, SyncNext
    PROVE  CalmInvariant'
<1>1. Counted'
  BY CountedStep DEF CalmInvariant
<1> SUFFICES ASSUME calm' PROVE ServerJustified' /\ ClaimsJustified' /\ EdgeJustified'
  BY <1>1 DEF CalmInvariant
<1>2. /\ calm /\ ~Push
      /\ \A a \in asking : ~ScanFailed(a)
      /\ \A p \in posts : ~PostLost(p) /\ (ServerTakes(p) => \A q \in posts : p.op <= q.op)
      /\ \A p \in payloads : PolicyRead(p) => posts = {}
  BY CalmStep
<1>3. Counted /\ ServerJustified /\ ClaimsJustified /\ EdgeJustified
  BY <1>2 DEF CalmInvariant
<1>4. ASSUME NEW t \in Tools, ScanLocal(t) \/ ScanAsk(t) \/ Stop(t)
      PROVE  ServerJustified' /\ ClaimsJustified' /\ EdgeJustified'
  BY <1>3, <1>4, MembersJustified
<1>5. ASSUME NEW a \in asking, ScanDecided(a) \/ ScanAnswered(a)
      PROVE  ServerJustified' /\ ClaimsJustified' /\ EdgeJustified'
  BY <1>3, <1>5, AnswersJustified
<1>6. ASSUME NEW p \in posts, ServerTakes(p) PROVE ServerJustified' /\ ClaimsJustified' /\ EdgeJustified'
  BY <1>2, <1>3, <1>6, TakingJustified
<1>7. ASSUME PollAsk \/ \E p \in payloads : PolicyRead(p) \/ PolicyStamp(p) \/ PayloadArrives(p) \/ PollFails(p)
      PROVE  ServerJustified' /\ ClaimsJustified' /\ EdgeJustified'
  BY <1>2, <1>3, <1>7, PayloadsJustified, Zenon
<1>8. CASE Drain
  BY <1>3, <1>8, DrainJustified
<1>9. CASE TimePasses
  BY <1>3, <1>9, TimeJustified
<1> QED  BY <1>2, <1>4, <1>5, <1>6, <1>7, <1>8, <1>9, Zenon DEF SyncNext

\* While POSTs arrive in turn and before the next poll is answered, a tool is in use at
\* the edge, and so leased, only on a scan that was answered yes and not stopped since,
\* however polls, the channel and the edge's own steps interleave (reconcile_tracked).
THEOREM InUseFollowsTheYes == ASSUME PollBound <= Grace PROVE SyncSpec => []InUseOnlyAfterAYes
<1> DEFINE I == SyncTyped /\ CalmInvariant
<1>1. SyncInit => I
  <2> SUFFICES ASSUME SyncInit PROVE I
    OBVIOUS
  <2>1. \A i \in 1 .. Len(arrivals) : FALSE
    BY SyncStarts
  <2>2. ServerJustified /\ ClaimsJustified /\ EdgeJustified
    BY <2>1, SyncStarts DEF ServerJustified, ClaimsJustified, EdgeJustified, Names
  <2>3. Counted
    BY SyncStarts DEF Counted, SyncInit
  <2> QED  BY <2>2, <2>3, SyncStarts DEF CalmInvariant
<1>2. I /\ UNCHANGED syncVars => I'
  <2> SUFFICES ASSUME I, UNCHANGED syncVars PROVE I'
    OBVIOUS
  <2> USE DEF syncVars, engineVars, sessionVars, netVars, cacheVars, historyVars
  <2>1. SyncTyped'
    BY DEF SyncTyped
  <2>2. Counted'
    BY DEF CalmInvariant, Counted
  <2>3. calm => ServerJustified' /\ EdgeJustified'
    BY DEF CalmInvariant, ServerJustified, EdgeJustified, UpToDate, StopPending
  <2>4. calm => ClaimsJustified'
    BY DEF CalmInvariant, ClaimsJustified, Justified, UpToDate
  <2> QED  BY <2>1, <2>2, <2>3, <2>4 DEF CalmInvariant
<1>3. I /\ [SyncNext]_syncVars => I'
  BY <1>2, SyncTypedStep, CalmInvariantStep
<1>4. I => InUseOnlyAfterAYes
  <2> SUFFICES ASSUME I, calm, NEW t \in DOMAIN granted, in_use(t, now) PROVE granted[t] > stopped[t]
    BY DEF InUseOnlyAfterAYes
  <2>1. t \in Tools /\ EdgeJustified
    BY DEF SyncTyped, CalmInvariant
  <2> QED  BY <2>1 DEF EdgeJustified, UpToDate, in_use
<1> QED  BY <1>1, <1>3, <1>4, PTL DEF SyncSpec
=============================================================================
