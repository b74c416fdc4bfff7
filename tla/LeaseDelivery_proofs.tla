------------------------ MODULE LeaseDelivery_proofs ------------------------
(***************************************************************************)
(* The dead man's switch, for every period, delay, TTL and run-on, every   *)
(* number of tools and modules, and whatever is lost, late or restarted.   *)
(***************************************************************************)
EXTENDS LeaseDelivery, LeaseEngine_proofs

-----------------------------------------------------------------------------
(* The installation the theorems are about *)

\* A tool a device, or a binding, has been wired to in some snapshot.
OwnsDevice(t, d) ==
    \E s \in Snapshots : t \in DOMAIN s /\ \E b \in s[t].modules : b.device = d
OwnsBinding(t, i) ==
    \E s \in Snapshots : t \in DOMAIN s /\ \E b \in s[t].modules : b.id = i

\* A module stays with its tool: nobody carries a plug from one machine to the
\* next while its relay is closed.  (A plug that is rewired is on, for the rest
\* of its lease, for the tool it came from.)
ModulesStay ==
    \A t, u \in Tools :
        /\ \A d \in Devices : OwnsDevice(t, d) /\ OwnsDevice(u, d) => t = u
        /\ \A i \in Bindings : OwnsBinding(t, i) /\ OwnsBinding(u, i) => t = u

\* run_on_seconds is a column of bounded integers.
RunOnBounded ==
    \E n \in Nat : \A s \in Snapshots : \A t \in DOMAIN s : \A b \in s[t].modules : b.run_on <= n

\* The longest run-on is one, as soon as there is any.
LEMMA LongestIsLongest ==
    ASSUME RunOnBounded, NEW s \in Snapshots, NEW t \in DOMAIN s, NEW b \in s[t].modules
    PROVE  LongestRunOn \in Nat /\ b.run_on <= LongestRunOn
<1> DEFINE RunOns == UNION {{c.run_on : c \in UNION {v[u].modules : u \in DOMAIN v}} :
                              v \in Snapshots}
           covers(n) == \A v \in Snapshots : \A u \in DOMAIN v :
                          \A c \in v[u].modules : c.run_on <= n
           bounds == {n \in Nat : covers(n)}
<1>1. \A v \in Snapshots : \A u \in DOMAIN v : \A c \in v[u].modules :
         c.run_on \in RunOns /\ c.run_on \in Nat
  BY EngineAssumption DEF EngineAssumption, Wiring, Binding
<1>2. \A r \in RunOns : \E v \in Snapshots : \E u \in DOMAIN v : \E c \in v[u].modules : c.run_on = r
  OBVIOUS
<1>3. LongestRunOn = CHOOSE n \in RunOns : covers(n)
  BY DEF LongestRunOn
<1>4. bounds \subseteq Nat /\ bounds # {}
  BY DEF RunOnBounded
<1> HIDE DEF RunOns
<1>5. PICK n \in bounds : \A m \in bounds : ~(<<m, n>> \in OpToRel(<, Nat))
  BY <1>4, NatLessThanWellFounded, WFMin, Zenon
<1>6. \A m \in bounds : ~(m < n)
  BY <1>4, <1>5 DEF OpToRel
<1>7. n \in RunOns
  <2> SUFFICES ASSUME n \notin RunOns PROVE FALSE
    OBVIOUS
  <2>1. \A v \in Snapshots : \A u \in DOMAIN v : \A c \in v[u].modules : c.run_on <= n /\ c.run_on # n
    BY <1>1
  <2>2. b.run_on \in Nat /\ b.run_on < n
    BY <1>1, <2>1
  <2>3. n - 1 \in bounds
    BY <1>1, <2>1, <2>2
  <2> QED  BY <1>4, <1>6, <2>3
<1>8. covers(LongestRunOn) /\ LongestRunOn \in RunOns
  <2>1. covers(n)
    OBVIOUS
  <2> HIDE DEF covers
  <2> QED  BY <1>3, <1>7, <2>1
<1>9. LongestRunOn \in Nat
  BY <1>1, <1>2, <1>8
<1> QED  BY <1>8, <1>9

-----------------------------------------------------------------------------
(* Typing *)

Message == [grant: BOOLEAN, sent: Nat]

\* What travels and what the modules and the loop keep; a pass begins and ends
\* within one tick of the clock, and holds nothing between passes.
DeliveryTyped ==
    /\ wire \in [Devices -> Seq(Message)]
    /\ until \in [Devices -> Nat \cup {None}]
    /\ \A r \in reports : r.on \in BOOLEAN
    /\ last_tick \in Nat /\ last_tick <= now
    /\ last_ok \in [Tools -> Nat \cup {None}] /\ \A t \in Tools : last_ok[t] <= now
    /\ pass.pc # "idle" => pass.at = now /\ last_tick = now
    /\ pass.pc = "idle" => pass.out = {}
    /\ pass.pc \in {"idle", "publish"} => pass.todo = {}

\* A step of the delivery is one of the engine's, a report heard, a restart, or
\* none of the engine's business.
LEMMA DeliveryIsEngine ==
    ASSUME TypeOK, DeliveryNext
    PROVE  \/ [EngineNext]_engineVars
           \/ \E r \in reports : HandlePower(r)
           \/ Restart
<1>1. now \in Nat
  BY EngineAssumption DEF TypeOK, Time, EngineAssumption
<1>2. ASSUME Policy PROVE EngineNext
  <2>1. ASSUME NEW ids \in SUBSET Tools, ReconcileSessions(Tools, ids, 0) PROVE SessionCall
    <3>1. 0 \in 0 .. now /\ Tools \in SUBSET Tools
      BY <1>1
    <3> QED  BY <2>1, <3>1 DEF SessionCall
  <2>2. ASSUME NEW s \in Snapshots, ApplyState(s, {}, 0) PROVE SessionCall
    <3>1. 0 \in 0 .. now /\ {} \in SUBSET Rooms(s)
      BY <1>1
    <3> QED  BY <2>2, <3>1 DEF SessionCall
  <2> QED  BY <1>2, <2>1, <2>2 DEF Policy, EngineNext
<1> QED
  BY <1>2 DEF DeliveryNext, Begin, Work, Publish, LeaseArrives, LeaseLost, ReportSent, Elapse,
              EngineNext, TickStep

\* The engine keeps its types and the watchdog its bearings, through restarts too.
LEMMA EngineStaysTyped ==
    ASSUME TypeOK, PassWellFormed, DeliveryTyped, DeliveryNext
    PROVE  TypeOK' /\ PassWellFormed'
<1>1. CASE [EngineNext]_engineVars
  <2>1. CASE UNCHANGED engineVars
    BY <1>1, <2>1, PassStaysWellFormed
       DEF TypeOK, engineVars, sessionVars, interlockVars, leaseVars
  <2>2. CASE EngineNext
    BY <1>1, <2>2, CallsTyped, PassTyped, PassStaysWellFormed DEF EngineNext
  <2> QED  BY <1>1, <2>1, <2>2
<1>2. ASSUME NEW r \in reports, HandlePower(r) PROVE TypeOK' /\ PassWellFormed'
  <2>1. now \in TimeOrNone
    BY DEF TypeOK, TimeOrNone
  <2>2. module_seen' \in [Bindings -> TimeOrNone]
    BY <1>2, <2>1 DEF HandlePower, credited, TypeOK
  <2>3. relay_state' \in [Devices -> [on: BOOLEAN, at: TimeOrNone]]
    BY <1>2, <2>1 DEF HandlePower, TypeOK, DeliveryTyped
  <2> QED  BY <1>2, <2>2, <2>3 DEF HandlePower, TypeOK, PassWellFormed, sessionVars
<1>3. CASE Restart
  <2>1. TypeOK'
    BY <1>3, EngineAssumption
       DEF Restart, TypeOK, EngineAssumption, Time, TimeOrNone, Names, NoSession, Unread,
           NoReport, Idle, Allow, Decision, NoCondition, None
  <2>2. PassWellFormed'
    BY <1>3 DEF Restart, PassWellFormed, Idle
  <2> QED  BY <2>1, <2>2
<1> QED  BY <1>1, <1>2, <1>3, DeliveryIsEngine

\* The clock never goes back, and stands still unless Elapse moves it.
LEMMA ClockMoves ==
    ASSUME TypeOK, DeliveryNext
    PROVE  now \in Nat /\ now' \in Nat /\ now' >= now /\ (now' = now \/ Elapse)
<1>1. now \in Nat
  BY EngineAssumption DEF TypeOK, Time, EngineAssumption
<1>2. now' = now \/ Elapse
  BY DEF DeliveryNext, Begin, Work, Publish, LeaseArrives, LeaseLost, ReportSent, HandlePower,
         Restart, Policy, engineVars, TickBegin, Evaluate, Renew, TickUnwired, TickAllow,
         TickDeny, TickEnd, ReconcileSessions, ApplyState
<1>3. Elapse => now' = now + 1
  BY DEF Elapse, Advance
<1> QED  BY <1>1, <1>2, <1>3

\* When a tool was last allowed moves only to the present, and only forward.
LEMMA OkMovesOn ==
    ASSUME TypeOK, DeliveryTyped, DeliveryNext
    PROVE  /\ last_ok' \in [Tools -> Nat \cup {None}]
           /\ \A t \in Tools : /\ last_ok'[t] <= now' /\ last_ok'[t] >= last_ok[t]
                               /\ last_ok[t] # None => last_ok'[t] # None
<1>1. now \in Nat /\ now' \in Nat /\ now' >= now
  BY ClockMoves
<1>2. \A t \in Tools : last_ok'[t] \in {now', last_ok[t]}
  BY DEF DeliveryNext, Witness
<1>3. last_ok' = [t \in Tools |-> last_ok'[t]]
  BY DEF DeliveryNext, Witness
<1>4. \A t \in Tools : last_ok[t] \in Nat \cup {None} /\ last_ok[t] <= now
  BY DEF DeliveryTyped
<1>5. None \notin Nat /\ None \in Int /\ \A n \in Nat : n >= None
  BY DEF None
<1> HIDE DEF None
<1>6. \A t \in Tools : last_ok'[t] \in Nat \cup {None}
  BY <1>1, <1>2, <1>4
<1>7. last_ok' \in [Tools -> Nat \cup {None}]
  BY <1>3, <1>6
<1>8. \A t \in Tools : /\ last_ok'[t] <= now' /\ last_ok'[t] >= last_ok[t]
                       /\ last_ok[t] # None => last_ok'[t] # None
  BY <1>1, <1>2, <1>4, <1>5
<1> QED  BY <1>7, <1>8

\* Where the watchdog's pass stands after a step.
LEMMA PassMoves ==
    ASSUME TypeOK, DeliveryNext
    PROVE  \/ UNCHANGED pass
           \/ TickBegin /\ pass' = [Idle EXCEPT !.pc = "evaluate", !.at = now, !.todo = Wired]
           \/ /\ Work /\ pass'.at = pass.at /\ pass.pc # "idle" /\ pass'.pc # "idle"
              /\ pass'.pc = "publish" => pass'.todo = {}
           \/ pass' = Idle
<1>1. ASSUME Work
      PROVE  /\ pass'.at = pass.at /\ pass.pc # "idle" /\ pass'.pc # "idle"
             /\ pass'.pc = "publish" => pass'.todo = {}
  <2>1. CASE (\E t \in Tools : Evaluate(t)) \/ Renew
    BY <2>1 DEF Evaluate, Renew, TypeOK
  <2>2. ASSUME NEW actions, FinishTool(actions), pass.pc = "lease"
        PROVE  /\ pass'.at = pass.at /\ pass.pc # "idle" /\ pass'.pc # "idle"
               /\ pass'.pc = "publish" => pass'.todo = {}
    BY <2>2 DEF FinishTool, TypeOK
  <2> QED  BY <1>1, <2>1, <2>2 DEF Work, TickUnwired, TickAllow, TickDeny
<1> QED
  BY <1>1 DEF DeliveryNext, Begin, Publish, LeaseArrives, LeaseLost, ReportSent, HandlePower,
              Restart, Policy, Elapse, Advance, engineVars, TickBegin, TickEnd,
              ReconcileSessions, ApplyState

\* Messages, timers, reports and clocks keep their types.
LEMMA DeliveryStaysTyped ==
    ASSUME TypeOK, PassWellFormed, DeliveryTyped, DeliveryNext
    PROVE  DeliveryTyped'
<1>0. now \in Nat /\ now' \in Nat /\ now' >= now /\ (now' = now \/ Elapse)
  BY ClockMoves
<1>1. wire' \in [Devices -> Seq(Message)]
  <2>1. CASE UNCHANGED wire
    BY <2>1 DEF DeliveryTyped
  <2>2. CASE Publish
    <3> DEFINE sent(d) == LET a == CHOOSE m \in pass.out : m.device = d
                          IN  [grant |-> a.grant, sent |-> now]
    <3>1. ASSUME NEW d \in Devices, \E a \in pass.out : a.device = d PROVE sent(d) \in Message
      <4>1. \A a \in pass.out : a.grant \in BOOLEAN
        BY DEF TypeOK, LeaseAction
      <4>2. (CHOOSE m \in pass.out : m.device = d) \in pass.out
        BY <3>1
      <4> QED  BY <1>0, <4>1, <4>2 DEF Message
    <3>2. wire' = [d \in Devices |-> IF \E a \in pass.out : a.device = d
                                     THEN Append(wire[d], sent(d)) ELSE wire[d]]
      BY <2>2 DEF Publish
    <3> HIDE DEF sent
    <3>3. \A d \in Devices : wire[d] \in Seq(Message)
      BY DEF DeliveryTyped
    <3> QED  BY <3>1, <3>2, <3>3
  <2>3. ASSUME NEW d \in Devices, wire[d] # <<>>, wire' = [wire EXCEPT ![d] = Tail(wire[d])]
        PROVE  wire' \in [Devices -> Seq(Message)]
    BY <2>3 DEF DeliveryTyped
  <2> QED  BY <2>1, <2>2, <2>3 DEF DeliveryNext, Begin, Work, LeaseArrives, LeaseLost, ReportSent,
                                   HandlePower, Restart, Policy, Elapse
<1>2. until' \in [Devices -> Nat \cup {None}]
  <2>1. CASE UNCHANGED until
    BY <2>1 DEF DeliveryTyped
  <2>2. ASSUME NEW d \in Devices, LeaseArrives(d) PROVE until' \in [Devices -> Nat \cup {None}]
    BY <1>0, <2>2, EngineAssumption DEF LeaseArrives, DeliveryTyped, EngineAssumption
  <2> QED  BY <2>1, <2>2 DEF DeliveryNext, Begin, Work, Publish, LeaseLost, ReportSent,
                             HandlePower, Restart, Policy, Elapse
<1>3. \A r \in reports' : r.on \in BOOLEAN
  <2>1. CASE reports' \subseteq reports
    BY <2>1 DEF DeliveryTyped
  <2>2. ASSUME NEW d \in Devices, ReportSent(d) PROVE \A r \in reports' : r.on \in BOOLEAN
    <3> DEFINE on == relay_on(d)
    <3>1. on \in BOOLEAN
      BY DEF relay_on
    <3>2. reports' = reports \cup {[device |-> d, on |-> on, sent |-> now]}
      BY <2>2 DEF ReportSent
    <3> HIDE DEF on
    <3> QED  BY <3>1, <3>2 DEF DeliveryTyped
  <2> QED  BY <2>1, <2>2 DEF DeliveryNext, Begin, Work, Publish, LeaseArrives, LeaseLost,
                             HandlePower, Restart, Policy, Elapse
<1>4. last_tick' \in Nat /\ last_tick' <= now' /\ (last_tick' = last_tick \/ last_tick' = now')
  <2>1. CASE Begin
    BY <1>0, <2>1 DEF Begin, TickBegin
  <2>2. CASE UNCHANGED last_tick
    BY <1>0, <2>2 DEF DeliveryTyped
  <2> QED  BY <2>1, <2>2 DEF DeliveryNext, Work, Publish, LeaseArrives, LeaseLost, ReportSent,
                             HandlePower, Restart, Policy, Elapse
<1>5. /\ pass'.pc # "idle" => pass'.at = now' /\ last_tick' = now'
      /\ pass'.pc = "idle" => pass'.out = {}
      /\ pass'.pc \in {"idle", "publish"} => pass'.todo = {}
  <2>1. CASE UNCHANGED pass
    <3>1. pass.pc # "idle" => now' = now
      BY <1>0 DEF Elapse
    <3> QED  BY <1>0, <1>4, <2>1, <3>1 DEF DeliveryTyped
  <2>2. CASE TickBegin /\ pass' = [Idle EXCEPT !.pc = "evaluate", !.at = now, !.todo = Wired]
    <3>1. pass'.pc = "evaluate" /\ pass'.at = now
      BY <2>2 DEF Idle
    <3>2. now' = now /\ last_tick' = now
      <4>1. pass.pc = "idle" /\ pass' # pass
        BY <2>2, <3>1 DEF TickBegin
      <4>2. Begin
        BY <2>2, <3>1, <4>1 DEF DeliveryNext, Work, Publish, LeaseArrives, LeaseLost, ReportSent,
             HandlePower, Restart, Policy, Elapse, Advance, engineVars, Evaluate, Renew,
             TickUnwired, TickAllow, TickDeny, TickEnd, ReconcileSessions, ApplyState, Idle
      <4> QED  BY <4>2 DEF Begin, TickBegin
    <3> QED  BY <3>1, <3>2
  <2>3. CASE /\ Work /\ pass'.at = pass.at /\ pass.pc # "idle" /\ pass'.pc # "idle"
             /\ pass'.pc = "publish" => pass'.todo = {}
    <3>1. now' = now /\ last_tick' = last_tick
      BY <2>3, <1>0 DEF Elapse, Work
    <3> QED  BY <2>3, <3>1 DEF DeliveryTyped
  <2>4. CASE pass' = Idle
    BY <2>4 DEF Idle
  <2> QED  BY <2>1, <2>2, <2>3, <2>4, PassMoves
<1>6. last_ok' \in [Tools -> Nat \cup {None}] /\ \A t \in Tools : last_ok'[t] <= now'
  BY OkMovesOn
<1> QED  BY <1>1, <1>2, <1>3, <1>4, <1>5, <1>6 DEF DeliveryTyped

\* Engine, messages, timers and clocks keep their types, through losses and restarts.
LEMMA DeliveryTypes == DeliverySpec => [](TypeOK /\ PassWellFormed /\ DeliveryTyped)
<1> DEFINE Typed == TypeOK /\ PassWellFormed /\ DeliveryTyped
<1>1. DeliveryInit => Typed
  <2> SUFFICES ASSUME DeliveryInit PROVE Typed
    OBVIOUS
  <2>1. TypeOK /\ PassWellFormed
    BY InitTyped DEF DeliveryInit, EngineInit, PassWellFormed, Idle
  <2>2. pass.pc = "idle" /\ pass.todo = {} /\ pass.out = {} /\ now = 0
    BY DEF DeliveryInit, EngineInit, Idle
  <2>3. DeliveryTyped
    BY <2>2 DEF DeliveryInit, DeliveryTyped, None
  <2> QED  BY <2>1, <2>3
<1>2. Typed /\ [DeliveryNext]_deliveryVars => Typed'
  <2> SUFFICES ASSUME Typed, [DeliveryNext]_deliveryVars PROVE Typed'
    OBVIOUS
  <2>1. CASE UNCHANGED deliveryVars
    <3>1. UNCHANGED <<engineVars, wire, until, reports, last_tick, last_ok>>
      BY <2>1 DEF deliveryVars
    <3>2. TypeOK' /\ PassWellFormed'
      BY <3>1, PassStaysWellFormed DEF TypeOK, engineVars, sessionVars, interlockVars, leaseVars
    <3>3. DeliveryTyped'
      BY <3>1 DEF DeliveryTyped, engineVars
    <3> QED  BY <3>2, <3>3
  <2>2. CASE DeliveryNext
    BY <2>2, EngineStaysTyped, DeliveryStaysTyped
  <2> QED  BY <2>1, <2>2
<1> QED  BY <1>1, <1>2, PTL DEF DeliverySpec

\* Run-on ends in the closed system too, where the edge may also restart.
THEOREM RunOnEndsAtTheModules ==
    ASSUME BindingsHaveOneTool
    PROVE  DeliverySpec => RunOnNeverExtended
<1>1. ASSUME TypeOK, PassWellFormed, DeliveryTyped, [DeliveryNext]_deliveryVars
      PROVE  RunOnKept \/ UNCHANGED engineVars
  <2>1. CASE TickAllow \/ TickDeny
    BY <1>1, <2>1, PassKeepsRunOn
  <2>2. CASE [EngineNext]_engineVars /\ ~ TickAllow /\ ~ TickDeny
    BY <2>2, OthersKeepRunOn DEF RunOnKept
  <2>3. CASE \E r \in reports : HandlePower(r)
    BY <2>3 DEF HandlePower, RunOnKept
  <2>4. CASE Restart
    <3>1. \A i \in Bindings : run_on_until'[i] = None
      BY <2>4 DEF Restart
    <3>2. \A t \in Wired : \A b \in OfRole(t, "power") : b.id \in Bindings
      BY <1>1, WiringTyped DEF TypeOK, OfRole, Binding
    <3> QED  BY <3>1, <3>2 DEF RunOnKept
  <2>5. CASE UNCHANGED deliveryVars
    BY <2>5 DEF deliveryVars
  <2> QED  BY <1>1, <2>1, <2>2, <2>3, <2>4, <2>5, DeliveryIsEngine
<1>2. TypeOK /\ PassWellFormed /\ DeliveryTyped /\ [DeliveryNext]_deliveryVars =>
         [RunOnKept]_engineVars
  BY <1>1
<1> QED  BY <1>2, DeliveryTypes, PTL DEF DeliverySpec, RunOnNeverExtended, RunOnKept

-----------------------------------------------------------------------------
(* The dead man's switch *)

\* The instant `at` is within a period and a run-on of the tool's last allow.
Promised(t, at) == last_ok[t] # None /\ at <= last_ok[t] + Period + LongestRunOn

\* The modules: the lease a relay runs on, and each grant on its way to it, is
\* within its delay and TTL of an instant at which the tool was promised power.
ModulesPromised ==
    \A t \in Tools, d \in Devices : OwnsDevice(t, d) =>
        /\ until[d] # None => Promised(t, until[d] - MaxDelay - Ttl)
        /\ \A i \in 1 .. Len(wire[d]) :
              /\ now - wire[d][i].sent <= MaxDelay
              /\ wire[d][i].grant => Promised(t, wire[d][i].sent)

\* The pass: what it is about to grant is promised now.
OffersPromised ==
    \A a \in pass.out : a.grant => Promised(a.tool, now) /\ OwnsDevice(a.tool, a.device)

\* The run-on a denied tool's modules still have.
RunOnPromised ==
    \A t \in Tools, i \in Bindings :
        OwnsBinding(t, i) /\ run_on_until[i] # None => Promised(t, run_on_until[i])

\* A tool whose last verdict was Allow was allowed in the last pass over it: in
\* this one, or a period ago if this pass has yet to come to it.
Underway(t) == t \in pass.todo \/ (pass.pc \in {"renew", "lease"} /\ t = pass.tool)
AllowedInLastPass ==
    \A t \in Tools : allowed_since[t] # None =>
        /\ snapshot # NoSnapshot /\ now - last_tick <= Period
        /\ last_ok[t] # None
        /\ last_ok[t] >= IF Underway(t) THEN now - Period ELSE last_tick

\* An Allow in hand was right when it was decided, which is now.
VerdictIsFresh ==
    pass.pc \in {"renew", "lease"} /\ pass.decision = Allow => last_ok[pass.tool] = now

\* NeverOnAStalePromise speaks of closed relays only.  It is inductive together
\* with what the engine, the pass under way and the messages on the wire owe to
\* the last allow.
DeadManInvariant ==
    ModulesPromised /\ OffersPromised /\ RunOnPromised /\ AllowedInLastPass /\ VerdictIsFresh

\* What every step of the argument starts from.
Sound == TypeOK /\ PassWellFormed /\ DeliveryTyped /\ DeadManInvariant

\* A promise once given stands.
LEMMA PromiseStands ==
    ASSUME Sound, RunOnBounded, DeliveryNext, NEW t \in Tools, NEW at \in Int,
           \E d : OwnsDevice(t, d) \/ OwnsBinding(t, d), Promised(t, at)
    PROVE  last_ok'[t] # None /\ at <= last_ok'[t] + Period + LongestRunOn
<1>1. LongestRunOn \in Nat /\ Period \in Nat
  BY LongestIsLongest, DeliveryAssumption DEF OwnsDevice, OwnsBinding, DeliveryAssumption
<1>2. /\ last_ok[t] \in Nat \cup {None} /\ last_ok'[t] \in Nat \cup {None}
      /\ last_ok'[t] >= last_ok[t] /\ (last_ok[t] # None => last_ok'[t] # None)
  BY OkMovesOn DEF Sound, DeliveryTyped
<1> QED  BY <1>1, <1>2 DEF Promised, None

\* A verdict keeps while nothing it was read from changes.
LEMMA VerdictKeeps ==
    ASSUME TypeOK, NEW t \in Wired, evaluate(t, now) = Allow,
           UNCHANGED <<now, snapshot, sessionVars, interlockVars>>
    PROVE  (t \in Wired /\ evaluate(t, now) = Allow)'
<1> DEFINE rules == snapshot[t].interlocks
           fails(i) == ~(observed(t, rules[i]) /\ satisfied(t, rules[i], now))
<1>1. UNCHANGED <<now, snapshot, latched, readings, module_seen, synced_in_use, local_sessions>>
  BY DEF sessionVars, interlockVars
<1>2. snapshot \in Snapshots /\ snapshot # NoSnapshot /\ rules \in Seq(Rule)
  BY WiringTyped, EngineAssumption DEF TypeOK, EngineAssumption
<1>3. ~ latch_holds(t) /\ ~ offline_fail_off(t, now) /\ first_failing(t, now) = 0 /\ in_use(t, now)
  BY <1>2 DEF evaluate, Allow, Deny, DenyFor, rule_denial
<1>4. \A i \in 1 .. Len(rules) : ~ fails(i)
  BY <1>2, <1>3, FirstFailingTyped
<1>5. \A i \in 1 .. Len(rules) : fails(i)' = fails(i)
  BY <1>1 DEF observed, satisfied
<1>6. first_failing(t, now)' = 0
  <2>1. Len(rules)' = Len(rules) /\ ~ \E i \in 1 .. Len(rules') : fails(i)'
    BY <1>1, <1>4, <1>5
  <2> QED  BY <2>1 DEF first_failing
<1>7. ~ latch_holds(t)' /\ ~ offline_fail_off(t, now)' /\ in_use(t, now)'
  BY <1>1, <1>3 DEF latch_holds, offline_fail_off, in_use, NoSession
<1>8. snapshot' # NoSnapshot /\ (t \in Wired)'
  BY <1>1, <1>2 DEF Wired
<1>9. evaluate(t, now)' = Allow
  BY <1>6, <1>7, <1>8 DEF evaluate, Allow, NoCondition
<1> QED  BY <1>8, <1>9 DEF Allow, NoCondition

\* The delays are whole numbers of ticks.
LEMMA Delays == Period \in Nat /\ MaxDelay \in Nat /\ Ttl \in Nat
BY DeliveryAssumption, EngineAssumption DEF DeliveryAssumption, EngineAssumption

\* A step keeps what is owed by the relays' timers and by the grants under way.
LEMMA ModulesKept ==
    ASSUME Sound, RunOnBounded, ModulesStay, DeliveryNext
    PROVE  ModulesPromised'
<1> SUFFICES ASSUME NEW t \in Tools, NEW d \in Devices, OwnsDevice(t, d)
             PROVE  (/\ until[d] # None => Promised(t, until[d] - MaxDelay - Ttl)
                     /\ \A i \in 1 .. Len(wire[d]) :
                           /\ now - wire[d][i].sent <= MaxDelay
                           /\ wire[d][i].grant => Promised(t, wire[d][i].sent))'
  BY DEF ModulesPromised, OwnsDevice
<1>c. Period \in Nat /\ MaxDelay \in Nat /\ Ttl \in Nat /\ now \in Nat /\ now' \in Nat
      /\ (now' = now \/ Elapse)
  BY ClockMoves, Delays DEF Sound
<1>l. LongestRunOn \in Nat
  BY LongestIsLongest DEF OwnsDevice
<1>t. /\ wire[d] \in Seq(Message) /\ wire \in [Devices -> Seq(Message)]
      /\ until[d] \in Nat \cup {None} /\ until \in [Devices -> Nat \cup {None}]
      /\ last_ok[t] \in Nat \cup {None} /\ last_ok'[t] \in Nat \cup {None}
  BY OkMovesOn DEF Sound, DeliveryTyped
<1>p. /\ until[d] # None => Promised(t, until[d] - MaxDelay - Ttl)
      /\ \A i \in 1 .. Len(wire[d]) :
            /\ wire[d][i] \in Message
            /\ now - wire[d][i].sent <= MaxDelay
            /\ wire[d][i].grant => Promised(t, wire[d][i].sent)
  BY <1>t DEF Sound, DeadManInvariant, ModulesPromised
<1>s. ASSUME NEW at \in Int, Promised(t, at)
      PROVE  last_ok'[t] # None /\ at <= last_ok'[t] + Period + LongestRunOn
  BY <1>s, PromiseStands
<1>1. until'[d] # None =>
         last_ok'[t] # None /\ until'[d] - MaxDelay - Ttl <= last_ok'[t] + Period + LongestRunOn
  <2>1. CASE until'[d] = until[d]
    <3> DEFINE at == until[d] - MaxDelay - Ttl
    <3>1. CASE until[d] = None
      BY <2>1, <3>1
    <3>2. CASE until[d] # None
      <4>1. at \in Int /\ Promised(t, at)
        BY <1>c, <1>t, <1>p, <3>2
      <4> HIDE DEF at
      <4>2. last_ok'[t] # None /\ at <= last_ok'[t] + Period + LongestRunOn
        BY <4>1, <1>s
      <4> QED  BY <2>1, <4>2 DEF at
    <3> QED  BY <3>1, <3>2
  <2>2. CASE LeaseArrives(d) /\ until'[d] # None
    <3> DEFINE m == wire[d][1]
    <3>1. wire[d] # <<>> /\ Head(wire[d]).grant /\ until'[d] = now + Ttl
      BY <1>t, <2>2 DEF LeaseArrives
    <3>2. 1 \in 1 .. Len(wire[d]) /\ Head(wire[d]) = m
      BY <1>t, <3>1
    <3>3. m.sent \in Nat /\ now - m.sent <= MaxDelay /\ Promised(t, m.sent)
      BY <1>p, <3>1, <3>2 DEF Message
    <3> HIDE DEF m
    <3>4. last_ok'[t] # None /\ m.sent <= last_ok'[t] + Period + LongestRunOn
      BY <1>s, <3>3
    <3>5. last_ok'[t] \in Int
      BY <1>t DEF None
    <3>6. now + Ttl - MaxDelay - Ttl <= m.sent
      BY <1>c, <3>3
    <3>7. now + Ttl - MaxDelay - Ttl <= last_ok'[t] + Period + LongestRunOn
      BY <1>c, <1>l, <3>3, <3>4, <3>5, <3>6
    <3> QED  BY <1>c, <1>l, <3>1, <3>4, <3>5, <3>7
  <2>3. ASSUME NEW e \in Devices, e # d, LeaseArrives(e) PROVE until'[d] = until[d]
    BY <1>t, <2>3 DEF LeaseArrives
  <2> QED  BY <2>1, <2>2, <2>3 DEF DeliveryNext, Begin, Work, Publish, LeaseLost, ReportSent,
                                   HandlePower, Restart, Policy, Elapse
<1>2. ASSUME NEW i \in 1 .. Len(wire'[d])
      PROVE  /\ now' - wire'[d][i].sent <= MaxDelay
             /\ wire'[d][i].grant =>
                   last_ok'[t] # None /\ wire'[d][i].sent <= last_ok'[t] + Period + LongestRunOn
  <2>0. ASSUME NEW j \in 1 .. Len(wire[d]),
               now' = now \/ (now - wire[d][j].sent < MaxDelay /\ now' = now + 1)
        PROVE  /\ now' - wire[d][j].sent <= MaxDelay
               /\ wire[d][j].grant =>
                   last_ok'[t] # None /\ wire[d][j].sent <= last_ok'[t] + Period + LongestRunOn
    <3>1. /\ wire[d][j].sent \in Nat /\ now - wire[d][j].sent <= MaxDelay
          /\ wire[d][j].grant => Promised(t, wire[d][j].sent)
      BY <1>p DEF Message
    <3>2. now' - wire[d][j].sent <= MaxDelay
      BY <1>c, <2>0, <3>1
    <3>3. wire[d][j].grant =>
             last_ok'[t] # None /\ wire[d][j].sent <= last_ok'[t] + Period + LongestRunOn
      BY <1>s, <3>1
    <3> QED  BY <3>2, <3>3
  <2>1. CASE wire'[d] = wire[d]
    <3>1. i \in 1 .. Len(wire[d])
      BY <2>1
    <3>2. Elapse => now' = now + 1 /\ now - wire[d][i].sent < MaxDelay
      BY <3>1 DEF Elapse, Advance
    <3> QED  BY <1>c, <2>0, <2>1, <3>1, <3>2
  <2>2. CASE wire[d] # <<>> /\ wire'[d] = Tail(wire[d]) /\ now' = now
    <3>1. i + 1 \in 1 .. Len(wire[d]) /\ wire'[d][i] = wire[d][i + 1]
      BY <1>t, <2>2
    <3> QED  BY <2>0, <2>2, <3>1
  <2>3. CASE Publish /\ wire'[d] # wire[d]
    <3> DEFINE a == CHOOSE m \in pass.out : m.device = d
    <3>1. /\ \E m \in pass.out : m.device = d
          /\ wire'[d] = Append(wire[d], [grant |-> a.grant, sent |-> now])
          /\ now' = now
      BY <2>3 DEF Publish, TickEnd
    <3>2. a \in pass.out /\ a.device = d
      BY <3>1
    <3> HIDE DEF a
    <3>3. CASE i \in 1 .. Len(wire[d])
      <4>1. wire'[d][i] = wire[d][i]
        BY <1>t, <3>1, <3>3
      <4> QED  BY <2>0, <3>1, <3>3, <4>1
    <3>4. CASE i \notin 1 .. Len(wire[d])
      <4>1. wire'[d][i] = [grant |-> a.grant, sent |-> now]
        BY <1>t, <3>1, <3>4
      <4>2. a.tool \in Tools
        BY <3>2 DEF Sound, TypeOK, LeaseAction
      <4>3. a.grant => Promised(a.tool, now) /\ OwnsDevice(a.tool, d)
        BY <3>2 DEF Sound, DeadManInvariant, OffersPromised
      <4>4. a.grant => Promised(t, now)
        BY <4>2, <4>3 DEF ModulesStay
      <4>5. a.grant => last_ok'[t] # None /\ now <= last_ok'[t] + Period + LongestRunOn
        BY <1>c, <1>s, <4>4
      <4> QED  BY <1>c, <3>1, <4>1, <4>5
    <3> QED  BY <3>3, <3>4
  <2>4. ASSUME NEW e \in Devices, LeaseArrives(e) \/ LeaseLost(e)
        PROVE  wire'[d] = wire[d] \/ (wire[d] # <<>> /\ wire'[d] = Tail(wire[d]) /\ now' = now)
    BY <1>t, <2>4 DEF LeaseArrives, LeaseLost, engineVars
  <2> QED  BY <2>1, <2>2, <2>3, <2>4 DEF DeliveryNext, Begin, Work, ReportSent,
                                         HandlePower, Restart, Policy, Elapse
<1> QED  BY <1>1, <1>2 DEF Promised

\* The bindings a pass reads belong to the tool it reads them for.
LEMMA PassReadsItsOwn ==
    ASSUME TypeOK, NEW t \in Wired, NEW b \in snapshot[t].modules
    PROVE  /\ t \in Tools /\ b.id \in Bindings /\ b.device \in Devices /\ b.run_on \in Nat
           /\ OwnsDevice(t, b.device) /\ OwnsBinding(t, b.id)
           /\ RunOnBounded => LongestRunOn \in Nat /\ b.run_on <= LongestRunOn
<1>1. snapshot \in Snapshots /\ t \in Tools /\ t \in DOMAIN snapshot /\ b \in Binding
  BY WiringTyped DEF TypeOK
<1>2. OwnsDevice(t, b.device) /\ OwnsBinding(t, b.id)
  BY <1>1 DEF OwnsDevice, OwnsBinding
<1>3. RunOnBounded => LongestRunOn \in Nat /\ b.run_on <= LongestRunOn
  BY <1>1, LongestIsLongest
<1> QED  BY <1>1, <1>2, <1>3 DEF Binding

\* The tool a pass is acting on, and when.
LEMMA ActingNow ==
    ASSUME Sound, DeliveryNext, TickAllow \/ TickDeny
    PROVE  /\ pass.tool \in Wired /\ pass.tool \in Tools /\ pass.at = now /\ pass.pc = "lease"
           /\ snapshot # NoSnapshot
           /\ now' = now /\ UNCHANGED snapshot
<1>1. pass.tool \in Wired /\ pass.pc = "lease" /\ now' = now /\ UNCHANGED snapshot
  BY DEF TickAllow, TickDeny
<1> QED  BY <1>1, WiringTyped DEF Sound, TypeOK, DeliveryTyped, Wired

\* The bindings a denial leaves on, and those whose run-on it starts, are
\* promised to the end of it.
LEMMA DenialIsPromised ==
    ASSUME Sound, RunOnBounded, ModulesStay, DeliveryNext, TickDeny, NEW b \in OfRole(pass.tool, "power")
    PROVE  /\ run_on_starts(pass.tool, b) => Promised(pass.tool, now + b.run_on)
           /\ run_on_starts(pass.tool, b) \/ (run_on_until[b.id] # None /\ now < run_on_until[b.id])
                 => Promised(pass.tool, now)
<1> DEFINE t == pass.tool
<1>1. /\ t \in Wired /\ t \in Tools /\ pass.pc = "lease" /\ b \in snapshot[t].modules
      /\ Period \in Nat /\ now \in Nat
      /\ last_ok[t] \in Nat \cup {None} /\ last_ok[t] \in Int
      /\ run_on_until[b.id] \in Int
  <2>1. t \in Wired /\ t \in Tools /\ pass.pc = "lease" /\ b \in snapshot[t].modules
    BY ActingNow DEF OfRole
  <2>2. b.id \in Bindings
    BY <2>1, PassReadsItsOwn DEF Sound
  <2> QED  BY <2>1, <2>2, ClockMoves, Delays DEF Sound, TypeOK, DeliveryTyped, None
<1>2. b.id \in Bindings /\ OwnsBinding(t, b.id) /\ LongestRunOn \in Nat /\ b.run_on \in Nat
      /\ b.run_on <= LongestRunOn
  BY <1>1, PassReadsItsOwn DEF Sound
<1>3. ASSUME run_on_starts(t, b) PROVE Promised(t, now + b.run_on) /\ Promised(t, now)
  <2>1. allowed_since[t] # None /\ Underway(t)
    BY <1>1, <1>3 DEF run_on_starts, Underway
  <2>2. last_ok[t] # None /\ last_ok[t] >= now - Period
    BY <1>1, <2>1 DEF Sound, DeadManInvariant, AllowedInLastPass
  <2> QED  BY <1>1, <1>2, <2>2 DEF Promised
<1>4. ASSUME run_on_until[b.id] # None, now < run_on_until[b.id] PROVE Promised(t, now)
  <2>1. Promised(t, run_on_until[b.id])
    BY <1>1, <1>2, <1>4 DEF Sound, DeadManInvariant, RunOnPromised
  <2> QED  BY <1>1, <1>2, <1>4, <2>1 DEF Promised
<1> QED  BY <1>3, <1>4

\* A step keeps what a pass is about to offer within what is promised.
LEMMA OffersKept ==
    ASSUME Sound, RunOnBounded, ModulesStay, DeliveryNext
    PROVE  OffersPromised'
<1>c. now \in Nat
  BY ClockMoves DEF Sound
<1>s. ASSUME NEW t \in Tools, NEW d, OwnsDevice(t, d), Promised(t, now), now' = now
      PROVE  Promised(t, now)' /\ OwnsDevice(t, d)'
  BY <1>c, <1>s, PromiseStands DEF Promised, OwnsDevice
<1>1. ASSUME NEW a \in pass.out, a.grant, now' = now
      PROVE  Promised(a.tool, now)' /\ OwnsDevice(a.tool, a.device)'
  <2>1. a.tool \in Tools /\ Promised(a.tool, now) /\ OwnsDevice(a.tool, a.device)
    BY <1>1 DEF Sound, DeadManInvariant, OffersPromised, TypeOK, LeaseAction
  <2> QED  BY <1>1, <1>s, <2>1
<1>2. CASE pass'.out = {}
  BY <1>2 DEF OffersPromised
<1>3. CASE pass'.out = pass.out /\ now' = now
  BY <1>1, <1>3 DEF OffersPromised
<1>4. CASE TickAllow
  <2> DEFINE t == pass.tool
             power == OfRole(t, "power")
             since == IF allowed_since[t] = None THEN pass.at ELSE allowed_since[t]
             due_now == {b \in power : due(b, power, since, pass.at)}
             sensors == OfRole(t, "sensor")
  <2>0. t \in Wired /\ t \in Tools /\ now' = now
    BY <1>4, ActingNow
  <2>1. due_now \subseteq snapshot[t].modules /\ sensors \subseteq snapshot[t].modules
    BY DEF OfRole
  <2>2. pass'.out = pass.out \cup (Offer(t, due_now, TRUE) \cup Offer(t, sensors, TRUE))
    BY <1>4 DEF TickAllow, FinishTool, Sound, TypeOK
  <2>3. last_ok[t] = now /\ last_ok[t] # None
    BY <1>4, <1>c DEF TickAllow, Sound, DeadManInvariant, VerdictIsFresh, None
  <2> HIDE DEF due_now, sensors, t
  <2>4. ASSUME NEW b \in snapshot[t].modules PROVE OwnsDevice(t, b.device) /\ Promised(t, now)
    <3>1. OwnsDevice(t, b.device) /\ LongestRunOn \in Nat
      BY <2>0, PassReadsItsOwn DEF Sound
    <3> QED  BY <1>c, <2>3, <3>1, Delays DEF Promised
  <2>5. ASSUME NEW a \in Offer(t, due_now, TRUE) \cup Offer(t, sensors, TRUE)
        PROVE  Promised(a.tool, now)' /\ OwnsDevice(a.tool, a.device)'
    <3>1. PICK b \in snapshot[t].modules : a.tool = t /\ a.device = b.device
      BY <2>1 DEF Offer
    <3> QED  BY <1>s, <2>0, <2>4, <3>1
  <2> QED  BY <1>1, <2>0, <2>2, <2>5 DEF OffersPromised
<1>5. CASE TickDeny
  <2> DEFINE t == pass.tool
             power == OfRole(t, "power")
             started == {b \in power : run_on_starts(t, b)}
             running == {b \in power : \/ b \in started
                                       \/ /\ run_on_until[b.id] # None
                                          /\ pass.at < run_on_until[b.id]}
             off == Offer(t, power \ running, FALSE) \cup Offer(t, OfRole(t, "sensor"), FALSE)
  <2>0. t \in Wired /\ t \in Tools /\ now' = now /\ pass.at = now
    BY <1>5, ActingNow
  <2>1. \A b \in running : b \in snapshot[t].modules /\ Promised(t, now)
    BY <1>5, <2>0, DenialIsPromised DEF OfRole
  <2>2. pass'.out = pass.out \cup (Offer(t, running, TRUE) \cup off)
    BY <1>5 DEF TickDeny, FinishTool, Sound, TypeOK
  <2>3. \A a \in off : ~ a.grant
    BY DEF Offer
  <2> HIDE DEF running, t, off
  <2>4. ASSUME NEW a \in Offer(t, running, TRUE)
        PROVE  Promised(a.tool, now)' /\ OwnsDevice(a.tool, a.device)'
    <3>1. PICK b \in running : a.tool = t /\ a.device = b.device
      BY DEF Offer
    <3>2. b \in snapshot[t].modules /\ Promised(t, now)
      BY <2>1
    <3>3. OwnsDevice(t, b.device)
      BY <2>0, <3>2, PassReadsItsOwn DEF Sound
    <3> QED  BY <1>s, <2>0, <3>1, <3>2, <3>3
  <2> QED  BY <1>1, <2>0, <2>2, <2>3, <2>4 DEF OffersPromised
<1>6. CASE Elapse
  BY <1>2, <1>6 DEF Elapse, Advance, Sound, DeliveryTyped
<1>7. CASE Begin \/ Publish \/ Restart
  <2>1. pass'.out = {}
    <3>1. CASE Begin
      BY <3>1 DEF Begin, TickBegin, Idle
    <3>2. CASE Publish \/ Restart
      BY <3>2 DEF Publish, Restart, TickEnd, Idle
    <3> QED  BY <1>7, <3>1, <3>2
  <2> QED  BY <1>2, <2>1
<1>8. ASSUME (\E t \in Tools : Evaluate(t)) \/ Renew \/ TickUnwired
      PROVE  pass'.out = pass.out /\ now' = now
  <2>1. ASSUME NEW t \in Tools, Evaluate(t) PROVE pass'.out = pass.out /\ now' = now
    BY <2>1 DEF Evaluate, Sound, TypeOK
  <2>2. CASE Renew
    BY <2>2 DEF Renew, Sound, TypeOK
  <2>3. CASE TickUnwired
    BY <2>3 DEF TickUnwired, FinishTool, Sound, TypeOK
  <2> QED  BY <1>8, <2>1, <2>2, <2>3
<1> QED  BY <1>3, <1>4, <1>5, <1>6, <1>7, <1>8
         DEF DeliveryNext, Work, LeaseArrives, LeaseLost, ReportSent, HandlePower, Policy,
             engineVars, ReconcileSessions, ApplyState

\* A step keeps every run-on within what is promised.
LEMMA RunOnKeptPromised ==
    ASSUME Sound, RunOnBounded, ModulesStay, DeliveryNext
    PROVE  RunOnPromised'
<1> SUFFICES ASSUME NEW t \in Tools, NEW i \in Bindings, OwnsBinding(t, i),
                    run_on_until'[i] # None
             PROVE  last_ok'[t] # None /\ run_on_until'[i] <= last_ok'[t] + Period + LongestRunOn
  BY DEF RunOnPromised, Promised, OwnsBinding
<1>t. run_on_until[i] \in Int
  BY DEF Sound, TypeOK
<1>1. CASE run_on_until'[i] = run_on_until[i]
  <2>1. Promised(t, run_on_until[i])
    BY <1>1 DEF Sound, DeadManInvariant, RunOnPromised
  <2> QED  BY <1>1, <1>t, <2>1, PromiseStands
<1>2. CASE TickDeny /\ run_on_until'[i] # run_on_until[i]
  <2> DEFINE u == pass.tool
             power == OfRole(u, "power")
             started == {b \in power : run_on_starts(u, b)}
             running == {b \in power : \/ b \in started
                                       \/ /\ run_on_until[b.id] # None
                                          /\ pass.at < run_on_until[b.id]}
             m == CHOOSE b \in started : b.id = i
  <2>0. u \in Wired /\ u \in Tools /\ pass.at = now /\ now \in Nat
    BY <1>2, ActingNow, ClockMoves DEF Sound
  <2>1. run_on_until'[i] =
              IF i \in Ids(started) THEN pass.at + m.run_on
              ELSE IF i \in Ids(power \ running) THEN None ELSE run_on_until[i]
    BY <1>2 DEF TickDeny
  <2>2. i \in Ids(started) /\ run_on_until'[i] = pass.at + m.run_on
    BY <1>2, <2>1
  <2>3. m \in started /\ m.id = i
    BY <2>2 DEF Ids
  <2>4. m \in OfRole(u, "power") /\ m \in snapshot[u].modules /\ run_on_starts(u, m)
    BY <2>3 DEF OfRole
  <2> HIDE DEF m
  <2>5. OwnsBinding(u, i) /\ m.run_on \in Nat
    BY <2>0, <2>3, <2>4, PassReadsItsOwn DEF Sound
  <2>6. u = t
    BY <2>0, <2>5 DEF ModulesStay
  <2>7. Promised(t, now + m.run_on)
    BY <1>2, <2>4, <2>6, DenialIsPromised
  <2>8. now + m.run_on \in Int
    BY <2>0, <2>5
  <2> QED  BY <2>0, <2>2, <2>7, <2>8, PromiseStands
<1>3. ASSUME TickAllow, run_on_until'[i] # run_on_until[i] PROVE FALSE
  <2> DEFINE power == OfRole(pass.tool, "power")
  <2>1. run_on_until' = [b \in Bindings |-> IF b \in Ids(power) THEN None ELSE run_on_until[b]]
    BY <1>3 DEF TickAllow
  <2> HIDE DEF power
  <2> QED  BY <1>3, <2>1
<1>4. ASSUME Restart PROVE FALSE
  BY <1>4 DEF Restart
<1>5. CASE ~ TickDeny /\ ~ TickAllow /\ ~ Restart
  <2>1. UNCHANGED run_on_until
    <3>1. [EngineNext]_engineVars \/ \E r \in reports : HandlePower(r)
      BY <1>5, DeliveryIsEngine DEF Sound
    <3>2. (\E r \in reports : HandlePower(r)) => UNCHANGED run_on_until
      BY DEF HandlePower
    <3> QED  BY <1>5, <3>1, <3>2, OthersKeepRunOn
  <2> QED  BY <1>1, <2>1
<1> QED  BY <1>1, <1>2, <1>3, <1>4, <1>5

\* A step keeps an Allow in hand as fresh as it claims to be.
LEMMA VerdictKept ==
    ASSUME Sound, StableTools, DeliveryNext
    PROVE  VerdictIsFresh'
<1>c. now \in Nat /\ now' \in Nat
  BY ClockMoves DEF Sound
<1>1. CASE pass'.pc \notin {"renew", "lease"}
  BY <1>1 DEF VerdictIsFresh
<1>2. ASSUME pass'.pc \in {"renew", "lease"}, pass.pc \in {"renew", "lease"},
             pass'.tool = pass.tool, pass'.decision = pass.decision, now' = now
      PROVE  VerdictIsFresh'
  <2>1. pass.tool \in Tools
    BY <1>2 DEF Sound, PassWellFormed
  <2>2. last_ok'[pass.tool] \in Int /\ last_ok[pass.tool] \in Int
        /\ last_ok'[pass.tool] <= now' /\ last_ok'[pass.tool] >= last_ok[pass.tool]
    BY <2>1, OkMovesOn DEF Sound, DeliveryTyped, None
  <2>3. Allow' = Allow
    BY DEF Allow, NoCondition
  <2>4. pass.decision = Allow => last_ok[pass.tool] = now
    BY <1>2 DEF Sound, DeadManInvariant, VerdictIsFresh
  <2> QED  BY <1>c, <1>2, <2>2, <2>3, <2>4 DEF VerdictIsFresh
<1>3. ASSUME NEW t \in Tools, Evaluate(t)
      PROVE  VerdictIsFresh'
  <2>1. snapshot # NoSnapshot /\ t \in Wired /\ pass.at = now
    BY <1>3 DEF Evaluate, Sound, PassWellFormed, DeliveryTyped, TypeOK, Wired, StableTools
  <2>2. pass'.tool = t /\ pass'.decision = evaluate(t, now)
    BY <1>3, <2>1 DEF Evaluate, Sound, TypeOK
  <2>3. UNCHANGED <<now, snapshot, sessionVars, interlockVars>>
    BY <1>3 DEF Evaluate
  <2>4. evaluate(t, now) = Allow => (t \in Wired /\ evaluate(t, now) = Allow)'
    BY <2>1, <2>3, VerdictKeeps DEF Sound
  <2>5. evaluate(t, now) = Allow => last_ok'[t] = now'
    BY <2>4 DEF DeliveryNext, Witness
  <2>6. Allow' = Allow
    BY DEF Allow, NoCondition
  <2> QED  BY <2>2, <2>5, <2>6 DEF VerdictIsFresh
<1>4. CASE Renew
  <2>1. /\ pass'.pc = "lease" /\ pass.pc = "renew" /\ pass'.tool = pass.tool
        /\ pass'.decision = pass.decision /\ now' = now
    BY <1>4 DEF Renew, Sound, TypeOK
  <2> QED  BY <1>2, <2>1
<1>5. CASE TickUnwired \/ TickAllow \/ TickDeny
  <2>1. pass'.pc \in {"publish", "evaluate"}
    BY <1>5 DEF TickUnwired, TickAllow, TickDeny, FinishTool, Sound, TypeOK
  <2> QED  BY <1>1, <2>1
<1>6. CASE Begin \/ Publish \/ Restart
  <2>1. pass'.pc \in {"idle", "evaluate"}
    <3>1. CASE Begin
      BY <3>1 DEF Begin, TickBegin, Idle
    <3>2. CASE Publish \/ Restart
      BY <3>2 DEF Publish, Restart, TickEnd, Idle
    <3> QED  BY <1>6, <3>1, <3>2
  <2> QED  BY <1>1, <2>1
<1>7. CASE UNCHANGED pass
  <2>1. pass.pc # "idle" => now' = now
    BY ClockMoves DEF Elapse, Sound
  <2> QED  BY <1>1, <1>2, <1>7, <2>1
<1> QED  BY <1>3, <1>4, <1>5, <1>6, <1>7
         DEF DeliveryNext, Work, LeaseArrives, LeaseLost, ReportSent, HandlePower, Policy, Elapse,
             Advance, engineVars, ReconcileSessions, ApplyState

\* A step keeps a tool's standing allow no older than the last pass over it.
LEMMA AllowedKept ==
    ASSUME Sound, StableTools, DeliveryNext
    PROVE  AllowedInLastPass'
<1> SUFFICES ASSUME NEW t \in Tools, allowed_since'[t] # None
             PROVE  /\ snapshot' # NoSnapshot /\ now' - last_tick' <= Period
                    /\ last_ok'[t] # None
                    /\ last_ok'[t] >= IF Underway(t)' THEN now' - Period ELSE last_tick'
  BY DEF AllowedInLastPass
<1>c. now \in Nat /\ now' \in Nat /\ Period \in Nat /\ last_tick \in Nat /\ last_tick <= now
  BY ClockMoves, Delays DEF Sound, DeliveryTyped
<1>o. /\ last_ok[t] \in Int /\ last_ok'[t] \in Int /\ last_ok'[t] <= now'
      /\ last_ok'[t] >= last_ok[t] /\ (last_ok[t] # None => last_ok'[t] # None)
  BY OkMovesOn DEF Sound, DeliveryTyped, None
<1>a. allowed_since[t] # None =>
        /\ snapshot # NoSnapshot /\ now - last_tick <= Period /\ last_ok[t] # None
        /\ last_ok[t] >= IF Underway(t) THEN now - Period ELSE last_tick
  BY DEF Sound, DeadManInvariant, AllowedInLastPass
<1>p. /\ pass.pc \in {"idle", "publish"} => pass.todo = {}
      /\ pass.pc # "idle" => last_tick = now
  BY DEF Sound, DeliveryTyped
<1>1. CASE /\ allowed_since'[t] = allowed_since[t] /\ Underway(t)' = Underway(t)
           /\ now' = now /\ last_tick' = last_tick /\ snapshot' # NoSnapshot
  BY <1>1, <1>a, <1>c, <1>o
<1>2. ASSUME UNCHANGED <<pass, allowed_since, now, last_tick>>,
             snapshot' = snapshot \/ snapshot' \in Snapshots
      PROVE  /\ allowed_since'[t] = allowed_since[t] /\ Underway(t)' = Underway(t)
             /\ now' = now /\ last_tick' = last_tick /\ snapshot' # NoSnapshot
  BY <1>2, <1>a, EngineAssumption DEF Underway, EngineAssumption
<1>3. CASE Begin
  <2>1. /\ pass.pc = "idle" /\ pass'.todo = Wired /\ snapshot # NoSnapshot
        /\ UNCHANGED <<now, snapshot, allowed_since>> /\ last_tick' = now
    BY <1>3 DEF Begin, TickBegin, Wired, Idle, leaseVars
  <2>2. ~ Underway(t)
    BY <1>p, <2>1 DEF Underway
  <2>3. last_ok[t] # None /\ last_ok[t] >= now - Period
    BY <1>a, <1>c, <1>o, <2>1, <2>2
  <2>4. Wired = Tools
    BY <2>1 DEF Wired, StableTools, Sound, TypeOK
  <2>5. Underway(t)'
    BY <2>1, <2>4 DEF Underway
  <2> QED  BY <1>c, <1>o, <2>1, <2>3, <2>5
<1>4. ASSUME NEW u \in Tools, Evaluate(u)
      PROVE  /\ allowed_since'[t] = allowed_since[t] /\ Underway(t)' = Underway(t)
             /\ now' = now /\ snapshot' = snapshot
  <2>1. /\ u \in pass.todo /\ pass.pc = "evaluate" /\ UNCHANGED <<now, snapshot, allowed_since>>
        /\ pass'.pc = "renew" /\ pass'.tool = u /\ pass'.todo = pass.todo \ {u}
    BY <1>4 DEF Evaluate, leaseVars, Sound, TypeOK
  <2> QED  BY <2>1 DEF Underway
<1>5. ASSUME Renew
      PROVE  /\ allowed_since'[t] = allowed_since[t] /\ Underway(t)' = Underway(t)
             /\ now' = now /\ snapshot' = snapshot
  <2>1. /\ pass.pc = "renew" /\ UNCHANGED <<now, snapshot, allowed_since>>
        /\ pass'.pc = "lease" /\ pass'.tool = pass.tool /\ pass'.todo = pass.todo
    BY <1>5 DEF Renew, Sound, TypeOK
  <2> QED  BY <2>1 DEF Underway
<1>6. ASSUME TickUnwired PROVE FALSE
  BY <1>6 DEF TickUnwired, Sound, PassWellFormed, Wired, StableTools, TypeOK
<1>7. ASSUME TickAllow \/ TickDeny, t # pass.tool
      PROVE  /\ allowed_since'[t] = allowed_since[t] /\ Underway(t)' = Underway(t)
             /\ now' = now /\ snapshot' = snapshot
  <2>1. /\ allowed_since'[t] = allowed_since[t] /\ pass.pc = "lease"
        /\ UNCHANGED <<now, snapshot>>
    BY <1>7 DEF TickAllow, TickDeny, Sound, TypeOK
  <2>2. pass'.pc \in {"publish", "evaluate"} /\ pass'.todo = pass.todo
    BY <1>7 DEF TickAllow, TickDeny, FinishTool, Sound, TypeOK
  <2> QED  BY <1>7, <2>1, <2>2 DEF Underway
<1>8. ASSUME TickAllow, t = pass.tool, last_tick' = last_tick
      PROVE  /\ snapshot' # NoSnapshot /\ now' - last_tick' <= Period /\ last_ok'[t] # None
             /\ last_ok'[t] = now' /\ last_tick' = now'
  <2>1. snapshot' # NoSnapshot /\ now' = now /\ last_tick = now
    BY <1>8, <1>p, ActingNow
  <2>2. last_ok[t] = now
    BY <1>8 DEF TickAllow, Sound, DeadManInvariant, VerdictIsFresh
  <2> QED  BY <1>8, <1>c, <1>o, <2>1, <2>2 DEF None
<1>9. ASSUME TickDeny PROVE t # pass.tool
  BY <1>9 DEF TickDeny, Sound, TypeOK
<1>10. CASE Work
  <2>1. UNCHANGED last_tick
    BY <1>10 DEF Work
  <2>2. ASSUME allowed_since'[t] = allowed_since[t] /\ Underway(t)' = Underway(t)
               /\ now' = now /\ snapshot' = snapshot
        PROVE  /\ snapshot' # NoSnapshot /\ now' - last_tick' <= Period
               /\ last_ok'[t] # None
               /\ last_ok'[t] >= IF Underway(t)' THEN now' - Period ELSE last_tick'
    BY <1>1, <1>a, <2>1, <2>2
  <2>3. CASE TickAllow /\ t = pass.tool
    <3>1. /\ snapshot' # NoSnapshot /\ now' - last_tick' <= Period /\ last_ok'[t] # None
          /\ last_ok'[t] = now' /\ last_tick' = now'
      BY <1>8, <2>1, <2>3
    <3>2. PICK n \in Nat : n = now'
      BY <1>c
    <3>3. Period \in Nat
      BY <1>c
    <3>4. n >= n - Period /\ n >= n
      BY <3>3
    <3>5. last_ok'[t] >= now' - Period /\ last_ok'[t] >= last_tick'
      BY <3>1, <3>2, <3>4
    <3> QED  BY <3>1, <3>5
  <2> QED  BY <1>10, <1>4, <1>5, <1>6, <1>7, <1>9, <2>2, <2>3 DEF Work
<1>11. CASE Publish
  <2>1. /\ pass.pc = "publish" /\ pass' = Idle /\ UNCHANGED <<now, snapshot, allowed_since, last_tick>>
    BY <1>11 DEF Publish, TickEnd, leaseVars
  <2>2. ~ Underway(t) /\ ~ Underway(t)'
    BY <1>p, <2>1 DEF Underway, Idle
  <2> QED  BY <1>a, <1>c, <1>o, <2>1, <2>2
<1>12. CASE Elapse
  <2>1. /\ pass.pc = "idle" /\ now' = now + 1
        /\ UNCHANGED <<snapshot, allowed_since, pass, last_tick>>
        /\ Wired # {} => now - last_tick < Period
    BY <1>12 DEF Elapse, Advance, leaseVars
  <2>2. ~ Underway(t) /\ ~ Underway(t)'
    BY <1>p, <2>1 DEF Underway
  <2>3. snapshot # NoSnapshot
    BY <1>a, <2>1
  <2>4. Wired # {}
    BY <2>3 DEF Wired, StableTools, Sound, TypeOK
  <2> QED  BY <1>a, <1>c, <1>o, <2>1, <2>2, <2>3, <2>4
<1>13. ASSUME Restart PROVE FALSE
  BY <1>13 DEF Restart
<1>14. CASE \/ \E d \in Devices : LeaseArrives(d) \/ LeaseLost(d) \/ ReportSent(d)
            \/ \E r \in reports : HandlePower(r)
            \/ Policy
  <2>1. /\ UNCHANGED <<pass, allowed_since, now, last_tick>>
        /\ snapshot' = snapshot \/ snapshot' \in Snapshots
    BY <1>14 DEF LeaseArrives, LeaseLost, ReportSent, HandlePower, Policy, engineVars, leaseVars,
                 ReconcileSessions, ApplyState
  <2> QED  BY <1>1, <1>2, <2>1
<1> QED  BY <1>3, <1>10, <1>11, <1>12, <1>13, <1>14 DEF DeliveryNext

\* The dead man's switch holds: whatever is lost, late or restarted, no relay is
\* closed longer after its tool's last allow than one period, one run-on, one
\* delivery and one TTL.
THEOREM DeadMansSwitch ==
    ASSUME StableTools, ModulesStay, RunOnBounded
    PROVE  DeliverySpec => []NeverOnAStalePromise
<1>1. DeliveryInit => DeadManInvariant
  <2> SUFFICES ASSUME DeliveryInit PROVE DeadManInvariant
    OBVIOUS
  <2>1. pass.pc = "idle" /\ pass.todo = {} /\ pass.out = {}
    BY DEF DeliveryInit, EngineInit, Idle
  <2> QED  BY <2>1 DEF DeliveryInit, EngineInit, DeadManInvariant, ModulesPromised,
                       OffersPromised, RunOnPromised, AllowedInLastPass, VerdictIsFresh
<1>2. Sound /\ [DeliveryNext]_deliveryVars => DeadManInvariant'
  <2> SUFFICES ASSUME Sound, [DeliveryNext]_deliveryVars PROVE DeadManInvariant'
    OBVIOUS
  <2>1. CASE UNCHANGED deliveryVars
    BY <2>1 DEF deliveryVars, Sound, DeadManInvariant, ModulesPromised, OffersPromised,
                RunOnPromised, AllowedInLastPass, VerdictIsFresh, Promised, Underway, OwnsDevice,
                OwnsBinding, engineVars, leaseVars, Allow, NoCondition
  <2>2. CASE DeliveryNext
    BY <2>2, ModulesKept, OffersKept, RunOnKeptPromised, AllowedKept, VerdictKept
       DEF DeadManInvariant
  <2> QED  BY <2>1, <2>2
<1>3. Sound => NeverOnAStalePromise
  <2> SUFFICES ASSUME Sound, NEW s \in Snapshots, NEW t \in DOMAIN s, NEW b \in s[t].modules,
                      relay_on(b.device)
               PROVE  /\ last_ok[t] # None
                      /\ now - last_ok[t] <= Period + LongestRunOn + MaxDelay + Ttl
    BY DEF NeverOnAStalePromise
  <2>1. t \in Tools /\ b.device \in Devices /\ OwnsDevice(t, b.device) /\ LongestRunOn \in Nat
    BY EngineAssumption, LongestIsLongest DEF EngineAssumption, Wiring, Binding, OwnsDevice
  <2>2. /\ until[b.device] # None /\ now < until[b.device]
        /\ until[b.device] \in Nat \cup {None} /\ last_ok[t] \in Int /\ now \in Nat
    BY <2>1, EngineAssumption
       DEF relay_on, Sound, TypeOK, Time, DeliveryTyped, None, EngineAssumption
  <2>3. Promised(t, until[b.device] - MaxDelay - Ttl)
    BY <2>1, <2>2 DEF Sound, DeadManInvariant, ModulesPromised
  <2> QED  BY <2>1, <2>2, <2>3, Delays DEF Promised
<1> QED  BY <1>1, <1>2, <1>3, DeliveryTypes, PTL DEF DeliverySpec, Sound

-----------------------------------------------------------------------------
(* Stages *)

\* The case the property about stages is about: one wiring, in which nobody
\* restages a tool in the middle of a pass.
FixedWiring == \A s, u \in Snapshots : s = u

\* What a report, on its way or heard, tells of a relay: that it was closed no
\* longer before than the report takes.
ReportsAreTrue ==
    /\ last_on \in [Devices -> Nat \cup {None}] /\ \A d \in Devices : last_on[d] <= now
    /\ \A r \in reports : /\ r.device \in Devices /\ r.sent \in Nat
                          /\ now - r.sent <= ReportDelay
                          /\ r.on => last_on[r.device] >= r.sent
    /\ \A d \in Devices : relay_state[d].on => last_on[d] >= relay_state[d].at - ReportDelay

\* A pass offers for each tool once, ...
OffersOnce ==
    /\ \A a \in pass.out : ~ Underway(a.tool)
    /\ pass.pc \in {"renew", "lease"} => pass.tool \notin pass.todo

\* ... and a later stage, when the lower ones have been closed in this allow.
StagedOffers ==
    \A a \in pass.out : a.grant /\ a.tool \in Wired /\ allowed_since[a.tool] # None =>
        \A b, e \in OfRole(a.tool, "power") :
            b.device = a.device /\ e.start_stage < b.start_stage =>
                last_on[e.device] >= allowed_since[a.tool] - ReportDelay

StageInvariant == ReportsAreTrue /\ OffersOnce /\ StagedOffers

Typed == TypeOK /\ PassWellFormed /\ DeliveryTyped

\* When a relay was last closed moves only to the present, and only forward.
LEMMA OnMovesOn ==
    ASSUME Typed, ReportsAreTrue, DeliveryNext
    PROVE  /\ last_on' \in [Devices -> Nat \cup {None}]
           /\ \A d \in Devices : /\ last_on'[d] <= now' /\ last_on'[d] >= last_on[d]
                                 /\ last_on'[d] \in Int /\ last_on[d] \in Int
                                 /\ relay_on(d)' => last_on'[d] = now'
<1>1. now \in Nat /\ now' \in Nat /\ now' >= now
  BY ClockMoves DEF Typed
<1>2. \A d \in Devices : last_on'[d] \in {now', last_on[d]} /\ (relay_on(d)' => last_on'[d] = now')
  BY DEF DeliveryNext, Witness
<1>3. last_on' = [d \in Devices |-> last_on'[d]]
  BY DEF DeliveryNext, Witness
<1>4. \A d \in Devices : /\ last_on[d] \in Nat \cup {None} /\ last_on[d] <= now
                         /\ last_on[d] \in Int
  BY DEF ReportsAreTrue, None
<1>5. \A d \in Devices : last_on'[d] \in Nat \cup {None}
  BY <1>1, <1>2, <1>4
<1>6. last_on' \in [Devices -> Nat \cup {None}]
  BY <1>3, <1>5
<1>7. \A d \in Devices : /\ last_on'[d] <= now' /\ last_on'[d] >= last_on[d]
                         /\ last_on'[d] \in Int /\ last_on[d] \in Int
  BY <1>1, <1>2, <1>4
<1> QED  BY <1>2, <1>6, <1>7

\* A step keeps every report true.
LEMMA ReportsKept ==
    ASSUME Typed, ReportsAreTrue, DeliveryNext
    PROVE  ReportsAreTrue'
<1>c. now \in Nat /\ now' \in Nat /\ now' >= now /\ (now' = now \/ Elapse) /\ ReportDelay \in Nat
  BY ClockMoves, DeliveryAssumption DEF Typed, DeliveryAssumption
<1>o. \A d \in Devices : /\ last_on'[d] <= now' /\ last_on'[d] >= last_on[d]
                         /\ last_on'[d] \in Int /\ last_on[d] \in Int
                         /\ relay_on(d)' => last_on'[d] = now'
  BY OnMovesOn
<1>t. relay_state \in [Devices -> [on: BOOLEAN, at: TimeOrNone]]
      /\ \A d \in Devices : relay_state[d].at \in Int
  BY EngineAssumption DEF Typed, TypeOK, TimeOrNone, Time, None, EngineAssumption
<1>1. ASSUME NEW r \in reports'
      PROVE  /\ r.device \in Devices /\ r.sent \in Nat
             /\ now' - r.sent <= ReportDelay
             /\ r.on => last_on'[r.device] >= r.sent
  <2>1. CASE r \in reports
    <3>1. /\ r.device \in Devices /\ r.sent \in Nat /\ now - r.sent <= ReportDelay
          /\ r.on => last_on[r.device] >= r.sent
      BY <2>1 DEF ReportsAreTrue
    <3>2. Elapse => now' = now + 1 /\ now - r.sent < ReportDelay
      BY <2>1 DEF Elapse, Advance
    <3>3. now' - r.sent <= ReportDelay
      BY <1>c, <3>1, <3>2
    <3>4. r.on => last_on'[r.device] >= r.sent
      BY <1>o, <3>1
    <3> QED  BY <3>1, <3>3, <3>4
  <2>2. CASE r \notin reports
    <3>1. PICK d \in Devices : ReportSent(d)
      BY <2>2 DEF DeliveryNext, Begin, Work, Publish, LeaseArrives, LeaseLost, HandlePower,
                  Restart, Policy, Elapse
    <3> DEFINE on == relay_on(d)
    <3>2. reports' = reports \cup {[device |-> d, on |-> on, sent |-> now]}
      BY <3>1 DEF ReportSent
    <3>3. now' = now /\ (on <=> relay_on(d)')
      BY <3>1 DEF ReportSent, engineVars, relay_on
    <3> HIDE DEF on
    <3>4. r.device = d /\ r.on = on /\ r.sent = now
      BY <2>2, <3>2
    <3> QED  BY <1>c, <1>o, <3>3, <3>4
  <2> QED  BY <2>1, <2>2
<1>2. ASSUME NEW d \in Devices, relay_state'[d].on
      PROVE  last_on'[d] >= relay_state'[d].at - ReportDelay
  <2>1. CASE relay_state'[d] = relay_state[d]
    <3>1. last_on[d] >= relay_state[d].at - ReportDelay
      BY <1>2, <2>1 DEF ReportsAreTrue
    <3> QED  BY <1>c, <1>o, <1>t, <2>1, <3>1
  <2>2. ASSUME NEW r \in reports, HandlePower(r), relay_state'[d] # relay_state[d]
        PROVE  last_on'[d] >= relay_state'[d].at - ReportDelay
    <3>1. r.device = d /\ relay_state'[d] = [on |-> r.on, at |-> now]
      BY <1>t, <2>2 DEF HandlePower
    <3>2. r.sent \in Nat /\ now - r.sent <= ReportDelay /\ last_on[d] >= r.sent
      BY <1>2, <3>1 DEF ReportsAreTrue
    <3>3. last_on'[d] >= now - ReportDelay
      BY <1>c, <1>o, <3>2
    <3> QED  BY <3>1, <3>3
  <2>3. ASSUME Restart PROVE FALSE
    BY <1>2, <2>3 DEF Restart, NoReport
  <2>4. CASE UNCHANGED relay_state
    BY <2>1, <2>4
  <2> QED
    BY <2>1, <2>2, <2>3, <2>4 DEF DeliveryNext, Begin, Work, Publish, LeaseArrives, LeaseLost,
       ReportSent, Policy, Elapse, Advance, engineVars, ReconcileSessions, ApplyState, TickEnd,
       TickBegin, Evaluate, Renew, TickUnwired, TickAllow, TickDeny, leaseVars
<1> QED  BY <1>1, <1>2, OnMovesOn DEF ReportsAreTrue

\* A step keeps a pass offering for each tool once.
LEMMA OffersOnceKept ==
    ASSUME Typed, OffersOnce, DeliveryNext
    PROVE  OffersOnce'
<1>1. CASE UNCHANGED pass
  BY <1>1 DEF OffersOnce, Underway
<1>2. CASE Begin \/ Publish \/ Restart
  <2>1. CASE Begin
    <3>1. pass'.out = {} /\ pass'.pc = "evaluate"
      BY <2>1 DEF Begin, TickBegin, Idle
    <3> QED  BY <3>1 DEF OffersOnce
  <2>2. CASE Publish \/ Restart
    <3>1. pass'.out = {} /\ pass'.pc = "idle"
      BY <2>2 DEF Publish, Restart, TickEnd, Idle
    <3> QED  BY <3>1 DEF OffersOnce
  <2> QED  BY <1>2, <2>1, <2>2
<1>3. ASSUME NEW t \in Tools, Evaluate(t) PROVE OffersOnce'
  <2>1. /\ pass.pc = "evaluate" /\ t \in pass.todo /\ pass'.out = pass.out
        /\ pass'.tool = t /\ pass'.todo = pass.todo \ {t}
    BY <1>3 DEF Evaluate, Typed, TypeOK
  <2> QED  BY <2>1 DEF OffersOnce, Underway
<1>4. CASE Renew
  <2>1. /\ pass.pc = "renew" /\ pass'.pc = "lease" /\ pass'.out = pass.out
        /\ pass'.tool = pass.tool /\ pass'.todo = pass.todo
    BY <1>4 DEF Renew, Typed, TypeOK
  <2> QED  BY <2>1 DEF OffersOnce, Underway
<1>5. ASSUME NEW actions, FinishTool(actions), pass.pc = "lease",
             \A a \in actions : a.tool = pass.tool
      PROVE  OffersOnce'
  <2>1. /\ pass'.pc \in {"publish", "evaluate"} /\ pass'.out = pass.out \cup actions
        /\ pass'.todo = pass.todo
    BY <1>5 DEF FinishTool, Typed, TypeOK
  <2> QED  BY <1>5, <2>1 DEF OffersOnce, Underway
<1>6. CASE TickUnwired
  BY <1>5, <1>6 DEF TickUnwired
<1>7. CASE TickAllow
  <2>1. PICK bs, cs : /\ pass.pc = "lease"
                      /\ FinishTool(Offer(pass.tool, bs, TRUE) \cup Offer(pass.tool, cs, TRUE))
    BY <1>7, Zenon DEF TickAllow
  <2> DEFINE actions == Offer(pass.tool, bs, TRUE) \cup Offer(pass.tool, cs, TRUE)
  <2>2. \A a \in actions : a.tool = pass.tool
    BY DEF Offer
  <2> HIDE DEF actions
  <2> QED  BY <1>5, <2>1, <2>2 DEF actions
<1>8. CASE TickDeny
  <2>1. PICK bs, cs, ds : /\ pass.pc = "lease"
                          /\ FinishTool(Offer(pass.tool, bs, TRUE) \cup Offer(pass.tool, cs, FALSE)
                                        \cup Offer(pass.tool, ds, FALSE))
    BY <1>8, Zenon DEF TickDeny
  <2> DEFINE actions == Offer(pass.tool, bs, TRUE) \cup Offer(pass.tool, cs, FALSE)
                        \cup Offer(pass.tool, ds, FALSE)
  <2>2. \A a \in actions : a.tool = pass.tool
    BY DEF Offer
  <2> HIDE DEF actions
  <2> QED  BY <1>5, <2>1, <2>2 DEF actions
<1> QED  BY <1>1, <1>2, <1>3, <1>4, <1>6, <1>7, <1>8
         DEF DeliveryNext, Work, LeaseArrives, LeaseLost, ReportSent, HandlePower, Policy, Elapse,
             Advance, engineVars, ReconcileSessions, ApplyState

\* A step keeps what is offered in the order of the stages.
LEMMA StagedKept ==
    ASSUME FixedWiring, Typed, StageInvariant, DeliveryNext
    PROVE  StagedOffers'
<1> DEFINE lower(a, b, e) == b.device = a.device /\ e.start_stage < b.start_stage
<1> SUFFICES ASSUME NEW a \in pass'.out, a.grant, a.tool \in Wired', allowed_since'[a.tool] # None,
                    NEW b \in OfRole(a.tool, "power")', NEW e \in OfRole(a.tool, "power")',
                    lower(a, b, e)
             PROVE  last_on'[e.device] >= allowed_since'[a.tool] - ReportDelay
  BY DEF StagedOffers
<1>o. \A d \in Devices : /\ last_on'[d] >= last_on[d]
                         /\ last_on'[d] \in Int /\ last_on[d] \in Int
  BY OnMovesOn DEF StageInvariant
<1>d. ReportDelay \in Nat
  BY DeliveryAssumption DEF DeliveryAssumption
<1>1. ASSUME a \in pass.out, snapshot' = snapshot, allowed_since'[a.tool] = allowed_since[a.tool]
      PROVE  last_on'[e.device] >= allowed_since'[a.tool] - ReportDelay
  <2>1. a.tool \in Wired /\ b \in OfRole(a.tool, "power") /\ e \in OfRole(a.tool, "power")
    BY <1>1 DEF Wired, OfRole
  <2>2. last_on[e.device] >= allowed_since[a.tool] - ReportDelay
    BY <1>1, <2>1 DEF StageInvariant, StagedOffers
  <2>3. e.device \in Devices
    BY <2>1, PassReadsItsOwn DEF OfRole, Typed
  <2>4. allowed_since[a.tool] \in Int
    BY <1>1, EngineAssumption
       DEF Typed, TypeOK, LeaseAction, TimeOrNone, Time, None, EngineAssumption
  <2> QED  BY <1>1, <1>d, <1>o, <2>2, <2>3, <2>4
<1>2. CASE TickAllow
  <2> DEFINE t == pass.tool
             power == OfRole(t, "power")
             since == IF allowed_since[t] = None THEN pass.at ELSE allowed_since[t]
             due_now == {m \in power : due(m, power, since, pass.at)}
             sensors == OfRole(t, "sensor")
  <2>0. /\ t \in Wired /\ t \in Tools /\ snapshot' = snapshot /\ pass.pc = "lease"
        /\ snapshot \in Snapshots /\ t \in DOMAIN snapshot
        /\ allowed_since' = [allowed_since EXCEPT ![t] = since]
        /\ allowed_since \in [Tools -> TimeOrNone]
    BY <1>2, WiringTyped DEF TickAllow, Typed, TypeOK
  <2>1. pass'.out = pass.out \cup (Offer(t, due_now, TRUE) \cup Offer(t, sensors, TRUE))
    BY <1>2 DEF TickAllow, FinishTool, Typed, TypeOK
  <2>2. CASE a \in pass.out
    <3>1. a.tool # t /\ a.tool \in Tools
      BY <2>0, <2>2 DEF StageInvariant, OffersOnce, Underway, Typed, TypeOK, LeaseAction
    <3>2. allowed_since'[a.tool] = allowed_since[a.tool]
      BY <2>0, <3>1
    <3> QED  BY <1>1, <2>0, <2>2, <3>2
  <2>3. CASE a \notin pass.out
    <3>1. PICK m \in due_now \cup sensors : a.tool = t /\ a.device = m.device
      BY <2>1, <2>3 DEF Offer
    <3>2. /\ m \in snapshot[t].modules /\ b \in snapshot[t].modules /\ e \in snapshot[t].modules
          /\ b.role = "power" /\ e.role = "power" /\ b.device = m.device
      BY <2>0, <3>1 DEF OfRole
    <3>3. m = b
      BY <2>0, <3>2, DeliveryAssumption DEF DeliveryAssumption
    <3>4. due(b, power, since, pass.at) /\ e \in power
      BY <3>1, <3>2, <3>3 DEF OfRole
    <3>5. relay_state[e.device].on /\ relay_state[e.device].at >= since
      BY <3>4 DEF due, confirmed_on
    <3>6. e.device \in Devices
      BY <2>0, <3>2, PassReadsItsOwn DEF Typed
    <3>7. last_on[e.device] >= relay_state[e.device].at - ReportDelay
      BY <3>5, <3>6 DEF StageInvariant, ReportsAreTrue
    <3>8. relay_state[e.device].at \in Int /\ since \in Int
      BY <2>0, <3>6, EngineAssumption DEF Typed, TypeOK, TimeOrNone, Time, None, EngineAssumption
    <3>9. allowed_since'[a.tool] = since
      BY <2>0, <3>1
    <3> HIDE DEF since
    <3> QED  BY <1>d, <1>o, <3>5, <3>6, <3>7, <3>8, <3>9
  <2> QED  BY <2>2, <2>3
<1>3. CASE TickDeny
  <2> DEFINE t == pass.tool
             power == OfRole(t, "power")
             started == {m \in power : run_on_starts(t, m)}
             running == {m \in power : \/ m \in started
                                       \/ /\ run_on_until[m.id] # None
                                          /\ pass.at < run_on_until[m.id]}
             offers == Offer(t, running, TRUE) \cup Offer(t, power \ running, FALSE)
                       \cup Offer(t, OfRole(t, "sensor"), FALSE)
  <2>0. /\ t \in Wired /\ t \in Tools /\ snapshot' = snapshot
        /\ allowed_since' = [allowed_since EXCEPT ![t] = None]
        /\ allowed_since \in [Tools -> TimeOrNone]
    BY <1>3, WiringTyped DEF TickDeny, Typed, TypeOK
  <2>1. pass'.out = pass.out \cup offers
    BY <1>3 DEF TickDeny, FinishTool, Typed, TypeOK
  <2>2. \A m \in offers : m.tool = t
    BY DEF Offer
  <2> HIDE DEF offers
  <2>3. a.tool # t
    BY <2>0
  <2>4. a \in pass.out /\ a.tool \in Tools
    BY <2>1, <2>2, <2>3 DEF Typed, TypeOK, LeaseAction
  <2> QED  BY <1>1, <2>0, <2>3, <2>4
<1>4. ASSUME pass.out = {}, UNCHANGED pass PROVE FALSE
  BY <1>4
<1>5. CASE Policy
  <2>1. UNCHANGED <<pass, allowed_since>>
    BY <1>5 DEF Policy, ReconcileSessions, ApplyState, leaseVars
  <2>2. pass.pc # "idle"
    BY <1>4, <2>1 DEF Typed, DeliveryTyped
  <2>3. snapshot' = snapshot
    BY <1>5, <2>2 DEF Policy, ReconcileSessions, ApplyState, FixedWiring, Typed, PassWellFormed,
                      TypeOK
  <2> QED  BY <1>1, <2>1, <2>3
<1>6. CASE Begin \/ Publish \/ Restart
  <2>1. pass'.out = {}
    <3>1. CASE Begin
      BY <3>1 DEF Begin, TickBegin, Idle
    <3>2. CASE Publish \/ Restart
      BY <3>2 DEF Publish, Restart, TickEnd, Idle
    <3> QED  BY <1>6, <3>1, <3>2
  <2> QED  BY <2>1
<1>7. ASSUME (\E t \in Tools : Evaluate(t)) \/ Renew \/ TickUnwired
      PROVE  pass'.out = pass.out /\ UNCHANGED <<snapshot, allowed_since>>
  <2>1. ASSUME NEW t \in Tools, Evaluate(t) PROVE pass'.out = pass.out
    BY <2>1 DEF Evaluate, Typed, TypeOK
  <2>2. CASE Renew
    BY <2>2 DEF Renew, Typed, TypeOK
  <2>3. CASE TickUnwired
    BY <2>3 DEF TickUnwired, FinishTool, Typed, TypeOK, leaseVars
  <2>4. UNCHANGED <<snapshot, allowed_since>>
    BY <1>7 DEF Evaluate, Renew, TickUnwired, leaseVars
  <2> QED  BY <1>7, <2>1, <2>2, <2>3, <2>4
<1>8. CASE UNCHANGED <<pass, snapshot, allowed_since>>
  BY <1>1, <1>8
<1> QED  BY <1>1, <1>2, <1>3, <1>5, <1>6, <1>7, <1>8
         DEF DeliveryNext, Work, LeaseArrives, LeaseLost, ReportSent, HandlePower, Elapse,
             Advance, engineVars, leaseVars

\* Where a report is heard within the tick it was sent, a later stage is offered
\* a lease only after every lower one has been closed in this very allow, at
\* whatever moments grants and reports are lost and the edge restarts.
THEOREM StagesFollow ==
    ASSUME FixedWiring, ReportDelay = 0
    PROVE  DeliverySpec => []StageBehindEnergized
<1>1. DeliveryInit => StageInvariant
  <2> SUFFICES ASSUME DeliveryInit PROVE StageInvariant
    OBVIOUS
  <2>1. pass.pc = "idle" /\ pass.out = {} /\ now = 0
    BY DEF DeliveryInit, EngineInit, Idle
  <2>2. ReportsAreTrue
    BY <2>1 DEF DeliveryInit, EngineInit, ReportsAreTrue, NoReport, None
  <2> QED  BY <2>1, <2>2 DEF StageInvariant, OffersOnce, StagedOffers
<1>2. Typed /\ StageInvariant /\ [DeliveryNext]_deliveryVars => StageInvariant'
  <2> SUFFICES ASSUME Typed, StageInvariant, [DeliveryNext]_deliveryVars PROVE StageInvariant'
    OBVIOUS
  <2>1. CASE UNCHANGED deliveryVars
    BY <2>1 DEF deliveryVars, engineVars, leaseVars, StageInvariant, ReportsAreTrue, OffersOnce,
                StagedOffers, Underway, Wired, OfRole
  <2>2. CASE DeliveryNext
    BY <2>2, ReportsKept, OffersOnceKept, StagedKept DEF StageInvariant
  <2> QED  BY <2>1, <2>2
<1>3. Typed /\ StageInvariant => StageBehindEnergized
  <2> SUFFICES ASSUME Typed, NEW a \in pass.out, a.grant, a.tool \in Wired,
                      allowed_since[a.tool] # None, NEW b \in OfRole(a.tool, "power"),
                      NEW e \in OfRole(a.tool, "power"), b.device = a.device,
                      e.start_stage < b.start_stage, StageInvariant
               PROVE  last_on[e.device] >= allowed_since[a.tool]
    BY DEF StageBehindEnergized
  <2>1. last_on[e.device] >= allowed_since[a.tool] - ReportDelay
    BY DEF StageInvariant, StagedOffers
  <2>2. allowed_since[a.tool] \in Int
    BY EngineAssumption DEF Typed, TypeOK, LeaseAction, TimeOrNone, Time, None, EngineAssumption
  <2> QED  BY <2>1, <2>2
<1> QED  BY <1>1, <1>2, <1>3, DeliveryTypes, PTL DEF DeliverySpec, Typed
=============================================================================
