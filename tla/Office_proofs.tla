--------------------------- MODULE Office_proofs ----------------------------
(***************************************************************************)
(* Proofs about the office: webhook deliveries, the policy broadcaster,    *)
(* alerts, the server's settings and the membership ledger, for every      *)
(* number of events, jobs, devices, watchers, heartbeats, drafts of the    *)
(* file, schemas, members, payments and requests.                          *)
(***************************************************************************)
EXTENDS Webhooks, Broadcast, Alerts, Settings, Membership, SequenceTheorems, FiniteSetTheorems, TLAPS

-----------------------------------------------------------------------------
(* Webhooks *)

DeliverJobs == [event : Nat, loaded : BOOLEAN, all : Seq(HookIds), left : Seq(HookIds), attempt : Nat]
Deliveries == [hook : HookIds, event : Nat, turn : Nat, attempt : Nat, ok : BOOLEAN]
WebhooksTypeOK ==
    /\ DOMAIN hook = HookIds /\ typeOf \in Seq(EventTypes) /\ channel \in Seq(Nat)
    /\ \A h \in HookIds : hook[h].exists \in BOOLEAN /\ hook[h].used \in BOOLEAN /\ hook[h].enabled \in BOOLEAN
    /\ deliverJobs \subseteq DeliverJobs /\ deliveries \subseteq Deliveries
    /\ served \subseteq [event : Nat, hooks : Seq(HookIds)]

\* A webhook that is deleted does not come back, so a job that skipped it owes
\* it nothing later.
IdsAreSpent ==
    /\ \A h \in HookIds : (hook[h].enabled => hook[h].exists) /\ (hook[h].exists => hook[h].used)
    /\ \A j \in deliverJobs : \A i \in 1..Len(j.all) : hook[j.all[i]].used
    /\ \A s \in served : \A i \in 1..Len(s.hooks) : hook[s.hooks[i]].used

\* An event waits in the channel, or one job has it.
EventsTakenOnce ==
    /\ \A i \in 1..Len(channel) : channel[i] <= Len(typeOf)
    /\ \A i, k \in 1..Len(channel) : channel[i] = channel[k] => i = k
    /\ \A j \in deliverJobs : j.event <= Len(typeOf) /\ \A i \in 1..Len(channel) : channel[i] # j.event
    /\ \A d \in deliveries : d.event <= Len(typeOf) /\ \A i \in 1..Len(channel) : channel[i] # d.event
    /\ \A j, k \in deliverJobs : j.event = k.event => j = k

\* A job goes through the webhooks it loaded in turn, each of them once.
GoesThrough(j) ==
    /\ \A a, b \in 1..Len(j.all) : j.all[a] = j.all[b] => a = b
    /\ Len(j.left) <= Len(j.all) /\ (j.loaded => Len(j.left) > 0)
    /\ \A i \in 1..Len(j.left) : j.left[i] = j.all[(Len(j.all) - Len(j.left)) + i]
\* Those it is through with have been tried.
Tried(j) == \A i \in 1..(Len(j.all) - Len(j.left)) :
    hook[j.all[i]].exists => \E d \in deliveries : d.hook = j.all[i] /\ d.event = j.event
\* What was delivered of its event was delivered by it, and the webhook it is at
\* has only failed so far.
IsAhead(j) == \A d \in deliveries : d.event = j.event =>
    /\ j.loaded /\ d.turn >= Len(j.left) /\ d.turn >= 1 /\ d.turn <= Len(j.all)
    /\ d.hook = j.all[(Len(j.all) - d.turn) + 1]
    /\ d.turn = Len(j.left) => ~ d.ok /\ d.attempt < j.attempt
JobsInTurn == \A j \in deliverJobs : GoesThrough(j) /\ Tried(j) /\ IsAhead(j)

WebhooksInvariant == WebhooksTypeOK /\ IdsAreSpent /\ EventsTakenOnce /\ JobsInTurn /\ DeliveriesAreKept

-----------------------------------------------------------------------------
(* What a job loads *)

\* SetToSeq lists a finite set, each element once.
LEMMA SetToSeqLists ==
    ASSUME NEW S, IsFiniteSet(S)
    PROVE  /\ SetToSeq(S) \in Seq(S) /\ Len(SetToSeq(S)) \in Nat
           /\ \A i \in 1..Len(SetToSeq(S)) : SetToSeq(S)[i] \in S
           /\ \A a, b \in 1..Len(SetToSeq(S)) : SetToSeq(S)[a] = SetToSeq(S)[b] => a = b
<1> DEFINE n == Cardinality(S)
<1>1. n \in Nat /\ ExistsBijection(1..n, S)
  BY FS_CardinalityType
<1>2. \E f \in [1..n -> S] : IsInjective(f)
  BY <1>1 DEF ExistsBijection, Bijection, Injection
<1>3. SetToSeq(S) \in [1..n -> S] /\ IsInjective(SetToSeq(S))
  BY <1>2, Zenon DEF SetToSeq
<1> HIDE DEF n
<1>4. SetToSeq(S) \in Seq(S) /\ Len(SetToSeq(S)) = n
  BY <1>1, <1>3
<1> QED  BY <1>1, <1>3, <1>4 DEF IsInjective

\* The webhooks a job loads are enabled, and each is there once though it may be
\* subscribed by type and by class (handle_event).
LEMMA SubscribersOnce ==
    ASSUME WebhooksTypeOK, NEW k
    PROVE  LET to == subscribers(k)
           IN  /\ to \in Seq(HookIds)
               /\ \A i \in 1..Len(to) : hook[to[i]].enabled
               /\ \A a, b \in 1..Len(to) : to[a] = to[b] => a = b
<1> DEFINE S == get_enabled_webhooks_for_event(k)
           T == get_enabled_webhooks_for_class(category(k), {s \in Severities : s <= severity(k)}) \ S
           p == SetToSeq(S)
           q == SetToSeq(T)
<1>1. S \in SUBSET HookIds /\ T \in SUBSET HookIds /\ S \cap T = {} /\ \A h \in S \cup T : hook[h].enabled
  BY DEF get_enabled_webhooks_for_event, get_enabled_webhooks_for_class
<1>2. IsFiniteSet(S) /\ IsFiniteSet(T)
  BY <1>1, FS_Subset, WebhooksAssumption
<1>3. subscribers(k) = p \o q
  BY DEF subscribers
<1> HIDE DEF S, T
<1>4. /\ p \in Seq(S) /\ Len(p) \in Nat /\ \A i \in 1..Len(p) : p[i] \in S
      /\ \A a, b \in 1..Len(p) : p[a] = p[b] => a = b
  BY <1>2, SetToSeqLists
<1>5. /\ q \in Seq(T) /\ Len(q) \in Nat /\ \A i \in 1..Len(q) : q[i] \in T
      /\ \A a, b \in 1..Len(q) : q[a] = q[b] => a = b
  BY <1>2, SetToSeqLists
<1> HIDE DEF p, q
<1> DEFINE to == p \o q
<1>6. p \in Seq(HookIds) /\ q \in Seq(HookIds)
  BY <1>1, <1>4, <1>5
<1>7. to \in Seq(HookIds) /\ Len(to) = Len(p) + Len(q)
  BY <1>6
<1>8. \A i \in 1..Len(to) : to[i] = IF i <= Len(p) THEN p[i] ELSE q[i - Len(p)]
  BY <1>6, <1>7
<1> HIDE DEF to
<1>9. \A i \in 1..Len(to) : IF i <= Len(p) THEN to[i] \in S ELSE to[i] \in T /\ i - Len(p) \in 1..Len(q)
  BY <1>4, <1>5, <1>7, <1>8
<1>10. \A i \in 1..Len(to) : hook[to[i]].enabled
  BY <1>1, <1>9
<1>11. ASSUME NEW a \in 1..Len(to), NEW b \in 1..Len(to), to[a] = to[b] PROVE a = b
  <2>1. (a <= Len(p)) <=> (b <= Len(p))
    BY <1>1, <1>9, <1>11
  <2>2. CASE a <= Len(p)
    BY <1>4, <1>8, <1>11, <2>1, <2>2
  <2>3. CASE ~ (a <= Len(p))
    <3>1. a - Len(p) \in 1..Len(q) /\ b - Len(p) \in 1..Len(q) /\ q[a - Len(p)] = q[b - Len(p)]
      BY <1>8, <1>9, <1>11, <2>1, <2>3
    <3>2. a - Len(p) = b - Len(p)
      BY <1>5, <3>1
    <3> QED  BY <1>4, <3>2
  <2> QED  BY <2>2, <2>3
<1> QED  BY <1>3, <1>7, <1>10, <1>11 DEF to

-----------------------------------------------------------------------------
(* Jobs *)

\* A job that goes on as k keeps the invariant when k is through with no more
\* than it has tried: the step ends it, or puts k in its place.
LEMMA JobGoesOnKeeps ==
    ASSUME WebhooksInvariant, NEW j \in deliverJobs, NEW k \in DeliverJobs, JobGoesOn(j, k), Alive, DeliveredOnce',
           k.event = j.event, \A i \in 1..Len(k.all) : hook[k.all[i]].used,
           k.left # <<>> => GoesThrough(k), Tried(k)', IsAhead(k)',
           deliveries \subseteq deliveries', deliveries' \subseteq Deliveries,
           \A d \in deliveries' \ deliveries : d.event = j.event,
           UNCHANGED <<hook, header, channel, typeOf, phase>>
    PROVE  WebhooksInvariant'
<1>1. /\ \A x \in deliverJobs' : x \in deliverJobs \ {j} \/ (x = k /\ k.left # <<>>)
      /\ \A x \in served' : x \in served \/ (k.left = <<>> /\ x = [event |-> k.event, hooks |-> k.all])
  <2>1. CASE k.left = <<>>
    <3>1. deliverJobs' = deliverJobs \ {j} /\ served' = served \cup {[event |-> k.event, hooks |-> k.all]}
      BY <2>1 DEF JobGoesOn
    <3> QED  BY <2>1, <3>1, Zenon
  <2>2. CASE k.left # <<>>
    <3>1. deliverJobs' = (deliverJobs \ {j}) \cup {k} /\ served' = served
      BY <2>2 DEF JobGoesOn
    <3> QED  BY <2>2, <3>1, Zenon
  <2> QED  BY <2>1, <2>2
<1>2. \A x \in deliverJobs' : (x \in deliverJobs /\ x.event # j.event) \/ (x = k /\ k.left # <<>>)
  BY <1>1, Zenon DEF WebhooksInvariant, EventsTakenOnce
<1>3. \A x \in served' : x \in served \/ (k.left = <<>> /\ x = [event |-> k.event, hooks |-> k.all])
  BY <1>1
<1>4. WebhooksTypeOK'
  <2>1. [event |-> k.event, hooks |-> k.all] \in [event : Nat, hooks : Seq(HookIds)]
    BY DEF DeliverJobs
  <2>2. served' \subseteq [event : Nat, hooks : Seq(HookIds)]
    BY <1>3, <2>1 DEF WebhooksInvariant, WebhooksTypeOK
  <2>3. deliverJobs' \subseteq DeliverJobs
    BY <1>2 DEF WebhooksInvariant, WebhooksTypeOK
  <2> QED  BY <2>2, <2>3 DEF WebhooksInvariant, WebhooksTypeOK
<1>5. IdsAreSpent'
  BY <1>2, <1>3 DEF WebhooksInvariant, IdsAreSpent
<1>6. EventsTakenOnce'
  <2>1. \A d \in deliveries' : d.event <= Len(typeOf) /\ \A i \in 1..Len(channel) : channel[i] # d.event
    BY DEF WebhooksInvariant, EventsTakenOnce
  <2>2. \A x \in deliverJobs' : x.event <= Len(typeOf) /\ \A i \in 1..Len(channel) : channel[i] # x.event
    BY <1>2 DEF WebhooksInvariant, EventsTakenOnce
  <2>3. \A x, y \in deliverJobs' : x.event = y.event => x = y
    BY <1>2 DEF WebhooksInvariant, EventsTakenOnce
  <2> QED  BY <2>1, <2>2, <2>3 DEF WebhooksInvariant, EventsTakenOnce
<1>7. JobsInTurn'
  <2> SUFFICES ASSUME NEW x \in deliverJobs', x \in deliverJobs, x.event # j.event
               PROVE  GoesThrough(x) /\ Tried(x)' /\ IsAhead(x)'
    BY <1>2 DEF JobsInTurn, GoesThrough
  <2>1. GoesThrough(x) /\ Tried(x) /\ IsAhead(x)
    BY DEF WebhooksInvariant, JobsInTurn
  <2>2. Tried(x)'
    BY <2>1 DEF Tried
  <2>3. IsAhead(x)'
    BY <2>1 DEF IsAhead
  <2> QED  BY <2>1, <2>2, <2>3
<1>8. OthersStillServed'
  <2> SUFFICES ASSUME NEW x \in served', NEW i \in DOMAIN x.hooks, hook[x.hooks[i]].exists
               PROVE  \E d \in deliveries' : d.hook = x.hooks[i] /\ d.event = x.event
    BY DEF OthersStillServed
  <2>1. CASE x \in served
    BY <2>1 DEF WebhooksInvariant, DeliveriesAreKept, OthersStillServed
  <2>2. CASE k.left = <<>> /\ x = [event |-> k.event, hooks |-> k.all]
    <3>1. i \in 1..(Len(k.all) - Len(k.left)) /\ x.hooks[i] = k.all[i] /\ x.event = k.event
      BY <2>2 DEF DeliverJobs
    <3> QED  BY <3>1 DEF Tried
  <2> QED  BY <1>3, <2>1, <2>2
<1>9. DrainedMeansDone'
  BY DEF Alive, DrainedMeansDone
<1> QED  BY <1>4, <1>5, <1>6, <1>7, <1>8, <1>9 DEF WebhooksInvariant, DeliveriesAreKept

\* A job that loads its webhooks keeps the invariant: nothing of its event has
\* been delivered before (handle_event).
LEMMA LoadingKeeps ==
    ASSUME WebhooksInvariant, NEW j \in deliverJobs, handle_event(j)
    PROVE  WebhooksInvariant'
<1>0. PICK to, k : to = subscribers(typeOf[j.event]) /\ k = [j EXCEPT !.loaded = TRUE, !.all = to, !.left = to]
  OBVIOUS
<1>1. /\ Alive /\ ~ j.loaded /\ JobGoesOn(j, k)
      /\ UNCHANGED <<hook, header, channel, typeOf, deliveries, phase>>
  BY <1>0 DEF handle_event
<1>2. /\ to \in Seq(HookIds)
      /\ \A i \in 1..Len(to) : hook[to[i]].enabled
      /\ \A a, b \in 1..Len(to) : to[a] = to[b] => a = b
  BY <1>0, SubscribersOnce DEF WebhooksInvariant
<1>3. j \in DeliverJobs
  BY DEF WebhooksInvariant, WebhooksTypeOK
<1>4. /\ k \in DeliverJobs /\ k.event = j.event /\ k.all = to /\ k.left = to /\ k.loaded = TRUE
  BY <1>0, <1>2, <1>3 DEF DeliverJobs
<1>5. \A i \in 1..Len(k.all) : hook[k.all[i]].used
  BY <1>2, <1>4 DEF WebhooksInvariant, IdsAreSpent
<1>6. k.left # <<>> => GoesThrough(k)
  BY <1>2, <1>4 DEF GoesThrough
<1>7. Tried(k)'
  BY <1>2, <1>4 DEF Tried
<1>8. \A d \in deliveries : d.event # j.event
  BY <1>1 DEF WebhooksInvariant, JobsInTurn, IsAhead
<1>9. IsAhead(k)'
  BY <1>1, <1>4, <1>8 DEF IsAhead
<1>10. deliveries \subseteq Deliveries
  BY DEF WebhooksInvariant, WebhooksTypeOK
<1>11. DeliveredOnce'
  BY <1>1 DEF WebhooksInvariant, DeliveriesAreKept, DeliveredOnce
<1> QED  BY <1>1, <1>4, <1>5, <1>6, <1>7, <1>9, <1>10, <1>11, JobGoesOnKeeps

\* What an attempt records is of the webhook the job is at, and every earlier
\* one of that webhook and that event has failed.
LEMMA AttemptsBefore ==
    ASSUME WebhooksInvariant, NEW j \in deliverJobs, j.loaded
    PROVE  /\ j \in DeliverJobs /\ Len(j.left) \in Nat /\ Len(j.all) \in Nat
           /\ Len(j.left) >= 1 /\ Len(j.left) <= Len(j.all)
           /\ Head(j.left) = j.all[(Len(j.all) - Len(j.left)) + 1] /\ Head(j.left) \in HookIds
           /\ \A d \in deliveries : d.event = j.event /\ d.hook = Head(j.left) =>
                  d.turn = Len(j.left) /\ ~ d.ok /\ d.attempt < j.attempt
<1>1. j \in DeliverJobs /\ GoesThrough(j) /\ IsAhead(j) /\ deliveries \subseteq Deliveries
  BY DEF WebhooksInvariant, WebhooksTypeOK, JobsInTurn
<1>2. j.left \in Seq(HookIds) /\ j.all \in Seq(HookIds) /\ Len(j.left) \in Nat /\ Len(j.all) \in Nat
  BY <1>1 DEF DeliverJobs
<1>3. Len(j.left) >= 1 /\ Len(j.left) <= Len(j.all)
  BY <1>1, <1>2 DEF GoesThrough
<1>4. Head(j.left) = j.left[1] /\ Head(j.left) \in HookIds
  BY <1>2, <1>3
<1> DEFINE n == Len(j.all)
           m == Len(j.left)
<1>5. Head(j.left) = j.all[(n - m) + 1]
  <2>1. 1 \in 1..m
    BY <1>2, <1>3
  <2>2. \A i \in 1..m : j.left[i] = j.all[(n - m) + i]
    BY <1>1 DEF GoesThrough
  <2> QED  BY <1>4, <2>1, <2>2
<1>6. n \in Nat /\ m \in Nat /\ m >= 1 /\ m <= n /\ \A a, b \in 1..n : j.all[a] = j.all[b] => a = b
  BY <1>1, <1>2, <1>3 DEF GoesThrough
<1>7. ASSUME NEW d \in deliveries, d.event = j.event, d.hook = Head(j.left)
      PROVE  d.turn = m /\ ~ d.ok /\ d.attempt < j.attempt
  <2>1. /\ d.turn \in Nat /\ d.turn >= 1 /\ d.turn <= n /\ d.hook = j.all[(n - d.turn) + 1]
        /\ d.turn = m => ~ d.ok /\ d.attempt < j.attempt
    BY <1>1, <1>7 DEF IsAhead, Deliveries
  <2> HIDE DEF n, m
  <2>2. (n - d.turn) + 1 \in 1..n /\ (n - m) + 1 \in 1..n
    BY <1>6, <2>1
  <2>3. (n - d.turn) + 1 = (n - m) + 1
    BY <1>5, <1>6, <1>7, <2>1, <2>2
  <2>4. d.turn = m
    BY <1>6, <2>1, <2>3
  <2> QED  BY <2>1, <2>4
<1> QED  BY <1>1, <1>2, <1>3, <1>4, <1>5, <1>7

\* The rest of a sequence is one shorter and begins one later.
LEMMA RestOf ==
    ASSUME NEW S, NEW q \in Seq(S), Len(q) >= 1
    PROVE  /\ Tail(q) \in Seq(S) /\ Len(Tail(q)) = Len(q) - 1 /\ Len(q) \in Nat
           /\ \A i \in 1..Len(Tail(q)) : Tail(q)[i] = q[i + 1]
           /\ Tail(q) # <<>> => Len(Tail(q)) > 0
<1>1. q # <<>> /\ Len(q) \in Nat
  OBVIOUS
<1>2. Tail(q) \in Seq(S) /\ Len(Tail(q)) = Len(q) - 1
  BY <1>1
<1>3. \A i \in 1..Len(Tail(q)) : Tail(q)[i] = q[i + 1]
  BY <1>1, <1>2
<1>4. Tail(q) # <<>> => Len(Tail(q)) > 0
  BY <1>2
<1> QED  BY <1>1, <1>2, <1>3, <1>4

\* An attempt keeps the invariant, whether it is the last for its webhook or is
\* to be made again (deliver_with_retries).
LEMMA AttemptKeeps ==
    ASSUME WebhooksInvariant, NEW j \in deliverJobs, j.loaded, Alive, NEW ok \in BOOLEAN,
           record_webhook_delivery(Head(j.left), j, ok), NEW k, JobGoesOn(j, k),
           \/ k = NextHook(j)
           \/ k = [j EXCEPT !.attempt = @ + 1] /\ ~ ok,
           UNCHANGED <<hook, header, channel, typeOf, phase>>
    PROVE  WebhooksInvariant'
<1> DEFINE h == Head(j.left)
           new == [hook |-> h, event |-> j.event, turn |-> Len(j.left), attempt |-> j.attempt, ok |-> ok]
<1>1. /\ j \in DeliverJobs /\ Len(j.left) \in Nat /\ Len(j.all) \in Nat
      /\ Len(j.left) >= 1 /\ Len(j.left) <= Len(j.all)
      /\ h = j.all[(Len(j.all) - Len(j.left)) + 1] /\ h \in HookIds
      /\ \A d \in deliveries : d.event = j.event /\ d.hook = h =>
             d.turn = Len(j.left) /\ ~ d.ok /\ d.attempt < j.attempt
  BY AttemptsBefore
<1>2. /\ deliveries' = IF hook[h].exists THEN deliveries \cup {new} ELSE deliveries
  BY DEF record_webhook_delivery
<1>3. new \in Deliveries
  BY <1>1 DEF DeliverJobs, Deliveries
<1>4. /\ new.hook = h /\ new.event = j.event /\ new.turn = Len(j.left) /\ new.attempt = j.attempt /\ new.ok = ok
  OBVIOUS
<1> HIDE DEF h, new
<1>5. /\ deliveries \subseteq Deliveries /\ deliveries' \subseteq Deliveries /\ deliveries \subseteq deliveries'
      /\ \A d \in deliveries' \ deliveries : d = new
      /\ hook[h].exists => new \in deliveries'
  BY <1>2, <1>3 DEF WebhooksInvariant, WebhooksTypeOK
<1>6. /\ GoesThrough(j) /\ Tried(j) /\ IsAhead(j) /\ \A i \in 1..Len(j.all) : hook[j.all[i]].used
  BY DEF WebhooksInvariant, JobsInTurn, IdsAreSpent
<1>7. DeliveredOnce'
  <2> SUFFICES ASSUME NEW d \in deliveries', NEW f \in deliveries',
                      d.hook = f.hook, d.event = f.event, d.ok, d # f
               PROVE  f.turn = d.turn /\ f.attempt < d.attempt
    BY DEF DeliveredOnce
  <2>1. CASE d \in deliveries /\ f \in deliveries
    BY <2>1 DEF WebhooksInvariant, DeliveriesAreKept, DeliveredOnce
  <2>2. CASE f = new
    BY <1>1, <1>4, <1>5, <2>2
  <2>3. CASE d = new
    BY <1>1, <1>4, <1>5, <2>3
  <2> QED  BY <1>5, <2>1, <2>2, <2>3
<1> DEFINE n == Len(j.all)
           m == Len(j.left)
<1>8. /\ j \in DeliverJobs /\ n \in Nat /\ m \in Nat /\ m >= 1 /\ m <= n /\ h = j.all[(n - m) + 1] /\ h \in HookIds
      /\ j.left \in Seq(HookIds) /\ j.all \in Seq(HookIds) /\ j.attempt \in Nat
  BY <1>1 DEF DeliverJobs
<1>9. CASE k = [j EXCEPT !.attempt = @ + 1] /\ ~ ok
  <2>1. /\ k \in DeliverJobs /\ k.event = j.event /\ k.all = j.all /\ k.left = j.left /\ k.loaded = j.loaded
        /\ k.attempt = j.attempt + 1
    <3>1. j.attempt + 1 \in Nat
      BY <1>8
    <3> HIDE DEF n, m
    <3> QED  BY <1>8, <1>9, <3>1 DEF DeliverJobs
  <2>2. GoesThrough(k) /\ \A i \in 1..Len(k.all) : hook[k.all[i]].used
    BY <1>6, <2>1 DEF GoesThrough
  <2>3. Tried(k)'
    <3> SUFFICES ASSUME NEW i \in 1..(Len(k.all) - Len(k.left)), hook'[k.all[i]].exists
                 PROVE  \E d \in deliveries' : d.hook = k.all[i] /\ d.event = k.event
      BY DEF Tried
    <3>1. i \in 1..(Len(j.all) - Len(j.left)) /\ k.all[i] = j.all[i] /\ hook[j.all[i]].exists
      BY <2>1
    <3> QED  BY <1>5, <1>6, <2>1, <3>1 DEF Tried
  <2>4. IsAhead(k)'
    <3> SUFFICES ASSUME NEW d \in deliveries', d.event = j.event
                 PROVE  /\ d.turn >= m /\ d.turn >= 1 /\ d.turn <= n /\ d.hook = j.all[(n - d.turn) + 1]
                        /\ d.turn = m => ~ d.ok /\ d.attempt < j.attempt + 1
      BY <2>1 DEF IsAhead
    <3>1. CASE d \in deliveries
      BY <1>5, <1>6, <1>8, <3>1 DEF IsAhead, Deliveries
    <3>2. CASE d = new
      <4>1. d.turn = m /\ d.ok = ok /\ d.hook = h /\ d.attempt = j.attempt
        BY <1>4, <3>2
      <4> HIDE DEF n, m
      <4> QED  BY <1>8, <1>9, <4>1
    <3> QED  BY <1>5, <3>1, <3>2
  <2> QED  BY <1>4, <1>5, <1>7, <2>1, <2>2, <2>3, <2>4, JobGoesOnKeeps
<1>10. CASE k = NextHook(j)
  <2>1. /\ Tail(j.left) \in Seq(HookIds) /\ Len(Tail(j.left)) = m - 1
        /\ \A i \in 1..Len(Tail(j.left)) : Tail(j.left)[i] = j.left[i + 1]
        /\ Tail(j.left) # <<>> => Len(Tail(j.left)) > 0
    BY <1>8, RestOf
  <2>2. /\ k \in DeliverJobs /\ k.event = j.event /\ k.all = j.all /\ k.left = Tail(j.left) /\ k.loaded = j.loaded
    BY <1>8, <1>10, <2>1 DEF NextHook, DeliverJobs
  <2> DEFINE r == Len(k.left)
  <2>3. r = m - 1 /\ (k.left # <<>> => r > 0)
    BY <2>1, <2>2
  <2>4. ASSUME k.left # <<>> PROVE GoesThrough(k)
    <3>1. ASSUME NEW i \in 1..r PROVE k.left[i] = j.all[(n - r) + i]
      <4>1. k.left[i] = j.left[i + 1]
        BY <2>1, <2>2
      <4>2. \A x \in 1..m : j.left[x] = j.all[(n - m) + x]
        BY <1>6 DEF GoesThrough
      <4>3. i \in Int /\ n \in Int /\ m \in Int /\ r = m - 1 /\ i <= r /\ i >= 1
        BY <1>8, <2>3
      <4> HIDE DEF n, m, r
      <4>4. i + 1 \in 1..m /\ (n - m) + (i + 1) = (n - r) + i
        BY <4>3
      <4> QED  BY <4>1, <4>2, <4>4
    <3>2. r <= n /\ r > 0
      <4> HIDE DEF n, m, r
      <4> QED  BY <1>8, <2>3, <2>4
    <3>3. \A a, b \in 1..n : j.all[a] = j.all[b] => a = b
      BY <1>6 DEF GoesThrough
    <3> QED  BY <2>2, <3>1, <3>2, <3>3 DEF GoesThrough
  <2>5. Tried(k)'
    <3> SUFFICES ASSUME NEW i \in 1..(Len(k.all) - r), hook'[k.all[i]].exists
                 PROVE  \E d \in deliveries' : d.hook = k.all[i] /\ d.event = k.event
      BY DEF Tried
    <3>0. i \in 1..(n - r) /\ k.all[i] = j.all[i] /\ hook[j.all[i]].exists
      BY <2>2
    <3>1. i \in 1..(n - m) \/ i = (n - m) + 1
      <4> HIDE DEF n, m, r
      <4> QED  BY <1>8, <2>3, <3>0
    <3>2. CASE i \in 1..(n - m)
      BY <1>5, <1>6, <2>2, <3>0, <3>2 DEF Tried
    <3>3. CASE i = (n - m) + 1
      BY <1>4, <1>5, <1>8, <2>2, <3>0, <3>3
    <3> QED  BY <3>1, <3>2, <3>3
  <2>6. IsAhead(k)'
    <3> SUFFICES ASSUME NEW d \in deliveries', d.event = j.event
                 PROVE  d.turn > r /\ d.turn >= 1 /\ d.turn <= n /\ d.hook = j.all[(n - d.turn) + 1] /\ d.turn \in Nat
      <4>1. r \in Int
        BY <1>8, <2>3
      <4> QED  BY <2>2, <4>1 DEF IsAhead
    <3>1. CASE d \in deliveries
      <4>1. d.turn \in Nat /\ d.turn >= m /\ d.turn >= 1 /\ d.turn <= n /\ d.hook = j.all[(n - d.turn) + 1]
        BY <1>5, <1>6, <3>1 DEF IsAhead, Deliveries
      <4> HIDE DEF n, m, r
      <4> QED  BY <1>8, <2>3, <4>1
    <3>2. CASE d = new
      <4>1. d.turn = m /\ d.hook = h
        BY <1>4, <3>2
      <4> HIDE DEF n, m, r
      <4> QED  BY <1>8, <2>3, <4>1
    <3> QED  BY <1>5, <3>1, <3>2
  <2>7. \A i \in 1..Len(k.all) : hook[k.all[i]].used
    BY <1>6, <2>2
  <2> QED  BY <1>4, <1>5, <1>7, <2>2, <2>4, <2>5, <2>6, <2>7, JobGoesOnKeeps
<1> QED  BY <1>9, <1>10

\* A job for the next event of the channel is the only one for it (the
\* consumer's loop and its drain).
LEMMA SpawnKeeps ==
    ASSUME WebhooksInvariant, ConsumerSpawns
    PROVE  WebhooksInvariant'
<1> DEFINE e == Head(channel)
           new == NewJob(e)
<1>1. /\ Alive /\ channel # <<>> /\ channel' = Tail(channel) /\ deliverJobs' = deliverJobs \cup {new}
      /\ UNCHANGED <<hook, header, typeOf, deliveries, served, phase>>
  BY DEF ConsumerSpawns
<1>2. channel \in Seq(Nat) /\ Len(channel) >= 1
  BY <1>1 DEF WebhooksInvariant, WebhooksTypeOK
<1>3. /\ channel' \in Seq(Nat) /\ Len(channel') = Len(channel) - 1 /\ Len(channel) \in Nat
      /\ \A i \in 1..Len(channel') : channel'[i] = channel[i + 1]
  BY <1>1, <1>2, RestOf
<1>4. e = channel[1] /\ e \in Nat
  BY <1>2
<1>5. PICK x : x = e
  OBVIOUS
<1>6. PICK j : j = NewJob(x)
  OBVIOUS
<1>7. /\ j \in DeliverJobs /\ j.event = x /\ Len(j.all) = 0 /\ Len(j.left) = 0 /\ j.loaded = FALSE
      /\ deliverJobs' = deliverJobs \cup {j}
  BY <1>1, <1>4, <1>5, <1>6 DEF NewJob, DeliverJobs
<1> HIDE DEF e, new
<1>8. WebhooksTypeOK'
  BY <1>1, <1>3, <1>7 DEF WebhooksInvariant, WebhooksTypeOK
<1>9. IdsAreSpent'
  BY <1>1, <1>7 DEF WebhooksInvariant, IdsAreSpent
<1>10. 1 \in 1..Len(channel) /\ \A i \in 1..Len(channel') : i + 1 \in 1..Len(channel) /\ i + 1 # 1
  BY <1>2, <1>3
<1>11. /\ x <= Len(typeOf) /\ \A i \in 1..Len(channel') : channel'[i] # x /\ channel'[i] <= Len(typeOf)
       /\ \A y \in deliverJobs : y.event # x
       /\ \A y \in deliveries : y.event # x
  BY <1>3, <1>4, <1>5, <1>10 DEF WebhooksInvariant, EventsTakenOnce
<1>12. \A i, k \in 1..Len(channel') : channel'[i] = channel'[k] => i = k
  <2> SUFFICES ASSUME NEW i \in 1..Len(channel'), NEW k \in 1..Len(channel'), channel'[i] = channel'[k]
               PROVE  i = k
    OBVIOUS
  <2>1. i + 1 = k + 1
    BY <1>3, <1>10 DEF WebhooksInvariant, EventsTakenOnce
  <2> QED  BY <1>3, <2>1
<1>13. EventsTakenOnce'
  <2>1. \A y \in deliverJobs' : y.event <= Len(typeOf) /\ \A i \in 1..Len(channel') : channel'[i] # y.event
    BY <1>3, <1>7, <1>10, <1>11 DEF WebhooksInvariant, EventsTakenOnce
  <2>2. \A y \in deliveries : y.event <= Len(typeOf) /\ \A i \in 1..Len(channel') : channel'[i] # y.event
    BY <1>3, <1>10 DEF WebhooksInvariant, EventsTakenOnce
  <2>3. \A y, z \in deliverJobs' : y.event = z.event => y = z
    BY <1>7, <1>11 DEF WebhooksInvariant, EventsTakenOnce
  <2> QED  BY <1>1, <1>11, <1>12, <2>1, <2>2, <2>3 DEF EventsTakenOnce
<1>14. JobsInTurn'
  <2>1. GoesThrough(j) /\ Tried(j)'
    BY <1>7 DEF GoesThrough, Tried
  <2>2. IsAhead(j)'
    BY <1>1, <1>7, <1>11 DEF IsAhead
  <2>3. ASSUME NEW y \in deliverJobs PROVE GoesThrough(y) /\ Tried(y)' /\ IsAhead(y)'
    <3>1. GoesThrough(y) /\ Tried(y) /\ IsAhead(y)
      BY DEF WebhooksInvariant, JobsInTurn
    <3> QED  BY <1>1, <3>1 DEF Tried, IsAhead
  <2> QED  BY <1>7, <2>1, <2>2, <2>3 DEF JobsInTurn, GoesThrough
<1>15. DeliveriesAreKept'
  BY <1>1 DEF WebhooksInvariant, DeliveriesAreKept, OthersStillServed, DeliveredOnce, DrainedMeansDone, Alive
<1> QED  BY <1>8, <1>9, <1>13, <1>14, <1>15 DEF WebhooksInvariant

-----------------------------------------------------------------------------
(* Administration *)

\* What the administration leaves of the webhooks: an id that was used stays
\* used, what is enabled exists, and a webhook that was gone stays gone.
HooksKept ==
    /\ DOMAIN hook' = HookIds
    /\ \A h \in HookIds :
           /\ hook'[h].exists \in BOOLEAN /\ hook'[h].used \in BOOLEAN /\ hook'[h].enabled \in BOOLEAN
           /\ (hook'[h].enabled => hook'[h].exists) /\ (hook'[h].exists => hook'[h].used)
           /\ hook[h].used => hook'[h].used
           /\ hook[h].used /\ hook'[h].exists => hook[h].exists

\* An audit row with no other change than such a one keeps the invariant: its
\* event is new, and a delivery is only lost with its webhook.
LEMMA AuditKeeps ==
    ASSUME WebhooksInvariant, NEW k \in EventTypes, create_audit_log(k), HooksKept,
           deliveries' \subseteq deliveries, \A d \in deliveries \ deliveries' : ~ hook'[d.hook].exists,
           UNCHANGED <<deliverJobs, served, phase>>
    PROVE  WebhooksInvariant'
<1>1. typeOf' = Append(typeOf, k) /\ channel' = Append(channel, Len(typeOf) + 1)
  BY DEF create_audit_log
<1>2. typeOf \in Seq(EventTypes) /\ channel \in Seq(Nat) /\ Len(typeOf) \in Nat /\ Len(channel) \in Nat
  BY DEF WebhooksInvariant, WebhooksTypeOK
<1>3. /\ typeOf' \in Seq(EventTypes) /\ channel' \in Seq(Nat)
  BY <1>1, <1>2
<1>4. /\ deliverJobs \subseteq DeliverJobs /\ deliveries \subseteq Deliveries
      /\ \A j \in deliverJobs : j.all \in Seq(HookIds) /\ j.event \in Nat /\ \A i \in 1..Len(j.all) : j.all[i] \in HookIds
      /\ \A d \in deliveries : d.event \in Nat
      /\ \A s \in served : s.hooks \in Seq(HookIds) /\ \A i \in 1..Len(s.hooks) : s.hooks[i] \in HookIds
  BY DEF WebhooksInvariant, WebhooksTypeOK, DeliverJobs, Deliveries
<1>5. WebhooksTypeOK'
  BY <1>3 DEF WebhooksInvariant, WebhooksTypeOK, HooksKept
<1>6. IdsAreSpent'
  BY <1>4 DEF WebhooksInvariant, IdsAreSpent, HooksKept
<1>7. EventsTakenOnce'
  <2> DEFINE n == Len(channel)
             t == Len(typeOf)
  <2>1. /\ n \in Nat /\ t \in Nat /\ Len(channel') = n + 1 /\ Len(typeOf') = t + 1
        /\ \A i \in 1..(n + 1) : i \in 1..n \/ i = n + 1
        /\ \A i \in 1..n : channel'[i] = channel[i] /\ channel[i] \in Nat /\ channel[i] <= t
        /\ channel'[n + 1] = t + 1
    BY <1>1, <1>2 DEF WebhooksInvariant, EventsTakenOnce
  <2>2. /\ \A i, m \in 1..n : channel[i] = channel[m] => i = m
        /\ \A j \in deliverJobs : j.event \in Nat /\ j.event <= t /\ \A i \in 1..n : channel[i] # j.event
        /\ \A d \in deliveries : d.event \in Nat /\ d.event <= t /\ \A i \in 1..n : channel[i] # d.event
    BY <1>4 DEF WebhooksInvariant, EventsTakenOnce
  <2> HIDE DEF n, t
  <2>3. \A i \in 1..(n + 1) : channel'[i] <= t + 1
    BY <2>1
  <2>4. \A i, m \in 1..(n + 1) : channel'[i] = channel'[m] => i = m
    BY <2>1, <2>2
  <2>5. \A j \in deliverJobs : j.event <= t + 1 /\ \A i \in 1..(n + 1) : channel'[i] # j.event
    BY <2>1, <2>2
  <2>6. \A d \in deliveries' : d.event <= t + 1 /\ \A i \in 1..(n + 1) : channel'[i] # d.event
    BY <2>1, <2>2
  <2> QED  BY <2>1, <2>3, <2>4, <2>5, <2>6 DEF WebhooksInvariant, EventsTakenOnce
<1>8. \A h \in HookIds : hook[h].used /\ hook'[h].exists
          => hook[h].exists /\ \A d \in deliveries : d.hook = h => d \in deliveries'
  BY DEF HooksKept
<1>9. JobsInTurn'
  <2> SUFFICES ASSUME NEW j \in deliverJobs PROVE GoesThrough(j) /\ Tried(j)' /\ IsAhead(j)'
    BY DEF JobsInTurn, GoesThrough
  <2>1. GoesThrough(j) /\ Tried(j) /\ IsAhead(j) /\ \A i \in 1..Len(j.all) : hook[j.all[i]].used
    BY DEF WebhooksInvariant, JobsInTurn, IdsAreSpent
  <2>2. Tried(j)'
    <3> SUFFICES ASSUME NEW i \in 1..(Len(j.all) - Len(j.left)), hook'[j.all[i]].exists
                 PROVE  \E d \in deliveries' : d.hook = j.all[i] /\ d.event = j.event
      BY DEF Tried
    <3>1. i \in 1..Len(j.all) /\ j.all[i] \in HookIds
      <4>1. j \in DeliverJobs /\ Len(j.left) \in Nat /\ Len(j.all) \in Nat
        BY <1>4 DEF DeliverJobs
      <4>2. i \in 1..Len(j.all)
        BY <4>1
      <4> QED  BY <1>4, <4>2
    <3>2. hook[j.all[i]].exists /\ \A d \in deliveries : d.hook = j.all[i] => d \in deliveries'
      BY <1>8, <2>1, <3>1
    <3> QED  BY <2>1, <3>2 DEF Tried
  <2>3. IsAhead(j)'
    BY <2>1 DEF IsAhead
  <2> QED  BY <2>1, <2>2, <2>3
<1>10. OthersStillServed'
  <2> SUFFICES ASSUME NEW s \in served, NEW i \in DOMAIN s.hooks, hook'[s.hooks[i]].exists
               PROVE  \E d \in deliveries' : d.hook = s.hooks[i] /\ d.event = s.event
    BY DEF OthersStillServed
  <2>1. i \in 1..Len(s.hooks) /\ s.hooks[i] \in HookIds
    BY <1>4
  <2>2. hook[s.hooks[i]].used
    BY <2>1 DEF WebhooksInvariant, IdsAreSpent
  <2>3. hook[s.hooks[i]].exists /\ \A d \in deliveries : d.hook = s.hooks[i] => d \in deliveries'
    BY <1>8, <2>1, <2>2
  <2> QED  BY <2>3 DEF WebhooksInvariant, DeliveriesAreKept, OthersStillServed
<1>11. DeliveredOnce' /\ DrainedMeansDone'
  BY DEF WebhooksInvariant, DeliveriesAreKept, DeliveredOnce, DrainedMeansDone
<1> QED  BY <1>5, <1>6, <1>7, <1>9, <1>10, <1>11 DEF WebhooksInvariant, DeliveriesAreKept

\* A row stored for a webhook, by whoever creates or edits it, leaves the
\* webhooks as the audit step wants them (StoreWebhook).
LEMMA StoringKeeps ==
    ASSUME WebhooksInvariant, NEW h \in HookIds, NEW row, hook' = [hook EXCEPT ![h] = row],
           row.exists = TRUE, row.used = TRUE, row.enabled \in BOOLEAN, hook[h].exists \/ ~ hook[h].used
    PROVE  HooksKept
BY DEF WebhooksInvariant, WebhooksTypeOK, IdsAreSpent, HooksKept

\* Every step keeps the invariant.
LEMMA WebhooksStep ==
    ASSUME WebhooksInvariant, [WebhooksNext]_webhookVars
    PROVE  WebhooksInvariant'
<1>0. ASSUME UNCHANGED <<hook, header, channel, typeOf, deliverJobs, deliveries, served>>,
             phase' = "drained" => deliverJobs = {}
      PROVE  WebhooksInvariant'
  <2>1. WebhooksTypeOK' /\ IdsAreSpent' /\ EventsTakenOnce'
    BY <1>0 DEF WebhooksInvariant, WebhooksTypeOK, IdsAreSpent, EventsTakenOnce
  <2>2. JobsInTurn'
    <3>1. ASSUME NEW j \in deliverJobs PROVE GoesThrough(j) /\ Tried(j)' /\ IsAhead(j)'
      <4>1. GoesThrough(j) /\ Tried(j) /\ IsAhead(j)
        BY DEF WebhooksInvariant, JobsInTurn
      <4> QED  BY <1>0, <4>1 DEF Tried, IsAhead
    <3> QED  BY <1>0, <3>1 DEF JobsInTurn, GoesThrough
  <2>3. DeliveriesAreKept'
    BY <1>0 DEF WebhooksInvariant, DeliveriesAreKept, OthersStillServed, DeliveredOnce, DrainedMeansDone
  <2> QED  BY <2>1, <2>2, <2>3 DEF WebhooksInvariant
<1>1. CASE UNCHANGED webhookVars
  BY <1>0, <1>1 DEF webhookVars, WebhooksInvariant, DeliveriesAreKept, DrainedMeansDone
<1>2. UNCHANGED hook => HooksKept
  BY DEF WebhooksInvariant, WebhooksTypeOK, IdsAreSpent, HooksKept
<1>3. ASSUME NEW k \in EventTypes, create_audit_log(k), UNCHANGED <<hook, header, deliverJobs, deliveries, served, phase>>
      PROVE  WebhooksInvariant'
  BY <1>2, <1>3, AuditKeeps
<1>4. ASSUME audit, HooksKept, deliveries' \subseteq deliveries,
             \A d \in deliveries \ deliveries' : ~ hook'[d.hook].exists
      PROVE  WebhooksInvariant'
  BY <1>4, AuditKeeps, WebhooksAssumption DEF audit
<1>5. ASSUME NEW x \in HeaderIds, create_auth_header(x) \/ update_auth_header(x) \/ delete_auth_header(x)
      PROVE  WebhooksInvariant'
  BY <1>2, <1>4, <1>5 DEF create_auth_header, update_auth_header, delete_auth_header
<1>6. ASSUME NEW h \in HookIds, delete_webhook(h) PROVE WebhooksInvariant'
  <2> DEFINE row == [NoHook EXCEPT !.used = TRUE]
  <2>1. row.exists = FALSE /\ row.used = TRUE /\ row.enabled = FALSE
    BY DEF NoHook
  <2>2. /\ audit /\ hook' = [hook EXCEPT ![h] = row] /\ deliveries' = {d \in deliveries : d.hook # h}
    BY <1>6 DEF delete_webhook
  <2> HIDE DEF row
  <2>3. HooksKept
    BY <2>1, <2>2 DEF WebhooksInvariant, WebhooksTypeOK, IdsAreSpent, HooksKept
  <2>4. \A d \in deliveries \ deliveries' : ~ hook'[d.hook].exists
    BY <2>1, <2>2 DEF WebhooksInvariant, WebhooksTypeOK
  <2> QED  BY <1>4, <2>2, <2>3, <2>4
<1>7. ASSUME NEW h \in HookIds, NEW w \in Subscriptions, create_webhook(h, w.types, w.classes, header)
      PROVE  WebhooksInvariant'
  <2> DEFINE row == replace_webhook_class_subscriptions(
                        [exists |-> TRUE, used |-> TRUE, enabled |-> TRUE, types |-> w.types, classes |-> {},
                         headers |-> header], w.classes)
  <2>1. row.exists = TRUE /\ row.used = TRUE /\ row.enabled = TRUE
    BY DEF replace_webhook_class_subscriptions
  <2>2. audit /\ hook' = [hook EXCEPT ![h] = row] /\ ~ hook[h].used /\ UNCHANGED deliveries
    BY <1>7 DEF create_webhook, StoreWebhook
  <2> HIDE DEF row
  <2>3. HooksKept
    BY <2>1, <2>2, StoringKeeps
  <2> QED  BY <1>4, <2>2, <2>3
<1>8. ASSUME NEW h \in HookIds, NEW w \in Subscriptions, NEW on \in BOOLEAN,
             update_webhook(h, on, w.types, w.classes)
      PROVE  WebhooksInvariant'
  <2> DEFINE row == replace_webhook_class_subscriptions([hook[h] EXCEPT !.enabled = on, !.types = w.types], w.classes)
  <2>1. audit /\ hook' = [hook EXCEPT ![h] = row] /\ hook[h].exists /\ UNCHANGED deliveries
    BY <1>8 DEF update_webhook, StoreWebhook
  <2>2. row.exists = TRUE /\ row.used = TRUE /\ row.enabled = on
    BY <2>1 DEF replace_webhook_class_subscriptions, WebhooksInvariant, WebhooksTypeOK, IdsAreSpent
  <2> HIDE DEF row
  <2>3. HooksKept
    BY <2>1, <2>2, StoringKeeps
  <2> QED  BY <1>4, <2>1, <2>3
<1>9. CASE ConsumerSpawns
  BY <1>9, SpawnKeeps
<1>10. ASSUME NEW j \in deliverJobs, handle_event(j) PROVE WebhooksInvariant'
  BY <1>10, LoadingKeeps
<1>11. ASSUME NEW j \in deliverJobs, DeliveryRefused(j) PROVE WebhooksInvariant'
  <2>1. PICK k : k = NextHook(j)
    OBVIOUS
  <2> QED  BY <1>11, <2>1, AttemptKeeps DEF DeliveryRefused
<1>12. ASSUME NEW j \in deliverJobs, NEW ok \in BOOLEAN, deliver(j, ok) PROVE WebhooksInvariant'
  <2>1. PICK k : k = after_attempt(j, ok)
    OBVIOUS
  <2>2. k = NextHook(j) \/ (k = [j EXCEPT !.attempt = @ + 1] /\ ~ ok)
    BY <2>1 DEF after_attempt
  <2> QED  BY <1>12, <2>1, <2>2, AttemptKeeps DEF deliver
<1>13. CASE shutdown_signal
  BY <1>0, <1>13 DEF shutdown_signal
<1>14. ASSUME NEW by \in {"drained", "deadline"}, finish(by) PROVE WebhooksInvariant'
  BY <1>0, <1>14 DEF finish, tracker_empty
<1> QED  BY <1>1, <1>3, <1>5, <1>6, <1>7, <1>8, <1>9, <1>10, <1>11, <1>12, <1>13, <1>14 DEF WebhooksNext

\* An event that a job took up reaches each webhook it loaded, once, however
\* many jobs run side by side, whichever webhooks fail, are edited or are
\* deleted under them, and a shutdown says that it is done only when they are
\* (handle_event, deliver_with_retries, Shutdown::finish_within).
THEOREM EveryDeliveryKept == WebhooksSpec => []DeliveriesAreKept
<1>1. ASSUME WebhooksInit PROVE WebhooksInvariant
  <2>1. WebhooksTypeOK /\ IdsAreSpent
    <3>1. \A h \in HookIds : hook[h] = NoHook \/ \E w \in Subscriptions : hook[h] = Enabled(w, {})
      BY <1>1 DEF WebhooksInit
    <3>2. ASSUME NEW h \in HookIds
          PROVE  \/ hook[h].exists = FALSE /\ hook[h].used = FALSE /\ hook[h].enabled = FALSE
                 \/ hook[h].exists = TRUE /\ hook[h].used = TRUE /\ hook[h].enabled = TRUE
      <4>1. CASE hook[h] = NoHook
        BY <4>1 DEF NoHook
      <4>2. ASSUME NEW w \in Subscriptions, hook[h] = Enabled(w, {})
            PROVE  hook[h].exists = TRUE /\ hook[h].used = TRUE /\ hook[h].enabled = TRUE
        BY <4>2 DEF Enabled
      <4> QED  BY <3>1, <4>1, <4>2
    <3>3. DOMAIN hook = HookIds
      BY <1>1 DEF WebhooksInit
    <3>4. /\ typeOf \in Seq(EventTypes) /\ channel \in Seq(Nat) /\ deliverJobs \subseteq DeliverJobs
          /\ deliveries \subseteq Deliveries /\ served \subseteq [event : Nat, hooks : Seq(HookIds)]
      BY <1>1 DEF WebhooksInit
    <3>5. IdsAreSpent
      BY <1>1, <3>2 DEF WebhooksInit, IdsAreSpent
    <3> QED  BY <3>2, <3>3, <3>4, <3>5 DEF WebhooksTypeOK
  <2>2. EventsTakenOnce /\ JobsInTurn /\ DeliveriesAreKept
    BY <1>1 DEF WebhooksInit, EventsTakenOnce, JobsInTurn, DeliveriesAreKept, OthersStillServed, DeliveredOnce,
                DrainedMeansDone
  <2> QED  BY <2>1, <2>2 DEF WebhooksInvariant
<1>2. WebhooksInvariant /\ [WebhooksNext]_webhookVars => WebhooksInvariant'
  BY WebhooksStep
<1>3. WebhooksInvariant => DeliveriesAreKept
  BY DEF WebhooksInvariant
<1> QED  BY <1>1, <1>2, <1>3, PTL DEF WebhooksSpec

-----------------------------------------------------------------------------
(* The policy broadcaster *)

Times == Nat \cup {NoTime}
BroadcastTypeOK ==
    /\ binding \subseteq Controllers \X BoundTools
    /\ pending \in [all : BOOLEAN, tools : SUBSET BoundTools, since : Times]
    /\ permit \in BOOLEAN
    /\ runner \in [at : {"top", "read", "waits", "publishes", "last", "ended"}, due : Times,
                   left : SUBSET Controllers]
    /\ asked \in [Controllers -> Times] /\ cancelledAt \in Times /\ broadcastClock \in Nat

\* A change that a device has not been sent is in the Coalescer, noted no later
\* than the device began to wait for it, or in the batch being published.
Remembered == \A d \in Controllers : asked[d] # NoTime =>
    /\ asked[d] <= broadcastClock
    /\ \/ d \in runner.left
       \/ pending.since # NoTime /\ pending.since <= asked[d] /\ d \in devices_for(pending.all, pending.tools)

\* What is in the Coalescer is not yet overdue, and a task that waits, or is
\* about to, has been told of it: by the time it read, or by the stored permit.
WakesInTime == pending.since # NoTime =>
    /\ pending.since <= broadcastClock
    /\ runner.at # "ended" => broadcastClock <= pending.since + Window
    /\ runner.at \in {"read", "waits"} /\ ~ permit => runner.due = pending.since + Window

\* Only a batch has devices left, and from the last batch on the Coalescer
\* holds nothing from before the shutdown.
BatchesAreWhole ==
    /\ runner.left # {} => runner.at \in {"publishes", "last"}
    /\ cancelledAt <= broadcastClock
    /\ runner.at \in {"last", "ended"} =>
           cancelledAt # NoTime /\ (pending.since # NoTime => cancelledAt <= pending.since)

BroadcastInvariant == BroadcastTypeOK /\ Remembered /\ WakesInTime /\ BatchesAreWhole /\ OutWithinTheWindow

-----------------------------------------------------------------------------

\* Noting a change keeps those noted before, and their time, and the devices it
\* concerns are those that the batch will be made of (Coalescer::note).
LEMMA NoteKeeps ==
    ASSUME BroadcastTypeOK, NEW scope \in SUBSET BoundTools
    PROVE  /\ note(scope) \in [all : BOOLEAN, tools : SUBSET BoundTools, since : Nat]
           /\ note(scope).since = (IF pending.since = NoTime THEN broadcastClock ELSE pending.since)
           /\ devices_for(pending.all, pending.tools) \subseteq devices_for(note(scope).all, note(scope).tools)
           /\ Concerned(scope) \subseteq devices_for(note(scope).all, note(scope).tools)
<1>1. note(scope) \in [all : BOOLEAN, tools : SUBSET BoundTools, since : Nat]
  BY DEF BroadcastTypeOK, note, Times, NoTime
<1>2. /\ note(scope).all = (pending.all \/ scope = BoundTools)
      /\ note(scope).tools = pending.tools \cup (IF scope = BoundTools THEN {} ELSE scope)
      /\ note(scope).since = (IF pending.since = NoTime THEN broadcastClock ELSE pending.since)
  BY DEF note
<1>3. /\ devices_for(pending.all, pending.tools) \subseteq devices_for(note(scope).all, note(scope).tools)
      /\ Concerned(scope) \subseteq devices_for(note(scope).all, note(scope).tools)
  BY <1>2 DEF devices_for, Concerned
<1> QED  BY <1>1, <1>2, <1>3

\* A handler that notes a change keeps the invariant wherever the task is
\* (Broadcaster::request): the permit it stores wakes the task if it waits, or
\* makes its next wait end at once.
LEMMA RequestKeeps ==
    ASSUME BroadcastInvariant, NEW scope \in SUBSET BoundTools, request(scope)
    PROVE  BroadcastInvariant'
<1> USE DEF Times, NoTime
<1> DEFINE n == note(scope)
<1>1. /\ n \in [all : BOOLEAN, tools : SUBSET BoundTools, since : Nat]
      /\ n.since = (IF pending.since = NoTime THEN broadcastClock ELSE pending.since)
      /\ devices_for(pending.all, pending.tools) \subseteq devices_for(n.all, n.tools)
      /\ Concerned(scope) \subseteq devices_for(n.all, n.tools)
  BY NoteKeeps DEF BroadcastInvariant
<1>2. /\ pending' = n /\ permit' = TRUE
      /\ asked' = [d \in Controllers |-> IF d \in Concerned(scope) /\ asked[d] = NoTime
                                         THEN broadcastClock ELSE asked[d]]
      /\ UNCHANGED <<binding, runner, cancelledAt, broadcastClock>>
  BY DEF request, notify_one
<1> HIDE DEF n
<1>3. devices_for(pending.all, pending.tools)' = devices_for(n.all, n.tools)
  BY <1>2 DEF devices_for
<1>4. BroadcastTypeOK'
  BY <1>1, <1>2 DEF BroadcastInvariant, BroadcastTypeOK
<1>5. \A d \in Controllers : asked'[d] # NoTime =>
          asked'[d] = asked[d] \/ (asked[d] = NoTime /\ asked'[d] = broadcastClock /\ d \in Concerned(scope))
  BY <1>2
<1>6. Remembered'
  <2> SUFFICES ASSUME NEW d \in Controllers, asked'[d] # NoTime
               PROVE  /\ asked'[d] <= broadcastClock
                      /\ \/ d \in runner.left
                         \/ n.since # NoTime /\ n.since <= asked'[d] /\ d \in devices_for(n.all, n.tools)
    BY <1>2, <1>3 DEF Remembered
  <2> QED  BY <1>1, <1>5 DEF BroadcastInvariant, BroadcastTypeOK, Remembered, WakesInTime
<1>7. WakesInTime'
  BY <1>1, <1>2, BroadcastAssumption DEF BroadcastInvariant, BroadcastTypeOK, WakesInTime
<1>8. BatchesAreWhole'
  BY <1>1, <1>2 DEF BroadcastInvariant, BroadcastTypeOK, BatchesAreWhole, WakesInTime
<1>9. OutWithinTheWindow'
  BY <1>2, <1>5, BroadcastAssumption DEF BroadcastInvariant, BroadcastTypeOK, OutWithinTheWindow
<1> QED  BY <1>4, <1>6, <1>7, <1>8, <1>9 DEF BroadcastInvariant

\* Taking the pending changes for a batch keeps the invariant: every device
\* that waits is in the batch (Coalescer::take_now).
LEMMA TakingKeeps ==
    ASSUME BroadcastInvariant, NEW at \in {"publishes", "last"}, runner.at = "waits",
           at = "last" => cancelledAt # NoTime,
           runner' = [at |-> at, due |-> NoTime, left |-> take_now], pending' = Nothing,
           permit' \in BOOLEAN,
           UNCHANGED <<binding, asked, cancelledAt, broadcastClock>>
    PROVE  BroadcastInvariant'
<1> USE DEF Times, NoTime, Nothing
<1>1. take_now \subseteq Controllers
  BY DEF take_now, devices_for
<1>2. BroadcastTypeOK'
  BY <1>1 DEF BroadcastInvariant, BroadcastTypeOK
<1>3. runner.left = {}
  BY DEF BroadcastInvariant, BatchesAreWhole
<1>4. Remembered'
  BY <1>3 DEF BroadcastInvariant, Remembered, take_now
<1>5. WakesInTime' /\ BatchesAreWhole'
  BY DEF BroadcastInvariant, WakesInTime, BatchesAreWhole
<1>6. OutWithinTheWindow'
  BY DEF BroadcastInvariant, OutWithinTheWindow
<1> QED  BY <1>2, <1>4, <1>5, <1>6 DEF BroadcastInvariant

\* Every step keeps the invariant.
LEMMA BroadcastStep ==
    ASSUME BroadcastInvariant, [BroadcastNext]_broadcastVars
    PROVE  BroadcastInvariant'
<1> USE DEF Times, NoTime
<1>1. CASE UNCHANGED broadcastVars
  BY <1>1 DEF broadcastVars, BroadcastInvariant, BroadcastTypeOK, Remembered, WakesInTime, BatchesAreWhole,
              OutWithinTheWindow, devices_for
<1>2. CASE broadcast_toolguard_state
  BY <1>2, RequestKeeps DEF broadcast_toolguard_state
<1>3. ASSUME NEW t \in BoundTools, broadcast_toolguard_state_for_tool(t) PROVE BroadcastInvariant'
  BY <1>3, RequestKeeps DEF broadcast_toolguard_state_for_tool
<1>4. CASE RunnerReads
  <2>1. BroadcastTypeOK'
    BY <1>4, BroadcastAssumption DEF RunnerReads, due_at, BroadcastInvariant, BroadcastTypeOK
  <2>2. Remembered'
    BY <1>4 DEF RunnerReads, devices_for, BroadcastInvariant, Remembered, BatchesAreWhole
  <2>3. WakesInTime' /\ BatchesAreWhole' /\ OutWithinTheWindow'
    BY <1>4 DEF RunnerReads, due_at, BroadcastInvariant, WakesInTime, BatchesAreWhole, OutWithinTheWindow
  <2> QED  BY <2>1, <2>2, <2>3 DEF BroadcastInvariant
<1>5. CASE RunnerWaits
  <2>1. /\ runner' = [runner EXCEPT !.at = "waits"] /\ runner.at = "read"
        /\ UNCHANGED <<binding, pending, permit, asked, cancelledAt, broadcastClock>>
    BY <1>5 DEF RunnerWaits
  <2> QED  BY <2>1 DEF BroadcastInvariant, BroadcastTypeOK, Remembered, WakesInTime, BatchesAreWhole,
                       OutWithinTheWindow, devices_for
<1>6. ASSUME NEW by \in {"wake", "due"}, Woken(by) PROVE BroadcastInvariant'
  <2>1. CASE take
    BY <1>6, <2>1, TakingKeeps DEF Woken, Taken, BroadcastInvariant, BroadcastTypeOK
  <2>2. CASE ~ take
    <3>1. /\ runner' = [runner EXCEPT !.at = "top"] /\ permit' \in BOOLEAN /\ runner.at = "waits"
          /\ UNCHANGED <<binding, pending, asked, cancelledAt, broadcastClock>>
      BY <1>6, <2>2 DEF Woken, BroadcastInvariant, BroadcastTypeOK
    <3> QED  BY <3>1 DEF BroadcastInvariant, BroadcastTypeOK, Remembered, WakesInTime, BatchesAreWhole,
                         OutWithinTheWindow, devices_for
  <2> QED  BY <2>1, <2>2
<1>7. ASSUME NEW d \in Controllers, publish_to_device(d) PROVE BroadcastInvariant'
  <2>1. /\ d \in runner.left /\ runner' = [runner EXCEPT !.left = @ \ {d}] /\ asked' = [asked EXCEPT ![d] = NoTime]
        /\ UNCHANGED <<binding, pending, permit, cancelledAt, broadcastClock>>
    BY <1>7 DEF publish_to_device
  <2> QED  BY <2>1 DEF BroadcastInvariant, BroadcastTypeOK, Remembered, WakesInTime, BatchesAreWhole,
                       OutWithinTheWindow, devices_for
<1>8. CASE Published
  <2>1. /\ runner.left = {} /\ runner' = [runner EXCEPT !.at = IF @ = "last" THEN "ended" ELSE "top"]
        /\ runner.at \in {"publishes", "last"}
        /\ UNCHANGED <<binding, pending, permit, asked, cancelledAt, broadcastClock>>
    BY <1>8 DEF Published
  <2> QED  BY <2>1 DEF BroadcastInvariant, BroadcastTypeOK, Remembered, WakesInTime, BatchesAreWhole,
                       OutWithinTheWindow, devices_for
<1>9. CASE LastBatch
  BY <1>9, TakingKeeps DEF LastBatch, BroadcastInvariant, BroadcastTypeOK
<1>10. CASE Cancelled
  BY <1>10 DEF Cancelled, BroadcastInvariant, BroadcastTypeOK, Remembered, WakesInTime, BatchesAreWhole,
               OutWithinTheWindow, devices_for
<1>11. CASE BroadcastClockGoes
  <2>1. /\ broadcastClock' = broadcastClock + 1
        /\ \/ runner.at = "ended"
           \/ runner.at = "waits" /\ ~ permit /\ (runner.due = NoTime \/ broadcastClock < runner.due)
        /\ UNCHANGED <<binding, pending, permit, runner, asked, cancelledAt>>
    BY <1>11 DEF BroadcastClockGoes
  <2>2. BroadcastTypeOK' /\ Remembered' /\ BatchesAreWhole'
    BY <2>1 DEF BroadcastInvariant, BroadcastTypeOK, Remembered, BatchesAreWhole, devices_for
  <2>3. WakesInTime'
    BY <2>1, BroadcastAssumption DEF BroadcastInvariant, BroadcastTypeOK, WakesInTime
  <2>4. OutWithinTheWindow'
    <3> SUFFICES ASSUME runner'.at # "ended", NEW d \in Controllers, asked'[d] # NoTime
                 PROVE  broadcastClock' - asked'[d] <= Window
      BY DEF OutWithinTheWindow
    <3>1. pending.since # NoTime /\ pending.since <= asked[d]
      BY <2>1 DEF BroadcastInvariant, Remembered, BatchesAreWhole
    <3>2. broadcastClock + 1 <= pending.since + Window
      BY <2>1, <2>3, <3>1 DEF WakesInTime
    <3> QED  BY <2>1, <3>1, <3>2, BroadcastAssumption DEF BroadcastInvariant, BroadcastTypeOK
  <2> QED  BY <2>2, <2>3, <2>4 DEF BroadcastInvariant
<1> QED  BY <1>1, <1>2, <1>3, <1>4, <1>5, <1>6, <1>7, <1>8, <1>9, <1>10, <1>11 DEF BroadcastNext

\* A change that a handler notes goes out to each device it concerns within a
\* window of being noted, however the handlers, the waits and the batches
\* interleave, and with the last batch when the server is shut down
\* (Broadcaster::run).
THEOREM EveryChangeGoesOut == BroadcastSpec => []ChangesGoOut
<1>1. ASSUME BroadcastInit PROVE BroadcastInvariant
  <2>1. BroadcastTypeOK
    BY <1>1 DEF BroadcastInit, Nothing, NoTime, Times, BroadcastTypeOK
  <2>2. Remembered /\ OutWithinTheWindow
    BY <1>1 DEF BroadcastInit, Remembered, OutWithinTheWindow
  <2>3. WakesInTime /\ BatchesAreWhole
    BY <1>1 DEF BroadcastInit, Nothing, NoTime, WakesInTime, BatchesAreWhole
  <2> QED  BY <2>1, <2>2, <2>3 DEF BroadcastInvariant
<1>2. BroadcastInvariant /\ [BroadcastNext]_broadcastVars => BroadcastInvariant'
  BY BroadcastStep
<1>3. BroadcastInvariant => ChangesGoOut
  <2> SUFFICES ASSUME BroadcastInvariant, runner.at = "ended", NEW d \in Controllers, asked[d] # NoTime
               PROVE  asked[d] >= cancelledAt
    BY DEF BroadcastInvariant, ChangesGoOut, LastBatchGoesOut
  <2> QED  BY DEF BroadcastInvariant, BroadcastTypeOK, Times, NoTime, Remembered, BatchesAreWhole
<1> QED  BY <1>1, <1>2, <1>3, PTL DEF BroadcastSpec

-----------------------------------------------------------------------------
(* Alerts *)

Rows == [type : AlertTypes, at : Nat, about : Nat]
Runs == [started : Nat, finished : Nat, raised : Nat, unseen : Nat, ok : BOOLEAN]
AlertsTyped ==
    /\ rows \in Seq(Rows) /\ beats \in Seq(Runs) /\ alertTime \in Nat
    /\ failures \subseteq Nat /\ IsFiniteSet(failures) /\ failedBeat \in BOOLEAN
    /\ \A b \in beating : /\ b \in [started : Nat, since : Int, raised : SUBSET Nat, unseen : Nat,
                                    step : {"count", "finish", "failed"}]
                          /\ b.raised \subseteq DOMAIN rows /\ \A c \in beating : b = c
    /\ \A a \in acking : a.row \in DOMAIN acks /\ a.row \in Nat
\* Every row and every run has an instant of its own, and they are past.
InstantsDiffer ==
    /\ \A i \in DOMAIN rows : /\ rows[i].at < alertTime
                              /\ beats # <<>> => rows[i].at # beats[Len(beats)].started
                              /\ \A b \in beating : rows[i].at # b.started
    /\ beats # <<>> => beats[Len(beats)].started < alertTime
    /\ \A b \in beating : b.started < alertTime
\* The run under way goes on from the last one on record, and when it has counted
\* it has every row from there to its own beginning.
CountsFromTheLast ==
    \A b \in beating :
        /\ b.since = latest_alert_heartbeat_run
        /\ b.step = "finish" =>
              \A i \in DOMAIN rows : rows[i].type \in counted_types /\ b.since < rows[i].at /\ rows[i].at < b.started
                                        => i \in b.raised
\* An acknowledgement whose row is not yet written is the only one of its alert,
\* and no row names it.
AcksAreApart ==
    /\ \A a, c \in acking : a.row = c.row => a = c
    /\ \A i \in DOMAIN rows : rows[i].type = AckEvent =>
          rows[i].about \in DOMAIN acks /\ \A a \in acking : a.row # rows[i].about
AlertsInvariant ==
    AlertsTyped /\ InstantsDiffer /\ CountsFromTheLast /\ NoAlertMissed /\ AcksAreApart /\ AcknowledgedOnce

\* What a heartbeat counts.
LEMMA CountedTypes ==
    \A k \in AlertTypes : k \in counted_types <=> AlertClass[k].severity >= Notice /\ AlertClass[k].category # "alerts"
BY DEF counted_types, types_for, Categories

\* A row that is written comes last, at the present instant.
LEMMA RowWritten ==
    ASSUME AlertsTyped, NEW k \in AlertTypes, NEW about \in Nat, log_event(k, about)
    PROVE  /\ rows' \in Seq(Rows) /\ DOMAIN rows \subseteq DOMAIN rows'
           /\ \A i \in DOMAIN rows : rows'[i] = rows[i]
           /\ \A i \in DOMAIN rows' \ DOMAIN rows :
                 i = Len(rows) + 1 /\ rows'[i] = [type |-> k, at |-> alertTime, about |-> about]
<1> DEFINE row == [type |-> k, at |-> alertTime, about |-> about]
<1>1. row \in Rows /\ rows \in Seq(Rows) /\ rows' = Append(rows, row)
  BY DEF AlertsTyped, Rows, log_event
<1> HIDE DEF row
<1>2. /\ rows' \in Seq(Rows) /\ Len(rows') = Len(rows) + 1 /\ rows'[Len(rows) + 1] = row
      /\ \A i \in 1..Len(rows) : rows'[i] = rows[i]
  BY <1>1, AppendProperties
<1>3. DOMAIN rows = 1..Len(rows) /\ DOMAIN rows' = 1..Len(rows') /\ Len(rows) \in Nat
  BY <1>1, <1>2, LenProperties
<1> QED  BY <1>2, <1>3 DEF row

\* What the types say of rows and runs.
LEMMA RowsAndRuns ==
    ASSUME AlertsTyped
    PROVE  /\ rows \in Seq(Rows) /\ beats \in Seq(Runs) /\ alertTime \in Nat
           /\ \A i \in DOMAIN rows : /\ rows[i] \in Rows /\ rows[i].at \in Nat
                                     /\ rows[i].type \in AlertTypes /\ rows[i].about \in Nat
           /\ IsFiniteSet(DOMAIN rows) /\ DOMAIN rows = 1..Len(rows) /\ DOMAIN rows \subseteq Nat
           /\ beats # <<>> => beats[Len(beats)] \in Runs /\ beats[Len(beats)].started \in Nat
<1>1. rows \in Seq(Rows) /\ beats \in Seq(Runs) /\ alertTime \in Nat
  BY DEF AlertsTyped
<1>2. DOMAIN rows = 1..Len(rows) /\ Len(rows) \in Nat
  BY <1>1, LenProperties
<1>3. IsFiniteSet(1..Len(rows))
  BY <1>2, FS_Interval
<1>4. \A i \in DOMAIN rows : rows[i] \in Rows
  BY <1>1, <1>2, ElementOfSeq
<1>5. ASSUME beats # <<>> PROVE beats[Len(beats)] \in Runs
  <2>1. Len(beats) \in 1..Len(beats)
    BY <1>1, <1>5, EmptySeq
  <2> QED  BY <1>1, <2>1, ElementOfSeq
<1>6. \A x \in Runs : x.started \in Nat
  BY DEF Runs
<1> HIDE DEF Runs
<1> QED  BY <1>1, <1>2, <1>3, <1>4, <1>5, <1>6 DEF Rows

\* A row that is written now is past no run.
LEMMA RowKeepsDates ==
    ASSUME AlertsInvariant, NEW k \in AlertTypes, NEW about \in Nat, log_event(k, about), TimeGoes,
           UNCHANGED <<beats, beating>>
    PROVE  InstantsDiffer' /\ CountsFromTheLast'
<1>1. /\ rows' \in Seq(Rows) /\ DOMAIN rows \subseteq DOMAIN rows'
      /\ \A i \in DOMAIN rows : rows'[i] = rows[i]
      /\ \A i \in DOMAIN rows' : i \notin DOMAIN rows => rows'[i].at = alertTime
  BY RowWritten DEF AlertsInvariant
<1>2. alertTime \in Nat /\ alertTime' = alertTime + 1 /\ \A i \in DOMAIN rows : rows[i].at \in Nat /\ rows[i].at < alertTime
  BY RowsAndRuns DEF AlertsInvariant, InstantsDiffer, TimeGoes
<1>3. beats # <<>> => beats[Len(beats)].started \in Nat /\ beats[Len(beats)].started < alertTime
  BY RowsAndRuns DEF AlertsInvariant, InstantsDiffer
<1>4. \A b \in beating : b.started \in Nat /\ b.started < alertTime
  BY DEF AlertsInvariant, AlertsTyped, InstantsDiffer
<1>5. \A i \in DOMAIN rows' : rows'[i].at \in Nat /\ rows'[i].at < alertTime'
  BY <1>1, <1>2
<1>6. \A i \in DOMAIN rows' : beats # <<>> => rows'[i].at # beats[Len(beats)].started
  BY <1>1, <1>2, <1>3 DEF AlertsInvariant, InstantsDiffer
<1>7. \A i \in DOMAIN rows', b \in beating : rows'[i].at # b.started
  BY <1>1, <1>2, <1>4 DEF AlertsInvariant, InstantsDiffer
<1>8. InstantsDiffer'
  BY <1>2, <1>3, <1>4, <1>5, <1>6, <1>7 DEF InstantsDiffer
<1>9. counted_types' = counted_types /\ latest_alert_heartbeat_run' = latest_alert_heartbeat_run
  BY DEF counted_types, types_for, Categories, latest_alert_heartbeat_run
<1>10. \A i \in DOMAIN rows', b \in beating : rows'[i].at < b.started => i \in DOMAIN rows /\ rows'[i] = rows[i]
  BY <1>1, <1>2, <1>4
<1>11. CountsFromTheLast'
  BY <1>9, <1>10 DEF AlertsInvariant, CountsFromTheLast
<1> QED  BY <1>8, <1>11

\* Writing a row that is no acknowledgement, with all else as it was.
LEMMA RowKeeps ==
    ASSUME AlertsInvariant, NEW k \in AlertTypes, k # AckEvent, NEW about \in Nat, log_event(k, about), TimeGoes,
           UNCHANGED <<acks, acking, failures>>
    PROVE  /\ \A i \in DOMAIN rows' : rows'[i].at < alertTime' /\ (i \notin DOMAIN rows => rows'[i].at = alertTime)
           /\ AcksAreApart' /\ AcknowledgedOnce'
<1>1. /\ rows' \in Seq(Rows) /\ DOMAIN rows \subseteq DOMAIN rows'
      /\ \A i \in DOMAIN rows : rows'[i] = rows[i]
      /\ \A i \in DOMAIN rows' \ DOMAIN rows : rows'[i].type = k /\ rows'[i].at = alertTime
  BY RowWritten DEF AlertsInvariant
<1>2. alertTime \in Nat /\ alertTime' = alertTime + 1 /\ \A i \in DOMAIN rows : rows[i].at \in Nat /\ rows[i].at < alertTime
  BY RowsAndRuns DEF AlertsInvariant, InstantsDiffer, TimeGoes
<1>3. AcksAreApart'
  BY <1>1 DEF AlertsInvariant, AcksAreApart
<1>4. AcknowledgedOnce'
  BY <1>1 DEF AlertsInvariant, AcknowledgedOnce
<1> QED  BY <1>1, <1>2, <1>3, <1>4

\* Every step keeps the invariant.
LEMMA AlertsStep == ASSUME AlertsInvariant, AlertsNext PROVE AlertsInvariant'
<1> DEFINE last == beats[Len(beats)]
<1>1. /\ rows \in Seq(Rows) /\ beats \in Seq(Runs) /\ alertTime \in Nat
      /\ \A i \in DOMAIN rows : rows[i] \in Rows /\ rows[i].at \in Nat /\ rows[i].type \in AlertTypes /\ rows[i].about \in Nat
      /\ IsFiniteSet(DOMAIN rows) /\ DOMAIN rows = 1..Len(rows) /\ DOMAIN rows \subseteq Nat
  BY RowsAndRuns DEF AlertsInvariant
<1>2. beats # <<>> => last \in Runs /\ last.started \in Nat
  BY RowsAndRuns DEF AlertsInvariant
<1>3. ASSUME NEW k \in AlertTypes \ {AckEvent, BeatEvent}, AlertRaised(k) PROVE AlertsInvariant'
  <2>1. /\ log_event(k, 0) /\ TimeGoes /\ alertTime' = alertTime + 1
        /\ UNCHANGED <<failures, acks, acking, beats, beating, counted, failedBeat>>
    BY <1>3 DEF AlertRaised, TimeGoes
  <2>2. /\ rows' \in Seq(Rows) /\ DOMAIN rows \subseteq DOMAIN rows'
        /\ \A i \in DOMAIN rows : rows'[i] = rows[i]
        /\ \A i \in DOMAIN rows' \ DOMAIN rows : rows'[i].type = k /\ rows'[i].at = alertTime
    BY <2>1, RowWritten DEF AlertsInvariant
  <2>3. AcksAreApart' /\ AcknowledgedOnce' /\ \A i \in DOMAIN rows' : rows'[i].at < alertTime'
    BY <2>1, RowKeeps
  <2>4. AlertsTyped'
    BY <1>1, <2>1, <2>2 DEF AlertsInvariant, AlertsTyped
  <2>5. InstantsDiffer' /\ CountsFromTheLast'
    BY <2>1, RowKeepsDates
  <2>7. NoAlertMissed'
    BY <1>1, <1>2, <2>1, <2>2 DEF AlertsInvariant, InstantsDiffer, NoAlertMissed
  <2> QED  BY <2>3, <2>4, <2>5, <2>7 DEF AlertsInvariant
<1>4. ASSUME TimeGoes, UNCHANGED <<rows, beats, counted, failedBeat>>,
             failures' \subseteq Nat, IsFiniteSet(failures'),
             \A b \in beating' : b.started < alertTime' /\ \A i \in DOMAIN rows : rows[i].at # b.started,
             AlertsTyped', CountsFromTheLast', AcksAreApart'
      PROVE  AlertsInvariant'
  <2>1. alertTime' = alertTime + 1
    BY <1>4 DEF TimeGoes
  <2>2. InstantsDiffer'
    BY <1>1, <1>2, <1>4, <2>1 DEF AlertsInvariant, InstantsDiffer
  <2>3. NoAlertMissed' /\ AcknowledgedOnce'
    BY <1>4 DEF AlertsInvariant, NoAlertMissed, AcknowledgedOnce
  <2> QED  BY <1>4, <2>2, <2>3 DEF AlertsInvariant
<1>5. /\ failures \subseteq Nat /\ IsFiniteSet(failures) /\ failedBeat \in BOOLEAN
      /\ \A b \in beating : /\ b.started < alertTime + 1 /\ (\A i \in DOMAIN rows : rows[i].at # b.started)
                            /\ b.started \in Nat /\ b.since \in Int
  BY <1>1 DEF AlertsInvariant, AlertsTyped, InstantsDiffer
<1>6. CASE DeliveryFails
  <2>1. /\ TimeGoes /\ alertTime' = alertTime + 1 /\ failures' = failures \cup {alertTime}
        /\ UNCHANGED <<rows, acks, acking, beats, beating, counted, failedBeat>>
    BY <1>6 DEF DeliveryFails, TimeGoes
  <2>2. failures' \subseteq Nat /\ IsFiniteSet(failures')
    BY <1>1, <1>5, <2>1, FS_AddElement
  <2>3. AlertsTyped'
    BY <1>1, <2>1, <2>2 DEF AlertsInvariant, AlertsTyped
  <2>4. CountsFromTheLast' /\ AcksAreApart'
    BY <2>1 DEF AlertsInvariant, CountsFromTheLast, latest_alert_heartbeat_run, AcksAreApart,
                counted_types, types_for, Categories
  <2> QED  BY <1>4, <1>5, <2>1, <2>2, <2>3, <2>4
<1>7. ASSUME NEW i \in DOMAIN rows, NEW u \in Watchers, acknowledge(i, u) PROVE AlertsInvariant'
  <2>1. /\ TimeGoes /\ alertTime' = alertTime + 1 /\ acknowledge_alert(i, u)
        /\ UNCHANGED <<rows, failures, beats, beating, counted, failedBeat>>
    BY <1>7 DEF acknowledge, TimeGoes
  <2>2. CountsFromTheLast'
    BY <2>1 DEF AlertsInvariant, CountsFromTheLast, latest_alert_heartbeat_run, counted_types, types_for, Categories
  <2>3. AlertsTyped' /\ AcksAreApart'
    <3>1. CASE i \in DOMAIN acks
      BY <1>1, <2>1, <3>1 DEF acknowledge_alert, AlertsInvariant, AlertsTyped, AcksAreApart
    <3>2. CASE i \notin DOMAIN acks
      <4>1. DOMAIN acks' = DOMAIN acks \cup {i} /\ acking' = acking \cup {[row |-> i, by |-> u]}
        BY <2>1, <3>2 DEF acknowledge_alert
      <4>2. AlertsTyped'
        BY <1>1, <2>1, <4>1 DEF AlertsInvariant, AlertsTyped
      <4>3. \A a \in acking : a.row # i
        BY <3>2 DEF AlertsInvariant, AlertsTyped
      <4>4. \A j \in DOMAIN rows : rows[j].type = AckEvent => rows[j].about # i
        BY <3>2 DEF AlertsInvariant, AcksAreApart
      <4>5. AcksAreApart'
        BY <2>1, <4>1, <4>3, <4>4 DEF AlertsInvariant, AcksAreApart
      <4> QED  BY <4>2, <4>5
    <3> QED  BY <3>1, <3>2
  <2> QED  BY <1>4, <1>5, <2>1, <2>2, <2>3
<1>8. ASSUME NEW a \in acking, AckLogged(a) PROVE AlertsInvariant'
  <2>1. /\ log_event(AckEvent, a.row) /\ TimeGoes /\ alertTime' = alertTime + 1 /\ acking' = acking \ {a}
        /\ UNCHANGED <<failures, acks, beats, beating, counted, failedBeat>>
    BY <1>8 DEF AckLogged, TimeGoes
  <2>2. a.row \in Nat /\ a.row \in DOMAIN acks /\ AckEvent \in AlertTypes
    BY AlertsAssumption DEF AlertsInvariant, AlertsTyped
  <2>3. /\ rows' \in Seq(Rows) /\ DOMAIN rows \subseteq DOMAIN rows'
        /\ \A i \in DOMAIN rows : rows'[i] = rows[i]
        /\ \A i \in DOMAIN rows' \ DOMAIN rows : i = Len(rows) + 1 /\ rows'[i].type = AckEvent /\ rows'[i].at = alertTime
                                                 /\ rows'[i].about = a.row
    BY <2>1, <2>2, RowWritten DEF AlertsInvariant
  <2>4. AlertsTyped'
    BY <1>1, <2>1, <2>3 DEF AlertsInvariant, AlertsTyped
  <2>5. InstantsDiffer' /\ CountsFromTheLast'
    BY <2>1, <2>2, RowKeepsDates
  <2>7. NoAlertMissed'
    BY <1>1, <1>2, <2>1, <2>3 DEF AlertsInvariant, InstantsDiffer, NoAlertMissed
  <2>8. \A i \in DOMAIN rows : rows[i].type = AckEvent => rows[i].about # a.row
    BY <1>8 DEF AlertsInvariant, AcksAreApart
  <2>9. AcksAreApart'
    BY <1>8, <2>1, <2>2, <2>3 DEF AlertsInvariant, AcksAreApart
  <2>10. AcknowledgedOnce'
    BY <2>3, <2>8 DEF AlertsInvariant, AcknowledgedOnce
  <2> QED  BY <2>4, <2>5, <2>7, <2>9, <2>10 DEF AlertsInvariant
<1>9. CASE run
  <2> DEFINE new == [started |-> alertTime, since |-> latest_alert_heartbeat_run, raised |-> {}, unseen |-> 0, step |-> "count"]
  <2>1. /\ TimeGoes /\ alertTime' = alertTime + 1 /\ beating' = {new}
        /\ UNCHANGED <<rows, failures, acks, acking, beats, counted, failedBeat>>
    BY <1>9 DEF run, TimeGoes
  <2>2. latest_alert_heartbeat_run \in Int
    BY <1>2 DEF latest_alert_heartbeat_run, Never
  <2>3. /\ new \in [started : Nat, since : Int, raised : SUBSET Nat, unseen : Nat, step : {"count", "finish", "failed"}]
        /\ new.raised = {} /\ new.started = alertTime /\ new.since = latest_alert_heartbeat_run /\ new.step = "count"
    BY <1>1, <2>2
  <2> HIDE DEF new
  <2>4. AlertsTyped' /\ AcksAreApart'
    BY <1>1, <2>1, <2>3 DEF AlertsInvariant, AlertsTyped, AcksAreApart
  <2>5. latest_alert_heartbeat_run' = latest_alert_heartbeat_run
    BY <2>1 DEF latest_alert_heartbeat_run
  <2>6. CountsFromTheLast'
    BY <2>1, <2>3, <2>5 DEF CountsFromTheLast
  <2>7. \A b \in beating' : b.started < alertTime' /\ \A i \in DOMAIN rows : rows[i].at # b.started
    BY <1>1, <2>1, <2>3 DEF AlertsInvariant, InstantsDiffer
  <2> QED  BY <1>4, <1>5, <2>1, <2>4, <2>6, <2>7
<1>10. ASSUME NEW b \in beating, RunCounts(b) \/ RunFails(b) PROVE AlertsInvariant'
  <2>1. /\ TimeGoes /\ alertTime' = alertTime + 1 /\ UNCHANGED <<rows, failures, acks, acking, beats, counted, failedBeat>>
        /\ latest_alert_heartbeat_run' = latest_alert_heartbeat_run
    BY <1>10 DEF RunCounts, RunFails, TimeGoes, latest_alert_heartbeat_run
  <2>2. /\ b \in [started : Nat, since : Int, raised : SUBSET Nat, unseen : Nat, step : {"count", "finish", "failed"}]
        /\ b.raised \subseteq DOMAIN rows /\ b.since = latest_alert_heartbeat_run
    BY DEF AlertsInvariant, AlertsTyped, CountsFromTheLast
  <2>3. PICK c : /\ beating' = {c}
                 /\ c \in [started : Nat, since : Int, raised : SUBSET Nat, unseen : Nat, step : {"count", "finish", "failed"}]
                 /\ c.started = b.started /\ c.since = b.since /\ c.raised \subseteq DOMAIN rows
                 /\ c.step = "finish" => c.raised = count_audit_rows_since(counted_types, b.since)
    <3>1. CASE RunFails(b)
      <4> DEFINE c == [b EXCEPT !.step = "failed"]
      <4>1. beating' = {c}
        BY <3>1 DEF RunFails
      <4>2. /\ c \in [started : Nat, since : Int, raised : SUBSET Nat, unseen : Nat, step : {"count", "finish", "failed"}]
            /\ c.started = b.started /\ c.since = b.since /\ c.raised = b.raised /\ c.step = "failed"
        BY <2>2
      <4> HIDE DEF c
      <4> QED  BY <2>2, <4>1, <4>2
    <3>2. CASE RunCounts(b)
      <4> DEFINE seen == count_audit_rows_since(counted_types, b.since)
                 left == unacknowledged_alert_counts(counted_types) + count_failed_webhook_deliveries_since(b.since)
                 c == [b EXCEPT !.raised = seen, !.step = "finish", !.unseen = left]
      <4>1. beating' = {c}
        BY <3>2 DEF RunCounts
      <4>2. seen \subseteq DOMAIN rows
        BY DEF count_audit_rows_since
      <4>3. left \in Nat
        <5>1. list_alerts(counted_types, FALSE) \in SUBSET (DOMAIN rows)
          BY DEF list_alerts
        <5>2. {f \in failures : f > b.since} \in SUBSET failures
          OBVIOUS
        <5>3. unacknowledged_alert_counts(counted_types) \in Nat
          BY <1>1, <5>1, FS_Subset, FS_CardinalityType DEF unacknowledged_alert_counts
        <5>4. count_failed_webhook_deliveries_since(b.since) \in Nat
          BY <1>5, <5>2, FS_Subset, FS_CardinalityType DEF count_failed_webhook_deliveries_since
        <5> QED  BY <5>3, <5>4
      <4> HIDE DEF seen, left
      <4>4. /\ c \in [started : Nat, since : Int, raised : SUBSET Nat, unseen : Nat, step : {"count", "finish", "failed"}]
            /\ c.started = b.started /\ c.since = b.since /\ c.raised = seen /\ c.step = "finish"
        BY <1>1, <2>2, <4>2, <4>3
      <4> HIDE DEF c
      <4> QED  BY <4>1, <4>2, <4>4 DEF seen
    <3> QED  BY <1>10, <3>1, <3>2
  <2>4. AlertsTyped' /\ AcksAreApart'
    BY <1>1, <2>1, <2>3 DEF AlertsInvariant, AlertsTyped, AcksAreApart
  <2>5. CountsFromTheLast'
    <3>1. c.step = "finish" => \A i \in DOMAIN rows : rows[i].type \in counted_types /\ b.since < rows[i].at => i \in c.raised
      BY <1>1, <1>5, <2>3 DEF count_audit_rows_since
    <3>2. counted_types' = counted_types
      BY DEF counted_types, types_for, Categories
    <3> QED  BY <2>1, <2>2, <2>3, <3>1, <3>2 DEF CountsFromTheLast
  <2>6. \A x \in beating' : x.started < alertTime' /\ \A i \in DOMAIN rows : rows[i].at # x.started
    BY <1>5, <2>1, <2>3
  <2> QED  BY <1>4, <1>5, <2>1, <2>4, <2>5, <2>6
<1>11. ASSUME NEW b \in beating, finish_beat(b) PROVE AlertsInvariant'
  <2>1. /\ TimeGoes /\ alertTime' = alertTime + 1 /\ b.step \in {"finish", "failed"} /\ beating' = {}
        /\ log_event(BeatEvent, 0) /\ record_alert_heartbeat_run(b) /\ UNCHANGED <<failures, acks, acking>>
        /\ counted' = IF b.step = "finish" THEN counted \cup b.raised ELSE counted
    BY <1>11 DEF finish_beat, TimeGoes
  <2>2. failedBeat' = (failedBeat \/ b.step = "failed")
    BY <1>11 DEF finish_beat
  <2>3. BeatEvent \in AlertTypes /\ BeatEvent # AckEvent
    BY AlertsAssumption
  <2>4. /\ rows' \in Seq(Rows) /\ DOMAIN rows \subseteq DOMAIN rows'
        /\ \A i \in DOMAIN rows : rows'[i] = rows[i]
        /\ \A i \in DOMAIN rows' \ DOMAIN rows : rows'[i].at = alertTime
    BY <2>1, <2>3, RowWritten DEF AlertsInvariant
  <2>5. AcksAreApart' /\ AcknowledgedOnce' /\ \A i \in DOMAIN rows' : rows'[i].at < alertTime'
    BY <2>1, <2>3, RowKeeps
  <2>6. /\ b.started \in Nat /\ b.since \in Int /\ b.unseen \in Nat /\ b.raised \in SUBSET (DOMAIN rows)
        /\ b.started < alertTime /\ b.since = latest_alert_heartbeat_run
    BY DEF AlertsInvariant, AlertsTyped, InstantsDiffer, CountsFromTheLast
  <2>7. beats' \in Seq(Runs) /\ beats' # <<>> /\ beats'[Len(beats')].started = b.started
    <3> DEFINE rec == [started |-> b.started, finished |-> alertTime, raised |-> Cardinality(b.raised), unseen |-> b.unseen,
                       ok |-> b.step = "finish"]
    <3>1. Cardinality(b.raised) \in Nat
      BY <1>1, <2>6, FS_Subset, FS_CardinalityType
    <3>2. rec \in Runs /\ rec.started = b.started
      BY <1>1, <2>6, <3>1 DEF Runs
    <3>3. beats' = Append(beats, rec)
      BY <2>1 DEF record_alert_heartbeat_run
    <3> HIDE DEF rec
    <3>4. beats' \in Seq(Runs) /\ Len(beats') = Len(beats) + 1 /\ beats'[Len(beats) + 1] = rec /\ beats' # <<>>
      BY <1>1, <3>2, <3>3, AppendProperties
    <3> QED  BY <3>2, <3>4
  <2>8. failedBeat' \in BOOLEAN
    BY <2>2
  <2>9. AlertsTyped'
    BY <1>1, <2>1, <2>4, <2>7, <2>8 DEF AlertsInvariant, AlertsTyped
  <2>10. InstantsDiffer'
    <3>1. \A i \in DOMAIN rows' : rows'[i].at # b.started
      BY <1>1, <1>5, <2>4, <2>6
    <3>2. b.started < alertTime'
      BY <1>1, <2>1, <2>6
    <3> QED  BY <2>1, <2>5, <2>7, <3>1, <3>2 DEF InstantsDiffer
  <2>11. CountsFromTheLast'
    BY <2>1 DEF CountsFromTheLast
  <2>12. NoAlertMissed'
    <3> SUFFICES ASSUME ~ failedBeat', NEW i \in DOMAIN rows',
                        AlertClass[rows'[i].type].severity >= Notice, AlertClass[rows'[i].type].category # "alerts",
                        rows'[i].at < b.started
                 PROVE  i \in counted'
      BY <2>7 DEF NoAlertMissed
    <3>1. ~ failedBeat /\ b.step = "finish"
      BY <2>1, <2>2
    <3>2. i \in DOMAIN rows /\ rows'[i] = rows[i]
      BY <1>1, <2>4, <2>6
    <3>3. rows[i].at \in Nat /\ rows[i].at < b.started /\ rows[i].type \in counted_types
      BY <1>1, <3>2, CountedTypes
    <3>4. counted' = counted \cup b.raised
      BY <2>1, <3>1
    <3>5. CASE b.since < rows[i].at
      BY <3>1, <3>2, <3>3, <3>4, <3>5 DEF AlertsInvariant, CountsFromTheLast
    <3>6. CASE ~ (b.since < rows[i].at)
      <4>1. beats # <<>> /\ b.since = last.started
        BY <2>6, <3>3, <3>6 DEF latest_alert_heartbeat_run, Never
      <4>2. rows[i].at # last.started
        BY <3>2, <4>1 DEF AlertsInvariant, InstantsDiffer
      <4>3. rows[i].at < last.started
        BY <1>2, <3>3, <3>6, <4>1, <4>2
      <4>4. i \in counted
        BY <3>1, <3>2, <4>1, <4>3 DEF AlertsInvariant, NoAlertMissed
      <4> QED  BY <3>4, <4>4
    <3> QED  BY <3>5, <3>6
  <2> QED  BY <2>5, <2>9, <2>10, <2>11, <2>12 DEF AlertsInvariant
<1>12. CASE AlertsRestart
  <2>1. /\ TimeGoes /\ alertTime' = alertTime + 1 /\ beating' = {} /\ acking' = {}
        /\ UNCHANGED <<rows, failures, acks, beats, counted, failedBeat>>
    BY <1>12 DEF AlertsRestart, TimeGoes
  <2>2. AlertsTyped' /\ AcksAreApart' /\ CountsFromTheLast'
    BY <1>1, <2>1 DEF AlertsInvariant, AlertsTyped, AcksAreApart, CountsFromTheLast
  <2> QED  BY <1>4, <1>5, <2>1, <2>2
<1> QED  BY <1>3, <1>6, <1>7, <1>8, <1>9, <1>10, <1>11, <1>12 DEF AlertsNext

\* Each alert is accounted for, whatever is raised between the statements of a
\* heartbeat, whichever heartbeats a restart cuts short and however many watchers
\* acknowledge it at once (alerts.rs run, acknowledge_alert).
THEOREM EveryAlertAccountedFor == AlertsSpec => []AlertsAreAccountedFor
<1>1. AlertsInit => AlertsInvariant
  <2> SUFFICES ASSUME AlertsInit PROVE AlertsInvariant
    OBVIOUS
  <2>1. rows \in Seq(Rows) /\ beats \in Seq(Runs) /\ DOMAIN rows = {}
    BY EmptySeq DEF AlertsInit
  <2>2. AlertsTyped
    BY <2>1, FS_EmptySet DEF AlertsInit, AlertsTyped
  <2> QED  BY <2>1, <2>2 DEF AlertsInit, AlertsInvariant, InstantsDiffer, CountsFromTheLast, NoAlertMissed, AcksAreApart,
                            AcknowledgedOnce
<1>2. AlertsInvariant /\ UNCHANGED alertVars => AlertsInvariant'
  BY DEF alertVars, AlertsInvariant, AlertsTyped, InstantsDiffer, CountsFromTheLast, NoAlertMissed, AcksAreApart,
         AcknowledgedOnce, latest_alert_heartbeat_run, counted_types, types_for, Categories
<1>3. AlertsInvariant => AlertsAreAccountedFor
  BY DEF AlertsInvariant, AlertsAreAccountedFor
<1> QED  BY <1>1, <1>2, <1>3, AlertsStep, PTL DEF AlertsSpec

-----------------------------------------------------------------------------
(* Settings *)

\* The secret a restart must find is in the file, and the running server's.
PromiseIsOnDisk ==
    promised # {} => /\ file # {} /\ SecretOf(OnDisk) = promised /\ promised # {""}
                     /\ Up => SecretOf(Copy) = promised

\* What runs is whole and was validated, whichever schema was put into its seeds.
Sound(c) == DOMAIN Defaults \subseteq DOMAIN c /\ "secret" \in DOMAIN c /\ validate_config(c)

SettingsInvariant ==
    /\ settingsSteps \in Nat
    /\ DOMAIN profiles = Patrons
    /\ \E S : history \in Seq(S)
    /\ file # {} => file = {OnDisk}
    /\ Up => conf = {Copy} /\ Sound(Copy) /\ history # <<>>
    /\ PromiseIsOnDisk /\ ProfilesAnswerAPublishedSchema

-----------------------------------------------------------------------------
(* What overrides and seeds change *)

\* The environment changes the address of the database and no more.
LEMMA EnvironmentOverrides ==
    ASSUME NEW f, NEW set, DOMAIN Defaults \subseteq DOMAIN f, NEW g, g = apply_env_overrides(f, set)
    PROVE  DOMAIN g = DOMAIN f /\ SecretOf(g) = SecretOf(f) /\ \A x \in DOMAIN f \ {"url"} : g[x] = f[x]
<1>1. CASE g = With(f, "url", EnvUrl)
  <2>1. "url" \in DOMAIN f
    BY SettingsAssumption
  <2>2. DOMAIN g = DOMAIN f /\ \A x \in DOMAIN f \ {"url"} : g[x] = f[x]
    BY <1>1, <2>1 DEF With
  <2>3. SecretOf(g) = SecretOf(f)
    BY <2>2 DEF SecretOf
  <2> QED  BY <2>2, <2>3
<1>2. CASE g = f
  BY <1>2
<1> QED  BY <1>1, <1>2 DEF apply_env_overrides

\* Publishing a schema into the seeds leaves sound settings sound.
LEMMA SeedsStaySound ==
    ASSUME NEW c, Sound(c), NEW schema, NEW on, NEW d, d = set_profiles_enabled(set_profile_fields(c, schema), on)
    PROVE  Sound(d) /\ SecretOf(d) = SecretOf(c)
<1>0. PICK e : e = set_profile_fields(c, schema)
  OBVIOUS
<1>1. DOMAIN e = DOMAIN c \cup {"seed"} /\ \A x \in DOMAIN c : x # "seed" => e[x] = c[x]
  BY <1>0 DEF set_profile_fields, With
<1>2. DOMAIN d = DOMAIN e \cup {"seedOn"} /\ \A x \in DOMAIN e : x # "seedOn" => d[x] = e[x]
  BY <1>0 DEF set_profiles_enabled, With
<1>3. DOMAIN c \subseteq DOMAIN d /\ \A x \in DOMAIN c \ {"seed", "seedOn"} : d[x] = c[x]
  BY <1>1, <1>2
<1>4. /\ d["secret"] = c["secret"] /\ d["mail"] = c["mail"] /\ d["verify"] = c["verify"]
      /\ d["membership"] = c["membership"] /\ d["dues"] = c["dues"] /\ d["member_rank"] = c["member_rank"]
      /\ d["lapsed_rank"] = c["lapsed_rank"] /\ d["stripe"] = c["stripe"] /\ d["billing"] = c["billing"]
      /\ d["cors"] = c["cors"] /\ d["origins"] = c["origins"] /\ d["content_origin"] = c["content_origin"]
  BY <1>3, SettingsAssumption DEF Sound
<1>5. validate_config(d)
  BY <1>4 DEF Sound, validate_config, secret_set, mail_deliverable, someone_can_sign_in, dues_sound, stripe_sound,
              tool_billing_sound, cors_validate, content_origin_sound
<1>6. SecretOf(d) = SecretOf(c)
  BY <1>3, <1>4 DEF Sound, SecretOf
<1> QED  BY <1>3, <1>5, <1>6 DEF Sound

\* What a validated configuration promises.
LEMMA SoundMeans ==
    ASSUME NEW c, Sound(c)
    PROVE  /\ SecretOf(c) = {c["secret"]} /\ c["secret"] # ""
           /\ c["verify"] => c["mail"] = "on"
           /\ (c["stripe"] \/ c["billing"]) => c["membership"]
           /\ c["membership"] => c["lapsed_rank"] < c["member_rank"]
           /\ c["content_origin"] => c["cors"]
BY DEF Sound, SecretOf, validate_config, secret_set, mail_deliverable, someone_can_sign_in, dues_sound, stripe_sound,
       tool_billing_sound, cors_validate, content_origin_sound

\* One version more.
LEMMA VersionAppended ==
    ASSUME NEW schema, NEW on, \E S : history \in Seq(S), history' = insert_profile_config_version(schema, on)
    PROVE  /\ \E S : history' \in Seq(S)
           /\ Len(history) \in Nat /\ Len(history') = Len(history) + 1 /\ history' # <<>>
           /\ \A v \in 1 .. Len(history) : history'[v] = history[v]
<1>1. PICK S : history \in Seq(S)
  OBVIOUS
<1> DEFINE row == [schema |-> schema, on |-> on]
           T == S \cup {row}
<1> HIDE DEF row
<1>2. history \in Seq(T)
  BY <1>1, SeqMonotonic DEF T
<1>3. history' = Append(history, row)
  BY DEF insert_profile_config_version, row
<1>4. row \in T
  OBVIOUS
<1> HIDE DEF T
<1>5. history' \in Seq(T) /\ Len(history') = Len(history) + 1 /\ Len(history) \in Nat
      /\ \A v \in 1 .. Len(history) : history'[v] = history[v]
  BY <1>2, <1>3, <1>4
<1>6. history' # <<>>
  BY <1>5
<1> QED  BY <1>5, <1>6

-----------------------------------------------------------------------------
\* Profiles stay as they were answered, and no version goes.
LEMMA AnswersStand ==
    ASSUME ProfilesAnswerAPublishedSchema, profiles' = profiles, Len(history) \in Nat, Len(history') \in Nat,
           Len(history') >= Len(history), \A v \in 1 .. Len(history) : history'[v] = history[v]
    PROVE  ProfilesAnswerAPublishedSchema'
BY DEF ProfilesAnswerAPublishedSchema

\* The singleton's element is the one chosen.
LEMMA TheOne ==
    ASSUME NEW c
    PROVE  (CHOOSE x \in {c} : TRUE) = c
OBVIOUS

\* A start runs the configuration it was given, or nothing.
LEMMA StartRuns ==
    ASSUME SettingsInvariant, ~ Up, NEW c, DOMAIN Defaults \subseteq DOMAIN c, "secret" \in DOMAIN c, start(c)
    PROVE  /\ \E S : history' \in Seq(S)
           /\ Len(history) \in Nat /\ Len(history') \in Nat /\ Len(history') >= Len(history)
           /\ \A v \in 1 .. Len(history) : history'[v] = history[v]
           /\ \/ conf' = {}
              \/ \E d : conf' = {d} /\ Sound(d) /\ SecretOf(d) = SecretOf(c) /\ history' # <<>>
<1>1. PICK S : history \in Seq(S)
  BY DEF SettingsInvariant
<1>2. Len(history) \in Nat
  BY <1>1
<1>3. CASE ~ validate_config(c)
  BY <1>1, <1>2, <1>3 DEF start, Up
<1>4. CASE validate_config(c) /\ history = <<>> /\ validate_profile_fields(c["seed"])
  <2>1. history' = insert_profile_config_version(c["seed"], c["seedOn"]) /\ conf' = {c}
    BY <1>4 DEF start, bootstrap_profiles
  <2>2. Sound(c)
    BY <1>4 DEF Sound
  <2> QED  BY <1>1, <2>1, <2>2, VersionAppended
<1>5. CASE validate_config(c) /\ history = <<>> /\ ~ validate_profile_fields(c["seed"])
  BY <1>1, <1>2, <1>5 DEF start, bootstrap_profiles, Up
<1>6. CASE validate_config(c) /\ history # <<>>
  <2> DEFINE latest == get_latest_profile_config_version
  <2>1. PICK d : d = set_profiles_enabled(set_profile_fields(c, latest.schema), latest.on)
    OBVIOUS
  <2>2. conf' = {d} /\ history' = history
    BY <1>6, <2>1 DEF start, bootstrap_profiles
  <2>3. Sound(c)
    BY <1>6 DEF Sound
  <2>4. Sound(d) /\ SecretOf(d) = SecretOf(c)
    BY <2>1, <2>3, SeedsStaySound
  <2> QED  BY <1>1, <1>2, <1>6, <2>2, <2>4
<1> QED  BY <1>3, <1>4, <1>5, <1>6

\* A boot keeps the promise, and what the operator set.
LEMMA BootStep ==
    ASSUME SettingsInvariant, NEW set \in BOOLEAN, load_config(set)
    PROVE  /\ SettingsInvariant'
           /\ \A f \in file, g \in file' : \A k \in DOMAIN f \ {"url", "secret"} : g[k] = f[k]
<1>1. ~ Up /\ conf = {} /\ environ' = set /\ profiles' = profiles /\ settingsSteps' = settingsSteps
  BY DEF load_config, Up
<1>2. PICK s \in generate_default_jwt_secret : create_default(s) \/ heal(s) \/ load_file(s)
  BY DEF load_config
<1>3. promised' = IF conf' = {} \/ promised # {} THEN promised ELSE SecretOf(CHOOSE c \in conf' : TRUE)
  BY DEF load_config
<1>4. \E S : history \in Seq(S)
  BY DEF SettingsInvariant
<1>5. ASSUME NEW g, file' = {g}, NEW c, DOMAIN Defaults \subseteq DOMAIN c, "secret" \in DOMAIN c, start(c),
             SecretOf(g) = SecretOf(c), promised # {} => SecretOf(g) = promised
      PROVE  SettingsInvariant'
  <2>1. /\ \E S : history' \in Seq(S)
        /\ Len(history) \in Nat /\ Len(history') \in Nat /\ Len(history') >= Len(history)
        /\ \A v \in 1 .. Len(history) : history'[v] = history[v]
        /\ \/ conf' = {}
           \/ \E d : conf' = {d} /\ Sound(d) /\ SecretOf(d) = SecretOf(c) /\ history' # <<>>
    BY <1>1, <1>5, StartRuns
  <2>2. ProfilesAnswerAPublishedSchema'
    BY <1>1, <2>1, AnswersStand DEF SettingsInvariant
  <2>3. file' = {OnDisk'} /\ OnDisk' = g
    BY <1>5, TheOne DEF OnDisk
  <2>4. settingsSteps' \in Nat /\ DOMAIN profiles' = Patrons
    BY <1>1 DEF SettingsInvariant
  <2>5. promised # {""}
    BY DEF SettingsInvariant, PromiseIsOnDisk
  <2>6. CASE conf' = {}
    <3>1. promised' = promised /\ ~ Up'
      BY <1>3, <2>6 DEF Up
    <3>2. PromiseIsOnDisk'
      BY <1>5, <2>3, <2>5, <3>1 DEF PromiseIsOnDisk
    <3> QED  BY <2>1, <2>2, <2>3, <2>4, <3>1, <3>2 DEF SettingsInvariant
  <2>7. CASE conf' # {}
    <3>1. PICK d : conf' = {d} /\ Sound(d) /\ SecretOf(d) = SecretOf(c) /\ history' # <<>>
      BY <2>1, <2>7
    <3>2. conf' = {Copy'} /\ Copy' = d
      BY <3>1, TheOne DEF Copy
    <3>3. promised' = IF promised # {} THEN promised ELSE SecretOf(d)
      BY <1>3, <2>7, <3>1, TheOne
    <3>4. promised' = SecretOf(d) /\ SecretOf(d) = SecretOf(g)
      BY <1>5, <3>1, <3>3
    <3>5. SecretOf(d) # {""}
      BY <3>1, SoundMeans
    <3>6. PromiseIsOnDisk'
      BY <1>5, <2>3, <3>2, <3>4, <3>5 DEF PromiseIsOnDisk
    <3> QED  BY <2>1, <2>2, <2>3, <2>4, <3>1, <3>2, <3>6 DEF SettingsInvariant
  <2> QED  BY <2>6, <2>7
<1>6. file # {} => file = {OnDisk}
  BY DEF SettingsInvariant
<1>7. promised # {} => file # {} /\ SecretOf(OnDisk) = promised /\ promised # {""}
  BY DEF SettingsInvariant, PromiseIsOnDisk
<1>8. CASE create_default(s)
  <2>1. PICK c : c = With(Defaults, "secret", s)
    OBVIOUS
  <2>2. file = {} /\ file' = {c} /\ start(c)
    BY <1>8, <2>1 DEF create_default
  <2>3. DOMAIN Defaults \subseteq DOMAIN c /\ "secret" \in DOMAIN c
    BY <2>1 DEF With
  <2> QED  BY <1>5, <1>7, <2>2, <2>3
<1>9. CASE heal(s)
  <2>1. PICK g : g = merge_toml_values(OnDisk, With(Defaults, "secret", s))
    OBVIOUS
  <2>2. file' = {g} /\ conf' = {} /\ history' = history /\ file # {}
    BY <1>1, <1>9, <2>1 DEF heal
  <2>3. DOMAIN OnDisk \subseteq DOMAIN g /\ \A k \in DOMAIN OnDisk : g[k] = OnDisk[k]
    BY <2>1 DEF merge_toml_values
  <2>4. promised' = promised /\ ~ Up'
    BY <1>3, <2>2 DEF Up
  <2>5. promised # {} => SecretOf(g) = promised
    BY <1>7, <2>3 DEF SecretOf
  <2>6. file' = {OnDisk'} /\ OnDisk' = g
    BY <2>2, TheOne DEF OnDisk
  <2>7. PromiseIsOnDisk'
    BY <1>7, <2>4, <2>5, <2>6 DEF PromiseIsOnDisk
  <2>8. ProfilesAnswerAPublishedSchema'
    BY <1>1, <2>2 DEF ProfilesAnswerAPublishedSchema, SettingsInvariant
  <2>9. SettingsInvariant'
    BY <1>1, <2>2, <2>4, <2>6, <2>7, <2>8 DEF SettingsInvariant
  <2> QED  BY <1>6, <2>2, <2>3, <2>9
<1>10. CASE load_file(s)
  <2>1. file # {} /\ DOMAIN Defaults \subseteq DOMAIN OnDisk
    BY <1>10 DEF load_file, missing_field
  <2>2. PICK c : c = apply_env_overrides(OnDisk, set)
    OBVIOUS
  <2>3. /\ DOMAIN c = DOMAIN OnDisk /\ SecretOf(c) = SecretOf(OnDisk)
        /\ \A k \in DOMAIN OnDisk \ {"url"} : c[k] = OnDisk[k]
    BY <2>1, <2>2, EnvironmentOverrides
  <2>4. IF SecretOf(c) \in {{}, {""}} THEN persist(c, s) /\ start(With(c, "secret", s))
        ELSE UNCHANGED file /\ start(c)
    BY <1>1, <1>10, <2>2 DEF load_file
  <2>5. CASE SecretOf(c) \in {{}, {""}}
    <3>1. PICK d : d = With(c, "secret", s)
      OBVIOUS
    <3>2. file' = {d} /\ start(d)
      BY <2>4, <2>5, <3>1 DEF persist
    <3>3. /\ DOMAIN d = DOMAIN c \cup {"secret"}
          /\ \A k \in DOMAIN c : k # "secret" => d[k] = c[k]
      BY <3>1 DEF With
    <3>4. promised = {}
      BY <1>7, <2>3, <2>5
    <3>5. SettingsInvariant'
      BY <1>5, <2>1, <2>3, <3>2, <3>3, <3>4
    <3>6. \A k \in DOMAIN OnDisk \ {"url", "secret"} : d[k] = OnDisk[k]
      BY <2>3, <3>3
    <3> QED  BY <1>6, <2>1, <3>2, <3>5, <3>6
  <2>6. CASE SecretOf(c) \notin {{}, {""}}
    <3>1. file' = {OnDisk} /\ start(c) /\ "secret" \in DOMAIN c
      BY <1>6, <2>1, <2>4, <2>6 DEF SecretOf
    <3>2. SettingsInvariant'
      BY <1>5, <1>7, <2>1, <2>3, <3>1
    <3> QED  BY <1>6, <2>1, <3>1, <3>2
  <2> QED  BY <2>5, <2>6
<1> QED  BY <1>2, <1>8, <1>9, <1>10

\* What is published while the server runs leaves its settings sound.
LEMMA PublishStep ==
    ASSUME SettingsInvariant, NEW schema, NEW on, Up,
           history' = insert_profile_config_version(schema, on),
           conf' = {set_profiles_enabled(set_profile_fields(Copy, schema), on)},
           Busy, UNCHANGED <<file, environ, profiles, promised>>
    PROVE  SettingsInvariant'
<1>1. PICK d : d = set_profiles_enabled(set_profile_fields(Copy, schema), on)
  OBVIOUS
<1>2. conf' = {d} /\ Copy' = d /\ Up'
  BY <1>1, TheOne DEF Copy, Up
<1>3. Sound(d) /\ SecretOf(d) = SecretOf(Copy)
  BY <1>1, SeedsStaySound DEF SettingsInvariant
<1>4. /\ \E S : history' \in Seq(S)
      /\ Len(history) \in Nat /\ Len(history') = Len(history) + 1 /\ history' # <<>>
      /\ \A v \in 1 .. Len(history) : history'[v] = history[v]
  BY VersionAppended DEF SettingsInvariant
<1>5. ProfilesAnswerAPublishedSchema'
  BY <1>4, AnswersStand DEF SettingsInvariant
<1>6. OnDisk' = OnDisk
  BY DEF OnDisk
<1>7. PromiseIsOnDisk'
  BY <1>2, <1>3, <1>6 DEF PromiseIsOnDisk, SettingsInvariant
<1>8. settingsSteps' \in Nat
  BY DEF Busy, SettingsInvariant
<1> QED  BY <1>2, <1>3, <1>4, <1>5, <1>6, <1>7, <1>8 DEF SettingsInvariant

\* A profile that is stored answers the latest version.
LEMMA ProfileStep ==
    ASSUME SettingsInvariant, NEW u \in Patrons, NEW p, update_user_profile(u, p)
    PROVE  SettingsInvariant'
<1>1. /\ Up /\ validate_profile(p, current_profile_config.schema)
      /\ profiles' = [profiles EXCEPT ![u] = p]
      /\ UNCHANGED <<file, environ, conf, history, promised>> /\ settingsSteps' = settingsSteps + 1
  BY DEF update_user_profile, db_update_user_profile, Busy
<1>2. PICK S : history \in Seq(S) 
  BY DEF SettingsInvariant
<1>3. history # <<>> /\ Len(history) \in Nat /\ Len(history) \in 1 .. Len(history)
  BY <1>1, <1>2, EmptySeq DEF SettingsInvariant
<1>4. current_profile_config = history[Len(history)]
  BY <1>3 DEF current_profile_config, get_latest_profile_config_version
<1>5. /\ DOMAIN p \subseteq history[Len(history)].schema.asks
      /\ history[Len(history)].schema.must \subseteq DOMAIN p
  BY <1>1, <1>4 DEF validate_profile
<1>6. DOMAIN profiles = Patrons
  BY DEF SettingsInvariant
<1>7. ProfilesAnswerAPublishedSchema'
  <2> SUFFICES ASSUME NEW w \in Patrons, profiles'[w] # <<>>
               PROVE  \E v \in 1 .. Len(history) :
                        /\ DOMAIN profiles'[w] \subseteq history[v].schema.asks
                        /\ history[v].schema.must \subseteq DOMAIN profiles'[w]
    BY <1>1 DEF ProfilesAnswerAPublishedSchema
  <2>1. CASE w = u
    BY <1>1, <1>3, <1>5, <1>6, <2>1
  <2>2. CASE w # u
    BY <1>1, <1>6, <2>2 DEF SettingsInvariant, ProfilesAnswerAPublishedSchema
  <2> QED  BY <2>1, <2>2
<1>8. Copy' = Copy /\ OnDisk' = OnDisk /\ Up' = Up
  BY <1>1 DEF Copy, OnDisk, Up
<1>9. PromiseIsOnDisk'
  BY <1>1, <1>8 DEF SettingsInvariant, PromiseIsOnDisk
<1>10. DOMAIN profiles' = Patrons /\ settingsSteps' \in Nat
  BY <1>1, <1>6 DEF SettingsInvariant
<1> QED  BY <1>1, <1>7, <1>8, <1>9, <1>10 DEF SettingsInvariant

\* Every step keeps the invariant.
LEMMA SettingsStep ==
    ASSUME SettingsInvariant, SettingsNext
    PROVE  SettingsInvariant'
<1>1. ASSUME NEW set \in BOOLEAN, load_config(set) PROVE SettingsInvariant'
  BY <1>1, BootStep
<1>2. CASE ServerDies
  <2>1. conf' = {} /\ ~ Up' /\ UNCHANGED <<file, environ, history, profiles, promised, settingsSteps>>
    BY <1>2 DEF ServerDies, Up
  <2>2. OnDisk' = OnDisk
    BY <2>1 DEF OnDisk
  <2>3. PromiseIsOnDisk'
    BY <2>1, <2>2 DEF SettingsInvariant, PromiseIsOnDisk
  <2>4. ProfilesAnswerAPublishedSchema'
    BY <2>1 DEF SettingsInvariant, ProfilesAnswerAPublishedSchema
  <2> QED  BY <2>1, <2>2, <2>3, <2>4 DEF SettingsInvariant
<1>3. CASE reload_config
  <2>1. PICK c : c = apply_env_overrides(OnDisk, environ)
    OBVIOUS
  <2>2. /\ Up /\ file # {} /\ DOMAIN Defaults \subseteq DOMAIN OnDisk /\ "secret" \in DOMAIN OnDisk
        /\ validate_config(c) /\ conf' = {c} /\ promised' = SecretOf(c)
        /\ UNCHANGED <<file, environ, history, profiles>> /\ settingsSteps' = settingsSteps + 1
    BY <1>3, <2>1 DEF reload_config, missing_field, Busy
  <2>3. DOMAIN c = DOMAIN OnDisk /\ SecretOf(c) = SecretOf(OnDisk)
    BY <2>1, <2>2, EnvironmentOverrides
  <2>4. Sound(c)
    BY <2>2, <2>3 DEF Sound
  <2>5. Copy' = c /\ OnDisk' = OnDisk /\ Up'
    BY <2>2, TheOne DEF Copy, OnDisk, Up
  <2>6. PromiseIsOnDisk'
    BY <2>2, <2>3, <2>4, <2>5, SoundMeans DEF PromiseIsOnDisk
  <2>7. ProfilesAnswerAPublishedSchema'
    BY <2>2 DEF SettingsInvariant, ProfilesAnswerAPublishedSchema
  <2> QED  BY <2>2, <2>4, <2>5, <2>6, <2>7 DEF SettingsInvariant
<1>4. ASSUME NEW s \in Schemas, NEW on \in BOOLEAN, update_profile_config(s, on) PROVE SettingsInvariant'
  BY <1>4, PublishStep DEF update_profile_config
<1>5. ASSUME NEW v \in 1 .. Len(history), rollback_profile_config(v) PROVE SettingsInvariant'
  BY <1>5, PublishStep DEF rollback_profile_config
<1>6. ASSUME NEW u \in Patrons, NEW p \in ProfileValues, update_user_profile(u, p) PROVE SettingsInvariant'
  BY <1>6, ProfileStep
<1>7. ASSUME NEW d \in Drafts, NEW keep \in BOOLEAN, OperatorWrites(d, keep) PROVE SettingsInvariant'
  <2>1. PICK f : f = IF keep /\ file # {} /\ "secret" \in DOMAIN OnDisk
                     THEN With(d, "secret", OnDisk["secret"]) ELSE d
    OBVIOUS
  <2>2. /\ file' = {f} /\ promised' = IF SecretOf(f) = promised THEN promised ELSE {}
        /\ UNCHANGED <<environ, conf, history, profiles>> /\ settingsSteps' = settingsSteps + 1
    BY <1>7, <2>1 DEF OperatorWrites, Busy
  <2>3. OnDisk' = f /\ Copy' = Copy /\ Up' = Up
    BY <2>2, TheOne DEF OnDisk, Copy, Up
  <2>4. PromiseIsOnDisk'
    BY <2>2, <2>3 DEF SettingsInvariant, PromiseIsOnDisk
  <2>5. ProfilesAnswerAPublishedSchema'
    BY <2>2 DEF SettingsInvariant, ProfilesAnswerAPublishedSchema
  <2> QED  BY <2>2, <2>3, <2>4, <2>5 DEF SettingsInvariant
<1> QED  BY <1>1, <1>2, <1>3, <1>4, <1>5, <1>6, <1>7 DEF SettingsNext

\* What the invariant says to those signed in, and of what runs.
LEMMA SettingsHold ==
    ASSUME SettingsInvariant
    PROVE  SessionsSurviveRestarts /\ RunsOnSoundSettings /\ ProfilesAnswerAPublishedSchema
<1>1. Up => Sound(Copy)
  BY DEF SettingsInvariant
<1>2. RunsOnSoundSettings
  BY <1>1, SoundMeans DEF RunsOnSoundSettings
<1> QED  BY <1>2 DEF SettingsInvariant, PromiseIsOnDisk, SessionsSurviveRestarts

\* A step that heals or boots, the only ones of a server that is down, keeps what
\* the operator set.
LEMMA HealingStep ==
    ASSUME SettingsInvariant, [SettingsNext]_settingsVars, ~ Up, settingsSteps' = settingsSteps
    PROVE  \A f \in file, g \in file' : \A k \in DOMAIN f \ {"url", "secret"} : g[k] = f[k]
<1>1. settingsSteps \in Nat /\ (file # {} => file = {OnDisk})
  BY DEF SettingsInvariant
<1>2. CASE UNCHANGED settingsVars
  BY <1>1, <1>2 DEF settingsVars
<1>3. CASE \E set \in BOOLEAN : load_config(set)
  BY <1>3, BootStep
<1>4. ~ Busy
  BY <1>1 DEF Busy
<1>5. CASE SettingsNext /\ ~ \E set \in BOOLEAN : load_config(set)
  BY <1>4, <1>5 DEF SettingsNext, ServerDies, reload_config, update_profile_config, rollback_profile_config,
                    update_user_profile, OperatorWrites
<1> QED  BY <1>2, <1>3, <1>5

\* Through every sequence of edits, boots, reloads, publications and crashes,
\* nobody is signed out by a restart, what runs was validated, a profile answers a
\* published schema and healing only adds (config.rs load_config, reload_config,
\* heal; api/profiles.rs).
THEOREM SettingsSound == SettingsSpec => SettingsStaySound
<1>1. SettingsInit => SettingsInvariant
  <2> SUFFICES ASSUME SettingsInit PROVE SettingsInvariant
    OBVIOUS
  <2>1. history \in Seq({}) /\ ~ Up /\ promised = {} /\ settingsSteps = 0 /\ profiles = [u \in Patrons |-> <<>>]
    BY EmptySeq DEF SettingsInit, Up
  <2>2. file # {} => file = {OnDisk}
    BY TheOne DEF SettingsInit, OnDisk
  <2>3. PromiseIsOnDisk /\ ProfilesAnswerAPublishedSchema
    BY <2>1 DEF PromiseIsOnDisk, ProfilesAnswerAPublishedSchema
  <2> QED  BY <2>1, <2>2, <2>3 DEF SettingsInvariant
<1>2. SettingsInvariant /\ UNCHANGED settingsVars => SettingsInvariant'
  BY DEF settingsVars, SettingsInvariant, PromiseIsOnDisk, ProfilesAnswerAPublishedSchema, Up, Copy, OnDisk
<1>3. SettingsInvariant /\ [SettingsNext]_settingsVars => SettingsInvariant'
  BY <1>2, SettingsStep
<1>4. SettingsInvariant' => SessionsSurviveRestarts' /\ RunsOnSoundSettings' /\ ProfilesAnswerAPublishedSchema'
  BY SettingsHold, PTL
<1>5. SettingsInvariant /\ [SettingsNext]_settingsVars =>
        [SessionsSurviveRestarts' /\ RunsOnSoundSettings' /\ ProfilesAnswerAPublishedSchema']_settingsVars
  BY <1>3, <1>4
<1>6. SettingsInvariant /\ [SettingsNext]_settingsVars =>
        [~ Up /\ settingsSteps' = settingsSteps =>
            \A f \in file, g \in file' : \A k \in DOMAIN f \ {"url", "secret"} : g[k] = f[k]]_settingsVars
  BY HealingStep
<1> QED  BY <1>1, <1>3, <1>5, <1>6, PTL DEF SettingsSpec, SettingsStaySound, HealingKeepsValues

-----------------------------------------------------------------------------
(* Membership *)

\* A job is a record of these fields.
IsJob(x) ==
    x = [pc |-> x.pc, user |-> x.user, ref |-> x.ref, amount |-> x.amount, now |-> x.now, next |-> x.next,
         role |-> x.role, entitled |-> x.entitled, back |-> x.back, links |-> x.links, bills |-> x.bills,
         users |-> x.users, owed |-> x.owed]

\* A cycle credits invoices and comes back to its bills, or settles renewals and
\* comes back to those due.
Phases(x) ==
    /\ x.pc # "idle" => x.back \in {"bills", "due"}
    /\ x.pc \in {"poll", "bills"} => x.back = "bills"
    /\ x.pc \in {"due", "loop", "renew"} => x.back = "due"
    /\ x.pc = "poll" => x.bills = {}

\* What Stripe had taken when the cycle began is in the ledger, or the cycle has
\* yet to ask for it, is to look at it, or is at it.
Ahead(x, r) ==
    /\ x.back = "bills"
    /\ \/ CustomerOf(r) \in x.links
       \/ r \in x.bills
       \/ x.pc \in {"check", "insert"} /\ x.ref = r
OwedSeen(x, e, p) == x.owed \subseteq p \cap Invoices /\ \A r \in x.owed : e[r] > 0 \/ Ahead(x, r)

MembershipInvariant ==
    /\ entries \in [References -> Nat] /\ PaymentPostedOnce
    /\ DOMAIN jobs = JobIds /\ mishap \in BOOLEAN
    /\ \A j \in JobIds : IsJob(jobs[j])
    /\ mishap = FALSE => \A j \in Cycles : Phases(jobs[j]) /\ OwedSeen(jobs[j], entries, paid)

\* What a cycle owes and is not posted yet is among what one poll of its customer
\* lists: "a missed webhook is recent, so a small window suffices" (stripe.rs).
WithinReach == mishap = FALSE =>
    \A j \in Cycles : \A r \in jobs[j].owed : entries[r] > 0 \/ r \in Latest(CustomerOf(r))

\* A role that was planned and is not written yet: a promotion is of somebody who
\* is no administrator, and a demotion leaves one.
RolePlanned(x, t) ==
    x.pc = "write" =>
        /\ x.role = "active" /\ x.user \in Subscribers => t[x.user] # "admin"
        /\ x.role = "historical" /\ FirstAdmins # {} =>
              \E v \in Subscribers : v # x.user /\ t[v] = "admin"

\* Only the cycle demotes.
AdminInvariant ==
    /\ DOMAIN jobs = JobIds /\ DOMAIN tier = Subscribers
    /\ \A j \in JobIds : IsJob(jobs[j])
    /\ AnAdministratorRemains
    /\ \A j \in JobIds : jobs[j].role \in {NoChange, "active", "historical"} /\ RolePlanned(jobs[j], tier)
    /\ \A h \in Hooks : jobs[h].entitled = TRUE /\ jobs[h].role # "historical"

-----------------------------------------------------------------------------
(* How a step changes a job *)

\* What the poll has left to do is kept from x to y.
Kin(x, y) == y.back = x.back /\ y.links = x.links /\ y.bills = x.bills /\ y.owed = x.owed

\* One record moves on.
LEMMA JobMoves ==
    ASSUME NEW j \in JobIds, DOMAIN jobs = JobIds, IsJob(jobs[j]), NEW pc, Move(j, pc)
    PROVE  \E y : /\ jobs' = [jobs EXCEPT ![j] = y] /\ IsJob(y) /\ y.pc = pc /\ Kin(jobs[j], y)
                  /\ y.ref = jobs[j].ref /\ y.role = jobs[j].role /\ y.entitled = jobs[j].entitled
                  /\ y.user = jobs[j].user
<1>1. PICK x : x = jobs[j]
  OBVIOUS
<1>2. PICK y : y = [x EXCEPT !.pc = pc]
  OBVIOUS
<1>3. IsJob(x)
  BY <1>1
<1>4. IsJob(y) /\ y.pc = pc /\ Kin(x, y) /\ y.ref = x.ref /\ y.role = x.role /\ y.entitled = x.entitled
      /\ y.user = x.user
  BY <1>2, <1>3 DEF IsJob, Kin
<1>5. jobs' = [jobs EXCEPT ![j] = y]
  BY <1>1, <1>2 DEF Move
<1> QED  BY <1>1, <1>4, <1>5

\* Back from a credit or a renewal.
LEMMA JobReturns ==
    ASSUME NEW j \in JobIds, DOMAIN jobs = JobIds, Return(j)
    PROVE  \E y : /\ jobs' = [jobs EXCEPT ![j] = y] /\ IsJob(y) /\ y.pc = jobs[j].back /\ Kin(jobs[j], y)
                  /\ y.ref = NoReference /\ y.role = NoChange /\ y.entitled = TRUE
<1>1. PICK x : x = jobs[j]
  OBVIOUS
<1>2. PICK y : y = [NoJob EXCEPT !.pc = x.back, !.back = x.back, !.links = x.links,
                     !.bills = x.bills, !.users = x.users, !.owed = x.owed,
                     !.user = IF x.back = "bills" THEN x.user ELSE Nobody]
  OBVIOUS
<1>3. SetJob(j, y)
  BY <1>1, <1>2 DEF Return
<1>4. IsJob(y) /\ y.pc = x.back /\ Kin(x, y) /\ y.ref = NoReference /\ y.role = NoChange /\ y.entitled = TRUE
  BY <1>2 DEF NoJob, Job, IsJob, Kin
<1> QED  BY <1>1, <1>3, <1>4 DEF SetJob

-----------------------------------------------------------------------------
(* The ledger *)

\* The ledger only grows, one entry for a reference, and what was paid stays paid.
Grows ==
    /\ entries' \in [References -> Nat] /\ PaymentPostedOnce'
    /\ \A r \in Invoices : entries[r] > 0 => entries'[r] > 0
    /\ paid \subseteq paid' /\ mishap' \in BOOLEAN /\ (mishap' = FALSE => mishap = FALSE)

LEMMA NothingPosted ==
    ASSUME MembershipInvariant, entries' = entries, paid \subseteq paid',
           mishap' = mishap \/ mishap' = TRUE
    PROVE  Grows
BY DEF MembershipInvariant, Grows, PaymentPostedOnce

\* What a cycle has seen it has seen, though others post and Stripe is paid.
LEMMA SeenStays ==
    ASSUME NEW x, NEW e, NEW p, NEW f, NEW q, OwedSeen(x, e, p), p \subseteq q,
           \A r \in Invoices : e[r] > 0 => f[r] > 0
    PROVE  OwedSeen(x, f, q)
BY DEF OwedSeen

\* A step that leaves the jobs alone.
LEMMA JobsStand ==
    ASSUME MembershipInvariant, Grows, jobs' = jobs
    PROVE  MembershipInvariant'
<1>1. mishap' = FALSE => \A j \in Cycles : OwedSeen(jobs'[j], entries', paid')
  BY SeenStays DEF MembershipInvariant, Grows
<1> QED  BY <1>1 DEF MembershipInvariant, Grows

\* A step of one job.
LEMMA JobSteps ==
    ASSUME MembershipInvariant, Grows, NEW j \in JobIds, NEW y, jobs' = [jobs EXCEPT ![j] = y], IsJob(y),
           j \in Cycles /\ mishap' = FALSE => Phases(y) /\ OwedSeen(y, entries', paid')
    PROVE  MembershipInvariant'
<1>1. DOMAIN jobs' = JobIds /\ jobs'[j] = y /\ \A i \in JobIds : i # j => jobs'[i] = jobs[i]
  BY DEF MembershipInvariant
<1>2. ASSUME NEW i \in Cycles, mishap' = FALSE PROVE Phases(jobs'[i]) /\ OwedSeen(jobs'[i], entries', paid')
  <2>1. CASE i = j
    BY <1>1, <1>2, <2>1
  <2>2. CASE i # j
    <3>1. i \in JobIds /\ jobs'[i] = jobs[i]
      BY <1>1, <2>2 DEF JobIds
    <3>2. Phases(jobs[i]) /\ OwedSeen(jobs[i], entries, paid)
      BY <1>2 DEF MembershipInvariant, Grows
    <3>3. OwedSeen(jobs[i], entries', paid')
      BY <3>2, SeenStays DEF Grows
    <3> QED  BY <3>1, <3>2, <3>3
  <2> QED  BY <2>1, <2>2
<1>3. \A i \in JobIds : IsJob(jobs'[i])
  BY <1>1 DEF MembershipInvariant
<1> QED  BY <1>1, <1>2, <1>3 DEF MembershipInvariant, Grows

\* A hook's step concerns no cycle.
LEMMA HookSteps ==
    ASSUME MembershipInvariant, Grows, NEW h \in Hooks, NEW y, jobs' = [jobs EXCEPT ![h] = y], IsJob(y)
    PROVE  MembershipInvariant'
BY JobSteps, MembershipAssumption DEF JobIds

\* A job that goes on where it was has still seen what it had seen, as long as it
\* does not leave an invoice it was at unposted.
LEMMA GoesOn ==
    ASSUME NEW x, NEW y, NEW e, NEW p, OwedSeen(x, e, p), Kin(x, y),
           x.pc \in {"check", "insert"} /\ x.ref \in Invoices =>
              e[x.ref] > 0 \/ (y.pc \in {"check", "insert"} /\ y.ref = x.ref)
    PROVE  OwedSeen(y, e, p)
<1> SUFFICES ASSUME NEW r \in y.owed PROVE r \in p \cap Invoices /\ (e[r] > 0 \/ Ahead(y, r))
  BY DEF OwedSeen
<1>1. r \in x.owed /\ r \in p \cap Invoices /\ (e[r] > 0 \/ Ahead(x, r))
  BY DEF OwedSeen, Kin
<1> QED  BY <1>1 DEF Ahead, Kin

\* An invoice is no missing reference.
LEMMA InvoicesAreReferences ==
    Invoices \subseteq References /\ NoReference \notin Invoices
BY DEF Invoices, References, Payments, NoReference

\* Of no more invoices than the limit, the latest are all.
LEMMA LatestAreAll ==
    ASSUME MaxInvoices <= PollLimit, NEW c, NEW r \in paid \cap Invoices, CustomerOf(r) = c
    PROVE  r \in Latest(c)
<1> DEFINE mine == {i \in paid \cap Invoices : i[2] = c}
           later == {k \in mine : k[3] > r[3]}
           numbers == 2 .. MaxInvoices
           of == [n \in numbers |-> <<"invoice", c, n>>]
<1>1. r \in mine
  BY DEF CustomerOf
<1>2. later \subseteq {of[n] : n \in numbers}
  <2> SUFFICES ASSUME NEW k \in later PROVE k \in {of[n] : n \in numbers}
    OBVIOUS
  <2>1. PICK kc \in Customers, n \in 1..MaxInvoices : k = <<"invoice", kc, n>>
    BY DEF Invoices
  <2>2. PICK rc \in Customers, m \in 1..MaxInvoices : r = <<"invoice", rc, m>>
    BY DEF Invoices
  <2>3. kc = c /\ n > m /\ n \in numbers
    BY <2>1, <2>2, MembershipAssumption
  <2> QED  BY <2>1, <2>3
<1>3. MaxInvoices \in Nat /\ PollLimit \in Nat \ {0}
  BY MembershipAssumption
<1>4. IsFiniteSet(numbers) /\ Cardinality(numbers) < PollLimit
  <2>1. IsFiniteSet(2 .. MaxInvoices)
        /\ Cardinality(2 .. MaxInvoices) = IF 2 > MaxInvoices THEN 0 ELSE MaxInvoices - 2 + 1
    BY <1>3, FS_Interval
  <2> QED  BY <1>3, <2>1
<1> HIDE DEF numbers, of
<1>5. IsFiniteSet({of[n] : n \in numbers}) /\ Cardinality({of[n] : n \in numbers}) <= Cardinality(numbers)
  <2>1. of \in [numbers -> {of[n] : n \in numbers}]
    BY DEF of
  <2>2. of \in Surjection(numbers, {of[n] : n \in numbers})
    BY <2>1 DEF Surjection
  <2> QED  BY <1>4, <2>2, FS_Surjection
<1>6. Cardinality(later) <= Cardinality({of[n] : n \in numbers}) /\ IsFiniteSet(later)
  BY <1>2, <1>5, FS_Subset
<1>7. Cardinality(later) < PollLimit
  <2>1. Cardinality(later) \in Nat /\ Cardinality({of[n] : n \in numbers}) \in Nat /\ Cardinality(numbers) \in Nat
    BY <1>4, <1>5, <1>6, FS_CardinalityType
  <2> QED  BY <1>3, <1>4, <1>5, <1>6, <2>1
<1> QED  BY <1>1, <1>7 DEF Latest

\* With no more invoices than the limit, all are within reach.
LEMMA FewAreWithinReach ==
    ASSUME MaxInvoices <= PollLimit, MembershipInvariant
    PROVE  WithinReach
<1> SUFFICES ASSUME mishap = FALSE, NEW j \in Cycles, NEW r \in jobs[j].owed PROVE r \in Latest(CustomerOf(r))
  BY DEF WithinReach
<1>1. r \in paid \cap Invoices
  BY DEF MembershipInvariant, OwedSeen
<1> QED  BY <1>1, LatestAreAll

\* Where a job may be next without leaving its phase.
LEMMA PhasesGoOn ==
    ASSUME NEW x, NEW y, Phases(x), Kin(x, y), x.pc # "idle",
           \/ y.pc \in {"check", "insert", "enrol", "afford", "first", "anchor", "role", "write"}
           \/ y.pc = x.back
           \/ y.pc \in {"loop", "renew"} /\ x.back = "due"
           \/ y.pc = "poll" /\ x.back = "bills" /\ x.bills = {}
    PROVE  Phases(y)
BY DEF Phases, Kin

\* A job returns once what it was at is in the ledger.
LEMMA ReturnStep ==
    ASSUME MembershipInvariant, Grows, NEW j \in JobIds, Return(j), jobs[j].pc # "idle",
           jobs[j].pc \in {"check", "insert"} /\ jobs[j].ref \in Invoices /\ mishap' = FALSE => entries'[jobs[j].ref] > 0
    PROVE  MembershipInvariant'
<1>1. DOMAIN jobs = JobIds
  BY DEF MembershipInvariant
<1>2. PICK y : /\ jobs' = [jobs EXCEPT ![j] = y] /\ IsJob(y) /\ y.pc = jobs[j].back /\ Kin(jobs[j], y)
               /\ y.ref = NoReference
  BY <1>1, JobReturns
<1>3. ASSUME j \in Cycles, mishap' = FALSE PROVE Phases(y) /\ OwedSeen(y, entries', paid')
  <2>1. Phases(jobs[j]) /\ OwedSeen(jobs[j], entries, paid)
    BY <1>3 DEF MembershipInvariant, Grows
  <2>2. OwedSeen(jobs[j], entries', paid')
    BY <2>1, SeenStays DEF Grows
  <2>3. OwedSeen(y, entries', paid')
    BY <1>2, <1>3, <2>2, GoesOn
  <2> QED  BY <1>2, <2>1, <2>3, PhasesGoOn
<1> QED  BY <1>2, <1>3, JobSteps

\* A job moves on, from a check to the insert at most before it has posted.
LEMMA MoveStep ==
    ASSUME MembershipInvariant, Grows, NEW j \in JobIds, NEW pc, Move(j, pc), jobs[j].pc # "idle",
           \/ pc \in {"check", "insert", "enrol", "afford", "first", "anchor", "role", "write"}
           \/ pc = jobs[j].back
           \/ pc \in {"loop", "renew"} /\ jobs[j].back = "due"
           \/ pc = "poll" /\ jobs[j].back = "bills" /\ jobs[j].bills = {},
           jobs[j].pc \in {"check", "insert"} /\ jobs[j].ref \in Invoices =>
              pc = "insert" \/ entries'[jobs[j].ref] > 0
    PROVE  MembershipInvariant'
<1>1. DOMAIN jobs = JobIds /\ IsJob(jobs[j])
  BY DEF MembershipInvariant
<1>2. PICK y : /\ jobs' = [jobs EXCEPT ![j] = y] /\ IsJob(y) /\ y.pc = pc /\ Kin(jobs[j], y)
               /\ y.ref = jobs[j].ref
  BY <1>1, JobMoves
<1>3. ASSUME j \in Cycles, mishap' = FALSE PROVE Phases(y) /\ OwedSeen(y, entries', paid')
  <2>1. Phases(jobs[j]) /\ OwedSeen(jobs[j], entries, paid)
    BY <1>3 DEF MembershipInvariant, Grows
  <2>2. OwedSeen(jobs[j], entries', paid')
    BY <2>1, SeenStays DEF Grows
  <2>3. OwedSeen(y, entries', paid')
    BY <1>2, <1>3, <2>2, GoesOn
  <2> QED  BY <1>2, <2>1, <2>3, PhasesGoOn
<1> QED  BY <1>2, <1>3, JobSteps

\* An entry is inserted where the index has none of its reference.
LEMMA PostedOnce ==
    ASSUME entries \in [References -> Nat], PaymentPostedOnce, NEW ref, ~ refused_by_index(ref),
           entries' = [entries EXCEPT ![ref] = @ + 1]
    PROVE  /\ entries' \in [References -> Nat] /\ PaymentPostedOnce'
           /\ (\A r \in Invoices : entries[r] > 0 => entries'[r] > 0) /\ (ref \in Invoices => entries'[ref] > 0)
<1>1. /\ DOMAIN entries' = References
      /\ \A r \in References : entries'[r] = IF r = ref THEN entries[r] + 1 ELSE entries[r]
  OBVIOUS
<1>2. \A r \in References : entries[r] \in Nat /\ entries[r] <= 1 /\ (r = ref => entries[r] = 0)
  BY DEF refused_by_index, PaymentPostedOnce
<1>3. entries' = [r \in References |-> entries'[r]]
  OBVIOUS
<1>4. \A r \in References : entries'[r] \in Nat /\ entries'[r] <= 1 /\ entries'[r] >= entries[r]
                           /\ (r = ref => entries'[r] = 1)
  BY <1>1, <1>2
<1>5. entries' \in [References -> Nat]
  BY <1>3, <1>4
<1>6. PaymentPostedOnce'
  BY <1>4 DEF PaymentPostedOnce
<1>7. \A r \in Invoices : (entries[r] > 0 => entries'[r] > 0) /\ (r = ref => entries'[r] > 0)
  BY <1>2, <1>4, InvoicesAreReferences
<1> QED  BY <1>5, <1>6, <1>7

\* The steps of a credit and of a role, a webhook's or a cycle's.
LEMMA JobStepKeeps ==
    ASSUME MembershipInvariant, NEW j \in JobIds, JobStep(j)
    PROVE  MembershipInvariant'
<1>1. DOMAIN jobs = JobIds /\ IsJob(jobs[j]) /\ entries \in [References -> Nat] /\ PaymentPostedOnce
  BY DEF MembershipInvariant
<1>2. ASSUME entries' = entries, paid' = paid, mishap' = mishap PROVE Grows
  BY <1>2, NothingPosted
<1>3. CASE CheckReference(j)
  <2>1. Where(j, "check") /\ Grows
    BY <1>2, <1>3 DEF CheckReference, ledgerVars, memberVars
  <2>2. CASE entry_exists(jobs[j].ref)
    <3>1. Return(j) /\ entries' = entries
      BY <1>3, <2>2 DEF CheckReference, ledgerVars
    <3> QED  BY <2>1, <2>2, <3>1, ReturnStep DEF Where, entry_exists
  <2>3. CASE ~ entry_exists(jobs[j].ref)
    <3>1. Move(j, "insert")
      BY <1>3, <2>3 DEF CheckReference
    <3> QED  BY <2>1, <3>1, MoveStep DEF Where
  <2> QED  BY <2>2, <2>3
<1>4. CASE insert_ledger_entry(j)
  <2>1. jobs[j].pc = "insert" /\ paid' = paid /\ mishap' = mishap
    BY <1>4 DEF insert_ledger_entry, Where, memberVars
  <2>2. CASE jobs[j].ref = NoReference /\ Move(j, "enrol") /\ entries' = entries
    BY <1>2, <2>1, <2>2, MoveStep, InvoicesAreReferences
  <2>3. CASE /\ jobs[j].ref # NoReference /\ ~ refused_by_index(jobs[j].ref)
             /\ entries' = [entries EXCEPT ![jobs[j].ref] = @ + 1] /\ Move(j, "enrol")
    <3>1. PICK ref : ref = jobs[j].ref
      OBVIOUS
    <3>2. entries' \in [References -> Nat] /\ PaymentPostedOnce'
          /\ (\A r \in Invoices : entries[r] > 0 => entries'[r] > 0) /\ (ref \in Invoices => entries'[ref] > 0)
      BY <1>1, <2>3, <3>1, PostedOnce
    <3>3. Grows
      BY <2>1, <3>2 DEF Grows, MembershipInvariant
    <3> QED  BY <2>1, <2>3, <3>1, <3>2, <3>3, MoveStep
  <2>4. CASE refused_by_index(jobs[j].ref) /\ Return(j) /\ entries' = entries
    BY <1>2, <2>1, <2>4, ReturnStep DEF refused_by_index
  <2> QED  BY <1>4, <2>2, <2>3, <2>4 DEF insert_ledger_entry
<1>5. CASE settle_after_credit(j)
  <2>1. jobs[j].pc = "enrol" /\ Grows /\ (Return(j) \/ Move(j, "afford"))
    BY <1>2, <1>5 DEF settle_after_credit, Where, ledgerVars, memberVars
  <2> QED  BY <2>1, ReturnStep, MoveStep
<1>6. CASE StartMembership(j)
  <2>1. jobs[j].pc = "afford" /\ Grows /\ (Return(j) \/ Move(j, "first"))
    BY <1>2, <1>6 DEF StartMembership, Where, ledgerVars, memberVars
  <2> QED  BY <2>1, ReturnStep, MoveStep
<1>7. CASE post_dues(j)
  <2>1. jobs[j].pc \in {"first", "renew"} /\ Grows
    BY <1>2, <1>7 DEF post_dues, memberVars
  <2>2. PICK next : SetJob(j, [jobs[j] EXCEPT !.pc = "anchor", !.next = next])
    BY <1>7 DEF post_dues
  <2>3. PICK x, y : x = jobs[j] /\ y = [x EXCEPT !.pc = "anchor", !.next = next]
    OBVIOUS
  <2>4. IsJob(y) /\ y.pc = "anchor" /\ Kin(x, y)
    BY <1>1, <2>3 DEF IsJob, Kin
  <2>5. ASSUME j \in Cycles, mishap' = FALSE PROVE Phases(y) /\ OwedSeen(y, entries', paid')
    <3>1. Phases(x) /\ OwedSeen(x, entries', paid')
      BY <2>1, <2>3, <2>5, SeenStays DEF MembershipInvariant, Grows
    <3> QED  BY <2>1, <2>3, <2>4, <3>1, PhasesGoOn, GoesOn
  <2> QED  BY <2>1, <2>2, <2>3, <2>4, <2>5, JobSteps DEF SetJob
<1>8. CASE set_membership_next_due(j)
  <2>1. jobs[j].pc = "anchor" /\ Grows /\ Move(j, "role")
    BY <1>2, <1>8 DEF set_membership_next_due, Where, ledgerVars
  <2> QED  BY <2>1, MoveStep
<1>9. CASE apply_role(j)
  <2>1. jobs[j].pc = "role" /\ Grows
    BY <1>2, <1>9 DEF apply_role, Where, ledgerVars, memberVars
  <2>2. PICK role : SetJob(j, [jobs[j] EXCEPT !.pc = "write", !.role = role])
    BY <1>9 DEF apply_role
  <2>3. PICK x, y : x = jobs[j] /\ y = [x EXCEPT !.pc = "write", !.role = role]
    OBVIOUS
  <2>4. IsJob(y) /\ y.pc = "write" /\ Kin(x, y)
    BY <1>1, <2>3 DEF IsJob, Kin
  <2>5. ASSUME j \in Cycles, mishap' = FALSE PROVE Phases(y) /\ OwedSeen(y, entries', paid')
    <3>1. Phases(x) /\ OwedSeen(x, entries', paid')
      BY <2>1, <2>3, <2>5, SeenStays DEF MembershipInvariant, Grows
    <3> QED  BY <2>1, <2>3, <2>4, <3>1, PhasesGoOn, GoesOn
  <2> QED  BY <2>1, <2>2, <2>3, <2>4, <2>5, JobSteps DEF SetJob
<1>10. CASE set_user_primary_role(j)
  <2>1. jobs[j].pc = "write" /\ Grows
    BY <1>2, <1>10 DEF set_user_primary_role, Where, ledgerVars
  <2>2. (jobs[j].back = "due" /\ Move(j, "loop")) \/ Return(j)
    BY <1>10 DEF set_user_primary_role
  <2> QED  BY <2>1, <2>2, ReturnStep, MoveStep
<1> QED  BY <1>3, <1>4, <1>5, <1>6, <1>7, <1>8, <1>9, <1>10 DEF JobStep

\* The steps of a cycle.
LEMMA CycleStepKeeps ==
    ASSUME WithinReach, MembershipInvariant, NEW j \in Cycles, CycleStep(j)
    PROVE  MembershipInvariant'
<1>1. j \in JobIds /\ DOMAIN jobs = JobIds /\ IsJob(jobs[j])
  BY DEF MembershipInvariant, JobIds
<1>2. ASSUME entries' = entries, paid' = paid, mishap' = mishap PROVE Grows
  BY <1>2, NothingPosted
<1>3. PICK x : x = jobs[j]
  OBVIOUS
<1>4. ASSUME Grows, NEW y, SetJob(j, y), IsJob(y),
             mishap' = FALSE /\ Phases(x) /\ OwedSeen(x, entries', paid') => Phases(y) /\ OwedSeen(y, entries', paid')
      PROVE  MembershipInvariant'
  <2>1. mishap' = FALSE => Phases(x) /\ OwedSeen(x, entries', paid')
    BY <1>3, <1>4, SeenStays DEF MembershipInvariant, Grows
  <2> QED  BY <1>1, <1>4, <2>1, JobSteps DEF SetJob
<1>5. CASE run_cycle(j)
  <2>1. Grows
    BY <1>2, <1>5 DEF run_cycle, ledgerVars, memberVars
  <2>2. PICK y : y = [NoJob EXCEPT !.pc = "poll", !.back = "bills",
                    !.links = {c \in Customers : users_with_stripe_customer(c)},
                    !.owed = {r \in paid \cap Invoices : customers[CustomerOf(r)].owner # Nobody}]
    OBVIOUS
  <2>3. SetJob(j, y) /\ paid' = paid
    BY <1>5, <2>2 DEF run_cycle, memberVars
  <2>4. /\ IsJob(y) /\ y.pc = "poll" /\ y.back = "bills" /\ y.bills = {}
        /\ y.links = {c \in Customers : users_with_stripe_customer(c)}
        /\ y.owed = {r \in paid \cap Invoices : customers[CustomerOf(r)].owner # Nobody}
    BY <2>2 DEF NoJob, Job, IsJob
  <2>5. ASSUME NEW r \in y.owed PROVE Ahead(y, r) /\ r \in paid' \cap Invoices
    <3>1. r \in paid \cap Invoices /\ customers[CustomerOf(r)].owner # Nobody
      BY <2>4
    <3>2. CustomerOf(r) \in Customers
      BY <3>1 DEF CustomerOf, Invoices
    <3> QED  BY <2>3, <2>4, <3>1, <3>2 DEF Ahead, users_with_stripe_customer
  <2>6. Phases(y) /\ OwedSeen(y, entries', paid')
    BY <2>4, <2>5 DEF Phases, OwedSeen
  <2> QED  BY <1>4, <2>1, <2>3, <2>4, <2>6
<1>6. CASE list_paid_invoices(j)
  <2>1. Grows /\ x.pc = "poll" /\ paid' = paid /\ entries' = entries /\ mishap' = mishap
    BY <1>2, <1>3, <1>6 DEF list_paid_invoices, Where, ledgerVars, memberVars
  <2>2. PICK c \in x.links :
           SetJob(j, [x EXCEPT !.pc = "bills", !.user = customers[c].owner, !.links = @ \ {c}, !.bills = Latest(c)])
    BY <1>3, <1>6 DEF list_paid_invoices
  <2>3. PICK y : y = [x EXCEPT !.pc = "bills", !.user = customers[c].owner, !.links = @ \ {c}, !.bills = Latest(c)]
    OBVIOUS
  <2>4. IsJob(y) /\ y.pc = "bills" /\ y.back = x.back /\ y.links = x.links \ {c} /\ y.bills = Latest(c) /\ y.owed = x.owed
    BY <1>1, <1>3, <2>3 DEF IsJob
  <2>5. ASSUME mishap' = FALSE, Phases(x), OwedSeen(x, entries', paid') PROVE Phases(y) /\ OwedSeen(y, entries', paid')
    <3>1. x.back = "bills" /\ x.bills = {}
      BY <2>1, <2>5 DEF Phases
    <3>2. Phases(y)
      BY <2>4, <3>1 DEF Phases
    <3>3. ASSUME NEW r \in y.owed PROVE r \in paid' \cap Invoices /\ (entries'[r] > 0 \/ Ahead(y, r))
      <4>1. r \in paid' \cap Invoices /\ (entries'[r] > 0 \/ Ahead(x, r))
        BY <2>4, <2>5 DEF OwedSeen
      <4>2. Ahead(x, r) => CustomerOf(r) \in x.links
        BY <2>1, <3>1 DEF Ahead
      <4>3. CustomerOf(r) = c => entries'[r] > 0 \/ r \in Latest(c)
        BY <1>3, <2>1, <2>4, <2>5 DEF WithinReach
      <4>4. Ahead(x, r) => entries'[r] > 0 \/ Ahead(y, r)
        BY <2>4, <3>1, <4>2, <4>3 DEF Ahead
      <4> QED  BY <4>1, <4>4
    <3> QED  BY <3>2, <3>3 DEF OwedSeen
  <2> QED  BY <1>4, <2>1, <2>2, <2>3, <2>4, <2>5
<1>7. CASE ReconcileNext(j)
  <2>1. Grows /\ x.pc = "bills"
    BY <1>2, <1>3, <1>7 DEF ReconcileNext, Where, ledgerVars, memberVars
  <2>2. CASE x.bills = {}
    <3>1. Move(j, "poll")
      BY <1>3, <1>7, <2>2 DEF ReconcileNext
    <3>2. PICK y : /\ jobs' = [jobs EXCEPT ![j] = y] /\ IsJob(y) /\ y.pc = "poll" /\ Kin(x, y)
                   /\ y.ref = x.ref
      BY <1>1, <1>3, <3>1, JobMoves
    <3>3. Phases(x) /\ OwedSeen(x, entries', paid') => Phases(y) /\ OwedSeen(y, entries', paid')
      <4>1. Phases(x) => x.back = "bills" 
        BY <2>1 DEF Phases
      <4>2. Phases(x) => Phases(y)
        BY <2>1, <2>2, <3>2, <4>1, PhasesGoOn
      <4> QED  BY <2>1, <3>2, <4>2, GoesOn
    <3> QED  BY <1>4, <2>1, <3>2, <3>3 DEF SetJob
  <2>3. CASE x.bills # {}
    <3>1. PICK i \in x.bills : SetJob(j, [x EXCEPT !.pc = "check", !.ref = i, !.amount = 1, !.bills = @ \ {i}])
      BY <1>3, <1>7, <2>3 DEF ReconcileNext
    <3>2. PICK y : y = [x EXCEPT !.pc = "check", !.ref = i, !.amount = 1, !.bills = @ \ {i}]
      OBVIOUS
    <3>3. IsJob(y) /\ y.pc = "check" /\ y.ref = i /\ y.back = x.back /\ y.links = x.links /\ y.bills = x.bills \ {i}
          /\ y.owed = x.owed
      BY <1>1, <1>3, <3>2 DEF IsJob
    <3>4. ASSUME Phases(x), OwedSeen(x, entries', paid') PROVE Phases(y) /\ OwedSeen(y, entries', paid')
      <4>1. Phases(y)
        BY <2>1, <3>3, <3>4 DEF Phases
      <4>2. \A r : Ahead(x, r) => Ahead(y, r)
        BY <2>1, <3>3 DEF Ahead
      <4> QED  BY <3>3, <3>4, <4>1, <4>2 DEF OwedSeen
    <3> QED  BY <1>4, <2>1, <3>1, <3>2, <3>3, <3>4
  <2> QED  BY <2>2, <2>3
<1>8. CASE enrolled_users(j)
  <2>1. Grows /\ x.pc = "poll" /\ x.links = {}
    BY <1>2, <1>3, <1>8 DEF enrolled_users, Where, ledgerVars, memberVars
  <2>2. PICK y : y = [NoJob EXCEPT !.pc = "due", !.back = "due", !.owed = x.owed,
                    !.users = {u \in Subscribers : nextDue[u] # NoDate}]
    OBVIOUS
  <2>3. SetJob(j, y)
    BY <1>3, <1>8, <2>2 DEF enrolled_users
  <2>4. IsJob(y) /\ y.pc = "due" /\ y.back = "due" /\ y.owed = x.owed
    BY <2>2 DEF NoJob, Job, IsJob
  <2>5. Phases(y)
    BY <2>4 DEF Phases
  <2>6. ASSUME Phases(x), OwedSeen(x, entries', paid') PROVE OwedSeen(y, entries', paid')
    <3>1. \A r : ~ Ahead(x, r)
      BY <2>1, <2>6 DEF Ahead, Phases
    <3> QED  BY <2>4, <2>6, <3>1 DEF OwedSeen
  <2> QED  BY <1>4, <2>1, <2>3, <2>4, <2>5, <2>6
<1>9. CASE settle_renewal(j)
  <2>1. Grows /\ x.pc = "due"
    BY <1>2, <1>3, <1>9 DEF settle_renewal, Where, ledgerVars, memberVars
  <2>2. CASE x.users = {}
    <3>1. PICK y : y = NoJob
      OBVIOUS
    <3>2. SetJob(j, y)
      BY <1>3, <1>9, <2>2, <3>1 DEF settle_renewal
    <3>3. IsJob(y) /\ Phases(y) /\ OwedSeen(y, entries', paid')
      <4>1. IsJob(y) /\ y.pc = "idle" /\ y.owed = {}
        BY <3>1 DEF NoJob, Job, IsJob
      <4> QED  BY <4>1 DEF Phases, OwedSeen
    <3> QED  BY <1>4, <2>1, <3>2, <3>3
  <2>3. CASE x.users # {}
    <3>1. PICK u \in x.users : SetJob(j, [x EXCEPT !.pc = "loop", !.user = u, !.users = @ \ {u},
                                            !.now = today, !.next = nextDue[u]])
      BY <1>3, <1>9, <2>3 DEF settle_renewal
    <3>2. PICK y : y = [x EXCEPT !.pc = "loop", !.user = u, !.users = @ \ {u}, !.now = today, !.next = nextDue[u]]
      OBVIOUS
    <3>3. IsJob(y) /\ y.pc = "loop" /\ Kin(x, y)
      BY <1>1, <1>3, <3>2 DEF IsJob, Kin
    <3>4. Phases(x) => Phases(y)
      BY <2>1, <3>3 DEF Phases, Kin
    <3>5. OwedSeen(x, entries', paid') => OwedSeen(y, entries', paid')
      BY <2>1, <3>3, GoesOn
    <3> QED  BY <1>4, <2>1, <3>1, <3>2, <3>3, <3>4, <3>5
  <2> QED  BY <2>2, <2>3
<1>10. CASE RenewalLoop(j)
  <2>1. Grows /\ x.pc = "loop"
    BY <1>2, <1>3, <1>10 DEF RenewalLoop, Where, ledgerVars, memberVars
  <2>2. CASE Return(j)
    BY <1>1, <1>3, <2>1, <2>2, ReturnStep
  <2>3. ASSUME NEW y, SetJob(j, y), IsJob(y), y.pc \in {"renew", "anchor"}, Kin(x, y) PROVE MembershipInvariant'
    <3>1. Phases(x) => Phases(y)
      BY <2>1, <2>3 DEF Phases, Kin
    <3>2. OwedSeen(x, entries', paid') => OwedSeen(y, entries', paid')
      BY <2>1, <2>3, GoesOn
    <3> QED  BY <1>4, <2>1, <2>3, <3>1, <3>2
  <2>4. CASE SetJob(j, [x EXCEPT !.pc = "renew", !.entitled = TRUE])
    <3>1. PICK y : y = [x EXCEPT !.pc = "renew", !.entitled = TRUE]
      OBVIOUS
    <3>2. IsJob(y) /\ y.pc = "renew" /\ Kin(x, y)
      BY <1>1, <1>3, <3>1 DEF IsJob, Kin
    <3> QED  BY <2>3, <2>4, <3>1, <3>2
  <2>5. CASE SetJob(j, [x EXCEPT !.pc = "anchor", !.entitled = FALSE, !.next = NoDate])
    <3>1. PICK y : y = [x EXCEPT !.pc = "anchor", !.entitled = FALSE, !.next = NoDate]
      OBVIOUS
    <3>2. IsJob(y) /\ y.pc = "anchor" /\ Kin(x, y)
      BY <1>1, <1>3, <3>1 DEF IsJob, Kin
    <3> QED  BY <2>3, <2>5, <3>1, <3>2
  <2> QED  BY <1>3, <1>10, <2>2, <2>4, <2>5 DEF RenewalLoop
<1>11. CASE JobStep(j)
  BY <1>1, <1>11, JobStepKeeps
<1> QED  BY <1>5, <1>6, <1>7, <1>8, <1>9, <1>10, <1>11 DEF CycleStep

\* After a failure nothing more is claimed of the cycles.
LEMMA FailureKeeps ==
    ASSUME MembershipInvariant, entries' = entries, paid' = paid, mishap' = TRUE, DOMAIN jobs' = JobIds,
           \A i \in JobIds : IsJob(jobs'[i])
    PROVE  MembershipInvariant'
BY DEF MembershipInvariant, PaymentPostedOnce

\* A failed call ends the turn the job was at.
LEMMA FailedJob ==
    ASSUME NEW j \in JobIds, DOMAIN jobs = JobIds, IsJob(jobs[j]), JobFails(j)
    PROVE  \E y : /\ jobs' = [jobs EXCEPT ![j] = y] /\ IsJob(y)
                  /\ \/ y.entitled = TRUE /\ y.role = NoChange
                     \/ /\ y.pc = jobs[j].pc /\ y.user = jobs[j].user /\ y.role = jobs[j].role
                        /\ y.entitled = jobs[j].entitled
<1>1. PICK x : x = jobs[j]
  OBVIOUS
<1>2. CASE Where(j, "poll") /\ x.links # {}
  <2>1. PICK c \in x.links : SetJob(j, [x EXCEPT !.links = @ \ {c}])
    BY <1>1, <1>2 DEF JobFails, Where
  <2>2. PICK y : y = [x EXCEPT !.links = @ \ {c}]
    OBVIOUS
  <2>3. IsJob(y) /\ y.pc = x.pc /\ y.user = x.user /\ y.role = x.role /\ y.entitled = x.entitled
    BY <1>1, <2>2 DEF IsJob
  <2> QED  BY <1>1, <2>1, <2>2, <2>3 DEF SetJob
<1>3. CASE Where(j, "poll") /\ x.links = {}
  <2>1. PICK y : y = NoJob
    OBVIOUS
  <2>2. SetJob(j, y)
    BY <1>1, <1>3, <2>1 DEF JobFails, Where
  <2>3. IsJob(y) /\ y.entitled = TRUE /\ y.role = NoChange
    BY <2>1 DEF NoJob, Job, IsJob
  <2> QED  BY <2>2, <2>3 DEF SetJob
<1>4. CASE Where(j, "due")
  <2>1. PICK u \in x.users : SetJob(j, [x EXCEPT !.users = @ \ {u}])
    BY <1>1, <1>4 DEF JobFails, Where
  <2>2. PICK y : y = [x EXCEPT !.users = @ \ {u}]
    OBVIOUS
  <2>3. IsJob(y) /\ y.pc = x.pc /\ y.user = x.user /\ y.role = x.role /\ y.entitled = x.entitled
    BY <1>1, <2>2 DEF IsJob
  <2> QED  BY <1>1, <2>1, <2>2, <2>3 DEF SetJob
<1>5. CASE ~ Where(j, "poll") /\ ~ Where(j, "due")
  <2>1. Return(j)
    BY <1>5 DEF JobFails
  <2> QED  BY <2>1, JobReturns
<1> QED  BY <1>2, <1>3, <1>4, <1>5

\* What a webhook, staff or Stripe does starts a request at most.
StartsAtMost ==
    \/ jobs' = jobs
    \/ \E h \in Hooks : \E y : /\ jobs' = [jobs EXCEPT ![h] = y] /\ IsJob(y) /\ y.pc # "write"
                               /\ y.entitled = TRUE /\ y.role = NoChange

\* The steps other than those of a request or a cycle under way.
Around ==
    \/ \E h \in Hooks, u \in Subscribers, c \in Customers, oneShot \in BOOLEAN :
          handle_checkout_completed(h, u, c, oneShot)
    \/ \E u \in Subscribers, c \in Customers, oneShot \in BOOLEAN : create_checkout(u, c, oneShot)
    \/ \E c \in Customers, n \in 1..MaxInvoices : StripePaid(c, n)
    \/ \E c \in Customers : handle_subscription_updated(c) \/ handle_subscription_deleted(c)
    \/ \E h \in Hooks, i \in Invoices : handle_invoice_paid(h, i)
    \/ \E p \in Payments : StripeRefunds(p) \/ \E h \in Hooks : handle_charge_refunded(h, p)
    \/ \E u \in Subscribers, a \in StaffAmounts, h \in Hooks : admin_log_payment(h, u, a)
    \/ \E u \in Subscribers : admin_set_next_due(u, NoDate) \/ admin_set_next_due(u, today)
    \/ DayPasses

LEMMA AroundChanges ==
    ASSUME Around
    PROVE  entries' = entries /\ paid \subseteq paid' /\ mishap' = mishap /\ tier' = tier /\ StartsAtMost
<1> DEFINE Goal == entries' = entries /\ paid \subseteq paid' /\ mishap' = mishap /\ tier' = tier /\ StartsAtMost
<1>1. ASSUME NEW h \in Hooks, NEW u, NEW c, NEW oneShot \in BOOLEAN, handle_checkout_completed(h, u, c, oneShot)
      PROVE  Goal
  <2>1. /\ entries' = entries /\ paid' = paid /\ mishap' = mishap /\ tier' = tier
        /\ \/ jobs' = jobs
           \/ SetJob(h, [Job("check", u) EXCEPT !.ref = <<"session", c, 0>>, !.amount = 1])
    BY <1>1 DEF handle_checkout_completed, ledgerVars
  <2>2. PICK y : y = [Job("check", u) EXCEPT !.ref = <<"session", c, 0>>, !.amount = 1]
    OBVIOUS
  <2>3. IsJob(y) /\ y.pc = "check" /\ y.entitled = TRUE /\ y.role = NoChange
    BY <2>2 DEF Job, IsJob
  <2> QED  BY <2>1, <2>2, <2>3 DEF StartsAtMost, SetJob
<1>2. ASSUME NEW u, NEW c, NEW oneShot, create_checkout(u, c, oneShot) PROVE Goal
  BY <1>2 DEF create_checkout, ledgerVars, StartsAtMost
<1>3. ASSUME NEW c, NEW n, StripePaid(c, n) PROVE Goal
  BY <1>3 DEF StripePaid, ledgerVars, StartsAtMost
<1>4. ASSUME NEW c, handle_subscription_updated(c) \/ handle_subscription_deleted(c) PROVE Goal
  BY <1>4 DEF handle_subscription_updated, handle_subscription_deleted, set_stripe_subscription, ledgerVars,
              StartsAtMost
<1>5. ASSUME NEW h \in Hooks, NEW ref, HookFor(h, ref) PROVE Goal
  <2>1. PICK y : y = [Job("check", customers[CustomerOf(ref)].owner) EXCEPT !.ref = ref, !.amount = SignOf(ref)]
    OBVIOUS
  <2>2. entries' = entries /\ paid' = paid /\ mishap' = mishap /\ tier' = tier /\ SetJob(h, y)
    BY <1>5, <2>1 DEF HookFor, ledgerVars, memberVars
  <2>3. IsJob(y) /\ y.pc = "check" /\ y.entitled = TRUE /\ y.role = NoChange
    BY <2>1 DEF Job, IsJob
  <2> QED  BY <2>2, <2>3 DEF StartsAtMost, SetJob
<1>6. ASSUME NEW p, StripeRefunds(p) PROVE Goal
  BY <1>6 DEF StripeRefunds, ledgerVars, StartsAtMost
<1>7. ASSUME NEW u, NEW a, NEW h \in Hooks, admin_log_payment(h, u, a) PROVE Goal
  <2>1. PICK y : y = [Job("insert", u) EXCEPT !.amount = a]
    OBVIOUS
  <2>2. entries' = entries /\ paid' = paid /\ mishap' = mishap /\ tier' = tier /\ SetJob(h, y)
    BY <1>7, <2>1 DEF admin_log_payment, ledgerVars, memberVars
  <2>3. IsJob(y) /\ y.pc = "insert" /\ y.entitled = TRUE /\ y.role = NoChange
    BY <2>1 DEF Job, IsJob
  <2> QED  BY <2>2, <2>3 DEF StartsAtMost, SetJob
<1>8. ASSUME NEW u, NEW d, admin_set_next_due(u, d) PROVE Goal
  BY <1>8 DEF admin_set_next_due, ledgerVars, StartsAtMost
<1>9. ASSUME DayPasses PROVE Goal
  BY <1>9 DEF DayPasses, ledgerVars, memberVars, StartsAtMost
<1> SUFFICES Goal
  BY DEF Goal
<1> HIDE DEF Goal
<1>10. ASSUME NEW h \in Hooks, NEW i, handle_invoice_paid(h, i) \/ handle_charge_refunded(h, i) PROVE Goal
  BY <1>5, <1>10 DEF handle_invoice_paid, handle_charge_refunded
<1>11. CASE \E h \in Hooks, u \in Subscribers, c \in Customers, oneShot \in BOOLEAN :
              handle_checkout_completed(h, u, c, oneShot)
  BY <1>1, <1>11
<1>12. CASE \E u \in Subscribers, c \in Customers, oneShot \in BOOLEAN : create_checkout(u, c, oneShot)
  BY <1>2, <1>12
<1>13. CASE \E c \in Customers, n \in 1..MaxInvoices : StripePaid(c, n)
  BY <1>3, <1>13
<1>14. CASE \E c \in Customers : handle_subscription_updated(c) \/ handle_subscription_deleted(c)
  BY <1>4, <1>14
<1>15. CASE \E h \in Hooks, i \in Invoices : handle_invoice_paid(h, i)
  BY <1>10, <1>15
<1>16. CASE \E p \in Payments : StripeRefunds(p) \/ \E h \in Hooks : handle_charge_refunded(h, p)
  BY <1>6, <1>10, <1>16
<1>17. CASE \E u \in Subscribers, a \in StaffAmounts, h \in Hooks : admin_log_payment(h, u, a)
  BY <1>7, <1>17
<1>18. CASE \E u \in Subscribers : admin_set_next_due(u, NoDate) \/ admin_set_next_due(u, today)
  BY <1>8, <1>18
<1> QED  BY <1>9, <1>11, <1>12, <1>13, <1>14, <1>15, <1>16, <1>17, <1>18 DEF Around

\* Every step keeps what the ledger's invariant says.
LEMMA MembershipStep ==
    ASSUME WithinReach, MembershipInvariant, MembershipNext
    PROVE  MembershipInvariant'
<1>1. CASE Around
  <2>1. Grows /\ StartsAtMost
    BY <1>1, AroundChanges, NothingPosted
  <2> QED  BY <2>1, JobsStand, HookSteps DEF StartsAtMost
<1>2. ASSUME NEW h \in Hooks, JobStep(h) PROVE MembershipInvariant'
  BY <1>2, JobStepKeeps DEF JobIds
<1>3. ASSUME NEW j \in Cycles, CycleStep(j) PROVE MembershipInvariant'
  BY <1>3, CycleStepKeeps
<1>4. ASSUME NEW j \in JobIds, JobFails(j) PROVE MembershipInvariant'
  <2>1. entries' = entries /\ paid' = paid /\ mishap' = TRUE
    BY <1>4 DEF JobFails, ledgerVars, memberVars
  <2>2. DOMAIN jobs = JobIds /\ \A i \in JobIds : IsJob(jobs[i])
    BY DEF MembershipInvariant
  <2>3. PICK y : jobs' = [jobs EXCEPT ![j] = y] /\ IsJob(y)
    BY <1>4, <2>2, FailedJob
  <2> QED  BY <2>1, <2>2, <2>3, FailureKeeps
<1>5. CASE ServerRestarts
  <2>1. entries' = entries /\ paid' = paid /\ mishap' = TRUE /\ jobs' = [j \in JobIds |-> NoJob]
    BY <1>5 DEF ServerRestarts, ledgerVars, memberVars
  <2>2. IsJob(NoJob)
    BY DEF NoJob, Job, IsJob
  <2> QED  BY <2>1, <2>2, FailureKeeps
<1> QED  BY <1>1, <1>2, <1>3, <1>4, <1>5 DEF MembershipNext, Around

\* The index holds whatever is within reach.
LEMMA EntriesStayUnique == MembershipSpec => []PaymentPostedOnce
<1> DEFINE Unique == entries \in [References -> Nat] /\ PaymentPostedOnce
<1>1. MembershipInit => Unique
  <2> SUFFICES ASSUME MembershipInit PROVE Unique
    OBVIOUS
  <2>1. entries = [r \in References |-> 0]
    BY DEF MembershipInit
  <2> QED  BY <2>1 DEF PaymentPostedOnce
<1>2. ASSUME Unique, MembershipNext PROVE Unique'
  <2>1. ASSUME entries' = entries PROVE Unique'
    BY <1>2, <2>1 DEF PaymentPostedOnce
  <2>2. ASSUME NEW j \in JobIds, insert_ledger_entry(j) PROVE Unique'
    BY <1>2, <2>1, <2>2, PostedOnce DEF insert_ledger_entry
  <2>3. ASSUME NEW j \in JobIds, JobStep(j) PROVE entries' = entries \/ insert_ledger_entry(j)
    BY <2>3 DEF JobStep, CheckReference, settle_after_credit, StartMembership, post_dues, set_membership_next_due,
                apply_role, set_user_primary_role, ledgerVars
  <2>4. ASSUME NEW j \in Cycles, CycleStep(j) PROVE entries' = entries \/ insert_ledger_entry(j)
    BY <2>3, <2>4 DEF CycleStep, JobIds, run_cycle, list_paid_invoices, ReconcileNext, enrolled_users, settle_renewal,
                RenewalLoop, ledgerVars
  <2>5. CASE Around
    BY <2>1, <2>5, AroundChanges
  <2>6. CASE \E j \in JobIds : JobFails(j)
    BY <2>1, <2>6 DEF JobFails, ledgerVars
  <2>7. CASE ServerRestarts
    BY <2>1, <2>7 DEF ServerRestarts, ledgerVars
  <2> QED  BY <1>2, <2>1, <2>2, <2>3, <2>4, <2>5, <2>6, <2>7 DEF MembershipNext, Around, JobIds
<1>3. Unique /\ UNCHANGED membershipVars => Unique'
  BY DEF membershipVars, ledgerVars, PaymentPostedOnce
<1>4. Unique => PaymentPostedOnce
  OBVIOUS
<1> HIDE DEF Unique
<1>5. Unique /\ [MembershipNext]_membershipVars => Unique'
  BY <1>2, <1>3
<1> QED  BY <1>1, <1>4, <1>5, PTL DEF MembershipSpec

-----------------------------------------------------------------------------
(* The last administrator *)

\* A step of one job that writes no role.
LEMMA NoRoleWritten ==
    ASSUME AdminInvariant, tier' = tier, NEW j \in JobIds, NEW y, jobs' = [jobs EXCEPT ![j] = y], IsJob(y),
           y.role \in {NoChange, "active", "historical"}, RolePlanned(y, tier),
           j \in Hooks => y.entitled = TRUE /\ y.role # "historical"
    PROVE  AdminInvariant'
<1>1. DOMAIN jobs' = JobIds /\ jobs'[j] = y /\ \A i \in JobIds : i # j => jobs'[i] = jobs[i]
  BY DEF AdminInvariant
<1>2. ASSUME NEW i \in JobIds
      PROVE  IsJob(jobs'[i]) /\ jobs'[i].role \in {NoChange, "active", "historical"} /\ RolePlanned(jobs'[i], tier')
  <2>1. CASE i = j
    BY <1>1, <2>1
  <2>2. CASE i # j
    BY <1>1, <2>2 DEF AdminInvariant
  <2> QED  BY <2>1, <2>2
<1>3. ASSUME NEW h \in Hooks PROVE jobs'[h].entitled = TRUE /\ jobs'[h].role # "historical"
  <2>1. CASE h = j
    BY <1>1, <2>1
  <2>2. CASE h # j
    BY <1>1, <2>2 DEF AdminInvariant, JobIds
  <2> QED  BY <2>1, <2>2
<1>4. AnAdministratorRemains'
  BY DEF AdminInvariant, AnAdministratorRemains
<1> QED  BY <1>1, <1>2, <1>3, <1>4 DEF AdminInvariant

\* Nothing is planned by a job that has no role to write.
LEMMA NothingPlanned ==
    ASSUME NEW y, NEW t, y.pc # "write" \/ y.role = NoChange
    PROVE  RolePlanned(y, t)
BY DEF RolePlanned, NoChange

\* The role is written.
LEMMA RoleWritten ==
    ASSUME \A i, k \in Cycles : i = k, AdminInvariant, NEW j \in JobIds, set_user_primary_role(j)
    PROVE  AdminInvariant'
<1>1. PICK x : x = jobs[j]
  OBVIOUS
<1>2. /\ DOMAIN jobs = JobIds /\ DOMAIN tier = Subscribers /\ IsJob(x) /\ x.pc = "write" /\ RolePlanned(x, tier)
      /\ x.role \in {NoChange, "active", "historical"}
      /\ j \in Hooks => x.entitled = TRUE /\ x.role # "historical"
  BY <1>1 DEF set_user_primary_role, AdminInvariant, Where
<1>3. PICK y : /\ jobs' = [jobs EXCEPT ![j] = y] /\ IsJob(y)
               /\ y.pc # "write" \/ y.role = NoChange
               /\ y.role \in {NoChange, "active", "historical"}
               /\ j \in Hooks => y.entitled = TRUE /\ y.role # "historical"
  <2>1. CASE Move(j, "loop")
    <3>1. PICK y : /\ jobs' = [jobs EXCEPT ![j] = y] /\ IsJob(y) /\ y.pc = "loop"
                   /\ y.role = x.role /\ y.entitled = x.entitled
      BY <1>1, <1>2, <2>1, JobMoves
    <3> QED  BY <1>2, <3>1
  <2>2. CASE Return(j)
    <3>1. PICK y : jobs' = [jobs EXCEPT ![j] = y] /\ IsJob(y) /\ y.role = NoChange /\ y.entitled = TRUE
      BY <1>2, <2>2, JobReturns
    <3> QED  BY <3>1 DEF NoChange
  <2> QED  BY <2>1, <2>2 DEF set_user_primary_role
<1>4. tier' = IF x.role = NoChange THEN tier ELSE [tier EXCEPT ![x.user] = x.role]
  BY <1>1 DEF set_user_primary_role
<1>5. RolePlanned(y, tier) /\ RolePlanned(y, tier')
  BY <1>3, NothingPlanned
<1>6. CASE x.role = NoChange
  BY <1>3, <1>4, <1>5, <1>6, NoRoleWritten
<1>7. CASE x.role # NoChange
  <2>1. /\ DOMAIN tier' = Subscribers
        /\ \A v \in Subscribers : tier'[v] = IF v = x.user THEN x.role ELSE tier[v]
    BY <1>2, <1>4, <1>7
  <2>2. DOMAIN jobs' = JobIds /\ jobs'[j] = y /\ \A i \in JobIds : i # j => jobs'[i] = jobs[i]
    BY <1>2, <1>3
  <2>3. \A i \in JobIds : IsJob(jobs'[i]) /\ jobs'[i].role \in {NoChange, "active", "historical"}
    BY <1>3, <2>2 DEF AdminInvariant
  <2>4. ASSUME NEW h \in Hooks PROVE jobs'[h].entitled = TRUE /\ jobs'[h].role # "historical"
    <3>1. CASE h = j
      BY <1>3, <2>2, <3>1
    <3>2. CASE h # j
      BY <2>2, <3>2 DEF AdminInvariant, JobIds
    <3> QED  BY <3>1, <3>2
  <2>5. FirstAdmins # {} => \E v \in Subscribers : v # x.user /\ tier[v] = "admin"
    <3>1. CASE x.role = "active"
      BY <1>2, <3>1 DEF RolePlanned, AdminInvariant, AnAdministratorRemains
    <3>2. CASE x.role = "historical"
      BY <1>2, <3>2 DEF RolePlanned
    <3> QED  BY <1>2, <1>7, <3>1, <3>2
  <2>6. AnAdministratorRemains'
    BY <2>1, <2>5 DEF AnAdministratorRemains
  <2>7. ASSUME NEW i \in JobIds PROVE RolePlanned(jobs'[i], tier')
    <3>1. CASE i = j
      BY <1>5, <2>2, <3>1
    <3>2. CASE i # j
      <4>1. PICK z : z = jobs[i]
        OBVIOUS
      <4>2. jobs'[i] = z /\ RolePlanned(z, tier) /\ z.role \in {NoChange, "active", "historical"}
        BY <2>2, <3>2, <4>1 DEF AdminInvariant
      <4>3. ASSUME z.pc = "write", z.role = "active", z.user \in Subscribers PROVE tier'[z.user] # "admin"
        <5>1. tier[z.user] # "admin" /\ x.role # "admin"
          BY <1>2, <4>2, <4>3 DEF RolePlanned, NoChange
        <5> QED  BY <2>1, <4>3, <5>1
      <4>4. ASSUME z.pc = "write", z.role = "historical", FirstAdmins # {}
            PROVE  \E v \in Subscribers : v # z.user /\ tier'[v] = "admin"
        <5>1. i \in Cycles /\ j \in Hooks
          BY <3>2, <4>1, <4>4 DEF AdminInvariant, JobIds
        <5>2. x.role = "active" /\ (x.user \in Subscribers => tier[x.user] # "admin")
          BY <1>2, <1>7, <5>1 DEF RolePlanned
        <5>3. PICK v \in Subscribers : v # z.user /\ tier[v] = "admin"
          BY <4>2, <4>4 DEF RolePlanned
        <5> QED  BY <2>1, <5>2, <5>3
      <4> QED  BY <4>2, <4>3, <4>4 DEF RolePlanned
    <3> QED  BY <3>1, <3>2
  <2> QED  BY <2>1, <2>2, <2>3, <2>4, <2>6, <2>7 DEF AdminInvariant
<1> QED  BY <1>6, <1>7

\* The role is planned: whoever is the last administrator is not demoted.
LEMMA RoleIsPlanned ==
    ASSUME AdminInvariant, NEW j \in JobIds, apply_role(j)
    PROVE  AdminInvariant'
<1>1. PICK x : x = jobs[j]
  OBVIOUS
<1>2. /\ DOMAIN jobs = JobIds /\ DOMAIN tier = Subscribers /\ IsJob(x) /\ tier' = tier
      /\ j \in Hooks => x.entitled = TRUE
  BY <1>1 DEF AdminInvariant, apply_role, memberVars
<1> DEFINE last == tier[x.user] = "admin" /\ count_active_admins <= 1
           role == plan_role_transition(tier[x.user], x.entitled, last)
<1>3. PICK y : y = [x EXCEPT !.pc = "write", !.role = role]
  OBVIOUS
<1>4. jobs' = [jobs EXCEPT ![j] = y]
  BY <1>1, <1>3 DEF apply_role, SetJob
<1>5. IsJob(y) /\ y.pc = "write" /\ y.role = role /\ y.user = x.user /\ y.entitled = x.entitled
  BY <1>2, <1>3 DEF IsJob
<1>6. /\ role \in {NoChange, "active", "historical"}
      /\ role = "active" => tier[x.user] # "admin"
      /\ role = "historical" => ~ x.entitled /\ ~ last
  BY DEF plan_role_transition, Level, NoChange
<1> HIDE DEF role
<1>7. ASSUME role = "historical", FirstAdmins # {} PROVE \E v \in Subscribers : v # x.user /\ tier[v] = "admin"
  <2>1. CASE tier[x.user] # "admin"
    BY <2>1, <1>7 DEF AdminInvariant, AnAdministratorRemains
  <2>2. CASE tier[x.user] = "admin" /\ ~ (count_active_admins <= 1)
    <3> DEFINE S == {u \in Subscribers : tier[u] = "admin"}
    <3>1. SUFFICES ASSUME S \subseteq {x.user} PROVE FALSE
      OBVIOUS
    <3>2. S # {}
      BY <1>7 DEF AdminInvariant, AnAdministratorRemains
    <3>3. S = {x.user}
      BY <3>1, <3>2
    <3>4. Cardinality(S) = 1
      BY <3>3, FS_Singleton
    <3> QED  BY <2>2, <3>4 DEF count_active_admins
  <2> QED  BY <1>6, <1>7, <2>1, <2>2
<1>8. RolePlanned(y, tier)
  BY <1>5, <1>6, <1>7 DEF RolePlanned
<1>9. j \in Hooks => y.entitled = TRUE /\ y.role # "historical"
  BY <1>2, <1>5, <1>6
<1> QED  BY <1>2, <1>4, <1>5, <1>6, <1>8, <1>9, NoRoleWritten

\* A job moves on or returns with no role to write.
LEMMA AdminMoves ==
    ASSUME AdminInvariant, tier' = tier, NEW j \in JobIds,
           Return(j) \/ \E pc : pc # "write" /\ Move(j, pc)
    PROVE  AdminInvariant'
<1>1. DOMAIN jobs = JobIds /\ IsJob(jobs[j])
  BY DEF AdminInvariant
<1>2. CASE Return(j)
  <2>1. PICK y : jobs' = [jobs EXCEPT ![j] = y] /\ IsJob(y) /\ y.role = NoChange /\ y.entitled = TRUE
    BY <1>1, <1>2, JobReturns
  <2> QED  BY <2>1, NothingPlanned, NoRoleWritten DEF NoChange
<1>3. ASSUME NEW pc, pc # "write", Move(j, pc) PROVE AdminInvariant'
  <2>1. PICK y : /\ jobs' = [jobs EXCEPT ![j] = y] /\ IsJob(y) /\ y.pc = pc
                 /\ y.role = jobs[j].role /\ y.entitled = jobs[j].entitled
    BY <1>1, <1>3, JobMoves
  <2>2. y.role \in {NoChange, "active", "historical"} /\ (j \in Hooks => y.entitled = TRUE /\ y.role # "historical")
    BY <2>1 DEF AdminInvariant
  <2> QED  BY <1>3, <2>1, <2>2, NothingPlanned, NoRoleWritten
<1> QED  BY <1>2, <1>3

\* A step of a credit or a role.
LEMMA AdminJobStep ==
    ASSUME \A i, k \in Cycles : i = k, AdminInvariant, NEW j \in JobIds, JobStep(j)
    PROVE  AdminInvariant'
<1>1. DOMAIN jobs = JobIds /\ IsJob(jobs[j])
  BY DEF AdminInvariant
<1>2. CASE CheckReference(j)
  BY <1>2, AdminMoves DEF CheckReference, memberVars
<1>3. CASE insert_ledger_entry(j)
  BY <1>3, AdminMoves DEF insert_ledger_entry, memberVars
<1>4. CASE settle_after_credit(j)
  BY <1>4, AdminMoves DEF settle_after_credit, memberVars
<1>5. CASE StartMembership(j)
  BY <1>5, AdminMoves DEF StartMembership, memberVars
<1>6. CASE post_dues(j)
  <2>1. PICK next : SetJob(j, [jobs[j] EXCEPT !.pc = "anchor", !.next = next])
    BY <1>6 DEF post_dues
  <2>2. PICK x, y : x = jobs[j] /\ y = [x EXCEPT !.pc = "anchor", !.next = next]
    OBVIOUS
  <2>3. IsJob(y) /\ y.pc = "anchor" /\ y.role = x.role /\ y.entitled = x.entitled
    BY <1>1, <2>2 DEF IsJob
  <2>4. y.role \in {NoChange, "active", "historical"} /\ (j \in Hooks => y.entitled = TRUE /\ y.role # "historical")
    BY <2>2, <2>3 DEF AdminInvariant
  <2>5. tier' = tier /\ jobs' = [jobs EXCEPT ![j] = y]
    BY <1>6, <2>1, <2>2 DEF post_dues, memberVars, SetJob
  <2> QED  BY <2>3, <2>4, <2>5, NothingPlanned, NoRoleWritten
<1>7. CASE set_membership_next_due(j)
  BY <1>7, AdminMoves DEF set_membership_next_due
<1>8. CASE apply_role(j)
  BY <1>8, RoleIsPlanned
<1>9. CASE set_user_primary_role(j)
  BY <1>9, RoleWritten
<1> QED  BY <1>2, <1>3, <1>4, <1>5, <1>6, <1>7, <1>8, <1>9 DEF JobStep

\* A step of a cycle.
LEMMA AdminCycleStep ==
    ASSUME \A i, k \in Cycles : i = k, AdminInvariant, NEW j \in Cycles, CycleStep(j)
    PROVE  AdminInvariant'
<1>1. j \in JobIds /\ j \notin Hooks /\ DOMAIN jobs = JobIds /\ IsJob(jobs[j])
  BY MembershipAssumption DEF AdminInvariant, JobIds
<1>2. PICK x : x = jobs[j]
  OBVIOUS
<1>3. IsJob(x) /\ x.role \in {NoChange, "active", "historical"}
  BY <1>1, <1>2 DEF AdminInvariant
<1>4. ASSUME NEW y, SetJob(j, y), tier' = tier, IsJob(y), y.role \in {x.role, NoChange}, y.pc # "write"
      PROVE  AdminInvariant'
  <2>1. y.role \in {NoChange, "active", "historical"}
    BY <1>3, <1>4
  <2>2. RolePlanned(y, tier)
    BY <1>4, NothingPlanned
  <2> QED  BY <1>1, <1>4, <2>1, <2>2, NoRoleWritten DEF SetJob
<1>5. CASE run_cycle(j)
  <2>1. PICK y : y = [NoJob EXCEPT !.pc = "poll", !.back = "bills",
                    !.links = {c \in Customers : users_with_stripe_customer(c)},
                    !.owed = {r \in paid \cap Invoices : customers[CustomerOf(r)].owner # Nobody}]
    OBVIOUS
  <2>2. IsJob(y) /\ y.role = NoChange /\ y.pc = "poll"
    BY <2>1 DEF NoJob, Job, IsJob
  <2> QED  BY <1>4, <1>5, <2>1, <2>2 DEF run_cycle, memberVars
<1>6. CASE list_paid_invoices(j)
  <2>1. PICK c \in x.links :
           SetJob(j, [x EXCEPT !.pc = "bills", !.user = customers[c].owner, !.links = @ \ {c}, !.bills = Latest(c)])
    BY <1>2, <1>6 DEF list_paid_invoices
  <2>2. PICK y : y = [x EXCEPT !.pc = "bills", !.user = customers[c].owner, !.links = @ \ {c}, !.bills = Latest(c)]
    OBVIOUS
  <2>3. IsJob(y) /\ y.role = x.role /\ y.pc = "bills"
    BY <1>3, <2>2 DEF IsJob
  <2> QED  BY <1>4, <1>6, <2>1, <2>2, <2>3 DEF list_paid_invoices, memberVars
<1>7. CASE ReconcileNext(j)
  <2>1. CASE x.bills = {}
    BY <1>1, <1>2, <1>7, <2>1, AdminMoves DEF ReconcileNext, memberVars
  <2>2. CASE x.bills # {}
    <3>1. PICK i \in x.bills : SetJob(j, [x EXCEPT !.pc = "check", !.ref = i, !.amount = 1, !.bills = @ \ {i}])
      BY <1>2, <1>7, <2>2 DEF ReconcileNext
    <3>2. PICK y : y = [x EXCEPT !.pc = "check", !.ref = i, !.amount = 1, !.bills = @ \ {i}]
      OBVIOUS
    <3>3. IsJob(y) /\ y.role = x.role /\ y.pc = "check"
      BY <1>3, <3>2 DEF IsJob
    <3> QED  BY <1>4, <1>7, <3>1, <3>2, <3>3 DEF ReconcileNext, memberVars
  <2> QED  BY <2>1, <2>2
<1>8. CASE enrolled_users(j)
  <2>1. PICK y : y = [NoJob EXCEPT !.pc = "due", !.back = "due", !.owed = x.owed,
                    !.users = {u \in Subscribers : nextDue[u] # NoDate}]
    OBVIOUS
  <2>2. IsJob(y) /\ y.role = NoChange /\ y.pc = "due"
    BY <2>1 DEF NoJob, Job, IsJob
  <2> QED  BY <1>2, <1>4, <1>8, <2>1, <2>2 DEF enrolled_users, memberVars
<1>9. CASE settle_renewal(j)
  <2>1. CASE x.users = {}
    <3>1. PICK y : y = NoJob
      OBVIOUS
    <3>2. IsJob(y) /\ y.role = NoChange /\ y.pc = "idle"
      BY <3>1 DEF NoJob, Job, IsJob
    <3> QED  BY <1>2, <1>4, <1>9, <2>1, <3>1, <3>2 DEF settle_renewal, memberVars
  <2>2. CASE x.users # {}
    <3>1. PICK u \in x.users : SetJob(j, [x EXCEPT !.pc = "loop", !.user = u, !.users = @ \ {u},
                                            !.now = today, !.next = nextDue[u]])
      BY <1>2, <1>9, <2>2 DEF settle_renewal
    <3>2. PICK y : y = [x EXCEPT !.pc = "loop", !.user = u, !.users = @ \ {u}, !.now = today, !.next = nextDue[u]]
      OBVIOUS
    <3>3. IsJob(y) /\ y.role = x.role /\ y.pc = "loop"
      BY <1>3, <3>2 DEF IsJob
    <3> QED  BY <1>4, <1>9, <3>1, <3>2, <3>3 DEF settle_renewal, memberVars
  <2> QED  BY <2>1, <2>2
<1>10. CASE RenewalLoop(j)
  <2>1. tier' = tier
    BY <1>10 DEF RenewalLoop, memberVars
  <2>2. CASE Return(j)
    BY <1>1, <2>1, <2>2, AdminMoves
  <2>3. CASE SetJob(j, [x EXCEPT !.pc = "renew", !.entitled = TRUE])
    <3>1. PICK y : y = [x EXCEPT !.pc = "renew", !.entitled = TRUE]
      OBVIOUS
    <3>2. IsJob(y) /\ y.role = x.role /\ y.pc = "renew"
      BY <1>3, <3>1 DEF IsJob
    <3> QED  BY <1>4, <2>1, <2>3, <3>1, <3>2
  <2>4. CASE SetJob(j, [x EXCEPT !.pc = "anchor", !.entitled = FALSE, !.next = NoDate])
    <3>1. PICK y : y = [x EXCEPT !.pc = "anchor", !.entitled = FALSE, !.next = NoDate]
      OBVIOUS
    <3>2. IsJob(y) /\ y.role = x.role /\ y.pc = "anchor"
      BY <1>3, <3>1 DEF IsJob
    <3> QED  BY <1>4, <2>1, <2>4, <3>1, <3>2
  <2> QED  BY <1>2, <1>10, <2>2, <2>3, <2>4 DEF RenewalLoop
<1>11. CASE JobStep(j)
  BY <1>1, <1>11, AdminJobStep
<1> QED  BY <1>5, <1>6, <1>7, <1>8, <1>9, <1>10, <1>11 DEF CycleStep

\* Every step leaves an administrator.
LEMMA AdminStep ==
    ASSUME \A i, k \in Cycles : i = k, AdminInvariant, MembershipNext
    PROVE  AdminInvariant'
<1>1. DOMAIN jobs = JobIds /\ \A i \in JobIds : IsJob(jobs[i])
  BY DEF AdminInvariant
<1>2. CASE Around
  <2>1. tier' = tier /\ StartsAtMost
    BY <1>2, AroundChanges
  <2>2. CASE jobs' = jobs
    BY <2>1, <2>2 DEF AdminInvariant, AnAdministratorRemains
  <2>3. ASSUME NEW h \in Hooks, NEW y, jobs' = [jobs EXCEPT ![h] = y], IsJob(y), y.pc # "write",
               y.entitled = TRUE, y.role = NoChange
        PROVE  AdminInvariant'
    <3>1. h \in JobIds /\ RolePlanned(y, tier) /\ y.role \in {NoChange, "active", "historical"} /\ y.role # "historical"
      BY <2>3, NothingPlanned DEF JobIds, NoChange
    <3> QED  BY <2>1, <2>3, <3>1, NoRoleWritten
  <2> QED  BY <2>1, <2>2, <2>3 DEF StartsAtMost
<1>3. ASSUME NEW h \in Hooks, JobStep(h) PROVE AdminInvariant'
  BY <1>3, AdminJobStep DEF JobIds
<1>4. ASSUME NEW j \in Cycles, CycleStep(j) PROVE AdminInvariant'
  BY <1>4, AdminCycleStep
<1>5. ASSUME NEW j \in JobIds, JobFails(j) PROVE AdminInvariant'
  <2>1. tier' = tier
    BY <1>5 DEF JobFails, memberVars
  <2>2. PICK y : /\ jobs' = [jobs EXCEPT ![j] = y] /\ IsJob(y)
                 /\ \/ y.entitled = TRUE /\ y.role = NoChange
                    \/ /\ y.pc = jobs[j].pc /\ y.user = jobs[j].user /\ y.role = jobs[j].role
                       /\ y.entitled = jobs[j].entitled
    BY <1>1, <1>5, FailedJob
  <2>3. /\ RolePlanned(jobs[j], tier) /\ jobs[j].role \in {NoChange, "active", "historical"}
        /\ j \in Hooks => jobs[j].entitled = TRUE /\ jobs[j].role # "historical"
    BY DEF AdminInvariant
  <2>4. RolePlanned(y, tier)
    BY <2>2, <2>3, NothingPlanned DEF RolePlanned
  <2>5. /\ y.role \in {NoChange, "active", "historical"}
        /\ j \in Hooks => y.entitled = TRUE /\ y.role # "historical"
    BY <2>2, <2>3 DEF NoChange
  <2> QED  BY <2>1, <2>2, <2>4, <2>5, NoRoleWritten
<1>6. CASE ServerRestarts
  <2>1. tier' = tier /\ jobs' = [j \in JobIds |-> NoJob]
    BY <1>6 DEF ServerRestarts, memberVars
  <2>2. IsJob(NoJob) /\ NoJob.role = NoChange /\ NoJob.entitled = TRUE
    BY DEF NoJob, Job, IsJob
  <2>3. \A t : RolePlanned(NoJob, t)
    BY <2>2, NothingPlanned
  <2>4. AnAdministratorRemains'
    BY <2>1 DEF AdminInvariant, AnAdministratorRemains
  <2> QED  BY <2>1, <2>2, <2>3, <2>4 DEF AdminInvariant, JobIds, NoChange
<1> QED  BY <1>2, <1>3, <1>4, <1>5, <1>6 DEF MembershipNext, Around

-----------------------------------------------------------------------------
\* Each payment is in the ledger once, and no cycle ends a membership before every
\* payment Stripe had taken when it began is there, however many cycles, webhooks
\* and staff overlap, while what is missing is within the poll's window
\* (membership.rs run_cycle, record_credit; stripe.rs INVOICE_POLL_LIMIT).
THEOREM PaymentsCount ==
    MembershipSpec => []PaymentPostedOnce /\ ([]WithinReach => LapseSeesEveryPayment)
<1>1. MembershipInit => MembershipInvariant
  <2> SUFFICES ASSUME MembershipInit PROVE MembershipInvariant
    OBVIOUS
  <2>1. entries \in [References -> Nat] /\ PaymentPostedOnce /\ mishap \in BOOLEAN
    <3>1. entries = [r \in References |-> 0] /\ mishap = FALSE
      BY DEF MembershipInit
    <3>2. entries \in [References -> Nat]
      BY <3>1
    <3>3. PaymentPostedOnce
      BY <3>1 DEF PaymentPostedOnce
    <3>4. mishap \in BOOLEAN
      BY <3>1
    <3> QED  BY <3>2, <3>3, <3>4
  <2>2. IsJob(NoJob) /\ NoJob.pc = "idle" /\ NoJob.owed = {}
    BY DEF NoJob, Job, IsJob
  <2>3. Phases(NoJob) /\ OwedSeen(NoJob, entries, paid)
    BY <2>2 DEF Phases, OwedSeen
  <2>4. jobs = [j \in JobIds |-> NoJob] /\ Cycles \subseteq JobIds
    BY DEF MembershipInit, JobIds
  <2> HIDE DEF NoJob
  <2> QED  BY <2>1, <2>2, <2>3, <2>4 DEF MembershipInvariant
<1>2. MembershipInvariant /\ UNCHANGED membershipVars => MembershipInvariant'
  BY DEF MembershipInvariant, membershipVars, ledgerVars, memberVars, PaymentPostedOnce
<1>3. MembershipInvariant /\ WithinReach /\ [MembershipNext]_membershipVars => MembershipInvariant'
  BY <1>2, MembershipStep
<1>4. MembershipSpec => []PaymentPostedOnce
  BY EntriesStayUnique
<1>5. MembershipInvariant =>
        [\A j \in Cycles : (Where(j, "loop") /\ jobs'[j].pc = "anchor" /\ ~ mishap)
            => \A r \in jobs[j].owed : entries[r] > 0]_membershipVars
  <2> SUFFICES ASSUME MembershipInvariant, NEW j \in Cycles, Where(j, "loop"), ~ mishap, NEW r \in jobs[j].owed
               PROVE  entries[r] > 0
    OBVIOUS
  <2>1. mishap = FALSE
    BY DEF MembershipInvariant
  <2>2. Phases(jobs[j]) /\ OwedSeen(jobs[j], entries, paid)
    BY <2>1 DEF MembershipInvariant
  <2>3. jobs[j].back = "due"
    BY <2>2 DEF Phases, Where
  <2> QED  BY <2>2, <2>3 DEF OwedSeen, Ahead
<1> QED  BY <1>1, <1>3, <1>4, <1>5, PTL DEF MembershipSpec, LapseSeesEveryPayment

\* Money and roles stay honest while any number of webhooks and requests of staff
\* overlap one renewal cycle: each payment counts once and before its membership
\* is ended, and the cycle's demotions leave an administrator (apply_role and
\* set_user_primary_role, two statements).  Of two cycles at once the last is
\* not claimed: each may see the other's administrator.
THEOREM LedgerHonest ==
    ASSUME \A i, k \in Cycles : i = k
    PROVE  MembershipSpec /\ []WithinReach => LedgerIsHonest
<1>1. MembershipInit => AdminInvariant
  <2> SUFFICES ASSUME MembershipInit PROVE AdminInvariant
    OBVIOUS
  <2>1. AnAdministratorRemains /\ DOMAIN tier = Subscribers
    BY MembershipAssumption DEF MembershipInit, AnAdministratorRemains
  <2>2. IsJob(NoJob) /\ NoJob.role = NoChange /\ NoJob.entitled = TRUE
    BY DEF NoJob, Job, IsJob
  <2>3. RolePlanned(NoJob, tier)
    BY <2>2, NothingPlanned
  <2>4. jobs = [j \in JobIds |-> NoJob]
    BY DEF MembershipInit
  <2> HIDE DEF NoJob
  <2> QED  BY <2>1, <2>2, <2>3, <2>4 DEF AdminInvariant, JobIds, NoChange
<1>2. AdminInvariant /\ UNCHANGED membershipVars => AdminInvariant'
  BY DEF AdminInvariant, membershipVars, ledgerVars, memberVars, AnAdministratorRemains
<1>3. AdminInvariant /\ [MembershipNext]_membershipVars => AdminInvariant'
  BY <1>2, AdminStep
<1>4. AdminInvariant => AnAdministratorRemains
  BY DEF AdminInvariant
<1>5. MembershipSpec => []PaymentPostedOnce /\ ([]WithinReach => LapseSeesEveryPayment)
  BY PaymentsCount
<1>6. MembershipSpec => []AnAdministratorRemains
  BY <1>1, <1>3, <1>4, PTL DEF MembershipSpec
<1>7. PaymentPostedOnce' /\ AnAdministratorRemains' =>
        [PaymentPostedOnce' /\ AnAdministratorRemains']_membershipVars
  OBVIOUS
<1> QED  BY <1>5, <1>6, <1>7, PTL DEF LedgerIsHonest
=============================================================================
