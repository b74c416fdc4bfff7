---------------------------- MODULE Entry_proofs ----------------------------
(***************************************************************************)
(* Proofs about the two ways in: a door, its rules and its schedule, and   *)
(* the policy by which an edge device stands in for the server at tools,   *)
(* for any number of members, cards, windows, tools and messages.          *)
(***************************************************************************)
EXTENDS Doors, Access, FiniteSetTheorems, WellFoundedInduction, TLAPS

-----------------------------------------------------------------------------
(* Numbers *)

\* A set of natural numbers that is not empty has a least one.
LEMMA LeastElement ==
    ASSUME NEW T \in SUBSET Nat, T # {}
    PROVE  \E y \in T : \A z \in T : y <= z
<1>1. PICK R : R = OpToRel(<, Nat)
  OBVIOUS
<1>2. IsWellFoundedOn(R, Nat)
  BY <1>1, NatLessThanWellFounded
<1>3. PICK y \in T : \A z \in T : ~ (<<z, y>> \in R)
  BY <1>2, WFMin
<1>4. ASSUME NEW z \in T, ~ (y <= z) PROVE FALSE
  <2>1. z \in Nat /\ y \in Nat /\ z < y
    BY <1>4
  <2>2. <<z, y>> \in R
    BY <1>1, <2>1 DEF OpToRel
  <2> QED  BY <1>3, <2>2
<1> QED  BY <1>4

\* The greater of two numbers, as Pulse and edge_tick take it.
LEMMA MaxOfTwo ==
    ASSUME NEW a \in Int, NEW b \in Int
    PROVE  Max({a, b}) \in {a, b} /\ Max({a, b}) >= a /\ Max({a, b}) >= b
<1>1. \E x \in {a, b} : \A y \in {a, b} : x >= y
  OBVIOUS
<1>2. Max({a, b}) \in {a, b} /\ \A y \in {a, b} : Max({a, b}) >= y
  BY <1>1, Zenon DEF Max
<1> QED  BY <1>2

\* The lesser of two, as hold_pulse_ms takes it.
LEMMA MinOfTwo ==
    ASSUME NEW a \in Int, NEW b \in Int
    PROVE  Min({a, b}) \in {a, b} /\ Min({a, b}) <= a /\ Min({a, b}) <= b
<1>1. \E x \in {a, b} : \A y \in {a, b} : x =< y
  OBVIOUS
<1>2. Min({a, b}) \in {a, b} /\ \A y \in {a, b} : Min({a, b}) =< y
  BY <1>1, Zenon DEF Min
<1> QED  BY <1>2

-----------------------------------------------------------------------------
(* Windows *)

Windows == {ws \in SUBSET (Nat \X Nat) : IsFiniteSet(ws) /\ \A w \in ws : w[1] < w[2]}
Earliest(vs) == CHOOSE w \in vs : \A v \in vs : w[1] <= v[1]
Around(ws, t) == {w \in ws : w[1] <= t /\ t < w[2]}
Onwards(ws, e) == {w \in ws : w[1] <= e /\ w[2] > e}
Further(ws, e) == IF Onwards(ws, e) = {} THEN e ELSE Earliest(Onwards(ws, e))[2]
\* f[n] is the end reached after n more windows, as window_end walks them.
Grows(f, ws, t, k) ==
    f = [n \in 0 .. k |-> IF n = 0 THEN Earliest(Around(ws, t))[2] ELSE Further(ws, f[n - 1])]

\* Windows that are some have an earliest.
LEMMA EarliestIsOne ==
    ASSUME NEW vs \in SUBSET (Nat \X Nat), vs # {}
    PROVE  Earliest(vs) \in vs
<1> DEFINE T == {w[1] : w \in vs}
<1>1. T \in SUBSET Nat
  OBVIOUS
<1>2. T # {}
  OBVIOUS
<1>3. PICK y \in T : \A z \in T : y <= z
  BY <1>1, <1>2, LeastElement
<1>4. PICK w \in vs : w[1] = y
  OBVIOUS
<1>5. \A v \in vs : w[1] <= v[1]
  BY <1>3, <1>4
<1>6. \E x \in vs : \A v \in vs : x[1] <= v[1]
  BY <1>5
<1> QED  BY <1>6, Zenon DEF Earliest

\* The walk exists, over any number of windows.
LEMMA WalkExists ==
    ASSUME NEW ws, NEW t, NEW k \in Nat
    PROVE  \E f : Grows(f, ws, t, k)
<1> DEFINE T == {n \in Nat : ~ \E f : Grows(f, ws, t, n)}
           begin == Earliest(Around(ws, t))[2]
<1>1. ASSUME T # {} PROVE FALSE
  <2>1. PICK n \in T : \A z \in T : n <= z
    BY <1>1, LeastElement
  <2>2. CASE n = 0
    <3>1. PICK f : f = [x \in 0 .. 0 |-> begin]
      OBVIOUS
    <3>2. f = [x \in 0 .. 0 |-> IF x = 0 THEN begin ELSE Further(ws, f[x - 1])]
      BY <3>1
    <3> QED  BY <2>1, <2>2, <3>2 DEF Grows
  <2>3. CASE n # 0
    <3>1. n - 1 \in Nat /\ n \in Nat /\ ~ (n <= n - 1)
      BY <2>3
    <3>2. n - 1 \notin T
      BY <2>1, <3>1
    <3>3. PICK g : Grows(g, ws, t, n - 1)
      BY <3>1, <3>2
    <3>4. PICK f : f = [x \in 0 .. n |-> IF x = n THEN Further(ws, g[n - 1]) ELSE g[x]]
      OBVIOUS
    <3>5. ASSUME NEW x \in 0 .. n PROVE f[x] = IF x = 0 THEN begin ELSE Further(ws, f[x - 1])
      <4>1. CASE x = n
        <5>1. f[n] = Further(ws, g[n - 1]) /\ f[n - 1] = g[n - 1]
          BY <3>1, <3>4
        <5> QED  BY <2>3, <4>1, <5>1
      <4>2. CASE x # n
        <5>1. x \in 0 .. n - 1 /\ f[x] = g[x]
          BY <3>1, <3>4, <4>2
        <5>2. g[x] = IF x = 0 THEN begin ELSE Further(ws, g[x - 1])
          BY <3>3, <5>1 DEF Grows
        <5>3. x # 0 => x - 1 \in 0 .. n /\ x - 1 # n
          BY <3>1, <5>1
        <5>4. x # 0 => f[x - 1] = g[x - 1]
          BY <3>4, <5>3
        <5> QED  BY <5>1, <5>2, <5>4
      <4> QED  BY <4>1, <4>2
    <3>6. f = [x \in 0 .. n |-> IF x = 0 THEN begin ELSE Further(ws, f[x - 1])]
      BY <3>4, <3>5
    <3> QED  BY <2>1, <3>6 DEF Grows
  <2> QED  BY <2>2, <2>3
<1> QED  BY <1>1

\* window_end is the end of the walk.
LEMMA WindowEndWalks ==
    ASSUME NEW ws, NEW t, Cardinality(ws) \in Nat
    PROVE  \E f : Grows(f, ws, t, Cardinality(ws)) /\ window_end(ws, t) = f[Cardinality(ws)]
<1> DEFINE chosen == CHOOSE f : f = [n \in 0 .. Cardinality(ws) |->
                        IF n = 0 THEN Earliest(Around(ws, t))[2] ELSE Further(ws, f[n - 1])]
<1>1. \E f : f = [n \in 0 .. Cardinality(ws) |->
                    IF n = 0 THEN Earliest(Around(ws, t))[2] ELSE Further(ws, f[n - 1])]
  <2>1. \E f : Grows(f, ws, t, Cardinality(ws))
    BY WalkExists
  <2> QED  BY <2>1, Zenon DEF Grows
<1>2. Grows(chosen, ws, t, Cardinality(ws))
  BY <1>1, Zenon DEF Grows
<1>3. window_end(ws, t) = chosen[Cardinality(ws)]
  BY Zenon DEF window_end, Earliest, Around, Onwards, Further
<1> QED  BY <1>2, <1>3

\* One more window begins no later than the end reached, and ends later.
LEMMA OneWindowMore ==
    ASSUME NEW ws \in Windows, NEW e \in Nat, Onwards(ws, e) # {}
    PROVE  \E w \in ws : /\ Further(ws, e) = w[2] /\ w[1] \in Nat /\ w[2] \in Nat
                         /\ w[1] <= e /\ w[2] > e
<1>1. ws \in SUBSET (Nat \X Nat)
  BY DEF Windows
<1>2. Onwards(ws, e) \in SUBSET (Nat \X Nat)
  BY <1>1 DEF Onwards
<1>3. PICK w : w = Earliest(Onwards(ws, e))
  OBVIOUS
<1>4. w \in Onwards(ws, e)
  BY <1>2, <1>3, EarliestIsOne
<1>5. w \in ws /\ w[1] <= e /\ w[2] > e /\ w \in Nat \X Nat
  BY <1>2, <1>4 DEF Onwards
<1>6. Further(ws, e) = w[2]
  BY <1>3 DEF Further
<1> QED  BY <1>5, <1>6

\* The first window is one the moment is in.
LEMMA FirstWindow ==
    ASSUME NEW ws \in Windows, NEW t \in Nat, Around(ws, t) # {}
    PROVE  \E w \in ws : /\ Earliest(Around(ws, t)) = w /\ w[1] \in Nat /\ w[2] \in Nat
                         /\ w[1] <= t /\ t < w[2]
<1>1. ws \in SUBSET (Nat \X Nat)
  BY DEF Windows
<1>2. Around(ws, t) \in SUBSET (Nat \X Nat)
  BY <1>1 DEF Around
<1>3. PICK w : w = Earliest(Around(ws, t))
  OBVIOUS
<1>4. w \in Around(ws, t)
  BY <1>2, <1>3, EarliestIsOne
<1> QED  BY <1>2, <1>3, <1>4 DEF Around

\* All the way along the walk the schedule is open.
LEMMA WalkStaysOpen ==
    ASSUME NEW ws \in Windows, NEW t \in Nat, Around(ws, t) # {}, NEW k \in Nat, NEW f, Grows(f, ws, t, k)
    PROVE  \A n \in 0 .. k : f[n] \in Nat /\ f[n] > t /\ \A s \in t .. f[n] - 1 : covers(ws, s)
<1> DEFINE Open(n) == f[n] \in Nat /\ f[n] > t /\ \A s \in t .. f[n] - 1 : covers(ws, s)
           T == {n \in 0 .. k : ~ Open(n)}
<1>1. ASSUME T # {} PROVE FALSE
  <2>0. T \in SUBSET Nat
    OBVIOUS
  <2>1. PICK n \in T : \A z \in T : n <= z
    BY <1>1, <2>0, LeastElement
  <2>a. n \in 0 .. k /\ ~ Open(n)
    BY <2>1
  <2>2. CASE n = 0
    <3>1. PICK w \in ws : /\ Earliest(Around(ws, t)) = w /\ w[1] \in Nat /\ w[2] \in Nat /\ w[1] <= t /\ t < w[2]
      BY FirstWindow
    <3>2. f[n] = w[2]
      BY <2>a, <2>2, <3>1 DEF Grows
    <3>3. ASSUME NEW s \in t .. f[n] - 1 PROVE covers(ws, s)
      <4>1. w[1] <= s /\ s < w[2]
        BY <3>1, <3>2
      <4> QED  BY <4>1 DEF covers
    <3> QED  BY <2>a, <3>1, <3>2, <3>3
  <2>3. CASE n # 0
    <3>1. n - 1 \in 0 .. k /\ ~ (n <= n - 1)
      BY <2>a, <2>3
    <3>2. Open(n - 1)
      BY <2>1, <3>1
    <3>3. PICK e \in Nat : e = f[n - 1] /\ e > t /\ \A s \in t .. e - 1 : covers(ws, s)
      BY <3>2
    <3> HIDE DEF T
    <3>4. f[n] = Further(ws, e)
      BY <2>a, <2>3, <3>3 DEF Grows
    <3>5. CASE Onwards(ws, e) = {}
      <4>1. f[n] = e
        BY <3>4, <3>5 DEF Further
      <4> QED  BY <2>a, <3>3, <4>1
    <3>6. CASE Onwards(ws, e) # {}
      <4>1. PICK w \in ws : /\ Further(ws, e) = w[2] /\ w[1] \in Nat /\ w[2] \in Nat /\ w[1] <= e /\ w[2] > e
        BY <3>6, OneWindowMore
      <4>2. ASSUME NEW s \in t .. f[n] - 1 PROVE covers(ws, s)
        <5>1. CASE s \in t .. e - 1
          BY <3>3, <5>1
        <5>2. CASE s \notin t .. e - 1
          <6>1. w[1] <= s /\ s < w[2]
            BY <3>3, <3>4, <4>1, <5>2
          <6> QED  BY <6>1 DEF covers
        <5> QED  BY <5>1, <5>2
      <4> QED  BY <2>a, <3>3, <3>4, <4>1, <4>2
    <3> QED  BY <3>5, <3>6
  <2> QED  BY <2>2, <2>3
<1> QED  BY <1>1

\* With every window walked there is one fewer left that ends later, so the walk comes to an end.
LEMMA WalkRunsOut ==
    ASSUME NEW ws \in Windows, NEW t \in Nat, Around(ws, t) # {}, NEW k \in Nat, NEW f, Grows(f, ws, t, k)
    PROVE  \A n \in 0 .. k : \/ Onwards(ws, f[n]) = {}
                             \/ Cardinality({w \in ws : w[2] > f[n]}) + n + 1 <= Cardinality(ws)
<1> DEFINE Later(e) == {w \in ws : w[2] > e}
           Fewer(n) == Onwards(ws, f[n]) = {} \/ Cardinality(Later(f[n])) + n + 1 <= Cardinality(ws)
           T == {n \in 0 .. k : ~ Fewer(n)}
<1>w. IsFiniteSet(ws) /\ Cardinality(ws) \in Nat /\ ws \in SUBSET (Nat \X Nat)
  BY FS_CardinalityType DEF Windows
<1>f. ASSUME NEW e PROVE IsFiniteSet(Later(e)) /\ Cardinality(Later(e)) \in Nat /\ Later(e) \in SUBSET ws
  <2>1. Later(e) \in SUBSET ws
    OBVIOUS
  <2>2. IsFiniteSet(Later(e))
    BY <1>w, <2>1, FS_Subset
  <2> QED  BY <2>1, <2>2, FS_CardinalityType
<1>s. ASSUME NEW big \in SUBSET ws, NEW small \in SUBSET big, NEW w \in big, w \notin small
      PROVE  Cardinality(small) + 1 <= Cardinality(big)
  <2>1. IsFiniteSet(big)
    BY <1>w, FS_Subset
  <2>2. IsFiniteSet(big \ {w}) /\ Cardinality(big \ {w}) = Cardinality(big) - 1
    BY <2>1, FS_RemoveElement
  <2>3. small \in SUBSET (big \ {w})
    BY <1>s
  <2>4. IsFiniteSet(small) /\ Cardinality(small) <= Cardinality(big \ {w})
    BY <2>2, <2>3, FS_Subset
  <2>5. Cardinality(small) \in Nat /\ Cardinality(big) \in Nat
    BY <2>1, <2>4, FS_CardinalityType
  <2> QED  BY <2>2, <2>4, <2>5
<1>1. ASSUME T # {} PROVE FALSE
  <2>0. T \in SUBSET Nat
    OBVIOUS
  <2>1. PICK n \in T : \A z \in T : n <= z
    BY <1>1, <2>0, LeastElement
  <2>a. n \in 0 .. k /\ ~ Fewer(n)
    BY <2>1
  <2>2. CASE n = 0
    <3>1. PICK w \in ws : /\ Earliest(Around(ws, t)) = w /\ w[1] \in Nat /\ w[2] \in Nat /\ w[1] <= t /\ t < w[2]
      BY FirstWindow
    <3>2. f[n] = w[2]
      BY <2>a, <2>2, <3>1 DEF Grows
    <3>3. Later(f[n]) \in SUBSET ws /\ w \notin Later(f[n])
      BY <3>1, <3>2
    <3>4. Cardinality(Later(f[n])) + 1 <= Cardinality(ws)
      <4>1. ws \in SUBSET ws
        OBVIOUS
      <4> HIDE DEF Later
      <4> QED  BY <1>s, <3>3, <4>1
    <3>5. Cardinality(Later(f[n])) \in Nat
      BY <1>f
    <3> QED  BY <1>w, <2>a, <2>2, <3>4, <3>5
  <2>3. CASE n # 0
    <3>1. n - 1 \in 0 .. k /\ ~ (n <= n - 1)
      BY <2>a, <2>3
    <3>2. Fewer(n - 1)
      BY <2>1, <3>1
    <3>3. PICK e \in Nat : e = f[n - 1]
      BY <3>1, WalkStaysOpen
    <3> HIDE DEF T
    <3>4. f[n] = Further(ws, e)
      BY <2>a, <2>3, <3>3 DEF Grows
    <3>5. CASE Onwards(ws, e) = {}
      <4>1. f[n] = e
        BY <3>4, <3>5 DEF Further
      <4> QED  BY <2>a, <3>5, <4>1
    <3>6. CASE Onwards(ws, e) # {}
      <4>1. PICK w \in ws : /\ Further(ws, e) = w[2] /\ w[1] \in Nat /\ w[2] \in Nat /\ w[1] <= e /\ w[2] > e
        BY <3>6, OneWindowMore
      <4>2. Later(f[n]) \in SUBSET Later(e) /\ w \in Later(e) /\ w \notin Later(f[n])
        <5>1. \A v \in ws : v[2] \in Nat
          BY <1>w
        <5> QED  BY <3>4, <4>1, <5>1
      <4>3. Cardinality(Later(e)) + (n - 1) + 1 <= Cardinality(ws)
        BY <3>2, <3>3, <3>6
      <4>4. Cardinality(Later(f[n])) \in Nat /\ Cardinality(Later(e)) \in Nat /\ Later(e) \in SUBSET ws
        BY <1>f
      <4>5. Cardinality(Later(f[n])) + 1 <= Cardinality(Later(e))
        <5> HIDE DEF Later
        <5> QED  BY <1>s, <4>2, <4>4
      <4>6. Cardinality(Later(f[n])) + n + 1 <= Cardinality(ws)
        <5> HIDE DEF Later
        <5> QED  BY <1>w, <2>a, <4>3, <4>4, <4>5
      <4> QED  BY <2>a, <4>6
    <3> QED  BY <3>5, <3>6
  <2> QED  BY <2>2, <2>3
<1> QED  BY <1>1

\* window_end, whatever the windows: on the wall clock the schedule is open from a time to there, and shut there.
LEMMA WindowEndIsTheEnd ==
    ASSUME NEW ws \in Windows, NEW t \in Nat, covers(ws, t)
    PROVE  /\ window_end(ws, t) \in Nat /\ window_end(ws, t) > t
           /\ \A s \in t .. window_end(ws, t) - 1 : covers(ws, s)
           /\ ~ covers(ws, window_end(ws, t))
<1>1. Around(ws, t) # {}
  BY DEF covers, Around
<1>2. IsFiniteSet(ws) /\ ws \in SUBSET (Nat \X Nat)
  BY DEF Windows
<1>3. PICK k \in Nat : k = Cardinality(ws)
  BY <1>2, FS_CardinalityType
<1>4. PICK f : Grows(f, ws, t, k) /\ window_end(ws, t) = f[k]
  BY <1>3, WindowEndWalks
<1>5. k \in 0 .. k
  OBVIOUS
<1>6. f[k] \in Nat /\ f[k] > t /\ \A s \in t .. f[k] - 1 : covers(ws, s)
  BY <1>1, <1>4, <1>5, WalkStaysOpen
<1>7. Onwards(ws, f[k]) = {}
  <2>1. PICK later : later = {w \in ws : w[2] > f[k]}
    OBVIOUS
  <2>2. Cardinality(later) \in Nat
    <3>1. later \in SUBSET ws
      BY <2>1
    <3>2. IsFiniteSet(later)
      BY <1>2, <3>1, FS_Subset
    <3> QED  BY <3>2, FS_CardinalityType
  <2>3. Onwards(ws, f[k]) = {} \/ Cardinality(later) + k + 1 <= Cardinality(ws)
    BY <1>1, <1>4, <1>5, <2>1, WalkRunsOut
  <2> QED  BY <1>3, <2>2, <2>3
<1>8. ~ covers(ws, f[k])
  <2>1. ASSUME NEW w \in ws, w[1] <= f[k], f[k] < w[2] PROVE FALSE
    <3>1. w[1] \in Nat /\ w[2] \in Nat
      BY <1>2
    <3>2. w \in Onwards(ws, f[k])
      BY <1>6, <2>1, <3>1 DEF Onwards
    <3> QED  BY <1>7, <3>2
  <2> QED  BY <2>1 DEF covers
<1> QED  BY <1>4, <1>6, <1>8

-----------------------------------------------------------------------------
(* The wall clock *)

ClockSet(tz) == tz.at \in Nat /\ tz.shift \in Int /\ tz.at + tz.shift >= 0

\* The wall clock shows a time, and the instants of a time are those at which it shows it.
LEMMA InstantsOfATime ==
    ASSUME NEW tz, ClockSet(tz)
    PROVE  /\ \A t \in Nat : local_time(tz, t) \in Nat
           /\ \A l \in Int : \A t \in from_local_datetime(tz, l) : t \in Int /\ local_time(tz, t) = l
           /\ \A l \in Nat : \A t \in from_local_datetime(tz, l) : t \in Nat
           /\ \A l \in Int, t \in Int : local_time(tz, t) = l => t \in from_local_datetime(tz, l)
<1>1. PICK a \in Nat, d \in Int : a = tz.at /\ d = tz.shift /\ a + d >= 0
  BY DEF ClockSet
<1>2. \A t : local_time(tz, t) = t + (IF t < a THEN 0 ELSE d)
  BY <1>1 DEF local_time
<1>3. \A l : from_local_datetime(tz, l) = {t \in {l, l - d} : local_time(tz, t) = l}
  BY <1>1 DEF from_local_datetime
<1>4. \A t \in Nat : local_time(tz, t) \in Nat
  BY <1>1, <1>2
<1>5. ASSUME NEW l \in Int, NEW t \in from_local_datetime(tz, l)
      PROVE  t \in Int /\ local_time(tz, t) = l /\ (l \in Nat => t \in Nat)
  <2>1. t \in {l, l - d} /\ local_time(tz, t) = l
    BY <1>3
  <2>2. t + (IF t < a THEN 0 ELSE d) = l
    BY <1>2, <2>1
  <2> QED  BY <2>1, <2>2
<1>6. ASSUME NEW l \in Int, NEW t \in Int, local_time(tz, t) = l PROVE t \in from_local_datetime(tz, l)
  <2>1. t + (IF t < a THEN 0 ELSE d) = l
    BY <1>2, <1>6
  <2>2. t = l \/ t = l - d
    BY <2>1
  <2> QED  BY <1>3, <1>6, <2>2
<1>7. \A l \in Nat : l \in Int
  OBVIOUS
<1> QED  BY <1>4, <1>5, <1>6, <1>7

\* A time has at most two instants, and the first of them is the one taken.
LEMMA FirstInstant ==
    ASSUME NEW tz, ClockSet(tz), NEW l \in Int, from_local_datetime(tz, l) # {}
    PROVE  /\ Min(from_local_datetime(tz, l)) \in from_local_datetime(tz, l)
           /\ \A t \in from_local_datetime(tz, l) : Min(from_local_datetime(tz, l)) <= t
<1>1. PICK d \in Int : d = tz.shift
  BY DEF ClockSet
<1>2. PICK F : F = from_local_datetime(tz, l)
  OBVIOUS
<1>3. F \in SUBSET {l, l - d} /\ F # {}
  BY <1>1, <1>2 DEF from_local_datetime
<1>4. PICK x \in Int, y \in Int : F = {x, y}
  <2>1. CASE l \in F /\ l - d \in F
    <3>1. F = {l, l - d}
      BY <1>3, <2>1
    <3> QED  BY <3>1
  <2>2. CASE l - d \notin F
    <3>1. F = {l, l}
      BY <1>3, <2>2
    <3> QED  BY <3>1
  <2>3. CASE l \notin F
    <3>1. F = {l - d, l - d}
      BY <1>3, <2>3
    <3> QED  BY <3>1
  <2> QED  BY <2>1, <2>2, <2>3
<1>5. Min({x, y}) \in {x, y} /\ Min({x, y}) <= x /\ Min({x, y}) <= y
  BY MinOfTwo
<1> QED  BY <1>2, <1>4, <1>5

\* A time the wall clock shows just once has no second instant.
LEMMA ShownOnce ==
    ASSUME NEW tz, ClockSet(tz), NEW l \in Int, Cardinality(from_local_datetime(tz, l)) = 1
    PROVE  \A s, t \in from_local_datetime(tz, l) : s = t
<1>1. PICK d \in Int : d = tz.shift
  BY DEF ClockSet
<1>2. IsFiniteSet({l} \cup {l - d})
  BY FS_Singleton, FS_Union
<1>3. from_local_datetime(tz, l) \in SUBSET ({l} \cup {l - d})
  BY <1>1 DEF from_local_datetime
<1>4. IsFiniteSet(from_local_datetime(tz, l))
  BY <1>2, <1>3, FS_Subset
<1>5. \E x : from_local_datetime(tz, l) = {x}
  BY <1>4, FS_Singleton
<1> QED  BY <1>5

\* No time has no instant but one the clock is set forward over.
LEMMA SkippedForward ==
    ASSUME NEW tz, ClockSet(tz), NEW l \in Int, from_local_datetime(tz, l) = {}
    PROVE  tz.shift > 0
<1>1. PICK a \in Nat, d \in Int : a = tz.at /\ d = tz.shift
  BY DEF ClockSet
<1>2. local_time(tz, l) # l /\ local_time(tz, l - d) # l
  BY <1>1, InstantsOfATime
<1>3. local_time(tz, l) = l + (IF l < a THEN 0 ELSE d) /\ local_time(tz, l - d) = l - d + (IF l - d < a THEN 0 ELSE d)
  BY <1>1 DEF local_time
<1> QED  BY <1>1, <1>2, <1>3

\* active_until, whatever the windows and the clock: what it gives is an instant or none; up to it the schedule is open
\* or the wall clock shows times before now; there it is shut, or the minute after is skipped; and it lies ahead when
\* the wall clock shows the window's end once.
LEMMA ActiveUntilIsTheEnd ==
    ASSUME NEW tz, ClockSet(tz), NEW ws \in Windows, NEW t \in Nat, matches_at(ws, tz, t)
    PROVE  LET until == active_until(ws, tz, t) IN
           /\ until \in Int
           /\ until # Never =>
                 /\ \A s \in t .. until - 1 : matches_at(ws, tz, s) \/ local_time(tz, s) < local_time(tz, t)
                 /\ ~ matches_at(ws, tz, until) \/ from_local_datetime(tz, local_time(tz, until) + 1) = {}
           /\ Cardinality(from_local_datetime(tz, window_end(ws, local_time(tz, t)))) = 1 => until # Never /\ until > t
<1>1. PICK a \in Nat, d \in Int : a = tz.at /\ d = tz.shift
  BY DEF ClockSet
<1>2. \A s : local_time(tz, s) = s + (IF s < a THEN 0 ELSE d)
  BY <1>1 DEF local_time
<1>3. PICK now \in Nat : now = local_time(tz, t) /\ covers(ws, now)
  BY InstantsOfATime DEF matches_at
<1>4. PICK end \in Nat : /\ end = window_end(ws, now) /\ end > now
                         /\ \A l \in now .. end - 1 : covers(ws, l)
                         /\ ~ covers(ws, end)
  BY <1>3, WindowEndIsTheEnd
<1>o. ASSUME NEW s \in Int, s >= t, local_time(tz, s) < end
      PROVE  matches_at(ws, tz, s) \/ local_time(tz, s) < local_time(tz, t)
  <2>1. s \in Nat
    BY <1>o
  <2>2. local_time(tz, s) \in Nat
    BY <2>1, InstantsOfATime
  <2>3. local_time(tz, s) < now \/ local_time(tz, s) \in now .. end - 1
    BY <1>o, <2>2
  <2> QED  BY <1>3, <1>4, <2>3 DEF matches_at
<1>5. CASE from_local_datetime(tz, end) # {}
  <2>1. PICK until \in Nat : /\ until = Min(from_local_datetime(tz, end)) /\ until \in from_local_datetime(tz, end)
                             /\ local_time(tz, until) = end
                             /\ \A x \in from_local_datetime(tz, end) : until <= x
    BY <1>5, FirstInstant, InstantsOfATime
  <2>2. active_until(ws, tz, t) = until
    BY <1>3, <1>4, <1>5, <2>1 DEF active_until
  <2>3. ASSUME NEW s \in t .. until - 1 PROVE matches_at(ws, tz, s) \/ local_time(tz, s) < local_time(tz, t)
    <3>1. s \in Int /\ s >= t /\ s < until
      BY <2>3
    <3>2. end < a /\ end < until => local_time(tz, end) = end
      BY <1>2
    <3>3. local_time(tz, end) = end => until <= end
      BY <2>1, InstantsOfATime
    <3>4. local_time(tz, s) < end
      <4>1. local_time(tz, s) = s + (IF s < a THEN 0 ELSE d) /\ end = until + (IF until < a THEN 0 ELSE d)
        BY <1>2, <2>1
      <4> QED  BY <3>1, <3>2, <3>3, <4>1
    <3> QED  BY <1>o, <3>1, <3>4
  <2>4. ~ matches_at(ws, tz, until)
    BY <1>4, <2>1 DEF matches_at
  <2>5. ASSUME Cardinality(from_local_datetime(tz, end)) = 1 PROVE until > t
    <3>1. \A x, y \in from_local_datetime(tz, end) : x = y
      BY <2>5, ShownOnce
    <3>2. now = t + (IF t < a THEN 0 ELSE d) /\ end = until + (IF until < a THEN 0 ELSE d)
      BY <1>2, <1>3, <2>1
    <3>3. CASE until <= t
      <4>1. until < a /\ t >= a /\ end = until /\ d < 0
        BY <1>4, <3>2, <3>3
      <4>2. PICK other \in Int : other = end - d
        OBVIOUS
      <4>3. other >= a /\ other # until
        BY <1>4, <3>2, <4>1, <4>2
      <4>4. local_time(tz, other) = end
        <5>1. local_time(tz, other) = other + (IF other < a THEN 0 ELSE d)
          BY <1>2
        <5> QED  BY <4>2, <4>3, <5>1
      <4>5. other \in from_local_datetime(tz, end)
        BY <4>4, InstantsOfATime
      <4> QED  BY <2>1, <3>1, <4>3, <4>5
    <3> QED  BY <3>3
  <2>6. until # Never
    BY DEF Never
  <2> QED  BY <1>3, <1>4, <2>2, <2>3, <2>4, <2>5, <2>6
<1>6. CASE from_local_datetime(tz, end) = {} /\ Cardinality(from_local_datetime(tz, end - 1)) = 1
  <2>0. end - 1 \in Int
    OBVIOUS
  <2>1. from_local_datetime(tz, end - 1) # {}
    <3>1. Cardinality({}) = 0
      BY FS_EmptySet
    <3> QED  BY <1>6, <3>1
  <2>2. PICK until \in Int : until = Min(from_local_datetime(tz, end - 1)) /\ local_time(tz, until) = end - 1
    BY <2>0, <2>1, FirstInstant, InstantsOfATime
  <2>3. active_until(ws, tz, t) = until
    BY <1>3, <1>4, <1>6, <2>2 DEF active_until
  <2>4. d > 0
    BY <1>1, <1>6, SkippedForward
  <2>5. ASSUME NEW s \in t .. until - 1 PROVE matches_at(ws, tz, s) \/ local_time(tz, s) < local_time(tz, t)
    <3>1. s \in Int /\ s >= t /\ s < until
      BY <2>5
    <3>2. local_time(tz, s) < end
      <4>1. local_time(tz, s) = s + (IF s < a THEN 0 ELSE d) /\ end - 1 = until + (IF until < a THEN 0 ELSE d)
        BY <1>2, <2>2
      <4> QED  BY <2>4, <3>1, <4>1
    <3> QED  BY <1>o, <3>1, <3>2
  <2>6. from_local_datetime(tz, local_time(tz, until) + 1) = {}
    <3>1. local_time(tz, until) + 1 = end
      BY <2>2
    <3> QED  BY <1>6, <3>1
  <2>7. Cardinality(from_local_datetime(tz, end)) # 1
    <3>1. Cardinality({}) = 0
      BY FS_EmptySet
    <3> QED  BY <1>6, <3>1
  <2> QED  BY <1>3, <1>4, <2>3, <2>5, <2>6, <2>7
<1>7. CASE from_local_datetime(tz, end) = {} /\ Cardinality(from_local_datetime(tz, end - 1)) # 1
  <2>1. active_until(ws, tz, t) = Never
    BY <1>3, <1>4, <1>7 DEF active_until
  <2>2. Cardinality(from_local_datetime(tz, end)) # 1
    <3>1. Cardinality({}) = 0
      BY FS_EmptySet
    <3> QED  BY <1>7, <3>1
  <2> QED  BY <1>3, <1>4, <2>1, <2>2 DEF Never
<1> QED  BY <1>5, <1>6, <1>7

-----------------------------------------------------------------------------
(* A door *)

CompiledDoors == [enabled : BOOLEAN, allow : SUBSET DoorCards, deny : SUBSET DoorCards, hold : Int]
Schedules == {{}} \cup {{ws} : ws \in Windows}
Snapshot(c) == c \in SUBSET CompiledDoors
DoorsTyped ==
    /\ door \in SUBSET BOOLEAN /\ rules \in SUBSET RuleChoices /\ schedule \in Schedules /\ ClockSet(zone)
    /\ \A c \in compiling : Snapshot(c.doors)
    /\ \A m \in air : m = [rank |-> m.rank, doors |-> m.doors] /\ Snapshot(m.doors)
    /\ Snapshot(edgeDoor)
    /\ strikeUntil \in Int /\ held \in Int /\ clock \in Nat
\* A card is with the member it was issued to, or with nobody.
CardsAreTheirOwn ==
    /\ member \in [Members -> [active : BOOLEAN, level : {1, StaffLevel}, cards : SUBSET DoorCards]]
    /\ \A u \in Members : \A k \in member[u].cards : DoorCardHolder[k] = u
DoorsInvariant == DoorsTyped /\ CardsAreTheirOwn /\ HoldEndsWithTheWindow

\* What a schedule that is open holds a door for: the end of its one set of windows, if that is an instant.
LEMMA EndOfTheWindow ==
    ASSUME NEW sch \in Schedules, NEW tz, ClockSet(tz), NEW t \in Nat, NEW ends,
           ends = {active_until(ws, tz, t) : ws \in {v \in sch : matches_at(v, tz, t)}} \ {Never}
    PROVE  /\ \A ws \in sch : ws \in Windows
           /\ ends # {} => \E ws \in Windows : /\ sch = {ws} /\ matches_at(ws, tz, t)
                                               /\ Max(ends) = active_until(ws, tz, t)
                                               /\ Max(ends) \in Int /\ Max(ends) # Never
<1>1. \A ws \in sch : ws \in Windows
  BY DEF Schedules
<1>2. ASSUME ends # {}
      PROVE  \E ws \in Windows : /\ sch = {ws} /\ matches_at(ws, tz, t) /\ Max(ends) = active_until(ws, tz, t)
                                 /\ Max(ends) \in Int /\ Max(ends) # Never
  <2>1. PICK ws \in Windows : sch = {ws} /\ matches_at(ws, tz, t) /\ active_until(ws, tz, t) # Never
    BY <1>2 DEF Schedules
  <2>2. active_until(ws, tz, t) \in Int
    BY <2>1, ActiveUntilIsTheEnd
  <2>3. PICK e \in Int : e = active_until(ws, tz, t)
    BY <2>2
  <2>4. ends = {e, e}
    BY <2>1, <2>3
  <2>5. Max({e, e}) \in {e, e}
    BY MaxOfTwo, Zenon
  <2> QED  BY <2>1, <2>3, <2>4, <2>5
<1> QED  BY <1>1, <1>2

\* Rules stand for cards.
LEMMA RulesStandForCards ==
    ASSUME DoorsTyped, CardsAreTheirOwn, NEW effect
    PROVE  expand_rules_at(effect) \in SUBSET DoorCards
<1>1. ASSUME NEW r \in rules, r.kind = "card" PROVE r.value \in DoorCards
  BY <1>1 DEF DoorsTyped, RuleChoices, NewRules
<1>2. ASSUME NEW u \in Members PROVE card_digests_by_user(u) \in SUBSET DoorCards
  BY DEF CardsAreTheirOwn, card_digests_by_user
<1> QED  BY <1>1, <1>2 DEF expand_rules_at

\* What is compiled is a door with its lists and the end of its window.
LEMMA CompiledTyped ==
    ASSUME DoorsTyped, CardsAreTheirOwn
    PROVE  Snapshot(compile_state_for)
<1>1. open_access_hold_until_at \in Int
  <2> DEFINE ends == {active_until(ws, zone, clock) : ws \in {v \in schedule : matches_at(v, zone, clock)}} \ {Never}
  <2>1. ends # {} => Max(ends) \in Int
    BY EndOfTheWindow DEF DoorsTyped
  <2>2. Never \in Int
    BY DEF Never
  <2>3. open_access_hold_until_at \in {Never} \/ (ends # {} /\ open_access_hold_until_at = Max(ends))
    BY DEF open_access_hold_until_at
  <2> HIDE DEF ends
  <2> QED  BY <2>1, <2>2, <2>3
<1>2. expand_rules_at("allow") \in SUBSET DoorCards /\ expand_rules_at("deny") \in SUBSET DoorCards
  BY RulesStandForCards
<1>3. door \in SUBSET BOOLEAN
  BY DEF DoorsTyped
<1> QED  BY <1>1, <1>2, <1>3 DEF compile_state_for, Snapshot, CompiledDoors

\* The same of the tables after a step.
LEMMA CompiledTypedNext ==
    ASSUME door' \in SUBSET BOOLEAN, rules' \in SUBSET RuleChoices, schedule' \in Schedules, clock' \in Nat,
           ClockSet(zone'), CardsAreTheirOwn'
    PROVE  Snapshot(compile_state_for')
<1>1. open_access_hold_until_at' \in Int
  <2> DEFINE ends == {active_until(ws, zone', clock') : ws \in {v \in schedule' : matches_at(v, zone', clock')}} \ {Never}
  <2>1. ends # {} => Max(ends) \in Int
    BY EndOfTheWindow
  <2>2. Never \in Int
    BY DEF Never
  <2>3. open_access_hold_until_at' \in {Never} \/ (ends # {} /\ open_access_hold_until_at' = Max(ends))
    BY DEF open_access_hold_until_at
  <2> HIDE DEF ends
  <2> QED  BY <2>1, <2>2, <2>3
<1>2. ASSUME NEW effect \in {"allow", "deny"} PROVE expand_rules_at(effect)' \in SUBSET DoorCards
  <2>1. ASSUME NEW r \in rules', r.kind = "card" PROVE r.value \in DoorCards
    BY <2>1 DEF RuleChoices, NewRules
  <2>2. ASSUME NEW u \in Members PROVE card_digests_by_user(u)' \in SUBSET DoorCards
    BY DEF CardsAreTheirOwn, card_digests_by_user
  <2> QED  BY <2>1, <2>2 DEF expand_rules_at
<1> QED  BY <1>1, <1>2 DEF compile_state_for, Snapshot, CompiledDoors

\* At first nothing is compiled, and every member holds the cards issued to them.
LEMMA DoorsBegin == DoorsInit => DoorsInvariant
<1> SUFFICES ASSUME DoorsInit PROVE DoorsInvariant
  OBVIOUS
<1>1. DoorsTyped
  <2>1. ClockSet(zone)
    BY DoorsAssumption DEF DoorsInit, ClockSet
  <2> QED  BY <2>1 DEF DoorsInit, DoorsTyped, Schedules, Snapshot, Never
<1>2. CardsAreTheirOwn
  BY DoorsAssumption DEF DoorsInit, CardsAreTheirOwn, OwnCards
<1>3. HoldEndsWithTheWindow
  <2>1. Max({-1, 0 + 1}) >= -1
    BY MaxOfTwo
  <2> QED  BY <2>1 DEF DoorsInit, HoldEndsWithTheWindow, Never
<1> QED  BY <1>1, <1>2, <1>3 DEF DoorsInvariant

\* A step that leaves the edge and the clock alone keeps the invariant when the tables stay typed.
LEMMA TablesEdited ==
    ASSUME DoorsInvariant, Edit, door' \in SUBSET BOOLEAN, rules' \in SUBSET RuleChoices, schedule' \in Schedules,
           CardsAreTheirOwn', Publish \/ PublishAll \/ UNCHANGED compiling
    PROVE  DoorsInvariant'
<1>1. clock' \in Nat /\ strikeUntil' \in Int /\ held' \in Int /\ ClockSet(zone')
  BY DEF Edit, DoorsInvariant, DoorsTyped
<1>2. Snapshot(compile_state_for')
  BY <1>1, CompiledTypedNext
<1>3. \A c \in compiling' : Snapshot(c.doors)
  BY <1>2 DEF Publish, PublishAll, Reads, DoorsInvariant, DoorsTyped
<1>4. DoorsTyped'
  BY <1>1, <1>3 DEF Edit, DoorsInvariant, DoorsTyped, Snapshot
<1>5. HoldEndsWithTheWindow'
  BY DEF Edit, DoorsInvariant, HoldEndsWithTheWindow
<1> QED  BY <1>4, <1>5 DEF DoorsInvariant

\* Staff edit one table at a time.
LEMMA EditsKeepTheDoor ==
    ASSUME DoorsInvariant, StaffEdit
    PROVE  DoorsInvariant'
<1>a. door \in SUBSET BOOLEAN /\ rules \in SUBSET RuleChoices /\ schedule \in Schedules /\ CardsAreTheirOwn
  BY DEF DoorsInvariant, DoorsTyped
<1>b. ASSUME member' = member PROVE CardsAreTheirOwn'
  BY <1>a, <1>b DEF CardsAreTheirOwn
<1>1. CASE create_door
  <2>1. StaffRule \in RuleChoices
    BY DEF StaffRule, NewRules, RuleChoices
  <2> QED  BY <1>1, <1>a, <1>b, <2>1, TablesEdited DEF create_door
<1>2. CASE delete_door
  BY <1>2, <1>a, <1>b, TablesEdited DEF delete_door
<1>3. CASE delete_schedule
  BY <1>3, <1>a, <1>b, TablesEdited DEF delete_schedule, Schedules
<1>4. ASSUME NEW on \in BOOLEAN, update_door(on) PROVE DoorsInvariant'
  BY <1>4, <1>a, <1>b, TablesEdited DEF update_door
<1>5. ASSUME NEW r \in RuleChoices, add_rule(r) \/ remove_rule(r) PROVE DoorsInvariant'
  BY <1>5, <1>a, <1>b, TablesEdited DEF add_rule, remove_rule
<1>6. ASSUME NEW ws \in Plans, create_schedule(ws) \/ update_schedule(ws) PROVE DoorsInvariant'
  <2>1. IsFiniteSet(ws) /\ ws \subseteq Nat \X Nat
    BY DoorsAssumption
  <2>2. validate(ws)
    BY <1>6 DEF create_schedule, update_schedule
  <2>3. ws \in Windows
    BY <2>1, <2>2 DEF validate, Windows
  <2>4. {ws} \in Schedules
    BY <2>3 DEF Schedules
  <2> QED  BY <1>6, <1>a, <1>b, <2>4, TablesEdited DEF create_schedule, update_schedule
<1>7. ASSUME NEW u \in Members, NEW to \in MemberChoices(u), republish_all(u, to) PROVE DoorsInvariant'
  <2>1. CardsAreTheirOwn'
    BY <1>7, <1>a DEF republish_all, CardsAreTheirOwn, MemberChoices, OwnCards
  <2> QED  BY <1>7, <1>a, <2>1, TablesEdited DEF republish_all
<1> QED  BY <1>1, <1>2, <1>3, <1>4, <1>5, <1>6, <1>7 DEF StaffEdit

\* What was compiled goes out as it is.
LEMMA PushKeepsTheDoor ==
    ASSUME DoorsInvariant, NEW c, Snapshot(c), push(c), compiling' \in SUBSET compiling,
           UNCHANGED <<door, rules, schedule, zone, member, edgeDoor, strikeUntil, held, clock>>
    PROVE  DoorsInvariant'
<1>1. \A m \in air' : m = [rank |-> m.rank, doors |-> m.doors] /\ Snapshot(m.doors)
  BY DEF DoorsInvariant, DoorsTyped, push
<1>2. DoorsTyped'
  BY <1>1 DEF DoorsInvariant, DoorsTyped, Snapshot
<1>3. CardsAreTheirOwn' /\ HoldEndsWithTheWindow'
  BY DEF DoorsInvariant, CardsAreTheirOwn, HoldEndsWithTheWindow
<1> QED  BY <1>2, <1>3 DEF DoorsInvariant

\* What arrives is one of the snapshots sent, and those left keep what they say.
LEMMA ArrivalKeepsTheDoor ==
    ASSUME DoorsInvariant, NEW m \in air, apply_doors_alias(m) \/ PushLost(m)
    PROVE  DoorsInvariant'
<1>1. Snapshot(edgeDoor')
  BY DEF DoorsInvariant, DoorsTyped, apply_doors_alias, PushLost
<1>2. \A x \in air' : x = [rank |-> x.rank, doors |-> x.doors] /\ Snapshot(x.doors)
  <2>1. ASSUME NEW o \in air, NEW n PROVE [o EXCEPT !.rank = n] = [rank |-> n, doors |-> o.doors]
    BY DEF DoorsInvariant, DoorsTyped
  <2>2. ASSUME NEW x \in air', x \notin air PROVE \E o \in air : \E n : x = [rank |-> n, doors |-> o.doors]
    <3>1. PICK o \in air : x = [o EXCEPT !.rank = IF @ < m.rank THEN -1 ELSE @ - m.rank]
      BY <2>2 DEF apply_doors_alias, PushLost
    <3>2. PICK n : n = IF o.rank < m.rank THEN -1 ELSE o.rank - m.rank
      OBVIOUS
    <3>3. x = [o EXCEPT !.rank = n]
      BY <3>1, <3>2
    <3> QED  BY <2>1, <3>3
  <2> QED  BY <2>2 DEF DoorsInvariant, DoorsTyped
<1>3. UNCHANGED <<door, rules, schedule, zone, member, compiling, strikeUntil, held, clock>>
  BY DEF apply_doors_alias, PushLost
<1>4. DoorsTyped'
  BY <1>1, <1>2, <1>3 DEF DoorsInvariant, DoorsTyped, Snapshot
<1>5. CardsAreTheirOwn' /\ HoldEndsWithTheWindow'
  BY <1>3 DEF DoorsInvariant, CardsAreTheirOwn, HoldEndsWithTheWindow
<1> QED  BY <1>4, <1>5 DEF DoorsInvariant

\* A pulse that ends by the window or by the next moment keeps the strike's promise.
LEMMA PulseKeepsTheDoor ==
    ASSUME DoorsInvariant, NEW until \in Int, Pulse(until), held' \in Int, held' >= held,
           until <= held' \/ until <= clock + 1,
           UNCHANGED <<door, rules, schedule, zone, member, compiling, air, edgeDoor, clock>>
    PROVE  DoorsInvariant'
<1>1. strikeUntil \in Int /\ held \in Int /\ clock \in Nat /\ clock + 1 \in Int
  BY DEF DoorsInvariant, DoorsTyped
<1>2. strikeUntil' \in {until, strikeUntil}
  BY <1>1, MaxOfTwo DEF Pulse
<1>3. strikeUntil <= held \/ strikeUntil <= clock + 1
  BY <1>1, MaxOfTwo DEF DoorsInvariant, HoldEndsWithTheWindow
<1>4. strikeUntil' <= held' \/ strikeUntil' <= clock + 1
  BY <1>1, <1>2, <1>3
<1>5. Max({held', clock + 1}) >= held' /\ Max({held', clock + 1}) >= clock + 1 /\ Max({held', clock + 1}) \in {held', clock + 1}
  BY <1>1, MaxOfTwo
<1>6. HoldEndsWithTheWindow'
  <2>1. strikeUntil' <= Max({held', clock + 1})
    BY <1>1, <1>2, <1>4, <1>5
  <2> QED  BY <2>1 DEF HoldEndsWithTheWindow
<1>7. DoorsTyped'
  BY <1>1, <1>2 DEF DoorsInvariant, DoorsTyped, Snapshot
<1>8. CardsAreTheirOwn'
  BY DEF DoorsInvariant, CardsAreTheirOwn
<1> QED  BY <1>6, <1>7, <1>8 DEF DoorsInvariant

\* The edge holds the door only up to the end of the window it was given.
LEMMA TickKeepsTheDoor ==
    ASSUME DoorsInvariant, edge_tick
    PROVE  DoorsInvariant'
<1>1. CASE UNCHANGED <<strikeUntil, held>>
  <2>1. UNCHANGED <<door, rules, schedule, zone, member, compiling, air, edgeDoor, strikeUntil, held, clock>>
    BY <1>1 DEF edge_tick
  <2> QED  BY <2>1 DEF DoorsInvariant, DoorsTyped, Snapshot, CardsAreTheirOwn, HoldEndsWithTheWindow
<1>2. CASE \E until \in hold_pulses_at : Pulse(clock + hold_pulse_ms(until)) /\ held' = Max({until, held})
  <2>1. PICK until \in hold_pulses_at : Pulse(clock + hold_pulse_ms(until)) /\ held' = Max({until, held})
    BY <1>2
  <2>2. PICK d \in edgeDoor : until = d.hold /\ hold_pulse_ms(until) > 0
    BY DEF hold_pulses_at
  <2>3. until \in Int /\ clock \in Nat /\ held \in Int /\ HoldRefresh + HoldMargin \in Int
    BY <2>2, DoorsAssumption DEF DoorsInvariant, DoorsTyped, Snapshot, CompiledDoors
  <2>4. until > clock /\ hold_pulse_ms(until) = Min({HoldRefresh + HoldMargin, until - clock})
    BY <2>2, <2>3 DEF hold_pulse_ms
  <2>5. hold_pulse_ms(until) \in Int /\ hold_pulse_ms(until) <= until - clock
    <3>1. until - clock \in Int
      BY <2>3
    <3> QED  BY <2>3, <2>4, <3>1, MinOfTwo
  <2>6. held' \in Int /\ held' >= held /\ held' >= until
    BY <2>1, <2>3, MaxOfTwo
  <2>7. PICK p \in Int : p = clock + hold_pulse_ms(until) /\ p <= until
    BY <2>3, <2>5
  <2>8. Pulse(p) /\ p <= held'
    BY <2>1, <2>3, <2>6, <2>7
  <2>9. UNCHANGED <<door, rules, schedule, zone, member, compiling, air, edgeDoor, clock>>
    BY DEF edge_tick
  <2> QED  BY <2>6, <2>8, <2>9, PulseKeepsTheDoor
<1> QED  BY <1>1, <1>2 DEF edge_tick

\* Every step of the door keeps the invariant.
LEMMA DoorsKeep == DoorsInvariant /\ [DoorsNext]_doorVars => DoorsInvariant'
<1> SUFFICES ASSUME DoorsInvariant, [DoorsNext]_doorVars PROVE DoorsInvariant'
  OBVIOUS
<1>1. CASE StaffEdit
  BY <1>1, EditsKeepTheDoor
<1>2. ASSUME NEW c \in compiling, publish_state(c) PROVE DoorsInvariant'
  <2>1. Snapshot(c.doors) /\ compiling' \in SUBSET compiling
    BY <1>2 DEF DoorsInvariant, DoorsTyped, publish_state, Finishes
  <2>2. push(c.doors) /\ UNCHANGED <<door, rules, schedule, zone, member, edgeDoor, strikeUntil, held, clock>>
    BY <1>2 DEF publish_state
  <2> QED  BY <2>1, <2>2, PushKeepsTheDoor
<1>a. CASE TickerReads
  <2>1. Snapshot(compile_state_for)
    BY CompiledTyped DEF DoorsInvariant
  <2>2. \A c \in compiling' : Snapshot(c.doors)
    BY <1>a, <2>1 DEF TickerReads, Reads, DoorsInvariant, DoorsTyped
  <2>3. UNCHANGED <<door, rules, schedule, zone, member, air, edgeDoor, strikeUntil, held, clock>>
    BY <1>a DEF TickerReads
  <2> QED  BY <2>2, <2>3 DEF DoorsInvariant, DoorsTyped, Snapshot, CardsAreTheirOwn, HoldEndsWithTheWindow
<1>3. ASSUME NEW c \in compiling, republish_changed(c) PROVE DoorsInvariant'
  <2>1. Snapshot(c.doors) /\ compiling' \in SUBSET compiling
    BY <1>3 DEF DoorsInvariant, DoorsTyped, republish_changed, Finishes
  <2>2. UNCHANGED <<door, rules, schedule, zone, member, edgeDoor, strikeUntil, held, clock>>
    BY <1>3 DEF republish_changed
  <2>3. CASE c.doors \in lastHash
    <3>1. UNCHANGED air
      BY <1>3, <2>3 DEF republish_changed
    <3> QED  BY <2>1, <2>2, <3>1 DEF DoorsInvariant, DoorsTyped, Snapshot, CardsAreTheirOwn, HoldEndsWithTheWindow
  <2>4. CASE c.doors \notin lastHash
    <3>1. push(c.doors)
      BY <1>3, <2>4 DEF republish_changed
    <3> QED  BY <2>1, <2>2, <3>1, PushKeepsTheDoor
  <2> QED  BY <2>3, <2>4
<1>4. ASSUME NEW m \in air, apply_doors_alias(m) \/ PushLost(m) PROVE DoorsInvariant'
  BY <1>4, ArrivalKeepsTheDoor
<1>5. CASE Unlocks
  <2>1. clock + 1 \in Int /\ held' \in Int /\ held' >= held /\ clock + 1 <= clock + 1
    BY <1>5 DEF Unlocks, DoorsInvariant, DoorsTyped
  <2>2. Pulse(clock + 1) /\ UNCHANGED <<door, rules, schedule, zone, member, compiling, air, edgeDoor, clock>>
    BY <1>5 DEF Unlocks
  <2> QED  BY <2>1, <2>2, PulseKeepsTheDoor
<1>6. CASE edge_tick
  BY <1>6, TickKeepsTheDoor
<1>7. CASE ClockGoes
  <2>1. strikeUntil \in Int /\ held \in Int /\ clock \in Nat /\ clock' = clock + 1 /\ held' = held /\ strikeUntil' = strikeUntil
    BY <1>7 DEF ClockGoes, DoorsInvariant, DoorsTyped
  <2>2. strikeUntil <= held \/ strikeUntil <= clock + 1
    <3>1. clock + 1 \in Int
      BY <2>1
    <3> QED  BY <2>1, <3>1, MaxOfTwo DEF DoorsInvariant, HoldEndsWithTheWindow
  <2>3. PICK n \in Int : n = clock' + 1 /\ n >= clock + 1
    BY <2>1
  <2>4. strikeUntil <= Max({held, n})
    <3>1. Max({held, n}) >= held /\ Max({held, n}) >= n /\ Max({held, n}) \in {held, n}
      BY <2>1, MaxOfTwo
    <3> QED  BY <2>1, <2>2, <2>3, <3>1
  <2>5. HoldEndsWithTheWindow'
    BY <2>1, <2>3, <2>4 DEF HoldEndsWithTheWindow
  <2>6. DoorsTyped' /\ CardsAreTheirOwn'
    BY <1>7, <2>1 DEF ClockGoes, DoorsInvariant, DoorsTyped, Snapshot, CardsAreTheirOwn
  <2> QED  BY <2>5, <2>6 DEF DoorsInvariant
<1>8. CASE UNCHANGED doorVars
  BY <1>8 DEF doorVars, DoorsInvariant, DoorsTyped, Snapshot, CardsAreTheirOwn, HoldEndsWithTheWindow
<1>9. ASSUME NEW k \in DoorCards, Scan(k) PROVE Unlocks
  BY <1>9 DEF Scan
<1>10. ASSUME NEW u \in Members, door_checkin(u) \/ admin_unlock(u) PROVE Unlocks
  BY <1>10 DEF door_checkin, admin_unlock
<1> QED
  BY <1>1, <1>2, <1>3, <1>4, <1>5, <1>6, <1>7, <1>8, <1>9, <1>10, <1>a, Zenon
     DEF DoorsNext, HandlersPublish, TickerPublishes, EdgeApplies

\* Whom the lists compiled now let in, and whom the check-in does: a card on a list is one member's alone.
LEMMA ReaderAndCheckinAgree ==
    ASSUME CardsAreTheirOwn
    PROVE  CheckinAgreesWithTheReader
<1> SUFFICES ASSUME NEW e \in compile_state_for, NEW u \in Members, member[u].active, member[u].cards # {}
             PROVE  may(u) <=> /\ \E k \in member[u].cards : k \in e.allow
                               /\ \A k \in member[u].cards : k \notin e.deny
  BY DEF CheckinAgreesWithTheReader
<1> DEFINE Applies(r, v) == \/ r.kind = "card" /\ r.value \in member[v].cards
                            \/ r.kind = "user" /\ r.value = v
                            \/ r.kind = "role" /\ member[v].level >= r.value
           Matched(effect) == \E r \in rules : r.effect = effect /\ rule_fires(r) /\ Applies(r, u)
<1>1. e.allow = expand_rules_at("allow") /\ e.deny = expand_rules_at("deny")
  BY DEF compile_state_for
<1>2. may(u) <=> ~ Matched("deny") /\ Matched("allow")
  BY DEF may
<1>3. ASSUME NEW effect, Matched(effect) PROVE \E k \in member[u].cards : k \in expand_rules_at(effect)
  <2>1. PICK r \in rules : r.effect = effect /\ rule_fires(r) /\ Applies(r, u)
    BY <1>3
  <2>2. r \in {q \in rules : q.kind # "open_access" /\ q.effect = effect /\ rule_fires(q)}
    BY <2>1
  <2>3. CASE r.kind = "card"
    <3>1. r.value \in member[u].cards
      BY <2>1, <2>3
    <3>2. r.value \in expand_rules_at(effect)
      BY <2>2, <2>3 DEF expand_rules_at
    <3> QED  BY <3>1, <3>2
  <2>4. CASE r.kind # "card"
    <3>1. PICK k \in member[u].cards : TRUE
      OBVIOUS
    <3>2. k \in card_digests_by_user(u)
      BY DEF card_digests_by_user
    <3>3. (r.kind = "user" /\ r.value = u) \/ (r.kind = "role" /\ user_levels(u) >= r.value)
      BY <2>1, <2>4, Zenon DEF user_levels
    <3>4. k \in expand_rules_at(effect)
      BY <2>2, <2>4, <3>2, <3>3 DEF expand_rules_at
    <3> QED  BY <3>4
  <2> QED  BY <2>3, <2>4
<1>4. ASSUME NEW effect, NEW k \in member[u].cards, k \in expand_rules_at(effect) PROVE Matched(effect)
  <2>1. PICK r \in {q \in rules : q.kind # "open_access" /\ q.effect = effect /\ rule_fires(q)} :
            k \in (IF r.kind = "card" THEN {r.value}
                   ELSE UNION {card_digests_by_user(v) : v \in {x \in Members :
                            (r.kind = "user" /\ r.value = x) \/ (r.kind = "role" /\ user_levels(x) >= r.value)}})
    BY <1>4, Zenon DEF expand_rules_at
  <2>2. CASE r.kind = "card"
    BY <2>1, <2>2
  <2>3. CASE r.kind # "card"
    <3>1. PICK v \in Members : /\ k \in card_digests_by_user(v)
                               /\ (r.kind = "user" /\ r.value = v) \/ (r.kind = "role" /\ user_levels(v) >= r.value)
      BY <2>1, <2>3
    <3>2. k \in member[v].cards
      BY <3>1 DEF card_digests_by_user
    <3>3. v = u
      BY <3>2 DEF CardsAreTheirOwn
    <3>4. Applies(r, u)
      BY <3>1, <3>3 DEF user_levels
    <3> QED  BY <2>1, <3>4
  <2> QED  BY <2>2, <2>3
<1> HIDE DEF Matched, Applies
<1>5. Matched("allow") <=> \E k \in member[u].cards : k \in e.allow
  BY <1>1, <1>3, <1>4
<1>6. Matched("deny") <=> \E k \in member[u].cards : k \in e.deny
  BY <1>1, <1>3, <1>4
<1> QED  BY <1>2, <1>5, <1>6

\* The hold compiled now ends with the window, on the wall clock.
LEMMA OpenForTheWindow ==
    ASSUME DoorsTyped
    PROVE  HeldAsTheScheduleSays
<1> DEFINE ends == {active_until(v, zone, clock) : v \in {x \in schedule : matches_at(x, zone, clock)}} \ {Never}
           asked == \E r \in rules : r.kind = "open_access" /\ r.effect = "allow"
<1>1. schedule \in Schedules /\ clock \in Nat /\ ClockSet(zone) /\ clock \in Int
  BY DEF DoorsTyped
<1> SUFFICES ASSUME NEW e \in compile_state_for, NEW ws \in schedule
             PROVE  /\ e.hold # Never =>
                          /\ matches_at(ws, zone, clock) /\ asked
                          /\ \A t \in clock .. e.hold - 1 :
                                matches_at(ws, zone, t) \/ local_time(zone, t) < local_time(zone, clock)
                          /\ \/ ~ matches_at(ws, zone, e.hold)
                             \/ from_local_datetime(zone, local_time(zone, e.hold) + 1) = {}
                    /\ (/\ matches_at(ws, zone, clock) /\ asked
                        /\ Cardinality(from_local_datetime(zone, window_end(ws, local_time(zone, clock)))) = 1)
                       => e.hold > clock
  BY DEF HeldAsTheScheduleSays
<1>2. e.hold = IF asked /\ ends # {} THEN Max(ends) ELSE Never
  BY DEF compile_state_for, open_access_hold_until_at
<1>3. ws \in Windows /\ schedule = {ws}
  BY <1>1 DEF Schedules
<1>4. ends # {} => matches_at(ws, zone, clock) /\ Max(ends) = active_until(ws, zone, clock) /\ Max(ends) # Never
  <2>1. PICK all : all = ends
    OBVIOUS
  <2>2. all # {} => \E v \in Windows : /\ schedule = {v} /\ matches_at(v, zone, clock)
                                       /\ Max(all) = active_until(v, zone, clock) /\ Max(all) # Never
    BY <1>1, <2>1, EndOfTheWindow
  <2> HIDE DEF ends
  <2> QED  BY <1>3, <2>1, <2>2
<1>5. matches_at(ws, zone, clock) /\ active_until(ws, zone, clock) # Never => active_until(ws, zone, clock) \in ends
  BY <1>3
<1>6. PICK until : until = active_until(ws, zone, clock)
  OBVIOUS
<1>7. matches_at(ws, zone, clock) =>
         /\ until # Never =>
               /\ \A s \in clock .. until - 1 : matches_at(ws, zone, s) \/ local_time(zone, s) < local_time(zone, clock)
               /\ ~ matches_at(ws, zone, until) \/ from_local_datetime(zone, local_time(zone, until) + 1) = {}
         /\ Cardinality(from_local_datetime(zone, window_end(ws, local_time(zone, clock)))) = 1
               => until # Never /\ until > clock
  BY <1>1, <1>3, <1>6, ActiveUntilIsTheEnd
<1> HIDE DEF ends, asked
<1>8. ASSUME e.hold # Never PROVE asked /\ matches_at(ws, zone, clock) /\ e.hold = until /\ until # Never
  BY <1>2, <1>4, <1>6, <1>8
<1>9. ASSUME matches_at(ws, zone, clock), asked, until # Never PROVE e.hold = until
  <2>1. ends # {}
    BY <1>5, <1>6, <1>9
  <2> QED  BY <1>2, <1>4, <1>6, <1>9, <2>1
<1> QED  BY <1>7, <1>8, <1>9

\* A door acts as its rules are written, for any members, cards, rules and schedules and wherever the wall clock is set
\* forward or back: the reader and the check-in agree (doors.rs evaluate, expand_rules_at); an open door is held for the
\* window its schedule is open for in local time, up to the minute before an end that is skipped (schedules.rs
\* active_until), and it is held whenever that end is shown once; and the strike falls shut at the end of the hold
\* (edge/src/doors.rs hold_pulses_at).
THEOREM DoorsAsWritten == DoorsSpec => []DoorsActAsWritten
<1>1. DoorsInvariant => DoorsActAsWritten
  BY ReaderAndCheckinAgree, OpenForTheWindow DEF DoorsInvariant, DoorsActAsWritten
<1> QED  BY <1>1, DoorsBegin, DoorsKeep, PTL DEF DoorsSpec

-----------------------------------------------------------------------------
(* Access: what the tables hold *)

ShopTyped == shop \in [Shop -> {{}} \cup {{row} : row \in ToolRow}]
TiersTyped == tierOf \in [People \X Shop -> {{}} \cup {{r} : r \in Rates}]
InputsTyped ==
    /\ persons \in [People -> [active : BOOLEAN, funds : {0, 1}]]
    /\ codes \in [CardCodes -> [card : {"active", "disabled", "none"}, legacy : BOOLEAN]]
    /\ openHours \in BOOLEAN
\* Every binding is of a resource that exists, and every rule of a tool that does, with a source bound to it.
WiringStands ==
    /\ \A b \in gearAt : b.res \in Resources /\ (b.res \in Shop \ Rooms => shop[b.res] # {})
    /\ \A i \in interlockRows :
          /\ i.tool \in Shop /\ shop[i.tool] # {}
          /\ \A b \in i.source : b \in gearAt /\ b.res = i.tool
AccessTyped == ShopTyped /\ TiersTyped /\ InputsTyped
AccessInvariant == AccessTyped /\ WiringStands

\* A tool that is there has its row.
LEMMA RowIsThere ==
    ASSUME ShopTyped, NEW t \in Shop, shop[t] # {}
    PROVE  shop[t] = {row_of(t)} /\ row_of(t) \in ToolRow
<1>1. PICK row \in ToolRow : shop[t] = {row}
  BY DEF ShopTyped
<1>2. row_of(t) \in shop[t]
  BY <1>1, Zenon DEF row_of
<1> QED  BY <1>1, <1>2

\* What a member pays: a tier's rate when one is assigned, the tool's when none is.
LEMMA EffectiveRate ==
    ASSUME ShopTyped, TiersTyped, NEW p \in People, NEW t \in Shop, shop[t] # {}
    PROVE  /\ resolve_effective_billing(p, t) \in Rates
           /\ \/ tierOf[<<p, t>>] = {} /\ resolve_effective_billing(p, t) = row_of(t).rate
              \/ tierOf[<<p, t>>] = {resolve_effective_billing(p, t)}
<1>1. row_of(t).rate \in Rates
  BY RowIsThere DEF ToolRow
<1>2. CASE tierOf[<<p, t>>] = {}
  BY <1>1, <1>2 DEF resolve_effective_billing
<1>3. CASE tierOf[<<p, t>>] # {}
  <2>1. PICK r \in Rates : tierOf[<<p, t>>] = {r}
    BY <1>3 DEF TiersTyped
  <2>2. PICK c : c = CHOOSE x \in tierOf[<<p, t>>] : TRUE
    OBVIOUS
  <2>3. c \in tierOf[<<p, t>>]
    BY <1>3, <2>2
  <2>4. resolve_effective_billing(p, t) = c
    BY <1>3, <2>2 DEF resolve_effective_billing
  <2> QED  BY <2>1, <2>3, <2>4
<1> QED  BY <1>2, <1>3

\* The schedule shuts a tool exactly when its row says so and the hours are over.
LEMMA ShutBySchedule ==
    ASSUME ShopTyped, NEW t \in Shop, shop[t] # {}
    PROVE  t \in closed_tool_ids_now <=> (row_of(t).scheduled /\ ~ openHours)
BY RowIsThere DEF closed_tool_ids_now

\* A policy's tool is one some member may use now, with its row's status.
LEMMA ToolsOfAPolicy ==
    ASSUME NEW t
    PROVE  /\ \A e \in build_resource_policy(Edge).tools : e.id = t =>
                 /\ e.status = row_of(t).status /\ t \in Shop \ closed_tool_ids_now
                 /\ \E p \in People : t \in authorized_tool_ids(Edge, p)
           /\ \A p \in People : t \in authorized_tool_ids(Edge, p) /\ t \notin closed_tool_ids_now =>
                 \E e \in build_resource_policy(Edge).tools : e.id = t /\ e.status = row_of(t).status
<1>1. build_resource_policy(Edge).tools = {e \in sync_tools(Edge) : e.id \notin closed_tool_ids_now}
  BY DEF build_resource_policy, build_sync_payload
<1>2. ASSUME NEW p \in People, NEW x \in authorized_tool_ids(Edge, p) PROVE x \in Shop
  BY DEF authorized_tool_ids, bound_tools
<1>3. ASSUME NEW e \in build_resource_policy(Edge).tools, e.id = t
      PROVE  /\ e.status = row_of(t).status /\ t \in Shop \ closed_tool_ids_now
             /\ \E p \in People : t \in authorized_tool_ids(Edge, p)
  <2>1. PICK x \in UNION {authorized_tool_ids(Edge, p) : p \in People} :
            e = [id |-> x, status |-> row_of(x).status, requires_online |-> requires_online(x)]
    BY <1>1, <1>3 DEF sync_tools
  <2>2. x = t /\ e.status = row_of(t).status
    BY <1>3, <2>1
  <2>3. PICK p \in People : t \in authorized_tool_ids(Edge, p)
    BY <2>1, <2>2
  <2> QED  BY <1>1, <1>2, <1>3, <2>2, <2>3
<1>4. ASSUME NEW p \in People, t \in authorized_tool_ids(Edge, p), t \notin closed_tool_ids_now
      PROVE  \E e \in build_resource_policy(Edge).tools : e.id = t /\ e.status = row_of(t).status
  <2>1. PICK e : e = [id |-> t, status |-> row_of(t).status, requires_online |-> requires_online(t)]
    OBVIOUS
  <2>2. e \in sync_tools(Edge)
    BY <1>4, <2>1 DEF sync_tools
  <2> QED  BY <1>1, <1>4, <2>1, <2>2
<1> QED  BY <1>3, <1>4

\* A policy's member is a code its holder is known by, with the tools the holder may use now.
LEMMA MembersOfAPolicy ==
    ASSUME NEW k \in CardCodes, NEW t
    PROVE  /\ \A m \in build_resource_policy(Edge).members : m.code = k =>
                 /\ k \in identifiers(HolderOf[k]) /\ m.is_active = persons[HolderOf[k]].active
                 /\ t \in m.authorized => t \in authorized_tool_ids(Edge, HolderOf[k]) \ closed_tool_ids_now
           /\ k \in identifiers(HolderOf[k]) /\ t \in authorized_tool_ids(Edge, HolderOf[k]) \ closed_tool_ids_now =>
                 \E m \in build_resource_policy(Edge).members :
                    m.code = k /\ m.is_active = persons[HolderOf[k]].active /\ t \in m.authorized
<1> DEFINE Known == UNION {identifiers(p) : p \in {q \in People : authorized_tool_ids(Edge, q) # {}}}
           Entry(c) == [code |-> c, is_active |-> persons[HolderOf[c]].active,
                        authorized |-> authorized_tool_ids(Edge, HolderOf[c])]
           Pruned(c) == [code |-> c, is_active |-> persons[HolderOf[c]].active,
                         authorized |-> authorized_tool_ids(Edge, HolderOf[c]) \ closed_tool_ids_now]
<1>1. build_resource_policy(Edge).members = {[u EXCEPT !.authorized = @ \ closed_tool_ids_now] : u \in sync_users(Edge)}
  BY DEF build_resource_policy, build_sync_payload
<1>2. sync_users(Edge) = {Entry(c) : c \in Known}
  BY DEF sync_users
<1>3. ASSUME NEW c PROVE [Entry(c) EXCEPT !.authorized = @ \ closed_tool_ids_now] = Pruned(c)
  OBVIOUS
<1>4. HolderOf[k] \in People
  BY AccessAssumption
<1>5. k \in Known => k \in identifiers(HolderOf[k])
  BY DEF identifiers
<1>6. ASSUME NEW m \in build_resource_policy(Edge).members, m.code = k
      PROVE  /\ k \in identifiers(HolderOf[k]) /\ m.is_active = persons[HolderOf[k]].active
             /\ t \in m.authorized => t \in authorized_tool_ids(Edge, HolderOf[k]) \ closed_tool_ids_now
  <2>1. PICK u \in sync_users(Edge) : m = [u EXCEPT !.authorized = @ \ closed_tool_ids_now]
    BY <1>1, <1>6
  <2>2. PICK c \in Known : u = Entry(c)
    BY <1>2, <2>1
  <2>3. m = Pruned(c)
    BY <1>3, <2>1, <2>2
  <2>4. c = k
    BY <1>6, <2>3
  <2> QED  BY <1>5, <2>2, <2>3, <2>4
<1>7. ASSUME k \in identifiers(HolderOf[k]), t \in authorized_tool_ids(Edge, HolderOf[k]) \ closed_tool_ids_now
      PROVE  \E m \in build_resource_policy(Edge).members :
                m.code = k /\ m.is_active = persons[HolderOf[k]].active /\ t \in m.authorized
  <2>1. k \in Known
    BY <1>4, <1>7
  <2>2. Entry(k) \in sync_users(Edge)
    BY <1>2, <2>1
  <2>3. Pruned(k) \in build_resource_policy(Edge).members
    BY <1>1, <1>3, <2>2
  <2>4. Pruned(k).code = k /\ Pruned(k).is_active = persons[HolderOf[k]].active /\ t \in Pruned(k).authorized
    BY <1>7
  <2> HIDE DEF Pruned
  <2> QED  BY <2>3, <2>4
<1> QED  BY <1>6, <1>7

\* A code that stands for its holder is one they are known by, and one they are known by stands for them unless its
\* card was disabled under the legacy field.
LEMMA CodesKnown ==
    ASSUME InputsTyped, NEW k \in CardCodes
    PROVE  /\ resolve_card(k) = "active" => k \in identifiers(HolderOf[k])
           /\ k \in identifiers(HolderOf[k]) =>
                 resolve_card(k) = "active" \/ (codes[k].legacy /\ codes[k].card = "disabled")
<1>1. codes[k].card \in {"active", "disabled", "none"} /\ codes[k].legacy \in BOOLEAN
  BY DEF InputsTyped
<1>2. CASE codes[k].card = "active"
  BY <1>1, <1>2 DEF resolve_card, identifiers
<1>3. CASE codes[k].card = "disabled"
  BY <1>1, <1>3 DEF resolve_card, identifiers
<1>4. CASE codes[k].card = "none"
  BY <1>1, <1>4 DEF resolve_card, identifiers
<1> QED  BY <1>1, <1>2, <1>3, <1>4

\* Whom the policy authorizes has the funds a session asks for; whom the session is open to is authorized, but for a
\* priced tier at a free tool.
LEMMA FundsAgree ==
    ASSUME AccessTyped, NEW p \in People, NEW t \in Shop, shop[t] # {}
    PROVE  LET rate == resolve_effective_billing(p, t)
           IN  /\ authorizes_rate(rate, persons[p].funds) => open_session_allowed(p, t)
               /\ open_session_allowed(p, t) /\ ~ authorizes_rate(rate, persons[p].funds) =>
                     row_of(t).rate = 0 /\ 1 \in tierOf[<<p, t>>]
<1> DEFINE rate == resolve_effective_billing(p, t)
<1>1. rate \in Rates /\ (rate = row_of(t).rate \/ tierOf[<<p, t>>] = {rate})
  BY EffectiveRate DEF AccessTyped
<1>2. persons[p].funds \in {0, 1}
  BY DEF AccessTyped, InputsTyped
<1>3. row_of(t).rate \in Rates
  BY RowIsThere DEF AccessTyped, ToolRow
<1>4. open_session_allowed(p, t) <=> (row_of(t).rate # 0 => rate = 0 \/ persons[p].funds >= rate)
  BY DEF open_session_allowed, tool_is_metered, required_for_rate
<1>5. authorizes_rate(rate, persons[p].funds) <=> (rate = 0 \/ persons[p].funds >= rate)
  BY DEF authorizes_rate, required_for_rate
<1> HIDE DEF rate
<1>6. authorizes_rate(rate, persons[p].funds) => open_session_allowed(p, t)
  BY <1>4, <1>5
<1>7. ASSUME open_session_allowed(p, t), ~ authorizes_rate(rate, persons[p].funds)
      PROVE  row_of(t).rate = 0 /\ 1 \in tierOf[<<p, t>>]
  <2>1. row_of(t).rate = 0 /\ rate # 0
    BY <1>4, <1>5, <1>7
  <2>2. rate = 1 /\ tierOf[<<p, t>>] = {rate}
    BY <1>1, <2>1 DEF Rates
  <2> QED  BY <2>1, <2>2
<1> QED  BY <1>6, <1>7 DEF rate

\* An edge whose lists are those of the tables decides as the server, with the exceptions named.
LEMMA EdgeDecides ==
    ASSUME AccessTyped
    PROVE  EdgeDecidesAsTheServer
<1> SUFFICES ASSUME UpToDate, NEW k \in CardCodes, NEW t \in Shop, shop[t] # {}
             PROVE  /\ decide(k, t) = "allow" =>
                          server_allows(k, t) \/ (codes[k].legacy /\ codes[k].card = "disabled")
                    /\ decide(k, t) = "deny" /\ server_allows(k, t) =>
                          \/ row_of(t).scheduled /\ ~ openHours
                          \/ row_of(t).rate = 0 /\ 1 \in tierOf[<<HolderOf[k], t>>]
  BY DEF EdgeDecidesAsTheServer
<1>a. cache.tools = build_resource_policy(Edge).tools /\ cache.members = build_resource_policy(Edge).members
  BY DEF UpToDate
<1>b. PICK p \in People : p = HolderOf[k]
  BY AccessAssumption
<1>c. t \in authorized_tool_ids(Edge, p) <=>
          /\ device_is_bound_to_tool(Edge, t) /\ user_is_authorized_for_tool(p, t)
          /\ authorizes_rate(resolve_effective_billing(p, t), persons[p].funds)
  BY DEF authorized_tool_ids, bound_tools
<1>d. server_allows(k, t) <=>
          /\ device_is_bound_to_tool(Edge, t) /\ resolve_card(k) = "active" /\ persons[p].active
          /\ row_of(t).status = "idle" /\ user_is_authorized_for_tool(p, t) /\ open_session_allowed(p, t)
  BY <1>b DEF server_allows, authorize_resource, resource_kind
<1>1. ASSUME decide(k, t) = "allow"
      PROVE  server_allows(k, t) \/ (codes[k].legacy /\ codes[k].card = "disabled")
  <2>1. /\ \E m \in {x \in cache.members : x.code = k} : m.is_active /\ t \in m.authorized
        /\ \E e \in {x \in cache.tools : x.id = t} : e.status = "idle"
    BY <1>1 DEF decide
  <2>2. PICK m \in build_resource_policy(Edge).members : m.code = k /\ m.is_active /\ t \in m.authorized
    BY <1>a, <2>1
  <2>3. PICK e \in build_resource_policy(Edge).tools : e.id = t /\ e.status = "idle"
    BY <1>a, <2>1
  <2>4. k \in identifiers(p) /\ persons[p].active /\ t \in authorized_tool_ids(Edge, p)
    BY <1>b, <2>2, MembersOfAPolicy
  <2>5. row_of(t).status = "idle"
    BY <2>3, ToolsOfAPolicy
  <2>6. open_session_allowed(p, t)
    BY <1>c, <2>4, FundsAgree
  <2>7. resolve_card(k) = "active" \/ (codes[k].legacy /\ codes[k].card = "disabled")
    BY <1>b, <2>4, CodesKnown DEF AccessTyped
  <2> QED  BY <1>c, <1>d, <2>4, <2>5, <2>6, <2>7
<1>2. ASSUME decide(k, t) = "deny", server_allows(k, t), ~ (row_of(t).scheduled /\ ~ openHours),
             ~ (row_of(t).rate = 0 /\ 1 \in tierOf[<<p, t>>])
      PROVE  FALSE
  <2>1. k \in identifiers(p)
    BY <1>b, <1>d, <1>2, CodesKnown DEF AccessTyped
  <2>2. authorizes_rate(resolve_effective_billing(p, t), persons[p].funds)
    BY <1>d, <1>2, FundsAgree
  <2>3. t \in authorized_tool_ids(Edge, p)
    BY <1>c, <1>d, <1>2, <2>2
  <2>4. t \notin closed_tool_ids_now
    BY <1>2, ShutBySchedule DEF AccessTyped
  <2>5. PICK m \in cache.members : m.code = k /\ m.is_active = persons[p].active /\ t \in m.authorized
    BY <1>a, <1>b, <2>1, <2>3, <2>4, MembersOfAPolicy
  <2>6. PICK e \in cache.tools : e.id = t /\ e.status = row_of(t).status
    BY <1>a, <2>3, <2>4, ToolsOfAPolicy
  <2>7. /\ \E x \in {y \in cache.members : y.code = k} : x.is_active /\ t \in x.authorized
        /\ \E x \in {y \in cache.tools : y.id = t} : x.status = "idle"
    BY <1>d, <1>2, <2>5, <2>6
  <2> QED  BY <1>2, <2>7 DEF decide
<1> QED  BY <1>1, <1>2, <1>b

\* Wiring that stands makes a snapshot that is whole.
LEMMA WiringMakesSnapshot ==
    ASSUME WiringStands
    PROVE  SnapshotIsWhole
<1> SUFFICES ASSUME NEW e \in module_state_snapshot
             PROVE  resource_kind(e.id) # {} /\ \A i \in e.rules : i.source \subseteq e.modules
  BY DEF SnapshotIsWhole
<1>1. PICK r \in {b.res : b \in gearAt} \cup {i.tool : i \in interlockRows} :
          e = [id |-> r, in_use |-> r \in get_inuse_tools \cup open_resource_sessions,
               modules |-> {b \in gearAt : b.res = r}, rules |-> {i \in interlockRows : i.tool = r}]
  BY Zenon DEF module_state_snapshot
<1>2. e.id = r /\ e.modules = {b \in gearAt : b.res = r} /\ e.rules = {i \in interlockRows : i.tool = r}
  BY <1>1
<1>3. r \in Rooms \/ (r \in Shop /\ shop[r] # {})
  BY <1>1 DEF WiringStands, Resources
<1>4. resource_kind(r) # {}
  BY <1>3 DEF resource_kind
<1>5. \A i \in e.rules : i.source \subseteq e.modules
  BY <1>2 DEF WiringStands
<1> QED  BY <1>2, <1>4, <1>5

-----------------------------------------------------------------------------
(* Access: every step *)

\* At first every tool has its row, and the edge is bound to each.
LEMMA AccessBegins == AccessInit => AccessInvariant
<1> SUFFICES ASSUME AccessInit PROVE AccessInvariant
  OBVIOUS
<1>1. PICK row : row = [status |-> "idle", requires_training |-> FALSE, scheduled |-> FALSE, rate |-> 0]
  OBVIOUS
<1>2. row \in ToolRow /\ shop = [t \in Shop |-> {row}]
  BY <1>1 DEF AccessInit, ToolRow, Statuses, Rates
<1>3. ShopTyped
  BY <1>2 DEF ShopTyped
<1>4. TiersTyped
  BY DEF AccessInit, TiersTyped
<1>5. InputsTyped
  BY DEF AccessInit, InputsTyped
<1>6. WiringStands
  <2>1. \A b \in gearAt : b.res \in Shop
    BY DEF AccessInit
  <2> QED  BY <1>2, <2>1 DEF AccessInit, WiringStands, Resources
<1> QED  BY <1>3, <1>4, <1>5, <1>6 DEF AccessInvariant, AccessTyped

\* A tool given a row, with its wiring left alone, keeps the invariant.
LEMMA RowGiven ==
    ASSUME AccessInvariant, NEW t \in Shop, NEW row \in ToolRow, shop' = [shop EXCEPT ![t] = {row}],
           UNCHANGED <<tierOf, gearAt, interlockRows, inputs>>
    PROVE  AccessInvariant'
<1>1. ShopTyped'
  BY DEF AccessInvariant, AccessTyped, ShopTyped
<1>2. \A x \in Shop : shop[x] # {} => shop'[x] # {}
  BY DEF AccessInvariant, AccessTyped, ShopTyped
<1>3. WiringStands'
  BY <1>2 DEF AccessInvariant, WiringStands
<1>4. TiersTyped' /\ InputsTyped'
  BY DEF AccessInvariant, AccessTyped, TiersTyped, InputsTyped, inputs
<1> QED  BY <1>1, <1>3, <1>4 DEF AccessInvariant, AccessTyped

\* So does a change of a row's status.
LEMMA StatusGiven ==
    ASSUME AccessInvariant, NEW t \in Shop, shop[t] # {}, NEW s \in Statuses,
           shop' = [shop EXCEPT ![t] = {[row_of(t) EXCEPT !.status = s]}],
           UNCHANGED <<tierOf, gearAt, interlockRows, inputs>>
    PROVE  AccessInvariant'
<1>1. row_of(t) \in ToolRow
  BY RowIsThere DEF AccessInvariant, AccessTyped
<1>2. PICK row \in ToolRow : row = [row_of(t) EXCEPT !.status = s]
  BY <1>1 DEF ToolRow
<1> QED  BY <1>2, RowGiven

\* The rows that refer to a deleted tool go with it.
LEMMA ToolDeleted ==
    ASSUME AccessInvariant, NEW t \in Shop, db_delete_tool(t), UNCHANGED inputs
    PROVE  AccessInvariant'
<1>1. ShopTyped'
  BY DEF AccessInvariant, AccessTyped, ShopTyped, db_delete_tool
<1>2. TiersTyped'
  BY DEF AccessInvariant, AccessTyped, TiersTyped, db_delete_tool
<1>3. InputsTyped'
  BY DEF AccessInvariant, AccessTyped, InputsTyped, inputs
<1>4. \A x \in Shop : x # t => shop'[x] = shop[x]
  BY DEF AccessInvariant, AccessTyped, ShopTyped, db_delete_tool
<1>5. gearAt' = {b \in gearAt : b.res # t} /\ interlockRows' = {i \in interlockRows : i.tool # t}
  BY DEF db_delete_tool
<1>6. WiringStands'
  BY <1>4, <1>5 DEF AccessInvariant, WiringStands
<1> QED  BY <1>1, <1>2, <1>3, <1>6 DEF AccessInvariant, AccessTyped

\* A change of the tiers changes what members pay, and nothing else.
LEMMA TiersChanged ==
    ASSUME AccessInvariant, TiersTyped', UNCHANGED <<shop, gearAt, interlockRows, inputs>>
    PROVE  AccessInvariant'
BY DEF AccessInvariant, AccessTyped, ShopTyped, InputsTyped, WiringStands, inputs

\* Each handler of the tiers leaves every member one tier at most.
LEMMA TierHandlers ==
    ASSUME AccessInvariant, NEW t \in Shop, NEW r1 \in Rates,
           \/ create_tier(t, r1) \/ delete_tier(t, r1) \/ \E r2 \in Rates : update_tier(t, r1, r2)
           \/ \E p \in People : assign_tier(p, t, r1) \/ clear_tier(p, t)
    PROVE  AccessInvariant'
<1>a. TiersTyped
  BY DEF AccessInvariant, AccessTyped
<1>1. CASE create_tier(t, r1)
  BY <1>1, <1>a, TiersChanged DEF create_tier, TiersTyped
<1>2. CASE delete_tier(t, r1)
  <2>1. TiersTyped'
    <3>1. tierOf' = [pt \in People \X Shop |-> IF pt[2] = t THEN tierOf[pt] \ {r1} ELSE tierOf[pt]]
      BY <1>2 DEF delete_tier, db_delete_tier
    <3>2. \A pt \in People \X Shop : tierOf[pt] \in {{}} \cup {{r} : r \in Rates}
      BY <1>a DEF TiersTyped
    <3>3. \A pt \in People \X Shop : tierOf[pt] \ {r1} \in {{}} \cup {{r} : r \in Rates}
      <4>1. ASSUME NEW pt \in People \X Shop PROVE tierOf[pt] \ {r1} \in {{}} \cup {{r} : r \in Rates}
        <5>1. CASE tierOf[pt] = {}
          BY <5>1
        <5>2. ASSUME NEW r \in Rates, tierOf[pt] = {r} PROVE tierOf[pt] \ {r1} = {} \/ tierOf[pt] \ {r1} = {r}
          BY <5>2
        <5> QED  BY <3>2, <5>1, <5>2
      <4> QED  BY <4>1
    <3> QED  BY <3>1, <3>2, <3>3 DEF TiersTyped
  <2> QED  BY <1>2, <2>1, TiersChanged DEF delete_tier
<1>3. ASSUME NEW r2 \in Rates, update_tier(t, r1, r2) PROVE AccessInvariant'
  <2>1. TiersTyped'
    BY <1>3, <1>a DEF update_tier, db_update_tier, TiersTyped
  <2> QED  BY <1>3, <2>1, TiersChanged DEF update_tier
<1>4. ASSUME NEW p \in People, assign_tier(p, t, r1) PROVE AccessInvariant'
  <2>1. TiersTyped'
    BY <1>4, <1>a DEF assign_tier, upsert_tier_assignment, TiersTyped
  <2> QED  BY <1>4, <2>1, TiersChanged DEF assign_tier
<1>5. ASSUME NEW p \in People, clear_tier(p, t) PROVE AccessInvariant'
  <2>1. TiersTyped'
    BY <1>5, <1>a DEF clear_tier, clear_tier_assignment, TiersTyped
  <2> QED  BY <1>5, <2>1, TiersChanged DEF clear_tier
<1> QED  BY <1>1, <1>2, <1>3, <1>4, <1>5

\* A step that leaves the tools and tiers alone, and the wiring standing, keeps the invariant.
LEMMA WiringChanged ==
    ASSUME AccessInvariant, WiringStands', UNCHANGED <<shop, tierOf, inputs>>
    PROVE  AccessInvariant'
BY DEF AccessInvariant, AccessTyped, ShopTyped, TiersTyped, InputsTyped, inputs

\* Bindings and interlocks come and go, and a rule goes with the module it reads.
LEMMA WiringHandlers ==
    ASSUME AccessInvariant,
           \/ \E b \in [dev : Gear, res : Resources, role : {"edge", "power"}] : create_module(b)
           \/ \E b \in gearAt : delete_module(b)
           \/ \E i \in interlockRows : delete_interlock(i)
           \/ \E t \in Shop : create_interlock(t, {}) \/ \E b \in gearAt : create_interlock(t, {b})
    PROVE  AccessInvariant'
<1>a. WiringStands
  BY DEF AccessInvariant
<1>1. ASSUME NEW b \in [dev : Gear, res : Resources, role : {"edge", "power"}], create_module(b) PROVE AccessInvariant'
  <2>1. gearAt' = gearAt \cup {b} /\ UNCHANGED <<shop, tierOf, inputs, interlockRows>>
    BY <1>1 DEF create_module, create_tool_module
  <2>2. b.res \in Resources /\ (b.res \in Shop \ Rooms => shop[b.res] # {})
    BY <1>1 DEF create_module, resource_kind
  <2>3. WiringStands'
    BY <1>a, <2>1, <2>2 DEF WiringStands
  <2> QED  BY <2>1, <2>3, WiringChanged
<1>2. ASSUME NEW b \in gearAt, delete_module(b) PROVE AccessInvariant'
  <2>1. gearAt' = gearAt \ {b} /\ interlockRows' = {i \in interlockRows : b \notin i.source} /\ UNCHANGED <<shop, tierOf, inputs>>
    BY <1>2 DEF delete_module, delete_tool_module, rules_without
  <2>2. WiringStands'
    BY <1>a, <2>1 DEF WiringStands
  <2> QED  BY <2>1, <2>2, WiringChanged
<1>3. ASSUME NEW i \in interlockRows, delete_interlock(i) PROVE AccessInvariant'
  <2>1. interlockRows' = interlockRows \ {i} /\ UNCHANGED <<shop, tierOf, inputs, gearAt>>
    BY <1>3 DEF delete_interlock, delete_tool_interlock
  <2>2. WiringStands'
    BY <1>a, <2>1 DEF WiringStands
  <2> QED  BY <2>1, <2>2, WiringChanged
<1>4. ASSUME NEW t \in Shop, NEW source, create_interlock(t, source) PROVE AccessInvariant'
  <2>1. /\ interlockRows' = interlockRows \cup {[tool |-> t, source |-> source]}
        /\ UNCHANGED <<shop, tierOf, inputs, gearAt>>
    BY <1>4 DEF create_interlock, create_tool_interlock
  <2>2. shop[t] # {} /\ \A b \in source : b \in gearAt /\ b.res = t
    BY <1>4 DEF create_interlock, get_tool_by_id, list_tool_modules_for_tool
  <2>3. WiringStands'
    BY <1>a, <2>1, <2>2 DEF WiringStands
  <2> QED  BY <2>1, <2>3, WiringChanged
<1> QED  BY <1>1, <1>2, <1>3, <1>4

\* What the other parts change keeps its type.
LEMMA InputsChange ==
    ASSUME AccessInvariant, UNCHANGED toolTables,
           \/ \E p \in People : PersonChanges(p) \/ \E t \in Shop : StandingChanges(p, t)
           \/ \E k \in CardCodes : CardChanges(k)
           \/ HoursChange
    PROVE  AccessInvariant'
<1>a. InputsTyped
  BY DEF AccessInvariant, AccessTyped
<1>1. InputsTyped'
  <2>1. ASSUME NEW p \in People, PersonChanges(p) PROVE InputsTyped'
    <3>1. codes' = codes /\ openHours' = openHours
      BY <2>1 DEF PersonChanges
    <3>2. persons[p].funds \in {0, 1} /\ persons[p].active \in BOOLEAN
      BY <1>a DEF InputsTyped
    <3>3. 1 - persons[p].funds \in {0, 1}
      BY <3>2
    <3>4. persons' \in [People -> [active : BOOLEAN, funds : {0, 1}]]
      <4>1. CASE persons' = [persons EXCEPT ![p].active = ~ @]
        BY <1>a, <3>2, <4>1 DEF InputsTyped
      <4>2. CASE persons' = [persons EXCEPT ![p].funds = 1 - @]
        BY <1>a, <3>3, <4>2 DEF InputsTyped
      <4> QED  BY <2>1, <4>1, <4>2 DEF PersonChanges
    <3> QED  BY <1>a, <3>1, <3>4 DEF InputsTyped
  <2>2. ASSUME NEW k \in CardCodes, CardChanges(k) PROVE InputsTyped'
    <3>1. persons' = persons /\ openHours' = openHours
      BY <2>2 DEF CardChanges
    <3>2. codes[k] \in [card : {"active", "disabled", "none"}, legacy : BOOLEAN]
      BY <1>a DEF InputsTyped
    <3>3. codes' \in [CardCodes -> [card : {"active", "disabled", "none"}, legacy : BOOLEAN]]
      <4>1. CASE codes' = [codes EXCEPT ![k].card = IF @ = "active" THEN "disabled" ELSE "active"]
        BY <1>a, <3>2, <4>1 DEF InputsTyped
      <4>2. CASE codes' = [codes EXCEPT ![k].legacy = ~ @]
        BY <1>a, <3>2, <4>2 DEF InputsTyped
      <4> QED  BY <2>2, <4>1, <4>2 DEF CardChanges
    <3> QED  BY <1>a, <3>1, <3>3 DEF InputsTyped
  <2>3. ASSUME NEW p \in People, NEW t \in Shop, StandingChanges(p, t) PROVE InputsTyped'
    BY <1>a, <2>3 DEF StandingChanges, InputsTyped
  <2>4. CASE HoursChange
    BY <1>a, <2>4 DEF HoursChange, InputsTyped
  <2> QED  BY <2>1, <2>2, <2>3, <2>4
<1> QED  BY <1>1 DEF AccessInvariant, AccessTyped, ShopTyped, TiersTyped, WiringStands, toolTables

\* A step of the desk, a scan or a stop at a tool gives it a row or takes its row away.
LEMMA ToolHandlers ==
    ASSUME AccessInvariant, NEW t \in Shop,
           \/ \E row \in ToolRow : create_tool(t, row) \/ update_tool(t, row)
           \/ \E s \in Statuses : change_tool_status(t, s)
           \/ delete_tool(t) \/ deactivate_tool(t)
           \/ shop[t] # {} /\ \E k \in CardCodes : activate_tool(k, t)
    PROVE  AccessInvariant'
<1>1. ASSUME NEW row \in ToolRow, create_tool(t, row) PROVE AccessInvariant'
  BY <1>1, RowGiven DEF create_tool, db_create_tool
<1>2. ASSUME NEW row \in ToolRow, update_tool(t, row) PROVE AccessInvariant'
  BY <1>2, RowGiven DEF update_tool, db_update_tool
<1>3. ASSUME NEW s \in Statuses, change_tool_status(t, s) PROVE AccessInvariant'
  BY <1>3, StatusGiven DEF change_tool_status, update_tool_status, get_tool_by_id
<1>4. CASE delete_tool(t)
  BY <1>4, ToolDeleted DEF delete_tool
<1>5. CASE deactivate_tool(t)
  BY <1>5, StatusGiven DEF deactivate_tool, Statuses
<1>6. ASSUME NEW k \in CardCodes, activate_tool(k, t), shop[t] # {} PROVE AccessInvariant'
  BY <1>6, StatusGiven DEF activate_tool, Statuses
<1> QED  BY <1>1, <1>2, <1>3, <1>4, <1>5, <1>6

\* A step that touches none of the tables keeps the invariant.
LEMMA TablesRest ==
    ASSUME AccessInvariant, UNCHANGED <<toolTables, inputs>>
    PROVE  AccessInvariant'
BY DEF AccessInvariant, AccessTyped, ShopTyped, TiersTyped, InputsTyped, WiringStands, toolTables, inputs

\* At a resource, a scan or a stop is of the tool that is there, or of the room.
LEMMA ScansAndStops ==
    ASSUME AccessInvariant, NEW r \in Resources,
           stop(r) \/ admin_stop(r) \/ \E k \in CardCodes : scan(k, r)
    PROVE  AccessInvariant'
<1>1. CASE "tool" \in find_resource(r)
  <2>1. r \in Shop /\ shop[r] # {}
    BY <1>1 DEF find_resource, resource_kind
  <2>2. deactivate_tool(r) \/ \E k \in CardCodes : activate_tool(k, r)
    BY <1>1 DEF stop, admin_stop, scan
  <2> QED  BY <2>1, <2>2, ToolHandlers
<1>2. CASE "tool" \notin find_resource(r)
  <2>1. EndsDoor(r) \/ \E k \in CardCodes : scan_door(k, r)
    BY <1>2 DEF stop, admin_stop, scan
  <2>2. UNCHANGED <<toolTables, inputs>>
    BY <2>1 DEF EndsDoor, scan_door
  <2> QED  BY <2>2, TablesRest
<1> QED  BY <1>1, <1>2

\* Every step keeps the tables typed and the wiring standing.
LEMMA AccessKeeps == AccessInvariant /\ [AccessNext]_accessVars => AccessInvariant'
<1> SUFFICES ASSUME AccessInvariant, [AccessNext]_accessVars PROVE AccessInvariant'
  OBVIOUS
<1>1. CASE \/ policy \/ publish_to_devices \/ PayloadSent \/ PolicyComes \/ AliasComes \/ PayloadGoesMissing
            \/ DoorRulesChange \/ DoorsPublished
  <2>1. UNCHANGED <<toolTables, inputs>>
    BY <1>1 DEF policy, publish_to_devices, PayloadSent, Sends, PolicyComes, AliasComes, PayloadGoesMissing,
                DoorRulesChange, DoorsPublished
  <2> QED  BY <2>1, TablesRest
<1>2. CASE HoursChange
  BY <1>2, InputsChange DEF HoursChange
<1>3. ASSUME NEW t \in Shop,
             \/ \E row \in ToolRow : create_tool(t, row) \/ update_tool(t, row)
             \/ \E s \in Statuses : change_tool_status(t, s)
             \/ delete_tool(t)
      PROVE  AccessInvariant'
  BY <1>3, ToolHandlers
<1>4. ASSUME NEW t \in Shop, NEW r1 \in Rates,
             create_tier(t, r1) \/ delete_tier(t, r1) \/ \E r2 \in Rates : update_tier(t, r1, r2)
      PROVE  AccessInvariant'
  BY <1>4, TierHandlers
<1>5. ASSUME NEW t \in Shop, NEW p \in People, \E r1 \in Rates : assign_tier(p, t, r1) \/ clear_tier(p, t)
      PROVE  AccessInvariant'
  BY <1>5, TierHandlers
<1>6. ASSUME NEW t \in Shop, NEW p \in People, clear_tier(p, t) PROVE AccessInvariant'
  <2>1. 0 \in Rates
    BY DEF Rates
  <2> QED  BY <1>5, <1>6, <2>1
<1>7. ASSUME NEW t \in Shop, NEW p \in People, StandingChanges(p, t) PROVE AccessInvariant'
  BY <1>7, InputsChange DEF StandingChanges
<1>8. ASSUME \/ \E b \in [dev : Gear, res : Resources, role : {"edge", "power"}] : create_module(b)
             \/ \E b \in gearAt : delete_module(b)
             \/ \E i \in interlockRows : delete_interlock(i)
             \/ \E t \in Shop : create_interlock(t, {}) \/ \E b \in gearAt : create_interlock(t, {b})
      PROVE  AccessInvariant'
  BY <1>8, WiringHandlers
<1>9. ASSUME NEW r \in Resources, stop(r) \/ admin_stop(r) \/ \E k \in CardCodes : scan(k, r) PROVE AccessInvariant'
  BY <1>9, ScansAndStops
<1>10. ASSUME NEW r \in Rooms, NEW x \in Profiles, update_resource(r, x) PROVE AccessInvariant'
  BY <1>10, TablesRest DEF update_resource
<1>11. ASSUME NEW p \in People, PersonChanges(p) PROVE AccessInvariant'
  BY <1>11, InputsChange DEF PersonChanges
<1>12. ASSUME NEW k \in CardCodes, CardChanges(k) PROVE AccessInvariant'
  BY <1>12, InputsChange DEF CardChanges
<1>13. CASE UNCHANGED accessVars
  <2>1. UNCHANGED <<toolTables, inputs>>
    BY <1>13 DEF accessVars, toolTables, inputs
  <2> QED  BY <2>1, TablesRest
<1> QED
  BY <1>1, <1>2, <1>3, <1>4, <1>5, <1>6, <1>7, <1>8, <1>9, <1>10, <1>11, <1>12, <1>13, Zenon DEF AccessNext

\* What the edge is given lets it stand in for the server, for any people, codes, tools, rooms and devices: an edge whose
\* lists are those of build_resource_policy decides as the server does at a scan, but for the exceptions named, and
\* module_state_snapshot never names a resource that is gone nor a rule without its source.
THEOREM EdgeStandsIn == AccessSpec => []EdgeActsForTheServer
<1>1. AccessInvariant => EdgeActsForTheServer
  BY EdgeDecides, WiringMakesSnapshot DEF AccessInvariant, EdgeActsForTheServer
<1> QED  BY <1>1, AccessBegins, AccessKeeps, PTL DEF AccessSpec

-----------------------------------------------------------------------------
(* Access: doors on two paths *)

\* The payloads that carry doors.
Carriers == {m \in wire : m.kind # "alias"}
CacheTyped ==
    /\ cache = [tools |-> cache.tools, members |-> cache.members, doors |-> cache.doors, applied_at |-> cache.applied_at,
                doorsAtStamp |-> cache.doorsAtStamp]
    /\ cache.doors \in Nat /\ cache.applied_at \in Int /\ cache.doorsAtStamp \in Nat
WireTyped == \A m \in Carriers : m.as_of \in Nat /\ m.doors \in Nat /\ m.doorsAtStamp \in Nat
BuildingTyped == \A b \in building : b.kind # "alias" /\ b.doors \in Nat /\ b.doors <= doorEdition
\* Of two copies the one with the newer stamp was stamped over no older doors, and no copy holds newer doors than it was
\* stamped over.
StampsOrderDoors ==
    /\ accessSteps \in Nat /\ doorEdition \in Nat /\ CacheTyped /\ WireTyped /\ BuildingTyped
    /\ cache.applied_at <= accessSteps /\ cache.doors <= cache.doorsAtStamp /\ cache.doorsAtStamp <= doorEdition
    /\ \A m \in Carriers : /\ m.as_of <= accessSteps /\ m.doors <= m.doorsAtStamp /\ m.doorsAtStamp <= doorEdition
                           /\ m.as_of = accessSteps => m.doorsAtStamp = doorEdition
                           /\ cache.applied_at <= m.as_of => cache.doorsAtStamp <= m.doorsAtStamp
                           /\ \A n \in Carriers : m.as_of <= n.as_of => m.doorsAtStamp <= n.doorsAtStamp

\* What is read holds the doors there are.
LEMMA PayloadRead ==
    ASSUME StampsOrderDoors, NEW b, b.kind # "alias", b.doors = doorEdition,
           building' = building \cup {b}, Carriers' = Carriers, UNCHANGED <<cache, doorEdition, accessSteps>>
    PROVE  StampsOrderDoors'
<1>1. doorEdition \in Nat /\ BuildingTyped /\ CacheTyped /\ WireTyped
  BY DEF StampsOrderDoors
<1>2. BuildingTyped'
  BY <1>1 DEF BuildingTyped
<1>3. CacheTyped' /\ WireTyped'
  BY <1>1 DEF CacheTyped, WireTyped
<1> QED  BY <1>2, <1>3 DEF StampsOrderDoors

\* A payload stamped now is the newest there is, whenever it was read.
LEMMA PayloadIsNew ==
    ASSUME StampsOrderDoors, NEW b \in building, Sends(b)
    PROVE  StampsOrderDoors' /\ cache' = cache
<1>0. UNCHANGED <<cache, doorEdition, accessSteps>> /\ building' = building \ {b} /\ wire' = wire \cup {Stamped(b)}
  BY DEF Sends, roomTables
<1>1. ASSUME NEW m \in Carriers'
      PROVE  m \in Carriers \/ (m.as_of = accessSteps /\ m.doorsAtStamp = doorEdition /\ m.doors = b.doors)
  <2>1. m \in wire \/ m = Stamped(b)
    BY <1>0 DEF Carriers
  <2> QED  BY <2>1 DEF Carriers, Stamped
<1>b. b.doors \in Nat /\ b.doors <= doorEdition
  BY DEF StampsOrderDoors, BuildingTyped
<1>2. CacheTyped' /\ BuildingTyped'
  BY <1>0 DEF StampsOrderDoors, CacheTyped, BuildingTyped
<1>3. ASSUME NEW m \in Carriers'
      PROVE  /\ m.as_of \in Nat /\ m.doors \in Nat /\ m.doorsAtStamp \in Nat
             /\ m.as_of <= accessSteps /\ m.doors <= m.doorsAtStamp /\ m.doorsAtStamp <= doorEdition
             /\ m.as_of = accessSteps => m.doorsAtStamp = doorEdition
             /\ cache.applied_at <= m.as_of => cache.doorsAtStamp <= m.doorsAtStamp
  BY <1>1, <1>b DEF StampsOrderDoors, WireTyped, CacheTyped
<1>4. ASSUME NEW m \in Carriers', NEW n \in Carriers', m.as_of <= n.as_of PROVE m.doorsAtStamp <= n.doorsAtStamp
  <2>1. CASE m \in Carriers /\ n \in Carriers
    BY <1>4, <2>1 DEF StampsOrderDoors
  <2>2. CASE n.as_of = accessSteps
    BY <1>3, <1>4, <2>2
  <2>3. CASE m.as_of = accessSteps
    <3>1. n.as_of = accessSteps
      BY <1>3, <1>4, <2>3 DEF StampsOrderDoors
    <3> QED  BY <1>3, <3>1
  <2> QED  BY <1>1, <2>1, <2>2, <2>3
<1>5. WireTyped'
  BY <1>3 DEF WireTyped
<1> QED  BY <1>0, <1>2, <1>3, <1>4, <1>5 DEF StampsOrderDoors

\* A payload taken off the wire leaves the cache as it was, or with its own doors and stamp when it is not stale.
LEMMA PayloadTaken ==
    ASSUME StampsOrderDoors, NEW m \in wire, wire' \in SUBSET wire, CacheTyped',
           UNCHANGED <<doorEdition, accessSteps, building>>,
           \/ /\ cache'.doors = cache.doors /\ cache'.applied_at = cache.applied_at
              /\ cache'.doorsAtStamp = cache.doorsAtStamp
           \/ /\ m.kind # "alias" /\ ~ is_stale(m.as_of)
              /\ cache'.doors = m.doors /\ cache'.applied_at = m.as_of /\ cache'.doorsAtStamp = m.doorsAtStamp
    PROVE  StampsOrderDoors' /\ cache.doors <= cache'.doorsAtStamp
<1>1. Carriers' \in SUBSET Carriers
  BY DEF Carriers
<1>2. WireTyped' /\ BuildingTyped'
  BY <1>1 DEF StampsOrderDoors, WireTyped, BuildingTyped
<1>3. CASE cache'.doors = cache.doors /\ cache'.applied_at = cache.applied_at /\ cache'.doorsAtStamp = cache.doorsAtStamp
  BY <1>1, <1>2, <1>3 DEF StampsOrderDoors, CacheTyped
<1>4. CASE /\ m.kind # "alias" /\ ~ is_stale(m.as_of)
           /\ cache'.doors = m.doors /\ cache'.applied_at = m.as_of /\ cache'.doorsAtStamp = m.doorsAtStamp
  <2>1. m \in Carriers
    BY <1>4 DEF Carriers
  <2>2. m.as_of \in Nat /\ m.doors \in Nat /\ m.doorsAtStamp \in Nat /\ cache.applied_at <= m.as_of
    BY <1>4, <2>1 DEF StampsOrderDoors, WireTyped, CacheTyped, is_stale
  <2>3. cache.doors <= cache'.doorsAtStamp
    BY <1>4, <2>1, <2>2 DEF StampsOrderDoors, CacheTyped
  <2>4. cache'.applied_at <= accessSteps /\ cache'.doors <= cache'.doorsAtStamp /\ cache'.doorsAtStamp <= doorEdition
    BY <1>4, <2>1 DEF StampsOrderDoors
  <2>5. \A n \in Carriers' : cache'.applied_at <= n.as_of => cache'.doorsAtStamp <= n.doorsAtStamp
    BY <1>1, <1>4, <2>1 DEF StampsOrderDoors
  <2> QED  BY <1>1, <1>2, <2>3, <2>4, <2>5 DEF StampsOrderDoors
<1> QED  BY <1>3, <1>4

\* An edit of the tables makes every copy older.
LEMMA TablesMoveOn ==
    ASSUME StampsOrderDoors, accessSteps' = accessSteps + 1, doorEdition' \in {doorEdition, doorEdition + 1},
           UNCHANGED <<cache, wire, building>>
    PROVE  StampsOrderDoors'
<1>1. Carriers' = Carriers
  BY DEF Carriers
<1>2. accessSteps \in Nat /\ doorEdition \in Nat /\ CacheTyped /\ WireTyped /\ BuildingTyped
  BY DEF StampsOrderDoors
<1>4. doorEdition <= doorEdition' /\ doorEdition' \in Nat /\ accessSteps' \in Nat /\ accessSteps < accessSteps'
  BY <1>2
<1>3. CacheTyped' /\ WireTyped' /\ BuildingTyped'
  BY <1>1, <1>2, <1>4 DEF CacheTyped, WireTyped, BuildingTyped
<1>5. cache'.applied_at <= accessSteps' /\ cache'.doorsAtStamp <= doorEdition'
  BY <1>2, <1>4 DEF StampsOrderDoors, CacheTyped
<1>6. ASSUME NEW m \in Carriers
      PROVE  m.as_of <= accessSteps' /\ m.doorsAtStamp <= doorEdition' /\ m.as_of # accessSteps'
  BY <1>2, <1>4 DEF StampsOrderDoors, WireTyped
<1> QED  BY <1>1, <1>3, <1>4, <1>5, <1>6 DEF StampsOrderDoors

\* Every step is one of these, and after each the edge's doors are stamped over all that it held before.
LEMMA DoorsGoOn ==
    ASSUME StampsOrderDoors, [AccessNext]_accessVars
    PROVE  StampsOrderDoors' /\ cache.doors <= cache'.doorsAtStamp
<1>a. cache.doors <= cache.doorsAtStamp
  BY DEF StampsOrderDoors
<1>1. CASE policy \/ publish_to_devices \/ DoorsPublished
  <2>1. UNCHANGED <<cache, doorEdition, accessSteps>>
    BY <1>1 DEF policy, publish_to_devices, DoorsPublished, roomTables
  <2>2. PICK b \in {build_resource_policy(Edge), doors_alias} : building' = building \cup {b}
    BY <1>1 DEF policy, publish_to_devices, DoorsPublished
  <2>3. b.kind # "alias" /\ b.doors = doorEdition
    BY DEF build_resource_policy, doors_alias
  <2>4. wire' = wire \/ wire' = wire \cup {sync_alias(Edge)}
    BY <1>1 DEF policy, publish_to_devices, DoorsPublished
  <2>5. Carriers' = Carriers
    BY <2>4 DEF Carriers, sync_alias
  <2>6. StampsOrderDoors'
    BY <2>1, <2>2, <2>3, <2>5, PayloadRead
  <2> QED  BY <1>a, <2>1, <2>6
<1>s. CASE PayloadSent
  <2>1. PICK b \in building : Sends(b)
    BY <1>s DEF PayloadSent
  <2> QED  BY <1>a, <2>1, PayloadIsNew
<1>2. CASE PolicyComes
  <2>1. PICK m \in wire : /\ m.kind = "policy" /\ wire' = wire \ {m} /\ apply_policy(m)
                          /\ UNCHANGED <<doorEdition, accessSteps, building>>
    BY <1>2 DEF PolicyComes, roomTables
  <2>2. CASE is_stale(m.as_of)
    <3>1. cache' = cache
      BY <2>1, <2>2 DEF apply_policy
    <3>2. CacheTyped'
      BY <3>1 DEF StampsOrderDoors, CacheTyped
    <3> QED  BY <2>1, <3>1, <3>2, PayloadTaken
  <2>3. CASE ~ is_stale(m.as_of)
    <3>1. cache' = [tools |-> m.tools, members |-> m.members, doors |-> m.doors, applied_at |-> m.as_of,
                  doorsAtStamp |-> m.doorsAtStamp]
      BY <2>1, <2>3 DEF apply_policy
    <3>2. m \in Carriers
      BY <2>1 DEF Carriers
    <3>3. m.as_of \in Nat /\ m.doors \in Nat /\ m.doorsAtStamp \in Nat
      BY <3>2 DEF StampsOrderDoors, WireTyped
    <3>4. CacheTyped'
      BY <3>1, <3>3 DEF CacheTyped
    <3>5. m.kind # "alias" /\ cache'.doors = m.doors /\ cache'.applied_at = m.as_of /\ cache'.doorsAtStamp = m.doorsAtStamp
      BY <2>1, <3>1
    <3> QED  BY <2>1, <2>3, <3>4, <3>5, PayloadTaken
  <2> QED  BY <2>2, <2>3
<1>3. CASE AliasComes
  <2>1. PICK m \in wire : /\ wire' = wire \ {m} /\ UNCHANGED <<doorEdition, accessSteps, building>>
                          /\ IF m.kind = "alias" THEN apply_sync_alias(m) ELSE apply_doors(m)
    BY <1>3 DEF AliasComes, roomTables
  <2>2. CASE m.kind = "alias"
    <3>1. cache' = [cache EXCEPT !.tools = m.tools, !.members = m.members]
      BY <2>1, <2>2 DEF apply_sync_alias
    <3>2. CacheTyped' /\ cache'.doors = cache.doors /\ cache'.applied_at = cache.applied_at /\ cache'.doorsAtStamp = cache.doorsAtStamp
      BY <3>1 DEF StampsOrderDoors, CacheTyped
    <3> QED  BY <2>1, <3>2, PayloadTaken
  <2>3. CASE m.kind # "alias" /\ is_stale(m.as_of)
    <3>1. cache' = cache
      BY <2>1, <2>3 DEF apply_doors
    <3>2. CacheTyped'
      BY <3>1 DEF StampsOrderDoors, CacheTyped
    <3> QED  BY <2>1, <3>1, <3>2, PayloadTaken
  <2>4. CASE m.kind # "alias" /\ ~ is_stale(m.as_of)
    <3>1. cache' = [cache EXCEPT !.doors = m.doors, !.applied_at = m.as_of, !.doorsAtStamp = m.doorsAtStamp]
      BY <2>1, <2>4 DEF apply_doors
    <3>2. m \in Carriers
      BY <2>4 DEF Carriers
    <3>3. m.as_of \in Nat /\ m.doors \in Nat /\ m.doorsAtStamp \in Nat
      BY <3>2 DEF StampsOrderDoors, WireTyped
    <3>4. CacheTyped' /\ cache'.doors = m.doors /\ cache'.applied_at = m.as_of /\ cache'.doorsAtStamp = m.doorsAtStamp
      <4>1. cache = [tools |-> cache.tools, members |-> cache.members, doors |-> cache.doors, applied_at |-> cache.applied_at,
                        doorsAtStamp |-> cache.doorsAtStamp]
        BY DEF StampsOrderDoors, CacheTyped
      <4>2. cache' = [tools |-> cache.tools, members |-> cache.members, doors |-> m.doors, applied_at |-> m.as_of,
                  doorsAtStamp |-> m.doorsAtStamp]
        BY <3>1, <4>1
      <4> QED  BY <3>3, <4>2 DEF CacheTyped
    <3> QED  BY <2>1, <2>4, <3>4, PayloadTaken
  <2> QED  BY <2>2, <2>3, <2>4
<1>4. CASE PayloadGoesMissing
  <2>1. PICK m \in wire : wire' = wire \ {m}
    BY <1>4 DEF PayloadGoesMissing
  <2>2. UNCHANGED <<cache, doorEdition, accessSteps, building>>
    BY <1>4 DEF PayloadGoesMissing, roomTables
  <2>3. CacheTyped'
    BY <2>2 DEF StampsOrderDoors, CacheTyped
  <2> QED  BY <2>1, <2>2, <2>3, PayloadTaken
<1>5. CASE Edited /\ UNCHANGED edgeSide /\ doorEdition' \in {doorEdition, doorEdition + 1}
  <2>1. StampsOrderDoors'
    BY <1>5, TablesMoveOn DEF Edited, edgeSide
  <2> QED  BY <1>5, <1>a, <2>1 DEF edgeSide
<1>6. CASE UNCHANGED accessVars
  <2>1. UNCHANGED <<cache, wire, building, doorEdition, accessSteps>>
    BY <1>6 DEF accessVars
  <2> QED  BY <1>a, <2>1 DEF StampsOrderDoors, CacheTyped, WireTyped, BuildingTyped, Carriers
<1>7. CASE HoursChange \/ DoorRulesChange
  BY <1>5, <1>7 DEF HoursChange, DoorRulesChange, roomTables
<1>8. ASSUME NEW t \in Shop,
             \/ \E row \in ToolRow : create_tool(t, row) \/ update_tool(t, row)
             \/ \E s \in Statuses : change_tool_status(t, s)
             \/ delete_tool(t)
      PROVE  Edited /\ UNCHANGED edgeSide /\ doorEdition' \in {doorEdition, doorEdition + 1}
  BY <1>8 DEF create_tool, update_tool, change_tool_status, delete_tool, roomTables
<1>9. ASSUME NEW t \in Shop, NEW r1 \in Rates,
             create_tier(t, r1) \/ delete_tier(t, r1) \/ \E r2 \in Rates : update_tier(t, r1, r2)
      PROVE  Edited /\ UNCHANGED edgeSide /\ doorEdition' \in {doorEdition, doorEdition + 1}
  BY <1>9 DEF create_tier, delete_tier, update_tier, roomTables
<1>10. ASSUME NEW t \in Shop, NEW p \in People,
              (\E r1 \in Rates : assign_tier(p, t, r1)) \/ clear_tier(p, t) \/ StandingChanges(p, t)
       PROVE  Edited /\ UNCHANGED edgeSide /\ doorEdition' \in {doorEdition, doorEdition + 1}
  BY <1>10 DEF assign_tier, clear_tier, StandingChanges, roomTables
<1>11. ASSUME NEW t \in Shop, create_interlock(t, {}) \/ \E b \in gearAt : create_interlock(t, {b})
       PROVE  Edited /\ UNCHANGED edgeSide /\ doorEdition' \in {doorEdition, doorEdition + 1}
  BY <1>11 DEF create_interlock, roomTables
<1>12. ASSUME NEW b, create_module(b) \/ delete_module(b)
       PROVE  Edited /\ UNCHANGED edgeSide /\ doorEdition' \in {doorEdition, doorEdition + 1}
  BY <1>12 DEF create_module, delete_module, roomTables
<1>13. ASSUME NEW i, delete_interlock(i)
       PROVE  Edited /\ UNCHANGED edgeSide /\ doorEdition' \in {doorEdition, doorEdition + 1}
  BY <1>13 DEF delete_interlock, roomTables
<1>14. ASSUME NEW r \in Resources, stop(r) \/ admin_stop(r) \/ \E k \in CardCodes : scan(k, r)
       PROVE  Edited /\ UNCHANGED edgeSide /\ doorEdition' \in {doorEdition, doorEdition + 1}
  BY <1>14 DEF stop, admin_stop, scan, deactivate_tool, activate_tool, EndsDoor, scan_door, roomTables
<1>15. ASSUME NEW r \in Rooms, NEW x \in Profiles, update_resource(r, x)
       PROVE  Edited /\ UNCHANGED edgeSide /\ doorEdition' \in {doorEdition, doorEdition + 1}
  BY <1>15 DEF update_resource
<1>16. ASSUME NEW p \in People, PersonChanges(p)
       PROVE  Edited /\ UNCHANGED edgeSide /\ doorEdition' \in {doorEdition, doorEdition + 1}
  BY <1>16 DEF PersonChanges, roomTables
<1>17. ASSUME NEW k \in CardCodes, CardChanges(k)
       PROVE  Edited /\ UNCHANGED edgeSide /\ doorEdition' \in {doorEdition, doorEdition + 1}
  BY <1>17 DEF CardChanges, roomTables
<1> QED
  BY <1>1, <1>s, <1>2, <1>3, <1>4, <1>5, <1>6, <1>7, <1>8, <1>9, <1>10, <1>11, <1>12, <1>13, <1>14, <1>15, <1>16, <1>17,
     Zenon DEF AccessNext

\* The doors an edge holds lose an edit only to a payload that was read before the edit and stamped after it (server
\* doors.rs compile_state_for, resources.rs build_resource_policy; edge/src/resources.rs apply_policy, apply_doors_alias,
\* is_stale): one stamped before the edit never replaces one that has it, whichever of the policy and the doors snapshot
\* overtakes the other, however many are read, stamped and on their way at once.
THEOREM OnlyConcurrentEditsLost == AccessSpec => DoorsLoseOnlyConcurrentEdits
<1>1. AccessInit => StampsOrderDoors
  BY DEF AccessInit, StampsOrderDoors, CacheTyped, WireTyped, BuildingTyped, Carriers, NoPolicy
<1>2. StampsOrderDoors /\ [AccessNext]_accessVars => StampsOrderDoors'
  BY DoorsGoOn
<1>3. StampsOrderDoors /\ [AccessNext]_accessVars
        => [cache'.doors < cache.doors => cache.doors <= cache'.doorsAtStamp]_accessVars
  BY DoorsGoOn
<1> QED  BY <1>1, <1>2, <1>3, PTL DEF AccessSpec, DoorsLoseOnlyConcurrentEdits
=============================================================================
