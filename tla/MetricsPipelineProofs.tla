------------------------ MODULE MetricsPipelineProofs ------------------------
(* Proofs about MetricsPipeline for all agents, values, lengths of a minute  *)
(* and of an hour, times kept and bounds: types, no sample counted twice     *)
(* under all faults, and, as long as the process runs, the refinement of     *)
(* MetricLedger and hour rows that never shrink.                             *)
EXTENDS MetricsPipeline, FiniteSetTheorems, TLAPS

-----------------------------------------------------------------------------
(* What SumFunction of the community module Functions computes.  The         *)
(* arguments go by a smallest counterexample: the subsets of a finite set    *)
(* are well founded under strict inclusion.                                  *)

\* A non-empty collection of finite subsets has a minimal one.
LEMMA MinimalSubset ==
  ASSUME NEW S, IsFiniteSet(S), NEW C \in SUBSET SUBSET S, C # {}
  PROVE  \E T \in C : \A U \in C : U \subseteq T => U = T
<1>1. IsWellFoundedOn(StrictSubsetOrdering(S), SUBSET S)
  BY FS_StrictSubsetOrderingWellFounded, FS_FiniteSubsetsOfFinite
<1>2. PICK T \in C : \A U \in C : ~ (<<U, T>> \in StrictSubsetOrdering(S))
  BY <1>1, WFMin
<1>3. \A U \in C : U \subseteq T => U = T
  BY <1>2 DEF StrictSubsetOrdering
<1> QED BY <1>3

First(s) == CHOOSE x \in s : TRUE

\* The recursion of the sum: its entry for the set s.
Entry(f, g, s) == IF s = {} THEN 0 ELSE f[First(s)] + g[s \ {First(s)}]

\* A table of the recursion for the subsets of T.
Sums(f, T, g) == g = [s \in SUBSET T |-> Entry(f, g, s)]

\* The element a sum takes first is one of the set.
LEMMA FirstOf == \A s : s # {} => First(s) \in s
BY DEF First

\* Two tables of the recursion agree where both are defined.
LEMMA SumsUnique ==
  ASSUME NEW S, IsFiniteSet(S), NEW f, NEW T \in SUBSET S, NEW U \in SUBSET S,
         NEW g, NEW h, Sums(f, T, g), Sums(f, U, h), NEW s \in SUBSET (T \cap U)
  PROVE  g[s] = h[s]
<1> DEFINE C == {t \in SUBSET (T \cap U) : g[t] # h[t]}
<1> SUFFICES ASSUME C # {} PROVE FALSE
  OBVIOUS
<1>1. C \in SUBSET SUBSET S
  OBVIOUS
<1>2. PICK t \in C : \A u \in C : u \subseteq t => u = t
  <2> HIDE DEF C
  <2> QED BY <1>1, MinimalSubset
<1>3. g[t] = Entry(f, g, t) /\ h[t] = Entry(f, h, t)
  BY DEF Sums
<1>4. CASE t = {}
  BY <1>3, <1>4 DEF Entry
<1>5. CASE t # {}
  <2> DEFINE u == t \ {First(t)}
  <2>1. u \in SUBSET (T \cap U) /\ u \subseteq t /\ u # t
    BY <1>5, FirstOf
  <2>2. g[u] = h[u]
    BY <2>1, <1>2
  <2> QED BY <2>2, <1>3, <1>5 DEF Entry
<1> QED BY <1>4, <1>5

\* There is such a table.
LEMMA SumsExist ==
  ASSUME NEW S, IsFiniteSet(S), NEW f
  PROVE  \E g : Sums(f, S, g)
<1> DEFINE C == {T \in SUBSET S : ~ \E g : Sums(f, T, g)}
<1> SUFFICES ASSUME C # {} PROVE FALSE
  OBVIOUS
<1>1. C \in SUBSET SUBSET S
  OBVIOUS
<1>2. PICK T \in C : \A U \in C : U \subseteq T => U = T
  <2> HIDE DEF C
  <2> QED BY <1>1, MinimalSubset
<1>3. T \in SUBSET S /\ ~ (\E g : Sums(f, T, g))
  OBVIOUS
<1>4. \A t \in SUBSET T : t # T => \E g : Sums(f, t, g)
  BY <1>2, <1>3
<1> HIDE DEF C
<1> DEFINE table(t) == CHOOSE g : Sums(f, t, g)
           G == [t \in SUBSET T |-> table(t)[t]]
           new == [t \in SUBSET T |-> Entry(f, G, t)]
<1>5. ASSUME NEW t \in SUBSET T, t # T
      PROVE  G[t] = Entry(f, G, t)
  <2>1. Sums(f, t, table(t))
    BY <1>4, <1>5
  <2>2. G[t] = Entry(f, table(t), t)
    <3> HIDE DEF table
    <3> QED BY <2>1 DEF Sums
  <2>3. CASE t = {}
    BY <2>2, <2>3 DEF Entry
  <2>4. CASE t # {}
    <3> DEFINE u == t \ {First(t)}
    <3>1. u \in SUBSET t /\ u \in SUBSET T /\ u # T
      BY <1>5, <2>4, FirstOf
    <3>2. Sums(f, u, table(u))
      BY <1>4, <3>1
    <3>3. t \in SUBSET S /\ u \in SUBSET S /\ u \in SUBSET (t \cap u)
      BY <1>3, <3>1
    <3>4. table(t)[u] = table(u)[u]
      <4> HIDE DEF table, u
      <4> QED BY <2>1, <3>2, <3>3, SumsUnique
    <3>5. table(t)[u] = G[u]
      <4> HIDE DEF table, u
      <4> QED BY <3>1, <3>4
    <3> QED
      <4> HIDE DEF table, G
      <4> QED BY <2>2, <2>4, <3>5 DEF Entry
  <2> QED BY <2>3, <2>4
<1>6. \A t \in SUBSET T : Entry(f, new, t) = Entry(f, G, t)
  <2> SUFFICES ASSUME NEW t \in SUBSET T, t # {}
               PROVE  Entry(f, new, t) = Entry(f, G, t)
    BY DEF Entry
  <2> DEFINE u == t \ {First(t)}
  <2>1. u \in SUBSET T /\ u # T
    BY FirstOf
  <2>2. G[u] = Entry(f, G, u)
    BY <1>5, <2>1
  <2>3. new[u] = G[u]
    <3> HIDE DEF G, u
    <3> QED BY <2>1, <2>2
  <2> QED
    <3> HIDE DEF G, new
    <3> QED BY <2>3 DEF Entry
<1>7. Sums(f, T, new)
  <2> HIDE DEF G
  <2> QED BY <1>6 DEF Sums
<1> QED BY <1>3, <1>7

\* SumFunctionOnSet is the last entry of such a table.
LEMMA SumIsTable ==
  ASSUME NEW S, IsFiniteSet(S), NEW f
  PROVE  \E g : Sums(f, S, g) /\ SumFunctionOnSet(f, S) = g[S]
<1> DEFINE g == CHOOSE g : Sums(f, S, g)
<1>1. Sums(f, S, g)
  BY SumsExist
<1>2. SumFunctionOnSet(f, S) = g[S]
  BY DEF SumFunctionOnSet, FoldFunctionOnSet, MapThenFoldSet, Sums, Entry, First
<1> QED BY <1>1, <1>2

-----------------------------------------------------------------------------
(* Sums of natural numbers.                                                  *)

\* What a table of sums says of one set, by the element taken first.
LEMMA EntryOf ==
  ASSUME NEW T, NEW f, NEW g, Sums(f, T, g), NEW s \in SUBSET T
  PROVE  /\ s = {} => g[s] = 0
         /\ s # {} => /\ First(s) \in s
                      /\ s \ {First(s)} \in SUBSET T
                      /\ s \ {First(s)} \subseteq s /\ s \ {First(s)} # s
                      /\ g[s] = f[First(s)] + g[s \ {First(s)}]
BY FirstOf DEF Sums, Entry

\* A sum of natural numbers is one.
LEMMA SumType ==
  ASSUME NEW S, IsFiniteSet(S), NEW f \in [S -> Nat]
  PROVE  SumFunctionOnSet(f, S) \in Nat /\ SumFunction(f) \in Nat
<1>1. PICK g : Sums(f, S, g) /\ SumFunctionOnSet(f, S) = g[S]
  BY SumIsTable
<1> DEFINE C == {s \in SUBSET S : g[s] \notin Nat}
<1>2. C = {}
  <2> SUFFICES ASSUME C # {} PROVE FALSE
    OBVIOUS
  <2>1. C \in SUBSET SUBSET S
    OBVIOUS
  <2>2. PICK s \in C : \A u \in C : u \subseteq s => u = s
    <3> HIDE DEF C
    <3> QED BY <2>1, MinimalSubset
  <2>3. s \in SUBSET S /\ g[s] \notin Nat
    OBVIOUS
  <2>4. CASE s = {}
    <3>1. g[s] = Entry(f, g, s)
      BY <1>1, <2>3 DEF Sums
    <3>2. g[s] = 0
      BY <3>1, <2>4 DEF Entry
    <3> QED BY <2>3, <3>2
  <2>5. CASE s # {}
    <3>1. /\ First(s) \in S /\ s \ {First(s)} \notin C /\ s \ {First(s)} \in SUBSET S
          /\ g[s] = f[First(s)] + g[s \ {First(s)}]
      BY <1>1, <2>2, <2>3, <2>5, EntryOf
    <3>2. f[First(s)] \in Nat /\ g[s \ {First(s)}] \in Nat
      BY <3>1
    <3> QED BY <2>3, <3>1, <3>2
  <2> QED BY <2>4, <2>5
<1>3. g[S] \in Nat
  BY <1>2
<1> QED BY <1>1, <1>3 DEF SumFunction

\* When no term grows but that of m, by d at most, the sum grows by d at most.
LEMMA SumGrows ==
  ASSUME NEW S, IsFiniteSet(S), NEW f \in [S -> Nat], NEW h \in [S -> Nat],
         NEW m, NEW d \in Nat,
         \A x \in S : x # m => h[x] <= f[x],
         m \in S => h[m] <= f[m] + d
  PROVE  SumFunction(h) <= SumFunction(f) + d
<1>1. PICK p : Sums(f, S, p) /\ SumFunctionOnSet(f, S) = p[S]
  BY SumIsTable
<1>2. PICK q : Sums(h, S, q) /\ SumFunctionOnSet(h, S) = q[S]
  BY SumIsTable
<1> DEFINE Good(s) == /\ p[s] \in Nat /\ q[s] \in Nat
                      /\ q[s] <= p[s] + (IF m \in s THEN d ELSE 0)
           C == {s \in SUBSET S : ~Good(s)}
<1>3. C = {}
  <2> SUFFICES ASSUME C # {} PROVE FALSE
    OBVIOUS
  <2>1. C \in SUBSET SUBSET S
    OBVIOUS
  <2>2. PICK s \in C : \A u \in C : u \subseteq s => u = s
    <3> HIDE DEF C
    <3> QED BY <2>1, MinimalSubset
  <2>3. s \in SUBSET S /\ ~Good(s)
    OBVIOUS
  <2>4. CASE s = {}
    <3>1. p[s] = 0 /\ q[s] = 0
      BY <1>1, <1>2, <2>3, <2>4, EntryOf
    <3> QED BY <2>3, <2>4, <3>1
  <2>5. CASE s # {}
    <3> DEFINE x == First(s)
               u == s \ {First(s)}
    <3>1. x \in s /\ u \in SUBSET S /\ u \subseteq s /\ u # s
      BY <1>1, <2>3, <2>5, EntryOf
    <3>2. p[s] = f[x] + p[u] /\ q[s] = h[x] + q[u]
      BY <1>1, <1>2, <2>3, <2>5, EntryOf
    <3>3. Good(u)
      BY <2>2, <3>1
    <3>4. m \in s <=> (m = x \/ m \in u)
      BY <3>1
    <3>5. f[x] \in Nat /\ h[x] \in Nat /\ x \in S /\ (m = x => m \notin u)
      BY <2>3, <3>1
    <3>6. h[x] <= f[x] + (IF m = x THEN d ELSE 0)
      BY <3>5
    <3> HIDE DEF x, u
    <3> QED BY <2>3, <3>2, <3>3, <3>4, <3>5, <3>6
  <2> QED BY <2>4, <2>5
<1>4. Good(S)
  BY <1>3
<1> QED BY <1>1, <1>2, <1>4 DEF SumFunction

\* A sum of zeros.
LEMMA SumZero ==
  ASSUME NEW S, IsFiniteSet(S)
  PROVE  SumFunction([x \in S |-> 0]) = 0
<1> DEFINE f == [x \in S |-> 0]
<1>0. f \in [S -> Nat] /\ \A x \in S : f[x] = 0
  OBVIOUS
<1> HIDE DEF f
<1>1. PICK g : Sums(f, S, g) /\ SumFunctionOnSet(f, S) = g[S]
  BY SumIsTable
<1> DEFINE C == {s \in SUBSET S : g[s] # 0}
<1>2. C = {}
  <2> SUFFICES ASSUME C # {} PROVE FALSE
    OBVIOUS
  <2>1. C \in SUBSET SUBSET S
    OBVIOUS
  <2>2. PICK s \in C : \A u \in C : u \subseteq s => u = s
    <3> HIDE DEF C
    <3> QED BY <2>1, MinimalSubset
  <2>3. s \in SUBSET S /\ g[s] # 0
    OBVIOUS
  <2>4. CASE s = {}
    <3>1. g[s] = Entry(f, g, s)
      BY <1>1, <2>3 DEF Sums
    <3> QED BY <2>3, <2>4, <3>1 DEF Entry
  <2>5. CASE s # {}
    <3>1. /\ First(s) \in S /\ s \ {First(s)} \notin C /\ s \ {First(s)} \in SUBSET S
          /\ g[s] = f[First(s)] + g[s \ {First(s)}]
      BY <1>1, <2>2, <2>3, <2>5, EntryOf
    <3>2. f[First(s)] = 0 /\ g[s \ {First(s)}] = 0
      BY <1>0, <3>1
    <3> QED BY <2>3, <3>1, <3>2
  <2> QED BY <2>4, <2>5
<1>3. g[S] = 0 /\ DOMAIN f = S
  BY <1>0, <1>2
<1> QED BY <1>1, <1>3 DEF SumFunction, f

-----------------------------------------------------------------------------
(* Least and greatest members.                                               *)

\* Of finitely many subsets one is minimal.
LEMMA MinimalIndex ==
  ASSUME NEW S, IsFiniteSet(S), S # {}, NEW B \in [S -> SUBSET S]
  PROVE  \E x \in S : \A y \in S : B[y] \subseteq B[x] => B[y] = B[x]
<1> DEFINE C == {B[x] : x \in S}
<1>1. C \in SUBSET SUBSET S
  OBVIOUS
<1>2. C # {}
  OBVIOUS
<1>3. \E T \in C : \A U \in C : U \subseteq T => U = T
  <2> HIDE DEF C
  <2> QED BY <1>1, <1>2, MinimalSubset
<1> QED BY <1>3

\* Min and Max of a finite set of natural numbers.
LEMMA MinMax ==
  ASSUME NEW S, IsFiniteSet(S), S # {}
  PROVE  S \subseteq Nat => /\ Min(S) \in S /\ \A y \in S : Min(S) <= y
                            /\ Max(S) \in S /\ \A y \in S : y <= Max(S)
<1>1. \A B \in [S -> SUBSET S] :
        \E x \in S : \A y \in S : B[y] \subseteq B[x] => B[y] = B[x]
  BY MinimalIndex
<1> SUFFICES ASSUME S \subseteq Nat
             PROVE  /\ Min(S) \in S /\ \A y \in S : Min(S) <= y
                    /\ Max(S) \in S /\ \A y \in S : y <= Max(S)
  OBVIOUS
<1>2. \A x \in S : x \in Nat
  OBVIOUS
<1>3. \E x \in S : \A y \in S : x <= y
  <2> DEFINE Below == [x \in S |-> {y \in S : y <= x}]
  <2>1. Below \in [S -> SUBSET S]
    OBVIOUS
  <2>2. PICK x \in S : \A y \in S : Below[y] \subseteq Below[x] => Below[y] = Below[x]
    <3> HIDE DEF Below
    <3> QED BY <1>1, <2>1
  <2>3. ASSUME NEW y \in S, y < x
        PROVE  FALSE
    <3>1. x \in Nat /\ y \in Nat
      BY <1>2
    <3>2. \A z \in S : z \in Nat
      BY <1>2
    <3>3. Below[y] \subseteq Below[x]
      <4>1. \A z \in S : z <= y => z <= x
        BY <2>3, <3>1, <3>2
      <4> QED BY <4>1
    <3>4. x \notin Below[y] /\ x \in Below[x]
      BY <2>3, <3>1
    <3> QED BY <2>2, <3>3, <3>4
  <2> QED BY <1>2, <2>3
<1>4. \E x \in S : \A y \in S : x >= y
  <2> DEFINE Above == [x \in S |-> {y \in S : x <= y}]
  <2>1. Above \in [S -> SUBSET S]
    OBVIOUS
  <2>2. PICK x \in S : \A y \in S : Above[y] \subseteq Above[x] => Above[y] = Above[x]
    <3> HIDE DEF Above
    <3> QED BY <1>1, <2>1
  <2>3. ASSUME NEW y \in S, x < y
        PROVE  FALSE
    <3>1. x \in Nat /\ y \in Nat
      BY <1>2
    <3>2. \A z \in S : z \in Nat
      BY <1>2
    <3>3. Above[y] \subseteq Above[x]
      <4>1. \A z \in S : y <= z => x <= z
        BY <2>3, <3>1, <3>2
      <4> QED BY <4>1
    <3>4. x \notin Above[y] /\ x \in Above[x]
      BY <2>3, <3>1
    <3> QED BY <2>2, <3>3, <3>4
  <2> QED BY <1>2, <2>3
<1> QED BY <1>3, <1>4 DEF Min, Max

-----------------------------------------------------------------------------
(* Types, and what the steps keep.                                           *)

\* TypeOK in two halves: what is stored, and what drives it.
StoreOK ==
    /\ bucket \in [Agents -> {NoBucket} \cup [start: Minutes, agg: {g \in Agg : g.count > 0}]]
    /\ minuteRow \in [Agents -> [Minutes -> Agg]]
    /\ hourRow \in [Agents -> [Hours -> Agg]]

Spent == [samples: 0..MaxSamples, stops: 0..MaxStops, crashes: 0..MaxCrashes,
          errors: 0..MaxDbErrors, deletes: 0..MaxDeletes]

ControlOK ==
    /\ now \in Times
    /\ lastTS \in [Agents -> Times]
    /\ proc \in {"up", "stopping", "flushed", "down"}
    /\ looping \in BOOLEAN
    /\ deleted \subseteq Agents
    /\ dbOk \in BOOLEAN
    /\ spent \in Spent

\* What the row and the bucket of a minute hold together.  A flush that fails
\* drops the bucket and leaves the row an earlier bucket of that minute wrote,
\* so neither the row nor what is Held bounds what is Held later; both do.
Open(a, m) == IF bucket[a].start = m THEN bucket[a].agg.count ELSE 0
Stored(a, m) == minuteRow[a][m].count + Open(a, m)

Accounted == \A a \in Agents : SumFunction([m \in Minutes |-> Stored(a, m)]) <= spent.samples

\* Minimum and maximum are of samples the aggregate holds.
Bounded(g) == g.min * g.count <= g.sum /\ g.sum <= g.max * g.count

AllBounded ==
    \A a \in Agents : /\ Bounded(bucket[a].agg)
                      /\ \A m \in Minutes : Bounded(minuteRow[a][m])

\* While the process runs and no sample is late by more than a tick: a minute on
\* record is over, no bucket is open for it and no sample of it can come.
Running == proc = "up"

Closed ==
    \A a \in Agents :
      /\ lastTS[a] <= now
      /\ bucket[a] # NoBucket => bucket[a].start = StartOf(lastTS[a], Minute)
      /\ \A m \in Minutes : minuteRow[a][m] # NoAgg =>
           /\ bucket[a].start # m
           /\ m < now - Minute \/ m < StartOf(lastTS[a], Minute)

\* An hour that may still be rolled up has no more than its minutes do.
HourCovered ==
    \A a \in Agents, h \in Hours :
      \/ hourRow[a][h].count <= SumFunction([m \in MinutesOf(h) |-> minuteRow[a][m].count])
      \/ h < StartOf(now, Hour) - Hour

\* A step that takes no sample: a row stays, is forgotten, or takes the bucket of
\* its minute, which is then dropped.
Shrinks ==
    /\ spent'.samples = spent.samples
    /\ minuteRow' \in [Agents -> [Minutes -> Agg]]
    /\ bucket' = [a \in Agents |-> bucket'[a]]
    /\ \A a \in Agents :
         /\ bucket'[a] \in {bucket[a], NoBucket}
         /\ \A m \in Minutes :
              \/ minuteRow'[a][m] \in {minuteRow[a][m], NoAgg}
              \/ /\ bucket[a].start = m /\ minuteRow'[a][m] = bucket[a].agg
                 /\ bucket'[a] = NoBucket

-----------------------------------------------------------------------------
(* Starts of minutes and hours.                                              *)

\* The start of a period is not after the time, and less than its length before.
LEMMA StartBounds ==
  ASSUME NEW t \in Nat, NEW M \in Nat \ {0}
  PROVE  /\ StartOf(t, M) \in Nat
         /\ StartOf(t, M) <= t /\ t < StartOf(t, M) + M
<1>1. t % M \in 0..(M - 1) /\ t % M <= t
  OBVIOUS
<1> QED BY <1>1 DEF StartOf

\* It is a multiple of the length.
LEMMA StartMultiple ==
  ASSUME NEW t \in Nat, NEW M \in Nat \ {0}
  PROVE  t \div M \in Int /\ StartOf(t, M) = M * (t \div M)
<1>1. t \div M \in Int /\ t % M \in Int
  OBVIOUS
<1>2. t % M = t - M * (t \div M)
  OBVIOUS
<1>3. M * (t \div M) \in Int
  BY <1>1
<1> QED BY <1>1, <1>2, <1>3 DEF StartOf

\* Multiples differ by the length at least.
LEMMA MultipleGap ==
  ASSUME NEW M \in Nat \ {0}, NEW p \in Int, NEW q \in Int, p > q
  PROVE  M * p >= M * q + M
<1>1. p - q - 1 >= 0
  OBVIOUS
<1>2. M * (p - q - 1) >= 0
  BY <1>1
<1> QED BY <1>2

\* Later times have later periods.
LEMMA StartMonotone ==
  ASSUME NEW s \in Nat, NEW t \in Nat, s <= t, NEW M \in Nat \ {0}
  PROVE  StartOf(s, M) <= StartOf(t, M)
<1> DEFINE p == s \div M
           q == t \div M
<1>1. /\ p \in Int /\ q \in Int
      /\ StartOf(s, M) = M * p /\ StartOf(t, M) = M * q
  BY StartMultiple
<1>2. /\ StartOf(s, M) \in Nat /\ StartOf(s, M) <= s
      /\ StartOf(t, M) \in Nat /\ t < StartOf(t, M) + M
  BY StartBounds
<1> HIDE DEF p, q
<1>3. CASE p > q
  <2>1. M * p >= M * q + M
    BY <1>1, <1>3, MultipleGap
  <2> QED BY <2>1, <1>1, <1>2
<1>4. CASE p = q
  BY <1>1, <1>2, <1>4
<1>5. CASE p < q
  <2>1. M * q >= M * p + M
    BY <1>1, <1>5, MultipleGap
  <2> QED BY <2>1, <1>1, <1>2
<1> QED BY <1>1, <1>3, <1>4, <1>5

\* The minutes and hours the model knows.
LEMMA Periods ==
  /\ IsFiniteSet(Minutes) /\ IsFiniteSet(Hours)
  /\ \A m \in Minutes : m \in Nat
  /\ \A h \in Hours : h \in Nat
  /\ \A t \in Times : /\ t \in Nat
                      /\ StartOf(t, Minute) \in Minutes
                      /\ StartOf(t, Hour) \in Hours
<1>1. \A t \in Times : t \in Nat /\ t <= MaxNow
  BY PipelineAssumption DEF Times
<1>2. ASSUME NEW t \in Times
      PROVE  StartOf(t, Minute) \in 0..MaxNow /\ StartOf(t, Hour) \in 0..MaxNow
  <2>1. StartOf(t, Minute) \in Nat /\ StartOf(t, Minute) <= t
    BY <1>1, PipelineAssumption, StartBounds
  <2>2. StartOf(t, Hour) \in Nat /\ StartOf(t, Hour) <= t
    BY <1>1, PipelineAssumption, StartBounds
  <2> QED BY <1>1, <2>1, <2>2, PipelineAssumption
<1>3. Minutes \in SUBSET (0..MaxNow) /\ Hours \in SUBSET (0..MaxNow)
  BY <1>2 DEF Minutes, Hours
<1>4. IsFiniteSet(0..MaxNow)
  BY PipelineAssumption, FS_Interval
<1>5. IsFiniteSet(Minutes) /\ IsFiniteSet(Hours)
  BY <1>3, <1>4, FS_Subset
<1> QED BY <1>1, <1>3, <1>5 DEF Minutes, Hours

\* The minutes of an hour.
LEMMA MinutesOfFinite ==
  \A h : MinutesOf(h) \subseteq Minutes /\ IsFiniteSet(MinutesOf(h))
<1>1. \A h : MinutesOf(h) \in SUBSET Minutes
  BY DEF MinutesOf
<1> QED BY <1>1, Periods, FS_Subset

-----------------------------------------------------------------------------
(* Aggregates.                                                               *)

\* A product with a count grows with its factor.
LEMMA Products ==
  ASSUME NEW x \in Nat, NEW y \in Nat, x <= y, NEW c \in Nat
  PROVE  x * c <= y * c /\ x * c \in Nat /\ y * c \in Nat
<1>1. (y - x) * c >= 0
  OBVIOUS
<1> QED BY <1>1

\* One more sample keeps the minimum and maximum those of the samples.
LEMMA AddFacts ==
  ASSUME NEW g \in Agg, NEW v \in Nat
  PROVE  /\ Add(g, v) \in Agg
         /\ Add(g, v).count = g.count + 1
         /\ Bounded(g) => Bounded(Add(g, v))
<1>0. g.count \in Nat /\ g.sum \in Nat /\ g.min \in Nat /\ g.max \in Nat
  BY DEF Agg
<1>1. CASE g.count = 0
  <2>1. Add(g, v) = [count |-> 1, sum |-> v, min |-> v, max |-> v]
    BY <1>1 DEF Add
  <2> QED BY <1>0, <1>1, <2>1 DEF Agg, Bounded
<1>2. CASE g.count # 0
  <2> DEFINE mn == Lesser(v, g.min)
             mx == Greater(v, g.max)
  <2>1. Add(g, v) = [count |-> g.count + 1, sum |-> g.sum + v, min |-> mn, max |-> mx]
    BY <1>2 DEF Add
  <2>2. /\ mn \in Nat /\ mn <= v /\ mn <= g.min
        /\ mx \in Nat /\ v <= mx /\ g.max <= mx
    BY <1>0 DEF Lesser, Greater
  <2> HIDE DEF mn, mx
  <2>3. /\ mn * g.count <= g.min * g.count /\ g.max * g.count <= mx * g.count
        /\ mn * g.count \in Nat /\ g.min * g.count \in Nat
        /\ mx * g.count \in Nat /\ g.max * g.count \in Nat
    BY <1>0, <2>2, Products
  <2>4. mn * (g.count + 1) = mn * g.count + mn /\ mx * (g.count + 1) = mx * g.count + mx
    BY <1>0, <2>2
  <2>5. Bounded(g) => Bounded(Add(g, v))
    BY <1>0, <2>1, <2>2, <2>3, <2>4 DEF Bounded
  <2> QED BY <1>0, <2>1, <2>2, <2>5 DEF Agg
<1> QED BY <1>1, <1>2

\* The empty aggregate counts nothing and is bounded.
LEMMA NoAggFacts == NoAgg \in Agg /\ NoAgg.count = 0 /\ Bounded(NoAgg)
BY DEF NoAgg, Agg, Bounded

\* The parts of TypeOK.
LEMMA TypeHalves == TypeOK <=> StoreOK /\ ControlOK
BY DEF TypeOK, StoreOK, ControlOK, Spent

\* What a bucket is.
LEMMA BucketFacts ==
  ASSUME StoreOK, NEW a \in Agents
  PROVE  /\ bucket[a].agg \in Agg
         /\ bucket[a] # NoBucket => /\ bucket[a].start \in Minutes
                                    /\ bucket[a].agg.count > 0
         /\ bucket[a] = NoBucket <=> bucket[a].start \notin Minutes
BY NoAggFacts, Periods DEF StoreOK, NoBucket, NoStart, Agg

-----------------------------------------------------------------------------
(* The steps.                                                                *)

\* Buckets dropped, with or without their rows written.
LEMMA FlushShrinks ==
  ASSUME StoreOK, NEW F, bucket' = Dropped(F),
         minuteRow' = Upserted(F) \/ minuteRow' = minuteRow,
         spent'.samples = spent.samples
  PROVE  Shrinks
<1>1. ASSUME NEW a \in Agents
      PROVE  /\ bucket'[a] \in {bucket[a], NoBucket}
             /\ minuteRow'[a] \in [Minutes -> Agg]
             /\ \A m \in Minutes :
                  \/ minuteRow'[a][m] = minuteRow[a][m]
                  \/ /\ bucket[a].start = m /\ minuteRow'[a][m] = bucket[a].agg
                     /\ bucket'[a] = NoBucket
  <2>1. bucket'[a] = IF a \in F THEN NoBucket ELSE bucket[a]
    BY DEF Dropped
  <2>2. minuteRow[a] \in [Minutes -> Agg]
    BY DEF StoreOK
  <2>3. CASE minuteRow'[a] = minuteRow[a]
    BY <2>1, <2>2, <2>3
  <2>4. CASE a \in F /\ bucket[a] # NoBucket
             /\ minuteRow'[a] = [minuteRow[a] EXCEPT ![bucket[a].start] = bucket[a].agg]
    BY <2>1, <2>2, <2>4, BucketFacts
  <2> QED BY <2>3, <2>4 DEF Upserted
<1>2. /\ minuteRow' \in [Agents -> [Minutes -> Agg]]
      /\ bucket' = [a \in Agents |-> bucket'[a]]
  <2>1. DOMAIN minuteRow' = Agents /\ minuteRow' = [a \in Agents |-> minuteRow'[a]]
    BY DEF Upserted, StoreOK
  <2>2. bucket' = [a \in Agents |-> bucket'[a]]
    BY DEF Dropped
  <2> QED BY <1>1, <2>1, <2>2
<1> QED BY <1>1, <1>2 DEF Shrinks

\* Rows forgotten, buckets left alone.
LEMMA ForgetShrinks ==
  ASSUME StoreOK, UNCHANGED bucket, spent'.samples = spent.samples,
         minuteRow' \in [Agents -> [Minutes -> Agg]],
         \A a \in Agents : \A m \in Minutes : minuteRow'[a][m] \in {minuteRow[a][m], NoAgg}
  PROVE  Shrinks
<1>1. bucket = [a \in Agents |-> bucket[a]]
  BY DEF StoreOK
<1> QED BY <1>1 DEF Shrinks

\* Retention keeps a row or forgets it.
LEMMA KeptFacts ==
  ASSUME NEW S, NEW rows \in [Agents -> [S -> Agg]], NEW keep
  PROVE  /\ Kept(rows, S, keep) \in [Agents -> [S -> Agg]]
         /\ \A a \in Agents : \A s \in S :
              Kept(rows, S, keep)[a][s] \in {rows[a][s], NoAgg}
BY NoAggFacts DEF Kept

\* Every step takes a sample or shrinks what is stored.
LEMMA StepKinds ==
  ASSUME StoreOK, ControlOK, [Next]_vars
  PROVE  \/ \E a \in Agents, ts \in Times, v \in Values : Observe(a, ts, v)
         \/ Shrinks
<1>0. minuteRow \in [Agents -> [Minutes -> Agg]]
  BY DEF StoreOK
<1>1. CASE \E a \in Agents, ts \in Times, v \in Values : Observe(a, ts, v)
  BY <1>1
<1>2. ASSUME NEW a \in Agents, DeleteAgent(a)
      PROVE  Shrinks
  <2>1. /\ minuteRow' = [minuteRow EXCEPT ![a] = [m \in Minutes |-> NoAgg]]
        /\ UNCHANGED bucket /\ spent' = [spent EXCEPT !.deletes = @ + 1]
    BY <1>2 DEF DeleteAgent
  <2>2. spent'.samples = spent.samples
    BY <2>1 DEF ControlOK, Spent
  <2> QED BY <1>0, <2>1, <2>2, ForgetShrinks, NoAggFacts
<1>3. CASE FlushBefore
  BY <1>3, FlushShrinks DEF FlushBefore, FlushOf
<1>4. CASE FlushBeforeCancelled
  BY <1>4, FlushShrinks DEF FlushBeforeCancelled
<1>5. CASE Rollup
  BY <1>0, <1>5, ForgetShrinks DEF Rollup
<1>6. CASE Cleanup
  <2>1. /\ minuteRow' = Kept(minuteRow, Minutes, OneMinKeep)
        /\ UNCHANGED bucket /\ spent' = spent
    BY <1>6 DEF Cleanup
  <2>2. /\ minuteRow' \in [Agents -> [Minutes -> Agg]]
        /\ \A a \in Agents : \A m \in Minutes : minuteRow'[a][m] \in {minuteRow[a][m], NoAgg}
    BY <1>0, <2>1, KeptFacts
  <2> QED BY <2>1, <2>2, ForgetShrinks
<1>7. CASE Stop
  <2>1. UNCHANGED <<bucket, minuteRow>> /\ spent' = [spent EXCEPT !.stops = @ + 1]
    BY <1>7 DEF Stop
  <2>2. spent'.samples = spent.samples
    BY <2>1 DEF ControlOK, Spent
  <2> QED BY <1>0, <2>1, <2>2, ForgetShrinks
<1>8. CASE FlushAllOfPipeline
  BY <1>8, FlushShrinks DEF FlushAllOfPipeline, FlushOf
<1>9. CASE FlushAllOfServer
  BY <1>9, FlushShrinks DEF FlushAllOfServer, FlushOf
<1>10. CASE Exit
  <2>1. bucket' = Dropped(Agents) /\ UNCHANGED <<minuteRow, spent>>
    BY <1>10 DEF Exit, Dropped
  <2> QED BY <2>1, FlushShrinks
<1>11. CASE Crash
  <2>1. /\ bucket' = Dropped(Agents) /\ UNCHANGED minuteRow
        /\ spent' = [spent EXCEPT !.crashes = @ + 1]
    BY <1>11 DEF Crash, Dropped
  <2>2. spent'.samples = spent.samples
    BY <2>1 DEF ControlOK, Spent
  <2> QED BY <2>1, <2>2, FlushShrinks
<1>12. CASE Start
  BY <1>0, <1>12, ForgetShrinks DEF Start
<1>13. CASE DbFails
  <2>1. UNCHANGED <<bucket, minuteRow>> /\ spent' = [spent EXCEPT !.errors = @ + 1]
    BY <1>13 DEF DbFails
  <2>2. spent'.samples = spent.samples
    BY <2>1 DEF ControlOK, Spent
  <2> QED BY <1>0, <2>1, <2>2, ForgetShrinks
<1>14. CASE DbHeals
  BY <1>0, <1>14, ForgetShrinks DEF DbHeals
<1>15. CASE Tick
  BY <1>0, <1>15, ForgetShrinks DEF Tick
<1>16. CASE UNCHANGED vars
  BY <1>0, <1>16, ForgetShrinks DEF vars
<1> QED BY <1>1, <1>2, <1>3, <1>4, <1>5, <1>6, <1>7, <1>8, <1>9, <1>10, <1>11,
           <1>12, <1>13, <1>14, <1>15, <1>16 DEF Next

\* What a sample does, for its agent and the others.
LEMMA ObserveFacts ==
  ASSUME StoreOK, ControlOK,
         NEW a \in Agents, NEW ts \in Times, NEW v \in Values, Observe(a, ts, v)
  PROVE  LET minute == StartOf(ts, Minute)
             old == IF bucket[a].start = minute THEN bucket[a].agg ELSE NoAgg
         IN  /\ minute \in Minutes /\ v \in Nat
             /\ old \in Agg
             /\ spent'.samples = spent.samples + 1
             /\ bucket' = [bucket EXCEPT ![a] = [start |-> minute, agg |-> Add(old, v)]]
             /\ minuteRow' \in [Agents -> [Minutes -> Agg]]
             /\ \A b \in Agents : b # a => minuteRow'[b] = minuteRow[b]
             /\ \A m \in Minutes :
                  minuteRow'[a][m] = IF dbOk /\ bucket[a].start = m /\ m # minute
                                     THEN bucket[a].agg ELSE minuteRow[a][m]
<1> DEFINE minute == StartOf(ts, Minute)
           old == IF bucket[a].start = minute THEN bucket[a].agg ELSE NoAgg
<1>1. minute \in Minutes /\ v \in Nat /\ old \in Agg
  BY Periods, PipelineAssumption, BucketFacts, NoAggFacts
<1>2. spent' = [spent EXCEPT !.samples = @ + 1]
  BY DEF Observe
<1>3. spent'.samples = spent.samples + 1
  BY <1>2 DEF ControlOK, Spent
<1>4. bucket' = [bucket EXCEPT ![a] = [start |-> minute, agg |-> Add(old, v)]]
  BY DEF Observe, Continued
<1> HIDE DEF minute, old
<1>5. minuteRow' = IF bucket[a] # NoBucket /\ bucket[a].start # minute
                   THEN Upserted({a}) ELSE minuteRow
  BY DEF Observe, minute
<1>6. minuteRow \in [Agents -> [Minutes -> Agg]]
  BY DEF StoreOK
<1>7. CASE dbOk /\ bucket[a] # NoBucket /\ bucket[a].start # minute
  <2>1. minuteRow' = [b \in Agents |-> IF b = a
                        THEN [minuteRow[a] EXCEPT ![bucket[a].start] = bucket[a].agg]
                        ELSE minuteRow[b]]
    BY <1>5, <1>7 DEF Upserted
  <2>2. bucket[a].start \in Minutes /\ bucket[a].agg \in Agg
    BY <1>7, BucketFacts
  <2>3. /\ minuteRow' \in [Agents -> [Minutes -> Agg]]
        /\ \A b \in Agents : b # a => minuteRow'[b] = minuteRow[b]
        /\ \A m \in Minutes :
             minuteRow'[a][m] = IF dbOk /\ bucket[a].start = m /\ m # minute
                                THEN bucket[a].agg ELSE minuteRow[a][m]
    BY <1>6, <1>7, <2>1, <2>2
  <2> QED BY <1>1, <1>3, <1>4, <2>3 DEF minute, old
<1>8. CASE ~(dbOk /\ bucket[a] # NoBucket /\ bucket[a].start # minute)
  <2>1. minuteRow' = minuteRow
    BY <1>5, <1>6, <1>8 DEF Upserted
  <2>2. \A m \in Minutes : ~(dbOk /\ bucket[a].start = m /\ m # minute)
    BY <1>8, BucketFacts
  <2> QED BY <1>1, <1>3, <1>4, <1>6, <2>1, <2>2 DEF minute, old
<1> QED BY <1>7, <1>8

-----------------------------------------------------------------------------
(* Types.                                                                    *)

\* The values of a finite set under a function are finitely many.
LEMMA ImageFinite ==
  ASSUME NEW S, IsFiniteSet(S), NEW f
  PROVE  IsFiniteSet({f[x] : x \in S})
<1> DEFINE g == [x \in S |-> f[x]]
           T == {f[x] : x \in S}
<1>1. g \in Surjection(S, T)
  BY DEF Surjection
<1> HIDE DEF g, T
<1>2. IsFiniteSet(T)
  BY <1>1, FS_Surjection
<1> QED BY <1>2 DEF T

\* A rollup makes an aggregate, whose count is that of the minutes.
LEMMA RolledUpFacts ==
  ASSUME StoreOK, NEW a \in Agents, NEW h
  PROVE  /\ RolledUp(a, h) \in Agg
         /\ RolledUp(a, h).count = SumFunction([m \in MinutesOf(h) |-> minuteRow[a][m].count])
<1> DEFINE M == MinutesOf(h)
           rows == {m \in M : minuteRow[a][m].count > 0}
           counts == [m \in M |-> minuteRow[a][m].count]
           sums == [m \in M |-> minuteRow[a][m].sum]
           mins == [m \in M |-> minuteRow[a][m].min]
           maxs == [m \in M |-> minuteRow[a][m].max]
<1>1. \A m \in M : minuteRow[a][m] \in Agg
  BY MinutesOfFinite DEF StoreOK
<1>2. counts \in [M -> Nat] /\ sums \in [M -> Nat] /\ mins \in [M -> Nat] /\ maxs \in [M -> Nat]
  BY <1>1 DEF Agg
<1>3. rows \in SUBSET M /\ IsFiniteSet(M) /\ IsFiniteSet(rows)
  BY MinutesOfFinite, FS_Subset
<1>4. /\ {minuteRow[a][m].min : m \in rows} = {mins[m] : m \in rows}
      /\ {minuteRow[a][m].max : m \in rows} = {maxs[m] : m \in rows}
  OBVIOUS
<1>5. RolledUp(a, h) =
        [count |-> SumFunction(counts), sum |-> SumFunction(sums),
         min |-> IF rows = {} THEN 0 ELSE Min({mins[m] : m \in rows}),
         max |-> IF rows = {} THEN 0 ELSE Max({maxs[m] : m \in rows})]
  BY <1>4 DEF RolledUp
<1>6. SumFunction(counts) = SumFunction([m \in MinutesOf(h) |-> minuteRow[a][m].count])
  OBVIOUS
<1> HIDE DEF M, rows, counts, sums, mins, maxs
<1>7. SumFunction(counts) \in Nat /\ SumFunction(sums) \in Nat
  BY <1>2, <1>3, SumType
<1>8. ASSUME rows # {}
      PROVE  Min({mins[m] : m \in rows}) \in Nat /\ Max({maxs[m] : m \in rows}) \in Nat
  <2>1. IsFiniteSet({mins[m] : m \in rows}) /\ IsFiniteSet({maxs[m] : m \in rows})
    BY <1>3, ImageFinite
  <2>2. /\ {mins[m] : m \in rows} \subseteq Nat /\ {mins[m] : m \in rows} # {}
        /\ {maxs[m] : m \in rows} \subseteq Nat /\ {maxs[m] : m \in rows} # {}
    BY <1>2, <1>3, <1>8
  <2>3. /\ Min({mins[m] : m \in rows}) \in {mins[m] : m \in rows}
        /\ Max({maxs[m] : m \in rows}) \in {maxs[m] : m \in rows}
    BY <2>1, <2>2, MinMax
  <2> QED BY <2>2, <2>3
<1> QED BY <1>5, <1>6, <1>7, <1>8 DEF Agg

\* The hour rows.
LEMMA HourType ==
  ASSUME StoreOK, ControlOK, [Next]_vars
  PROVE  hourRow' \in [Agents -> [Hours -> Agg]]
<1>1. hourRow \in [Agents -> [Hours -> Agg]]
  BY DEF StoreOK
<1>2. CASE Rollup
  <2> DEFINE h == StartOf(now, Hour) - Hour
  <2>1. /\ h \in Hours
        /\ hourRow' = [a \in Agents |-> IF RolledUp(a, h) = NoAgg THEN hourRow[a]
                                       ELSE [hourRow[a] EXCEPT ![h] = RolledUp(a, h)]]
    BY <1>2 DEF Rollup
  <2>2. \A a \in Agents : RolledUp(a, h) \in Agg
    BY RolledUpFacts
  <2> HIDE DEF h
  <2> QED BY <1>1, <2>1, <2>2
<1>3. CASE Cleanup
  BY <1>1, <1>3, KeptFacts DEF Cleanup
<1>4. ASSUME NEW a \in Agents, DeleteAgent(a)
      PROVE  hourRow' \in [Agents -> [Hours -> Agg]]
  BY <1>1, <1>4, NoAggFacts DEF DeleteAgent
<1>5. CASE UNCHANGED hourRow
  BY <1>1, <1>5
<1>6. \/ Rollup \/ Cleanup \/ UNCHANGED hourRow
      \/ \E a \in Agents : DeleteAgent(a)
  BY DEF Next, vars, Observe, FlushBefore, FlushBeforeCancelled, FlushOf, Stop,
         FlushAllOfPipeline, FlushAllOfServer, Exit, Crash, Start, DbFails, DbHeals, Tick
<1> QED BY <1>2, <1>3, <1>4, <1>5, <1>6

\* Every step keeps the memory, the tables and the answers well typed.
LEMMA StoreType ==
  ASSUME StoreOK, ControlOK, [Next]_vars
  PROVE  StoreOK'
<1> DEFINE Bucket == {NoBucket} \cup [start: Minutes, agg: {g \in Agg : g.count > 0}]
<1>1. bucket \in [Agents -> Bucket]
  BY DEF StoreOK
<1>2. hourRow' \in [Agents -> [Hours -> Agg]]
  BY HourType
<1>3. ASSUME NEW a \in Agents, NEW ts \in Times, NEW v \in Values, Observe(a, ts, v)
      PROVE  bucket' \in [Agents -> Bucket] /\ minuteRow' \in [Agents -> [Minutes -> Agg]]
  <2> DEFINE minute == StartOf(ts, Minute)
             old == IF bucket[a].start = minute THEN bucket[a].agg ELSE NoAgg
  <2>1. /\ minute \in Minutes /\ v \in Nat /\ old \in Agg
        /\ bucket' = [bucket EXCEPT ![a] = [start |-> minute, agg |-> Add(old, v)]]
        /\ minuteRow' \in [Agents -> [Minutes -> Agg]]
    BY <1>3, ObserveFacts
  <2> HIDE DEF minute, old
  <2>2. Add(old, v) \in Agg /\ Add(old, v).count = old.count + 1 /\ old.count \in Nat
    BY <2>1, AddFacts DEF Agg
  <2>3. [start |-> minute, agg |-> Add(old, v)] \in Bucket
    BY <2>1, <2>2
  <2> HIDE DEF Bucket
  <2> QED BY <1>1, <2>1, <2>3
<1>4. CASE Shrinks
  <2>1. \A a \in Agents : bucket'[a] \in Bucket
    BY <1>1, <1>4 DEF Shrinks
  <2>2. bucket' = [a \in Agents |-> bucket'[a]]
    BY <1>4 DEF Shrinks
  <2>3. minuteRow' \in [Agents -> [Minutes -> Agg]]
    BY <1>4 DEF Shrinks
  <2>4. bucket' \in [Agents -> Bucket]
    <3> HIDE DEF Bucket
    <3> QED BY <2>1, <2>2
  <2> QED BY <1>2, <2>3, <2>4 DEF StoreOK
<1> QED BY <1>2, <1>3, <1>4, StepKinds DEF StoreOK

\* Every step keeps the clock, the roll-ups and the spent faults well typed.
LEMMA ControlType ==
  ASSUME StoreOK, ControlOK, [Next]_vars
  PROVE  ControlOK'
<1> USE PipelineAssumption DEF ControlOK
<1>1. ASSUME NEW a \in Agents, NEW ts \in Times, NEW v \in Values, Observe(a, ts, v)
      PROVE  ControlOK'
  BY <1>1 DEF Observe, Spent
<1>2. ASSUME NEW a \in Agents, DeleteAgent(a)
      PROVE  ControlOK'
  BY <1>2 DEF DeleteAgent, Spent
<1>3. CASE FlushBefore \/ FlushBeforeCancelled \/ FlushAllOfPipeline \/ FlushAllOfServer
  BY <1>3 DEF FlushBefore, FlushBeforeCancelled, FlushAllOfPipeline, FlushAllOfServer, FlushOf
<1>4. CASE Rollup \/ Cleanup \/ Exit \/ Start \/ DbHeals
  BY <1>4 DEF Rollup, Cleanup, Exit, Start, DbHeals
<1>5. CASE Stop
  BY <1>5 DEF Stop, Spent
<1>6. CASE Crash
  <2>1. spent.crashes < MaxCrashes /\ spent' = [spent EXCEPT !.crashes = @ + 1]
    BY <1>6 DEF Crash
  <2>2. spent' \in Spent
    BY <2>1 DEF Spent
  <2> QED BY <1>6, <2>2 DEF Crash
<1>7. CASE DbFails
  <2>1. spent.errors < MaxDbErrors /\ spent' = [spent EXCEPT !.errors = @ + 1]
    BY <1>7 DEF DbFails
  <2>2. spent' \in Spent
    BY <2>1 DEF Spent
  <2> QED BY <1>7, <2>2 DEF DbFails
<1>8. CASE Tick
  BY <1>8 DEF Tick, Times
<1>9. CASE UNCHANGED vars
  BY <1>9 DEF vars
<1> QED BY <1>1, <1>2, <1>3, <1>4, <1>5, <1>6, <1>7, <1>8, <1>9 DEF Next

\* The pipeline starts well typed.
LEMMA InitTypes == Init => StoreOK /\ ControlOK
<1> SUFFICES ASSUME Init PROVE StoreOK /\ ControlOK
  OBVIOUS
<1>1. StoreOK
  BY NoAggFacts DEF Init, StoreOK
<1>2. ControlOK
  BY PipelineAssumption DEF Init, ControlOK, Spent, Times
<1> QED BY <1>1, <1>2

\* The types of the pipeline hold under all faults; in particular a rollup makes
\* a row of the hour, and an open bucket holds a sample.
THEOREM TypeCorrect == Spec => []TypeOK
<1>1. Init => StoreOK /\ ControlOK
  BY InitTypes
<1>2. StoreOK /\ ControlOK /\ [Next]_vars => StoreOK' /\ ControlOK'
  BY StoreType, ControlType
<1> QED BY <1>1, <1>2, TypeHalves, PTL DEF Spec

-----------------------------------------------------------------------------
(* What is counted.                                                          *)

\* What is stored of a minute is a number; what it holds is not more.
LEMMA StoredFacts ==
  ASSUME StoreOK, NEW a \in Agents, NEW m \in Minutes
  PROVE  /\ minuteRow[a][m] \in Agg /\ minuteRow[a][m].count \in Nat
         /\ bucket[a].agg.count \in Nat /\ Open(a, m) \in Nat /\ Stored(a, m) \in Nat
         /\ Held(a, m).count \in Nat /\ Held(a, m).count <= Stored(a, m)
<1>1. minuteRow[a][m] \in Agg /\ bucket[a].agg \in Agg
  BY BucketFacts DEF StoreOK
<1>2. minuteRow[a][m].count \in Nat /\ bucket[a].agg.count \in Nat
  BY <1>1 DEF Agg
<1> QED BY <1>1, <1>2 DEF Open, Stored, Held

\* What is stored for an agent, minute by minute.
Counts(a) == [m \in Minutes |-> Stored(a, m)]

\* The counts of an agent are numbers, whatever table a minute is held in.
LEMMA CountsType ==
  ASSUME StoreOK, NEW a \in Agents
  PROVE  Counts(a) \in [Minutes -> Nat]
BY StoredFacts DEF Counts

\* So are they after a step.
LEMMA CountsNext ==
  ASSUME StoreOK', NEW a \in Agents
  PROVE  Counts(a)' \in [Minutes -> Nat]
<1>1. ASSUME NEW m \in Minutes
      PROVE  minuteRow'[a][m].count \in Nat
  <2>1. minuteRow'[a][m] \in Agg
    BY DEF StoreOK
  <2> QED BY <2>1 DEF Agg
<1>2. bucket'[a].agg.count \in Nat
  <2>1. bucket'[a] \in {NoBucket} \cup [start: Minutes, agg: {g \in Agg : g.count > 0}]
    BY DEF StoreOK
  <2>2. bucket'[a].agg \in Agg
    BY <2>1, NoAggFacts DEF NoBucket
  <2> QED BY <2>2 DEF Agg
<1> QED BY <1>1, <1>2 DEF Counts, Stored, Open

\* A sample adds one to its minute at most.
LEMMA ObserveCounts ==
  ASSUME StoreOK, StoreOK', ControlOK,
         NEW a \in Agents, NEW ts \in Times, NEW v \in Values, Observe(a, ts, v),
         NEW b \in Agents, NEW m \in Minutes
  PROVE  Stored(b, m)' <= Stored(b, m) + (IF b = a /\ m = StartOf(ts, Minute) THEN 1 ELSE 0)
<1> DEFINE minute == StartOf(ts, Minute)
           old == IF bucket[a].start = minute THEN bucket[a].agg ELSE NoAgg
<1>1. /\ minute \in Minutes /\ v \in Nat /\ old \in Agg
      /\ bucket' = [bucket EXCEPT ![a] = [start |-> minute, agg |-> Add(old, v)]]
      /\ \A c \in Agents : c # a => minuteRow'[c] = minuteRow[c]
      /\ minuteRow'[a][m] = IF dbOk /\ bucket[a].start = m /\ m # minute
                            THEN bucket[a].agg ELSE minuteRow[a][m]
  BY ObserveFacts
<1>2. Add(old, v).count = old.count + 1
  BY <1>1, AddFacts
<1>3. /\ minuteRow[b][m].count \in Nat /\ bucket[b].agg.count \in Nat
      /\ Open(b, m) \in Nat /\ Stored(b, m) \in Nat
  BY StoredFacts
<1>4. bucket \in [Agents -> {NoBucket} \cup [start: Minutes, agg: {g \in Agg : g.count > 0}]]
  BY DEF StoreOK
<1>5. CASE b # a
  <2>1. bucket'[b] = bucket[b] /\ minuteRow'[b] = minuteRow[b]
    BY <1>1, <1>4, <1>5
  <2> QED BY <2>1, <1>3, <1>5 DEF Stored, Open
<1>6. CASE b = a /\ m = minute
  <2>1. /\ bucket'[a].start = minute /\ bucket'[a].agg = Add(old, v)
        /\ minuteRow'[a][m] = minuteRow[a][m]
    BY <1>1, <1>4, <1>6
  <2>2. old.count = Open(a, m)
    BY <1>6, NoAggFacts DEF Open
  <2> HIDE DEF minute, old
  <2>3. Stored(b, m)' = minuteRow[a][m].count + (Open(a, m) + 1)
    BY <1>2, <1>6, <2>1, <2>2 DEF Stored, Open
  <2>4. Stored(b, m) = minuteRow[a][m].count + Open(a, m)
    BY <1>6 DEF Stored
  <2> QED BY <1>3, <1>6, <2>3, <2>4 DEF minute
<1>7. CASE b = a /\ m # minute
  <2>1. bucket'[a].start = minute
    BY <1>1, <1>4, <1>7
  <2> HIDE DEF minute, old
  <2>2. Stored(b, m)' = minuteRow'[a][m].count + 0
    BY <1>7, <2>1 DEF Stored, Open
  <2>3. minuteRow'[a][m].count <= Stored(a, m) /\ minuteRow'[a][m].count \in Nat
    BY <1>1, <1>3, <1>7 DEF Stored, Open
  <2> QED BY <1>3, <1>7, <2>2, <2>3 DEF minute
<1> QED BY <1>5, <1>6, <1>7

\* Any other step adds none.
LEMMA ShrinksCounts ==
  ASSUME StoreOK, Shrinks, NEW b \in Agents, NEW m \in Minutes
  PROVE  Stored(b, m)' <= Stored(b, m)
<1>1. /\ minuteRow[b][m].count \in Nat /\ bucket[b].agg.count \in Nat
      /\ Open(b, m) \in Nat
  BY StoredFacts
<1>2. /\ bucket'[b] \in {bucket[b], NoBucket}
      /\ \/ minuteRow'[b][m] \in {minuteRow[b][m], NoAgg}
         \/ /\ bucket[b].start = m /\ minuteRow'[b][m] = bucket[b].agg
            /\ bucket'[b] = NoBucket
  BY DEF Shrinks
<1>3. NoBucket.start # m
  BY Periods DEF NoBucket, NoStart
<1>4. Open(b, m)' = 0 \/ Open(b, m)' = Open(b, m)
  BY <1>2, <1>3 DEF Open
<1>5. CASE minuteRow'[b][m] \in {minuteRow[b][m], NoAgg}
  <2>1. minuteRow'[b][m].count <= minuteRow[b][m].count /\ minuteRow'[b][m].count \in Nat
    BY <1>1, <1>5, NoAggFacts
  <2> QED BY <1>1, <1>4, <2>1 DEF Stored
<1>6. CASE bucket[b].start = m /\ minuteRow'[b][m] = bucket[b].agg /\ bucket'[b] = NoBucket
  <2>1. Open(b, m)' = 0 /\ Open(b, m) = bucket[b].agg.count
    BY <1>3, <1>6 DEF Open
  <2> QED BY <1>1, <1>6, <2>1 DEF Stored
<1> QED BY <1>2, <1>5, <1>6

\* Every step moves a sample's count at most once, and takes no sample twice.
LEMMA AccountedStep ==
  ASSUME StoreOK, StoreOK', ControlOK, Accounted, [Next]_vars
  PROVE  Accounted'
<1> SUFFICES ASSUME NEW b \in Agents
             PROVE  SumFunction(Counts(b)') <= spent'.samples
  BY DEF Accounted, Counts
<1>1. /\ Counts(b) \in [Minutes -> Nat] /\ Counts(b)' \in [Minutes -> Nat]
      /\ \A m \in Minutes : Counts(b)[m] = Stored(b, m) /\ Counts(b)'[m] = Stored(b, m)'
  BY CountsType, CountsNext DEF Counts
<1>2. /\ SumFunction(Counts(b)) \in Nat /\ SumFunction(Counts(b)') \in Nat
      /\ SumFunction(Counts(b)) <= spent.samples /\ spent.samples \in Nat
  BY <1>1, Periods, SumType, PipelineAssumption DEF Accounted, Counts, ControlOK, Spent
<1>3. ASSUME NEW a \in Agents, NEW ts \in Times, NEW v \in Values, Observe(a, ts, v)
      PROVE  SumFunction(Counts(b)') <= spent'.samples
  <2> DEFINE minute == StartOf(ts, Minute)
  <2>1. \A m \in Minutes : /\ m # minute => Counts(b)'[m] <= Counts(b)[m]
                           /\ m = minute => Counts(b)'[m] <= Counts(b)[m] + 1
    <3> SUFFICES ASSUME NEW m \in Minutes
                 PROVE  /\ m # minute => Counts(b)'[m] <= Counts(b)[m]
                        /\ m = minute => Counts(b)'[m] <= Counts(b)[m] + 1
      OBVIOUS
    <3>1. Counts(b)[m] \in Nat /\ Counts(b)'[m] \in Nat
      BY <1>1
    <3>2. Counts(b)'[m] <= Counts(b)[m] + (IF b = a /\ m = minute THEN 1 ELSE 0)
      BY <1>1, <1>3, ObserveCounts
    <3> HIDE DEF minute
    <3> QED BY <3>1, <3>2
  <2> HIDE DEF minute
  <2>2. SumFunction(Counts(b)') <= SumFunction(Counts(b)) + 1
    BY <1>1, <2>1, Periods, SumGrows
  <2>3. spent'.samples = spent.samples + 1
    BY <1>3, ObserveFacts
  <2> QED BY <1>2, <2>2, <2>3
<1>4. CASE Shrinks
  <2>1. \A m \in Minutes : Counts(b)'[m] <= Counts(b)[m]
    BY <1>1, <1>4, ShrinksCounts
  <2>2. \A m \in Minutes : Counts(b)[m] \in Nat /\ Counts(b)'[m] \in Nat
    BY <1>1
  <2>3. SumFunction(Counts(b)') <= SumFunction(Counts(b)) + 0
    BY <1>1, <2>1, <2>2, Periods, SumGrows
  <2>4. spent'.samples = spent.samples
    BY <1>4 DEF Shrinks
  <2> QED BY <1>2, <2>3, <2>4
<1> QED BY <1>3, <1>4, StepKinds

\* Every step keeps each sum between as many minima and as many maxima.
LEMMA BoundedStep ==
  ASSUME StoreOK, ControlOK, AllBounded, [Next]_vars
  PROVE  AllBounded'
<1>1. ASSUME NEW a \in Agents, NEW ts \in Times, NEW v \in Values, Observe(a, ts, v)
      PROVE  AllBounded'
  <2> DEFINE minute == StartOf(ts, Minute)
             old == IF bucket[a].start = minute THEN bucket[a].agg ELSE NoAgg
  <2>1. /\ v \in Nat /\ old \in Agg
        /\ bucket' = [bucket EXCEPT ![a] = [start |-> minute, agg |-> Add(old, v)]]
        /\ \A b \in Agents : b # a => minuteRow'[b] = minuteRow[b]
        /\ \A m \in Minutes : minuteRow'[a][m] = IF dbOk /\ bucket[a].start = m /\ m # minute
                                                 THEN bucket[a].agg ELSE minuteRow[a][m]
    BY <1>1, ObserveFacts
  <2>2. Bounded(old)
    BY NoAggFacts DEF AllBounded
  <2> HIDE DEF minute, old
  <2>3. Bounded(Add(old, v))
    BY <2>1, <2>2, AddFacts
  <2>4. \A b \in Agents : bucket'[b].agg = IF b = a THEN Add(old, v) ELSE bucket[b].agg
    BY <2>1 DEF StoreOK
  <2>5. \A b \in Agents : Bounded(bucket'[b].agg)
    BY <2>3, <2>4 DEF AllBounded
  <2>6. \A b \in Agents : \A m \in Minutes : minuteRow'[b][m] \in {minuteRow[b][m], bucket[b].agg}
    BY <2>1
  <2>7. \A b \in Agents : \A m \in Minutes : Bounded(minuteRow'[b][m])
    BY <2>6 DEF AllBounded
  <2> QED BY <2>5, <2>7 DEF AllBounded, Bounded
<1>2. CASE Shrinks
  <2>1. \A b \in Agents :
          /\ bucket'[b].agg \in {bucket[b].agg, NoAgg}
          /\ \A m \in Minutes : minuteRow'[b][m] \in {minuteRow[b][m], NoAgg, bucket[b].agg}
    BY <1>2 DEF Shrinks, NoBucket
  <2>2. \A b \in Agents : /\ Bounded(bucket'[b].agg)
                          /\ \A m \in Minutes : Bounded(minuteRow'[b][m])
    BY <2>1, NoAggFacts DEF AllBounded
  <2> QED BY <2>2 DEF AllBounded, Bounded
<1> QED BY <1>1, <1>2, StepKinds

\* At the start nothing is counted.
LEMMA InitCounts == Init => Accounted /\ AllBounded
<1> SUFFICES ASSUME Init PROVE Accounted /\ AllBounded
  OBVIOUS
<1>0. StoreOK
  BY InitTypes
<1>1. \A a \in Agents : /\ bucket[a] = NoBucket
                        /\ \A m \in Minutes : minuteRow[a][m] = NoAgg
  BY DEF Init
<1>2. AllBounded
  BY <1>1, NoAggFacts DEF AllBounded, NoBucket
<1>3. ASSUME NEW a \in Agents
      PROVE  SumFunction(Counts(a)) <= spent.samples
  <2>1. \A m \in Minutes : Counts(a)[m] = 0
    BY <1>1, NoAggFacts, Periods DEF Counts, Stored, Open, NoBucket, NoStart
  <2> DEFINE zero == [m \in Minutes |-> 0]
  <2>2. Counts(a) = zero
    BY <2>1 DEF Counts
  <2>3. SumFunction(zero) = 0
    BY Periods, SumZero
  <2>4. spent.samples = 0
    BY DEF Init
  <2> QED BY <2>2, <2>3, <2>4
<1> QED BY <1>2, <1>3 DEF Accounted, Counts

\* What the counts amount to.
LEMMA CountedOnce ==
  ASSUME StoreOK, ControlOK, Accounted, AllBounded
  PROVE  NothingCountedTwice
<1> SUFFICES ASSUME NEW a \in Agents
             PROVE  /\ SumFunction([m \in Minutes |-> Held(a, m).count]) <= spent.samples
                    /\ \A m \in Minutes : Bounded(Held(a, m))
  BY DEF NothingCountedTwice, Bounded
<1> DEFINE held == [m \in Minutes |-> Held(a, m).count]
<1>1. held \in [Minutes -> Nat] /\ \A m \in Minutes : held[m] <= Counts(a)[m]
  BY StoredFacts DEF Counts
<1> HIDE DEF held
<1>2. Counts(a) \in [Minutes -> Nat]
  BY CountsType
<1>3. \A m \in Minutes : held[m] \in Nat /\ Counts(a)[m] \in Nat
  BY <1>1, <1>2
<1>4. SumFunction(held) <= SumFunction(Counts(a)) + 0
  BY <1>1, <1>2, <1>3, Periods, SumGrows
<1>5. /\ SumFunction(held) \in Nat /\ SumFunction(Counts(a)) \in Nat
      /\ SumFunction(Counts(a)) <= spent.samples /\ spent.samples \in Nat
  BY <1>1, <1>2, Periods, SumType, PipelineAssumption DEF Accounted, Counts, ControlOK, Spent
<1>6. SumFunction(held) <= spent.samples
  BY <1>4, <1>5
<1>7. \A m \in Minutes : Bounded(Held(a, m))
  BY DEF AllBounded, Held
<1> QED BY <1>6, <1>7 DEF held

\* No sample is counted twice, and what a minute holds as minimum and maximum
\* are of its samples, through late samples, failing statements, flushes by two
\* goroutines, stops, crashes and restarts.
THEOREM CountsCorrect == Spec => []NothingCountedTwice
<1> DEFINE Inv == StoreOK /\ ControlOK /\ Accounted /\ AllBounded
<1>1. Init => Inv
  BY InitTypes, InitCounts
<1>2. Inv /\ [Next]_vars => Inv'
  BY StoreType, ControlType, AccountedStep, BoundedStep
<1>3. Inv => NothingCountedTwice
  BY CountedOnce
<1> QED BY <1>1, <1>2, <1>3, PTL DEF Spec

-----------------------------------------------------------------------------
(* The process keeps running.                                                *)

\* A step that touches no bucket and no minute row.
Idle == UNCHANGED <<bucket, minuteRow, lastTS>> /\ now' \in {now, now + 1}

\* Rows of some minutes are forgotten.
Forgets(old) ==
    /\ UNCHANGED <<bucket, lastTS, now>>
    /\ minuteRow' = [a \in Agents |-> [m \in Minutes |->
                       IF m \in old[a] THEN NoAgg ELSE minuteRow[a][m]]]

\* The minutes that retention forgets.
Expired == {m \in Minutes : OneMinKeep # 0 /\ m < now - OneMinKeep}

\* Cleaning up forgets whole minutes, those that have expired.
LEMMA CleanupForgets ==
  ASSUME StoreOK, Cleanup
  PROVE  Forgets([a \in Agents |-> Expired])
<1>1. /\ minuteRow' = Kept(minuteRow, Minutes, OneMinKeep)
      /\ UNCHANGED <<bucket, lastTS, now>>
  BY DEF Cleanup
<1> DEFINE old == [a \in Agents |-> Expired]
<1>2. Kept(minuteRow, Minutes, OneMinKeep) =
        [a \in Agents |-> [m \in Minutes |-> IF m \in old[a] THEN NoAgg ELSE minuteRow[a][m]]]
  <2>1. CASE OneMinKeep = 0
    <3>1. \A a \in Agents : old[a] = {}
      BY <2>1 DEF Expired
    <3>2. minuteRow = [a \in Agents |-> [m \in Minutes |-> minuteRow[a][m]]]
      BY DEF StoreOK
    <3> HIDE DEF old
    <3>3. [a \in Agents |-> [m \in Minutes |-> IF m \in old[a] THEN NoAgg ELSE minuteRow[a][m]]]
            = [a \in Agents |-> [m \in Minutes |-> minuteRow[a][m]]]
      BY <3>1
    <3> QED BY <2>1, <3>2, <3>3 DEF Kept
  <2>2. CASE OneMinKeep # 0
    <3>1. \A a \in Agents : \A m \in Minutes : m \in old[a] <=> m < now - OneMinKeep
      BY <2>2 DEF Expired
    <3> HIDE DEF old
    <3> QED BY <2>2, <3>1 DEF Kept
  <2> QED BY <2>1, <2>2
<1> QED BY <1>1, <1>2 DEF Forgets

\* Deleting an agent forgets all of its minutes and no other's.
LEMMA DeleteForgets ==
  ASSUME StoreOK, NEW a \in Agents, DeleteAgent(a)
  PROVE  Forgets([b \in Agents |-> IF b = a THEN Minutes ELSE {}])
<1>1. /\ minuteRow' = [minuteRow EXCEPT ![a] = [m \in Minutes |-> NoAgg]]
      /\ UNCHANGED <<bucket, lastTS, now>>
  BY DEF DeleteAgent
<1>2. minuteRow \in [Agents -> [Minutes -> Agg]]
  BY DEF StoreOK
<1> DEFINE old == [b \in Agents |-> IF b = a THEN Minutes ELSE {}]
<1>3. \A b \in Agents : minuteRow'[b] =
        [m \in Minutes |-> IF m \in old[b] THEN NoAgg ELSE minuteRow[b][m]]
  BY <1>1, <1>2
<1> QED BY <1>1, <1>2, <1>3 DEF Forgets

\* The steps of a process that is neither stopped nor killed.
LEMMA RunningSteps ==
  ASSUME MaxStops = 0, MaxCrashes = 0, StoreOK, ControlOK, Running, [Next]_vars
  PROVE  /\ Running'
         /\ \/ \E a \in Agents, ts \in Times, v \in Values : Observe(a, ts, v)
            \/ FlushBefore
            \/ \E old \in [Agents -> SUBSET Minutes] : Forgets(old)
            \/ Idle
<1>0. /\ ~ Stop /\ ~ Crash /\ ~ FlushBeforeCancelled /\ ~ FlushAllOfPipeline
      /\ ~ FlushAllOfServer /\ ~ Exit /\ ~ Start
  <2>1. spent.stops \in 0..MaxStops /\ spent.crashes \in 0..MaxCrashes
    BY DEF ControlOK, Spent
  <2>2. ~ (spent.stops < MaxStops) /\ ~ (spent.crashes < MaxCrashes)
    BY <2>1
  <2> QED BY <2>2 DEF Running, Stop, Crash, FlushBeforeCancelled, FlushAllOfPipeline,
                      FlushAllOfServer, Exit, Start
<1>1. Running'
  BY <1>0 DEF Next, vars, Running, Observe, DeleteAgent, FlushBefore, Rollup, Cleanup,
              DbFails, DbHeals, Tick
<1>2. ASSUME NEW a \in Agents, DeleteAgent(a)
      PROVE  \E old \in [Agents -> SUBSET Minutes] : Forgets(old)
  <2>1. [b \in Agents |-> IF b = a THEN Minutes ELSE {}] \in [Agents -> SUBSET Minutes]
    OBVIOUS
  <2> QED BY <1>2, <2>1, DeleteForgets
<1>3. ASSUME Cleanup
      PROVE  \E old \in [Agents -> SUBSET Minutes] : Forgets(old)
  <2>1. [a \in Agents |-> Expired] \in [Agents -> SUBSET Minutes]
    BY DEF Expired
  <2> QED BY <1>3, <2>1, CleanupForgets
<1>4. ASSUME Rollup \/ DbFails \/ DbHeals \/ Tick \/ UNCHANGED vars
      PROVE  Idle
  BY <1>4 DEF Rollup, DbFails, DbHeals, Tick, vars, Idle
<1> QED BY <1>0, <1>1, <1>2, <1>3, <1>4 DEF Next

\* A sample finds no row of its minute.
LEMMA FreshMinute ==
  ASSUME MaxLag <= 1, StoreOK, ControlOK, Closed,
         NEW a \in Agents, NEW ts \in Times, NEW v \in Values, Observe(a, ts, v)
  PROVE  /\ minuteRow[a][StartOf(ts, Minute)] = NoAgg
         /\ StartOf(lastTS[a], Minute) <= StartOf(ts, Minute)
         /\ StartOf(lastTS[a], Minute) \in Nat /\ StartOf(ts, Minute) \in Nat
<1> DEFINE minute == StartOf(ts, Minute)
           last == StartOf(lastTS[a], Minute)
<1>1. ts \in Nat /\ lastTS[a] \in Nat /\ now \in Nat /\ minute \in Minutes
  BY Periods DEF ControlOK
<1>2. lastTS[a] <= ts /\ now - ts <= MaxLag
  BY DEF Observe
<1>3. /\ minute \in Nat /\ ts < minute + Minute
      /\ last \in Nat /\ last <= minute
  BY <1>1, <1>2, PipelineAssumption, StartBounds, StartMonotone
<1> HIDE DEF minute, last
<1>4. minuteRow[a][minute] # NoAgg => minute < now - Minute \/ minute < last
  BY <1>1 DEF Closed, last
<1>5. minuteRow[a][minute] = NoAgg
  BY <1>1, <1>2, <1>3, <1>4, PipelineAssumption
<1> QED BY <1>3, <1>5 DEF minute, last

\* While nothing stops the server, a minute that is over is never opened again.
LEMMA ClosedStep ==
  ASSUME MaxStops = 0, MaxCrashes = 0, MaxLag <= 1,
         StoreOK, ControlOK, Running, Closed, [Next]_vars
  PROVE  Closed'
<1>0. /\ now \in Nat /\ \A b \in Agents : lastTS[b] \in Nat
      /\ \A m \in Minutes : m \in Nat
      /\ \A b \in Agents : StartOf(lastTS[b], Minute) \in Nat
  BY Periods, PipelineAssumption, StartBounds DEF ControlOK
<1>1. ASSUME NEW a \in Agents, NEW ts \in Times, NEW v \in Values, Observe(a, ts, v)
      PROVE  Closed'
  <2> DEFINE minute == StartOf(ts, Minute)
             last == StartOf(lastTS[a], Minute)
             old == IF bucket[a].start = minute THEN bucket[a].agg ELSE NoAgg
  <2>1. /\ lastTS' = [lastTS EXCEPT ![a] = ts] /\ now' = now /\ ts <= now
    BY <1>1 DEF Observe
  <2>2. /\ minute \in Minutes
        /\ bucket' = [bucket EXCEPT ![a] = [start |-> minute, agg |-> Add(old, v)]]
        /\ \A b \in Agents : b # a => minuteRow'[b] = minuteRow[b]
        /\ \A m \in Minutes : minuteRow'[a][m] = IF dbOk /\ bucket[a].start = m /\ m # minute
                                                 THEN bucket[a].agg ELSE minuteRow[a][m]
    BY <1>1, ObserveFacts
  <2>3. minuteRow[a][minute] = NoAgg /\ last <= minute /\ last \in Nat /\ minute \in Nat
    BY <1>1, FreshMinute
  <2>4. lastTS'[a] = ts /\ \A b \in Agents : b # a => lastTS'[b] = lastTS[b]
    BY <2>1 DEF ControlOK
  <2>5. bucket'[a].start = minute /\ \A b \in Agents : b # a => bucket'[b] = bucket[b]
    BY <2>2 DEF StoreOK
  <2>6. ASSUME NEW m \in Minutes, minuteRow'[a][m] # NoAgg
        PROVE  minute # m /\ (m < now - Minute \/ m < minute)
    <3>1. m # minute
      BY <2>2, <2>3, <2>6
    <3>2. CASE dbOk /\ bucket[a].start = m
      <4>1. m = last
        BY <3>2, BucketFacts DEF Closed
      <4> QED BY <3>1, <4>1, <2>3
    <3>3. CASE ~(dbOk /\ bucket[a].start = m)
      <4>1. minuteRow[a][m] # NoAgg
        BY <2>2, <2>6, <3>3
      <4>2. m < now - Minute \/ m < last
        BY <4>1 DEF Closed
      <4> QED BY <1>0, <2>3, <3>1, <4>2
    <3> QED BY <3>2, <3>3
  <2>7. StartOf(lastTS'[a], Minute) = minute
    BY <2>4
  <2> HIDE DEF minute, last, old
  <2>8. ASSUME NEW b \in Agents
        PROVE  /\ lastTS'[b] <= now'
               /\ bucket'[b] # NoBucket => bucket'[b].start = StartOf(lastTS'[b], Minute)
               /\ \A m \in Minutes : minuteRow'[b][m] # NoAgg =>
                    /\ bucket'[b].start # m
                    /\ m < now' - Minute \/ m < StartOf(lastTS'[b], Minute)
    <3>1. CASE b = a
      BY <2>1, <2>4, <2>5, <2>6, <2>7, <3>1
    <3>2. CASE b # a
      BY <2>1, <2>2, <2>4, <2>5, <3>2 DEF Closed
    <3> QED BY <3>1, <3>2
  <2> QED BY <2>8 DEF Closed, StartOf
<1>2. CASE FlushBefore
  <2> DEFINE F == {a \in Agents : Ended(a)}
  <2>1. /\ minuteRow' = Upserted(F) /\ bucket' = Dropped(F)
        /\ now' = now /\ lastTS' = lastTS
    BY <1>2 DEF FlushBefore, FlushOf
  <2>2. ASSUME NEW b \in Agents
        PROVE  /\ lastTS[b] <= now
               /\ bucket'[b] # NoBucket => bucket'[b].start = StartOf(lastTS[b], Minute)
               /\ \A m \in Minutes : minuteRow'[b][m] # NoAgg =>
                    /\ bucket'[b].start # m
                    /\ m < now - Minute \/ m < StartOf(lastTS[b], Minute)
    <3>1. CASE b \notin F
      <4>1. bucket'[b] = bucket[b] /\ minuteRow'[b] = minuteRow[b]
        BY <2>1, <3>1 DEF Dropped, Upserted
      <4> QED BY <4>1 DEF Closed
    <3>2. CASE b \in F
      <4>1. bucket'[b] = NoBucket
        BY <2>1, <3>2 DEF Dropped
      <4>2. bucket[b] # NoBucket /\ bucket[b].start < now - Minute /\ bucket[b].start \in Minutes
        BY <3>2, BucketFacts DEF Ended
      <4>3. \A m \in Minutes : minuteRow'[b][m] =
              IF dbOk /\ m = bucket[b].start THEN bucket[b].agg ELSE minuteRow[b][m]
        BY <2>1, <3>2, <4>2 DEF Upserted, StoreOK
      <4>4. \A m \in Minutes : NoBucket.start # m
        BY <1>0 DEF NoBucket, NoStart
      <4> QED BY <4>1, <4>2, <4>3, <4>4 DEF Closed
    <3> QED BY <3>1, <3>2
  <2> QED BY <2>1, <2>2 DEF Closed, StartOf
<1>3. ASSUME UNCHANGED <<bucket, lastTS>>, now' \in {now, now + 1},
             \A b \in Agents : \A m \in Minutes : minuteRow'[b][m] \in {minuteRow[b][m], NoAgg}
      PROVE  Closed'
  <2>1. ASSUME NEW b \in Agents
        PROVE  /\ lastTS[b] <= now'
               /\ bucket[b] # NoBucket => bucket[b].start = StartOf(lastTS[b], Minute)
               /\ \A m \in Minutes : minuteRow'[b][m] # NoAgg =>
                    /\ bucket[b].start # m
                    /\ m < now' - Minute \/ m < StartOf(lastTS[b], Minute)
    <3>1. ASSUME NEW m \in Minutes, minuteRow'[b][m] # NoAgg
          PROVE  /\ bucket[b].start # m
                 /\ m < now' - Minute \/ m < StartOf(lastTS[b], Minute)
      <4>1. bucket[b].start # m /\ (m < now - Minute \/ m < StartOf(lastTS[b], Minute))
        BY <1>3, <3>1 DEF Closed
      <4>2. m < now - Minute => m < now' - Minute
        BY <1>0, <1>3, PipelineAssumption
      <4> QED BY <4>1, <4>2
    <3>2. lastTS[b] <= now'
      BY <1>0, <1>3 DEF Closed
    <3> QED BY <3>1, <3>2 DEF Closed
  <2> QED BY <1>3, <2>1 DEF Closed, StartOf
<1>4. ASSUME NEW old \in [Agents -> SUBSET Minutes], Forgets(old)
      PROVE  Closed'
  BY <1>3, <1>4 DEF Forgets
<1>5. CASE Idle
  BY <1>3, <1>5 DEF Idle
<1> QED BY <1>1, <1>2, <1>4, <1>5, RunningSteps

-----------------------------------------------------------------------------
(* The refinement of MetricLedger.                                           *)

DbAnswers == dbOk = TRUE

\* A database that has not failed goes on answering.
LEMMA AnswersStep ==
  ASSUME MaxDbErrors = 0, ControlOK, DbAnswers, [Next]_vars
  PROVE  DbAnswers'
<1>1. ~ DbFails
  <2>1. spent.errors \in 0..MaxDbErrors
    BY DEF ControlOK, Spent
  <2> QED BY <2>1 DEF DbFails
<1> QED BY <1>1 DEF Next, vars, DbAnswers, Observe, DeleteAgent, FlushBefore, FlushBeforeCancelled,
            FlushOf, Rollup, Cleanup, Stop, FlushAllOfPipeline, FlushAllOfServer, Exit, Crash,
            Start, DbHeals, Tick

\* What the minutes hold.
Holdings == [a \in Agents |-> [m \in Minutes |-> Held(a, m)]]

\* What is held after a step, minute by minute.
LEMMA HoldingsNext ==
  Holdings' = [a \in Agents |-> [m \in Minutes |-> Held(a, m)']]
BY DEF Holdings

\* A sample is added to its minute, and no minute loses one.
LEMMA ObserveSamples ==
  ASSUME MaxLag <= 1, StoreOK, ControlOK, Closed, DbAnswers,
         NEW a \in Agents, NEW ts \in Times, NEW v \in Values, Observe(a, ts, v)
  PROVE  Holdings' = [Holdings EXCEPT ![a][StartOf(ts, Minute)] = Add(@, v)]
<1> DEFINE minute == StartOf(ts, Minute)
           old == IF bucket[a].start = minute THEN bucket[a].agg ELSE NoAgg
<1>1. /\ minute \in Minutes
      /\ bucket' = [bucket EXCEPT ![a] = [start |-> minute, agg |-> Add(old, v)]]
      /\ \A b \in Agents : b # a => minuteRow'[b] = minuteRow[b]
      /\ \A m \in Minutes : minuteRow'[a][m] = IF dbOk /\ bucket[a].start = m /\ m # minute
                                               THEN bucket[a].agg ELSE minuteRow[a][m]
  BY ObserveFacts
<1>2. old = Held(a, minute)
  BY FreshMinute DEF Held
<1> HIDE DEF minute, old
<1>3. /\ bucket'[a].start = minute /\ bucket'[a].agg = Add(old, v)
      /\ \A b \in Agents : b # a => bucket'[b] = bucket[b]
  BY <1>1 DEF StoreOK
<1>4. \A b \in Agents, m \in Minutes :
        Held(b, m)' = IF b = a /\ m = minute THEN Add(old, v) ELSE Held(b, m)
  BY <1>1, <1>3 DEF Held, DbAnswers
<1>5. [Holdings EXCEPT ![a][minute] = Add(@, v)] =
        [b \in Agents |-> [m \in Minutes |->
           IF b = a /\ m = minute THEN Add(Held(a, minute), v) ELSE Held(b, m)]]
  BY <1>1 DEF Holdings
<1>6. Holdings' = [Holdings EXCEPT ![a][minute] = Add(@, v)]
  BY <1>2, <1>4, <1>5, HoldingsNext
<1> QED BY <1>6 DEF minute

\* A flush moves what a minute holds from memory to the table.
LEMMA FlushHolds ==
  ASSUME StoreOK, DbAnswers, FlushBefore
  PROVE  Holdings' = Holdings
<1> DEFINE F == {a \in Agents : Ended(a)}
<1>1. minuteRow' = Upserted(F) /\ bucket' = Dropped(F)
  BY DEF FlushBefore, FlushOf
<1> HIDE DEF F
<1>2. ASSUME NEW a \in Agents, NEW m \in Minutes
      PROVE  Held(a, m)' = Held(a, m)
  <2>1. CASE a \notin F \/ bucket[a] = NoBucket
    <3>1. bucket'[a] = bucket[a] /\ minuteRow'[a] = minuteRow[a]
      BY <1>1, <2>1 DEF Dropped, Upserted
    <3> QED BY <3>1 DEF Held
  <2>2. CASE a \in F /\ bucket[a] # NoBucket
    <3>1. bucket'[a] = NoBucket /\ bucket[a].start \in Minutes
      BY <1>1, <2>2, BucketFacts DEF Dropped
    <3>2. minuteRow'[a][m] = IF m = bucket[a].start THEN bucket[a].agg ELSE minuteRow[a][m]
      BY <1>1, <2>2, <3>1 DEF Upserted, DbAnswers, StoreOK
    <3>3. NoBucket.start # m
      BY Periods DEF NoBucket, NoStart
    <3> QED BY <3>1, <3>2, <3>3 DEF Held
  <2> QED BY <2>1, <2>2
<1> QED BY <1>2, HoldingsNext DEF Holdings

\* Rows that are forgotten are so unless the minute is held in memory.
LEMMA ForgetsHeld ==
  ASSUME NEW old \in [Agents -> SUBSET Minutes], Forgets(old)
  PROVE  LET closed == [a \in Agents |-> {m \in old[a] : bucket[a].start # m}]
         IN  /\ closed \in [Agents -> SUBSET Minutes]
             /\ Holdings' = [a \in Agents |-> [m \in Minutes |->
                               IF m \in closed[a] THEN NoAgg ELSE Holdings[a][m]]]
<1> DEFINE closed == [a \in Agents |-> {m \in old[a] : bucket[a].start # m}]
<1>1. closed \in [Agents -> SUBSET Minutes]
  OBVIOUS
<1>2. \A a \in Agents : \A m \in Minutes :
        m \in closed[a] <=> m \in old[a] /\ bucket[a].start # m
  OBVIOUS
<1> HIDE DEF closed
<1>3. \A a \in Agents, m \in Minutes :
        Held(a, m)' = IF m \in closed[a] THEN NoAgg ELSE Held(a, m)
  BY <1>2 DEF Held, Forgets
<1>4. \A a \in Agents, m \in Minutes : Holdings[a][m] = Held(a, m)
  BY DEF Holdings
<1>5. Holdings' = [a \in Agents |-> [m \in Minutes |->
                     IF m \in closed[a] THEN NoAgg ELSE Holdings[a][m]]]
  BY <1>3, <1>4, HoldingsNext
<1> QED BY <1>1, <1>5 DEF closed

\* Each step of the pipeline is one of the ledger's, or none.
LEMMA LedgerStep ==
  ASSUME MaxStops = 0, MaxCrashes = 0, MaxLag <= 1,
         StoreOK, ControlOK, Running, Closed, DbAnswers, [Next]_vars
  PROVE  [Ledger!Next]_Holdings
<1>1. ASSUME NEW a \in Agents, NEW ts \in Times, NEW v \in Values, Observe(a, ts, v)
      PROVE  Ledger!Next
  <2>1. StartOf(ts, Minute) \in Minutes
    BY Periods
  <2>2. Holdings' = [Holdings EXCEPT ![a][StartOf(ts, Minute)] = Add(@, v)]
    BY <1>1, ObserveSamples
  <2>3. \A g : Ledger!Add(g, v) = Add(g, v)
    BY DEF Ledger!Add, Ledger!Least, Ledger!Greatest, Add, Lesser, Greater
  <2>4. Holdings' = [Holdings EXCEPT ![a][StartOf(ts, Minute)] = Ledger!Add(@, v)]
    BY <2>2, <2>3
  <2>5. Ledger!Sample(a, StartOf(ts, Minute), v)
    BY <2>4 DEF Ledger!Sample, Holdings
  <2> QED BY <2>1, <2>5 DEF Ledger!Next
<1>2. CASE FlushBefore
  BY <1>2, FlushHolds
<1>3. ASSUME NEW old \in [Agents -> SUBSET Minutes], Forgets(old)
      PROVE  Ledger!Next
  <2> DEFINE closed == [a \in Agents |-> {m \in old[a] : bucket[a].start # m}]
  <2>1. /\ closed \in [Agents -> SUBSET Minutes]
        /\ Holdings' = [a \in Agents |-> [m \in Minutes |->
                          IF m \in closed[a] THEN NoAgg ELSE Holdings[a][m]]]
    BY <1>3, ForgetsHeld
  <2> HIDE DEF closed
  <2>2. Ledger!Forget(closed)
    BY <2>1 DEF Ledger!Forget, Ledger!NoAgg, NoAgg, Holdings
  <2> QED BY <2>1, <2>2 DEF Ledger!Next
<1>4. CASE Idle
  BY <1>4 DEF Idle, Holdings, Held
<1> QED BY <1>1, <1>2, <1>3, <1>4, RunningSteps

\* The pipeline starts as an empty ledger.
LEMMA InitLedger ==
  ASSUME Init
  PROVE  Running /\ Closed /\ DbAnswers /\ Ledger!Init
<1>1. Running /\ DbAnswers
  BY DEF Init, Running, DbAnswers
<1>2. \A a \in Agents : /\ bucket[a] = NoBucket /\ lastTS[a] = 0
                        /\ \A m \in Minutes : minuteRow[a][m] = NoAgg
  BY DEF Init
<1>3. Closed
  BY <1>2 DEF Closed, Init
<1>4. Ledger!Init
  BY <1>2, Periods DEF Ledger!Init, Ledger!NoAgg, NoAgg, NoBucket, NoStart, Held
<1> QED BY <1>1, <1>3, <1>4

\* While the process runs, the database answers and no sample is late by more
\* than a tick, the pipeline implements MetricLedger: however samples, flushes,
\* retention and deletions follow each other, a minute holds all its samples and
\* only them.
THEOREM LedgerKept ==
  ASSUME MaxStops = 0, MaxCrashes = 0, MaxDbErrors = 0, MaxLag <= 1
  PROVE  Spec => KeepsLedger
<1> DEFINE Inv == StoreOK /\ ControlOK /\ Running /\ Closed /\ DbAnswers
<1>1. Init => Inv /\ Ledger!Init
  BY InitTypes, InitLedger
<1>2. Inv /\ [Next]_vars => Inv'
  BY StoreType, ControlType, RunningSteps, ClosedStep, AnswersStep
<1>3. Inv /\ [Next]_vars => [Ledger!Next]_Holdings
  BY LedgerStep
<1> QED BY <1>1, <1>2, <1>3, PTL DEF Spec, KeepsLedger, Ledger!Spec, Holdings

-----------------------------------------------------------------------------
(* Hour rows.                                                                *)

\* Retention keeps the minutes of the hours that are still rolled up.
KeepsTwoHours == OneMinKeep = 0 \/ OneMinKeep >= 2 * Hour

\* The counts of the minutes of an hour.
HourCounts(a, h) == [m \in MinutesOf(h) |-> minuteRow[a][m].count]

\* An hour's counts are numbers, and so is their sum.
LEMMA HourCountsType ==
  ASSUME StoreOK, NEW a \in Agents, NEW h
  PROVE  HourCounts(a, h) \in [MinutesOf(h) -> Nat] /\ SumFunction(HourCounts(a, h)) \in Nat
<1>1. \A m \in MinutesOf(h) : minuteRow[a][m].count \in Nat
  BY MinutesOfFinite, StoredFacts
<1>2. HourCounts(a, h) \in [MinutesOf(h) -> Nat]
  BY <1>1 DEF HourCounts
<1> QED BY <1>2, MinutesOfFinite, SumType

\* When no minute of an hour lost samples, the hour did not.
LEMMA HourGrows ==
  ASSUME StoreOK, StoreOK', NEW a \in Agents, NEW h,
         \A m \in MinutesOf(h) : minuteRow[a][m].count <= minuteRow'[a][m].count
  PROVE  SumFunction(HourCounts(a, h)) <= SumFunction(HourCounts(a, h)')
<1> DEFINE p == HourCounts(a, h)
           q == [m \in MinutesOf(h) |-> minuteRow'[a][m].count]
<1>1. \A m \in MinutesOf(h) : minuteRow'[a][m] \in Agg
  BY MinutesOfFinite DEF StoreOK
<1>2. q \in [MinutesOf(h) -> Nat]
  BY <1>1 DEF Agg
<1>3. p \in [MinutesOf(h) -> Nat] /\ SumFunction(p) \in Nat
  BY HourCountsType
<1>4. \A m \in MinutesOf(h) : p[m] <= q[m]
  BY DEF HourCounts
<1>5. HourCounts(a, h)' = q
  BY DEF HourCounts, MinutesOf
<1> HIDE DEF p, q
<1>6. \A m \in MinutesOf(h) : p[m] \in Nat /\ q[m] \in Nat
  BY <1>2, <1>3
<1>7. SumFunction(p) <= SumFunction(q) + 0 /\ SumFunction(q) \in Nat
  BY <1>2, <1>3, <1>4, <1>6, MinutesOfFinite, SumGrows, SumType
<1>8. SumFunction(p) <= SumFunction(q)
  BY <1>3, <1>7
<1> QED BY <1>5, <1>8 DEF p

\* A row is written for a minute that has none: no minute loses samples.
LEMMA RowsGrow ==
  ASSUME StoreOK, StoreOK', ControlOK, Closed,
         \/ \E a \in Agents, ts \in Times, v \in Values : Observe(a, ts, v)
         \/ FlushBefore
  PROVE  \A b \in Agents : \A m \in Minutes : minuteRow[b][m].count <= minuteRow'[b][m].count
<1> SUFFICES ASSUME NEW b \in Agents, NEW m \in Minutes
             PROVE  minuteRow[b][m].count <= minuteRow'[b][m].count
  OBVIOUS
<1>1. /\ minuteRow[b][m].count \in Nat /\ bucket[b].agg.count \in Nat
  BY StoredFacts
<1>2. CASE minuteRow'[b][m] = minuteRow[b][m]
  BY <1>1, <1>2
<1>3. CASE bucket[b].start = m
  <2>1. minuteRow[b][m].count = 0
    BY <1>3, NoAggFacts DEF Closed
  <2>2. minuteRow'[b][m].count \in Nat
    <3>1. minuteRow'[b][m] \in Agg
      BY DEF StoreOK
    <3> QED BY <3>1 DEF Agg
  <2> QED BY <2>1, <2>2
<1>4. ASSUME NEW a \in Agents, NEW ts \in Times, NEW v \in Values, Observe(a, ts, v)
      PROVE  minuteRow'[b][m] = minuteRow[b][m] \/ bucket[b].start = m
  BY <1>4, ObserveFacts
<1>5. ASSUME FlushBefore
      PROVE  minuteRow'[b][m] = minuteRow[b][m] \/ bucket[b].start = m
  <2>1. minuteRow' = Upserted({a \in Agents : Ended(a)})
    BY <1>5 DEF FlushBefore, FlushOf
  <2> QED BY <2>1 DEF Upserted, StoreOK
<1> QED BY <1>2, <1>3, <1>4, <1>5

\* Retention leaves the minutes of the last full hour and later ones alone.
LEMMA RecentKept ==
  ASSUME KeepsTwoHours, StoreOK, ControlOK, Cleanup,
         NEW a \in Agents, NEW h \in Hours, ~(h < StartOf(now, Hour) - Hour),
         NEW m \in MinutesOf(h)
  PROVE  minuteRow'[a][m] = minuteRow[a][m]
<1>1. Forgets([b \in Agents |-> Expired])
  BY CleanupForgets
<1>2. /\ now \in Nat /\ StartOf(now, Hour) \in Nat /\ now < StartOf(now, Hour) + Hour
      /\ h \in Nat /\ m \in Minutes /\ m \in Nat /\ h <= m
  BY Periods, PipelineAssumption, StartBounds DEF ControlOK, MinutesOf
<1>3. ~ (OneMinKeep # 0 /\ m < now - OneMinKeep)
  BY <1>2, PipelineAssumption DEF KeepsTwoHours
<1>4. m \notin Expired
  BY <1>3 DEF Expired
<1> QED BY <1>1, <1>2, <1>4 DEF Forgets

\* The steps that change an hour row.
LEMMA HourSteps ==
  ASSUME MaxStops = 0, MaxCrashes = 0, StoreOK, StoreOK', ControlOK, Running, Closed, [Next]_vars
  PROVE  \/ Rollup \/ Cleanup \/ \E a \in Agents : DeleteAgent(a)
         \/ /\ hourRow' = hourRow /\ now' \in {now, now + 1}
            /\ \A b \in Agents : \A m \in Minutes :
                 minuteRow[b][m].count <= minuteRow'[b][m].count
<1>1. ASSUME \/ \E a \in Agents, ts \in Times, v \in Values : Observe(a, ts, v)
             \/ FlushBefore
      PROVE  /\ hourRow' = hourRow /\ now' = now
             /\ \A b \in Agents : \A m \in Minutes :
                  minuteRow[b][m].count <= minuteRow'[b][m].count
  BY <1>1, RowsGrow DEF Observe, FlushBefore, FlushOf
<1>2. ASSUME UNCHANGED <<hourRow, minuteRow>>, now' \in {now, now + 1}
      PROVE  /\ hourRow' = hourRow /\ now' \in {now, now + 1}
             /\ \A b \in Agents : \A m \in Minutes :
                  minuteRow[b][m].count <= minuteRow'[b][m].count
  BY <1>2, StoredFacts
<1>3. DbFails \/ DbHeals \/ Tick \/ UNCHANGED vars
      => UNCHANGED <<hourRow, minuteRow>> /\ now' \in {now, now + 1}
  BY DEF DbFails, DbHeals, Tick, vars
<1>4. /\ ~ Stop /\ ~ Crash /\ ~ FlushBeforeCancelled /\ ~ FlushAllOfPipeline
      /\ ~ FlushAllOfServer /\ ~ Exit /\ ~ Start
  <2>1. spent.stops \in 0..MaxStops /\ spent.crashes \in 0..MaxCrashes
    BY DEF ControlOK, Spent
  <2>2. ~ (spent.stops < MaxStops) /\ ~ (spent.crashes < MaxCrashes)
    BY <2>1
  <2> QED BY <2>2 DEF Running, Stop, Crash, FlushBeforeCancelled, FlushAllOfPipeline,
                      FlushAllOfServer, Exit, Start
<1> QED BY <1>1, <1>2, <1>3, <1>4 DEF Next

\* What a rollup writes.
LEMMA RollupFacts ==
  ASSUME StoreOK, Rollup, NEW a \in Agents, NEW h \in Hours
  PROVE  \/ hourRow'[a][h] = hourRow[a][h]
         \/ /\ h = StartOf(now, Hour) - Hour
            /\ hourRow'[a][h].count = SumFunction(HourCounts(a, h))
<1> DEFINE g == StartOf(now, Hour) - Hour
<1>1. hourRow' = [b \in Agents |-> IF RolledUp(b, g) = NoAgg THEN hourRow[b]
                                   ELSE [hourRow[b] EXCEPT ![g] = RolledUp(b, g)]]
  BY DEF Rollup
<1>2. RolledUp(a, g).count = SumFunction(HourCounts(a, g))
  BY RolledUpFacts DEF HourCounts
<1> HIDE DEF g
<1>3. \/ hourRow'[a][h] = hourRow[a][h]
      \/ h = g /\ hourRow'[a][h] = RolledUp(a, g)
  BY <1>1 DEF StoreOK
<1>4. h = g => (hourRow'[a][h] # hourRow[a][h] => hourRow'[a][h].count = SumFunction(HourCounts(a, h)))
  BY <1>2, <1>3
<1> QED BY <1>3, <1>4 DEF g

\* What retention leaves of an hour row.
LEMMA CleanupHours ==
  ASSUME StoreOK, Cleanup, NEW a \in Agents, NEW h \in Hours
  PROVE  \/ hourRow'[a][h] = hourRow[a][h]
         \/ h < now - OneHourKeep /\ hourRow'[a][h] = NoAgg
BY DEF Cleanup, Kept, StoreOK

\* Each step keeps an hour's row within what its minutes still hold.
LEMMA CoveredStep ==
  ASSUME MaxStops = 0, MaxCrashes = 0, KeepsTwoHours,
         StoreOK, StoreOK', ControlOK, Running, Closed, HourCovered, [Next]_vars
  PROVE  HourCovered'
<1> SUFFICES ASSUME NEW a \in Agents, NEW h \in Hours, ~(h < StartOf(now', Hour) - Hour)
             PROVE  hourRow'[a][h].count <= SumFunction(HourCounts(a, h)')
  BY DEF HourCovered, HourCounts, StartOf, MinutesOf
<1>1. /\ now \in Nat /\ StartOf(now, Hour) \in Nat /\ h \in Nat
      /\ \A t \in Nat : now <= t => /\ StartOf(now, Hour) <= StartOf(t, Hour)
                                    /\ StartOf(t, Hour) \in Nat
  BY Periods, PipelineAssumption, StartBounds, StartMonotone DEF ControlOK
<1>2. /\ hourRow[a][h].count \in Nat
      /\ SumFunction(HourCounts(a, h)) \in Nat /\ SumFunction(HourCounts(a, h)') \in Nat
  <2>1. hourRow[a][h] \in Agg
    BY DEF StoreOK
  <2>2. HourCounts(a, h)' \in [MinutesOf(h) -> Nat]
    <3>1. \A m \in MinutesOf(h) : minuteRow'[a][m] \in Agg
      BY MinutesOfFinite DEF StoreOK
    <3>2. [m \in MinutesOf(h) |-> minuteRow'[a][m].count] \in [MinutesOf(h) -> Nat]
      BY <3>1 DEF Agg
    <3> QED BY <3>2 DEF HourCounts, MinutesOf
  <2> QED BY <2>1, <2>2, HourCountsType, MinutesOfFinite, SumType DEF Agg
<1>3. ASSUME now' \in {now, now + 1}
      PROVE  hourRow[a][h].count <= SumFunction(HourCounts(a, h))
  <2>1. ~(h < StartOf(now, Hour) - Hour)
    BY <1>1, <1>3, PipelineAssumption
  <2> QED BY <2>1 DEF HourCovered, HourCounts
<1>4. CASE Rollup
  <2>1. now' = now /\ minuteRow' = minuteRow
    BY <1>4 DEF Rollup
  <2>2. SumFunction(HourCounts(a, h)') = SumFunction(HourCounts(a, h))
    BY <2>1 DEF HourCounts, MinutesOf
  <2>3. CASE hourRow'[a][h] = hourRow[a][h]
    BY <1>3, <2>1, <2>2, <2>3
  <2>4. CASE hourRow'[a][h].count = SumFunction(HourCounts(a, h))
    BY <1>2, <2>2, <2>4
  <2> QED BY <1>4, <2>3, <2>4, RollupFacts
<1>5. CASE Cleanup
  <2>1. now' = now
    BY <1>5 DEF Cleanup
  <2>2. \A m \in MinutesOf(h) : minuteRow'[a][m] = minuteRow[a][m]
    BY <1>5, <2>1, RecentKept DEF StartOf
  <2>3. SumFunction(HourCounts(a, h)) <= SumFunction(HourCounts(a, h)')
    <3>1. \A m \in MinutesOf(h) : minuteRow[a][m].count \in Nat
      BY MinutesOfFinite, StoredFacts
    <3>2. \A m \in MinutesOf(h) : minuteRow[a][m].count <= minuteRow'[a][m].count
      BY <2>2, <3>1
    <3> QED BY <3>2, HourGrows
  <2>4. hourRow'[a][h].count <= hourRow[a][h].count
    BY <1>2, <1>5, CleanupHours, NoAggFacts
  <2>5. hourRow'[a][h].count \in Nat
    BY <1>2, <1>5, CleanupHours, NoAggFacts
  <2> QED BY <1>2, <1>3, <2>1, <2>3, <2>4, <2>5
<1>6. ASSUME NEW b \in Agents, DeleteAgent(b)
      PROVE  hourRow'[a][h].count <= SumFunction(HourCounts(a, h)')
  <2>1. /\ hourRow' = [hourRow EXCEPT ![b] = [g \in Hours |-> NoAgg]]
        /\ minuteRow' = [minuteRow EXCEPT ![b] = [m \in Minutes |-> NoAgg]]
        /\ now' = now
    BY <1>6 DEF DeleteAgent
  <2>2. CASE a = b
    <3>1. hourRow'[a][h].count = 0
      BY <2>1, <2>2, NoAggFacts DEF StoreOK
    <3> QED BY <1>2, <3>1
  <2>3. CASE a # b
    <3>1. hourRow'[a] = hourRow[a] /\ minuteRow'[a] = minuteRow[a]
      BY <2>1, <2>3 DEF StoreOK
    <3>2. SumFunction(HourCounts(a, h)') = SumFunction(HourCounts(a, h))
      BY <3>1 DEF HourCounts, MinutesOf
    <3> QED BY <1>3, <2>1, <3>1, <3>2
  <2> QED BY <2>2, <2>3
<1>7. ASSUME hourRow' = hourRow, now' \in {now, now + 1},
             \A b \in Agents : \A m \in Minutes :
               minuteRow[b][m].count <= minuteRow'[b][m].count
      PROVE  hourRow'[a][h].count <= SumFunction(HourCounts(a, h)')
  <2>1. SumFunction(HourCounts(a, h)) <= SumFunction(HourCounts(a, h)')
    BY <1>7, MinutesOfFinite, HourGrows
  <2> QED BY <1>2, <1>3, <1>7, <2>1
<1> QED BY <1>4, <1>5, <1>6, <1>7, HourSteps

\* The row of an hour that is kept never shrinks.
LEMMA ShrinkStep ==
  ASSUME MaxStops = 0, MaxCrashes = 0,
         StoreOK, StoreOK', ControlOK, Running, Closed, HourCovered, [Next]_vars
  PROVE  \A a \in Agents, h \in Hours :
           \/ hourRow[a][h].count <= hourRow'[a][h].count
           \/ h < now - OneHourKeep
           \/ a \in deleted'
<1> SUFFICES ASSUME NEW a \in Agents, NEW h \in Hours
             PROVE  \/ hourRow[a][h].count <= hourRow'[a][h].count
                    \/ h < now - OneHourKeep
                    \/ a \in deleted'
  OBVIOUS
<1>1. hourRow[a][h].count \in Nat
  <2>1. hourRow[a][h] \in Agg
    BY DEF StoreOK
  <2> QED BY <2>1 DEF Agg
<1>2. CASE hourRow'[a][h] = hourRow[a][h]
  BY <1>1, <1>2
<1>3. CASE Rollup
  <2>1. CASE /\ h = StartOf(now, Hour) - Hour
             /\ hourRow'[a][h].count = SumFunction(HourCounts(a, h))
    <3>1. ~(h < StartOf(now, Hour) - Hour)
      BY <2>1, Periods
    <3> QED BY <2>1, <3>1 DEF HourCovered, HourCounts
  <2> QED BY <1>2, <1>3, <2>1, RollupFacts
<1>4. CASE Cleanup
  BY <1>2, <1>4, CleanupHours
<1>5. ASSUME NEW b \in Agents, DeleteAgent(b)
      PROVE  hourRow'[a][h] = hourRow[a][h] \/ a \in deleted'
  BY <1>5 DEF DeleteAgent, StoreOK
<1> QED BY <1>2, <1>3, <1>4, <1>5, HourSteps

\* At the start there is no hour to cover.
LEMMA InitCovered ==
  ASSUME Init
  PROVE  Running /\ Closed /\ HourCovered
<1>1. Running /\ Closed /\ StoreOK
  BY InitLedger, InitTypes
<1>2. ASSUME NEW a \in Agents, NEW h \in Hours
      PROVE  hourRow[a][h].count <= SumFunction(HourCounts(a, h))
  <2>1. hourRow[a][h].count = 0
    BY NoAggFacts DEF Init
  <2> QED BY <1>1, <2>1, HourCountsType
<1> QED BY <1>1, <1>2 DEF HourCovered, HourCounts

\* While the process runs, no sample is late by more than a tick and minutes are
\* kept for two hours, an hour row never loses samples before retention or the
\* removal of its agent takes it, whatever the database does.
THEOREM HourKept ==
  ASSUME MaxStops = 0, MaxCrashes = 0, MaxLag <= 1, KeepsTwoHours
  PROVE  Spec => HourNeverShrinks
<1> DEFINE Inv == StoreOK /\ ControlOK /\ Running /\ Closed /\ HourCovered
           Kept1 == \A a \in Agents, h \in Hours :
                      \/ hourRow[a][h].count <= hourRow'[a][h].count
                      \/ h < now - OneHourKeep
                      \/ a \in deleted'
<1>1. Init => Inv
  BY InitTypes, InitCovered
<1>2. Inv /\ [Next]_vars => Inv'
  BY StoreType, ControlType, RunningSteps, ClosedStep, CoveredStep
<1>3. Inv /\ [Next]_vars => [Kept1]_vars
  BY StoreType, ShrinkStep
<1> QED BY <1>1, <1>2, <1>3, PTL DEF Spec, HourNeverShrinks

=============================================================================
