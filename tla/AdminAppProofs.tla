---------------------------- MODULE AdminAppProofs ----------------------------
(* Proofs about AdminApp for any fleet, probes and rules, any readings, any   *)
(* entry left in localStorage, and any number of moves, saves and faults.     *)
EXTENDS AdminApp, StoreProofs, SequenceTheorems, FiniteSetTheorems

-----------------------------------------------------------------------------
(* The steps, by what they touch.                                            *)

(* A step of the page that only its own variables follow. *)
InDialog ==
  \/ \E s \in Servers, kind \in {"tags", "removal"} : OpenDialog(kind, s)
  \/ \E t \in Tags : AddTag(t) \/ RemoveTag(t)
  \/ SaveTags \/ CloseDialog

\* The rows and dialogs of the overview follow every step.
LEMMA OverviewKinds ==
  ASSUME [Next]_vars
  PROVE  \/ UNCHANGED <<loc, overview>>
         \/ OverviewFollows /\ fleet' = fleet
         \/ CatchUp /\ fleet' = fleet
         \/ InDialog
         \/ ReloadConsole
<1>1. CASE OnOverview
  <2>1. fleet' = fleet
    BY <1>1 DEF OnOverview, FeedFollows, Subscribe
  <2>2. CASE OverviewFollows
    BY <2>1, <2>2
  <2>3. CASE \E s \in Servers : ToggleMaintenance(s)
    BY <2>3 DEF ToggleMaintenance, url
  <2>4. CASE InDialog
    BY <2>4
  <2> QED BY <1>1, <2>1, <2>2, <2>3, <2>4
          DEF OnOverview, OverviewStep, InDialog, setQuery, setFilter, setTag, setIssue, setSort,
              PickFilter, ClearFilters, CloseSheet, FollowLink, OpenSheet
<1>2. CASE OnProbes \/ OnAlertsPage \/ Back \/ (\E to \in Commands : RunCommand(to))
           \/ (\E to \in NavTargets : FollowNav(to))
  BY <1>2 DEF OnProbes, OnAlertsPage, Back, RunCommand, FollowNav, Navigated, FeedFollows, Subscribe
<1>3. CASE Redirect
  BY <1>3 DEF Redirect, feed
<1>4. CASE TableRenders
  BY <1>4 DEF TableRenders, feed
<1>5. CASE RowsRender
  BY <1>5 DEF RowsRender, ListCatchesUp, url
<1>6. CASE Boot \/ StrictUnmount \/ TogglePalette \/ OpenNav \/ Live \/ Stores \/ UNCHANGED vars
  BY <1>6 DEF Boot, StrictUnmount, TogglePalette, OpenNav, Live, Stores, vars, url
<1> QED BY <1>1, <1>2, <1>3, <1>4, <1>5, <1>6 DEF Next

-----------------------------------------------------------------------------
(* The live feed.                                                            *)

(* Until the first snapshot nothing is said; from then on somebody listens, for
   the badge of the shell never leaves. *)
FeedInv ==
  /\ FeedIsTrue
  /\ loaded => listeners # {}
  /\ interval \in BOOLEAN /\ snapshot \in BOOLEAN /\ loaded \in BOOLEAN /\ hidden \in BOOLEAN
  /\ connection \in {"live", "paused"}
  /\ listeners \subseteq {"badge", Home, Tasks}
  /\ ticks \in 0..MaxTicks /\ hides \in 0..MaxHides

\* The feed moves by itself, or the listeners change, or the tab is loaded again.
LEMMA FeedKinds ==
  ASSUME [Next]_vars
  PROVE  \/ UNCHANGED feed
         \/ (listeners = {} \/ Running) /\ \E l : Subscribe(ListenersAt(l))
         \/ ~loaded /\ Subscribe({})
         \/ FeedStep
         \/ ReloadConsole
<1>1. CASE Boot
  BY <1>1 DEF Boot
<1>2. CASE StrictUnmount
  BY <1>2 DEF StrictUnmount
<1>3. CASE OnOverview \/ OnProbes \/ OnAlertsPage
  BY <1>3 DEF OnOverview, OnProbes, OnAlertsPage, FeedFollows
<1>4. CASE Back \/ (\E to \in Commands : RunCommand(to)) \/ (\E to \in NavTargets : FollowNav(to))
  BY <1>4 DEF Back, RunCommand, FollowNav, Navigated, FeedFollows
<1>5. CASE Redirect \/ TableRenders \/ RowsRender \/ TogglePalette \/ OpenNav \/ Stores \/ UNCHANGED vars
  BY <1>5 DEF Redirect, TableRenders, RowsRender, TogglePalette, OpenNav, Stores, vars
<1>6. CASE Live
  BY <1>6 DEF Live
<1> QED BY <1>1, <1>2, <1>3, <1>4, <1>5, <1>6 DEF Next

\* Each step keeps the interval with the page's visibility.
LEMMA FeedKept ==
  ASSUME FeedInv, [Next]_vars
  PROVE  FeedInv'
<1>0. MaxTicks \in Nat /\ MaxHides \in Nat
  BY FeedAssumption
<1>1. CASE UNCHANGED feed
  BY <1>1 DEF feed, FeedInv, FeedIsTrue, IntervalFollowsVisibility, BadgeIsTrue
<1>2. ASSUME NEW l, listeners = {} \/ Running, Subscribe(ListenersAt(l))
      PROVE  FeedInv'
  <2>1. ListenersAt(l) # {} /\ ListenersAt(l) \subseteq {"badge", Home, Tasks}
    BY DEF ListenersAt
  <2>2. UNCHANGED <<loaded, connection, hidden, ticks, hides>> /\ listeners' = ListenersAt(l)
    BY <1>2 DEF Subscribe
  <2>3. CASE listeners = {}
    <3>1. ~loaded
      BY <2>3 DEF FeedInv
    <3>2. ~interval /\ ~snapshot
      BY <2>3 DEF FeedInv, FeedIsTrue, IntervalFollowsVisibility
    <3>3. interval' = FALSE /\ snapshot' = TRUE
      BY <1>2, <2>1, <2>3, <3>1, <3>2 DEF Subscribe, FeedInv
    <3> QED BY <2>1, <2>2, <3>1, <3>3 DEF FeedInv, FeedIsTrue, IntervalFollowsVisibility, BadgeIsTrue
  <2>4. CASE listeners # {}
    <3>1. interval' = interval /\ snapshot' = snapshot
      BY <1>2, <2>1, <2>4 DEF Subscribe, FeedInv
    <3> QED BY <2>1, <2>2, <2>4, <3>1 DEF FeedInv, FeedIsTrue, IntervalFollowsVisibility, BadgeIsTrue
  <2> QED BY <2>3, <2>4
<1>3. CASE ~loaded /\ Subscribe({})
  BY <1>3 DEF Subscribe, FeedInv, FeedIsTrue, IntervalFollowsVisibility, BadgeIsTrue
<1>4. ASSUME Move
      PROVE  ticks' \in 0..MaxTicks
  BY <1>0, <1>4 DEF Move, FeedInv
<1>5. CASE Tick
  BY <1>4, <1>5 DEF Tick, FeedInv, FeedIsTrue, IntervalFollowsVisibility, BadgeIsTrue
<1>6. CASE SnapshotArrives
  BY <1>6 DEF SnapshotArrives, FeedInv, FeedIsTrue, IntervalFollowsVisibility, BadgeIsTrue
<1>7. CASE Hide
  <2>1. hides' \in 0..MaxHides
    BY <1>0, <1>7 DEF Hide, FeedInv
  <2> QED BY <1>7, <2>1 DEF Hide, FeedInv, FeedIsTrue, IntervalFollowsVisibility, BadgeIsTrue
<1>8. CASE Show
  <2>1. ticks' \in 0..MaxTicks
    BY <1>4, <1>8 DEF Show, FeedInv
  <2> QED BY <1>8, <2>1 DEF Show, FeedInv, FeedIsTrue, IntervalFollowsVisibility, BadgeIsTrue
<1>9. CASE ReloadConsole
  <2>1. /\ listeners' = {} /\ interval' = FALSE /\ snapshot' = FALSE
        /\ loaded' = FALSE /\ connection' = "live" /\ UNCHANGED <<hidden, ticks, hides>>
    BY <1>9 DEF ReloadConsole
  <2> QED BY <2>1 DEF FeedInv, FeedIsTrue, IntervalFollowsVisibility, BadgeIsTrue
<1> QED BY <1>1, <1>2, <1>3, <1>5, <1>6, <1>7, <1>8, <1>9, FeedKinds DEF FeedStep

\* The console starts silent.
LEMMA InitFeedInv == Init => FeedInv
<1> SUFFICES ASSUME Init
             PROVE  FeedInv
  OBVIOUS
<1>1. InitFeed
  BY DEF Init
<1> QED BY <1>1 DEF InitFeed, FeedInv, FeedIsTrue, IntervalFollowsVisibility, BadgeIsTrue

(* The numbers move exactly while somebody looks, and the badge of the top bar
   says paused exactly while the page is hidden (mock.ts:388-397, 447-483). *)
THEOREM FeedCorrect == Spec => []FeedIsTrue
<1>1. FeedInv => FeedIsTrue
  BY DEF FeedInv
<1>2. FeedInv /\ [Next]_vars => FeedInv'
  BY FeedKept
<1> QED BY <1>1, <1>2, InitFeedInv, PTL DEF Spec

-----------------------------------------------------------------------------
(* The readings and the concerns.                                            *)

(* Readings are numbers, and an amber one of a tick has a number over its limit. *)
FleetInv ==
  \A s \in Servers :
    /\ \A m \in Metrics : fleet[s][m] \in Nat
    /\ s \in Online /\ fleet[s] # FirstReading[s] /\ fleet[s].status = "warn" =>
         \E m \in Metrics : fleet[s][m] > Limit[m]

\* The metrics and their limits.
LEMMA LimitsAre ==
  Metrics = {"cpu", "mem", "disk"} /\ Limit["cpu"] = 90 /\ Limit["mem"] = 92 /\ Limit["disk"] = 85
BY DEF Metrics, Limit

\* A ratio is a number, and beyond that of the limit when the value is.
LEMMA Ratios ==
  ASSUME NEW r, NEW m \in Metrics, r[m] \in Nat
  PROVE  Ratio(r, m) \in Nat /\ (Ratio(r, m) >= AtLimit <=> r[m] >= Limit[m])
<1>1. /\ (90 * 92 * 85) \div 90 = 7820 /\ (90 * 92 * 85) \div 92 = 7650
      /\ (90 * 92 * 85) \div 85 = 8280 /\ 90 * 92 * 85 = 703800
  OBVIOUS
<1>2. /\ m = "cpu" => Ratio(r, m) = r[m] * 7820
      /\ m = "mem" => Ratio(r, m) = r[m] * 7650
      /\ m = "disk" => Ratio(r, m) = r[m] * 8280
  BY <1>1, LimitsAre DEF Ratio
<1> DEFINE x == r[m]
<1>3. x \in Nat
  OBVIOUS
<1> HIDE DEF x
<1>4. /\ x * 7820 \in Nat /\ x * 7650 \in Nat /\ x * 8280 \in Nat
      /\ x * 7820 >= 703800 <=> x >= 90
      /\ x * 7650 >= 703800 <=> x >= 92
      /\ x * 8280 >= 703800 <=> x >= 85
  BY <1>3
<1> QED BY <1>1, <1>2, <1>4, LimitsAre DEF x, AtLimit

\* The tightest metric is one, and none is tighter.
LEMMA Tightest ==
  ASSUME NEW r, \A m \in Metrics : r[m] \in Nat
  PROVE  /\ tightestMetric(r) \in Metrics
         /\ \A n \in Metrics : Ratio(r, n) <= Ratio(r, tightestMetric(r))
<1>1. \A m \in Metrics : Ratio(r, m) \in Nat
  BY Ratios
<1>2. \E m \in Metrics : \A n \in Metrics : Ratio(r, n) <= Ratio(r, m)
  <2> DEFINE c == Ratio(r, "cpu")
             d == Ratio(r, "disk")
             e == Ratio(r, "mem")
  <2>1. c \in Nat /\ d \in Nat /\ e \in Nat
    BY <1>1, LimitsAre
  <2> HIDE DEF c, d, e
  <2>2. \/ c <= c /\ d <= c /\ e <= c
        \/ c <= d /\ d <= d /\ e <= d
        \/ c <= e /\ d <= e /\ e <= e
    BY <2>1
  <2> QED BY <2>2, LimitsAre DEF c, d, e
<1> QED BY <1>2 DEF tightestMetric

\* What is over any of the limits is over its tightest.
LEMMA OverAny ==
  ASSUME NEW r, \A m \in Metrics : r[m] \in Nat, NEW n \in Metrics, r[n] >= Limit[n]
  PROVE  Over(r)
<1> DEFINE m == tightestMetric(r)
<1>1. m \in Metrics /\ Ratio(r, n) <= Ratio(r, m)
  BY Tightest
<1> HIDE DEF m
<1>2. Ratio(r, n) >= AtLimit /\ Ratio(r, n) \in Nat /\ Ratio(r, m) \in Nat
  BY <1>1, Ratios
<1>3. AtLimit \in Nat
  BY DEF AtLimit
<1>4. Ratio(r, m) >= AtLimit
  BY <1>1, <1>2, <1>3
<1>5. r[m] >= Limit[m]
  BY <1>1, <1>4, Ratios
<1> QED BY <1>5 DEF Over, m

\* The readings stand, move or start again.
LEMMA FleetKinds ==
  ASSUME [Next]_vars
  PROVE  fleet' = fleet \/ Move \/ fleet' = FirstReading
BY FeedKinds DEF feed, Subscribe, FeedStep, Tick, SnapshotArrives, Hide, Show, ReloadConsole

\* Each step keeps them.
LEMMA FleetKept ==
  ASSUME FleetInv, [Next]_vars
  PROVE  FleetInv'
<1>1. CASE fleet' = fleet
  BY <1>1 DEF FleetInv
<1>2. CASE fleet' = FirstReading
  BY <1>2, FeedAssumption, LimitsAre DEF FleetInv
<1>3. ASSUME NEW r \in [Online -> Readings],
             fleet' = [s \in Servers |->
                         IF s \in OfflineServers THEN fleet[s]
                         ELSE [cpu |-> r[s].cpu, mem |-> r[s].mem, disk |-> r[s].disk,
                               status |-> StatusOf(r[s])]]
      PROVE  FleetInv'
  <2> SUFFICES ASSUME NEW s \in Servers
               PROVE  /\ \A m \in Metrics : fleet'[s][m] \in Nat
                      /\ s \in Online /\ fleet'[s] # FirstReading[s] /\ fleet'[s].status = "warn" =>
                           \E m \in Metrics : fleet'[s][m] > Limit[m]
    BY DEF FleetInv
  <2>1. CASE s \in OfflineServers
    BY <1>3, <2>1 DEF FleetInv, Online
  <2>2. CASE s \notin OfflineServers
    <3>1. r[s] \in Readings
      BY <2>2 DEF Online
    <3>2. fleet'[s] = [cpu |-> r[s].cpu, mem |-> r[s].mem, disk |-> r[s].disk,
                       status |-> StatusOf(r[s])]
      BY <1>3, <2>2
    <3>3. r[s].cpu \in Nat /\ r[s].mem \in Nat /\ r[s].disk \in Nat
      BY <3>1, FeedAssumption
    <3>4. fleet'[s].status = "warn" => r[s].disk > 85 \/ r[s].cpu > 90 \/ r[s].mem > 92
      BY <3>2 DEF StatusOf
    <3> QED BY <3>2, <3>3, <3>4, LimitsAre
  <2> QED BY <2>1, <2>2
<1> QED BY <1>1, <1>2, <1>3, FleetKinds DEF Move

\* The first readings are of the same kind.
LEMMA InitFleet == Init => FleetInv
BY FeedAssumption, LimitsAre DEF Init, InitFeed, FleetInv

\* What is amber after a tick is a concern.
LEMMA AmberShown == FleetInv => AmberIsAConcern
<1> SUFFICES ASSUME FleetInv, NEW s \in Online, fleet[s] # FirstReading[s], fleet[s].status = "warn"
             PROVE  "concern" \in IssueKinds(s, fleet)
  BY DEF AmberIsAConcern
<1>1. s \in Servers /\ s \notin OfflineServers
  BY DEF Online
<1>2. PICK m \in Metrics : fleet[s][m] > Limit[m]
  BY <1>1 DEF FleetInv
<1>3. \A n \in Metrics : fleet[s][n] \in Nat
  BY <1>1 DEF FleetInv
<1>4. fleet[s][m] >= Limit[m]
  BY <1>2, <1>3, LimitsAre
<1> DEFINE r == fleet[s]
<1>5. Over(r)
  <2>1. (\A n \in Metrics : r[n] \in Nat) /\ r[m] >= Limit[m]
    BY <1>3, <1>4
  <2> HIDE DEF r
  <2> QED BY <2>1, OverAny
<1> QED BY <1>1, <1>5 DEF IssueKinds

-----------------------------------------------------------------------------
(* The rows of the table.                                                    *)

\* A non-empty collection of subsets of a finite set has a minimal one.
LEMMA MinimalSubset ==
  ASSUME NEW S, IsFiniteSet(S), NEW C \in SUBSET SUBSET S, C # {}
  PROVE  \E T \in C : \A U \in C : U \subseteq T => U = T
<1>1. IsWellFoundedOn(StrictSubsetOrdering(S), SUBSET S)
  BY FS_StrictSubsetOrderingWellFounded, FS_FiniteSubsetsOfFinite
<1>2. PICK T \in C : \A U \in C : ~ (<<U, T>> \in StrictSubsetOrdering(S))
  BY <1>1, WFMin
<1>3. \A U \in C : U \subseteq T => U = T
  BY <1>2 DEF StrictSubsetOrdering
<1> QED BY <1>3

\* Of finitely many rows one comes after all others.
LEMMA LastRow ==
  ASSUME NEW S, IsFiniteSet(S), S # {}, NEW R,
         \A a, b \in S : a # b => <<a, b>> \in R \/ <<b, a>> \in R,
         \A a, b, c \in S : <<a, b>> \in R /\ <<b, c>> \in R => <<a, c>> \in R
  PROVE  \E x \in S : \A y \in S \ {x} : <<y, x>> \in R
<1> DEFINE B(x) == {y \in S : y = x \/ <<x, y>> \in R}
           C == {B(x) : x \in S}
<1>0. \A x \in S : B(x) \in C /\ B(x) \in SUBSET S
  OBVIOUS
<1>1. C \in SUBSET SUBSET S /\ C # {}
  BY <1>0
<1>2. PICK T \in C : \A U \in C : U \subseteq T => U = T
  <2> HIDE DEF C
  <2> QED BY <1>1, MinimalSubset
<1>3. PICK x \in S : T = B(x)
  OBVIOUS
<1>4. ASSUME NEW y \in S \ {x}, <<y, x>> \notin R
      PROVE  FALSE
  <2>1. <<x, y>> \in R
    BY <1>4
  <2>2. B(y) \subseteq B(x)
    BY <2>1
  <2>3. B(y) = B(x)
    <3>1. B(y) \in C
      BY <1>0, <1>4
    <3> QED BY <1>2, <1>3, <2>2, <3>1
  <2>4. x \in B(y)
    BY <2>3
  <2> QED BY <1>4, <2>4
<1> QED BY <1>4

\* The sequence s of the set S follows R.
Follows(ranked, S, R) ==
  /\ ranked \in [1..Cardinality(S) -> S]
  /\ \A i, j \in 1..Cardinality(S) : i < j => <<ranked[i], ranked[j]>> \in R

\* Finitely many rows can be put into a total order.
LEMMA RowsExist ==
  ASSUME NEW S, IsFiniteSet(S), NEW R,
         \A a, b \in S : a # b => <<a, b>> \in R \/ <<b, a>> \in R,
         \A a, b, c \in S : <<a, b>> \in R /\ <<b, c>> \in R => <<a, c>> \in R
  PROVE  \E ranked : Follows(ranked, S, R)
<1> DEFINE C == {T \in SUBSET S : ~ \E ranked : Follows(ranked, T, R)}
<1> SUFFICES ASSUME C # {} PROVE FALSE
  OBVIOUS
<1>1. C \in SUBSET SUBSET S
  OBVIOUS
<1>2. PICK T \in C : \A U \in C : U \subseteq T => U = T
  <2> HIDE DEF C
  <2> QED BY <1>1, MinimalSubset
<1>3. T \in SUBSET S /\ ~ \E ranked : Follows(ranked, T, R)
  OBVIOUS
<1>4. \A U \in SUBSET T : U # T => \E ranked : Follows(ranked, U, R)
  BY <1>2, <1>3
<1>5. IsFiniteSet(T)
  BY <1>3, FS_Subset
<1> HIDE DEF C
<1>6. CASE T = {}
  <2>1. Cardinality(T) = 0
    BY <1>6, FS_EmptySet
  <2>2. [i \in 1..0 |-> 0] \in [1..0 -> T] /\ 1..0 = {}
    OBVIOUS
  <2>3. Follows([i \in 1..0 |-> 0], T, R)
    BY <2>1, <2>2 DEF Follows
  <2> QED BY <1>3, <2>3
<1>7. CASE T # {}
  <2>1. PICK x \in T : \A y \in T \ {x} : <<y, x>> \in R
    <3>1. /\ \A a, b \in T : a # b => <<a, b>> \in R \/ <<b, a>> \in R
          /\ \A a, b, c \in T : <<a, b>> \in R /\ <<b, c>> \in R => <<a, c>> \in R
      BY <1>3
    <3> QED BY <1>5, <1>7, <3>1, LastRow
  <2> DEFINE U == T \ {x}
             n == Cardinality(U)
  <2>2. PICK ranked : Follows(ranked, U, R)
    BY <1>4
  <2>3. IsFiniteSet(U) /\ n \in Nat /\ Cardinality(T) = n + 1
    <3>1. IsFiniteSet(U)
      BY <1>5, FS_Subset
    <3>2. Cardinality(U) \in Nat /\ Cardinality(U \cup {x}) = Cardinality(U) + 1
      BY <3>1, FS_CardinalityType, FS_AddElement
    <3>3. U \cup {x} = T
      OBVIOUS
    <3> QED BY <3>1, <3>2, <3>3
  <2> DEFINE more == [i \in 1..(n + 1) |-> IF i = n + 1 THEN x ELSE ranked[i]]
  <2>4. /\ ranked \in [1..n -> U]
        /\ \A i, j \in 1..n : i < j => <<ranked[i], ranked[j]>> \in R
    BY <2>2 DEF Follows
  <2> HIDE DEF n
  <2>5. \A i \in 1..(n + 1) : i # n + 1 => i \in 1..n
    BY <2>3
  <2>6. more \in [1..(n + 1) -> T]
    BY <2>4, <2>5
  <2>7. ASSUME NEW i \in 1..(n + 1), NEW j \in 1..(n + 1), i < j
        PROVE  <<more[i], more[j]>> \in R
    <3>1. i \in 1..n /\ i # n + 1 /\ more[i] = ranked[i]
      BY <2>3, <2>5, <2>7
    <3>2. CASE j = n + 1
      <4>1. ranked[i] \in T \ {x}
        BY <2>4, <3>1
      <4> QED BY <2>1, <3>1, <3>2, <4>1
    <3>3. CASE j # n + 1
      BY <2>4, <2>5, <2>7, <3>1, <3>3
    <3> QED BY <3>2, <3>3
  <2>8. Follows(more, T, R)
    <3> HIDE DEF more
    <3> QED BY <2>3, <2>6, <2>7 DEF Follows
  <2> QED BY <1>3, <2>8
<1> QED BY <1>6, <1>7

\* What rows are sorted by are numbers.
LEMMA Sortable ==
  ASSUME NEW l, NEW f, NEW s \in Servers, \A m \in Metrics : f[s][m] \in Nat
  PROVE  SortValue(s, SortKey(l), f) \in Int
<1> DEFINE key == SortKey(l)
<1>1. key \in {"agent", "uptime", "lastSeen", "concern", "name"}
  BY DEF SortKey, pickParam
<1> HIDE DEF key
<1>2. CASE key = "concern"
  <2> DEFINE r == f[s]
  <2>1. \A m \in Metrics : r[m] \in Nat
    OBVIOUS
  <2>2. SortValue(s, key, f) = IF Near(r) THEN Ratio(r, tightestMetric(r)) ELSE 0 - 1
    BY <1>2 DEF SortValue
  <2> HIDE DEF r
  <2>3. Ratio(r, tightestMetric(r)) \in Nat
    BY <2>1, Tightest, Ratios
  <2> QED BY <2>2, <2>3 DEF key
<1>3. CASE key # "concern"
  <2>1. Known[s][key] \in Nat
    BY <1>1, <1>3, OverviewAssumption
  <2> QED BY <1>3, <2>1 DEF SortValue, key
<1> QED BY <1>2, <1>3

\* The table is all of its servers, once each, and in order.
LEMMA SortedRows ==
  ASSUME NEW S \in SUBSET Servers, NEW l, NEW f,
         \A s \in Servers : \A m \in Metrics : f[s][m] \in Nat
  PROVE  LET ranked == Sorted(S, l, f)
         IN  /\ Cardinality(S) \in Nat /\ ranked \in [1..Cardinality(S) -> S]
             /\ \A i, j \in 1..Cardinality(S) : i < j => Above(ranked[i], ranked[j], l, f)
<1> DEFINE R == {p \in S \X S : Above(p[1], p[2], l, f)}
           n == Cardinality(S)
<1>1. IsFiniteSet(S) /\ n \in Nat
  BY InventoryAssumption, FS_Subset, FS_CardinalityType
<1>2. \A a, b \in S : <<a, b>> \in R <=> Above(a, b, l, f)
  OBVIOUS
<1> DEFINE value(s) == SortValue(s, SortKey(l), f)
           place(s) == Known[s].place
           asc == SortDir(l) = "asc"
<1>3. \A s \in S : value(s) \in Int /\ place(s) \in Nat
  BY Sortable, OverviewAssumption
<1>4. \A a, b \in S : a # b => place(a) # place(b)
  BY OverviewAssumption
<1>5. ASSUME NEW a \in S, NEW b \in S
      PROVE  Above(a, b, l, f) <=>
               \/ a \notin OfflineServers /\ b \in OfflineServers
               \/ /\ a \in OfflineServers <=> b \in OfflineServers
                  /\ \/ asc /\ value(a) < value(b)
                     \/ ~asc /\ value(a) > value(b)
                     \/ value(a) = value(b) /\ place(a) < place(b)
  BY DEF Above
<1> HIDE DEF value, place, asc, R, n
<1>6. ASSUME NEW a \in S, NEW b \in S, a # b
      PROVE  <<a, b>> \in R \/ <<b, a>> \in R
  <2>1. value(a) \in Int /\ value(b) \in Int /\ place(a) \in Nat /\ place(b) \in Nat /\ place(a) # place(b)
    BY <1>3, <1>4, <1>6
  <2>2. Above(a, b, l, f) \/ Above(b, a, l, f)
    BY <1>5, <2>1
  <2> QED BY <1>2, <2>2
<1>7. ASSUME NEW a \in S, NEW b \in S, NEW c \in S, <<a, b>> \in R, <<b, c>> \in R
      PROVE  <<a, c>> \in R
  <2>1. /\ value(a) \in Int /\ value(b) \in Int /\ value(c) \in Int
        /\ place(a) \in Nat /\ place(b) \in Nat /\ place(c) \in Nat
    BY <1>3
  <2>2. Above(a, b, l, f) /\ Above(b, c, l, f)
    BY <1>2, <1>7
  <2>3. Above(a, c, l, f)
    BY <1>5, <2>1, <2>2
  <2> QED BY <1>2, <2>3
<1>8. PICK ranked : Follows(ranked, S, R)
  BY <1>1, <1>6, <1>7, RowsExist
<1>9. ranked \in [1..n -> S] /\ \A i, j \in 1..n : i < j => Above(ranked[i], ranked[j], l, f)
  BY <1>2, <1>8 DEF Follows, n
<1>10. \E x \in [1..n -> S] : \A i, j \in DOMAIN x : i < j => Above(x[i], x[j], l, f)
  BY <1>9
<1> DEFINE Ordered(x) == \A i, j \in DOMAIN x : i < j => Above(x[i], x[j], l, f)
<1>11. Sorted(S, l, f) \in [1..n -> S] /\ Ordered(Sorted(S, l, f))
  BY <1>10 DEF Sorted, n
<1> QED BY <1>1, <1>11 DEF n

(* The rows are servers, none of them offline above one that is not. *)
Sinks(ranked) ==
  /\ ranked \in Seq(Servers)
  /\ \A i, j \in DOMAIN ranked : i < j /\ ranked[i] \in OfflineServers => ranked[j] \in OfflineServers

RowsInv == Sinks(order)

\* Sorted rows are such rows.
LEMMA SortedSinks ==
  ASSUME NEW S \in SUBSET Servers, NEW l, NEW f,
         \A s \in Servers : \A m \in Metrics : f[s][m] \in Nat
  PROVE  Sinks(Sorted(S, l, f))
<1> DEFINE n == Cardinality(S)
           ranked == Sorted(S, l, f)
<1>1. n \in Nat /\ ranked \in [1..n -> S] /\ \A i, j \in 1..n : i < j => Above(ranked[i], ranked[j], l, f)
  BY SortedRows
<1> HIDE DEF n, ranked
<1>2. \A a, b : Above(a, b, l, f) /\ a \in OfflineServers => b \in OfflineServers
  BY DEF Above
<1>3. ranked \in Seq(Servers) /\ DOMAIN ranked = 1..n
  BY <1>1
<1>4. Sinks(ranked)
  BY <1>1, <1>2, <1>3 DEF Sinks
<1> QED BY <1>4 DEF ranked

\* Each render and each other step keeps them.
LEMMA RowsKept ==
  ASSUME FleetInv, RowsInv, [Next]_vars
  PROVE  RowsInv'
<1>1. ASSUME order' = order \/ order' = <<>>
      PROVE  RowsInv'
  <2>1. CASE order' = order
    BY <2>1 DEF RowsInv, Sinks
  <2>2. CASE order' = <<>>
    <3>1. order' \in Seq(Servers) /\ DOMAIN order' = {}
      BY <2>2
    <3> QED BY <3>1 DEF RowsInv, Sinks
  <2> QED BY <1>1, <2>1, <2>2
<1>2. ASSUME NEW l, NEW q
      PROVE  Matches(l, q, fleet) \in SUBSET Servers /\ Matches(l, q, FirstReading) \in SUBSET Servers
  BY DEF Matches
<1>3. ToSet(order) \in SUBSET Servers
  BY DEF RowsInv, Sinks, ToSet
<1>4. CASE Render
  <2> DEFINE q == deferred'
             l == loc'
             all == Matches(l, q, fleet)
             some == ToSet(order)
  <2>1. \/ order' = <<>> \/ order' = order
        \/ order' = Sorted(all, l, fleet)
        \/ order' = Sorted(some, l, fleet)
    BY <1>4 DEF Render
  <2>2. all \in SUBSET Servers
    BY <1>2
  <2> HIDE DEF all, l
  <2>3. \A s \in Servers : \A m \in Metrics : fleet[s][m] \in Nat
    BY DEF FleetInv
  <2> QED BY <1>1, <1>3, <2>1, <2>2, <2>3, SortedSinks DEF RowsInv, Sinks
<1>5. CASE InDialog
  <2>1. order' = order
    BY <1>5 DEF InDialog, OpenDialog, AddTag, RemoveTag, SaveTags, CloseDialog
  <2> QED BY <1>1, <2>1
<1>6. CASE ReloadConsole
  <2> DEFINE q == deferred'
             all == Matches(loc, q, FirstReading)
  <2>1. order' = <<>> \/ order' = Sorted(all, loc, FirstReading)
    BY <1>6 DEF ReloadConsole
  <2>2. all \in SUBSET Servers
    BY <1>2
  <2> HIDE DEF all
  <2>3. \A s \in Servers : \A m \in Metrics : FirstReading[s][m] \in Nat
    BY FeedAssumption, LimitsAre
  <2> QED BY <1>1, <2>1, <2>2, <2>3, SortedSinks DEF RowsInv, Sinks
<1>7. CASE UNCHANGED overview
  BY <1>1, <1>7 DEF overview
<1> QED BY <1>4, <1>5, <1>6, <1>7, OverviewKinds DEF OverviewFollows, CatchUp

\* The first rows are such rows too.
LEMMA InitRows == Init => RowsInv
<1> SUFFICES ASSUME Init
             PROVE  RowsInv
  OBVIOUS
<1> DEFINE all == Matches(loc, deferred, fleet)
<1>1. order = <<>> \/ order = Sorted(all, loc, fleet)
  BY DEF Init, InitOverview
<1>2. all \in SUBSET Servers
  BY DEF Matches
<1>3. \A s \in Servers : \A m \in Metrics : fleet[s][m] \in Nat
  BY InitFleet DEF FleetInv
<1> HIDE DEF all
<1>4. CASE order = <<>>
  <2>1. order \in Seq(Servers) /\ DOMAIN order = {}
    BY <1>4
  <2> QED BY <2>1 DEF RowsInv, Sinks
<1>5. CASE order = Sorted(all, loc, fleet)
  <2>1. Sinks(Sorted(all, loc, fleet))
    BY <1>2, <1>3, SortedSinks
  <2> QED BY <1>5, <2>1 DEF RowsInv
<1> QED BY <1>1, <1>4, <1>5

(* What is wrong comes before what is off, whatever column is sorted and however
   old the memoised rows are, and an amber server is among the concerns
   (overview.tsx:378-410; mock.ts:434-438 against overview.tsx:74-89). *)
THEOREM ConcernsShown == Spec => []ConcernsAreShown
<1>1. FleetInv /\ RowsInv => ConcernsAreShown
  BY AmberShown DEF ConcernsAreShown, RowsInv, Sinks, OfflineSinks
<1>2. FleetInv /\ RowsInv /\ [Next]_vars => FleetInv' /\ RowsInv'
  BY FleetKept, RowsKept
<1> QED BY <1>1, <1>2, InitFleet, InitRows, PTL DEF Spec

-----------------------------------------------------------------------------
(* The drill-down.                                                           *)

\* An address with only an issue matches the servers that have it.
LEMMA OnlyTheIssue ==
  ASSUME NEW l, NEW f, NEW issue \in {"any", "fault", "agent"},
         Issue(l) = issue, Filter(l) = "all", TagOf(l) = ""
  PROVE  Matches(l, "", f) = {s \in Servers : HasIssue(s, issue, f)}
BY DEF Matches

\* The three counts are of those servers.
LEMMA CountsAre ==
  /\ Cardinality({s \in Servers : HasIssue(s, "any", fleet)}) = Cardinality(Concerns)
  /\ Cardinality({s \in Servers : HasIssue(s, "agent", fleet)}) = Cardinality({s \in Servers : Behind(s)})
  /\ Cardinality({s \in Servers : HasIssue(s, "fault", fleet)}) = FaultCount
<1>1. {s \in Servers : HasIssue(s, "any", fleet)} = Concerns
  BY DEF HasIssue, Concerns
<1>2. {s \in Servers : HasIssue(s, "agent", fleet)} = {s \in Servers : Behind(s)}
  <2>1. \A s \in Servers : HasIssue(s, "agent", fleet) <=> Behind(s)
    BY DEF HasIssue, IssueKinds, Behind, Online
  <2> QED BY <2>1
<1> DEFINE upkeep == {s \in Concerns : IssueKinds(s, fleet) = {"agent"}}
           faults_ == {s \in Servers : HasIssue(s, "fault", fleet)}
<1>3. faults_ = Concerns \ upkeep /\ upkeep \subseteq Concerns
  BY DEF HasIssue, Concerns
<1>4. IsFiniteSet(Concerns)
  BY InventoryAssumption, FS_Subset DEF Concerns
<1> HIDE DEF upkeep, faults_
<1>5. Cardinality(Concerns) \in Nat /\ Cardinality(upkeep) \in Nat
      /\ Cardinality(Concerns \ upkeep) = Cardinality(Concerns) - Cardinality(Concerns \cap upkeep)
  BY <1>3, <1>4, FS_Subset, FS_CardinalityType, FS_Difference
<1>6. Concerns \cap upkeep = upkeep
  BY <1>3
<1>7. Cardinality(faults_) = FaultCount
  BY <1>3, <1>5, <1>6 DEF FaultCount, UpkeepCount, upkeep
<1> QED BY <1>1, <1>2, <1>7 DEF faults_

\* A step to a drill-down shows what it matches.
LEMMA DrillSteps ==
  ASSUME FleetInv, [Next]_vars, NEW issue \in {"any", "fault", "agent"}, DrilledDown(issue)
  PROVE  Len(order') = Cardinality({s \in Servers : HasIssue(s, issue, fleet)})
<1>1. loc'.path = Home /\ Issue(loc) # issue /\ Issue(loc') = issue
      /\ deferred' = "" /\ Filter(loc') = "all" /\ TagOf(loc') = ""
  BY DEF DrilledDown
<1>2. loc' # loc
  BY <1>1
<1>3. OverviewFollows
  BY <1>2, OverviewKinds
     DEF CatchUp, url, InDialog, OpenDialog, AddTag, RemoveTag, SaveTags, CloseDialog, ReloadConsole
<1> DEFINE l == loc'
           all == {s \in Servers : HasIssue(s, issue, fleet)}
<1>4. order' = Sorted(Matches(l, "", fleet), l, fleet)
  BY <1>1, <1>3 DEF OverviewFollows, Render, FilterDeps
<1>5. Matches(l, "", fleet) = all
  BY <1>1, OnlyTheIssue
<1>6. all \in SUBSET Servers /\ \A s \in Servers : \A m \in Metrics : fleet[s][m] \in Nat
  BY DEF FleetInv
<1> HIDE DEF l, all
<1>7. Cardinality(all) \in Nat /\ order' \in [1..Cardinality(all) -> all]
  BY <1>4, <1>5, <1>6, SortedRows
<1>8. Len(order') = Cardinality(all)
  BY <1>7
<1> QED BY <1>8 DEF all

(* A number leads to that many rows: the badge of the faults, the card of the
   agents behind and the link to all concerns show as many servers as they say
   (overview.tsx:248-250, 344-358). *)
THEOREM DrillDownCorrect == Spec => DrillDownIsTheCount
<1> DEFINE Leads ==
      /\ DrilledDown("fault") => Len(order') = FaultCount
      /\ DrilledDown("agent") => Len(order') = Cardinality({s \in Servers : Behind(s)})
      /\ DrilledDown("any") => Len(order') = Cardinality(Concerns)
<1>1. ASSUME FleetInv, [Next]_vars
      PROVE  Leads
  BY <1>1, DrillSteps, CountsAre
<1>2. FleetInv /\ [Next]_vars => [Leads]_<<url, overview, fleet>>
  BY <1>1
<1>3. FleetInv /\ [Next]_vars => FleetInv'
  BY FleetKept
<1> QED BY <1>2, <1>3, InitFleet, PTL DEF Spec, DrillDownIsTheCount

-----------------------------------------------------------------------------
(* The acts, and what each writes to the store.                              *)

(* The settings of tab t get x under k, and nothing else. *)
Wrote(t, k, x) ==
  /\ k \in Keys /\ Fits(k, x)
  /\ StoreInv' /\ settings'[t] \in SettingsType
  /\ stored' = stored /\ faults' = faults /\ saves' = saves + 1
  /\ \A j \in Keys : settings'[t][j] = IF j = k THEN x ELSE settings[t][j]
  /\ \A u \in Tabs \ {t} : settings'[u] = settings[u]

\* A patch of one key writes that key.
LEMMA OneKey ==
  ASSUME StoreInv, NEW t \in Tabs, IsOpen(t), NEW k \in Keys, NEW x, Fits(k, x),
         NEW patch, DOMAIN patch = {k}, patch[k] = x, SaveIn(t, patch)
  PROVE  Wrote(t, k, x)
<1>1. settings[t] \in SettingsType
  BY OpenIsTyped
<1>2. \A j \in DOMAIN patch : j \in Keys /\ Fits(j, patch[j])
  OBVIOUS
<1>3. /\ StoreInv' /\ settings'[t] = Spread(settings[t], patch) /\ faults' = faults
      /\ saves' = saves + 1 /\ \A u \in Tabs \ {t} : settings'[u] = settings[u]
  BY <1>2, SaveSteps
<1>4. /\ Spread(settings[t], patch) \in SettingsType
      /\ \A j \in Keys : Spread(settings[t], patch)[j] = IF j = k THEN x ELSE settings[t][j]
  BY <1>1, <1>2, SpreadFits
<1>5. stored' = stored
  BY DEF SaveIn
<1> QED BY <1>3, <1>4, <1>5 DEF Wrote

\* The steps by what they do to the store.
LEMMA StoreKinds ==
  ASSUME [Next]_vars
  PROVE  \/ UNCHANGED store
         \/ StoreStep \/ ReloadConsole
         \/ \E s \in Servers : ToggleMaintenance(s)
         \/ SaveTags
         \/ CreateProbe \/ DeleteProbe
         \/ \E p \in Probes \cup NewProbes : SwitchProbe(p)
         \/ \E r \in Rules : SwitchRule(r)
<1>1. CASE OnOverview
  BY <1>1 DEF OnOverview, OverviewStep, setQuery, setFilter, setTag, setIssue, setSort, PickFilter,
              ClearFilters, CloseSheet, FollowLink, OpenSheet, OpenDialog, AddTag, RemoveTag, CloseDialog
<1>2. CASE OnProbes
  BY <1>2 DEF OnProbes, ProbesStep, SearchProbes, NewProbe, Fill, CancelProbe, AskDelete, KeepProbe
<1>3. CASE OnAlertsPage
  BY <1>3 DEF OnAlertsPage, AlertsStep, SetAlertParam
<1>4. CASE Back \/ (\E to \in Commands : RunCommand(to)) \/ (\E to \in NavTargets : FollowNav(to))
  BY <1>4 DEF Back, RunCommand, FollowNav, Navigated
<1>5. CASE Redirect \/ TableRenders \/ RowsRender \/ Boot \/ StrictUnmount \/ TogglePalette \/ OpenNav
           \/ Live \/ Stores \/ UNCHANGED vars
  BY <1>5 DEF Redirect, TableRenders, CatchUp, RowsRender, ListCatchesUp, Boot, StrictUnmount,
              TogglePalette, OpenNav, Live, Stores, vars
<1> QED BY <1>1, <1>2, <1>3, <1>4, <1>5 DEF Next

\* This tab's settings are typed.
LEMMA MineIsTyped ==
  ASSUME StoreInv
  PROVE  Mine \in SettingsType /\ IsOpen(Here) /\ Here \in Tabs
BY OpenIsTyped DEF StoreInv, StoreTypeOK, Mine, Tabs

\* The switch of a rule.
LEMMA RuleActs ==
  ASSUME StoreInv, NEW r \in Rules, SwitchRule(r)
  PROVE  \E on \in BOOLEAN : Wrote(Here, "ruleEnabled", [Mine.ruleEnabled EXCEPT ![r] = on])
<1> DEFINE on == ~ruleOn(r, RuleIsOn[r])
           x == [Mine.ruleEnabled EXCEPT ![r] = on]
           patch == [ruleEnabled |-> x]
<1>1. on \in BOOLEAN /\ SaveIn(Here, patch)
  BY DEF SwitchRule, setRuleEnabled, save
<1> HIDE DEF on
<1>2. Mine.ruleEnabled \in [Rules -> {Unset} \cup BOOLEAN]
  BY MineIsTyped DEF SettingsType
<1>3. Fits("ruleEnabled", x)
  BY <1>1, <1>2, FitsAre
<1>4. DOMAIN patch = {"ruleEnabled"} /\ patch["ruleEnabled"] = x /\ "ruleEnabled" \in Keys
  BY PatchOfOne
<1> HIDE DEF x, patch
<1>5. Wrote(Here, "ruleEnabled", x)
  BY <1>1, <1>3, <1>4, MineIsTyped, OneKey
<1> QED BY <1>1, <1>5 DEF x

\* The switch of a probe.
LEMMA ProbeActs ==
  ASSUME StoreInv, NEW p \in Probes \cup NewProbes, SwitchProbe(p)
  PROVE  \E on \in BOOLEAN : Wrote(Here, "probeEnabled", [Mine.probeEnabled EXCEPT ![p] = on])
<1> DEFINE on == ~probeOn(p, TRUE)
           x == [Mine.probeEnabled EXCEPT ![p] = on]
           patch == [probeEnabled |-> x]
<1>1. on \in BOOLEAN /\ SaveIn(Here, patch)
  BY DEF SwitchProbe, setProbeEnabled, save
<1> HIDE DEF on
<1>2. Mine.probeEnabled \in [Probes \cup NewProbes -> {Unset} \cup BOOLEAN]
  BY MineIsTyped DEF SettingsType
<1>3. Fits("probeEnabled", x)
  BY <1>1, <1>2, FitsAre
<1>4. DOMAIN patch = {"probeEnabled"} /\ patch["probeEnabled"] = x /\ "probeEnabled" \in Keys
  BY PatchOfOne
<1> HIDE DEF x, patch
<1>5. Wrote(Here, "probeEnabled", x)
  BY <1>1, <1>3, <1>4, MineIsTyped, OneKey
<1> QED BY <1>1, <1>5 DEF x

\* The removal of a probe: a mark for the data source's, the entry of a created one.
LEMMA DeleteActs ==
  ASSUME StoreInv, DeleteProbe, deleting \in Probes \cup NewProbes \cup {Nobody}
  PROVE  \/ deleting \in Probes /\ Wrote(Here, "probesRemoved", Mine.probesRemoved \cup {deleting})
         \/ deleting \in NewProbes \ Probes /\ Wrote(Here, "probesCreated", Mine.probesCreated \ {deleting})
<1>1. deleting # Nobody /\ deleting \in Probes \cup NewProbes
  BY DEF DeleteProbe
<1>2. Mine.probesRemoved \in SUBSET Probes /\ Mine.probesCreated \in SUBSET NewProbes
  BY MineIsTyped DEF SettingsType
<1>3. CASE deleting \in Probes
  <2> DEFINE x == Mine.probesRemoved \cup {deleting}
             patch == [probesRemoved |-> x]
  <2>1. SaveIn(Here, patch)
    BY <1>3 DEF DeleteProbe, removeProbe, save
  <2>2. Fits("probesRemoved", x)
    BY <1>2, <1>3, FitsAre
  <2>3. DOMAIN patch = {"probesRemoved"} /\ patch["probesRemoved"] = x /\ "probesRemoved" \in Keys
    BY PatchOfOne
  <2> HIDE DEF x, patch
  <2>4. Wrote(Here, "probesRemoved", x)
    BY <2>1, <2>2, <2>3, MineIsTyped, OneKey
  <2> QED BY <1>3, <2>4 DEF x
<1>4. CASE deleting \notin Probes
  <2> DEFINE x == Mine.probesCreated \ {deleting}
             patch == [probesCreated |-> x]
  <2>1. SaveIn(Here, patch)
    BY <1>4 DEF DeleteProbe, removeCreated, save
  <2>2. Fits("probesCreated", x)
    BY <1>2, FitsAre
  <2>3. DOMAIN patch = {"probesCreated"} /\ patch["probesCreated"] = x /\ "probesCreated" \in Keys
    BY PatchOfOne
  <2> HIDE DEF x, patch
  <2>4. Wrote(Here, "probesCreated", x)
    BY <2>1, <2>2, <2>3, MineIsTyped, OneKey
  <2> QED BY <1>1, <1>4, <2>4 DEF x
<1> QED BY <1>3, <1>4

\* A new probe.
LEMMA CreateActs ==
  ASSUME StoreInv, CreateProbe
  PROVE  \E p \in NewProbes \ deleted : Wrote(Here, "probesCreated", Mine.probesCreated \cup {p})
<1>1. PICK p \in NewProbes \ (Mine.probesCreated \cup deleted) : createProbe(p)
  BY DEF CreateProbe
<1> DEFINE x == Mine.probesCreated \cup {p}
           patch == [probesCreated |-> x]
<1>2. SaveIn(Here, patch)
  BY <1>1 DEF createProbe, save
<1>3. Mine.probesCreated \in SUBSET NewProbes
  BY MineIsTyped DEF SettingsType
<1>4. Fits("probesCreated", x)
  BY <1>1, <1>3, FitsAre
<1>5. DOMAIN patch = {"probesCreated"} /\ patch["probesCreated"] = x /\ "probesCreated" \in Keys
  BY PatchOfOne
<1> HIDE DEF x, patch
<1>6. Wrote(Here, "probesCreated", x)
  BY <1>2, <1>4, <1>5, MineIsTyped, OneKey
<1> QED BY <1>1, <1>6 DEF x

\* The entries of the servers are of their type.
LEMMA NodesAre ==
  ASSUME StoreInv, NEW s \in Servers
  PROVE  /\ Mine.nodes \in [Servers -> [tags : {Unset} \cup Seq(Tags), maintenance : BOOLEAN]]
         /\ Mine.nodes[s].tags \in {Unset} \cup Seq(Tags) /\ Mine.nodes[s].maintenance \in BOOLEAN
<1>1. Mine.nodes \in [Servers -> [tags : {Unset} \cup Seq(Tags), maintenance : BOOLEAN]]
  BY MineIsTyped DEF SettingsType
<1>2. Mine.nodes[s] \in [tags : {Unset} \cup Seq(Tags), maintenance : BOOLEAN]
  BY <1>1
<1> QED BY <1>1, <1>2

\* Tags and maintenance of one server are saved with those of all.
LEMMA NodeActs ==
  ASSUME StoreInv, NEW s \in Servers, NEW tags \in {Unset} \cup Seq(Tags), NEW on \in BOOLEAN,
         NEW x, x = [u \in Servers |-> IF u = s THEN [tags |-> tags, maintenance |-> on] ELSE Mine.nodes[u]],
         SaveIn(Here, [nodes |-> x])
  PROVE  Wrote(Here, "nodes", x)
<1> DEFINE patch == [nodes |-> x]
<1>1. x \in [Servers -> [tags : {Unset} \cup Seq(Tags), maintenance : BOOLEAN]]
  <2>1. \A u \in Servers : Mine.nodes[u] \in [tags : {Unset} \cup Seq(Tags), maintenance : BOOLEAN]
    BY NodesAre
  <2>2. [tags |-> tags, maintenance |-> on] \in [tags : {Unset} \cup Seq(Tags), maintenance : BOOLEAN]
    OBVIOUS
  <2> QED BY <2>1, <2>2
<1>2. Fits("nodes", x)
  BY <1>1, FitsAre
<1>3. DOMAIN patch = {"nodes"} /\ patch["nodes"] = x /\ "nodes" \in Keys
  BY PatchOfOne
<1>4. SaveIn(Here, patch)
  OBVIOUS
<1> HIDE DEF patch
<1> QED BY <1>2, <1>3, <1>4, MineIsTyped, OneKey

\* The maintenance switch keeps the tags.
LEMMA MaintenanceActs ==
  ASSUME StoreInv, NEW s \in Servers, ToggleMaintenance(s)
  PROVE  \E on \in BOOLEAN :
           Wrote(Here, "nodes",
                 [u \in Servers |-> IF u = s THEN [tags |-> Mine.nodes[s].tags, maintenance |-> on]
                                    ELSE Mine.nodes[u]])
<1> DEFINE on == ~nodeMaintenance(s)
           y == [Mine.nodes EXCEPT ![s].maintenance = on]
           x == [u \in Servers |-> IF u = s THEN [tags |-> Mine.nodes[s].tags, maintenance |-> on]
                                   ELSE Mine.nodes[u]]
<1>1. on \in BOOLEAN /\ SaveIn(Here, [nodes |-> y])
  BY DEF ToggleMaintenance, setMaintenance, save
<1> HIDE DEF on
<1>2. y = x
  BY NodesAre
<1>3. SaveIn(Here, [nodes |-> x])
  <2> HIDE DEF x, y
  <2> QED BY <1>1, <1>2
<1>4. Mine.nodes[s].tags \in {Unset} \cup Seq(Tags)
  BY NodesAre
<1>5. Wrote(Here, "nodes", x)
  BY <1>1, <1>3, <1>4, NodeActs
<1> QED BY <1>1, <1>5

\* Saved tags keep the maintenance.
LEMMA TagsActs ==
  ASSUME StoreInv, NEW s \in Servers, NEW new \in Seq(Tags), setTags(s, new)
  PROVE  \E tags \in {Unset, new} :
           Wrote(Here, "nodes",
                 [u \in Servers |-> IF u = s THEN [tags |-> tags, maintenance |-> Mine.nodes[s].maintenance]
                                    ELSE Mine.nodes[u]])
<1> DEFINE tags == IF new = FleetTags[s] THEN Unset ELSE new
           y == [Mine.nodes EXCEPT ![s].tags = tags]
           x == [u \in Servers |-> IF u = s THEN [tags |-> tags, maintenance |-> Mine.nodes[s].maintenance]
                                   ELSE Mine.nodes[u]]
<1>1. tags \in {Unset, new} /\ tags \in {Unset} \cup Seq(Tags) /\ SaveIn(Here, [nodes |-> y])
  BY DEF setTags, save
<1> HIDE DEF tags
<1>2. y = x
  BY NodesAre
<1>3. SaveIn(Here, [nodes |-> x])
  <2> HIDE DEF x, y
  <2> QED BY <1>1, <1>2
<1>4. Mine.nodes[s].maintenance \in BOOLEAN
  BY NodesAre
<1>5. Wrote(Here, "nodes", x)
  BY <1>1, <1>3, <1>4, NodeActs
<1> QED BY <1>1, <1>5

-----------------------------------------------------------------------------
(* Tags and dialogs.                                                         *)

\* The tags a value of the settings records are sets, and not too many.
TagsAreFit(v) == \A tags \in TagsOf(v) : TagsFit(tags)

\* Those of both tabs, and of the entry.
TagsInv ==
  /\ \A t \in Tabs : IsOpen(t) => TagsAreFit(settings[t])
  /\ TagsAreFit(Read(stored))

(* A dialog is over the overview, that of the sheet over a server; its tags are a
   set, and began as those of the server they will be saved to. *)
DialogInv ==
  /\ dialog \in [kind : {"none", "tags", "removal"}, from : {"list", "sheet"},
                 server : Servers \cup {Nobody}]
  /\ draftOf \in Servers \cup {Nobody}
  /\ dialog.kind # "none" =>
       loc.path = Home /\ (dialog.from = "sheet" => Selected(loc) \in Servers)
  /\ dialog.kind = "tags" => draftOf = DialogServer /\ draftOf \in Servers
  /\ tagDraft \in Seq(Tags) /\ TagsFit(tagDraft)

\* No tags are a set.
LEMMA NoTagsFit == <<>> \in Seq(Tags) /\ TagsFit(<<>>)
<1>1. <<>> \in Seq(Tags) /\ Len(<<>>) = 0 /\ DOMAIN <<>> = {}
  OBVIOUS
<1>2. MAX_TAGS \in Nat
  BY OverviewAssumption
<1>3. 0 <= MAX_TAGS
  BY <1>2
<1> QED BY <1>1, <1>3 DEF TagsFit, IsInjective

\* The tags of a server are a set, recorded or not.
LEMMA ServersTags ==
  ASSUME StoreInv, TagsInv, NEW s \in Servers
  PROVE  nodeTags(s) \in Seq(Tags) /\ TagsFit(nodeTags(s))
<1>1. CASE Mine.nodes[s].tags = Unset
  BY <1>1, OverviewAssumption DEF nodeTags
<1>2. CASE Mine.nodes[s].tags # Unset
  <2>1. nodeTags(s) = Mine.nodes[s].tags /\ Mine.nodes[s].tags \in Seq(Tags)
    BY <1>2, NodesAre DEF nodeTags
  <2>2. TagsAreFit(Mine)
    BY MineIsTyped DEF TagsInv, Mine
  <2>3. Mine.nodes[s].tags \in TagsOf(Mine)
    BY <1>2 DEF TagsOf
  <2> QED BY <2>1, <2>2, <2>3 DEF TagsAreFit
<1> QED BY <1>1, <1>2

\* A tag more that is not among them, and one less.
LEMMA MoreTags ==
  ASSUME NEW tags \in Seq(Tags), TagsFit(tags), NEW t \in Tags
  PROVE  /\ t \notin ToSet(tags) /\ Len(tags) < MAX_TAGS =>
              Append(tags, t) \in Seq(Tags) /\ TagsFit(Append(tags, t))
         /\ \A i \in DOMAIN tags : RemoveAt(tags, i) \in Seq(Tags) /\ TagsFit(RemoveAt(tags, i))
<1>0. MAX_TAGS \in Nat /\ Len(tags) \in Nat /\ DOMAIN tags = 1..Len(tags) /\ Len(tags) <= MAX_TAGS
  BY OverviewAssumption DEF TagsFit
<1>1. \A a, b \in 1..Len(tags) : tags[a] = tags[b] => a = b
  BY <1>0 DEF TagsFit, IsInjective
<1>2. ASSUME t \notin ToSet(tags), Len(tags) < MAX_TAGS
      PROVE  Append(tags, t) \in Seq(Tags) /\ TagsFit(Append(tags, t))
  <2> DEFINE more == Append(tags, t)
  <2>1. /\ more \in Seq(Tags) /\ Len(more) = Len(tags) + 1 /\ DOMAIN more = 1..(Len(tags) + 1)
        /\ more[Len(tags) + 1] = t /\ \A i \in 1..Len(tags) : more[i] = tags[i]
    BY <1>0
  <2>2. \A i \in 1..Len(tags) : tags[i] # t
    BY <1>0, <1>2 DEF ToSet
  <2> HIDE DEF more
  <2>3. ASSUME NEW a \in DOMAIN more, NEW b \in DOMAIN more, more[a] = more[b]
        PROVE  a = b
    BY <1>0, <1>1, <2>1, <2>2, <2>3
  <2>4. Len(more) <= MAX_TAGS
    BY <1>0, <1>2, <2>1
  <2> QED BY <2>1, <2>3, <2>4 DEF TagsFit, IsInjective, more
<1>3. ASSUME NEW i \in DOMAIN tags
      PROVE  RemoveAt(tags, i) \in Seq(Tags) /\ TagsFit(RemoveAt(tags, i))
  <2> DEFINE n == Len(tags)
             front == SubSeq(tags, 1, i - 1)
             back == SubSeq(tags, i + 1, n)
             less == front \o back
  <2>1. n \in Nat /\ i \in 1..n
    BY <1>0
  <2>2. /\ front \in Seq(Tags) /\ Len(front) = i - 1
        /\ \A j \in 1..(i - 1) : front[j] = tags[j]
    <3>1. \A j \in 1..(i - 1) : tags[j] \in Tags
      BY <1>0, <2>1
    <3> QED BY <2>1, <3>1
  <2>3. /\ back \in Seq(Tags) /\ Len(back) = n - i
        /\ \A j \in 1..(n - i) : back[j] = tags[i + j]
    <3>1. \A j \in (i + 1)..n : tags[j] \in Tags
      BY <1>0, <2>1
    <3> QED BY <2>1, <3>1
  <2> HIDE DEF front, back
  <2>4. /\ less \in Seq(Tags) /\ Len(less) = n - 1
        /\ \A j \in 1..(n - 1) : less[j] = IF j < i THEN tags[j] ELSE tags[j + 1]
    <3>1. less \in Seq(Tags) /\ Len(less) = (i - 1) + (n - i)
      BY <2>2, <2>3, ConcatProperties
    <3>2. Len(less) = n - 1
      BY <2>1, <3>1
    <3>3. \A j \in 1..(n - 1) : less[j] = IF j <= i - 1 THEN front[j] ELSE back[j - (i - 1)]
      BY <2>1, <2>2, <2>3, ConcatProperties
    <3> HIDE DEF less
    <3>4. \A j \in 1..(n - 1) : less[j] = IF j < i THEN tags[j] ELSE tags[j + 1]
      <4> TAKE j \in 1..(n - 1)
      <4>1. CASE j < i
        BY <2>1, <2>2, <3>3, <4>1
      <4>2. CASE j >= i
        <5>1. j - (i - 1) \in 1..(n - i) /\ i + (j - (i - 1)) = j + 1
          BY <2>1, <4>2
        <5>2. less[j] = back[j - (i - 1)]
          BY <2>1, <3>3, <4>2
        <5>3. back[j - (i - 1)] = tags[i + (j - (i - 1))]
          BY <2>3, <5>1
        <5> QED BY <2>1, <4>2, <5>1, <5>2, <5>3
      <4> QED BY <2>1, <4>1, <4>2
    <3> QED BY <3>1, <3>2, <3>4
  <2> HIDE DEF less, n
  <2>5. ASSUME NEW a \in 1..(n - 1), NEW b \in 1..(n - 1), less[a] = less[b]
        PROVE  a = b
    <3> DEFINE p(j) == IF j < i THEN j ELSE j + 1
    <3>1. p(a) \in 1..n /\ p(b) \in 1..n /\ tags[p(a)] = tags[p(b)]
      BY <2>1, <2>4, <2>5
    <3>2. p(a) = p(b)
      <4> HIDE DEF p
      <4> QED BY <1>1, <3>1 DEF n
    <3> QED BY <2>1, <3>2
  <2>6. DOMAIN less = 1..(n - 1) /\ Len(less) <= MAX_TAGS
    BY <1>0, <2>1, <2>4 DEF n
  <2>7. less \in Seq(Tags) /\ TagsFit(less)
    BY <2>4, <2>5, <2>6 DEF TagsFit, IsInjective
  <2> QED BY <2>7 DEF less, front, back, n, RemoveAt
<1> QED BY <1>2, <1>3

\* A dialog over the overview stays on its server, or closes.
LEMMA DialogFollows ==
  ASSUME StoreInv, TagsInv, DialogInv, FollowSheet
  PROVE  DialogInv'
<1> DEFINE gone == loc'.path # Home \/ (dialog.from = "sheet" /\ Selected(loc') = Nobody)
<1>1. CASE gone
  <2>1. dialog' = NoDialog /\ tagDraft' = <<>> /\ draftOf' = Nobody
    BY <1>1 DEF FollowSheet
  <2> QED BY <2>1, NoTagsFit DEF DialogInv, NoDialog
<1>2. CASE ~gone
  <2>1. dialog' = dialog /\ loc'.path = Home
    BY <1>2 DEF FollowSheet
  <2>2. dialog.from = "sheet" => Selected(loc') \in Servers
    BY <1>2 DEF Selected
  <2>3. CASE dialog.kind = "tags" /\ dialog.from = "sheet" /\ Selected(loc') # Selected(loc)
    <3> DEFINE s == Selected(loc')
    <3>1. tagDraft' = nodeTags(s) /\ draftOf' = s /\ s \in Servers
      BY <1>2, <2>2, <2>3 DEF FollowSheet
    <3> HIDE DEF s
    <3>2. tagDraft' \in Seq(Tags) /\ TagsFit(tagDraft')
      BY <3>1, ServersTags
    <3>3. draftOf' = Selected(loc') /\ draftOf' \in Servers
      BY <3>1 DEF s
    <3> QED BY <2>1, <2>2, <2>3, <3>2, <3>3 DEF DialogInv, DialogServer
  <2>4. CASE ~(dialog.kind = "tags" /\ dialog.from = "sheet" /\ Selected(loc') # Selected(loc))
    <3>1. tagDraft' = tagDraft /\ draftOf' = draftOf
      BY <1>2, <2>4 DEF FollowSheet
    <3>2. dialog.kind = "tags" => draftOf = IF dialog.from = "sheet" THEN Selected(loc') ELSE dialog.server
      BY <2>4 DEF DialogInv, DialogServer
    <3> QED BY <2>1, <2>2, <3>1, <3>2 DEF DialogInv, DialogServer
  <2> QED BY <2>3, <2>4
<1> QED BY <1>1, <1>2

\* The steps inside a dialog.
LEMMA InDialogSteps ==
  ASSUME StoreInv, TagsInv, DialogInv, InDialog
  PROVE  DialogInv' /\ loc' = loc
<1>1. ASSUME NEW s \in Servers, NEW kind \in {"tags", "removal"}, OpenDialog(kind, s)
      PROVE  DialogInv' /\ loc' = loc
  <2>1. /\ loc' = loc /\ loc.path = Home /\ (Selected(loc) # Nobody => s = Selected(loc))
        /\ dialog' = IF Selected(loc) = Nobody THEN [kind |-> kind, from |-> "list", server |-> s]
                     ELSE [kind |-> kind, from |-> "sheet", server |-> Nobody]
        /\ tagDraft' = IF kind = "tags" THEN nodeTags(s) ELSE <<>>
        /\ draftOf' = IF kind = "tags" THEN s ELSE Nobody
    BY <1>1 DEF OpenDialog, Reach, Free, url
  <2>2. tagDraft' \in Seq(Tags) /\ TagsFit(tagDraft')
    BY <2>1, ServersTags, NoTagsFit
  <2> QED BY <2>1, <2>2 DEF DialogInv, DialogServer
<1>2. ASSUME NEW tags, tags \in Seq(Tags), TagsFit(tags), tagDraft' = tags,
             UNCHANGED <<loc, dialog, draftOf>>
      PROVE  DialogInv'
  BY <1>2 DEF DialogInv, DialogServer
<1>3. ASSUME NEW t \in Tags, AddTag(t)
      PROVE  DialogInv' /\ loc' = loc
  <2> DEFINE tags == Append(tagDraft, t)
  <2>1. tagDraft' = tags /\ UNCHANGED <<loc, dialog, draftOf>>
        /\ t \notin ToSet(tagDraft) /\ Len(tagDraft) < MAX_TAGS
    BY <1>3 DEF AddTag, url
  <2>2. tags \in Seq(Tags) /\ TagsFit(tags)
    BY <2>1, MoreTags DEF DialogInv
  <2> HIDE DEF tags
  <2> QED BY <1>2, <2>1, <2>2
<1>4. ASSUME NEW t \in Tags, RemoveTag(t)
      PROVE  DialogInv' /\ loc' = loc
  <2>1. PICK i \in DOMAIN tagDraft : tagDraft' = RemoveAt(tagDraft, i)
    BY <1>4 DEF RemoveTag
  <2> DEFINE tags == RemoveAt(tagDraft, i)
  <2>2. tagDraft' = tags /\ UNCHANGED <<loc, dialog, draftOf>>
    BY <1>4, <2>1 DEF RemoveTag, url
  <2>3. tags \in Seq(Tags) /\ TagsFit(tags)
    BY <1>4, <2>1, MoreTags DEF DialogInv
  <2> HIDE DEF tags
  <2> QED BY <1>2, <2>2, <2>3
<1>5. CASE SaveTags \/ CloseDialog
  <2>1. dialog' = NoDialog /\ tagDraft' = <<>> /\ draftOf' = Nobody /\ loc' = loc
    BY <1>5 DEF SaveTags, CloseDialog, Close, url
  <2> QED BY <2>1, NoTagsFit DEF DialogInv, NoDialog
<1> QED BY <1>1, <1>3, <1>4, <1>5 DEF InDialog

\* Each step keeps the dialogs right.
LEMMA DialogKept ==
  ASSUME StoreInv, TagsInv, DialogInv, [Next]_vars
  PROVE  DialogInv'
<1>1. CASE UNCHANGED <<loc, dialog, tagDraft, draftOf>>
  BY <1>1 DEF DialogInv, DialogServer
<1>2. CASE ReloadConsole
  <2>1. dialog' = NoDialog /\ tagDraft' = <<>> /\ draftOf' = Nobody
    BY <1>2 DEF ReloadConsole
  <2> QED BY <2>1, NoTagsFit DEF DialogInv, NoDialog
<1> QED BY <1>1, <1>2, DialogFollows, InDialogSteps, OverviewKinds
        DEF OverviewFollows, CatchUp, url, overview

\* The tags of the dialog are saved to its server.
LEMMA SaveTagsActs ==
  ASSUME StoreInv, DialogInv, SaveTags
  PROVE  \E s \in Servers, tags \in {Unset, tagDraft} :
           Wrote(Here, "nodes",
                 [u \in Servers |-> IF u = s THEN [tags |-> tags, maintenance |-> Mine.nodes[s].maintenance]
                                    ELSE Mine.nodes[u]])
<1> DEFINE s == DialogServer
<1>1. s \in Servers /\ setTags(s, tagDraft) /\ tagDraft \in Seq(Tags)
  BY DEF SaveTags, DialogInv
<1> HIDE DEF s
<1> QED BY <1>1, TagsActs

\* The other tab writes one switch.
LEMMA OtherActs ==
  ASSUME StoreInv, OtherSaves
  PROVE  /\ IsOpen(Other)
         /\ \E r \in Rules : Wrote(Other, "ruleEnabled", [settings[Other].ruleEnabled EXCEPT ![r] = FALSE])
<1>1. PICK r \in Rules :
        IsOpen(Other) /\ SaveIn(Other, [ruleEnabled |-> [settings[Other].ruleEnabled EXCEPT ![r] = FALSE]])
  BY DEF OtherSaves
<1> DEFINE x == [settings[Other].ruleEnabled EXCEPT ![r] = FALSE]
           patch == [ruleEnabled |-> x]
<1>2. SaveIn(Other, patch)
  BY <1>1
<1>3. settings[Other] \in SettingsType /\ Other \in Tabs
  BY <1>1, OpenIsTyped DEF Tabs
<1>4. settings[Other].ruleEnabled \in [Rules -> {Unset} \cup BOOLEAN]
  BY <1>3 DEF SettingsType
<1>5. Fits("ruleEnabled", x)
  BY <1>4, FitsAre
<1>6. DOMAIN patch = {"ruleEnabled"} /\ patch["ruleEnabled"] = x /\ "ruleEnabled" \in Keys
  BY PatchOfOne
<1> HIDE DEF x, patch
<1>7. Wrote(Other, "ruleEnabled", x)
  BY <1>1, <1>2, <1>3, <1>5, <1>6, OneKey
<1> QED BY <1>1, <1>7 DEF x

\* Each step keeps the store.
LEMMA StoreKept ==
  ASSUME StoreInv, DialogInv, deleting \in Probes \cup NewProbes \cup {Nobody}, [Next]_vars
  PROVE  StoreInv'
<1>1. CASE UNCHANGED store
  BY <1>1, StoreStays
<1>2. CASE StoreStep
  BY <1>2, StoreSteps
<1>3. CASE ReloadConsole
  BY <1>3, ReloadSteps DEF ReloadConsole
<1>4. ASSUME NEW s \in Servers, ToggleMaintenance(s)
      PROVE  StoreInv'
  BY <1>4, MaintenanceActs DEF Wrote
<1>5. CASE SaveTags
  BY <1>5, SaveTagsActs DEF Wrote
<1>6. CASE CreateProbe
  BY <1>6, CreateActs DEF Wrote
<1>7. CASE DeleteProbe
  BY <1>7, DeleteActs DEF Wrote
<1>8. ASSUME NEW p \in Probes \cup NewProbes, SwitchProbe(p)
      PROVE  StoreInv'
  BY <1>8, ProbeActs DEF Wrote
<1>9. ASSUME NEW r \in Rules, SwitchRule(r)
      PROVE  StoreInv'
  BY <1>9, RuleActs DEF Wrote
<1> QED BY <1>1, <1>2, <1>3, <1>4, <1>5, <1>6, <1>7, <1>8, <1>9, StoreKinds

\* A write keeps the tags sets, when those it writes are.
LEMMA WroteTags ==
  ASSUME StoreInv, TagsInv, NEW t \in Tabs, IsOpen(t), NEW k, NEW x, Wrote(t, k, x),
         k = "nodes" => \A s \in Servers : x[s].tags # Unset => TagsFit(x[s].tags)
  PROVE  TagsInv'
<1>0. "nodes" \in Keys
  BY KeysAre
<1>1. settings'[t]["nodes"] = IF k = "nodes" THEN x ELSE settings[t]["nodes"]
  BY <1>0 DEF Wrote
<1>2. TagsAreFit(settings[t])
  BY DEF TagsInv
<1>3. TagsAreFit(settings'[t])
  <2>1. CASE k = "nodes"
    BY <1>1, <2>1 DEF TagsAreFit, TagsOf
  <2>2. CASE k # "nodes"
    BY <1>1, <1>2, <2>2 DEF TagsAreFit, TagsOf
  <2> QED BY <2>1, <2>2
<1>4. \A u \in Tabs : u # t => settings'[u] = settings[u]
  BY DEF Wrote
<1>5. stored' = stored
  BY DEF Wrote
<1>6. TagsAreFit(Read(stored'))
  BY <1>5 DEF TagsInv
<1>7. \A u \in Tabs : settings'[u] # Closed => TagsAreFit(settings'[u])
  BY <1>3, <1>4 DEF TagsInv, IsOpen
<1> QED BY <1>6, <1>7 DEF TagsInv, IsOpen

\* Each step keeps the recorded tags sets.
LEMMA TagsKept ==
  ASSUME StoreInv, TagsInv, DialogInv, deleting \in Probes \cup NewProbes \cup {Nobody}, [Next]_vars
  PROVE  TagsInv'
<1>0. /\ settings \in [Tabs -> SettingsType \cup {Closed}] /\ Here \in Tabs /\ Other \in Tabs
      /\ IsOpen(Here)
  BY MineIsTyped DEF StoreInv, StoreTypeOK, Tabs
<1>1. ASSUME stored' = stored, \A t \in Tabs : settings'[t] \in {settings[t], Read(stored), Closed}
      PROVE  TagsInv'
  BY <1>1 DEF TagsInv, IsOpen
<1>2. CASE UNCHANGED store
  BY <1>1, <1>2 DEF store
<1>3. ASSUME NEW t \in Tabs, Persist(t)
      PROVE  TagsInv'
  <2>1. stored' = settings[t] /\ settings' = settings /\ IsOpen(t)
    BY <1>3 DEF Persist, StoreInv
  <2>2. settings[t] \in SettingsType
    BY <2>1, OpenIsTyped
  <2>3. Read(stored') = settings[t]
    BY <2>1, <2>2, ReadSame
  <2> QED BY <2>1, <2>3 DEF TagsInv, IsOpen
<1>4. CASE (\E t \in Tabs : PersistFails(t)) \/ OpenOther \/ CloseOther \/ ReloadConsole
  <2>1. stored' = stored /\ \A t \in Tabs : settings'[t] \in {settings[t], Read(stored), Closed}
    BY <1>0, <1>4 DEF PersistFails, OpenOther, CloseOther, ReloadConsole, Reload
  <2> QED BY <1>1, <2>1
<1>5. CASE OtherSaves
  <2>1. PICK r \in Rules : Wrote(Other, "ruleEnabled", [settings[Other].ruleEnabled EXCEPT ![r] = FALSE])
    BY <1>5, OtherActs
  <2> QED BY <1>0, <1>5, <2>1, OtherActs, WroteTags
<1>6. CASE CreateProbe
  <2>1. PICK p \in NewProbes : Wrote(Here, "probesCreated", Mine.probesCreated \cup {p})
    BY <1>6, CreateActs
  <2> QED BY <1>0, <2>1, WroteTags
<1>7. CASE DeleteProbe
  BY <1>0, <1>7, DeleteActs, WroteTags
<1>8. ASSUME NEW p \in Probes \cup NewProbes, SwitchProbe(p)
      PROVE  TagsInv'
  <2>1. PICK on \in BOOLEAN : Wrote(Here, "probeEnabled", [Mine.probeEnabled EXCEPT ![p] = on])
    BY <1>8, ProbeActs
  <2> QED BY <1>0, <2>1, WroteTags
<1>9. ASSUME NEW r \in Rules, SwitchRule(r)
      PROVE  TagsInv'
  <2>1. PICK on \in BOOLEAN : Wrote(Here, "ruleEnabled", [Mine.ruleEnabled EXCEPT ![r] = on])
    BY <1>9, RuleActs
  <2> QED BY <1>0, <2>1, WroteTags
<1>10. ASSUME NEW s \in Servers, NEW tags, NEW on, tags # Unset => TagsFit(tags),
              Wrote(Here, "nodes",
                    [u \in Servers |-> IF u = s THEN [tags |-> tags, maintenance |-> on] ELSE Mine.nodes[u]])
       PROVE  TagsInv'
  <2> DEFINE x == [u \in Servers |-> IF u = s THEN [tags |-> tags, maintenance |-> on] ELSE Mine.nodes[u]]
  <2>1. \A u \in Servers : Mine.nodes[u].tags # Unset => TagsFit(Mine.nodes[u].tags)
    BY <1>0 DEF TagsInv, TagsAreFit, TagsOf, Mine
  <2>2. \A u \in Servers : x[u].tags # Unset => TagsFit(x[u].tags)
    BY <1>10, <2>1
  <2>3. Wrote(Here, "nodes", x)
    BY <1>10
  <2> HIDE DEF x
  <2> QED BY <1>0, <2>2, <2>3, WroteTags
<1>11. CASE SaveTags
  <2>1. PICK s \in Servers, tags \in {Unset, tagDraft} :
          Wrote(Here, "nodes",
                [u \in Servers |-> IF u = s THEN [tags |-> tags, maintenance |-> Mine.nodes[s].maintenance]
                                   ELSE Mine.nodes[u]])
    BY <1>11, SaveTagsActs
  <2>2. tags # Unset => TagsFit(tags)
    BY DEF DialogInv
  <2> QED BY <1>10, <2>1, <2>2
<1>12. ASSUME NEW s \in Servers, ToggleMaintenance(s)
       PROVE  TagsInv'
  <2>1. PICK on \in BOOLEAN :
          Wrote(Here, "nodes",
                [u \in Servers |-> IF u = s THEN [tags |-> Mine.nodes[s].tags, maintenance |-> on]
                                   ELSE Mine.nodes[u]])
    BY <1>12, MaintenanceActs
  <2>2. Mine.nodes[s].tags # Unset => TagsFit(Mine.nodes[s].tags)
    BY <1>0 DEF TagsInv, TagsAreFit, TagsOf, Mine
  <2> DEFINE tags == Mine.nodes[s].tags
  <2>3. /\ tags # Unset => TagsFit(tags)
        /\ Wrote(Here, "nodes",
                 [u \in Servers |-> IF u = s THEN [tags |-> tags, maintenance |-> on] ELSE Mine.nodes[u]])
    BY <2>1, <2>2
  <2> HIDE DEF tags
  <2> QED BY <1>10, <2>3
<1> QED BY <1>2, <1>3, <1>4, <1>5, <1>6, <1>7, <1>8, <1>9, <1>11, <1>12, StoreKinds DEF StoreStep

-----------------------------------------------------------------------------
(* The probes page.                                                          *)

\* No task of d is in the settings v: it is not created there, or marked as removed.
Gone(v, d) == \A p \in d : p \notin v.probesCreated /\ (p \in Probes => p \in v.probesRemoved)

(* The page keeps its types, and what was removed in this tab is gone from its
   settings as long as no write failed. *)
ProbesInv ==
  /\ ProbesTypeOK
  /\ faults = 0 => Gone(Mine, deleted)

\* What each step makes of the form, the row asked about and the removed tasks.
LEMMA ProbesVars ==
  ASSUME ProbesTypeOK, [Next]_vars
  PROVE  ProbesTypeOK' /\ (deleted' = deleted \/ DeleteProbe)
<1>1. CASE UNCHANGED probesPage
  BY <1>1 DEF probesPage, ProbesTypeOK
<1>2. CASE ProbesFollow
  <2>1. deleted' = deleted /\ form' \in {form, EMPTY_FORM} /\ deleting' \in {deleting, Nobody}
    BY <1>2 DEF ProbesFollow
  <2> QED BY <2>1 DEF ProbesTypeOK, Forms
<1>3. CASE DeleteProbe
  <2>1. deleting' = Nobody /\ deleted' = deleted \cup {deleting} /\ form' = form /\ deleting # Nobody
    BY <1>3 DEF DeleteProbe
  <2> QED BY <1>3, <2>1 DEF ProbesTypeOK
<1>4. CASE OnProbes
  <2>1. ASSUME NEW v \in Forms, Fill(v)
        PROVE  ProbesTypeOK' /\ deleted' = deleted
    BY <2>1 DEF Fill, ProbesTypeOK
  <2>2. ASSUME CancelProbe \/ CreateProbe
        PROVE  ProbesTypeOK' /\ deleted' = deleted
    BY <2>2 DEF CancelProbe, CreateProbe, CloseForm, ProbesTypeOK, Forms
  <2>3. ASSUME NEW p \in Probes \cup NewProbes, AskDelete(p)
        PROVE  ProbesTypeOK' /\ deleted' = deleted
    BY <2>3 DEF AskDelete, ProbesTypeOK
  <2>4. ASSUME KeepProbe
        PROVE  ProbesTypeOK' /\ deleted' = deleted
    BY <2>4 DEF KeepProbe, ProbesTypeOK
  <2>5. ASSUME NewProbe \/ (\E q \in {""} \cup DOMAIN FoundProbes : SearchProbes(q))
               \/ (\E p \in Probes \cup NewProbes : SwitchProbe(p))
        PROVE  UNCHANGED probesPage
    BY <2>5 DEF NewProbe, SearchProbes, SwitchProbe
  <2> QED BY <1>1, <1>3, <1>4, <2>1, <2>2, <2>3, <2>4, <2>5 DEF OnProbes, ProbesStep
<1>5. CASE ReloadConsole
  <2>1. deleted' = deleted /\ form' = EMPTY_FORM /\ deleting' = Nobody
    BY <1>5 DEF ReloadConsole
  <2> QED BY <2>1 DEF ProbesTypeOK, Forms
<1>6. CASE RowsRender
  BY <1>6 DEF RowsRender, ListCatchesUp, ProbesTypeOK
<1>7. CASE Boot \/ StrictUnmount \/ TableRenders \/ TogglePalette \/ OpenNav \/ Live \/ Stores \/ UNCHANGED vars
  BY <1>1, <1>7 DEF Boot, StrictUnmount, TableRenders, TogglePalette, OpenNav, Live, Stores, vars
<1>8. CASE Redirect \/ OnOverview \/ OnAlertsPage \/ Back \/ (\E to \in Commands : RunCommand(to))
           \/ (\E to \in NavTargets : FollowNav(to))
  BY <1>2, <1>8 DEF Redirect, OnOverview, OnAlertsPage, Back, RunCommand, FollowNav, Navigated
<1> QED BY <1>4, <1>5, <1>6, <1>7, <1>8 DEF Next

\* Each step leaves what was removed removed.
LEMMA ProbesKept ==
  ASSUME StoreInv, DialogInv, ProbesInv, [Next]_vars
  PROVE  ProbesInv'
<1>1. ProbesTypeOK' /\ (deleted' = deleted \/ DeleteProbe)
  BY ProbesVars DEF ProbesInv
<1>2. "probesCreated" \in Keys /\ "probesRemoved" \in Keys
  BY KeysAre
<1>3. deleting \in Probes \cup NewProbes \cup {Nobody}
  BY DEF ProbesInv, ProbesTypeOK
<1>4. ASSUME deleted' = deleted, faults' = 0 => faults = 0 /\ settings'[Here] = settings[Here]
      PROVE  ProbesInv'
  BY <1>1, <1>4 DEF ProbesInv, Gone, Mine
<1>5. ASSUME NEW k, NEW x, Wrote(Here, k, x), k \notin {"probesCreated", "probesRemoved"},
             deleted' = deleted
      PROVE  ProbesInv'
  <2>1. /\ faults' = faults
        /\ settings'[Here]["probesCreated"] = Mine["probesCreated"]
        /\ settings'[Here]["probesRemoved"] = Mine["probesRemoved"]
    BY <1>2, <1>5 DEF Wrote, Mine
  <2> QED BY <1>1, <1>5, <2>1 DEF ProbesInv, Gone, Mine
<1>6. CASE DeleteProbe
  <2>1. deleted' = deleted \cup {deleting} /\ deleting # Nobody
    BY <1>6 DEF DeleteProbe
  <2>2. CASE deleting \in Probes /\ Wrote(Here, "probesRemoved", Mine.probesRemoved \cup {deleting})
    <3>1. /\ faults' = faults
          /\ settings'[Here]["probesCreated"] = Mine["probesCreated"]
          /\ settings'[Here]["probesRemoved"] = Mine["probesRemoved"] \cup {deleting}
      BY <1>2, <2>2 DEF Wrote, Mine
    <3>2. deleting \notin Mine.probesCreated
      <4>1. Mine.probesCreated \in SUBSET NewProbes
        BY MineIsTyped DEF SettingsType
      <4> QED BY <2>2, <4>1, NewProbesAreNew
    <3> QED BY <1>1, <2>1, <2>2, <3>1, <3>2 DEF ProbesInv, Gone, Mine
  <2>3. CASE deleting \in NewProbes \ Probes
             /\ Wrote(Here, "probesCreated", Mine.probesCreated \ {deleting})
    <3>1. /\ faults' = faults
          /\ settings'[Here]["probesCreated"] = Mine["probesCreated"] \ {deleting}
          /\ settings'[Here]["probesRemoved"] = Mine["probesRemoved"]
      BY <1>2, <2>3 DEF Wrote, Mine
    <3> QED BY <1>1, <2>1, <2>3, <3>1 DEF ProbesInv, Gone, Mine
  <2> QED BY <1>3, <1>6, <2>2, <2>3, DeleteActs
<1>7. CASE CreateProbe /\ deleted' = deleted
  <2>1. PICK p \in NewProbes \ deleted : Wrote(Here, "probesCreated", Mine.probesCreated \cup {p})
    BY <1>7, CreateActs
  <2>2. /\ faults' = faults
        /\ settings'[Here]["probesCreated"] = Mine["probesCreated"] \cup {p}
        /\ settings'[Here]["probesRemoved"] = Mine["probesRemoved"]
    BY <1>2, <2>1 DEF Wrote, Mine
  <2> QED BY <1>1, <1>7, <2>1, <2>2 DEF ProbesInv, Gone, Mine
<1>8. ASSUME UNCHANGED store, deleted' = deleted
      PROVE  ProbesInv'
  BY <1>4, <1>8 DEF store
<1>9. ASSUME StoreStep, deleted' = deleted
      PROVE  ProbesInv'
  BY <1>4, <1>9, StoreSteps
<1>10. ASSUME ReloadConsole, deleted' = deleted
       PROVE  ProbesInv'
  BY <1>4, <1>10, ReloadSteps DEF ReloadConsole, Mine
<1>11. ASSUME NEW s \in Servers, ToggleMaintenance(s), deleted' = deleted
       PROVE  ProbesInv'
  <2>1. \E x : Wrote(Here, "nodes", x)
    BY <1>11, MaintenanceActs
  <2> QED BY <1>5, <1>11, <2>1
<1>12. ASSUME SaveTags, deleted' = deleted
       PROVE  ProbesInv'
  <2>1. \E x : Wrote(Here, "nodes", x)
    BY <1>12, SaveTagsActs
  <2> QED BY <1>5, <1>12, <2>1
<1>13. ASSUME NEW p \in Probes \cup NewProbes, SwitchProbe(p), deleted' = deleted
       PROVE  ProbesInv'
  <2>1. \E x : Wrote(Here, "probeEnabled", x)
    BY <1>13, ProbeActs
  <2> QED BY <1>5, <1>13, <2>1
<1>14. ASSUME NEW r \in Rules, SwitchRule(r), deleted' = deleted
       PROVE  ProbesInv'
  <2>1. \E x : Wrote(Here, "ruleEnabled", x)
    BY <1>14, RuleActs
  <2> QED BY <1>5, <1>14, <2>1
<1> QED BY <1>1, <1>6, <1>7, <1>8, <1>9, <1>10, <1>11, <1>12, <1>13, <1>14, StoreKinds

\* The settings, the dialogs and the page of the probes at the start.
LEMMA InitConsole == Init => StoreInv /\ TagsInv /\ DialogInv /\ ProbesInv
<1> SUFFICES ASSUME Init
             PROVE  StoreInv /\ TagsInv /\ DialogInv /\ ProbesInv
  OBVIOUS
<1>1. InitStore /\ InitOverview /\ InitProbes
  BY DEF Init
<1>2. StoreInv
  BY <1>1, InitStoreInv
<1>3. TagsInv
  <2>1. stored \in Shelf /\ TagsAreFit(Read(stored))
    BY <1>1, OverviewAssumption DEF InitStore, TagsAreFit
  <2>2. \A t \in Tabs : settings[t] = Read(stored) \/ settings[t] = Closed
    BY <1>1 DEF InitStore
  <2> QED BY <2>1, <2>2 DEF TagsInv, IsOpen
<1>4. DialogInv
  BY <1>1, NoTagsFit DEF InitOverview, DialogInv, NoDialog
<1>5. ProbesInv
  BY <1>1 DEF InitProbes, ProbesInv, ProbesTypeOK, Gone, Forms
<1> QED BY <1>2, <1>3, <1>4, <1>5

(* The settings, their tags, the dialogs and the removed tasks together. *)
ConsoleInv == StoreInv /\ TagsInv /\ DialogInv /\ ProbesInv

\* Every step keeps them.
LEMMA ConsoleKept ==
  ASSUME ConsoleInv, [Next]_vars
  PROVE  ConsoleInv'
<1>1. deleting \in Probes \cup NewProbes \cup {Nobody}
  BY DEF ConsoleInv, ProbesInv, ProbesTypeOK
<1> QED BY <1>1, StoreKept, TagsKept, DialogKept, ProbesKept DEF ConsoleInv

\* What is gone from the settings is on no row, and comes back with no reload.
LEMMA GoneStaysGone == ConsoleInv => DeletedStaysDeleted
<1> SUFFICES ASSUME ConsoleInv, faults = 0
             PROVE  /\ deleted \cap rows = {}
                    /\ ~pending[Here] =>
                         \A p \in deleted :
                           \/ p \in Read(stored).probesRemoved
                           \/ p \in NewProbes /\ p \notin Read(stored).probesCreated
  BY DEF DeletedStaysDeleted
<1>1. Gone(Mine, deleted) /\ deleted \subseteq Probes \cup NewProbes
  BY DEF ConsoleInv, ProbesInv, ProbesTypeOK
<1>2. deleted \cap rows = {}
  BY <1>1 DEF Gone, rows, alive
<1>3. ~pending[Here] => Read(stored) = Mine
  BY StoreIsKept DEF ConsoleInv, ReloadChangesNothing
<1> QED BY <1>1, <1>2, <1>3 DEF Gone

(* A removed task stays removed on its page, in the numbers of the overview and in
   what a reload reads, as long as no write fails, whatever is created, switched or
   removed afterwards (probes.tsx:514-517, settings-provider.tsx:148-161). *)
THEOREM DeletedForGood == Spec => []DeletedStaysDeleted
<1>1. ConsoleInv /\ [Next]_vars => ConsoleInv'
  BY ConsoleKept
<1>2. Init => ConsoleInv
  BY InitConsole DEF ConsoleInv
<1> QED BY <1>1, <1>2, GoneStaysGone, PTL DEF Spec

-----------------------------------------------------------------------------
(* The address, and all of the types.                                        *)

\* One is at, and came from, paths the console knows.
UrlInv ==
  /\ loc.path \in Paths /\ moves \in 0..MaxMoves
  /\ \E S : behind \in Seq(S)
  /\ \A i \in 1..Len(behind) : behind[i].path \in Paths

\* One goes to a path the console knows.
Moved == \E to : to.path \in Paths /\ (Push(to) \/ Replace(to) \/ SendOn(to))

\* The steps by what they do to the address.
LEMMA UrlKinds ==
  ASSUME loc.path \in Paths, [Next]_vars
  PROVE  \/ UNCHANGED url
         \/ GoBack
         \/ Moved
<1>1. \A p, x : At(p, x).path = p
  BY DEF At
<1>2. {Home, Tasks, AlertsPath, "/", "/probes", "/alerts", "/settings", "/settings/retention"} \subseteq Paths
  BY AppAssumption DEF Paths, Pages, Home, Tasks, AlertsPath
<1>3. ASSUME NEW patch, PushParams(patch) \/ ReplaceParams(patch)
      PROVE  Moved
  BY <1>1, <1>3 DEF PushParams, ReplaceParams, Moved
<1>4. CASE OnOverview
  <2>1. ASSUME NEW to \in CardLinks, FollowLink(to)
        PROVE  Moved
    <3>1. to.path \in Paths
      BY <1>1, <1>2, <2>1 DEF CardLinks
    <3> QED BY <2>1, <3>1 DEF FollowLink, FollowTo, Moved
  <2>2. ASSUME NEW s \in Servers, OpenSheet(s)
        PROVE  Moved
    <3>1. At(Home, [server |-> s]).path \in Paths
      BY <1>1, <1>2
    <3> QED BY <2>2, <3>1 DEF OpenSheet, FollowLink, FollowTo, Moved
  <2>3. ASSUME NEW patch, PickFilter(patch)
        PROVE  Moved
    BY <1>3, <2>3 DEF PickFilter
  <2>4. ASSUME NEW q, setQuery(q)
        PROVE  Moved
    BY <1>3, <2>4 DEF setQuery
  <2>5. CASE CloseSheet
    BY <1>3, <2>5 DEF CloseSheet
  <2>6. CASE \/ \E v \in {"all", "ok", "bad"} : setFilter(v)
             \/ \E v \in Tags \cup {""} : setTag(v)
             \/ \E v \in {"all", "fault", "agent"} : setIssue(v)
             \/ \E key \in {"name", "agent", "uptime", "lastSeen", "concern"} : setSort(key)
             \/ ClearFilters
    <3>1. \E patch : PickFilter(patch)
      BY <2>6 DEF setFilter, setTag, setIssue, setSort, ClearFilters
    <3> QED BY <2>3, <3>1
  <2>7. CASE \/ SaveTags \/ CloseDialog \/ (\E t \in Tags : AddTag(t) \/ RemoveTag(t))
             \/ \E s \in Servers : \/ ToggleMaintenance(s)
                                   \/ \E kind \in {"tags", "removal"} : OpenDialog(kind, s)
    BY <2>7 DEF SaveTags, CloseDialog, AddTag, RemoveTag, ToggleMaintenance, OpenDialog
  <2> QED BY <1>4, <2>1, <2>2, <2>4, <2>5, <2>6, <2>7 DEF OnOverview, OverviewStep
<1>5. CASE OnProbes
  <2>1. CASE NewProbe
    <3>1. At(Tasks, [new |-> "1"]).path \in Paths
      BY <1>1, <1>2
    <3> QED BY <2>1, <3>1 DEF NewProbe, Moved
  <2>2. CASE (\E q \in {""} \cup DOMAIN FoundProbes : SearchProbes(q)) \/ CancelProbe \/ CreateProbe
    BY <1>3, <2>2 DEF SearchProbes, CancelProbe, CreateProbe, CloseForm
  <2>3. CASE \/ KeepProbe \/ DeleteProbe \/ (\E v \in Forms \ {EMPTY_FORM} : Fill(v))
             \/ \E p \in Probes \cup NewProbes : SwitchProbe(p) \/ AskDelete(p)
    BY <2>3 DEF KeepProbe, DeleteProbe, Fill, SwitchProbe, AskDelete
  <2> QED BY <1>5, <2>1, <2>2, <2>3 DEF OnProbes, ProbesStep
<1>6. CASE OnAlertsPage
  <2>1. ASSUME NEW k, NEW v, SetAlertParam(k, v)
        PROVE  Moved
    BY <1>3, <2>1 DEF SetAlertParam
  <2>2. ASSUME NEW r \in Rules, SwitchRule(r)
        PROVE  UNCHANGED url
    BY <2>2 DEF SwitchRule
  <2> QED BY <1>6, <2>1, <2>2 DEF OnAlertsPage, AlertsStep
<1>7. CASE Redirect
  <2> DEFINE to == At(IF loc.path = "/settings" THEN "/settings/retention" ELSE Home, NoParams)
  <2>1. to.path \in Paths
    BY <1>1, <1>2
  <2>2. SendOn(to)
    BY <1>7 DEF Redirect
  <2> HIDE DEF to
  <2> QED BY <2>1, <2>2 DEF Moved
<1>8. ASSUME NEW to \in Commands, RunCommand(to)
      PROVE  Moved
  <2>1. CASE \E p \in Pages : to = At(p, NoParams)
    BY <1>1, <1>8, <2>1 DEF RunCommand, Paths, Moved
  <2>2. CASE \E p \in {Home, Tasks} : \E x : to = At(p, x)
    <3>1. to.path \in Paths
      BY <1>1, <1>2, <2>2
    <3> QED BY <1>8, <3>1 DEF RunCommand, Moved
  <2> QED BY <1>8, <2>1, <2>2 DEF Commands
<1>9. ASSUME NEW to \in NavTargets, FollowNav(to)
      PROVE  Moved
  <2>1. to.path \in Paths
    BY <1>1, <1>2, <1>9 DEF NavTargets
  <2> QED BY <1>9, <2>1 DEF FollowNav, FollowTo, Moved
<1>10. CASE Back
  BY <1>10 DEF Back
<1>11. CASE \/ Boot \/ StrictUnmount \/ TableRenders \/ RowsRender \/ TogglePalette \/ OpenNav
            \/ ReloadConsole \/ Live \/ Stores \/ UNCHANGED vars
  BY <1>11 DEF Boot, StrictUnmount, TableRenders, CatchUp, RowsRender, ListCatchesUp,
               TogglePalette, OpenNav, ReloadConsole, Live, Stores, vars
<1> QED BY <1>4, <1>5, <1>6, <1>7, <1>8, <1>9, <1>10, <1>11 DEF Next

\* Another entry goes on top, and the oldest may be lost.
LEMMA Pushed ==
  ASSUME UrlInv, NEW to, to.path \in Paths, Push(to)
  PROVE  UrlInv'
<1>1. PICK S : behind \in Seq(S)
  BY DEF UrlInv
<1> DEFINE T == S \cup {loc}
<1>2. behind \in Seq(T) /\ loc \in T
  BY <1>1
<1> HIDE DEF T
<1>3. loc' = to /\ moves' \in 0..MaxMoves
  BY AppAssumption DEF Push, UrlInv
<1>4. CASE Len(behind) < MaxBack
  <2>1. behind' = Append(behind, loc)
    BY <1>4 DEF Push
  <2>2. behind' \in Seq(T) /\ Len(behind') = Len(behind) + 1
    BY <1>2, <2>1
  <2>3. \A i \in 1..Len(behind') : behind'[i] = IF i \in 1..Len(behind) THEN behind[i] ELSE loc
    BY <1>2, <2>1
  <2> QED BY <1>3, <2>2, <2>3 DEF UrlInv
<1>5. CASE ~(Len(behind) < MaxBack)
  <2>1. behind' = Append(Tail(behind), loc)
    BY <1>5 DEF Push
  <2>2. Len(behind) \in Nat /\ Len(behind) > 0
    BY <1>2, <1>5, AppAssumption
  <2>3. Tail(behind) \in Seq(T) /\ Len(Tail(behind)) = Len(behind) - 1
    BY <1>2, <2>2
  <2>4. \A i \in 1..Len(behind) - 1 : Tail(behind)[i] = behind[i + 1]
    BY <1>2, <2>2
  <2>5. behind' \in Seq(T) /\ Len(behind') = Len(behind)
    BY <1>2, <2>1, <2>2, <2>3
  <2>6. \A i \in 1..Len(behind) - 1 : behind'[i] = behind[i + 1] /\ i + 1 \in 1..Len(behind)
    BY <1>2, <2>1, <2>2, <2>3, <2>4
  <2>7. behind'[Len(behind)] = loc
    BY <1>2, <2>1, <2>2, <2>3
  <2>8. ASSUME NEW i \in 1..Len(behind)
        PROVE  behind'[i].path \in Paths
    <3>1. CASE i = Len(behind)
      BY <2>7, <3>1 DEF UrlInv
    <3>2. CASE i # Len(behind)
      <4>1. i \in 1..Len(behind) - 1
        BY <2>2, <3>2
      <4> QED BY <2>6, <4>1 DEF UrlInv
    <3> QED BY <3>1, <3>2
  <2> QED BY <1>3, <2>5, <2>8 DEF UrlInv
<1> QED BY <1>4, <1>5

\* Back takes the last entry.
LEMMA WentBack ==
  ASSUME UrlInv, GoBack
  PROVE  UrlInv'
<1>1. PICK S : behind \in Seq(S)
  BY DEF UrlInv
<1>2. /\ behind # <<>> /\ loc' = behind[Len(behind)] /\ moves' = moves
      /\ behind' = SubSeq(behind, 1, Len(behind) - 1)
  BY DEF GoBack, Last, Front
<1>3. Len(behind) \in Nat /\ Len(behind) > 0
  BY <1>1, <1>2
<1> DEFINE n == Len(behind) - 1
<1>4. n \in Nat /\ n <= Len(behind) /\ Len(behind) \in 1..Len(behind) /\ \A i \in 1..n : behind[i] \in S
  BY <1>1, <1>3
<1>5. behind' = SubSeq(behind, 1, n)
  BY <1>2
<1> HIDE DEF n
<1>6. /\ SubSeq(behind, 1, n) \in Seq(S)
      /\ Len(SubSeq(behind, 1, n)) = IF 1 <= n THEN n - 1 + 1 ELSE 0
      /\ \A i \in 1..n - 1 + 1 : SubSeq(behind, 1, n)[i] = behind[1 + i - 1]
  BY <1>4, SubSeqProperties
<1>7. behind' \in Seq(S) /\ Len(behind') = n /\ \A i \in 1..n : behind'[i] = behind[i]
  BY <1>4, <1>5, <1>6
<1>8. \A i \in 1..n : i \in 1..Len(behind)
  BY <1>3, <1>4
<1>9. loc'.path \in Paths
  BY <1>2, <1>4 DEF UrlInv
<1> QED BY <1>2, <1>7, <1>8, <1>9 DEF UrlInv

\* Each step leads to a path the console knows.
LEMMA UrlKept ==
  ASSUME UrlInv, [Next]_vars
  PROVE  UrlInv'
<1>1. CASE UNCHANGED url
  BY <1>1 DEF url, UrlInv
<1>2. ASSUME NEW to, to.path \in Paths, Replace(to) \/ SendOn(to)
      PROVE  UrlInv'
  <2>1. loc' = to /\ behind' = behind /\ moves' \in 0..MaxMoves
    BY <1>2, AppAssumption DEF Replace, SendOn, UrlInv
  <2> QED BY <1>2, <2>1 DEF UrlInv
<1>3. loc.path \in Paths
  BY DEF UrlInv
<1> QED BY <1>1, <1>2, <1>3, UrlKinds, Pushed, WentBack DEF Moved

\* The palette and the drawer are open or not.
LEMMA ShellKept ==
  ASSUME paletteOpen \in BOOLEAN, navOpen \in BOOLEAN, [Next]_vars
  PROVE  paletteOpen' \in BOOLEAN /\ navOpen' \in BOOLEAN
<1>1. CASE OnOverview \/ OnProbes \/ OnAlertsPage \/ Back \/ Redirect
  BY <1>1 DEF OnOverview, OnProbes, OnAlertsPage, Back, Redirect, ShellFollows
<1>2. CASE TableRenders \/ RowsRender \/ Boot \/ StrictUnmount \/ Live \/ Stores \/ UNCHANGED vars
  BY <1>2 DEF TableRenders, RowsRender, Boot, StrictUnmount, Live, Stores, vars, shell
<1>3. CASE TogglePalette \/ OpenNav \/ ReloadConsole
  BY <1>3 DEF TogglePalette, OpenNav, ReloadConsole
<1>4. CASE (\E to \in Commands : RunCommand(to)) \/ (\E to \in NavTargets : FollowNav(to))
  BY <1>4 DEF RunCommand, FollowNav, ShellFollows
<1> QED BY <1>1, <1>2, <1>3, <1>4 DEF Next

(* The inductive invariant of the console. *)
AppInv ==
  /\ ConsoleInv /\ UrlInv /\ FeedInv /\ FleetInv /\ RowsInv
  /\ paletteOpen \in BOOLEAN /\ navOpen \in BOOLEAN

\* It says that the overview is sound.
LEMMA AppSound == AppInv => OverviewIsSound
<1> SUFFICES ASSUME AppInv
             PROVE  TypeOK /\ TagsAreASet /\ DraftIsOfItsServer
  BY DEF OverviewIsSound
<1>1. StoreTypeOK /\ ProbesTypeOK
  BY DEF AppInv, ConsoleInv, StoreInv, ProbesInv
<1>2. OverviewTypeOK
  <2>1. ToSet(order) \subseteq Servers
    BY DEF AppInv, RowsInv, Sinks, ToSet
  <2>2. ToSet(tagDraft) \subseteq Tags
    BY DEF AppInv, ConsoleInv, DialogInv, ToSet
  <2>3. /\ dialog.kind \in {"none", "tags", "removal"} /\ dialog.from \in {"list", "sheet"}
        /\ dialog.server \in Servers \cup {Nobody} /\ draftOf \in Servers \cup {Nobody}
    BY DEF AppInv, ConsoleInv, DialogInv
  <2> QED BY <2>1, <2>2, <2>3 DEF OverviewTypeOK
<1>3. TypeOK
  BY <1>1, <1>2 DEF AppInv, UrlInv, FeedInv, TypeOK
<1>4. TagsAreASet
  BY ServersTags DEF AppInv, ConsoleInv, TagsAreASet
<1>5. DraftIsOfItsServer
  BY DEF AppInv, ConsoleInv, DialogInv, DraftIsOfItsServer
<1> QED BY <1>3, <1>4, <1>5

(* The types of the console; every server has at most MAX_TAGS tags and none
   twice, and a tags dialog holds the draft of the server it will save to, also
   when the palette moves an open sheet to another server
   (node-tags-dialog.tsx:51-70, server-sheet.tsx:91-95). *)
THEOREM OverviewSound == Spec => []OverviewIsSound
<1>1. Init => AppInv
  <2> SUFFICES ASSUME Init
               PROVE  AppInv
    OBVIOUS
  <2>1. loc \in Landing /\ behind = <<>> /\ moves \in 0..MaxMoves
        /\ paletteOpen = FALSE /\ navOpen = FALSE
    BY DEF Init
  <2>2. behind \in Seq({}) /\ Len(behind) = 0
    BY <2>1
  <2>3. UrlInv
    BY <2>1, <2>2, AppAssumption DEF UrlInv
  <2> QED BY <2>1, <2>3, InitConsole, InitFeedInv, InitFleet, InitRows DEF AppInv, ConsoleInv
<1>2. AppInv /\ [Next]_vars => AppInv'
  BY ConsoleKept, UrlKept, FeedKept, FleetKept, RowsKept, ShellKept DEF AppInv
<1> QED BY <1>1, <1>2, AppSound, PTL DEF Spec

-----------------------------------------------------------------------------
(* One act, one entry.                                                       *)

\* The entries are those of a key, of a row under a key, and of a field of a row.
LEMMA EntryIs ==
  ASSUME NEW v
  PROVE  /\ \A k : Entry(v, <<k>>) = v[k]
         /\ \A k, i : Entry(v, <<k, i>>) = v[k][i]
         /\ \A k, i, f : Entry(v, <<k, i, f>>) = v[k][i][f]
<1>1. \A k : Len(<<k>>) = 1 /\ <<k>>[1] = k
  OBVIOUS
<1>2. \A k, i : Len(<<k, i>>) = 2 /\ <<k, i>>[1] = k /\ <<k, i>>[2] = i
  OBVIOUS
<1>3. \A k, i, f : Len(<<k, i, f>>) = 3 /\ <<k, i, f>>[1] = k /\ <<k, i, f>>[2] = i /\ <<k, i, f>>[3] = f
  OBVIOUS
<1> QED BY <1>1, <1>2, <1>3 DEF Entry

\* Nothing but e is another entry.
ButFor(e, v, w) == \A d \in Entries(v) : d # e => Entry(v, d) = Entry(w, d)

\* Then at most one has changed.
LEMMA AtMostOne ==
  ASSUME NEW e, NEW v, NEW w, ButFor(e, v, w)
  PROVE  Cardinality(Changed(v, w)) <= 1
<1>1. Changed(v, w) \subseteq {e}
  BY DEF Changed, ButFor
<1>2. Changed(v, w) = {} \/ Changed(v, w) = {e}
  BY <1>1
<1>3. Cardinality({}) = 0 /\ Cardinality({e}) = 1
  BY FS_EmptySet, FS_Singleton
<1> QED BY <1>2, <1>3

(* What an act may write under the key k so that only the entry e changes. *)
Writes(e, k, old, new) ==
  \/ e = <<k>> /\ k \notin {"probeEnabled", "ruleEnabled", "nodes"}
  \/ /\ k \in {"probeEnabled", "ruleEnabled"}
     /\ \E i : e = <<k, i>> /\ \A j \in DOMAIN old : j # i => new[j] = old[j]
  \/ /\ k = "nodes"
     /\ \E s \in Servers, f \in {"tags", "maintenance"} :
          /\ e = <<k, s, f>>
          /\ \A u \in Servers, g \in {"tags", "maintenance"} :
               u # s \/ g # f => new[u][g] = old[u][g]

\* Such a write changes that entry only, and nothing in the other tab.
LEMMA OneEntry ==
  ASSUME NEW t \in Tabs, NEW k, NEW x, Wrote(t, k, x), NEW e, Writes(e, k, settings[t][k], x)
  PROVE  \A u \in Tabs : Cardinality(Changed(settings[u], settings'[u])) <= 1
<1> DEFINE v == settings[t]
           w == settings'[t]
<1>1. \A j \in Keys : w[j] = IF j = k THEN x ELSE v[j]
  BY DEF Wrote
<1>2. k \in Keys /\ Writes(e, k, v[k], x)
  BY DEF Wrote
<1>3. \A u \in Tabs \ {t} : settings'[u] = settings[u]
  BY DEF Wrote
<1> HIDE DEF v, w
<1>4. ASSUME NEW d \in Entries(v), d # e
      PROVE  Entry(v, d) = Entry(w, d)
  <2>1. CASE \E j \in {"siteName", "timezone", "tokens", "probesRemoved", "probesCreated",
                       "telegram", "retention"} : d = <<j>>
    <3>1. PICK j \in Keys \ {"probeEnabled", "ruleEnabled", "nodes"} : d = <<j>>
      BY <2>1, KeysAre
    <3>2. j # k
      BY <1>2, <1>4, <3>1 DEF Writes
    <3> QED BY <1>1, <3>1, <3>2, EntryIs
  <2>2. CASE \E j \in {"probeEnabled", "ruleEnabled"} : \E i \in DOMAIN v[j] : d = <<j, i>>
    <3>1. PICK j \in {"probeEnabled", "ruleEnabled"} : \E i \in DOMAIN v[j] : d = <<j, i>>
      BY <2>2
    <3>2. PICK i \in DOMAIN v[j] : d = <<j, i>>
      BY <3>1
    <3>3. w[j][i] = v[j][i]
      <4>1. CASE j # k
        BY <1>1, <4>1, KeysAre
      <4>2. CASE j = k
        <5>1. PICK h : e = <<k, h>> /\ \A m \in DOMAIN v[k] : m # h => x[m] = v[k][m]
          BY <1>2, <4>2 DEF Writes
        <5>2. i # h
          BY <1>4, <3>2, <4>2, <5>1
        <5> QED BY <1>1, <1>2, <3>2, <4>2, <5>1, <5>2
      <4> QED BY <4>1, <4>2
    <3> QED BY <3>2, <3>3, EntryIs
  <2>3. CASE \E s \in Servers, f \in {"tags", "maintenance"} : d = <<"nodes", s, f>>
    <3>1. PICK s \in Servers, f \in {"tags", "maintenance"} : d = <<"nodes", s, f>>
      BY <2>3
    <3>2. w["nodes"][s][f] = v["nodes"][s][f]
      <4>1. CASE "nodes" # k
        BY <1>1, <4>1, KeysAre
      <4>2. CASE "nodes" = k
        <5>1. PICK r \in Servers, h \in {"tags", "maintenance"} :
                /\ e = <<k, r, h>>
                /\ \A u \in Servers, g \in {"tags", "maintenance"} :
                     u # r \/ g # h => x[u][g] = v[k][u][g]
          BY <1>2, <4>2 DEF Writes
        <5>2. s # r \/ f # h
          BY <1>4, <3>1, <4>2, <5>1
        <5> QED BY <1>1, <1>2, <4>2, <5>1, <5>2
      <4> QED BY <4>1, <4>2
    <3> QED BY <3>1, <3>2, EntryIs
  <2> QED BY <1>4, <2>1, <2>2, <2>3 DEF Entries
<1>5. Cardinality(Changed(v, w)) <= 1
  BY <1>4, AtMostOne DEF ButFor
<1>6. ASSUME NEW u \in Tabs, u # t
      PROVE  Cardinality(Changed(settings[u], settings'[u])) <= 1
  <2>1. settings'[u] = settings[u]
    BY <1>3, <1>6
  <2>2. ButFor(e, settings[u], settings'[u])
    BY <2>1 DEF ButFor
  <2> QED BY <2>2, AtMostOne
<1> QED BY <1>5, <1>6 DEF v, w

\* Each act writes one entry.
LEMMA ActsAreSingle ==
  ASSUME ConsoleInv, [Next]_vars, saves' = saves + 1
  PROVE  \A u \in Tabs : Cardinality(Changed(settings[u], settings'[u])) <= 1
<1>0. StoreInv /\ DialogInv /\ deleting \in Probes \cup NewProbes \cup {Nobody} /\ saves \in Nat
  BY DEF ConsoleInv, ProbesInv, ProbesTypeOK, StoreInv, StoreTypeOK
<1>1. Here \in Tabs /\ Other \in Tabs
  BY DEF Tabs
<1>2. CASE UNCHANGED store \/ ReloadConsole
  <2>1. saves' = saves
    BY <1>2 DEF store, ReloadConsole, Reload
  <2> QED BY <1>0, <2>1
<1>3. CASE StoreStep /\ ~OtherSaves
  <2>1. saves' = saves
    BY <1>3 DEF StoreStep, Persist, PersistFails, OpenOther, CloseOther
  <2> QED BY <1>0, <2>1
<1>4. ASSUME NEW t \in Tabs, NEW k \in {"probeEnabled", "ruleEnabled"}, NEW i, NEW on,
             Wrote(t, k, [settings[t][k] EXCEPT ![i] = on])
      PROVE  \A u \in Tabs : Cardinality(Changed(settings[u], settings'[u])) <= 1
  <2> DEFINE x == [settings[t][k] EXCEPT ![i] = on]
             e == <<k, i>>
  <2>1. Writes(e, k, settings[t][k], x)
    BY <1>4 DEF Writes
  <2>2. Wrote(t, k, x)
    BY <1>4
  <2> HIDE DEF x, e
  <2> QED BY <2>1, <2>2, OneEntry
<1>5. ASSUME NEW k \in {"probesRemoved", "probesCreated"}, NEW x, Wrote(Here, k, x)
      PROVE  \A u \in Tabs : Cardinality(Changed(settings[u], settings'[u])) <= 1
  <2> DEFINE e == <<k>>
  <2>1. Writes(e, k, settings[Here][k], x)
    BY <1>5 DEF Writes
  <2> HIDE DEF e
  <2> QED BY <1>1, <1>5, <2>1, OneEntry
<1>6. ASSUME NEW s \in Servers, NEW tags, NEW on,
             tags = Mine.nodes[s].tags \/ on = Mine.nodes[s].maintenance,
             Wrote(Here, "nodes",
                   [u \in Servers |-> IF u = s THEN [tags |-> tags, maintenance |-> on] ELSE Mine.nodes[u]])
      PROVE  \A u \in Tabs : Cardinality(Changed(settings[u], settings'[u])) <= 1
  <2> DEFINE x == [u \in Servers |-> IF u = s THEN [tags |-> tags, maintenance |-> on] ELSE Mine.nodes[u]]
             f == IF tags = Mine.nodes[s].tags THEN "maintenance" ELSE "tags"
             e == <<"nodes", s, f>>
  <2>1. ASSUME NEW u \in Servers, NEW g \in {"tags", "maintenance"}, u # s \/ g # f
        PROVE  x[u][g] = settings[Here]["nodes"][u][g]
    BY <1>6, <2>1 DEF Mine
  <2>2. Wrote(Here, "nodes", x) /\ f \in {"tags", "maintenance"}
    BY <1>6
  <2> HIDE DEF x, f
  <2>3. Writes(e, "nodes", settings[Here]["nodes"], x)
    BY <2>1, <2>2 DEF Writes
  <2> HIDE DEF e
  <2> QED BY <1>1, <2>2, <2>3, OneEntry
<1>7. CASE OtherSaves
  <2>1. PICK r \in Rules : Wrote(Other, "ruleEnabled", [settings[Other].ruleEnabled EXCEPT ![r] = FALSE])
    BY <1>0, <1>7, OtherActs
  <2>2. Wrote(Other, "ruleEnabled", [settings[Other]["ruleEnabled"] EXCEPT ![r] = FALSE])
    BY <2>1
  <2> QED BY <1>1, <1>4, <2>2
<1>8. ASSUME NEW r \in Rules, SwitchRule(r)
      PROVE  \A u \in Tabs : Cardinality(Changed(settings[u], settings'[u])) <= 1
  <2>1. PICK on \in BOOLEAN : Wrote(Here, "ruleEnabled", [Mine.ruleEnabled EXCEPT ![r] = on])
    BY <1>0, <1>8, RuleActs
  <2>2. Wrote(Here, "ruleEnabled", [settings[Here]["ruleEnabled"] EXCEPT ![r] = on])
    BY <2>1 DEF Mine
  <2> QED BY <1>1, <1>4, <2>2
<1>9. ASSUME NEW p \in Probes \cup NewProbes, SwitchProbe(p)
      PROVE  \A u \in Tabs : Cardinality(Changed(settings[u], settings'[u])) <= 1
  <2>1. PICK on \in BOOLEAN : Wrote(Here, "probeEnabled", [Mine.probeEnabled EXCEPT ![p] = on])
    BY <1>0, <1>9, ProbeActs
  <2>2. Wrote(Here, "probeEnabled", [settings[Here]["probeEnabled"] EXCEPT ![p] = on])
    BY <2>1 DEF Mine
  <2> QED BY <1>1, <1>4, <2>2
<1>10. CASE CreateProbe
  <2>1. \E x : Wrote(Here, "probesCreated", x)
    BY <1>0, <1>10, CreateActs
  <2> QED BY <1>5, <2>1
<1>11. CASE DeleteProbe
  <2>1. \E k \in {"probesRemoved", "probesCreated"} : \E x : Wrote(Here, k, x)
    BY <1>0, <1>11, DeleteActs
  <2> QED BY <1>5, <2>1
<1>12. CASE SaveTags
  <2>1. PICK s \in Servers, tags \in {Unset, tagDraft} :
          Wrote(Here, "nodes",
                [u \in Servers |-> IF u = s THEN [tags |-> tags, maintenance |-> Mine.nodes[s].maintenance]
                                   ELSE Mine.nodes[u]])
    BY <1>0, <1>12, SaveTagsActs
  <2> DEFINE on == Mine.nodes[s].maintenance
  <2>2. /\ on = Mine.nodes[s].maintenance
        /\ Wrote(Here, "nodes",
                 [u \in Servers |-> IF u = s THEN [tags |-> tags, maintenance |-> on] ELSE Mine.nodes[u]])
    BY <2>1
  <2> HIDE DEF on
  <2> QED BY <1>6, <2>2
<1>13. ASSUME NEW s \in Servers, ToggleMaintenance(s)
       PROVE  \A u \in Tabs : Cardinality(Changed(settings[u], settings'[u])) <= 1
  <2>1. PICK on \in BOOLEAN :
          Wrote(Here, "nodes",
                [u \in Servers |-> IF u = s THEN [tags |-> Mine.nodes[s].tags, maintenance |-> on]
                                   ELSE Mine.nodes[u]])
    BY <1>0, <1>13, MaintenanceActs
  <2> DEFINE tags == Mine.nodes[s].tags
  <2>2. /\ tags = Mine.nodes[s].tags
        /\ Wrote(Here, "nodes",
                 [u \in Servers |-> IF u = s THEN [tags |-> tags, maintenance |-> on] ELSE Mine.nodes[u]])
    BY <2>1
  <2> HIDE DEF tags
  <2> QED BY <1>6, <2>2
<1> QED BY <1>2, <1>3, <1>7, <1>8, <1>9, <1>10, <1>11, <1>12, <1>13, StoreKinds

(* One act of the user changes one thing: a switch, a dialog or a form never takes
   with it the tags, the maintenance or the switch of another row, nor the other
   field of the same row (settings-provider.tsx:95-168). *)
THEOREM OneAtATime == Spec => OneActOneEntry
<1> DEFINE Single == saves' = saves + 1 =>
             \A t \in Tabs : IsOpen(t) /\ settings'[t] # Closed =>
               LET changed == Changed(settings[t], settings'[t])
               IN  Cardinality(changed) <= 1
<1>1. ConsoleInv /\ [Next]_vars => Single
  BY ActsAreSingle
<1>2. ConsoleInv /\ [Next]_vars => [Single]_store
  BY <1>1
<1>3. ConsoleInv /\ [Next]_vars => ConsoleInv'
  BY ConsoleKept
<1>4. Init => ConsoleInv
  BY InitConsole DEF ConsoleInv
<1> QED BY <1>2, <1>3, <1>4, PTL DEF Spec, OneActOneEntry
=============================================================================
