-------------------------- MODULE AlertEngineProofs --------------------------
(* Proofs about AlertEngine for all rules, targets, workers, loaders and     *)
(* bounds.                                                                   *)
EXTENDS AlertEngine, TLAPS

USE DEF Never, Time, Stamp

\* A worker that starts has a set of well-formed items.
LEMMA BeginType ==
  ASSUME TypeOK, NEW w \in Workers, NEW items \in SUBSET Item, Begin(w, items)
  PROVE  TypeOK'
<1>1. spent' \in Budget
  <2>1. spent \in Budget /\ MaxOverlaps \in Nat
    BY EngineAssumption DEF TypeOK
  <2>2. CASE Overlaps(w)
    <3>1. spent.overlaps < MaxOverlaps /\ spent' = [spent EXCEPT !.overlaps = @ + 1]
      BY <2>2 DEF Begin
    <3>2. spent.overlaps + 1 \in 0..MaxOverlaps
      BY <2>1, <3>1 DEF Budget
    <3> QED BY <2>1, <3>1, <3>2 DEF Budget
  <2>3. CASE ~Overlaps(w)
    BY <2>1, <2>3 DEF Begin
  <2> QED BY <2>2, <2>3
<1>2. /\ pc' \in [Workers -> {"idle", "listed", "loop", "upsert", "notify"}]
      /\ todo' \in [Workers -> SUBSET Item] /\ at' \in [Workers -> Time]
      /\ \A v \in Workers : pc'[v] = "upsert" => job'[v].row \in Recorded
  BY DEF Begin, TypeOK
<1> QED BY <1>1, <1>2 DEF Begin, TypeOK, tables, memory, history, accidents

\* An item of work is one of a rule and a target.
LEMMA ItemType ==
  ASSUME NEW r \in Rules, NEW t \in Targets, NEW b \in BOOLEAN, NEW c \in BOOLEAN
  PROVE  [rule |-> r, target |-> t, breach |-> b, counted |-> c, streak |-> 0] \in Item
BY DEF Item

\* A report takes up well-typed work.
LEMMA ObserveMetricType ==
  ASSUME TypeOK, NEW w \in Workers, NEW t \in Targets, ObserveMetric(w, t)
  PROVE  TypeOK'
<1>1. PICK breaching \in SUBSET EnabledRules("metric") :
        Begin(w, {[rule |-> r, target |-> t, breach |-> r \in breaching,
                   counted |-> TRUE, streak |-> 0] : r \in EnabledRules("metric")})
  BY DEF ObserveMetric
<1>2. {[rule |-> r, target |-> t, breach |-> r \in breaching, counted |-> TRUE, streak |-> 0] :
         r \in EnabledRules("metric")} \in SUBSET Item
  <2> SUFFICES ASSUME NEW r \in EnabledRules("metric")
               PROVE  [rule |-> r, target |-> t, breach |-> r \in breaching,
                       counted |-> TRUE, streak |-> 0] \in Item
    OBVIOUS
  <2>1. (r \in breaching) \in BOOLEAN
    OBVIOUS
  <2> QED BY <2>1, ItemType DEF EnabledRules
<1> QED BY <1>1, <1>2, BeginType

\* So does the result of a probe.
LEMMA ObserveProbeType ==
  ASSUME TypeOK, NEW w \in Workers, NEW t \in Targets, ObserveProbe(w, t)
  PROVE  TypeOK'
<1>1. PICK failed \in BOOLEAN :
        Begin(w, {[rule |-> r, target |-> t, breach |-> failed,
                   counted |-> FALSE, streak |-> 0] : r \in EnabledRules("probe")})
  BY DEF ObserveProbe
<1>2. {[rule |-> r, target |-> t, breach |-> failed, counted |-> FALSE, streak |-> 0] :
         r \in EnabledRules("probe")} \in SUBSET Item
  <2> SUFFICES ASSUME NEW r \in EnabledRules("probe")
               PROVE  [rule |-> r, target |-> t, breach |-> failed,
                       counted |-> FALSE, streak |-> 0] \in Item
    OBVIOUS
  <2> QED BY ItemType DEF EnabledRules
<1> QED BY <1>1, <1>2, BeginType

\* So does a round of the offline checker.
LEMMA CheckOfflineType ==
  ASSUME TypeOK, ListAgents \/ CheckOffline
  PROVE  TypeOK'
<1>1. OfflineItems \in SUBSET Item
  <2> SUFFICES ASSUME NEW p \in EnabledRules("offline") \X Targets
               PROVE  [rule |-> p[1], target |-> p[2], breach |-> Overdue(p[1], p[2]),
                       counted |-> TRUE, streak |-> 0] \in Item
    BY DEF OfflineItems
  <2>1. p[1] \in Rules /\ p[2] \in Targets
    BY DEF EnabledRules
  <2>2. Overdue(p[1], p[2]) \in BOOLEAN
    BY DEF Overdue
  <2> QED BY <2>1, <2>2, ItemType
<1>2. Checker \in Workers
  BY EngineAssumption
<1>3. /\ pc' \in [Workers -> {"idle", "listed", "loop", "upsert", "notify"}]
      /\ todo' \in [Workers -> SUBSET Item] /\ at' \in [Workers -> Time]
      /\ listed' \in [Targets -> Stamp]
      /\ \A v \in Workers : pc'[v] = "upsert" => job'[v].row \in Recorded
  BY <1>1, <1>2 DEF ListAgents, CheckOffline, NoList, TypeOK
<1> QED BY <1>3 DEF ListAgents, CheckOffline, TypeOK, tables, memory, history, accidents

\* Reading the probe's failures keeps the work well typed.
LEMMA CountFailsType ==
  ASSUME TypeOK, NEW w \in Workers, CountFails(w)
  PROVE  TypeOK'
<1>1. PICK i \in todo[w] :
        /\ probeFails' = [probeFails EXCEPT ![<<i.rule, i.target>>] =
                            FailCount(<<i.rule, i.target>>, i.breach)]
        /\ streak' = [streak EXCEPT ![<<i.rule, i.target>>] = Streak(i)]
        /\ todo' = [todo EXCEPT ![w] =
             (@ \ {i}) \cup {[i EXCEPT !.breach =
                 FailCount(<<i.rule, i.target>>, i.breach) >= Threshold[i.rule],
                                      !.counted = TRUE, !.streak = Streak(i)]}]
  BY DEF CountFails
<1>2. i \in Item /\ <<i.rule, i.target>> \in Keys
  BY DEF TypeOK, Item, Keys
<1>3. FailCount(<<i.rule, i.target>>, i.breach) \in Nat /\ Streak(i) \in Nat
  BY <1>2 DEF TypeOK, FailCount, Streak
<1>4. probeFails' \in [Keys -> Nat] /\ streak' \in [Keys -> Nat]
  BY <1>1, <1>3 DEF TypeOK
<1>5. [i EXCEPT !.breach = FailCount(<<i.rule, i.target>>, i.breach) >= Threshold[i.rule],
                !.counted = TRUE, !.streak = Streak(i)] \in Item
  <2> DEFINE b == FailCount(<<i.rule, i.target>>, i.breach) >= Threshold[i.rule]
  <2>1. b \in BOOLEAN
    OBVIOUS
  <2> HIDE DEF b
  <2>2. [i EXCEPT !.breach = b, !.counted = TRUE, !.streak = Streak(i)] \in Item
    BY <1>2, <1>3, <2>1 DEF Item
  <2> QED BY <2>2 DEF b
<1>6. todo' \in [Workers -> SUBSET Item]
  BY <1>1, <1>5 DEF TypeOK
<1>8. UNCHANGED <<now, tables, rules, events, pending, pc, at, listed, job, loader, spent,
                  breachRun, announced, decided, accidents>>
  BY DEF CountFails
<1> QED BY <1>4, <1>6, <1>8 DEF TypeOK, tables, accidents

\* What evaluate leaves to do once an item is handled.
LEMMA ResumeType ==
  ASSUME NEW left
  PROVE  Resume(left) \in {"idle", "loop"}
BY DEF Resume

\* An item that comes to nothing leaves well-typed work behind.
LEMMA SkipType ==
  ASSUME TypeOK, NEW w \in Workers, NEW i \in todo[w], Skip(w, i),
         pending' \in [Keys -> Stamp], breachRun' \in [Keys -> SUBSET Time]
  PROVE  TypeOK'
<1>1. pc' \in [Workers -> {"idle", "listed", "loop", "upsert", "notify"}]
  BY ResumeType DEF TypeOK, Skip
<1>2. todo' \in [Workers -> SUBSET Item]
  BY DEF TypeOK, Skip
<1>3. \A v \in Workers : pc'[v] = "upsert" => job'[v].row \in Recorded
  BY DEF TypeOK, Skip, Resume
<1> QED BY <1>1, <1>2, <1>3 DEF TypeOK, Skip, tables, accidents

\* An item that fires or recovers leaves a well-typed row and notice.
LEMMA PublishType ==
  ASSUME TypeOK, NEW w \in Workers, NEW i \in todo[w],
         NEW row \in Recorded, NEW notice \in Notice, Publish(w, i, row, notice),
         pending' \in [Keys -> Stamp], breachRun' \in [Keys -> SUBSET Time]
  PROVE  TypeOK'
<1>1. KeyOf(i) \in Keys
  BY DEF TypeOK, Item, Keys, KeyOf
<1>2. events' \in [Keys -> Event]
  BY <1>1 DEF TypeOK, Publish, Event
<1>3. [key |-> KeyOf(i), row |-> row, notice |-> notice] \in Job
  BY <1>1 DEF Job, Event
<1>4. /\ job' \in [Workers -> Job]
      /\ \A v \in Workers : pc'[v] = "upsert" => job'[v].row \in Recorded
  BY <1>3 DEF TypeOK, Publish
<1>5. decided' \in [Keys -> Stamp]
  BY <1>1 DEF TypeOK, Publish
<1>6. /\ todo' \in [Workers -> SUBSET Item]
      /\ pc' \in [Workers -> {"idle", "listed", "loop", "upsert", "notify"}]
  BY DEF TypeOK, Publish
<1>7. astray' \subseteq Keys /\ disturbed' \subseteq Keys
  BY <1>1 DEF TypeOK, Publish
<1> QED BY <1>2, <1>4, <1>5, <1>6, <1>7 DEF TypeOK, Publish, tables

\* Whatever an evaluation does with an item, the types hold.
LEMMA EvaluateType ==
  ASSUME TypeOK, NEW w \in Workers, Evaluate(w)
  PROVE  TypeOK'
<1>1. PICK i \in todo[w] : \/ Refresh(w, i) \/ Hold(w, i) \/ Arm(w, i)
                            \/ Fire(w, i) \/ Resolve(w, i) \/ Quiet(w, i)
  BY DEF Evaluate
<1> DEFINE k == KeyOf(i)
<1>2. k \in Keys /\ i.rule \in Rules /\ at[w] \in Nat /\ events[k] \in Event
  BY DEF TypeOK, Item, Keys, KeyOf
<1>3. ASSUME Breached(w, i) \/ Cleared(i)
      PROVE  breachRun' \in [Keys -> SUBSET Time]
  BY <1>2, <1>3 DEF TypeOK, Breached, Cleared
<1>4. CASE Refresh(w, i)
  <2>1. [events[k] EXCEPT !.updated = at[w]] \in Recorded
    BY <1>2, <1>4 DEF Refresh, Firing, Event, NoEvent, Recorded
  <2>2. "none" \in Notice
    BY DEF Notice
  <2>3. /\ Publish(w, i, [events[k] EXCEPT !.updated = at[w]], "none")
        /\ Breached(w, i) /\ pending' = pending
    BY <1>4 DEF Refresh
  <2>4. pending' \in [Keys -> Stamp]
    BY <2>3 DEF TypeOK
  <2> QED BY <1>3, <2>1, <2>2, <2>3, <2>4, PublishType
<1>5. CASE Hold(w, i)
  BY <1>3, <1>5, SkipType DEF Hold, TypeOK
<1>6. CASE Arm(w, i)
  <2>1. pending' \in [Keys -> Stamp]
    BY <1>2, <1>6 DEF Arm, TypeOK
  <2> QED BY <1>3, <1>6, <2>1, SkipType DEF Arm
<1>7. CASE Fire(w, i)
  <2>1. FiringEvent(w, k) \in Recorded
    BY <1>2 DEF TypeOK, FiringEvent, Since, CooledDown, Event, NoEvent, Recorded
  <2>2. (IF CooledDown(w, k) THEN "firing" ELSE "none") \in Notice
    BY DEF Notice
  <2>3. /\ Publish(w, i, FiringEvent(w, k), IF CooledDown(w, k) THEN "firing" ELSE "none")
        /\ Breached(w, i) /\ pending' = [pending EXCEPT ![k] = Never]
    BY <1>7 DEF Fire
  <2>4. pending' \in [Keys -> Stamp]
    BY <1>2, <2>3 DEF TypeOK
  <2> HIDE DEF k
  <2> QED BY <1>3, <2>1, <2>2, <2>3, <2>4, PublishType
<1>8. CASE Resolve(w, i)
  <2>1. ResolvedEvent(w, k) \in Recorded
    <3>1. events[k] \in Recorded
      BY <1>2, <1>8 DEF Resolve, Firing, Event, NoEvent
    <3> QED BY <1>2, <3>1 DEF ResolvedEvent, Recorded
  <2>2. "resolved" \in Notice
    BY DEF Notice
  <2>3. /\ Publish(w, i, ResolvedEvent(w, k), "resolved")
        /\ Cleared(i) /\ pending' = [pending EXCEPT ![k] = Never]
    BY <1>8 DEF Resolve
  <2>4. pending' \in [Keys -> Stamp]
    BY <1>2, <2>3 DEF TypeOK
  <2> QED BY <1>3, <2>1, <2>2, <2>3, <2>4, PublishType
<1>9. CASE Quiet(w, i)
  <2>1. pending' \in [Keys -> Stamp]
    BY <1>2, <1>9 DEF Quiet, TypeOK
  <2> QED BY <1>3, <1>9, <2>1, SkipType DEF Quiet
<1> QED BY <1>1, <1>4, <1>5, <1>6, <1>7, <1>8, <1>9

\* Writing the row, failing to, and telling the notifier keep the types.
LEMMA PublishedType ==
  ASSUME TypeOK, NEW w \in Workers, Upsert(w) \/ UpsertFails(w) \/ Notify(w)
  PROVE  TypeOK'
<1>1. /\ job[w].key \in Keys /\ job[w].row \in Event /\ job[w].notice \in Notice
      /\ Resume(todo[w]) \in {"idle", "loop"}
  BY ResumeType DEF TypeOK, Job
<1>2. CASE Upsert(w)
  <2>1. eventRow[job[w].key] \in Event
    BY <1>1 DEF TypeOK
  <2>2. StoredRow(eventRow[job[w].key], job[w].row) \in Event
    <3>1. job[w].row \in Recorded
      BY <1>2 DEF Upsert, TypeOK
    <3>2. eventRow[job[w].key].state # "none" => eventRow[job[w].key] \in Recorded
      BY <2>1 DEF Event, NoEvent
    <3> QED BY <3>1, <3>2 DEF StoredRow, Event, Recorded
  <2>3. eventRow' \in [Keys -> Event]
    BY <1>1, <1>2, <2>2 DEF Upsert, TypeOK
  <2>4. announced' \in [Keys -> SUBSET (Notice \cup {"again"})]
    BY <1>1, <1>2 DEF Upsert, TypeOK
  <2>5. pc' \in [Workers -> {"idle", "listed", "loop", "upsert", "notify"}]
    BY <1>1, <1>2 DEF Upsert, AfterUpsert, TypeOK
  <2>6. \A v \in Workers : pc'[v] = "upsert" => job'[v].row \in Recorded
    BY <1>1, <1>2 DEF Upsert, AfterUpsert, TypeOK
  <2>7. astray' \subseteq Keys /\ disturbed' \subseteq Keys
    BY <1>2 DEF Upsert, TypeOK
  <2> QED BY <1>2, <2>3, <2>4, <2>5, <2>6, <2>7 DEF Upsert, TypeOK, memory
<1>3. CASE UpsertFails(w)
  <2>1. spent' \in Budget
    BY <1>3, EngineAssumption DEF UpsertFails, TypeOK, Budget
  <2>2. pc' \in [Workers -> {"idle", "listed", "loop", "upsert", "notify"}]
    BY <1>1, <1>3 DEF UpsertFails, AfterUpsert, TypeOK
  <2>3. \A v \in Workers : pc'[v] = "upsert" => job'[v].row \in Recorded
    BY <1>1, <1>3 DEF UpsertFails, AfterUpsert, TypeOK
  <2>4. astray' \subseteq Keys /\ disturbed' \subseteq Keys
    BY <1>1, <1>3 DEF UpsertFails, TypeOK
  <2> QED BY <1>3, <2>1, <2>2, <2>3, <2>4 DEF UpsertFails, TypeOK, memory, tables
<1>4. CASE Notify(w)
  <2>1. pc' \in [Workers -> {"idle", "listed", "loop", "upsert", "notify"}]
    BY <1>1, <1>4 DEF Notify, TypeOK
  <2>2. announced' \in [Keys -> SUBSET (Notice \cup {"again"})]
    BY <1>1, <1>4 DEF Notify, Heard, TypeOK
  <2>3. \A v \in Workers : pc'[v] = "upsert" => job'[v].row \in Recorded
    BY <1>1, <1>4 DEF Notify, TypeOK
  <2> QED BY <1>4, <2>1, <2>2, <2>3 DEF Notify, TypeOK, memory, tables, accidents
<1> QED BY <1>2, <1>3, <1>4

\* Saving a rule and the steps of Reload.
LEMMA LoaderType ==
  ASSUME TypeOK, NEW l \in Loaders,
         \/ LoaderStep(l) \/ LoadFails(l)
         \/ \E r \in Rules, state \in RuleState : SaveRule(l, r, state)
  PROVE  TypeOK'
<1>1. loader[l] \in Loader
  BY DEF TypeOK
<1>2. IdleLoader \in Loader
  BY DEF IdleLoader, Loader, NoRules, NoEvents, RuleState, Event
<1>3. CASE LoadRules(l)
  <2>1. [loader[l] EXCEPT !.pc = "events", !.rules = ruleRow] \in Loader
    BY <1>1 DEF Loader, TypeOK
  <2>2. loader' \in [Loaders -> Loader]
    BY <1>3, <2>1 DEF LoadRules, TypeOK
  <2> QED BY <1>3, <2>2 DEF LoadRules, TypeOK, tables, memory, work, history, accidents
<1>4. CASE LoadEvents(l)
  <2>1. FiringRows \in [Keys -> Event]
    BY DEF FiringRows, TypeOK, Event
  <2>2. [loader[l] EXCEPT !.pc = "swap", !.events = FiringRows, !.firing = OnRecord] \in Loader
    BY <1>1, <2>1 DEF Loader, OnRecord
  <2>3. loader' \in [Loaders -> Loader]
    BY <1>4, <2>2 DEF LoadEvents, TypeOK
  <2> QED BY <1>4, <2>3 DEF LoadEvents, TypeOK, tables, memory, work, history, accidents
<1>5. CASE Swap(l)
  <2>1. rules' \in [Rules -> RuleState] /\ events' \in [Keys -> Event]
    BY <1>1, <1>5 DEF Swap, Loader
  <2>2. loader' \in [Loaders -> Loader]
    BY <1>2, <1>5 DEF Swap, TypeOK
  <2>3. astray' \subseteq Keys /\ disturbed' \subseteq Keys
    BY <1>5 DEF Swap, TypeOK
  <2> QED BY <1>5, <2>1, <2>2, <2>3 DEF Swap, TypeOK, tables, work
<1>6. CASE LoadFails(l)
  <2>1. spent' \in Budget
    BY <1>6, EngineAssumption DEF LoadFails, TypeOK, Budget
  <2>2. loader' \in [Loaders -> Loader]
    BY <1>2, <1>6 DEF LoadFails, TypeOK
  <2> QED BY <1>6, <2>1, <2>2 DEF LoadFails, TypeOK, tables, memory, work, history, accidents
<1>7. ASSUME NEW r \in Rules, NEW state \in RuleState, SaveRule(l, r, state)
      PROVE  TypeOK'
  <2>1. spent' \in Budget
    BY <1>7, EngineAssumption DEF SaveRule, TypeOK, Budget
  <2>2. [loader[l] EXCEPT !.pc = "rules"] \in Loader
    BY <1>1 DEF Loader
  <2>3. loader' \in [Loaders -> Loader]
    BY <1>7, <2>2 DEF SaveRule, TypeOK
  <2>4. ruleRow' \in [Rules -> RuleState]
    BY <1>7 DEF SaveRule, TypeOK
  <2> QED BY <1>7, <2>1, <2>3, <2>4 DEF SaveRule, TypeOK, memory, work, history, accidents
<1> QED BY <1>3, <1>4, <1>5, <1>6, <1>7 DEF LoaderStep

\* The clock, the agents table, the retention and the restart.
LEMMA EnvironmentType ==
  ASSUME TypeOK,
         \/ Tick \/ Cleanup \/ Crash
         \/ \E t \in Targets : Touch(t) \/ Hello(t) \/ DeleteAgent(t)
  PROVE  TypeOK'
<1>1. CASE Tick
  <2>1. now' \in Time
    BY <1>1 DEF Tick, TypeOK
  <2> QED BY <1>1, <2>1 DEF Tick, TypeOK, tables, memory, work, history, accidents
<1>2. CASE Cleanup
  <2>1. eventRow' \in [Keys -> Event]
    BY <1>2 DEF Cleanup, TypeOK, Event
  <2>2. astray' \subseteq Keys /\ disturbed' \subseteq Keys
    BY <1>2 DEF Cleanup, TakenFromMemory, TakenWhileTold, TypeOK
  <2> QED BY <1>2, <2>1, <2>2 DEF Cleanup, TypeOK, memory, work
<1>3. CASE Crash
  <2>1. spent' \in Budget
    <3>1. spent \in Budget
      BY DEF TypeOK
    <3>2. spent.crashes < MaxCrashes /\ spent' = [spent EXCEPT !.crashes = @ + 1]
      BY <1>3 DEF Crash
    <3>3. spent.crashes + 1 \in 0..MaxCrashes
      BY <3>1, <3>2, EngineAssumption DEF Budget
    <3> QED BY <3>1, <3>2, <3>3 DEF Budget
  <2>2. IdleLoader \in Loader /\ [IdleLoader EXCEPT !.pc = "rules"] \in Loader
    BY DEF IdleLoader, Loader, NoRules, NoEvents, RuleState, Event
  <2>3. loader' \in [Loaders -> Loader]
    BY <1>3, <2>2 DEF Crash
  <2>4. /\ rules' \in [Rules -> RuleState]
        /\ events' \in [Keys -> Event]
        /\ pending' \in [Keys -> Stamp]
        /\ probeFails' \in [Keys -> Nat]
    BY <1>3 DEF Crash, NoRules, NoEvents, RuleState, Event
  <2>5. /\ pc' \in [Workers -> {"idle", "listed", "loop", "upsert", "notify"}]
        /\ todo' \in [Workers -> SUBSET Item]
        /\ listed' \in [Targets -> Stamp]
        /\ astray' \subseteq Keys
        /\ \A v \in Workers : pc'[v] = "upsert" => job'[v].row \in Recorded
    BY <1>3 DEF Crash, NoList, OnRecord
  <2> QED BY <1>3, <2>1, <2>3, <2>4, <2>5 DEF Crash, TypeOK, tables
<1>4. ASSUME NEW t \in Targets, Touch(t) \/ Hello(t)
      PROVE  TypeOK'
  <2>1. seenRow' \in [Targets -> Stamp]
    BY <1>4 DEF Touch, Hello, TypeOK
  <2> QED BY <1>4, <2>1 DEF Touch, Hello, TypeOK, memory, work, history, accidents
<1>5. ASSUME NEW t \in Targets, DeleteAgent(t)
      PROVE  TypeOK'
  <2>1. spent' \in Budget
    BY <1>5, EngineAssumption DEF DeleteAgent, TypeOK, Budget
  <2>2. seenRow' \in [Targets -> Stamp]
    BY <1>5 DEF DeleteAgent, TypeOK
  <2> QED BY <1>5, <2>1, <2>2 DEF DeleteAgent, TypeOK, memory, work, history, accidents
<1> QED BY <1>1, <1>2, <1>3, <1>4, <1>5

-----------------------------------------------------------------------------
(* Type correctness.                                                         *)

\* The engine starts well typed.
LEMMA InitType == Init => TypeOK
<1> SUFFICES ASSUME Init
             PROVE  TypeOK
  OBVIOUS
<1>1. NoEvent \in Event /\ NoRules \in [Rules -> RuleState] /\ NoEvents \in [Keys -> Event]
  BY DEF Event, NoRules, NoEvents, RuleState
<1>2. IdleLoader \in Loader /\ [IdleLoader EXCEPT !.pc = "rules"] \in Loader
  BY <1>1 DEF IdleLoader, Loader
<1>3. loader \in [Loaders -> Loader]
  BY <1>2 DEF Init
<1>4. job \in [Workers -> Job]
  BY <1>1 DEF Init, Job, Notice
<1>5. now \in Nat
  BY EngineAssumption DEF Init
<1> QED BY <1>1, <1>3, <1>4, <1>5 DEF Init, TypeOK, NoList, RuleState, Notice

\* Every step of the engine keeps the types.
LEMMA NextType == TypeOK /\ [Next]_vars => TypeOK'
<1> SUFFICES ASSUME TypeOK, [Next]_vars
             PROVE  TypeOK'
  OBVIOUS
<1>1. ASSUME NEW w \in Workers, WorkerStep(w) \/ UpsertFails(w)
      PROVE  TypeOK'
  BY <1>1, CountFailsType, EvaluateType, PublishedType DEF WorkerStep
<1>2. ASSUME NEW w \in Workers, NEW t \in Targets, ObserveMetric(w, t) \/ ObserveProbe(w, t)
      PROVE  TypeOK'
  BY <1>2, ObserveMetricType, ObserveProbeType
<1>3. CASE ListAgents \/ CheckOffline
  BY <1>3, CheckOfflineType
<1>4. ASSUME NEW l \in Loaders,
             \/ LoaderStep(l) \/ LoadFails(l)
             \/ \E r \in Rules, state \in RuleState : SaveRule(l, r, state)
      PROVE  TypeOK'
  BY <1>4, LoaderType
<1>5. CASE \/ Tick \/ Cleanup \/ Crash
           \/ \E t \in Targets : Touch(t) \/ Hello(t) \/ DeleteAgent(t)
  BY <1>5, EnvironmentType
<1>6. CASE UNCHANGED vars
  BY <1>6 DEF vars, TypeOK, tables, memory, work, history, accidents
<1> QED BY <1>1, <1>2, <1>3, <1>4, <1>5, <1>6 DEF Next

\* Every variable of the engine keeps its type, whatever goroutines, reloads,
\* failed statements and restarts interleave; in particular an event that is
\* written or published always carries its three times.
THEOREM TypeCorrect == Spec => []TypeOK
BY InitType, NextType, PTL DEF Spec

-----------------------------------------------------------------------------
(* A metric alert fires only after an unbroken run of breaches that spans    *)
(* for_seconds.  The invariant is PendingIsABreach: the entry evaluate armed *)
(* is still the time of a breach with no clear evaluation after it.          *)

\* An evaluation marks as pending only what breaches.
LEMMA EvaluateKeepsPending ==
  ASSUME TypeOK, PendingIsABreach, NEW w \in Workers, Evaluate(w)
  PROVE  PendingIsABreach'
<1>1. PICK i \in todo[w] : \/ Refresh(w, i) \/ Hold(w, i) \/ Arm(w, i)
                            \/ Fire(w, i) \/ Resolve(w, i) \/ Quiet(w, i)
  BY DEF Evaluate
<1>2. KeyOf(i) \in Keys /\ at[w] \in Nat
  BY DEF TypeOK, Item, Keys, KeyOf
<1> SUFFICES ASSUME NEW k \in Keys, pending'[k] # Never
             PROVE  pending'[k] \in breachRun'[k]
  BY DEF PendingIsABreach
<1>3. CASE Refresh(w, i) \/ Hold(w, i)
  BY <1>2, <1>3 DEF Refresh, Hold, Breached, Skip, PendingIsABreach, TypeOK
<1>4. CASE Arm(w, i)
  BY <1>2, <1>4 DEF Arm, Breached, PendingIsABreach, TypeOK
<1>5. CASE Fire(w, i)
  BY <1>2, <1>5 DEF Fire, Breached, PendingIsABreach, TypeOK
<1>6. CASE Resolve(w, i) \/ Quiet(w, i)
  BY <1>2, <1>6 DEF Resolve, Quiet, Cleared, PendingIsABreach, TypeOK
<1> QED BY <1>1, <1>3, <1>4, <1>5, <1>6

\* Every other step leaves the pending marks, or forgets them.
LEMMA PendingStep == TypeOK /\ PendingIsABreach /\ [Next]_vars => PendingIsABreach'
<1> SUFFICES ASSUME TypeOK, PendingIsABreach, [Next]_vars
             PROVE  PendingIsABreach'
  OBVIOUS
<1>1. ASSUME NEW w \in Workers, Evaluate(w)
      PROVE  PendingIsABreach'
  BY <1>1, EvaluateKeepsPending
<1>2. ASSUME NEW w \in Workers, CountFails(w) \/ Upsert(w) \/ UpsertFails(w) \/ Notify(w)
      PROVE  PendingIsABreach'
  BY <1>2 DEF CountFails, Upsert, UpsertFails, Notify, memory, history, accidents, PendingIsABreach
<1>3. ASSUME NEW w \in Workers, NEW t \in Targets, ObserveMetric(w, t) \/ ObserveProbe(w, t)
      PROVE  PendingIsABreach'
  BY <1>3 DEF ObserveMetric, ObserveProbe, Begin, memory, history, accidents, PendingIsABreach
<1>4. CASE ListAgents \/ CheckOffline
  BY <1>4 DEF ListAgents, CheckOffline, memory, history, accidents, PendingIsABreach
<1>5. ASSUME NEW l \in Loaders,
             \/ LoaderStep(l) \/ LoadFails(l)
             \/ \E r \in Rules, state \in RuleState : SaveRule(l, r, state)
      PROVE  PendingIsABreach'
  BY <1>5 DEF LoaderStep, LoadRules, LoadEvents, Swap, LoadFails, SaveRule, memory,
              history, accidents, PendingIsABreach
<1>6. CASE Crash
  BY <1>6 DEF Crash, PendingIsABreach
<1>7. CASE \/ Tick \/ Cleanup
           \/ \E t \in Targets : Touch(t) \/ Hello(t) \/ DeleteAgent(t)
  BY <1>7 DEF Tick, Cleanup, Touch, Hello, DeleteAgent, memory, history, accidents, PendingIsABreach
<1>8. CASE UNCHANGED vars
  BY <1>8 DEF vars, memory, history, accidents, PendingIsABreach
<1> QED BY <1>1, <1>2, <1>3, <1>4, <1>5, <1>6, <1>7, <1>8 DEF Next, WorkerStep

\* A pending entry dates from a breach that no evaluation has cleared since:
\* delete(e.pending, key) in evaluate keeps up with every clear evaluation.
THEOREM PendingCorrect == Spec => []PendingIsABreach
<1>1. Init => PendingIsABreach
  BY DEF Init, PendingIsABreach
<1> QED BY <1>1, TypeCorrect, PendingStep, PTL DEF Spec

\* Only an evaluation turns an event firing while no reload moves.
LEMMA FiresInEvaluate ==
  ASSUME TypeOK, [Next]_vars, NEW k \in Keys, Fires(k)
  PROVE  \E w \in Workers : Evaluate(w)
<1>2. ASSUME NEW w \in Workers, CountFails(w) \/ Upsert(w) \/ UpsertFails(w) \/ Notify(w)
      PROVE  FALSE
  BY <1>2 DEF CountFails, Upsert, UpsertFails, Notify, memory, Fires
<1>3. ASSUME NEW w \in Workers, NEW t \in Targets, ObserveMetric(w, t) \/ ObserveProbe(w, t)
      PROVE  FALSE
  BY <1>3 DEF ObserveMetric, ObserveProbe, Begin, memory, Fires
<1>4. ~ListAgents /\ ~CheckOffline
  BY DEF ListAgents, CheckOffline, memory, Fires
<1>5. ASSUME NEW l \in Loaders,
             \/ LoadRules(l) \/ LoadEvents(l) \/ LoadFails(l)
             \/ \E r \in Rules, state \in RuleState : SaveRule(l, r, state)
      PROVE  FALSE
  BY <1>5 DEF LoadRules, LoadEvents, LoadFails, SaveRule, memory, Fires
<1>6. ASSUME NEW l \in Loaders, Swap(l)
      PROVE  FALSE
  <2>1. loader[l].pc = "swap" /\ loader'[l] = IdleLoader
    BY <1>6 DEF Swap, TypeOK
  <2> QED BY <2>1 DEF Fires, IdleLoader
<1>7. ~Crash
  BY DEF Crash, Fires, NoEvents, NoEvent
<1>8. ~(\/ Tick \/ Cleanup
        \/ \E t \in Targets : Touch(t) \/ Hello(t) \/ DeleteAgent(t))
  BY DEF Tick, Cleanup, Touch, Hello, DeleteAgent, memory, Fires
<1>9. ~UNCHANGED vars
  BY DEF vars, memory, Fires
<1> QED BY <1>2, <1>3, <1>4, <1>5, <1>6, <1>7, <1>8, <1>9
        DEF Next, WorkerStep, LoaderStep

\* The evaluation that turns an event firing is Fire, of an item of its key.
LEMMA FiresIsFire ==
  ASSUME TypeOK, NEW k \in Keys, Fires(k), NEW w \in Workers, Evaluate(w)
  PROVE  \E i \in todo[w] : k = KeyOf(i) /\ k[1] = i.rule /\ Fire(w, i)
<1>1. PICK i \in todo[w] : \/ Refresh(w, i) \/ Hold(w, i) \/ Arm(w, i)
                            \/ Fire(w, i) \/ Resolve(w, i) \/ Quiet(w, i)
  BY DEF Evaluate
<1>2. KeyOf(i) \in Keys /\ KeyOf(i)[1] = i.rule
  BY DEF TypeOK, Item, Keys, KeyOf
<1>3. ~Hold(w, i) /\ ~Arm(w, i) /\ ~Quiet(w, i)
  BY DEF Hold, Arm, Quiet, Skip, Fires
<1>4. ~Refresh(w, i) /\ ~Resolve(w, i)
  BY <1>2 DEF Refresh, Resolve, ResolvedEvent, Firing, Publish, Fires, TypeOK
<1>5. Fire(w, i)
  BY <1>1, <1>3, <1>4
<1>6. k = KeyOf(i)
  BY <1>2, <1>5 DEF Fire, Publish, Fires, TypeOK
<1> QED BY <1>2, <1>5, <1>6

\* A step that turns a metric alert firing ends an unbroken run of breaches.
LEMMA FiresHeld ==
  ASSUME TypeOK, PendingIsABreach, [Next]_vars,
         NEW k \in Keys, Fires(k), Kind[k[1]] = "metric"
  PROVE  /\ events'[k].started \in breachRun'[k]
         /\ events'[k].updated - events'[k].started >= ForSeconds[k[1]]
<1>1. PICK w \in Workers : Evaluate(w)
  BY FiresInEvaluate
<1>2. PICK i \in todo[w] : k = KeyOf(i) /\ k[1] = i.rule /\ Fire(w, i)
  BY <1>1, FiresIsFire
<1>3. events'[k] = FiringEvent(w, k)
  BY <1>2 DEF Fire, Publish, TypeOK
<1>4. pending[k] # Never /\ at[w] - pending[k] >= ForSeconds[k[1]]
  BY <1>2 DEF Fire, Held
<1>5. events'[k].started = pending[k] /\ events'[k].updated = at[w]
  BY <1>3, <1>4 DEF FiringEvent, Since
<1>6. pending[k] \in breachRun'[k]
  BY <1>2, <1>4 DEF Fire, Breached, PendingIsABreach, TypeOK
<1> QED BY <1>4, <1>5, <1>6

\* evaluate turns a metric rule firing only at the end of an unbroken run of
\* breaches, started_at being the first of them, that spans for_seconds: for
\* any number of sessions, reloads, failed statements and restarts.
THEOREM HeldUnbroken == Spec => MetricHeldUnbroken
<1>1. TypeOK /\ PendingIsABreach /\ [Next]_vars =>
        [\A k \in Keys : Fires(k) /\ Kind[k[1]] = "metric" =>
           /\ events'[k].started \in breachRun'[k]
           /\ events'[k].updated - events'[k].started >= ForSeconds[k[1]]]_vars
  BY FiresHeld
<1> QED BY <1>1, TypeCorrect, PendingCorrect, PTL DEF Spec, MetricHeldUnbroken

-----------------------------------------------------------------------------
(* What an evaluation does, in the terms the remaining proofs need.          *)

\* evaluate leaves without an event, or publishes one: a refresh says nothing
\* and keeps the time of the last notice, a notice is dated, only an event that
\* fires is resolved, and a firing is told of only after the cooldown.
LEMMA Outcome ==
  ASSUME TypeOK, NEW w \in Workers, Evaluate(w)
  PROVE  \E i \in todo[w] :
           /\ Deciding(w, i) /\ KeyOf(i) \in Keys /\ KeyOf(i)[1] = i.rule
           /\ \/ Skip(w, i)
              \/ \E row \in Recorded, notice \in Notice :
                   /\ Publish(w, i, row, notice)
                   /\ notice = "none" =>
                        row.state = "firing" /\ row.notified = events[KeyOf(i)].notified
                   /\ notice # "none" => row.state = notice /\ row.notified = at[w]
                   /\ row.state = "resolved" => Firing(i)
                   /\ notice = "firing" =>
                        ~Firing(i) /\ CooledDown(w, KeyOf(i))
<1>1. PICK i \in todo[w] : \/ Refresh(w, i) \/ Hold(w, i) \/ Arm(w, i)
                            \/ Fire(w, i) \/ Resolve(w, i) \/ Quiet(w, i)
  BY DEF Evaluate
<1> DEFINE k == KeyOf(i)
           Chosen(row, notice) ==
             /\ Publish(w, i, row, notice)
             /\ notice = "none" => row.state = "firing" /\ row.notified = events[k].notified
             /\ notice # "none" => row.state = notice /\ row.notified = at[w]
             /\ row.state = "resolved" => Firing(i)
             /\ notice = "firing" => ~Firing(i) /\ CooledDown(w, k)
<1>2. k \in Keys /\ at[w] \in Nat /\ events[k] \in Event /\ k[1] = i.rule
  BY DEF TypeOK, Item, Keys, KeyOf
<1>3. Deciding(w, i)
  BY <1>1 DEF Refresh, Hold, Arm, Fire, Resolve, Quiet
<1>4. {"none", "firing", "resolved"} = Notice
  BY DEF Notice
<1>5. CASE Hold(w, i) \/ Arm(w, i) \/ Quiet(w, i)
  BY <1>2, <1>3, <1>5 DEF Hold, Arm, Quiet
<1>6. CASE Refresh(w, i)
  <2> DEFINE row == [events[k] EXCEPT !.updated = at[w]]
  <2>1. Firing(i) /\ Publish(w, i, row, "none")
    BY <1>6 DEF Refresh
  <2>2. events[k] \in Recorded /\ events[k].state = "firing"
    BY <1>2, <2>1 DEF Firing, Event, NoEvent
  <2>3. row \in Recorded /\ row.state = "firing" /\ row.notified = events[k].notified
    BY <1>2, <2>2 DEF Recorded
  <2>4. Chosen(row, "none")
    BY <2>1, <2>3
  <2> HIDE DEF row, Chosen
  <2>5. \E r \in Recorded, notice \in Notice : Chosen(r, notice)
    BY <1>4, <2>3, <2>4
  <2> QED BY <1>2, <1>3, <2>5 DEF Chosen
<1>7. CASE Fire(w, i)
  <2> DEFINE row == FiringEvent(w, k)
             word == IF CooledDown(w, k) THEN "firing" ELSE "none"
  <2>1. ~Firing(i) /\ Publish(w, i, row, word)
    BY <1>7 DEF Fire
  <2>2. row \in Recorded
    BY <1>2 DEF TypeOK, FiringEvent, Since, CooledDown, Event, NoEvent, Recorded
  <2>3. /\ row.state = "firing"
        /\ row.notified = IF CooledDown(w, k) THEN at[w] ELSE events[k].notified
    BY DEF FiringEvent
  <2>4. Chosen(row, word) /\ word \in Notice
    <3>1. CASE CooledDown(w, k)
      BY <1>4, <2>1, <2>3, <3>1
    <3>2. CASE ~CooledDown(w, k)
      BY <1>4, <2>1, <2>3, <3>2
    <3> QED BY <3>1, <3>2
  <2> HIDE DEF row, word, Chosen
  <2>5. \E r \in Recorded, notice \in Notice : Chosen(r, notice)
    BY <2>2, <2>4
  <2> QED BY <1>2, <1>3, <2>5 DEF Chosen
<1>8. CASE Resolve(w, i)
  <2> DEFINE row == ResolvedEvent(w, k)
  <2>1. Firing(i) /\ Publish(w, i, row, "resolved")
    BY <1>8 DEF Resolve
  <2>2. events[k] \in Recorded
    BY <1>2, <2>1 DEF Firing, Event, NoEvent
  <2>3. row \in Recorded /\ row.state = "resolved" /\ row.notified = at[w]
    BY <1>2, <2>2 DEF ResolvedEvent, Recorded
  <2>4. Chosen(row, "resolved")
    BY <2>1, <2>3
  <2> HIDE DEF row, Chosen
  <2>5. \E r \in Recorded, notice \in Notice : Chosen(r, notice)
    BY <1>4, <2>3, <2>4
  <2> QED BY <1>2, <1>3, <2>5 DEF Chosen
<1> QED BY <1>1, <1>5, <1>6, <1>7, <1>8

-----------------------------------------------------------------------------
(* The cooldown.  The invariant says that the time of the last notice that   *)
(* evaluate decided on is the one its event carries; after a restart, until  *)
(* the first reload, there is no event, but no rule to evaluate either.      *)

\* The process has restarted and Reload has not run: evaluate has nothing to do.
Restarted ==
    /\ \A r \in Rules : rules[r] # "enabled"
    /\ \A w \in Workers : todo[w] = {}

\* The last notice decided on is the one that the event is dated by.
NoticesAreDated ==
    \A k \in Keys : decided[k] # Never => events[k].notified = decided[k] \/ Restarted

\* No worker starts while no rule is enabled.
LEMMA NothingToBegin ==
  ASSUME \A r \in Rules : rules[r] # "enabled"
  PROVE  /\ OfflineItems = {}
         /\ \A w \in Workers, t \in Targets : ~ObserveMetric(w, t) /\ ~ObserveProbe(w, t)
<1>1. \A kind : EnabledRules(kind) = {}
  BY DEF EnabledRules
<1> QED BY <1>1 DEF OfflineItems, ObserveMetric, ObserveProbe, Begin

\* Every step keeps the events dated by their last notice.
LEMMA DatedStep ==
  ASSUME TypeOK, NoticesAreDated, [Next]_vars
  PROVE  NoticesAreDated'
<1>1. ASSUME NEW w \in Workers, Evaluate(w)
      PROVE  NoticesAreDated'
  <2>1. PICK i \in todo[w] :
          /\ Deciding(w, i) /\ KeyOf(i) \in Keys /\ KeyOf(i)[1] = i.rule
          /\ \/ Skip(w, i)
             \/ \E row \in Recorded, notice \in Notice :
                  /\ Publish(w, i, row, notice)
                  /\ notice = "none" =>
                       row.state = "firing" /\ row.notified = events[KeyOf(i)].notified
                  /\ notice # "none" => row.state = notice /\ row.notified = at[w]
                  /\ row.state = "resolved" => Firing(i)
                  /\ notice = "firing" =>
                       ~Firing(i) /\ CooledDown(w, KeyOf(i))
    BY <1>1, Outcome
  <2>2. ~Restarted
    BY <2>1 DEF Restarted
  <2>3. CASE Skip(w, i)
    BY <2>2, <2>3 DEF Skip, NoticesAreDated
  <2>4. ASSUME NEW row \in Recorded, NEW notice \in Notice, Publish(w, i, row, notice),
               notice = "none" => row.notified = events[KeyOf(i)].notified,
               notice # "none" => row.notified = at[w]
        PROVE  NoticesAreDated'
    <3> SUFFICES ASSUME NEW k \in Keys, decided'[k] # Never
                 PROVE  events'[k].notified = decided'[k]
      BY DEF NoticesAreDated
    <3>1. CASE k = KeyOf(i)
      BY <2>1, <2>2, <2>4, <3>1 DEF Publish, TypeOK, NoticesAreDated
    <3>2. CASE k # KeyOf(i)
      BY <2>1, <2>2, <2>4, <3>2 DEF Publish, TypeOK, NoticesAreDated
    <3> QED BY <3>1, <3>2
  <2> QED BY <2>1, <2>3, <2>4
<1>2. ASSUME NEW w \in Workers, CountFails(w)
      PROVE  NoticesAreDated'
  <2>1. ~Restarted
    BY <1>2 DEF CountFails, Restarted
  <2> QED BY <1>2, <2>1 DEF CountFails, NoticesAreDated
<1>3. ASSUME NEW w \in Workers, Upsert(w) \/ UpsertFails(w) \/ Notify(w)
      PROVE  NoticesAreDated'
  BY <1>3 DEF Upsert, UpsertFails, Notify, memory, history, accidents, NoticesAreDated, Restarted
<1>4. ASSUME \E w \in Workers, t \in Targets : ObserveMetric(w, t) \/ ObserveProbe(w, t)
      PROVE  NoticesAreDated'
  <2>1. ~Restarted
    BY <1>4, NothingToBegin DEF Restarted
  <2>2. UNCHANGED <<events, decided>>
    BY <1>4 DEF ObserveMetric, ObserveProbe, Begin, memory, history
  <2> QED BY <2>1, <2>2 DEF NoticesAreDated
<1>10. CASE ListAgents \/ CheckOffline
  <2>1. UNCHANGED <<events, rules, decided>>
    BY <1>10 DEF ListAgents, CheckOffline, memory, history
  <2>2. Restarted => Restarted'
    BY <1>10, <2>1, NothingToBegin DEF ListAgents, CheckOffline, Restarted, TypeOK
  <2> QED BY <2>1, <2>2 DEF NoticesAreDated
<1>5. ASSUME NEW l \in Loaders, Swap(l)
      PROVE  NoticesAreDated'
  BY <1>5 DEF Swap, NoticesAreDated
<1>6. ASSUME NEW l \in Loaders,
             \/ LoadRules(l) \/ LoadEvents(l) \/ LoadFails(l)
             \/ \E r \in Rules, state \in RuleState : SaveRule(l, r, state)
      PROVE  NoticesAreDated'
  BY <1>6 DEF LoadRules, LoadEvents, LoadFails, SaveRule, memory, work, history, accidents,
              NoticesAreDated, Restarted
<1>7. CASE Crash
  BY <1>7 DEF Crash, NoRules, NoticesAreDated, Restarted
<1>8. CASE \/ Tick \/ Cleanup
           \/ \E t \in Targets : Touch(t) \/ Hello(t) \/ DeleteAgent(t)
  BY <1>8 DEF Tick, Cleanup, Touch, Hello, DeleteAgent, memory, work, history, accidents,
              NoticesAreDated, Restarted
<1>9. CASE UNCHANGED vars
  BY <1>9 DEF vars, memory, work, history, accidents, NoticesAreDated, Restarted
<1> QED BY <1>1, <1>2, <1>3, <1>4, <1>5, <1>6, <1>7, <1>8, <1>9, <1>10
        DEF Next, WorkerStep, LoaderStep

\* Only an evaluation of a worker takes it to the table.
LEMMA PublishesInEvaluate ==
  ASSUME TypeOK, [Next]_vars, NEW w \in Workers, pc[w] # "upsert", pc'[w] = "upsert"
  PROVE  Evaluate(w)
<1>1. ASSUME NEW v \in Workers, Evaluate(v)
      PROVE  v = w
  <2>1. PICK i \in todo[v] : Skip(v, i) \/ \E row, notice : Publish(v, i, row, notice)
    BY <1>1, Outcome
  <2>2. v # w => pc'[w] = pc[w]
    BY <2>1 DEF Skip, Publish, TypeOK
  <2> QED BY <2>2
<1>2. ASSUME NEW v \in Workers, CountFails(v) \/ Upsert(v) \/ UpsertFails(v) \/ Notify(v)
      PROVE  FALSE
  <2>1. pc \in [Workers -> {"idle", "listed", "loop", "upsert", "notify"}]
    BY DEF TypeOK
  <2>2. pc' = pc \/ pc' = [pc EXCEPT ![v] = Resume(todo[v])]
          \/ pc' = [pc EXCEPT ![v] = "notify"]
    BY <1>2 DEF CountFails, Upsert, UpsertFails, Notify, AfterUpsert
  <2>3. Resume(todo[v]) # "upsert"
    BY DEF Resume
  <2> QED BY <2>1, <2>2, <2>3
<1>3. ~\E v \in Workers, t \in Targets : ObserveMetric(v, t) \/ ObserveProbe(v, t)
  BY DEF ObserveMetric, ObserveProbe, Begin, TypeOK
<1>4. ~ListAgents /\ ~CheckOffline
  BY DEF ListAgents, CheckOffline, TypeOK
<1>5. ~\E l \in Loaders :
         \/ LoaderStep(l) \/ LoadFails(l)
         \/ \E r \in Rules, state \in RuleState : SaveRule(l, r, state)
  BY DEF LoaderStep, LoadRules, LoadEvents, Swap, LoadFails, SaveRule, work
<1>6. ~(\/ Tick \/ Cleanup \/ Crash \/ UNCHANGED vars
        \/ \E t \in Targets : Touch(t) \/ Hello(t) \/ DeleteAgent(t))
  BY DEF Tick, Cleanup, Crash, Touch, Hello, DeleteAgent, vars, work
<1> QED BY <1>1, <1>2, <1>3, <1>4, <1>5, <1>6 DEF Next, WorkerStep

\* A firing notice is decided on a cooldown after the notice before it.
LEMMA AnnouncesCooled ==
  ASSUME TypeOK, NoticesAreDated, [Next]_vars, NEW w \in Workers,
         pc[w] = "loop", pc'[w] = "upsert", job'[w].notice = "firing",
         decided[job'[w].key] # Never
  PROVE  decided'[job'[w].key] - decided[job'[w].key] >= Cooldown[job'[w].key[1]]
<1>1. Evaluate(w)
  BY PublishesInEvaluate
<1>2. PICK i \in todo[w] :
        /\ KeyOf(i) \in Keys /\ KeyOf(i)[1] = i.rule
        /\ \/ Skip(w, i)
           \/ \E row, notice :
                /\ Publish(w, i, row, notice)
                /\ notice = "firing" => CooledDown(w, KeyOf(i))
  BY <1>1, Outcome
<1>3. ~Skip(w, i)
  BY DEF Skip, Resume, TypeOK
<1>4. PICK row, notice :
        /\ Publish(w, i, row, notice)
        /\ notice = "firing" => CooledDown(w, KeyOf(i))
  BY <1>2, <1>3
<1> DEFINE k == KeyOf(i)
<1>5. job'[w] = [key |-> k, row |-> row, notice |-> notice]
  BY <1>4 DEF Publish, TypeOK
<1>6. job'[w].key = k /\ notice = "firing"
  BY <1>5
<1>7. CooledDown(w, k) /\ decided'[k] = at[w]
  BY <1>2, <1>4, <1>6 DEF Publish, TypeOK
<1>8. events[k].notified = decided[k]
  BY <1>2, <1>6 DEF NoticesAreDated, Restarted
<1> QED BY <1>6, <1>7, <1>8 DEF CooledDown

\* Between two reloads, a firing notice is at least cooldown_seconds after the
\* notice before it, of a firing or of a resolution: for any goroutines,
\* failed statements, retention and restarts.
THEOREM CooldownKept == Spec => CooldownRespected
<1>1. Init => NoticesAreDated
  BY DEF Init, NoticesAreDated
<1>2. TypeOK /\ NoticesAreDated /\ [Next]_vars => NoticesAreDated'
  BY DatedStep
<1>3. TypeOK /\ NoticesAreDated /\ [Next]_vars =>
        [\A w \in Workers :
           LET k == job'[w].key
               announces == pc[w] = "loop" /\ pc'[w] = "upsert" /\ job'[w].notice = "firing"
           IN  announces /\ decided[k] # Never =>
                 decided'[k] - decided[k] >= Cooldown[k[1]]]_vars
  BY AnnouncesCooled
<1> QED BY <1>1, <1>2, <1>3, TypeCorrect, PTL DEF Spec, CooldownRespected

-----------------------------------------------------------------------------
(* Probe alerts.  The invariant: the count in memory never runs ahead of the *)
(* streak, and a counted failure that breaches carries the streak it ended,  *)
(* however many results of its key are counted before it is evaluated.       *)

CountIsAStreak ==
    \A k \in Keys : Threshold[k[1]] <= streak[k] \/ probeFails[k] <= streak[k]

BreachEndsAStreak ==
    \A w \in Workers : \A i \in todo[w] :
      Kind[i.rule] = "probe" /\ i.counted /\ i.breach => i.streak >= Threshold[i.rule]

StreakInv == CountIsAStreak /\ BreachEndsAStreak

\* Counting a result keeps both.
LEMMA CountKeepsStreak ==
  ASSUME TypeOK, StreakInv, NEW w \in Workers, CountFails(w)
  PROVE  StreakInv'
<1>1. PICK i \in todo[w] :
        /\ probeFails' = [probeFails EXCEPT ![<<i.rule, i.target>>] =
                            FailCount(<<i.rule, i.target>>, i.breach)]
        /\ streak' = [streak EXCEPT ![<<i.rule, i.target>>] = Streak(i)]
        /\ todo' = [todo EXCEPT ![w] =
             (@ \ {i}) \cup {[i EXCEPT !.breach =
                 FailCount(<<i.rule, i.target>>, i.breach) >= Threshold[i.rule],
                                      !.counted = TRUE, !.streak = Streak(i)]}]
  BY DEF CountFails
<1> DEFINE k == <<i.rule, i.target>>
           fails == FailCount(k, i.breach)
           b == fails >= Threshold[i.rule]
           run == Streak(i)
           j == [i EXCEPT !.breach = b, !.counted = TRUE, !.streak = run]
<1>2. /\ i \in Item /\ k \in Keys /\ i.rule \in Rules /\ k[1] = i.rule
      /\ Threshold[i.rule] \in Nat /\ probeFails[k] \in Nat /\ streak[k] \in Nat
  BY EngineAssumption DEF TypeOK, Item, Keys
<1>3. /\ probeFails' = [probeFails EXCEPT ![k] = fails]
      /\ streak' = [streak EXCEPT ![k] = run]
      /\ todo' = [todo EXCEPT ![w] = (todo[w] \ {i}) \cup {j}]
  BY <1>1
<1>4. Threshold[i.rule] <= run \/ fails <= run
  BY <1>2 DEF FailCount, Streak, StreakInv, CountIsAStreak
<1>5. fails \in Nat /\ run \in Nat
  BY <1>2 DEF FailCount, Streak
<1>6. j.rule = i.rule /\ (j.breach <=> b) /\ j.streak = run
  <2> HIDE DEF b, run
  <2>1. b \in BOOLEAN
    BY DEF b
  <2> QED BY <1>2, <2>1 DEF Item
<1> HIDE DEF k, fails, run, b, j
<1>7. CountIsAStreak'
  <2> SUFFICES ASSUME NEW c \in Keys
               PROVE  Threshold[c[1]] <= streak'[c] \/ probeFails'[c] <= streak'[c]
    BY DEF CountIsAStreak
  <2> QED BY <1>2, <1>3, <1>4 DEF TypeOK, StreakInv, CountIsAStreak
<1>8. BreachEndsAStreak'
  <2> SUFFICES ASSUME NEW v \in Workers, NEW x \in todo'[v],
                      Kind[x.rule] = "probe", x.counted, x.breach
               PROVE  x.streak >= Threshold[x.rule]
    BY DEF BreachEndsAStreak
  <2>1. CASE x \in todo[v]
    BY <2>1 DEF StreakInv, BreachEndsAStreak
  <2>2. CASE x \notin todo[v]
    <3>1. x = j
      BY <1>3, <2>2 DEF TypeOK
    <3>2. fails >= Threshold[i.rule]
      BY <1>6, <3>1 DEF b
    <3> QED BY <1>2, <1>4, <1>5, <1>6, <3>1, <3>2
  <2> QED BY <2>1, <2>2
<1> QED BY <1>7, <1>8 DEF StreakInv

\* Every step keeps both.
LEMMA StreakStep ==
  ASSUME TypeOK, StreakInv, [Next]_vars
  PROVE  StreakInv'
<1>1. ASSUME NEW w \in Workers, CountFails(w)
      PROVE  StreakInv'
  BY <1>1, CountKeepsStreak
<1>2. ASSUME NEW w \in Workers, Evaluate(w)
      PROVE  StreakInv'
  <2>1. PICK i \in todo[w] : Skip(w, i) \/ \E row, notice : Publish(w, i, row, notice)
    BY <1>2, Outcome
  <2>2. UNCHANGED <<probeFails, streak>> /\ todo' = [todo EXCEPT ![w] = @ \ {i}]
    BY <2>1 DEF Skip, Publish
  <2>3. CountIsAStreak'
    BY <2>2 DEF StreakInv, CountIsAStreak
  <2>4. \A v \in Workers : todo'[v] \subseteq todo[v]
    BY <2>2 DEF TypeOK
  <2>5. BreachEndsAStreak'
    BY <2>4 DEF StreakInv, BreachEndsAStreak
  <2> QED BY <2>3, <2>5 DEF StreakInv
<1>3. ASSUME NEW w \in Workers, Upsert(w) \/ UpsertFails(w) \/ Notify(w)
      PROVE  StreakInv'
  BY <1>3 DEF Upsert, UpsertFails, Notify, memory, StreakInv, CountIsAStreak,
              BreachEndsAStreak
<1>4. ASSUME NEW w \in Workers, NEW items, Begin(w, items),
             \A i \in items : Kind[i.rule] = "probe" => ~i.counted
      PROVE  StreakInv'
  <2>1. CountIsAStreak'
    BY <1>4 DEF Begin, memory, history, StreakInv, CountIsAStreak
  <2>2. BreachEndsAStreak'
    BY <1>4 DEF Begin, StreakInv, BreachEndsAStreak, TypeOK
  <2> QED BY <2>1, <2>2 DEF StreakInv
<1>5. ASSUME NEW w \in Workers, NEW t \in Targets, ObserveMetric(w, t)
      PROVE  StreakInv'
  <2>1. PICK breaching :
          Begin(w, {[rule |-> r, target |-> t, breach |-> r \in breaching,
                     counted |-> TRUE, streak |-> 0] : r \in EnabledRules("metric")})
    BY <1>5 DEF ObserveMetric
  <2>2. \A i \in {[rule |-> r, target |-> t, breach |-> r \in breaching,
                   counted |-> TRUE, streak |-> 0] : r \in EnabledRules("metric")} :
          Kind[i.rule] = "metric"
    BY DEF EnabledRules
  <2> QED BY <1>4, <2>1, <2>2
<1>6. ASSUME NEW w \in Workers, NEW t \in Targets, ObserveProbe(w, t)
      PROVE  StreakInv'
  <2>1. PICK failed \in BOOLEAN :
          Begin(w, {[rule |-> r, target |-> t, breach |-> failed,
                     counted |-> FALSE, streak |-> 0] : r \in EnabledRules("probe")})
    BY <1>6 DEF ObserveProbe
  <2> QED BY <1>4, <2>1
<1>7. CASE ListAgents \/ CheckOffline
  <2>1. CountIsAStreak'
    BY <1>7 DEF ListAgents, CheckOffline, memory, history, StreakInv, CountIsAStreak
  <2>2. \A i \in OfflineItems : Kind[i.rule] = "offline"
    BY DEF OfflineItems, EnabledRules
  <2>3. BreachEndsAStreak'
    BY <1>7, <2>2 DEF ListAgents, CheckOffline, StreakInv, BreachEndsAStreak, TypeOK
  <2> QED BY <2>1, <2>3 DEF StreakInv
<1>8. ASSUME NEW l \in Loaders,
             \/ LoaderStep(l) \/ LoadFails(l)
             \/ \E r \in Rules, state \in RuleState : SaveRule(l, r, state)
      PROVE  StreakInv'
  BY <1>8 DEF LoaderStep, LoadRules, LoadEvents, Swap, LoadFails, SaveRule, work, memory,
              history, StreakInv, CountIsAStreak, BreachEndsAStreak
<1>9. CASE Crash
  <2>1. \A k \in Keys : probeFails'[k] = 0 /\ streak'[k] = streak[k] /\ streak[k] >= 0
    BY <1>9 DEF Crash, TypeOK
  <2>2. CountIsAStreak'
    BY <2>1 DEF CountIsAStreak
  <2>3. BreachEndsAStreak'
    BY <1>9 DEF Crash, BreachEndsAStreak
  <2> QED BY <2>2, <2>3 DEF StreakInv
<1>10. CASE \/ Tick \/ Cleanup
            \/ \E t \in Targets : Touch(t) \/ Hello(t) \/ DeleteAgent(t)
  BY <1>10 DEF Tick, Cleanup, Touch, Hello, DeleteAgent, work, memory, history,
               StreakInv, CountIsAStreak, BreachEndsAStreak
<1>11. CASE UNCHANGED vars
  BY <1>11 DEF vars, work, memory, history, StreakInv, CountIsAStreak, BreachEndsAStreak
<1> QED BY <1>1, <1>2, <1>3, <1>5, <1>6, <1>7, <1>8, <1>9, <1>10, <1>11
        DEF Next, WorkerStep

\* The item that turns a probe alert firing ended its streak of failures.
LEMMA FiresOnStreak ==
  ASSUME TypeOK, StreakInv, [Next]_vars, NEW v \in Workers, NEW x \in todo[v] \ todo'[v],
         Kind[x.rule] = "probe", Fires(KeyOf(x))
  PROVE  x.streak >= Threshold[x.rule]
<1>1. KeyOf(x) \in Keys
  BY DEF TypeOK, Item, Keys, KeyOf
<1>2. PICK w \in Workers : Evaluate(w)
  BY <1>1, FiresInEvaluate
<1>3. PICK i \in todo[w] : Fire(w, i)
  BY <1>1, <1>2, FiresIsFire
<1>4. todo' = [todo EXCEPT ![w] = @ \ {i}]
  BY <1>3 DEF Fire, Publish
<1>5. x = i
  BY <1>4 DEF TypeOK
<1> QED BY <1>3, <1>5 DEF Fire, Deciding, StreakInv, BreachEndsAStreak

\* A probe alert fires only on behalf of a result that was counted as the last
\* of `threshold` failures in a row, although the count and the evaluation are
\* two critical sections, any number of goroutines count and evaluate results
\* of the key at once, and a restart loses the counts.
THEOREM StreakKept == Spec => ProbeFiresOnStreak
<1>1. Init => StreakInv
  BY EngineAssumption DEF Init, StreakInv, CountIsAStreak, BreachEndsAStreak
<1>2. TypeOK /\ StreakInv /\ [Next]_vars => StreakInv'
  BY StreakStep
<1>3. TypeOK /\ StreakInv /\ [Next]_vars =>
        [\A w \in Workers : \A i \in todo[w] \ todo'[w] :
           Kind[i.rule] = "probe" /\ Fires(KeyOf(i)) => i.streak >= Threshold[i.rule]]_vars
  BY FiresOnStreak
<1> QED BY <1>1, <1>2, <1>3, TypeCorrect, PTL DEF Spec, ProbeFiresOnStreak

-----------------------------------------------------------------------------
(* The record.  The invariant: short of an accident, every row on its way    *)
(* says what memory holds, and while none is on its way the row says it.     *)

Agrees(k) ==
    /\ ~Crossed(k, IsFiring(events[k]))
    /\ (\A w \in Workers : ~Writing(w, k)) =>
         (IsFiring(eventRow[k]) <=> IsFiring(events[k]))

RecordInv == \A k \in Keys \ astray : Agrees(k)

\* What a loader is about to swap in fires as the table did when it read it.
CopyIsWhole ==
    \A l \in Loaders : loader[l].pc = "swap" =>
      \A k \in Keys : k \in loader[l].firing <=> IsFiring(loader[l].events[k])

\* ListAlertEvents reads every row that fires, and no other.
LEMMA CopyStep == TypeOK /\ CopyIsWhole /\ [Next]_vars => CopyIsWhole'
<1> SUFFICES ASSUME TypeOK, CopyIsWhole, [Next]_vars
             PROVE  CopyIsWhole'
  OBVIOUS
<1>1. CASE UNCHANGED loader
  BY <1>1 DEF CopyIsWhole
<1>2. CASE Crash
  <2>1. \A l \in Loaders : loader'[l].pc # "swap"
    BY <1>2 DEF Crash, IdleLoader
  <2> QED BY <2>1 DEF CopyIsWhole
<1>3. ASSUME NEW l \in Loaders, LoadEvents(l)
      PROVE  CopyIsWhole'
  <2>1. /\ loader'[l].firing = OnRecord /\ loader'[l].events = FiringRows
        /\ \A m \in Loaders \ {l} : loader'[m] = loader[m]
    BY <1>3 DEF LoadEvents, TypeOK, Loader
  <2>2. \A k \in Keys : k \in OnRecord <=> IsFiring(FiringRows[k])
    BY DEF OnRecord, FiringRows, IsFiring, NoEvent
  <2> QED BY <2>1, <2>2 DEF CopyIsWhole
<1>4. ASSUME NEW l \in Loaders, loader'[l].pc # "swap",
             \A m \in Loaders \ {l} : loader'[m] = loader[m]
      PROVE  CopyIsWhole'
  BY <1>4 DEF CopyIsWhole
<1>5. ASSUME NEW l \in Loaders, LoadRules(l)
      PROVE  CopyIsWhole'
  BY <1>4, <1>5 DEF LoadRules, TypeOK
<1>6. ASSUME NEW l \in Loaders, Swap(l) \/ LoadFails(l)
      PROVE  CopyIsWhole'
  BY <1>4, <1>6 DEF Swap, LoadFails, TypeOK, IdleLoader
<1>7. ASSUME NEW l \in Loaders, NEW r \in Rules, NEW state \in RuleState,
             SaveRule(l, r, state)
      PROVE  CopyIsWhole'
  <2>1. loader' = [loader EXCEPT ![l].pc = "rules"]
    BY <1>7 DEF SaveRule
  <2>2. loader'[l].pc # "swap" /\ \A m \in Loaders \ {l} : loader'[m] = loader[m]
    BY <2>1 DEF TypeOK, Loader
  <2> QED BY <1>4, <2>2
<1>8. ASSUME NEW w \in Workers, WorkerStep(w) \/ UpsertFails(w)
      PROVE  UNCHANGED loader
  <2>1. CASE CountFails(w) \/ Upsert(w) \/ UpsertFails(w) \/ Notify(w)
    BY <2>1 DEF CountFails, Upsert, UpsertFails, Notify
  <2>2. ASSUME NEW i \in todo[w], Refresh(w, i) \/ Fire(w, i) \/ Resolve(w, i)
        PROVE  UNCHANGED loader
    BY <2>2 DEF Refresh, Fire, Resolve, Publish
  <2>3. ASSUME NEW i \in todo[w], Hold(w, i) \/ Arm(w, i) \/ Quiet(w, i)
        PROVE  UNCHANGED loader
    BY <2>3 DEF Hold, Arm, Quiet, Skip
  <2> QED BY <1>8, <2>1, <2>2, <2>3 DEF WorkerStep, Evaluate
<1>9. ASSUME NEW w \in Workers, NEW t \in Targets, ObserveMetric(w, t) \/ ObserveProbe(w, t)
      PROVE  UNCHANGED loader
  BY <1>9 DEF ObserveMetric, ObserveProbe, Begin
<1>10. CASE ListAgents \/ CheckOffline \/ Tick \/ Cleanup
  BY <1>1, <1>10 DEF ListAgents, CheckOffline, Tick, Cleanup
<1>11. CASE \E t \in Targets : Touch(t) \/ Hello(t) \/ DeleteAgent(t)
  BY <1>1, <1>11 DEF Touch, Hello, DeleteAgent
<1>12. CASE UNCHANGED vars
  BY <1>1, <1>12 DEF vars
<1> QED BY <1>1, <1>2, <1>3, <1>5, <1>6, <1>7, <1>8, <1>9, <1>10, <1>11, <1>12
        DEF Next, LoaderStep

\* So the events it swaps in fire as the table does, unless they are outdated.
LEMMA CopyIsCurrent ==
  ASSUME CopyIsWhole, NEW l \in Loaders, Swap(l), NEW k \in Keys, ~Outdated(l, k)
  PROVE  /\ IsFiring(events'[k]) <=> IsFiring(eventRow[k])
         /\ ~Crossed(k, IsFiring(events'[k]))
<1>1. events' = loader[l].events /\ (k \in loader[l].firing <=> IsFiring(events'[k]))
  BY DEF Swap, CopyIsWhole
<1>2. (k \in loader[l].firing <=> IsFiring(eventRow[k])) /\ ~Crossed(k, k \in loader[l].firing)
  BY DEF Outdated
<1>3. ~Crossed(k, IsFiring(events'[k]))
  BY <1>1, <1>2 DEF Crossed
<1> QED BY <1>1, <1>2, <1>3

\* A step that moves no row, event or write keeps the record.
LEMMA RecordFrame ==
  ASSUME RecordInv, UNCHANGED <<eventRow, events, astray, job>>,
         \A v \in Workers : pc'[v] = "upsert" <=> pc[v] = "upsert"
  PROVE  RecordInv'
BY DEF RecordInv, Agrees, Crossed, Writing

\* Deciding on an event keeps the record: the decision that crosses another is
\* an accident.
LEMMA EvaluateKeepsRecord ==
  ASSUME TypeOK, RecordInv, NEW w \in Workers, Evaluate(w)
  PROVE  RecordInv'
<1>1. PICK i \in todo[w] :
        /\ Deciding(w, i) /\ KeyOf(i) \in Keys
        /\ Skip(w, i) \/ \E row \in Recorded, notice \in Notice : Publish(w, i, row, notice)
  BY Outcome
<1>2. CASE Skip(w, i)
  <2>1. UNCHANGED <<eventRow, events, astray, job>>
    BY <1>2 DEF Skip, tables, accidents
  <2>2. \A v \in Workers : pc'[v] = "upsert" <=> pc[v] = "upsert"
    BY <1>1, <1>2 DEF Skip, Resume, Deciding, TypeOK
  <2> QED BY <2>1, <2>2, RecordFrame
<1>3. ASSUME NEW row \in Recorded, NEW notice \in Notice, Publish(w, i, row, notice)
      PROVE  RecordInv'
  <2>1. /\ events' = [events EXCEPT ![KeyOf(i)] = row]
        /\ pc' = [pc EXCEPT ![w] = "upsert"]
        /\ job' = [job EXCEPT ![w] = [key |-> KeyOf(i), row |-> row, notice |-> notice]]
        /\ eventRow' = eventRow
        /\ astray' = IF Crossed(KeyOf(i), IsFiring(row)) THEN astray \cup {KeyOf(i)}
                     ELSE astray
    BY <1>3 DEF Publish, tables
  <2>2. pc[w] = "loop"
    BY <1>1 DEF Deciding
  <2>3. job'[w].key = KeyOf(i) /\ job'[w].row = row /\ pc'[w] = "upsert"
    BY <2>1 DEF TypeOK
  <2>4. \A v \in Workers \ {w} : job'[v] = job[v] /\ pc'[v] = pc[v]
    BY <2>1 DEF TypeOK
  <2> SUFFICES ASSUME NEW k \in Keys, k \notin astray'
               PROVE  Agrees(k)'
    BY DEF RecordInv
  <2>5. k \notin astray /\ Agrees(k)
    BY <2>1 DEF RecordInv
  <2>6. CASE k = KeyOf(i)
    <3>1. ~Crossed(k, IsFiring(row))
      BY <2>1, <2>6
    <3>2. events'[k] = row
      BY <2>1, <2>6 DEF TypeOK
    <3>3. ~Crossed(k, IsFiring(events[k]))'
      BY <2>3, <2>4, <3>1, <3>2 DEF Crossed, Writing
    <3>4. Writing(w, k)'
      BY <2>3, <2>6 DEF Writing
    <3> QED BY <3>3, <3>4 DEF Agrees
  <2>7. CASE k # KeyOf(i)
    <3>1. events'[k] = events[k] /\ eventRow'[k] = eventRow[k]
      BY <2>1, <2>7 DEF TypeOK
    <3>2. ~Writing(w, k) /\ ~Writing(w, k)'
      BY <2>2, <2>3, <2>7 DEF Writing
    <3>3. \A v \in Workers : Writing(v, k)' <=> Writing(v, k)
      BY <2>4, <3>2 DEF Writing
    <3>4. ~Crossed(k, IsFiring(events[k]))'
      BY <2>4, <2>5, <3>1, <3>2, <3>3 DEF Agrees, Crossed, Writing
    <3> QED BY <2>5, <3>1, <3>3, <3>4 DEF Agrees
  <2> QED BY <2>6, <2>7
<1> QED BY <1>1, <1>2, <1>3

\* Writing a row, or losing it, keeps the record.
LEMMA UpsertKeepsRecord ==
  ASSUME TypeOK, RecordInv, NEW w \in Workers, Upsert(w) \/ UpsertFails(w)
  PROVE  RecordInv'
<1> DEFINE h == job[w].key
<1>1. pc[w] = "upsert" /\ UNCHANGED <<events, job>>
  BY DEF Upsert, UpsertFails, memory
<1>2. Writing(w, h) /\ h \in Keys
  BY <1>1 DEF Writing, TypeOK, Job
<1>3. pc'[w] # "upsert" /\ \A v \in Workers \ {w} : pc'[v] = pc[v]
  <2>1. pc' = [pc EXCEPT ![w] = AfterUpsert(w)] /\ AfterUpsert(w) # "upsert"
    BY DEF Upsert, UpsertFails, AfterUpsert, Resume
  <2> QED BY <2>1 DEF TypeOK
<1> SUFFICES ASSUME NEW k \in Keys, k \notin astray'
             PROVE  Agrees(k)'
  BY DEF RecordInv
<1>4. k # h => Agrees(k)
  BY DEF Upsert, UpsertFails, RecordInv
<1>5. ~Crossed(k, IsFiring(events[k]))
  <2>1. CASE k = h
    BY <2>1 DEF Upsert, UpsertFails, Repairs, RecordInv, Agrees
  <2>2. CASE k # h
    BY <1>4, <2>2 DEF Agrees
  <2> QED BY <2>1, <2>2
<1>6. ~Crossed(k, IsFiring(events[k]))'
  BY <1>1, <1>3, <1>5 DEF Crossed, Writing
<1>7. CASE k = h
  <2>1. IsFiring(job[w].row) <=> IsFiring(events[k])
    BY <1>2, <1>5, <1>7 DEF Crossed
  <2>2. IsFiring(eventRow[k])' <=> IsFiring(job[w].row)
    <3>1. CASE Upsert(w)
      <4>1. eventRow'[k] = StoredRow(eventRow[k], job[w].row)
        BY <1>2, <1>7, <3>1 DEF Upsert, TypeOK
      <4>2. job[w].row \in Recorded
        BY <1>1 DEF TypeOK
      <4> QED BY <4>1, <4>2 DEF StoredRow, IsFiring, Recorded
    <3>2. CASE UpsertFails(w)
      BY <1>7, <3>2 DEF UpsertFails, tables
    <3> QED BY <3>1, <3>2
  <2>3. events'[k] = events[k]
    BY <1>1
  <2> QED BY <1>6, <2>1, <2>2, <2>3 DEF Agrees, IsFiring
<1>8. CASE k # h
  <2>1. eventRow'[k] = eventRow[k] /\ events'[k] = events[k]
    BY <1>1, <1>8 DEF Upsert, UpsertFails, tables, TypeOK
  <2>2. \A v \in Workers : Writing(v, k)' <=> Writing(v, k)
    BY <1>1, <1>3, <1>8 DEF Writing
  <2> QED BY <1>4, <1>6, <1>8, <2>1, <2>2 DEF Agrees, IsFiring
<1> QED BY <1>7, <1>8

\* Reload keeps the record: what it brings in is current, or an accident.
LEMMA LoaderKeepsRecord ==
  ASSUME TypeOK, CopyIsWhole, RecordInv, NEW l \in Loaders,
         \/ LoaderStep(l) \/ LoadFails(l)
         \/ \E r \in Rules, state \in RuleState : SaveRule(l, r, state)
  PROVE  RecordInv'
<1>1. CASE Swap(l)
  <2>1. /\ events' = loader[l].events
        /\ astray' = {k \in Keys : Outdated(l, k)}
        /\ UNCHANGED <<eventRow, pc, job>>
    BY <1>1 DEF Swap, tables, work
  <2> SUFFICES ASSUME NEW k \in Keys, ~Outdated(l, k)
               PROVE  Agrees(k)'
    BY <2>1 DEF RecordInv
  <2>2. /\ IsFiring(events'[k]) <=> IsFiring(eventRow[k])
        /\ ~Crossed(k, IsFiring(events'[k]))
    BY <1>1, CopyIsCurrent
  <2> QED BY <2>1, <2>2 DEF Agrees, Crossed, Writing, IsFiring
<1>2. ASSUME \/ LoadRules(l) \/ LoadEvents(l) \/ LoadFails(l)
             \/ \E r \in Rules, state \in RuleState : SaveRule(l, r, state)
      PROVE  RecordInv'
  <2>1. UNCHANGED <<eventRow, events, astray, job, pc>>
    BY <1>2 DEF LoadRules, LoadEvents, LoadFails, SaveRule, tables, memory, work, history,
                accidents
  <2> QED BY <2>1, RecordFrame
<1> QED BY <1>1, <1>2 DEF LoaderStep

\* So does every step.
LEMMA RecordStep == TypeOK /\ CopyIsWhole /\ RecordInv /\ [Next]_vars => RecordInv'
<1> SUFFICES ASSUME TypeOK, CopyIsWhole, RecordInv, [Next]_vars
             PROVE  RecordInv'
  OBVIOUS
<1>1. ASSUME NEW w \in Workers, CountFails(w) \/ Notify(w)
      PROVE  RecordInv'
  <2>1. UNCHANGED <<eventRow, events, astray, job>>
    BY <1>1 DEF CountFails, Notify, tables, memory, accidents
  <2>2. \A v \in Workers : pc'[v] = "upsert" <=> pc[v] = "upsert"
    BY <1>1 DEF CountFails, Notify, Resume, TypeOK
  <2> QED BY <2>1, <2>2, RecordFrame
<1>2. ASSUME NEW w \in Workers, NEW t \in Targets, ObserveMetric(w, t) \/ ObserveProbe(w, t)
      PROVE  RecordInv'
  <2>1. UNCHANGED <<eventRow, events, astray, job>>
    BY <1>2 DEF ObserveMetric, ObserveProbe, Begin, tables, memory, history, accidents
  <2>2. \A v \in Workers : pc'[v] = "upsert" <=> pc[v] = "upsert"
    BY <1>2 DEF ObserveMetric, ObserveProbe, Begin, TypeOK
  <2> QED BY <2>1, <2>2, RecordFrame
<1>3. CASE ListAgents \/ CheckOffline
  <2>1. UNCHANGED <<eventRow, events, astray, job>>
    BY <1>3 DEF ListAgents, CheckOffline, tables, memory, history, accidents
  <2>2. \A v \in Workers : pc'[v] = "upsert" <=> pc[v] = "upsert"
    BY <1>3 DEF ListAgents, CheckOffline, TypeOK
  <2> QED BY <2>1, <2>2, RecordFrame
<1>4. CASE Cleanup
  <2>1. /\ UNCHANGED <<events, pc, job>>
        /\ astray' = astray \cup TakenFromMemory
        /\ eventRow' = [k \in Keys |-> IF Stale(eventRow[k]) THEN NoEvent ELSE eventRow[k]]
    BY <1>4 DEF Cleanup, memory, work
  <2> SUFFICES ASSUME NEW k \in Keys, k \notin astray, k \notin TakenFromMemory
               PROVE  Agrees(k)'
    BY <2>1 DEF RecordInv
  <2>2. Agrees(k)
    BY DEF RecordInv
  <2>3. CASE Stale(eventRow[k])
    <3>1. ~IsFiring(events[k]) /\ eventRow'[k] = NoEvent
      BY <2>1, <2>3 DEF TakenFromMemory
    <3> QED BY <2>1, <2>2, <3>1 DEF Agrees, Crossed, Writing, IsFiring, NoEvent
  <2>4. CASE ~Stale(eventRow[k])
    <3>1. eventRow'[k] = eventRow[k]
      BY <2>1, <2>4
    <3> QED BY <2>1, <2>2, <3>1 DEF Agrees, Crossed, Writing, IsFiring
  <2> QED BY <2>3, <2>4
<1>5. CASE Crash
  <2>1. /\ \A v \in Workers : pc'[v] = "idle"
        /\ \A k \in Keys : events'[k] = NoEvent
        /\ eventRow' = eventRow
        /\ astray' = {k \in Keys : IsFiring(eventRow[k])}
    BY <1>5 DEF Crash, NoEvents, OnRecord, tables
  <2> QED BY <2>1 DEF RecordInv, Agrees, Crossed, Writing, IsFiring, NoEvent
<1>6. CASE Tick \/ UNCHANGED vars \/ \E t \in Targets : Touch(t) \/ Hello(t) \/ DeleteAgent(t)
  <2>1. UNCHANGED <<eventRow, events, astray, job, pc>>
    BY <1>6 DEF Tick, Touch, Hello, DeleteAgent, vars, tables, memory, work, history, accidents
  <2> QED BY <2>1, RecordFrame
<1> QED BY <1>1, <1>2, <1>3, <1>4, <1>5, <1>6, EvaluateKeepsRecord, UpsertKeepsRecord,
           LoaderKeepsRecord DEF Next, WorkerStep

\* Each Reload's copy is what the table said.
LEMMA CopyCorrect == Spec => []CopyIsWhole
<1>1. Init => CopyIsWhole
  BY DEF Init, CopyIsWhole, IdleLoader
<1> QED BY <1>1, TypeCorrect, CopyStep, PTL DEF Spec

\* Between two accidents the table and the memory agree on what fires whenever
\* no row of the alert is on its way: for any number of observers of a key,
\* requests that reload, failed statements, retention and restarts.
THEOREM RecordCorrect == Spec => []RecordAgrees
<1>1. Init => RecordInv
  BY DEF Init, RecordInv, Agrees, Crossed, Writing, NoEvents, NoEvent
<1>2. RecordInv => RecordAgrees
  BY DEF RecordInv, Agrees, RecordAgrees
<1> QED BY <1>1, <1>2, CopyCorrect, TypeCorrect, RecordStep, PTL DEF Spec

-----------------------------------------------------------------------------
(* The promise.  The invariant, for a key whose latest episode no accident   *)
(* befell: whatever is in hand says what memory holds; a notice in hand is   *)
(* the only one, and still to be told; a resolution is still to be told of   *)
(* what fires in memory or on record.                                        *)

Telling(w, k) == pc[w] = "notify" /\ job[w].key = k

\* The notice in hand is that of the row in hand.
JobsShaped ==
    \A w \in Workers :
      /\ pc[w] \in {"upsert", "notify"} /\ job[w].notice # "none" =>
           job[w].row.state = job[w].notice
      /\ pc[w] = "notify" => job[w].notice \in {"firing", "resolved"}

TellingIsDue(k) ==
    \A w \in Workers : Telling(w, k) =>
      /\ job[w].notice \notin announced[k]
      /\ job[w].notice = "firing" <=> IsFiring(eventRow[k])

WritingIsDue(k) ==
    \A w \in Workers : Writing(w, k) =>
      /\ job[w].notice = "firing" => ~IsFiring(eventRow[k]) \/ "firing" \notin announced[k]
      /\ job[w].notice = "resolved" => "resolved" \notin announced[k]

OneNotice(k) ==
    \A v, w \in Workers : InHand(v, k) /\ InHand(w, k) /\ v # w =>
      job[v].notice = "none" \/ job[w].notice = "none"

ResolutionIsDue(k) ==
    /\ IsFiring(eventRow[k]) => "resolved" \notin announced[k]
    /\ (\A w \in Workers : ~Writing(w, k)) =>
         /\ IsFiring(eventRow[k]) => IsFiring(events[k]) \/ Restarted
         /\ IsFiring(events[k]) => "resolved" \notin announced[k]

Sound(k) ==
    /\ ~Opposed(k, IsFiring(events[k]))
    /\ TellingIsDue(k) /\ WritingIsDue(k) /\ OneNotice(k) /\ ResolutionIsDue(k)

PromiseInv == JobsShaped /\ \A k \in Keys \ disturbed : Sound(k)

\* A key that a step does not concern stays sound.
LEMMA SoundFrame ==
  ASSUME NEW k \in Keys, Sound(k), Restarted => Restarted',
         events'[k] = events[k], eventRow'[k] = eventRow[k], announced'[k] = announced[k],
         \A w \in Workers : /\ Writing(w, k)' <=> Writing(w, k)
                            /\ Telling(w, k)' <=> Telling(w, k)
                            /\ InHand(w, k) => job'[w] = job[w]
  PROVE  Sound(k)'
<1>1. \A w \in Workers : InHand(w, k)' <=> InHand(w, k)
  BY DEF InHand, Writing, Telling
<1>2. \A w \in Workers : Writing(w, k) \/ Telling(w, k) => InHand(w, k)
  BY DEF InHand, Writing, Telling
<1>3. ~Opposed(k, IsFiring(events[k]))'
  BY <1>1 DEF Sound, Opposed, IsFiring
<1>4. TellingIsDue(k)'
  BY <1>2 DEF Sound, TellingIsDue, IsFiring
<1>5. WritingIsDue(k)'
  BY <1>2 DEF Sound, WritingIsDue, IsFiring
<1>6. OneNotice(k)'
  BY <1>1 DEF Sound, OneNotice
<1>7. ResolutionIsDue(k)'
  BY DEF Sound, ResolutionIsDue, IsFiring
<1> QED BY <1>3, <1>4, <1>5, <1>6, <1>7 DEF Sound

\* A step that concerns no key, at most disturbing some.
LEMMA PromiseFrame ==
  ASSUME PromiseInv, UNCHANGED <<events, eventRow, announced, job>>,
         disturbed \subseteq disturbed', Restarted => Restarted',
         \A w \in Workers : /\ pc'[w] = "upsert" <=> pc[w] = "upsert"
                            /\ pc'[w] = "notify" <=> pc[w] = "notify"
  PROVE  PromiseInv'
<1>1. JobsShaped'
  BY DEF PromiseInv, JobsShaped
<1>2. ASSUME NEW k \in Keys, k \notin disturbed'
      PROVE  Sound(k)'
  BY <1>2, SoundFrame DEF PromiseInv, Writing, Telling
<1> QED BY <1>1, <1>2 DEF PromiseInv

\* An evaluation takes in hand only what is due, or meets an opposite decision.
LEMMA EvaluateKeepsPromise ==
  ASSUME TypeOK, PromiseInv, NEW w \in Workers, Evaluate(w)
  PROVE  PromiseInv'
<1>1. PICK i \in todo[w] :
        /\ Deciding(w, i) /\ KeyOf(i) \in Keys /\ KeyOf(i)[1] = i.rule
        /\ \/ Skip(w, i)
           \/ \E row \in Recorded, notice \in Notice :
                /\ Publish(w, i, row, notice)
                /\ notice = "none" =>
                     row.state = "firing" /\ row.notified = events[KeyOf(i)].notified
                /\ notice # "none" => row.state = notice /\ row.notified = at[w]
                /\ row.state = "resolved" => Firing(i)
                /\ notice = "firing" =>
                     ~Firing(i) /\ CooledDown(w, KeyOf(i))
  BY Outcome
<1>2. pc[w] = "loop" /\ ~Restarted
  BY <1>1 DEF Deciding, Restarted
<1>3. CASE Skip(w, i)
  <2>1. UNCHANGED <<events, eventRow, announced, job, disturbed>>
    BY <1>3 DEF Skip, tables, accidents
  <2>2. pc' = [pc EXCEPT ![w] = Resume(todo[w] \ {i})]
    BY <1>3 DEF Skip
  <2>3. \A v \in Workers : /\ pc'[v] = "upsert" <=> pc[v] = "upsert"
                           /\ pc'[v] = "notify" <=> pc[v] = "notify"
    BY <1>2, <2>2 DEF Resume, TypeOK
  <2> QED BY <1>2, <2>1, <2>3, PromiseFrame
<1>4. ASSUME NEW row \in Recorded, NEW notice \in Notice, Publish(w, i, row, notice),
             notice # "none" => row.state = notice,
             row.state = "resolved" => Firing(i),
             notice = "firing" => ~Firing(i)
      PROVE  PromiseInv'
  <2> DEFINE h == KeyOf(i)
  <2>1. /\ events' = [events EXCEPT ![h] = row]
        /\ pc' = [pc EXCEPT ![w] = "upsert"]
        /\ job' = [job EXCEPT ![w] = [key |-> h, row |-> row, notice |-> notice]]
        /\ eventRow' = eventRow /\ announced' = announced
        /\ disturbed' = IF Opposed(h, IsFiring(row)) THEN disturbed \cup {h} ELSE disturbed
    BY <1>4 DEF Publish, tables
  <2>2. /\ pc'[w] = "upsert" /\ job'[w].key = h /\ job'[w].row = row
        /\ job'[w].notice = notice
        /\ \A v \in Workers \ {w} : pc'[v] = pc[v] /\ job'[v] = job[v]
    BY <2>1 DEF TypeOK
  <2>3. JobsShaped'
    BY <1>4, <2>2 DEF PromiseInv, JobsShaped
  <2> SUFFICES ASSUME NEW k \in Keys, k \notin disturbed'
               PROVE  Sound(k)'
    BY <2>3 DEF PromiseInv
  <2>4. k \notin disturbed /\ Sound(k)
    BY <2>1 DEF PromiseInv
  <2>5. ASSUME k # h
        PROVE  Sound(k)'
    <3>1. events'[k] = events[k] /\ eventRow'[k] = eventRow[k] /\ announced'[k] = announced[k]
      BY <2>1, <2>5 DEF TypeOK
    <3>2. \A v \in Workers : /\ Writing(v, k)' <=> Writing(v, k)
                             /\ Telling(v, k)' <=> Telling(v, k)
                             /\ InHand(v, k) => job'[v] = job[v]
      BY <1>2, <2>2, <2>5 DEF Writing, Telling, InHand
    <3> QED BY <1>2, <2>4, <3>1, <3>2, SoundFrame
  <2>6. ASSUME k = h
        PROVE  Sound(k)'
    <3>1. ~Opposed(k, IsFiring(row)) /\ events'[k] = row
      BY <2>1, <2>6 DEF TypeOK
    <3>2. \A v \in Workers \ {w} : /\ Writing(v, k)' <=> Writing(v, k)
                                   /\ Telling(v, k)' <=> Telling(v, k)
                                   /\ InHand(v, k)' <=> InHand(v, k)
      BY <2>2 DEF Writing, Telling, InHand
    <3>3. ~Writing(w, k) /\ ~Telling(w, k) /\ ~InHand(w, k) /\ Writing(w, k)' /\ ~Telling(w, k)'
      BY <1>2, <2>2, <2>6 DEF Writing, Telling, InHand
    <3>4. ASSUME notice # "none"
          PROVE  /\ \A v \in Workers : ~InHand(v, k) /\ ~Writing(v, k)
                 /\ IsFiring(row) <=> ~IsFiring(events[k])
      <4>1. IsFiring(row) <=> ~IsFiring(events[k])
        BY <1>4, <2>6, <3>4 DEF Notice, Firing, IsFiring
      <4>2. \A v \in Workers : ~InHand(v, k)
        BY <2>4, <3>1, <4>1 DEF Sound, Opposed
      <4> QED BY <4>1, <4>2 DEF InHand, Writing
    <3>5. ~Opposed(k, IsFiring(events[k]))'
      BY <2>2, <3>1, <3>2 DEF Opposed, IsFiring
    <3>6. TellingIsDue(k)'
      BY <2>1, <2>2, <2>4, <3>2, <3>3 DEF Sound, TellingIsDue, IsFiring
    <3>7. WritingIsDue(k)'
      <4>1. notice = "firing" => ~IsFiring(eventRow[k])
        BY <1>2, <1>4, <2>4, <3>4 DEF Sound, ResolutionIsDue, IsFiring
      <4>2. notice = "resolved" => "resolved" \notin announced[k]
        BY <1>4, <2>4, <3>4 DEF Sound, ResolutionIsDue, IsFiring
      <4> QED BY <2>1, <2>2, <2>4, <3>2, <4>1, <4>2 DEF Sound, WritingIsDue, IsFiring
    <3>8. OneNotice(k)'
      BY <2>2, <2>4, <3>2, <3>4 DEF Sound, OneNotice
    <3>9. ResolutionIsDue(k)'
      BY <2>1, <2>4, <3>3 DEF Sound, ResolutionIsDue, IsFiring
    <3> QED BY <3>5, <3>6, <3>7, <3>8, <3>9 DEF Sound
  <2> QED BY <2>5, <2>6
<1> QED BY <1>1, <1>3, <1>4

\* What Upsert does to its key and to no other.
LEMMA UpsertEffect ==
  ASSUME TypeOK, NEW w \in Workers, Upsert(w), NEW k \in Keys, k = job[w].key
  PROVE  /\ IsFiring(eventRow[k])' <=> IsFiring(job[w].row)
         /\ announced'[k] = IF Opens(eventRow[k], job[w].row) THEN {} ELSE announced[k]
         /\ \A c \in Keys \ {k} : eventRow'[c] = eventRow[c] /\ announced'[c] = announced[c]
<1>1. job[w].row \in Recorded
  BY DEF Upsert, TypeOK
<1>2. eventRow' = [eventRow EXCEPT ![k] = StoredRow(@, job[w].row)]
  BY DEF Upsert
<1>3. announced' = [announced EXCEPT ![k] = IF Opens(eventRow[k], job[w].row) THEN {} ELSE @]
  BY DEF Upsert
<1>4. eventRow'[k] = StoredRow(eventRow[k], job[w].row)
  BY <1>2 DEF TypeOK
<1>5. IsFiring(eventRow[k])' <=> IsFiring(job[w].row)
  BY <1>1, <1>4 DEF StoredRow, IsFiring, Recorded
<1>6. announced'[k] = IF Opens(eventRow[k], job[w].row) THEN {} ELSE announced[k]
  BY <1>3 DEF TypeOK
<1>7. \A c \in Keys \ {k} : eventRow'[c] = eventRow[c] /\ announced'[c] = announced[c]
  BY <1>2, <1>3 DEF TypeOK
<1> QED BY <1>5, <1>6, <1>7

\* The row of a key that Upsert leaves undisturbed says what memory holds; a key
\* it binds again has the opening to itself.
LEMMA UpsertBinds ==
  ASSUME TypeOK, PromiseInv, NEW w \in Workers, Upsert(w), NEW k \in Keys,
         k = job[w].key, k \notin disturbed'
  PROVE  /\ IsFiring(job[w].row) <=> IsFiring(events[k])
         /\ \/ Sound(k)
            \/ Opens(eventRow[k], job[w].row) /\ AloneWith(w, k)
<1>1. Writing(w, k) /\ InHand(w, k)
  BY DEF Upsert, Writing, InHand
<1>2. CASE k \notin disturbed
  <2>1. Sound(k)
    BY <1>2 DEF PromiseInv
  <2>2. ~(IsFiring(job[w].row) <=> ~IsFiring(events[k]))
    BY <1>1, <2>1 DEF Sound, Opposed
  <2> QED BY <2>1, <2>2
<1>3. CASE k \in disturbed
  BY <1>1, <1>3 DEF Upsert, Repairs, Crossed
<1> QED BY <1>2, <1>3

\* A worker that leaves the table may be on its way to the notifier.
LEMMA UpsertHands ==
  ASSUME TypeOK, NEW w \in Workers, Upsert(w) \/ UpsertFails(w)
  PROVE  /\ pc[w] = "upsert" /\ job' = job
         /\ pc'[w] = "notify" => job[w].notice # "none"
         /\ pc'[w] # "upsert" /\ (job[w].notice # "none" => pc'[w] = "notify")
         /\ \A v \in Workers \ {w} : pc'[v] = pc[v]
<1>1. pc' = [pc EXCEPT ![w] = AfterUpsert(w)]
  BY DEF Upsert, UpsertFails
<1> QED BY <1>1 DEF Upsert, UpsertFails, AfterUpsert, Resume, TypeOK

\* Writing a row leaves what is due due.
LEMMA UpsertKeepsPromise ==
  ASSUME TypeOK, PromiseInv, NEW w \in Workers, Upsert(w)
  PROVE  PromiseInv'
<1>1. PICK h \in Keys : h = job[w].key
  BY DEF TypeOK, Job
<1>2. /\ pc[w] = "upsert" /\ job' = job /\ UNCHANGED <<events, rules, todo>>
      /\ pc'[w] = "notify" => job[w].notice # "none"
      /\ pc'[w] # "upsert"
      /\ \A v \in Workers \ {w} : pc'[v] = pc[v]
  BY UpsertHands DEF Upsert, memory
<1>3. JobsShaped'
  <2>1. job[w].notice \in Notice
    BY DEF TypeOK, Job
  <2> QED BY <1>2, <2>1 DEF PromiseInv, JobsShaped, Notice
<1> SUFFICES ASSUME NEW k \in Keys, k \notin disturbed'
             PROVE  Sound(k)'
  BY <1>3 DEF PromiseInv
<1>4. Restarted => Restarted'
  BY <1>2 DEF Restarted
<1>5. CASE k # h
  <2>1. Sound(k)
    BY <1>1, <1>5 DEF Upsert, PromiseInv
  <2>2. eventRow'[k] = eventRow[k] /\ announced'[k] = announced[k]
    BY <1>1, <1>5, UpsertEffect
  <2>3. \A v \in Workers : /\ Writing(v, k)' <=> Writing(v, k)
                           /\ Telling(v, k)' <=> Telling(v, k)
    BY <1>1, <1>2, <1>5 DEF Writing, Telling
  <2> QED BY <1>2, <1>4, <2>1, <2>2, <2>3, SoundFrame
<1>6. CASE k = h
  <2>1. /\ IsFiring(eventRow[k])' <=> IsFiring(job[w].row)
        /\ announced'[k] = IF Opens(eventRow[k], job[w].row) THEN {} ELSE announced[k]
    BY <1>1, <1>6, UpsertEffect
  <2>2. /\ IsFiring(job[w].row) <=> IsFiring(events[k])
        /\ \/ Sound(k)
           \/ Opens(eventRow[k], job[w].row) /\ AloneWith(w, k)
    BY <1>1, <1>6, UpsertBinds
  <2>3. \A v \in Workers : /\ InHand(v, k)' => InHand(v, k)
                           /\ Writing(v, k)' => Writing(v, k) /\ InHand(v, k) /\ v # w
                           /\ Telling(v, k)' => InHand(v, k) /\ (v # w => Telling(v, k))
    BY <1>1, <1>2, <1>6 DEF InHand, Writing, Telling
  <2>4. \A v \in Workers : InHand(v, k) => (IsFiring(job[v].row) <=> IsFiring(events[k]))
    BY <2>2, <1>1, <1>6 DEF Sound, Opposed, AloneWith
  <2>5. ~Opposed(k, IsFiring(events[k]))'
    BY <1>2, <2>3, <2>4 DEF Opposed, IsFiring
  <2>6. TellingIsDue(k)'
    <3> SUFFICES ASSUME NEW v \in Workers, Telling(v, k)'
                 PROVE  /\ job[v].notice \notin announced'[k]
                        /\ job[v].notice = "firing" <=> IsFiring(eventRow[k])'
      BY <1>2 DEF TellingIsDue, IsFiring
    <3>1. /\ job[v].notice = "firing" <=> IsFiring(job[v].row)
          /\ job[v].notice \in {"firing", "resolved"}
      BY <1>2, <1>3 DEF JobsShaped, Telling, IsFiring
    <3>2. IsFiring(job[v].row) <=> IsFiring(events[k])
      BY <2>3, <2>4
    <3>3. CASE Opens(eventRow[k], job[w].row)
      BY <2>1, <2>2, <3>1, <3>2, <3>3
    <3>4. CASE ~Opens(eventRow[k], job[w].row)
      <4>1. Sound(k) /\ announced'[k] = announced[k]
        BY <2>1, <2>2, <3>4
      <4>2. ASSUME v = w
            PROVE  job[v].notice \notin announced[k]
        <5>1. Writing(v, k)
          BY <1>1, <1>2, <1>6, <4>2 DEF Writing
        <5>2. /\ job[v].notice = "firing" => ~IsFiring(eventRow[k]) \/ "firing" \notin announced[k]
              /\ job[v].notice = "resolved" => "resolved" \notin announced[k]
          BY <4>1, <5>1 DEF Sound, WritingIsDue
        <5>3. ~(~IsFiring(eventRow[k]) /\ IsFiring(job[v].row))
          BY <3>4, <4>2 DEF Opens
        <5> QED BY <3>1, <5>2, <5>3
      <4>3. ASSUME v # w
            PROVE  job[v].notice \notin announced[k]
        <5>1. Telling(v, k)
          BY <2>3, <4>3
        <5> QED BY <4>1, <5>1 DEF Sound, TellingIsDue
      <4>4. job[v].notice = "firing" <=> IsFiring(eventRow[k])'
        BY <2>1, <2>2, <3>1, <3>2
      <4> QED BY <4>1, <4>2, <4>3, <4>4
    <3> QED BY <3>3, <3>4
  <2>7. WritingIsDue(k)'
    <3> SUFFICES ASSUME NEW v \in Workers, Writing(v, k)'
                 PROVE  /\ job[v].notice = "firing" =>
                             ~IsFiring(eventRow[k])' \/ "firing" \notin announced'[k]
                        /\ job[v].notice = "resolved" => "resolved" \notin announced'[k]
      BY <1>2 DEF WritingIsDue, IsFiring
    <3>1. CASE Opens(eventRow[k], job[w].row)
      BY <2>1, <3>1
    <3>2. CASE ~Opens(eventRow[k], job[w].row)
      BY <2>1, <2>2, <2>3, <3>2 DEF Sound, WritingIsDue, Opens
    <3> QED BY <3>1, <3>2
  <2>8. OneNotice(k)'
    <3>1. CASE Sound(k)
      BY <1>2, <2>3, <3>1 DEF Sound, OneNotice
    <3>2. CASE AloneWith(w, k)
      BY <2>3, <3>2 DEF AloneWith, OneNotice
    <3> QED BY <2>2, <3>1, <3>2
  <2>9. ResolutionIsDue(k)'
    <3>1. IsFiring(eventRow[k])' => "resolved" \notin announced'[k]
      BY <2>1, <2>2 DEF Sound, ResolutionIsDue, Opens
    <3>2. IsFiring(eventRow[k])' <=> IsFiring(events[k])'
      BY <1>2, <2>1, <2>2 DEF IsFiring
    <3> QED BY <3>1, <3>2 DEF ResolutionIsDue, IsFiring
  <2> QED BY <2>5, <2>6, <2>7, <2>8, <2>9 DEF Sound
<1> QED BY <1>5, <1>6

\* So does losing one that would have changed nothing.
LEMMA UpsertFailsKeepsPromise ==
  ASSUME TypeOK, PromiseInv, NEW w \in Workers, UpsertFails(w)
  PROVE  PromiseInv'
<1>1. PICK h \in Keys : h = job[w].key
  BY DEF TypeOK, Job
<1>2. /\ pc[w] = "upsert" /\ job' = job
      /\ UNCHANGED <<events, rules, todo, eventRow, announced>>
      /\ pc'[w] = "notify" => job[w].notice # "none"
      /\ pc'[w] # "upsert"
      /\ \A v \in Workers \ {w} : pc'[v] = pc[v]
  BY UpsertHands DEF UpsertFails, memory, tables
<1>3. JobsShaped'
  <2>1. job[w].notice \in Notice
    BY DEF TypeOK, Job
  <2> QED BY <1>2, <2>1 DEF PromiseInv, JobsShaped, Notice
<1> SUFFICES ASSUME NEW k \in Keys, k \notin disturbed'
             PROVE  Sound(k)'
  BY <1>3 DEF PromiseInv
<1>4. Sound(k) /\ (Restarted => Restarted')
  BY <1>2 DEF UpsertFails, PromiseInv, Restarted
<1>5. CASE k # h
  <2>1. \A v \in Workers : /\ Writing(v, k)' <=> Writing(v, k)
                           /\ Telling(v, k)' <=> Telling(v, k)
    BY <1>1, <1>2, <1>5 DEF Writing, Telling
  <2> QED BY <1>2, <1>4, <2>1, SoundFrame
<1>6. CASE k = h
  <2>1. IsFiring(job[w].row) <=> IsFiring(eventRow[k])
    BY <1>1, <1>6 DEF UpsertFails
  <2>2. IsFiring(job[w].row) <=> IsFiring(events[k])
    BY <1>1, <1>2, <1>4, <1>6 DEF Sound, Opposed, InHand
  <2>3. \A v \in Workers : /\ InHand(v, k)' => InHand(v, k)
                           /\ Writing(v, k)' => Writing(v, k)
                           /\ Telling(v, k)' => (v # w => Telling(v, k))
    BY <1>1, <1>2, <1>6 DEF InHand, Writing, Telling
  <2>4. ~Opposed(k, IsFiring(events[k]))'
    BY <1>2, <1>4, <2>3 DEF Sound, Opposed, IsFiring
  <2>5. TellingIsDue(k)'
    <3> SUFFICES ASSUME NEW v \in Workers, Telling(v, k)'
                 PROVE  /\ job[v].notice \notin announced[k]
                        /\ job[v].notice = "firing" <=> IsFiring(eventRow[k])
      BY <1>2 DEF TellingIsDue, IsFiring
    <3>1. CASE v = w
      <4>1. /\ job[w].notice = "firing" <=> IsFiring(job[w].row)
            /\ job[w].notice \in {"firing", "resolved"}
        BY <1>2, <1>3, <3>1 DEF JobsShaped, Telling, IsFiring
      <4> QED BY <1>1, <1>2, <1>4, <1>6, <2>1, <3>1, <4>1 DEF Sound, WritingIsDue, Writing
    <3>2. CASE v # w
      BY <1>4, <2>3, <3>2 DEF Sound, TellingIsDue
    <3> QED BY <3>1, <3>2
  <2>6. WritingIsDue(k)' /\ OneNotice(k)'
    BY <1>2, <1>4, <2>3 DEF Sound, WritingIsDue, OneNotice, IsFiring
  <2>7. ResolutionIsDue(k)'
    BY <1>2, <1>4, <2>1, <2>2 DEF Sound, ResolutionIsDue, IsFiring
  <2> QED BY <2>4, <2>5, <2>6, <2>7 DEF Sound
<1> QED BY <1>5, <1>6

\* Telling what is due leaves nothing of it to tell.
LEMMA NotifyKeepsPromise ==
  ASSUME TypeOK, PromiseInv, NEW w \in Workers, Notify(w)
  PROVE  PromiseInv'
<1>1. PICK h \in Keys : h = job[w].key
  BY DEF TypeOK, Job
<1>2. /\ pc[w] = "notify" /\ job' = job
      /\ UNCHANGED <<events, rules, todo, eventRow, disturbed>>
      /\ announced' = [announced EXCEPT ![h] = Heard(@, job[w].notice)]
  BY <1>1 DEF Notify, memory, tables, accidents
<1>3. pc'[w] \notin {"upsert", "notify"} /\ \A v \in Workers \ {w} : pc'[v] = pc[v]
  BY DEF Notify, Resume, TypeOK
<1>4. JobsShaped'
  BY <1>2, <1>3 DEF PromiseInv, JobsShaped
<1> SUFFICES ASSUME NEW k \in Keys, k \notin disturbed'
             PROVE  Sound(k)'
  BY <1>4 DEF PromiseInv
<1>5. Sound(k) /\ (Restarted => Restarted')
  BY <1>2 DEF PromiseInv, Restarted
<1>6. CASE k # h
  <2>1. announced'[k] = announced[k]
    BY <1>2, <1>6 DEF TypeOK
  <2>2. \A v \in Workers : /\ Writing(v, k)' <=> Writing(v, k)
                           /\ Telling(v, k)' <=> Telling(v, k)
    BY <1>1, <1>2, <1>3, <1>6 DEF Writing, Telling
  <2> QED BY <1>2, <1>5, <2>1, <2>2, SoundFrame
<1>7. CASE k = h
  <2>1. Telling(w, k) /\ InHand(w, k)
    BY <1>1, <1>2, <1>7 DEF Telling, InHand
  <2>2. /\ job[w].notice \notin announced[k]
        /\ job[w].notice = "firing" <=> IsFiring(eventRow[k])
        /\ job[w].notice \in {"firing", "resolved"}
        /\ job[w].row.state = job[w].notice
    BY <1>2, <1>5, <2>1 DEF Sound, TellingIsDue, PromiseInv, JobsShaped
  <2>3. announced'[k] = announced[k] \cup {job[w].notice}
    BY <1>2, <1>7, <2>2 DEF TypeOK, Heard
  <2>4. \A v \in Workers : InHand(v, k)' =>
          InHand(v, k) /\ v # w /\ job[v].notice = "none"
    <3>1. \A v \in Workers : InHand(v, k)' => InHand(v, k) /\ v # w
      BY <1>2, <1>3 DEF InHand
    <3> QED BY <1>5, <2>1, <2>2, <3>1 DEF Sound, OneNotice
  <2>5. \A v \in Workers : Writing(v, k)' \/ Telling(v, k)' => InHand(v, k)'
    BY DEF InHand, Writing, Telling
  <2>6. ~Opposed(k, IsFiring(events[k]))'
    BY <1>2, <1>5, <2>4 DEF Sound, Opposed, IsFiring
  <2>7. TellingIsDue(k)'
    BY <1>2, <1>4, <2>4, <2>5 DEF TellingIsDue, JobsShaped, Telling
  <2>8. WritingIsDue(k)' /\ OneNotice(k)'
    BY <1>2, <2>4, <2>5 DEF WritingIsDue, OneNotice
  <2>9. ResolutionIsDue(k)'
    <3>1. IsFiring(events[k]) <=> job[w].notice = "firing"
      BY <1>5, <2>1, <2>2 DEF Sound, Opposed, IsFiring
    <3>2. \A v \in Workers : Writing(v, k)' <=> Writing(v, k)
      BY <1>2, <1>3 DEF Writing
    <3>3. "resolved" \in announced'[k] => "resolved" \in announced[k] \/ ~IsFiring(events[k])
      BY <2>2, <2>3, <3>1
    <3>4. CASE \A v \in Workers : ~Writing(v, k)
      BY <1>2, <1>5, <2>2, <2>3, <3>1, <3>3, <3>4 DEF Sound, ResolutionIsDue, IsFiring
    <3>5. CASE \E v \in Workers : Writing(v, k)
      BY <1>2, <1>5, <2>2, <2>3, <3>2, <3>5 DEF Sound, ResolutionIsDue, IsFiring
    <3> QED BY <3>4, <3>5
  <2> QED BY <2>6, <2>7, <2>8, <2>9 DEF Sound
<1> QED BY <1>6, <1>7

\* A copy that is not outdated keeps what memory must say.
LEMMA SwapKeepsPromise ==
  ASSUME TypeOK, CopyIsWhole, PromiseInv, NEW l \in Loaders, Swap(l)
  PROVE  PromiseInv'
<1>1. /\ events' = loader[l].events
      /\ disturbed' = disturbed \cup {k \in Keys : Outdated(l, k)}
      /\ UNCHANGED <<eventRow, announced, pc, job>>
  BY DEF Swap, tables, work
<1>2. JobsShaped'
  BY <1>1 DEF PromiseInv, JobsShaped
<1> SUFFICES ASSUME NEW k \in Keys, k \notin disturbed'
             PROVE  Sound(k)'
  BY <1>2 DEF PromiseInv
<1>3. Sound(k) /\ ~Outdated(l, k)
  BY <1>1 DEF PromiseInv
<1>4. /\ IsFiring(events'[k]) <=> IsFiring(eventRow[k])
      /\ ~Crossed(k, IsFiring(events'[k]))
  BY <1>3, CopyIsCurrent
<1>5. ASSUME NEW v \in Workers, InHand(v, k)
      PROVE  IsFiring(job[v].row) <=> IsFiring(events'[k])
  <2>1. CASE Writing(v, k)
    BY <1>4, <2>1 DEF Crossed
  <2>2. CASE Telling(v, k)
    <3>1. job[v].notice = "firing" <=> IsFiring(eventRow[k])
      BY <1>3, <2>2 DEF Sound, TellingIsDue
    <3>2. job[v].notice = "firing" <=> IsFiring(job[v].row)
      BY <2>2 DEF PromiseInv, JobsShaped, Telling, IsFiring
    <3> QED BY <1>4, <3>1, <3>2
  <2> QED BY <1>5, <2>1, <2>2 DEF InHand, Writing, Telling
<1>6. ~Opposed(k, IsFiring(events[k]))'
  BY <1>1, <1>5 DEF Opposed, InHand, IsFiring
<1>7. TellingIsDue(k)' /\ WritingIsDue(k)' /\ OneNotice(k)'
  BY <1>1, <1>3 DEF Sound, TellingIsDue, WritingIsDue, OneNotice, Telling, Writing, InHand,
                    IsFiring
<1>8. ResolutionIsDue(k)'
  BY <1>1, <1>3, <1>4 DEF Sound, ResolutionIsDue, IsFiring
<1> QED BY <1>6, <1>7, <1>8 DEF Sound

\* The retention closes what no opening is being told of.
LEMMA CleanupKeepsPromise ==
  ASSUME TypeOK, PromiseInv, Cleanup
  PROVE  PromiseInv'
<1>1. /\ eventRow' = [k \in Keys |-> IF Stale(eventRow[k]) THEN NoEvent ELSE eventRow[k]]
      /\ disturbed' = disturbed \cup TakenWhileTold
      /\ UNCHANGED <<events, announced, pc, job, rules, todo>>
  BY DEF Cleanup, memory, work
<1>2. JobsShaped'
  BY <1>1 DEF PromiseInv, JobsShaped
<1> SUFFICES ASSUME NEW k \in Keys, k \notin disturbed'
             PROVE  Sound(k)'
  BY <1>2 DEF PromiseInv
<1>3. Sound(k) /\ k \notin TakenWhileTold
  BY <1>1 DEF PromiseInv
<1>4. CASE ~Stale(eventRow[k])
  <2>1. eventRow'[k] = eventRow[k]
    BY <1>1, <1>4
  <2> QED BY <1>1, <1>3, <2>1, SoundFrame DEF Restarted, Writing, Telling
<1>5. CASE Stale(eventRow[k])
  <2>1. ~IsFiring(eventRow[k])'
    BY <1>1, <1>5 DEF IsFiring, NoEvent
  <2>2. \A v \in Workers : Telling(v, k) => job[v].notice # "firing"
    BY <1>3, <1>5 DEF TakenWhileTold, Telling
  <2>3. ~Opposed(k, IsFiring(events[k]))' /\ OneNotice(k)'
    BY <1>1, <1>3 DEF Sound, Opposed, OneNotice, InHand, IsFiring
  <2>4. TellingIsDue(k)' /\ WritingIsDue(k)'
    BY <1>1, <1>3, <2>1, <2>2 DEF Sound, TellingIsDue, WritingIsDue, Telling, Writing
  <2>5. ResolutionIsDue(k)'
    BY <1>1, <1>3, <2>1 DEF Sound, ResolutionIsDue, Writing, IsFiring
  <2> QED BY <2>3, <2>4, <2>5 DEF Sound
<1> QED BY <1>4, <1>5

\* After a crash nothing is in hand, and what is on record awaits the boot.
LEMMA CrashKeepsPromise ==
  ASSUME TypeOK, PromiseInv, Crash
  PROVE  PromiseInv'
<1>1. /\ \A w \in Workers : pc'[w] = "idle"
      /\ \A k \in Keys : ~IsFiring(events'[k])
      /\ UNCHANGED <<eventRow, announced, disturbed>>
  BY DEF Crash, NoEvents, NoEvent, IsFiring, tables
<1>2. Restarted'
  BY DEF Crash, NoRules, Restarted
<1>3. JobsShaped'
  BY <1>1 DEF JobsShaped
<1>4. ASSUME NEW k \in Keys, k \notin disturbed'
      PROVE  Sound(k)'
  <2>1. Sound(k)
    BY <1>1, <1>4 DEF PromiseInv
  <2>2. ~Opposed(k, IsFiring(events[k]))' /\ TellingIsDue(k)' /\ WritingIsDue(k)' /\ OneNotice(k)'
    BY <1>1 DEF Opposed, TellingIsDue, WritingIsDue, OneNotice, InHand, Writing, Telling
  <2>3. ResolutionIsDue(k)'
    BY <1>1, <1>2, <2>1 DEF Sound, ResolutionIsDue, IsFiring
  <2> QED BY <2>2, <2>3 DEF Sound
<1> QED BY <1>3, <1>4 DEF PromiseInv

\* So does every other step, which concerns no key.
LEMMA PromiseStep == TypeOK /\ CopyIsWhole /\ PromiseInv /\ [Next]_vars => PromiseInv'
<1> SUFFICES ASSUME TypeOK, CopyIsWhole, PromiseInv, [Next]_vars
             PROVE  PromiseInv'
  OBVIOUS
<1>1. ASSUME NEW w \in Workers, CountFails(w)
      PROVE  PromiseInv'
  <2>1. UNCHANGED <<events, eventRow, announced, job, disturbed, pc>>
    BY <1>1 DEF CountFails, tables, accidents
  <2>2. ~Restarted
    BY <1>1 DEF CountFails, Restarted
  <2> QED BY <2>1, <2>2, PromiseFrame
<1>2. ASSUME NEW w \in Workers, NEW t \in Targets, ObserveMetric(w, t) \/ ObserveProbe(w, t)
      PROVE  PromiseInv'
  <2>1. UNCHANGED <<events, eventRow, announced, job, disturbed>>
    BY <1>2 DEF ObserveMetric, ObserveProbe, Begin, tables, memory, history, accidents
  <2>2. \A v \in Workers : /\ pc'[v] = "upsert" <=> pc[v] = "upsert"
                           /\ pc'[v] = "notify" <=> pc[v] = "notify"
    BY <1>2 DEF ObserveMetric, ObserveProbe, Begin, TypeOK
  <2>3. ~Restarted
    BY <1>2, NothingToBegin DEF Restarted
  <2> QED BY <2>1, <2>2, <2>3, PromiseFrame
<1>3. CASE ListAgents \/ CheckOffline
  <2>1. UNCHANGED <<events, eventRow, announced, job, disturbed, rules>>
    BY <1>3 DEF ListAgents, CheckOffline, tables, memory, history, accidents
  <2>2. \A v \in Workers : /\ pc'[v] = "upsert" <=> pc[v] = "upsert"
                           /\ pc'[v] = "notify" <=> pc[v] = "notify"
    BY <1>3 DEF ListAgents, CheckOffline, TypeOK
  <2>3. Restarted => Restarted'
    BY <1>3, <2>1, NothingToBegin DEF ListAgents, CheckOffline, Restarted, TypeOK
  <2> QED BY <2>1, <2>2, <2>3, PromiseFrame
<1>4. ASSUME NEW l \in Loaders,
             \/ LoadRules(l) \/ LoadEvents(l) \/ LoadFails(l)
             \/ \E r \in Rules, state \in RuleState : SaveRule(l, r, state)
      PROVE  PromiseInv'
  <2>1. UNCHANGED <<events, eventRow, announced, job, disturbed, rules, todo, pc>>
    BY <1>4 DEF LoadRules, LoadEvents, LoadFails, SaveRule, tables, memory, work, history,
                accidents
  <2> QED BY <2>1, PromiseFrame DEF Restarted
<1>5. CASE Tick \/ UNCHANGED vars \/ \E t \in Targets : Touch(t) \/ Hello(t) \/ DeleteAgent(t)
  <2>1. UNCHANGED <<events, eventRow, announced, job, disturbed, rules, todo, pc>>
    BY <1>5 DEF Tick, Touch, Hello, DeleteAgent, vars, tables, memory, work, history, accidents
  <2> QED BY <2>1, PromiseFrame DEF Restarted
<1> QED BY <1>1, <1>2, <1>3, <1>4, <1>5, EvaluateKeepsPromise, UpsertKeepsPromise,
           UpsertFailsKeepsPromise, NotifyKeepsPromise, SwapKeepsPromise,
           CleanupKeepsPromise, CrashKeepsPromise DEF Next, WorkerStep, LoaderStep

\* What a step of the engine does for one alert of the promise.
Keeps(k) ==
    IF k \notin disturbed
    THEN Promise!Rests(k) \/ Promise!Open(k) \/ Promise!TellFiring(k)
         \/ Promise!Close(k) \/ Promise!TellResolved(k)
    ELSE Promise!Open(k)

\* A step that leaves the table and the notices alone lets every alert rest.
LEMMA KeepsFrame ==
  ASSUME UNCHANGED <<eventRow, announced>>, disturbed \subseteq disturbed',
         NEW k \in Keys \ disturbed'
  PROVE  Keeps(k)
BY DEF Keeps, Promise!Rests, OnRecord, IsFiring

\* Writing a row opens or closes an alert.
LEMMA UpsertKeeps ==
  ASSUME TypeOK, PromiseInv, NEW w \in Workers, Upsert(w), NEW k \in Keys \ disturbed'
  PROVE  Keeps(k)
<1>1. PICK h \in Keys : h = job[w].key
  BY DEF Upsert, TypeOK, Job
<1>2. CASE k # h
  <2>1. eventRow'[k] = eventRow[k] /\ announced'[k] = announced[k]
    BY <1>1, <1>2, UpsertEffect
  <2>2. k \notin disturbed
    BY <1>1, <1>2 DEF Upsert
  <2> QED BY <2>1, <2>2 DEF Keeps, Promise!Rests, OnRecord, IsFiring
<1>3. CASE k = h
  <2>1. /\ IsFiring(eventRow[k])' <=> IsFiring(job[w].row)
        /\ announced'[k] = IF Opens(eventRow[k], job[w].row) THEN {} ELSE announced[k]
    BY <1>1, <1>3, UpsertEffect
  <2>2. CASE Opens(eventRow[k], job[w].row)
    BY <2>1, <2>2 DEF Keeps, Promise!Open, OnRecord, Opens, IsFiring
  <2>3. CASE ~Opens(eventRow[k], job[w].row)
    <3>1. k \notin disturbed
      BY <1>1, <1>3, <2>3 DEF Upsert
    <3> QED BY <2>1, <2>3, <3>1 DEF Keeps, Promise!Rests, Promise!Close, OnRecord, Opens, IsFiring
  <2> QED BY <2>2, <2>3
<1> QED BY <1>2, <1>3

\* Telling is of what is on record, for the first time.
LEMMA NotifyKeeps ==
  ASSUME TypeOK, PromiseInv, NEW w \in Workers, Notify(w), NEW k \in Keys \ disturbed'
  PROVE  Keeps(k)
<1>1. PICK h \in Keys : h = job[w].key
  BY DEF TypeOK, Job
<1>2. /\ eventRow' = eventRow /\ disturbed' = disturbed /\ pc[w] = "notify"
      /\ announced' = [announced EXCEPT ![h] = Heard(@, job[w].notice)]
  BY <1>1 DEF Notify, tables, accidents
<1>3. CASE k # h
  <2>1. announced'[k] = announced[k]
    BY <1>2, <1>3 DEF TypeOK
  <2> QED BY <1>2, <2>1 DEF Keeps, Promise!Rests, OnRecord, IsFiring
<1>4. CASE k = h
  <2>1. Telling(w, k) /\ Sound(k)
    BY <1>1, <1>2, <1>4 DEF Telling, PromiseInv
  <2>2. /\ job[w].notice \notin announced[k]
        /\ job[w].notice = "firing" <=> IsFiring(eventRow[k])
        /\ job[w].notice \in {"firing", "resolved"}
    BY <1>2, <2>1 DEF Sound, TellingIsDue, PromiseInv, JobsShaped
  <2>3. announced'[k] = announced[k] \cup {job[w].notice}
    BY <1>2, <1>4, <2>2 DEF TypeOK, Heard
  <2> QED BY <1>2, <2>2, <2>3
          DEF Keeps, Promise!TellFiring, Promise!TellResolved, OnRecord, IsFiring
<1> QED BY <1>3, <1>4

\* Every step of the engine is a step of the promise.
LEMMA StepKeepsPromise ==
  ASSUME TypeOK, PromiseInv, [Next]_vars
  PROVE  [Promise!Next]_(Promise!vars)
<1> SUFFICES ASSUME NEW k \in Keys \ disturbed'
             PROVE  Keeps(k)
  BY DEF Promise!Next, Keeps
<1>1. ASSUME NEW w \in Workers, Evaluate(w)
      PROVE  Keeps(k)
  <2>1. PICK i \in todo[w] : Skip(w, i) \/ \E row, notice : Publish(w, i, row, notice)
    BY <1>1, Outcome
  <2>2. UNCHANGED <<eventRow, announced>> /\ disturbed \subseteq disturbed'
    BY <2>1 DEF Skip, Publish, tables, accidents
  <2> QED BY <2>2, KeepsFrame
<1>2. ASSUME \/ \E w \in Workers : \/ CountFails(w) \/ UpsertFails(w)
                                   \/ \E t \in Targets : ObserveMetric(w, t) \/ ObserveProbe(w, t)
             \/ ListAgents \/ CheckOffline \/ Tick \/ Crash \/ UNCHANGED vars
             \/ \E t \in Targets : Touch(t) \/ Hello(t) \/ DeleteAgent(t)
      PROVE  Keeps(k)
  <2>1. UNCHANGED <<eventRow, announced>> /\ disturbed \subseteq disturbed'
    BY <1>2 DEF CountFails, UpsertFails, ObserveMetric, ObserveProbe, Begin, ListAgents,
                CheckOffline, Tick, Crash, Touch, Hello, DeleteAgent, vars, tables, history,
                accidents
  <2> QED BY <2>1, KeepsFrame
<1>3. ASSUME NEW l \in Loaders,
             \/ LoaderStep(l) \/ LoadFails(l)
             \/ \E r \in Rules, state \in RuleState : SaveRule(l, r, state)
      PROVE  Keeps(k)
  <2>1. UNCHANGED <<eventRow, announced>> /\ disturbed \subseteq disturbed'
    BY <1>3 DEF LoaderStep, LoadRules, LoadEvents, Swap, LoadFails, SaveRule, tables, history,
                accidents
  <2> QED BY <2>1, KeepsFrame
<1>4. CASE Cleanup
  <2>1. /\ eventRow' = [c \in Keys |-> IF Stale(eventRow[c]) THEN NoEvent ELSE eventRow[c]]
        /\ announced' = announced /\ k \notin disturbed
    BY <1>4 DEF Cleanup
  <2>2. IsFiring(eventRow'[k]) => IsFiring(eventRow[k])
    BY <2>1 DEF IsFiring, NoEvent
  <2> QED BY <2>1, <2>2 DEF Keeps, Promise!Rests, Promise!Close, OnRecord, IsFiring
<1> QED BY <1>1, <1>2, <1>3, <1>4, UpsertKeeps, NotifyKeeps DEF Next, WorkerStep

\* The engine keeps the promise of each alert until an accident befalls it, and
\* from its next opening on: for any number of goroutines, admin requests,
\* failed statements and restarts.  A record opens before it is told of, and is
\* told of at most once, while it is open; the end likewise.
THEOREM PromiseKept == Spec => KeepsPromise
<1>1. Init => PromiseInv
  BY DEF Init, PromiseInv, JobsShaped, Sound, Opposed, TellingIsDue, WritingIsDue, OneNotice,
         ResolutionIsDue, InHand, Writing, Telling, NoEvents, NoEvent, IsFiring
<1>2. Init => Promise!Init
  BY DEF Init, Promise!Init, OnRecord, NoEvents, NoEvent, IsFiring
<1>3. TypeOK /\ PromiseInv /\ [Next]_vars => [Promise!Next]_(Promise!vars)
  BY StepKeepsPromise
<1> QED BY <1>1, <1>2, <1>3, CopyCorrect, TypeCorrect, PromiseStep, PTL DEF Spec, KeepsPromise, Promise!Spec
=============================================================================
