----------------------------- MODULE AlertEngine -----------------------------
(* The alert engine of internal/alerts/engine.go, with the two tables of     *)
(* internal/store/alert.go it persists to.                                   *)
(*                                                                           *)
(* A goroutine that observes something (a report, a probe result, the        *)
(* offline ticker) is a worker.  It copies the enabled rules, then handles   *)
(* them one at a time; for each one it decides inside e.mu, and only after   *)
(* unlocking does it write the event row and, last, call the notifier.  An   *)
(* admin request that saves a rule, and the start of the process, reload the *)
(* engine in three steps of a loader: read the rules, read the firing        *)
(* events, swap both into memory.  A crash loses everything but the tables.  *)
EXTENDS Integers

CONSTANTS
    Rules,        \* ids of alert rules
    Targets,      \* agents (for a probe rule: the task:agent pair)
    Kind,         \* the kind of each rule
    ForSeconds,   \* for_seconds of each rule
    Cooldown,     \* cooldown_seconds of each rule
    Threshold,    \* threshold of each probe rule
    EventKeep,    \* Options.EventKeep
    Workers,      \* goroutines that evaluate rules
    Checker,      \* the worker that runs Engine.Run: offline check, cleanup
    Loaders,      \* goroutines that call Reload
    Boot,         \* the loader that runs at the start of the process
    MaxNow, MaxSaves, MaxCrashes, MaxDbErrors, MaxFails,
    MaxOverlaps   \* bounds of the exploration

Never == -1       \* the zero time.Time
Kinds == {"metric", "offline", "probe"}

ASSUME EngineAssumption ==
    /\ Kind \in [Rules -> Kinds]
    /\ ForSeconds \in [Rules -> Nat \ {0}]
    /\ Cooldown \in [Rules -> Nat \ {0}]
    /\ Threshold \in [Rules -> Nat]
    /\ EventKeep \in Nat
    /\ Checker \in Workers
    /\ Boot \in Loaders
    /\ MaxNow \in Nat /\ MaxSaves \in Nat
    /\ MaxCrashes \in Nat /\ MaxDbErrors \in Nat /\ MaxFails \in Nat
    /\ MaxOverlaps \in Nat

VARIABLES
    now,          \* opts.Now()
    ruleRow,      \* table alert_rules
    eventRow,     \* table alert_events
    seenRow,      \* agents.last_seen_at; Never: no such agent
    rules,        \* e.rules
    events,       \* e.events
    pending,      \* e.pending: the since of each entry
    probeFails,   \* e.probeFails
    pc,           \* where each worker is
    todo,         \* the rules a worker still has to evaluate
    at,           \* the now a worker took when it started
    listed,       \* the agents the checker has read: their last_seen_at
    job,          \* the event a worker has decided and not yet published
    loader,       \* the loaders
    spent,        \* how much of the bounds is used up
    streak,       \* history: failed probe results since the last success, restarts
                  \* or not, as far as the threshold
    breachRun,    \* history: times of the breaches since the last clear one
    announced,    \* history: the notices sent of the latest recorded episode
    decided,      \* history: when a notice was last decided, since the last reload
    astray,       \* history: keys whose row and memory a race or a lost write parted
    disturbed     \* history: keys whose latest episode such an accident befell

memory  == <<rules, events, pending, probeFails>>
tables  == <<ruleRow, eventRow, seenRow>>
work    == <<pc, todo, at, listed, job>>
accidents == <<astray, disturbed>>
history == <<streak, breachRun, announced, decided, accidents>>
vars == <<now, tables, memory, work, loader, spent, history>>

Keys == Rules \X Targets          \* event ids, ruleID|target
Time == Nat
Stamp == Time \cup {Never}
RuleState == {"absent", "disabled", "enabled"}
NoEvent ==
    [state |-> "none", started |-> Never, updated |-> Never, notified |-> Never]
Recorded == [state: {"firing", "resolved"}, started: Time, updated: Time, notified: Time]
Event == Recorded \cup {NoEvent}
Notice == {"none", "firing", "resolved"}
Item == [rule: Rules, target: Targets, breach: BOOLEAN, counted: BOOLEAN, streak: Nat]
Job == [key: Keys, row: Event, notice: Notice]
Loader == [pc: {"idle", "rules", "events", "swap"},
           rules: [Rules -> RuleState], events: [Keys -> Event],
           firing: SUBSET Keys]     \* history: what fired on record when it read
Budget == [saves: 0..MaxSaves, crashes: 0..MaxCrashes, errors: 0..MaxDbErrors,
           overlaps: 0..MaxOverlaps]

NoRules == [r \in Rules |-> "absent"]
NoEvents == [k \in Keys |-> NoEvent]
NoList == [t \in Targets |-> Never]
IdleLoader == [pc |-> "idle", rules |-> NoRules, events |-> NoEvents, firing |-> {}]

TypeOK ==
    /\ now \in Time
    /\ ruleRow \in [Rules -> RuleState]
    /\ eventRow \in [Keys -> Event]
    /\ seenRow \in [Targets -> Stamp]
    /\ rules \in [Rules -> RuleState]
    /\ events \in [Keys -> Event]
    /\ pending \in [Keys -> Stamp]
    /\ probeFails \in [Keys -> Nat]
    /\ pc \in [Workers -> {"idle", "listed", "loop", "upsert", "notify"}]
    /\ todo \in [Workers -> SUBSET Item]
    /\ at \in [Workers -> Time]
    /\ listed \in [Targets -> Stamp]
    /\ job \in [Workers -> Job]
    /\ \A w \in Workers : pc[w] = "upsert" => job[w].row \in Recorded
    /\ loader \in [Loaders -> Loader]
    /\ spent \in Budget
    /\ streak \in [Keys -> Nat]
    /\ breachRun \in [Keys -> SUBSET Time]
    /\ announced \in [Keys -> SUBSET (Notice \cup {"again"})]
    /\ decided \in [Keys -> Stamp]
    /\ astray \subseteq Keys
    /\ disturbed \subseteq Keys

\* A process that starts on a database holding some rules and no event; part of
\* the bounds may be used up.
Init ==
    /\ now \in 0..MaxNow
    /\ ruleRow \in [Rules -> RuleState]
    /\ eventRow = NoEvents
    /\ seenRow = [t \in Targets |-> now]
    /\ rules = NoRules
    /\ events = NoEvents
    /\ pending = [k \in Keys |-> Never]
    /\ probeFails = [k \in Keys |-> 0]
    /\ pc = [w \in Workers |-> "idle"]
    /\ todo = [w \in Workers |-> {}]
    /\ at = [w \in Workers |-> 0]
    /\ listed = NoList
    /\ \E k \in Keys :
         job = [w \in Workers |-> [key |-> k, row |-> NoEvent, notice |-> "none"]]
    /\ loader = [l \in Loaders |->
                   IF l = Boot THEN [IdleLoader EXCEPT !.pc = "rules"] ELSE IdleLoader]
    /\ spent \in Budget
    /\ streak = [k \in Keys |-> 0]
    /\ breachRun = [k \in Keys |-> {}]
    /\ announced = [k \in Keys |-> {"firing", "resolved"}]
    /\ decided = [k \in Keys |-> Never]
    /\ astray = {}
    /\ disturbed = {}

-----------------------------------------------------------------------------
(* Observations: copy the enabled rules of one kind and start the loop.      *)

EnabledRules(kind) == {r \in Rules : rules[r] = "enabled" /\ Kind[r] = kind}

Overlaps(w) == \E v \in Workers \ {w, Checker} : pc[v] # "idle"

\* An observation may begin beside another one, MaxOverlaps times.
Begin(w, items) ==
    /\ pc[w] = "idle"
    /\ items # {}
    /\ Overlaps(w) => spent.overlaps < MaxOverlaps
    /\ spent' = IF Overlaps(w) THEN [spent EXCEPT !.overlaps = @ + 1] ELSE spent
    /\ pc' = [pc EXCEPT ![w] = "loop"]
    /\ todo' = [todo EXCEPT ![w] = items]
    /\ at' = [at EXCEPT ![w] = now]
    /\ UNCHANGED <<now, tables, memory, listed, job, loader, history>>

\* compare() of the sampled value with each rule's threshold: any outcome.
ObserveMetric(w, t) ==
    /\ w # Checker
    /\ \E breaching \in SUBSET EnabledRules("metric") :
         Begin(w, {[rule |-> r, target |-> t, breach |-> r \in breaching,
                    counted |-> TRUE, streak |-> 0] : r \in EnabledRules("metric")})

ObserveProbe(w, t) ==
    /\ w # Checker
    /\ \E failed \in BOOLEAN :
         /\ failed => \A r \in Rules : probeFails[<<r, t>>] < MaxFails
         /\ Begin(w, {[rule |-> r, target |-> t, breach |-> failed,
                    counted |-> FALSE, streak |-> 0] : r \in EnabledRules("probe")})

\* checkOffline reads the agents first: a list an agent may outrun.  Where no
\* rule can be of the kind nothing would come of it.
ListAgents ==
    /\ pc[Checker] = "idle"
    /\ \E r \in Rules : Kind[r] = "offline"
    /\ pc' = [pc EXCEPT ![Checker] = "listed"]
    /\ listed' = seenRow
    /\ UNCHANGED <<now, tables, memory, todo, at, job, loader, spent, history>>

\* Variant: strictly more than for_seconds.
OverdueStrictly(r, t) == now - listed[t] > ForSeconds[r]

Overdue(r, t) == now - listed[t] >= ForSeconds[r]

OfflineItems ==
    {[rule |-> p[1], target |-> p[2], breach |-> Overdue(p[1], p[2]),
      counted |-> TRUE, streak |-> 0] :
       p \in {q \in EnabledRules("offline") \X Targets : listed[q[2]] # Never}}

\* Then it takes the rules and the time, and goes over every agent and rule.
CheckOffline ==
    /\ pc[Checker] = "listed"
    /\ todo' = [todo EXCEPT ![Checker] = OfflineItems]
    /\ pc' = [pc EXCEPT ![Checker] = IF OfflineItems = {} THEN "idle" ELSE "loop"]
    /\ at' = [at EXCEPT ![Checker] = now]
    /\ listed' = NoList
    /\ UNCHANGED <<now, tables, memory, job, loader, spent, history>>

\* Variant: a success does not delete the count.
FailCountNeverReset(k, failed) == IF failed THEN probeFails[k] + 1 ELSE probeFails[k]

FailCount(k, failed) == IF failed THEN probeFails[k] + 1 ELSE 0

Streak(i) ==
    LET before == streak[<<i.rule, i.target>>]
    IN  IF ~i.breach THEN 0
        ELSE IF before < Threshold[i.rule] THEN before + 1 ELSE before

\* The first critical section of ObserveProbe, one rule at a time.
CountFails(w) ==
    /\ pc[w] = "loop"
    /\ \A i \in todo[w] : ~i.counted
    /\ \E i \in todo[w] :
         LET k == <<i.rule, i.target>>
             fails == FailCount(k, i.breach)
         IN  /\ probeFails' = [probeFails EXCEPT ![k] = fails]
             /\ streak' = [streak EXCEPT ![k] = Streak(i)]
             /\ todo' = [todo EXCEPT ![w] =
                  (@ \ {i}) \cup {[i EXCEPT !.breach = fails >= Threshold[i.rule],
                                            !.counted = TRUE, !.streak = Streak(i)]}]
    /\ UNCHANGED <<now, tables, rules, events, pending, pc, at, listed, job, loader,
                   spent, breachRun, announced, decided, accidents>>

-----------------------------------------------------------------------------
(* evaluate: one critical section that looks at the event and the pending    *)
(* entry of the key, decides, and says what to publish after the unlock.     *)

Deciding(w, i) == pc[w] = "loop" /\ i \in todo[w] /\ i.counted
KeyOf(i) == <<i.rule, i.target>>
Firing(i) == events[KeyOf(i)].state = "firing"
Resume(left) == IF left = {} THEN "idle" ELSE "loop"

\* Leave evaluate without an event to publish.
Skip(w, i) ==
    /\ todo' = [todo EXCEPT ![w] = @ \ {i}]
    /\ pc' = [pc EXCEPT ![w] = Resume(todo[w] \ {i})]
    /\ UNCHANGED <<now, tables, rules, events, probeFails, at, listed, job, loader,
                   spent, streak, announced, decided, accidents>>

\* A worker on its way from evaluate to the table, or to the notifier too.
Writing(w, k) == pc[w] = "upsert" /\ job[w].key = k
InHand(w, k) == pc[w] \in {"upsert", "notify"} /\ job[w].key = k
IsFiring(event) == event.state = "firing"

\* Some row of k on its way says the opposite; so does a row or a notice.
Crossed(k, firing) == \E v \in Workers : Writing(v, k) /\ (IsFiring(job[v].row) <=> ~firing)
Opposed(k, firing) == \E v \in Workers : InHand(v, k) /\ (IsFiring(job[v].row) <=> ~firing)

\* Put the event into memory and leave evaluate to write it and to notify.
Publish(w, i, row, notice) ==
    /\ events' = [events EXCEPT ![KeyOf(i)] = row]
    /\ todo' = [todo EXCEPT ![w] = @ \ {i}]
    /\ pc' = [pc EXCEPT ![w] = "upsert"]
    /\ job' = [job EXCEPT ![w] = [key |-> KeyOf(i), row |-> row, notice |-> notice]]
    /\ decided' = [decided EXCEPT ![KeyOf(i)] = IF notice = "none" THEN @ ELSE at[w]]
    /\ astray' = IF Crossed(KeyOf(i), IsFiring(row)) THEN astray \cup {KeyOf(i)} ELSE astray
    /\ disturbed' =
         IF Opposed(KeyOf(i), IsFiring(row)) THEN disturbed \cup {KeyOf(i)} ELSE disturbed
    /\ UNCHANGED <<now, tables, rules, probeFails, at, listed, loader, spent, streak,
                   announced>>

Breached(w, i) == breachRun' = [breachRun EXCEPT ![KeyOf(i)] = @ \cup {at[w]}]
Cleared(i) == breachRun' = [breachRun EXCEPT ![KeyOf(i)] = {}]

Refresh(w, i) ==
    /\ Deciding(w, i) /\ i.breach /\ Firing(i)
    /\ Publish(w, i, [events[KeyOf(i)] EXCEPT !.updated = at[w]], "none")
    /\ Breached(w, i)
    /\ UNCHANGED pending

\* Variant: one second too early.
HeldEarly(w, i) == at[w] - pending[KeyOf(i)] >= ForSeconds[i.rule] - 1

\* Only metric rules wait for for_seconds (requireFor).
Held(w, i) == at[w] - pending[KeyOf(i)] >= ForSeconds[i.rule]

Hold(w, i) ==
    /\ Deciding(w, i) /\ i.breach /\ ~Firing(i)
    /\ Kind[i.rule] = "metric" /\ pending[KeyOf(i)] # Never /\ ~Held(w, i)
    /\ Skip(w, i)
    /\ Breached(w, i)
    /\ UNCHANGED pending

Arm(w, i) ==
    /\ Deciding(w, i) /\ i.breach /\ ~Firing(i)
    /\ Kind[i.rule] = "metric" /\ pending[KeyOf(i)] = Never
    /\ Skip(w, i)
    /\ pending' = [pending EXCEPT ![KeyOf(i)] = at[w]]
    /\ Breached(w, i)

Since(w, k) == IF pending[k] # Never THEN pending[k] ELSE at[w]

CooledDown(w, k) ==
    \/ events[k].notified = Never
    \/ at[w] - events[k].notified >= Cooldown[k[1]]

\* Variant: the time of the notice is not recorded.
FiringEventUndated(w, k) ==
    [state |-> "firing", started |-> Since(w, k), updated |-> at[w],
     notified |-> events[k].notified]

FiringEvent(w, k) ==
    [state |-> "firing", started |-> Since(w, k), updated |-> at[w],
     notified |-> IF CooledDown(w, k) THEN at[w] ELSE events[k].notified]

Fire(w, i) ==
    /\ Deciding(w, i) /\ i.breach /\ ~Firing(i)
    /\ Kind[i.rule] = "metric" => pending[KeyOf(i)] # Never /\ Held(w, i)
    /\ Publish(w, i, FiringEvent(w, KeyOf(i)),
               IF CooledDown(w, KeyOf(i)) THEN "firing" ELSE "none")
    /\ pending' = [pending EXCEPT ![KeyOf(i)] = Never]
    /\ Breached(w, i)

\* Variant: the resolved notice does not start a cooldown.
ResolvedEventUndated(w, k) ==
    [events[k] EXCEPT !.state = "resolved", !.updated = at[w]]

ResolvedEvent(w, k) ==
    [events[k] EXCEPT !.state = "resolved", !.updated = at[w], !.notified = at[w]]

Resolve(w, i) ==
    /\ Deciding(w, i) /\ ~i.breach /\ Firing(i)
    /\ Publish(w, i, ResolvedEvent(w, KeyOf(i)), "resolved")
    /\ pending' = [pending EXCEPT ![KeyOf(i)] = Never]
    /\ Cleared(i)

\* Variant: an evaluation below the threshold leaves the pending entry.
QuietKeepsPending(w, i) ==
    /\ Deciding(w, i) /\ ~i.breach /\ ~Firing(i)
    /\ Skip(w, i)
    /\ Cleared(i)
    /\ UNCHANGED pending

Quiet(w, i) ==
    /\ Deciding(w, i) /\ ~i.breach /\ ~Firing(i)
    /\ Skip(w, i)
    /\ pending' = [pending EXCEPT ![KeyOf(i)] = Never]
    /\ Cleared(i)

-----------------------------------------------------------------------------
(* After the unlock: the row, then the notice.                               *)

\* Variant: the conflict keeps the state too.
StoredRowKeepsState(old, new) ==
    IF old.state = "none" THEN new
    ELSE [new EXCEPT !.started = old.started, !.state = old.state]

\* ON CONFLICT(id) leaves the started_at of an existing row as it is.
StoredRow(old, new) ==
    IF old.state = "none" THEN new ELSE [new EXCEPT !.started = old.started]

Opens(old, new) == ~IsFiring(old) /\ IsFiring(new)

AfterUpsert(w) == IF job[w].notice = "none" THEN Resume(todo[w]) ELSE "notify"

\* The row written is what memory holds, and nobody else has the key in hand:
\* the first repairs the record, both make the episode it opens a sound one.
Repairs(k) == ~Crossed(k, IsFiring(events[k]))
AloneWith(w, k) == \A v \in Workers \ {w} : ~InHand(v, k)

Upsert(w) ==
    /\ pc[w] = "upsert"
    /\ LET k == job[w].key
           opens == Opens(eventRow[k], job[w].row)
       IN  /\ eventRow' = [eventRow EXCEPT ![k] = StoredRow(@, job[w].row)]
           /\ announced' = [announced EXCEPT ![k] = IF opens THEN {} ELSE @]
           /\ astray' = IF Repairs(k) THEN astray \ {k} ELSE astray
           /\ disturbed' = IF opens /\ Repairs(k) /\ AloneWith(w, k)
                           THEN disturbed \ {k} ELSE disturbed
    /\ pc' = [pc EXCEPT ![w] = AfterUpsert(w)]
    /\ UNCHANGED <<now, ruleRow, seenRow, memory, todo, at, listed, job, loader, spent,
                   streak, breachRun, decided>>

\* `_ = e.store.UpsertAlertEvent(...)`: an error is dropped, and what the row
\* would have changed is lost.
UpsertFails(w) ==
    /\ pc[w] = "upsert"
    /\ spent.errors < MaxDbErrors
    /\ spent' = [spent EXCEPT !.errors = @ + 1]
    /\ pc' = [pc EXCEPT ![w] = AfterUpsert(w)]
    /\ LET k == job[w].key
           lost == IF IsFiring(job[w].row) <=> IsFiring(eventRow[k]) THEN {} ELSE {k}
       IN  /\ astray' = astray \cup lost
           /\ disturbed' = disturbed \cup lost
    /\ UNCHANGED <<now, tables, memory, todo, at, listed, job, loader, streak,
                   breachRun, announced, decided>>

Heard(told, notice) == told \cup {IF notice \in told THEN "again" ELSE notice}

\* notifier.Send; its outcome changes nothing in the engine.
Notify(w) ==
    /\ pc[w] = "notify"
    /\ pc' = [pc EXCEPT ![w] = Resume(todo[w])]
    /\ announced' = [announced EXCEPT ![job[w].key] = Heard(@, job[w].notice)]
    /\ UNCHANGED <<now, tables, memory, todo, at, listed, job, loader, spent, streak,
                   breachRun, decided, accidents>>

Evaluate(w) ==
    \E i \in todo[w] : \/ Refresh(w, i) \/ Hold(w, i) \/ Arm(w, i)
                       \/ Fire(w, i) \/ Resolve(w, i) \/ Quiet(w, i)

-----------------------------------------------------------------------------
(* Saving or deleting a rule, and Reload.                                    *)

SaveRule(l, r, state) ==
    /\ loader[l].pc = "idle"
    /\ l # Boot
    /\ spent.saves < MaxSaves
    /\ spent' = [spent EXCEPT !.saves = @ + 1]
    /\ ruleRow' = [ruleRow EXCEPT ![r] = state]
    /\ loader' = [loader EXCEPT ![l].pc = "rules"]
    /\ UNCHANGED <<now, eventRow, seenRow, memory, work, history>>

LoadRules(l) ==
    /\ loader[l].pc = "rules"
    /\ loader' = [loader EXCEPT ![l] = [@ EXCEPT !.pc = "events", !.rules = ruleRow]]
    /\ UNCHANGED <<now, tables, memory, work, spent, history>>

\* Variant: the firing events are not restored.
NoFiringRows == NoEvents

\* ListAlertEvents(ctx, "firing", 1000): fewer than 1000 fire.
FiringRows ==
    [k \in Keys |-> IF eventRow[k].state = "firing" THEN eventRow[k] ELSE NoEvent]

OnRecord == {k \in Keys : IsFiring(eventRow[k])}

LoadEvents(l) ==
    /\ loader[l].pc = "events"
    /\ loader' = [loader EXCEPT ![l] = [@ EXCEPT !.pc = "swap", !.events = FiringRows,
                                                !.firing = OnRecord]]
    /\ UNCHANGED <<now, tables, memory, work, spent, history>>

\* The row has changed since the events were read, or is about to.
Outdated(l, k) ==
    \/ k \in loader[l].firing <=> ~IsFiring(eventRow[k])
    \/ Crossed(k, k \in loader[l].firing)

\* pending and probeFails are kept.
Swap(l) ==
    /\ loader[l].pc = "swap"
    /\ rules' = loader[l].rules
    /\ events' = loader[l].events
    /\ loader' = [loader EXCEPT ![l] = IdleLoader]
    /\ decided' = [k \in Keys |-> Never]
    /\ astray' = {k \in Keys : Outdated(l, k)}
    /\ disturbed' = disturbed \cup astray'
    /\ UNCHANGED <<now, tables, pending, probeFails, work, spent, streak,
                   breachRun, announced>>

\* A failed read ends Reload with the memory as it was; callers go on.
LoadFails(l) ==
    /\ loader[l].pc \in {"rules", "events"}
    /\ spent.errors < MaxDbErrors
    /\ spent' = [spent EXCEPT !.errors = @ + 1]
    /\ loader' = [loader EXCEPT ![l] = IdleLoader]
    /\ UNCHANGED <<now, tables, memory, work, history>>

-----------------------------------------------------------------------------
(* The clock, the agents table, the retention and the process.               *)

Tick ==
    /\ now < MaxNow
    /\ now' = now + 1
    /\ UNCHANGED <<tables, memory, work, loader, spent, history>>

\* TouchAgent after a report (no row, no effect).
Touch(t) ==
    /\ seenRow[t] # Never
    /\ seenRow' = [seenRow EXCEPT ![t] = now]
    /\ UNCHANGED <<now, ruleRow, eventRow, memory, work, loader, spent, history>>

\* EnsureAgent when an agent says hello; DeleteAgent leaves the events.
Hello(t) ==
    /\ seenRow[t] = Never
    /\ seenRow' = [seenRow EXCEPT ![t] = now]
    /\ UNCHANGED <<now, ruleRow, eventRow, memory, work, loader, spent, history>>

DeleteAgent(t) ==
    /\ seenRow[t] # Never
    /\ spent.saves < MaxSaves
    /\ spent' = [spent EXCEPT !.saves = @ + 1]
    /\ seenRow' = [seenRow EXCEPT ![t] = Never]
    /\ UNCHANGED <<now, ruleRow, eventRow, memory, work, loader, history>>

Stale(row) == row.state # "none" /\ row.updated < now - EventKeep

\* The retention takes the row of an alert that fires in memory; of an alert
\* whose opening is just being told.
TakenFromMemory == {k \in Keys : Stale(eventRow[k]) /\ IsFiring(events[k])}
TakenWhileTold ==
    {k \in Keys : /\ Stale(eventRow[k])
                  /\ \E w \in Workers : pc[w] = "notify" /\ job[w].key = k
                                        /\ job[w].notice = "firing"}

\* The goroutine of Run cleans up between two offline checks.
Cleanup ==
    /\ pc[Checker] = "idle"
    /\ \E k \in Keys : Stale(eventRow[k])
    /\ eventRow' = [k \in Keys |-> IF Stale(eventRow[k]) THEN NoEvent ELSE eventRow[k]]
    /\ astray' = astray \cup TakenFromMemory
    /\ disturbed' = disturbed \cup TakenWhileTold
    /\ UNCHANGED <<now, ruleRow, seenRow, memory, work, loader, spent, streak,
                   breachRun, announced, decided>>

\* The process dies and starts again: what is not in a table is gone, and what
\* fires on record is in no memory until the boot has loaded it.
Crash ==
    /\ spent.crashes < MaxCrashes
    /\ spent' = [spent EXCEPT !.crashes = @ + 1]
    /\ rules' = NoRules
    /\ events' = NoEvents
    /\ pending' = [k \in Keys |-> Never]
    /\ probeFails' = [k \in Keys |-> 0]
    /\ pc' = [w \in Workers |-> "idle"]
    /\ todo' = [w \in Workers |-> {}]
    /\ listed' = NoList
    /\ astray' = OnRecord
    /\ loader' = [l \in Loaders |->
                    IF l = Boot THEN [IdleLoader EXCEPT !.pc = "rules"] ELSE IdleLoader]
    /\ UNCHANGED <<now, tables, at, job, streak, breachRun, announced, decided,
                   disturbed>>

WorkerStep(w) == CountFails(w) \/ Evaluate(w) \/ Upsert(w) \/ Notify(w)

LoaderStep(l) == LoadRules(l) \/ LoadEvents(l) \/ Swap(l)

Next ==
    \/ \E w \in Workers : \/ WorkerStep(w) \/ UpsertFails(w)
                          \/ \E t \in Targets : ObserveMetric(w, t) \/ ObserveProbe(w, t)
    \/ ListAgents \/ CheckOffline
    \/ \E l \in Loaders :
         \/ LoaderStep(l) \/ LoadFails(l)
         \/ \E r \in Rules, state \in RuleState : SaveRule(l, r, state)
    \/ Tick \/ Cleanup \/ Crash
    \/ \E t \in Targets : Touch(t) \/ Hello(t) \/ DeleteAgent(t)

Spec == Init /\ [][Next]_vars

\* The tickers, a running goroutine and a started reload all get on; nothing is
\* assumed of agents, administrators, the bounds or the database.
Fairness ==
    /\ WF_vars(Tick)
    /\ WF_vars(ListAgents) /\ WF_vars(CheckOffline)
    /\ \A w \in Workers : WF_vars(WorkerStep(w))
    /\ \A l \in Loaders : WF_vars(LoaderStep(l))

FairSpec == Spec /\ Fairness

-----------------------------------------------------------------------------
(* Properties.                                                               *)

\* A breach evaluation of engine.go turned k firing in memory (Reload did not).
Fires(k) ==
    /\ events[k].state # "firing" /\ events'[k].state = "firing"
    /\ UNCHANGED loader

\* A metric alert fires only after breaches that span for_seconds, starting at
\* its started_at, with no evaluation below the threshold among them: evaluate,
\* whatever goroutines, reloads and restarts interleave.
MetricHeldUnbroken ==
    [][\A k \in Keys : Fires(k) /\ Kind[k[1]] = "metric" =>
         /\ events'[k].started \in breachRun'[k]
         /\ events'[k].updated - events'[k].started >= ForSeconds[k[1]]]_vars

\* A pending entry dates from a breach that nothing has cleared since: the
\* strengthening MetricHeldUnbroken rests on (pending survives Reload).
PendingIsABreach == \A k \in Keys : pending[k] # Never => pending[k] \in breachRun[k]

\* A probe alert fires only on behalf of a result that was, when it was counted,
\* the last of threshold failures in a row of its task and agent: ObserveProbe
\* counts in one critical section and evaluates in another, other results of the
\* key are counted and evaluated in between, and a crash loses the counts.
ProbeFiresOnStreak ==
    [][\A w \in Workers : \A i \in todo[w] \ todo'[w] :
         Kind[i.rule] = "probe" /\ Fires(KeyOf(i)) => i.streak >= Threshold[i.rule]]_vars

\* Between two reloads, two notices that evaluate decides on, the second of a
\* firing, are at least cooldown_seconds apart, two at one instant included (a
\* reload forgets the first).
CooldownRespected ==
    [][\A w \in Workers :
         LET k == job'[w].key
             announces == pc[w] = "loop" /\ pc'[w] = "upsert" /\ job'[w].notice = "firing"
         IN  announces /\ decided[k] # Never =>
               decided'[k] - decided[k] >= Cooldown[k[1]]]_vars

\* Whenever no row of an alert is on its way, the table and the memory agree
\* whether it fires, whatever observers, requests, failures and restarts do, but
\* after one of the accidents the code has: two opposite decisions written at
\* once, a Reload with an outdated copy, a change lost to a failed write, an
\* alert taken by the retention while it fires, a start not yet loaded.  The next
\* row written, and the next Reload with a current copy, end it.
RecordAgrees ==
    \A k \in Keys \ astray :
      (\A w \in Workers : ~Writing(w, k)) => (IsFiring(eventRow[k]) <=> IsFiring(events[k]))

Promise ==
    INSTANCE AlertPromise WITH
      open <- OnRecord, told <- announced,
      owed <- Keys \ disturbed

\* The engine implements AlertPromise: the row is written before the notice,
\* a restart restores what the row says, and only the accidents that part row
\* and memory release it, until the next opening.
KeepsPromise == Promise!Spec

\* An agent that stays silent for for_seconds ends up firing, and on record,
\* under an enabled offline rule, through failed writes and restarts: every
\* check refreshes the row.
Silent(k) ==
    /\ rules[k[1]] = "enabled"
    /\ seenRow[k[2]] # Never
    /\ now - seenRow[k[2]] >= ForSeconds[k[1]]
SilenceIsReported ==
    \A k \in Keys : Kind[k[1]] = "offline" =>
      (<>[]Silent(k) => <>[](eventRow[k].state = "firing"))

\* An agent that keeps reporting does not stay offline on record, even if the
\* process died between the decision and the row: the restart restores what is
\* on record and the next check resolves it.  A failed write or a reload beside
\* an evaluation can leave a row open for good, so both are excepted.
Alive(k) ==
    /\ rules[k[1]] = "enabled"
    /\ seenRow[k[2]] # Never
    /\ now - seenRow[k[2]] < ForSeconds[k[1]]
Undisturbed == spent.saves = 0 /\ spent.errors = 0
RecoveryIsRecorded ==
    \A k \in Keys : Kind[k[1]] = "offline" =>
      (<>[]Alive(k) /\ []Undisturbed => <>[](eventRow[k].state # "firing"))

\* In the end the record follows the agent, in both directions.
RecordFollowsTheAgent == SilenceIsReported /\ RecoveryIsRecorded
=============================================================================
