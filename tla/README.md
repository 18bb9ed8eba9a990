# pjx in TLA+

pjx is a monitoring system: agents on Linux hosts connect to a master over a
websocket, report metrics and run probes for it; the master keeps the latest
sample of each agent, aggregates samples into SQLite, schedules probe tasks,
evaluates alert rules and notifies through Telegram. Two pages show the result:
an admin console and a public status page, React programs under `web/src` that
at this commit run over mock data sources of their own.

These modules model the parts of the master in which goroutines, tables, memory,
timeouts and restarts meet, and the parts of the two pages in which the address,
the history, memoised rows, `localStorage`, timers, visibility and modal dialogs
meet. Paths are relative to `src/`; `engine.go:242` stands for the line of
`internal/alerts/engine.go`, and so on; a bare `overview.tsx` is below
`web/src`.

## The system

| component | code | state | operations |
| --- | --- | --- | --- |
| alert engine | `internal/alerts/engine.go`, `internal/store/alert.go` | in memory, under `e.mu`: rules, events, pending, probeFails; tables `alert_rules`, `alert_events` | ObserveMetric, ObserveProbe, checkOffline, evaluate, Reload, cleanup |
| sessions and hub | `internal/master/hub.go`, `ws.go`, `dispatch.go` | map of sessions by agent id; per session: send channel, pending waiters, LastSeen, closed | hello, report, answers, teardown, CleanupStale, Dispatch |
| agent connection | `internal/agent/agent.go` | one connection, backoff | dial, handshake, collect loop, read loop |
| metrics pipeline | `internal/metrics/pipeline.go`, `internal/store/metric.go` | one open minute bucket per agent; tables `metric_1m`, `metric_1h` | Observe, FlushBefore, FlushAll, rollupHour, cleanup |
| probe scheduler | `internal/scheduler/scheduler.go`, `internal/store/task.go` | tasks and lastRun in memory; tables `tasks`, `task_results` | Reload, runDue, dispatchTask, dispatchOne, RunTaskNow, cleanup |
| memory tier, series queries | `internal/metrics/ring.go`, `query.go` | a ring of samples per agent | Push, QuerySeries |
| notifications | `internal/notify/telegram.go` | next free time slot | Send with rate limit and one retry |
| login | `internal/master/auth.go` | attempts per address, password hash | allow, fail, login |
| settings, tokens | `internal/master/settings.go`, `internal/store/token.go` | tables `settings`, `agent_tokens`, live configuration | GET/PUT, create, revoke, hello check |
| schema | `internal/store/store.go` | `user_version` | migrate |
| process | `internal/master/server.go`, `cmd/master` | goroutines | Run, shutdown |
| API, SSE, pages | `internal/master/api.go`, `sse.go`, `static.go` | none | handlers over the parts above |
| console settings | `web/src/lib/persist.ts`, `lib/settings.ts`, `components/settings-provider.tsx`, `pages/settings` | one React state per tab, one entry in `localStorage`; a draft per page | save, inline switches, effect that stores, reading back, tokens, test message |
| console pages | `web/src/pages/overview.tsx`, `probes.tsx`, `alerts.tsx`, `components/server-sheet.tsx`, `node-tags-dialog.tsx` | parameters of the address; deferred words, memoised rows, dialogs, drafts | filters, sorting, drill-down, sheets, switches, tags, tasks |
| console shell | `web/src/app.tsx`, `layout/app-shell.tsx`, `components/command-palette.tsx`, `lib/url.ts` | location and history, drawer, palette | navigate, Back, redirects |
| console live store | `web/src/lib/mock.ts` | readings in module variables, interval, snapshot timer, listeners | tick, subscribe, visibility |
| public live store | `web/src/public/mock.ts` | the same, a pause, a cache of generated curves | tick, pause, historyFor, pingHistoryFor |
| public page | `web/src/public/app.tsx`, `components/node-card.tsx`, `node-list.tsx`, `ping-detail-dialog.tsx` | parameters, stars and view in `localStorage`, memoised rows, dialog | filters, stars, open, siblings, close |
| node detail, charts | `web/src/public/components/node-detail.tsx`, `components/time-series-chart.tsx` | range, dates, group, hidden lines, picker; crosshair in the DOM | ranges, dates, tap, hover |

How they interact: the read loop of a session hands every report to the
pipeline, to `TouchAgent` and to `ObserveMetric`, synchronously. The scheduler
asks the hub which agents are online and dispatches through it; each recorded
result is handed to `ObserveProbe` by a hook. Admin handlers write a table and
call `Reload` of the engine or of the scheduler. Deleting an agent clears its
rows in several tables; nothing tells the parts that hold it in memory.

In the pages, React renders from the address, the store and the live store; an
effect after the commit writes `localStorage`, subscribes and stores settings;
memoised rows change with their dependencies and not with the readings; the
crosshair of a chart is written into the DOM past React. The palette answers
everywhere, over open dialogs and sheets. Every page shares the tab's history.

What is hard: every component has a lock, and every one releases it before it
writes to the database, sends or notifies; memory and tables are two copies of
the same thing, read and swapped in separate steps by `Reload`; the process may
die between any two of these steps; connections are replaced before the old one
is noticed to be dead; requests time out while their answer is under way. In the
pages: copies (a draft, memoised rows, a cached curve, a map taken at rendering)
outlive what they were taken from, Back and the palette move an address under
open dialogs, and timers, visibility, pauses and StrictMode's double effects
start and stop one interval.
`PROJECT.json` lists the places, each with the properties that watch it.

What makes the parts correct:

- alert engine: an alert opens only on an unbroken breach; a notice of an
  episode is never repeated; what is on record survives a restart; silence and
  recovery end up on record.
- hub: a session in the map is one somebody serves; stale and closed sessions
  leave; an answer reaches its own request; requests end and leave nothing.
- pipeline: a minute holds each of its samples once; rollups lose none.
- scheduler: a run has one verdict, on record before anybody hears of it; due
  runs end; memory follows the table.
- console: what it calls saved is what the next visit reads; one act changes one
  entry; a number leads to as many rows; what was removed or revoked stays so.
- public page: the rows are what filters and stars select; every curve is the
  one that was asked for; a detail shares nothing with another; Back leaves it;
  the numbers move exactly while they are wanted.

## Modules

| module | models | extends or instantiates |
| --- | --- | --- |
| `AlertPromise` | what the engine owes to those it notifies: an alert opens and closes, each is announced at most once, and only while it is true | |
| `AlertEngine` | engine and its tables | instantiates `AlertPromise` |
| `AlertEngineProofs` | theorems about `AlertEngine` | extends `AlertEngine`, `TLAPS` |
| `AgentHub` | sessions, hub, dispatch, and the agent's end | |
| `AgentHubProofs` | theorems about `AgentHub` | extends `AgentHub`, `TLAPS` |
| `MetricLedger` | the minute series as it is meant: each minute the aggregate of its samples | |
| `MetricsPipeline` | buckets, flush, rollup, retention, stop and restart | instantiates `MetricLedger` |
| `MetricsPipelineProofs` | theorems about `MetricsPipeline`, lemmas about finite sums | extends `MetricsPipeline`, `TLAPS` |
| `ProbeLedger` | what a probe run owes: one verdict, recorded once, observed once and after that | |
| `Scheduler` | launches, jobs, retries, results, admin requests | instantiates `ProbeLedger` |
| `SchedulerProofs` | theorems about `Scheduler` | extends `Scheduler`, `TLAPS` |
| `Inventory` | what the console's data source lists | |
| `Router` | location, parameters, history (`lib/url.ts`; react-router's hooks are external) | |
| `SettingsStore` | settings of two tabs and their entry in `localStorage` | extends `Inventory` |
| `StoreProofs` | lemmas about the settings store: what reading back makes of any entry, what each step leaves alone | extends `SettingsStore`, `TLAPS` |
| `SettingsPages` | drafts, tokens, test message, maintenance of the settings pages | extends `SettingsStore` |
| `SettingsPagesProofs` | theorems about `SettingsPages` | extends `SettingsPages`, `StoreProofs` |
| `FleetFeed` | the console's live store | extends `Inventory` |
| `OverviewPage` | overview with sheet and dialogs | extends `SettingsStore`, `Router`, `FleetFeed` |
| `ProbesPage`, `AlertsPage` | the two other pages with state of their own | extend `SettingsStore`, `Router` |
| `AdminApp` | shell, palette, routes, and the pages over one store, feed and history | extends the three pages |
| `AdminAppProofs` | theorems about the console: feed, overview, tasks | extends `AdminApp`, `StoreProofs` |
| `PublicFeed` | the public page's live store, its cache of curves | |
| `SeriesChart` | axis and crosshair of a chart | |
| `NodeDetail` | the detail of a node | extends `PublicFeed`, `SeriesChart` |
| `PublicPage` | the public page put together | extends `Router`, `NodeDetail` |
| `PublicPageProofs` | theorems about the public page: feed, detail, charts, history, rows | extends `PublicPage`, `TLAPS` |
| `MC...` | the instances TLC checks | extend the module of the name |

Definitions marked *Variant* in a comment are plausible mistakes in the
definition that follows them; putting one in its place must break a property.

### AlertEngine

A worker is a goroutine that evaluates: a session's read loop, a probe job, or
`Checker`, the goroutine of `Engine.Run`. `Begin` copies the enabled rules (the
short critical section of `enabledRules`); then, rule by rule, one of `Refresh`,
`Hold`, `Arm`, `Fire`, `Resolve`, `Quiet` is the critical section of `evaluate`,
one action for each way through it; `Upsert` and `Notify` follow after the
unlock. A probe result has a critical section before that, `CountFails`. A
loader is a goroutine in `Reload`: `LoadRules`, `LoadEvents`, `Swap`. `Crash`
keeps only the tables. `UpsertFails` and `LoadFails` are the errors the code
drops. `checkOffline` is `ListAgents`, which reads the agents, and `CheckOffline`,
which takes the rules and the time; when the first fails, the check does nothing.

Abstracted: metrics and thresholds (a breach is any outcome of `compare`, except
for the offline rule, which compares the clock), messages and severity. A rule
keeps its kind and its numbers; a save adds or removes it, or switches it on or
off. Time counts in units of a second, as the code compares Unix seconds.
`ListAlertEvents` is assumed to return all firing events (its limit is 1000).

The history variables change nothing the code does. `streak` counts the failed
results of a key, and an item of work takes along what it was when its result was
counted; `breachRun`, `announced` and `decided` record breaches and notices; a
loader's `firing` is what fired on record when it read.
`astray` and `disturbed` record the accidents in which the code parts an alert's
row from its memory, or one decision from the notice of another, since it writes
and notifies after the unlock:

| accident | where | ends |
| --- | --- | --- |
| two opposite decisions on their way to the table at once | `Publish`: `Crossed`, `Opposed` | with a row that says what memory holds |
| Reload swaps in a copy that a row, or a row on its way, has outrun | `Swap`: `Outdated` | the same, or the next Reload with a current copy |
| a failed write that would have changed the state on record | `UpsertFails` | the same |
| retention takes an alert that fires, or is just being announced | `Cleanup` | the same |
| a start, until the boot has loaded what fires | `Crash` | with the load |

`RecordAgrees` says that row and memory agree about every other key, and
`KeepsPromise` that the promise is kept for it; the next opening, by a worker
alone with the key, makes the promise anew. Each accident is needed and happens:
with any one of them taken out of the definitions TLC finds one of the two
properties violated in `alert_rules`.

### AgentHub

Each connection is used once. `phase` is the read loop of `handleAgentWS`:
`open` before the hello, `welcoming` between `Hello` (registration) and `Reply`
(the welcome), `joined`, then teardown in two steps, `TeardownRemove` and
`TeardownClose`, in the order of the deferred calls. `Sweep...` is
`CleanupStale`, which closes first. `Removed` deletes by agent id, as the code
does. A first report sets `HasLatest` before `LastSeen` while the sweep takes no
lock: `Unset` is the state in between. A request is `Dispatch`, `Register`,
`Enqueue`, then `Receive` or `Timeout`. `EnqueuePanics` is the send on a closed
channel in a goroutine without `recover`: the master starts again. Frames are
their ids; metrics, snapshots and rejected hellos are left out. The cutoff of a
sweep is taken at its start. Three pairs of steps of the code are one here, since
nothing can come between them that matters: an id and its waiter (`Register`:
nobody else learns the id before the waiter is there), the lookup of a waiter and
the send into its channel (`Deliver`: once the request has returned nobody reads
that channel), the look at a session and its closing (`SweepClose`: a report in
between does not save the session, and its `LastSeen` no longer counts).

### MetricsPipeline

One metric stands for the fourteen, its sum for the average. `Observe` is the
whole handler with the flush at the turn of the minute. `proc` and `looping` are
the shutdown: `Server.Run` and `Pipeline.Run` both flush everything, in any
order, and hijacked connections keep delivering until the process is gone.
`FlushBeforeCancelled` is the select that takes the ticker although the context
is done: the write fails and the buckets are dropped. An agent's clock is never
ahead of the master's, and a sample arrives at most `MaxLag` late. A flush holds
the pipeline's lock while it writes one agent after the other, each in a
transaction of its own; here it is one step, which fails for all or for none. No
property relates two agents, and for each agent both outcomes occur. Retention
deletes in at most 20 batches of 5000 rows; here one step deletes all of them. In
`MetricLedger` a deletion names the minutes of each agent that it takes, so that
the removal of one agent and the retention of all are the same action.

### Scheduler

A launch is a call of `dispatchTask` or `RunTaskNow`: it lists the agents, then
starts a job for each target online. A job is `dispatchOne`: attempts
(`Answered`, `TryFails`), `Insert` or `InsertFails`, `Hook`. A job of a request
works on the context of that request, which is done when its handler returns
(`EndLaunch`). Admin requests are `SaveTask`, or `DeleteResults` and
`DeleteRow`, then `ReadTasks` and `Swap`. Time is kept as ages that stop
counting at the interval and at the retention, so that the clock needs no
bound. The scope of a task is a constant (`resolveTargets` is not modelled), as
are its interval and retries; a save adds it or switches it on or off. `StartJob`
is the look at the hub, the goroutine and its run id in one step: an agent that
goes offline in between is one that goes right after it. Requests overlap.
`newest` and `overtaken` are history variables about the copies that `Reload`
reads and swaps in: which request holds the one read last, and whether an older
one was swapped in after it, or the reading failed.

### SettingsStore and SettingsPages

`settings[t]` is the provider's state in tab `t`: `Here`, whose pages are
modelled, and `Other`, a second tab on the same `localStorage`. `SaveIn` is
`setSettings((prev) => ({...prev, ...patch}))`; `Persist` is the effect that
follows, a step of its own; `PersistFails` is the exception it swallows.
`normalizeSettings` completes what it reads key by key, and two of the keys field
by field. Tokens and created tasks are sets: no page shows the order in which they
were made. The hooks `setTags`, `setMaintenance`, `removeProbe` and so on are the
patches of `settings-provider.tsx`.

One settings page is mounted at a time. `draft` is the copy `useDraft` takes; the
footer's state is derived (`FooterStatus`), as in the code. `RunTest` and
`TimerFires` are the test message, whose timers nothing clears except leaving
the page, and the sheet of a new token holds what it issued until `CloseCreate`.
`shownOnce` and `revoked` are history variables.

### OverviewPage, ProbesPage, AlertsPage and AdminApp

The filters are parameters of `loc`; `Push`, `Replace` and `FollowTo` are the
three ways the code navigates (`setParams`, with `replace`, a link). `deferred` is
`useDeferredValue`: the table catches up in a step of its own (`CatchUp`).
`order` is the memoised table: `Render` sorts and filters again exactly when a
dependency changes, with the readings of that moment. Counts (`FaultCount`,
`UpkeepCount`) follow every tick. `FollowSheet` is what another `?server=` makes
of an open dialog: the sheet is not remounted. `OverviewFollows` and
`ProbesFollow` are conjoined to every step of another part that navigates, so
that nothing of a page outlives its route. The page's readings are integers, and
ratios are compared by multiplying out. `Sorted` is the arrangement in which every
row is `Above` all later ones; JavaScript's sort is stable, so that rows with equal
keys stay in the order of the inventory, which is the last criterion of `Above`.

`FleetFeed` has the interval, the snapshot timer and the listeners;
`SnapshotArrives`, `Hide`, `Show` and `Subscribe` are the four handlers that
start and stop it. `Boot` and `StrictUnmount` are the double effects of React's
StrictMode in `main-admin.tsx`.

### PublicFeed, SeriesChart, NodeDetail and PublicPage

As above, with the pause of the header, the probe epoch (only the first node
that reports is probed in one, as the code writes the epoch down inside its
loop), and `cache`, which holds what a generated curve was asked for, its number of
points and the tick it started from. `Commit` is what every commit takes along: the
memoised rows, the effects of `usePersistentState`, and the curves the rendering
asks for. The stars are a set, since the order of starring is stored but never
shown. `Press` is a click of the mouse, which closes the menu or the picker it
lands outside of; `Aside` is any other step, a button one activates by a key
included (`Activate` is either). `Follow` is the `key` of the
detail. The crosshair (`cursor`) belongs to the chart and no rendering moves it;
it goes with the chart. Three charts stand for all: one of lines, one with a
reference line whose length does not depend on the node, and the probe lines.

## Runs

All bounds are constants named `Max...`. They are checked with two workers in at
most about two and a half minutes each.

| run | question | bounds |
| --- | --- | --- |
| `alert_rules` | does an alert open only on an unbroken breach or on a result that completes a streak; do table and memory agree at rest, and is a notice never repeated, but after an accident; does the cooldown hold? | a metric or a probe rule on one target, two observers beside the checker and two loaders, `ForSeconds` 1 and 2, `Cooldown` 2, threshold 2, retention of 1, clock to 4, four visits (below) |
| `alert_offline` | do silence and recovery end up on record? | `ForSeconds` 2, clock to 3, one save or deletion, one crash, one failed statement, retention of 0 |
| `hub_sessions` | does the hub hold only served sessions; do waiters leak? | two connections of one agent, one request and one id for each session, a queue of one, clock to 1, sweep after more than 0 |
| `hub_requests` | is an answer the request's own, does each request end, do stale and closed sessions leave? | one connection, two requests, three ids |
| `hub_reconnect` | is a connected agent in the hub? No | two connections |
| `metric_ledger` | does a minute hold its samples, does an hour keep and get all of them? | minutes of 2, hours of 4, lag 1, four samples of two values, clock to 9, one deletion |
| `metric_faults` | is anything counted twice? | two agents, lag 2, three samples, one stop, one crash, one database error, clock to 5 |
| `task_runs` | has a run one verdict, observed once and after it is on record; does memory follow the table? | one task and agent, one retry, two launches, two runs, one of them by request, one crash, one error; or no run left, two saves or deletions that overlap, one crash, one error |
| `task_live` | do due runs end, is an enabled task probed? | no retry, one save or deletion, two runs |
| `web_settings` | is what is called saved what a reload reads, do drafts stay drafts and revoked tokens revoked, is a token complete once? | entries that are no JSON or of an older version, two saves, one edit per mount, one failed write or second tab |
| `web_console` | do numbers lead to as many rows, drafts to their server, acts to one entry; does what was removed stay so; is the feed's badge true? | three servers, one offline, two tasks, seven visits (below) |
| `web_public` | are the rows what is selected, the curves what was asked for, details apart; does Back leave the detail; does the feed move when wanted; does the skeleton end? | three nodes, one off, two probe lines, two days, nine visits (below) |

Why the bounds are enough: an alert needs two breaches `ForSeconds` apart, a
clear one and a second episode within the cooldown, which fit into four seconds;
two crashes allow one in the middle of a restart; two observers are what it takes
to count between another's count and its evaluation, or to write across another's
row. Two connections of one agent
are what teardown, sweep and reconnection can confuse; ids 1 to 3 give two
attempts of one request and one of another. A clock to 9 holds two hours of two
minutes and the first minute after, so that the rollup of an hour runs before
and after its last minute is flushed, and the first minutes and hours age out;
the minutes are kept for two hours, the least that leaves rollups whole (the
default is 14 days). Two runs of one task overlap, and may both outlive the task.
Two saves are a change and one on top of it; a retention that was switched on by
the first can be refined by the second.

`alert_rules` and `task_runs` split their bounds into visits that begin with part
of them spent, and with the clock at a given time (`Visit` in `MCAlertEngine` and
`MCScheduler`): restarts over the whole clock; overlapping observations and a
restart; an overlapping observation and a save; a failed statement and a
restart. Both observers do the same things, and so do the administrators: they
are symmetric. `VIEW Matter` leaves out what a worker that has finished leaves in
its variables, and `Focus` keeps the other rule absent and the agents, which
neither kind of rule looks at, at rest. None of this is in the modules: the theorems
are about `Spec`.

A visit to a page is an address it is opened at and a budget of navigations,
saves, ticks and so on. `MCAdminApp` and `MCPublicPage` list them; each spends its
budget where its address makes something possible: two navigations on a sorted
table with a tick between them, a save under an open sheet, two saves among
filtered rows, a form left by Back, a tab hidden twice; on the public page three
navigations from the plain list, stars under a favourites filter, four acts on a
node that is off, ticks under an open detail, two pauses or hidings before and
after the snapshot. Within a visit every order is explored. The product of all
budgets at every address is out of reach; the counters only ever grow, so that a
visit is the same state space as one with larger bounds begun later.

Several properties are conjunctions of named parts, each with its own comment:
`PagesAreSound`, `SavedIsKept`, `OverviewIsSound`, `ConcernsAreShown`, `FeedIsTrue`,
`ListIsSound`, `ChartsAreTrue`, `OnlyTheLiveMove`, `DetailKeepsToItself`,
`RecordFollowsTheAgent`, `LeavesTheHub`, `TickerDelivers`.

Several assumptions are made in the runs, not in the modules; a theorem that needs
one of them states it as a hypothesis:

- `KeepsLedger` needs samples no later than the grace of a minute (`MaxLag` of
  at most 1 here) and a process that is not stopped.
- In `HourCatchesUp` the clock stops in the hour after the one it is about, as
  if the master stayed up through the hour that follows.
- `web_console` has one tab and a storage that takes what is written; the two-tab
  and failing cases are those of `web_settings`.

Deadlock is not checked: clocks, connections, errors, navigations and acts are
bounded, so every instance may come to its end.

## Fairness

Weak fairness of the clock, of the tickers that `Run` selects on (offline check,
sweep, flush, rollup, due tasks) and of goroutines that have begun: Go schedules
every runnable goroutine, and no step modelled here blocks for ever: a statement
returns, with an error at the latest, and `Dispatch` returns at its timeout.
Where a lock, a select or an error gives a goroutine two ways, fairness is of
the disjunction. Nothing is assumed of agents, networks, administrators, crashes
or errors; a broken connection need never be noticed, except after the master
has closed it itself. Crashes, saves and errors are bounded, so that "from some
point on" is reached.

On the public page the only fairness is that of the timer of the first snapshot:
a browser fires a timer that is set, in a hidden tab too, however late. Nothing
is assumed of the visitor, of ticks or of visibility.

## Proofs

Every safety property that a passing run checks, invariant, action property or
refinement, is also a theorem about the module it belongs to, for all values of the
constants that meet the module's named assumptions: any rules, agents, connections,
tasks, nodes, bounds and so on. What the runs assume and the modules do not is a
hypothesis of the theorem. The theorems are listed in `PROJECT.json`; their lemmas
stand before them in the same module.

Each proof has the same shape: an inductive invariant, a conjunction of named
parts; for each part a lemma that goes through the actions which touch it; a
lemma that the invariant holds in every reachable state; and the property from
that. The invariants are stronger than the properties, as described below.

### AlertEngineProofs

Under `EngineAssumption`: kinds, and a `for_seconds` and a `cooldown_seconds` that
are positive, as `store/alert.go:56` makes them.

| theorem | states | hypotheses |
| --- | --- | --- |
| `TypeCorrect` | `[]TypeOK` | none |
| `PendingCorrect` | `[]PendingIsABreach` | none |
| `HeldUnbroken` | `MetricHeldUnbroken` | none |
| `CooldownKept` | `CooldownRespected` | none |
| `StreakKept` | `ProbeFiresOnStreak` | none |
| `RecordCorrect` | `[]RecordAgrees` | none |
| `PromiseKept` | `KeepsPromise` | none |

Any number of goroutines observe, evaluate and reload at once, statements fail,
retention deletes, and the process crashes at any step.

- `MetricHeldUnbroken` speaks of the step that fires; what makes it true is the
  pending entry left by an earlier step, and `e.pending` survives `Reload` while
  `e.events` does not. The invariant is `TypeOK /\ PendingIsABreach`: only `Arm`,
  `Fire`, `Resolve` and `Quiet` touch `pending`, each in the critical section that
  touches `breachRun`; a crash empties `pending`.
- `CooldownRespected`: `NoticesAreDated`, the time of the last notice decided is
  that of the event in memory, unless a reload has dropped it.
- `ProbeFiresOnStreak`: `StreakInv`, the failures counted in memory are no more than
  the streak of the results, as far as the threshold (a crash resets only the
  first); an item that was counted and breaches bears a streak that reaches it.
- `RecordAgrees`: `RecordInv`. Of a key that is not astray every row on its way says
  what memory holds, and while none is on its way the row says it (`Agrees`); each
  step keeps this or is one of the accidents. `CopyIsWhole`, that a loader's copy
  fires as the table did when it read, makes `Swap` one of them.
- `KeepsPromise`: `PromiseInv`. Of a key that is not disturbed nobody who has it in
  hand says the opposite of memory or of another (`Sound`); an opening or closing
  in a worker's hands has not been announced and its row stands once written
  (`TellingIsDue`, `WritingIsDue`, `ResolutionIsDue`), and only one worker bears
  it (`OneNotice`).

### AgentHubProofs

Under `HubAssumption`: `TypeCorrect` (`TypeOK`), `Served` (`RegisteredIsServed`),
`WaitersCorrect` (`WaitersAreRequests`), `AnswersCorrect` (`AnswerIsOwn`) and
`IdsCorrect`, that two requests of a session never wait for the same id. No
hypotheses: any agents, connections, requests and capacities.

The invariant is `Typed /\ WaitersAreRequests /\ IdsInv /\ AnswerIsOwn`. An answer is
one's own because ids are: `IdsInv` says that an id is given once, that no two
requests of a session hold the same, and that no frame in a channel or on the wire
bears the id of a request that has registered and not yet sent its own. `Served` rests
on `Register` happening before the read loop and on the order of the two deferred
calls, and it holds although the removal is by agent id: removing too much, which
`hub_reconnect` shows, leaves no session behind that nobody serves.

### MetricsPipelineProofs

Under `PipelineAssumption`.

| theorem | states | hypotheses |
| --- | --- | --- |
| `TypeCorrect` | `[]TypeOK` | none |
| `CountsCorrect` | `[]NothingCountedTwice` | none |
| `LedgerKept` | `KeepsLedger` | no stops, crashes or failing statements, `MaxLag <= 1` |
| `HourKept` | `HourNeverShrinks` | no stops or crashes, `MaxLag <= 1`, `KeepsTwoHours` |

`NothingCountedTwice` follows from `Accounted`: what an agent's rows and its open
bucket hold together is at most the number of its samples; a late sample, which
replaces a row, can only lower it. `KeepsLedger` needs `Closed`: a bucket whose
minute is over is flushed before another sample of that minute can arrive, so that
`UPSERT` never replaces. `HourNeverShrinks` needs `HourCovered`: an hour row that
may still be rolled up counts no more than the minutes it is made of. `KeepsTwoHours`
says that minutes are kept for two hours or for ever; with less, a rollup of an
hour whose first minutes have been deleted shrinks its row
(`metrics/pipeline.go`, `rollupHour`), and the default is 14 days.

The sums are finite: `SumFunction` of the community modules, over any finite set
of minutes. Their lemmas go by a smallest counterexample among the subsets of a
finite set.

### SchedulerProofs

Under `SchedulerAssumption`: `TypeCorrect` (`TypeOK`), `FailuresCorrect`
(`FailureIsFinal`), `LedgerKept` (`KeepsProbeLedger`), and `MemoryCorrect`
(`MemoryAgrees`), without hypotheses: requests overlap and statements fail. The
invariant is `TypeOK /\ RunsInv /\ AttemptsInv /\ FailureIsFinal`: a run
is in the hands of one job, and on record before that job reaches its hook; the
attempts of a job count up to its retries. `MemoryCorrect` adds `CopyInv`: unless a
request is still to read the tasks, the copy read last is the table, be it in the
hands of the request in `newest` or, once swapped in and not overtaken, in memory.

### SettingsPagesProofs

`TokensShownOnce` (`PagesAreSound`), `SavedKept` (`SavedIsKept`), `RevokedForGood`
(`RevokedStaysRevoked`) and `DraftsWait` (`OnlySaveStoresTheDraft`), without
hypotheses. The assumptions are on the data: `StoreAssumption` says that the fields
of a setting are complete in the defaults, and that an entry left in `localStorage`
may be absent, broken, of another version, or have fields of another type, but not
arrays with elements of another type, into which `normalizeSettings` does not look
(see *Disagreements*); `TypedIsOffered` that a select yields its options.

The invariant is `StoreInv /\ DraftInv /\ TokenInv /\ FormType`. Its core is in
`StoreProofs`: reading back gives settings of their type from any entry
(`normalizeSettings`), settings that were stored are read back the same, and every
step changes the store by one patch, by the effect that stores it, by a second tab
or by a reload.

### AdminAppProofs

`FeedCorrect` (`FeedIsTrue`), `ConcernsShown` (`ConcernsAreShown`),
`DrillDownCorrect` (`DrillDownIsTheCount`), `DeletedForGood`
(`DeletedStaysDeleted`), `OverviewSound` (`OverviewIsSound`) and `OneAtATime`
(`OneActOneEntry`), for any fleet, tasks, rules, words and landing addresses. The
invariant is the store's, the tags', the dialogs', the tasks' (`ConsoleInv`), the
history's (`UrlInv`), the feed's (`FeedInv`, `FleetInv`) and the memoised rows'
(`RowsInv`).

`ConcernsShown` is about rows that are older than the readings: `RowsInv` says that
an offline server is never above one that is not, which readings cannot change,
since whether a server is off is not one of them. That `Sorted` is an arrangement
at all is a lemma (`RowsExist`): `Above` is a total order, as no two servers have
the same place (`OverviewAssumption`, which also says that the data source and what
is stored respect `MAX_TAGS`).

### PublicPageProofs

`FeedKept` (`OnlyTheLiveMove`), `DetailKept` (`DetailKeepsToItself`), `BackCorrect`
(`BackLeavesTheDetail`), `DrawnTrue` (`ChartsAreTrue`) and `ListCorrect`
(`ListIsSound`). Assumptions: the readings are integers and the inventory says
which nodes are off (`FeedAssumption`), addresses and expiry days
(`PageAssumption`), spots of a chart (`SpotsAssumption`), and that the charts are
those of the two groups (`ChartsAreThese`).

- `OnlyTheLiveMove`: `Wanted`, the interval runs only while the page is shown, not
  paused and mounted.
- `DetailKeepsToItself`: `DetailInv`, without a detail no crosshair is pinned, with
  lemmas on which steps move a range, a hidden line or a crosshair.
- `BackLeavesTheDetail`: `HistoryInv`, an entry that shows a detail has before it
  its list with the same other parameters, for any length at which the browser
  cuts the history; and `DetailIsOpened`, the detail shown is that of the address.
- `ChartsAreTrue`: `CurvesAreKeyed`, every curve in the cache bears the
  request it answers; `ShownIsCached`, what is drawn was asked for;
  `PinnedCursorStays`, what may move a pinned cursor.
- `ListIsSound`: `RowsInv`, the rows are those which the filters, the deferred word and
  the stars select, each once, and in a sorted list the offline ones last.
  `ReadingsInv` keeps every reading one of numbers.

### What is only model-checked

The six liveness properties: `RecordFollowsTheAgent`, `RequestEnds`,
`LeavesTheHub`, `HourCatchesUp`, `TickerDelivers` and `SkeletonEnds`. They rest on
weak fairness, hence on ENABLED, which this prover does not handle. So does what
`hub_reconnect` refutes.

The library's induction theorems take an operator as a parameter, which the
provers here cannot instantiate. Where an induction was needed, for sums over
minutes and for sorted rows, it is replaced by a smallest counterexample in a set
that is well founded (`MinimalSubset`, `RowsExist`), which needs none. The provers
know nothing of `SelectSeq`, `SortSeq`, `@@`, `:>` and of string literals: the
models use comprehensions and an ordered arrangement in their place, and
`TextsAreStrings` says of a few literals that they are strings.

## Disagreements between code and documents

One has a run of its own and is a finding in `PROJECT.json`:

- `hub_reconnect`: the teardown of an old connection removes the new session of
  the same agent, which then counts as offline (`hub.go:98`,
  `docs/protocol.md:29`).

The others appear in the models as they are in the code; properties name them as
exceptions, or runs leave them out. In the master:

- Failure counts are not persisted: after a restart the first failure of a rule
  with threshold 2 resolves a restored alert (`engine.go:170`,
  `docs/alerts.md:22`).
- Jobs of `POST .../run` run on the request's context, which is cancelled when
  the handler returns; the result is not written (`api.go:355`,
  `docs/tasks.md:57`).
- Reload drops events that are not firing, and the cooldown with them
  (`engine.go:113`, `docs/alerts.md:21`).
- Reload swaps in rows it read before an event changed: an alert is forgotten
  and announced again (`engine.go:102`, `docs/alerts.md:20`).
- An alert of a rule that was disabled or deleted, or of a deleted agent, is
  never resolved (`engine.go:301`).
- Rows are written after the unlock: two results of one task and agent evaluated
  at once may write in the other order (`engine.go:293`). A success counted
  between count and evaluation of a failure does not keep that failure from
  firing: the alert is about a streak that is over (`engine.go:164-178`).
- A send on the closed channel of a session takes the master down
  (`hub.go:66-73`).
- A session that never reported is never swept, and one in its first report may
  be (`hub.go:128`, `docs/protocol.md:50`).
- A task dispatched before the welcome makes the agent give up (`ws.go:147`).
- A late sample, or one after a restart in the same minute, replaces the row of
  its minute (`store/metric.go:38`, `docs/metrics.md:38`).
- The bucket of a deleted agent is flushed (`docs/tasks.md:72`); the row of a run
  under way outlives its deleted task (`docs/tasks.md:37`).
- Overlapping saves may leave the scheduler with the older tasks
  (`scheduler.go:99`).
- The id of a failed run carries a suffix for a retry that never came
  (`scheduler.go:221`, `docs/tasks.md:20`).

In the admin console:

- The badge of the upkeep counts the servers with nothing worse than an old
  agent, and leads to all with an old agent (`overview.tsx:676-683` against the
  promise of `overview.tsx:248-250`); `DrillDownIsTheCount` excepts it. After a tick the
  memoised rows of an open drill-down are no longer those that are counted.
- A row opens its sheet with `?server=` alone and drops the filters that
  `overview.tsx:236` says it keeps; the search and the tag chips ignore edited
  tags; the card of the tasks leaves out created ones; what is near no limit
  sorts last only in descending order.
- `?new=1` drops the search word of the tasks, and the form survives Back.
- Navigating by the palette to the path one is at leaves the drawer open
  (`app-shell.tsx:214-217`).
- The timer of a test message reports success after the draft was edited or
  saved (`notifications.tsx:51`).
- The install command shows a whole token beside the list that says a token is
  complete only once (`access.tsx:89`).
- `normalizeSettings` does not look into arrays (`lib/settings.ts:168-169`);
  `lib/theme.ts` and `lib/a11y.ts` touch `localStorage` unguarded.
- The mute button of an alert has no handler (`alerts.tsx:244-251`).

On the public page:

- Only the first node that reports is probed in an epoch (`public/mock.ts:601-603`
  against the comment above it); the histories of latency and loss still grow
  each second; a full resource turns a critical probe into a warning.
- The axis of a detail is looked up among the resource ranges whichever group is
  shown: "网络延迟" under `live`, `1h` and `6h` has an axis of a minute over an
  hour or six of data, and a range stays chosen when the group does not offer
  it (`node-detail.tsx:254-256`). `AxisSpansTheData` excepts these.
- A generated curve starts from the reading of the moment it was first asked
  for, and does not follow the number on the card (`public/mock.ts:312-336`).
- The dialog of a card ignores whether latency or loss was pressed and keeps its
  hidden lines from node to node; the crosshair's numbers stay when ticks or
  ranges move the curve under it; a tap on the memory chart of a node that is off
  locks a crosshair that shows nothing.
- Back can bring a search word back while the search box is closed; a chip that is
  chosen already pushes another entry.

## Not modelled

- Of the master: memory tier and series queries, the notifier's turns and retries
  (a retry may outlast the engine's 10 s), the login limiter (whose zero `until`
  keeps it from ever counting to five, `auth.go:280`), the settings request and
  the tokens' tables, migrations (one that is interrupted before `user_version`
  runs again, `store.go:130`), and the agent's backoff, which is never reset
  (`agent.go:63`). Read-only SQL (uptime, listings, statistics), `sse.go`,
  `static.go`, protocol encoding, the collectors and probes of the agent: pure
  I/O, or no state between calls.
- Of the pages: drawing and layout, the folded sidebar, theme and colour-blind
  mode, the bars and sparklines, the series behind the console's sparklines, the
  crosshair of the dialog's chart, the list of alert events (read-only data), a
  second tab on the public page, and storage that refuses to be read. Which nodes
  a word finds is a constant; so is what counts as a well-formed token.

## Plan

1. Done: the alert engine, the hub, the pipeline and the scheduler, with the
   abstract specifications of three of them; the two pages with their stores,
   feeds, history and dialogs; the theorems about all their safety properties.
2. Theorems that are left: the steps on which the liveness properties rest (a waiter
   leaves by a step of its own request, a closed session is no longer in the hub
   once its read loop has ended), as action properties.
3. Components that are left: the notifier, the login limiter, the settings request
   of the master, migrations, the agent's backoff, and the composition of
   `Scheduler` with `AlertEngine` and with `AgentHub`.
