------------------------------ MODULE Scheduler ------------------------------
(* The probe scheduler of internal/scheduler/scheduler.go with the tables    *)
(* tasks and task_results of internal/store/task.go.                         *)
(*                                                                           *)
(* The ticker launches each due task: a goroutine lists the agents, and      *)
(* starts one more goroutine, a job, for each agent in scope that is online. *)
(* A job tries to have the agent run the probe, retries, writes one row and  *)
(* hands it to the alert engine.  POST .../run launches a task from its HTTP *)
(* handler, whose context ends when the handler returns.  Admin requests     *)
(* change the tables and reload the tasks the scheduler keeps in memory.     *)
EXTENDS Integers

CONSTANTS
    Tasks, Agents,
    Scope,         \* the agents each task is for
    Interval,      \* interval of each task, in ticks
    Retries,       \* retries of each task
    ResultKeep,    \* Options.ResultKeep, in ticks
    Slots,         \* launches that may be under way at once
    Admins,        \* admin requests that may be under way at once
    Boot,          \* the one that stands for Run's own Reload at the start
    MaxRuns, MaxRequests, MaxSaves, MaxCrashes, MaxDbErrors     \* bounds

ASSUME SchedulerAssumption ==
    /\ Scope \in [Tasks -> SUBSET Agents]
    /\ Interval \in [Tasks -> Nat \ {0}]
    /\ Retries \in [Tasks -> Nat]
    /\ ResultKeep \in Nat
    /\ Boot \in Admins
    /\ MaxRuns \in Nat /\ MaxRequests \in Nat /\ MaxSaves \in Nat
    /\ MaxCrashes \in Nat /\ MaxDbErrors \in Nat

VARIABLES
    taskRow,       \* table tasks
    agentRow,      \* ids in table agents
    results,       \* table task_results
    online,        \* the agents in the hub
    tasks,         \* s.tasks
    since,         \* ticks since s.lastRun, up to the interval; no lastRun: all of it
    launches,      \* the launches under way
    jobs,          \* the running dispatchOne
    runs,          \* newRunID: how many ids were given out
    admin,         \* the admin requests
    recorded,      \* history: run and verdict of every row ever inserted
    observed,      \* history: those the result hook was called with
    probed,        \* history: the tasks and agents it was called for
    newest,        \* history: the request whose copy of the tasks is the last one
                   \* read, as long as it is not swapped in
    overtaken,     \* history: the copy read last is not the one in memory: an older
                   \* one was swapped in after it, or the reading failed
    spent          \* how much of the bounds is used up

tables == <<taskRow, agentRow, results>>
memory == <<tasks, since>>
copies == <<newest, overtaken>>
history == <<recorded, observed, probed, copies>>
vars == <<tables, online, memory, launches, jobs, runs, admin, history, spent>>

TaskState == {"absent", "disabled", "enabled"}
NoTasks == [t \in Tasks |-> "absent"]
Run == 1..MaxRuns

\* A launch lists the agents, then takes the targets left one by one.
Launch == [slot: Slots, task: Tasks, by: {"tick", "now"}, listed: BOOLEAN,
           left: SUBSET Agents]

\* slot: the launch whose context the job uses; Detached: that context is done.
\* suffix: how many -rN the run id carries; answered: lastErr is nil.
Detached == "detached"
Job == [run: Run, task: Tasks, agent: Agents, by: {"tick", "now"},
        slot: Slots \cup {Detached}, pc: {"try", "insert", "hook"},
        tries: Nat, suffix: Nat, answered: BOOLEAN, ok: BOOLEAN]

\* tries and answered are not columns: history, for the properties.
Row == [run: Run, task: Tasks, agent: Agents, suffix: Nat, ok: BOOLEAN,
        age: 0..ResultKeep, tries: Nat, answered: BOOLEAN]

\* doomed: the task whose row is still to be deleted.
Admin == [pc: {"idle", "row", "read", "swap"}, doomed: SUBSET Tasks,
          read: [Tasks -> TaskState]]
Budget == [requests: 0..MaxRequests, saves: 0..MaxSaves, crashes: 0..MaxCrashes,
           errors: 0..MaxDbErrors]

IdleAdmin == [pc |-> "idle", doomed |-> {}, read |-> NoTasks]

TypeOK ==
    /\ taskRow \in [Tasks -> TaskState]
    /\ agentRow \subseteq Agents
    /\ results \subseteq Row
    /\ \A x, y \in results : x.run = y.run => x = y
    /\ online \subseteq Agents
    /\ tasks \in [Tasks -> TaskState]
    /\ since \in [Tasks -> Nat] /\ \A t \in Tasks : since[t] <= Interval[t]
    /\ launches \subseteq Launch
    /\ \A k, l \in launches : k.slot = l.slot => k = l
    /\ jobs \subseteq Job
    /\ \A i, j \in jobs : i.run = j.run => i = j
    /\ runs \in 0..MaxRuns
    /\ admin \in [Admins -> Admin]
    /\ recorded \subseteq Run \X BOOLEAN /\ observed \subseteq Run \X BOOLEAN
    /\ probed \subseteq Tasks \X Agents
    /\ newest \subseteq Admins /\ overtaken \in BOOLEAN
    /\ spent \in Budget

\* A process that starts on a database with enabled tasks and known agents;
\* processes before it may have given out run ids and used up part of the bounds.
Init ==
    /\ taskRow = [t \in Tasks |-> "enabled"]
    /\ agentRow = Agents
    /\ results = {}
    /\ online = {}
    /\ tasks = NoTasks
    /\ since = Interval
    /\ launches = {}
    /\ jobs = {}
    /\ runs \in 0..MaxRuns
    /\ admin = [a \in Admins |->
                  IF a = Boot THEN [IdleAdmin EXCEPT !.pc = "read"] ELSE IdleAdmin]
    /\ recorded = {} /\ observed = {} /\ probed = {}
    /\ newest = {} /\ overtaken = FALSE
    /\ spent \in Budget

-----------------------------------------------------------------------------
(* Launches.                                                                 *)

Due(t) == tasks[t] = "enabled" /\ since[t] = Interval[t]

Free == Slots \ {l.slot : l \in launches}

Launched(t, by, slot) ==
    [slot |-> slot, task |-> t, by |-> by, listed |-> FALSE, left |-> {}]

\* runDue: one goroutine per due task.
RunDue ==
    LET due == {t \in Tasks : Due(t)}
    IN  /\ admin[Boot].pc = "idle"
        /\ due # {}
        /\ \E slotOf \in [due -> Free] :
             /\ \A t, u \in due : slotOf[t] = slotOf[u] => t = u
             /\ launches' = launches \cup {Launched(t, "tick", slotOf[t]) : t \in due}
        /\ since' = [t \in Tasks |-> IF t \in due THEN 0 ELSE since[t]]
        /\ UNCHANGED <<tables, online, tasks, jobs, runs, admin, history, spent>>

\* RunTaskNow, of a task in memory, enabled or not.
RunTaskNow(t) ==
    /\ tasks[t] # "absent"
    /\ spent.requests < MaxRequests
    /\ spent' = [spent EXCEPT !.requests = @ + 1]
    /\ \E slot \in Free : launches' = launches \cup {Launched(t, "now", slot)}
    /\ UNCHANGED <<tables, online, memory, jobs, runs, admin, history>>

\* ListAgents and resolveTargets.
List(l) ==
    /\ ~l.listed
    /\ launches' = (launches \ {l}) \cup
         {[l EXCEPT !.listed = TRUE, !.left = agentRow \cap Scope[l.task]]}
    /\ UNCHANGED <<tables, online, memory, jobs, runs, admin, history, spent>>

\* ListAgents fails: the tick is over, the request is answered with an error.
ListFails(l) ==
    /\ ~l.listed
    /\ spent.errors < MaxDbErrors
    /\ spent' = [spent EXCEPT !.errors = @ + 1]
    /\ launches' = launches \ {l}
    /\ UNCHANGED <<tables, online, memory, jobs, runs, admin, history>>

\* An offline agent is skipped; for another one a job starts, with a new run id.
Pass(l, a) == launches' = (launches \ {l}) \cup {[l EXCEPT !.left = @ \ {a}]}

\* newRunID.  Variant: the sequence is read before it is advanced, twice alike.
LastRunId == IF runs = 0 THEN 1 ELSE runs

NewRunId == runs + 1

SkipOffline(l, a) ==
    /\ a \in l.left /\ a \notin online
    /\ Pass(l, a)
    /\ UNCHANGED <<tables, online, memory, jobs, runs, admin, history, spent>>

StartJob(l, a) ==
    /\ a \in l.left /\ a \in online
    /\ runs < MaxRuns
    /\ runs' = runs + 1
    /\ jobs' = jobs \cup
         {[run |-> NewRunId, task |-> l.task, agent |-> a, by |-> l.by,
           slot |-> IF l.by = "now" THEN l.slot ELSE Detached,
           pc |-> "try", tries |-> 0, suffix |-> 0, answered |-> FALSE, ok |-> FALSE]}
    /\ Pass(l, a)
    /\ UNCHANGED <<tables, online, memory, admin, history, spent>>

\* The loop over the targets ends.  Of a request, the handler returns, and the
\* context its jobs were given is cancelled.
EndLaunch(l) ==
    /\ l.listed /\ l.left = {}
    /\ launches' = launches \ {l}
    /\ jobs' = {IF j.slot = l.slot THEN [j EXCEPT !.slot = Detached] ELSE j : j \in jobs}
    /\ UNCHANGED <<tables, online, memory, runs, admin, history, spent>>

-----------------------------------------------------------------------------
(* dispatchOne.                                                              *)

\* Variant: the context of a launch is always cancelled at its end.
CancelledAlways(j) == j.slot = Detached

Cancelled(j) == j.by = "now" /\ j.slot = Detached

Change(j, new) == jobs' = (jobs \ {j}) \cup {new}

\* Dispatch returns the agent's verdict.
Answered(j, ok) ==
    /\ j.pc = "try"
    /\ j.agent \in online
    /\ Change(j, [j EXCEPT !.pc = "insert", !.tries = @ + 1, !.answered = TRUE, !.ok = ok])
    /\ UNCHANGED <<tables, online, memory, launches, runs, admin, history, spent>>

\* Variant: retries counts the attempts.
LastTryEarly(j) == j.tries + 1 >= Retries[j.task]

LastTry(j) == j.tries = Retries[j.task]

\* Dispatch returns an error: no session, an error response, the timeout, or
\* the context is done.  The id gets its suffix whether or not a retry follows.
TryFails(j) ==
    /\ j.pc = "try"
    /\ Change(j, [j EXCEPT !.tries = @ + 1, !.suffix = @ + 1,
                           !.pc = IF LastTry(j) THEN "insert" ELSE "try"])
    /\ UNCHANGED <<tables, online, memory, launches, runs, admin, history, spent>>

RowOf(j) == [run |-> j.run, task |-> j.task, agent |-> j.agent, suffix |-> j.suffix,
             ok |-> j.ok, age |-> 0, tries |-> j.tries, answered |-> j.answered]

Insert(j) ==
    /\ j.pc = "insert" /\ ~Cancelled(j)
    /\ results' = results \cup {RowOf(j)}
    /\ recorded' = recorded \cup {<<j.run, j.ok>>}
    /\ Change(j, [j EXCEPT !.pc = "hook"])
    /\ UNCHANGED <<taskRow, agentRow, online, memory, launches, runs, admin, observed,
                   probed, copies, spent>>

\* Variant: the hook is called although nothing was inserted.
HookedAnyway(j) == Change(j, [j EXCEPT !.pc = "hook"])

Dismissed(j) == jobs' = jobs \ {j}

\* An error, and a done context is one, is logged; inserted is false.
InsertFails(j) ==
    /\ j.pc = "insert"
    /\ Cancelled(j) \/ spent.errors < MaxDbErrors
    /\ spent' = IF Cancelled(j) THEN spent ELSE [spent EXCEPT !.errors = @ + 1]
    /\ Dismissed(j)
    /\ UNCHANGED <<tables, online, memory, launches, runs, admin, history>>

Hook(j) ==
    /\ j.pc = "hook"
    /\ observed' = observed \cup {<<j.run, j.ok>>}
    /\ probed' = probed \cup {<<j.task, j.agent>>}
    /\ jobs' = jobs \ {j}
    /\ UNCHANGED <<tables, online, memory, launches, runs, admin, recorded, copies, spent>>

-----------------------------------------------------------------------------
(* Admin requests and Reload.                                                *)

Starts(a) ==
    /\ a # Boot /\ admin[a].pc = "idle"
    /\ spent.saves < MaxSaves
    /\ spent' = [spent EXCEPT !.saves = @ + 1]

\* POST and PUT: UpsertTask, then Reload.
SaveTask(a, t, state) ==
    /\ Starts(a)
    /\ taskRow' = [taskRow EXCEPT ![t] = state]
    /\ admin' = [admin EXCEPT ![a].pc = "read"]
    /\ UNCHANGED <<agentRow, results, online, memory, launches, jobs, runs, history>>

\* DeleteTask: first its results, then, in another statement, the task.
DeleteResults(a, t) ==
    /\ Starts(a)
    /\ results' = {x \in results : x.task # t}
    /\ admin' = [admin EXCEPT ![a].pc = "row", ![a].doomed = {t}]
    /\ UNCHANGED <<taskRow, agentRow, online, memory, launches, jobs, runs, history>>

DeleteRow(a) ==
    /\ admin[a].pc = "row"
    /\ taskRow' = [t \in Tasks |-> IF t \in admin[a].doomed THEN "absent" ELSE taskRow[t]]
    /\ admin' = [admin EXCEPT ![a] = [IdleAdmin EXCEPT !.pc = "read"]]
    /\ UNCHANGED <<agentRow, results, online, memory, launches, jobs, runs, history, spent>>

ReadTasks(a) ==
    /\ admin[a].pc = "read"
    /\ admin' = [admin EXCEPT ![a].pc = "swap", ![a].read = taskRow]
    /\ newest' = {a}
    /\ UNCHANGED <<tables, online, memory, launches, jobs, runs, recorded, observed,
                   probed, overtaken, spent>>

\* Variant: the tasks read are added to those in memory.
SwappedIn(a) ==
    [t \in Tasks |-> IF admin[a].read[t] = "absent" THEN tasks[t] ELSE admin[a].read[t]]

Swapped(a) == admin[a].read

\* lastRun is kept.
Swap(a) ==
    /\ admin[a].pc = "swap"
    /\ tasks' = Swapped(a)
    /\ admin' = [admin EXCEPT ![a] = IdleAdmin]
    /\ newest' = newest \ {a}
    /\ overtaken' = (a \notin newest)
    /\ UNCHANGED <<tables, online, since, launches, jobs, runs, recorded, observed,
                   probed, spent>>

\* A statement fails: the request ends; after a failed Reload it reports success.
AdminFails(a) ==
    /\ admin[a].pc \in {"row", "read"}
    /\ spent.errors < MaxDbErrors
    /\ spent' = [spent EXCEPT !.errors = @ + 1]
    /\ admin' = [admin EXCEPT ![a] = IdleAdmin]
    /\ IF admin[a].pc = "read" THEN newest' = {} /\ overtaken' = TRUE ELSE UNCHANGED copies
    /\ UNCHANGED <<tables, online, memory, launches, jobs, runs, recorded, observed, probed>>

\* store.DeleteAgent; a hello brings the agent back.
DeleteAgent(a) ==
    /\ a \in agentRow
    /\ spent.saves < MaxSaves
    /\ spent' = [spent EXCEPT !.saves = @ + 1]
    /\ agentRow' = agentRow \ {a}
    /\ results' = {x \in results : x.agent # a}
    /\ UNCHANGED <<taskRow, online, memory, launches, jobs, runs, admin, history>>

-----------------------------------------------------------------------------
(* The hub, the clock, the retention and the process.                        *)

Connect(a) ==
    /\ a \notin online
    /\ online' = online \cup {a}
    /\ agentRow' = agentRow \cup {a}
    /\ UNCHANGED <<taskRow, results, memory, launches, jobs, runs, admin, history, spent>>

Disconnect(a) ==
    /\ a \in online
    /\ online' = online \ {a}
    /\ UNCHANGED <<tables, memory, launches, jobs, runs, admin, history, spent>>

Upto(n, limit) == IF n < limit THEN n + 1 ELSE limit

Tick ==
    /\ since' = [t \in Tasks |-> Upto(since[t], Interval[t])]
    /\ results' = {[x EXCEPT !.age = Upto(@, ResultKeep)] : x \in results}
    /\ UNCHANGED <<taskRow, agentRow, online, tasks, launches, jobs, runs, admin,
                   history, spent>>

\* cleanup: ts < now - ResultKeep.
Cleanup ==
    /\ \E x \in results : x.age = ResultKeep
    /\ results' = {x \in results : x.age < ResultKeep}
    /\ UNCHANGED <<taskRow, agentRow, online, memory, launches, jobs, runs, admin,
                   history, spent>>

\* The process dies and starts again.  Ids stay unique: they hold the time.
Crash ==
    /\ spent.crashes < MaxCrashes
    /\ spent' = [spent EXCEPT !.crashes = @ + 1]
    /\ online' = {}
    /\ tasks' = NoTasks
    /\ since' = Interval
    /\ launches' = {}
    /\ jobs' = {}
    /\ admin' = [a \in Admins |->
                   IF a = Boot THEN [IdleAdmin EXCEPT !.pc = "read"] ELSE IdleAdmin]
    /\ newest' = {} /\ overtaken' = FALSE
    /\ UNCHANGED <<tables, runs, recorded, observed, probed>>

LaunchStep(l) ==
    \/ List(l) \/ EndLaunch(l)
    \/ \E a \in l.left : SkipOffline(l, a) \/ StartJob(l, a)

JobStep(j) == (\E ok \in BOOLEAN : Answered(j, ok)) \/ TryFails(j) \/ Insert(j)
              \/ InsertFails(j) \/ Hook(j)

AdminStep(a) == DeleteRow(a) \/ ReadTasks(a) \/ Swap(a)

Next ==
    \/ RunDue \/ \E t \in Tasks : RunTaskNow(t)
    \/ \E l \in launches : LaunchStep(l) \/ ListFails(l)
    \/ \E j \in jobs : JobStep(j)
    \/ \E a \in Admins : \/ AdminStep(a) \/ AdminFails(a)
                         \/ \E t \in Tasks : \/ DeleteResults(a, t)
                                             \/ SaveTask(a, t, "enabled")
                                             \/ SaveTask(a, t, "disabled")
    \/ \E a \in Agents : DeleteAgent(a) \/ Connect(a) \/ Disconnect(a)
    \/ Tick \/ Cleanup \/ Crash

Spec == Init /\ [][Next]_vars

\* Goroutines run, the ticker fires and the clock advances; Dispatch returns,
\* by its timeout at the latest.
Fairness ==
    /\ WF_vars(Tick) /\ WF_vars(RunDue)
    /\ \A s \in Slots : WF_vars(\E l \in launches : l.slot = s /\ LaunchStep(l))
    /\ \A r \in Run : WF_vars(\E j \in jobs : j.run = r /\ JobStep(j))
    /\ \A a \in Admins : WF_vars(AdminStep(a))

FairSpec == Spec /\ Fairness

-----------------------------------------------------------------------------
(* Properties.                                                               *)

Ledger == INSTANCE ProbeLedger WITH Runs <- Run

\* The scheduler implements ProbeLedger: however jobs, retries, deletions and
\* restarts interleave, a run has one verdict and the alert engine hears of it
\* once and only after it is on record.
KeepsProbeLedger == Ledger!Spec

\* A failure without an answer is recorded only when all retries are used up;
\* an answer ends the attempts, at most retries + 1, and the id on record is the
\* one that was answered.
FailureIsFinal ==
    \A x \in results : /\ x.tries <= Retries[x.task] + 1
                       /\ ~x.answered => ~x.ok /\ x.tries = Retries[x.task] + 1
                       /\ x.answered => x.suffix = x.tries - 1

\* When no request is under way, the scheduler runs the tasks of the table,
\* however requests overlap and fail, unless Reload has let an older copy of the
\* tasks overtake the one read last, or could not read them; the next request
\* whose copy is not overtaken ends it.
MemoryAgrees ==
    (\A a \in Admins : admin[a].pc = "idle") /\ ~overtaken => tasks = taskRow

\* Every run the ticker starts is recorded and then observed, answered or not.
ByTick(r) == \E j \in jobs : j.run = r /\ j.by = "tick"
DueRunIsRecorded == \A r \in Run : ByTick(r) ~> \E ok \in BOOLEAN : <<r, ok>> \in observed

\* An enabled task whose agent is known and stays online is probed, sooner or
\* later, whatever other launches are under way.
EnabledIsProbed ==
    \A t \in Tasks, a \in Agents : a \in Scope[t] =>
      (<>[](tasks[t] = "enabled" /\ a \in online /\ a \in agentRow) => <>(<<t, a>> \in probed))

\* The ticker delivers: an enabled task is probed, and every run ends on record.
TickerDelivers == EnabledIsProbed /\ DueRunIsRecorded
=============================================================================
