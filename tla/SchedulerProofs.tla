--------------------------- MODULE SchedulerProofs ---------------------------
(* Proofs about Scheduler for all tasks, agents, scopes, intervals, retries  *)
(* and bounds: types, the refinement of ProbeLedger, what a row on record    *)
(* says, and the tasks in memory.                                            *)
EXTENDS Scheduler, TLAPS

\* TypeOK in two halves: the runs, and what starts and serves them.
Distinct(S) == \A x, y \in S : x.run = y.run => x = y

RunsOK ==
    /\ results \subseteq Row /\ Distinct(results)
    /\ jobs \subseteq Job /\ Distinct(jobs)
    /\ runs \in 0..MaxRuns
    /\ recorded \subseteq Run \X BOOLEAN /\ observed \subseteq Run \X BOOLEAN

ControlOK ==
    /\ taskRow \in [Tasks -> TaskState]
    /\ agentRow \subseteq Agents
    /\ online \subseteq Agents
    /\ tasks \in [Tasks -> TaskState]
    /\ since \in [Tasks -> Nat] /\ \A t \in Tasks : since[t] <= Interval[t]
    /\ launches \subseteq Launch
    /\ \A k, l \in launches : k.slot = l.slot => k = l
    /\ admin \in [Admins -> Admin]
    /\ probed \subseteq Tasks \X Agents
    /\ newest \subseteq Admins /\ overtaken \in BOOLEAN
    /\ spent \in Budget

\* A run is known from its start; until its row is inserted nothing of it is on
\* record, and until the hook is called nobody has heard of it.
RunsInv ==
    /\ \A j \in jobs : j.run <= runs
    /\ \A v \in recorded : v[1] <= runs
    /\ \A x \in results : <<x.run, x.ok>> \in recorded
    /\ observed \subseteq recorded
    /\ \A j \in jobs : j.pc \in {"try", "insert"} => \A v \in recorded : v[1] # j.run
    /\ \A j \in jobs : j.pc = "hook" =>
         <<j.run, j.ok>> \in recorded /\ \A v \in observed : v[1] # j.run

\* What FailureIsFinal says of a row, and what the attempts of a job amount to
\* before: while it tries none was answered.
Final(x) ==
    /\ x.tries <= Retries[x.task] + 1
    /\ ~x.answered => ~x.ok /\ x.tries = Retries[x.task] + 1
    /\ x.answered => x.suffix = x.tries - 1

AttemptsInv ==
    \A j \in jobs :
      /\ j.pc = "try" => /\ j.tries <= Retries[j.task] /\ j.suffix = j.tries
                         /\ ~j.answered /\ ~j.ok
      /\ j.pc # "try" => Final(j)

SchedulerInv == TypeOK /\ RunsInv /\ AttemptsInv /\ FailureIsFinal

\* Jobs, or rows, that differ in what no invariant of runs is about.
Like(i, j) == /\ i.run = j.run /\ i.task = j.task /\ i.tries = j.tries
              /\ i.suffix = j.suffix /\ i.answered = j.answered /\ i.ok = j.ok

\* A step that only ends jobs, cancels their contexts, or ages and deletes rows.
Quiet ==
    /\ UNCHANGED <<runs, recorded, observed>>
    /\ \A i \in jobs' : i \in Job /\ \E j \in jobs : Like(i, j) /\ i.pc = j.pc
    /\ Distinct(jobs)'
    /\ \A x \in results' : x \in Row /\ \E y \in results : Like(x, y)
    /\ Distinct(results)'

\* TypeOK is its two halves.
LEMMA TypeHalves == TypeOK <=> RunsOK /\ ControlOK
BY DEF TypeOK, RunsOK, ControlOK, Distinct, Budget

-----------------------------------------------------------------------------
(* The fields of jobs, rows and launches.                                    *)

\* A job that was answered.
LEMMA AnsweredFields ==
  ASSUME NEW j \in Job, NEW ok \in BOOLEAN
  PROVE  LET k == [j EXCEPT !.pc = "insert", !.tries = @ + 1, !.answered = TRUE, !.ok = ok]
         IN  /\ k \in Job /\ k.run = j.run /\ k.task = j.task /\ k.pc = "insert"
             /\ k.tries = j.tries + 1 /\ k.suffix = j.suffix /\ k.answered = TRUE
             /\ k.ok = ok
<1> DEFINE n == j.tries + 1
           k == [j EXCEPT !.pc = "insert", !.tries = n, !.answered = TRUE, !.ok = ok]
<1>1. n \in Nat
  BY DEF Job
<1> HIDE DEF n
<1>2. k \in Job
  BY <1>1 DEF Job
<1>3. /\ k.run = j.run /\ k.task = j.task /\ k.pc = "insert" /\ k.tries = n
      /\ k.suffix = j.suffix /\ k.answered = TRUE /\ k.ok = ok
  BY <1>1 DEF Job
<1> QED BY <1>2, <1>3 DEF n

\* A job whose attempt failed.
LEMMA FailedFields ==
  ASSUME NEW j \in Job, NEW next \in {"try", "insert"}
  PROVE  LET k == [j EXCEPT !.tries = @ + 1, !.suffix = @ + 1, !.pc = next]
         IN  /\ k \in Job /\ k.run = j.run /\ k.task = j.task /\ k.pc = next
             /\ k.tries = j.tries + 1 /\ k.suffix = j.suffix + 1
             /\ k.answered = j.answered /\ k.ok = j.ok
<1> DEFINE n == j.tries + 1
           m == j.suffix + 1
           k == [j EXCEPT !.tries = n, !.suffix = m, !.pc = next]
<1>1. n \in Nat /\ m \in Nat
  BY DEF Job
<1> HIDE DEF n, m
<1>2. k \in Job
  BY <1>1 DEF Job
<1>3. /\ k.run = j.run /\ k.task = j.task /\ k.pc = next /\ k.tries = n /\ k.suffix = m
      /\ k.answered = j.answered /\ k.ok = j.ok
  BY <1>1 DEF Job
<1> QED BY <1>2, <1>3 DEF n, m

\* A job whose row was inserted.
LEMMA InsertedFields ==
  ASSUME NEW j \in Job
  PROVE  LET k == [j EXCEPT !.pc = "hook"]
         IN  /\ k \in Job /\ k.run = j.run /\ k.task = j.task /\ k.pc = "hook"
             /\ k.tries = j.tries /\ k.suffix = j.suffix
             /\ k.answered = j.answered /\ k.ok = j.ok
BY DEF Job

\* A job whose context is done.
LEMMA DetachedFields ==
  ASSUME NEW j \in Job
  PROVE  LET k == [j EXCEPT !.slot = Detached]
         IN  /\ k \in Job /\ k.run = j.run /\ k.task = j.task /\ k.pc = j.pc
             /\ k.tries = j.tries /\ k.suffix = j.suffix
             /\ k.answered = j.answered /\ k.ok = j.ok
BY DEF Job

\* The row of a job.
LEMMA RowFields ==
  ASSUME NEW j \in Job
  PROVE  LET x == RowOf(j)
         IN  /\ x \in Row /\ x.run = j.run /\ x.task = j.task /\ x.suffix = j.suffix
             /\ x.tries = j.tries /\ x.answered = j.answered /\ x.ok = j.ok
BY SchedulerAssumption DEF Job, Row, RowOf

\* A row that gets older.
LEMMA OlderFields ==
  ASSUME NEW x \in Row, NEW n \in 0..ResultKeep
  PROVE  LET y == [x EXCEPT !.age = n]
         IN  /\ y \in Row /\ y.run = x.run /\ y.task = x.task /\ y.suffix = x.suffix
             /\ y.tries = x.tries /\ y.answered = x.answered /\ y.ok = x.ok
BY DEF Row

-----------------------------------------------------------------------------
(* Which steps touch runs.                                                   *)

\* A step that touches no job and no row.
LEMMA UntouchedIsQuiet ==
  ASSUME RunsOK, UNCHANGED <<runs, recorded, observed, jobs, results>>
  PROVE  Quiet
BY DEF RunsOK, Quiet, Like, Distinct

\* A step that deletes rows.
LEMMA DeletingIsQuiet ==
  ASSUME RunsOK, UNCHANGED <<runs, recorded, observed, jobs>>, results' \subseteq results
  PROVE  Quiet
BY DEF RunsOK, Quiet, Like, Distinct

\* A step that ends jobs.
LEMMA EndingIsQuiet ==
  ASSUME RunsOK, UNCHANGED <<runs, recorded, observed, results>>, jobs' \subseteq jobs
  PROVE  Quiet
BY DEF RunsOK, Quiet, Like, Distinct

\* Counting up to a limit stays within it.
LEMMA UptoType ==
  ASSUME NEW n \in Nat, NEW limit \in Nat, n <= limit
  PROVE  Upto(n, limit) \in 0..limit
BY DEF Upto

\* The clock makes rows older.
LEMMA TickIsQuiet ==
  ASSUME RunsOK, Tick
  PROVE  Quiet
<1> DEFINE Older(x) == [x EXCEPT !.age = Upto(x.age, ResultKeep)]
<1>1. results' = {Older(x) : x \in results} /\ UNCHANGED <<runs, recorded, observed, jobs>>
  BY DEF Tick, history, copies
<1>2. ASSUME NEW x \in results
      PROVE  Older(x) \in Row /\ Like(Older(x), x)
  <2>1. x \in Row /\ Upto(x.age, ResultKeep) \in 0..ResultKeep
    BY SchedulerAssumption, UptoType DEF RunsOK, Row
  <2> QED BY <2>1, OlderFields DEF Like
<1> HIDE DEF Older
<1>3. Distinct(results)'
  BY <1>1, <1>2 DEF RunsOK, Distinct, Like
<1>4. \A x \in results' : x \in Row /\ \E y \in results : Like(x, y)
  BY <1>1, <1>2
<1> QED BY <1>1, <1>3, <1>4 DEF RunsOK, Quiet, Like

\* The end of a launch detaches its jobs.
LEMMA EndLaunchIsQuiet ==
  ASSUME RunsOK, NEW l \in launches, EndLaunch(l)
  PROVE  Quiet
<1> DEFINE Left(j) == IF j.slot = l.slot THEN [j EXCEPT !.slot = Detached] ELSE j
<1>1. jobs' = {Left(j) : j \in jobs} /\ UNCHANGED <<runs, recorded, observed, results>>
  BY DEF EndLaunch, tables, history, copies
<1>2. ASSUME NEW j \in jobs
      PROVE  Left(j) \in Job /\ Like(Left(j), j) /\ Left(j).pc = j.pc
  <2>1. j \in Job
    BY DEF RunsOK
  <2> QED BY <2>1, DetachedFields DEF Like
<1> HIDE DEF Left
<1>3. Distinct(jobs)'
  BY <1>1, <1>2 DEF RunsOK, Distinct, Like
<1>4. \A i \in jobs' : i \in Job /\ \E j \in jobs : Like(i, j) /\ i.pc = j.pc
  BY <1>1, <1>2
<1> QED BY <1>1, <1>3, <1>4 DEF RunsOK, Quiet, Like

\* Every other step of a run is one of dispatchOne's.
LEMMA RunSteps ==
  ASSUME RunsOK, [Next]_vars
  PROVE  \/ Quiet
         \/ \E l \in launches : \E a \in l.left : StartJob(l, a)
         \/ \E j \in jobs : \/ \E ok \in BOOLEAN : Answered(j, ok)
                            \/ TryFails(j) \/ Insert(j) \/ Hook(j)
<1>1. CASE UNCHANGED vars
  BY <1>1, UntouchedIsQuiet DEF vars, tables, history, copies
<1>2. ASSUME RunDue \/ \E t \in Tasks : RunTaskNow(t)
      PROVE  Quiet
  BY <1>2, UntouchedIsQuiet DEF RunDue, RunTaskNow, tables, history, copies
<1>3. ASSUME NEW l \in launches, List(l) \/ ListFails(l)
      PROVE  Quiet
  BY <1>3, UntouchedIsQuiet DEF List, ListFails, tables, history, copies
<1>4. ASSUME NEW l \in launches, NEW a \in l.left, SkipOffline(l, a)
      PROVE  Quiet
  BY <1>4, UntouchedIsQuiet DEF SkipOffline, tables, history, copies
<1>5. ASSUME NEW j \in jobs, InsertFails(j)
      PROVE  Quiet
  BY <1>5, EndingIsQuiet DEF InsertFails, Dismissed, tables, history, copies
<1>6. ASSUME NEW a \in Admins, AdminStep(a) \/ AdminFails(a)
      PROVE  Quiet
  BY <1>6, UntouchedIsQuiet
     DEF AdminStep, DeleteRow, ReadTasks, Swap, AdminFails, tables, history, copies
<1>7. ASSUME NEW a \in Admins, NEW t \in Tasks,
             SaveTask(a, t, "enabled") \/ SaveTask(a, t, "disabled")
      PROVE  Quiet
  BY <1>7, UntouchedIsQuiet DEF SaveTask, history, copies
<1>8. ASSUME NEW a \in Admins, NEW t \in Tasks, DeleteResults(a, t)
      PROVE  Quiet
  BY <1>8, DeletingIsQuiet DEF DeleteResults, history, copies
<1>9. ASSUME NEW a \in Agents, DeleteAgent(a)
      PROVE  Quiet
  BY <1>9, DeletingIsQuiet DEF DeleteAgent, history, copies
<1>10. ASSUME NEW a \in Agents, Connect(a) \/ Disconnect(a)
       PROVE  Quiet
  BY <1>10, UntouchedIsQuiet DEF Connect, Disconnect, tables, history, copies
<1>11. ASSUME Cleanup
       PROVE  Quiet
  BY <1>11, DeletingIsQuiet DEF Cleanup, history, copies
<1>12. ASSUME Crash
       PROVE  Quiet
  BY <1>12, EndingIsQuiet DEF Crash, tables, history, copies
<1>13. CASE \E l \in launches : LaunchStep(l) \/ ListFails(l)
  BY <1>3, <1>4, <1>13, EndLaunchIsQuiet DEF LaunchStep
<1>14. CASE \E j \in jobs : JobStep(j)
  BY <1>5, <1>14 DEF JobStep
<1>15. CASE \E a \in Admins : \/ AdminStep(a) \/ AdminFails(a)
                              \/ \E t \in Tasks : \/ DeleteResults(a, t)
                                                  \/ SaveTask(a, t, "enabled")
                                                  \/ SaveTask(a, t, "disabled")
  BY <1>6, <1>7, <1>8, <1>15
<1>16. CASE \E a \in Agents : DeleteAgent(a) \/ Connect(a) \/ Disconnect(a)
  BY <1>9, <1>10, <1>16
<1> QED BY <1>1, <1>2, <1>11, <1>12, <1>13, <1>14, <1>15, <1>16, TickIsQuiet DEF Next

-----------------------------------------------------------------------------
(* What the steps of a run keep.                                             *)

\* The invariants of runs do not look at what a quiet step changes.
LEMMA QuietKeeps ==
  ASSUME SchedulerInv, Quiet
  PROVE  RunsOK' /\ RunsInv' /\ AttemptsInv' /\ FailureIsFinal'
<1> USE DEF SchedulerInv
<1>1. RunsOK'
  BY TypeHalves DEF RunsOK, Quiet
<1>2. RunsInv'
  <2>1. \A i \in jobs' : /\ i.run <= runs
                         /\ i.pc \in {"try", "insert"} => \A v \in recorded : v[1] # i.run
                         /\ i.pc = "hook" => /\ <<i.run, i.ok>> \in recorded
                                             /\ \A v \in observed : v[1] # i.run
    <3> SUFFICES ASSUME NEW i \in jobs'
                 PROVE  /\ i.run <= runs
                        /\ i.pc \in {"try", "insert"} => \A v \in recorded : v[1] # i.run
                        /\ i.pc = "hook" => /\ <<i.run, i.ok>> \in recorded
                                            /\ \A v \in observed : v[1] # i.run
      OBVIOUS
    <3>1. PICK j \in jobs : i.run = j.run /\ i.pc = j.pc /\ i.ok = j.ok
      BY DEF Quiet, Like
    <3>2. /\ j.run <= runs
          /\ j.pc \in {"try", "insert"} => \A v \in recorded : v[1] # j.run
          /\ j.pc = "hook" => /\ <<j.run, j.ok>> \in recorded
                              /\ \A v \in observed : v[1] # j.run
      BY DEF RunsInv
    <3> QED BY <3>1, <3>2
  <2>2. \A x \in results' : <<x.run, x.ok>> \in recorded
    BY DEF Quiet, RunsInv, Like
  <2> QED BY <2>1, <2>2 DEF Quiet, RunsInv
<1>3. AttemptsInv'
  BY DEF Quiet, AttemptsInv, Final, Like
<1>4. FailureIsFinal'
  BY DEF Quiet, FailureIsFinal, Like
<1> QED BY <1>1, <1>2, <1>3, <1>4

\* A new job has an id no job, row or verdict has, and has tried nothing.
LEMMA StartJobKeeps ==
  ASSUME SchedulerInv, NEW l \in launches, NEW a \in l.left, StartJob(l, a)
  PROVE  RunsOK' /\ RunsInv' /\ AttemptsInv' /\ FailureIsFinal'
<1> USE DEF SchedulerInv
<1> DEFINE s == IF l.by = "now" THEN l.slot ELSE Detached
           k == [run |-> NewRunId, task |-> l.task, agent |-> a, by |-> l.by, slot |-> s,
                 pc |-> "try", tries |-> 0, suffix |-> 0, answered |-> FALSE, ok |-> FALSE]
<1>1. /\ jobs' = jobs \cup {k} /\ runs' = runs + 1 /\ runs < MaxRuns
      /\ UNCHANGED <<results, recorded, observed>>
  BY DEF StartJob, tables, history, copies
<1>2. l \in Launch /\ a \in Agents /\ RunsOK
  BY TypeHalves DEF ControlOK, Launch
<1>3. k.run = runs + 1 /\ k \in Job
  <2>1. s \in Slots \cup {Detached}
    BY <1>2 DEF Launch
  <2>2. NewRunId \in Run /\ NewRunId = runs + 1
    BY <1>1, <1>2, SchedulerAssumption DEF NewRunId, RunsOK, Run
  <2> HIDE DEF s
  <2> QED BY <1>2, <2>1, <2>2 DEF Job, Launch
<1>4. k.pc = "try" /\ k.tries = 0 /\ k.suffix = 0 /\ k.answered = FALSE /\ k.ok = FALSE
      /\ k.task \in Tasks
  BY <1>2 DEF Launch
<1> HIDE DEF k, s
<1>5. runs \in 0..MaxRuns /\ \A j \in jobs : j.run \in Run /\ j.run <= runs
  BY <1>2 DEF RunsOK, RunsInv, Job
<1>6. RunsOK'
  <2>1. Distinct(jobs)'
    BY <1>1, <1>2, <1>3, <1>5 DEF RunsOK, Distinct, Run
  <2> QED BY <1>1, <1>2, <1>3, <1>5, <2>1, SchedulerAssumption DEF RunsOK, Distinct
<1>7. RunsInv'
  <2>1. \A v \in recorded : v[1] \in Run /\ v[1] <= runs
    BY <1>2 DEF RunsOK, RunsInv
  <2>2. \A j \in jobs' : j.run <= runs'
    BY <1>1, <1>3, <1>5 DEF Run
  <2>3. \A v \in recorded' : v[1] <= runs'
    BY <1>1, <1>5, <2>1 DEF Run
  <2>4. \A j \in jobs' : j.pc \in {"try", "insert"} => \A v \in recorded' : v[1] # j.run
    BY <1>1, <1>3, <1>5, <2>1 DEF RunsInv, Run
  <2>5. \A j \in jobs' : j.pc = "hook" =>
          <<j.run, j.ok>> \in recorded' /\ \A v \in observed' : v[1] # j.run
    BY <1>1, <1>4 DEF RunsInv
  <2> QED BY <1>1, <2>2, <2>3, <2>4, <2>5 DEF RunsInv
<1>8. AttemptsInv'
  <2>1. k.tries <= Retries[k.task]
    BY <1>4, SchedulerAssumption
  <2> QED BY <1>1, <1>4, <2>1 DEF AttemptsInv
<1>9. FailureIsFinal'
  BY <1>1 DEF FailureIsFinal
<1> QED BY <1>6, <1>7, <1>8, <1>9

\* A job replaced by one of the same run, while nothing is put on record.
LEMMA ChangeKeeps ==
  ASSUME SchedulerInv, NEW j \in jobs, NEW k \in Job, Change(j, k),
         k.run = j.run, j.pc = "try", k.pc \in {"try", "insert"},
         UNCHANGED <<runs, recorded, observed, results>>
  PROVE  RunsOK' /\ RunsInv' /\ FailureIsFinal'
<1> USE DEF SchedulerInv
<1>1. jobs' = (jobs \ {j}) \cup {k}
  BY DEF Change
<1>2. RunsOK
  BY TypeHalves
<1>3. RunsOK'
  BY <1>1, <1>2 DEF RunsOK, Distinct
<1>4. RunsInv'
  BY <1>1 DEF RunsInv
<1>5. FailureIsFinal'
  BY DEF FailureIsFinal
<1> QED BY <1>3, <1>4, <1>5

\* An answer ends the attempts.
LEMMA AnsweredKeeps ==
  ASSUME SchedulerInv, NEW j \in jobs, NEW ok \in BOOLEAN, Answered(j, ok)
  PROVE  RunsOK' /\ RunsInv' /\ AttemptsInv' /\ FailureIsFinal'
<1> USE DEF SchedulerInv
<1> DEFINE k == [j EXCEPT !.pc = "insert", !.tries = @ + 1, !.answered = TRUE, !.ok = ok]
<1>1. j.pc = "try" /\ Change(j, k) /\ UNCHANGED <<runs, recorded, observed, results>>
  BY DEF Answered, tables, history, copies
<1>2. j \in Job
  BY TypeHalves DEF RunsOK
<1>3. /\ k \in Job /\ k.run = j.run /\ k.task = j.task /\ k.pc = "insert"
      /\ k.tries = j.tries + 1 /\ k.suffix = j.suffix /\ k.answered = TRUE
  BY <1>2, AnsweredFields
<1> HIDE DEF k
<1>4. Final(k)
  <2>1. j.tries <= Retries[j.task] /\ j.suffix = j.tries
    BY <1>1 DEF AttemptsInv
  <2>2. j.tries \in Nat /\ Retries[j.task] \in Nat
    BY <1>2, SchedulerAssumption DEF Job
  <2> QED BY <1>3, <2>1, <2>2 DEF Final
<1>5. AttemptsInv'
  BY <1>1, <1>3, <1>4 DEF AttemptsInv, Change
<1> QED BY <1>1, <1>3, <1>5, ChangeKeeps

\* A failed attempt leads to another, or is the last one.
LEMMA TryFailsKeeps ==
  ASSUME SchedulerInv, NEW j \in jobs, TryFails(j)
  PROVE  RunsOK' /\ RunsInv' /\ AttemptsInv' /\ FailureIsFinal'
<1> USE DEF SchedulerInv
<1> DEFINE next == IF LastTry(j) THEN "insert" ELSE "try"
           k == [j EXCEPT !.tries = @ + 1, !.suffix = @ + 1, !.pc = next]
<1>1. j.pc = "try" /\ Change(j, k) /\ UNCHANGED <<runs, recorded, observed, results>>
  BY DEF TryFails, tables, history, copies
<1>2. j \in Job /\ next \in {"try", "insert"}
  BY TypeHalves DEF RunsOK
<1> HIDE DEF next
<1>3. /\ k \in Job /\ k.run = j.run /\ k.task = j.task /\ k.pc = next
      /\ k.tries = j.tries + 1 /\ k.suffix = j.suffix + 1
      /\ k.answered = j.answered /\ k.ok = j.ok
  BY <1>2, FailedFields
<1> HIDE DEF k
<1>4. /\ j.tries <= Retries[j.task] /\ j.suffix = j.tries /\ ~j.answered /\ ~j.ok
      /\ j.tries \in Nat /\ Retries[j.task] \in Nat
  BY <1>1, <1>2, SchedulerAssumption DEF AttemptsInv, Job
<1>5. AttemptsInv'
  <2>1. CASE j.tries = Retries[j.task]
    <3>1. k.pc = "insert" /\ Final(k)
      BY <1>3, <1>4, <2>1 DEF next, LastTry, Final
    <3> QED BY <1>1, <3>1 DEF AttemptsInv, Change
  <2>2. CASE j.tries # Retries[j.task]
    <3>1. /\ k.pc = "try" /\ k.tries <= Retries[k.task] /\ k.suffix = k.tries
          /\ ~k.answered /\ ~k.ok
      BY <1>3, <1>4, <2>2 DEF next, LastTry
    <3> QED BY <1>1, <3>1 DEF AttemptsInv, Change
  <2> QED BY <2>1, <2>2
<1> QED BY <1>1, <1>2, <1>3, <1>5, ChangeKeeps

\* The row of a job is the first of its run, and its verdict goes on record.
LEMMA InsertKeeps ==
  ASSUME SchedulerInv, NEW j \in jobs, Insert(j)
  PROVE  RunsOK' /\ RunsInv' /\ AttemptsInv' /\ FailureIsFinal'
<1> USE DEF SchedulerInv
<1> DEFINE k == [j EXCEPT !.pc = "hook"]
           x == RowOf(j)
<1>1. /\ j.pc = "insert" /\ Change(j, k) /\ results' = results \cup {x}
      /\ recorded' = recorded \cup {<<j.run, j.ok>>} /\ UNCHANGED <<runs, observed>>
  BY DEF Insert
<1>2. RunsOK /\ j \in Job
  BY TypeHalves DEF RunsOK
<1>3. /\ k \in Job /\ k.run = j.run /\ k.task = j.task /\ k.pc = "hook"
      /\ k.tries = j.tries /\ k.suffix = j.suffix /\ k.answered = j.answered /\ k.ok = j.ok
  BY <1>2, InsertedFields
<1>4. /\ x \in Row /\ x.run = j.run /\ x.task = j.task /\ x.suffix = j.suffix
      /\ x.tries = j.tries /\ x.answered = j.answered /\ x.ok = j.ok
  BY <1>2, RowFields
<1>5. \A v \in recorded : v[1] # j.run
  BY <1>1 DEF RunsInv
<1> HIDE DEF k, x
<1>6. RunsOK'
  <2>1. Distinct(jobs)'
    BY <1>1, <1>2, <1>3 DEF RunsOK, Distinct, Change
  <2>2. \A y \in results : y.run # j.run
    BY <1>5 DEF RunsInv
  <2>3. Distinct(results)'
    BY <1>1, <1>2, <1>4, <2>2 DEF RunsOK, Distinct
  <2>4. j.run \in Run /\ j.ok \in BOOLEAN
    BY <1>2 DEF Job
  <2> QED BY <1>1, <1>2, <1>3, <1>4, <2>1, <2>3, <2>4 DEF RunsOK, Change
<1>7. RunsInv'
  <2>1. \A i \in jobs' : i = k \/ (i \in jobs /\ i.run # j.run)
    BY <1>1, <1>2 DEF RunsOK, Distinct, Change
  <2>2. \A i \in jobs' : i.run <= runs'
    BY <1>1, <1>3, <2>1 DEF RunsInv
  <2>3. \A v \in recorded' : v[1] <= runs'
    BY <1>1 DEF RunsInv
  <2>4. \A y \in results' : <<y.run, y.ok>> \in recorded'
    BY <1>1, <1>4 DEF RunsInv
  <2>5. \A v \in observed : v[1] # j.run
    BY <1>5 DEF RunsInv
  <2>6. \A i \in jobs' : i.pc \in {"try", "insert"} => \A v \in recorded' : v[1] # i.run
    BY <1>1, <1>3, <2>1 DEF RunsInv
  <2>7. \A i \in jobs' : i.pc = "hook" =>
          <<i.run, i.ok>> \in recorded' /\ \A v \in observed' : v[1] # i.run
    BY <1>1, <1>3, <2>1, <2>5 DEF RunsInv
  <2> QED BY <1>1, <2>2, <2>3, <2>4, <2>6, <2>7 DEF RunsInv
<1>8. Final(j)
  BY <1>1 DEF AttemptsInv
<1>9. AttemptsInv'
  BY <1>1, <1>3, <1>8 DEF AttemptsInv, Final, Change
<1>10. FailureIsFinal'
  BY <1>1, <1>4, <1>8 DEF FailureIsFinal, Final
<1> QED BY <1>6, <1>7, <1>9, <1>10

\* The hook hears the verdict on record, and the job is over.
LEMMA HookKeeps ==
  ASSUME SchedulerInv, NEW j \in jobs, Hook(j)
  PROVE  RunsOK' /\ RunsInv' /\ AttemptsInv' /\ FailureIsFinal'
<1> USE DEF SchedulerInv
<1>1. /\ j.pc = "hook" /\ jobs' = jobs \ {j} /\ observed' = observed \cup {<<j.run, j.ok>>}
      /\ UNCHANGED <<runs, recorded, results>>
  BY DEF Hook, tables
<1>2. RunsOK /\ j \in Job /\ <<j.run, j.ok>> \in recorded
  BY <1>1, TypeHalves DEF RunsOK, RunsInv
<1>3. RunsOK'
  BY <1>1, <1>2 DEF RunsOK, Distinct
<1>4. RunsInv'
  <2>1. \A i \in jobs' : i \in jobs /\ i.run # j.run
    BY <1>1, <1>2 DEF RunsOK, Distinct
  <2> QED BY <1>1, <1>2, <2>1 DEF RunsInv
<1>5. AttemptsInv' /\ FailureIsFinal'
  BY <1>1 DEF AttemptsInv, FailureIsFinal
<1> QED BY <1>3, <1>4, <1>5

\* All steps of runs together.
LEMMA RunsStep ==
  ASSUME SchedulerInv, [Next]_vars
  PROVE  RunsOK' /\ RunsInv' /\ AttemptsInv' /\ FailureIsFinal'
<1>1. RunsOK
  BY TypeHalves DEF SchedulerInv
<1> QED BY <1>1, RunSteps, QuietKeeps, StartJobKeeps, AnsweredKeeps, TryFailsKeeps,
           InsertKeeps, HookKeeps

-----------------------------------------------------------------------------
(* Launches, tables, admin requests.                                         *)

\* A count that is below its bound stays within it.
LEMMA SpentType ==
  ASSUME NEW s \in Budget
  PROVE  /\ s.requests < MaxRequests => [s EXCEPT !.requests = @ + 1] \in Budget
         /\ s.saves < MaxSaves => [s EXCEPT !.saves = @ + 1] \in Budget
         /\ s.crashes < MaxCrashes => [s EXCEPT !.crashes = @ + 1] \in Budget
         /\ s.errors < MaxDbErrors => [s EXCEPT !.errors = @ + 1] \in Budget
<1> USE SchedulerAssumption DEF Budget
<1>1. ASSUME s.requests < MaxRequests
      PROVE  [s EXCEPT !.requests = @ + 1] \in Budget
  <2> DEFINE n == s.requests + 1
  <2>1. n \in 0..MaxRequests
    BY <1>1
  <2> HIDE DEF n
  <2>2. [s EXCEPT !.requests = n] \in Budget
    BY <2>1
  <2> QED BY <2>2 DEF n
<1>2. ASSUME s.saves < MaxSaves
      PROVE  [s EXCEPT !.saves = @ + 1] \in Budget
  <2> DEFINE n == s.saves + 1
  <2>1. n \in 0..MaxSaves
    BY <1>2
  <2> HIDE DEF n
  <2>2. [s EXCEPT !.saves = n] \in Budget
    BY <2>1
  <2> QED BY <2>2 DEF n
<1>3. ASSUME s.crashes < MaxCrashes
      PROVE  [s EXCEPT !.crashes = @ + 1] \in Budget
  <2> DEFINE n == s.crashes + 1
  <2>1. n \in 0..MaxCrashes
    BY <1>3
  <2> HIDE DEF n
  <2>2. [s EXCEPT !.crashes = n] \in Budget
    BY <2>1
  <2> QED BY <2>2 DEF n
<1>4. ASSUME s.errors < MaxDbErrors
      PROVE  [s EXCEPT !.errors = @ + 1] \in Budget
  <2> DEFINE n == s.errors + 1
  <2>1. n \in 0..MaxDbErrors
    BY <1>4
  <2> HIDE DEF n
  <2>2. [s EXCEPT !.errors = n] \in Budget
    BY <2>1
  <2> QED BY <2>2 DEF n
<1> QED BY <1>1, <1>2, <1>3, <1>4

\* A new launch has a slot of its own.
LEMMA LaunchedType ==
  ASSUME NEW t \in Tasks, NEW by \in {"tick", "now"}, NEW slot \in Free
  PROVE  /\ Launched(t, by, slot) \in Launch /\ Launched(t, by, slot).slot = slot
         /\ \A l \in launches : l.slot # slot
BY DEF Launched, Launch, Free

\* runDue starts launches in different free slots, and the intervals anew.
LEMMA RunDueType ==
  ASSUME ControlOK, RunDue
  PROVE  ControlOK'
<1> DEFINE due == {t \in Tasks : Due(t)}
<1>1. PICK slotOf \in [due -> Free] :
        /\ \A t, u \in due : slotOf[t] = slotOf[u] => t = u
        /\ launches' = launches \cup {Launched(t, "tick", slotOf[t]) : t \in due}
  BY DEF RunDue
<1>2. \A t \in due : /\ Launched(t, "tick", slotOf[t]) \in Launch
                     /\ Launched(t, "tick", slotOf[t]).slot = slotOf[t]
                     /\ \A l \in launches : l.slot # slotOf[t]
  BY LaunchedType
<1>3. launches' \subseteq Launch
  BY <1>1, <1>2 DEF ControlOK
<1>4. \A k, l \in launches' : k.slot = l.slot => k = l
  <2> SUFFICES ASSUME NEW k \in launches', NEW l \in launches', k.slot = l.slot
               PROVE  k = l
    OBVIOUS
  <2>1. CASE k \in launches /\ l \in launches
    BY <2>1 DEF ControlOK
  <2>2. CASE k \notin launches /\ l \notin launches
    <3>1. PICK t \in due : k = Launched(t, "tick", slotOf[t])
      BY <1>1, <2>2
    <3>2. PICK u \in due : l = Launched(u, "tick", slotOf[u])
      BY <1>1, <2>2
    <3>3. slotOf[t] = slotOf[u]
      BY <1>2, <3>1, <3>2
    <3> QED BY <1>1, <3>1, <3>2, <3>3
  <2>3. CASE (k \in launches) # (l \in launches)
    BY <1>1, <1>2, <2>3
  <2> QED BY <2>1, <2>2, <2>3
<1>5. since' \in [Tasks -> Nat] /\ \A t \in Tasks : since'[t] <= Interval[t]
  <2>1. since' = [t \in Tasks |-> IF t \in due THEN 0 ELSE since[t]]
    BY DEF RunDue
  <2> HIDE DEF due
  <2> QED BY <2>1, SchedulerAssumption DEF ControlOK
<1>6. UNCHANGED <<taskRow, agentRow, online, tasks, admin, probed, copies, spent>>
  BY DEF RunDue, tables, history, copies
<1> QED BY <1>3, <1>4, <1>5, <1>6 DEF ControlOK, copies

\* POST .../run starts one launch.
LEMMA RunTaskNowType ==
  ASSUME ControlOK, NEW t \in Tasks, RunTaskNow(t)
  PROVE  ControlOK'
<1>1. PICK slot \in Free : launches' = launches \cup {Launched(t, "now", slot)}
  BY DEF RunTaskNow
<1>2. /\ Launched(t, "now", slot) \in Launch /\ Launched(t, "now", slot).slot = slot
      /\ \A l \in launches : l.slot # slot
  BY LaunchedType
<1>3. launches' \subseteq Launch /\ \A k, l \in launches' : k.slot = l.slot => k = l
  BY <1>1, <1>2 DEF ControlOK
<1>4. spent' \in Budget
  BY SpentType DEF RunTaskNow, ControlOK
<1>5. UNCHANGED <<taskRow, agentRow, online, tasks, since, admin, probed, copies>>
  BY DEF RunTaskNow, tables, memory, history, copies
<1> QED BY <1>3, <1>4, <1>5 DEF ControlOK, copies

\* A launch replaced by one of the same slot.
LEMMA ReplacedLaunch ==
  ASSUME ControlOK, NEW l \in launches, NEW k \in Launch, k.slot = l.slot,
         launches' = (launches \ {l}) \cup {k}
  PROVE  launches' \subseteq Launch /\ \A m, n \in launches' : m.slot = n.slot => m = n
BY DEF ControlOK

\* A launch that is over.
LEMMA EndedLaunch ==
  ASSUME ControlOK, NEW l \in launches, launches' = launches \ {l}
  PROVE  launches' \subseteq Launch /\ \A m, n \in launches' : m.slot = n.slot => m = n
BY DEF ControlOK

\* The steps of a launch.
LEMMA LaunchStepType ==
  ASSUME ControlOK, NEW l \in launches, LaunchStep(l) \/ ListFails(l)
  PROVE  ControlOK'
<1>0. l \in Launch
  BY DEF ControlOK
<1>1. CASE List(l)
  <2> DEFINE k == [l EXCEPT !.listed = TRUE, !.left = agentRow \cap Scope[l.task]]
  <2>1. k \in Launch /\ k.slot = l.slot
    <3> DEFINE left == agentRow \cap Scope[l.task]
    <3>1. left \in SUBSET Agents
      BY DEF ControlOK
    <3> HIDE DEF left
    <3>2. [l EXCEPT !.listed = TRUE, !.left = left] \in Launch
      BY <1>0, <3>1 DEF Launch
    <3>3. [l EXCEPT !.listed = TRUE, !.left = left].slot = l.slot
      BY <1>0 DEF Launch
    <3> QED BY <3>2, <3>3 DEF left
  <2>2. launches' = (launches \ {l}) \cup {k}
    BY <1>1 DEF List
  <2> HIDE DEF k
  <2>3. launches' \subseteq Launch /\ \A m, n \in launches' : m.slot = n.slot => m = n
    BY <2>1, <2>2, ReplacedLaunch
  <2> QED BY <1>1, <2>3 DEF List, ControlOK, tables, memory, history, copies
<1>2. CASE EndLaunch(l)
  <2>1. launches' \subseteq Launch /\ \A m, n \in launches' : m.slot = n.slot => m = n
    BY <1>2, EndedLaunch DEF EndLaunch
  <2> QED BY <1>2, <2>1 DEF EndLaunch, ControlOK, tables, memory, history, copies
<1>3. CASE ListFails(l)
  <2>1. launches' \subseteq Launch /\ \A m, n \in launches' : m.slot = n.slot => m = n
    BY <1>3, EndedLaunch DEF ListFails
  <2>2. spent' \in Budget
    BY <1>3, SpentType DEF ListFails, ControlOK
  <2> QED BY <1>3, <2>1, <2>2 DEF ListFails, ControlOK, tables, memory, history, copies
<1>4. ASSUME NEW a \in l.left, SkipOffline(l, a) \/ StartJob(l, a)
      PROVE  ControlOK'
  <2> DEFINE k == [l EXCEPT !.left = @ \ {a}]
  <2>1. k \in Launch /\ k.slot = l.slot
    BY <1>0 DEF Launch
  <2>2. launches' = (launches \ {l}) \cup {k}
    BY <1>4 DEF SkipOffline, StartJob, Pass
  <2> HIDE DEF k
  <2>3. launches' \subseteq Launch /\ \A m, n \in launches' : m.slot = n.slot => m = n
    BY <2>1, <2>2, ReplacedLaunch
  <2>4. UNCHANGED <<taskRow, agentRow, online, tasks, since, admin, probed, copies, spent>>
    BY <1>4 DEF SkipOffline, StartJob, tables, memory, history, copies
  <2> QED BY <2>3, <2>4 DEF ControlOK, copies
<1> QED BY <1>1, <1>2, <1>3, <1>4 DEF LaunchStep

\* The steps of a job.
LEMMA JobStepType ==
  ASSUME TypeOK, NEW j \in jobs, JobStep(j)
  PROVE  ControlOK'
<1>0. j \in Job /\ ControlOK
  BY TypeHalves DEF RunsOK
<1>1. ASSUME (\E ok \in BOOLEAN : Answered(j, ok)) \/ TryFails(j) \/ Insert(j)
      PROVE  ControlOK'
  <2>1. UNCHANGED <<taskRow, agentRow, online, tasks, since, launches, admin, probed, copies, spent>>
    BY <1>1 DEF Answered, TryFails, Insert, tables, memory, history, copies
  <2> QED BY <1>0, <2>1 DEF ControlOK, copies
<1>2. ASSUME InsertFails(j)
      PROVE  ControlOK'
  <2>1. spent' \in Budget
    BY <1>0, <1>2, SpentType DEF InsertFails, ControlOK
  <2>2. UNCHANGED <<taskRow, agentRow, online, tasks, since, launches, admin, probed, copies>>
    BY <1>2 DEF InsertFails, tables, memory, history, copies
  <2> QED BY <1>0, <2>1, <2>2 DEF ControlOK, copies
<1>3. ASSUME Hook(j)
      PROVE  ControlOK'
  <2>1. probed' \subseteq Tasks \X Agents
    BY <1>0, <1>3 DEF Hook, ControlOK, Job
  <2>2. UNCHANGED <<taskRow, agentRow, online, tasks, since, launches, admin, copies, spent>>
    BY <1>3 DEF Hook, tables, memory
  <2> QED BY <1>0, <2>1, <2>2 DEF ControlOK, copies
<1> QED BY <1>1, <1>2, <1>3 DEF JobStep

\* An admin request between two statements.
LEMMA AdminFields ==
  ASSUME NEW x \in Admin, NEW p \in {"idle", "row", "read", "swap"},
         NEW d \in SUBSET Tasks, NEW r \in [Tasks -> TaskState]
  PROVE  /\ [x EXCEPT !.pc = p] \in Admin
         /\ [x EXCEPT !.pc = p, !.doomed = d] \in Admin
         /\ [x EXCEPT !.pc = p, !.read = r] \in Admin
BY DEF Admin

\* A request that has begun is an admin's state.
LEMMA IdleAdminType == IdleAdmin \in Admin /\ [IdleAdmin EXCEPT !.pc = "read"] \in Admin
<1>1. NoTasks \in [Tasks -> TaskState]
  BY DEF NoTasks, TaskState
<1>2. IdleAdmin \in Admin
  BY <1>1 DEF IdleAdmin, Admin
<1> QED BY <1>1, <1>2, AdminFields

\* One request moves on, the others stay.
LEMMA AdminMoves ==
  ASSUME ControlOK, NEW a \in Admins, NEW x \in Admin, admin' = [admin EXCEPT ![a] = x]
  PROVE  admin' \in [Admins -> Admin]
BY DEF ControlOK

\* The next step of a request, or its failure, keeps the types.
LEMMA AdminStepType ==
  ASSUME ControlOK, NEW a \in Admins, AdminStep(a) \/ AdminFails(a)
  PROVE  ControlOK'
<1>0. admin[a] \in Admin /\ IdleAdmin \in Admin /\ [IdleAdmin EXCEPT !.pc = "read"] \in Admin
  BY IdleAdminType DEF ControlOK
<1>1. CASE DeleteRow(a)
  <2>1. admin' \in [Admins -> Admin]
    BY <1>0, <1>1, AdminMoves DEF DeleteRow
  <2>2. taskRow' \in [Tasks -> TaskState]
    BY <1>1 DEF DeleteRow, ControlOK, TaskState
  <2> QED BY <1>1, <2>1, <2>2 DEF DeleteRow, ControlOK, memory, history, copies
<1>2. CASE ReadTasks(a)
  <2>1. [admin[a] EXCEPT !.pc = "swap", !.read = taskRow] \in Admin
    BY <1>0, AdminFields DEF ControlOK
  <2>2. admin' = [admin EXCEPT ![a] = [admin[a] EXCEPT !.pc = "swap", !.read = taskRow]]
    BY <1>2 DEF ReadTasks, ControlOK
  <2>3. admin' \in [Admins -> Admin]
    BY <2>1, <2>2, AdminMoves
  <2> QED BY <1>2, <2>3 DEF ReadTasks, ControlOK, tables, memory, history, copies
<1>3. CASE Swap(a)
  <2>1. admin' \in [Admins -> Admin]
    BY <1>0, <1>3, AdminMoves DEF Swap
  <2>2. tasks' \in [Tasks -> TaskState]
    BY <1>0, <1>3 DEF Swap, Swapped, Admin
  <2> QED BY <1>3, <2>1, <2>2 DEF Swap, ControlOK, tables, history, copies
<1>4. CASE AdminFails(a)
  <2>1. admin' \in [Admins -> Admin]
    BY <1>0, <1>4, AdminMoves DEF AdminFails
  <2>2. spent' \in Budget
    BY <1>4, SpentType DEF AdminFails, ControlOK
  <2> QED BY <1>4, <2>1, <2>2 DEF AdminFails, ControlOK, tables, memory, history, copies
<1> QED BY <1>1, <1>2, <1>3, <1>4 DEF AdminStep

\* So does the start of one: a deletion of results, or a saved task.
LEMMA AdminStartType ==
  ASSUME ControlOK, NEW a \in Admins, NEW t \in Tasks,
         DeleteResults(a, t) \/ \E state \in TaskState : SaveTask(a, t, state)
  PROVE  ControlOK'
<1>0. admin[a] \in Admin
  BY DEF ControlOK
<1>1. spent' \in Budget
  BY SpentType DEF DeleteResults, SaveTask, Starts, ControlOK
<1>2. CASE DeleteResults(a, t)
  <2>1. [admin[a] EXCEPT !.pc = "row", !.doomed = {t}] \in Admin
    BY <1>0 DEF Admin
  <2>2. admin' = [admin EXCEPT ![a] = [admin[a] EXCEPT !.pc = "row", !.doomed = {t}]]
    BY <1>2 DEF DeleteResults, ControlOK
  <2>3. admin' \in [Admins -> Admin]
    BY <2>1, <2>2, AdminMoves
  <2> QED BY <1>1, <1>2, <2>3 DEF DeleteResults, ControlOK, memory, history, copies
<1>3. ASSUME NEW state \in TaskState, SaveTask(a, t, state)
      PROVE  ControlOK'
  <2>1. [admin[a] EXCEPT !.pc = "read"] \in Admin
    BY <1>0 DEF Admin
  <2>2. admin' = [admin EXCEPT ![a] = [admin[a] EXCEPT !.pc = "read"]]
    BY <1>3 DEF SaveTask, ControlOK
  <2>3. admin' \in [Admins -> Admin]
    BY <2>1, <2>2, AdminMoves
  <2>4. taskRow' \in [Tasks -> TaskState]
    BY <1>3 DEF SaveTask, ControlOK
  <2> QED BY <1>1, <1>3, <2>3, <2>4 DEF SaveTask, ControlOK, memory, history, copies
<1> QED BY <1>2, <1>3

\* Agents come and go, time passes, rows are deleted, the process restarts.
LEMMA EnvironmentType ==
  ASSUME ControlOK,
         \/ \E a \in Agents : DeleteAgent(a) \/ Connect(a) \/ Disconnect(a)
         \/ Tick \/ Cleanup \/ Crash
  PROVE  ControlOK'
<1>1. ASSUME NEW a \in Agents, DeleteAgent(a)
      PROVE  ControlOK'
  <2>1. spent' \in Budget
    BY <1>1, SpentType DEF DeleteAgent, ControlOK
  <2> QED BY <1>1, <2>1 DEF DeleteAgent, ControlOK, memory, history, copies
<1>2. ASSUME NEW a \in Agents, Connect(a) \/ Disconnect(a)
      PROVE  ControlOK'
  BY <1>2 DEF Connect, Disconnect, ControlOK, tables, memory, history, copies
<1>3. CASE Tick
  <2>1. since' \in [Tasks -> Nat] /\ \A t \in Tasks : since'[t] <= Interval[t]
    BY <1>3, UptoType, SchedulerAssumption DEF Tick, ControlOK
  <2> QED BY <1>3, <2>1 DEF Tick, ControlOK, history, copies
<1>4. CASE Cleanup
  BY <1>4 DEF Cleanup, ControlOK, memory, history, copies
<1>5. CASE Crash
  <2>1. admin' \in [Admins -> Admin]
    BY <1>5, IdleAdminType DEF Crash
  <2>2. spent' \in Budget
    BY <1>5, SpentType DEF Crash, ControlOK
  <2>3. since' \in [Tasks -> Nat] /\ \A t \in Tasks : since'[t] <= Interval[t]
    BY <1>5, SchedulerAssumption DEF Crash
  <2>4. tasks' \in [Tasks -> TaskState]
    BY <1>5 DEF Crash, NoTasks, TaskState
  <2> QED BY <1>5, <2>1, <2>2, <2>3, <2>4 DEF Crash, ControlOK, tables, history, copies
<1> QED BY <1>1, <1>2, <1>3, <1>4, <1>5

\* Every step keeps what starts and serves the runs well typed.
LEMMA ControlStep ==
  ASSUME TypeOK, [Next]_vars
  PROVE  ControlOK'
<1>1. ControlOK
  BY TypeHalves
<1>2. CASE UNCHANGED vars
  BY <1>1, <1>2 DEF vars, tables, memory, history, copies, ControlOK
<1>3. CASE \E a \in Admins : \/ AdminStep(a) \/ AdminFails(a)
                             \/ \E t \in Tasks : \/ DeleteResults(a, t)
                                                 \/ SaveTask(a, t, "enabled")
                                                 \/ SaveTask(a, t, "disabled")
  BY <1>1, <1>3, AdminStepType, AdminStartType DEF TaskState
<1> QED BY <1>1, <1>2, <1>3, RunDueType, RunTaskNowType, LaunchStepType, JobStepType,
           EnvironmentType DEF Next

-----------------------------------------------------------------------------
(* The theorems.                                                             *)

\* The scheduler starts in its invariant.
LEMMA InitInv == Init => SchedulerInv
<1> SUFFICES ASSUME Init PROVE SchedulerInv
  OBVIOUS
<1> USE SchedulerAssumption
<1>1. RunsOK
  BY DEF Init, RunsOK, Distinct
<1>2. admin \in [Admins -> Admin]
  BY IdleAdminType DEF Init
<1>3. spent \in Budget
  BY DEF Init, Budget
<1>4. /\ taskRow \in [Tasks -> TaskState] /\ tasks \in [Tasks -> TaskState]
      /\ since \in [Tasks -> Nat] /\ \A t \in Tasks : since[t] <= Interval[t]
  BY DEF Init, TaskState, NoTasks
<1>5. ControlOK
  BY <1>2, <1>3, <1>4 DEF Init, ControlOK
<1>6. RunsInv /\ AttemptsInv /\ FailureIsFinal
  BY DEF Init, RunsInv, AttemptsInv, FailureIsFinal
<1> QED BY <1>1, <1>5, <1>6, TypeHalves DEF SchedulerInv

\* The inductive invariant of the scheduler: types, with one job and one row a
\* run; where each run stands between its start, its row and the hook; and what
\* its attempts amount to.
THEOREM SchedulerInvariant == Spec => []SchedulerInv
<1>1. SchedulerInv /\ [Next]_vars => SchedulerInv'
  <2> SUFFICES ASSUME SchedulerInv, [Next]_vars
               PROVE  SchedulerInv'
    OBVIOUS
  <2>1. ControlOK'
    BY ControlStep DEF SchedulerInv
  <2>2. RunsOK' /\ RunsInv' /\ AttemptsInv' /\ FailureIsFinal'
    BY RunsStep
  <2>3. TypeOK'
    BY <2>1, <2>2, TypeHalves DEF TypeOK, RunsOK, ControlOK, Distinct, Budget
  <2> QED BY <2>2, <2>3 DEF SchedulerInv
<1> QED BY <1>1, InitInv, PTL DEF Spec

\* Tables, memory, launches, jobs and requests have their types: no two jobs or
\* rows share a run, no two launches a slot.
THEOREM TypeCorrect == Spec => []TypeOK
<1>1. SchedulerInv => TypeOK
  BY DEF SchedulerInv
<1> QED BY <1>1, SchedulerInvariant, PTL

\* A failure on record was reached by all retries, or it was the agent's answer.
THEOREM FailuresCorrect == Spec => []FailureIsFinal
<1>1. SchedulerInv => FailureIsFinal
  BY DEF SchedulerInv
<1> QED BY <1>1, SchedulerInvariant, PTL

\* A step of the scheduler is one of the ledger, or none: Insert records a run
\* that has no verdict, Hook observes one that is on record and was not heard.
LEMMA LedgerStep ==
  ASSUME SchedulerInv, [Next]_vars
  PROVE  [Ledger!Next]_(Ledger!vars)
<1> USE DEF SchedulerInv
<1>0. RunsOK
  BY TypeHalves
<1>1. CASE UNCHANGED <<recorded, observed>>
  BY <1>1 DEF Ledger!vars
<1>2. CASE Quiet
  BY <1>1, <1>2 DEF Quiet
<1>3. ASSUME NEW l \in launches, NEW a \in l.left, StartJob(l, a)
      PROVE  UNCHANGED <<recorded, observed>>
  BY <1>3 DEF StartJob, history, copies
<1>4. ASSUME NEW j \in jobs, (\E ok \in BOOLEAN : Answered(j, ok)) \/ TryFails(j)
      PROVE  UNCHANGED <<recorded, observed>>
  BY <1>4 DEF Answered, TryFails, history, copies
<1>5. ASSUME NEW j \in jobs, Insert(j)
      PROVE  Ledger!Next
  <2>1. <<j.run, j.ok>> \in Ledger!Verdict
    BY <1>0 DEF RunsOK, Job, Ledger!Verdict
  <2>2. Ledger!Record(<<j.run, j.ok>>)
    BY <1>5 DEF Insert, RunsInv, Ledger!Record
  <2> QED BY <2>1, <2>2 DEF Ledger!Next
<1>6. ASSUME NEW j \in jobs, Hook(j)
      PROVE  Ledger!Next
  <2>1. <<j.run, j.ok>> \in Ledger!Verdict
    BY <1>0 DEF RunsOK, Job, Ledger!Verdict
  <2>2. Ledger!Observe(<<j.run, j.ok>>)
    BY <1>6 DEF Hook, RunsInv, Ledger!Observe
  <2> QED BY <2>1, <2>2 DEF Ledger!Next
<1> QED BY <1>0, <1>1, <1>2, <1>3, <1>4, <1>5, <1>6, RunSteps

\* The scheduler implements ProbeLedger: a run has one verdict, and the alert
\* engine hears of it at most once, after it is on record.
THEOREM LedgerKept == Spec => KeepsProbeLedger
<1>1. Init => Ledger!Init
  BY DEF Init, Ledger!Init
<1> QED BY <1>1, LedgerStep, SchedulerInvariant, PTL DEF Spec, KeepsProbeLedger, Ledger!Spec

-----------------------------------------------------------------------------
(* The tasks in memory.                                                      *)

\* While nobody is about to read the tasks, the copy read last is that of the
\* table: as long as it is not swapped in, and in memory once it is.
CopyInv ==
    /\ \A a, b \in newest : a = b
    /\ \A a \in newest : admin[a].pc = "swap"
    /\ (\A a \in Admins : admin[a].pc # "read") =>
         /\ \A a \in newest : admin[a].read = taskRow
         /\ newest = {} /\ ~overtaken => tasks = taskRow

\* Only admin requests and the restart touch the tasks, in memory or in the table.
LEMMA AdminSteps ==
  ASSUME [Next]_vars
  PROVE  \/ UNCHANGED <<taskRow, tasks, admin, copies>>
         \/ \E a \in Admins : \/ DeleteRow(a) \/ ReadTasks(a) \/ Swap(a) \/ AdminFails(a)
                              \/ \E t \in Tasks : DeleteResults(a, t)
                              \/ \E t \in Tasks, state \in TaskState : SaveTask(a, t, state)
         \/ Crash
<1> DEFINE Same == UNCHANGED <<taskRow, tasks, admin, copies>>
<1>1. CASE UNCHANGED vars
  BY <1>1 DEF vars, tables, memory, history
<1>2. ASSUME RunDue \/ \E t \in Tasks : RunTaskNow(t)
      PROVE  Same
  BY <1>2 DEF RunDue, RunTaskNow, tables, memory, history
<1>3. ASSUME NEW l \in launches, LaunchStep(l) \/ ListFails(l)
      PROVE  Same
  BY <1>3 DEF LaunchStep, List, EndLaunch, SkipOffline, StartJob, ListFails, tables, memory, history
<1>4. ASSUME NEW j \in jobs, JobStep(j)
      PROVE  Same
  BY <1>4 DEF JobStep, Answered, TryFails, Insert, InsertFails, Hook, tables, memory, history
<1>5. ASSUME NEW a \in Agents, DeleteAgent(a) \/ Connect(a) \/ Disconnect(a)
      PROVE  Same
  BY <1>5 DEF DeleteAgent, Connect, Disconnect, tables, memory, history
<1>6. ASSUME Tick \/ Cleanup
      PROVE  Same
  BY <1>6 DEF Tick, Cleanup, memory, history
<1>7. CASE \E a \in Admins : \/ AdminStep(a) \/ AdminFails(a)
                             \/ \E t \in Tasks : \/ DeleteResults(a, t)
                                                 \/ SaveTask(a, t, "enabled")
                                                 \/ SaveTask(a, t, "disabled")
  <2>1. "enabled" \in TaskState /\ "disabled" \in TaskState
    BY DEF TaskState
  <2> QED BY <1>7, <2>1 DEF AdminStep
<1> QED BY <1>1, <1>2, <1>3, <1>4, <1>5, <1>6, <1>7 DEF Next

\* An admin request's fields after a step of its own.
LEMMA AdminFieldsRead ==
  ASSUME NEW x \in Admin, NEW r \in [Tasks -> TaskState]
  PROVE  /\ [x EXCEPT !.pc = "swap", !.read = r].pc = "swap"
         /\ [x EXCEPT !.pc = "swap", !.read = r].read = r
         /\ [x EXCEPT !.pc = "read"].pc = "read"
         /\ \A d \in SUBSET Tasks : [x EXCEPT !.pc = "row", !.doomed = d].pc = "row"
         /\ IdleAdmin.pc = "idle" /\ [IdleAdmin EXCEPT !.pc = "read"].pc = "read"
BY DEF Admin, IdleAdmin

\* A request on its way to the reading, if any, leaves nothing to show but that
\* the copy read last, if any, is still to be swapped in.
LEMMA ReaderAhead ==
  ASSUME CopyInv, NEW a \in Admins, admin'[a].pc = "read", newest' = newest,
         \A b \in newest : admin'[b].pc = "swap"
  PROVE  CopyInv'
BY DEF CopyInv

\* Each step keeps the copies in order: of overlapping requests the one that
\* read last swaps in the table, and whoever swaps after it overtakes it.
LEMMA CopyStep ==
  ASSUME TypeOK, CopyInv, [Next]_vars
  PROVE  CopyInv'
<1>0. /\ admin \in [Admins -> Admin] /\ taskRow \in [Tasks -> TaskState]
      /\ newest \subseteq Admins
  BY DEF TypeOK
<1>1. CASE UNCHANGED <<taskRow, tasks, admin, copies>>
  BY <1>1 DEF CopyInv, copies
<1>2. ASSUME NEW a \in Admins, DeleteRow(a)
      PROVE  CopyInv'
  <2>1. /\ admin[a].pc = "row" /\ newest' = newest
        /\ admin' = [admin EXCEPT ![a] = [IdleAdmin EXCEPT !.pc = "read"]]
    BY <1>2 DEF DeleteRow, history, copies
  <2>2. admin'[a].pc = "read" /\ \A b \in newest : admin'[b].pc = "swap"
    BY <1>0, <2>1, AdminFieldsRead DEF CopyInv
  <2> QED BY <2>1, <2>2, ReaderAhead
<1>3. ASSUME NEW a \in Admins, ReadTasks(a)
      PROVE  CopyInv'
  <2>1. /\ taskRow' = taskRow /\ newest' = {a}
        /\ admin' = [admin EXCEPT ![a] = [admin[a] EXCEPT !.pc = "swap", !.read = taskRow]]
    BY <1>0, <1>3 DEF ReadTasks, tables
  <2>2. admin'[a].pc = "swap" /\ admin'[a].read = taskRow
    BY <1>0, <2>1, AdminFieldsRead
  <2> QED BY <2>1, <2>2 DEF CopyInv
<1>4. ASSUME NEW a \in Admins, Swap(a)
      PROVE  CopyInv'
  <2>1. /\ admin[a].pc = "swap" /\ tasks' = admin[a].read /\ taskRow' = taskRow
        /\ admin' = [admin EXCEPT ![a] = IdleAdmin]
        /\ newest' = newest \ {a} /\ overtaken' = (a \notin newest)
    BY <1>4 DEF Swap, Swapped, tables
  <2>2. admin'[a].pc = "idle" /\ \A b \in Admins : b # a => admin'[b] = admin[b]
    BY <1>0, <2>1, AdminFieldsRead
  <2>3. (\A b \in Admins : admin'[b].pc # "read") => \A b \in Admins : admin[b].pc # "read"
    BY <2>1, <2>2
  <2>4. (\A b \in newest' : b \in newest /\ b # a /\ admin'[b] = admin[b])
    BY <1>0, <2>1, <2>2
  <2>5. ASSUME \A b \in Admins : admin'[b].pc # "read"
        PROVE  newest' = {} /\ ~overtaken' => tasks' = taskRow'
    BY <2>1, <2>3, <2>5 DEF CopyInv
  <2> QED BY <2>1, <2>3, <2>4, <2>5 DEF CopyInv
<1>5. ASSUME NEW a \in Admins, AdminFails(a)
      PROVE  CopyInv'
  <2>1. /\ taskRow' = taskRow /\ tasks' = tasks
        /\ admin' = [admin EXCEPT ![a] = IdleAdmin]
    BY <1>5 DEF AdminFails, tables, memory
  <2>2. admin'[a].pc = "idle" /\ \A b \in Admins : b # a => admin'[b] = admin[b]
    BY <1>0, <2>1, AdminFieldsRead
  <2>3. CASE admin[a].pc = "read"
    BY <1>5, <2>3 DEF AdminFails, CopyInv
  <2>4. CASE admin[a].pc = "row"
    <3>1. newest' = newest /\ overtaken' = overtaken
      BY <1>5, <2>4 DEF AdminFails, copies
    <3>2. \A b \in newest : admin'[b] = admin[b]
      BY <1>0, <2>2, <2>4 DEF CopyInv
    <3>3. (\A b \in Admins : admin'[b].pc # "read") => \A b \in Admins : admin[b].pc # "read"
      BY <2>2, <2>4
    <3> QED BY <2>1, <3>1, <3>2, <3>3 DEF CopyInv
  <2> QED BY <1>5, <2>3, <2>4 DEF AdminFails
<1>6. ASSUME NEW a \in Admins, NEW t \in Tasks, DeleteResults(a, t)
      PROVE  CopyInv'
  <2>1. /\ UNCHANGED <<taskRow, tasks, copies>> /\ admin[a].pc = "idle"
        /\ admin' = [admin EXCEPT ![a] = [admin[a] EXCEPT !.pc = "row", !.doomed = {t}]]
    BY <1>0, <1>6 DEF DeleteResults, Starts, memory, history
  <2>2. admin'[a].pc = "row" /\ \A b \in Admins : b # a => admin'[b] = admin[b]
    BY <1>0, <2>1, AdminFieldsRead
  <2>3. a \notin newest
    BY <2>1 DEF CopyInv
  <2> QED BY <1>0, <2>1, <2>2, <2>3 DEF CopyInv, copies
<1>7. ASSUME NEW a \in Admins, NEW t \in Tasks, NEW state \in TaskState, SaveTask(a, t, state)
      PROVE  CopyInv'
  <2>1. /\ newest' = newest /\ admin[a].pc = "idle"
        /\ admin' = [admin EXCEPT ![a] = [admin[a] EXCEPT !.pc = "read"]]
    BY <1>0, <1>7 DEF SaveTask, Starts, history, copies
  <2>2. admin'[a].pc = "read" /\ \A b \in newest : admin'[b].pc = "swap"
    BY <1>0, <2>1, AdminFieldsRead DEF CopyInv
  <2> QED BY <2>1, <2>2, ReaderAhead
<1>8. CASE Crash
  <2>1. newest' = {} /\ admin'[Boot].pc = "read" /\ Boot \in Admins
    BY <1>8, SchedulerAssumption DEF Crash, IdleAdmin
  <2> QED BY <2>1 DEF CopyInv
<1> QED BY <1>1, <1>2, <1>3, <1>4, <1>5, <1>6, <1>7, <1>8, AdminSteps

\* Whenever no request is under way the scheduler runs the tasks of the table,
\* also after a restart, unless an older copy was swapped in after the one read
\* last or that reading failed: for any number of overlapping requests.
THEOREM MemoryCorrect == Spec => []MemoryAgrees
<1>1. Init => CopyInv
  <2> SUFFICES ASSUME Init PROVE CopyInv
    OBVIOUS
  <2>1. newest = {} /\ admin[Boot].pc = "read" /\ Boot \in Admins
    BY SchedulerAssumption DEF Init, IdleAdmin
  <2> QED BY <2>1 DEF CopyInv
<1>2. TypeOK /\ CopyInv /\ [Next]_vars => CopyInv'
  BY CopyStep
<1>3. TypeOK /\ CopyInv => MemoryAgrees
  <2> SUFFICES ASSUME TypeOK, CopyInv, \A a \in Admins : admin[a].pc = "idle"
               PROVE  ~overtaken => tasks = taskRow
    BY DEF MemoryAgrees
  <2>1. newest = {}
    BY DEF TypeOK, CopyInv
  <2> QED BY <2>1 DEF CopyInv
<1> QED BY <1>1, <1>2, <1>3, TypeCorrect, PTL DEF Spec

=============================================================================
