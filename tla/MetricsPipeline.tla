--------------------------- MODULE MetricsPipeline ---------------------------
(* The aggregation pipeline of internal/metrics/pipeline.go with the tables  *)
(* metric_1m and metric_1h of internal/store/metric.go.                      *)
(*                                                                           *)
(* One bucket per agent is open in memory.  A sample of another minute, the  *)
(* flush ticker and the end of the process write it to metric_1m, replacing  *)
(* the row of that minute; each minute the last full hour is rolled up from  *)
(* metric_1m into metric_1h; old rows are deleted.  An aggregate is modelled *)
(* exactly (sum for avg), one metric standing for the fourteen.              *)
EXTENDS Integers, FiniteSets, FiniteSetsExt

CONSTANTS
    Agents, Values,
    Minute,                  \* the length of a minute: 60 s
    Hour,                    \* the length of an hour, a multiple of Minute
    OneMinKeep, OneHourKeep,
    MaxLag,                  \* how late a sample may arrive
    MaxNow, MaxSamples, MaxStops, MaxCrashes, MaxDbErrors, MaxDeletes    \* bounds

ASSUME PipelineAssumption ==
    /\ Minute \in Nat \ {0} /\ Hour \in Nat \ {0}
    /\ Hour % Minute = 0
    /\ Values \subseteq Nat
    /\ OneMinKeep \in Nat /\ OneHourKeep \in Nat
    /\ MaxLag \in Nat /\ MaxNow \in Nat /\ MaxSamples \in Nat
    /\ MaxStops \in Nat /\ MaxCrashes \in Nat /\ MaxDbErrors \in Nat
    /\ MaxDeletes \in Nat

VARIABLES
    now,
    bucket,        \* p.buckets: start and aggregate; NoBucket: no entry
    minuteRow,     \* table metric_1m by agent and minute
    hourRow,       \* table metric_1h by agent and hour
    lastTS,        \* the time of the last sample each agent took
    proc,          \* what the process is doing
    looping,       \* whether the goroutine of Pipeline.Run is in its loop
    deleted,       \* history: agents deleted and not heard of since
    dbOk,          \* whether statements succeed at the moment
    spent          \* how much of the bounds is used up

vars == <<now, bucket, minuteRow, hourRow, lastTS, proc, looping, deleted, dbOk, spent>>

StartOf(ts, length) == ts - (ts % length)
Times == 0..MaxNow
Minutes == {StartOf(t, Minute) : t \in Times}
Hours == {StartOf(t, Hour) : t \in Times}

NoAgg == [count |-> 0, sum |-> 0, min |-> 0, max |-> 0]
Agg == [count: Nat, sum: Nat, min: Nat, max: Nat]
NoStart == -1
NoBucket == [start |-> NoStart, agg |-> NoAgg]

Lesser(v, w) == IF v < w THEN v ELSE w
Greater(v, w) == IF v > w THEN v ELSE w

\* Aggregate.Add.
Add(agg, v) ==
    IF agg.count = 0 THEN [count |-> 1, sum |-> v, min |-> v, max |-> v]
    ELSE [count |-> agg.count + 1, sum |-> agg.sum + v,
          min |-> Lesser(v, agg.min), max |-> Greater(v, agg.max)]

\* Type invariant; an open bucket (pipeline.go, buckets) holds a sample.
TypeOK ==
    /\ now \in Times
    /\ bucket \in [Agents -> {NoBucket} \cup [start: Minutes, agg: {g \in Agg : g.count > 0}]]
    /\ minuteRow \in [Agents -> [Minutes -> Agg]]
    /\ hourRow \in [Agents -> [Hours -> Agg]]
    /\ lastTS \in [Agents -> Times]
    /\ proc \in {"up", "stopping", "flushed", "down"}
    /\ looping \in BOOLEAN
    /\ deleted \subseteq Agents
    /\ dbOk \in BOOLEAN
    /\ spent \in [samples: 0..MaxSamples, stops: 0..MaxStops, crashes: 0..MaxCrashes,
                  errors: 0..MaxDbErrors, deletes: 0..MaxDeletes]

Init ==
    /\ now = 0
    /\ bucket = [a \in Agents |-> NoBucket]
    /\ minuteRow = [a \in Agents |-> [m \in Minutes |-> NoAgg]]
    /\ hourRow = [a \in Agents |-> [h \in Hours |-> NoAgg]]
    /\ lastTS = [a \in Agents |-> 0]
    /\ proc = "up"
    /\ looping = TRUE
    /\ deleted = {}
    /\ dbOk = TRUE
    /\ spent = [samples |-> 0, stops |-> 0, crashes |-> 0, errors |-> 0, deletes |-> 0]

-----------------------------------------------------------------------------
(* Samples and flushes.                                                      *)

\* flushLocked and UpsertMetrics for the buckets of some agents: the row takes
\* the bucket's values.  A failed write is only logged.
Upserted(flushed) ==
    [a \in Agents |-> IF dbOk /\ a \in flushed /\ bucket[a] # NoBucket
                      THEN [minuteRow[a] EXCEPT ![bucket[a].start] = bucket[a].agg]
                      ELSE minuteRow[a]]

\* A variant: the entry is emptied, not deleted.
Emptied(flushed) ==
    [a \in Agents |-> IF a \in flushed /\ bucket[a] # NoBucket
                      THEN [bucket[a] EXCEPT !.agg = NoAgg] ELSE bucket[a]]

Dropped(flushed) == [a \in Agents |-> IF a \in flushed THEN NoBucket ELSE bucket[a]]

\* What a sample of that minute adds to: a bucket of another minute is left.
\* A variant: it is not.
KeptOpen(a, minute) == bucket[a].agg

Continued(a, minute) == IF bucket[a].start = minute THEN bucket[a].agg ELSE NoAgg

Serving == proc \in {"up", "stopping", "flushed"}

\* Observe, of a sample the agent took at ts.  The connection keeps the order;
\* websockets are hijacked, so samples come until the process is gone.
Observe(a, ts, v) ==
    LET minute == StartOf(ts, Minute)
        turn == bucket[a] # NoBucket /\ bucket[a].start # minute
    IN  /\ Serving
        /\ lastTS[a] <= ts /\ ts <= now /\ now - ts <= MaxLag
        /\ spent.samples < MaxSamples
        /\ spent' = [spent EXCEPT !.samples = @ + 1]
        /\ minuteRow' = IF turn THEN Upserted({a}) ELSE minuteRow
        /\ bucket' = [bucket EXCEPT ![a] = [start |-> minute, agg |-> Add(Continued(a, minute), v)]]
        /\ lastTS' = [lastTS EXCEPT ![a] = ts]
        /\ deleted' = deleted \ {a}
        /\ UNCHANGED <<now, hourRow, proc, looping, dbOk>>

FlushOf(flushed) ==
    /\ minuteRow' = Upserted(flushed)
    /\ bucket' = Dropped(flushed)
    /\ UNCHANGED <<now, hourRow, lastTS, deleted, dbOk, spent>>

\* A variant: minutes of now - 60 and before count as ended a minute early.
EndedEarly(a) == bucket[a] # NoBucket /\ bucket[a].start < now

Ended(a) == bucket[a] # NoBucket /\ bucket[a].start < now - Minute

\* FlushBefore(now - 60) of the flush ticker.
FlushBefore ==
    /\ proc = "up"
    /\ \E a \in Agents : Ended(a)
    /\ FlushOf({a \in Agents : Ended(a)})
    /\ UNCHANGED <<proc, looping>>

\* The same, when select takes the ticker although ctx is done: the write fails
\* with the context, the buckets are dropped.
FlushBeforeCancelled ==
    /\ proc \in {"stopping", "flushed"} /\ looping
    /\ \E a \in Agents : Ended(a)
    /\ bucket' = Dropped({a \in Agents : Ended(a)})
    /\ UNCHANGED <<now, minuteRow, hourRow, lastTS, proc, looping, deleted, dbOk, spent>>

-----------------------------------------------------------------------------
(* Rollup and retention.                                                     *)

\* A variant: BETWEEN hour AND hour + 3540, read as a half-open range.
MinutesShort(h) == {m \in Minutes : h <= m /\ m < h + Hour - Minute}

MinutesOf(h) == {m \in Minutes : h <= m /\ m < h + Hour}

\* SUM, MIN, MAX over the minute rows of one hour (avg * count is the sum).
RolledUp(a, h) ==
    LET rows == {m \in MinutesOf(h) : minuteRow[a][m].count > 0}
    IN  [count |-> SumFunction([m \in MinutesOf(h) |-> minuteRow[a][m].count]),
         sum |-> SumFunction([m \in MinutesOf(h) |-> minuteRow[a][m].sum]),
         min |-> IF rows = {} THEN 0 ELSE Min({minuteRow[a][m].min : m \in rows}),
         max |-> IF rows = {} THEN 0 ELSE Max({minuteRow[a][m].max : m \in rows})]

\* rollupHour: the last full hour; GROUP BY has no row for an empty group.
Rollup ==
    LET h == StartOf(now, Hour) - Hour
    IN  /\ proc = "up" /\ dbOk
        /\ h \in Hours
        /\ hourRow' = [a \in Agents |-> IF RolledUp(a, h) = NoAgg THEN hourRow[a]
                                       ELSE [hourRow[a] EXCEPT ![h] = RolledUp(a, h)]]
        /\ UNCHANGED <<now, bucket, minuteRow, lastTS, proc, looping, deleted, dbOk, spent>>

\* A variant: <= for <.
KeptShort(rows, starts, keep) ==
    IF keep = 0 THEN rows
    ELSE [a \in Agents |-> [s \in starts |-> IF s <= now - keep THEN NoAgg ELSE rows[a][s]]]

\* DeleteMetricsBefore with the cutoff of cleanup; 0 keeps everything.
Kept(rows, starts, keep) ==
    IF keep = 0 THEN rows
    ELSE [a \in Agents |-> [s \in starts |-> IF s < now - keep THEN NoAgg ELSE rows[a][s]]]

\* cleanup: up to 20 batches of 5000 rows, here all of them.
Cleanup ==
    /\ proc = "up" /\ dbOk
    /\ minuteRow' = Kept(minuteRow, Minutes, OneMinKeep)
    /\ hourRow' = Kept(hourRow, Hours, OneHourKeep)
    /\ UNCHANGED <<now, bucket, lastTS, proc, looping, deleted, dbOk, spent>>

\* store.DeleteAgent: its rows, in one transaction; the bucket stays.
DeleteAgent(a) ==
    /\ Serving /\ dbOk
    /\ spent.deletes < MaxDeletes
    /\ spent' = [spent EXCEPT !.deletes = @ + 1]
    /\ minuteRow' = [minuteRow EXCEPT ![a] = [m \in Minutes |-> NoAgg]]
    /\ hourRow' = [hourRow EXCEPT ![a] = [h \in Hours |-> NoAgg]]
    /\ deleted' = deleted \cup {a}
    /\ UNCHANGED <<now, bucket, lastTS, proc, looping, dbOk>>

-----------------------------------------------------------------------------
(* The process.  On SIGTERM both Run goroutines flush everything, the        *)
(* pipeline's and, before it returns, the server's.                          *)

Stop ==
    /\ proc = "up"
    /\ spent.stops < MaxStops
    /\ spent' = [spent EXCEPT !.stops = @ + 1]
    /\ proc' = "stopping"
    /\ UNCHANGED <<now, bucket, minuteRow, hourRow, lastTS, looping, deleted, dbOk>>

FlushAllOfPipeline ==
    /\ proc \in {"stopping", "flushed"} /\ looping
    /\ looping' = FALSE
    /\ FlushOf(Agents)
    /\ UNCHANGED proc

FlushAllOfServer ==
    /\ proc = "stopping"
    /\ proc' = "flushed"
    /\ FlushOf(Agents)
    /\ UNCHANGED looping

\* main returns; or the process dies at any time.  Memory is gone.
Exit ==
    /\ proc = "flushed"
    /\ proc' = "down"
    /\ looping' = FALSE
    /\ bucket' = [a \in Agents |-> NoBucket]
    /\ UNCHANGED <<now, minuteRow, hourRow, lastTS, deleted, dbOk, spent>>

Crash ==
    /\ Serving
    /\ spent.crashes < MaxCrashes
    /\ spent' = [spent EXCEPT !.crashes = @ + 1]
    /\ proc' = "down"
    /\ looping' = FALSE
    /\ bucket' = [a \in Agents |-> NoBucket]
    /\ UNCHANGED <<now, minuteRow, hourRow, lastTS, deleted, dbOk>>

Start ==
    /\ proc = "down"
    /\ proc' = "up"
    /\ looping' = TRUE
    /\ UNCHANGED <<now, bucket, minuteRow, hourRow, lastTS, deleted, dbOk, spent>>

DbFails ==
    /\ dbOk
    /\ spent.errors < MaxDbErrors
    /\ spent' = [spent EXCEPT !.errors = @ + 1]
    /\ dbOk' = FALSE
    /\ UNCHANGED <<now, bucket, minuteRow, hourRow, lastTS, proc, looping, deleted>>

DbHeals ==
    /\ ~dbOk
    /\ dbOk' = TRUE
    /\ UNCHANGED <<now, bucket, minuteRow, hourRow, lastTS, proc, looping, deleted, spent>>

Tick ==
    /\ now < MaxNow
    /\ now' = now + 1
    /\ UNCHANGED <<bucket, minuteRow, hourRow, lastTS, proc, looping, deleted, dbOk, spent>>

Next ==
    \/ \E a \in Agents : \/ \E ts \in Times, v \in Values : Observe(a, ts, v)
                         \/ DeleteAgent(a)
    \/ FlushBefore \/ FlushBeforeCancelled \/ Rollup \/ Cleanup
    \/ Stop \/ FlushAllOfPipeline \/ FlushAllOfServer \/ Exit \/ Crash \/ Start
    \/ DbFails \/ DbHeals \/ Tick

Spec == Init /\ [][Next]_vars

\* The tickers of Run fire again and again, and so does the clock.
FairSpec == Spec /\ WF_vars(Tick) /\ WF_vars(FlushBefore) /\ WF_vars(Rollup)

-----------------------------------------------------------------------------
(* Properties.                                                               *)

\* What a minute holds, in memory or else in the table.
Held(a, m) == IF bucket[a].start = m THEN bucket[a].agg ELSE minuteRow[a][m]

Ledger == INSTANCE MetricLedger WITH
            ledger <- [a \in Agents |-> [m \in Minutes |-> Held(a, m)]]

\* The pipeline implements MetricLedger: whatever flushes and samples do to each
\* other, a minute holds all its samples and only them.
KeepsLedger == Ledger!Spec

\* A row never holds more than was observed, and its minimum and maximum are of
\* samples it holds: no interleaving of flushes counts a sample twice.
NothingCountedTwice ==
    \A a \in Agents :
      /\ SumFunction([m \in Minutes |-> Held(a, m).count]) <= spent.samples
      /\ \A m \in Minutes : LET g == Held(a, m) IN
           g.min * g.count <= g.sum /\ g.sum <= g.max * g.count

\* A rollup that runs again, after more minutes were flushed or deleted, does
\* not lose samples the hour already had.
HourNeverShrinks ==
    [][\A a \in Agents, h \in Hours :
         \/ hourRow[a][h].count <= hourRow'[a][h].count
         \/ h < now - OneHourKeep
         \/ a \in deleted']_vars

\* Every sample of the last full hour reaches its hour row, though the minute
\* it belongs to is still in memory when the first rollups run.
HourCatchesUp ==
    LET h == StartOf(MaxNow, Hour) - Hour
        hour == {m \in Minutes : h <= m /\ m < h + Hour}
    IN  \A a \in Agents :
          <>[](hourRow[a][h].count = SumFunction([m \in hour |-> Held(a, m).count]))
=============================================================================
