----------------------------- MODULE ProbeLedger -----------------------------
(* What the scheduler promises of each probe run: it gets one verdict, put   *)
(* on record at most once; whoever watches the results hears of a verdict at *)
(* most once, only after it is on record, and hears the recorded one.        *)
CONSTANT Runs

VARIABLES
    recorded,        \* the verdicts ever put on record: run and ok
    observed         \* the verdicts given to the watcher

vars == <<recorded, observed>>

Verdict == Runs \X BOOLEAN

Init == recorded = {} /\ observed = {}

Record(v) ==
    /\ \A u \in recorded : u[1] # v[1]
    /\ recorded' = recorded \cup {v}
    /\ UNCHANGED observed

Observe(v) ==
    /\ v \in recorded \ observed
    /\ observed' = observed \cup {v}
    /\ UNCHANGED recorded

Next == \E v \in Verdict : Record(v) \/ Observe(v)

Spec == Init /\ [][Next]_vars
=============================================================================
