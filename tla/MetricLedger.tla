----------------------------- MODULE MetricLedger -----------------------------
(* What the minute series of an agent is meant to be: for each minute, the   *)
(* aggregate of all its samples that arrived.  A sample adds to its minute   *)
(* and touches no other; retention and the removal of an agent forget whole  *)
(* minutes; nothing else changes what a minute holds.                        *)
EXTENDS Integers

CONSTANTS Agents, Minutes, Values

VARIABLE ledger        \* the aggregate of each agent and minute

NoAgg == [count |-> 0, sum |-> 0, min |-> 0, max |-> 0]

Least(v, w) == IF v < w THEN v ELSE w
Greatest(v, w) == IF v > w THEN v ELSE w

\* One more sample of value v.
Add(agg, v) ==
    IF agg.count = 0 THEN [count |-> 1, sum |-> v, min |-> v, max |-> v]
    ELSE [count |-> agg.count + 1, sum |-> agg.sum + v,
          min |-> Least(v, agg.min), max |-> Greatest(v, agg.max)]

Init == ledger = [a \in Agents |-> [m \in Minutes |-> NoAgg]]

Sample(a, m, v) == ledger' = [ledger EXCEPT ![a][m] = Add(@, v)]

\* Retention forgets minutes of all agents at once.
Forget(old) ==
    ledger' = [a \in Agents |->
                 [m \in Minutes |-> IF m \in old[a] THEN NoAgg ELSE ledger[a][m]]]

Next ==
    \/ \E a \in Agents, m \in Minutes, v \in Values : Sample(a, m, v)
    \/ \E old \in [Agents -> SUBSET Minutes] : Forget(old)

Spec == Init /\ [][Next]_ledger
=============================================================================
