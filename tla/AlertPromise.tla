----------------------------- MODULE AlertPromise -----------------------------
(* What the alert engine promises to the people it notifies, whatever rules, *)
(* clocks and restarts do: an alert is a record that opens and closes; its   *)
(* opening may be announced, once and only while it is open; its closing may *)
(* be announced, once and only after it.  Nothing obliges the engine to      *)
(* announce: a cooldown or a crash may cost a notice, never repeat one.  An  *)
(* accident may release it from the promise about an alert; the next opening *)
(* of that alert binds it again.                                             *)
CONSTANT Keys        \* rule and target of each possible alert

VARIABLES
    open,            \* the alerts on record as firing
    told,            \* the notices sent of the latest episode of each alert
    owed             \* the alerts the promise is kept for

vars == <<open, told, owed>>

\* Of an alert that never opened there is nothing left to tell.
Init ==
    /\ open = {}
    /\ told = [k \in Keys |-> {"firing", "resolved"}]
    /\ owed = Keys

Rests(k) == (k \in open' <=> k \in open) /\ told'[k] = told[k]

Open(k) == k \notin open /\ k \in open' /\ told'[k] = {}

TellFiring(k) ==
    /\ k \in open /\ k \in open'
    /\ "firing" \notin told[k]
    /\ told'[k] = told[k] \cup {"firing"}

\* The alert resolves, or the retention removes an old record.
Close(k) == k \in open /\ k \notin open' /\ told'[k] = told[k]

TellResolved(k) ==
    /\ k \notin open /\ k \notin open'
    /\ "resolved" \notin told[k]
    /\ told'[k] = told[k] \cup {"resolved"}

\* Each alert takes a step of its own; a cleanup closes several at once.
Next ==
    \A k \in owed' :
      IF k \in owed
      THEN Rests(k) \/ Open(k) \/ TellFiring(k) \/ Close(k) \/ TellResolved(k)
      ELSE Open(k)

Spec == Init /\ [][Next]_vars
=============================================================================
