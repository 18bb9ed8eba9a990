---------------------------- MODULE MCAlertEngine ----------------------------
(* Instances of AlertEngine for TLC.                                         *)
EXTENDS AlertEngine, TLC

CONSTANTS r1, r2, r3, t1, chk, w1, w2, boot, put

MetricAndProbe == r1 :> "metric" @@ r2 :> "probe"
OneThenTwo == r1 :> 1 @@ r2 :> 2
OnlyOffline == [r \in Rules |-> "offline"]
Two == [r \in Rules |-> 2]
Observers == Permutations({w1, w2})

(* One rule is enabled, the others are absent and stay so.  Rules of these two *)
(* kinds do not look at the agents, which rest.                               *)
Alone(r) ==
    /\ ruleRow = [x \in Rules |-> IF x = r THEN "enabled" ELSE "absent"]
    /\ \A w \in Workers : job[w].key[1] = r
Focus ==
    /\ UNCHANGED seenRow
    /\ \A r \in Rules : ruleRow[r] = "absent" /\ rules[r] = "absent" => ruleRow'[r] = "absent"

(* What a worker that has finished leaves in its variables is never read.     *)
Busy(w) == pc[w] \in {"loop", "upsert", "notify"}
Matter ==
    <<now, tables, memory, pc, todo, listed, loader, spent, history,
      [w \in Workers |-> IF Busy(w) THEN at[w] ELSE 0],
      [w \in Workers |-> IF InHand(w, job[w].key) THEN job[w].row ELSE NoEvent],
      [w \in Workers |-> IF InHand(w, job[w].key) THEN job[w].notice ELSE "none"]>>

(* A visit starts with the clock somewhere and leaves so much of the bounds.  *)
Left(start, saves, crashes, errors, overlaps) ==
    /\ now = start
    /\ spent = [saves |-> MaxSaves - saves, crashes |-> MaxCrashes - crashes,
                errors |-> MaxDbErrors - errors, overlaps |-> MaxOverlaps - overlaps]
Visit ==
    \/ Left(0, 0, 2, 0, 0)     \* restarts, over the whole clock
    \/ Left(2, 0, 1, 0, 2)     \* observers that meet, and a restart
    \/ Left(2, 1, 0, 0, 1)     \* observers that meet, and a request
    \/ Left(1, 0, 1, 1, 0)     \* a failed statement, and a restart

MCInit == Init /\ Visit /\ \E r \in Rules : Alone(r)
MCSpec == MCInit /\ [][Next]_vars

Whole == Left(0, MaxSaves, MaxCrashes, MaxDbErrors, MaxOverlaps)
WholeInit == Init /\ Whole /\ \E r \in Rules : Alone(r)
MCFairSpec == WholeInit /\ [][Next]_vars /\ Fairness
=============================================================================
