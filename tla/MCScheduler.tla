----------------------------- MODULE MCScheduler -----------------------------
(* Instances of Scheduler for TLC.                                           *)
EXTENDS Scheduler, TLC

CONSTANTS t1, t2, a1, a2, s1, s2, boot, adm, adm2

ForAll == [t \in Tasks |-> Agents]
NoRetry == [t \in Tasks |-> 0]
One == [t \in Tasks |-> 1]

\* The administrators do the same things.
Requesters == Permutations(Admins \ {Boot})

\* What a visit may still spend, and the runs it may still start.
Left(requests, saves, crashes, errors) ==
    spent = [requests |-> MaxRequests - requests, saves |-> MaxSaves - saves,
             crashes |-> MaxCrashes - crashes, errors |-> MaxDbErrors - errors]

\* Two visits: runs beside a request to run one, a crash and a failed statement;
\* and, where no run is left to start, saves and deletions that overlap, a crash
\* and a failed statement.
Visit ==
    \/ runs = 0 /\ Left(MaxRequests, 0, MaxCrashes, MaxDbErrors)
    \/ runs = MaxRuns /\ Left(0, MaxSaves, MaxCrashes, MaxDbErrors)

MCInit == Init /\ Visit
MCSpec == MCInit /\ [][Next]_vars

Whole == runs = 0 /\ Left(MaxRequests, MaxSaves, MaxCrashes, MaxDbErrors)

WholeInit == Init /\ Whole
MCFairSpec == WholeInit /\ [][Next]_vars /\ Fairness
=============================================================================
