----------------------------- MODULE MCAdminApp -----------------------------
EXTENDS AdminApp
CONSTANTS s1, s2, s3, p1, p2, n1, r1

MCKnown ==
  [s \in {s1, s2, s3} |->
     [place |-> CASE s = s1 -> 1 [] s = s2 -> 2 [] s = s3 -> 3,
      name |-> CASE s = s1 -> 2 [] s = s2 -> 3 [] s = s3 -> 1,
      agent |-> IF s = s1 THEN 1 ELSE 2, uptime |-> IF s = s2 THEN 99 ELSE 100,
      lastSeen |-> IF s = s3 THEN 60 ELSE 1]]
MCFleetTags == [s \in {s1, s2, s3} |-> IF s = s2 THEN <<>> ELSE <<"hk">>]
Calm == [cpu |-> 10, mem |-> 40, disk |-> 50]
Full == [cpu |-> 20, mem |-> 90, disk |-> 86]
MCReadings == {Calm, Full}
MCFirst ==
  [s \in {s1, s2, s3} |->
     Calm @@ [status |-> IF s = s3 THEN "off" ELSE "ok"]]
MCFound == [q \in {"k"} |-> {s1, s3}]
MCFoundProbes == [q \in {"k"} |-> {p1}]
MCShelf == {Absent}
MCRuleIsOn == [r \in {r1} |-> TRUE]

(* The visits: where one begins, and what it may do. *)
CONSTANT Visits
Visit(path, params, m, s, t, h) ==
  [at |-> At(path, params), moves |-> m, saves |-> s, ticks |-> t, hides |-> h]
MCVisits ==
  {Visit("/", [sort |-> "concern", dir |-> "desc"], 2, 0, 1, 0),
   Visit("/", [server |-> s1], 1, 1, 0, 0),
   Visit("/", [q |-> "k"], 0, 2, 0, 0),
   Visit("/probes", [new |-> "1", q |-> "k"], 1, 2, 0, 0),
   Visit("/alerts", [state |-> "firing"], 1, 0, 0, 1),
   Visit("/alerts", [tab |-> "rules"], 0, 1, 1, 2),
   Visit("/nowhere", <<>>, 0, 0, 1, 0)}
MCLanding == {v.at : v \in MCVisits}

MCInit ==
  /\ Init
  /\ [at |-> loc, moves |-> MaxMoves - moves, saves |-> MaxSaves - saves,
      ticks |-> MaxTicks - ticks, hides |-> MaxHides - hides] \in Visits
  /\ hides = MaxHides => ~hidden
MCSpec == MCInit /\ [][Next]_vars
=============================================================================
