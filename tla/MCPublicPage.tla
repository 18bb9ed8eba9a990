----------------------------- MODULE MCPublicPage -----------------------------
EXTENDS PublicPage
CONSTANTS n1, n2, n3, a, b

MCFleet == <<n1, n2, n3>>
MCInfo ==
  n1 :> [category |-> "web", expire |-> 30, starred |-> TRUE]
  @@ n2 :> [category |-> "ix", expire |-> 5, starred |-> FALSE]
  @@ n3 :> [category |-> "web", expire |-> 90, starred |-> FALSE]
MCFound == [w \in {"k"} |-> {n1, n2}]
MCPickerFinds == [w \in {"web"} |-> {n1, n3}]
Calm == [cpu |-> 10, mem |-> 40, disk |-> 50, traffic |-> 3]
Full == [cpu |-> 91, mem |-> 50, disk |-> 50, traffic |-> 4]
MCResources == {Calm, Full}
Near == [latency |-> 40, loss |-> 0]
MCProbes == {Near, [latency |-> 400, loss |-> 0]}
MCFirst ==
  [n \in {n1, n2, n3} |->
     Near @@ (IF n = n1 THEN Calm ELSE Full)
          @@ [status |-> IF n = n2 THEN "off" ELSE IF n = n1 THEN "ok" ELSE "warn"]]

(* The visits: where one begins, and what it may do. *)
CONSTANT Visits
Visit(params, m, t, h, s) ==
  [at |-> At("/", params), moves |-> m, ticks |-> t, hides |-> h, acts |-> s]
MCVisits ==
  {Visit(<<>>, 3, 0, 0, 1),
   Visit([sort |-> "cpu"], 1, 1, 1, 1),
   Visit([fav |-> "1", sort |-> "expire"], 1, 0, 0, 3),
   Visit([q |-> "k", cat |-> "web"], 2, 0, 0, 1),
   Visit([node |-> n1], 1, 0, 0, 3),
   Visit([node |-> n3], 0, 2, 0, 2),
   Visit([node |-> n2, cat |-> "nowhere"], 0, 0, 0, 4),
   Visit([node |-> "gone"], 2, 0, 1, 1),
   Visit([sort |-> "latency"], 0, 2, 2, 0)}
MCLanding == {v.at : v \in MCVisits}

MCInit ==
  /\ Init
  /\ [at |-> loc, moves |-> MaxMoves - moves, ticks |-> MaxTicks - ticks,
      hides |-> MaxHides - hides, acts |-> MaxActs - acts] \in Visits
  /\ hides = MaxHides => ~hidden
MCSpec == MCInit /\ [][Next]_vars /\ Fairness
===============================================================================
