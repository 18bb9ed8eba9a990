---------------------------- MODULE PublicPageProofs ----------------------------
(* Proofs about PublicPage for any fleet, readings, probe lines, filters and *)
(* bounds, and any order of what the visitor, the browser and the feed do.   *)
EXTENDS PublicPage, SequenceTheorems, FiniteSetTheorems, TLAPS

-----------------------------------------------------------------------------
(* What the steps of the page do to each of its parts.                       *)

\* The feed moves by itself, by the subscription or by the pause button, and
\* starts anew with the page.
LEMMA FeedSteps ==
  ASSUME [Next]_vars
  PROVE  \/ Reload \/ UNCHANGED feed
         \/ Subscribe \/ Unsubscribe
         \/ Tick \/ SnapshotArrives \/ Hide \/ Show
         \/ \E value \in BOOLEAN : SetPaused(value)
BY DEF Next, vars, Boot, StrictUnmount, Live, PressPause, Back, CatchUp, Toolbar, SetCategory,
       SetSort, SetQuery, SetOnlyFavorites, ClearFilters, ToggleMenu, ShowSearch, BlurSearch,
       DismissBanner, SetView, ToggleFavorite, OpenNode, SelectSibling, OpenPing, CloseNode,
       InDetail, PingStep, InPingDialog, Navigate, Activate, Stay

\* Every commit remembers the curves it asked for.
LEMMA CacheSteps ==
  ASSUME [Next]_vars
  PROVE  \/ Reload
         \/ Remember(Asked(detail') \cup DialogAsks(pingDialog'))
         \/ UNCHANGED vars
BY DEF Next, Boot, StrictUnmount, Live, PressPause, Back, CatchUp, Toolbar, SetCategory,
       SetSort, SetQuery, SetOnlyFavorites, ClearFilters, ToggleMenu, ShowSearch, BlurSearch,
       DismissBanner, SetView, ToggleFavorite, OpenNode, SelectSibling, OpenPing, CloseNode,
       InDetail, PingStep, InPingDialog, Navigate, Commit

\* The detail follows the address, or changes by what one does in it.
LEMMA DetailSteps ==
  ASSUME [Next]_vars
  PROVE  \/ Reload \/ Press \/ Aside
         \/ DetailStep /\ UNCHANGED <<url, feed>>
         \/ UNCHANGED <<url, feed, detail, cursor>>
BY DEF Next, vars, Boot, StrictUnmount, Live, PressPause, Back, CatchUp, Toolbar, SetCategory,
       SetSort, SetQuery, SetOnlyFavorites, ClearFilters, ToggleMenu, ShowSearch, BlurSearch,
       DismissBanner, SetView, ToggleFavorite, OpenNode, SelectSibling, OpenPing, CloseNode,
       InDetail, PingStep, InPingDialog, Navigate, Activate, Stay

\* The address changes by Back, by a parameter of the list, or by opening,
\* changing and closing the detail.
LEMMA UrlSteps ==
  ASSUME [Next]_vars
  PROVE  \/ UNCHANGED url
         \/ GoBack
         \/ /\ OnList
            /\ \E patch : "node" \notin DOMAIN patch /\ (PushParams(patch) \/ ReplaceParams(patch))
         \/ /\ OnList
            /\ \E n \in Nodes : PushParams([node |-> n])
         \/ /\ OnDetail
            /\ PushParams([node |-> ""]) \/ \E n \in Nodes : ReplaceParams([node |-> n])
<1>1. CASE Boot \/ StrictUnmount \/ Live \/ PressPause \/ CatchUp \/ ToggleMenu \/ ShowSearch
           \/ BlurSearch \/ DismissBanner \/ InDetail \/ PingStep \/ UNCHANGED vars
  BY <1>1 DEF Boot, StrictUnmount, Live, PressPause, CatchUp, ToggleMenu, ShowSearch,
              BlurSearch, DismissBanner, InDetail, PingStep, InPingDialog, Aloft, Stay, vars
<1>2. ASSUME NEW n \in Nodes, ToggleFavorite(n) \/ OpenPing(n)
      PROVE  UNCHANGED url
  BY <1>2 DEF ToggleFavorite, OpenPing, Stay
<1>3. CASE Reload \/ \E view \in {"grid", "list"} : SetView(view)
  BY <1>3 DEF Reload, SetView, Stay
<1>4. CASE Back
  BY <1>4 DEF Back
<1>5. ASSUME NEW value, SetCategory(value)
      PROVE  /\ OnList
             /\ \E patch : "node" \notin DOMAIN patch /\ PushParams(patch)
  BY <1>5 DEF SetCategory
<1>6. ASSUME SetOnlyFavorites
      PROVE  /\ OnList
             /\ \E patch : "node" \notin DOMAIN patch /\ PushParams(patch)
  BY <1>6 DEF SetOnlyFavorites
<1>7. ASSUME NEW key, SetSort(key)
      PROVE  /\ OnList
             /\ \E patch : "node" \notin DOMAIN patch /\ PushParams(patch)
  BY <1>7 DEF SetSort
<1>8. ASSUME ClearFilters
      PROVE  /\ OnList
             /\ \E patch : "node" \notin DOMAIN patch /\ PushParams(patch)
  BY <1>8 DEF ClearFilters, OnCards
<1>9. ASSUME NEW word, SetQuery(word)
      PROVE  /\ OnList
             /\ \E patch : "node" \notin DOMAIN patch /\ ReplaceParams(patch)
  BY <1>9 DEF SetQuery
<1>10. ASSUME NEW n \in Nodes, OpenNode(n)
       PROVE  OnList /\ PushParams([node |-> n])
  BY <1>10 DEF OpenNode, OnCards
<1>11. ASSUME NEW n \in Nodes, SelectSibling(n)
       PROVE  OnDetail /\ ReplaceParams([node |-> n])
  BY <1>11 DEF SelectSibling, Sibling
<1>12. ASSUME CloseNode
       PROVE  OnDetail /\ PushParams([node |-> ""])
  BY <1>12 DEF CloseNode
<1> QED BY <1>1, <1>2, <1>3, <1>4, <1>5, <1>6, <1>7, <1>8, <1>9, <1>10, <1>11, <1>12
        DEF Next, Toolbar

-----------------------------------------------------------------------------
(* The numbers move exactly while they are wanted.                           *)

Wanted ==
  /\ mounted \in BOOLEAN /\ interval \in BOOLEAN /\ snapshot \in BOOLEAN
  /\ loaded \in BOOLEAN /\ paused \in BOOLEAN /\ hidden \in BOOLEAN
  /\ snapshot => mounted
  /\ TickingIsWanted

\* A tick moves the nodes that are on and no other.
LEMMA MoveSpares ==
  ASSUME Move, NEW n \in Nodes, IsOff(n)
  PROVE  readings'[n] = readings[n] /\ lastPoint'[n] = lastPoint[n]
<1>1. n \notin Reporting
  BY DEF Reporting
<1>2. CASE ticks = MaxTicks /\ UNCHANGED live
  BY <1>2 DEF live
<1>3. CASE ~(ticks = MaxTicks /\ UNCHANGED live)
  <2>1. lastPoint' = [m \in Nodes |-> IF m \in Reporting THEN ticks' ELSE lastPoint[m]]
    BY <1>3 DEF Move
  <2>2. PICK epoch, use, probe :
          readings' = [m \in Nodes |->
                 IF m \in Reporting
                   THEN Measured(use[m], IF m \in Probed(epoch) THEN probe[m] ELSE readings[m])
                   ELSE readings[m]]
    BY <1>3 DEF Move
  <2> QED BY <1>1, <2>1, <2>2
<1> QED BY <1>2, <1>3

\* Each step keeps the interval running exactly while it is wanted.
LEMMA WantedStep ==
  ASSUME Wanted, [Next]_vars
  PROVE  Wanted'
<1> USE DEF Wanted, TickingIsWanted
<1>1. CASE Reload
  BY <1>1 DEF Reload
<1>2. CASE UNCHANGED feed
  BY <1>2 DEF feed, clock
<1>3. CASE Subscribe \/ Unsubscribe
  BY <1>3 DEF Subscribe, Unsubscribe
<1>4. CASE Tick
  BY <1>4 DEF Tick, clock
<1>5. CASE SnapshotArrives
  BY <1>5 DEF SnapshotArrives
<1>8. CASE Hide
  <2>1. interval' = FALSE
    BY <1>8 DEF Hide
  <2> QED BY <1>8, <2>1 DEF Hide
<1>6. CASE Show
  BY <1>6 DEF Show
<1>7. ASSUME NEW value \in BOOLEAN, SetPaused(value)
      PROVE  Wanted'
  BY <1>7 DEF SetPaused
<1> QED BY <1>1, <1>2, <1>3, <1>4, <1>5, <1>6, <1>7, <1>8, FeedSteps

\* No step but a reload moves a node that is off.
LEMMA OffStep ==
  ASSUME [Next]_vars, ~Reload, NEW n \in Nodes, IsOff(n)
  PROVE  readings'[n] = readings[n] /\ lastPoint'[n] = lastPoint[n]
<1>1. CASE UNCHANGED feed
  BY <1>1 DEF feed, live
<1>2. CASE UNCHANGED live
  BY <1>2 DEF live
<1>3. CASE Move
  BY <1>3, MoveSpares
<1>4. \A value \in BOOLEAN : SetPaused(value) => UNCHANGED live
  BY DEF SetPaused
<1> QED BY <1>1, <1>2, <1>3, <1>4, FeedSteps
        DEF Subscribe, Unsubscribe, Tick, SnapshotArrives, Hide, Show

(* Whatever the order in which the visitor pauses, hides the page, comes back
   and goes on, before or after the snapshot, the numbers of the nodes that are
   on move exactly while they are wanted, and a node that is off is never
   revived (mock.ts:526-545, 573-580, 657-708). *)
THEOREM FeedKept == Spec => OnlyTheLiveMove
<1>1. Init => Wanted
  BY DEF Init, InitFeed, Wanted, TickingIsWanted
<1>2. Wanted /\ [Next]_vars => Wanted'
  BY WantedStep
<1>3. Wanted => TickingIsWanted
  BY DEF Wanted
<1>4. [Next]_vars => [mounted' => \A n \in Nodes : IsOff(n) =>
        readings'[n] = readings[n] /\ lastPoint'[n] = lastPoint[n]]_live
  BY OffStep DEF Reload
<1> QED BY <1>1, <1>2, <1>3, <1>4, PTL DEF Spec, OnlyTheLiveMove, OfflineStaysOff

-----------------------------------------------------------------------------
(* The detail: what is kept of it, and when it starts anew.                  *)

Picks ==
  [of : Nodes \cup {Nobody}, group : {"resource", "ping"},
   range : DOMAIN RANGES \cup DOMAIN PING_RANGES, from : 0..LastDay, to : 0..LastDay,
   hidden : SUBSET Lines, picker : {ClosedPicker, ""} \cup DOMAIN PickerFinds]

Pointers == [Charts -> [locked : BOOLEAN, at : Int]]

(* Without a detail nothing is pinned. *)
DetailInv ==
  /\ detail \in Picks /\ cursor \in Pointers
  /\ detail.of = Nobody => \A c \in Charts : ~cursor[c].locked

\* A fresh detail is one, of a node or of nobody.
LEMMA FreshDetail ==
  ASSUME NEW n \in Nodes \cup {Nobody}
  PROVE  Fresh(n) \in Picks /\ Fresh(n).of = n
<1>1. "live" \in DOMAIN RANGES
  BY DEF RANGES
<1>2. LastDay \in Nat
  BY PageAssumption
<1>3. NoDay \in 0..LastDay
  BY <1>2 DEF NoDay
<1> QED BY <1>1, <1>3 DEF Fresh, Picks

\* A press keeps everything but the picker.
LEMMA PressedDetail ==
  ASSUME detail \in Picks
  PROVE  /\ Pressed \in Picks /\ Pressed.of = detail.of /\ Pressed.hidden = detail.hidden
         /\ Pressed.group = detail.group /\ Pressed.range = detail.range
         /\ Pressed.from = detail.from /\ Pressed.to = detail.to
        /\ \A d \in Activated : d \in Picks /\ d.of = detail.of /\ d.hidden = detail.hidden
BY DEF Picks, Pressed, Activated

\* A cursor that is hidden.
LEMMA HiddenCursor ==
  /\ [c \in Charts |-> Hidden] \in Pointers
  /\ \A c \in Charts : [d \in Charts |-> Hidden][c] = Hidden /\ ~Hidden.locked
BY DEF Pointers, Hidden, NoPoint

\* The detail of an address is a node's or nobody's.
LEMMA DetailAtNode == DetailAt(loc') \in Nodes \cup {Nobody}
BY DEF DetailAt, opened

\* What one does in a detail leaves its node alone; the cursor starts anew with
\* the group, and otherwise moves by a pointer.
LEMMA InDetailSteps ==
  ASSUME detail \in Picks, DetailStep
  PROVE  /\ detail.of # Nobody
         /\ detail' \in Picks /\ detail'.of = detail.of
         /\ \/ UNCHANGED cursor
            \/ cursor' = [c \in Charts |-> Hidden]
            \/ Point
<1> USE PressedDetail
<1>1. ASSUME NEW range \in DOMAIN RANGES \cup DOMAIN PING_RANGES, SetRange(range)
      PROVE  detail.of # Nobody /\ detail' \in Picks /\ detail'.of = detail.of /\ UNCHANGED cursor
  BY <1>1 DEF SetRange, Change, Picks
<1>2. ASSUME NEW from \in 0..LastDay, NEW to \in 0..LastDay, SetDates(from, to)
      PROVE  detail.of # Nobody /\ detail' \in Picks /\ detail'.of = detail.of /\ UNCHANGED cursor
  BY <1>2 DEF SetDates, Change, Picks
<1>3. ASSUME NEW group \in {"resource", "ping"}, SetGroup(group)
      PROVE  /\ detail.of # Nobody /\ detail' \in Picks /\ detail'.of = detail.of
             /\ cursor' = [c \in Charts |-> Hidden]
  BY <1>3 DEF SetGroup, Change, Picks
<1>4. ASSUME NEW line \in Lines, ToggleLine(line)
      PROVE  detail.of # Nobody /\ detail' \in Picks /\ detail'.of = detail.of /\ UNCHANGED cursor
  <2>1. PICK d \in Activated :
          detail' = [d EXCEPT !.hidden = IF line \in @ THEN @ \ {line} ELSE @ \cup {line}]
    BY <1>4 DEF ToggleLine, Change
  <2> QED BY <1>4, <2>1 DEF ToggleLine, Change, Picks
<1>5. CASE AllLines
  <2>1. PICK S, d : S \in SUBSET Lines /\ d \in Activated /\ detail' = [d EXCEPT !.hidden = S]
    BY <1>5 DEF AllLines, Change, Picks
  <2> QED BY <1>5, <2>1 DEF AllLines, Change, Picks
<1>6. CASE TogglePicker
  BY <1>6 DEF TogglePicker, Change, Picks, ClosedPicker
<1>7. ASSUME NEW word \in {""} \cup DOMAIN PickerFinds, TypeInPicker(word)
      PROVE  detail.of # Nobody /\ detail' \in Picks /\ detail'.of = detail.of /\ UNCHANGED cursor
  BY <1>7 DEF TypeInPicker, Change, Picks
<1>8. CASE ClosePicker
  BY <1>8 DEF ClosePicker, Change
<1>9. CASE Point
  BY <1>9 DEF Point
<1> QED BY <1>1, <1>2, <1>3, <1>4, <1>5, <1>6, <1>7, <1>8, <1>9 DEF DetailStep

\* The point a pointer is nearest to is one of the curve's.
LEMMA IndexIsAPoint ==
  ASSUME NEW spot \in Spots, NEW points \in Int, points >= 2
  PROVE  IndexFrom(spot, points) \in Int /\ IndexFrom(spot, points) # NoPoint
<1>1. spot \in Int
  BY SpotsAssumption
<1> DEFINE index == (2 * spot * (points - 1) + 4) \div 8
<1>2. 2 * spot * (points - 1) \in Int
  BY <1>1
<1>3. index \in Int
  BY <1>2
<1> HIDE DEF index
<1>4. IndexFrom(spot, points) = IF index > points - 1 THEN points - 1 ELSE IF index < 0 THEN 0 ELSE index
  BY DEF index, IndexFrom
<1> QED BY <1>3, <1>4 DEF NoPoint

\* How many points a curve has.
LEMMA PointsAreCounted ==
  ASSUME NEW ask
  PROVE  PointsOf(ask) \in Nat
<1>1. \A range \in DOMAIN RANGES : RANGES[range].points \in Nat
  BY DEF RANGES, Over
<1>2. \A range \in DOMAIN PING_RANGES : PING_RANGES[range].points \in Nat
  BY DEF PING_RANGES, Over
<1> QED BY <1>1, <1>2 DEF PointsOf

\* A chart draws a whole number of points.
LEMMA ChartCounts ==
  ASSUME NEW c, NEW d
  PROVE  ChartPoints(c, d) \in Nat
BY PointsAreCounted DEF ChartPoints, ResourcePoints

\* A pointer changes the cursor of the chart it is on: it lets go of it, or
\* shows a point, one of the line's wherever the chart has a line.
LEMMA PointSteps ==
  ASSUME detail \in Picks, cursor \in Pointers, Point
  PROVE  \E c \in Charts, new \in [locked : BOOLEAN, at : Int] :
            /\ cursor' = [cursor EXCEPT ![c] = new]
            /\ \/ ~new.locked
               \/ new.at = cursor[c].at /\ (cursor[c].locked \/ (~HasLine(c, detail) /\ c # "ping"))
               \/ new.at # NoPoint
<1>1. PICK c \in ChartsOf(detail), spot \in Spots :
        \/ Tap(c, spot, ChartPoints(c, detail), HasLine(c, detail))
        \/ MoveOver(c, spot, ChartPoints(c, detail), HasLine(c, detail))
        \/ Leave(c)
  BY DEF Point
<1> DEFINE points == ChartPoints(c, detail)
           hasLine == HasLine(c, detail)
           at == Shown(c, spot, points, hasLine)
<1>2. c \in Charts /\ cursor[c] \in [locked : BOOLEAN, at : Int]
  BY ChartsAreThese DEF ChartsOf, Pointers
<1>3. points \in Nat
  BY ChartCounts
<1>4. c = "ping" /\ ~hasLine => points = 0
  BY DEF ChartPoints
<1>5. hasLine \in BOOLEAN
  BY DEF HasLine
<1>6. points >= 2 => at \in Int /\ (hasLine => at # NoPoint) /\ (~hasLine => at = cursor[c].at /\ c # "ping")
  BY <1>2, <1>3, <1>4, <1>5, IndexIsAPoint DEF Shown
<1> HIDE DEF points, hasLine, at
<1>7. CASE Tap(c, spot, points, hasLine)
  <2>1. CASE cursor[c].locked
    <3>1. cursor' = [cursor EXCEPT ![c] = Hidden]
      BY <1>7, <2>1 DEF Tap
    <3>2. Hidden \in [locked : BOOLEAN, at : Int] /\ ~Hidden.locked
      BY DEF Hidden, NoPoint
    <3> QED BY <1>2, <3>1, <3>2
  <2>2. CASE ~cursor[c].locked
    <3> DEFINE new == [locked |-> TRUE, at |-> at]
    <3>1. points >= 2 /\ cursor' = [cursor EXCEPT ![c] = new]
      BY <1>7, <2>2 DEF Tap, at
    <3>2. new \in [locked : BOOLEAN, at : Int] /\ new.at = at
      BY <1>6, <3>1
    <3> HIDE DEF new
    <3>3. \/ new.at = cursor[c].at /\ ~HasLine(c, detail) /\ c # "ping"
          \/ new.at # NoPoint
      BY <1>6, <3>1, <3>2, <1>5 DEF hasLine
    <3> QED BY <1>2, <3>1, <3>2, <3>3
  <2> QED BY <2>1, <2>2
<1>8. CASE MoveOver(c, spot, points, hasLine)
  <2> DEFINE new == [cursor[c] EXCEPT !.at = at]
  <2>1. points >= 2 /\ cursor' = [cursor EXCEPT ![c] = new]
    BY <1>8, <1>2 DEF MoveOver, at, Pointers
  <2>2. new \in [locked : BOOLEAN, at : Int] /\ new.at = at /\ new.locked = cursor[c].locked
    BY <1>2, <1>6, <2>1
  <2> HIDE DEF new
  <2>3. \/ new.at = cursor[c].at /\ ~HasLine(c, detail) /\ c # "ping"
        \/ new.at # NoPoint
    BY <1>6, <2>1, <2>2, <1>5 DEF hasLine
  <2> QED BY <1>2, <2>1, <2>2, <2>3
<1>9. CASE Leave(c)
  <2> DEFINE new == [cursor[c] EXCEPT !.at = NoPoint]
  <2>1. ~cursor[c].locked /\ cursor' = [cursor EXCEPT ![c] = new]
    BY <1>9, <1>2 DEF Leave, Pointers
  <2>2. new \in [locked : BOOLEAN, at : Int] /\ ~new.locked
    BY <1>2, <2>1 DEF NoPoint
  <2> HIDE DEF new
  <2> QED BY <1>2, <2>1, <2>2
<1> QED BY <1>1, <1>7, <1>8, <1>9 DEF points, hasLine

\* Each step keeps the detail a detail.
LEMMA DetailStepInv ==
  ASSUME DetailInv, [Next]_vars
  PROVE  DetailInv'
<1> USE DEF DetailInv
<1>1. ASSUME NEW n \in Nodes \cup {Nobody}, Follow(n)
      PROVE  DetailInv'
  BY <1>1, FreshDetail, HiddenCursor DEF Follow
<1>2. CASE Reload
  BY <1>2, FreshDetail, HiddenCursor DEF Reload
<1>3. CASE Press
  BY <1>1, <1>3, DetailAtNode, PressedDetail DEF Press
<1>4. CASE Aside
  BY <1>1, <1>4, DetailAtNode DEF Aside
<1>5. CASE DetailStep
  <2>1. detail'.of # Nobody /\ detail' \in Picks
    BY <1>5, InDetailSteps
  <2>2. cursor' \in Pointers
    <3>1. CASE Point
      BY <3>1, PointSteps DEF Pointers
    <3> QED BY <1>5, <3>1, InDetailSteps, HiddenCursor
  <2> QED BY <2>1, <2>2
<1>6. CASE UNCHANGED <<detail, cursor>>
  BY <1>6
<1> QED BY <1>2, <1>3, <1>4, <1>5, <1>6, DetailSteps

\* The detail is one from the start.
LEMMA InitDetail ==
  ASSUME Init
  PROVE  DetailInv
BY FreshDetail, HiddenCursor DEF Init, InitChart, DetailInv

\* Another node's detail is a fresh one.
LEMMA FreshStep ==
  ASSUME DetailInv, [Next]_vars, detail'.of # detail.of
  PROVE  detail' = Fresh(detail'.of) /\ \A c \in Charts : cursor'[c] = Hidden
<1>1. ASSUME NEW n \in Nodes \cup {Nobody}, Follow(n)
      PROVE  detail' = Fresh(detail'.of) /\ \A c \in Charts : cursor'[c] = Hidden
  <2>1. detail' = Fresh(n) /\ cursor' = [c \in Charts |-> Hidden]
    BY <1>1 DEF Follow
  <2> QED BY <2>1, FreshDetail
<1>2. CASE Reload
  <2>1. detail' = Fresh(Nobody) /\ cursor' = [c \in Charts |-> Hidden]
    BY <1>2 DEF Reload
  <2> QED BY <2>1, FreshDetail
<1>3. CASE Press
  BY <1>1, <1>3, DetailAtNode, PressedDetail DEF Press, DetailInv
<1>4. CASE Aside
  BY <1>1, <1>4, DetailAtNode DEF Aside
<1>5. ~DetailStep
  BY InDetailSteps DEF DetailInv
<1> QED BY <1>2, <1>3, <1>4, <1>5, DetailSteps

\* What is in the cache stays in it as it is.
LEMMA CacheStands ==
  ASSUME [Next]_vars, mounted', NEW k \in DOMAIN cache
  PROVE  k \in DOMAIN cache' /\ cache'[k] = cache[k]
<1>1. ~Reload
  BY DEF Reload
<1>2. ASSUME NEW asked, Remember(asked)
      PROVE  k \in DOMAIN cache' /\ cache'[k] = cache[k]
  BY <1>2 DEF Remember
<1> QED BY <1>1, <1>2, CacheSteps DEF vars

(* A detail neither takes over what was chosen in another node's, no range,
   dates, hidden lines, open picker or pinned cursor, nor draws anew a curve of
   the past (app.tsx:241-242, mock.ts:233-244). *)
THEOREM DetailKept == Spec => DetailKeepsToItself
<1>1. DetailInv /\ [Next]_vars => DetailInv'
  BY DetailStepInv
<1>2. Init => DetailInv
  BY InitDetail
<1>3. DetailInv /\ [Next]_vars =>
        [detail'.of # detail.of =>
           detail' = Fresh(detail'.of) /\ \A c \in Charts : cursor'[c] = Hidden]_vars
  BY FreshStep
<1>4. [Next]_vars =>
        [mounted' => \A k \in DOMAIN cache : k \in DOMAIN cache' /\ cache'[k] = cache[k]]_cache
  BY CacheStands
<1> QED BY <1>1, <1>2, <1>3, <1>4, PTL
        DEF Spec, DetailKeepsToItself, DetailStartsFresh, HistoryStandsStill

-----------------------------------------------------------------------------
(* Back leaves the detail.                                                   *)

(* The detail is that of the address, once the page is loaded. *)
DetailIsOpened == detail.of = IF mounted /\ loaded THEN opened(loc) ELSE Nobody

\* What the entry l may have before it: a detail, only its list.
ListBefore(l, before) ==
  opened(l) # Nobody => opened(before) = Nobody /\ ButNode(before) = ButNode(l)

(* Every detail in the history was opened from its list, the page's own entry
   and the ones one can go back to alike; the first entry is the landing's. *)
HistoryInv ==
  /\ \E S : behind \in Seq(S)
  /\ \A i \in 1..Len(behind) :
       ListBefore(IF i = Len(behind) THEN loc ELSE behind[i + 1], behind[i])

\* Only the parameter node opens a detail, and a patch of others keeps it.
LEMMA PatchKeepsNode ==
  ASSUME NEW l, NEW patch, "node" \notin DOMAIN patch
  PROVE  opened(At(l.path, Patched(l.params, patch))) = opened(l)
<1> DEFINE new == At(l.path, Patched(l.params, patch))
<1>1. new.params = Patched(l.params, patch)
  BY DEF At
<1>2. "node" \in DOMAIN new.params <=> "node" \in DOMAIN l.params
  BY <1>1 DEF Patched
<1>3. "node" \in DOMAIN l.params => new.params["node"] = l.params["node"]
  BY <1>1 DEF Patched
<1> HIDE DEF new
<1>4. Param(new, "node") = Param(l, "node")
  BY <1>2, <1>3 DEF Param
<1> QED BY <1>4 DEF opened, new

\* A patch of the node opens that node, and keeps the rest of the address.
LEMMA PatchOfNode ==
  ASSUME NEW l, NEW n
  PROVE  LET new == At(l.path, Patched(l.params, [node |-> n]))
         IN  /\ ButNode(new) = ButNode(l)
             /\ n = "" => opened(new) = Nobody
<1> DEFINE patch == [node |-> n]
           new == At(l.path, Patched(l.params, patch))
<1>1. DOMAIN patch = {"node"} /\ patch["node"] = n
  OBVIOUS
<1> HIDE DEF patch
<1>2. new.params = Patched(l.params, patch)
  BY DEF At
<1>3. DOMAIN new.params = {j \in DOMAIN l.params \cup DOMAIN patch : j \in DOMAIN patch => patch[j] # ""}
  BY <1>2 DEF Patched
<1>4. DOMAIN new.params \ {"node"} = DOMAIN l.params \ {"node"}
  BY <1>1, <1>3
<1>5. \A k \in DOMAIN l.params \ {"node"} : new.params[k] = l.params[k]
  BY <1>1, <1>2 DEF Patched
<1>6. n = "" => "node" \notin DOMAIN new.params
  BY <1>1, <1>3
<1> HIDE DEF new
<1>7. ButNode(new) = ButNode(l)
  BY <1>4, <1>5 DEF ButNode
<1>8. n = "" => Param(new, "node") = ""
  BY <1>6 DEF Param
<1>9. n = "" => opened(new) = Nobody
  BY <1>8, PageAssumption DEF opened
<1> QED BY <1>7, <1>9 DEF new, patch

\* The detail follows the address.
LEMMA OpenedStep ==
  ASSUME DetailInv, DetailIsOpened, [Next]_vars
  PROVE  DetailIsOpened'
<1>1. ASSUME NEW n \in Nodes \cup {Nobody}, Follow(n)
      PROVE  detail'.of = n
  BY <1>1, FreshDetail DEF Follow
<1>2. CASE Reload
  BY <1>2, FreshDetail DEF Reload, DetailIsOpened
<1>3. CASE Press
  <2>1. detail'.of = DetailAt(loc')
    BY <1>1, <1>3, DetailAtNode, PressedDetail DEF Press, DetailInv
  <2> QED BY <2>1 DEF DetailIsOpened, DetailAt
<1>4. CASE Aside
  <2>1. detail'.of = DetailAt(loc')
    BY <1>1, <1>4, DetailAtNode DEF Aside
  <2> QED BY <2>1 DEF DetailIsOpened, DetailAt
<1>5. CASE DetailStep /\ UNCHANGED <<url, feed>>
  <2>1. detail'.of = detail.of /\ loc' = loc /\ mounted' = mounted /\ loaded' = loaded
    BY <1>5, InDetailSteps DEF DetailInv, url, feed, clock
  <2> QED BY <2>1 DEF DetailIsOpened, opened
<1>6. CASE UNCHANGED <<url, feed, detail, cursor>>
  BY <1>6 DEF DetailIsOpened, opened, url, feed, clock
<1> QED BY <1>2, <1>3, <1>4, <1>5, <1>6, DetailSteps

\* Another entry goes on top, and the oldest may be lost.
LEMMA Pushed ==
  ASSUME HistoryInv, NEW to, Push(to), ListBefore(to, loc)
  PROVE  HistoryInv'
<1>1. PICK S : behind \in Seq(S)
  BY DEF HistoryInv
<1> DEFINE T == S \cup {loc}
<1>2. behind \in Seq(T) /\ loc \in T
  BY <1>1
<1> HIDE DEF T
<1>3. loc' = to
  BY DEF Push
<1>4. CASE Len(behind) < MaxBack
  <2>1. behind' = Append(behind, loc)
    BY <1>4 DEF Push
  <2>2. behind' \in Seq(T) /\ Len(behind') = Len(behind) + 1
    BY <1>2, <2>1
  <2>3. \A i \in 1..Len(behind) : behind'[i] = behind[i]
    BY <1>2, <2>1
  <2>4. behind'[Len(behind')] = loc
    BY <1>2, <2>1
  <2>5. ASSUME NEW i \in 1..Len(behind')
        PROVE  ListBefore(IF i = Len(behind') THEN loc' ELSE behind'[i + 1], behind'[i])
    <3>1. CASE i = Len(behind')
      BY <3>1, <1>3, <2>4
    <3>2. CASE i # Len(behind')
      <4>1. i \in 1..Len(behind)
        BY <2>2, <3>2, <1>2
      <4>2. behind'[i + 1] = IF i = Len(behind) THEN loc ELSE behind[i + 1]
        BY <4>1, <2>2, <2>3, <2>4, <1>2
      <4>3. behind'[i] = behind[i]
        BY <4>1, <2>3
      <4> QED BY <3>2, <4>1, <4>2, <4>3 DEF HistoryInv
    <3> QED BY <3>1, <3>2
  <2> QED BY <2>2, <2>5 DEF HistoryInv, ListBefore, ButNode, opened
<1>5. CASE ~(Len(behind) < MaxBack)
  <2>1. behind' = Append(Tail(behind), loc)
    BY <1>5 DEF Push
  <2>2. MaxBack \in Nat \ {0}
    BY PageAssumption
  <2>3. Len(behind) \in Nat /\ Len(behind) > 0
    BY <1>2, <1>5, <2>2
  <2>4. Tail(behind) \in Seq(T) /\ Len(Tail(behind)) = Len(behind) - 1
    BY <1>2, <2>3
  <2>5. \A i \in 1..Len(behind) - 1 : Tail(behind)[i] = behind[i + 1]
    BY <1>2, <2>3
  <2>6. behind' \in Seq(T) /\ Len(behind') = Len(behind)
    BY <1>2, <2>1, <2>3, <2>4
  <2>7. \A i \in 1..Len(behind) - 1 : behind'[i] = behind[i + 1]
    BY <1>2, <2>1, <2>3, <2>4, <2>5
  <2>8. behind'[Len(behind')] = loc
    BY <1>2, <2>1, <2>3, <2>4
  <2>9. ASSUME NEW i \in 1..Len(behind')
        PROVE  ListBefore(IF i = Len(behind') THEN loc' ELSE behind'[i + 1], behind'[i])
    <3>1. CASE i = Len(behind')
      BY <3>1, <1>3, <2>8
    <3>2. CASE i # Len(behind')
      <4>1. i + 1 \in 1..Len(behind) /\ i \in 1..Len(behind) - 1
        BY <2>3, <2>6, <3>2
      <4>2. behind'[i + 1] = IF i + 1 = Len(behind) THEN loc ELSE behind[i + 1 + 1]
        BY <4>1, <2>3, <2>6, <2>7, <2>8
      <4>3. behind'[i] = behind[i + 1]
        BY <4>1, <2>7
      <4> QED BY <3>2, <4>1, <4>2, <4>3 DEF HistoryInv
    <3> QED BY <3>1, <3>2
  <2> QED BY <2>6, <2>9 DEF HistoryInv, ListBefore, ButNode, opened
<1> QED BY <1>4, <1>5

\* The entry of the page itself is replaced.
LEMMA Replaced ==
  ASSUME HistoryInv, NEW to, Replace(to),
         \A before : ListBefore(loc, before) => ListBefore(to, before)
  PROVE  HistoryInv'
<1>1. behind' = behind /\ loc' = to
  BY DEF Replace
<1>2. ASSUME NEW i \in 1..Len(behind)
      PROVE  ListBefore(IF i = Len(behind) THEN to ELSE behind[i + 1], behind[i])
  BY DEF HistoryInv
<1> QED BY <1>1, <1>2 DEF HistoryInv, ListBefore, ButNode, opened

\* Back takes the last entry.
LEMMA WentBack ==
  ASSUME HistoryInv, GoBack
  PROVE  HistoryInv'
<1>1. PICK S : behind \in Seq(S)
  BY DEF HistoryInv
<1>2. behind # <<>> /\ loc' = behind[Len(behind)] /\ behind' = SubSeq(behind, 1, Len(behind) - 1)
  BY DEF GoBack, Last, Front
<1>3. Len(behind) \in Nat /\ Len(behind) > 0
  BY <1>1, <1>2
<1> DEFINE n == Len(behind) - 1
<1>4. n \in Nat /\ \A i \in 1..n : behind[i] \in S
  BY <1>1, <1>3
<1>5. behind' = SubSeq(behind, 1, n)
  BY <1>2
<1> HIDE DEF n
<1>6. /\ SubSeq(behind, 1, n) \in Seq(S)
      /\ Len(SubSeq(behind, 1, n)) = IF 1 <= n THEN n - 1 + 1 ELSE 0
      /\ \A i \in 1..n - 1 + 1 : SubSeq(behind, 1, n)[i] = behind[1 + i - 1]
  BY <1>4, SubSeqProperties
<1>7. behind' \in Seq(S) /\ Len(behind') = Len(behind) - 1
  <2>1. Len(behind') = n
    BY <1>4, <1>5, <1>6
  <2> QED BY <2>1, <1>5, <1>6 DEF n
<1>8. \A i \in 1..Len(behind) - 1 : behind'[i] = behind[i]
  BY <1>4, <1>5, <1>6 DEF n
<1>9. ASSUME NEW i \in 1..Len(behind')
      PROVE  ListBefore(IF i = Len(behind') THEN loc' ELSE behind'[i + 1], behind'[i])
  <2>1. i \in 1..Len(behind) /\ i # Len(behind) /\ behind'[i] = behind[i]
    BY <1>3, <1>7, <1>8
  <2>2. (IF i = Len(behind') THEN loc' ELSE behind'[i + 1]) = behind[i + 1]
    BY <1>2, <1>3, <1>7, <1>8
  <2> QED BY <2>1, <2>2 DEF HistoryInv
<1> QED BY <1>7, <1>9 DEF HistoryInv, ListBefore, ButNode, opened

\* Each step keeps the history of lists and details.
LEMMA HistoryStep ==
  ASSUME HistoryInv, DetailInv, DetailIsOpened, [Next]_vars
  PROVE  HistoryInv'
<1>1. CASE UNCHANGED url
  <2>1. loc' = loc /\ behind' = behind
    BY <1>1 DEF url
  <2> QED BY <2>1 DEF HistoryInv, ListBefore, ButNode, opened
<1>2. CASE GoBack
  BY <1>2, WentBack
<1>3. ASSUME NEW patch, "node" \notin DOMAIN patch, OnList, PushParams(patch) \/ ReplaceParams(patch)
      PROVE  HistoryInv'
  <2> DEFINE to == At(loc.path, Patched(loc.params, patch))
  <2>1. opened(to) = Nobody
    BY <1>3, PatchKeepsNode DEF OnList
  <2>2. \A before : ListBefore(to, before)
    BY <2>1 DEF ListBefore
  <2>3. Push(to) \/ Replace(to)
    BY <1>3 DEF PushParams, ReplaceParams
  <2> HIDE DEF to
  <2> QED BY <2>2, <2>3, Pushed, Replaced
<1>4. ASSUME NEW n \in Nodes, OnList, PushParams([node |-> n])
      PROVE  HistoryInv'
  <2> DEFINE to == At(loc.path, Patched(loc.params, [node |-> n]))
  <2>1. ButNode(to) = ButNode(loc)
    BY PatchOfNode
  <2>2. Push(to)
    BY <1>4 DEF PushParams
  <2> HIDE DEF to
  <2>3. ListBefore(to, loc)
    BY <1>4, <2>1 DEF ListBefore, OnList
  <2> QED BY <2>2, <2>3, Pushed
<1>5. ASSUME OnDetail, PushParams([node |-> ""])
      PROVE  HistoryInv'
  <2> DEFINE to == At(loc.path, Patched(loc.params, [node |-> ""]))
  <2>1. opened(to) = Nobody
    BY PatchOfNode
  <2>2. Push(to)
    BY <1>5 DEF PushParams
  <2> HIDE DEF to
  <2>3. ListBefore(to, loc)
    BY <2>1 DEF ListBefore
  <2> QED BY <2>2, <2>3, Pushed
<1>6. ASSUME NEW n \in Nodes, OnDetail, ReplaceParams([node |-> n])
      PROVE  HistoryInv'
  <2> DEFINE to == At(loc.path, Patched(loc.params, [node |-> n]))
  <2>1. ButNode(to) = ButNode(loc)
    BY PatchOfNode
  <2>2. Replace(to)
    BY <1>6 DEF ReplaceParams
  <2> HIDE DEF to
  <2>3. opened(loc) # Nobody
    BY <1>6 DEF OnDetail, DetailIsOpened
  <2>4. \A before : ListBefore(loc, before) => ListBefore(to, before)
    BY <2>1, <2>3 DEF ListBefore
  <2> QED BY <2>2, <2>4, Replaced
<1> QED BY <1>1, <1>2, <1>3, <1>4, <1>5, <1>6, UrlSteps

\* The history is sound from the start: nothing is behind the landing.
LEMMA InitHistory ==
  ASSUME Init
  PROVE  HistoryInv /\ DetailIsOpened
<1>1. behind = <<>> /\ mounted = FALSE /\ detail = Fresh(Nobody)
  BY DEF Init, InitFeed
<1>2. behind \in Seq({}) /\ Len(behind) = 0
  BY <1>1
<1> QED BY <1>1, <1>2, FreshDetail DEF HistoryInv, DetailIsOpened

(* Back from a detail one has opened on the page goes to the list it was opened
   from, with its filters, however many nodes one has looked through meanwhile,
   and however many entries the browser keeps (app.tsx:152-155). *)
THEOREM BackCorrect == Spec => []BackLeavesTheDetail
<1> DEFINE Inv == DetailInv /\ DetailIsOpened /\ HistoryInv
<1>1. Init => Inv
  BY InitDetail, InitHistory
<1>2. Inv /\ [Next]_vars => Inv'
  <2>1. Inv /\ [Next]_vars => DetailInv'
    BY DetailStepInv
  <2>2. Inv /\ [Next]_vars => DetailIsOpened'
    BY OpenedStep
  <2>3. Inv /\ [Next]_vars => HistoryInv'
    BY HistoryStep
  <2> QED BY <2>1, <2>2, <2>3
<1>3. Inv => BackLeavesTheDetail
  <2> SUFFICES ASSUME Inv, opened(loc) # Nobody, behind # <<>>
               PROVE  opened(Last(behind)) = Nobody /\ ButNode(Last(behind)) = ButNode(loc)
    BY DEF BackLeavesTheDetail
  <2>1. Len(behind) \in 1..Len(behind)
    BY DEF HistoryInv
  <2>2. ListBefore(loc, Last(behind))
    BY <2>1 DEF HistoryInv, Last
  <2> QED BY <2>2 DEF ListBefore
<1> QED BY <1>1, <1>2, <1>3, PTL DEF Spec

-----------------------------------------------------------------------------
(* What is drawn is true.                                                    *)

(* What is asked of the cache: a span counts only with dates one has picked. *)
Asks == {Curve(kind, n, line, range, span) :
           kind \in {"resource", "ping", "pingloss"}, n \in Nodes, line \in Lines \cup {"cpu"},
           range \in DOMAIN RANGES \cup DOMAIN PING_RANGES, span \in Int}
WellAsked(ask) == ask \in Asks /\ (ask.range # "custom" => ask.span = NoSpan)

(* Every curve is kept under the key of what it was generated for, and what the
   page shows of the past is in the cache. *)
CurvesAreKeyed ==
  \A k \in DOMAIN cache : WellAsked(cache[k].of) /\ CacheKey(cache[k].of) = k
ShownIsCached ==
  \A ask \in Asked(detail) \cup DialogAsks(pingDialog) : ~IsLive(ask) => CacheKey(ask) \in DOMAIN cache
DialogType ==
  pingDialog \in [of : Nodes \cup {Nobody}, range : DOMAIN PING_RANGES,
                  tab : {"latency", "loss"}, hidden : SUBSET Lines]

\* Two curves of the same key are of the same ask.
LEMMA KeysTell ==
  ASSUME NEW a, NEW b, WellAsked(a), WellAsked(b), CacheKey(a) = CacheKey(b)
  PROVE  a = b
<1>1. /\ a.kind = b.kind /\ a.node = b.node /\ a.line = b.line /\ a.range = b.range
      /\ (IF a.range = "custom" THEN a.span ELSE 0) = (IF b.range = "custom" THEN b.span ELSE 0)
  BY DEF CacheKey
<1>2. a.span = b.span
  BY <1>1 DEF WellAsked, NoSpan
<1>3. /\ a = [kind |-> a.kind, node |-> a.node, line |-> a.line, span |-> a.span, range |-> a.range]
      /\ b = [kind |-> b.kind, node |-> b.node, line |-> b.line, span |-> b.span, range |-> b.range]
  BY DEF WellAsked, Asks, Curve
<1> QED BY <1>1, <1>2, <1>3

\* What a detail asks is well asked.
LEMMA DetailAsksWell ==
  ASSUME NEW d \in Picks, NEW ask \in Asked(d)
  PROVE  WellAsked(ask) /\ ask.node = d.of /\ d.of # Nobody /\ ask.span = customSpan(d)
<1>1. PICK kind \in {"resource", "ping", "pingloss"}, line \in Lines \cup {"cpu"} :
        ask = Curve(kind, d.of, line, d.range, customSpan(d)) /\ d.of # Nobody
  BY DEF Asked
<1>2. customSpan(d) \in Int /\ (d.range # "custom" => customSpan(d) = NoSpan)
  <2>1. LastDay \in Nat
    BY PageAssumption
  <2>2. d.from \in 0..LastDay /\ d.to \in 0..LastDay
    BY DEF Picks
  <2>3. d.from \in Int /\ d.to \in Int
    BY <2>1, <2>2
  <2> QED BY <2>3 DEF customSpan, NoSpan
<1>3. d.of \in Nodes /\ d.range \in DOMAIN RANGES \cup DOMAIN PING_RANGES
  BY <1>1 DEF Picks
<1>4. ask \in Asks
  BY <1>1, <1>2, <1>3 DEF Asks
<1>5. /\ ask.node = d.of /\ ask.span = customSpan(d)
      /\ ask.range = IF kind # "resource" /\ d.range = "live" THEN "1h" ELSE d.range
  BY <1>1 DEF Curve
<1> QED BY <1>1, <1>2, <1>4, <1>5 DEF WellAsked

\* What the dialog of a card asks is well asked.
LEMMA DialogAsksWell ==
  ASSUME NEW d, d.of \in Nodes \cup {Nobody}, d.range \in DOMAIN PING_RANGES,
         NEW ask \in DialogAsks(d)
  PROVE  WellAsked(ask)
<1>1. PICK kind \in {"ping", "pingloss"}, line \in Lines :
        ask = Curve(kind, d.of, line, d.range, NoSpan) /\ d.of # Nobody
  BY DEF DialogAsks
<1>2. ask \in Asks
  BY <1>1 DEF Asks, NoSpan
<1>3. ask.span = NoSpan
  BY <1>1 DEF Curve
<1> QED BY <1>2, <1>3 DEF WellAsked

\* What is remembered stays keyed, and what was asked is in the cache.
LEMMA RememberedAsks ==
  ASSUME CurvesAreKeyed, NEW asked, \A ask \in asked : WellAsked(ask), Remember(asked)
  PROVE  /\ CurvesAreKeyed'
         /\ \A ask \in asked : ~IsLive(ask) => CacheKey(ask) \in DOMAIN cache'
<1> DEFINE new == {ask \in asked : ~IsLive(ask)}
           keys == {CacheKey(ask) : ask \in new}
           made(k) == Generated(CHOOSE ask \in new : CacheKey(ask) = k)
<1>1. cache' = [k \in DOMAIN cache \cup keys |-> IF k \in DOMAIN cache THEN cache[k] ELSE made(k)]
  BY DEF Remember
<1>2. ASSUME NEW k \in keys
      PROVE  WellAsked(made(k).of) /\ CacheKey(made(k).of) = k
  <2>1. \E ask \in new : CacheKey(ask) = k
    BY <1>2
  <2>2. made(k).of \in new /\ CacheKey(made(k).of) = k
    BY <2>1 DEF Generated
  <2> QED BY <2>2
<1>3. ASSUME NEW k \in DOMAIN cache'
      PROVE  WellAsked(cache'[k].of) /\ CacheKey(cache'[k].of) = k
  <2>1. CASE k \in DOMAIN cache
    BY <1>1, <2>1 DEF CurvesAreKeyed
  <2>2. CASE k \notin DOMAIN cache
    BY <1>1, <1>2, <2>2
  <2> QED BY <2>1, <2>2
<1>4. CurvesAreKeyed'
  BY <1>3 DEF CurvesAreKeyed
<1> QED BY <1>1, <1>4

\* The dialog of a card keeps its range among its own.
LEMMA DialogStep ==
  ASSUME DialogType, [Next]_vars
  PROVE  DialogType'
<1> USE DEF DialogType
<1>1. CASE UNCHANGED pingDialog
  BY <1>1
<1>2. CASE Reload
  <2>1. "1h" \in DOMAIN PING_RANGES
    BY DEF PING_RANGES
  <2> QED BY <1>2, <2>1 DEF Reload, NoPingDialog
<1>3. ASSUME NEW n \in Nodes, OpenPing(n)
      PROVE  DialogType'
  BY <1>3 DEF OpenPing
<1>4. CASE PingStep
  <2>1. ASSUME NEW range \in DOMAIN PING_RANGES, pingDialog' = [pingDialog EXCEPT !.range = range]
        PROVE  DialogType'
    BY <2>1
  <2>2. ASSUME NEW tab \in {"latency", "loss"}, pingDialog' = [pingDialog EXCEPT !.tab = tab]
        PROVE  DialogType'
    BY <2>2
  <2>3. ASSUME NEW S \in SUBSET Lines, pingDialog' = [pingDialog EXCEPT !.hidden = S]
        PROVE  DialogType'
    BY <2>3
  <2>4. CASE pingDialog' = [pingDialog EXCEPT !.of = Nobody]
    BY <2>4
  <2>5. ASSUME NEW line \in Lines
        PROVE  (IF line \in pingDialog.hidden THEN pingDialog.hidden \ {line}
                ELSE pingDialog.hidden \cup {line}) \in SUBSET Lines
    OBVIOUS
  <2>6. (IF pingDialog.hidden = {} THEN Lines ELSE {}) \in SUBSET Lines
    OBVIOUS
  <2> QED BY <1>4, <2>1, <2>2, <2>3, <2>4, <2>5, <2>6 DEF PingStep, InPingDialog
<1>5. CASE Boot \/ StrictUnmount \/ Live \/ PressPause \/ Back \/ CatchUp \/ Toolbar
  BY <1>1, <1>5 DEF Boot, StrictUnmount, Live, PressPause, Back, CatchUp, Toolbar, SetCategory,
       SetSort, SetQuery, SetOnlyFavorites, ClearFilters, ToggleMenu, ShowSearch, BlurSearch,
       DismissBanner, SetView, Navigate, Stay, Aloft
<1>6. CASE CloseNode \/ InDetail \/ \E n \in Nodes : ToggleFavorite(n) \/ OpenNode(n) \/ SelectSibling(n)
  BY <1>1, <1>6 DEF CloseNode, InDetail, ToggleFavorite, OpenNode, SelectSibling, Navigate, Stay
<1>7. CASE UNCHANGED vars
  BY <1>1, <1>7 DEF vars, page
<1> QED BY <1>2, <1>3, <1>4, <1>5, <1>6, <1>7 DEF Next

\* Each step keeps the cache keyed and what is shown in it.
LEMMA CacheInvStep ==
  ASSUME CurvesAreKeyed, ShownIsCached, DialogType', DetailInv', [Next]_vars
  PROVE  CurvesAreKeyed' /\ ShownIsCached'
<1>1. CASE Reload
  <2>1. cache' = <<>> /\ detail' = Fresh(Nobody) /\ pingDialog' = NoPingDialog
    BY <1>1 DEF Reload
  <2>2. DOMAIN cache' = {}
    BY <2>1
  <2>3. Asked(detail') \cup DialogAsks(pingDialog') = {}
    BY <2>1 DEF Asked, DialogAsks, Fresh, NoPingDialog
  <2> QED BY <2>2, <2>3 DEF CurvesAreKeyed, ShownIsCached
<1>2. CASE Remember(Asked(detail') \cup DialogAsks(pingDialog'))
  <2>1. \A ask \in Asked(detail') \cup DialogAsks(pingDialog') : WellAsked(ask)
    BY DetailAsksWell, DialogAsksWell DEF DetailInv, DialogType
  <2>2. /\ CurvesAreKeyed'
        /\ \A ask \in Asked(detail') \cup DialogAsks(pingDialog') :
             ~IsLive(ask) => CacheKey(ask) \in DOMAIN cache'
    BY <1>2, <2>1, RememberedAsks
  <2> QED BY <2>2 DEF ShownIsCached
<1>3. CASE UNCHANGED vars
  <2>1. cache' = cache /\ detail' = detail /\ pingDialog' = pingDialog
    BY <1>3 DEF vars, page
  <2> QED BY <2>1 DEF CurvesAreKeyed, ShownIsCached
<1> QED BY <1>1, <1>2, <1>3, CacheSteps

\* The cache holds what the page shows, and each curve under its own key.
LEMMA AskedIsDrawn ==
  ASSUME DetailInv, DialogType, CurvesAreKeyed, ShownIsCached
  PROVE  CurveIsAsAsked
<1> SUFFICES ASSUME NEW ask \in Asked(detail) \cup DialogAsks(pingDialog)
             PROVE  historyFor(ask).of = ask
  BY DEF CurveIsAsAsked
<1>1. WellAsked(ask)
  BY DetailAsksWell, DialogAsksWell DEF DetailInv, DialogType
<1>2. CASE IsLive(ask)
  BY <1>2 DEF historyFor
<1>3. CASE ~IsLive(ask)
  <2>1. CacheKey(ask) \in DOMAIN cache /\ historyFor(ask) = cache[CacheKey(ask)]
    BY <1>3 DEF ShownIsCached, historyFor
  <2>2. WellAsked(historyFor(ask).of) /\ CacheKey(historyFor(ask).of) = CacheKey(ask)
    BY <2>1 DEF CurvesAreKeyed
  <2> QED BY <1>1, <2>2, KeysTell
<1> QED BY <1>2, <1>3

\* The ranges both groups have span the same.
LEMMA RangesAgree ==
  ASSUME NEW range \in DOMAIN RANGES
  PROVE  LET table == IF range \in DOMAIN PING_RANGES THEN PING_RANGES ELSE RANGES
         IN  table[range].seconds = RANGES[range].seconds
BY DEF RANGES, PING_RANGES, Over

\* The axis of a curve that is the one asked for spans what it covers.
LEMMA AxisFits ==
  ASSUME DetailInv, CurveIsAsAsked
  PROVE  AxisSpansTheData
<1> SUFFICES ASSUME detail.range \in DOMAIN RANGES, NEW ask \in Asked(detail),
                    ask.range = detail.range
             PROVE  Covered(historyFor(ask)) = windowSeconds(detail)
  BY DEF AxisSpansTheData
<1>1. historyFor(ask).of = ask
  BY DEF CurveIsAsAsked
<1>2. ask.span = customSpan(detail)
  BY DetailAsksWell DEF DetailInv
<1>3. customSpan(detail) # NoSpan => detail.range = "custom"
  BY DEF customSpan
<1>4. CASE customSpan(detail) # NoSpan
  BY <1>1, <1>2, <1>3, <1>4 DEF Covered, windowSeconds
<1>5. CASE customSpan(detail) = NoSpan
  <2>1. Covered(historyFor(ask)) =
          (IF detail.range \in DOMAIN PING_RANGES THEN PING_RANGES ELSE RANGES)[detail.range].seconds
    BY <1>1, <1>2, <1>5 DEF Covered
  <2>2. windowSeconds(detail) = RANGES[detail.range].seconds
    BY <1>5 DEF windowSeconds
  <2> QED BY <2>1, <2>2, RangesAgree
<1> QED BY <1>4, <1>5

\* The live curve is read afresh.
LEMMA LiveIsRead == LiveCurveMoves
BY DEF LiveCurveMoves, historyFor, IsLive

\* A cursor that is pinned stays pinned, through every step.
LEMMA PinnedStep ==
  ASSUME DetailInv, PinnedCursorStays, [Next]_vars
  PROVE  PinnedCursorStays'
<1>1. CASE \A c \in Charts : ~cursor'[c].locked
  BY <1>1 DEF PinnedCursorStays
<1>2. CASE detail'.of = detail.of /\ UNCHANGED cursor /\ ~Reload
  <2> SUFFICES ASSUME NEW c \in Charts, cursor[c].locked, c = "ping" \/ ~IsOff(detail.of)'
               PROVE  cursor[c].at # NoPoint
    BY <1>2 DEF PinnedCursorStays
  <2>1. detail.of \in Nodes
    BY DEF DetailInv, Picks
  <2>2. ~IsOff(detail.of)' => ~IsOff(detail.of)
    BY <1>2, <2>1, OffStep DEF IsOff
  <2> QED BY <2>2 DEF PinnedCursorStays
<1>3. ASSUME NEW n \in Nodes \cup {Nobody}, Follow(n)
      PROVE  (detail'.of = detail.of /\ UNCHANGED cursor) \/ \A c \in Charts : ~cursor'[c].locked
  BY <1>3, HiddenCursor DEF Follow
<1>4. CASE Reload
  BY <1>1, <1>4, HiddenCursor DEF Reload
<1>5. CASE Press
  BY <1>1, <1>2, <1>3, <1>4, <1>5, DetailAtNode, PressedDetail DEF Press, DetailInv
<1>6. CASE Aside
  BY <1>1, <1>2, <1>3, <1>4, <1>6, DetailAtNode DEF Aside
<1>7. CASE UNCHANGED <<url, feed, detail, cursor>>
  BY <1>2, <1>4, <1>7
<1>8. CASE DetailStep /\ UNCHANGED <<url, feed>>
  <2>1. detail'.of = detail.of /\ readings' = readings
    BY <1>8, InDetailSteps DEF DetailInv, feed, live
  <2>2. CASE UNCHANGED cursor
    BY <1>2, <1>4, <2>1, <2>2
  <2>3. CASE cursor' = [c \in Charts |-> Hidden]
    BY <1>1, <2>3, HiddenCursor
  <2>4. CASE Point
    <3>1. PICK c \in Charts, new \in [locked : BOOLEAN, at : Int] :
            /\ cursor' = [cursor EXCEPT ![c] = new]
            /\ \/ ~new.locked
               \/ new.at = cursor[c].at /\ (cursor[c].locked \/ (~HasLine(c, detail) /\ c # "ping"))
               \/ new.at # NoPoint
      BY <2>4, PointSteps DEF DetailInv
    <3>2. cursor'[c] = new /\ \A d \in Charts \ {c} : cursor'[d] = cursor[d]
      BY <3>1 DEF DetailInv, Pointers
    <3>3. ~IsOff(detail.of)' => ~IsOff(detail.of)
      BY <2>1 DEF IsOff
    <3>4. ASSUME NEW d \in Charts, cursor'[d].locked, d = "ping" \/ ~IsOff(detail.of)'
          PROVE  cursor'[d].at # NoPoint
      <4>1. CASE d # c
        BY <3>2, <3>3, <3>4, <4>1 DEF PinnedCursorStays
      <4>2. CASE d = c
        BY <3>1, <3>2, <3>3, <3>4, <4>2 DEF PinnedCursorStays, HasLine
      <4> QED BY <4>1, <4>2
    <3> QED BY <3>4 DEF PinnedCursorStays
  <2> QED BY <1>8, <2>2, <2>3, <2>4, InDetailSteps DEF DetailInv
<1> QED BY <1>4, <1>5, <1>6, <1>7, <1>8, DetailSteps

(* What the page draws is true: the curve that was asked for, of that node, that
   line, that range and those dates, never another's out of the cache; up to the
   present where it is live; over the axis it covers; and under the cursor one
   has pinned to it (mock.ts:79-83, 236-242, 275, 294-296, 351, 369,
   time-series-chart.tsx:179-180, 287-323). *)
THEOREM DrawnTrue == Spec => []ChartsAreTrue
<1> DEFINE Inv == /\ DetailInv /\ DialogType
                  /\ CurvesAreKeyed /\ ShownIsCached /\ PinnedCursorStays
<1>1. Init => Inv
  <2> SUFFICES ASSUME Init
               PROVE  Inv
    OBVIOUS
  <2>1. cache = <<>> /\ detail = Fresh(Nobody) /\ pingDialog = NoPingDialog
    BY DEF Init, InitFeed
  <2>2. DialogType
    <3>1. "1h" \in DOMAIN PING_RANGES
      BY DEF PING_RANGES
    <3> QED BY <2>1, <3>1 DEF DialogType, NoPingDialog
  <2>3. CurvesAreKeyed /\ ShownIsCached
    <3>1. DOMAIN cache = {}
      BY <2>1
    <3>2. Asked(detail) \cup DialogAsks(pingDialog) = {}
      BY <2>1 DEF Asked, DialogAsks, Fresh, NoPingDialog
    <3> QED BY <3>1, <3>2 DEF CurvesAreKeyed, ShownIsCached
  <2>4. PinnedCursorStays
    BY HiddenCursor DEF Init, InitChart, PinnedCursorStays
  <2> QED BY <2>2, <2>3, <2>4, InitDetail
<1>2. Inv /\ [Next]_vars => Inv'
  <2> SUFFICES ASSUME Inv, [Next]_vars
               PROVE  Inv'
    OBVIOUS
  <2>1. DetailInv'
    BY DetailStepInv
  <2>2. DialogType'
    BY DialogStep
  <2>3. CurvesAreKeyed' /\ ShownIsCached'
    BY <2>1, <2>2, CacheInvStep
  <2>4. PinnedCursorStays'
    BY PinnedStep
  <2> QED BY <2>1, <2>2, <2>3, <2>4
<1>3. Inv => ChartsAreTrue
  BY AskedIsDrawn, AxisFits, LiveIsRead DEF ChartsAreTrue
<1> QED BY <1>1, <1>2, <1>3, PTL DEF Spec
-----------------------------------------------------------------------------
(* The rows of the list.                                                     *)

\* The sequence list of the set S follows R.
Follows(list, S, R) ==
  /\ list \in [1..Cardinality(S) -> S]
  /\ \A i, j \in 1..Cardinality(S) : i < j => <<list[i], list[j]>> \in R

\* Finitely many rows can be put into a total order: each goes to the place
\* that counts the rows before it.
LEMMA RowsExist ==
  ASSUME NEW S, IsFiniteSet(S), NEW R,
         \A a \in S : <<a, a>> \notin R,
         \A a, b \in S : a # b => <<a, b>> \in R \/ <<b, a>> \in R,
         \A a, b, c \in S : <<a, b>> \in R /\ <<b, c>> \in R => <<a, c>> \in R
  PROVE  \E list : Follows(list, S, R)
<1> DEFINE n == Cardinality(S)
           Before(x) == {y \in S : <<y, x>> \in R}
           rank == [x \in S |-> Cardinality(Before(x))]
           places == 0..(n - 1)
<1>1. n \in Nat
  BY FS_CardinalityType
<1>2. ASSUME NEW x \in S
      PROVE  IsFiniteSet(Before(x)) /\ rank[x] \in Nat /\ rank[x] < n
  <2>1. Before(x) \in SUBSET S /\ Before(x) # S
    OBVIOUS
  <2>2. /\ IsFiniteSet(Before(x)) /\ Cardinality(Before(x)) <= n
        /\ n = Cardinality(Before(x)) => S = Before(x)
    <3> HIDE DEF Before
    <3> QED BY <2>1, FS_Subset
  <2>3. Cardinality(Before(x)) \in Nat
    BY <2>2, FS_CardinalityType
  <2>4. rank[x] = Cardinality(Before(x))
    OBVIOUS
  <2> HIDE DEF Before, rank, n
  <2> QED BY <1>1, <2>1, <2>2, <2>3, <2>4
<1>3. ASSUME NEW x \in S, NEW y \in S, <<x, y>> \in R
      PROVE  rank[x] < rank[y]
  <2>1. Before(x) \in SUBSET Before(y) /\ x \in Before(y) /\ x \notin Before(x)
    BY <1>3
  <2>2. rank[x] = Cardinality(Before(x)) /\ rank[y] = Cardinality(Before(y))
    OBVIOUS
  <2>3. /\ Cardinality(Before(x)) <= Cardinality(Before(y))
        /\ Cardinality(Before(y)) = Cardinality(Before(x)) => Before(y) = Before(x)
    <3>1. IsFiniteSet(Before(y))
      BY <1>2
    <3> HIDE DEF Before
    <3> QED BY <2>1, <3>1, FS_Subset
  <2>4. rank[x] \in Nat /\ rank[y] \in Nat
    BY <1>2
  <2> HIDE DEF Before, rank
  <2> QED BY <2>1, <2>2, <2>3, <2>4
<1>4. rank \in [S -> places]
  <2>1. \A x \in S : rank[x] \in places
    <3>1. \A x \in S : rank[x] \in Nat /\ rank[x] < n
      BY <1>2
    <3> HIDE DEF rank, n
    <3> QED BY <1>1, <3>1
  <2> HIDE DEF places
  <2> QED BY <2>1
<1> HIDE DEF rank
<1>5. rank \in Injection(S, places)
  <2>1. ASSUME NEW x \in S, NEW y \in S, rank[x] = rank[y]
        PROVE  x = y
    <3>1. rank[x] \in Nat /\ rank[y] \in Nat
      BY <1>2
    <3>2. ~(<<x, y>> \in R) /\ ~(<<y, x>> \in R)
      <4>1. ~(rank[x] < rank[y]) /\ ~(rank[y] < rank[x])
        BY <2>1, <3>1
      <4> QED BY <1>3, <4>1
    <3> QED BY <3>2
  <2> QED BY <1>4, <2>1 DEF Injection, IsInjective
<1>6. IsFiniteSet(places) /\ Cardinality(places) = n
  <2>1. 0 \in Int /\ n - 1 \in Int
    BY <1>1
  <2>2. IsFiniteSet(places) /\ Cardinality(places) = IF 0 > n - 1 THEN 0 ELSE n - 1 - 0 + 1
    <3> HIDE DEF n
    <3> QED BY <2>1, FS_Interval
  <2> HIDE DEF n
  <2> QED BY <1>1, <2>2
<1>7. rank \in Surjection(S, places)
  <2> HIDE DEF places
  <2> QED BY <1>5, <1>6, FS_Injection
<1>8. \A k \in places : \E x \in S : rank[x] = k
  BY <1>7 DEF Surjection
<1> DEFINE list == [i \in 1..n |-> CHOOSE x \in S : rank[x] = i - 1]
<1>9. \A i \in 1..n : list[i] \in S /\ rank[list[i]] = i - 1
  <2> HIDE DEF n
  <2>1. ASSUME NEW i \in 1..n PROVE \E x \in S : rank[x] = i - 1
    BY <1>1, <1>8
  <2> QED BY <2>1
<1>10. list \in [1..n -> S]
  BY <1>9
<1> HIDE DEF list
<1>11. ASSUME NEW i \in 1..n, NEW j \in 1..n, i < j
       PROVE  <<list[i], list[j]>> \in R
  <2> HIDE DEF n
  <2>1. list[i] \in S /\ list[j] \in S /\ rank[list[i]] = i - 1 /\ rank[list[j]] = j - 1
    BY <1>9
  <2>2. list[i] # list[j]
    BY <1>1, <1>11, <2>1
  <2>3. ~ (<<list[j], list[i]>> \in R)
    <3>1. rank[list[i]] < rank[list[j]] /\ rank[list[i]] \in Nat /\ rank[list[j]] \in Nat
      BY <1>1, <1>2, <1>11, <2>1
    <3> QED BY <1>3, <2>1, <3>1
  <2> QED BY <2>1, <2>2, <2>3
<1> QED BY <1>10, <1>11 DEF Follows

\* There are finitely many nodes, each at a place of its own.
LEMMA Places ==
  /\ IsFiniteSet(Nodes)
  /\ \A n \in Nodes : place(n) \in Int
  /\ \A a, b \in Nodes : a # b => place(a) # place(b)
<1>1. Fleet \in Seq(Nodes) /\ Nodes = {Fleet[i] : i \in DOMAIN Fleet}
  BY FeedAssumption DEF Nodes, ToSet
<1>2. Len(Fleet) \in Nat /\ DOMAIN Fleet = 1..Len(Fleet) /\ Fleet \in [1..Len(Fleet) -> Nodes]
  BY <1>1
<1>3. \A n \in Nodes : place(n) \in DOMAIN Fleet /\ Fleet[place(n)] = n
  BY <1>1 DEF place
<1>4. Fleet \in Surjection(1..Len(Fleet), Nodes)
  BY <1>1, <1>2 DEF Surjection
<1>5. IsFiniteSet(1..Len(Fleet))
  BY <1>2, FS_Interval
<1>6. IsFiniteSet(Nodes)
  BY <1>4, <1>5, FS_Surjection
<1> QED BY <1>2, <1>3, <1>6

\* What rows are sorted by are numbers.
LEMMA ScoresAreNumbers ==
  ASSUME NEW r \in [Nodes -> Reading], NEW n \in Nodes, NEW key \in SORTS
  PROVE  score(n, key, r) \in Int
<1>1. r[n] \in Reading /\ Info[n].expire \in Int
  BY PageAssumption
<1>2. r[n].cpu \in Int /\ r[n].mem \in Int /\ r[n].traffic \in Int /\ r[n].latency \in Int
  BY <1>1 DEF Reading
<1> QED BY <1>1, <1>2 DEF score, SORTS

SortKeys == SORTS \cup {"default"}

\* The order of the rows is a strict and total one, and can be followed.
LEMMA SortedRows ==
  ASSUME NEW S \in SUBSET Nodes, NEW key \in SortKeys, NEW r \in [Nodes -> Reading]
  PROVE  /\ IsFiniteSet(S) /\ Cardinality(S) \in Nat
         /\ Sorted(S, key, r) \in [1..Cardinality(S) -> S]
         /\ \A a \in S : ~Above(a, a, key, r)
         /\ LET list == Sorted(S, key, r)
            IN  \A i, j \in 1..Cardinality(S) : i < j => Above(list[i], list[j], key, r)
<1> DEFINE R == {p \in S \X S : Above(p[1], p[2], key, r)}
           m == Cardinality(S)
           off(a) == r[a].status = "off"
           sc(a) == score(a, key, r)
           pl(a) == place(a)
<1>1. IsFiniteSet(S) /\ m \in Nat
  BY Places, FS_Subset, FS_CardinalityType
<1>2. \A a, b \in S : <<a, b>> \in R <=> Above(a, b, key, r)
  OBVIOUS
<1>3. \A a \in S : pl(a) \in Int /\ (key # "default" => sc(a) \in Int)
  BY Places, ScoresAreNumbers DEF SortKeys
<1>4. \A a, b \in S : a # b => pl(a) # pl(b)
  BY Places
<1>5. ASSUME NEW a \in S, NEW b \in S
      PROVE  Above(a, b, key, r) <=>
               \/ key = "default" /\ pl(a) < pl(b)
               \/ /\ key # "default"
                  /\ \/ ~off(a) /\ off(b)
                     \/ /\ off(a) <=> off(b)
                        /\ \/ sc(a) = sc(b) /\ pl(a) < pl(b)
                           \/ sc(a) # sc(b) /\ sc(a) > sc(b)
  BY DEF Above
<1> HIDE DEF R, m, off, sc, pl
<1>6. ASSUME NEW a \in S
      PROVE  ~Above(a, a, key, r) /\ <<a, a>> \notin R
  BY <1>2, <1>3, <1>5
<1>7. ASSUME NEW a \in S, NEW b \in S, a # b
      PROVE  <<a, b>> \in R \/ <<b, a>> \in R
  <2>1. pl(a) \in Int /\ pl(b) \in Int /\ pl(a) # pl(b)
    BY <1>3, <1>4, <1>7
  <2>2. key # "default" => sc(a) \in Int /\ sc(b) \in Int
    BY <1>3
  <2>3. Above(a, b, key, r) \/ Above(b, a, key, r)
    BY <1>5, <2>1, <2>2
  <2> QED BY <1>2, <2>3
<1>8. ASSUME NEW a \in S, NEW b \in S, NEW c \in S, <<a, b>> \in R, <<b, c>> \in R
      PROVE  <<a, c>> \in R
  <2>1. pl(a) \in Int /\ pl(b) \in Int /\ pl(c) \in Int
    BY <1>3
  <2>2. key # "default" => sc(a) \in Int /\ sc(b) \in Int /\ sc(c) \in Int
    BY <1>3
  <2>3. Above(a, b, key, r) /\ Above(b, c, key, r)
    BY <1>2, <1>8
  <2>4. Above(a, c, key, r)
    BY <1>5, <2>1, <2>2, <2>3
  <2> QED BY <1>2, <2>4
<1>9. PICK list : Follows(list, S, R)
  BY <1>1, <1>6, <1>7, <1>8, RowsExist
<1>10. list \in [1..m -> S] /\ \A i, j \in 1..m : i < j => Above(list[i], list[j], key, r)
  BY <1>2, <1>9 DEF Follows, m
<1> DEFINE Ordered(x) == \A i, j \in DOMAIN x : i < j => Above(x[i], x[j], key, r)
<1>11. \E x \in [1..m -> S] : Ordered(x)
  BY <1>10
<1>12. Sorted(S, key, r) \in [1..m -> S] /\ Ordered(Sorted(S, key, r))
  BY <1>11 DEF Sorted, m
<1> QED BY <1>1, <1>6, <1>12 DEF m

(* The list shows the nodes of S, each once, the offline ones last. *)
Shows(list, S, key, r) ==
  /\ ToSet(list) = S /\ IsInjective(list)
  /\ key # "default" =>
       \A i, j \in DOMAIN list : r[list[i]].status = "off" /\ i < j => r[list[j]].status = "off"

\* Sorted rows show all of their nodes.
LEMMA SortedShows ==
  ASSUME NEW S \in SUBSET Nodes, NEW key \in SortKeys, NEW r \in [Nodes -> Reading]
  PROVE  Shows(Sorted(S, key, r), S, key, r)
<1> DEFINE m == Cardinality(S)
           list == Sorted(S, key, r)
<1>1. /\ IsFiniteSet(S) /\ m \in Nat /\ list \in [1..m -> S]
      /\ \A a \in S : ~Above(a, a, key, r)
      /\ \A i, j \in 1..m : i < j => Above(list[i], list[j], key, r)
  BY SortedRows
<1>2. \A a, b : Above(a, b, key, r) /\ key # "default" /\ r[a].status = "off" => r[b].status = "off"
  BY DEF Above
<1> HIDE DEF list
<1>3. IsInjective(list)
  <2>1. ASSUME NEW i \in 1..m, NEW j \in 1..m, list[i] = list[j], i # j
        PROVE  FALSE
    <3>1. list[i] \in S /\ (i < j \/ j < i)
      BY <1>1, <2>1
    <3> HIDE DEF m
    <3> QED BY <1>1, <2>1, <3>1
  <2> HIDE DEF m
  <2> QED BY <1>1, <2>1 DEF IsInjective
<1>4. ToSet(list) = S
  <2>1. list \in Injection(1..m, S)
    <3> HIDE DEF m
    <3> QED BY <1>1, <1>3 DEF Injection
  <2>2. Cardinality(1..m) = m
    <3>1. 1 \in Int /\ m \in Int
      BY <1>1
    <3>2. Cardinality(1..m) = IF 1 > m THEN 0 ELSE m - 1 + 1
      <4> HIDE DEF m
      <4> QED BY <3>1, FS_Interval
    <3> HIDE DEF m
    <3> QED BY <1>1, <3>2
  <2>3. list \in Surjection(1..m, S)
    BY <1>1, <2>1, <2>2, FS_Injection
  <2> HIDE DEF m
  <2> QED BY <1>1, <2>3 DEF Surjection, ToSet
<1>5. DOMAIN list = 1..m
  <2> HIDE DEF m
  <2> QED BY <1>1
<1>6. key # "default" =>
        \A i, j \in DOMAIN list : r[list[i]].status = "off" /\ i < j => r[list[j]].status = "off"
  <2> HIDE DEF m
  <2> QED BY <1>1, <1>2, <1>5
<1>7. Shows(list, S, key, r)
  BY <1>3, <1>4, <1>6 DEF Shows
<1> QED BY <1>7 DEF list
\* A commit renders the rows; without one they stay.
LEMMA RowSteps ==
  ASSUME [Next]_vars
  PROVE  Reload \/ Render \/ UNCHANGED vars
BY DEF Next, Boot, StrictUnmount, Live, PressPause, Back, CatchUp, Toolbar, SetCategory,
       SetSort, SetQuery, SetOnlyFavorites, ClearFilters, ToggleMenu, ShowSearch, BlurSearch,
       DismissBanner, SetView, ToggleFavorite, OpenNode, SelectSibling, OpenPing, CloseNode,
       InDetail, PingStep, InPingDialog, Navigate, Commit

(* Readings are numbers and a status; the bounds of the feed hold. *)
ReadingsInv ==
  /\ readings \in [Nodes -> Reading]
  /\ ticks \in 0..MaxTicks /\ hides \in 0..MaxHides

\* What a node measures is a reading, and it is not off.
LEMMA MeasuredIsOn ==
  ASSUME NEW use \in Use, NEW latency \in Int, NEW loss \in Int,
         NEW probe, probe.latency = latency, probe.loss = loss
  PROVE  Measured(use, probe) \in Reading /\ Measured(use, probe).status # "off"
<1>1. StatusOf(use, probe) \in {"ok", "warn", "crit"}
  BY DEF StatusOf
<1> QED BY <1>1 DEF Measured, Reading, Use

\* A tick brings readings; a node that is on stays on.
LEMMA MoveReads ==
  ASSUME ReadingsInv, Move
  PROVE  /\ readings' \in [Nodes -> Reading] /\ ticks' \in 0..MaxTicks
         /\ \A n \in Nodes : ~IsOff(n) => readings'[n].status # "off"
<1>1. MaxTicks \in Nat /\ Resources \subseteq Use /\ Probes \subseteq Probe
  BY FeedAssumption
<1>2. CASE ticks = MaxTicks /\ UNCHANGED live
  BY <1>2 DEF live, ReadingsInv, IsOff
<1>3. CASE ~(ticks = MaxTicks /\ UNCHANGED live)
  <2>1. ticks < MaxTicks /\ ticks' = ticks + 1
    BY <1>3 DEF Move
  <2>0. PICK epoch : \E use \in [Reporting -> Resources], probe \in [Probed(epoch) -> Probes] :
          readings' = [n \in Nodes |->
                 IF n \in Reporting
                   THEN Measured(use[n], IF n \in Probed(epoch) THEN probe[n] ELSE readings[n])
                   ELSE readings[n]]
    BY <1>3 DEF Move
  <2>2. PICK use \in [Reporting -> Resources], probe \in [Probed(epoch) -> Probes] :
          readings' = [n \in Nodes |->
                 IF n \in Reporting
                   THEN Measured(use[n], IF n \in Probed(epoch) THEN probe[n] ELSE readings[n])
                   ELSE readings[n]]
    BY <2>0
  <2>3. ASSUME NEW n \in Nodes
        PROVE  readings'[n] \in Reading /\ (~IsOff(n) => readings'[n].status # "off")
    <3>1. CASE n \in Reporting
      <4> DEFINE now == IF n \in Probed(epoch) THEN probe[n] ELSE readings[n]
      <4>1. use[n] \in Use
        BY <1>1, <2>2, <3>1
      <4>2. now.latency \in Int /\ now.loss \in Int
        <5>1. n \in Probed(epoch) => probe[n] \in Probe
          BY <1>1, <2>2
        <5>2. readings[n] \in Reading
          BY DEF ReadingsInv
        <5>3. n \in Probed(epoch) => probe[n].latency \in Int /\ probe[n].loss \in Int
          BY <5>1 DEF Probe
        <5>4. readings[n].latency \in Int /\ readings[n].loss \in Int
          BY <5>2 DEF Reading
        <5> QED BY <5>3, <5>4
      <4>3. readings'[n] = Measured(use[n], now)
        BY <2>2, <3>1
      <4> HIDE DEF now
      <4> QED BY <4>1, <4>2, <4>3, MeasuredIsOn
    <3>2. CASE n \notin Reporting
      BY <2>2, <3>2 DEF Reporting, ReadingsInv
    <3> QED BY <3>1, <3>2
  <2>4. readings' = [n \in Nodes |-> readings'[n]]
    BY <2>2
  <2> QED BY <1>1, <2>1, <2>3, <2>4 DEF ReadingsInv
<1> QED BY <1>2, <1>3

\* Each step brings readings, and only a reload turns a node off.
LEMMA ReadingsStep ==
  ASSUME ReadingsInv, [Next]_vars
  PROVE  /\ ReadingsInv'
         /\ ~Reload => \A n \in Nodes : ~IsOff(n) => readings'[n].status # "off"
<1>1. MaxHides \in Nat /\ FirstReading \in [Nodes -> Reading]
  BY FeedAssumption
<1>2. CASE Reload
  BY <1>1, <1>2 DEF Reload, ReadingsInv
<1>3. CASE UNCHANGED feed
  BY <1>3 DEF feed, live, clock, ReadingsInv, IsOff
<1>4. CASE Move /\ hides' = hides
  BY <1>4, MoveReads DEF ReadingsInv
<1>5. CASE UNCHANGED live /\ hides' \in {hides, hides + 1} /\ (hides' # hides => hides < MaxHides)
  BY <1>1, <1>5 DEF live, ReadingsInv, IsOff
<1>6. Subscribe \/ Unsubscribe \/ SnapshotArrives \/ Hide =>
        UNCHANGED live /\ hides' \in {hides, hides + 1} /\ (hides' # hides => hides < MaxHides)
  BY DEF Subscribe, Unsubscribe, SnapshotArrives, Hide
<1>7. \A value \in BOOLEAN : SetPaused(value) =>
        UNCHANGED live /\ hides' \in {hides, hides + 1} /\ (hides' # hides => hides < MaxHides)
  BY DEF SetPaused
<1>8. Tick => Move /\ hides' = hides
  BY DEF Tick, clock
<1>9. Show => (Move \/ UNCHANGED live) /\ hides' = hides
  BY DEF Show
<1> QED BY <1>2, <1>3, <1>4, <1>5, <1>6, <1>7, <1>8, <1>9, FeedSteps

\* The order asked for is one the list has.
LEMMA OrderIsOne ==
  ASSUME NEW l
  PROVE  sortOf(l) \in SortKeys
BY DEF sortOf, pickParam, SortKeys

\* The filters select nodes, and only what they are made of matters.
LEMMA FiltersSelect ==
  ASSUME NEW l, NEW k, NEW word, NEW favorites
  PROVE  /\ Matches(l, word, favorites) \in SUBSET Nodes
         /\ category(l) = category(k) /\ (onlyFavorites(l) <=> onlyFavorites(k)) =>
              Matches(l, word, favorites) = Matches(k, word, favorites)
BY DEF Matches

RowsInv == Shows(rows, Matches(loc, deferred, prefs.favorites), sortOf(loc), readings)

\* Each step keeps the rows those the filters select.
LEMMA RowsStep ==
  ASSUME ReadingsInv, RowsInv, [Next]_vars
  PROVE  RowsInv'
<1> DEFINE S == Matches(loc, deferred, prefs.favorites)'
           key == sortOf(loc)'
<1>1. S \in SUBSET Nodes /\ key \in SortKeys /\ readings' \in [Nodes -> Reading]
  <2>1. Matches(loc', deferred', prefs'.favorites) \in SUBSET Nodes
    BY FiltersSelect
  <2>2. sortOf(loc') \in SortKeys
    BY OrderIsOne
  <2>3. S = Matches(loc', deferred', prefs'.favorites) /\ key = sortOf(loc')
    BY DEF Matches, sortOf, category, onlyFavorites, pickParam, Param
  <2> QED BY <2>1, <2>2, <2>3, ReadingsStep DEF ReadingsInv
<1>2. ASSUME rows' = Sorted(S, key, readings')
      PROVE  RowsInv'
  <2>1. Shows(Sorted(S, key, readings'), S, key, readings')
    BY <1>1, SortedShows
  <2> HIDE DEF S, key
  <2>2. Shows(rows', S, key, readings')
    BY <1>2, <2>1
  <2> QED BY <2>2 DEF RowsInv, Shows, S, key
<1>3. ASSUME UNCHANGED rows, ~Reload, S = Matches(loc, deferred, prefs.favorites), key = sortOf(loc)
      PROVE  RowsInv'
  <2> HIDE DEF S, key
  <2>1. \A n \in Nodes : readings'[n].status = "off" <=> readings[n].status = "off"
    BY <1>3, OffStep, ReadingsStep DEF IsOff
  <2>2. \A i \in DOMAIN rows : rows[i] \in Nodes
    BY FiltersSelect DEF RowsInv, Shows, ToSet
  <2>3. Shows(rows, S, key, readings)
    BY <1>3 DEF RowsInv
  <2>4. Shows(rows', S, key, readings')
    BY <1>3, <2>1, <2>2, <2>3 DEF Shows
  <2> QED BY <2>4 DEF RowsInv, Shows, S, key
<1>4. CASE Reload
  <2>1. rows' = Visible(loc', deferred', prefs', readings')
    BY <1>4 DEF Reload, url
  <2> QED BY <1>2, <2>1 DEF Visible
<1>5. CASE Render /\ ~Reload
  <2>1. CASE Deps(loc', deferred', prefs') = Deps(loc, deferred, prefs)
    <3>1. rows' = rows
      BY <1>5, <2>1 DEF Render
    <3>2. /\ category(loc') = category(loc) /\ deferred' = deferred
          /\ onlyFavorites(loc') = onlyFavorites(loc) /\ prefs'.favorites = prefs.favorites
          /\ sortOf(loc') = sortOf(loc)
      BY <2>1 DEF Deps
    <3>3. Matches(loc', deferred', prefs'.favorites) = Matches(loc, deferred, prefs.favorites)
      BY <3>2 DEF Matches
    <3> QED BY <1>3, <1>5, <3>1, <3>2, <3>3
  <2>2. CASE Deps(loc', deferred', prefs') # Deps(loc, deferred, prefs)
    <3>1. rows' = Visible(loc', deferred', prefs', readings')
      BY <1>5, <2>2 DEF Render
    <3> QED BY <1>2, <3>1 DEF Visible
  <2> QED BY <2>1, <2>2
<1>6. CASE UNCHANGED vars /\ ~Reload
  <2>1. rows' = rows /\ loc' = loc /\ deferred' = deferred /\ prefs' = prefs
    BY <1>6 DEF vars, url, page, kept
  <2>2. S = Matches(loc, deferred, prefs.favorites) /\ key = sortOf(loc)
    BY <2>1
  <2> QED BY <1>3, <1>6, <2>1, <2>2
<1> QED BY <1>4, <1>5, <1>6, RowSteps

\* The first rows are those the landing's filters select.
LEMMA InitRows ==
  ASSUME Init
  PROVE  ReadingsInv /\ RowsInv
<1>1. /\ readings = FirstReading /\ rows = Visible(loc, deferred, prefs, readings)
      /\ ticks \in 0..MaxTicks /\ hides \in 0..MaxHides
  BY DEF Init, InitFeed
<1>2. readings \in [Nodes -> Reading]
  BY <1>1, FeedAssumption
<1> DEFINE S == Matches(loc, deferred, prefs.favorites)
           key == sortOf(loc)
<1>3. S \in SUBSET Nodes /\ key \in SortKeys
  BY FiltersSelect, OrderIsOne
<1>4. Shows(Sorted(S, key, readings), S, key, readings)
  BY <1>2, <1>3, SortedShows
<1>5. rows = Sorted(S, key, readings)
  BY <1>1 DEF Visible
<1> QED BY <1>1, <1>2, <1>4, <1>5 DEF ReadingsInv, RowsInv
(* Every entry is one of the page's own address. *)
PathsInv ==
  /\ moves \in 0..MaxMoves
  /\ \E S : behind \in Seq(S) /\ loc \in S /\ \A l \in S : l.path = "/"

\* Navigating stays on the page.
LEMMA PathsStep ==
  ASSUME PathsInv, [Next]_vars
  PROVE  PathsInv'
<1>1. PICK S : behind \in Seq(S) /\ loc \in S /\ \A l \in S : l.path = "/"
  BY DEF PathsInv
<1>2. MaxMoves \in Nat /\ MaxBack \in Nat \ {0}
  BY PageAssumption
<1>3. CASE UNCHANGED url
  BY <1>3 DEF url, PathsInv
<1>4. CASE GoBack
  <2>1. behind # <<>> /\ loc' = behind[Len(behind)] /\ moves' = moves
        /\ behind' = SubSeq(behind, 1, Len(behind) - 1)
    BY <1>4 DEF GoBack, Last, Front
  <2>2. Len(behind) \in 1..Len(behind) /\ loc' \in S
    BY <1>1, <2>1
  <2>3. behind' \in Seq(S)
    <3> DEFINE n == Len(behind) - 1
    <3>1. n \in Nat /\ \A i \in 1..n : behind[i] \in S
      BY <1>1, <2>2
    <3> HIDE DEF n
    <3>2. SubSeq(behind, 1, n) \in Seq(S)
      BY <3>1, SubSeqProperties
    <3> QED BY <2>1, <3>2 DEF n
  <2> QED BY <1>1, <2>1, <2>2, <2>3 DEF PathsInv
<1>5. ASSUME NEW to, to.path = "/", Push(to) \/ Replace(to)
      PROVE  PathsInv'
  <2> DEFINE T == S \cup {to}
  <2>1. behind \in Seq(T) /\ loc \in T /\ to \in T /\ \A l \in T : l.path = "/"
    BY <1>1, <1>5
  <2> HIDE DEF T
  <2>2. loc' = to /\ moves' \in 0..MaxMoves
    BY <1>2, <1>5 DEF Push, Replace, PathsInv
  <2>3. behind' \in {behind, Append(behind, loc), Append(Tail(behind), loc)}
        /\ (behind' = Append(Tail(behind), loc) => Len(behind) > 0 \/ behind' = Append(behind, loc))
    <3>1. Len(behind) \in Nat
      BY <1>1
    <3> QED BY <1>2, <1>5, <3>1 DEF Push, Replace
  <2>4. Append(behind, loc) \in Seq(T)
    BY <2>1
  <2>5. Len(behind) > 0 => Append(Tail(behind), loc) \in Seq(T)
    <3>1. Len(behind) > 0 => Tail(behind) \in Seq(T)
      BY <2>1
    <3> QED BY <2>1, <3>1
  <2>6. behind' \in Seq(T)
    BY <2>1, <2>3, <2>4, <2>5
  <2> QED BY <2>1, <2>2, <2>6 DEF PathsInv
<1>6. ASSUME NEW patch, PushParams(patch) \/ ReplaceParams(patch)
      PROVE  PathsInv'
  <2> DEFINE to == At(loc.path, Patched(loc.params, patch))
  <2>1. to.path = "/"
    BY <1>1 DEF At
  <2>2. Push(to) \/ Replace(to)
    BY <1>6 DEF PushParams, ReplaceParams
  <2> HIDE DEF to
  <2> QED BY <1>5, <2>1, <2>2
<1> QED BY <1>3, <1>4, <1>6, UrlSteps

\* One stars, or chooses a view, or comes back to what localStorage holds; every
\* commit stores what it finds.
LEMMA PrefsSteps ==
  ASSUME [Next]_vars
  PROVE  /\ \/ prefs' = prefs
            \/ \E view \in {"grid", "list"} : prefs' = [prefs EXCEPT !.view = view]
            \/ \E n \in Nodes : prefs' = [prefs EXCEPT !.favorites = WithStar(@, n)]
            \/ prefs' = Stored(storage)
         /\ writable' = writable
         /\ storage' = storage \/ storage' = prefs'
<1>1. CASE Boot \/ StrictUnmount \/ Live \/ PressPause \/ CatchUp \/ ToggleMenu \/ ShowSearch
           \/ BlurSearch \/ DismissBanner \/ InDetail \/ PingStep \/ CloseNode \/ Back
  <2>1. prefs' = prefs /\ Commit
    BY <1>1 DEF Boot, StrictUnmount, Live, PressPause, CatchUp, ToggleMenu, ShowSearch, Navigate,
                BlurSearch, DismissBanner, InDetail, PingStep, InPingDialog, Aloft, CloseNode, Back
  <2> QED BY <2>1 DEF Commit, Persist
<1>2. ASSUME NEW n \in Nodes, ToggleFavorite(n)
      PROVE  prefs' = [prefs EXCEPT !.favorites = WithStar(@, n)] /\ Commit
  BY <1>2 DEF ToggleFavorite
<1>3. ASSUME NEW n \in Nodes, OpenPing(n) \/ OpenNode(n) \/ SelectSibling(n)
      PROVE  prefs' = prefs /\ Commit
  BY <1>3 DEF OpenPing, OpenNode, SelectSibling, Navigate
<1>4. ASSUME NEW view \in {"grid", "list"}, SetView(view)
      PROVE  prefs' = [prefs EXCEPT !.view = view] /\ Commit
  BY <1>4 DEF SetView
<1>5. CASE Reload
  BY <1>5 DEF Reload
<1>6. ASSUME \/ \E value \in Categories \cup {"all"} : SetCategory(value)
             \/ \E key \in SORTS \cup {"default"} : SetSort(key)
             \/ \E word \in {""} \cup DOMAIN Found : SetQuery(word)
             \/ SetOnlyFavorites \/ ClearFilters
      PROVE  prefs' = prefs /\ Commit
  BY <1>6 DEF SetCategory, SetSort, SetQuery, SetOnlyFavorites, ClearFilters, Navigate
<1>7. CASE UNCHANGED vars
  BY <1>7 DEF vars, page, kept
<1>8. Commit => writable' = writable /\ (storage' = storage \/ storage' = prefs')
  BY DEF Commit, Persist
<1> QED BY <1>1, <1>2, <1>3, <1>4, <1>5, <1>6, <1>7, <1>8 DEF Next, Toolbar

(* What is remembered, and what the entries hold of it. *)
Prefs(p) ==
  /\ DOMAIN p = {"view", "favorites"}
  /\ p.view \in {"grid", "list"} /\ p.favorites \subseteq Nodes
Entries(e) ==
  /\ e.view = Absent \/ e.view \in {"grid", "list"}
  /\ e.favorites = Absent \/ e.favorites \subseteq Nodes
PrefsInv == Prefs(prefs) /\ Entries(storage) /\ writable \in BOOLEAN

\* What one reads back is what the page can remember.
LEMMA StoredIsPrefs ==
  ASSUME NEW e, Entries(e)
  PROVE  Prefs(Stored(e))
<1>1. /\ DOMAIN InitialPrefs = {"view", "favorites"}
      /\ InitialPrefs.view = "grid" /\ InitialPrefs.favorites \subseteq Nodes
  BY DEF InitialPrefs
<1>2. Stored(e) = [k \in {"view", "favorites"} |-> IF e[k] = Absent THEN InitialPrefs[k] ELSE e[k]]
  BY <1>1 DEF Stored
<1> QED BY <1>1, <1>2 DEF Prefs, Entries

\* Each step keeps them.
LEMMA PrefsStep ==
  ASSUME PrefsInv, [Next]_vars
  PROVE  PrefsInv'
<1>1. Prefs(prefs')
  <2>1. ASSUME NEW view \in {"grid", "list"}, prefs' = [prefs EXCEPT !.view = view]
        PROVE  Prefs(prefs')
    BY <2>1 DEF PrefsInv, Prefs
  <2>2. ASSUME NEW n \in Nodes, prefs' = [prefs EXCEPT !.favorites = WithStar(@, n)]
        PROVE  Prefs(prefs')
    BY <2>2 DEF PrefsInv, Prefs, WithStar
  <2>3. Prefs(Stored(storage))
    BY StoredIsPrefs DEF PrefsInv
  <2> QED BY <2>1, <2>2, <2>3, PrefsSteps DEF PrefsInv
<1>2. Entries(prefs')
  BY <1>1 DEF Prefs, Entries
<1> QED BY <1>1, <1>2, PrefsSteps DEF PrefsInv, Prefs, Entries

(* What opens and closes in the toolbar, and how much was done. *)
LocalInv ==
  /\ searchOpen \in BOOLEAN /\ menuOpen \in BOOLEAN /\ bannerDismissed \in BOOLEAN
  /\ acts \in 0..MaxActs

\* Each step keeps it.
LEMMA LocalStep ==
  ASSUME LocalInv, [Next]_vars
  PROVE  LocalInv'
<1>1. searchOpen' \in BOOLEAN /\ bannerDismissed' \in BOOLEAN
  BY DEF LocalInv, Next, vars, page, local, Boot, StrictUnmount, Live, PressPause, Back, CatchUp, Toolbar,
       SetCategory, SetSort, SetQuery, SetOnlyFavorites, ClearFilters, ToggleMenu, ShowSearch,
       BlurSearch, DismissBanner, SetView, ToggleFavorite, OpenNode, SelectSibling, OpenPing,
       CloseNode, InDetail, PingStep, InPingDialog, Navigate, Aloft, Reload
<1>2. menuOpen' \in BOOLEAN
  <2>1. menuOpen' = FALSE \/ menuOpen' = (menuOpen /\ opened(loc') = Nobody)
        \/ menuOpen' = ~menuOpen \/ menuOpen' = menuOpen
    BY DEF Next, vars, page, local, Boot, StrictUnmount, Live, PressPause, Back, CatchUp, Toolbar,
       SetCategory, SetSort, SetQuery, SetOnlyFavorites, ClearFilters, ToggleMenu, ShowSearch,
       BlurSearch, DismissBanner, SetView, ToggleFavorite, OpenNode, SelectSibling, OpenPing,
       CloseNode, InDetail, PingStep, InPingDialog, Navigate, Activate, Reload, Press, Aside
  <2> QED BY <2>1 DEF LocalInv
<1>3. acts' = acts \/ Act
  BY DEF Next, vars, page, local, Boot, StrictUnmount, Live, PressPause, Back, CatchUp, Toolbar,
       SetCategory, SetSort, SetQuery, SetOnlyFavorites, ClearFilters, ToggleMenu, ShowSearch,
       BlurSearch, DismissBanner, SetView, ToggleFavorite, OpenNode, SelectSibling, OpenPing,
       CloseNode, InDetail, PingStep, InPingDialog, Navigate, Aloft, Reload
<1>4. MaxActs \in Nat
  BY PageAssumption
<1> QED BY <1>1, <1>2, <1>3, <1>4 DEF LocalInv, Act

(* The rows are exactly what the filters and the stars of this moment select,
   each once, the offline nodes last in any order but the inventory's; and every
   part of the page's state is of its kind, for any fleet, any filters and any
   order of what is done to the page (app.tsx:198-228). *)
THEOREM ListCorrect == Spec => []ListIsSound
<1> DEFINE Inv == /\ Wanted /\ ReadingsInv /\ RowsInv /\ PathsInv /\ PrefsInv /\ LocalInv
                  /\ DetailInv /\ DialogType
<1>1. Init => Inv
  <2> SUFFICES ASSUME Init
               PROVE  Inv
    OBVIOUS
  <2>1. Wanted
    BY DEF Init, InitFeed, Wanted, TickingIsWanted
  <2>2. PathsInv
    <3>1. loc \in Landing /\ behind = <<>> /\ moves \in 0..MaxMoves
      BY DEF Init
    <3>2. behind \in Seq(Landing)
      BY <3>1
    <3>3. \A l \in Landing : l.path = "/"
      BY PageAssumption
    <3> QED BY <3>1, <3>2, <3>3 DEF PathsInv
  <2>3. PrefsInv
    <3>1. prefs = Stored(storage) /\ storage = [k \in DOMAIN InitialPrefs |-> Absent] /\ writable \in BOOLEAN
      BY DEF Init
    <3>2. Entries(storage)
      BY <3>1 DEF Entries, InitialPrefs
    <3> QED BY <3>1, <3>2, StoredIsPrefs DEF PrefsInv
  <2>4. LocalInv
    BY DEF Init, LocalInv
  <2>5. DialogType
    <3>1. "1h" \in DOMAIN PING_RANGES
      BY DEF PING_RANGES
    <3> QED BY <3>1 DEF Init, DialogType, NoPingDialog
  <2> QED BY <2>1, <2>2, <2>3, <2>4, <2>5, InitDetail, InitRows
<1>2. Inv /\ [Next]_vars => Inv'
  <2> SUFFICES ASSUME Inv, [Next]_vars
               PROVE  Inv'
    OBVIOUS
  <2>1. Wanted' /\ ReadingsInv' /\ RowsInv'
    BY WantedStep, ReadingsStep, RowsStep
  <2>2. PathsInv' /\ PrefsInv' /\ LocalInv'
    BY PathsStep, PrefsStep, LocalStep
  <2>3. DetailInv' /\ DialogType'
    BY DetailStepInv, DialogStep
  <2> QED BY <2>1, <2>2, <2>3
<1>3. Inv => ListIsSound
  <2> SUFFICES ASSUME Inv
               PROVE  ListIsSound
    OBVIOUS
  <2>1. RowsAreTheFilters
    BY DEF RowsInv, Shows, RowsAreTheFilters, IsOff
  <2>2. ToSet(rows) \subseteq Nodes
    BY FiltersSelect DEF RowsInv, Shows
  <2>3. loc.path = "/"
    BY DEF PathsInv
  <2>4. /\ detail.of \in Nodes \cup {Nobody} /\ detail.hidden \subseteq Lines
        /\ detail.range \in DOMAIN RANGES \cup DOMAIN PING_RANGES
    BY DEF DetailInv, Picks
  <2>5. pingDialog.of \in Nodes \cup {Nobody} /\ pingDialog.range \in DOMAIN PING_RANGES
    BY DEF DialogType
  <2> QED BY <2>1, <2>2, <2>3, <2>4, <2>5
          DEF ListIsSound, TypeOK, Wanted, ReadingsInv, PathsInv, PrefsInv, Prefs, LocalInv
<1> QED BY <1>1, <1>2, <1>3, PTL DEF Spec
=============================================================================
