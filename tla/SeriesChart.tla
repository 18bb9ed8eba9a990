------------------------------ MODULE SeriesChart ------------------------------
(***************************************************************************)
(* The time series chart (src/web/src/components/time-series-chart.tsx):   *)
(* the axis, and the crosshair that a mouse moves and a tap pins.  The     *)
(* crosshair is written into the DOM and not into React's state, so no     *)
(* rendering moves it: it stays where the pointer last put it.  Positions  *)
(* are quarters of the plot's width.                                       *)
(***************************************************************************)
EXTENDS Integers

CONSTANTS
  Charts,   \* the charts of a page, while they are mounted
  Spots     \* where a pointer may be, in quarters; beyond the plot too

ASSUME SpotsAssumption == Spots \subseteq Int

VARIABLE cursor   \* cursor[c]: the point it shows, and whether it is pinned

NoPoint == -1
Hidden == [locked |-> FALSE, at |-> NoPoint]
InitChart == cursor = [c \in Charts |-> Hidden]

(* indexFrom: the nearest point of the longest series. *)
IndexFrom(spot, points) ==
  LET index == (2 * spot * (points - 1) + 4) \div 8
  IN  IF index > points - 1 THEN points - 1 ELSE IF index < 0 THEN 0 ELSE index

(* A point that no line has a value for is not shown. *)
Shown(c, spot, points, hasLine) ==
  IF hasLine THEN IndexFrom(spot, points) ELSE cursor[c].at

(* A finger: tap to pin, tap again to let go. *)
Tap(c, spot, points, hasLine) ==
  IF cursor[c].locked THEN cursor' = [cursor EXCEPT ![c] = Hidden]
  ELSE /\ points >= 2
       /\ cursor' = [cursor EXCEPT ![c] =
            [locked |-> TRUE, at |-> Shown(c, spot, points, hasLine)]]

(* The mouse, or a finger while the cursor is pinned. *)
MoveOver(c, spot, points, hasLine) ==
  /\ points >= 2
  /\ cursor' = [cursor EXCEPT ![c].at = Shown(c, spot, points, hasLine)]

Leave(c) ==
  /\ ~cursor[c].locked /\ cursor[c].at # NoPoint
  /\ cursor' = [cursor EXCEPT ![c].at = NoPoint]
=============================================================================
