------------------------------ MODULE NodeDetail ------------------------------
(***************************************************************************)
(* The detail of one node on the public page                               *)
(* (src/web/src/public/components/node-detail.tsx): the range, the dates   *)
(* of a custom one, the group of charts, the probe lines that are hidden,  *)
(* and the picker in its head.  Three charts stand for all: one of lines,  *)
(* one with a reference line, and the one of the probe lines.              *)
(***************************************************************************)
EXTENDS PublicFeed, SeriesChart

CONSTANTS
  Lines,        \* ids of a node's probe targets
  LastDay,      \* bound: days one can pick
  PickerFinds,  \* PickerFinds[word]: the nodes the picker lists for it
  Nobody

VARIABLE detail   \* the mounted detail: its node and its state

ResourceCharts == {"cpu", "mem"}
PingCharts == {"ping"}
ASSUME ChartsAreThese == Charts = ResourceCharts \cup PingCharts

NoDay == 0
ClosedPicker == "closed"
Fresh(n) ==
  [of |-> n, group |-> "resource", range |-> "live", from |-> NoDay, to |-> NoDay,
   hidden |-> {}, picker |-> ClosedPicker]

\* Variant: without the key, another node inherits what one picked.
FollowKeeping(n) ==
  /\ detail' = IF n = Nobody \/ detail.of = Nobody THEN Fresh(n) ELSE [detail EXCEPT !.of = n]
  /\ cursor' = IF n = detail.of THEN cursor ELSE [c \in Charts |-> Hidden]

(* The page keys the detail by its node: another node mounts a new one. *)
Follow(n) ==
  IF n = detail.of THEN UNCHANGED <<detail, cursor>>
  ELSE detail' = Fresh(n) /\ cursor' = [c \in Charts |-> Hidden]

(* ------------------------------------------------------ the charts' window *)

NoSpan == 0

(* From the first second of one day to the last of the other. *)
customSpan(d) ==
  LET seconds == (d.to - d.from + 1) * 86400 - 1
  IN  IF d.range = "custom" /\ d.from # NoDay /\ d.to # NoDay /\ seconds > 60
        THEN seconds ELSE NoSpan

(* Looked up among the resource ranges, whichever group is shown. *)
windowSeconds(d) ==
  IF customSpan(d) # NoSpan THEN customSpan(d)
  ELSE IF d.range \in DOMAIN RANGES THEN RANGES[d.range].seconds ELSE 60

(* Everything a rendering asks for, shown or not. *)
Asked(d) ==
  IF d.of = Nobody THEN {}
  ELSE {Curve("resource", d.of, "cpu", d.range, customSpan(d))}
       \cup {Curve(kind, d.of, line, d.range, customSpan(d)) :
               kind \in {"ping", "pingloss"}, line \in Lines}

Offered(d) == DOMAIN (IF d.group = "ping" THEN PING_RANGES ELSE RANGES)
ChartsOf(d) == IF d.group = "ping" THEN PingCharts ELSE ResourceCharts

(* A node that is off draws no resource line, but the totals keep their length. *)
ResourcePoints(d) == PointsOf(Curve("resource", d.of, "cpu", d.range, customSpan(d)))
HasLine(c, d) == IF c = "ping" THEN d.hidden # Lines ELSE ~IsOff(d.of)
ChartPoints(c, d) ==
  IF c = "ping"
    THEN IF HasLine(c, d)
           THEN PointsOf(Curve("ping", d.of, CHOOSE l \in Lines : TRUE, d.range, customSpan(d)))
           ELSE 0
  ELSE IF c = "mem" \/ HasLine(c, d) THEN ResourcePoints(d) ELSE 0

(* ------------------------------------------------------------- what one does *)

Change(d) == detail.of # Nobody /\ d # detail /\ detail' = d

(* A press outside the picker closes it before it does anything else; a key that
   activates the same button does not. *)
Pressed == [detail EXCEPT !.picker = ClosedPicker]
Activated == {Pressed, detail}

SetRange(range) ==
  /\ range \in Offered(detail)
  /\ \E d \in Activated : Change([d EXCEPT !.range = range])
  /\ UNCHANGED cursor

(* The limits of the inputs do not stop dates one types. *)
SetDates(from, to) ==
  /\ detail.range = "custom" /\ (from = detail.from \/ to = detail.to)
  /\ \E d \in Activated : Change([d EXCEPT !.from = from, !.to = to])
  /\ UNCHANGED cursor

(* The other group's charts unmount; the range stays, offered there or not. *)
SetGroup(group) ==
  /\ group # detail.group
  /\ \E d \in Activated : Change([d EXCEPT !.group = group])
  /\ cursor' = [c \in Charts |-> Hidden]

ToggleLine(line) ==
  /\ detail.group = "ping"
  /\ \E d \in Activated : Change([d EXCEPT !.hidden = IF line \in @ THEN @ \ {line} ELSE @ \cup {line}])
  /\ UNCHANGED cursor

AllLines ==
  /\ detail.group = "ping"
  /\ \E d \in Activated : Change([d EXCEPT !.hidden = IF @ = {} THEN Lines ELSE {}])
  /\ UNCHANGED cursor

TogglePicker ==
  /\ Change([detail EXCEPT !.picker = IF @ = ClosedPicker THEN "" ELSE ClosedPicker])
  /\ UNCHANGED cursor

TypeInPicker(word) ==
  /\ detail.picker # ClosedPicker
  /\ Change([detail EXCEPT !.picker = word])
  /\ UNCHANGED cursor

ClosePicker ==
  /\ detail.picker # ClosedPicker
  /\ Change(Pressed)
  /\ UNCHANGED cursor

(* What the open picker lists; picking one closes it before it navigates. *)
Offers ==
  CASE detail.picker = ClosedPicker -> {}
    [] detail.picker = "" -> Nodes
    [] OTHER -> PickerFinds[detail.picker]

(* A pointer on a chart; a tap is a press too. *)
Point ==
  /\ detail.of # Nobody
  /\ \E c \in ChartsOf(detail), spot \in Spots :
       LET points == ChartPoints(c, detail)
           hasLine == HasLine(c, detail)
       IN  \/ Tap(c, spot, points, hasLine) /\ detail' = Pressed
           \/ MoveOver(c, spot, points, hasLine) /\ UNCHANGED detail
           \/ Leave(c) /\ UNCHANGED detail

DetailStep ==
  \/ \E range \in DOMAIN RANGES \cup DOMAIN PING_RANGES : SetRange(range)
  \/ \E from, to \in 0..LastDay : SetDates(from, to)
  \/ \E group \in {"resource", "ping"} : SetGroup(group)
  \/ \E line \in Lines : ToggleLine(line)
  \/ AllLines \/ TogglePicker \/ ClosePicker
  \/ \E word \in {""} \cup DOMAIN PickerFinds : TypeInPicker(word)
  \/ Point

(* ------------------------------------------------------------ properties *)

(* The live curve lives: what is drawn ends with the last tick of its node,
   never with a copy of the moment the detail was opened (mock.ts:236-242). *)
LiveCurveMoves ==
  \A ask \in Asked(detail) :
    ask.range = "live" => historyFor(ask).base = lastPoint[ask.node]

(* The axis spans what the curve covers: seconds and not points (mock.ts:79-83).
   Excepted are the ranges of the other group, which stay chosen when one
   switches, and the probe groups' own 1h and 6h: their axis shows a minute. *)
Covered(curve) ==
  IF curve.of.range = "custom" /\ curve.of.span # NoSpan THEN curve.of.span
  ELSE LET table == IF curve.of.range \in DOMAIN PING_RANGES THEN PING_RANGES ELSE RANGES
       IN  table[curve.of.range].seconds
AxisSpansTheData ==
  detail.range \in DOMAIN RANGES =>
    \A ask \in Asked(detail) :
      ask.range = detail.range => Covered(historyFor(ask)) = windowSeconds(detail)

(* A cursor one has pinned by a tap stays until the next tap, whatever a mouse
   does and whichever range is chosen meanwhile (time-series-chart.tsx:179-180,
   287-323).  Of a node that is off there is no line to show a value of. *)
PinnedCursorStays ==
  \A c \in Charts :
    cursor[c].locked /\ (c = "ping" \/ ~IsOff(detail.of)) => cursor[c].at # NoPoint
=============================================================================
