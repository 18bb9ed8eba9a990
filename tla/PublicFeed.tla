------------------------------ MODULE PublicFeed ------------------------------
(***************************************************************************)
(* The data source of the public page (src/web/src/public/mock.ts): the    *)
(* nodes' readings in module variables, the interval that moves them, the  *)
(* pause button, the first snapshot, and the cache of generated curves.    *)
(* The random walk is any of Resources and Probes; the ten resource        *)
(* curves of a node are one, and a live curve is known by the tick that    *)
(* brought its last point.                                                 *)
(***************************************************************************)
EXTENDS Integers, Sequences, FiniteSets, SequencesExt, TLC

CONSTANTS
  Fleet,          \* the nodes, in the order of the inventory
  OfflineNodes,   \* the nodes listed as off
  Resources,      \* [cpu, mem, disk, traffic] a tick may bring
  Probes,         \* [latency, loss] a probe may bring; loss in tenths of a percent
  FirstReading,   \* what the inventory gives each node
  MaxTicks, MaxHides

VARIABLES
  readings,         \* readings[n]: cpu, mem, disk, traffic, latency, loss and status
  lastPoint,        \* lastPoint[n]: the tick that brought the last point of n's live curves
  lastProbeEpoch,   \* 0: none yet
  mounted,          \* the page's components are subscribed
  interval, snapshot, loaded, paused,
  hidden,           \* document.hidden
  cache,            \* historyCache
  ticks, hides

live == <<readings, lastPoint, lastProbeEpoch, ticks>>
clock == <<mounted, interval, snapshot, loaded, paused, hidden, hides>>
feed == <<live, clock>>

Nodes == ToSet(Fleet)
ASSUME OfflineAreNodes == OfflineNodes \subseteq Nodes /\ OfflineNodes # Nodes

Use == [cpu : Int, mem : Int, disk : Int, traffic : Int]
Probe == [latency : Int, loss : Int]
Reading ==
  [cpu : Int, mem : Int, disk : Int, traffic : Int, latency : Int, loss : Int,
   status : {"ok", "warn", "crit", "off"}]

(* What is measured are numbers, and the inventory says which nodes are off. *)
ASSUME FeedAssumption ==
  /\ Fleet \in Seq(Nodes)
  /\ Resources \subseteq Use /\ Probes \subseteq Probe
  /\ FirstReading \in [Nodes -> Reading]
  /\ OfflineNodes = {n \in Nodes : FirstReading[n].status = "off"}
  /\ MaxTicks \in Nat /\ MaxHides \in Nat

InitFeed ==
  /\ ticks \in 0..MaxTicks /\ hides \in 0..MaxHides
  /\ readings = FirstReading
  /\ lastPoint = [n \in Nodes |-> ticks] /\ lastProbeEpoch = 0
  /\ mounted = FALSE /\ interval = FALSE /\ snapshot = FALSE
  /\ loaded = FALSE /\ paused = FALSE
  /\ hidden \in BOOLEAN
  /\ cache = <<>>

(* ------------------------------------------------------------- the ticks *)

IsOff(n) == readings[n].status = "off"

(* Full resources make a warning even of what the probes call critical. *)
StatusOf(use, probe) ==
  IF use.cpu > 90 \/ use.mem > 92 \/ use.disk > 90 THEN "warn"
  ELSE IF probe.loss > 10 \/ probe.latency > 350 THEN "crit"
  ELSE IF probe.loss > 5 \/ probe.latency > 220 THEN "warn" ELSE "ok"

Measured(use, probe) ==
  [cpu |-> use.cpu, mem |-> use.mem, disk |-> use.disk, traffic |-> use.traffic,
   latency |-> probe.latency, loss |-> probe.loss, status |-> StatusOf(use, probe)]

\* Variant: every node reports.
ReportingAll == Nodes

Reporting == {n \in Nodes : ~IsOff(n)}

(* The epoch is written down inside the loop over the nodes, so the first node
   that reports is the only one probed in it. *)
Probed(epoch) ==
  IF epoch = lastProbeEpoch THEN {} ELSE {SelectSeq(Fleet, LAMBDA n : n \in Reporting)[1]}

Move ==
  \/ /\ ticks < MaxTicks
     /\ ticks' = ticks + 1
     /\ \E epoch \in {lastProbeEpoch, lastProbeEpoch + 1} \ {0} :
          /\ lastProbeEpoch' = epoch
          /\ \E use \in [Reporting -> Resources], probe \in [Probed(epoch) -> Probes] :
               readings' = [n \in Nodes |->
                 IF n \in Reporting
                   THEN Measured(use[n], IF n \in Probed(epoch) THEN probe[n] ELSE readings[n])
                   ELSE readings[n]]
     /\ lastPoint' = [n \in Nodes |-> IF n \in Reporting THEN ticks' ELSE lastPoint[n]]
  \/ ticks = MaxTicks /\ UNCHANGED live

Tick == interval /\ ~paused /\ Move /\ UNCHANGED clock

(* ------------------------------------------- who listens, and when it runs *)

\* Variant: a page in the background does not ask.
SubscribeOnce ==
  /\ ~mounted
  /\ mounted' = TRUE
  /\ interval' = (loaded /\ ~hidden /\ ~paused)
  /\ snapshot' = (~loaded /\ ~hidden)
  /\ UNCHANGED <<live, loaded, paused, hidden, hides>>

Subscribe ==
  /\ ~mounted
  /\ mounted' = TRUE
  /\ interval' = (loaded /\ ~hidden /\ ~paused)
  /\ snapshot' = ~loaded
  /\ UNCHANGED <<live, loaded, paused, hidden, hides>>

Unsubscribe ==
  /\ mounted
  /\ mounted' = FALSE /\ interval' = FALSE /\ snapshot' = FALSE
  /\ UNCHANGED <<live, loaded, paused, hidden, hides>>

SnapshotArrives ==
  /\ snapshot
  /\ snapshot' = FALSE /\ loaded' = TRUE
  /\ interval' = (interval \/ (~hidden /\ ~paused))
  /\ UNCHANGED <<live, mounted, paused, hidden, hides>>

Hide ==
  /\ ~hidden /\ hides < MaxHides
  /\ hides' = hides + 1
  /\ hidden' = TRUE
  /\ interval' = (interval /\ ~mounted)
  /\ UNCHANGED <<live, mounted, snapshot, loaded, paused>>

(* Back in front: one tick at once, then the interval. *)
Show ==
  /\ hidden
  /\ hidden' = FALSE
  /\ IF mounted /\ loaded /\ ~paused THEN interval' = TRUE /\ Move
     ELSE UNCHANGED <<live, interval>>
  /\ UNCHANGED <<mounted, snapshot, loaded, paused, hides>>

(* The button of the header. *)
SetPaused(value) ==
  /\ mounted /\ paused # value
  /\ value => hides < MaxHides
  /\ hides' = IF value THEN hides + 1 ELSE hides
  /\ paused' = value
  /\ interval' = (~value /\ (interval \/ (loaded /\ ~hidden)))
  /\ UNCHANGED <<live, mounted, snapshot, loaded, hidden>>

FeedStep == Tick \/ SnapshotArrives \/ Hide \/ Show \/ \E value \in BOOLEAN : SetPaused(value)

(* ------------------------------------------------- ranges and their curves *)

Over(points, seconds) == [points |-> points, seconds |-> seconds]
RANGES ==
  [range \in {"live", "4h", "1d", "7d", "30d", "custom"} |->
     CASE range = "live" -> Over(60, 60)    [] range = "4h" -> Over(120, 14400)
       [] range = "1d" -> Over(144, 86400)  [] range = "7d" -> Over(168, 604800)
       [] range = "30d" -> Over(180, 2592000) [] range = "custom" -> Over(180, 86400)]
PING_RANGES ==
  [range \in {"1h", "6h", "1d", "7d", "30d"} |->
     CASE range = "1h" -> Over(60, 3600)    [] range = "6h" -> Over(72, 21600)
       [] range = "1d" -> Over(96, 86400)   [] range = "7d" -> Over(84, 604800)
       [] range = "30d" -> Over(90, 2592000)]

(* What is asked of historyFor, pingHistoryFor and pingLossHistoryFor.  Probes
   have no live curve: they answer with the last hour. *)
Curve(kind, n, line, range, span) ==
  [kind |-> kind, node |-> n, line |-> line, span |-> span,
   range |-> IF kind # "resource" /\ range = "live" THEN "1h" ELSE range]

IsLive(ask) == ask.range = "live"

\* Variant: the dates are left out.
CacheKeyOfRange(ask) == <<ask.kind, ask.node, ask.line, ask.range>>

(* The span counts only for dates one picks. *)
CacheKey(ask) ==
  <<ask.kind, ask.node, ask.line, ask.range, IF ask.range = "custom" THEN ask.span ELSE 0>>

PointsOf(ask) ==
  LET table == IF ask.kind = "resource" THEN RANGES ELSE PING_RANGES
  IN  IF ask.range \in DOMAIN table THEN table[ask.range].points ELSE 60

(* A generated curve starts from the reading of that moment. *)
Generated(ask) == [of |-> ask, points |-> PointsOf(ask), base |-> ticks']

Remember(asked) ==
  LET new == {ask \in asked : ~IsLive(ask)}
  IN  cache' = [k \in DOMAIN cache \cup {CacheKey(ask) : ask \in new} |->
                  IF k \in DOMAIN cache THEN cache[k]
                  ELSE Generated(CHOOSE ask \in new : CacheKey(ask) = k)]

historyFor(ask) ==
  IF IsLive(ask) THEN [of |-> ask, points |-> PointsOf(ask), base |-> lastPoint[ask.node]]
  ELSE cache[CacheKey(ask)]

(* ------------------------------------------------------------ properties *)

(* The numbers move exactly while they are wanted: whatever the order in which
   the visitor pauses, hides the page, comes back and goes on, before or after
   the snapshot, the interval runs if and only if the page is shown, loaded and
   not paused (mock.ts:526-545, 657-708). *)
TickingIsWanted == interval = (mounted /\ loaded /\ ~hidden /\ ~paused)

(* A node that is off stays as it is: no tick revives it (mock.ts:573-580). *)
OfflineStaysOff ==
  [][mounted' => \A n \in Nodes : IsOff(n) =>
        readings'[n] = readings[n] /\ lastPoint'[n] = lastPoint[n]]_live

(* The numbers of the nodes that are on move exactly while they are wanted, and
   those of the others never. *)
OnlyTheLiveMove == []TickingIsWanted /\ OfflineStaysOff

(* A curve of the past stands still: ticks, other ranges and other nodes do not
   draw it anew (mock.ts:233-244). *)
HistoryStandsStill ==
  [][mounted' => \A k \in DOMAIN cache : k \in DOMAIN cache' /\ cache'[k] = cache[k]]_cache

(* The skeleton ends, hidden, paused or mounted twice (mock.ts:657-677). *)
SkeletonEnds == mounted ~> (loaded \/ ~mounted)
=============================================================================
