------------------------------ MODULE FleetFeed ------------------------------
(***************************************************************************)
(* The admin console's live store (src/web/src/lib/mock.ts): the fleet's   *)
(* readings in module variables, one interval that moves them while the    *)
(* page is visible, the first snapshot, and the listeners of the           *)
(* components (useSyncExternalStore).  The readings are a random walk;     *)
(* here each tick brings any of Readings.                                  *)
(***************************************************************************)
EXTENDS Inventory

CONSTANTS
  FirstReading,     \* FirstReading[s]: the inventory's numbers and status
  Readings,         \* [cpu, mem, disk] a tick may bring
  MaxTicks, MaxHides

ASSUME FeedAssumption ==
  /\ MaxTicks \in Nat /\ MaxHides \in Nat
  /\ \A m \in {"cpu", "mem", "disk"} :
       /\ \A r \in Readings : r[m] \in Nat
       /\ \A s \in Servers : FirstReading[s][m] \in Nat

VARIABLES
  fleet,        \* fleet[s]: cpu, mem, disk and status
  listeners,    \* who is subscribed
  interval,     \* the 1 s interval is running
  snapshot,     \* the timer of the first snapshot is pending
  loaded, connection,
  hidden,       \* document.hidden
  ticks, hides

feed == <<fleet, listeners, interval, snapshot, loaded, connection, hidden, ticks, hides>>

InitFeed ==
  /\ fleet = FirstReading
  /\ listeners = {}
  /\ interval = FALSE /\ snapshot = FALSE
  /\ loaded = FALSE /\ connection = "live"
  /\ hidden \in BOOLEAN
  /\ ticks \in 0..MaxTicks /\ hides \in 0..MaxHides

(* The thresholds of a tick's status are written out where it is computed. *)
StatusOf(r) == IF r.disk > 85 \/ r.cpu > 90 \/ r.mem > 92 THEN "warn" ELSE "ok"

(* What tick() does to the fleet: the offline servers keep their numbers.
   After MaxTicks the walk stands still. *)
Move ==
  \/ /\ ticks < MaxTicks
     /\ ticks' = ticks + 1
     /\ \E r \in [Online -> Readings] :
          fleet' = [s \in Servers |->
                      IF s \in OfflineServers THEN fleet[s]
                      ELSE [cpu |-> r[s].cpu, mem |-> r[s].mem, disk |-> r[s].disk,
                            status |-> StatusOf(r[s])]]
  \/ ticks = MaxTicks /\ UNCHANGED <<ticks, fleet>>

Tick ==
  /\ interval
  /\ Move
  /\ UNCHANGED <<listeners, interval, snapshot, loaded, connection, hidden, hides>>

(* A commit leaves S subscribed: the first listener starts the interval or asks
   for the first snapshot, the last one to leave stops both. *)
Subscribe(S) ==
  /\ listeners' = S
  /\ LET first == listeners = {} /\ S # {}
     IN  /\ interval' = (S # {} /\ (interval \/ (first /\ loaded /\ ~hidden)))
         /\ snapshot' = (S # {} /\ (snapshot \/ (first /\ ~loaded)))
  /\ UNCHANGED <<fleet, loaded, connection, hidden, ticks, hides>>

\* Variant: the snapshot starts the interval of a hidden console.
SnapshotStarts ==
  /\ snapshot
  /\ snapshot' = FALSE
  /\ loaded' = TRUE /\ interval' = TRUE
  /\ connection' = IF hidden THEN "paused" ELSE "live"
  /\ UNCHANGED <<fleet, listeners, hidden, ticks, hides>>

SnapshotArrives ==
  /\ snapshot
  /\ snapshot' = FALSE
  /\ loaded' = TRUE
  /\ interval' = (interval \/ ~hidden)
  /\ connection' = IF hidden THEN "paused" ELSE "live"
  /\ UNCHANGED <<fleet, listeners, hidden, ticks, hides>>

(* visibilitychange; without a listener nobody hears it. *)
Hide ==
  /\ ~hidden /\ hides < MaxHides
  /\ hides' = hides + 1
  /\ hidden' = TRUE
  /\ IF listeners # {}
       THEN interval' = FALSE /\ connection' = "paused"
       ELSE UNCHANGED <<interval, connection>>
  /\ UNCHANGED <<fleet, listeners, snapshot, loaded, ticks>>

(* Back in front: one tick at once, then the interval. *)
Show ==
  /\ hidden
  /\ hidden' = FALSE
  /\ IF listeners # {}
       THEN interval' = TRUE /\ connection' = "live" /\ Move
       ELSE UNCHANGED <<interval, connection, fleet, ticks>>
  /\ UNCHANGED <<listeners, snapshot, loaded, hides>>

FeedStep == Tick \/ SnapshotArrives \/ Hide \/ Show

(* ------------------------------------------------------------ properties *)

(* The numbers move exactly while somebody looks: a visible console that has
   loaded runs the interval, a hidden one does not, and without listeners there
   is neither interval nor pending snapshot (mock.ts:388-397, 447-483). *)
IntervalFollowsVisibility ==
  /\ loaded /\ listeners # {} => interval = ~hidden
  /\ hidden => ~interval
  /\ listeners = {} => ~interval /\ ~snapshot

(* The badge of the top bar tells the truth: once loaded, it says paused exactly
   while the page is hidden.  It holds because the shell's own badge keeps one
   listener for as long as the console is open (live-status.tsx:11-13). *)
BadgeIsTrue == loaded /\ listeners # {} => (connection = "paused") = hidden

(* What the console says of the feed and what the feed does are one. *)
FeedIsTrue == IntervalFollowsVisibility /\ BadgeIsTrue
=============================================================================
