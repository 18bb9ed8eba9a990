------------------------------ MODULE Inventory ------------------------------
(***************************************************************************)
(* What the console's read-only data source lists: the servers with what   *)
(* does not move (src/web/src/lib/mock.ts:108-154, lib/nodes.ts).          *)
(***************************************************************************)
EXTENDS Naturals, Sequences, FiniteSets, SequencesExt, TLC

CONSTANTS
  Servers,
  OfflineServers,   \* the servers listed as off
  Tags,             \* words a server can be tagged with
  FleetTags,        \* FleetTags[s]: the tags the data source gives s
  Known,            \* Known[s]: place in the list, agent version, uptime, lastSeen
  Nobody            \* null

ASSUME OfflineIsServer == OfflineServers \subseteq Servers

ASSUME InventoryAssumption == IsFiniteSet(Servers) /\ Nobody \notin Servers

Online == Servers \ OfflineServers
=============================================================================
