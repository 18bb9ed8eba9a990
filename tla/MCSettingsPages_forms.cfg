SPECIFICATION Spec
CONSTANTS
  s1 = s1  s2 = s2  old = old  new = new  p1 = p1  n1 = n1  r1 = r1
  Servers = {s1, s2}  OfflineServers = {}  Probes = {p1}  Rules = {r1}  Tags = {"hk", "jp"}
  NewProbes = {n1}  NewTokens = {new}  Known = Known
  OldTokens = {old}  FleetTags <- MCFleetTags  Shelf <- MCShelf
  Absent = Absent  Broken = Broken  Junk = Junk  Unset = Unset  Closed = Closed  Nobody = Nobody
  TokenNames <- MCNames  Typed <- MCTyped
  MaxSaves = 2  MaxFaults = 1  MaxEdits = 1
INVARIANTS PagesAreSound SavedIsKept RevokedStaysRevoked
PROPERTIES OnlySaveStoresTheDraft
CHECK_DEADLOCK FALSE
