SPECIFICATION MCSpec
CONSTANTS
  s1 = s1  s2 = s2  s3 = s3  p1 = p1  p2 = p2  n1 = n1  r1 = r1
  Servers = {s1, s2, s3}  OfflineServers = {s3}  Probes = {p1, p2}  Rules = {r1}
  Tags = {"hk", "jp"}  MAX_TAGS = 2  NewProbes = {n1}  NewTokens = {}
  Known <- MCKnown  FleetTags <- MCFleetTags  Readings <- MCReadings  FirstReading <- MCFirst
  Found <- MCFound  FoundProbes <- MCFoundProbes  OldTokens = {}  Shelf <- MCShelf
  SettingsPaths = {"/settings/retention"}  RuleIsOn <- MCRuleIsOn  Landing <- MCLanding
  Absent = Absent  Broken = Broken  Junk = Junk  Unset = Unset  Closed = Closed  Nobody = Nobody
  MaxSaves = 2  MaxFaults = 0  MaxMoves = 2  MaxBack = 1  MaxTicks = 2  MaxHides = 2  Visits <- MCVisits
INVARIANTS OverviewIsSound ConcernsAreShown DeletedStaysDeleted FeedIsTrue
PROPERTIES DrillDownIsTheCount OneActOneEntry
CHECK_DEADLOCK FALSE
