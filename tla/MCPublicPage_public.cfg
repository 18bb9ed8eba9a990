SPECIFICATION MCSpec
CONSTANTS
  n1 = n1  n2 = n2  n3 = n3  a = a  b = b
  Fleet <- MCFleet  OfflineNodes = {n2}  Resources <- MCResources  Probes <- MCProbes
  FirstReading <- MCFirst  MaxTicks = 2  MaxHides = 2
  Charts = {"cpu", "mem", "ping"}  Spots = {1, 3}  Lines = {a, b}  LastDay = 2
  PickerFinds <- MCPickerFinds  Nobody = Nobody
  Categories = {"web", "ix"}  Info <- MCInfo  Found <- MCFound  Landing <- MCLanding
  Absent = Absent  MaxActs = 4  MaxMoves = 3  MaxBack = 2  Visits <- MCVisits
INVARIANTS ListIsSound BackLeavesTheDetail ChartsAreTrue
PROPERTIES OnlyTheLiveMove DetailKeepsToItself SkeletonEnds
CHECK_DEADLOCK FALSE
