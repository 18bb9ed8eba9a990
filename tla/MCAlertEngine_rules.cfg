SPECIFICATION MCSpec
CONSTANTS
    r1 = r1  r2 = r2  r3 = r3  t1 = t1
    chk = chk  w1 = w1  w2 = w2  boot = boot  put = put
    Rules = {r1, r2}
    Targets = {t1}
    Workers = {chk, w1, w2}
    Checker = chk
    Loaders = {boot, put}
    Boot = boot
    Kind <- MetricAndProbe
    ForSeconds <- OneThenTwo
    Cooldown <- Two
    Threshold <- Two
    EventKeep = 1
    MaxNow = 4
    MaxSaves = 1
    MaxCrashes = 2
    MaxDbErrors = 1
    MaxFails = 3
    MaxOverlaps = 2
VIEW Matter
SYMMETRY Observers
ACTION_CONSTRAINT Focus
CHECK_DEADLOCK FALSE
INVARIANTS
    TypeOK
    PendingIsABreach
    RecordAgrees
PROPERTIES
    MetricHeldUnbroken
    ProbeFiresOnStreak
    CooldownRespected
    KeepsPromise
