SPECIFICATION MCFairSpec
CONSTANTS
    r1 = r1  r2 = r2  r3 = r3  t1 = t1
    chk = chk  w1 = w1  w2 = w2  boot = boot  put = put
    Rules = {r3}
    Targets = {t1}
    Workers = {chk}
    Checker = chk
    Loaders = {boot, put}
    Boot = boot
    Kind <- OnlyOffline
    ForSeconds <- Two
    Cooldown <- Two
    Threshold <- Two
    EventKeep = 0
    MaxNow = 3
    MaxSaves = 1
    MaxCrashes = 1
    MaxDbErrors = 1
    MaxFails = 3
    MaxOverlaps = 0
CHECK_DEADLOCK FALSE
PROPERTIES
    RecordFollowsTheAgent
