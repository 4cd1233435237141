SPECIFICATION Spec
CONSTANTS
    t1 = t1
    t2 = t2
    Shards = 2
    Threads = {t1, t2}
    Configs <- MCConfigs
    TicksPerSec = 2
    ClockSteps <- MCClockSteps
    MaxItems = 3
    MaxNow = 2
    MaxRestarts = 1
SYMMETRY Symmetry
CHECK_DEADLOCK FALSE
INVARIANTS
    TypeOK
    BucketCap
    GlobalCap
    StaleOnlyWhenIdle
PROPERTY
    EvictsOldest
