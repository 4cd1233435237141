SPECIFICATION Spec
CONSTANTS
    k1 = k1
    k2 = k2
    k3 = k3
    b1 = b1
    b2 = b2
    Keys = {k1, k2, k3}
    Bodies = {b1}
    Configs <- MCConfigs
    TicksPerSec = 2
    StartSkews = {0, 3}
    ClockSteps = {}
    MaxSkew = 5
    MaxNow = 6
    MaxRestarts = 2
SYMMETRY Symmetry
CHECK_DEADLOCK FALSE
INVARIANTS
    BoundedStaleness
    DriftBound
PROPERTY
    KeepsPromise
