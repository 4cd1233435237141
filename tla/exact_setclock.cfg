SPECIFICATION Spec
CONSTANTS
    k1 = k1
    k2 = k2
    k3 = k3
    b1 = b1
    b2 = b2
    Keys = {k1, k2}
    Bodies = {b1}
    Configs <- MCConfigs
    TicksPerSec = 2
    StartSkews = {3}
    ClockSteps <- MCClockSteps
    MaxSkew = 5
    MaxNow = 4
    MaxRestarts = 2
SYMMETRY Symmetry
CHECK_DEADLOCK FALSE
INVARIANTS
    TypeOK
    CapacityBound
    BoundedHold
    OrderPreserved
