SPECIFICATION Spec
CONSTANTS
    h1 = h1
    h2 = h2
    w1 = w1
    w2 = w2
    Handlers = {h1, h2}
    Jobs = {w1, w2}
    Debounce = 2
    Events = {"slow"}
    MaxInserts = 3
    MaxNow = 4
    MaxOutages = 1
    MaxSaves = 3
SYMMETRY Symmetry
PROPERTY
    SaveIsAtomic
