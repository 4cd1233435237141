SPECIFICATION Spec
CONSTANTS
    h1 = h1
    h2 = h2
    w1 = w1
    w2 = w2
    Handlers = {h1}
    Jobs = {w1, w2}
    Debounce = 2
    Events = {"clear", "crash"}
    MaxInserts = 1
    MaxNow = 2
    MaxOutages = 1
    MaxSaves = 3
SYMMETRY Symmetry
PROPERTY
    ClearSticks
