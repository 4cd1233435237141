SPECIFICATION FairSpec
CONSTANTS
    h1 = h1
    h2 = h2
    w1 = w1
    w2 = w2
    Handlers = {h1}
    Jobs = {w1, w2}
    Debounce = 1
    Events = {"slow", "fail", "clear", "stop"}
    MaxInserts = 1
    MaxNow = 1
    MaxOutages = 1
    MaxSaves = 2
PROPERTIES
    ShutdownEnds
    SavesEnd
