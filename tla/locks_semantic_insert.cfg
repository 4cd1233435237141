SPECIFICATION FairSpec
CONSTANTS
    t1 = t1
    t2 = t2
    t3 = t3
    Threads = {t1}
    Shards = 2
    Ops = {"semantic_insert"}
PROPERTY
    SemanticInsertEnds
CHECK_DEADLOCK FALSE
