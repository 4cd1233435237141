SPECIFICATION FairSpec
CONSTANTS
    Hosts <- MCHosts
    Strings = {"deepseek", "one", "two", ""}
    Keys = {"one", "two", ""}
INVARIANTS
    TypeOK
    ServesConfigured
    BadFileStops
    SemanticServesLoaded
    AdminKept
PROPERTY
    Serves
