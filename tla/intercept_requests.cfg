SPECIFICATION FairSpec
CONSTANTS
    Slots = {r1, r2}
    Models <- MCModels
    Premium = {"gpt"}
    Cheap = "deepseek"
    Tenants = {"a", "b"}
    Inputs <- MCInputs
    Configs <- MCConfigs
    Statuses = {"success", "retryable", "client_error"}
    FailoverStatuses = {"retryable"}
INVARIANTS
    TypeOK
    DispatchedOnceEach
    HeadersTrue
    OptOutUntilFailure
    BooksBalance
    HitsAreOwn
    SemanticHitsAreOwn
    StreamsCachedWhole
PROPERTY
    EveryRequestEnds
\* Each request is served once; when all have been, nothing is left to do.
CHECK_DEADLOCK FALSE
