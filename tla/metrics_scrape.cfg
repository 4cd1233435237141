SPECIFICATION Spec
CONSTANTS
    r1 = r1
    r2 = r2
    Requests = {r1, r2}
    Shards = 2
    TenantOf <- MCTenantOf
INVARIANTS
    TypeOK
    InFlightOnly
PROPERTIES
    ScrapeOrder
    RowIsCut
