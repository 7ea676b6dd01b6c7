\* Two clients, one of them of a listed user, a cache, two repetitions, three requests a client: every order of requests.
SPECIFICATION Spec
CONSTANTS
    Clients = {c1, c2}
    Listed = {c2}
    Caches = {k1}
    Requests = 3
    BatchSize = 2
    Repetitions = 2
    InitialSize = 1
    StartingSize = 2
    None = None
INVARIANTS
    TypeOK
    FetchIsCurrent
    SnapshotsHold
PROPERTIES
    RunReturns
CHECK_DEADLOCK FALSE
