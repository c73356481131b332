\* Three attempts by two workers; the API and one service started before init. The
\* model stops when MaxAttempts attempts have been made.
SPECIFICATION Spec
CONSTANTS
    Workers = {w1, w2}
    Services = {api, redis}
    EarlyServices = {redis}
    Api = api
    MaxAttempts = 3
    LockMayBreak = TRUE
    NoWorker = NoWorker
SYMMETRY Symmetry
INVARIANTS
    TypeOK
    InitRowTruthful
    InitBeforeServices
    PublishNeedsRuntime
CHECK_DEADLOCK FALSE
