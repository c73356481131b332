\* Two attempts; the advisory lock itself works.
SPECIFICATION Spec
CONSTANTS
    Workers = {w1, w2}
    Services = {api, redis}
    EarlyServices = {redis}
    Api = api
    MaxAttempts = 2
    LockMayBreak = FALSE
    NoWorker = NoWorker
INVARIANT OneAttemptDrivesDocker
CHECK_DEADLOCK FALSE
