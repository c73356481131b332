\* Liveness: two projects, one operation each, two workers; no symmetry.
SPECIFICATION FairSpec
CONSTANTS
    Projects = {p1, p2}
    Jobs = {j1, j2}
    Workers = {w1, w2}
    MaxAttempts = 2
    Lease = 2
    Delays = {1}
    Skew = 0
    NoJob = NoJob
    NoWorker = NoWorker
    NoProject = NoProject
PROPERTY OperationsSettle
