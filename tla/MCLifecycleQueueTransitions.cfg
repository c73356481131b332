SPECIFICATION Spec
CONSTANTS
    Projects = {p1}
    Jobs = {j1, j2}
    Workers = {w1, w2}
    MaxAttempts = 2
    Lease = 3
    Delays = {1}
    Skew = 0
    NoJob = NoJob
    NoWorker = NoWorker
    NoProject = NoProject
PROPERTY OnlyAllowedTransitions
