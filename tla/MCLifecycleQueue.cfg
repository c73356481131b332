\* One project, three operations (a provision, a retry or a deletion after it),
\* three workers, two attempts per job.
SPECIFICATION Spec
CONSTANTS
    Projects = {p1}
    Jobs = {j1, j2, j3}
    Workers = {w1, w2, w3}
    MaxAttempts = 2
    Lease = 3
    Delays = {1}
    Skew = 1
    NoJob = NoJob
    NoWorker = NoWorker
    NoProject = NoProject
SYMMETRY Symmetry
INVARIANTS
    TypeOK
    OneActiveJob
    StatusMatchesJob
    OneProvisioner
    PublishNotRefused
    ReadyUntilCompleted
    FailureAuditedOnce
PROPERTIES
    SettledJobsStay
    LiveLeaseNotTaken
    ImplementsPromise
