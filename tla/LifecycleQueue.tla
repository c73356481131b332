--------------------------- MODULE LifecycleQueue ---------------------------
(***************************************************************************)
(* The durable lifecycle queue of the Conductor control plane: the rows of *)
(* project_lifecycle_jobs, the lifecycle status of each project, the       *)
(* worker processes that claim jobs under a lease, and the API handlers    *)
(* that enqueue them.                                                      *)
(*                                                                         *)
(* One action is one database transaction, or one event that ends an       *)
(* attempt.  Row locks (FOR UPDATE) make a transaction atomic; what is NOT *)
(* atomic is the sequence of transactions of one attempt: claim, project   *)
(* lock, load, publish, unlock, complete.                                  *)
(*                                                                         *)
(* Time.  The code stores available_at and lock_expires_at and compares    *)
(* them with the clock of whichever process runs the transaction, read     *)
(* before the row lock is granted.  A row keeps, in "due", the seconds     *)
(* left until the instant that matters for its status; a reading of the    *)
(* clock that is e seconds off sees the instant as passed iff due <= e.    *)
(* Skew bounds |e|: the difference between two hosts' clocks plus the wait *)
(* for a row lock.  The countdown stops at -Skew, where every reading      *)
(* agrees that the instant has passed, so time itself is unbounded.        *)
(***************************************************************************)
EXTENDS Integers, FiniteSets

CONSTANTS
    Projects,       \* project ids
    Jobs,           \* ids of lifecycle jobs (bounds the operations requested)
    Workers,        \* lifecycle worker processes
    MaxAttempts,    \* max_attempts of a job (5 in the code)
    Lease,          \* lifecycle_worker_lease_seconds
    Delays,         \* the values retry_delay may return
    Skew,           \* largest error of a clock reading
    NoJob, NoWorker, NoProject  \* null values

ASSUME AttemptsAssumption == MaxAttempts \in Nat \ {0}
ASSUME LeaseAssumption == Lease \in Nat \ {0}
ASSUME DelaysAssumption == Delays \subseteq Nat
ASSUME SkewAssumption == Skew \in Nat
ASSUME NullsAssumption ==
    NoJob \notin Jobs /\ NoWorker \notin Workers /\ NoProject \notin Projects

VARIABLES
    project,      \* projects.lifecycle_status, "ABSENT" before the row exists
    job,          \* the rows of project_lifecycle_jobs
    worker,       \* what each worker process holds in memory
    projectLock,  \* holder of the advisory lock conductor.project_provision:<id>
    failures      \* number of "failed" audit events written for each job

vars == <<project, job, worker, projectLock, failures>>

ClockErrors == (-Skew) .. Skew

ProjectStatuses ==
    {"ABSENT", "PROVISIONING", "READY", "PROVISION_FAILED", "DELETING", "DELETION_FAILED"}
ActiveStatuses == {"PENDING", "RUNNING", "RETRY_WAIT"}
TerminalStatuses == {"SUCCEEDED", "FAILED"}
Operations == {"PROVISION", "DELETE"}

\* Only the provision runner is registered.
RegisteredRunners == {"PROVISION"}

\* Statuses from which _load_claimed_state lets a provision attempt go on.
Resumable == {"PROVISIONING", "PROVISION_FAILED"}

\* Statuses in which a deletion may be requested.
DeleteInitialStates == {"READY", "PROVISION_FAILED", "DELETION_FAILED"}

\* The pcs at which the runner task and the heartbeat task are alive, and those
\* at which the runner holds the project's advisory lock.
LockedPcs == {"loading", "provisioning", "published"}
RunnerPcs == {"waiting"} \cup LockedPcs
Pcs == {"idle", "completing", "reporting"} \cup RunnerPcs

\* The "due" of a row that waits for no instant: lock_expires_at is NULL.
Unset == 0

NoRow == [status |-> "ABSENT", operation |-> "NONE", project |-> NoProject,
          attempt |-> 0, lockedBy |-> NoWorker, due |-> Unset]

Idle == [pc |-> "idle", job |-> NoJob, attempt |-> 0, error |-> "none"]

JobRows ==
    [status : ActiveStatuses \cup TerminalStatuses \cup {"ABSENT"},
     operation : Operations \cup {"NONE"},
     project : Projects \cup {NoProject},
     attempt : 0 .. MaxAttempts,
     lockedBy : Workers \cup {NoWorker},
     due : Int]

WorkerStates ==
    [pc : Pcs, job : Jobs \cup {NoJob}, attempt : 0 .. MaxAttempts,
     error : {"none", "transient", "permanent"}]

(***************************************************************************)
(* Projects that predate the lifecycle tables are PROVISION_FAILED and     *)
(* have no job; every other project does not exist yet.                    *)
(***************************************************************************)
Init ==
    /\ project \in [Projects -> {"ABSENT", "PROVISION_FAILED"}]
    /\ job = [j \in Jobs |-> NoRow]
    /\ worker = [w \in Workers |-> Idle]
    /\ projectLock = [p \in Projects |-> NoWorker]
    /\ failures = [j \in Jobs |-> 0]

-----------------------------------------------------------------------------
Active(j) == job[j].status \in ActiveStatuses

\* Mutant: the index is missing, or covers pending rows only.
IndexAdmitsAny(p) == TRUE
IndexCoversPending(p) ==
    \A j \in Jobs : job[j].project = p => job[j].status # "PENDING"

\* The partial unique index uq_project_lifecycle_jobs_active_project admits a
\* new active row for p: an INSERT that it refuses rolls the request back.
IndexAdmits(p) == \A j \in Jobs : job[j].project = p => ~Active(j)

\* Mutants: a running row is claimed without regard to its lease, or never.
DueIgnoringLease(j, e) == Active(j) /\ (job[j].status = "RUNNING" \/ job[j].due <= e)
DueNeverRunning(j, e) == Active(j) /\ job[j].status # "RUNNING" /\ job[j].due <= e

\* A pending or waiting row that is available, or a running row whose lease has
\* expired, for a clock reading with error e.
Due(j, e) == Active(j) /\ job[j].due <= e

\* Mutant: ownership is the attempt number alone.
OwnsByAttempt(w, e) ==
    worker[w].job # NoJob /\ job[worker[w].job].attempt = worker[w].attempt

\* worker w still owns, on a clock reading with error e, the job it claimed.
Owns(w, e) ==
    LET row == job[worker[w].job] IN
    /\ worker[w].job # NoJob
    /\ row.status = "RUNNING"
    /\ row.lockedBy = w
    /\ row.attempt = worker[w].attempt
    /\ row.due > e

\* Insert a pending job for p, available at the API server's clock reading.
Enqueue(j, p, op, e) ==
    /\ job[j].status = "ABSENT"
    /\ IndexAdmits(p)
    /\ job' = [job EXCEPT ![j] =
                 [status |-> "PENDING", operation |-> op, project |-> p,
                  attempt |-> 0, lockedBy |-> NoWorker, due |-> e]]

\* Mutants: the project row is left alone, or every failure is a failed provision.
FailJobOnly(j) ==
    /\ job' = [job EXCEPT ![j] = [job[j] EXCEPT !.status = "FAILED",
                                                !.lockedBy = NoWorker, !.due = Unset]]
    /\ failures' = [failures EXCEPT ![j] = failures[j] + 1]
    /\ UNCHANGED project
FailJobAsProvision(j) ==
    /\ job' = [job EXCEPT ![j] = [job[j] EXCEPT !.status = "FAILED",
                                                !.lockedBy = NoWorker, !.due = Unset]]
    /\ failures' = [failures EXCEPT ![j] = failures[j] + 1]
    /\ project' = [project EXCEPT ![job[j].project] = "PROVISION_FAILED"]

\* A terminal failure: the job row, the project row and the audit event, in one
\* transaction.
FailJob(j) ==
    /\ job' = [job EXCEPT ![j] = [job[j] EXCEPT !.status = "FAILED",
                                                !.lockedBy = NoWorker,
                                                !.due = Unset]]
    /\ project' = [project EXCEPT ![job[j].project] =
                     IF job[j].operation = "PROVISION"
                       THEN "PROVISION_FAILED" ELSE "DELETION_FAILED"]
    /\ failures' = [failures EXCEPT ![j] = failures[j] + 1]

\* Give up the advisory lock, when w holds one: the finally of _project_lock, or
\* the end of the connection that held it.
ReleaseProjectLock(w) ==
    projectLock' = [p \in Projects |->
                      IF projectLock[p] = w THEN NoWorker ELSE projectLock[p]]

GoIdle(w) == worker' = [worker EXCEPT ![w] = Idle]
GoTo(w, pc) == worker' = [worker EXCEPT ![w] = [worker[w] EXCEPT !.pc = pc]]

\* The attempt is over with an error that process_one_job will report.
Report(w, error) ==
    /\ worker' = [worker EXCEPT ![w] =
                    [worker[w] EXCEPT !.pc = "reporting", !.error = error]]
    /\ ReleaseProjectLock(w)

\* The attempt is over with a JobOwnershipError: nothing is written.
AbandonAttempt(w) ==
    /\ GoIdle(w)
    /\ ReleaseProjectLock(w)
    /\ UNCHANGED <<project, job, failures>>

-----------------------------------------------------------------------------
(***************************************************************************)
(* API handlers.  A replayed idempotency key and a refused request write   *)
(* nothing, so only accepted requests are steps.                           *)
(***************************************************************************)
CreateProject(p, j, e) ==
    /\ project[p] = "ABSENT"
    /\ Enqueue(j, p, "PROVISION", e)
    /\ project' = [project EXCEPT ![p] = "PROVISIONING"]
    /\ UNCHANGED <<worker, projectLock, failures>>

\* The request names a failed provision operation of the project.
RetryProvision(p, j, e) ==
    /\ project[p] = "PROVISION_FAILED"
    /\ \E k \in Jobs : /\ job[k].project = p
                       /\ job[k].operation = "PROVISION"
                       /\ job[k].status = "FAILED"
    /\ Enqueue(j, p, "PROVISION", e)
    /\ project' = [project EXCEPT ![p] = "PROVISIONING"]
    /\ UNCHANGED <<worker, projectLock, failures>>

\* The re-authentication grant the handler also consumes is modelled in a module
\* of its own; here a grant is always at hand.
RequestDeletion(p, j, e) ==
    /\ project[p] \in DeleteInitialStates
    /\ Enqueue(j, p, "DELETE", e)
    /\ project' = [project EXCEPT ![p] = "DELETING"]
    /\ UNCHANGED <<worker, projectLock, failures>>

-----------------------------------------------------------------------------
(***************************************************************************)
(* Worker.  FOR UPDATE SKIP LOCKED passes over a row that another          *)
(* transaction holds, so a worker may take any due row, not only the       *)
(* first one in available_at order.                                        *)
(***************************************************************************)
\* Mutant: an expired job is always claimed again.
FinalAttemptIgnored(j) == FALSE

FinalAttemptExpired(j) == job[j].status = "RUNNING" /\ job[j].attempt >= MaxAttempts

Claim(w, j, e) ==
    /\ worker[w].pc = "idle"
    /\ Due(j, e)
    /\ ~FinalAttemptExpired(j)
    /\ job' = [job EXCEPT ![j] = [job[j] EXCEPT !.status = "RUNNING",
                                                !.attempt = job[j].attempt + 1,
                                                !.lockedBy = w,
                                                !.due = Lease + e]]
    \* resolve() raises before either task exists when no runner is registered.
    /\ worker' = [worker EXCEPT ![w] =
                    IF job[j].operation \in RegisteredRunners
                      THEN [pc |-> "waiting", job |-> j,
                            attempt |-> job[j].attempt + 1, error |-> "none"]
                      ELSE [pc |-> "reporting", job |-> j,
                            attempt |-> job[j].attempt + 1, error |-> "permanent"]]
    /\ UNCHANGED <<project, projectLock, failures>>

\* claim_next_job fails the job and goes on to look for the next one.
ExpireFinalAttempt(w, j, e) ==
    /\ worker[w].pc = "idle"
    /\ Due(j, e)
    /\ FinalAttemptExpired(j)
    /\ FailJob(j)
    /\ UNCHANGED <<worker, projectLock>>

\* Mutant: no lock is taken, as on a database other than PostgreSQL.
AcquireNothing(w) ==
    /\ worker[w].pc = "waiting"
    /\ GoTo(w, "loading")
    /\ UNCHANGED <<project, job, projectLock, failures>>

\* pg_advisory_lock waits, with no timeout, for the attempt that holds the lock.
AcquireProjectLock(w) ==
    /\ worker[w].pc = "waiting"
    /\ projectLock[job[worker[w].job].project] = NoWorker
    /\ projectLock' = [projectLock EXCEPT ![job[worker[w].job].project] = w]
    /\ GoTo(w, "loading")
    /\ UNCHANGED <<project, job, failures>>

\* Mutant: the project's status is not looked at.
LoadAnyState(w, e) ==
    /\ worker[w].pc = "loading"
    /\ Owns(w, e)
    /\ GoTo(w, "provisioning")
    /\ UNCHANGED <<project, job, projectLock, failures>>

LoadClaimedState(w, e) ==
    /\ worker[w].pc = "loading"
    /\ Owns(w, e)
    /\ \/ /\ project[job[worker[w].job].project] \in Resumable
          /\ GoTo(w, "provisioning")
          /\ UNCHANGED projectLock
       \/ /\ project[job[worker[w].job].project] \notin Resumable
          /\ Report(w, "permanent")
    /\ UNCHANGED <<project, job, failures>>

\* A fenced transaction of the runner, or a heartbeat, finds the lease gone.
LoseOwnership(w, e) ==
    /\ worker[w].pc \in RunnerPcs
    /\ ~Owns(w, e)
    /\ AbandonAttempt(w)

PublishReady(w, e) ==
    /\ worker[w].pc = "provisioning"
    /\ Owns(w, e)
    /\ project[job[worker[w].job].project] \in Resumable
    /\ project' = [project EXCEPT ![job[worker[w].job].project] = "READY"]
    /\ GoTo(w, "published")
    /\ UNCHANGED <<job, projectLock, failures>>

\* provision() leaves the project lock and the runner task is done.
ReturnFromRunner(w) ==
    /\ worker[w].pc = "published"
    /\ GoTo(w, "completing")
    /\ ReleaseProjectLock(w)
    /\ UNCHANGED <<project, job, failures>>

\* A step of the saga raises; or a database error ends the heartbeat task, the
\* wait for the advisory lock or the unlock, whatever the runner has done.
AttemptFails(w, error) ==
    /\ worker[w].pc \in RunnerPcs
    /\ error = "permanent" => worker[w].pc = "provisioning"
    /\ Report(w, error)
    /\ UNCHANGED <<project, job, failures>>

Heartbeat(w, e) ==
    /\ worker[w].pc \in RunnerPcs
    /\ Owns(w, e)
    /\ job' = [job EXCEPT ![worker[w].job] =
                 [job[worker[w].job] EXCEPT !.due = Lease + e]]
    /\ UNCHANGED <<project, worker, projectLock, failures>>

CompleteJob(w, e) ==
    /\ worker[w].pc = "completing"
    /\ job' = IF Owns(w, e)
                THEN [job EXCEPT ![worker[w].job] =
                        [job[worker[w].job] EXCEPT !.status = "SUCCEEDED",
                                                   !.lockedBy = NoWorker,
                                                   !.due = Unset]]
                ELSE job
    /\ GoIdle(w)
    /\ UNCHANGED <<project, projectLock, failures>>

ScheduleRetry(j, delay, e) ==
    /\ job' = [job EXCEPT ![j] = [job[j] EXCEPT !.status = "RETRY_WAIT",
                                                !.lockedBy = NoWorker,
                                                !.due = delay + e]]
    /\ UNCHANGED <<project, failures>>

RetryOrFailJob(w, e, delay) ==
    LET j == worker[w].job
        terminal == worker[w].error = "permanent" \/ job[j].attempt >= MaxAttempts
    IN
    /\ worker[w].pc = "reporting"
    /\ \/ ~Owns(w, e) /\ UNCHANGED <<project, job, failures>>
       \/ Owns(w, e) /\ terminal /\ FailJob(j)
       \/ Owns(w, e) /\ ~terminal /\ ScheduleRetry(j, delay, e)
    /\ GoIdle(w)
    /\ UNCHANGED projectLock

\* The process dies, also of an exception that process_one_job does not catch,
\* and is restarted as a new incarnation that knows nothing of its claim.
Crash(w) ==
    /\ worker[w].pc # "idle"
    /\ AbandonAttempt(w)

Tick ==
    /\ job' = [j \in Jobs |->
                 IF Active(j) /\ job[j].due > -Skew
                   THEN [job[j] EXCEPT !.due = job[j].due - 1] ELSE job[j]]
    /\ UNCHANGED <<project, worker, projectLock, failures>>

-----------------------------------------------------------------------------
ApiStep ==
    \E p \in Projects, j \in Jobs, e \in ClockErrors :
        CreateProject(p, j, e) \/ RetryProvision(p, j, e) \/ RequestDeletion(p, j, e)

\* What a worker that keeps running, and whose commands terminate, does next.
WorkerStep(w) ==
    \/ \E j \in Jobs, e \in ClockErrors : Claim(w, j, e) \/ ExpireFinalAttempt(w, j, e)
    \/ AcquireProjectLock(w)
    \/ \E e \in ClockErrors :
          \/ LoadClaimedState(w, e)
          \/ LoseOwnership(w, e)
          \/ PublishReady(w, e)
          \/ CompleteJob(w, e)
          \/ \E delay \in Delays : RetryOrFailJob(w, e, delay)
    \/ ReturnFromRunner(w)

\* What may also happen to it.
WorkerEvent(w) ==
    \/ \E error \in {"transient", "permanent"} : AttemptFails(w, error)
    \/ \E e \in ClockErrors : Heartbeat(w, e)
    \/ Crash(w)

Next ==
    \/ ApiStep
    \/ \E w \in Workers : WorkerStep(w) \/ WorkerEvent(w)
    \/ Tick

Spec == Init /\ [][Next]_vars

\* Time passes; a worker that can go on does, or is restarted by Compose
\* (restart: unless-stopped); its external commands terminate.
Fairness == WF_vars(Tick) /\ \A w \in Workers : WF_vars(WorkerStep(w))

FairSpec == Spec /\ Fairness

-----------------------------------------------------------------------------
(***************************************************************************)
(* Properties                                                              *)
(***************************************************************************)

\* Every variable has its type; in particular no job is attempted more than
\* max_attempts times, whatever expires, crashes or is retried.
TypeOK ==
    /\ project \in [Projects -> ProjectStatuses]
    /\ job \in [Jobs -> JobRows]
    /\ worker \in [Workers -> WorkerStates]
    /\ projectLock \in [Projects -> Workers \cup {NoWorker}]
    /\ failures \in [Jobs -> Nat]

\* The claim of w is the latest one of its job and the job still runs under it,
\* expired or not.
CurrentClaim(w) ==
    LET row == job[worker[w].job] IN
    /\ worker[w].job # NoJob
    /\ row.status = "RUNNING"
    /\ row.lockedBy = w
    /\ row.attempt = worker[w].attempt

\* A project has at most one unsettled job: the concurrent requests and the
\* retries of one project never leave two operations that both will be run.
OneActiveJob ==
    \A j, k \in Jobs :
        Active(j) /\ Active(k) /\ job[j].project = job[k].project => j = k

\* The status of a project agrees with its unsettled job.  A PROVISIONING or
\* DELETING project always has the job that will move it on (no crash, expiry
\* or refused request strands it), and a failed project has none.
StatusMatchesJob ==
    \A p \in Projects :
        LET pending(op) == \E j \in Jobs : /\ Active(j)
                                           /\ job[j].project = p
                                           /\ job[j].operation = op
        IN
        /\ project[p] = "PROVISIONING" => pending("PROVISION")
        /\ project[p] = "DELETING" <=> pending("DELETE")
        /\ project[p] \in {"ABSENT", "PROVISION_FAILED", "DELETION_FAILED"}
             => ~pending("PROVISION")

\* At most one attempt at a time works on a project's runtime: an attempt whose
\* lease expired keeps the advisory lock, and the attempt that superseded it, or
\* one of a later job of the project, waits for it.
OneProvisioner ==
    \A v, w \in Workers :
        /\ worker[v].pc \in LockedPcs
        /\ worker[w].pc \in LockedPcs
        /\ job[worker[v].job].project = job[worker[w].job].project
        => v = w

\* The transition check of _publish_ready never refuses: an attempt that owns its
\* job and is past _load_claimed_state finds the project PROVISIONING.
PublishNotRefused ==
    \A w \in Workers :
        worker[w].pc = "provisioning" /\ CurrentClaim(w)
            => project[job[worker[w].job].project] = "PROVISIONING"

\* A job whose runner published keeps the project READY until the job settles:
\* nobody deletes, fails or re-provisions the project between the commit of
\* _publish_ready and the commit of complete_job.
ReadyUntilCompleted ==
    \A w \in Workers :
        worker[w].pc \in {"published", "completing"} /\ CurrentClaim(w)
            => project[job[worker[w].job].project] = "READY"

\* A failed job has exactly one "failed" audit event, any other job none: the
\* report of an attempt that lost its lease never fails a job a second time.
FailureAuditedOnce ==
    \A j \in Jobs : failures[j] = IF job[j].status = "FAILED" THEN 1 ELSE 0

\* A settled job is never written again: no late worker reopens, completes or
\* fails it.
SettledJobsStay ==
    [][\A j \in Jobs : job[j].status \in TerminalStatuses => job'[j] = job[j]]_vars

\* A lease that is live on every clock is given up by its owner only: another
\* worker neither claims nor settles the job.
LiveLeaseNotTaken ==
    [][\A j \in Jobs :
          LET owner == job[j].lockedBy IN
          /\ job[j].status = "RUNNING"
          /\ job[j].due > Skew
          /\ job'[j].lockedBy # owner
          => /\ worker[owner].job = j
             /\ worker[owner].pc \in {"completing", "reporting"}
             /\ worker'[owner].pc = "idle"]_vars

\* A project's status moves only along _ALLOWED_TRANSITIONS (a new project starts
\* PROVISIONING).
AllowedTransitions ==
    {<<"PROVISIONING", "READY">>, <<"PROVISIONING", "PROVISION_FAILED">>,
     <<"PROVISION_FAILED", "PROVISIONING">>, <<"READY", "DELETING">>,
     <<"PROVISION_FAILED", "DELETING">>, <<"DELETING", "DELETION_FAILED">>,
     <<"DELETION_FAILED", "DELETING">>}

OnlyAllowedTransitions ==
    [][\A p \in Projects :
          project[p] # "ABSENT" /\ project'[p] # project[p]
              => <<project[p], project'[p]>> \in AllowedTransitions]_vars

\* Every accepted operation settles, so every project leaves PROVISIONING and
\* DELETING: attempts are bounded, leases expire, and a crashed worker's job is
\* claimed again.
OperationsSettle ==
    \A j \in Jobs : Active(j) ~> job[j].status \in TerminalStatuses

\* The queue implements the operations the API promises.
OpState(row) ==
    IF row.status \in ActiveStatuses THEN "active"
    ELSE IF row.status = "SUCCEEDED" THEN "succeeded"
    ELSE IF row.status = "FAILED" THEN "failed" ELSE "none"

OpView == [j \in Jobs |-> [state |-> OpState(job[j]), kind |-> job[j].operation,
                           project |-> job[j].project]]

Promise == INSTANCE ProjectOperations
             WITH Ops <- Jobs, status <- project, op <- OpView

ImplementsPromise == Promise!Spec
=============================================================================
