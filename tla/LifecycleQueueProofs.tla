------------------------ MODULE LifecycleQueueProofs ------------------------
(***************************************************************************)
(* Proofs about LifecycleQueue, for every set of projects, jobs and        *)
(* workers and every max_attempts, lease, delay and clock error.           *)
(***************************************************************************)
EXTENDS LifecycleQueue, TLAPS

(***************************************************************************)
(* The inductive invariant.                                                *)
(***************************************************************************)
\* A row names a project and an operation iff it exists, is locked exactly while
\* it runs, and has an attempt left while it waits.
RowsOK ==
    \A j \in Jobs :
        /\ job[j].status # "ABSENT" => /\ job[j].project \in Projects
                                       /\ job[j].operation \in Operations
        /\ job[j].status = "ABSENT" => /\ job[j].project = NoProject
                                       /\ job[j].operation = "NONE"
        /\ job[j].status = "RUNNING" <=> job[j].lockedBy # NoWorker
        /\ job[j].status \in {"PENDING", "RETRY_WAIT"} => job[j].attempt < MaxAttempts

\* What a worker remembers of its claim.
ClaimsOK ==
    \A w \in Workers :
        /\ worker[w].pc = "idle" <=> worker[w].job = NoJob
        /\ worker[w].pc # "idle" => job[worker[w].job].status # "ABSENT"
        /\ worker[w].pc \in RunnerPcs \cup {"completing"}
             => job[worker[w].job].operation = "PROVISION"

\* A runner past the advisory lock holds it.
LocksOK ==
    \A w \in Workers :
        worker[w].pc \in LockedPcs => projectLock[job[worker[w].job].project] = w

\* The status of a project as its unsettled job implies it, and conversely.
JobImpliesStatus ==
    \A j \in Jobs : Active(j) =>
        \/ /\ job[j].operation = "PROVISION"
           /\ project[job[j].project] \in {"PROVISIONING", "READY"}
        \/ /\ job[j].operation = "DELETE"
           /\ project[job[j].project] = "DELETING"

StatusImpliesJob ==
    \A p \in Projects :
        project[p] \in {"PROVISIONING", "DELETING"} =>
            \E j \in Jobs : /\ Active(j)
                            /\ job[j].project = p
                            /\ job[j].operation = IF project[p] = "DELETING"
                                                    THEN "DELETE" ELSE "PROVISION"

IInv ==
    /\ TypeOK
    /\ RowsOK
    /\ ClaimsOK
    /\ LocksOK
    /\ OneActiveJob
    /\ JobImpliesStatus
    /\ StatusImpliesJob
    /\ PublishNotRefused
    /\ ReadyUntilCompleted
    /\ FailureAuditedOnce

-----------------------------------------------------------------------------
USE AttemptsAssumption, LeaseAssumption, DelaysAssumption, SkewAssumption,
    NullsAssumption
USE DEF ActiveStatuses, TerminalStatuses, Operations, RegisteredRunners,
        Resumable, DeleteInitialStates, LockedPcs, RunnerPcs, Pcs, ClockErrors,
        ProjectStatuses

\* The initial states satisfy the invariant.
LEMMA InitIInv == Init => IInv
<1> SUFFICES ASSUME Init PROVE IInv
  OBVIOUS
<1>1. TypeOK
  BY DEF Init, TypeOK, JobRows, WorkerStates, NoRow, Unset, Idle
<1>2. RowsOK /\ ClaimsOK /\ LocksOK
  BY DEF Init, RowsOK, ClaimsOK, LocksOK, NoRow, Idle
<1>3. OneActiveJob /\ JobImpliesStatus /\ StatusImpliesJob
  BY DEF Init, OneActiveJob, JobImpliesStatus, StatusImpliesJob, Active, NoRow
<1>4. PublishNotRefused /\ ReadyUntilCompleted /\ FailureAuditedOnce
  BY DEF Init, PublishNotRefused, ReadyUntilCompleted, FailureAuditedOnce,
         CurrentClaim, NoRow, Idle
<1> QED BY <1>1, <1>2, <1>3, <1>4 DEF IInv

\* The record types, one shape of update at a time.
LEMMA RowFields ==
  ASSUME NEW r \in JobRows
  PROVE  /\ r.attempt \in 0 .. MaxAttempts
         /\ r.due \in Int
         /\ r.project \in Projects \cup {NoProject}
         /\ r.lockedBy \in Workers \cup {NoWorker}
  BY DEF JobRows

LEMMA PendingRow ==
  ASSUME NEW p \in Projects, NEW op \in Operations, NEW e \in Int
  PROVE  [status |-> "PENDING", operation |-> op, project |-> p,
          attempt |-> 0, lockedBy |-> NoWorker, due |-> e] \in JobRows
  BY DEF JobRows

LEMMA RunningRow ==
  ASSUME NEW r \in JobRows, NEW n \in 0 .. MaxAttempts, NEW w \in Workers, NEW d \in Int
  PROVE  [r EXCEPT !.status = "RUNNING", !.attempt = n, !.lockedBy = w, !.due = d]
           \in JobRows
  BY DEF JobRows

LEMMA UnlockedRow ==
  ASSUME NEW r \in JobRows, NEW d \in Int
  PROVE  /\ [r EXCEPT !.status = "SUCCEEDED", !.lockedBy = NoWorker, !.due = d] \in JobRows
         /\ [r EXCEPT !.status = "FAILED", !.lockedBy = NoWorker, !.due = d] \in JobRows
         /\ [r EXCEPT !.status = "RETRY_WAIT", !.lockedBy = NoWorker, !.due = d] \in JobRows
  BY DEF JobRows

LEMMA UnsetIsInt == Unset \in Int
  BY DEF Unset

LEMMA DueRow ==
  ASSUME NEW r \in JobRows, NEW d \in Int
  PROVE  [r EXCEPT !.due = d] \in JobRows
  BY DEF JobRows

LEMMA WorkerFields ==
  ASSUME NEW s \in WorkerStates
  PROVE  /\ s.pc \in Pcs
         /\ s.job \in Jobs \cup {NoJob}
         /\ s.attempt \in 0 .. MaxAttempts
  BY DEF WorkerStates

LEMMA IdleWorker == Idle \in WorkerStates
  BY DEF WorkerStates, Idle

LEMMA ClaimingWorker ==
  ASSUME NEW j \in Jobs, NEW n \in 0 .. MaxAttempts
  PROVE  /\ [pc |-> "waiting", job |-> j, attempt |-> n, error |-> "none"]
              \in WorkerStates
         /\ [pc |-> "reporting", job |-> j, attempt |-> n, error |-> "permanent"]
              \in WorkerStates
  BY DEF WorkerStates

LEMMA MovingWorker ==
  ASSUME NEW s \in WorkerStates, NEW pc \in Pcs
  PROVE  [s EXCEPT !.pc = pc] \in WorkerStates
  BY DEF WorkerStates

LEMMA ReportingWorker ==
  ASSUME NEW s \in WorkerStates, NEW error \in {"transient", "permanent"}
  PROVE  [s EXCEPT !.pc = "reporting", !.error = error] \in WorkerStates
  BY DEF WorkerStates

\* Types, and the bound on attempts, are preserved by every step.
LEMMA TypeStep == TypeOK /\ RowsOK /\ ClaimsOK /\ [Next]_vars => TypeOK'
<1> SUFFICES ASSUME TypeOK, RowsOK, ClaimsOK, [Next]_vars PROVE TypeOK'
  OBVIOUS
<1> USE DEF TypeOK
<1>1. ASSUME NEW p \in Projects, NEW j \in Jobs, NEW e \in ClockErrors,
             CreateProject(p, j, e) \/ RetryProvision(p, j, e) \/ RequestDeletion(p, j, e)
      PROVE TypeOK'
  BY <1>1, PendingRow DEF CreateProject, RetryProvision, RequestDeletion, Enqueue
<1>2. ASSUME NEW w \in Workers, NEW j \in Jobs, NEW e \in ClockErrors, Claim(w, j, e)
      PROVE TypeOK'
  <2>1. job[j] \in JobRows /\ job[j].attempt < MaxAttempts
    BY <1>2, RowFields DEF Claim, Due, Active, FinalAttemptExpired, RowsOK
  <2>2. job[j].attempt + 1 \in 0 .. MaxAttempts /\ Lease + e \in Int
    BY <2>1, RowFields
  <2>3. job' \in [Jobs -> JobRows]
    BY <1>2, <2>1, <2>2, RunningRow DEF Claim
  <2>4. worker' \in [Workers -> WorkerStates]
    BY <1>2, <2>2, ClaimingWorker DEF Claim
  <2> QED BY <1>2, <2>3, <2>4 DEF Claim
<1>3. ASSUME NEW w \in Workers, NEW j \in Jobs, NEW e \in ClockErrors,
             ExpireFinalAttempt(w, j, e)
      PROVE TypeOK'
  <2>1. job[j] \in JobRows
    OBVIOUS
  <2>2. [job[j] EXCEPT !.status = "FAILED", !.lockedBy = NoWorker, !.due = Unset] \in JobRows
    BY <2>1, UnlockedRow, UnsetIsInt
  <2>3. job' \in [Jobs -> JobRows] /\ failures' \in [Jobs -> Nat]
    BY <1>3, <2>2 DEF ExpireFinalAttempt, FailJob
  <2>4. project' \in [Projects -> ProjectStatuses]
    BY <1>3 DEF ExpireFinalAttempt, FailJob
  <2> QED BY <1>3, <2>3, <2>4 DEF ExpireFinalAttempt
<1>4. ASSUME NEW w \in Workers, AcquireProjectLock(w)
      PROVE TypeOK'
  BY <1>4, MovingWorker DEF AcquireProjectLock, GoTo
<1>5. ASSUME NEW w \in Workers, NEW e \in ClockErrors, LoadClaimedState(w, e)
      PROVE TypeOK'
  <2>1. /\ [worker[w] EXCEPT !.pc = "provisioning"] \in WorkerStates
        /\ [worker[w] EXCEPT !.pc = "reporting", !.error = "permanent"] \in WorkerStates
    BY MovingWorker, ReportingWorker
  <2> QED BY <1>5, <2>1 DEF LoadClaimedState, GoTo, Report, ReleaseProjectLock
<1>6. ASSUME NEW w \in Workers, NEW e \in ClockErrors, LoseOwnership(w, e) \/ Crash(w)
      PROVE TypeOK'
  BY <1>6, IdleWorker
     DEF LoseOwnership, Crash, AbandonAttempt, GoIdle, ReleaseProjectLock
<1>7. ASSUME NEW w \in Workers, NEW e \in ClockErrors, PublishReady(w, e)
      PROVE TypeOK'
  BY <1>7, MovingWorker DEF PublishReady, GoTo
<1>8. ASSUME NEW w \in Workers, ReturnFromRunner(w)
      PROVE TypeOK'
  BY <1>8, MovingWorker DEF ReturnFromRunner, GoTo, ReleaseProjectLock
<1>9. ASSUME NEW w \in Workers, NEW error \in {"transient", "permanent"},
             AttemptFails(w, error)
      PROVE TypeOK'
  BY <1>9, ReportingWorker DEF AttemptFails, Report, ReleaseProjectLock
<1>10. ASSUME NEW w \in Workers, NEW e \in ClockErrors, Heartbeat(w, e)
       PROVE TypeOK'
  <2>1. worker[w].job \in Jobs /\ job[worker[w].job] \in JobRows /\ Lease + e \in Int
    BY <1>10, WorkerFields DEF Heartbeat, Owns
  <2>2. [job[worker[w].job] EXCEPT !.due = Lease + e] \in JobRows
    BY <2>1, DueRow
  <2> QED BY <1>10, <2>1, <2>2 DEF Heartbeat
<1>11. ASSUME NEW w \in Workers, NEW e \in ClockErrors, CompleteJob(w, e)
       PROVE TypeOK'
  <2>1. ASSUME Owns(w, e)
        PROVE  [job[worker[w].job] EXCEPT !.status = "SUCCEEDED", !.lockedBy = NoWorker,
                                          !.due = Unset] \in JobRows
    <3>1. job[worker[w].job] \in JobRows
      BY <2>1, WorkerFields DEF Owns
    <3> QED BY <3>1, UnlockedRow, UnsetIsInt
  <2> QED BY <1>11, <2>1, IdleWorker DEF CompleteJob, GoIdle
<1>12. ASSUME NEW w \in Workers, NEW e \in ClockErrors, NEW delay \in Delays,
              RetryOrFailJob(w, e, delay)
       PROVE TypeOK'
  <2> DEFINE j == worker[w].job
  <2>1. worker' \in [Workers -> WorkerStates] /\ projectLock' = projectLock
    BY <1>12, IdleWorker DEF RetryOrFailJob, GoIdle
  <2>2. CASE ~Owns(w, e) /\ UNCHANGED <<project, job, failures>>
    BY <2>1, <2>2
  <2>3. CASE Owns(w, e) /\ FailJob(j)
    <3>1. j \in Jobs /\ job[j] \in JobRows
      BY <2>3, WorkerFields DEF Owns
    <3>2. [job[j] EXCEPT !.status = "FAILED", !.lockedBy = NoWorker, !.due = Unset] \in JobRows
      BY <3>1, UnlockedRow, UnsetIsInt
    <3>3. job' \in [Jobs -> JobRows] /\ failures' \in [Jobs -> Nat]
      BY <2>3, <3>1, <3>2 DEF FailJob
    <3>4. project' \in [Projects -> ProjectStatuses]
      BY <2>3 DEF FailJob
    <3> QED BY <2>1, <3>3, <3>4
  <2>4. CASE Owns(w, e) /\ ScheduleRetry(j, delay, e)
    <3>1. j \in Jobs /\ job[j] \in JobRows /\ delay + e \in Int
      BY <2>4, WorkerFields DEF Owns
    <3>2. [job[j] EXCEPT !.status = "RETRY_WAIT", !.lockedBy = NoWorker,
                         !.due = delay + e] \in JobRows
      BY <3>1, UnlockedRow
    <3> QED BY <2>1, <2>4, <3>1, <3>2 DEF ScheduleRetry
  <2> QED BY <1>12, <2>2, <2>3, <2>4 DEF RetryOrFailJob
<1>13. CASE Tick
  <2>1. ASSUME NEW j \in Jobs
        PROVE  [job[j] EXCEPT !.due = job[j].due - 1] \in JobRows
    <3>1. job[j] \in JobRows
      OBVIOUS
    <3>2. job[j].due - 1 \in Int
      BY <3>1, RowFields
    <3> QED BY <3>1, <3>2, DueRow
  <2> QED BY <1>13, <2>1 DEF Tick
<1>14. CASE UNCHANGED vars
  BY <1>14 DEF vars
<1> QED
  BY <1>1, <1>2, <1>3, <1>4, <1>5, <1>6, <1>7, <1>8, <1>9, <1>10, <1>11, <1>12,
     <1>13, <1>14 DEF Next, ApiStep, WorkerStep, WorkerEvent

-----------------------------------------------------------------------------
(***************************************************************************)
(* What each update does to the fields of the rows and of the workers.     *)
(***************************************************************************)
LEMMA UpdatedRow ==
  ASSUME NEW r \in JobRows, NEW s, NEW n, NEW w, NEW d
  PROVE  /\ LET x == [r EXCEPT !.status = s, !.attempt = n, !.lockedBy = w, !.due = d]
            IN  /\ x.status = s /\ x.attempt = n /\ x.lockedBy = w
                /\ x.operation = r.operation /\ x.project = r.project
         /\ LET x == [r EXCEPT !.status = s, !.lockedBy = w, !.due = d]
            IN  /\ x.status = s /\ x.attempt = r.attempt /\ x.lockedBy = w
                /\ x.operation = r.operation /\ x.project = r.project
         /\ LET x == [r EXCEPT !.due = d]
            IN  /\ x.status = r.status /\ x.attempt = r.attempt
                /\ x.lockedBy = r.lockedBy
                /\ x.operation = r.operation /\ x.project = r.project
  BY DEF JobRows

LEMMA UpdatedWorker ==
  ASSUME NEW s \in WorkerStates, NEW pc, NEW error
  PROVE  /\ LET x == [s EXCEPT !.pc = pc]
            IN  x.pc = pc /\ x.job = s.job /\ x.attempt = s.attempt
         /\ LET x == [s EXCEPT !.pc = pc, !.error = error]
            IN  x.pc = pc /\ x.job = s.job /\ x.attempt = s.attempt
  BY DEF WorkerStates

(***************************************************************************)
(* Eight kinds of steps, by what they do to the rows, projects and workers.*)
(***************************************************************************)
\* Every row but j's is left alone; the row of j keeps its identity.
OthersKept(j) == \A k \in Jobs : k # j => job'[k] = job[k]
IdentityKept(j) == job'[j].operation = job[j].operation /\ job'[j].project = job[j].project

\* No worker does more than drop its claim.
QuietWorkers ==
    /\ projectLock' = projectLock
    /\ \A v \in Workers : worker'[v] = worker[v] \/ worker'[v] = Idle

\* The worker that holds the lease of j is done with it.
GivenUp(j) ==
    LET owner == job[j].lockedBy IN
    /\ worker[owner].job = j
    /\ worker[owner].pc \in {"completing", "reporting"}
    /\ worker'[owner].pc = "idle"

\* A failed provision of p, which a retry request can name.
RetryNamed(p) ==
    \E k \in Jobs :
        job[k].project = p /\ job[k].operation = "PROVISION" /\ job[k].status = "FAILED"

Requested(j, p) ==
    /\ job[j].status = "ABSENT"
    /\ job'[j].status = "PENDING"
    /\ job'[j].project = p
    /\ job'[j].attempt = 0
    /\ job'[j].lockedBy = NoWorker
    /\ OthersKept(j)
    /\ \A k \in Jobs : job[k].project = p => ~Active(k)
    /\ \A q \in Projects : q # p => project'[q] = project[q]
    /\ \/ /\ \/ project[p] = "ABSENT"
             \/ project[p] = "PROVISION_FAILED" /\ RetryNamed(p)
          /\ job'[j].operation = "PROVISION"
          /\ project'[p] = "PROVISIONING"
       \/ /\ project[p] \in DeleteInitialStates
          /\ job'[j].operation = "DELETE"
          /\ project'[p] = "DELETING"
    /\ UNCHANGED failures
    /\ QuietWorkers

Claimed(w, j) ==
    /\ worker[w].pc = "idle"
    /\ Active(j)
    /\ job[j].due <= Skew
    /\ job'[j].status = "RUNNING"
    /\ job'[j].lockedBy = w
    /\ IdentityKept(j)
    /\ OthersKept(j)
    /\ worker'[w].pc \in {"waiting", "reporting"}
    /\ worker'[w].pc = "waiting" => job[j].operation = "PROVISION"
    /\ worker'[w].job = j
    /\ \A v \in Workers : v # w => worker'[v] = worker[v]
    /\ UNCHANGED <<project, projectLock, failures>>

Failed(j) ==
    /\ job[j].status = "RUNNING"
    /\ job[j].due <= Skew \/ GivenUp(j)
    /\ job'[j].status = "FAILED"
    /\ job'[j].lockedBy = NoWorker
    /\ IdentityKept(j)
    /\ OthersKept(j)
    /\ project'[job[j].project] =
         IF job[j].operation = "PROVISION" THEN "PROVISION_FAILED" ELSE "DELETION_FAILED"
    /\ \A p \in Projects : p # job[j].project => project'[p] = project[p]
    /\ failures'[j] = failures[j] + 1
    /\ \A k \in Jobs : k # j => failures'[k] = failures[k]
    /\ QuietWorkers

Retried(j) ==
    /\ job[j].status = "RUNNING"
    /\ GivenUp(j)
    /\ job[j].attempt < MaxAttempts
    /\ job'[j].status = "RETRY_WAIT"
    /\ job'[j].lockedBy = NoWorker
    /\ job'[j].attempt = job[j].attempt
    /\ IdentityKept(j)
    /\ OthersKept(j)
    /\ UNCHANGED <<project, failures>>
    /\ QuietWorkers

Completed(w, j) ==
    /\ j = worker[w].job
    /\ worker[w].pc = "completing"
    /\ CurrentClaim(w)
    /\ GivenUp(j)
    /\ job'[j].status = "SUCCEEDED"
    /\ job'[j].lockedBy = NoWorker
    /\ IdentityKept(j)
    /\ OthersKept(j)
    /\ UNCHANGED <<project, failures>>
    /\ QuietWorkers

Moved(w) ==
    LET p == job[worker[w].job].project IN
    /\ worker[w].pc # "idle"
    /\ \/ worker'[w] = Idle
       \/ /\ worker'[w].job = worker[w].job
          /\ worker'[w].attempt = worker[w].attempt
          /\ \/ worker'[w].pc = "reporting"
             \/ worker[w].pc = "published" /\ worker'[w].pc = "completing"
             \/ /\ worker[w].pc = "waiting"
                /\ worker'[w].pc = "loading"
                /\ projectLock[p] = NoWorker
                /\ projectLock'[p] = w
             \/ /\ worker[w].pc = "loading"
                /\ worker'[w].pc = "provisioning"
                /\ CurrentClaim(w)
                /\ project[p] \in Resumable
                /\ UNCHANGED projectLock
    /\ \A v \in Workers : v # w => worker'[v] = worker[v]
    /\ \A q \in Projects :
          projectLock'[q] = projectLock[q] \/ projectLock[q] = w \/ projectLock[q] = NoWorker
    /\ UNCHANGED <<project, job, failures>>

Published(w) ==
    LET p == job[worker[w].job].project IN
    /\ worker[w].pc = "provisioning"
    /\ CurrentClaim(w)
    /\ worker'[w].pc = "published"
    /\ worker'[w].job = worker[w].job
    /\ worker'[w].attempt = worker[w].attempt
    /\ \A v \in Workers : v # w => worker'[v] = worker[v]
    /\ project'[p] = "READY"
    /\ \A q \in Projects : q # p => project'[q] = project[q]
    /\ UNCHANGED <<job, projectLock, failures>>

\* Time passes, a lease is renewed, or nothing happens.
SameButDue(k) ==
    /\ ~Active(k) => job'[k] = job[k]
    /\ job'[k].status = job[k].status
    /\ job'[k].attempt = job[k].attempt
    /\ job'[k].lockedBy = job[k].lockedBy
    /\ IdentityKept(k)

OnlyTime ==
    /\ \A k \in Jobs : SameButDue(k)
    /\ UNCHANGED <<project, worker, projectLock, failures>>

LEMMA ApiEffect ==
  ASSUME TypeOK, NEW j \in Jobs, NEW p \in Projects, NEW e \in ClockErrors,
         CreateProject(p, j, e) \/ RetryProvision(p, j, e) \/ RequestDeletion(p, j, e)
  PROVE  Requested(j, p)
<1>1. ASSUME NEW op, Enqueue(j, p, op, e)
      PROVE  /\ job[j].status = "ABSENT"
             /\ job'[j].status = "PENDING"
             /\ job'[j].operation = op
             /\ job'[j].project = p
             /\ job'[j].attempt = 0
             /\ job'[j].lockedBy = NoWorker
             /\ OthersKept(j)
             /\ \A k \in Jobs : job[k].project = p => ~Active(k)
  BY <1>1 DEF TypeOK, Enqueue, IndexAdmits, OthersKept
<1>2. QuietWorkers /\ UNCHANGED failures
  BY DEF CreateProject, RetryProvision, RequestDeletion, QuietWorkers
<1>3. CASE CreateProject(p, j, e) \/ RetryProvision(p, j, e)
  BY <1>1, <1>2, <1>3 DEF TypeOK, CreateProject, RetryProvision, Requested, RetryNamed
<1>4. CASE RequestDeletion(p, j, e)
  BY <1>1, <1>2, <1>4 DEF TypeOK, RequestDeletion, Requested
<1> QED BY <1>3, <1>4

LEMMA ClaimEffect ==
  ASSUME TypeOK, NEW w \in Workers, NEW j \in Jobs, NEW e \in ClockErrors,
         Claim(w, j, e)
  PROVE  Claimed(w, j)
<1>1. job[j] \in JobRows
  BY DEF TypeOK
<1>2. job' = [job EXCEPT ![j] = [job[j] EXCEPT !.status = "RUNNING",
                 !.attempt = job[j].attempt + 1, !.lockedBy = w, !.due = Lease + e]]
  BY DEF Claim
<1>3. /\ job'[j] = [job[j] EXCEPT !.status = "RUNNING", !.attempt = job[j].attempt + 1,
                                  !.lockedBy = w, !.due = Lease + e]
      /\ OthersKept(j)
  BY <1>2 DEF TypeOK, OthersKept
<1>4. job'[j].status = "RUNNING" /\ job'[j].lockedBy = w /\ IdentityKept(j)
  BY <1>1, <1>3, UpdatedRow DEF IdentityKept
<1>5. job[j].due <= Skew
  BY <1>1, RowFields DEF Claim, Due
<1> QED BY <1>3, <1>4, <1>5 DEF TypeOK, Claim, Due, Claimed

LEMMA FailEffect ==
  ASSUME TypeOK, NEW j \in Jobs, job[j].project \in Projects, job[j].status = "RUNNING",
         job[j].due <= Skew \/ GivenUp(j), FailJob(j), QuietWorkers
  PROVE  Failed(j)
<1>1. job[j] \in JobRows
  BY DEF TypeOK
<1>2. /\ job'[j] = [job[j] EXCEPT !.status = "FAILED", !.lockedBy = NoWorker, !.due = Unset]
      /\ OthersKept(j)
  BY DEF TypeOK, FailJob, OthersKept
<1>3. job'[j].status = "FAILED" /\ job'[j].lockedBy = NoWorker /\ IdentityKept(j)
  BY <1>1, <1>2, UpdatedRow DEF IdentityKept
<1> QED BY <1>2, <1>3 DEF TypeOK, FailJob, Failed

LEMMA RetryEffect ==
  ASSUME TypeOK, NEW j \in Jobs, NEW delay, NEW e, job[j].status = "RUNNING",
         job[j].attempt < MaxAttempts, GivenUp(j), ScheduleRetry(j, delay, e), QuietWorkers
  PROVE  Retried(j)
<1>1. job[j] \in JobRows
  BY DEF TypeOK
<1>2. /\ job'[j] = [job[j] EXCEPT !.status = "RETRY_WAIT", !.lockedBy = NoWorker,
                                  !.due = delay + e]
      /\ OthersKept(j)
  BY DEF TypeOK, ScheduleRetry, OthersKept
<1> DEFINE d == delay + e
<1> HIDE DEF d
<1>3. LET x == [job[j] EXCEPT !.status = "RETRY_WAIT", !.lockedBy = NoWorker, !.due = d]
      IN  /\ x.status = "RETRY_WAIT" /\ x.attempt = job[j].attempt
          /\ x.lockedBy = NoWorker
          /\ x.operation = job[j].operation /\ x.project = job[j].project
  BY <1>1, UpdatedRow
<1>4. job'[j] = [job[j] EXCEPT !.status = "RETRY_WAIT", !.lockedBy = NoWorker, !.due = d]
  BY <1>2 DEF d
<1> QED BY <1>2, <1>3, <1>4 DEF IdentityKept, ScheduleRetry, Retried

LEMMA CompleteEffect ==
  ASSUME TypeOK, NEW w \in Workers, NEW e, CompleteJob(w, e), Owns(w, e)
  PROVE  Completed(w, worker[w].job)
<1> DEFINE j == worker[w].job
<1>1. j \in Jobs /\ job[j] \in JobRows
  BY WorkerFields DEF TypeOK, Owns
<1>2. /\ job'[j] = [job[j] EXCEPT !.status = "SUCCEEDED", !.lockedBy = NoWorker,
                                  !.due = Unset]
      /\ OthersKept(j)
  BY <1>1 DEF TypeOK, CompleteJob, OthersKept
<1>3. job'[j].status = "SUCCEEDED" /\ job'[j].lockedBy = NoWorker /\ IdentityKept(j)
  BY <1>1, <1>2, UpdatedRow DEF IdentityKept
<1>4. QuietWorkers /\ GivenUp(j)
  BY DEF TypeOK, CompleteJob, GoIdle, Idle, Owns, QuietWorkers, GivenUp
<1> QED BY <1>2, <1>3, <1>4 DEF CompleteJob, Owns, CurrentClaim, Completed

LEMMA PublishEffect ==
  ASSUME TypeOK, NEW w \in Workers, NEW e, PublishReady(w, e),
         job[worker[w].job].project \in Projects
  PROVE  Published(w)
<1>1. worker[w] \in WorkerStates /\ worker'[w] = [worker[w] EXCEPT !.pc = "published"]
  BY DEF TypeOK, PublishReady, GoTo
<1>2. /\ worker'[w].pc = "published"
      /\ worker'[w].job = worker[w].job
      /\ worker'[w].attempt = worker[w].attempt
  BY <1>1, UpdatedWorker
<1> QED BY <1>2 DEF TypeOK, PublishReady, GoTo, Owns, CurrentClaim, Published

LEMMA TimeEffect ==
  ASSUME TypeOK,
         Tick \/ (\E w \in Workers, e \in ClockErrors : Heartbeat(w, e)) \/ UNCHANGED vars
  PROVE  OnlyTime
<1>1. ASSUME NEW k \in Jobs, NEW d,
             \/ job'[k] = job[k]
             \/ Active(k) /\ job'[k] = [job[k] EXCEPT !.due = d]
      PROVE  SameButDue(k)
  <2>1. job[k] \in JobRows
    BY DEF TypeOK
  <2>2. CASE job'[k] = job[k]
    BY <2>2 DEF SameButDue, IdentityKept
  <2>3. CASE Active(k) /\ job'[k] = [job[k] EXCEPT !.due = d]
    BY <2>1, <2>3, UpdatedRow DEF SameButDue, IdentityKept
  <2> QED BY <1>1, <2>2, <2>3
<1>2. CASE Tick
  <2>1. ASSUME NEW k \in Jobs
        PROVE  \/ job'[k] = job[k]
               \/ Active(k) /\ job'[k] = [job[k] EXCEPT !.due = job[k].due - 1]
    BY <1>2 DEF Tick
  <2> QED BY <1>1, <1>2, <2>1 DEF Tick, OnlyTime
<1>3. ASSUME NEW w \in Workers, NEW e \in ClockErrors, Heartbeat(w, e)
      PROVE  OnlyTime
  <2>1. ASSUME NEW k \in Jobs
        PROVE  \/ job'[k] = job[k]
               \/ Active(k) /\ job'[k] = [job[k] EXCEPT !.due = Lease + e]
    BY <1>3 DEF Heartbeat, Owns, Active, TypeOK
  <2> QED BY <1>1, <1>3, <2>1 DEF Heartbeat, OnlyTime
<1>4. CASE UNCHANGED vars
  BY <1>4 DEF vars, OnlyTime, SameButDue, IdentityKept
<1> QED BY <1>2, <1>3, <1>4

\* What an attempt that only moves on, or ends, does.
MoveStep(w) ==
    \/ AcquireProjectLock(w)
    \/ \E e \in ClockErrors : \/ LoadClaimedState(w, e)
                              \/ LoseOwnership(w, e)
                              \/ CompleteJob(w, e) /\ ~Owns(w, e)
                              \/ \E delay \in Delays :
                                    RetryOrFailJob(w, e, delay) /\ ~Owns(w, e)
    \/ ReturnFromRunner(w)
    \/ \E error \in {"transient", "permanent"} : AttemptFails(w, error)
    \/ Crash(w)

LEMMA MoveEffect ==
  ASSUME TypeOK, NEW w \in Workers, MoveStep(w), job[worker[w].job].project \in Projects
  PROVE  Moved(w)
<1> DEFINE p == job[worker[w].job].project
<1>1. worker[w] \in WorkerStates
  BY DEF TypeOK
<1>2. ASSUME NEW pc, GoTo(w, pc)
      PROVE  /\ worker'[w].pc = pc
             /\ worker'[w].job = worker[w].job
             /\ worker'[w].attempt = worker[w].attempt
             /\ \A v \in Workers : v # w => worker'[v] = worker[v]
  BY <1>1, <1>2, UpdatedWorker DEF TypeOK, GoTo
<1>3. ASSUME NEW error, Report(w, error)
      PROVE  /\ worker'[w].pc = "reporting"
             /\ worker'[w].job = worker[w].job
             /\ worker'[w].attempt = worker[w].attempt
             /\ \A v \in Workers : v # w => worker'[v] = worker[v]
  BY <1>1, <1>3, UpdatedWorker DEF TypeOK, Report
<1>4. ASSUME ReleaseProjectLock(w)
      PROVE  \A q \in Projects : projectLock'[q] = projectLock[q] \/ projectLock[q] = w
  BY <1>4 DEF ReleaseProjectLock
<1>5. CASE AcquireProjectLock(w)
  BY <1>2, <1>5 DEF TypeOK, AcquireProjectLock, Moved
<1>6. ASSUME NEW e \in ClockErrors, LoadClaimedState(w, e)
      PROVE  Moved(w)
  BY <1>2, <1>3, <1>4, <1>6
     DEF LoadClaimedState, Report, Moved, Owns, CurrentClaim
<1>7. ASSUME AbandonAttempt(w), worker[w].pc # "idle"
      PROVE  Moved(w)
  BY <1>4, <1>7 DEF TypeOK, AbandonAttempt, GoIdle, Moved
<1>8. ASSUME NEW e \in ClockErrors, CompleteJob(w, e), ~Owns(w, e)
      PROVE  Moved(w)
  BY <1>8 DEF TypeOK, CompleteJob, GoIdle, Moved
<1>9. CASE ReturnFromRunner(w)
  BY <1>2, <1>4, <1>9 DEF ReturnFromRunner, Moved
<1>10. ASSUME NEW error, AttemptFails(w, error)
       PROVE  Moved(w)
  BY <1>3, <1>4, <1>10 DEF AttemptFails, Report, Moved
<1>11. ASSUME NEW e \in ClockErrors, NEW delay \in Delays,
              RetryOrFailJob(w, e, delay), ~Owns(w, e)
       PROVE  Moved(w)
  BY <1>11 DEF TypeOK, RetryOrFailJob, GoIdle, Moved
<1> QED
  BY <1>5, <1>6, <1>7, <1>8, <1>9, <1>10, <1>11 DEF MoveStep, LoseOwnership, Crash

\* Every step is of one of the eight kinds.
LEMMA StepKinds ==
  ASSUME TypeOK, RowsOK, ClaimsOK, [Next]_vars
  PROVE  \/ \E j \in Jobs, p \in Projects : Requested(j, p)
         \/ \E w \in Workers, j \in Jobs : Claimed(w, j)
         \/ \E j \in Jobs : Failed(j)
         \/ \E j \in Jobs : Retried(j)
         \/ \E w \in Workers, j \in Jobs : Completed(w, j)
         \/ \E w \in Workers : Moved(w)
         \/ \E w \in Workers : Published(w)
         \/ OnlyTime
<1> DEFINE Goal == \/ \E j \in Jobs, p \in Projects : Requested(j, p)
                   \/ \E w \in Workers, j \in Jobs : Claimed(w, j)
                   \/ \E j \in Jobs : Failed(j)
                   \/ \E j \in Jobs : Retried(j)
                   \/ \E w \in Workers, j \in Jobs : Completed(w, j)
                   \/ \E w \in Workers : Moved(w)
                   \/ \E w \in Workers : Published(w)
                   \/ OnlyTime
<1>1. ASSUME ApiStep PROVE Goal
  BY <1>1, ApiEffect DEF ApiStep
<1>2. ASSUME NEW w \in Workers, NEW j \in Jobs, NEW e \in ClockErrors, Claim(w, j, e)
      PROVE  Goal
  BY <1>2, ClaimEffect
<1>3. ASSUME NEW w \in Workers, NEW j \in Jobs, NEW e \in ClockErrors,
             ExpireFinalAttempt(w, j, e)
      PROVE  Goal
  <2>1. /\ job[j].status = "RUNNING" /\ job[j].project \in Projects
        /\ FailJob(j) /\ QuietWorkers
    BY <1>3 DEF ExpireFinalAttempt, FinalAttemptExpired, RowsOK, QuietWorkers
  <2>2. job[j] \in JobRows
    BY DEF TypeOK
  <2>3. job[j].due <= Skew
    BY <1>3, <2>2, RowFields DEF ExpireFinalAttempt, Due
  <2> QED BY <2>1, <2>3, FailEffect
<1>4. ASSUME NEW w \in Workers, worker[w].pc # "idle"
      PROVE  worker[w].job \in Jobs /\ job[worker[w].job].project \in Projects
  BY <1>4, WorkerFields DEF TypeOK, RowsOK, ClaimsOK
<1>5. ASSUME NEW w \in Workers, MoveStep(w) PROVE Goal
  <2>1. worker[w].pc # "idle"
    BY <1>5 DEF MoveStep, AcquireProjectLock, LoadClaimedState, LoseOwnership,
                CompleteJob, RetryOrFailJob, ReturnFromRunner, AttemptFails, Crash
  <2> QED BY <1>4, <1>5, <2>1, MoveEffect
<1>6. ASSUME NEW w \in Workers, NEW e \in ClockErrors, PublishReady(w, e) PROVE Goal
  <2>1. worker[w].pc # "idle"
    BY <1>6 DEF PublishReady
  <2> QED BY <1>4, <1>6, <2>1, PublishEffect
<1>7. ASSUME NEW w \in Workers, NEW e \in ClockErrors, CompleteJob(w, e), Owns(w, e)
      PROVE  Goal
  <2>1. worker[w].pc # "idle"
    BY <1>7 DEF CompleteJob
  <2> QED BY <1>4, <1>7, <2>1, CompleteEffect
<1>8. ASSUME NEW w \in Workers, NEW e \in ClockErrors, NEW delay \in Delays,
             RetryOrFailJob(w, e, delay), Owns(w, e)
      PROVE  Goal
  <2> DEFINE j == worker[w].job
  <2>1. worker[w].pc # "idle"
    BY <1>8 DEF RetryOrFailJob
  <2>2. j \in Jobs /\ job[j].project \in Projects /\ job[j].status = "RUNNING"
    BY <1>4, <1>8, <2>1 DEF Owns
  <2>3. QuietWorkers /\ GivenUp(j)
    BY <1>8 DEF TypeOK, RetryOrFailJob, GoIdle, Idle, Owns, QuietWorkers, GivenUp
  <2>4. CASE FailJob(j)
    BY <2>2, <2>3, <2>4, FailEffect
  <2>5. CASE job[j].attempt < MaxAttempts /\ ScheduleRetry(j, delay, e)
    BY <2>2, <2>3, <2>5, RetryEffect
  <2>6. job[j].attempt \in 0 .. MaxAttempts
    BY <2>2, RowFields DEF TypeOK
  <2> QED BY <1>8, <2>4, <2>5, <2>6 DEF RetryOrFailJob
<1>9. ASSUME Tick \/ (\E w \in Workers, e \in ClockErrors : Heartbeat(w, e))
               \/ UNCHANGED vars
      PROVE  Goal
  BY <1>9, TimeEffect
<1> HIDE DEF Goal
<1>10. ASSUME NEW w \in Workers, WorkerStep(w) PROVE Goal
  BY <1>2, <1>3, <1>5, <1>6, <1>7, <1>8, <1>10 DEF WorkerStep, MoveStep
<1>11. ASSUME NEW w \in Workers, WorkerEvent(w) PROVE Goal
  BY <1>5, <1>9, <1>11 DEF WorkerEvent, MoveStep
<1>12. Goal
  BY <1>1, <1>9, <1>10, <1>11 DEF Next
<1> QED BY <1>12 DEF Goal

-----------------------------------------------------------------------------
(***************************************************************************)
(* Each kind of step preserves the invariant.                              *)
(***************************************************************************)
\* An accepted request.
LEMMA RequestedInv ==
  ASSUME IInv, TypeOK', NEW j \in Jobs, NEW p \in Projects, Requested(j, p)
  PROVE  IInv'
<1>1. RowsOK'
  BY DEF IInv, TypeOK, RowsOK, Requested, OthersKept
<1>2. ClaimsOK'
  BY WorkerFields DEF IInv, TypeOK, RowsOK, ClaimsOK, Requested, OthersKept, QuietWorkers, Idle
<1>3. LocksOK'
  BY WorkerFields DEF IInv, TypeOK, RowsOK, ClaimsOK, LocksOK, Requested, OthersKept, QuietWorkers, Idle
<1>4. OneActiveJob'
  BY DEF IInv, RowsOK, OneActiveJob, Active, Requested, OthersKept
<1>5. JobImpliesStatus'
  BY DEF IInv, TypeOK, RowsOK, OneActiveJob, JobImpliesStatus, Active, Requested, OthersKept
<1>6. StatusImpliesJob'
  BY DEF IInv, TypeOK, RowsOK, OneActiveJob, JobImpliesStatus, StatusImpliesJob, Active, Requested, OthersKept
<1>7. PublishNotRefused'
  <2> SUFFICES ASSUME NEW v \in Workers, worker'[v].pc = "provisioning",
                      CurrentClaim(v)'
               PROVE  project'[job'[worker'[v].job].project] = "PROVISIONING"
    BY DEF PublishNotRefused
  <2> DEFINE k == worker[v].job
  <2>1. worker'[v] = worker[v] /\ k \in Jobs
    BY WorkerFields DEF IInv, TypeOK, ClaimsOK, Requested, QuietWorkers, Idle
  <2>2. k # j /\ job'[k] = job[k]
    BY <2>1 DEF CurrentClaim, Requested, OthersKept
  <2>3. CurrentClaim(v) /\ job[k].project \in Projects /\ Active(k)
    BY <2>1, <2>2 DEF IInv, RowsOK, CurrentClaim, Active
  <2>4. project[job[k].project] = "PROVISIONING"
    BY <2>1, <2>3 DEF IInv, PublishNotRefused
  <2>5. project'[job[k].project] = project[job[k].project]
    BY <2>1, <2>2, <2>3 DEF IInv, OneActiveJob, Active, Requested
  <2> QED BY <2>1, <2>2, <2>4, <2>5
<1>8. ReadyUntilCompleted'
  BY WorkerFields DEF IInv, TypeOK, RowsOK, ClaimsOK, LocksOK, OneActiveJob, JobImpliesStatus,
     PublishNotRefused, ReadyUntilCompleted, CurrentClaim, Active, Requested, OthersKept, QuietWorkers, Idle
<1>9. FailureAuditedOnce'
  BY DEF IInv, TypeOK, FailureAuditedOnce, Requested, OthersKept
<1> QED BY <1>1, <1>2, <1>3, <1>4, <1>5, <1>6, <1>7, <1>8, <1>9 DEF IInv

\* A claim.
LEMMA ClaimedInv ==
  ASSUME IInv, TypeOK', NEW w \in Workers, NEW j \in Jobs, Claimed(w, j)
  PROVE  IInv'
<1>1. RowsOK'
  BY DEF IInv, TypeOK, RowsOK, Active, Claimed, OthersKept, IdentityKept
<1>2. ClaimsOK'
  BY WorkerFields DEF IInv, TypeOK, RowsOK, ClaimsOK, Claimed, OthersKept, IdentityKept
<1>3. LocksOK'
  <2>1. ASSUME NEW k \in Jobs PROVE job'[k].project = job[k].project
    BY DEF Claimed, OthersKept, IdentityKept
  <2>2. ASSUME NEW v \in Workers, worker'[v].pc \in LockedPcs
        PROVE  worker'[v] = worker[v] /\ worker[v].job \in Jobs
    BY <2>2, WorkerFields DEF IInv, TypeOK, ClaimsOK, Claimed
  <2> QED BY <2>1, <2>2 DEF IInv, LocksOK, Claimed
<1>4. OneActiveJob'
  BY DEF IInv, RowsOK, OneActiveJob, Active, Claimed, OthersKept, IdentityKept
<1>5. JobImpliesStatus'
  BY DEF IInv, TypeOK, RowsOK, OneActiveJob, JobImpliesStatus, Active, Claimed, OthersKept, IdentityKept
<1>6. StatusImpliesJob'
  BY DEF IInv, TypeOK, RowsOK, OneActiveJob, JobImpliesStatus, StatusImpliesJob, Active, Claimed, OthersKept, IdentityKept
<1>7. PublishNotRefused'
  BY WorkerFields DEF IInv, TypeOK, RowsOK, ClaimsOK, LocksOK, OneActiveJob, JobImpliesStatus,
     PublishNotRefused, CurrentClaim, Active, Claimed, OthersKept, IdentityKept
<1>8. ReadyUntilCompleted'
  BY WorkerFields DEF IInv, TypeOK, RowsOK, ClaimsOK, LocksOK, OneActiveJob, JobImpliesStatus,
     PublishNotRefused, ReadyUntilCompleted, CurrentClaim, Active, Claimed, OthersKept, IdentityKept
<1>9. FailureAuditedOnce'
  BY DEF IInv, TypeOK, FailureAuditedOnce, Active, Claimed, OthersKept, IdentityKept
<1> QED BY <1>1, <1>2, <1>3, <1>4, <1>5, <1>6, <1>7, <1>8, <1>9 DEF IInv

\* A terminal failure.
LEMMA FailedInv ==
  ASSUME IInv, TypeOK', NEW j \in Jobs, Failed(j)
  PROVE  IInv'
<1>1. RowsOK'
  BY DEF IInv, TypeOK, RowsOK, Failed, OthersKept, IdentityKept
<1>2. ClaimsOK'
  <2>1. ASSUME NEW k \in Jobs, job[k].status # "ABSENT"
        PROVE  job'[k].status # "ABSENT" /\ job'[k].operation = job[k].operation
    BY <2>1 DEF Failed, OthersKept, IdentityKept
  <2> QED BY <2>1, WorkerFields DEF IInv, TypeOK, ClaimsOK, Failed, QuietWorkers, Idle
<1>3. LocksOK'
  <2>1. ASSUME NEW k \in Jobs PROVE job'[k].project = job[k].project
    BY DEF Failed, OthersKept, IdentityKept
  <2>2. ASSUME NEW v \in Workers, worker'[v].pc \in LockedPcs
        PROVE  worker'[v] = worker[v] /\ worker[v].job \in Jobs
    BY <2>2, WorkerFields DEF IInv, TypeOK, ClaimsOK, Failed, QuietWorkers, Idle
  <2> QED BY <2>1, <2>2 DEF IInv, LocksOK, Failed, QuietWorkers
<1>4. OneActiveJob'
  BY DEF IInv, RowsOK, OneActiveJob, Active, Failed, OthersKept, IdentityKept
<1>5. JobImpliesStatus'
  BY DEF IInv, TypeOK, RowsOK, OneActiveJob, JobImpliesStatus, Active, Failed, OthersKept, IdentityKept
<1>6. StatusImpliesJob'
  BY DEF IInv, TypeOK, RowsOK, OneActiveJob, JobImpliesStatus, StatusImpliesJob, Active, Failed, OthersKept, IdentityKept
<1>7. PublishNotRefused'
  <2> SUFFICES ASSUME NEW v \in Workers, worker'[v].pc = "provisioning",
                      CurrentClaim(v)'
               PROVE  project'[job'[worker'[v].job].project] = "PROVISIONING"
    BY DEF PublishNotRefused
  <2> DEFINE k == worker[v].job
  <2>1. worker'[v] = worker[v] /\ k \in Jobs
    BY WorkerFields DEF IInv, TypeOK, ClaimsOK, Failed, QuietWorkers, Idle
  <2>2. k # j /\ job'[k] = job[k]
    BY <2>1 DEF CurrentClaim, Failed, OthersKept
  <2>3. CurrentClaim(v) /\ job[k].project \in Projects /\ Active(k)
    BY <2>1, <2>2 DEF IInv, RowsOK, CurrentClaim, Active
  <2>4. project[job[k].project] = "PROVISIONING"
    BY <2>1, <2>3 DEF IInv, PublishNotRefused
  <2>5. project'[job[k].project] = project[job[k].project]
    BY <2>1, <2>2, <2>3 DEF IInv, OneActiveJob, Active, Failed
  <2> QED BY <2>1, <2>2, <2>4, <2>5
<1>8. ReadyUntilCompleted'
  BY WorkerFields DEF IInv, TypeOK, RowsOK, ClaimsOK, LocksOK, OneActiveJob, JobImpliesStatus,
     PublishNotRefused, ReadyUntilCompleted, CurrentClaim, Active, Failed, OthersKept, IdentityKept, QuietWorkers, Idle
<1>9. FailureAuditedOnce'
  BY DEF IInv, TypeOK, FailureAuditedOnce, Failed, OthersKept, IdentityKept
<1> QED BY <1>1, <1>2, <1>3, <1>4, <1>5, <1>6, <1>7, <1>8, <1>9 DEF IInv

\* A scheduled retry.
LEMMA RetriedInv ==
  ASSUME IInv, TypeOK', NEW j \in Jobs, Retried(j)
  PROVE  IInv'
<1>1. RowsOK'
  BY DEF IInv, TypeOK, RowsOK, Retried, OthersKept, IdentityKept
<1>2. ClaimsOK'
  BY WorkerFields DEF IInv, TypeOK, RowsOK, ClaimsOK, Retried, OthersKept, IdentityKept, QuietWorkers, Idle
<1>3. LocksOK'
  <2>1. ASSUME NEW k \in Jobs PROVE job'[k].project = job[k].project
    BY DEF Retried, OthersKept, IdentityKept
  <2>2. ASSUME NEW v \in Workers, worker'[v].pc \in LockedPcs
        PROVE  worker'[v] = worker[v] /\ worker[v].job \in Jobs
    BY <2>2, WorkerFields DEF IInv, TypeOK, ClaimsOK, Retried, QuietWorkers, Idle
  <2> QED BY <2>1, <2>2 DEF IInv, LocksOK, Retried, QuietWorkers
<1>4. OneActiveJob'
  BY DEF IInv, RowsOK, OneActiveJob, Active, Retried, OthersKept, IdentityKept
<1>5. JobImpliesStatus'
  BY DEF IInv, TypeOK, RowsOK, OneActiveJob, JobImpliesStatus, Active, Retried, OthersKept, IdentityKept
<1>6. StatusImpliesJob'
  BY DEF IInv, TypeOK, RowsOK, OneActiveJob, JobImpliesStatus, StatusImpliesJob, Active, Retried, OthersKept, IdentityKept
<1>7. PublishNotRefused'
  <2> SUFFICES ASSUME NEW v \in Workers, worker'[v].pc = "provisioning",
                      CurrentClaim(v)'
               PROVE  project'[job'[worker'[v].job].project] = "PROVISIONING"
    BY DEF PublishNotRefused
  <2> DEFINE k == worker[v].job
  <2>1. worker'[v] = worker[v] /\ k \in Jobs
    BY WorkerFields DEF IInv, TypeOK, ClaimsOK, Retried, QuietWorkers, Idle
  <2>2. k # j /\ job'[k] = job[k]
    BY <2>1 DEF CurrentClaim, Retried, OthersKept
  <2>3. CurrentClaim(v) /\ job[k].project \in Projects /\ Active(k)
    BY <2>1, <2>2 DEF IInv, RowsOK, CurrentClaim, Active
  <2>4. project[job[k].project] = "PROVISIONING"
    BY <2>1, <2>3 DEF IInv, PublishNotRefused
  <2>5. project'[job[k].project] = project[job[k].project]
    BY <2>1, <2>2, <2>3 DEF IInv, OneActiveJob, Active, Retried
  <2> QED BY <2>1, <2>2, <2>4, <2>5
<1>8. ReadyUntilCompleted'
  BY WorkerFields DEF IInv, TypeOK, RowsOK, ClaimsOK, LocksOK, OneActiveJob, JobImpliesStatus,
     PublishNotRefused, ReadyUntilCompleted, CurrentClaim, Active, Retried, OthersKept, IdentityKept, QuietWorkers, Idle
<1>9. FailureAuditedOnce'
  BY DEF IInv, TypeOK, FailureAuditedOnce, Retried, OthersKept, IdentityKept
<1> QED BY <1>1, <1>2, <1>3, <1>4, <1>5, <1>6, <1>7, <1>8, <1>9 DEF IInv

\* A completed job.
LEMMA CompletedInv ==
  ASSUME IInv, TypeOK', NEW w \in Workers, NEW j \in Jobs, Completed(w, j)
  PROVE  IInv'
<1>1. RowsOK'
  BY DEF IInv, TypeOK, RowsOK, CurrentClaim, Completed, OthersKept, IdentityKept
<1>2. ClaimsOK'
  BY WorkerFields DEF IInv, TypeOK, RowsOK, ClaimsOK, Completed, OthersKept, IdentityKept, QuietWorkers, Idle
<1>3. LocksOK'
  <2>1. ASSUME NEW k \in Jobs PROVE job'[k].project = job[k].project
    BY DEF Completed, OthersKept, IdentityKept
  <2>2. ASSUME NEW v \in Workers, worker'[v].pc \in LockedPcs
        PROVE  worker'[v] = worker[v] /\ worker[v].job \in Jobs
    BY <2>2, WorkerFields DEF IInv, TypeOK, ClaimsOK, Completed, QuietWorkers, Idle
  <2> QED BY <2>1, <2>2 DEF IInv, LocksOK, Completed, QuietWorkers
<1>4. OneActiveJob'
  BY DEF IInv, RowsOK, OneActiveJob, Active, Completed, OthersKept, IdentityKept
<1>5. JobImpliesStatus'
  BY DEF IInv, TypeOK, RowsOK, OneActiveJob, JobImpliesStatus, Active, Completed, OthersKept, IdentityKept
<1>6. StatusImpliesJob'
  <2>1. /\ job[j].project \in Projects
        /\ project[job[j].project] = "READY"
    BY DEF IInv, RowsOK, ReadyUntilCompleted, CurrentClaim, Completed
  <2> QED
    BY <2>1 DEF IInv, TypeOK, StatusImpliesJob, Active, Completed, OthersKept, IdentityKept
<1>7. PublishNotRefused'
  BY WorkerFields DEF IInv, TypeOK, RowsOK, ClaimsOK, LocksOK, OneActiveJob, JobImpliesStatus,
     PublishNotRefused, CurrentClaim, Active, Completed, OthersKept, IdentityKept, QuietWorkers, Idle
<1>8. ReadyUntilCompleted'
  BY WorkerFields DEF IInv, TypeOK, RowsOK, ClaimsOK, LocksOK, OneActiveJob, JobImpliesStatus,
     PublishNotRefused, ReadyUntilCompleted, CurrentClaim, Active, Completed, OthersKept, IdentityKept, QuietWorkers, Idle
<1>9. FailureAuditedOnce'
  BY DEF IInv, TypeOK, FailureAuditedOnce, CurrentClaim, Completed, OthersKept, IdentityKept
<1> QED BY <1>1, <1>2, <1>3, <1>4, <1>5, <1>6, <1>7, <1>8, <1>9 DEF IInv

\* An attempt moves on or ends.
LEMMA MovedInv ==
  ASSUME IInv, TypeOK', NEW w \in Workers, Moved(w)
  PROVE  IInv'
<1>1. RowsOK'
  BY DEF IInv, TypeOK, RowsOK, Moved
<1>2. ClaimsOK'
  BY WorkerFields DEF IInv, TypeOK, RowsOK, ClaimsOK, Moved, Idle
<1>3. LocksOK'
  BY WorkerFields DEF IInv, TypeOK, RowsOK, ClaimsOK, LocksOK, Moved, Idle
<1>4. OneActiveJob'
  BY DEF IInv, RowsOK, OneActiveJob, Active, Moved
<1>5. JobImpliesStatus'
  BY DEF IInv, TypeOK, RowsOK, OneActiveJob, JobImpliesStatus, Active, Moved
<1>6. StatusImpliesJob'
  BY DEF IInv, TypeOK, RowsOK, OneActiveJob, JobImpliesStatus, StatusImpliesJob, Active, Moved
<1>7. PublishNotRefused'
  BY WorkerFields DEF IInv, TypeOK, RowsOK, ClaimsOK, LocksOK, OneActiveJob, JobImpliesStatus,
     PublishNotRefused, CurrentClaim, Active, Moved, Idle
<1>8. ReadyUntilCompleted'
  BY WorkerFields DEF IInv, TypeOK, RowsOK, ClaimsOK, LocksOK, OneActiveJob, JobImpliesStatus,
     PublishNotRefused, ReadyUntilCompleted, CurrentClaim, Active, Moved, Idle
<1>9. FailureAuditedOnce'
  BY DEF IInv, TypeOK, FailureAuditedOnce, Moved
<1> QED BY <1>1, <1>2, <1>3, <1>4, <1>5, <1>6, <1>7, <1>8, <1>9 DEF IInv

\* A project becomes READY.
LEMMA PublishedInv ==
  ASSUME IInv, TypeOK', NEW w \in Workers, Published(w)
  PROVE  IInv'
<1>1. RowsOK'
  BY DEF IInv, TypeOK, RowsOK, Published
<1>2. ClaimsOK'
  BY WorkerFields DEF IInv, TypeOK, RowsOK, ClaimsOK, Published
<1>3. LocksOK'
  BY WorkerFields DEF IInv, TypeOK, RowsOK, ClaimsOK, LocksOK, Published
<1>4. OneActiveJob'
  BY DEF IInv, RowsOK, OneActiveJob, Active, Published
<1>5. JobImpliesStatus'
  <2> DEFINE j == worker[w].job
  <2>1. /\ j \in Jobs /\ Active(j) /\ job[j].operation = "PROVISION"
        /\ job[j].project \in Projects
    BY WorkerFields DEF IInv, TypeOK, RowsOK, ClaimsOK, Active, CurrentClaim, Published
  <2> QED
    BY <2>1 DEF IInv, RowsOK, OneActiveJob, JobImpliesStatus, Active, Published
<1>6. StatusImpliesJob'
  BY DEF IInv, TypeOK, RowsOK, OneActiveJob, JobImpliesStatus, StatusImpliesJob, Active, Published
<1>7. PublishNotRefused'
  BY WorkerFields DEF IInv, TypeOK, RowsOK, ClaimsOK, LocksOK, OneActiveJob, JobImpliesStatus,
     PublishNotRefused, CurrentClaim, Active, Published
<1>8. ReadyUntilCompleted'
  BY WorkerFields DEF IInv, TypeOK, RowsOK, ClaimsOK, LocksOK, OneActiveJob, JobImpliesStatus,
     PublishNotRefused, ReadyUntilCompleted, CurrentClaim, Active, Published
<1>9. FailureAuditedOnce'
  BY DEF IInv, TypeOK, FailureAuditedOnce, Published
<1> QED BY <1>1, <1>2, <1>3, <1>4, <1>5, <1>6, <1>7, <1>8, <1>9 DEF IInv

\* Time passes.
LEMMA OnlyTimeInv ==
  ASSUME IInv, TypeOK', OnlyTime
  PROVE  IInv'
<1>1. RowsOK'
  BY DEF IInv, TypeOK, RowsOK, OnlyTime, SameButDue, IdentityKept
<1>2. ClaimsOK'
  BY WorkerFields DEF IInv, TypeOK, RowsOK, ClaimsOK, OnlyTime, SameButDue, IdentityKept
<1>3. LocksOK'
  BY WorkerFields DEF IInv, TypeOK, RowsOK, ClaimsOK, LocksOK, OnlyTime, SameButDue, IdentityKept
<1>4. OneActiveJob'
  BY DEF IInv, RowsOK, OneActiveJob, Active, OnlyTime, SameButDue, IdentityKept
<1>5. JobImpliesStatus'
  BY DEF IInv, TypeOK, RowsOK, OneActiveJob, JobImpliesStatus, Active, OnlyTime, SameButDue, IdentityKept
<1>6. StatusImpliesJob'
  BY DEF IInv, TypeOK, RowsOK, OneActiveJob, JobImpliesStatus, StatusImpliesJob, Active, OnlyTime, SameButDue, IdentityKept
<1>7. PublishNotRefused'
  BY WorkerFields DEF IInv, TypeOK, RowsOK, ClaimsOK, LocksOK, OneActiveJob, JobImpliesStatus,
     PublishNotRefused, CurrentClaim, Active, OnlyTime, SameButDue, IdentityKept
<1>8. ReadyUntilCompleted'
  BY WorkerFields DEF IInv, TypeOK, RowsOK, ClaimsOK, LocksOK, OneActiveJob, JobImpliesStatus,
     PublishNotRefused, ReadyUntilCompleted, CurrentClaim, Active, OnlyTime, SameButDue, IdentityKept
<1>9. FailureAuditedOnce'
  BY DEF IInv, TypeOK, FailureAuditedOnce, OnlyTime, SameButDue, IdentityKept
<1> QED BY <1>1, <1>2, <1>3, <1>4, <1>5, <1>6, <1>7, <1>8, <1>9 DEF IInv

-----------------------------------------------------------------------------
(***************************************************************************)
(* The theorems.                                                           *)
(***************************************************************************)
LEMMA NextIInv == IInv /\ [Next]_vars => IInv'
<1> SUFFICES ASSUME IInv, [Next]_vars PROVE IInv'
  OBVIOUS
<1>1. TypeOK /\ RowsOK /\ ClaimsOK
  BY DEF IInv
<1>2. TypeOK'
  BY <1>1, TypeStep
<1> QED
  BY <1>1, <1>2, StepKinds, RequestedInv, ClaimedInv, FailedInv, RetriedInv,
     CompletedInv, MovedInv, PublishedInv, OnlyTimeInv

LEMMA Invariance == Spec => []IInv
  BY InitIInv, NextIInv, PTL DEF Spec

\* Whatever crashes, expires or is retried, every row stays well formed and no
\* job is attempted more than max_attempts times (lifecycle_queue.claim_next_job).
THEOREM TypeCorrect == Spec => []TypeOK
<1>1. IInv => TypeOK
  BY DEF IInv
<1> QED BY <1>1, Invariance, PTL

\* No two unsettled jobs of one project: the API handlers' INSERTs and the
\* workers' retries never leave two operations that both will be run.
THEOREM AtMostOneActiveJob == Spec => []OneActiveJob
<1>1. IInv => OneActiveJob
  BY DEF IInv
<1> QED BY <1>1, Invariance, PTL

\* No crash, expiry or refused request strands a project in PROVISIONING or
\* DELETING: the job that will move it on exists.
THEOREM NoStrandedProject == Spec => []StatusMatchesJob
<1>1. IInv => StatusMatchesJob
  BY DEF IInv, TypeOK, RowsOK, JobImpliesStatus, StatusImpliesJob, StatusMatchesJob, Active
<1> QED BY <1>1, Invariance, PTL

\* At most one attempt works on a project's runtime: the advisory lock of
\* _project_lock outlives the lease of the attempt that holds it.
THEOREM AtMostOneProvisioner == Spec => []OneProvisioner
<1>1. IInv => OneProvisioner
  BY DEF IInv, LocksOK, OneProvisioner
<1> QED BY <1>1, Invariance, PTL

\* The transition check of _publish_ready never refuses an attempt that owns its job.
THEOREM PublishAlwaysAllowed == Spec => []PublishNotRefused
<1>1. IInv => PublishNotRefused
  BY DEF IInv
<1> QED BY <1>1, Invariance, PTL

\* Nobody deletes, fails or re-provisions a project between the transaction that
\* publishes it and the one that completes its job.
THEOREM PublishedStaysReady == Spec => []ReadyUntilCompleted
<1>1. IInv => ReadyUntilCompleted
  BY DEF IInv
<1> QED BY <1>1, Invariance, PTL

\* _fail_job runs exactly once for each failed job.
THEOREM EachFailureAuditedOnce == Spec => []FailureAuditedOnce
<1>1. IInv => FailureAuditedOnce
  BY DEF IInv
<1> QED BY <1>1, Invariance, PTL

\* No worker, however late, writes a settled job again.
THEOREM SettledForever == Spec => SettledJobsStay
<1>1. IInv /\ [Next]_vars =>
        [\A j \in Jobs : job[j].status \in TerminalStatuses => job'[j] = job[j]]_vars
  <2> SUFFICES ASSUME IInv, [Next]_vars, NEW j \in Jobs, job[j].status \in TerminalStatuses
               PROVE  job'[j] = job[j]
    OBVIOUS
  <2>1. TypeOK /\ RowsOK /\ ClaimsOK
    BY DEF IInv
  <2> QED
    BY <2>1, StepKinds DEF Requested, Claimed, Failed, Retried, Completed, Moved, Published,
       OnlyTime, SameButDue, OthersKept, Active, CurrentClaim
<1> QED BY <1>1, Invariance, PTL DEF Spec, SettledJobsStay

\* A lease that is live on every clock is given up by its owner only.
THEOREM LiveLeaseSafe == Spec => LiveLeaseNotTaken
<1> DEFINE Kept(j) == LET owner == job[j].lockedBy IN
                      /\ job[j].status = "RUNNING"
                      /\ job[j].due > Skew
                      /\ job'[j].lockedBy # owner
                      => /\ worker[owner].job = j
                         /\ worker[owner].pc \in {"completing", "reporting"}
                         /\ worker'[owner].pc = "idle"
<1>1. IInv /\ [Next]_vars => [\A j \in Jobs : Kept(j)]_vars
  <2> SUFFICES ASSUME IInv, [Next]_vars, NEW j \in Jobs, job[j].status = "RUNNING",
                      job[j].due > Skew, job'[j].lockedBy # job[j].lockedBy
               PROVE  GivenUp(j)
    BY DEF GivenUp
  <2>1. TypeOK /\ RowsOK /\ ClaimsOK
    BY DEF IInv
  <2>2. job[j].due \in Int
    BY <2>1, RowFields DEF TypeOK
  <2>3. ~(job[j].due <= Skew)
    BY <2>2
  <2> QED
    BY <2>1, <2>3, StepKinds DEF Requested, Claimed, Failed, Retried, Completed, Moved,
       Published, OnlyTime, SameButDue, OthersKept
<1> QED BY <1>1, Invariance, PTL DEF Spec, LiveLeaseNotTaken
=============================================================================
