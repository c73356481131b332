---------------------------- MODULE ProvisionSaga ----------------------------
(***************************************************************************)
(* ComposeProvisioner.provision: the steps by which the attempts of a      *)
(* project's provision jobs bring one Airflow runtime up.                  *)
(*                                                                         *)
(* LifecycleQueue says who owns the job; here a claim gives the next       *)
(* attempt number to a worker, at any time, because a lease may expire at  *)
(* any time; a READY project may fail and be provisioned again (JobFails). *)
(* What an attempt does is fenced only where it touches the job row: at    *)
(* the beginning of a step and when it publishes.  In between it drives    *)
(* Docker through child processes, inspects containers and writes          *)
(* project_runtime_resources, which later attempts read.                   *)
(*                                                                         *)
(* Docker is outside the repository.  A "docker compose up" goes on when   *)
(* the attempt that awaits it is cancelled (the child process is not       *)
(* killed), dies with its worker process, and the containers it started    *)
(* live on in either case.                                                 *)
(***************************************************************************)
EXTENDS Naturals

CONSTANTS
    Workers,        \* lifecycle worker processes
    Services,       \* _REQUIRED_RUNTIME_SERVICES
    EarlyServices,  \* those that airflow-init depends on (project-redis)
    Api,            \* the service that answers the readiness check
    MaxAttempts,    \* bound: attempts ever made for the project
    LockMayBreak,   \* whether the connection of the advisory lock may break
    NoWorker        \* null value

ASSUME ServicesAssumption == EarlyServices \subseteq Services /\ Api \in Services
ASSUME MaxAttemptsAssumption == MaxAttempts \in Nat
ASSUME LockMayBreakAssumption == LockMayBreak \in BOOLEAN
ASSUME NoWorkerAssumption == NoWorker \notin Workers

VARIABLES
    attempt,    \* the attempt that the job row carries
    leased,     \* its lease has not expired
    published,  \* the project is READY
    lock,       \* holder of the advisory lock conductor.project_provision:<id>
    worker,     \* each worker's attempt and where it is in the saga
    prepared,   \* steps before "init" whose outcome is there
    init,       \* the airflow-init container
    service,    \* the containers of the required services
    row,        \* observed_status in project_runtime_resources, by logical name
    commands,   \* docker compose commands in progress
    initDone    \* an attempt has been told that airflow-init succeeded

vars == <<attempt, leased, published, lock, worker, prepared, init, service, row,
          commands, initDone>>
jobVars == <<attempt, leased, published>>
dockerVars == <<init, service, commands, initDone>>

\* What the steps before "init" prepare is idempotent; ProjectDatabase and
\* RuntimeArtifacts look inside.
PreparingSteps == {"database_role", "database", "configuration", "runtime_image"}
Steps == PreparingSteps \cup {"load", "init", "services", "airflow_readiness", "publish"}

Following ==
    [load |-> "database_role", database_role |-> "database", database |-> "configuration",
     configuration |-> "runtime_image", runtime_image |-> "init", init |-> "services",
     services |-> "airflow_readiness", airflow_readiness |-> "publish"]

Phases == {"locking", "check", "act", "wait", "inspect", "record"}
Recorded == Services \cup {"airflow-init"}
Statuses == {"none", "absent", "running", "exited"}
NothingSeen == [name \in Recorded |-> "none"]

Idle == [attempt |-> 0, step |-> "none", phase |-> "locking", seen |-> NothingSeen]

WorkerStates ==
    [attempt : 0 .. MaxAttempts, step : Steps \cup {"none"}, phase : Phases,
     seen : [Recorded -> Statuses]]
Commands == [worker : Workers, attempt : 1 .. MaxAttempts, kind : {"init", "services"}]

Init ==
    /\ attempt = 0 /\ leased = FALSE /\ published = FALSE
    /\ lock = NoWorker
    /\ worker = [w \in Workers |-> Idle]
    /\ prepared = {}
    /\ init = "absent"
    /\ service = [s \in Services |-> "absent"]
    /\ row = NothingSeen
    /\ commands = {}
    /\ initDone = FALSE

-----------------------------------------------------------------------------
Working(w) == worker[w].step # "none"

At(w, step, phase) == worker[w].step = step /\ worker[w].phase = phase

Owns(w) == leased /\ worker[w].attempt = attempt

GoTo(w, phase) == worker' = [worker EXCEPT ![w].phase = phase]

NextStep(w) ==
    worker' = [worker EXCEPT ![w].step = Following[@], ![w].phase = "check"]

\* Mutant: an attempt that raises keeps the advisory lock.
EndKeepingLock(w) ==
    /\ worker' = [worker EXCEPT ![w] = Idle]
    /\ UNCHANGED lock

\* The attempt returns or raises: the advisory lock is released.
End(w) ==
    /\ worker' = [worker EXCEPT ![w] = Idle]
    /\ lock' = IF lock = w THEN NoWorker ELSE lock

Claim(w) ==
    /\ ~Working(w)
    /\ attempt < MaxAttempts
    /\ attempt' = attempt + 1
    /\ leased' = TRUE
    /\ worker' = [worker EXCEPT ![w] = [Idle EXCEPT !.attempt = attempt', !.step = "load"]]
    /\ UNCHANGED <<published, lock, prepared, row, dockerVars>>

AcquireLock(w) ==
    /\ At(w, "load", "locking")
    /\ lock = NoWorker
    /\ lock' = w
    /\ GoTo(w, "check")
    /\ UNCHANGED <<jobVars, prepared, row, dockerVars>>

\* _load_claimed_state, _set_step: without the lease the attempt ends, and
\* AttemptEnds says so.
Load(w) ==
    /\ At(w, "load", "check")
    /\ Owns(w) /\ ~published
    /\ NextStep(w)
    /\ UNCHANGED <<jobVars, lock, prepared, row, dockerVars>>

SetStep(w) ==
    /\ worker[w].phase = "check" /\ worker[w].step \in Steps \ {"load", "publish"}
    /\ Owns(w)
    /\ GoTo(w, "act")
    /\ UNCHANGED <<jobVars, lock, prepared, row, dockerVars>>

Prepare(w) ==
    /\ worker[w].phase = "act" /\ worker[w].step \in PreparingSteps
    /\ prepared' = prepared \cup {worker[w].step}
    /\ NextStep(w)
    /\ UNCHANGED <<jobVars, lock, row, dockerVars>>

-----------------------------------------------------------------------------
(* init *)

\* Mutant: looks at the container instead of at the record of a success.
InitCompletedByContainer == init \in {"succeeded", "failed"}

InitCompleted == row["airflow-init"] = "exited"

SkipInit(w) ==
    /\ At(w, "init", "act")
    /\ InitCompleted
    /\ NextStep(w)
    /\ UNCHANGED <<jobVars, lock, prepared, row, dockerVars>>

Command(w, kind) == [worker |-> w, attempt |-> worker[w].attempt, kind |-> kind]

\* A container that has exited is started again; one that runs is attached to.
RunInit(w) ==
    /\ At(w, "init", "act")
    /\ ~InitCompleted
    /\ commands' = commands \cup {Command(w, "init")}
    /\ init' = "running"
    /\ service' = [s \in Services |-> IF s \in EarlyServices THEN "running" ELSE service[s]]
    /\ GoTo(w, "wait")
    /\ UNCHANGED <<jobVars, lock, prepared, row, initDone>>

InitExits ==
    /\ init = "running"
    /\ init' \in {"succeeded", "failed"}
    /\ UNCHANGED <<jobVars, lock, worker, prepared, service, row, commands, initDone>>

\* The worker still awaits command c.
Awaits(w, c) ==
    /\ Working(w) /\ worker[w].phase = "wait"
    /\ c = Command(w, worker[w].step)

\* What the end of command c means to the attempt that awaits it, if any does.
Return(c, success) ==
    IF Awaits(c.worker, c)
    THEN IF success THEN GoTo(c.worker, "inspect") /\ UNCHANGED lock ELSE End(c.worker)
    ELSE UNCHANGED <<worker, lock>>

\* Mutant: the exit code of airflow-init is not looked at.
InitReturnsAnyhow(c) ==
    /\ c.kind = "init"
    /\ init \in {"succeeded", "failed"}
    /\ commands' = commands \ {c}
    /\ \/ UNCHANGED service
       \/ service' = [s \in Services |->
                          IF s \in EarlyServices THEN "exited" ELSE service[s]]
    /\ Return(c, TRUE)
    /\ initDone' = (initDone \/ (init = "succeeded" /\ Awaits(c.worker, c)))
    /\ UNCHANGED <<jobVars, prepared, init, row>>

\* --exit-code-from: the command ends with the container's exit code, and may
\* stop the services that were started along with it.
InitReturns(c) ==
    /\ c.kind = "init"
    /\ init \in {"succeeded", "failed"}
    /\ commands' = commands \ {c}
    /\ \/ UNCHANGED service
       \/ service' = [s \in Services |->
                          IF s \in EarlyServices THEN "exited" ELSE service[s]]
    /\ Return(c, init = "succeeded")
    /\ initDone' = (initDone \/ (init = "succeeded" /\ Awaits(c.worker, c)))
    /\ UNCHANGED <<jobVars, prepared, init, row>>

-----------------------------------------------------------------------------
(* services, airflow_readiness *)

StartServices(w) ==
    /\ At(w, "services", "act")
    /\ commands' = commands \cup {Command(w, "services")}
    /\ GoTo(w, "wait")
    /\ UNCHANGED <<jobVars, lock, prepared, row, init, service, initDone>>

\* "up --detach" starts the services, or some of them and fails.
ServicesReturn(c) ==
    /\ c.kind = "services"
    /\ commands' = commands \ {c}
    /\ \E up \in SUBSET Services :
           /\ service' = [s \in Services |-> IF s \in up THEN "running" ELSE service[s]]
           /\ Return(c, up = Services)
    /\ UNCHANGED <<jobVars, prepared, init, row, initDone>>

ServiceExits(s) ==
    /\ service[s] = "running"
    /\ service' = [service EXCEPT ![s] = "exited"]
    /\ UNCHANGED <<jobVars, lock, worker, prepared, init, row, commands, initDone>>

\* wait_ready: an authenticated answer of the API; a timeout is an AttemptEnds.
BecomesReady(w) ==
    /\ At(w, "airflow_readiness", "act")
    /\ service[Api] = "running"
    /\ GoTo(w, "inspect")
    /\ UNCHANGED <<jobVars, lock, prepared, row, dockerVars>>

-----------------------------------------------------------------------------
(* _record_compose_resources *)

InitStatus == CASE init = "absent" -> "absent"
                [] init = "running" -> "running"
                [] init \in {"succeeded", "failed"} -> "exited"

Inspect(w) ==
    /\ worker[w].phase = "inspect"
    /\ worker' = [worker EXCEPT
           ![w].phase = "record",
           ![w].seen = [name \in Recorded |->
                            IF name = "airflow-init" THEN InitStatus ELSE service[name]]]
    /\ UNCHANGED <<jobVars, lock, prepared, row, dockerVars>>

\* A container that is gone changes only a row that is there, and only that of
\* a required service.
NewRow(w, name) ==
    IF worker[w].seen[name] # "absent" THEN worker[w].seen[name]
    ELSE IF name \in Services /\ row[name] # "none" THEN "absent" ELSE row[name]

\* Mutant: what was seen does not have to be running.
AllRunningUnchecked(w) == TRUE

\* _require_required_services_running, after the readiness check only.
AllRunning(w) ==
    worker[w].step = "airflow_readiness" =>
        \A s \in Services : worker[w].seen[s] = "running"

\* Each row is a transaction of its own: the attempt may end after some of them.
Record(w) ==
    /\ worker[w].phase = "record"
    /\ \E written \in SUBSET Recorded :
           /\ row' = [name \in Recorded |->
                          IF name \in written THEN NewRow(w, name) ELSE row[name]]
           /\ IF written = Recorded /\ AllRunning(w)
              THEN NextStep(w) /\ UNCHANGED lock
              ELSE End(w)
    /\ UNCHANGED <<jobVars, prepared, dockerVars>>

PublishReady(w) ==
    /\ At(w, "publish", "check")
    /\ Owns(w) /\ ~published
    /\ published' = TRUE
    /\ End(w)
    /\ UNCHANGED <<attempt, leased, prepared, row, dockerVars>>

-----------------------------------------------------------------------------
(* Failures. *)

\* A step raises, the lease is gone, or the heartbeat failed and the attempt is
\* cancelled: the command it awaits goes on by itself.
AttemptEnds(w) ==
    /\ Working(w)
    /\ End(w)
    /\ UNCHANGED <<jobVars, prepared, row, dockerVars>>

\* The worker's container dies, with its child processes.
Crash(w) ==
    /\ Working(w)
    /\ End(w)
    /\ commands' = {c \in commands : c.worker # w}
    /\ UNCHANGED <<jobVars, prepared, row, init, service, initDone>>

LeaseExpires ==
    /\ leased
    /\ leased' = FALSE
    /\ UNCHANGED <<attempt, published, lock, worker, prepared, row, dockerVars>>

\* The job of a published project fails terminally: its worker died before
\* complete_job, and the attempts after it find READY, which is not resumable.
\* PROVISION_FAILED replaces READY, an administrator may retry, and the next claim
\* is of the new job.  What Docker runs and the rows that say so stay.
JobFails ==
    /\ published
    /\ published' = FALSE
    /\ leased' = FALSE
    /\ UNCHANGED <<attempt, lock, worker, prepared, row, dockerVars>>

\* The connection that holds the advisory lock breaks; the attempt, which uses
\* other connections, does not notice.
LockConnectionBreaks ==
    /\ LockMayBreak /\ lock # NoWorker
    /\ lock' = NoWorker
    /\ UNCHANGED <<jobVars, worker, prepared, row, dockerVars>>

WorkerStep(w) ==
    \/ Claim(w) \/ AcquireLock(w) \/ Load(w) \/ SetStep(w) \/ Prepare(w)
    \/ SkipInit(w) \/ RunInit(w) \/ StartServices(w) \/ BecomesReady(w)
    \/ Inspect(w) \/ Record(w) \/ PublishReady(w)

Next ==
    \/ \E w \in Workers : WorkerStep(w) \/ AttemptEnds(w) \/ Crash(w)
    \/ \E c \in commands : InitReturns(c) \/ ServicesReturn(c)
    \/ InitExits
    \/ \E s \in Services : ServiceExits(s)
    \/ LeaseExpires \/ JobFails \/ LockConnectionBreaks

Spec == Init /\ [][Next]_vars

-----------------------------------------------------------------------------
\* Types; and the advisory lock is held only by an attempt that is under way.
TypeOK ==
    /\ attempt \in 0 .. MaxAttempts /\ leased \in BOOLEAN /\ published \in BOOLEAN
    /\ lock \in Workers \cup {NoWorker}
    /\ lock # NoWorker => Working(lock)
    /\ worker \in [Workers -> WorkerStates]
    /\ prepared \subseteq PreparingSteps
    /\ init \in {"absent", "running", "succeeded", "failed"}
    /\ service \in [Services -> {"absent", "running", "exited"}]
    /\ row \in [Recorded -> Statuses]
    /\ commands \subseteq Commands
    /\ initDone \in BOOLEAN

\* The record that makes later attempts skip initialization ("exited") is
\* written only after an attempt saw airflow-init succeed, whichever attempts were cut
\* short and whichever commands outlived them (compose_provisioner.py:405-420).
InitRowTruthful == row["airflow-init"] = "exited" => initDone

\* No Airflow service is started on a database that was never initialized, or
\* before everything the runtime needs is prepared.
InitBeforeServices ==
    (\E s \in Services \ EarlyServices : service[s] # "absent") =>
        initDone /\ prepared = PreparingSteps

\* An attempt that is about to publish, and a published project, has an
\* initialized database and a record of every required service; the attempt saw
\* all of them running after Airflow answered.  Seen is all that the code asks for:
\* a service that exits after that inspection is published all the same.
PublishNeedsRuntime ==
    /\ \A w \in Workers : At(w, "publish", "check") =>
           /\ initDone
           /\ \A s \in Services : row[s] # "none" /\ worker[w].seen[s] = "running"
    /\ published => initDone /\ \A s \in Services : row[s] # "none"

\* "Hold one Postgres advisory lock over the whole attempt, not each action"
\* (compose_provisioner.py:274): two attempts never drive Docker at once.
OneAttemptDrivesDocker ==
    \A c, d \in commands : c.attempt = d.attempt
=============================================================================
