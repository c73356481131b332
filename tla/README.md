# Conductor control plane: TLA+ models, checks and proofs

Conductor runs one Airflow runtime per project. Its control plane is a FastAPI
backend over PostgreSQL, a separate *lifecycle worker* process that provisions
runtimes with Docker Compose, and a React frontend. This directory holds TLA+
models of the parts whose behaviour is hard to test, the TLC configurations that
check them on small instances, and TLAPS proofs for every instance.
Source paths below are relative to `src/`; `app/` is `backend/app/`.

## 1. Inventory

| Part | State it keeps | Operations | What is hard | What makes it correct | Module |
|---|---|---|---|---|---|
| Lifecycle queue `app/services/lifecycle_queue.py`, `app/models/project_lifecycle_job.py` | rows of `project_lifecycle_jobs` (status, attempt, locked_by, lock_expires_at, available_at), `projects.lifecycle_status`, audit events | claim, heartbeat, complete, retry or fail | leases judged by several clocks, stale owners, last attempt that expires | one unsettled job per project; settled jobs stay; failures counted once | `LifecycleQueue` |
| Lifecycle worker `app/workers/lifecycle.py`, `lifecycle_runner.py` | the claim it holds in memory, a runner task and a heartbeat task | poll, run with heartbeats, report | crash between two transactions, heartbeat failing after the work is done | nothing is stranded; every operation settles | `LifecycleQueue` |
| Lifecycle requests `app/services/project_operations.py`, `routers/projects.py`, `routers/admin.py` | projects, jobs, deployments, grants | create, retry, delete, poll an operation | concurrent requests, replays, requests during a running job | a key names one operation, a repeated request gets it; accepted operations are alone and keep their promise | `OperationRequests`; `LifecycleQueue`, `ProjectOperations` |
| Compose provisioner `app/services/compose_provisioner.py` | step of the job, runtime resources, advisory lock, containers | the provision saga | crash between any two steps, superseded attempts, subprocesses that outlive their attempt, lock connection lost | steps converge on one runtime; one attempt at a time | `ProvisionSaga`; `LifecycleQueue` for the leases |
| Project database manager `app/services/project_database.py` | PostgreSQL roles and databases with an ownership comment | ensure/drop role and database | crash between CREATE and COMMENT | foreign objects untouched, marked means owned, conflicts are real | `ProjectDatabase` |
| Runtime artifacts `app/services/runtime_artifacts.py` | generation directories | render, publish, verify | crash or power failure while publishing, two writers, changed settings | a published generation is complete and never changes | `RuntimeArtifacts` |
| Re-authentication `app/services/reauth.py` | one-time grants, rate limits | grant, consume | double use, old grants after a failed deletion, retries of the request | one grant, one deletion, which it was meant for | `OperationRequests` |
| Sessions `app/routers/auth.py`, `auth/jwt.py` | identities of refresh tokens in Redis | register, login, refresh | read, delete and store are separate calls; two refreshes of one token | a refresh token that was used is never good again | `Sessions` |
| Members, roles, permissions `routers/projects.py`, `routers/admin.py`, `auth/permissions.py`, `services/project_access.py` | users, roles, permissions, members | add, change, remove, deactivate, grant, revoke; the gates of every request | gate and write are separate statements; two removals at once; a row the session keeps | what a request writes was its requester's right; a project keeps an administrator | `ProjectAccess`, `Members` |
| Merge requests `routers/git.py` | `merge_requests` rows | open, merge, close | author, role and setting are read one after the other; nobody looks at the status that is replaced | who may merge, and not one's own | `MergeRequests` |
| Settings `routers/projects.py` | `git_configs`, `environments`, `self_approve_enabled` | update, create, rename, delete | two updates that each write only what differs from what they loaded | token authentication has a token; names are unique | `ProjectSettings` |
| Airflow instances `routers/airflow_lifecycle.py` | `airflow_instances` rows | provision, restart, delete | crash between the two commits of provisioning | only a crash leaves a row "creating" | `AirflowInstances` |
| Airflow proxy, sessions, widgets `routers/airflow_proxy.py`, `airflow_widgets.py`, `services/airflow_session.py`, `project_airflow_context.py` | session cookies, cached Airflow tokens | bootstrap, forward, fetch | a cache shared by all users of an account; membership read three times | a request goes with a permission and a token of a role of its own | `AirflowProxy` |
| Secret redaction `services/secret_redaction.py` | none | text to text | character-level parsing | no secret survives | not modelled: string processing |
| Workspaces, code-server `services/workspace.py`, `routers/codeserver.py` | files | create, open | I/O only | - | not modelled |
| Frontend `frontend/src` | browser state | pages | polling of operations | - | not modelled yet |
| DAGs, plugins, Docker files | none | examples and build files | - | - | not modelled |

Interaction. An API handler writes a project row and a job row in one
transaction. The worker polls the job table; row locks (`FOR UPDATE SKIP
LOCKED`) make a claim atomic, a lease and an attempt number fence every later
write of the claim, and a PostgreSQL advisory lock keeps two attempts off one
project. The provision saga runs between these transactions. The caller polls
`GET /projects/{slug}/operations/{id}`.

Every other request for a project passes the same gate (`load_ready_project_for_user`:
READY, and the user is a member) and then reads and writes the rows of its own
part; it locks none of them. Accepting a deletion, removing a member or revoking
a permission therefore races with every request in progress.

## 2. Modules

### LifecycleQueue

One action is one database transaction, or one event that ends an attempt.

| Variable | In the code |
|---|---|
| `project` | `projects.lifecycle_status` (`"ABSENT"`: no row yet) |
| `job` | `project_lifecycle_jobs`: status, operation, project, attempt, locked_by; `due` stands for `available_at` while the job waits and `lock_expires_at` while it runs |
| `worker` | what a worker process holds in memory: program point, claim (`ClaimedJob`), error to report |
| `projectLock` | who holds the advisory lock `conductor.project_provision:<id>` |
| `failures` | "failed" audit events per job |

| Action | In the code |
|---|---|
| `CreateProject`, `RetryProvision`, `RequestDeletion` | `create_project_operation`, `retry_project_provision`, `request_project_deletion` |
| `Claim`, `ExpireFinalAttempt` | the two ways through the loop of `claim_next_job` |
| `AcquireProjectLock`, `LoadClaimedState`, `PublishReady`, `ReturnFromRunner` | `_project_lock`, `_load_claimed_state`, `_publish_ready`, the end of `provision` |
| `Heartbeat`, `LoseOwnership`, `AttemptFails` | `heartbeat_job`; `JobOwnershipError` and other errors out of `_run_with_heartbeats` |
| `CompleteJob`, `RetryOrFailJob` | `complete_job`, `retry_or_fail_job` with `_fail_job` |
| `Crash` | the process dies (or an exception escapes `run_worker`) and Compose restarts it; the new process has a new worker id |
| `Tick` | one second passes |

Time is relative: `due` counts down, and a clock reading that is `e` seconds off
sees an instant as passed iff `due <= e`. Every transaction takes its own
`e \in -Skew..Skew`, which covers both the difference between hosts and the time
between reading the clock and being granted the row lock. The countdown stops at
`-Skew`, where every reading agrees, so time is unbounded and the state space is
finite without a horizon.

A crashed worker's next incarnation has a fresh id, so the id of the model stands
for a slot: the model's restarted worker is even allowed the same name. The rows
of the dead incarnation then carry the name of a live worker, which is fenced by
the attempt number and by its empty memory. The properties hold with this
stronger adversary.

The steps of the saga between `LoadClaimedState` and `PublishReady` are one
program point, `"provisioning"`, in which the attempt may fail, transiently or
permanently, at any time.

### ProjectOperations

The abstract specification: what a caller of the operations API may rely on. No
workers, attempts, leases or clocks. `op` is what `GET .../operations/{id}` shows.
Two modules implement it (`ImplementsPromise` in each), seen from two sides:
`LifecycleQueue`, in which requests are atomic and workers are not, and
`OperationRequests`, in which it is the other way round and an operation is known
by its key. The promise says openly that a provision may fail after it published its project (`Fail`
from READY): that is finding 1.

### ProvisionSaga

What happens inside `"provisioning"`. A worker is at a *step* of `provision`
(`load`, the nine calls of `_record_step` and the publication) and in a *phase* of
it: `locking`, `check` (`_set_step`, the only place of a step where the lease is
checked), `act`, `wait` (a Docker command), `inspect` and `record`
(`_record_compose_resources`).

| Variable | In the code |
|---|---|
| `attempt`, `leased`, `published` | what the saga reads of the job and the project; claims and expiries may come at any time, and `JobFails` takes back what was published (finding 1: READY, PROVISION_FAILED, a retry), so all that `LifecycleQueue` does is allowed |
| `lock` | the advisory lock of `_project_lock` |
| `worker` | attempt, step, phase, and `seen`: the containers of the last inspection |
| `prepared` | which of role, database, configuration and image are there |
| `row` | `project_runtime_resources.observed_status` of the containers |
| `init`, `service`, `commands` | Docker: containers and the `docker compose` processes in progress |
| `initDone` | history: an attempt was told that `airflow-init` succeeded |

Docker is outside the repository, so it is modelled from how it is used: `up`
of a running container attaches to it, of an exited one starts it again;
`--exit-code-from` returns the exit code and may stop what it started; `up
--detach` may start some services and fail. Cancelling an attempt does not end
its command: `asyncio.create_subprocess_exec` is awaited without a `finally`
that kills the child. A dying worker takes its children with it. The rows are
written in one transaction each, so an attempt may end after any part of them.
The connection that holds the lock may break without the attempt noticing
(`LockMayBreak`), which `LifecycleQueue` leaves out.

### ProjectDatabase

One action per SQL statement of `AsyncpgProjectDatabaseManager`.

| Variable | In the code |
|---|---|
| `role`, `database` | the rows of `pg_roles` and `pg_database` with the project's name, their comment, and (history) who created them |
| `lock` | the session advisory lock of `_fenced_connection` |
| `client` | program point, operation, what was read (`observed`), outcome |
| `lastOid` | the newest oid: a re-created object has another identity |

Assumed of the outside world: other users of the server may create objects with
the project's name, with no comment or a comment of theirs; they never write
Conductor's comment, and drop or alter no object. `drop_database`, `drop_role`
and `verify_absent` have no caller in `src/` yet; they are modelled because they
are part of the manager's interface and share its lock. Revoking connections and
terminating sessions before a drop, the role's attributes and its password are
left out. A failing or cancelled statement either had no effect
(`StatementFails`) or, for `COMMENT ON DATABASE`, took effect all the same.

### RuntimeArtifacts

One generation directory. A writer renders contents that depend on the
deployment row and on the settings of its process. `Written`/`Synced` distinguish
bytes that a power failure may lose; `linked` says that the parent directory was
fsynced after the rename. Validation of the specification and the symlink checks
are left out. Two things depend on the system below and are constants:

- `RenameErrors`: what `os.replace` onto a non-empty directory fails with
  (`PublishRefused`). ENOTEMPTY (ext4, overlay, tmpfs) is an `OSError` that the
  handler of `FileExistsError` does not catch; EEXIST, which POSIX allows too, is
  caught, and the generation that is there is verified.
- `ShortWrites`: `_atomic_write` writes to an unbuffered file and does not look at the number
  of bytes that `write` returns, so a disk or quota that fills up may leave a
  part of the content without an error (`Leaves`). Linux copies page by page and
  both files fit into a page today, so in practice it is all of the content or an
  error; nothing in the code keeps the files that short.

### OperationRequests

The requests of `create_project`, `retry_project_provision` and
`request_project_deletion`, with `create_reauth_grant`. `LifecycleQueue` has them
too, as atomic steps that always succeed when the project's status allows; here
are what it leaves out: handlers that run side by side, lost answers and
repetitions, keys, grants, failed requests. In return the jobs here only end.

| Variable | In the code |
|---|---|
| `status` | `projects.lifecycle_status` (`"ABSENT"`: no row yet) |
| `jobs` | `project_lifecycle_jobs` in order of creation: the request (what `request_fingerprint` is computed from, with the project and the requester), `idempotency_key`, status, `finished_at` of a failed deletion. History: the grant, when the handler decided (`at`), when the job really failed (`failedAt`) |
| `grant` | `reauth_grants`: actor, project, `created_at`, `expires_at`, `consumed_at` as the status `"consumed"`. History: `issued`, when the row was committed |
| `rowLock` | whose transaction has locked the project's row, or inserted it |
| `handler` | a request in progress: program point, request, key, grant |
| `accepted` | history: every "202 Accepted", with the operation it names |
| `time` | seconds, up to `MaxTime` |

| Action | In the code |
|---|---|
| `Create` | the INSERT of the project (`project_operations.py:92-94`) |
| `Retry`, `Delete` | `SELECT ... FOR UPDATE` of the project and every check up to the INSERT; a refusal or the replay of an accepted operation ends the request |
| `Insert` | flush and COMMIT: job, status and consumed grant together, or a violated unique index (`idempotency_key`, one active job per project) |
| `Recover` | the lookup in a new transaction after an `IntegrityError` |
| `Crash` | the process or its connection dies: the database rolls back |
| `BeginGrant`, `IssueGrant` | the beginning of the transaction, whose instant becomes `created_at`, and its end, after the password was checked |
| `Publish`, `Complete`, `Fail` | the worker's transactions, as far as the requests see them |

A client repeats a request whenever it likes, so any handler may receive any
request with any key. Two program points of a handler are enough because nothing
it reads before it has the lock decides its answer, and what it reads under the
lock only the lock's holder changes, except the key, which `Insert` checks again.

Instants. `created_at` is the database's clock; `expires_at` and `finished_at` come
from an API or worker process, and the grant is compared with the clock of
another. Each such reading is off by its own `e \in -Skew..Skew` (`Recorded`),
which also covers the time between the reading and the commit. The properties
about instants are stated in true time, up to that error: what the code
guarantees with clocks that disagree is `created > failedAt - Skew`, not
`created > failedAt`.

Left out: rate limits, checks of the account and the password (they refuse before
anything is written), and the fields of projects, deployments and credentials.
A refusal by `Recover` is one whatever its status code: of a retry or a deletion it
may be a 500 instead of a 409, because the handler then reads attributes that the
rollback has expired. The fallback to `projects.updated_at` in the deletion handler is for a failed
deletion without `finished_at`, which `_fail_job` always sets.

### ProjectAccess, and the modules on it

One project, and requests of several users in progress. A handler reads in a READ
COMMITTED transaction without locks, so each SELECT on which something depends is
a step, and the write with its COMMIT is another. `ProjectAccess` has what all
handlers share; six modules extend it with the handlers of one part each, and
`ProjectApi` composes them.

| Variable | In the code |
|---|---|
| `lifecycle`, `selfApprove` | the project's `lifecycle_status` (of which only READY and DELETING matter here) and `self_approve_enabled` |
| `users`, `roles`, `grants`, `members` | the rows of `users`, `roles`, `permissions` and `project_members`; a member has a row identity, because updates and deletions find rows by it |
| `req` | the request that each handler serves: kind, requester, `is_admin` as the session loaded it, arguments, program point, and `got`, what the handler has read and kept |
| `held` | history: what the requester was and had at any time since the request came in |
| `mix` | which kinds of requests meet in this behaviour, and how it starts |
| `cookies`, `cache` | proxy session cookies; Airflow tokens in Redis by account |
| `mrs`, `config`, `environments`, `instance` | the rows of merge requests, Git configuration, environments and the Airflow instance |
| `abandoned` | history: instances whose handler died between its commits |
| `tokens`, `spent` | refresh tokens and whether Redis has them; history: those with which a refresh was answered |

| Module, actions | In the code |
|---|---|
| `ProjectAccess`: `SeeProject`, `SeeMembership`, `SeeAuthority` | the two SELECTs of `load_ready_project_for_user`; `_ensure_admin_access` |
| `Members`: `AddRows`/`CommitAdd`, `ChangeRows`/`CommitChange`, `RemoveRows`/`CountAdministrators`/`CommitRemove` | `add_member`, `change_member_role`, `remove_member` |
| `Members`: `UpdateUser`, `CreateRole`, `DeleteRole`, `AddPermission`, `RemovePermission` | the handlers of `routers/admin.py` (`deactivate_user` is an `UpdateUser`) |
| `AirflowProxy`: `SeeAccount`, `SeeRole`, `SeeGrants` | `resolve_project_airflow_context` with `check_permission` |
| `AirflowProxy`: `SeeCache`, `Mint`, `Forward`, `Fetch`, `Bootstrap`, `Expire`, `ExpireCookie` | `get_access_token`, the proxy, the widgets, the session cookie |
| `MergeRequests`: `OpenRole`/`CommitOpen`, `SeeMerge`/`MergeRole`/`CommitMerge`/`CommitClose` | `create_mr`, `merge_mr`, `close_mr` |
| `ProjectSettings`: `UpdateSettings`, `SeeConfig`/`CommitConfig`, `SeeEnvironment`, `CreateEnvironment`, `RenameEnvironment`, `DropEnvironment` | `update_settings`, `update_git_config`, the handlers of environments |
| `AirflowInstances`: `CheckAbsent`/`InsertInstance`/`RefreshInstance`/`RunInstance`, `SeeInstance`/`DeleteInstance` | `provision_airflow`, `restart_airflow`, `delete_airflow` |
| `Sessions`: `InsertUser`, `StoreFirst`, `GetToken`/`DeleteToken`/`SeeUser`/`StoreNext`, `ExpireToken` | `register`, `login`, `refresh` |
| `ProjectApi`: `Deletion`, `Crash` | a deletion is accepted (`OperationRequests` has it in detail); a process dies |

What SQLAlchemy does is part of the model, because it decides what a race leaves
behind. An UPDATE has the columns that differ from what was loaded (`Updated`,
`Write`, `UpdateSettings`), finds its row by identity (`Unmoved`) and fails if the
row is gone, while a DELETE does not. A session that still refers to a row does
not look at the row again (`SeeRole`; the row that the gate loaded is referred to
by nobody afterwards, so the next SELECT does see it). `user.is_admin` is that of
the moment of authentication.

The authorisation properties compare what a handler is about to do with `held`.
They do not ask for rights at the moment of the write, which the code does not
promise, but for each to have been real at some time during the request:
nothing a request does rests on a right that was revoked before it came in. They
permit, as the code does, a role, setting or permission that was revoked after the
handler read it, and an account of one role with a permission of another, if the
requester had both roles during the request (hazards at `git.py:204`,
`projects.py:498` and `project_airflow_context.py:50` in `PROJECT.json`).

A role is its name, except where the code compares the identity with a name
(`NamedById`): roles of the migration are called by their identity, those seeded by
`main.py` are not. So a role that is deleted and created again is the same role in
the model, where the code gives it a new identity, and the permissions of a role are
a set, where `admin.py` allows two equal rows, of which removing one leaves the
other. Neither loses a behaviour of the code. Requests that are refused before they read anything of a project
leave no trace and are left out, and so is what an answer says.

### Proofs and instances

The theorems (section 5) are in a module of their own for each component:
`LifecycleQueueProofs` and `LifecycleQueueRefinement`, `OperationRequestsProofs`
and `OperationRequestsRefinement`, `ProjectDatabaseProofs`, `ProvisionSagaProofs`,
`RuntimeArtifactsProofs` and `ProjectApiProofs`. Each `MC...` module adds the
symmetry sets for TLC.

## 3. Runs

| Run | Instance | Shows |
|---|---|---|
| `queue` | 1 project, 3 jobs, 3 workers, 2 attempts, lease 3, skew 1, symmetric jobs and workers; 53 462 states | all safety properties and the refinement |
| `queue_live` | 2 projects, 2 jobs, 2 workers, 2 attempts, lease 2, skew 0, no symmetry; 139 848 states | `OperationsSettle` |
| `queue_transitions` | 1 project, 2 jobs, 2 workers | finding 1 |
| `database` | 3 clients, 3 objects ever created, symmetric clients; 39 655 states | all properties of the manager |
| `database_converges` | the same | finding 2 |
| `artifacts` | 3 writers, 2 contents, symmetric, both errors of rename, no short writes; 4 100 states | whole, immutable and agreed generations |
| `artifacts_race` | 2 writers, 1 content, rename fails with ENOTEMPTY | finding 3 |
| `saga` | 2 workers, 3 attempts, the API and one early service, the lock's connection may break; about 908 500 states | a truthful record of initialization, the order of the steps, what publication needs |
| `saga_orphan` | the same, the lock's connection never breaks | finding 4 |
| `requests` | 2 projects that exist or not, 1 administrator, 2 handlers, 2 keys, 2 grants, TTL 1, 2 instants, clocks agree, all symmetric; 72 852 states | one operation per key, repetitions answered, one deletion per grant, deletions authorized, the refinement |
| `access` | 2 users, 2 handlers, 3 roles, 1 merge request, 3 tokens, 15 mixes of requests, symmetric handlers; about 1 478 000 states | who may administer, merge and send; accounts, refresh tokens, credentials and instances |
| `last_admin` | the same with removals only | finding 5 |

Bounds. Three jobs on one project are enough for a provision, its retry or the
deletion that follows, and one more operation that races them; projects do not
interact except through workers, which the liveness run (two projects) covers.
Three workers are a stale owner, the owner that replaced it and a third that
claims the next job. Two attempts reach both "claim again" and "last attempt".
Lease 3 with skew 1 leaves instants at which all clocks agree that the lease is
live, disagree, and agree that it has expired. `Jobs` bounds the number of
operations ever requested and is the only bound on the length of behaviours.
Nothing else is capped in `LifecycleQueue`.

`database`: three clients are one that works, one that waits for the lock and
one that died; three oids are a foreign object, an abandoned one and its
replacement (`MaxOid` bounds creations, and nothing else bounds a behaviour). In
`artifacts` two contents suffice to disagree, and the third writer can read what
the other two race for. `saga` has one service that starts before `airflow-init`
and one that starts after, which is the distinction the code makes among the
required ones, and three attempts (`MaxAttempts`): one that is cut short, one
superseded, one that finishes.

`requests`: two handlers on two projects can race for one key under different row
locks, and on one project for its row. A key is used up by an accepted operation,
so keys bound the jobs; two suffice for a deletion that fails and the deletion
after it, because a project may be there from the start (the migration left
projects without operations). `MaxTime` 1 with TTL 1 has a grant that expires and
one that was created before a failure. Two administrators and clocks that
disagree multiply the states beyond use; the theorems have them.

`access`: a race is between two requests, so two handlers; a third would only be one
of the two repeated, or a change that a request of the same mix makes earlier.
The requests of all parts at once are beyond TLC's reach and most of them touch
no row in common, so `Mixes` (module `MCProjectApi`) lists what meets: each mix has
the kinds of requests on the same rows with those that change a right or the
lifecycle under them. A behaviour may contain any number of requests of its mix.
Two users are one who administers and one whose rights change. The roles are one
that administers, one that merges and one that the code does not know. `MaxRow` 4
bounds the rows inserted into members, environments and instances. The founder and
a second member are rows 1 and 2, which leaves two insertions: a member is removed,
added, removed and added again, and an environment or instance is deleted and made
again while a handler still holds the identity of the row that went;
`Tokens` has one for a session and one for each of two refreshes.

Deadlock is checked except in the `saga`, `access` and `last_admin` runs. In `queue` the check says nothing
more than that time can pass (`Tick` is always enabled); that work gets done is
`OperationsSettle`. The saga stops once `MaxAttempts` attempts have been made, and the API when every account is deactivated.

### Fairness

`FairSpec` is weakly fair to `Tick` (time passes) and to `WorkerStep(w)` of each
worker: the steps that a worker takes when nothing goes wrong, including going
on after its commands end. Justification: `run_worker` polls for ever, Compose
restarts the process (`restart: unless-stopped`, `docker-compose.yml:120`), and
the readiness checker has a timeout. It is an *assumption* that Docker commands
terminate: `SubprocessComposeClient._run` (`compose_provisioner.py:85-97`) has no
timeout, and a command that hangs keeps its lease by heartbeats for ever. Crashes,
failures and heartbeats are not fair: they may happen at any time, any number of
times, or never. Skew is 0 in the liveness run because disagreeing clocks only
delay a step.

## 4. Findings

1. **READY projects become PROVISION_FAILED** (`queue_transitions`).
   `_publish_ready` and `complete_job` are two transactions. If the worker dies
   between them, or its heartbeat fails, the job is claimed again; the next
   attempt finds the project READY, which `_load_claimed_state` calls "not in a
   resumable lifecycle state", a permanent error, and `_record_terminal_failure`
   overwrites READY with PROVISION_FAILED without `assert_transition`. The
   transition table (`app/services/project_lifecycle.py:16-26`) has no such
   transition and a test (`backend/tests/test_project_lifecycle.py:122`) says it
   is rejected.
2. **An interrupted `ensure_database` does not converge** (`database_converges`).
   A worker that dies between CREATE DATABASE and COMMENT leaves a database that
   its successors take for a foreign one: every further attempt ends in a
   permanent conflict. `compose_provisioner.py:236` says that each repeated step
   converges on one identity. `ConflictIsReal` (run `database`) says that this
   leftover is the only such case.
3. **The loser of a publication race fails** (`artifacts_race`). It gets ENOTEMPTY
   instead of the expected `FileExistsError`, so it never compares its rendering
   with the published one; a retry then succeeds. This is so on ext4, overlay and
   tmpfs; on a file system that says EEXIST the handler works as it was meant to.
4. **Two attempts drive Docker at once** (`saga_orphan`). The advisory lock covers
   an attempt, not the child process that a cancelled attempt leaves behind
   (`compose_provisioner.py:274`).
5. **A project can lose its last administrator** (`last_admin`). Two removals that
   overlap each count the administrator that the other one removes
   (`projects.py:676` "Prevent removing the last project_admin"). With roles that
   `main.py` seeded the check is never reached, since it compares an identity with a
   name, and `change_member_role` has none.

Seen while modelling, without a run: the projects that the migration marks as
failed have no operation that a retry could name, so they can only be deleted;
an attempt that ends after `airflow-init` and before its record initializes again;
the grant `project.*` of project administrators matches no permission that is
ever asked for, since an asterisk stands for one segment (`permissions.py:23` says
otherwise); overlapping changes of the Git URL and of the type of authentication
can leave a token with a URL that is not HTTPS; two overlapping refreshes with one
token both succeed; a short write publishes a partial generation, and every later
attempt then fails to verify it (`ShortWrites = TRUE` violates `GenerationWhole`; a
test, `backend/tests/test_runtime_artifacts.py:340`, says in its name that a failed
second write never does, but its write raises an error).

## 5. Proofs

### The queue

All theorems of `LifecycleQueueProofs` hold for every finite or infinite set of projects, jobs and workers,
every `MaxAttempts >= 1`, `Lease >= 1`, set of delays in `Nat` and `Skew` in
`Nat`, with null values outside their sets (the five named assumptions of
`LifecycleQueue`).

The safety properties are not inductive one by one. The inductive invariant `IInv`
adds to them: `RowsOK` (a row is locked exactly while it runs, and has an attempt
left while it waits: this bounds attempts), `ClaimsOK` (a worker's claim is of a
row that exists, and only provisions reach the runner), `LocksOK` (a runner past
the advisory lock holds it), and the two halves of "status agrees with unsettled
job". The chain is: the index gives `OneActiveJob`; `OneActiveJob` and the
fence give that only the owner of a project's job moves its status; the advisory
lock gives that an owner in the saga is alone; hence `PublishNotRefused` and
`ReadyUntilCompleted`; hence a completed job's project is READY.

The proof does not go through the sixteen actions nine times. `StepKinds` shows
that every step is one of eight kinds, described by their effect on fields
(`Requested`, `Claimed`, `Failed`, `Retried`, `Completed`, `Moved`, `Published`,
`OnlyTime`); each kind has one lemma that it preserves `IInv`. The action
properties and the refinement reuse the same eight kinds. `RefinesNext` maps
`Requested` to `RequestProvision`/`RequestDelete`, `Published` to `Publish`,
`Completed` to `Succeed`, `Failed` to `Fail`, and the other four to stuttering.

| Theorem | Says |
|---|---|
| `TypeCorrect` | types; at most `max_attempts` attempts |
| `AtMostOneActiveJob`, `NoStrandedProject`, `AtMostOneProvisioner`, `PublishAlwaysAllowed`, `PublishedStaysReady`, `EachFailureAuditedOnce` | the invariants of run `queue` |
| `SettledForever`, `LiveLeaseSafe` | its action properties |
| `Implementation` | `Spec => Promise!Spec` |

### The project database

`ProjectDatabaseProofs` proves every property of run `database`, for any set of
clients and any `MaxOid` in `Nat` (assumptions `MaxOidAssumption`,
`NoClientAssumption`). None is inductive. `IInv` adds:

- `CatalogOK`: the mark, the creator and the owner of the catalog's rows go
  together. A marked role is Conductor's and conversely; a database of
  Conductor's is owned by the project's role, which is then there and marked.
- `SessionsOK`: what a session knows at each statement about the rows it relies on
  (`SessionOK`), what it may claim when it ends (`FinishedOK`), and which
  operation the statement belongs to (`OperationOK`).

`Alone` gets from the lock that every other client is outside an operation, where
it knows nothing (`Outside`); so a statement of one client need only re-establish
its own facts (`StatementStep`, `ReadingStep`), and the outside world can disturb
a fact only by taking a free name (`ExternalIInv`). A consequence the code does
not rely on: most of its re-checks before a DDL statement (`RecheckOwner`,
`ConfirmDrop`, `VerifyMarked`) can never fail under the assumptions above; they
guard against users that drop or mark Conductor's objects.

| Theorem | Says |
|---|---|
| `TypeCorrect` | types; operations of one project never overlap |
| `MarkImpliesOwner`, `EnsureIsTruthful`, `VerifyIsTruthful`, `ConflictsAreReal` | the invariants of run `database` |
| `ForeignIsUntouched`, `MarkedIsDroppedOnPurpose` | its action properties |

### The requests

`OperationRequestsProofs` proves every property of run `requests`, for any sets of
projects, administrators, keys, grants and handlers and any `TTL`, `Skew` and
`MaxTime` in `Nat` (assumptions `TimeAssumption`, `NullAssumption`). `IInv` adds:

- `HandlersOK`: what a handler has checked is still true when it inserts, because
  it has the lock of the project's row; and a request that repeats an accepted
  one finds it.
- `ProjectsOK`: only the last of a project's jobs is active. So jobs of a project
  fail in the order of their creation.
- `FailuresOK`: failed deletions keep the project in DELETING or DELETION_FAILED,
  which is why the handler may skip the comparison in the other states, and the
  last of them is the latest to have failed, which is why comparing the grant with
  that one is enough (`FreshIsAfter`).
- `GrantsOK`: the facts about a grant outlive its consumption.

Where two handlers could spend one grant, the grant's project is the project of
both, and both would have to lock its row (`InsertAccepted`, step `<4>4`).

| Theorem | Says |
|---|---|
| `TypeCorrect` | types; a row is locked only by a handler that is inserting |
| `KeyNamesOneOperation`, `RepeatIsAnswered` | keys and repetitions |
| `GrantBuysOneDeletion`, `DeletionsAreAuthorized` | grants |

`OperationRequestsRefinement` proves `Implementation`, `Spec => Promise!Spec`, under
the same assumptions. `IInv` is not enough for that: `PromiseInv` adds that the
operation a retry names is still a failed provision of the project when the retry
is inserted (`RetriesOK`; the handler read it one step earlier), and that a project
is DELETING until its deletion ends (`DeletingOK`). Keys are unique (`KeysOK`), so
the view by key shows every operation (`ViewOfJob`), and a step of the handlers or
the worker that touches one job changes the view in one place (`OneViewChanges`).
`RequestedRefines` is the heart: where an INSERT commits, the row lock makes the
status still the one that was checked, and the partial unique index makes the
operation the only unsettled one.

### The saga

`ProvisionSagaProofs` proves every property of run `saga`, for any sets of workers
and services and any `MaxAttempts` (assumptions `MaxAttemptsAssumption`,
`NoWorkerAssumption`), whether or not the advisory lock can break. The argument is
that nothing an attempt relies on is ever taken back: preparations, the row of a
service once there is one, and a success of `airflow-init` that some attempt was
told of (`Kept`). The publication is taken back (`JobFails`), but no
attempt relies on the publication of another. `AttemptOK` says for each step and phase what must have happened
by then, whichever attempt did it: the preparations before the step, after `init`
its success, before the record that all services were seen, at the publication
that all have rows. `CommandsOK` carries it over to Docker, where a command may
outlive the attempt that gave it.

| Theorem | Says |
|---|---|
| `TypeCorrect` | types; the lock is held by an attempt under way or nobody |
| `InitRowIsTruthful`, `InitComesBeforeServices`, `PublishHasRuntime` | the other properties of run `saga`; the last says that the services were seen running, not that they still run (a service may exit after the inspection) |
| `LockAdmitsOneAttempt` | if the lock's connection never breaks, one attempt at a time is in the saga: finding 4 is due to the commands, not to the lock |

### Runtime artifacts

`RuntimeArtifactsProofs` proves every property of run `artifacts`, for any sets of
writers and contents and any `RenameErrors` (assumptions `NotContents`: the marks
for a missing and a torn file differ and are no contents; `ShortWritesAssumption`
and `RenameErrorsAssumption`, which say what these constants may be). `StagingOK`
says what is in the staging directory of a writer at each program point, down to
which file has been fsynced; hence both files of what a rename publishes are on disk
and hold what writes of one content leave (`GenerationOK`), and a power failure can
only take away its entry in the parent. `UserOK` says that a user has found, or made,
a generation that holds what writes of its rendering leave. Without short writes that
is the content itself, which is the hypothesis `~ShortWrites` of the two theorems
that compare contents: a torn file that was fsynced refutes them otherwise.

| Theorem | Says |
|---|---|
| `TypeCorrect` | types |
| `GenerationsAreWhole`, `UsersOfGenerationAgree` | if no write is short: the invariants of run `artifacts` |
| `GenerationsAreImmutable` | short writes or not: its action property |

### The API around a project

`ProjectApiProofs` proves every property of run `access`, for any sets of users,
roles, handlers, merge requests, environments and tokens, any mixes of requests (also all requests at
once, which TLC cannot do) and any `MaxRow`, under three of the named assumptions
(`UserAssumption`, `RoleAssumption`, `RowAssumption`).

The authority of a request rests on `held`, what its requester was and had at any
time since it came in. Every step adds to `held` and takes nothing from it
(`Accrues`), so what a request has `Passed` on the way to its program point remains
passed whatever others do to the rows (`GrowingPasses`): that is `HeldOK`, and the
theorems on administration, merging and forwarding follow from it. What a handler
has *read* may be stale; that it was so at some time during the request is not.

The other theorems are about rows that are read, kept and written over:

- `ConfigOK`: a configuration, present or loaded by a handler, that uses tokens has
  one (`Sealed`). `UpdatedIsSealed` is the crucial lemma: a handler writes only
  the columns that differ from what it loaded, over a row that another handler
  may have changed, and the result is still sealed.
- `ProxyOK`: the token that is cached under an account is of that account, so a
  cache shared by all users forwards nobody as somebody else.
- `InstancesOK`: the row of an instance in creation has a handler that remembers
  its identity, or a handler that died.
- `SessionsOK`: a token that was spent is in the store no more, and is not put
  there again, since each refresh stores a new one.
- `AccessOK`, `EnvironmentsOK`, `MergesOK`: identities of rows are unique, and a
  loaded merge request keeps its author.

| Theorem | Says |
|---|---|
| `TypeCorrect` | types; roles of members exist, names of environments are unique |
| `AdministersByRight`, `MergesByRight`, `ForwardsByRight` | what a handler writes or sends was its requester's right at some time during the request (not: still is at the write) |
| `ForwardsAsSelf`, `TokensHaveSecrets`, `CreatingHasHandler` | the invariants of run `access` on accounts, credentials and instances |
| `SpentStaysSpent` | an invariant: what was spent is not stored; the run and the theorem have it in every state, hence for ever |

### Only model-checked

`OperationsSettle`: liveness under fairness is out of the prover's reach. Everything
else that the passing runs check is stated by a theorem. The findings are
counterexamples, for which TLC is the right tool.

## 6. Plan

1. Done: the models, `LifecycleQueue`, `ProjectOperations`, `ProjectDatabase`,
   `RuntimeArtifacts`, `ProvisionSaga`, `OperationRequests`, `ProjectAccess` with the
   six modules on it, and `ProjectApi`.
2. Done: theorems for all safety and action properties of the passing runs, and both
   refinements of `ProjectOperations`.
3. Next proofs, about what the findings leave over: that two attempts which overlap in
   Docker are an attempt and the commands of earlier ones; that a project keeps an
   administrator as long as removals do not overlap.
4. Rate limits of re-authentication and login: the counter and its expiry are set
   by one script or by two commands.
5. `RowLocks`: the order in which handlers and worker lock project and job rows.

## 7. Not modelled

Secret redaction (its difficulty is in the strings), encryption of credentials
and password hashing (library calls), workspaces and code-server (files, no state
of their own), Git commands (nothing calls them), what is forwarded and answered
over HTTP, schemas that validate single values, `update_role` (a role of the model is
its name), names and descriptions of projects, rate limits, health checks and settings, the other audit events (written, never read), DAGs,
plugins, images and the React pages. `PROJECT.json` lists each with its reason, and
the hazards that no property covers yet with theirs.
