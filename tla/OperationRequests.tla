-------------------------- MODULE OperationRequests --------------------------
(***************************************************************************)
(* The requests by which administrators create a project, retry its        *)
(* provisioning and delete it: idempotency keys, one-time grants of        *)
(* re-authentication, and the row locks and unique indexes that keep       *)
(* concurrent requests apart.  LifecycleQueue has what becomes of the      *)
(* accepted operations; here their jobs only end.                          *)
(*                                                                         *)
(* A client that gets no answer repeats its request with the same key, any *)
(* number of times, however late: so a handler may receive any request     *)
(* with any key at any time, and die at any time.  It runs from one point  *)
(* where others may come in between to the next.  Until it has the lock of *)
(* the project's row it reads nothing that its answer depends on, and what *)
(* it reads then only a holder of that lock changes, but for the keys of   *)
(* other projects, which the INSERT checks again: so the request, the lock *)
(* and the reads are one step, the INSERT of the job with the COMMIT that  *)
(* follows it is another, and so is the new transaction after a violated   *)
(* index.                                                                  *)
(***************************************************************************)
EXTENDS Integers, Sequences

CONSTANTS
    Projects,
    Actors,      \* active super administrators
    Keys,        \* values of the Idempotency-Key header
    Grants,      \* one-time grants, by their token
    Handlers,    \* requests in progress
    TTL,         \* reauth_grant_ttl_seconds
    Skew,        \* error of an instant that a row records, see Recorded
    MaxTime,     \* bound on time
    NoGrant, NoHandler  \* null values

ASSUME TimeAssumption == TTL \in Nat /\ Skew \in Nat /\ MaxTime \in Nat
ASSUME NullAssumption == NoGrant \notin Grants /\ NoHandler \notin Handlers

VARIABLES
    status,    \* lifecycle_status of each project
    jobs,      \* project_lifecycle_jobs, in order of creation
    grant,     \* reauth_grants
    rowLock,   \* the handler that locks a project's row, or is inserting it
    handler,   \* the requests in progress
    accepted,  \* answers "202 Accepted" ever given
    time

vars == <<status, jobs, grant, rowLock, handler, accepted, time>>

NoJob == 0
Instants == -Skew .. MaxTime + TTL + Skew

Creations ==
    [kind : {"create"}, actor : Actors, project : Projects, of : {NoJob}, confirmed : {TRUE}]

\* A retry names the failed operation.
Retries(operations) ==
    [kind : {"retry"}, actor : Actors, project : Projects, of : operations, confirmed : {TRUE}]

\* The body of a deletion repeats the slug, correctly or not.
Removals ==
    [kind : {"delete"}, actor : Actors, project : Projects, of : {NoJob}, confirmed : BOOLEAN]

Requests == Creations \cup Retries(Nat) \cup Removals

Statuses ==
    {"ABSENT", "PROVISIONING", "READY", "PROVISION_FAILED", "DELETING", "DELETION_FAILED"}
DeletableStatuses == {"READY", "PROVISION_FAILED", "DELETION_FAILED"}

\* at: when the handler read its clock; failedAt: when the job failed; both are
\* true time, in no row.  finished is the finished_at of the row, which is read
\* of failed deletions only, and kept for them only.
JobRows ==
    [request : Requests, key : Keys, grant : Grants \cup {NoGrant}, at : 0 .. MaxTime,
     status : {"active", "succeeded", "failed"}, finished : Instants,
     failedAt : 0 .. MaxTime]

\* created_at is the database's clock, which is true time here, at the start of the
\* transaction; issued, its end, is in no row.
GrantRows ==
    [status : {"pending", "issued", "consumed"}, actor : Actors, project : Projects,
     created : 0 .. MaxTime, issued : 0 .. MaxTime, expires : Instants]
    \cup {[status |-> "absent"]}

\* wronged: the last request was refused though it repeated an accepted one.
Idle(wronged) == [pc |-> "idle", wronged |-> wronged]

\* repeated: when it was received, an operation had been accepted for it already.
Working ==
    [pc : {"insert", "recover"},
     request : Requests, key : Keys, grant : Grants \cup {NoGrant}, at : 0 .. MaxTime,
     repeated : BOOLEAN]

\* The migration that introduced operations left the projects of before without any.
Init ==
    /\ status \in [Projects -> {"ABSENT", "PROVISION_FAILED"}]
    /\ jobs = <<>>
    /\ grant = [g \in Grants |-> [status |-> "absent"]]
    /\ rowLock = [p \in Projects |-> NoHandler]
    /\ handler = [h \in Handlers |-> Idle(FALSE)]
    /\ accepted = {}
    /\ time = 0

-----------------------------------------------------------------------------
\* An instant as an API or worker process records it: its clock differs from the
\* database's, or it was read a while before the transaction that records it.
Recorded == {time + e : e \in -Skew .. Skew}

Project(h) == handler[h].request.project

Unlock(h) == rowLock' = [p \in Projects |-> IF rowLock[p] = h THEN NoHandler ELSE rowLock[p]]

\* Mutant: an answer leaves the transaction open.
EndWithoutRollback(h, wronged) ==
    handler' = [handler EXCEPT ![h] = Idle(wronged)] /\ UNCHANGED rowLock

\* The request has its answer; its transaction, if there is one, has ended.
End(h, wronged) == handler' = [handler EXCEPT ![h] = Idle(wronged)] /\ Unlock(h)

\* The row with this key: there is at most one.
Existing(key) == {i \in DOMAIN jobs : jobs[i].key = key}

\* Same project, operation, requester and fingerprint.
Replays(key, request) == {i \in Existing(key) : jobs[i].request = request}

\* An error status.
Refuse(h, repeated) == End(h, repeated) /\ UNCHANGED accepted

\* 202 with operation i.
Accept(h, key, request, i) ==
    /\ End(h, FALSE)
    /\ accepted' = accepted \cup {[key |-> key, request |-> request, job |-> i]}

\* The handler works on.
Begin(h, pc, request, key, g, at) ==
    /\ handler' = [handler EXCEPT ![h] =
           [pc |-> pc, request |-> request, key |-> key, grant |-> g, at |-> at,
            repeated |-> Replays(key, request) # {}]]
    /\ rowLock' = IF pc = "insert" THEN [rowLock EXCEPT ![request.project] = h] ELSE rowLock
    /\ UNCHANGED accepted

\* Mutant: no partial unique index on the active jobs of a project.
ActiveIgnored(p) == FALSE
Active(p) == \E i \in DOMAIN jobs : jobs[i].request.project = p /\ jobs[i].status = "active"

-----------------------------------------------------------------------------
(* Handlers. *)

\* The INSERT of the project waits for one that is in progress, and is refused when
\* the slug is taken.
Create(h) ==
    /\ handler[h].pc = "idle"
    /\ \E request \in Creations, key \in Keys :
           /\ rowLock[request.project] = NoHandler
           /\ Begin(h, IF status[request.project] = "ABSENT" THEN "insert" ELSE "recover",
                    request, key, NoGrant, 0)
    /\ UNCHANGED <<status, jobs, grant, time>>

\* SELECT ... FOR UPDATE finds the project, and no other handler locks it.
Lockable(p) == status[p] # "ABSENT" /\ rowLock[p] = NoHandler

Retriable(request) ==
    /\ jobs[request.of].request.kind # "delete"
    /\ jobs[request.of].status = "failed"
    /\ status[request.project] = "PROVISION_FAILED"

\* An operation of another project is not found, which leaves no trace.
Retry(h) ==
    /\ handler[h].pc = "idle"
    /\ \E request \in Retries(DOMAIN jobs), key \in Keys :
           /\ Lockable(request.project)
           /\ jobs[request.of].request.project = request.project
           /\ \/ \E i \in Replays(key, request) : Accept(h, key, request, i)
              \/ /\ Replays(key, request) = {}
                 /\ IF Existing(key) = {} /\ Retriable(request)
                    THEN Begin(h, "insert", request, key, NoGrant, 0)
                    ELSE Refuse(h, FALSE)
    /\ UNCHANGED <<status, jobs, grant, time>>

FailedDeletions(p) ==
    {i \in DOMAIN jobs : /\ jobs[i].request.kind = "delete" /\ jobs[i].request.project = p
                         /\ jobs[i].status = "failed"}

LastFailedDeletion(p) == {i \in FailedDeletions(p) : \A k \in FailedDeletions(p) : k <= i}

\* Mutant: any grant will do after a failed deletion.
FreshAnyhow(g, p) == TRUE

\* After a failed deletion only a grant created after the failure will do.
Fresh(g, p) ==
    status[p] = "DELETION_FAILED" =>
        \A i \in LastFailedDeletion(p) : grant[g].created > jobs[i].finished

Usable(g, request, now) ==
    /\ g # NoGrant
    /\ grant[g].status = "issued"
    /\ grant[g].actor = request.actor
    /\ grant[g].project = request.project
    /\ grant[g].expires > now
    /\ Fresh(g, request.project)

Deletable(request, g, now) ==
    /\ status[request.project] \in DeletableStatuses
    /\ request.confirmed
    /\ Usable(g, request, now)

\* Mutant: the state of the project is looked at before the key.
CheckDeleteStateFirst(h, request, key, g, now) ==
    IF Existing(key) = {} /\ Deletable(request, g, now)
    THEN Begin(h, "insert", request, key, g, time)
    ELSE Refuse(h, Replays(key, request) # {})

CheckDelete(h, request, key, g, now) ==
    \/ \E i \in Replays(key, request) : Accept(h, key, request, i)
    \/ /\ Replays(key, request) = {}
       /\ IF Existing(key) = {} /\ Deletable(request, g, now)
          THEN Begin(h, "insert", request, key, g, time)
          ELSE Refuse(h, FALSE)

Delete(h) ==
    /\ handler[h].pc = "idle"
    /\ \E request \in Removals, key \in Keys, g \in Grants \cup {NoGrant}, now \in Recorded :
           /\ Lockable(request.project)
           /\ CheckDelete(h, request, key, g, now)
    /\ UNCHANGED <<status, jobs, grant, time>>

\* Mutant: no unique index on idempotency_key.
KeyIgnored(key) == FALSE
KeyTaken(key) == Existing(key) # {}

\* Mutant: consumed_at is not set.
ConsumeNot(used) == UNCHANGED grant

Consume(used) ==
    grant' = [g \in Grants |-> IF g = used THEN [grant[g] EXCEPT !.status = "consumed"]
                                           ELSE grant[g]]

\* The job, the project's status and the consumed grant are one transaction,
\* which a violated index rolls back.
Insert(h) ==
    LET request == handler[h].request
        key == handler[h].key
    IN
    /\ handler[h].pc = "insert"
    /\ IF KeyTaken(key) \/ Active(request.project)
       THEN /\ handler' = [handler EXCEPT ![h].pc = "recover"]
            /\ Unlock(h)
            /\ UNCHANGED <<status, jobs, grant, accepted>>
       ELSE /\ jobs' = Append(jobs,
                   [request |-> request, key |-> key, grant |-> handler[h].grant,
                    at |-> handler[h].at, status |-> "active", finished |-> 0, failedAt |-> 0])
            /\ status' = [status EXCEPT ![request.project] =
                   IF request.kind = "delete" THEN "DELETING" ELSE "PROVISIONING"]
            /\ Consume(handler[h].grant)
            /\ Accept(h, key, request, Len(jobs) + 1)
    /\ UNCHANGED time

\* After an IntegrityError: the key is looked up once more.  A refusal is a 409; of a
\* retry or deletion it may be a 500, because the handler reads attributes that the
\* rollback has expired.  Nothing depends on which.
Recover(h) ==
    LET request == handler[h].request
        key == handler[h].key
    IN
    /\ handler[h].pc = "recover"
    /\ \/ \E i \in Replays(key, request) : Accept(h, key, request, i)
       \/ Replays(key, request) = {} /\ Refuse(h, handler[h].repeated)
    /\ UNCHANGED <<status, jobs, grant, time>>

\* The process, or its connection to the database, dies.
Crash(h) ==
    /\ handler[h].pc # "idle"
    /\ End(h, FALSE)
    /\ UNCHANGED <<status, jobs, grant, accepted, time>>

-----------------------------------------------------------------------------
(* create_reauth_grant *)

BeginGrant(g) ==
    /\ grant[g].status = "absent"
    /\ \E a \in Actors, p \in Projects :
           /\ status[p] # "ABSENT"
           /\ grant' = [grant EXCEPT ![g] =
                  [status |-> "pending", actor |-> a, project |-> p, created |-> time,
                   issued |-> 0, expires |-> 0]]
    /\ UNCHANGED <<status, jobs, rowLock, handler, accepted, time>>

\* The password is right.
IssueGrant(g) ==
    /\ grant[g].status = "pending"
    /\ \E now \in Recorded :
           grant' = [grant EXCEPT ![g].status = "issued", ![g].issued = time,
                                  ![g].expires = now + TTL]
    /\ UNCHANGED <<status, jobs, rowLock, handler, accepted, time>>

(* The worker, as far as the requests see it. *)

Publish(i) ==
    /\ jobs[i].status = "active" /\ jobs[i].request.kind # "delete"
    /\ rowLock[jobs[i].request.project] = NoHandler
    /\ status[jobs[i].request.project] = "PROVISIONING"
    /\ status' = [status EXCEPT ![jobs[i].request.project] = "READY"]
    /\ UNCHANGED <<jobs, grant, rowLock, handler, accepted, time>>

Complete(i) ==
    /\ jobs[i].status = "active" /\ jobs[i].request.kind # "delete"
    /\ status[jobs[i].request.project] = "READY"
    /\ jobs' = [jobs EXCEPT ![i].status = "succeeded"]
    /\ UNCHANGED <<status, grant, rowLock, handler, accepted, time>>

Fail(i) ==
    LET p == jobs[i].request.project IN
    /\ jobs[i].status = "active"
    /\ rowLock[p] = NoHandler
    /\ IF jobs[i].request.kind = "delete"
       THEN /\ status' = [status EXCEPT ![p] = "DELETION_FAILED"]
            /\ \E finished \in Recorded :
                   jobs' = [jobs EXCEPT ![i].status = "failed", ![i].finished = finished,
                                        ![i].failedAt = time]
       ELSE /\ status' = [status EXCEPT ![p] = "PROVISION_FAILED"]
            /\ jobs' = [jobs EXCEPT ![i].status = "failed"]
    /\ UNCHANGED <<grant, rowLock, handler, accepted, time>>

Tick ==
    /\ time < MaxTime
    /\ time' = time + 1
    /\ UNCHANGED <<status, jobs, grant, rowLock, handler, accepted>>

Next ==
    \/ \E h \in Handlers :
           Create(h) \/ Retry(h) \/ Delete(h) \/ Insert(h) \/ Recover(h) \/ Crash(h)
    \/ \E g \in Grants : BeginGrant(g) \/ IssueGrant(g)
    \/ \E i \in DOMAIN jobs : Publish(i) \/ Complete(i) \/ Fail(i)
    \/ Tick

Spec == Init /\ [][Next]_vars

-----------------------------------------------------------------------------
\* Types; and only a handler that is still at work on a project locks its row.
TypeOK ==
    /\ status \in [Projects -> Statuses]
    /\ jobs \in Seq(JobRows)
    /\ grant \in [Grants -> GrantRows]
    /\ rowLock \in [Projects -> Handlers \cup {NoHandler}]
    /\ \A p \in Projects : rowLock[p] # NoHandler =>
           handler[rowLock[p]].pc = "insert" /\ Project(rowLock[p]) = p
    /\ handler \in [Handlers -> Working \cup {Idle(FALSE), Idle(TRUE)}]
    /\ accepted \subseteq [key : Keys, request : Requests, job : Nat]
    /\ time \in 0 .. MaxTime

\* An Idempotency-Key names one operation: whenever two requests with the same
\* key were accepted, at whatever time and by whichever handlers, they were the
\* same request and were told of the same operation, which is the one they asked
\* for (the key lookups and unique index behind all three handlers).
OneOperationPerKey ==
    /\ \A a, b \in accepted : a.key = b.key => a = b
    /\ \A a \in accepted : jobs[a.job].key = a.key /\ jobs[a.job].request = a.request

\* A client that repeats an accepted request, because the answer was lost, is told
\* of its operation, whatever has become of the operation and its project since.
RepeatNotRefused ==
    \A h \in Handlers : handler[h] # Idle(TRUE)

Deletions == {i \in DOMAIN jobs : jobs[i].request.kind = "delete"}

\* A grant buys one deletion: it is consumed by exactly the deletion that it
\* authorized, and a request that is refused or dies does not consume it.
GrantSpentOnce ==
    /\ \A i, k \in Deletions : jobs[i].grant = jobs[k].grant => i = k
    /\ \A g \in Grants : grant[g].status = "consumed" <=> \E i \in Deletions : jobs[i].grant = g

\* Every deletion was confirmed, and authorized by a grant that the same
\* administrator obtained for this project, that had not expired, and that was
\* asked for after the last deletion of the project failed; all instants up to
\* the error of the clocks that recorded them.
DeletionAuthorized ==
    \A i \in Deletions :
        LET g == grant[jobs[i].grant]
            q == jobs[i].request
        IN  /\ q.confirmed /\ g.actor = q.actor /\ g.project = q.project
            /\ jobs[i].at < g.issued + TTL + 2 * Skew
            /\ \A k \in FailedDeletions(q.project) :
                   k < i => g.created > jobs[k].failedAt - Skew

-----------------------------------------------------------------------------
\* What a caller sees of operations, each named by the key it was accepted with.
JobView(i) ==
    [state |-> jobs[i].status,
     kind |-> IF jobs[i].request.kind = "delete" THEN "DELETE" ELSE "PROVISION",
     project |-> jobs[i].request.project]

OpView == [key \in Keys |->
              IF Existing(key) = {} THEN [state |-> "none", kind |-> "NONE", project |-> NoHandler]
                                    ELSE JobView(CHOOSE i \in Existing(key) : TRUE)]

Promise == INSTANCE ProjectOperations WITH Ops <- Keys, NoProject <- NoHandler, op <- OpView

\* Requests that race, are repeated or die change operations and projects only as
\* the API promises: an operation is accepted in a state that allows it, a retry
\* of a failed provision, a deletion of a project at rest, and never beside another
\* unsettled operation of the project, although what a handler checked may be long
\* past when its INSERT commits.
ImplementsPromise == Promise!Spec
=============================================================================
