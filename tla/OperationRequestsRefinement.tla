--------------------- MODULE OperationRequestsRefinement ---------------------
(***************************************************************************)
(* OperationRequests implements ProjectOperations, for all constants: what *)
(* becomes of operations through racing, repeated and dying requests is    *)
(* what the API promises.                                                  *)
(***************************************************************************)
EXTENDS OperationRequestsProofs

USE DEF DeletableStatuses

\* Job i is a failed provision of p.
FailedProvisionJob(i, p) ==
    /\ i \in DOMAIN jobs
    /\ jobs[i].request.kind # "delete" /\ jobs[i].request.project = p
    /\ jobs[i].status = "failed"

\* What IInv leaves open, since no property of the requests needs it: that the job
\* a retry names stays failed, and that a project is DELETING until its deletion ends.
RetryOK(h) ==
    handler[h].pc = "insert" /\ handler[h].request.kind = "retry" =>
        FailedProvisionJob(handler[h].request.of, handler[h].request.project)

RetriesOK == \A h \in Handlers : RetryOK(h)

DeletingOK ==
    \A i \in DOMAIN jobs : jobs[i].status = "active" /\ jobs[i].request.kind = "delete" =>
        status[jobs[i].request.project] = "DELETING"

PromiseInv == IInv /\ RetriesOK /\ DeletingOK

-----------------------------------------------------------------------------
(* Every step is of one of five kinds. *)

Quiet == UNCHANGED <<status, jobs>>

OthersKept(i) == \A k \in DOMAIN jobs \ {i} : jobs'[k] = jobs[k]

\* The target state of a request.
Target(request) == IF request.kind = "delete" THEN "DELETING" ELSE "PROVISIONING"

\* The request of handler h is accepted, as operation n.
Requested(h, n) ==
    /\ handler[h].pc = "insert" /\ Existing(handler[h].key) = {} /\ ~Active(Project(h))
    /\ n \notin DOMAIN jobs /\ DOMAIN jobs' = DOMAIN jobs \cup {n}
    /\ OthersKept(n)
    /\ jobs'[n].request = handler[h].request /\ jobs'[n].key = handler[h].key
    /\ jobs'[n].status = "active"
    /\ status' = [status EXCEPT ![Project(h)] = Target(handler[h].request)]

Published(i) ==
    /\ jobs[i].status = "active" /\ jobs[i].request.kind # "delete"
    /\ status[jobs[i].request.project] = "PROVISIONING"
    /\ status' = [status EXCEPT ![jobs[i].request.project] = "READY"]
    /\ UNCHANGED jobs

\* Operation i settles.
Settled(i, outcome) ==
    /\ jobs[i].status = "active" /\ jobs'[i].status = outcome
    /\ DOMAIN jobs' = DOMAIN jobs /\ OthersKept(i)
    /\ jobs'[i].request = jobs[i].request /\ jobs'[i].key = jobs[i].key

Completed(i) ==
    /\ Settled(i, "succeeded")
    /\ jobs[i].request.kind # "delete" /\ status[jobs[i].request.project] = "READY"
    /\ UNCHANGED status

Failed(i) ==
    /\ Settled(i, "failed")
    /\ status' = [status EXCEPT ![jobs[i].request.project] =
           IF jobs[i].request.kind = "delete" THEN "DELETION_FAILED" ELSE "PROVISION_FAILED"]

Kinds ==
    \/ Quiet
    \/ \E h \in Handlers : Requested(h, Len(jobs) + 1)
    \/ \E i \in DOMAIN jobs : Published(i) \/ Completed(i) \/ Failed(i)

\* A handler goes on with the request it had, or has just checked the job it names.
Checked(h) ==
    handler'[h].pc = "insert" /\ handler'[h].request.kind = "retry" =>
        \/ handler'[h] = handler[h]
        \/ FailedProvisionJob(handler'[h].request.of, handler'[h].request.project)

LEMMA EndChecked ==
    ASSUME TypeOK, NEW h \in Handlers, NEW wronged, End(h, wronged), NEW d \in Handlers
    PROVE  Checked(d)
<1>1. CASE d = h
    <2>1. handler'[h].pc = "idle"
        BY DEF End, Idle, TypeOK
    <2> QED BY <1>1, <2>1 DEF Checked
<1>2. CASE d # h
    <2>1. handler'[d] = handler[d]
        BY <1>2 DEF End, TypeOK
    <2> QED BY <2>1 DEF Checked
<1> QED BY <1>1, <1>2

LEMMA BeginChecked ==
    ASSUME TypeOK, NEW h \in Handlers, NEW pc, NEW request, NEW key, NEW g, NEW at,
           Begin(h, pc, request, key, g, at),
           pc = "insert" /\ request.kind = "retry" =>
               FailedProvisionJob(request.of, request.project),
           NEW d \in Handlers
    PROVE  Checked(d)
<1>1. CASE d = h
    <2>1. handler'[h].pc = pc /\ handler'[h].request = request
        BY DEF Begin, TypeOK
    <2> QED BY <1>1, <2>1 DEF Checked
<1>2. CASE d # h
    <2>1. handler'[d] = handler[d]
        BY <1>2 DEF Begin, TypeOK
    <2> QED BY <2>1 DEF Checked
<1> QED BY <1>1, <1>2

LEMMA CreateKind ==
    ASSUME TypeOK, NEW h \in Handlers, Create(h), NEW d \in Handlers
    PROVE  Quiet /\ Checked(d)
<1>1. PICK request \in Creations, key \in Keys :
          Begin(h, IF status[request.project] = "ABSENT" THEN "insert" ELSE "recover",
                request, key, NoGrant, 0)
    BY DEF Create
<1>2. request.kind # "retry"
    BY DEF Creations
<1>3. Checked(d)
    BY <1>1, <1>2, BeginChecked
<1> QED BY <1>3 DEF Create, Quiet

LEMMA RetryKind ==
    ASSUME TypeOK, NEW h \in Handlers, Retry(h), NEW d \in Handlers
    PROVE  Quiet /\ Checked(d)
<1>1. PICK request \in Retries(DOMAIN jobs), key \in Keys :
          /\ jobs[request.of].request.project = request.project
          /\ \/ \E i \in Replays(key, request) : Accept(h, key, request, i)
             \/ IF Existing(key) = {} /\ Retriable(request)
                THEN Begin(h, "insert", request, key, NoGrant, 0)
                ELSE Refuse(h, FALSE)
    BY DEF Retry
<1>2. request.of \in DOMAIN jobs
    BY DEF Retries
<1>3. CASE \E i \in Replays(key, request) : Accept(h, key, request, i)
    BY <1>3, EndChecked DEF Accept, Retry, Quiet
<1>4. CASE Refuse(h, FALSE)
    BY <1>4, EndChecked DEF Refuse, Retry, Quiet
<1>5. CASE Retriable(request) /\ Begin(h, "insert", request, key, NoGrant, 0)
    <2>1. FailedProvisionJob(request.of, request.project)
        BY <1>1, <1>2, <1>5 DEF Retriable, FailedProvisionJob
    <2>2. Checked(d)
        BY <1>5, <2>1, BeginChecked
    <2> QED BY <2>2 DEF Retry, Quiet
<1> QED BY <1>1, <1>3, <1>4, <1>5

LEMMA DeleteKind ==
    ASSUME TypeOK, NEW h \in Handlers, Delete(h), NEW d \in Handlers
    PROVE  Quiet /\ Checked(d)
<1>1. PICK request \in Removals, key \in Keys, g \in Grants \cup {NoGrant}, now \in Recorded :
          CheckDelete(h, request, key, g, now)
    BY DEF Delete
<1>2. request.kind # "retry"
    BY DEF Removals
<1>3. CASE \E i \in Replays(key, request) : Accept(h, key, request, i)
    BY <1>3, EndChecked DEF Accept, Delete, Quiet
<1>4. CASE Refuse(h, FALSE)
    BY <1>4, EndChecked DEF Refuse, Delete, Quiet
<1>5. CASE Begin(h, "insert", request, key, g, time)
    <2>1. Checked(d)
        BY <1>2, <1>5, BeginChecked
    <2> QED BY <2>1 DEF Delete, Quiet
<1> QED BY <1>1, <1>3, <1>4, <1>5 DEF CheckDelete

LEMMA RecoverKind ==
    ASSUME TypeOK, NEW h \in Handlers, Recover(h) \/ Crash(h), NEW d \in Handlers
    PROVE  Quiet /\ Checked(d)
<1>1. \E wronged : End(h, wronged)
    BY DEF Recover, Crash, Accept, Refuse
<1>2. Checked(d)
    BY <1>1, EndChecked
<1> QED BY <1>2 DEF Recover, Crash, Quiet

LEMMA InsertKind ==
    ASSUME IInv, NEW h \in Handlers, Insert(h), NEW d \in Handlers
    PROVE  (Quiet \/ Requested(h, Len(jobs) + 1)) /\ Checked(d)
<1>0. TypeOK
    BY DEF IInv
<1>1. CASE KeyTaken(handler[h].key) \/ Active(handler[h].request.project)
    <2>1. handler' = [handler EXCEPT ![h].pc = "recover"] /\ Quiet
        BY <1>1 DEF Insert, Quiet
    <2>2. Checked(d)
        <3>1. CASE d = h
            <4>1. handler'[h].pc = "recover"
                BY <1>0, <2>1, HandlerFields DEF TypeOK, Insert, Working
            <4> QED BY <3>1, <4>1 DEF Checked
        <3>2. CASE d # h
            BY <1>0, <2>1, <3>2 DEF TypeOK, Checked
        <3> QED BY <3>1, <3>2
    <2> QED BY <2>1, <2>2
<1>2. CASE ~(KeyTaken(handler[h].key) \/ Active(handler[h].request.project))
    <2> DEFINE n == Len(jobs) + 1
    <2>1. /\ jobs' = Append(jobs, NewJob(h)) /\ handler[h].pc = "insert"
          /\ status' = [status EXCEPT ![Project(h)] = Target(handler[h].request)]
          /\ End(h, FALSE)
        BY <1>2 DEF Insert, NewJob, Project, Target, Accept
    <2>2. /\ n \in DOMAIN jobs' /\ jobs'[n] = NewJob(h)
          /\ DOMAIN jobs' = DOMAIN jobs \cup {n}
          /\ \A i \in DOMAIN jobs : jobs'[i] = jobs[i] /\ i < n
        BY <1>0, <2>1, NewJobFields, AppendEffect
    <2>3. n \notin DOMAIN jobs
        BY <1>0, JobFields
    <2>4. Existing(handler[h].key) = {} /\ ~Active(Project(h))
        BY <1>2 DEF KeyTaken, Project
    <2>5. /\ jobs'[n].request = handler[h].request /\ jobs'[n].key = handler[h].key
          /\ jobs'[n].status = "active"
        BY <2>2 DEF NewJob
    <2>6. Requested(h, n)
        BY <2>1, <2>2, <2>3, <2>4, <2>5 DEF Requested, OthersKept
    <2>7. Checked(d)
        BY <1>0, <2>1, EndChecked
    <2> QED BY <2>6, <2>7
<1> QED BY <1>1, <1>2

LEMMA WorkerKind ==
    ASSUME TypeOK, NEW i \in DOMAIN jobs, Publish(i) \/ Complete(i) \/ Fail(i)
    PROVE  (Published(i) \/ Completed(i) \/ Failed(i)) /\ UNCHANGED handler
<1>1. CASE Publish(i)
    BY <1>1 DEF Publish, Published
<1>2. CASE Complete(i)
    <2>1. /\ DOMAIN jobs' = DOMAIN jobs /\ OthersKept(i)
          /\ jobs'[i] = [jobs[i] EXCEPT !.status = "succeeded"]
        BY <1>2 DEF Complete, OthersKept, TypeOK
    <2>2. jobs[i] \in JobRows
        BY JobFields
    <2>3. /\ jobs'[i].status = "succeeded"
          /\ jobs'[i].request = jobs[i].request /\ jobs'[i].key = jobs[i].key
        BY <2>1, <2>2 DEF JobRows
    <2> QED BY <1>2, <2>1, <2>3 DEF Complete, Completed, Settled
<1>3. CASE Fail(i)
    <2>1. PICK finished, failedAt :
              jobs' = [jobs EXCEPT ![i] = [jobs[i] EXCEPT !.status = "failed",
                           !.finished = finished, !.failedAt = failedAt]]
        <3>1. CASE jobs[i].request.kind = "delete"
            <4>1. PICK finished \in Recorded :
                      jobs' = [jobs EXCEPT ![i].status = "failed", ![i].finished = finished,
                                           ![i].failedAt = time]
                BY <1>3, <3>1 DEF Fail
            <4>2. jobs' = [jobs EXCEPT ![i] = [jobs[i] EXCEPT !.status = "failed",
                               !.finished = finished, !.failedAt = time]]
                BY <4>1
            <4> QED BY <4>2
        <3>2. CASE jobs[i].request.kind # "delete"
            <4>1. jobs' = [jobs EXCEPT ![i] = [jobs[i] EXCEPT !.status = "failed"]]
                BY <1>3, <3>2 DEF Fail
            <4>2. [jobs[i] EXCEPT !.status = "failed"] =
                      [jobs[i] EXCEPT !.status = "failed", !.finished = jobs[i].finished,
                                      !.failedAt = jobs[i].failedAt]
                BY JobFields DEF JobRows
            <4> QED BY <4>1, <4>2
        <3> QED BY <3>1, <3>2
    <2>2. jobs[i] \in JobRows
        BY JobFields
    <2>3. /\ DOMAIN jobs' = DOMAIN jobs /\ OthersKept(i)
          /\ jobs'[i] = [jobs[i] EXCEPT !.status = "failed", !.finished = finished,
                                        !.failedAt = failedAt]
        BY <2>1 DEF OthersKept, TypeOK
    <2>4. /\ jobs'[i].status = "failed"
          /\ jobs'[i].request = jobs[i].request /\ jobs'[i].key = jobs[i].key
        BY <2>2, <2>3 DEF JobRows
    <2>5. status' = [status EXCEPT ![jobs[i].request.project] =
              IF jobs[i].request.kind = "delete" THEN "DELETION_FAILED" ELSE "PROVISION_FAILED"]
        BY <1>3 DEF Fail
    <2> QED BY <1>3, <2>3, <2>4, <2>5 DEF Fail, Failed, Settled
<1> QED BY <1>1, <1>2, <1>3

LEMMA StepKinds ==
    ASSUME IInv, [Next]_vars
    PROVE  Kinds /\ \A d \in Handlers : Checked(d)
<1>0. TypeOK
    BY DEF IInv
<1>1. CASE UNCHANGED <<status, jobs, handler>>
    BY <1>1 DEF Kinds, Quiet, Checked
<1>2. ASSUME NEW h \in Handlers,
             \/ Create(h) \/ Retry(h) \/ Delete(h) \/ Insert(h) \/ Recover(h) \/ Crash(h)
      PROVE  Kinds /\ \A d \in Handlers : Checked(d)
    <2>1. ASSUME NEW d \in Handlers
          PROVE  (Quiet \/ Requested(h, Len(jobs) + 1)) /\ Checked(d)
        BY <1>0, <1>2, CreateKind, RetryKind, DeleteKind, InsertKind, RecoverKind
    <2> QED BY <2>1 DEF Kinds
<1>3. ASSUME NEW g \in Grants, BeginGrant(g) \/ IssueGrant(g)
      PROVE  UNCHANGED <<status, jobs, handler>>
    BY <1>3 DEF BeginGrant, IssueGrant
<1>4. ASSUME NEW i \in DOMAIN jobs, Publish(i) \/ Complete(i) \/ Fail(i)
      PROVE  Kinds /\ \A d \in Handlers : Checked(d)
    BY <1>0, <1>4, WorkerKind DEF Kinds, Checked
<1> QED BY <1>1, <1>2, <1>3, <1>4 DEF Next, Tick, vars

-----------------------------------------------------------------------------
(* The invariant. *)

LEMMA InitPromiseInv == Init => PromiseInv
<1> SUFFICES ASSUME Init PROVE RetriesOK /\ DeletingOK
    BY InitIInv DEF PromiseInv
<1>1. DOMAIN jobs = {}
    BY EmptySeq DEF Init
<1> QED BY <1>1 DEF Init, Idle, RetriesOK, RetryOK, DeletingOK

\* A failed job stays what it is.
LEMMA FailedStays ==
    ASSUME Kinds, NEW i, NEW p, FailedProvisionJob(i, p),
           Len(jobs) + 1 \notin DOMAIN jobs
    PROVE  FailedProvisionJob(i, p)'
<1>1. i \in DOMAIN jobs' /\ (jobs[i].status = "failed" => jobs'[i] = jobs[i])
    BY DEF Kinds, Quiet, Requested, Published, Completed, Failed, Settled, OthersKept,
           FailedProvisionJob
<1> QED BY <1>1 DEF FailedProvisionJob

LEMMA RetriesStep ==
    ASSUME IInv, RetriesOK, Kinds, \A d \in Handlers : Checked(d)
    PROVE  RetriesOK'
<1>1. Len(jobs) + 1 \notin DOMAIN jobs
    BY JobFields DEF IInv
<1>2. ASSUME NEW h \in Handlers PROVE RetryOK(h)'
    <2>1. CASE handler'[h] = handler[h]
        BY <1>1, <2>1, FailedStays DEF RetriesOK, RetryOK
    <2>2. CASE handler'[h] # handler[h]
        BY <1>1, <2>2, FailedStays DEF Checked, RetryOK
    <2> QED BY <2>1, <2>2
<1> QED BY <1>2 DEF RetriesOK

\* Only the last of a project's jobs is active, so no other job moves a project in
\* deletion.
LEMMA DeletingStep ==
    ASSUME IInv, DeletingOK, Kinds
    PROVE  DeletingOK'
<1> SUFFICES ASSUME NEW i \in DOMAIN jobs', jobs'[i].status = "active",
                    jobs'[i].request.kind = "delete"
             PROVE  status'[jobs'[i].request.project] = "DELETING"
    BY DEF DeletingOK
<1>4. TypeOK /\ ProjectsOK
    BY DEF IInv
<1>5. /\ \A k \in DOMAIN jobs : k \in Nat /\ jobs[k].request.project \in Projects
      /\ Len(jobs) + 1 \notin DOMAIN jobs
    BY <1>4, JobFields
<1>6. /\ \A h \in Handlers : handler[h].pc = "insert" => Project(h) \in Projects
      /\ status \in [Projects -> Statuses]
    BY <1>4, HandlerFields DEF TypeOK
<1>1. CASE Quiet
    BY <1>1 DEF Quiet, DeletingOK
<1>2. ASSUME NEW h \in Handlers, NEW n, n \notin DOMAIN jobs, Requested(h, n)
      PROVE  status'[jobs'[i].request.project] = "DELETING"
    <2>1. CASE i = n
        BY <1>4, <1>5, <1>6, <1>2, <2>1 DEF Requested, Project, Target
    <2>2. CASE i # n
        <3>1. i \in DOMAIN jobs /\ jobs'[i] = jobs[i]
            BY <1>2, <2>2 DEF Requested, OthersKept
        <3>2. jobs[i].request.project # Project(h)
            BY <1>2, <3>1 DEF Requested, Active
        <3> QED BY <1>4, <1>5, <1>6, <1>2, <3>1, <3>2 DEF Requested, DeletingOK
    <2> QED BY <2>1, <2>2
<1>3. ASSUME NEW k \in DOMAIN jobs, Published(k) \/ Completed(k) \/ Failed(k)
      PROVE  status'[jobs'[i].request.project] = "DELETING"
    <2>1. i \in DOMAIN jobs /\ i # k /\ jobs'[i] = jobs[i] /\ jobs[k].status = "active"
        BY <1>3 DEF Published, Completed, Failed, Settled, OthersKept
    <2>2. jobs[i].request.project # jobs[k].request.project
        BY <1>4, <1>5, <1>6, <2>1 DEF ProjectsOK
    <2>3. status'[jobs[i].request.project] = status[jobs[i].request.project]
        BY <1>4, <1>5, <1>6, <1>3, <2>1, <2>2 DEF Published, Completed, Failed
    <2> QED BY <2>1, <2>3 DEF DeletingOK
<1> QED BY <1>4, <1>5, <1>6, <1>1, <1>2, <1>3 DEF Kinds

LEMMA NextPromiseInv == PromiseInv /\ [Next]_vars => PromiseInv'
BY NextIInv, StepKinds, RetriesStep, DeletingStep DEF PromiseInv

-----------------------------------------------------------------------------
(* The view of a caller. *)

LEMMA SomeElement ==
    ASSUME NEW S, S # {}
    PROVE  (CHOOSE i \in S : TRUE) \in S
OBVIOUS

\* Keys are unique, so an operation is seen under its key.
LEMMA ViewOfJob ==
    ASSUME IInv, NEW i \in DOMAIN jobs
    PROVE  jobs[i].key \in Keys /\ OpView[jobs[i].key] = JobView(i)
<1>1. jobs[i].key \in Keys
    BY JobFields DEF IInv
<1>2. Existing(jobs[i].key) = {i}
    BY DEF Existing, IInv, KeysOK
<1>3. (CHOOSE k \in Existing(jobs[i].key) : TRUE) = i
    BY <1>2, SomeElement
<1> QED BY <1>1, <1>2, <1>3 DEF OpView

LEMMA NextViewOfJob ==
    ASSUME IInv', NEW i \in DOMAIN jobs', NEW key \in Keys, jobs'[i].key = key
    PROVE  OpView'[key] = JobView(i)'
<1>1. Existing(key)' = {i}
    BY DEF Existing, IInv, KeysOK
<1>2. (CHOOSE k \in Existing(key)' : TRUE) = i
    BY <1>1, SomeElement
<1> QED BY <1>1, <1>2 DEF OpView

LEMMA ViewOfNone ==
    ASSUME NEW key \in Keys, Existing(key) = {}
    PROVE  OpView[key] = Promise!None
BY DEF OpView, Promise!None

\* What is seen is nothing, or a job.
LEMMA ViewIsOfJob ==
    ASSUME IInv, NEW key \in Keys
    PROVE  \/ OpView[key] = Promise!None
           \/ \E i \in DOMAIN jobs : jobs[i].key = key /\ OpView[key] = JobView(i)
<1>1. CASE Existing(key) = {}
    BY <1>1, ViewOfNone
<1>2. CASE Existing(key) # {}
    BY <1>2, ViewOfJob DEF Existing
<1> QED BY <1>1, <1>2

\* A step that touches one job, old or new, changes the view under its key only.
LEMMA OneViewChanges ==
    ASSUME IInv, IInv', NEW n \in DOMAIN jobs', jobs'[n].key \in Keys, OthersKept(n),
           DOMAIN jobs \subseteq DOMAIN jobs', DOMAIN jobs' \subseteq DOMAIN jobs \cup {n},
           n \in DOMAIN jobs => jobs'[n].key = jobs[n].key
    PROVE  OpView' = [OpView EXCEPT ![jobs'[n].key] = JobView(n)']
<1>1. OpView'[jobs'[n].key] = JobView(n)'
    BY NextViewOfJob
<1>2. ASSUME NEW key \in Keys, key # jobs'[n].key
      PROVE  OpView'[key] = OpView[key]
    <2>1. Existing(key)' = Existing(key) /\ \A i \in Existing(key) : i # n
        BY <1>2 DEF Existing, OthersKept
    <2>2. ASSUME NEW i \in Existing(key) PROVE JobView(i)' = JobView(i)
        <3>1. jobs'[i] = jobs[i]
            BY <2>1 DEF Existing, OthersKept
        <3> QED BY <3>1 DEF JobView
    <2>3. CASE Existing(key) = {}
        BY <2>1, <2>3 DEF OpView
    <2>4. CASE Existing(key) # {}
        <3>1. PICK i : i = CHOOSE k \in Existing(key) : TRUE
            OBVIOUS
        <3>2. i \in Existing(key)
            BY <2>4, <3>1, SomeElement
        <3>3. OpView[key] = JobView(i) /\ OpView'[key] = JobView(i)'
            BY <2>1, <2>4, <3>1 DEF OpView
        <3> QED BY <2>2, <3>2, <3>3
    <2> QED BY <2>3, <2>4
<1>3. /\ DOMAIN OpView = Keys /\ DOMAIN OpView' = Keys
      /\ OpView' = [key \in Keys |-> OpView'[key]] /\ OpView = [key \in Keys |-> OpView[key]]
    BY DEF OpView
<1> QED BY <1>1, <1>2, <1>3

LEMMA SameView ==
    ASSUME UNCHANGED jobs
    PROVE  UNCHANGED OpView
BY DEF OpView, JobView, Existing

-----------------------------------------------------------------------------
(* The refinement. *)

LEMMA RefinesInit == Init => Promise!Init
<1> SUFFICES ASSUME Init PROVE Promise!Init
    OBVIOUS
<1>1. \A key \in Keys : Existing(key) = {}
    BY EmptySeq DEF Init, Existing
<1>2. OpView = [key \in Keys |-> Promise!None]
    BY <1>1 DEF OpView, Promise!None
<1> QED BY <1>2 DEF Init, Promise!Init

LEMMA RequestedRefines ==
    ASSUME PromiseInv, IInv', NEW h \in Handlers, NEW n, Requested(h, n)
    PROVE  Promise!Next
<1> DEFINE key == handler[h].key
           p == Project(h)
           kind == IF handler[h].request.kind = "delete" THEN "DELETE" ELSE "PROVISION"
<1>1. /\ IInv /\ TypeOK /\ HandlerOK(h) /\ RetryOK(h)
      /\ status \in [Projects -> Statuses]
    BY DEF PromiseInv, IInv, HandlersOK, RetriesOK, TypeOK
<1>2. /\ key \in Keys /\ p \in Projects /\ p = handler[h].request.project
      /\ handler[h].pc = "insert"
      /\ handler[h].request.kind \in {"create", "retry", "delete"}
    BY <1>1, HandlerFields, RequestFields DEF Requested, Project
<1>3. OpView[key] = Promise!None
    BY <1>2, ViewOfNone DEF Requested
<1>4. OpView' = [OpView EXCEPT ![key] = [state |-> "active", kind |-> kind, project |-> p]]
    <2>1. JobView(n)' = [state |-> "active", kind |-> kind, project |-> p]
        BY <1>2 DEF Requested, JobView
    <2>2. OpView' = [OpView EXCEPT ![jobs'[n].key] = JobView(n)']
        BY <1>1, <1>2, OneViewChanges DEF Requested
    <2> QED BY <2>1, <2>2 DEF Requested
<1>5. \A k \in Keys : OpView[k].project = p => ~Promise!Unsettled(k)
    <2> SUFFICES ASSUME NEW k \in Keys, OpView[k].project = p, OpView[k].state = "active"
                 PROVE  FALSE
        BY DEF Promise!Unsettled
    <2>1. PICK i \in DOMAIN jobs : OpView[k] = JobView(i)
        BY <1>1, ViewIsOfJob DEF Promise!None
    <2> QED BY <2>1 DEF JobView, Requested, Active
<1>6. CASE kind = "PROVISION"
    <2>1. status[p] = "ABSENT" \/ status[p] = "PROVISION_FAILED"
        BY <1>1, <1>2, <1>6 DEF HandlerOK
    <2>2. status[p] = "PROVISION_FAILED" => Promise!FailedProvision(p)
        <3> SUFFICES ASSUME status[p] = "PROVISION_FAILED" PROVE Promise!FailedProvision(p)
            OBVIOUS
        <3>1. handler[h].request.kind = "retry"
            BY <1>1, <1>2, <1>6 DEF HandlerOK
        <3>2. PICK i : FailedProvisionJob(i, p)
            BY <1>1, <1>2, <3>1 DEF RetryOK
        <3>3. JobView(i) = [state |-> "failed", kind |-> "PROVISION", project |-> p]
            BY <3>2 DEF FailedProvisionJob, JobView
        <3>4. jobs[i].key \in Keys /\ OpView[jobs[i].key] = JobView(i)
            BY <1>1, <3>2, ViewOfJob DEF FailedProvisionJob
        <3> QED BY <3>3, <3>4 DEF Promise!FailedProvision
    <2>3. status' = [status EXCEPT ![p] = "PROVISIONING"]
        BY <1>6 DEF Requested, Target
    <2>4. Promise!Accept(key, p, "PROVISION", "PROVISIONING")
        BY <1>3, <1>4, <1>5, <1>6, <2>3 DEF Promise!Accept
    <2>5. Promise!RequestProvision(key, p)
        BY <2>1, <2>2, <2>4 DEF Promise!RequestProvision
    <2> QED BY <1>2, <2>5 DEF Promise!Next
<1>7. CASE kind = "DELETE"
    <2>1. status[p] \in {"READY", "PROVISION_FAILED", "DELETION_FAILED"}
        BY <1>1, <1>2, <1>7 DEF HandlerOK
    <2>2. status' = [status EXCEPT ![p] = "DELETING"]
        BY <1>7 DEF Requested, Target
    <2>3. Promise!Accept(key, p, "DELETE", "DELETING")
        BY <1>3, <1>4, <1>5, <1>7, <2>2 DEF Promise!Accept
    <2>4. Promise!RequestDelete(key, p)
        BY <2>1, <2>3 DEF Promise!RequestDelete
    <2> QED BY <1>2, <2>4 DEF Promise!Next
<1> QED BY <1>6, <1>7

\* The view of an operation that settles.
LEMMA SettledView ==
    ASSUME IInv, IInv', NEW i \in DOMAIN jobs, NEW outcome, Settled(i, outcome)
    PROVE  /\ jobs[i].key \in Keys /\ Promise!Unsettled(jobs[i].key)
           /\ Promise!Settle(jobs[i].key, outcome)
<1>1. jobs[i].key \in Keys /\ OpView[jobs[i].key] = JobView(i)
    BY ViewOfJob
<1>2. Promise!Unsettled(jobs[i].key)
    BY <1>1 DEF Promise!Unsettled, JobView, Settled
<1>3. JobView(i)' = [JobView(i) EXCEPT !.state = outcome]
    BY DEF JobView, Settled
<1>4. OpView' = [OpView EXCEPT ![jobs'[i].key] = JobView(i)']
    BY <1>1, OneViewChanges DEF Settled
<1>5. jobs'[i].key = jobs[i].key
    BY DEF Settled
<1> QED BY <1>1, <1>2, <1>3, <1>4, <1>5 DEF Promise!Settle

LEMMA WorkerRefines ==
    ASSUME PromiseInv, IInv', NEW i \in DOMAIN jobs,
           Published(i) \/ Completed(i) \/ Failed(i)
    PROVE  Promise!Next
<1> DEFINE key == jobs[i].key
           p == jobs[i].request.project
<1>1. IInv
    BY DEF PromiseInv
<1>2. /\ key \in Keys /\ p \in Projects /\ OpView[key] = JobView(i)
      /\ OpView[key].project = p /\ OpView[key].state = jobs[i].status
      /\ jobs[i].request.kind # "delete" => OpView[key].kind = "PROVISION"
      /\ jobs[i].request.kind = "delete" => OpView[key].kind = "DELETE"
    BY <1>1, ViewOfJob, JobFields DEF IInv, JobView
<1>3. CASE Published(i)
    <2>1. Promise!Publish(key)
        BY <1>2, <1>3, SameView DEF Published, Promise!Publish, Promise!Unsettled
    <2> QED BY <1>2, <2>1 DEF Promise!Next
<1>4. CASE Completed(i)
    <2>1. Promise!Settle(key, "succeeded")
        BY <1>1, <1>4, SettledView DEF Completed
    <2>2. Promise!Succeed(key)
        BY <1>2, <1>4, <2>1 DEF Completed, Promise!Succeed
    <2> QED BY <1>2, <2>2 DEF Promise!Next
<1>5. CASE Failed(i)
    <2>1. Promise!Settle(key, "failed") /\ jobs[i].status = "active"
        BY <1>1, <1>5, SettledView DEF Failed, Settled
    <2>2. CASE jobs[i].request.kind # "delete"
        <3>1. status[p] \in {"PROVISIONING", "READY"}
            BY <1>1, <2>1, <2>2 DEF IInv, ProjectsOK
        <3>2. Promise!Fail(key)
            BY <1>2, <1>5, <2>1, <2>2, <3>1 DEF Failed, Promise!Fail
        <3> QED BY <1>2, <3>2 DEF Promise!Next
    <2>3. CASE jobs[i].request.kind = "delete"
        <3>1. status[p] = "DELETING"
            BY <2>1, <2>3 DEF PromiseInv, DeletingOK
        <3>2. Promise!Fail(key)
            BY <1>2, <1>5, <2>1, <2>3, <3>1 DEF Failed, Promise!Fail
        <3> QED BY <1>2, <3>2 DEF Promise!Next
    <2> QED BY <2>2, <2>3
<1> QED BY <1>3, <1>4, <1>5

LEMMA RefinesNext == PromiseInv /\ [Next]_vars => [Promise!Next]_(Promise!vars)
<1> SUFFICES ASSUME PromiseInv, [Next]_vars PROVE [Promise!Next]_(Promise!vars)
    OBVIOUS
<1>1. IInv' /\ Kinds
    BY NextIInv, StepKinds DEF PromiseInv
<1>2. CASE Quiet
    BY <1>2, SameView DEF Quiet, Promise!vars
<1> QED BY <1>1, <1>2, RequestedRefines, WorkerRefines DEF Kinds

\* Requests that race for a key, a project or a grant, that are repeated or die,
\* change operations and projects only as the API promises: the row lock, the
\* unique index on the key and the partial unique index on active jobs let an
\* INSERT commit only where the promise accepts an operation.
THEOREM Implementation == Spec => ImplementsPromise
<1>1. Spec => []PromiseInv
    BY InitPromiseInv, NextPromiseInv, PTL DEF Spec
<1> QED BY <1>1, RefinesInit, RefinesNext, PTL DEF Spec, ImplementsPromise, Promise!Spec

=============================================================================
