---------------------- MODULE LifecycleQueueRefinement ----------------------
(***************************************************************************)
(* LifecycleQueue implements ProjectOperations, for all constants: what    *)
(* the API shows of operations and projects is what it promises.           *)
(***************************************************************************)
EXTENDS LifecycleQueueProofs

USE NullsAssumption
USE DEF ActiveStatuses, TerminalStatuses, Operations, Resumable, DeleteInitialStates,
        ProjectStatuses, LockedPcs, RunnerPcs

\* What a caller sees of an operation.
LEMMA ViewFields ==
  ASSUME NEW j \in Jobs
  PROVE  /\ OpView[j].state = OpState(job[j])
         /\ OpView[j].kind = job[j].operation
         /\ OpView[j].project = job[j].project
  BY DEF OpView

LEMMA ViewOfState ==
  ASSUME NEW r \in JobRows
  PROVE  /\ OpState(r) = "none" <=> r.status = "ABSENT"
         /\ OpState(r) = "active" <=> r.status \in ActiveStatuses
         /\ OpState(r) = "succeeded" <=> r.status = "SUCCEEDED"
         /\ OpState(r) = "failed" <=> r.status = "FAILED"
<1>1. r.status \in ActiveStatuses \cup TerminalStatuses \cup {"ABSENT"}
  BY DEF JobRows
<1>2. CASE r.status = "ABSENT"
  BY <1>2 DEF OpState
<1>3. CASE r.status = "SUCCEEDED"
  BY <1>3 DEF OpState
<1>4. CASE r.status = "FAILED"
  BY <1>4 DEF OpState
<1>5. CASE r.status \in ActiveStatuses
  BY <1>5 DEF OpState
<1> QED BY <1>1, <1>2, <1>3, <1>4, <1>5

\* What a step shows to the caller: nothing, or the change of one operation.
LEMMA SameView ==
  ASSUME \A k \in Jobs : OpState(job'[k]) = OpState(job[k]) /\ IdentityKept(k)
  PROVE  UNCHANGED OpView
  BY DEF OpView, IdentityKept

View(row) == [state |-> OpState(row), kind |-> row.operation, project |-> row.project]

LEMMA OneViewChanges ==
  ASSUME NEW j \in Jobs, OthersKept(j)
  PROVE  OpView' = [OpView EXCEPT ![j] = View(job'[j])]
  BY DEF OpView, View, OthersKept

LEMMA SettledView ==
  ASSUME NEW j \in Jobs, NEW s, OpState(job'[j]) = s, OthersKept(j), IdentityKept(j)
  PROVE  OpView' = [OpView EXCEPT ![j] = [OpView[j] EXCEPT !.state = s]]
<1>1. View(job'[j]) = [OpView[j] EXCEPT !.state = s]
  BY DEF View, OpView, IdentityKept
<1> QED BY <1>1, OneViewChanges

LEMMA RefinesInit == Init => Promise!Init
<1> SUFFICES ASSUME Init PROVE Promise!Init
  OBVIOUS
<1>1. project \in [Projects -> {"ABSENT", "PROVISION_FAILED"}]
  BY DEF Init
<1>2. OpView = [j \in Jobs |-> Promise!None]
  BY DEF Init, OpView, OpState, NoRow, Promise!None
<1> QED BY <1>1, <1>2 DEF Promise!Init

LEMMA RefinesNext == IInv /\ TypeOK' /\ [Next]_vars => [Promise!Next]_(Promise!vars)
<1> SUFFICES ASSUME IInv, TypeOK', [Next]_vars PROVE [Promise!Next]_(Promise!vars)
  OBVIOUS
<1>0. TypeOK /\ RowsOK /\ ClaimsOK
  BY DEF IInv
<1>1. ASSUME NEW k \in Jobs
      PROVE  job[k] \in JobRows /\ job'[k] \in JobRows
  BY DEF IInv, TypeOK
<1>2. ASSUME NEW j \in Jobs, NEW p \in Projects, Requested(j, p)
      PROVE  Promise!Next
  <2> DEFINE kind == job'[j].operation
  <2>1. OpView[j] = Promise!None
    BY <1>0, <1>1, <1>2, ViewOfState DEF Requested, RowsOK, OpView, Promise!None
  <2>2. \A k \in Jobs : OpView[k].project = p => ~Promise!Unsettled(k)
    BY <1>1, <1>2, ViewOfState, ViewFields DEF Requested, Active, Promise!Unsettled
  <2>3. OpView' = [OpView EXCEPT ![j] = [state |-> "active", kind |-> kind, project |-> p]]
    BY <1>1, <1>2, ViewOfState, OneViewChanges DEF Requested, View
  <2>4. ASSUME NEW q, project'[p] = q
        PROVE  project' = [project EXCEPT ![p] = q]
    BY <1>0, <1>2, <2>4 DEF TypeOK, Requested
  <2>5. CASE kind = "PROVISION"
    <3>1. ASSUME RetryNamed(p) PROVE Promise!FailedProvision(p)
      BY <3>1, <1>1, ViewOfState DEF RetryNamed, OpView, Promise!FailedProvision
    <3>2. \/ project[p] = "ABSENT"
          \/ project[p] = "PROVISION_FAILED" /\ Promise!FailedProvision(p)
      BY <1>2, <2>5, <3>1 DEF Requested
    <3>3. project' = [project EXCEPT ![p] = "PROVISIONING"]
      BY <1>2, <2>4, <2>5 DEF Requested
    <3>4. Promise!Accept(j, p, "PROVISION", "PROVISIONING")
      BY <2>1, <2>2, <2>3, <2>5, <3>3 DEF Promise!Accept
    <3>5. Promise!RequestProvision(j, p)
      BY <3>2, <3>4 DEF Promise!RequestProvision
    <3> QED BY <3>5 DEF Promise!Next
  <2>6. CASE kind = "DELETE"
    <3>1. project[p] \in DeleteInitialStates /\ project'[p] = "DELETING"
      BY <1>2, <2>6 DEF Requested
    <3>2. Promise!Accept(j, p, "DELETE", "DELETING")
      BY <2>1, <2>2, <2>3, <2>4, <2>6, <3>1 DEF Promise!Accept
    <3>3. Promise!RequestDelete(j, p)
      BY <3>1, <3>2 DEF Promise!RequestDelete
    <3> QED BY <3>3 DEF Promise!Next
  <2> QED BY <1>2, <2>5, <2>6 DEF Requested
<1>3. ASSUME NEW w \in Workers, NEW j \in Jobs, Claimed(w, j)
      PROVE  UNCHANGED Promise!vars
  <2>1. ASSUME NEW k \in Jobs
        PROVE  OpState(job'[k]) = OpState(job[k]) /\ IdentityKept(k)
    BY <1>1, <1>3, ViewOfState DEF Claimed, OthersKept, IdentityKept, Active
  <2> QED BY <1>3, <2>1, SameView DEF Claimed, Promise!vars
<1>4. ASSUME NEW j \in Jobs, Failed(j)
      PROVE  Promise!Next
  <2>1. Promise!Unsettled(j)
    BY <1>1, <1>4, ViewOfState, ViewFields DEF Failed, Promise!Unsettled
  <2>2. OpView' = [OpView EXCEPT ![j] = [OpView[j] EXCEPT !.state = "failed"]]
    <3>1. OpState(job'[j]) = "failed"
      BY <1>1, <1>4, ViewOfState DEF Failed
    <3> QED BY <1>4, <3>1, SettledView DEF Failed
  <2>3. /\ OpView[j].kind = job[j].operation
        /\ OpView[j].project = job[j].project
    BY ViewFields
  <2>4. /\ job[j].project \in Projects
        /\ \/ /\ job[j].operation = "PROVISION"
              /\ project[job[j].project] \in {"PROVISIONING", "READY"}
           \/ /\ job[j].operation = "DELETE"
              /\ project[job[j].project] = "DELETING"
    BY <1>4 DEF IInv, RowsOK, JobImpliesStatus, Active, Failed
  <2>5. project' = [project EXCEPT ![job[j].project] =
          IF job[j].operation = "PROVISION" THEN "PROVISION_FAILED" ELSE "DELETION_FAILED"]
    BY <1>0, <1>4, <2>4 DEF TypeOK, Failed
  <2>6. Promise!Fail(j)
    BY <2>1, <2>2, <2>3, <2>4, <2>5 DEF Promise!Fail, Promise!Settle
  <2> QED BY <2>6 DEF Promise!Next
<1>5. ASSUME NEW j \in Jobs, Retried(j)
      PROVE  UNCHANGED Promise!vars
  <2>1. ASSUME NEW k \in Jobs
        PROVE  OpState(job'[k]) = OpState(job[k]) /\ IdentityKept(k)
    BY <1>1, <1>5, ViewOfState DEF Retried, OthersKept, IdentityKept
  <2> QED BY <1>5, <2>1, SameView DEF Retried, Promise!vars
<1>6. ASSUME NEW w \in Workers, NEW j \in Jobs, Completed(w, j)
      PROVE  Promise!Next
  <2>1. job[j].status = "RUNNING" /\ job[j].operation = "PROVISION"
    BY <1>0, <1>6 DEF Completed, CurrentClaim, ClaimsOK
  <2>2. project[job[j].project] = "READY"
    BY <1>6 DEF IInv, ReadyUntilCompleted, Completed
  <2>3. Promise!Unsettled(j)
    BY <1>1, <2>1, ViewOfState, ViewFields DEF Promise!Unsettled
  <2>4. OpView' = [OpView EXCEPT ![j] = [OpView[j] EXCEPT !.state = "succeeded"]]
    <3>1. OpState(job'[j]) = "succeeded"
      BY <1>1, <1>6, ViewOfState DEF Completed
    <3> QED BY <1>6, <3>1, SettledView DEF Completed
  <2>5. Promise!Succeed(j)
    BY <1>6, <2>1, <2>2, <2>3, <2>4, ViewFields
       DEF Completed, Promise!Succeed, Promise!Settle
  <2> QED BY <2>5 DEF Promise!Next
<1>7. ASSUME NEW w \in Workers, Moved(w)
      PROVE  UNCHANGED Promise!vars
  BY <1>7 DEF Moved, OpView, Promise!vars
<1>8. ASSUME NEW w \in Workers, Published(w)
      PROVE  Promise!Next
  <2> DEFINE j == worker[w].job
  <2>1. /\ j \in Jobs
        /\ job[j].status = "RUNNING"
        /\ job[j].operation = "PROVISION"
        /\ job[j].project \in Projects
        /\ project[job[j].project] = "PROVISIONING"
    BY <1>8, WorkerFields DEF IInv, TypeOK, RowsOK, ClaimsOK, PublishNotRefused,
       CurrentClaim, Published
  <2>2. Promise!Unsettled(j) /\ OpView[j].kind = "PROVISION"
    BY <1>1, <2>1, ViewOfState, ViewFields DEF Promise!Unsettled
  <2>3. project' = [project EXCEPT ![job[j].project] = "READY"]
    BY <1>0, <1>8, <2>1 DEF TypeOK, Published
  <2>4. UNCHANGED OpView
    BY <1>8 DEF Published, OpView
  <2>5. Promise!Publish(j)
    BY <2>1, <2>2, <2>3, <2>4, ViewFields DEF Promise!Publish
  <2> QED BY <2>1, <2>5 DEF Promise!Next
<1>9. ASSUME OnlyTime
      PROVE  UNCHANGED Promise!vars
  <2>1. ASSUME NEW k \in Jobs
        PROVE  OpState(job'[k]) = OpState(job[k]) /\ IdentityKept(k)
    BY <1>9 DEF OnlyTime, SameButDue, OpState
  <2> QED BY <1>9, <2>1, SameView DEF OnlyTime, Promise!vars
<1> QED
  BY <1>0, <1>2, <1>3, <1>4, <1>5, <1>6, <1>7, <1>8, <1>9, StepKinds

\* Through crashes, expired leases and retries, an operation of the API is
\* accepted alone, moves its project's status with it, and settles once.
THEOREM Implementation == Spec => ImplementsPromise
<1>1. IInv => TypeOK
  BY DEF IInv
<1> QED
  BY <1>1, RefinesInit, RefinesNext, Invariance, PTL DEF Spec, ImplementsPromise, Promise!Spec
=============================================================================
