----------------------- MODULE OperationRequestsProofs -----------------------
(***************************************************************************)
(* Theorems of OperationRequests: what an idempotency key and a grant are  *)
(* good for, for any number of projects, keys, grants and handlers, and    *)
(* for clocks that are off by any Skew.                                    *)
(*                                                                         *)
(* The argument.  What a handler has checked stays true until it inserts   *)
(* its job (HandlersOK), because it holds the lock of the project's row.   *)
(* Active jobs are the last of their projects (ProjectsOK), so jobs fail   *)
(* in the order of their creation, and the last failed deletion, which is  *)
(* the only one the code compares a grant with, is the latest failure      *)
(* (FailuresOK).                                                           *)
(***************************************************************************)
EXTENDS OperationRequests, SequenceTheorems, TLAPS

\* A grant authorizes this deletion, decided at this time.
Authorizes(g, request, at) ==
    /\ grant[g].status # "absent"
    /\ grant[g].actor = request.actor
    /\ grant[g].project = request.project
    /\ at < grant[g].issued + TTL + 2 * Skew

\* The grant was created after these deletions failed.
CreatedAfter(g, failures) ==
    \A k \in failures : grant[g].created > jobs[k].failedAt - Skew

\* What handler h knows: it has the lock of the project's row, and so what it read
\* of the project, of its failed deletions and of the grant is still true.
HandlerOK(h) ==
    /\ handler[h].pc = "insert" =>
           /\ rowLock[Project(h)] = h
           /\ handler[h].request.kind = "create" => status[Project(h)] = "ABSENT"
           /\ handler[h].request.kind = "retry" => status[Project(h)] = "PROVISION_FAILED"
           /\ handler[h].request.kind # "delete" => handler[h].grant = NoGrant
           /\ handler[h].request.kind = "delete" =>
                  /\ status[Project(h)] \in DeletableStatuses
                  /\ handler[h].request.confirmed
                  /\ handler[h].grant \in Grants
                  /\ grant[handler[h].grant].status = "issued"
                  /\ Authorizes(handler[h].grant, handler[h].request, handler[h].at)
                  /\ CreatedAfter(handler[h].grant, FailedDeletions(Project(h)))
    /\ handler[h].pc # "idle" /\ handler[h].repeated =>
           Replays(handler[h].key, handler[h].request) # {}
    /\ handler[h] # Idle(TRUE)

HandlersOK == \A h \in Handlers : HandlerOK(h)

\* The unique index on the key.
KeysOK == \A i, k \in DOMAIN jobs : jobs[i].key = jobs[k].key => i = k

AcceptedOK ==
    \A a \in accepted : /\ a.job \in DOMAIN jobs
                        /\ jobs[a.job].key = a.key /\ jobs[a.job].request = a.request

\* Jobs have a project; only the last of a project's jobs is active.
ProjectsOK ==
    \A i \in DOMAIN jobs :
        /\ status[jobs[i].request.project] # "ABSENT"
        /\ jobs[i].status = "active" =>
               /\ jobs[i].request.kind # "delete" =>
                      status[jobs[i].request.project] \in {"PROVISIONING", "READY"}
               /\ \A k \in DOMAIN jobs :
                      jobs[k].request.project = jobs[i].request.project => k <= i

\* Failed deletions keep their project from everything but deletion, and failed
\* in the order of their creation.
FailuresOK ==
    \A p \in Projects :
        /\ FailedDeletions(p) # {} =>
               /\ status[p] \in {"DELETING", "DELETION_FAILED"}
               /\ LastFailedDeletion(p) # {}
        /\ \A i \in FailedDeletions(p) :
               /\ jobs[i].failedAt <= time
               /\ jobs[i].finished >= jobs[i].failedAt - Skew
               /\ \A k \in FailedDeletions(p) : k < i => jobs[k].failedAt <= jobs[i].failedAt

\* Deletions, and they only, have grants, which are consumed.
GrantOK(i) ==
    IF jobs[i].request.kind = "delete"
    THEN /\ jobs[i].grant \in Grants
         /\ grant[jobs[i].grant].status = "consumed"
         /\ jobs[i].request.confirmed
         /\ Authorizes(jobs[i].grant, jobs[i].request, jobs[i].at)
         /\ CreatedAfter(jobs[i].grant,
                         {k \in FailedDeletions(jobs[i].request.project) : k < i})
    ELSE jobs[i].grant = NoGrant

GrantsOK == (\A i \in DOMAIN jobs : GrantOK(i)) /\ GrantSpentOnce

\* A grant carries at most the error of the clock that dated it, and its transaction
\* is over before anyone uses it.
ExpiryOK ==
    \A g \in Grants : grant[g].status \in {"issued", "consumed"} =>
        grant[g].expires <= grant[g].issued + TTL + Skew

IInv ==
    /\ TypeOK /\ HandlersOK /\ KeysOK /\ AcceptedOK
    /\ ProjectsOK /\ FailuresOK /\ GrantsOK /\ ExpiryOK

-----------------------------------------------------------------------------
LEMMA InitIInv == Init => IInv
<1> SUFFICES ASSUME Init PROVE IInv
    OBVIOUS
<1>1. jobs = <<>> /\ DOMAIN jobs = {} /\ jobs \in Seq(JobRows)
    BY EmptySeq DEF Init
<1>2. TypeOK
    BY <1>1, NullAssumption, TimeAssumption
    DEF Init, TypeOK, Statuses, GrantRows, Idle
<1>3. \A p \in Projects : FailedDeletions(p) = {}
    BY <1>1 DEF FailedDeletions
<1>4. HandlersOK
    BY DEF Init, HandlersOK, HandlerOK, Idle
<1>5. KeysOK /\ AcceptedOK /\ ProjectsOK /\ FailuresOK
    BY <1>1, <1>3 DEF Init, KeysOK, AcceptedOK, ProjectsOK, FailuresOK
<1>6. GrantsOK /\ ExpiryOK
    BY <1>1 DEF Init, GrantsOK, GrantSpentOnce, Deletions, ExpiryOK
<1> QED BY <1>2, <1>4, <1>5, <1>6 DEF IInv

\* The fields of requests, jobs and grants.
LEMMA RequestFields ==
    ASSUME NEW request \in Requests
    PROVE  /\ request.kind \in {"create", "retry", "delete"}
           /\ request.project \in Projects /\ request.actor \in Actors
           /\ request.confirmed \in BOOLEAN
BY DEF Requests, Creations, Retries, Removals

LEMMA JobFields ==
    ASSUME TypeOK
    PROVE  /\ Len(jobs) \in Nat /\ DOMAIN jobs = 1 .. Len(jobs)
           /\ \A i \in DOMAIN jobs :
                  /\ i \in Nat /\ jobs[i] \in JobRows
                  /\ jobs[i].request \in Requests /\ jobs[i].key \in Keys
                  /\ jobs[i].grant \in Grants \cup {NoGrant}
                  /\ jobs[i].status \in {"active", "succeeded", "failed"}
                  /\ jobs[i].at \in Nat /\ jobs[i].failedAt \in Nat
                  /\ jobs[i].finished \in Int
                  /\ jobs[i].request.project \in Projects
<1>1. /\ Len(jobs) \in Nat /\ DOMAIN jobs = 1 .. Len(jobs)
      /\ jobs \in [1 .. Len(jobs) -> JobRows]
    BY LenProperties DEF TypeOK
<1>2. ASSUME NEW i \in DOMAIN jobs
      PROVE  /\ i \in Nat /\ jobs[i] \in JobRows
             /\ jobs[i].request \in Requests /\ jobs[i].key \in Keys
             /\ jobs[i].grant \in Grants \cup {NoGrant}
             /\ jobs[i].status \in {"active", "succeeded", "failed"}
             /\ jobs[i].at \in Nat /\ jobs[i].failedAt \in Nat
             /\ jobs[i].finished \in Int
    BY <1>1, TimeAssumption DEF JobRows, Instants
<1> QED BY <1>1, <1>2, RequestFields

LEMMA HandlerFields ==
    ASSUME TypeOK, NEW h \in Handlers
    PROVE  /\ handler[h] \in Working \cup {Idle(FALSE), Idle(TRUE)}
           /\ handler[h].pc \in {"idle", "insert", "recover"}
           /\ handler[h].pc # "idle" =>
                  /\ handler[h] \in Working
                  /\ handler[h].request \in Requests /\ handler[h].key \in Keys
                  /\ handler[h].grant \in Grants \cup {NoGrant}
                  /\ handler[h].at \in 0 .. MaxTime
                  /\ handler[h].repeated \in BOOLEAN
                  /\ Project(h) \in Projects
<1>1. /\ handler[h] \in Working \cup {Idle(FALSE), Idle(TRUE)}
      /\ handler[h].pc \in {"idle", "insert", "recover"}
      /\ handler[h].pc # "idle" => handler[h] \in Working
    BY DEF TypeOK, Working, Idle
<1>2. handler[h] \in Working =>
          /\ handler[h].request \in Requests /\ handler[h].key \in Keys
          /\ handler[h].grant \in Grants \cup {NoGrant}
          /\ handler[h].at \in 0 .. MaxTime
          /\ handler[h].repeated \in BOOLEAN
    BY DEF Working
<1> QED BY <1>1, <1>2, RequestFields DEF Project

-----------------------------------------------------------------------------
(* Steps that leave the tables alone. *)

\* Handler h changes its own state and locks only.
Only(h) ==
    /\ handler' \in [Handlers -> Working \cup {Idle(FALSE), Idle(TRUE)}]
    /\ rowLock' \in [Projects -> Handlers \cup {NoHandler}]
    /\ \A d \in Handlers \ {h} : handler'[d] = handler[d]
    /\ \A p \in Projects :
           /\ rowLock[p] \notin {h, NoHandler} => rowLock'[p] = rowLock[p]
           /\ rowLock'[p] \notin {h, NoHandler} => rowLock'[p] = rowLock[p]
           /\ rowLock'[p] = h => handler'[h].pc = "insert" /\ handler'[h].request.project = p

Told(a) == /\ a.job \in DOMAIN jobs
           /\ jobs[a.job].key = a.key /\ jobs[a.job].request = a.request

LEMMA QuietStep ==
    ASSUME IInv, NEW h \in Handlers, Only(h), UNCHANGED <<status, jobs, grant, time>>,
           accepted' \subseteq [key : Keys, request : Requests, job : Nat],
           \A a \in accepted' \ accepted : Told(a),
           HandlerOK(h)'
    PROVE  IInv'
<1> USE DEF IInv
<1>1. TypeOK'
    <2>1. ASSUME NEW p \in Projects, rowLock'[p] # NoHandler
          PROVE  /\ handler'[rowLock'[p]].pc = "insert"
                 /\ handler'[rowLock'[p]].request.project = p
        <3>1. CASE rowLock'[p] = h
            BY <3>1 DEF Only
        <3>2. CASE rowLock'[p] # h
            <4>1. rowLock'[p] = rowLock[p] /\ rowLock[p] \in Handlers \ {h}
                BY <2>1, <3>2 DEF Only
            <4>2. handler'[rowLock[p]] = handler[rowLock[p]]
                BY <4>1 DEF Only
            <4> QED BY <2>1, <4>1, <4>2 DEF TypeOK, Project
        <3> QED BY <3>1, <3>2
    <2> QED BY <2>1 DEF TypeOK, Only, Project
<1>2. ASSUME NEW d \in Handlers PROVE HandlerOK(d)'
    <2>1. CASE d = h
        BY <2>1
    <2>2. CASE d # h
        <3>1. handler'[d] = handler[d] /\ HandlerOK(d) /\ Project(d)' = Project(d)
            BY <2>2 DEF Only, HandlersOK, Project
        <3>2. handler[d].pc = "insert" => rowLock'[Project(d)] = d
            BY <2>2, <3>1, HandlerFields, NullAssumption DEF Only, HandlerOK
        <3>3. /\ FailedDeletions(Project(d))' = FailedDeletions(Project(d))
              /\ Replays(handler[d].key, handler[d].request)' =
                     Replays(handler[d].key, handler[d].request)
            BY <3>1 DEF FailedDeletions, Replays, Existing
        <3> QED BY <3>1, <3>2, <3>3 DEF HandlerOK, Authorizes, CreatedAfter
    <2> QED BY <2>1, <2>2
<1>3. AcceptedOK'
    BY DEF AcceptedOK, Told
<1>4. KeysOK' /\ ProjectsOK' /\ ExpiryOK'
    BY DEF KeysOK, ProjectsOK, ExpiryOK
<1>5. FailuresOK'
    BY DEF FailuresOK, FailedDeletions, LastFailedDeletion
<1>6. GrantsOK'
    BY DEF GrantsOK, GrantOK, GrantSpentOnce, Deletions, Authorizes, CreatedAfter, FailedDeletions
<1> QED BY <1>1, <1>2, <1>3, <1>4, <1>5, <1>6 DEF HandlersOK

LEMMA EndEffect ==
    ASSUME TypeOK, NEW h \in Handlers, NEW wronged \in BOOLEAN, End(h, wronged)
    PROVE  /\ Only(h) /\ handler'[h] = Idle(wronged)
           /\ \A p \in Projects : rowLock'[p] # h
<1>1. handler'[h] = Idle(wronged) /\ \A d \in Handlers \ {h} : handler'[d] = handler[d]
    BY DEF End, TypeOK
<1>2. handler' \in [Handlers -> Working \cup {Idle(FALSE), Idle(TRUE)}]
    BY DEF End, TypeOK
<1>3. /\ rowLock' \in [Projects -> Handlers \cup {NoHandler}]
      /\ \A p \in Projects : rowLock'[p] = IF rowLock[p] = h THEN NoHandler ELSE rowLock[p]
    BY DEF End, Unlock, TypeOK
<1> QED BY <1>1, <1>2, <1>3, NullAssumption DEF Only

LEMMA IdleOK ==
    ASSUME NEW h, handler[h] = Idle(FALSE)
    PROVE  HandlerOK(h)
BY DEF HandlerOK, Idle

LEMMA AnswerStep ==
    ASSUME IInv, NEW h \in Handlers, End(h, FALSE), UNCHANGED <<status, jobs, grant, time>>,
           accepted' \subseteq [key : Keys, request : Requests, job : Nat],
           \A a \in accepted' \ accepted : Told(a)
    PROVE  IInv'
<1>1. Only(h) /\ handler'[h] = Idle(FALSE)
    BY EndEffect DEF IInv
<1>2. HandlerOK(h)'
    BY <1>1 DEF HandlerOK, Idle
<1> QED BY <1>1, <1>2, QuietStep

LEMMA RefuseStep ==
    ASSUME IInv, NEW h \in Handlers, Refuse(h, FALSE), UNCHANGED <<status, jobs, grant, time>>
    PROVE  IInv'
BY AnswerStep DEF Refuse, IInv, TypeOK

LEMMA AcceptStep ==
    ASSUME IInv, NEW h \in Handlers, NEW key \in Keys, NEW request \in Requests,
           NEW i \in Replays(key, request), Accept(h, key, request, i),
           UNCHANGED <<status, jobs, grant, time>>
    PROVE  IInv'
<1>1. i \in DOMAIN jobs /\ jobs[i].key = key /\ jobs[i].request = request
    BY DEF Replays, Existing
<1>2. accepted' = accepted \cup {[key |-> key, request |-> request, job |-> i]}
    BY DEF Accept
<1>3. i \in Nat
    BY <1>1, JobFields DEF IInv
<1>4. accepted' \subseteq [key : Keys, request : Requests, job : Nat]
    BY <1>2, <1>3 DEF IInv, TypeOK
<1>5. \A a \in accepted' \ accepted : Told(a)
    BY <1>1, <1>2 DEF Told
<1> QED BY <1>4, <1>5, AnswerStep DEF Accept

\* A handler that gets the lock of a project's row.
LEMMA BeginInsertStep ==
    ASSUME IInv, NEW h \in Handlers, NEW request \in Requests, NEW key \in Keys,
           NEW g \in Grants \cup {NoGrant}, NEW at \in 0 .. MaxTime,
           Begin(h, "insert", request, key, g, at), handler[h].pc = "idle",
           rowLock[request.project] = NoHandler,
           UNCHANGED <<status, jobs, grant, time>>,
           request.kind = "create" => status[request.project] = "ABSENT",
           request.kind = "retry" => status[request.project] = "PROVISION_FAILED",
           request.kind # "delete" => g = NoGrant,
           request.kind = "delete" =>
               /\ status[request.project] \in DeletableStatuses
               /\ request.confirmed /\ g \in Grants /\ grant[g].status = "issued"
               /\ Authorizes(g, request, at)
               /\ CreatedAfter(g, FailedDeletions(request.project))
    PROVE  IInv'
<1> DEFINE K == [pc |-> "insert", request |-> request, key |-> key, grant |-> g, at |-> at,
                 repeated |-> Replays(key, request) # {}]
<1>1. K \in Working
    BY DEF Working
<1>2. handler'[h] = K /\ \A d \in Handlers \ {h} : handler'[d] = handler[d]
    BY DEF Begin, IInv, TypeOK
<1>3. handler' \in [Handlers -> Working \cup {Idle(FALSE), Idle(TRUE)}]
    BY <1>1 DEF Begin, IInv, TypeOK
<1>4. rowLock' = [rowLock EXCEPT ![request.project] = h] /\ request.project \in Projects
    BY RequestFields DEF Begin
<1>5. /\ rowLock' \in [Projects -> Handlers \cup {NoHandler}]
      /\ rowLock'[request.project] = h
      /\ \A p \in Projects \ {request.project} : rowLock'[p] = rowLock[p]
    BY <1>4 DEF IInv, TypeOK
<1>6. \A p \in Projects : rowLock[p] # h
    BY NullAssumption DEF IInv, TypeOK
<1>11. /\ handler'[h].pc = "insert" /\ handler'[h].request = request
       /\ handler'[h].key = key /\ handler'[h].grant = g /\ handler'[h].at = at
    BY <1>2
<1>12. handler'[h].repeated = (Replays(key, request) # {})
    BY <1>2
<1>13. handler'[h] # Idle(TRUE)
    BY <1>11 DEF Idle
<1> HIDE DEF K
<1>14. ASSUME NEW p \in Projects
       PROVE  /\ rowLock[p] \notin {h, NoHandler} => rowLock'[p] = rowLock[p]
              /\ rowLock'[p] \notin {h, NoHandler} => rowLock'[p] = rowLock[p]
              /\ rowLock'[p] = h => p = request.project
    BY <1>5, <1>6
<1>15. \A p \in Projects :
           rowLock'[p] = h => handler'[h].pc = "insert" /\ handler'[h].request.project = p
    BY <1>11, <1>14
<1>16. \A p \in Projects :
           /\ rowLock[p] \notin {h, NoHandler} => rowLock'[p] = rowLock[p]
           /\ rowLock'[p] \notin {h, NoHandler} => rowLock'[p] = rowLock[p]
    BY <1>14
<1>17. \A d \in Handlers \ {h} : handler'[d] = handler[d]
    BY <1>2
<1>18. rowLock' \in [Projects -> Handlers \cup {NoHandler}]
    BY <1>5
<1>7. Only(h)
    BY <1>3, <1>15, <1>16, <1>17, <1>18 DEF Only
<1>8. /\ FailedDeletions(request.project)' = FailedDeletions(request.project)
      /\ Replays(key, request)' = Replays(key, request)
    BY DEF FailedDeletions, Replays, Existing
<1>19. Project(h)' = request.project /\ rowLock'[Project(h)'] = h
    BY <1>5, <1>11 DEF Project
<1>20. /\ Authorizes(g, request, at)' = Authorizes(g, request, at)
       /\ CreatedAfter(g, FailedDeletions(request.project))' =
              CreatedAfter(g, FailedDeletions(request.project))
    BY <1>8 DEF Authorizes, CreatedAfter
<1>9. HandlerOK(h)'
    BY <1>8, <1>11, <1>12, <1>13, <1>19, <1>20 DEF HandlerOK
<1>10. accepted' = accepted
    BY DEF Begin
<1> QED BY <1>7, <1>9, <1>10, QuietStep DEF IInv, TypeOK

\* A handler that looks the key up in a new transaction.
LEMMA BeginRecoverStep ==
    ASSUME IInv, NEW h \in Handlers, NEW request \in Requests, NEW key \in Keys,
           Begin(h, "recover", request, key, NoGrant, 0), handler[h].pc = "idle",
           UNCHANGED <<status, jobs, grant, time>>
    PROVE  IInv'
<1> DEFINE K == [pc |-> "recover", request |-> request, key |-> key, grant |-> NoGrant,
                 at |-> 0, repeated |-> Replays(key, request) # {}]
<1>1. K \in Working
    BY TimeAssumption DEF Working
<1>2. handler'[h] = K /\ \A d \in Handlers \ {h} : handler'[d] = handler[d]
    BY DEF Begin, IInv, TypeOK
<1>3. handler' \in [Handlers -> Working \cup {Idle(FALSE), Idle(TRUE)}]
    BY <1>1 DEF Begin, IInv, TypeOK
<1>4. rowLock' = rowLock /\ accepted' = accepted
    BY DEF Begin
<1>5. \A p \in Projects : rowLock[p] # h
    BY NullAssumption DEF IInv, TypeOK
<1>6. Only(h)
    BY <1>2, <1>3, <1>4, <1>5 DEF Only, IInv, TypeOK
<1>7. Replays(key, request)' = Replays(key, request)
    BY DEF Replays, Existing
<1>9. /\ handler'[h].pc = "recover" /\ handler'[h].request = request
      /\ handler'[h].key = key
    BY <1>2
<1>10. handler'[h].repeated = (Replays(key, request) # {})
    BY <1>2
<1>11. handler'[h] # Idle(TRUE)
    BY <1>9 DEF Idle
<1>8. HandlerOK(h)'
    BY <1>7, <1>9, <1>10, <1>11 DEF HandlerOK
<1> QED BY <1>4, <1>6, <1>8, QuietStep DEF IInv, TypeOK

-----------------------------------------------------------------------------
(* Handlers. *)

LEMMA CreateIInv ==
    ASSUME IInv, NEW h \in Handlers, Create(h)
    PROVE  IInv'
<1>1. PICK request \in Creations, key \in Keys :
          /\ rowLock[request.project] = NoHandler
          /\ Begin(h, IF status[request.project] = "ABSENT" THEN "insert" ELSE "recover",
                   request, key, NoGrant, 0)
    BY DEF Create
<1>2. /\ UNCHANGED <<status, jobs, grant, time>> /\ handler[h].pc = "idle"
      /\ 0 \in 0 .. MaxTime
    BY TimeAssumption DEF Create
<1>5. request \in Requests /\ request.kind = "create"
    BY DEF Requests, Creations
<1>3. CASE status[request.project] = "ABSENT"
    BY <1>1, <1>2, <1>3, <1>5, BeginInsertStep
<1>4. CASE status[request.project] # "ABSENT"
    BY <1>1, <1>2, <1>4, <1>5, BeginRecoverStep
<1> QED BY <1>3, <1>4

LEMMA RetryIInv ==
    ASSUME IInv, NEW h \in Handlers, Retry(h)
    PROVE  IInv'
<1>1. PICK request \in Retries(DOMAIN jobs), key \in Keys :
          /\ Lockable(request.project)
          /\ \/ \E i \in Replays(key, request) : Accept(h, key, request, i)
             \/ IF Existing(key) = {} /\ Retriable(request)
                THEN Begin(h, "insert", request, key, NoGrant, 0)
                ELSE Refuse(h, FALSE)
    BY DEF Retry
<1>2. /\ UNCHANGED <<status, jobs, grant, time>> /\ handler[h].pc = "idle"
      /\ 0 \in 0 .. MaxTime
    BY TimeAssumption DEF Retry
<1>6. DOMAIN jobs \subseteq Nat
    BY JobFields DEF IInv
<1>7. request \in Requests /\ request.kind = "retry"
    BY <1>6 DEF Requests, Retries
<1>3. CASE \E i \in Replays(key, request) : Accept(h, key, request, i)
    BY <1>2, <1>3, <1>7, AcceptStep
<1>4. CASE Refuse(h, FALSE)
    BY <1>2, <1>4, RefuseStep
<1>5. CASE Retriable(request) /\ Begin(h, "insert", request, key, NoGrant, 0)
    BY <1>1, <1>2, <1>5, <1>7, BeginInsertStep DEF Retriable, Lockable
<1> QED BY <1>1, <1>3, <1>4, <1>5

\* A fresh grant was created after all failures, though it is compared with one.
LEMMA FreshIsAfter ==
    ASSUME IInv, NEW p \in Projects, NEW g \in Grants,
           grant[g].status = "issued", Fresh(g, p), status[p] \in DeletableStatuses
    PROVE  CreatedAfter(g, FailedDeletions(p))
<1> SUFFICES ASSUME NEW k \in FailedDeletions(p)
             PROVE  grant[g].created > jobs[k].failedAt - Skew
    BY DEF CreatedAfter
<1>1. status[p] = "DELETION_FAILED" /\ LastFailedDeletion(p) # {}
    BY DEF IInv, FailuresOK, DeletableStatuses
<1>2. PICK i \in LastFailedDeletion(p) : grant[g].created > jobs[i].finished
    BY <1>1 DEF Fresh
<1>3. i \in FailedDeletions(p) /\ k <= i
    BY <1>2 DEF LastFailedDeletion
<1>4. /\ i \in DOMAIN jobs /\ k \in DOMAIN jobs /\ i \in Nat /\ k \in Nat
      /\ jobs[i].failedAt \in Nat /\ jobs[k].failedAt \in Nat /\ jobs[i].finished \in Int
    BY <1>3, JobFields DEF FailedDeletions, IInv
<1>5. jobs[k].failedAt <= jobs[i].failedAt
    BY <1>3, <1>4 DEF IInv, FailuresOK
<1>6. jobs[i].finished >= jobs[i].failedAt - Skew
    BY <1>3 DEF IInv, FailuresOK
<1>7. grant[g].created \in Nat
    BY DEF IInv, TypeOK, GrantRows
<1> QED BY <1>2, <1>4, <1>5, <1>6, <1>7, TimeAssumption

LEMMA GrantFields ==
    ASSUME TypeOK, NEW g \in Grants, grant[g].status # "absent"
    PROVE  /\ grant[g].issued \in 0 .. MaxTime /\ grant[g].created \in 0 .. MaxTime
           /\ grant[g].expires \in Int
           /\ grant[g].actor \in Actors /\ grant[g].project \in Projects
           /\ grant[g].status \in {"pending", "issued", "consumed"}
BY DEF TypeOK, GrantRows, Instants

LEMMA UsableAuthorizes ==
    ASSUME IInv, NEW g \in Grants, NEW request \in Requests, NEW now \in Recorded,
           Usable(g, request, now)
    PROVE  Authorizes(g, request, time)
<1>1. /\ grant[g].status = "issued" /\ grant[g].expires > now
      /\ grant[g].actor = request.actor /\ grant[g].project = request.project
    BY DEF Usable
<1>2. grant[g].expires <= grant[g].issued + TTL + Skew
    BY <1>1 DEF IInv, ExpiryOK
<1>3. now \in Int /\ now >= time - Skew /\ time \in Nat
    BY TimeAssumption DEF Recorded, IInv, TypeOK
<1>4. grant[g].issued \in Nat /\ grant[g].expires \in Int
    BY <1>1, GrantFields, TimeAssumption DEF IInv
<1>5. time < grant[g].issued + TTL + 2 * Skew
    BY <1>1, <1>2, <1>3, <1>4, TimeAssumption
<1> QED BY <1>1, <1>5 DEF Authorizes

LEMMA DeleteIInv ==
    ASSUME IInv, NEW h \in Handlers, Delete(h)
    PROVE  IInv'
<1>1. PICK request \in Removals, key \in Keys, g \in Grants \cup {NoGrant}, now \in Recorded :
          /\ Lockable(request.project)
          /\ CheckDelete(h, request, key, g, now)
    BY DEF Delete
<1>2. /\ UNCHANGED <<status, jobs, grant, time>> /\ handler[h].pc = "idle"
      /\ request \in Requests /\ request.kind = "delete" /\ time \in 0 .. MaxTime
    BY DEF Delete, Requests, Removals, IInv, TypeOK
<1>3. CASE \E i \in Replays(key, request) : Accept(h, key, request, i)
    BY <1>2, <1>3, AcceptStep
<1>4. CASE Refuse(h, FALSE)
    BY <1>2, <1>4, RefuseStep
<1>5. CASE Deletable(request, g, now) /\ Begin(h, "insert", request, key, g, time)
    <2>1. /\ status[request.project] \in DeletableStatuses /\ request.confirmed
          /\ Usable(g, request, now) /\ g \in Grants /\ grant[g].status = "issued"
          /\ Fresh(g, request.project) /\ request.project \in Projects
        BY <1>2, <1>5, RequestFields DEF Deletable, Usable
    <2>2. Authorizes(g, request, time) /\ CreatedAfter(g, FailedDeletions(request.project))
        BY <1>2, <2>1, UsableAuthorizes, FreshIsAfter
    <2> QED BY <1>1, <1>2, <1>5, <2>1, <2>2, BeginInsertStep DEF Lockable
<1> QED BY <1>1, <1>3, <1>4, <1>5 DEF CheckDelete

LEMMA RecoverIInv ==
    ASSUME IInv, NEW h \in Handlers, Recover(h)
    PROVE  IInv'
<1>1. /\ handler[h].pc = "recover" /\ UNCHANGED <<status, jobs, grant, time>>
      /\ handler[h].request \in Requests /\ handler[h].key \in Keys
      /\ handler[h].repeated \in BOOLEAN
    BY HandlerFields DEF Recover, IInv
<1>2. CASE \E i \in Replays(handler[h].key, handler[h].request) :
               Accept(h, handler[h].key, handler[h].request, i)
    BY <1>1, <1>2, AcceptStep
<1>3. CASE /\ Replays(handler[h].key, handler[h].request) = {}
           /\ Refuse(h, handler[h].repeated)
    <2>1. handler[h].repeated = FALSE
        BY <1>1, <1>3 DEF IInv, HandlersOK, HandlerOK
    <2> QED BY <1>1, <1>3, <2>1, RefuseStep
<1> QED BY <1>2, <1>3 DEF Recover

LEMMA CrashIInv ==
    ASSUME IInv, NEW h \in Handlers, Crash(h)
    PROVE  IInv'
BY AnswerStep DEF Crash, IInv, TypeOK

-----------------------------------------------------------------------------
(* The insertion of a job. *)

\* A violated index.
LEMMA InsertRefused ==
    ASSUME IInv, NEW h \in Handlers, handler[h].pc = "insert",
           handler' = [handler EXCEPT ![h].pc = "recover"], Unlock(h),
           UNCHANGED <<status, jobs, grant, accepted, time>>
    PROVE  IInv'
<1>1. /\ handler[h] \in Working
      /\ handler'[h] = [handler[h] EXCEPT !.pc = "recover"]
      /\ \A d \in Handlers \ {h} : handler'[d] = handler[d]
    BY HandlerFields DEF IInv, TypeOK
<1>2. /\ handler'[h].pc = "recover" /\ handler'[h].key = handler[h].key
      /\ handler'[h].request = handler[h].request
      /\ handler'[h].repeated = handler[h].repeated
      /\ handler'[h] \in Working
    BY <1>1 DEF Working
<1>3. handler' \in [Handlers -> Working \cup {Idle(FALSE), Idle(TRUE)}]
    BY <1>1, <1>2 DEF IInv, TypeOK
<1>4. /\ rowLock' \in [Projects -> Handlers \cup {NoHandler}]
      /\ \A p \in Projects : rowLock'[p] = IF rowLock[p] = h THEN NoHandler ELSE rowLock[p]
    BY DEF Unlock, IInv, TypeOK
<1>5. Only(h)
    BY <1>1, <1>3, <1>4, NullAssumption DEF Only
<1>6. Replays(handler[h].key, handler[h].request)' # {} <=>
          Replays(handler[h].key, handler[h].request) # {}
    BY <1>2 DEF Replays, Existing
<1>7. handler'[h] # Idle(TRUE)
    BY <1>2 DEF Idle
<1>8. HandlerOK(h)'
    BY <1>2, <1>6, <1>7 DEF HandlerOK, IInv, HandlersOK
<1> QED BY <1>5, <1>8, QuietStep DEF IInv, TypeOK

NewJob(h) ==
    [request |-> handler[h].request, key |-> handler[h].key, grant |-> handler[h].grant,
     at |-> handler[h].at, status |-> "active", finished |-> 0, failedAt |-> 0]

LEMMA NewJobFields ==
    ASSUME TypeOK, NEW h \in Handlers, handler[h].pc = "insert"
    PROVE  NewJob(h) \in JobRows
<1>1. 0 \in 0 .. MaxTime /\ 0 \in Instants
    BY TimeAssumption DEF Instants
<1> QED BY <1>1, HandlerFields DEF NewJob, JobRows

LEMMA AppendEffect ==
    ASSUME TypeOK, NEW row \in JobRows, jobs' = Append(jobs, row)
    PROVE  /\ jobs' \in Seq(JobRows)
           /\ Len(jobs) + 1 \in DOMAIN jobs' /\ jobs'[Len(jobs) + 1] = row
           /\ DOMAIN jobs' = DOMAIN jobs \cup {Len(jobs) + 1}
           /\ \A i \in DOMAIN jobs : jobs'[i] = jobs[i] /\ i < Len(jobs) + 1
<1>1. jobs \in Seq(JobRows) /\ Len(jobs) \in Nat /\ DOMAIN jobs = 1 .. Len(jobs)
    BY JobFields DEF TypeOK
<1>2. /\ jobs' \in Seq(JobRows) /\ Len(jobs') = Len(jobs) + 1
      /\ \A i \in 1 .. Len(jobs) : jobs'[i] = jobs[i]
      /\ jobs'[Len(jobs) + 1] = row
    BY <1>1, AppendProperties
<1>3. DOMAIN jobs' = 1 .. Len(jobs) + 1
    BY <1>2, LenProperties
<1> QED BY <1>1, <1>2, <1>3

LEMMA InsertAccepted ==
    ASSUME IInv, NEW h \in Handlers, Insert(h),
           NEW r, r = handler[h].request, NEW key, key = handler[h].key,
           NEW used, used = handler[h].grant, NEW at, at = handler[h].at,
           NEW n, n = Len(jobs) + 1, NEW p, p = r.project,
           Existing(key) = {}, ~Active(p)
    PROVE  IInv'
<1> USE DEF IInv
<1>1. /\ jobs' = Append(jobs, NewJob(h)) /\ handler[h].pc = "insert"
      /\ status' = [status EXCEPT ![p] =
                        IF r.kind = "delete" THEN "DELETING" ELSE "PROVISIONING"]
      /\ Consume(used) /\ Accept(h, key, r, n) /\ time' = time
    BY DEF Insert, KeyTaken, NewJob
<1>2. /\ r \in Requests /\ key \in Keys /\ used \in Grants \cup {NoGrant} /\ p \in Projects
      /\ r.kind \in {"create", "retry", "delete"} /\ HandlerOK(h) /\ p = Project(h)
    BY <1>1, HandlerFields, RequestFields DEF HandlersOK, Project
<1>3. /\ jobs' \in Seq(JobRows) /\ n \in DOMAIN jobs' /\ jobs'[n] = NewJob(h)
      /\ DOMAIN jobs' = DOMAIN jobs \cup {n}
      /\ \A i \in DOMAIN jobs : jobs'[i] = jobs[i] /\ i < n
    BY <1>1, NewJobFields, AppendEffect
<1>4. /\ jobs'[n].request = r /\ jobs'[n].key = key /\ jobs'[n].grant = used
      /\ jobs'[n].at = at /\ jobs'[n].status = "active"
    BY <1>3 DEF NewJob
<1>5. /\ status' \in [Projects -> Statuses]
      /\ status'[p] = IF r.kind = "delete" THEN "DELETING" ELSE "PROVISIONING"
      /\ \A q \in Projects \ {p} : status'[q] = status[q]
    BY <1>1, <1>2 DEF TypeOK, Statuses
<1>6. ASSUME NEW g \in Grants
      PROVE  IF g = used
             THEN grant'[g] = [grant[g] EXCEPT !.status = "consumed"]
             ELSE grant'[g] = grant[g]
    BY <1>1 DEF Consume
<1>7. used \in Grants => r.kind = "delete" /\ grant[used].status = "issued"
    BY <1>1, <1>2, NullAssumption DEF HandlerOK
<1>8. ASSUME NEW g \in Grants
      PROVE  /\ grant'[g] \in GrantRows
             /\ grant'[g].status = IF g = used THEN "consumed" ELSE grant[g].status
             /\ grant[g].status # "absent" =>
                    /\ grant'[g].actor = grant[g].actor /\ grant'[g].project = grant[g].project
                    /\ grant'[g].issued = grant[g].issued /\ grant'[g].expires = grant[g].expires
                    /\ grant'[g].created = grant[g].created
    <2>1. CASE g # used
        BY <1>6, <2>1 DEF TypeOK
    <2>2. CASE g = used
        <3>1. grant[g].status = "issued" /\ grant[g] \in GrantRows
            BY <1>7, <2>2 DEF TypeOK
        <3>2. grant'[g] = [grant[g] EXCEPT !.status = "consumed"]
            BY <1>6, <2>2
        <3> QED BY <2>2, <3>1, <3>2 DEF GrantRows
    <2> QED BY <2>1, <2>2
<1>9. /\ Only(h) /\ handler'[h] = Idle(FALSE) /\ \A q \in Projects : rowLock'[q] # h
    BY <1>1, EndEffect DEF Accept
<1>10. accepted' = accepted \cup {[key |-> key, request |-> r, job |-> n]}
    BY <1>1 DEF Accept
<1>11. /\ n \in Nat
       /\ \A i \in DOMAIN jobs : i \in Nat /\ jobs[i].request.project \in Projects
    BY JobFields
<1>12. ASSUME NEW q \in Projects
       PROVE  /\ FailedDeletions(q)' = FailedDeletions(q)
              /\ LastFailedDeletion(q)' = LastFailedDeletion(q)
    <2>1. FailedDeletions(q)' = FailedDeletions(q)
        BY <1>3, <1>4, <1>11 DEF FailedDeletions
    <2> QED BY <2>1 DEF LastFailedDeletion
<1>13. TypeOK'
    <2>1. accepted' \subseteq [key : Keys, request : Requests, job : Nat]
        BY <1>2, <1>10, <1>11 DEF TypeOK
    <2>2. grant' \in [Grants -> GrantRows]
        BY <1>1, <1>8 DEF Consume
    <2>3. ASSUME NEW q \in Projects, rowLock'[q] # NoHandler
          PROVE  /\ handler'[rowLock'[q]].pc = "insert"
                 /\ handler'[rowLock'[q]].request.project = q
        <3>1. rowLock'[q] \in Handlers \ {h} /\ rowLock'[q] = rowLock[q]
            BY <1>9, <2>3 DEF Only
        <3> QED BY <1>9, <2>3, <3>1 DEF Only, TypeOK, Project
    <2>4. /\ handler' \in [Handlers -> Working \cup {Idle(FALSE), Idle(TRUE)}]
          /\ rowLock' \in [Projects -> Handlers \cup {NoHandler}]
          /\ time' \in 0 .. MaxTime
        BY <1>1, <1>9 DEF Only, TypeOK
    <2> QED BY <1>3, <1>5, <2>1, <2>2, <2>3, <2>4 DEF TypeOK, Project
<1>14. HandlersOK'
    <2> SUFFICES ASSUME NEW d \in Handlers PROVE HandlerOK(d)'
        BY DEF HandlersOK
    <2>1. CASE d = h
        BY <1>9, <2>1 DEF HandlerOK, Idle
    <2>2. CASE d # h
        <3>1. handler'[d] = handler[d] /\ HandlerOK(d) /\ Project(d)' = Project(d)
            BY <1>9, <2>2 DEF Only, HandlersOK, Project
        <3>2. handler[d].pc # "idle" /\ handler[d].repeated =>
                  Replays(handler[d].key, handler[d].request)' # {}
            <4> SUFFICES ASSUME handler[d].pc # "idle", handler[d].repeated
                         PROVE  Replays(handler[d].key, handler[d].request)' # {}
                OBVIOUS
            <4>1. PICK i \in DOMAIN jobs :
                      jobs[i].key = handler[d].key /\ jobs[i].request = handler[d].request
                BY <3>1 DEF HandlerOK, Replays, Existing
            <4>2. i \in DOMAIN jobs' /\ jobs'[i] = jobs[i]
                BY <1>3
            <4> QED BY <3>1, <4>1, <4>2 DEF Replays, Existing
        <3>3. CASE handler[d].pc = "insert"
            <4>1. Project(d) \in Projects /\ rowLock[Project(d)] = d /\ rowLock[p] = h
                BY <1>1, <1>2, <3>1, <3>3, HandlerFields DEF HandlerOK
            <4>2. Project(d) # p
                BY <2>2, <4>1
            <4>3. /\ rowLock'[Project(d)] = d /\ status'[Project(d)] = status[Project(d)]
                BY <1>5, <1>9, <2>2, <4>1, <4>2, NullAssumption DEF Only
            <4>4. handler[d].request.kind = "delete" =>
                      LET g == handler[d].grant IN
                      /\ g \in Grants /\ g # used
                      /\ grant[g].status = "issued"
                      /\ Authorizes(g, handler[d].request, handler[d].at)
                      /\ CreatedAfter(g, FailedDeletions(Project(d)))
                <5>1. used \in Grants => grant[used].project = p
                    BY <1>1, <1>2, <1>7 DEF HandlerOK, Authorizes, Project
                <5> QED BY <3>1, <3>3, <4>2, <5>1 DEF HandlerOK, Authorizes, Project
            <4>5. handler[d].request.kind = "delete" =>
                      LET g == handler[d].grant IN
                      /\ g \in Grants /\ grant'[g].status = "issued"
                      /\ Authorizes(g, handler[d].request, handler[d].at)'
                      /\ CreatedAfter(g, FailedDeletions(Project(d)))'
                <5> SUFFICES ASSUME handler[d].request.kind = "delete",
                                    NEW g \in Grants, g = handler[d].grant, g # used,
                                    grant[g].status = "issued",
                                    Authorizes(g, handler[d].request, handler[d].at),
                                    CreatedAfter(g, FailedDeletions(Project(d)))
                             PROVE  /\ grant'[g].status = "issued"
                                    /\ Authorizes(g, handler[d].request, handler[d].at)'
                                    /\ CreatedAfter(g, FailedDeletions(Project(d)))'
                    BY <3>1, <4>4
                <5>1. grant'[g] = grant[g]
                    BY <1>6
                <5>2. FailedDeletions(Project(d))' = FailedDeletions(Project(d))
                    BY <1>12, <3>1, <4>1
                <5>3. \A k \in FailedDeletions(Project(d)) : jobs'[k] = jobs[k]
                    BY <1>3 DEF FailedDeletions
                <5> QED BY <3>1, <5>1, <5>2, <5>3 DEF Authorizes, CreatedAfter
            <4> QED BY <3>1, <3>2, <3>3, <4>3, <4>5 DEF HandlerOK
        <3>4. CASE handler[d].pc # "insert"
            BY <3>1, <3>2, <3>4 DEF HandlerOK
        <3> QED BY <3>3, <3>4
    <2> QED BY <2>1, <2>2
<1>15. KeysOK'
    <2>1. \A i \in DOMAIN jobs : jobs[i].key # key
        BY DEF Existing
    <2> QED BY <1>3, <1>4, <2>1 DEF KeysOK
<1>16. AcceptedOK'
    BY <1>3, <1>4, <1>10 DEF AcceptedOK
<1>17. ProjectsOK'
    <2>1. \A k \in DOMAIN jobs : jobs[k].request.project = p => jobs[k].status # "active"
        BY <1>2 DEF Active
    <2>2. ASSUME NEW i \in DOMAIN jobs
          PROVE  /\ jobs'[i] = jobs[i] /\ jobs[i].request.project \in Projects /\ i \in Nat
                 /\ status'[jobs[i].request.project] # "ABSENT"
                 /\ jobs[i].status = "active" =>
                        /\ jobs[i].request.project # p
                        /\ status'[jobs[i].request.project] = status[jobs[i].request.project]
        BY <1>3, <1>5, <1>11, <2>1 DEF ProjectsOK
    <2>3. ASSUME NEW i \in DOMAIN jobs, jobs'[i].status = "active"
          PROVE  /\ jobs'[i].request.kind # "delete" =>
                        status'[jobs'[i].request.project] \in {"PROVISIONING", "READY"}
                 /\ \A k \in DOMAIN jobs' :
                        jobs'[k].request.project = jobs'[i].request.project => k <= i
        BY <1>3, <1>4, <2>2, <2>3 DEF ProjectsOK
    <2>4. /\ status'[p] # "ABSENT"
          /\ r.kind # "delete" => status'[p] = "PROVISIONING"
          /\ \A k \in DOMAIN jobs' : k <= n
        BY <1>3, <1>5, <1>11
    <2>5. jobs'[n].request.project = p
        BY <1>4
    <2> QED BY <1>3, <1>4, <2>2, <2>3, <2>4, <2>5 DEF ProjectsOK
<1>18. FailuresOK'
    <2>1. r.kind # "delete" => FailedDeletions(p) = {}
        <3>1. r.kind = "create" => FailedDeletions(p) = {}
            BY <1>1, <1>2 DEF HandlerOK, FailedDeletions, ProjectsOK
        <3>2. r.kind = "retry" => FailedDeletions(p) = {}
            BY <1>1, <1>2 DEF HandlerOK, FailuresOK
        <3> QED BY <1>2, <3>1, <3>2
    <2>2. ASSUME NEW q \in Projects
          PROVE  /\ FailedDeletions(q)' # {} =>
                        /\ status'[q] \in {"DELETING", "DELETION_FAILED"}
                        /\ LastFailedDeletion(q)' # {}
                 /\ \A i \in FailedDeletions(q)' : jobs'[i] = jobs[i]
        <3>1. \A i \in FailedDeletions(q) : jobs'[i] = jobs[i]
            BY <1>3 DEF FailedDeletions
        <3> QED BY <1>5, <1>12, <2>1, <3>1 DEF FailuresOK
    <2>3. ASSUME NEW q \in Projects, NEW i \in FailedDeletions(q)'
          PROVE  /\ jobs'[i].failedAt <= time
                 /\ jobs'[i].finished >= jobs'[i].failedAt - Skew
                 /\ \A k \in FailedDeletions(q)' : k < i => jobs'[k].failedAt <= jobs'[i].failedAt
        BY <1>12, <2>2 DEF FailuresOK
    <2> QED BY <1>1, <2>2, <2>3 DEF FailuresOK
<1>19. ExpiryOK'
    BY <1>7, <1>8 DEF ExpiryOK
<1>20. GrantsOK'
    <2>1. ASSUME NEW i \in DOMAIN jobs
          PROVE  /\ GrantOK(i)'
                 /\ jobs[i].request.kind = "delete" => jobs[i].grant # used
        <3>1. jobs'[i] = jobs[i] /\ jobs[i].request.project \in Projects
            BY <1>3, <1>11
        <3>2. CASE jobs[i].request.kind # "delete"
            BY <3>1, <3>2 DEF GrantsOK, GrantOK
        <3>3. CASE jobs[i].request.kind = "delete"
            <4>1. PICK g \in Grants :
                      /\ g = jobs[i].grant /\ grant[g].status = "consumed"
                      /\ jobs[i].request.confirmed
                      /\ Authorizes(g, jobs[i].request, jobs[i].at)
                      /\ CreatedAfter(g, {k \in FailedDeletions(jobs[i].request.project) : k < i})
                BY <3>3 DEF GrantsOK, GrantOK
            <4>2. g # used
                BY <1>7, <4>1
            <4>3. grant'[g] = grant[g]
                BY <1>6, <4>2
            <4>4. \A k \in FailedDeletions(jobs[i].request.project) : jobs'[k] = jobs[k]
                BY <1>3 DEF FailedDeletions
            <4>5. FailedDeletions(jobs[i].request.project)' =
                      FailedDeletions(jobs[i].request.project)
                BY <1>12, <3>1
            <4>6. /\ Authorizes(g, jobs[i].request, jobs[i].at)'
                  /\ CreatedAfter(g, {k \in FailedDeletions(jobs[i].request.project) : k < i})'
                BY <3>1, <4>1, <4>3, <4>4, <4>5 DEF Authorizes, CreatedAfter
            <4> QED BY <3>1, <3>3, <4>1, <4>2, <4>3, <4>6 DEF GrantOK
        <3> QED BY <3>2, <3>3
    <2>2. r.kind # "delete" => used = NoGrant
        BY <1>1, <1>2 DEF HandlerOK
    <2>3. r.kind = "delete" =>
              /\ used \in Grants /\ grant'[used].status = "consumed" /\ r.confirmed
              /\ Authorizes(used, r, at)'
              /\ CreatedAfter(used, FailedDeletions(p))'
        <3> SUFFICES ASSUME r.kind = "delete"
                     PROVE  /\ used \in Grants /\ grant'[used].status = "consumed" /\ r.confirmed
                            /\ Authorizes(used, r, at)'
                            /\ CreatedAfter(used, FailedDeletions(p))'
            OBVIOUS
        <3>1. /\ used \in Grants /\ r.confirmed /\ grant[used].status = "issued"
              /\ Authorizes(used, r, at)
              /\ CreatedAfter(used, FailedDeletions(p))
            BY <1>1, <1>2 DEF HandlerOK
        <3>2. \A k \in FailedDeletions(p) : jobs'[k] = jobs[k]
            BY <1>3 DEF FailedDeletions
        <3> QED BY <1>2, <1>4, <1>8, <1>12, <3>1, <3>2 DEF Authorizes, CreatedAfter
    <2>4. FailedDeletions(p)' = FailedDeletions(p) /\ \A k \in FailedDeletions(p) : k < n
        BY <1>2, <1>3, <1>12 DEF FailedDeletions
    <2>5. GrantOK(n)'
        BY <1>4, <2>2, <2>3, <2>4 DEF GrantOK, Authorizes, CreatedAfter
    <2>6. \A i, k \in Deletions' : jobs'[i].grant = jobs'[k].grant => i = k
        <3>1. \A i \in Deletions' : i = n \/ (i \in Deletions /\ jobs'[i] = jobs[i])
            BY <1>3 DEF Deletions
        <3>2. \A i \in Deletions : jobs'[i].grant # used
            BY <1>3, <2>1 DEF Deletions
        <3>3. jobs'[n].grant = used
            BY <1>4
        <3> QED BY <3>1, <3>2, <3>3 DEF GrantsOK, GrantSpentOnce
    <2>7. ASSUME NEW g \in Grants
          PROVE  grant'[g].status = "consumed" <=> \E i \in Deletions' : jobs'[i].grant = g
        <3>1. \A i \in Deletions : i \in Deletions' /\ jobs'[i] = jobs[i]
            BY <1>3 DEF Deletions
        <3>2. \A i \in Deletions' : i = n \/ (i \in Deletions /\ jobs'[i] = jobs[i])
            BY <1>3 DEF Deletions
        <3>3. CASE g = used
            <4>1. n \in Deletions' /\ jobs'[n].grant = g
                BY <1>3, <1>4, <1>7, <3>3 DEF Deletions
            <4> QED BY <1>8, <3>3, <4>1
        <3>4. CASE g # used
            <4>1. grant'[g].status = grant[g].status
                BY <1>8, <3>4
            <4> QED BY <1>4, <3>1, <3>2, <3>4, <4>1 DEF GrantsOK, GrantSpentOnce
        <3> QED BY <3>3, <3>4
    <2>8. GrantSpentOnce'
        BY <2>6, <2>7 DEF GrantSpentOnce
    <2> QED BY <1>3, <2>1, <2>5, <2>8 DEF GrantsOK
<1> QED BY <1>13, <1>14, <1>15, <1>16, <1>17, <1>18, <1>19, <1>20

LEMMA InsertIInv ==
    ASSUME IInv, NEW h \in Handlers, Insert(h)
    PROVE  IInv'
<1>1. CASE KeyTaken(handler[h].key) \/ Active(handler[h].request.project)
    BY <1>1, InsertRefused DEF Insert
<1>2. CASE ~(KeyTaken(handler[h].key) \/ Active(handler[h].request.project))
    BY <1>2, InsertAccepted DEF KeyTaken
<1> QED BY <1>1, <1>2

-----------------------------------------------------------------------------
(* Grants, the worker and time. *)

\* Grants that are not consumed yet may change as long as nobody was given them.
LEMMA GrantStep ==
    ASSUME IInv, UNCHANGED <<status, jobs, rowLock, handler, accepted, time>>,
           NEW g \in Grants, NEW row \in GrantRows, grant' = [grant EXCEPT ![g] = row],
           grant[g].status \in {"absent", "pending"}, row.status \in {"pending", "issued"},
           row.status = "issued" => row.expires <= row.issued + TTL + Skew
    PROVE  IInv'
<1> USE DEF IInv
<1>1. /\ grant' \in [Grants -> GrantRows] /\ grant'[g] = row
      /\ \A x \in Grants \ {g} : grant'[x] = grant[x]
    BY DEF TypeOK
<1>2. TypeOK'
    BY <1>1 DEF TypeOK, Project
<1>3. /\ \A p \in Projects : FailedDeletions(p)' = FailedDeletions(p)
      /\ \A p \in Projects : LastFailedDeletion(p)' = LastFailedDeletion(p)
      /\ Deletions' = Deletions
    BY DEF FailedDeletions, LastFailedDeletion, Deletions
<1>4. ASSUME NEW h \in Handlers PROVE HandlerOK(h)'
    <2>1. HandlerOK(h) /\ Project(h)' = Project(h)
        BY DEF HandlersOK, Project
    <2>2. handler[h].pc = "insert" => Project(h) \in Projects
        BY HandlerFields
    <2>3. ASSUME handler[h].pc = "insert", handler[h].request.kind = "delete"
          PROVE  /\ grant'[handler[h].grant] = grant[handler[h].grant]
                 /\ Authorizes(handler[h].grant, handler[h].request, handler[h].at)'
                 /\ CreatedAfter(handler[h].grant, FailedDeletions(Project(h)))'
        <3>1. grant'[handler[h].grant] = grant[handler[h].grant]
            BY <1>1, <2>1, <2>3 DEF HandlerOK
        <3> QED BY <1>3, <2>1, <2>2, <2>3, <3>1 DEF HandlerOK, Authorizes, CreatedAfter
    <2>4. Replays(handler[h].key, handler[h].request)' =
              Replays(handler[h].key, handler[h].request)
        BY DEF Replays, Existing
    <2> QED BY <2>1, <2>3, <2>4 DEF HandlerOK
<1>5. KeysOK' /\ AcceptedOK' /\ ProjectsOK'
    BY DEF KeysOK, AcceptedOK, ProjectsOK
<1>6. FailuresOK'
    BY <1>3 DEF FailuresOK
<1>7. ExpiryOK'
    BY <1>1 DEF ExpiryOK
<1>8. GrantsOK'
    <2>1. ASSUME NEW i \in DOMAIN jobs PROVE GrantOK(i)'
        <3>1. jobs[i].request.project \in Projects /\ GrantOK(i)
            BY JobFields DEF GrantsOK
        <3>2. jobs[i].request.kind = "delete" => grant'[jobs[i].grant] = grant[jobs[i].grant]
            BY <1>1, <3>1 DEF GrantOK
        <3> QED BY <1>3, <3>1, <3>2 DEF GrantOK, Authorizes, CreatedAfter
    <2>2. \A x \in Grants : grant'[x].status = "consumed" <=> grant[x].status = "consumed"
        BY <1>1
    <2> QED BY <1>3, <2>1, <2>2 DEF GrantsOK, GrantSpentOnce
<1> QED BY <1>2, <1>4, <1>5, <1>6, <1>7, <1>8 DEF HandlersOK

LEMMA BeginGrantIInv ==
    ASSUME IInv, NEW g \in Grants, BeginGrant(g)
    PROVE  IInv'
<1>1. PICK a \in Actors, p \in Projects :
          grant' = [grant EXCEPT ![g] =
                        [status |-> "pending", actor |-> a, project |-> p, created |-> time,
                         issued |-> 0, expires |-> 0]]
    BY DEF BeginGrant
<1> DEFINE row == [status |-> "pending", actor |-> a, project |-> p, created |-> time,
                   issued |-> 0, expires |-> 0]
<1>2. row \in GrantRows
    BY TimeAssumption DEF GrantRows, Instants, IInv, TypeOK
<1> QED BY <1>1, <1>2, GrantStep DEF BeginGrant

LEMMA IssueGrantIInv ==
    ASSUME IInv, NEW g \in Grants, IssueGrant(g)
    PROVE  IInv'
<1>1. PICK now \in Recorded :
          grant' = [grant EXCEPT ![g].status = "issued", ![g].issued = time,
                                 ![g].expires = now + TTL]
    BY DEF IssueGrant
<1>2. /\ grant[g].status = "pending" /\ grant[g] \in GrantRows /\ time \in 0 .. MaxTime
      /\ UNCHANGED <<status, jobs, rowLock, handler, accepted, time>>
    BY DEF IssueGrant, IInv, TypeOK
<1> DEFINE row == [grant[g] EXCEPT !.status = "issued", !.issued = time, !.expires = now + TTL]
<1>3. now \in Int /\ now <= time + Skew /\ now >= time - Skew
    BY <1>2, TimeAssumption DEF Recorded
<1>4. now + TTL \in Instants
    BY <1>2, <1>3, TimeAssumption DEF Instants
<1>5. /\ row \in GrantRows /\ row.status = "issued"
      /\ row.issued = time /\ row.expires = now + TTL
    <2>1. PICK G : G = grant[g]
        OBVIOUS
    <2>2. PICK e : e = now + TTL
        OBVIOUS
    <2>3. PICK R : R = row
        OBVIOUS
    <2>4. R = [G EXCEPT !.status = "issued", !.issued = time, !.expires = e]
        BY <2>1, <2>2, <2>3
    <2>5. G \in [status : {"pending", "issued", "consumed"}, actor : Actors,
                 project : Projects, created : 0 .. MaxTime, issued : 0 .. MaxTime,
                 expires : Instants]
        BY <1>2, <2>1 DEF GrantRows
    <2>6. e \in Instants /\ time \in 0 .. MaxTime
        BY <1>2, <1>4, <2>2
    <2> HIDE DEF row
    <2>7. R \in GrantRows /\ R.status = "issued" /\ R.issued = time /\ R.expires = e
        BY <2>4, <2>5, <2>6 DEF GrantRows
    <2> QED BY <2>2, <2>3, <2>7
<1>6. grant' = [grant EXCEPT ![g] = row]
    BY <1>1
<1>7. row.expires <= row.issued + TTL + Skew
    BY <1>2, <1>3, <1>5, TimeAssumption
<1> QED BY <1>2, <1>5, <1>6, <1>7, GrantStep

\* Whoever holds the lock of a project sees nothing of this step.
Undisturbed(p) ==
    /\ status'[p] = status[p] /\ FailedDeletions(p)' = FailedDeletions(p)
    /\ \A k \in FailedDeletions(p) : jobs'[k].failedAt = jobs[k].failedAt

\* Of the failed deletions of project p that job i came after, none is new.
NoEarlierFailure(i, p) ==
    \A k \in FailedDeletions(p)' :
        k < i => k \in FailedDeletions(p) /\ jobs'[k].failedAt = jobs[k].failedAt

SameJobs ==
    /\ DOMAIN jobs' = DOMAIN jobs
    /\ \A i \in DOMAIN jobs :
           /\ jobs'[i].request = jobs[i].request /\ jobs'[i].key = jobs[i].key
           /\ jobs'[i].grant = jobs[i].grant /\ jobs'[i].at = jobs[i].at

LEMMA WorkerStep ==
    ASSUME IInv, UNCHANGED <<grant, rowLock, handler, accepted, time>>,
           status' \in [Projects -> Statuses], jobs' \in Seq(JobRows), SameJobs,
           \A p \in Projects : rowLock[p] # NoHandler => Undisturbed(p),
           \A i \in DOMAIN jobs, p \in Projects :
               jobs[i].request.project = p => NoEarlierFailure(i, p),
           ProjectsOK', FailuresOK'
    PROVE  IInv'
<1> USE DEF IInv
<1>1. TypeOK'
    BY DEF TypeOK, Project
<1>2. ASSUME NEW h \in Handlers PROVE HandlerOK(h)'
    <2>1. HandlerOK(h) /\ Project(h)' = Project(h)
        BY DEF HandlersOK, Project
    <2>2. Replays(handler[h].key, handler[h].request)' =
              Replays(handler[h].key, handler[h].request)
        BY DEF Replays, Existing, SameJobs
    <2>3. CASE handler[h].pc = "insert"
        <3>1. Project(h) \in Projects /\ rowLock[Project(h)] = h
            BY <2>1, <2>3, HandlerFields DEF HandlerOK
        <3>2. Undisturbed(Project(h))
            BY <3>1, NullAssumption
        <3>3. CreatedAfter(handler[h].grant, FailedDeletions(Project(h))) =>
                  CreatedAfter(handler[h].grant, FailedDeletions(Project(h)))'
            BY <2>1, <3>2 DEF CreatedAfter, Undisturbed
        <3> QED BY <2>1, <2>2, <2>3, <3>2, <3>3 DEF HandlerOK, Undisturbed, Authorizes
    <2>4. CASE handler[h].pc # "insert"
        BY <2>1, <2>2, <2>4 DEF HandlerOK
    <2> QED BY <2>3, <2>4
<1>3. KeysOK' /\ AcceptedOK' /\ ExpiryOK'
    BY DEF KeysOK, AcceptedOK, ExpiryOK, SameJobs
<1>4. ASSUME NEW i \in DOMAIN jobs PROVE GrantOK(i)'
    <2>1. /\ GrantOK(i)
          /\ jobs'[i].request = jobs[i].request
          /\ jobs'[i].grant = jobs[i].grant /\ jobs'[i].at = jobs[i].at
        BY DEF GrantsOK, SameJobs
    <2>3. PICK p \in Projects : p = jobs[i].request.project
        BY JobFields
    <2>4. NoEarlierFailure(i, p)
        BY <2>3
    <2>2. CreatedAfter(jobs[i].grant, {k \in FailedDeletions(jobs[i].request.project) : k < i})
              => CreatedAfter(jobs[i].grant,
                              {k \in FailedDeletions(jobs[i].request.project) : k < i})'
        BY <2>1, <2>3, <2>4 DEF CreatedAfter, NoEarlierFailure
    <2> QED BY <2>1, <2>2 DEF GrantOK, Authorizes
<1>5. Deletions' = Deletions /\ \A i \in Deletions : jobs'[i].grant = jobs[i].grant
    BY DEF Deletions, SameJobs
<1>6. GrantsOK'
    BY <1>4, <1>5 DEF GrantsOK, GrantSpentOnce, SameJobs
<1> QED BY <1>1, <1>2, <1>3, <1>6 DEF HandlersOK

LEMMA PublishIInv ==
    ASSUME IInv, NEW i \in DOMAIN jobs, Publish(i)
    PROVE  IInv'
<1> USE DEF IInv
<1>1. PICK p \in Projects :
          /\ p = jobs[i].request.project /\ rowLock[p] = NoHandler
          /\ status[p] = "PROVISIONING" /\ status' = [status EXCEPT ![p] = "READY"]
    BY JobFields DEF Publish
<1>2. UNCHANGED <<jobs, grant, rowLock, handler, accepted, time>>
    BY DEF Publish
<1>3. /\ status' \in [Projects -> Statuses] /\ status'[p] = "READY"
      /\ \A q \in Projects \ {p} : status'[q] = status[q]
    BY <1>1 DEF TypeOK, Statuses
<1>4. /\ \A q \in Projects : FailedDeletions(q)' = FailedDeletions(q)
      /\ \A q \in Projects : LastFailedDeletion(q)' = LastFailedDeletion(q)
    BY <1>2 DEF FailedDeletions, LastFailedDeletion
<1>5. ProjectsOK'
    BY <1>1, <1>2, <1>3, JobFields DEF ProjectsOK
<1>6. FailuresOK'
    BY <1>1, <1>2, <1>3, <1>4 DEF FailuresOK
<1>7. \A q \in Projects : rowLock[q] # NoHandler => Undisturbed(q)
    BY <1>1, <1>2, <1>3, <1>4 DEF Undisturbed
<1>8. \A k \in DOMAIN jobs, q \in Projects : NoEarlierFailure(k, q)
    BY <1>2, <1>4 DEF NoEarlierFailure
<1> QED BY <1>2, <1>3, <1>5, <1>6, <1>7, <1>8, WorkerStep DEF SameJobs, TypeOK

\* A job's row, but for what identifies the job, is replaced.
LEMMA JobEffect ==
    ASSUME TypeOK, NEW i \in DOMAIN jobs, NEW row \in JobRows, jobs' = [jobs EXCEPT ![i] = row],
           row.request = jobs[i].request, row.key = jobs[i].key, row.grant = jobs[i].grant,
           row.at = jobs[i].at
    PROVE  /\ jobs' \in Seq(JobRows) /\ jobs'[i] = row /\ SameJobs
           /\ \A k \in DOMAIN jobs \ {i} : jobs'[k] = jobs[k]
<1>1. DOMAIN jobs = 1 .. Len(jobs) /\ jobs \in Seq(JobRows)
    BY JobFields DEF TypeOK
<1>2. /\ jobs' \in Seq(JobRows) /\ Len(jobs') = Len(jobs)
      /\ \A k \in 1 .. Len(jobs) : jobs'[k] = IF k = i THEN row ELSE jobs[k]
    BY <1>1, ExceptSeq
<1>3. DOMAIN jobs' = DOMAIN jobs
    BY <1>1, <1>2, LenProperties
<1> QED BY <1>1, <1>2, <1>3 DEF SameJobs

LEMMA CompleteIInv ==
    ASSUME IInv, NEW i \in DOMAIN jobs, Complete(i)
    PROVE  IInv'
<1> USE DEF IInv
<1> DEFINE row == [jobs[i] EXCEPT !.status = "succeeded"]
<1>1. /\ jobs[i].status = "active" /\ jobs[i].request.kind # "delete"
      /\ jobs' = [jobs EXCEPT ![i] = row]
      /\ UNCHANGED <<status, grant, rowLock, handler, accepted, time>>
    BY DEF Complete
<1>2. /\ row \in JobRows /\ row.status = "succeeded"
      /\ row.request = jobs[i].request /\ row.key = jobs[i].key
      /\ row.grant = jobs[i].grant /\ row.at = jobs[i].at
    BY JobFields DEF JobRows
<1> HIDE DEF row
<1>3. /\ jobs' \in Seq(JobRows) /\ jobs'[i] = row /\ SameJobs
      /\ \A k \in DOMAIN jobs \ {i} : jobs'[k] = jobs[k]
    BY <1>1, <1>2, JobEffect
<1>4. ASSUME NEW q \in Projects
      PROVE  /\ FailedDeletions(q)' = FailedDeletions(q)
             /\ LastFailedDeletion(q)' = LastFailedDeletion(q)
             /\ \A k \in FailedDeletions(q) : jobs'[k] = jobs[k]
    <2>1. FailedDeletions(q)' = FailedDeletions(q)
        BY <1>1, <1>2, <1>3 DEF FailedDeletions, SameJobs
    <2>2. \A k \in FailedDeletions(q) : jobs'[k] = jobs[k]
        BY <1>1, <1>3 DEF FailedDeletions
    <2> QED BY <2>1, <2>2 DEF LastFailedDeletion
<1>5. ProjectsOK'
    BY <1>1, <1>2, <1>3 DEF ProjectsOK, SameJobs
<1>6. FailuresOK'
    BY <1>1, <1>4 DEF FailuresOK
<1>7. \A q \in Projects : Undisturbed(q)
    BY <1>1, <1>4 DEF Undisturbed
<1>8. \A k \in DOMAIN jobs, q \in Projects : NoEarlierFailure(k, q)
    BY <1>4 DEF NoEarlierFailure
<1> QED BY <1>1, <1>3, <1>5, <1>6, <1>7, <1>8, WorkerStep DEF TypeOK

LEMMA FailIInv ==
    ASSUME IInv, NEW i \in DOMAIN jobs, Fail(i)
    PROVE  IInv'
<1> USE DEF IInv
<1>1. PICK p \in Projects : p = jobs[i].request.project
    BY JobFields
<1>2. /\ jobs[i].status = "active" /\ rowLock[p] = NoHandler
      /\ UNCHANGED <<grant, rowLock, handler, accepted, time>>
    BY <1>1 DEF Fail
<1>3. /\ i \in Nat /\ \A k \in DOMAIN jobs : k \in Nat /\ jobs[k].request.project \in Projects
      /\ \A k \in DOMAIN jobs : jobs[k].request.project = p => k <= i
      /\ time \in 0 .. MaxTime
    BY <1>1, <1>2, JobFields DEF ProjectsOK, TypeOK
<1>4. CASE jobs[i].request.kind # "delete"
    <2> DEFINE row == [jobs[i] EXCEPT !.status = "failed"]
    <2>1. /\ jobs' = [jobs EXCEPT ![i] = row]
          /\ status' = [status EXCEPT ![p] = "PROVISION_FAILED"]
        BY <1>1, <1>4 DEF Fail
    <2>2. /\ row \in JobRows /\ row.status = "failed"
          /\ row.request = jobs[i].request /\ row.key = jobs[i].key
          /\ row.grant = jobs[i].grant /\ row.at = jobs[i].at
        BY JobFields DEF JobRows
    <2> HIDE DEF row
    <2>3. /\ jobs' \in Seq(JobRows) /\ jobs'[i] = row /\ SameJobs
          /\ \A k \in DOMAIN jobs \ {i} : jobs'[k] = jobs[k]
        BY <2>1, <2>2, JobEffect
    <2>4. /\ status' \in [Projects -> Statuses] /\ status'[p] = "PROVISION_FAILED"
          /\ \A q \in Projects \ {p} : status'[q] = status[q]
        BY <2>1 DEF TypeOK, Statuses
    <2>5. ASSUME NEW q \in Projects
          PROVE  /\ FailedDeletions(q)' = FailedDeletions(q)
                 /\ LastFailedDeletion(q)' = LastFailedDeletion(q)
                 /\ \A k \in FailedDeletions(q) : jobs'[k] = jobs[k]
        <3>1. FailedDeletions(q)' = FailedDeletions(q)
            BY <1>4, <2>2, <2>3 DEF FailedDeletions, SameJobs
        <3>2. \A k \in FailedDeletions(q) : jobs'[k] = jobs[k]
            BY <1>4, <2>3 DEF FailedDeletions
        <3> QED BY <3>1, <3>2 DEF LastFailedDeletion
    <2>6. ProjectsOK'
        BY <1>1, <1>2, <1>3, <2>2, <2>3, <2>4 DEF ProjectsOK, SameJobs
    <2>7. FailedDeletions(p) = {}
        BY <1>1, <1>2, <1>4 DEF ProjectsOK, FailuresOK
    <2>8. FailuresOK'
        BY <1>2, <2>4, <2>5, <2>7 DEF FailuresOK
    <2>9. \A q \in Projects : rowLock[q] # NoHandler => Undisturbed(q)
        BY <1>2, <2>4, <2>5 DEF Undisturbed
    <2>10. \A k \in DOMAIN jobs, q \in Projects : NoEarlierFailure(k, q)
        BY <2>5 DEF NoEarlierFailure
    <2> QED BY <1>2, <2>3, <2>4, <2>6, <2>8, <2>9, <2>10, WorkerStep
<1>5. CASE jobs[i].request.kind = "delete"
    <2>1. PICK finished \in Recorded :
              jobs' = [jobs EXCEPT ![i].status = "failed", ![i].finished = finished,
                                   ![i].failedAt = time]
        BY <1>5 DEF Fail
    <2> DEFINE row == [jobs[i] EXCEPT !.status = "failed", !.finished = finished,
                                      !.failedAt = time]
    <2>16. status' = [status EXCEPT ![p] = "DELETION_FAILED"]
        BY <1>1, <1>5 DEF Fail
    <2>2. finished \in Int /\ finished >= time - Skew /\ finished \in Instants
        BY <1>3, TimeAssumption DEF Recorded, Instants
    <2>3. jobs[i] \in JobRows
        BY JobFields
    <2>4. /\ row \in JobRows /\ row.status = "failed"
          /\ row.finished = finished /\ row.failedAt = time
          /\ row.request = jobs[i].request /\ row.key = jobs[i].key
          /\ row.grant = jobs[i].grant /\ row.at = jobs[i].at
        BY <1>3, <2>2, <2>3 DEF JobRows
    <2>5. jobs' = [jobs EXCEPT ![i] = row]
        BY <2>1
    <2> HIDE DEF row
    <2>6. /\ jobs' \in Seq(JobRows) /\ jobs'[i] = row /\ SameJobs
          /\ \A k \in DOMAIN jobs \ {i} : jobs'[k] = jobs[k]
        BY <2>4, <2>5, JobEffect
    <2>7. /\ status' \in [Projects -> Statuses] /\ status'[p] = "DELETION_FAILED"
          /\ \A q \in Projects \ {p} : status'[q] = status[q]
        BY <2>16 DEF TypeOK, Statuses
    <2>8. ASSUME NEW q \in Projects, q # p
          PROVE  /\ FailedDeletions(q)' = FailedDeletions(q)
                 /\ LastFailedDeletion(q)' = LastFailedDeletion(q)
        <3>1. FailedDeletions(q)' = FailedDeletions(q)
            BY <1>1, <2>6, <2>8 DEF FailedDeletions, SameJobs
        <3> QED BY <3>1 DEF LastFailedDeletion
    <2>9. FailedDeletions(p)' = FailedDeletions(p) \cup {i}
        BY <1>1, <1>5, <2>4, <2>6 DEF FailedDeletions, SameJobs
    <2>10. \A q \in Projects : \A k \in FailedDeletions(q) : k # i /\ jobs'[k] = jobs[k]
        BY <1>2, <2>6 DEF FailedDeletions
    <2>11. \A k \in FailedDeletions(p) : k \in Nat /\ k < i
        BY <1>3, <2>10 DEF FailedDeletions
    <2>12. ProjectsOK'
        BY <1>1, <1>2, <1>3, <2>4, <2>6, <2>7 DEF ProjectsOK, SameJobs
    <2>13. FailuresOK'
        <3>1. ASSUME NEW q \in Projects, q # p
              PROVE  /\ FailedDeletions(q)' # {} =>
                            /\ status'[q] \in {"DELETING", "DELETION_FAILED"}
                            /\ LastFailedDeletion(q)' # {}
                     /\ \A k \in FailedDeletions(q)' :
                            /\ jobs'[k].failedAt <= time'
                            /\ jobs'[k].finished >= jobs'[k].failedAt - Skew
                            /\ \A x \in FailedDeletions(q)' :
                                   x < k => jobs'[x].failedAt <= jobs'[k].failedAt
            BY <1>2, <2>7, <2>8, <2>10, <3>1 DEF FailuresOK
        <3>2. status'[p] = "DELETION_FAILED" /\ i \in LastFailedDeletion(p)'
            BY <1>3, <2>7, <2>9, <2>11 DEF LastFailedDeletion
        <3>3. ASSUME NEW k \in FailedDeletions(p)'
              PROVE  /\ jobs'[k].failedAt <= time'
                     /\ jobs'[k].finished >= jobs'[k].failedAt - Skew
            BY <1>2, <1>3, <2>2, <2>4, <2>6, <2>9, <2>10 DEF FailuresOK
        <3>4. ASSUME NEW k \in FailedDeletions(p)', NEW x \in FailedDeletions(p)', x < k
              PROVE  jobs'[x].failedAt <= jobs'[k].failedAt
            <4>1. x \in FailedDeletions(p)
                BY <1>3, <2>9, <2>11, <3>4
            <4> QED BY <1>2, <2>4, <2>6, <2>9, <2>10, <3>4, <4>1 DEF FailuresOK
        <3> QED BY <3>1, <3>2, <3>3, <3>4 DEF FailuresOK
    <2>14. \A q \in Projects : rowLock[q] # NoHandler => Undisturbed(q)
        BY <1>2, <2>7, <2>8, <2>10 DEF Undisturbed
    <2>15. ASSUME NEW k \in DOMAIN jobs, NEW q \in Projects, jobs[k].request.project = q
           PROVE  NoEarlierFailure(k, q)
        <3>1. CASE q # p
            BY <2>8, <2>10, <3>1 DEF NoEarlierFailure
        <3>2. CASE q = p
            <4>1. k \in Nat /\ k <= i
                BY <1>3, <2>15, <3>2
            <4> QED BY <1>3, <2>9, <2>10, <3>2, <4>1 DEF NoEarlierFailure
        <3> QED BY <3>1, <3>2
    <2> QED BY <1>2, <2>6, <2>7, <2>12, <2>13, <2>14, <2>15, WorkerStep
<1> QED BY <1>4, <1>5

LEMMA TickIInv ==
    ASSUME IInv, Tick
    PROVE  IInv'
<1> USE DEF IInv
<1>1. /\ UNCHANGED <<status, jobs, grant, rowLock, handler, accepted>>
      /\ time' = time + 1 /\ time \in 0 .. MaxTime /\ time' \in 0 .. MaxTime
    BY TimeAssumption DEF Tick, TypeOK
<1>2. TypeOK'
    BY <1>1 DEF TypeOK, Project
<1>3. ASSUME NEW h \in Handlers PROVE HandlerOK(h)'
    <2>1. HandlerOK(h) /\ Project(h)' = Project(h)
        BY <1>1 DEF HandlersOK, Project
    <2>2. /\ FailedDeletions(Project(h))' = FailedDeletions(Project(h))
          /\ Replays(handler[h].key, handler[h].request)' =
                 Replays(handler[h].key, handler[h].request)
        BY <1>1, <2>1 DEF FailedDeletions, Replays, Existing
    <2>3. /\ Authorizes(handler[h].grant, handler[h].request, handler[h].at)' <=>
                 Authorizes(handler[h].grant, handler[h].request, handler[h].at)
          /\ CreatedAfter(handler[h].grant, FailedDeletions(Project(h)))' <=>
                 CreatedAfter(handler[h].grant, FailedDeletions(Project(h)))
        BY <1>1, <2>2 DEF Authorizes, CreatedAfter
    <2> QED BY <1>1, <2>1, <2>2, <2>3 DEF HandlerOK
<1>4. KeysOK' /\ AcceptedOK' /\ ProjectsOK' /\ ExpiryOK'
    BY <1>1 DEF KeysOK, AcceptedOK, ProjectsOK, ExpiryOK
<1>5. /\ \A p \in Projects : FailedDeletions(p)' = FailedDeletions(p)
      /\ \A p \in Projects : LastFailedDeletion(p)' = LastFailedDeletion(p)
      /\ \A p \in Projects : \A i \in FailedDeletions(p) : jobs[i].failedAt \in Nat
    BY <1>1, JobFields DEF FailedDeletions, LastFailedDeletion
<1>6. FailuresOK'
    BY <1>1, <1>5 DEF FailuresOK
<1>7. GrantsOK'
    BY <1>1 DEF GrantsOK, GrantOK, GrantSpentOnce, Deletions, Authorizes, CreatedAfter,
                FailedDeletions
<1> QED BY <1>2, <1>3, <1>4, <1>6, <1>7 DEF HandlersOK

LEMMA StutterIInv ==
    ASSUME IInv, UNCHANGED vars
    PROVE  IInv'
<1> USE DEF IInv, vars
<1>1. /\ \A p \in Projects : FailedDeletions(p)' = FailedDeletions(p)
      /\ \A p \in Projects : LastFailedDeletion(p)' = LastFailedDeletion(p)
    BY DEF FailedDeletions, LastFailedDeletion
<1>2. FailuresOK' /\ ProjectsOK'
    BY <1>1 DEF FailuresOK, ProjectsOK
<1>3. TypeOK /\ SameJobs
    BY DEF SameJobs
<1>4. \A p \in Projects : Undisturbed(p)
    BY <1>1 DEF Undisturbed
<1>5. \A i \in DOMAIN jobs, p \in Projects : NoEarlierFailure(i, p)
    BY <1>1 DEF NoEarlierFailure
<1> QED BY <1>2, <1>3, <1>4, <1>5, WorkerStep DEF TypeOK

LEMMA NextIInv == IInv /\ [Next]_vars => IInv'
<1> SUFFICES ASSUME IInv, [Next]_vars PROVE IInv'
    OBVIOUS
<1>1. CASE UNCHANGED vars
    BY <1>1, StutterIInv
<1>2. ASSUME NEW h \in Handlers,
             \/ Create(h) \/ Retry(h) \/ Delete(h) \/ Insert(h) \/ Recover(h) \/ Crash(h)
      PROVE  IInv'
    BY <1>2, CreateIInv, RetryIInv, DeleteIInv, InsertIInv, RecoverIInv, CrashIInv
<1>3. ASSUME NEW g \in Grants, BeginGrant(g) \/ IssueGrant(g)
      PROVE  IInv'
    BY <1>3, BeginGrantIInv, IssueGrantIInv
<1>4. ASSUME NEW i \in DOMAIN jobs, Publish(i) \/ Complete(i) \/ Fail(i)
      PROVE  IInv'
    BY <1>4, PublishIInv, CompleteIInv, FailIInv
<1> QED BY <1>1, <1>2, <1>3, <1>4, TickIInv DEF Next

\* The invariant holds in every reachable state.
THEOREM Invariance == Spec => []IInv
BY InitIInv, NextIInv, PTL DEF Spec

-----------------------------------------------------------------------------
\* Variables have their types and no lock outlives its handler (the rollback or
\* commit at the end of every request).
THEOREM TypeCorrect == Spec => []TypeOK
<1>1. IInv => TypeOK
    BY DEF IInv
<1> QED BY <1>1, Invariance, PTL

\* An Idempotency-Key names one operation, whichever handlers raced for it and
\* however often the request was repeated (the key lookups and the unique index).
THEOREM KeyNamesOneOperation == Spec => []OneOperationPerKey
<1>1. IInv => OneOperationPerKey
    <2> SUFFICES ASSUME IInv PROVE OneOperationPerKey
        OBVIOUS
    <2>1. ASSUME NEW a \in accepted, NEW b \in accepted, a.key = b.key
          PROVE  a = b
        <3>1. a.job = b.job /\ a.request = b.request
            BY <2>1 DEF IInv, KeysOK, AcceptedOK
        <3>2. /\ a \in [key : Keys, request : Requests, job : Nat]
              /\ b \in [key : Keys, request : Requests, job : Nat]
            BY DEF IInv, TypeOK
        <3> QED BY <2>1, <3>1, <3>2
    <2> QED BY <2>1 DEF OneOperationPerKey, IInv, AcceptedOK
<1> QED BY <1>1, Invariance, PTL

\* A repeated request is told of its operation, whatever happened in between (the
\* replay lookup comes before every check of the project's state).
THEOREM RepeatIsAnswered == Spec => []RepeatNotRefused
<1>1. IInv => RepeatNotRefused
    BY DEF IInv, HandlersOK, HandlerOK, RepeatNotRefused
<1> QED BY <1>1, Invariance, PTL

\* A grant is consumed by exactly the one deletion that it authorized (the grant and
\* the job are one transaction, under the lock of the project's row).
THEOREM GrantBuysOneDeletion == Spec => []GrantSpentOnce
<1>1. IInv => GrantSpentOnce
    BY DEF IInv, GrantsOK
<1> QED BY <1>1, Invariance, PTL

\* Every deletion was confirmed and authorized in time, by its requester, for its
\* project and after the last failure, for clocks that are off by up to Skew (the
\* checks of the grant in request_project_deletion).
THEOREM DeletionsAreAuthorized == Spec => []DeletionAuthorized
<1>1. IInv => DeletionAuthorized
    <2> SUFFICES ASSUME IInv, NEW i \in Deletions
                 PROVE  LET g == grant[jobs[i].grant]
                            q == jobs[i].request
                        IN  /\ q.confirmed /\ g.actor = q.actor /\ g.project = q.project
                            /\ jobs[i].at < g.issued + TTL + 2 * Skew
                            /\ \A k \in FailedDeletions(q.project) :
                                   k < i => g.created > jobs[k].failedAt - Skew
        BY DEF DeletionAuthorized
    <2>1. i \in DOMAIN jobs /\ jobs[i].request.kind = "delete"
        BY DEF Deletions
    <2>2. GrantOK(i)
        BY <2>1 DEF IInv, GrantsOK
    <2> QED BY <2>1, <2>2 DEF GrantOK, Authorizes, CreatedAfter
<1> QED BY <1>1, Invariance, PTL

=============================================================================
