------------------------- MODULE ProjectOperations --------------------------
(***************************************************************************)
(* What the control plane promises to a caller of its lifecycle API, with  *)
(* the machinery that keeps the promise left out: no attempts, leases,     *)
(* workers or clocks.  An accepted request is an operation of one project; *)
(* it is the only unsettled operation of that project; it settles once, as *)
(* succeeded or failed, and the project's status moves with it.            *)
(*                                                                         *)
(* LifecycleQueue implements this specification.                           *)
(***************************************************************************)
EXTENDS Integers

CONSTANTS Projects, Ops, NoProject

VARIABLES
    status,   \* lifecycle status of each project
    op        \* what GET /projects/{slug}/operations/{id} shows of each operation

vars == <<status, op>>

None == [state |-> "none", kind |-> "NONE", project |-> NoProject]

Unsettled(o) == op[o].state = "active"

Init ==
    /\ status \in [Projects -> {"ABSENT", "PROVISION_FAILED"}]
    /\ op = [o \in Ops |-> None]

\* A request for p is accepted and becomes the only unsettled operation of p.
Accept(o, p, kind, target) ==
    /\ op[o] = None
    /\ \A x \in Ops : op[x].project = p => ~Unsettled(x)
    /\ op' = [op EXCEPT ![o] = [state |-> "active", kind |-> kind, project |-> p]]
    /\ status' = [status EXCEPT ![p] = target]

FailedProvision(p) ==
    \E x \in Ops : op[x] = [state |-> "failed", kind |-> "PROVISION", project |-> p]

RequestProvision(o, p) ==
    /\ \/ status[p] = "ABSENT"
       \/ status[p] = "PROVISION_FAILED" /\ FailedProvision(p)
    /\ Accept(o, p, "PROVISION", "PROVISIONING")

RequestDelete(o, p) ==
    /\ status[p] \in {"READY", "PROVISION_FAILED", "DELETION_FAILED"}
    /\ Accept(o, p, "DELETE", "DELETING")

\* The project becomes usable while its operation is still unsettled.
Publish(o) ==
    /\ Unsettled(o)
    /\ op[o].kind = "PROVISION"
    /\ status[op[o].project] = "PROVISIONING"
    /\ status' = [status EXCEPT ![op[o].project] = "READY"]
    /\ UNCHANGED op

Settle(o, outcome) ==
    /\ Unsettled(o)
    /\ op' = [op EXCEPT ![o] = [op[o] EXCEPT !.state = outcome]]

\* Only a provision succeeds, and only once its project is READY.
Succeed(o) ==
    /\ op[o].kind = "PROVISION"
    /\ status[op[o].project] = "READY"
    /\ Settle(o, "succeeded")
    /\ UNCHANGED status

\* A provision may also fail after it made the project READY.
Fail(o) ==
    /\ Settle(o, "failed")
    /\ \/ /\ op[o].kind = "PROVISION"
          /\ status[op[o].project] \in {"PROVISIONING", "READY"}
          /\ status' = [status EXCEPT ![op[o].project] = "PROVISION_FAILED"]
       \/ /\ op[o].kind = "DELETE"
          /\ status[op[o].project] = "DELETING"
          /\ status' = [status EXCEPT ![op[o].project] = "DELETION_FAILED"]

Next ==
    \/ \E o \in Ops, p \in Projects : RequestProvision(o, p) \/ RequestDelete(o, p)
    \/ \E o \in Ops : Publish(o) \/ Succeed(o) \/ Fail(o)

Spec == Init /\ [][Next]_vars
=============================================================================
