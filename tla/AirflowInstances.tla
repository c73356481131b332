-------------------------- MODULE AirflowInstances --------------------------
(***************************************************************************)
(* The rows of airflow_instances, which older parts of the API keep beside *)
(* the managed deployment.  Provisioning commits twice: the row as         *)
(* "creating", then as "running".                                          *)
(***************************************************************************)
EXTENDS ProjectAccess

VARIABLES
    instance,   \* the project's row: one at most, by a unique index
    abandoned   \* rows whose handler died between its two commits

instanceVars == <<instance, abandoned>>

NoInstance == [row |-> 0, status |-> "absent"]

InstanceInit == instance = NoInstance /\ abandoned = {}

\* Provisioning and deletion are for super administrators who are members.
ReceiveInstance(h) ==
    \E u \in Users, kind \in InstanceKinds :
        /\ kind # "restart" => users[u].admin
        /\ Receive(h, kind, u, Nothing)

CheckAbsent(h) ==
    /\ req[h].kind = "provision" /\ req[h].pc = "rows"
    /\ IF instance = NoInstance THEN Goto(h, "insert") ELSE Refuse(h)
    /\ UNCHANGED <<accessVars, instanceVars>>

\* The first transaction.
InsertInstance(h) ==
    /\ req[h].kind = "provision" /\ req[h].pc = "insert"
    /\ IF instance # NoInstance THEN UNCHANGED <<instance, lastRow>> /\ Refuse(h)
       ELSE /\ lastRow < MaxRow
            /\ instance' = [row |-> lastRow + 1, status |-> "creating"]
            /\ lastRow' = lastRow + 1
            /\ Keep(h, "refresh", instance')
    /\ UNCHANGED <<lifecycle, selfApprove, accountVars, members, mix, abandoned>>

\* The row is read again: another handler may have restarted or deleted it.
RefreshInstance(h) ==
    /\ req[h].kind = "provision" /\ req[h].pc = "refresh"
    /\ IF instance.row = req[h].got.row THEN Keep(h, "commit", instance) ELSE Refuse(h)
    /\ UNCHANGED <<accessVars, instanceVars>>

SeeInstance(h) ==
    /\ req[h].kind \in {"restart", "delete"} /\ req[h].pc = "rows"
    /\ IF instance = NoInstance THEN Refuse(h) ELSE Keep(h, "commit", instance)
    /\ UNCHANGED <<accessVars, instanceVars>>

\* Mutant: a row of a restart is left as it is.
RunNew(h) ==
    /\ req[h].kind \in {"provision", "restart"} /\ req[h].pc = "commit"
    /\ instance' = instance
    /\ Answer(h)
    /\ UNCHANGED <<accessVars, abandoned>>

\* The second transaction of provisioning, and the only one of a restart: an UPDATE
\* unless the row that was read is running, which fails if the row is gone.
RunInstance(h) ==
    /\ req[h].kind \in {"provision", "restart"} /\ req[h].pc = "commit"
    /\ IF req[h].got.status = "running" THEN UNCHANGED instance /\ Answer(h)
       ELSE IF instance.row # req[h].got.row THEN UNCHANGED instance /\ Refuse(h)
       ELSE instance' = [instance EXCEPT !.status = "running"] /\ Answer(h)
    /\ UNCHANGED <<accessVars, abandoned>>

DeleteInstance(h) ==
    /\ req[h].kind = "delete" /\ req[h].pc = "commit"
    /\ instance' = IF instance.row = req[h].got.row THEN NoInstance ELSE instance
    /\ Answer(h)
    /\ UNCHANGED <<accessVars, abandoned>>

\* Between the two commits of provisioning.
Provisioning(h) ==
    /\ req[h].pc \in {"refresh", "commit"}
    /\ req[h].kind = "provision"

\* Accompanies the death of a handler.
Abandon(h) ==
    abandoned' = IF Provisioning(h) THEN abandoned \cup {req[h].got.row} ELSE abandoned

InstanceStep(h) ==
    \/ Listening(h, InstanceKinds) /\ ReceiveInstance(h) /\ UNCHANGED <<accessVars, instanceVars>>
    \/ CheckAbsent(h) \/ InsertInstance(h) \/ RefreshInstance(h) \/ SeeInstance(h)
    \/ RunInstance(h) \/ DeleteInstance(h)

InstanceCalls == [kind : InstanceKinds, arg : {Nothing}]
=============================================================================
