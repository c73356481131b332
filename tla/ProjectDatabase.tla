--------------------------- MODULE ProjectDatabase ---------------------------
(***************************************************************************)
(* AsyncpgProjectDatabaseManager: the PostgreSQL role and database of one  *)
(* project, both named conductor_airflow_<project id>.  PostgreSQL's       *)
(* catalog is shared with everything else that uses the server, so an      *)
(* object is known to be Conductor's only by its comment                   *)
(* conductor.project_id=<project id>.                                      *)
(*                                                                         *)
(* One action is one SQL statement (or one transaction of several).  Every *)
(* operation runs inside a session advisory lock of the project; CREATE    *)
(* DATABASE cannot run in a transaction, so the database exists for a      *)
(* while without its comment.  A statement may fail or be cancelled, a     *)
(* client may die at any point, and somebody else may create an object     *)
(* that carries the project's name.                                        *)
(***************************************************************************)
EXTENDS Naturals, FiniteSets

CONSTANTS
    Clients,    \* processes that use the manager
    MaxOid,     \* bound: objects ever created
    NoClient    \* null value

ASSUME MaxOidAssumption == MaxOid \in Nat
ASSUME NoClientAssumption == NoClient \notin Clients

VARIABLES
    role,      \* pg_roles: the row named after the project
    database,  \* pg_database: the row named after the project
    lock,      \* session that holds conductor.project_database:<id>
    client,    \* what each client holds in memory
    lastOid    \* the oid given to the newest object

vars == <<role, database, lock, client, lastOid>>

Oids == 1 .. MaxOid
Comments == {"none", "ours", "other"}
Origins == {"conductor", "external"}

NoRole == [oid |-> 0, comment |-> "none", origin |-> "nobody"]
NoDatabase == [oid |-> 0, owner |-> "nobody", comment |-> "none", origin |-> "nobody"]

\* "origin" is not in the catalog: it records who created the object.
Roles == {NoRole} \cup [oid : Oids, comment : Comments, origin : Origins]
Databases ==
    {NoDatabase} \cup
    [oid : Oids, owner : {"project", "other"}, comment : Comments, origin : Origins]

ManagerOperations ==
    {"ensure_role", "ensure_database", "drop_database", "drop_role", "verify_absent"}
Outcomes == {"none", "ok", "present", "conflict", "error"}

\* The first statement of each operation after the lock is granted.
FirstPc ==
    [ensure_role |-> "readRole", ensure_database |-> "readOwner",
     drop_database |-> "readToDrop", drop_role |-> "dropRole",
     verify_absent |-> "verifyDatabase"]

\* Between CREATE DATABASE and the end of the code that must mark it or drop it.
MarkingPcs == {"readCreated", "comment", "compensate", "compensateDrop", "verify"}
StatementPcs ==
    MarkingPcs \cup {"readRole", "createRole", "readOwner", "readDatabase",
                     "recheckOwner", "createDatabase", "readToDrop", "confirmDrop",
                     "dropDatabase", "dropRole", "verifyDatabase", "verifyRole"}
Pcs == {"idle", "locking", "unlocking"} \cup StatementPcs

Resting == [pc |-> "idle", op |-> "none", role |-> NoRole, database |-> NoDatabase,
            outcome |-> "none"]

ClientStates ==
    [pc : Pcs, op : ManagerOperations \cup {"none"}, role : Roles,
     database : Databases, outcome : Outcomes]

Init ==
    /\ role = NoRole
    /\ database = NoDatabase
    /\ lock = NoClient
    /\ client = [c \in Clients |-> Resting]
    /\ lastOid = 0

-----------------------------------------------------------------------------
At(c, pc) == client[c].pc = pc

GoTo(c, pc) == client' = [client EXCEPT ![c].pc = pc]

\* The operation returns or raises: the lock is released next.
End(c, outcome) == client' = [client EXCEPT ![c].pc = "unlocking", ![c].outcome = outcome]

\* Mutant: the owner's comment is not looked at.
OwnedRoleUnmarked(r) == r # NoRole

OwnedRole(r) == r # NoRole /\ r.comment = "ours"

OwnedDatabase(d) == d # NoDatabase /\ d.owner = "project" /\ d.comment = "ours"

\* Mutant: the identity is the oid alone.
SameDatabaseOid(d) == d # NoDatabase /\ database.oid = d.oid

\* Same oid, owner and comment: the object that was read before is still there.
SameRole(r) == r # NoRole /\ role.oid = r.oid /\ role.comment = r.comment
SameDatabase(d) ==
    /\ d # NoDatabase
    /\ <<database.oid, database.owner, database.comment>> = <<d.oid, d.owner, d.comment>>

-----------------------------------------------------------------------------
(* The session and its lock. *)

Call(c, op) ==
    /\ At(c, "idle")
    /\ client' = [client EXCEPT ![c] = [Resting EXCEPT !.pc = "locking", !.op = op]]
    /\ UNCHANGED <<role, database, lock, lastOid>>

\* Mutant: no advisory lock.
LockWithoutWaiting(c) ==
    /\ At(c, "locking")
    /\ lock' = c
    /\ GoTo(c, FirstPc[client[c].op])
    /\ UNCHANGED <<role, database, lastOid>>

Lock(c) ==
    /\ At(c, "locking")
    /\ lock = NoClient
    /\ lock' = c
    /\ GoTo(c, FirstPc[client[c].op])
    /\ UNCHANGED <<role, database, lastOid>>

Unlock(c) ==
    /\ At(c, "unlocking")
    /\ lock' = IF lock = c THEN NoClient ELSE lock
    /\ client' = [client EXCEPT ![c] = Resting]
    /\ UNCHANGED <<role, database, lastOid>>

-----------------------------------------------------------------------------
(* ensure_role *)

ReadRole(c) ==
    /\ At(c, "readRole")
    /\ IF role = NoRole THEN GoTo(c, "createRole")
       ELSE End(c, IF OwnedRole(role) THEN "ok" ELSE "conflict")
    /\ UNCHANGED <<role, database, lock, lastOid>>

\* CREATE ROLE and COMMENT ON ROLE, in one transaction.
CreateRole(c) ==
    /\ At(c, "createRole")
    /\ IF role = NoRole
       THEN /\ lastOid < MaxOid
            /\ lastOid' = lastOid + 1
            /\ role' = [oid |-> lastOid', comment |-> "ours", origin |-> "conductor"]
            /\ End(c, "ok")
       ELSE End(c, "error") /\ UNCHANGED <<role, lastOid>>
    /\ UNCHANGED <<database, lock>>

-----------------------------------------------------------------------------
(* ensure_database *)

ReadOwner(c) ==
    /\ At(c, "readOwner")
    /\ IF OwnedRole(role)
       THEN client' = [client EXCEPT ![c].pc = "readDatabase", ![c].role = role]
       ELSE End(c, "conflict")
    /\ UNCHANGED <<role, database, lock, lastOid>>

ReadDatabase(c) ==
    /\ At(c, "readDatabase")
    /\ IF database = NoDatabase THEN GoTo(c, "recheckOwner")
       ELSE End(c, IF OwnedDatabase(database) THEN "ok" ELSE "conflict")
    /\ UNCHANGED <<role, database, lock, lastOid>>

RecheckOwner(c) ==
    /\ At(c, "recheckOwner")
    /\ IF SameRole(client[c].role) THEN GoTo(c, "createDatabase") ELSE End(c, "conflict")
    /\ UNCHANGED <<role, database, lock, lastOid>>

\* PostgreSQL refuses a name that is taken and an owner that does not exist.
CreateDatabase(c) ==
    /\ At(c, "createDatabase")
    /\ IF database = NoDatabase /\ role # NoRole
       THEN /\ lastOid < MaxOid
            /\ lastOid' = lastOid + 1
            /\ database' = [oid |-> lastOid', owner |-> "project", comment |-> "none",
                            origin |-> "conductor"]
            /\ GoTo(c, "readCreated")
       ELSE End(c, "error") /\ UNCHANGED <<database, lastOid>>
    /\ UNCHANGED <<role, lock>>

ReadCreated(c) ==
    /\ At(c, "readCreated")
    /\ IF database.owner = "project" /\ database.comment = "none"
       THEN client' = [client EXCEPT ![c].pc = "comment", ![c].database = database]
       ELSE End(c, "conflict")
    /\ UNCHANGED <<role, database, lock, lastOid>>

\* COMMENT ON DATABASE names the database, not its oid.  The statement may take
\* effect and the call still fail, when it is cancelled before its answer.
CommentDatabase(c) ==
    /\ At(c, "comment")
    /\ IF database = NoDatabase
       THEN GoTo(c, "compensate") /\ UNCHANGED database
       ELSE /\ database' = [database EXCEPT !.comment = "ours"]
            /\ \E next \in {"verify", "compensate"} : GoTo(c, next)
    /\ UNCHANGED <<role, lock, lastOid>>

\* except BaseException: what was created is dropped only if it is unchanged.
Compensate(c) ==
    /\ At(c, "compensate")
    /\ IF SameDatabase(client[c].database) THEN GoTo(c, "compensateDrop") ELSE End(c, "error")
    /\ UNCHANGED <<role, database, lock, lastOid>>

CompensateDrop(c) ==
    /\ At(c, "compensateDrop")
    /\ database' = NoDatabase
    /\ End(c, "error")
    /\ UNCHANGED <<role, lock, lastOid>>

\* The database must be the one created here, now marked.
VerifyMarked(c) ==
    /\ At(c, "verify")
    /\ IF OwnedDatabase(database) /\ database.oid = client[c].database.oid
       THEN End(c, "ok") /\ UNCHANGED database
       ELSE /\ End(c, "conflict")
            /\ database' = IF SameDatabase(client[c].database) THEN NoDatabase ELSE database
    /\ UNCHANGED <<role, lock, lastOid>>

-----------------------------------------------------------------------------
(* drop_database, drop_role, verify_absent *)

\* Mutant: neither owner nor comment is looked at.
ReadToDropAnything(c) ==
    /\ At(c, "readToDrop")
    /\ IF database = NoDatabase THEN End(c, "ok")
       ELSE client' = [client EXCEPT ![c].pc = "confirmDrop", ![c].database = database]
    /\ UNCHANGED <<role, database, lock, lastOid>>

ReadToDrop(c) ==
    /\ At(c, "readToDrop")
    /\ IF database = NoDatabase THEN End(c, "ok")
       ELSE IF OwnedDatabase(database)
       THEN client' = [client EXCEPT ![c].pc = "confirmDrop", ![c].database = database]
       ELSE End(c, "conflict")
    /\ UNCHANGED <<role, database, lock, lastOid>>

\* After its connections are revoked and terminated the database is read again.
ConfirmDrop(c) ==
    /\ At(c, "confirmDrop")
    /\ IF SameDatabase(client[c].database) THEN GoTo(c, "dropDatabase") ELSE End(c, "conflict")
    /\ UNCHANGED <<role, database, lock, lastOid>>

DropDatabase(c) ==
    /\ At(c, "dropDatabase")
    /\ database' = NoDatabase
    /\ End(c, IF database = NoDatabase THEN "error" ELSE "ok")
    /\ UNCHANGED <<role, lock, lastOid>>

\* One transaction.  PostgreSQL refuses to drop a role that owns a database.
DropRole(c) ==
    /\ At(c, "dropRole")
    /\ IF role = NoRole THEN End(c, "ok") /\ UNCHANGED role
       ELSE IF ~OwnedRole(role) THEN End(c, "conflict") /\ UNCHANGED role
       ELSE IF database.owner = "project" THEN End(c, "error") /\ UNCHANGED role
       ELSE role' = NoRole /\ End(c, "ok")
    /\ UNCHANGED <<database, lock, lastOid>>

VerifyDatabase(c) ==
    /\ At(c, "verifyDatabase")
    /\ client' = [client EXCEPT ![c].pc = "verifyRole", ![c].database = database]
    /\ UNCHANGED <<role, database, lock, lastOid>>

VerifyRole(c) ==
    /\ At(c, "verifyRole")
    /\ LET foreign == \/ client[c].database # NoDatabase /\ ~OwnedDatabase(client[c].database)
                      \/ role # NoRole /\ ~OwnedRole(role)
           absent == client[c].database = NoDatabase /\ role = NoRole
       IN  End(c, IF foreign THEN "conflict" ELSE IF absent THEN "ok" ELSE "present")
    /\ UNCHANGED <<role, database, lock, lastOid>>

-----------------------------------------------------------------------------
(* Failures and the outside world. *)

\* A statement fails, or the task is cancelled, before the statement's effect;
\* inside the try block of ensure_database that leads to the compensation.
StatementFails(c) ==
    /\ client[c].pc \in StatementPcs
    /\ IF At(c, "comment") THEN GoTo(c, "compensate") ELSE End(c, "error")
    /\ UNCHANGED <<role, database, lock, lastOid>>

\* The process dies or its connection is lost: PostgreSQL ends the session.
Crash(c) ==
    /\ ~At(c, "idle")
    /\ client' = [client EXCEPT ![c] = Resting]
    /\ lock' = IF lock = c THEN NoClient ELSE lock
    /\ UNCHANGED <<role, database, lastOid>>

\* Somebody else takes the name.  Nobody else writes Conductor's comment, and
\* nobody else drops an object that carries it.
ExternalRole ==
    /\ role = NoRole
    /\ lastOid < MaxOid
    /\ lastOid' = lastOid + 1
    /\ \E comment \in {"none", "other"} :
           role' = [oid |-> lastOid', comment |-> comment, origin |-> "external"]
    /\ UNCHANGED <<database, lock, client>>

ExternalDatabase ==
    /\ database = NoDatabase
    /\ lastOid < MaxOid
    /\ lastOid' = lastOid + 1
    /\ \E comment \in {"none", "other"},
          owner \in (IF role = NoRole THEN {"other"} ELSE {"other", "project"}) :
           database' = [oid |-> lastOid', owner |-> owner, comment |-> comment,
                        origin |-> "external"]
    /\ UNCHANGED <<role, lock, client>>

EnsureStep(c) ==
    \/ ReadRole(c) \/ CreateRole(c)
    \/ ReadOwner(c) \/ ReadDatabase(c) \/ RecheckOwner(c) \/ CreateDatabase(c)
    \/ ReadCreated(c) \/ CommentDatabase(c) \/ VerifyMarked(c)
    \/ Compensate(c) \/ CompensateDrop(c)

RemoveStep(c) ==
    \/ ReadToDrop(c) \/ ConfirmDrop(c) \/ DropDatabase(c)
    \/ DropRole(c)
    \/ VerifyDatabase(c) \/ VerifyRole(c)

Next ==
    \/ \E c \in Clients :
           \/ \E op \in ManagerOperations : Call(c, op)
           \/ Lock(c) \/ Unlock(c)
           \/ EnsureStep(c) \/ RemoveStep(c)
           \/ StatementFails(c) \/ Crash(c)
    \/ ExternalRole \/ ExternalDatabase

Spec == Init /\ [][Next]_vars

-----------------------------------------------------------------------------
\* The session is between pg_advisory_lock and pg_advisory_unlock.
Inside(c) == client[c].pc \notin {"idle", "locking"}

\* Types; and a session inside an operation is the one that holds the lock.
TypeOK ==
    /\ role \in Roles
    /\ database \in Databases
    /\ lock \in Clients \cup {NoClient}
    /\ \A c \in Clients : Inside(c) <=> lock = c
    /\ client \in [Clients -> ClientStates]
    /\ lastOid \in 0 .. MaxOid

Ends(c, op, outcome) ==
    At(c, "unlocking") /\ client[c].op = op /\ client[c].outcome = outcome

\* No operation of the manager drops, marks or otherwise changes a role or a
\* database that somebody else created under the project's name, however the
\* reads that looked at it and the statements that act interleave with its
\* creation (the checks before every DDL statement of project_database.py).
ForeignUntouched ==
    [][/\ role.origin = "external" => role' = role
       /\ database.origin = "external" => database' = database]_vars

\* A database that carries Conductor's mark has a marked owner: ensure_database
\* never adopts a database, or a role to own one, that is not the project's, and
\* the role outlives the database.
MarkedDatabaseHasOwner ==
    database.comment = "ours" => database.owner = "project" /\ role.comment = "ours"

\* When ensure_role or ensure_database returns, before its lock is released, the
\* object is there and marked: what the provisioner then records is true.
EnsuredIsThere ==
    \A c \in Clients :
        /\ Ends(c, "ensure_role", "ok") => OwnedRole(role)
        /\ Ends(c, "ensure_database", "ok") => OwnedDatabase(database) /\ OwnedRole(role)

\* When verify_absent answers True nothing that Conductor created is left, not
\* even a database that was never marked.
VerifiedAbsent ==
    \A c \in Clients :
        Ends(c, "verify_absent", "ok") =>
            role.origin # "conductor" /\ database.origin # "conductor"

\* Somebody else's object, or a database that Conductor created and whose
\* creator is gone without having marked it.
ForeignPresent == "external" \in {role.origin, database.origin}
Leftover ==
    /\ database.origin = "conductor" /\ database.comment = "none"
    /\ \A c \in Clients : client[c].pc \notin MarkingPcs

\* A conflict, a permanent error that fails the operation of the project, is
\* never the effect of another client at work: what looks foreign is foreign, or
\* was left behind by a client that died (or, for ensure_database, the role was
\* not created before).
ConflictIsReal ==
    \A c \in Clients : \A op \in ManagerOperations :
        Ends(c, op, "conflict") =>
            ForeignPresent \/ Leftover \/ (op = "ensure_database" /\ role = NoRole)

\* Only drop_database drops a marked database: the compensation of a failed
\* ensure_database never does, though its COMMENT may have taken effect.
MarkedDroppedOnPurpose ==
    [][database.comment = "ours" /\ database' = NoDatabase =>
           \E c \in Clients : client[c].op = "drop_database" /\ At(c, "dropDatabase")]_vars

\* "Resume from observable state; each repeated step converges on one identity"
\* (compose_provisioner.py:236): where nobody else took the names and the role
\* exists, ensure_database does not refuse.
EnsureConverges ==
    \A c \in Clients :
        Ends(c, "ensure_database", "conflict") => ForeignPresent \/ role = NoRole
=============================================================================
