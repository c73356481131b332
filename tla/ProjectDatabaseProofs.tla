------------------------ MODULE ProjectDatabaseProofs ------------------------
(***************************************************************************)
(* Theorems of ProjectDatabase: what the manager promises about its own    *)
(* and about foreign roles and databases, for any number of clients.       *)
(*                                                                         *)
(* The argument.  The lock leaves one session inside an operation, so what *)
(* a session knows about the catalog from the statements it has executed   *)
(* (SessionOK) can be disturbed by external creations only, and these need *)
(* a name that is free.  CatalogOK says how mark, origin and ownership go  *)
(* together; it is what makes "marked" mean "ours".                        *)
(***************************************************************************)
EXTENDS ProjectDatabase, TLAPS

\* Which operation executes which statements.
OperationOK(k) ==
    /\ k.pc = "locking" => k.op # "none"
    /\ k.pc \in {"readRole", "createRole"} => k.op = "ensure_role"
    /\ k.pc \in MarkingPcs \cup {"readOwner", "readDatabase", "recheckOwner", "createDatabase"}
           => k.op = "ensure_database"
    /\ k.pc \in {"readToDrop", "confirmDrop", "dropDatabase"} => k.op = "drop_database"
    /\ k.pc = "dropRole" => k.op = "drop_role"
    /\ k.pc \in {"verifyDatabase", "verifyRole"} => k.op = "verify_absent"

\* A session k has created the database d that is now in the catalog.
Created(d) == d.origin = "conductor" /\ d.owner = "project"

\* What a session k inside its operation knows of the role r and the database d.
SessionOK(k, r, d) ==
    /\ k.pc \in {"readDatabase", "recheckOwner", "createDatabase"} => OwnedRole(r)
    /\ k.pc \in {"readDatabase", "recheckOwner"} => r = k.role
    /\ k.pc \in {"readCreated", "comment", "compensateDrop"} => Created(d) /\ d.comment = "none"
    /\ k.pc = "comment" => d = k.database
    /\ k.pc = "compensate" => Created(d) /\ k.database.comment = "none"
    /\ k.pc = "verify" =>
           /\ Created(d) /\ d.comment = "ours"
           /\ d.oid = k.database.oid
    /\ k.pc \in {"confirmDrop", "dropDatabase"} => OwnedDatabase(d)
    /\ k.pc = "confirmDrop" => d = k.database
    /\ k.pc = "verifyRole" =>
           IF k.database = NoDatabase THEN d.origin # "conductor" ELSE d = k.database

\* What made a session refuse: a foreign object, a database that its creator left
\* unmarked, or the lack of a role to own the database.
Refusable(op, r, d) ==
    \/ "external" \in {r.origin, d.origin}
    \/ d.origin = "conductor" /\ d.comment = "none"
    \/ op = "ensure_database" /\ r = NoRole

\* What a session knows that has just finished.
FinishedOK(k, r, d) ==
    /\ k.pc = "unlocking" /\ k.outcome = "ok" =>
           /\ k.op = "ensure_role" => OwnedRole(r)
           /\ k.op = "ensure_database" => OwnedDatabase(d) /\ OwnedRole(r)
           /\ k.op = "verify_absent" => r.origin # "conductor" /\ d.origin # "conductor"
    /\ k.pc = "unlocking" /\ k.outcome = "conflict" => Refusable(k.op, r, d)

\* Conductor's objects are marked, except a database that is being created or
\* was left behind; a database of Conductor's has a marked owner.
CatalogOK ==
    /\ role.comment = "ours" <=> role.origin = "conductor"
    /\ database.comment = "ours" => database.origin = "conductor"
    /\ database.origin = "conductor" =>
           /\ database.owner = "project" /\ database.comment # "other"
           /\ OwnedRole(role)

SessionsOK ==
    \A c \in Clients :
        /\ OperationOK(client[c])
        /\ SessionOK(client[c], role, database)
        /\ FinishedOK(client[c], role, database)

IInv == TypeOK /\ CatalogOK /\ SessionsOK

-----------------------------------------------------------------------------
\* The lock leaves every other client outside.
LEMMA Alone ==
    ASSUME TypeOK, NEW c \in Clients, Inside(c), NEW d \in Clients, d # c
    PROVE  client[d].pc \in {"idle", "locking"}
BY DEF TypeOK, Inside

\* A client outside an operation knows nothing.
LEMMA Outside ==
    ASSUME NEW k, k.pc \in {"idle", "locking"}, NEW r, NEW d
    PROVE  /\ SessionOK(k, r, d) /\ FinishedOK(k, r, d)
           /\ k.pc = "idle" \/ k.op # "none" => OperationOK(k)
BY DEF OperationOK, SessionOK, FinishedOK, MarkingPcs

LEMMA InitIInv == Init => IInv
<1> SUFFICES ASSUME Init PROVE IInv
    OBVIOUS
<1>1. TypeOK
    BY NoClientAssumption, MaxOidAssumption
    DEF Init, TypeOK, Roles, Databases, Inside, ClientStates, Resting, Pcs, Outcomes
<1>2. CatalogOK
    BY DEF Init, CatalogOK, NoRole, NoDatabase
<1>3. SessionsOK
    BY Outside DEF Init, SessionsOK, Resting
<1> QED BY <1>1, <1>2, <1>3 DEF IInv

\* The fields of a client's record.
LEMMA ClientFields ==
    ASSUME TypeOK, NEW c \in Clients
    PROVE  /\ client[c].pc \in Pcs /\ client[c].op \in ManagerOperations \cup {"none"}
           /\ client[c].role \in Roles /\ client[c].database \in Databases
           /\ client[c].outcome \in Outcomes
           /\ client[c] \in ClientStates
BY DEF TypeOK, ClientStates

\* Client c changes its own record only.
OnlyClient(c) ==
    /\ client' \in [Clients -> ClientStates]
    /\ \A d \in Clients \ {c} : client'[d] = client[d]

\* c executes a statement under the lock: only its own facts, and those about the
\* catalog, have to be shown again.
LEMMA StatementStep ==
    ASSUME IInv, NEW c \in Clients, Inside(c), OnlyClient(c), lock' = lock,
           client'[c].pc \notin {"idle", "locking"},
           role' \in Roles, database' \in Databases, lastOid' \in 0 .. MaxOid,
           CatalogOK',
           OperationOK(client'[c]), SessionOK(client'[c], role', database'),
           FinishedOK(client'[c], role', database')
    PROVE  IInv'
<1>1. TypeOK'
    BY DEF IInv, TypeOK, Inside, OnlyClient
<1>2. ASSUME NEW d \in Clients
      PROVE  /\ OperationOK(client'[d]) /\ SessionOK(client'[d], role', database')
             /\ FinishedOK(client'[d], role', database')
    <2>1. CASE d = c
        BY <2>1
    <2>2. CASE d # c
        BY <2>2, Alone, Outside DEF IInv, OnlyClient, SessionsOK
    <2> QED BY <2>1, <2>2
<1> QED BY <1>1, <1>2 DEF IInv, SessionsOK

\* The same for a statement that only reads.
LEMMA ReadingStep ==
    ASSUME IInv, NEW c \in Clients, Inside(c), OnlyClient(c),
           UNCHANGED <<role, database, lock, lastOid>>,
           client'[c].pc \notin {"idle", "locking"},
           OperationOK(client'[c]), SessionOK(client'[c], role, database),
           FinishedOK(client'[c], role, database)
    PROVE  IInv'
<1>1. CatalogOK'
    BY DEF IInv, CatalogOK, OwnedRole
<1> QED BY <1>1, StatementStep DEF IInv, TypeOK

\* GoTo and End change one client's record, and of that the program point and,
\* for End, the outcome.
LEMMA GoToEffect ==
    ASSUME TypeOK, NEW c \in Clients, NEW pc \in Pcs, GoTo(c, pc)
    PROVE  /\ OnlyClient(c)
           /\ client'[c].pc = pc /\ client'[c].op = client[c].op
           /\ client'[c].database = client[c].database /\ client'[c].role = client[c].role
BY ClientFields DEF GoTo, OnlyClient, TypeOK, ClientStates

LEMMA EndEffect ==
    ASSUME TypeOK, NEW c \in Clients, NEW outcome \in Outcomes, End(c, outcome)
    PROVE  /\ OnlyClient(c)
           /\ client'[c].pc = "unlocking" /\ client'[c].op = client[c].op
           /\ client'[c].outcome = outcome
BY ClientFields DEF End, OnlyClient, TypeOK, ClientStates, Pcs

\* An object that is there and is not Conductor's is foreign or was left unmarked.
LEMMA Foreign ==
    ASSUME TypeOK, CatalogOK
    PROVE  /\ role # NoRole /\ ~OwnedRole(role) => role.origin = "external"
           /\ database # NoDatabase /\ ~OwnedDatabase(database) =>
                  \/ database.origin = "external"
                  \/ database.origin = "conductor" /\ database.comment = "none"
BY DEF TypeOK, CatalogOK, OwnedRole, OwnedDatabase, Roles, Databases, Origins, Comments

\* An operation that is refused or fails knows nothing any more, but that it was
\* right to refuse.
LEMMA EndRefused ==
    ASSUME IInv, NEW c \in Clients, Inside(c), UNCHANGED <<role, database, lock, lastOid>>,
           NEW outcome \in Outcomes \ {"ok"}, End(c, outcome),
           OperationOK(client[c]),
           outcome = "conflict" => Refusable(client[c].op, role, database)
    PROVE  IInv'
BY EndEffect, ReadingStep DEF IInv, OperationOK, SessionOK, FinishedOK, MarkingPcs

-----------------------------------------------------------------------------
\* The steps of ensure_role.
LEMMA EnsureRoleIInv ==
    ASSUME IInv, NEW c \in Clients, ReadRole(c) \/ CreateRole(c)
    PROVE  IInv'
<1> USE DEF IInv
<1> DEFINE K == client[c]
<1>0. OperationOK(K) /\ SessionOK(K, role, database) /\ FinishedOK(K, role, database)
    BY DEF SessionsOK
<1>1. Inside(c) /\ K.op = "ensure_role"
    BY <1>0 DEF ReadRole, CreateRole, At, Inside, OperationOK
<1>2. CASE ReadRole(c)
    <2>1. UNCHANGED <<role, database, lock, lastOid>>
        BY <1>2 DEF ReadRole
    <2>2. CASE GoTo(c, "createRole")
        BY <1>1, <2>1, <2>2, GoToEffect, ReadingStep
        DEF Pcs, StatementPcs, OperationOK, SessionOK, FinishedOK, MarkingPcs
    <2>3. CASE End(c, "ok") /\ OwnedRole(role)
        BY <1>1, <2>1, <2>3, EndEffect, ReadingStep
        DEF Outcomes, OperationOK, SessionOK, FinishedOK, MarkingPcs
    <2>4. CASE End(c, "conflict") /\ role # NoRole /\ ~OwnedRole(role)
        BY <1>0, <1>1, <2>1, <2>4, Foreign, EndRefused DEF Outcomes, Refusable
    <2> QED BY <1>2, <2>2, <2>3, <2>4 DEF ReadRole
<1>3. CASE CreateRole(c)
    <2>1. UNCHANGED <<database, lock>>
        BY <1>3 DEF CreateRole
    <2>2. CASE role = NoRole
        <3>1. /\ lastOid' \in Oids /\ End(c, "ok")
              /\ role' = [oid |-> lastOid', comment |-> "ours", origin |-> "conductor"]
            BY <1>3, <2>2, MaxOidAssumption DEF CreateRole, TypeOK, Oids
        <3>2. role' \in Roles /\ lastOid' \in 0 .. MaxOid
            BY <3>1 DEF Roles, Comments, Origins, Oids
        <3>3. OwnedRole(role')
            BY <3>1 DEF OwnedRole, NoRole
        <3>4. CatalogOK'
            BY <2>1, <3>1, <3>3 DEF CatalogOK, OwnedRole
        <3>5. /\ OperationOK(client'[c]) /\ SessionOK(client'[c], role', database')
              /\ FinishedOK(client'[c], role', database')
            BY <1>1, <3>1, <3>3, EndEffect
            DEF Outcomes, OperationOK, SessionOK, FinishedOK, MarkingPcs
        <3> QED BY <1>1, <2>1, <3>1, <3>2, <3>4, <3>5, EndEffect, StatementStep
                DEF Outcomes, TypeOK
    <2>3. CASE role # NoRole
        BY <1>0, <1>1, <1>3, <2>3, EndRefused DEF CreateRole, Outcomes
    <2> QED BY <2>2, <2>3
<1> QED BY <1>2, <1>3

\* The statements of ensure_database up to CREATE DATABASE.
LEMMA EnsureDatabaseIInv ==
    ASSUME IInv, NEW c \in Clients,
           ReadOwner(c) \/ ReadDatabase(c) \/ RecheckOwner(c) \/ CreateDatabase(c)
    PROVE  IInv'
<1> USE DEF IInv
<1> DEFINE K == client[c]
<1>0. OperationOK(K) /\ SessionOK(K, role, database) /\ FinishedOK(K, role, database)
    BY DEF SessionsOK
<1>1. Inside(c) /\ K.op = "ensure_database"
    BY <1>0 DEF ReadOwner, ReadDatabase, RecheckOwner, CreateDatabase, At, Inside, OperationOK
<1>2. CASE ReadOwner(c)
    <2>1. UNCHANGED <<role, database, lock, lastOid>>
        BY <1>2 DEF ReadOwner
    <2>2. CASE OwnedRole(role)
        <3>1. /\ OnlyClient(c)
              /\ client'[c].pc = "readDatabase" /\ client'[c].op = "ensure_database"
              /\ client'[c].role = role
            BY <1>1, <1>2, <2>2, ClientFields
            DEF ReadOwner, OnlyClient, TypeOK, ClientStates, Pcs, StatementPcs
        <3> QED BY <1>1, <2>1, <2>2, <3>1, ReadingStep
                DEF OperationOK, SessionOK, FinishedOK, MarkingPcs
    <2>3. CASE ~OwnedRole(role)
        BY <1>0, <1>1, <1>2, <2>1, <2>3, Foreign, EndRefused DEF ReadOwner, Outcomes, Refusable
    <2> QED BY <2>2, <2>3
<1>3. CASE ReadDatabase(c)
    <2>1. UNCHANGED <<role, database, lock, lastOid>> /\ OwnedRole(role) /\ role = K.role
        BY <1>0, <1>3 DEF ReadDatabase, At, SessionOK
    <2>2. CASE GoTo(c, "recheckOwner")
        BY <1>1, <2>1, <2>2, GoToEffect, ReadingStep
        DEF Pcs, StatementPcs, OperationOK, SessionOK, FinishedOK, MarkingPcs
    <2>3. CASE End(c, "ok") /\ OwnedDatabase(database)
        BY <1>1, <2>1, <2>3, EndEffect, ReadingStep
        DEF Outcomes, OperationOK, SessionOK, FinishedOK, MarkingPcs
    <2>4. CASE End(c, "conflict") /\ database # NoDatabase /\ ~OwnedDatabase(database)
        BY <1>0, <1>1, <2>1, <2>4, Foreign, EndRefused DEF Outcomes, Refusable
    <2> QED BY <1>3, <2>2, <2>3, <2>4 DEF ReadDatabase
<1>4. CASE RecheckOwner(c)
    <2>1. /\ UNCHANGED <<role, database, lock, lastOid>> /\ OwnedRole(role)
          /\ SameRole(K.role)
        BY <1>0, <1>4 DEF RecheckOwner, At, SessionOK, SameRole, OwnedRole
    <2>2. GoTo(c, "createDatabase")
        BY <1>4, <2>1 DEF RecheckOwner
    <2> QED BY <1>1, <2>1, <2>2, GoToEffect, ReadingStep
            DEF Pcs, StatementPcs, OperationOK, SessionOK, FinishedOK, MarkingPcs
<1>5. CASE CreateDatabase(c)
    <2>1. UNCHANGED <<role, lock>> /\ OwnedRole(role)
        BY <1>0, <1>5 DEF CreateDatabase, At, SessionOK
    <2>2. CASE database = NoDatabase /\ role # NoRole
        <3>1. /\ lastOid' \in Oids /\ GoTo(c, "readCreated")
              /\ database' = [oid |-> lastOid', owner |-> "project", comment |-> "none",
                              origin |-> "conductor"]
            BY <1>5, <2>2, MaxOidAssumption DEF CreateDatabase, TypeOK, Oids
        <3>2. database' \in Databases /\ lastOid' \in 0 .. MaxOid
            BY <3>1 DEF Databases, Comments, Origins, Oids
        <3>3. CatalogOK'
            BY <2>1, <3>1 DEF CatalogOK, OwnedRole
        <3>4. /\ OperationOK(client'[c]) /\ SessionOK(client'[c], role', database')
              /\ FinishedOK(client'[c], role', database')
            BY <1>1, <3>1, GoToEffect
            DEF Pcs, StatementPcs, OperationOK, SessionOK, FinishedOK, MarkingPcs, Created
        <3> QED BY <1>1, <2>1, <3>1, <3>2, <3>3, <3>4, GoToEffect, StatementStep
                DEF Pcs, StatementPcs, MarkingPcs, TypeOK
    <2>3. CASE ~(database = NoDatabase /\ role # NoRole)
        BY <1>0, <1>1, <1>5, <2>3, EndRefused DEF CreateDatabase, Outcomes
    <2> QED BY <2>2, <2>3
<1> QED BY <1>2, <1>3, <1>4, <1>5

\* The statements of ensure_database that mark the new database or drop it.
LEMMA MarkIInv ==
    ASSUME IInv, NEW c \in Clients,
           \/ ReadCreated(c) \/ CommentDatabase(c) \/ VerifyMarked(c)
           \/ Compensate(c) \/ CompensateDrop(c)
    PROVE  IInv'
<1> USE DEF IInv
<1> DEFINE K == client[c]
<1>0. OperationOK(K) /\ SessionOK(K, role, database) /\ FinishedOK(K, role, database)
    BY DEF SessionsOK
<1>1. Inside(c) /\ K.op = "ensure_database"
    BY <1>0 DEF ReadCreated, CommentDatabase, VerifyMarked, Compensate, CompensateDrop,
                At, Inside, OperationOK, MarkingPcs
<1>2. CASE ReadCreated(c)
    <2>1. /\ UNCHANGED <<role, database, lock, lastOid>>
          /\ Created(database) /\ database.comment = "none"
        BY <1>0, <1>2 DEF ReadCreated, At, SessionOK
    <2>2. /\ OnlyClient(c) /\ client'[c].database = database
          /\ client'[c].pc = "comment" /\ client'[c].op = "ensure_database"
        BY <1>1, <1>2, <2>1, ClientFields
        DEF ReadCreated, OnlyClient, TypeOK, ClientStates, Pcs, StatementPcs, MarkingPcs, Created
    <2> QED BY <1>1, <2>1, <2>2, ReadingStep
            DEF OperationOK, SessionOK, FinishedOK, MarkingPcs
<1>3. CASE CommentDatabase(c)
    <2>1. /\ UNCHANGED <<role, lock, lastOid>> /\ database = K.database
          /\ Created(database) /\ database.comment = "none" /\ database # NoDatabase
        BY <1>0, <1>3 DEF CommentDatabase, At, SessionOK, Created, NoDatabase
    <2>2. database' = [database EXCEPT !.comment = "ours"]
        BY <1>3, <2>1 DEF CommentDatabase
    <2>3. /\ database' \in Databases /\ database'.comment = "ours"
          /\ database'.owner = database.owner /\ database'.origin = database.origin
          /\ database'.oid = database.oid
        BY <2>1, <2>2 DEF TypeOK, Databases, Comments
    <2>4. CatalogOK'
        BY <2>1, <2>3 DEF CatalogOK, OwnedRole, Created
    <2>5. ASSUME NEW next \in {"verify", "compensate"}, GoTo(c, next)
          PROVE  IInv'
        <3>1. /\ OnlyClient(c) /\ client'[c].pc = next /\ client'[c].op = "ensure_database"
              /\ client'[c].database = K.database
            BY <1>1, <2>5, GoToEffect DEF Pcs, StatementPcs, MarkingPcs
        <3>2. /\ OperationOK(client'[c]) /\ SessionOK(client'[c], role', database')
              /\ FinishedOK(client'[c], role', database')
            BY <2>1, <2>3, <3>1 DEF OperationOK, SessionOK, FinishedOK, MarkingPcs, Created
        <3> QED BY <1>1, <2>1, <2>3, <2>4, <3>1, <3>2, StatementStep DEF TypeOK
    <2> QED BY <1>3, <2>1, <2>5 DEF CommentDatabase
<1>4. CASE VerifyMarked(c)
    <2>1. /\ UNCHANGED <<role, lock, lastOid>> /\ OwnedDatabase(database)
          /\ database.oid = K.database.oid /\ OwnedRole(role)
        BY <1>0, <1>4 DEF VerifyMarked, At, SessionOK, Created, OwnedDatabase, NoDatabase, CatalogOK
    <2>2. End(c, "ok") /\ UNCHANGED database
        BY <1>4, <2>1 DEF VerifyMarked
    <2> QED BY <1>1, <2>1, <2>2, EndEffect, ReadingStep
            DEF Outcomes, OperationOK, SessionOK, FinishedOK, MarkingPcs
<1>5. CASE Compensate(c)
    <2>1. /\ UNCHANGED <<role, database, lock, lastOid>>
          /\ Created(database) /\ K.database.comment = "none"
        BY <1>0, <1>5 DEF Compensate, At, SessionOK
    <2>2. CASE SameDatabase(K.database)
        <3>1. GoTo(c, "compensateDrop") /\ database.comment = "none"
            BY <1>5, <2>1, <2>2 DEF Compensate, SameDatabase
        <3> QED BY <1>1, <2>1, <3>1, GoToEffect, ReadingStep
                DEF Pcs, StatementPcs, OperationOK, SessionOK, FinishedOK, MarkingPcs
    <2>3. CASE ~SameDatabase(K.database)
        BY <1>0, <1>1, <1>5, <2>3, EndRefused DEF Compensate, Outcomes
    <2> QED BY <2>2, <2>3
<1>6. CASE CompensateDrop(c)
    <2>1. UNCHANGED <<role, lock, lastOid>> /\ database' = NoDatabase /\ End(c, "error")
        BY <1>6 DEF CompensateDrop
    <2>2. CatalogOK' /\ database' \in Databases
        BY <2>1 DEF CatalogOK, NoDatabase, Databases
    <2>3. /\ OperationOK(client'[c]) /\ SessionOK(client'[c], role', database')
          /\ FinishedOK(client'[c], role', database')
        BY <1>1, <2>1, EndEffect
        DEF Outcomes, OperationOK, SessionOK, FinishedOK, MarkingPcs
    <2> QED BY <1>1, <2>1, <2>2, <2>3, EndEffect, StatementStep DEF Outcomes, TypeOK
<1> QED BY <1>2, <1>3, <1>4, <1>5, <1>6

\* The steps of drop_database, drop_role and verify_absent.
LEMMA RemoveIInv ==
    ASSUME IInv, NEW c \in Clients, RemoveStep(c)
    PROVE  IInv'
<1> USE DEF IInv
<1> DEFINE K == client[c]
<1>0. OperationOK(K) /\ SessionOK(K, role, database) /\ FinishedOK(K, role, database)
    BY DEF SessionsOK
<1>1. Inside(c)
    BY DEF RemoveStep, ReadToDrop, ConfirmDrop, DropDatabase, DropRole, VerifyDatabase,
           VerifyRole, At, Inside
<1>2. CASE ReadToDrop(c)
    <2>1. UNCHANGED <<role, database, lock, lastOid>> /\ K.op = "drop_database"
        BY <1>0, <1>2 DEF ReadToDrop, At, OperationOK
    <2>2. CASE End(c, "ok")
        BY <1>1, <2>1, <2>2, EndEffect, ReadingStep
        DEF Outcomes, OperationOK, SessionOK, FinishedOK, MarkingPcs
    <2>3. CASE /\ OwnedDatabase(database)
               /\ client' = [client EXCEPT ![c].pc = "confirmDrop", ![c].database = database]
        <3>1. /\ OnlyClient(c)
              /\ client'[c].pc = "confirmDrop" /\ client'[c].op = "drop_database"
              /\ client'[c].database = database
            BY <2>1, <2>3, ClientFields
            DEF OnlyClient, TypeOK, ClientStates, Pcs, StatementPcs
        <3> QED BY <1>1, <2>1, <2>3, <3>1, ReadingStep
                DEF OperationOK, SessionOK, FinishedOK, MarkingPcs
    <2>4. CASE End(c, "conflict") /\ database # NoDatabase /\ ~OwnedDatabase(database)
        BY <1>0, <1>1, <2>1, <2>4, Foreign, EndRefused DEF Outcomes, Refusable
    <2> QED BY <1>2, <2>2, <2>3, <2>4 DEF ReadToDrop
<1>3. CASE ConfirmDrop(c)
    <2>1. /\ UNCHANGED <<role, database, lock, lastOid>> /\ K.op = "drop_database"
          /\ OwnedDatabase(database) /\ SameDatabase(K.database)
        BY <1>0, <1>3 DEF ConfirmDrop, At, OperationOK, SessionOK, SameDatabase, OwnedDatabase
    <2>2. GoTo(c, "dropDatabase")
        BY <1>3, <2>1 DEF ConfirmDrop
    <2> QED BY <1>1, <2>1, <2>2, GoToEffect, ReadingStep
            DEF Pcs, StatementPcs, OperationOK, SessionOK, FinishedOK, MarkingPcs
<1>4. CASE DropDatabase(c)
    <2>1. /\ UNCHANGED <<role, lock, lastOid>> /\ database' = NoDatabase
          /\ K.op = "drop_database"
        BY <1>0, <1>4 DEF DropDatabase, At, OperationOK
    <2>2. PICK outcome \in {"ok", "error"} : End(c, outcome)
        BY <1>4 DEF DropDatabase
    <2>3. CatalogOK' /\ database' \in Databases
        BY <2>1 DEF CatalogOK, NoDatabase, Databases
    <2>4. /\ OperationOK(client'[c]) /\ SessionOK(client'[c], role', database')
          /\ FinishedOK(client'[c], role', database')
        BY <2>1, <2>2, EndEffect
        DEF Outcomes, OperationOK, SessionOK, FinishedOK, MarkingPcs
    <2> QED BY <1>1, <2>1, <2>2, <2>3, <2>4, EndEffect, StatementStep DEF TypeOK, Outcomes
<1>5. CASE DropRole(c)
    <2>1. UNCHANGED <<database, lock, lastOid>> /\ K.op = "drop_role"
        BY <1>0, <1>5 DEF DropRole, At, OperationOK
    <2>2. CASE UNCHANGED role /\ (End(c, "ok") \/ End(c, "error"))
        BY <1>1, <2>1, <2>2, EndEffect, ReadingStep
        DEF Outcomes, OperationOK, SessionOK, FinishedOK, MarkingPcs
    <2>4. CASE UNCHANGED role /\ End(c, "conflict") /\ role # NoRole /\ ~OwnedRole(role)
        BY <1>0, <1>1, <2>1, <2>4, Foreign, EndRefused DEF Outcomes, Refusable
    <2>3. CASE role' = NoRole /\ database.owner # "project" /\ End(c, "ok")
        <3>2. CatalogOK'
            BY <2>1, <2>3 DEF CatalogOK, NoRole
        <3>3. /\ OperationOK(client'[c]) /\ SessionOK(client'[c], role', database')
              /\ FinishedOK(client'[c], role', database')
            BY <2>1, <2>3, EndEffect
            DEF Outcomes, OperationOK, SessionOK, FinishedOK, MarkingPcs
        <3> QED BY <1>1, <2>1, <2>3, <3>2, <3>3, EndEffect, StatementStep
                DEF Outcomes, Roles, TypeOK
    <2> QED BY <1>5, <2>2, <2>3, <2>4 DEF DropRole
<1>6. CASE VerifyDatabase(c)
    <2>1. /\ UNCHANGED <<role, database, lock, lastOid>> /\ OnlyClient(c)
          /\ client'[c].pc = "verifyRole" /\ client'[c].op = "verify_absent"
          /\ client'[c].database = database
        BY <1>0, <1>6, ClientFields
        DEF VerifyDatabase, At, OnlyClient, OperationOK, TypeOK, ClientStates, Pcs, StatementPcs
    <2> QED BY <1>1, <2>1, ReadingStep
            DEF OperationOK, SessionOK, FinishedOK, MarkingPcs, NoDatabase
<1>7. CASE VerifyRole(c)
    <2>1. /\ UNCHANGED <<role, database, lock, lastOid>> /\ K.op = "verify_absent"
          /\ IF K.database = NoDatabase THEN database.origin # "conductor"
             ELSE database = K.database
        BY <1>0, <1>7 DEF VerifyRole, At, OperationOK, SessionOK
    <2>2. CASE End(c, "present")
        BY <1>0, <1>1, <2>1, <2>2, EndRefused DEF Outcomes
    <2>4. CASE /\ End(c, "conflict")
               /\ \/ K.database # NoDatabase /\ ~OwnedDatabase(K.database)
                  \/ role # NoRole /\ ~OwnedRole(role)
        BY <1>0, <1>1, <2>1, <2>4, Foreign, EndRefused DEF Outcomes, Refusable
    <2>3. CASE End(c, "ok") /\ K.database = NoDatabase /\ role = NoRole
        BY <1>1, <2>1, <2>3, EndEffect, ReadingStep
        DEF Outcomes, OperationOK, SessionOK, FinishedOK, MarkingPcs, NoRole
    <2> QED BY <1>7, <2>2, <2>3, <2>4 DEF VerifyRole
<1> QED BY <1>2, <1>3, <1>4, <1>5, <1>6, <1>7 DEF RemoveStep

\* The steps of the session itself: its start, its lock and its ends.
LEMMA SessionIInv ==
    ASSUME IInv, NEW c \in Clients,
           \/ \E op \in ManagerOperations : Call(c, op)
           \/ Lock(c) \/ Unlock(c) \/ StatementFails(c) \/ Crash(c)
    PROVE  IInv'
<1> USE DEF IInv
<1> DEFINE K == client[c]
<1>0. OperationOK(K) /\ SessionOK(K, role, database) /\ FinishedOK(K, role, database)
    BY DEF SessionsOK
<1>1. ASSUME NEW op \in ManagerOperations, Call(c, op)
      PROVE  IInv'
    <2>1. /\ OnlyClient(c) /\ client'[c].pc = "locking" /\ client'[c].op = op
          /\ UNCHANGED <<role, database, lock, lastOid>> /\ K.pc = "idle"
        BY <1>1 DEF Call, At, OnlyClient, TypeOK, ClientStates, Resting, Pcs, Roles,
                    Databases, Outcomes
    <2>2. TypeOK'
        BY <2>1 DEF TypeOK, Inside, OnlyClient
    <2>3. CatalogOK'
        BY <2>1 DEF CatalogOK, OwnedRole
    <2>4. OperationOK(client'[c])
        BY <2>1, Outside DEF ManagerOperations
    <2>5. SessionsOK'
        BY <2>1, <2>4, Outside DEF SessionsOK, OnlyClient
    <2> QED BY <2>2, <2>3, <2>5
<1>2. CASE Lock(c)
    <2>1. /\ K.op \in ManagerOperations /\ K.pc = "locking"
          /\ UNCHANGED <<role, database, lastOid>> /\ lock = NoClient /\ lock' = c
        BY <1>2, <1>0, ClientFields DEF Lock, At, OperationOK
    <2>2. PICK pc \in StatementPcs : pc = FirstPc[K.op] /\ GoTo(c, pc)
        BY <1>2, <2>1 DEF Lock, FirstPc, ManagerOperations, StatementPcs
    <2>3. OnlyClient(c) /\ client'[c].pc = pc /\ client'[c].op = K.op
        BY <2>2, GoToEffect DEF Pcs
    <2>4. TypeOK'
        BY <2>1, <2>3, NoClientAssumption
        DEF TypeOK, Inside, OnlyClient, StatementPcs, MarkingPcs
    <2>5. CatalogOK'
        BY <2>1 DEF CatalogOK, OwnedRole
    <2>6. /\ OperationOK(client'[c]) /\ SessionOK(client'[c], role', database')
          /\ FinishedOK(client'[c], role', database')
        BY <2>1, <2>2, <2>3
        DEF FirstPc, ManagerOperations, OperationOK, SessionOK, FinishedOK, MarkingPcs
    <2> QED BY <2>1, <2>3, <2>4, <2>5, <2>6 DEF SessionsOK, OnlyClient
<1>3. CASE Unlock(c) \/ Crash(c)
    <2>1. /\ OnlyClient(c) /\ client'[c].pc = "idle" /\ UNCHANGED <<role, database, lastOid>>
          /\ lock' = IF lock = c THEN NoClient ELSE lock
        BY <1>3 DEF Unlock, Crash, OnlyClient, TypeOK, ClientStates, Resting, Pcs, Roles,
                    Databases, Outcomes
    <2>2. TypeOK'
        BY <2>1, NoClientAssumption DEF TypeOK, Inside, OnlyClient
    <2>3. CatalogOK'
        BY <2>1 DEF CatalogOK, OwnedRole
    <2>4. SessionsOK'
        BY <2>1, Outside DEF SessionsOK, OnlyClient
    <2> QED BY <2>2, <2>3, <2>4
<1>4. CASE StatementFails(c)
    <2>1. Inside(c) /\ UNCHANGED <<role, database, lock, lastOid>>
        BY <1>4 DEF StatementFails, Inside, StatementPcs, MarkingPcs
    <2>2. CASE At(c, "comment")
        <3>1. /\ GoTo(c, "compensate") /\ K.op = "ensure_database" /\ Created(database)
              /\ K.database.comment = "none"
            BY <1>0, <1>4, <2>2 DEF StatementFails, At, OperationOK, SessionOK, MarkingPcs
        <3> QED BY <2>1, <3>1, GoToEffect, ReadingStep
                DEF Pcs, StatementPcs, OperationOK, SessionOK, FinishedOK, MarkingPcs
    <2>3. CASE ~At(c, "comment")
        BY <1>0, <1>4, <2>1, <2>3, EndRefused DEF StatementFails, Outcomes
    <2> QED BY <2>2, <2>3
<1> QED BY <1>1, <1>2, <1>3, <1>4

\* Somebody else takes a name that is free.
LEMMA ExternalIInv ==
    ASSUME IInv, ExternalRole \/ ExternalDatabase
    PROVE  IInv'
<1> USE DEF IInv
<1>1. CASE ExternalRole
    <2>1. PICK comment \in {"none", "other"} :
              role' = [oid |-> lastOid', comment |-> comment, origin |-> "external"]
        BY <1>1 DEF ExternalRole
    <2>2. /\ UNCHANGED <<database, lock, client>> /\ lastOid' \in Oids
          /\ role = NoRole
        BY <1>1, MaxOidAssumption DEF ExternalRole, TypeOK, Oids
    <2>3. TypeOK'
        BY <2>1, <2>2 DEF TypeOK, Roles, Comments, Origins, Oids, Inside
    <2>4. /\ ~OwnedRole(role) /\ ~OwnedRole(role')
          /\ role'.comment # "ours" /\ role'.origin = "external"
        BY <2>1, <2>2 DEF OwnedRole
    <2>5. CatalogOK'
        BY <2>2, <2>4 DEF CatalogOK, OwnedRole
    <2>6. \A c \in Clients : SessionOK(client[c], role', database')
        BY <2>2, <2>4 DEF SessionsOK, SessionOK
    <2>7. \A c \in Clients : FinishedOK(client[c], role', database')
        BY <2>2, <2>4 DEF SessionsOK, FinishedOK, Refusable
    <2>8. SessionsOK'
        BY <2>2, <2>6, <2>7 DEF SessionsOK
    <2> QED BY <2>3, <2>5, <2>8
<1>2. CASE ExternalDatabase
    <2>1. PICK comment \in {"none", "other"}, owner \in {"other", "project"} :
              database' = [oid |-> lastOid', owner |-> owner, comment |-> comment,
                           origin |-> "external"]
        BY <1>2 DEF ExternalDatabase
    <2>2. /\ UNCHANGED <<role, lock, client>> /\ lastOid' \in Oids
          /\ database = NoDatabase
        BY <1>2, MaxOidAssumption DEF ExternalDatabase, TypeOK, Oids
    <2>3. TypeOK'
        BY <2>1, <2>2 DEF TypeOK, Databases, Comments, Origins, Oids, Inside
    <2>4. /\ ~OwnedDatabase(database) /\ ~Created(database) /\ database.origin # "conductor"
          /\ database'.comment # "ours" /\ database'.origin = "external"
        BY <2>1, <2>2 DEF OwnedDatabase, Created, NoDatabase
    <2>5. CatalogOK'
        BY <2>2, <2>4 DEF CatalogOK, OwnedRole
    <2>6. \A c \in Clients : SessionOK(client[c], role', database')
        BY <2>2, <2>4 DEF SessionsOK, SessionOK
    <2>7. \A c \in Clients : FinishedOK(client[c], role', database')
        BY <2>2, <2>4 DEF SessionsOK, FinishedOK, Refusable
    <2>8. SessionsOK'
        BY <2>2, <2>6, <2>7 DEF SessionsOK
    <2> QED BY <2>3, <2>5, <2>8
<1> QED BY <1>1, <1>2

\* IInv is inductive.
LEMMA StepIInv == IInv /\ [Next]_vars => IInv'
<1> SUFFICES ASSUME IInv, [Next]_vars PROVE IInv'
    OBVIOUS
<1>1. CASE UNCHANGED vars
    BY <1>1 DEF vars, IInv, TypeOK, Inside, CatalogOK, OwnedRole, SessionsOK, SessionOK, FinishedOK
<1>2. ASSUME NEW c \in Clients, EnsureStep(c) PROVE IInv'
    BY <1>2, EnsureRoleIInv, EnsureDatabaseIInv, MarkIInv DEF EnsureStep
<1> QED BY <1>1, <1>2, RemoveIInv, SessionIInv, ExternalIInv DEF Next

\* IInv holds throughout.
THEOREM Invariance == Spec => []IInv
<1> QED BY InitIInv, StepIInv, PTL DEF Spec

\* Types, and the advisory lock: a session inside an operation is its holder, so
\* two operations of one project never overlap.
THEOREM TypeCorrect == Spec => []TypeOK
<1>1. IInv => TypeOK
  BY DEF IInv
<1> QED BY <1>1, Invariance, PTL

\* A database marked as the project's is owned by the project's marked role.
THEOREM MarkImpliesOwner == Spec => []MarkedDatabaseHasOwner
<1>1. IInv => MarkedDatabaseHasOwner
  BY DEF IInv, CatalogOK, OwnedRole, MarkedDatabaseHasOwner
<1> QED BY <1>1, Invariance, PTL

\* What ensure_role and ensure_database report is in the catalog.
THEOREM EnsureIsTruthful == Spec => []EnsuredIsThere
<1>1. IInv => EnsuredIsThere
  BY DEF IInv, SessionsOK, FinishedOK, EnsuredIsThere, Ends, At
<1> QED BY <1>1, Invariance, PTL

\* A positive answer of verify_absent means that nothing of Conductor's is left.
THEOREM VerifyIsTruthful == Spec => []VerifiedAbsent
<1>1. IInv => VerifiedAbsent
  BY DEF IInv, SessionsOK, FinishedOK, VerifiedAbsent, Ends, At
<1> QED BY <1>1, Invariance, PTL

\* A conflict is reported for a reason that is still in the catalog.
THEOREM ConflictsAreReal == Spec => []ConflictIsReal
<1>1. ASSUME IInv, NEW c \in Clients, NEW op \in ManagerOperations, Ends(c, op, "conflict")
      PROVE  ForeignPresent \/ Leftover \/ (op = "ensure_database" /\ role = NoRole)
  <2>1. Refusable(op, role, database) /\ Inside(c) /\ client[c].pc = "unlocking"
    BY <1>1 DEF IInv, SessionsOK, FinishedOK, Ends, At, Inside
  <2>2. \A d \in Clients : client[d].pc \notin MarkingPcs
    BY <1>1, <2>1, Alone DEF IInv, MarkingPcs
  <2> QED BY <2>1, <2>2 DEF Refusable, ForeignPresent, Leftover
<1>2. IInv => ConflictIsReal
  BY <1>1 DEF ConflictIsReal
<1> QED BY <1>2, Invariance, PTL

\* A step that touches an existing role or database is one of four statements,
\* each on an object that is Conductor's.
LEMMA Touching ==
    ASSUME IInv, [Next]_vars
    PROVE  /\ role' # role => role = NoRole \/ OwnedRole(role)
           /\ database' # database =>
                  \/ database = NoDatabase
                  \/ \E c \in Clients :
                        /\ At(c, "comment") \/ At(c, "compensateDrop")
                        /\ Created(database) /\ database.comment = "none"
                  \/ \E c \in Clients :
                        /\ At(c, "dropDatabase") /\ client[c].op = "drop_database"
                        /\ OwnedDatabase(database)
<1>1. CASE UNCHANGED vars
    BY <1>1 DEF vars
<1>2. ASSUME NEW c \in Clients, EnsureStep(c)
      PROVE  /\ role' # role => role = NoRole
             /\ database' # database =>
                    \/ database = NoDatabase
                    \/ /\ At(c, "comment") \/ At(c, "compensateDrop")
                       /\ Created(database) /\ database.comment = "none"
    <2>1. SessionOK(client[c], role, database) /\ CatalogOK
        BY DEF IInv, SessionsOK
    <2>2. CASE VerifyMarked(c)
        BY <2>1, <2>2 DEF VerifyMarked, At, SessionOK, Created, OwnedDatabase, NoDatabase
    <2>3. CASE CommentDatabase(c) \/ CompensateDrop(c)
        BY <2>1, <2>3 DEF CommentDatabase, CompensateDrop, At, SessionOK
    <2>4. CASE \/ ReadRole(c) \/ CreateRole(c) \/ ReadOwner(c) \/ ReadDatabase(c)
               \/ RecheckOwner(c) \/ CreateDatabase(c) \/ ReadCreated(c) \/ Compensate(c)
        BY <2>4 DEF ReadRole, CreateRole, ReadOwner, ReadDatabase, RecheckOwner,
                    CreateDatabase, ReadCreated, Compensate
    <2> QED BY <1>2, <2>2, <2>3, <2>4 DEF EnsureStep
<1>3. ASSUME NEW c \in Clients, RemoveStep(c)
      PROVE  /\ role' # role => OwnedRole(role)
             /\ database' # database =>
                    /\ At(c, "dropDatabase") /\ client[c].op = "drop_database"
                    /\ OwnedDatabase(database)
    <2>1. SessionOK(client[c], role, database) /\ OperationOK(client[c])
        BY DEF IInv, SessionsOK
    <2>2. CASE DropDatabase(c)
        BY <2>1, <2>2 DEF DropDatabase, At, SessionOK, OperationOK
    <2>3. CASE DropRole(c)
        BY <2>3 DEF DropRole
    <2>4. CASE ReadToDrop(c) \/ ConfirmDrop(c) \/ VerifyDatabase(c) \/ VerifyRole(c)
        BY <2>4 DEF ReadToDrop, ConfirmDrop, VerifyDatabase, VerifyRole
    <2> QED BY <1>3, <2>2, <2>3, <2>4 DEF RemoveStep
<1>4. ASSUME NEW c \in Clients,
             \/ \E op \in ManagerOperations : Call(c, op)
             \/ Lock(c) \/ Unlock(c) \/ StatementFails(c) \/ Crash(c)
      PROVE  UNCHANGED <<role, database>>
    BY <1>4 DEF Call, Lock, Unlock, StatementFails, Crash
<1>5. CASE ExternalRole \/ ExternalDatabase
    BY <1>5 DEF ExternalRole, ExternalDatabase
<1> QED BY <1>1, <1>2, <1>3, <1>4, <1>5 DEF Next

\* Nothing that somebody else created under the project's name is ever changed or
\* dropped.
THEOREM ForeignIsUntouched == Spec => ForeignUntouched
<1>1. IInv /\ [Next]_vars =>
        [/\ role.origin = "external" => role' = role
         /\ database.origin = "external" => database' = database]_vars
  <2> SUFFICES ASSUME IInv, [Next]_vars
               PROVE  /\ role.origin = "external" => role' = role
                      /\ database.origin = "external" => database' = database
    OBVIOUS
  <2>1. OwnedRole(role) => role.origin = "conductor"
    BY DEF IInv, CatalogOK, OwnedRole
  <2>2. OwnedDatabase(database) => database.origin = "conductor"
    BY DEF IInv, CatalogOK, OwnedDatabase
  <2> QED BY <2>1, <2>2, Touching DEF Created, NoRole, NoDatabase
<1> QED BY <1>1, Invariance, PTL DEF Spec, ForeignUntouched

\* A marked database disappears by drop_database only.
THEOREM MarkedIsDroppedOnPurpose == Spec => MarkedDroppedOnPurpose
<1>1. IInv /\ [Next]_vars =>
        [database.comment = "ours" /\ database' = NoDatabase =>
           \E c \in Clients : client[c].op = "drop_database" /\ At(c, "dropDatabase")]_vars
  BY Touching DEF NoDatabase
<1> QED BY <1>1, Invariance, PTL DEF Spec, MarkedDroppedOnPurpose
=============================================================================
