--------------------------- MODULE ProjectAccess ---------------------------
(***************************************************************************)
(* What the handlers of the API share: the rows that say who may do what   *)
(* in one project, the requests in progress, and the gates that a request  *)
(* passes before its handler does anything.                                *)
(*                                                                         *)
(* A handler works in one READ COMMITTED transaction without locking rows: *)
(* each SELECT sees what is committed at that moment, and what it has read *)
(* may be out of date when it goes on.  So each SELECT that something      *)
(* depends on is a step, and so is the statement that writes, together     *)
(* with its COMMIT.  The modules that extend this one have the handlers,   *)
(* ProjectApi composes them.                                               *)
(***************************************************************************)
EXTENDS Integers, Sequences, FiniteSets

CONSTANTS
    Users,
    Founder,    \* the super administrator who created the project
    Roles,      \* rows of roles; those of the system and one that may be created
    Grantable,  \* permissions that administrators add to roles
    Handlers,   \* requests in progress
    Mixes,      \* sets of what meets in one behaviour: kinds of request, "deletion" of the
                \* project, "alone" if nobody but the founder has an account, "joined" if a
                \* second user is a member at first, "signed_in" if somebody has a refresh
                \* token, "startup" if main.py made the roles and no migration did
    MaxRow      \* bound on the rows of members, environments and instances

SystemRoles == {"super_admin", "project_admin", "maintainer", "developer", "viewer"}

ASSUME UserAssumption == Founder \in Users
ASSUME RoleAssumption == "project_admin" \in Roles
ASSUME RowAssumption == MaxRow \in Nat \ {0, 1}

VARIABLES
    lifecycle,    \* of the project: lifecycle_status, as LifecycleQueue moves it
    selfApprove,  \* self_approve_enabled
    users,        \* is_active and is_admin
    roles,        \* the roles there are
    grants,       \* the permissions of each role
    members,      \* project_members: each user's row and role
    lastRow,      \* the last row identity given out
    mix,          \* of Mixes: that of this behaviour
    req,          \* the requests in progress
    held          \* what the requester was and had since the request came in

accountVars == <<users, roles, grants>>
memberVars == <<members, lastRow>>
accessVars == <<lifecycle, selfApprove, accountVars, memberVars, mix>>

-----------------------------------------------------------------------------
(* Permissions.  A resource is a sequence of segments. *)

View == [resource |-> <<"project", "dag", "view">>, action |-> "read"]
Run == [resource |-> <<"project", "dag", "run">>, action |-> "write"]
Everything == [resource |-> <<"*">>, action |-> "admin"]
WholeProject == [resource |-> <<"project", "*">>, action |-> "admin"]

\* An asterisk stands for one segment, but alone for everything.
Matches(pattern, resource) ==
    \/ pattern = <<"*">>
    \/ /\ Len(pattern) = Len(resource)
       /\ \A i \in 1 .. Len(pattern) : pattern[i] \in {"*", resource[i]}

Permits(permissions, need) ==
    \E p \in permissions : Matches(p.resource, need.resource) /\ p.action \in {"admin", need.action}

\* The rows of the migration; roles seeded at start-up have none.
SeededGrants(role) ==
    IF "startup" \in mix THEN {}
    ELSE IF role = "super_admin" THEN {Everything}
    ELSE IF role = "project_admin" THEN {WholeProject}
    ELSE IF role \in {"maintainer", "developer"} THEN {View, Run}
    ELSE IF role = "viewer" THEN {View} ELSE {}

\* Whether the row of project_admin has its name for its identity.
NamedById == "startup" \notin mix

-----------------------------------------------------------------------------
(* Requests. *)

NoRole == "none"
NoRow == [row |-> 0, role |-> NoRole]
Nothing == [nothing |-> TRUE]
Idle == [kind |-> "none", pc |-> "idle"]

\* got is what the handler has read.  What it answers, an error or not, is left out.
Answer(h) == req' = [req EXCEPT ![h] = Idle]
Refuse(h) == Answer(h)
Goto(h, pc) == req' = [req EXCEPT ![h].pc = pc]
Keep(h, pc, got) == req' = [req EXCEPT ![h].pc = pc, ![h].got = got]

\* Whether a request of one of these kinds may come in.
Listening(h, kinds) == req[h].pc = "idle" /\ kinds \cap mix # {}

\* The handler has a request of one of these kinds, or none.
Serves(h, kinds) == req[h].kind \in kinds \cup {Idle.kind}

Call(h, kind, u, arg, pc) ==
    /\ Listening(h, {kind})
    /\ req' = [req EXCEPT ![h] =
           [kind |-> kind, by |-> u, admin |-> users[u].admin, arg |-> arg, pc |-> pc,
            got |-> Nothing]]

Authenticated(u) == users[u].there /\ users[u].active

\* A request for the project, by a user with an access token.  One that is refused
\* here leaves no trace.
Receive(h, kind, u, arg) == Authenticated(u) /\ Call(h, kind, u, arg, "project")

\* A request to the administration API.
ReceiveAdmin(h, kind, u, arg) ==
    Authenticated(u) /\ users[u].admin /\ Call(h, kind, u, arg, "commit")

By(h) == req[h].by
Is(u, role) == members[u].row # 0 /\ members[u].role = role

AdminGated == {"add", "change", "remove", "settings", "git", "environment", "restart"}
AirflowKinds == {"bootstrap", "proxy", "widget"}
MergeKinds == {"open", "merge", "close"}
InstanceKinds == {"provision", "restart", "delete"}

AfterGate(kind) ==
    IF kind \in AdminGated THEN "authority"
    ELSE IF kind \in AirflowKinds THEN "account"
    ELSE IF kind = "open" THEN "role" ELSE "rows"

SeeProject(h) ==
    /\ req[h].pc = "project"
    /\ IF lifecycle = "READY" THEN Keep(h, "member", [self |-> selfApprove]) ELSE Refuse(h)
    /\ UNCHANGED accessVars

\* Mutant: super administrators need not be members.
AdminBypass(h) ==
    /\ req[h].pc = "member"
    /\ IF members[By(h)].row # 0 \/ req[h].admin
       THEN Goto(h, AfterGate(req[h].kind)) ELSE Refuse(h)
    /\ UNCHANGED accessVars

\* "Without admin bypass".
SeeMembership(h) ==
    /\ req[h].pc = "member"
    /\ IF members[By(h)].row # 0 THEN Goto(h, AfterGate(req[h].kind)) ELSE Refuse(h)
    /\ UNCHANGED accessVars

SeeAuthority(h) ==
    /\ req[h].pc = "authority"
    /\ IF req[h].admin \/ Is(By(h), "project_admin") THEN Goto(h, "rows") ELSE Refuse(h)
    /\ UNCHANGED accessVars

\* A deletion of the project is accepted; see OperationRequests.
LeaveReady ==
    /\ lifecycle = "READY" /\ "deletion" \in mix
    /\ lifecycle' = "DELETING"
    /\ UNCHANGED <<selfApprove, accountVars, memberVars, mix, req>>

\* The founder is a member, and a second user may have been added by now.
AccessInit ==
    /\ mix \in Mixes
    /\ lifecycle = "READY"
    /\ selfApprove = FALSE
    /\ users = [u \in Users |-> [there |-> u = Founder \/ mix \cap {"register", "alone"} = {},
                                 active |-> TRUE, admin |-> u = Founder]]
    /\ roles = {r \in Roles : r \in SystemRoles \/ "create_role" \notin mix}
    /\ grants = [r \in Roles |-> SeededGrants(r)]
    /\ \E second \in IF "joined" \in mix THEN Users \ {Founder} ELSE {Founder}, role \in roles :
           members = [u \in Users |->
               IF u = Founder THEN [row |-> 1, role |-> "project_admin"]
               ELSE IF u = second THEN [row |-> 2, role |-> role] ELSE NoRow]
    /\ lastRow = 2
    /\ req = [h \in Handlers |-> Idle]

-----------------------------------------------------------------------------
(* What a requester was and had while its request was in progress: the rows as they
   really were, whatever the handler read of them. *)

NoFacts == [is |-> {}, as |-> {}, may |-> {}]

\* Now: what holds of u and the project, and u's role in it.
Now ==
    [u \in Users |->
        [is |-> (IF users[u].there /\ users[u].active THEN {"active"} ELSE {})
                \cup (IF users[u].admin THEN {"admin"} ELSE {})
                \cup (IF lifecycle = "READY" THEN {"ready"} ELSE {})
                \cup (IF selfApprove THEN {"self"} ELSE {}),
         as |-> IF members[u].row = 0 THEN {} ELSE {members[u].role}]]

\* may: the permissions of roles that it has or has had.
Accrue(old, now, permissions) ==
    LET as == old.as \cup now.as
    IN  [is |-> old.is \cup now.is, as |-> as,
         may |-> old.may \cup UNION {permissions[r] : r \in as}]

\* Accompanies every step.
Observe ==
    held' = [h \in Handlers |->
                IF req'[h].pc = "idle" THEN NoFacts
                ELSE Accrue(held[h], Now'[req'[h].by], grants')]
=============================================================================
