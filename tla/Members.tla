------------------------------ MODULE Members ------------------------------
(***************************************************************************)
(* The members of a project, and the users, roles and permissions behind   *)
(* them: the handlers of routers/projects.py for members and those of      *)
(* routers/admin.py for users, roles and permissions.                      *)
(***************************************************************************)
EXTENDS ProjectAccess

MemberKinds == {"add", "change", "remove"}
AccountKinds == {"user", "create_role", "delete_role", "permit", "forbid"}

\* The rows that a handler has loaded are updated and deleted by their identity.
Unmoved(h) == members[req[h].arg.to].row = req[h].got.row

ReceiveMember(h) ==
    \/ \E u, to \in Users, role \in Roles, kind \in {"add", "change"} :
           Receive(h, kind, u, [to |-> to, role |-> role])
    \/ \E u, to \in Users : Receive(h, "remove", u, [to |-> to, role |-> NoRole])

-----------------------------------------------------------------------------
(* Each handler first reads the rows that it is about. *)

\* What the INSERT checks again.
AddRows(h) ==
    /\ req[h].kind = "add" /\ req[h].pc = "rows"
    /\ IF /\ users[req[h].arg.to].there
          /\ members[req[h].arg.to] = NoRow
          /\ req[h].arg.role \in roles
       THEN Goto(h, "commit") ELSE Refuse(h)
    /\ UNCHANGED accessVars

ChangeRows(h) ==
    /\ req[h].kind = "change" /\ req[h].pc = "rows"
    /\ IF members[req[h].arg.to] # NoRow /\ req[h].arg.role \in roles
       THEN Keep(h, "commit", members[req[h].arg.to]) ELSE Refuse(h)
    /\ UNCHANGED accessVars

\* The check for the last administrator compares the role's identity with its name.
RemoveRows(h) ==
    LET row == members[req[h].arg.to] IN
    /\ req[h].kind = "remove" /\ req[h].pc = "rows"
    /\ IF row = NoRow THEN Refuse(h)
       ELSE Keep(h, IF row.role = "project_admin" /\ NamedById THEN "count" ELSE "commit", row)
    /\ UNCHANGED accessVars

Administrators == {u \in Users : Is(u, "project_admin")}

CountAdministrators(h) ==
    /\ req[h].kind = "remove" /\ req[h].pc = "count"
    /\ IF Cardinality(Administrators) <= 1 THEN Refuse(h) ELSE Goto(h, "commit")
    /\ UNCHANGED accessVars

-----------------------------------------------------------------------------
(* Then it writes, and commits. *)

\* One row for each member, by a unique index; a role that exists, by a foreign key.
CommitAdd(h) ==
    LET to == req[h].arg.to IN
    /\ req[h].kind = "add" /\ req[h].pc = "commit"
    /\ IF members[to] = NoRow /\ req[h].arg.role \in roles
       THEN /\ lastRow < MaxRow
            /\ members' = [members EXCEPT ![to] =
                              [row |-> lastRow + 1, role |-> req[h].arg.role]]
            /\ lastRow' = lastRow + 1
            /\ Answer(h)
       ELSE UNCHANGED memberVars /\ Refuse(h)
    /\ UNCHANGED <<lifecycle, selfApprove, accountVars, mix>>

\* No UPDATE if the row had the role already; a row that is gone makes the UPDATE,
\* or else the refresh that follows it, fail.
CommitChange(h) ==
    LET to == req[h].arg.to IN
    /\ req[h].kind = "change" /\ req[h].pc = "commit"
    /\ IF ~Unmoved(h) THEN UNCHANGED members /\ Refuse(h)
       ELSE IF req[h].arg.role = req[h].got.role THEN UNCHANGED members /\ Answer(h)
       ELSE IF req[h].arg.role \notin roles THEN UNCHANGED members /\ Refuse(h)
       ELSE /\ members' = [members EXCEPT ![to].role = req[h].arg.role]
            /\ Answer(h)
    /\ UNCHANGED <<lifecycle, selfApprove, accountVars, lastRow, mix>>

\* The DELETE of a row that is gone is not an error.
CommitRemove(h) ==
    /\ req[h].kind = "remove" /\ req[h].pc = "commit"
    /\ members' = IF Unmoved(h) THEN [members EXCEPT ![req[h].arg.to] = NoRow] ELSE members
    /\ Answer(h)
    /\ UNCHANGED <<lifecycle, selfApprove, accountVars, lastRow, mix>>

-----------------------------------------------------------------------------
(* The administration API. *)

ReceiveAccount(h) ==
    \/ \E u, to \in Users, active, admin \in BOOLEAN :
           ReceiveAdmin(h, "user", u, [to |-> to, active |-> active, admin |-> admin])
    \/ \E u \in Users, role \in Roles, kind \in {"create_role", "delete_role"} :
           ReceiveAdmin(h, kind, u, [role |-> role])
    \/ \E u \in Users, role \in Roles, p \in Grantable, kind \in {"permit", "forbid"} :
           ReceiveAdmin(h, kind, u, [role |-> role, permission |-> p])

\* Also of the last active super administrator.
UpdateUser(h) ==
    LET to == req[h].arg.to IN
    /\ req[h].kind = "user" /\ req[h].pc = "commit"
    /\ IF users[to].there
       THEN /\ users' = [users EXCEPT ![to].active = req[h].arg.active,
                                      ![to].admin = req[h].arg.admin]
            /\ Answer(h)
       ELSE UNCHANGED users /\ Refuse(h)
    /\ UNCHANGED <<lifecycle, selfApprove, roles, grants, memberVars, mix>>

\* The role is not one of the system, and its name is free.  One that was deleted and
\* is made again has a new identity in the code and is the same role here, so a handler
\* that read the old one may still give it to a member, where the foreign key refuses.
CreateRole(h) ==
    LET role == req[h].arg.role IN
    /\ req[h].kind = "create_role" /\ req[h].pc = "commit"
    /\ IF role \notin SystemRoles \cup roles
       THEN roles' = roles \cup {role} /\ Answer(h)
       ELSE UNCHANGED roles /\ Refuse(h)
    /\ UNCHANGED <<lifecycle, selfApprove, users, grants, memberVars, mix>>

\* Mutant: a role in use is deleted.
DeleteRoleInUse(h) ==
    LET role == req[h].arg.role IN
    /\ req[h].kind = "delete_role" /\ req[h].pc = "commit"
    /\ IF role \in roles \ SystemRoles
       THEN /\ roles' = roles \ {role}
            /\ grants' = [grants EXCEPT ![role] = {}]
            /\ Answer(h)
       ELSE UNCHANGED <<roles, grants>> /\ Refuse(h)
    /\ UNCHANGED <<lifecycle, selfApprove, users, memberVars, mix>>

\* A role in use is kept by the foreign key of its members; its permissions go with it.
DeleteRole(h) ==
    LET role == req[h].arg.role IN
    /\ req[h].kind = "delete_role" /\ req[h].pc = "commit"
    /\ IF role \in roles \ SystemRoles /\ \A u \in Users : ~Is(u, role)
       THEN /\ roles' = roles \ {role}
            /\ grants' = [grants EXCEPT ![role] = {}]
            /\ Answer(h)
       ELSE UNCHANGED <<roles, grants>> /\ Refuse(h)
    /\ UNCHANGED <<lifecycle, selfApprove, users, memberVars, mix>>

AddPermission(h) ==
    LET role == req[h].arg.role IN
    /\ req[h].kind = "permit" /\ req[h].pc = "commit"
    /\ IF role \in roles
       THEN /\ grants' = [grants EXCEPT ![role] = @ \cup {req[h].arg.permission}]
            /\ Answer(h)
       ELSE UNCHANGED grants /\ Refuse(h)
    /\ UNCHANGED <<lifecycle, selfApprove, users, roles, memberVars, mix>>

\* The code lets a role have a permission in several rows and removes one of them.  If
\* others are left the role keeps the permission; here that is a Crash of the handler.
RemovePermission(h) ==
    LET role == req[h].arg.role IN
    /\ req[h].kind = "forbid" /\ req[h].pc = "commit"
    /\ IF req[h].arg.permission \in grants[role]
       THEN /\ grants' = [grants EXCEPT ![role] = @ \ {req[h].arg.permission}]
            /\ Answer(h)
       ELSE UNCHANGED grants /\ Refuse(h)
    /\ UNCHANGED <<lifecycle, selfApprove, users, roles, memberVars, mix>>

-----------------------------------------------------------------------------
MemberStep(h) ==
    \/ Listening(h, MemberKinds) /\ ReceiveMember(h) /\ UNCHANGED accessVars
    \/ AddRows(h) \/ ChangeRows(h) \/ RemoveRows(h) \/ CountAdministrators(h)
    \/ CommitAdd(h) \/ CommitChange(h) \/ CommitRemove(h)

AccountStep(h) ==
    \/ Listening(h, AccountKinds) /\ ReceiveAccount(h) /\ UNCHANGED accessVars
    \/ UpdateUser(h) \/ CreateRole(h) \/ DeleteRole(h) \/ AddPermission(h) \/ RemovePermission(h)

\* Calls of the handlers of this module.
MemberCalls ==
    [kind : {"add", "change"}, arg : [to : Users, role : Roles]]
    \cup [kind : {"remove"}, arg : [to : Users, role : {NoRole}]]
    \cup [kind : {"user"}, arg : [to : Users, active : BOOLEAN, admin : BOOLEAN]]
    \cup [kind : {"create_role", "delete_role"}, arg : [role : Roles]]
    \cup [kind : {"permit", "forbid"}, arg : [role : Roles, permission : Grantable]]
=============================================================================
