--------------------------- MODULE MergeRequests ---------------------------
(***************************************************************************)
(* Merge requests of a project, as rows of merge_requests: opening,        *)
(* merging and closing them.  No handler looks at the status that it       *)
(* replaces, and no git command is run.                                    *)
(***************************************************************************)
EXTENDS ProjectAccess

CONSTANTS
    MergeIds,  \* identities of merge requests
    NoUser     \* null value

VARIABLES mrs  \* the merge requests

NoMerge == [author |-> NoUser, status |-> "absent"]

MergeInit == mrs = [m \in MergeIds |-> NoMerge]

Opened(m) == mrs[m] # NoMerge

\* The role by which a handler judges: a super administrator's own, or the member's.
\* It is read at once before the decision.
Judged(h) == IF req[h].admin THEN "super_admin"
             ELSE IF members[By(h)].row = 0 THEN NoRole ELSE members[By(h)].role

Developers == {"super_admin", "project_admin", "maintainer", "developer"}
Maintainers == {"super_admin", "project_admin", "maintainer"}

ReceiveMerge(h) ==
    \/ \E u \in Users : Receive(h, "open", u, Nothing)
    \/ \E u \in Users, m \in MergeIds, kind \in {"merge", "close"} :
           Receive(h, kind, u, [of |-> m])

\* Deciding to open one: the INSERT follows.
OpenRole(h) ==
    /\ req[h].kind = "open" /\ req[h].pc = "role"
    /\ IF Judged(h) \in Developers THEN Goto(h, "commit") ELSE Refuse(h)
    /\ UNCHANGED <<accessVars, mrs>>

\* It gets a new identity; the supply of them is a bound.
CommitOpen(h) ==
    /\ req[h].kind = "open" /\ req[h].pc = "commit"
    /\ \E m \in MergeIds :
           /\ ~Opened(m)
           /\ mrs' = [mrs EXCEPT ![m] = [author |-> By(h), status |-> "open"]]
    /\ Answer(h)
    /\ UNCHANGED accessVars

\* The merge request as the handler loads it, with the project's setting as it was
\* loaded before.
SeeMerge(h) ==
    LET m == req[h].arg.of IN
    /\ req[h].kind \in {"merge", "close"} /\ req[h].pc = "rows"
    /\ IF Opened(m) THEN Keep(h, "role", [self |-> req[h].got.self, author |-> mrs[m].author,
                                          status |-> mrs[m].status])
       ELSE Refuse(h)
    /\ UNCHANGED <<accessVars, mrs>>

\* Mutant: approving one's own request is not looked at.
MayMergeAny(h) == Judged(h) \in Maintainers

MayMerge(h) ==
    /\ Judged(h) \in Maintainers
    /\ req[h].got.author = By(h) => req[h].got.self

MayClose(h) == req[h].got.author = By(h) \/ Judged(h) \in Maintainers

MergeRole(h) ==
    /\ req[h].kind \in {"merge", "close"} /\ req[h].pc = "role"
    /\ IF IF req[h].kind = "merge" THEN MayMerge(h) ELSE MayClose(h)
       THEN Goto(h, "commit") ELSE Refuse(h)
    /\ UNCHANGED <<accessVars, mrs>>

\* A status that was loaded already is not written again.
Write(h, status) ==
    IF req[h].got.status = status THEN UNCHANGED mrs
    ELSE mrs' = [mrs EXCEPT ![req[h].arg.of].status = status]

CommitMerge(h) ==
    /\ req[h].kind = "merge" /\ req[h].pc = "commit"
    /\ Write(h, "merged")
    /\ Answer(h)
    /\ UNCHANGED accessVars

CommitClose(h) ==
    /\ req[h].kind = "close" /\ req[h].pc = "commit"
    /\ Write(h, "closed")
    /\ Answer(h)
    /\ UNCHANGED accessVars

MergeStep(h) ==
    \/ Listening(h, MergeKinds) /\ ReceiveMerge(h) /\ UNCHANGED <<accessVars, mrs>>
    \/ OpenRole(h) \/ CommitOpen(h) \/ SeeMerge(h) \/ MergeRole(h)
    \/ CommitMerge(h) \/ CommitClose(h)

MergeCalls ==
    [kind : {"open"}, arg : {Nothing}] \cup [kind : {"merge", "close"}, arg : [of : MergeIds]]
=============================================================================
