----------------------------- MODULE ProjectApi -----------------------------
(***************************************************************************)
(* The API around one project: requests of several users in progress at    *)
(* once, which read and change the same rows.  A handler that dies takes   *)
(* its uncommitted transaction with it.                                    *)
(***************************************************************************)
EXTENDS Members, AirflowProxy, MergeRequests, ProjectSettings, AirflowInstances, Sessions

vars == <<accessVars, airflowVars, mrs, settingsVars, instanceVars, sessionVars, req, held>>

Init ==
    /\ AccessInit /\ AirflowInit /\ MergeInit /\ SettingsInit /\ InstanceInit /\ SessionInit
    /\ held = [h \in Handlers |-> NoFacts]

\* Nothing but the rows of access and the requests.
Others == UNCHANGED <<airflowVars, mrs, settingsVars, instanceVars, sessionVars>>

Gate(h) == SeeProject(h) \/ SeeMembership(h) \/ SeeAuthority(h)

Access(h) ==
    /\ \/ Gate(h)
       \/ Serves(h, MemberKinds) /\ MemberStep(h)
       \/ Serves(h, AccountKinds) /\ AccountStep(h)
    /\ Others

Airflow ==
    /\ \/ \E h \in Handlers : Serves(h, AirflowKinds) /\ ProxyStep(h)
       \/ \E key \in Accounts : Expire(key)
       \/ \E u \in Users : ExpireCookie(u)
    /\ UNCHANGED <<mrs, settingsVars, instanceVars, sessionVars>>

Merges(h) ==
    /\ Serves(h, MergeKinds) /\ MergeStep(h)
    /\ UNCHANGED <<airflowVars, settingsVars, instanceVars, sessionVars>>

Settings(h) ==
    /\ Serves(h, SettingsKinds) /\ SettingsStep(h)
    /\ UNCHANGED <<airflowVars, mrs, instanceVars, sessionVars>>

Instances(h) ==
    /\ Serves(h, InstanceKinds) /\ InstanceStep(h)
    /\ UNCHANGED <<airflowVars, mrs, settingsVars, sessionVars>>

SigningIn ==
    /\ \/ \E h \in Handlers : Serves(h, SessionKinds) /\ SessionStep(h)
       \/ \E t \in Tokens : ExpireToken(t)
    /\ UNCHANGED <<airflowVars, mrs, settingsVars, instanceVars>>

Deletion == LeaveReady /\ Others

\* The process of a handler dies; what it committed stays.
Crash(h) ==
    /\ req[h].pc # "idle"
    /\ Answer(h)
    /\ Abandon(h)
    /\ UNCHANGED <<accessVars, airflowVars, mrs, settingsVars, instance, sessionVars>>

Next ==
    /\ \/ \E h \in Handlers :
              Access(h) \/ Merges(h) \/ Settings(h) \/ Instances(h) \/ Crash(h)
       \/ Airflow \/ SigningIn \/ Deletion
    /\ Observe

Spec == Init /\ [][Next]_vars

-----------------------------------------------------------------------------
Calls == MemberCalls \cup ProxyCalls \cup MergeCalls \cup SettingsCalls \cup InstanceCalls
         \cup SessionCalls

\* Types.  The role of a member exists, two members have two rows, and one environment
\* has one name.
TypeOK ==
    /\ lifecycle \in {"READY", "DELETING"} /\ selfApprove \in BOOLEAN
    /\ users \in [Users -> [there : BOOLEAN, active : BOOLEAN, admin : BOOLEAN]]
    /\ roles \subseteq Roles
    /\ grants \in [Roles -> SUBSET ({View, Run, WholeProject, Everything} \cup Grantable)]
    /\ lastRow \in 1 .. MaxRow
    /\ members \in [Users -> {NoRow} \cup [row : 1 .. lastRow, role : roles]]
    /\ \A u, v \in Users : members[u].row = members[v].row => u = v \/ members[u] = NoRow
    /\ \A h \in Handlers :
           \/ req[h] = Idle
           \/ /\ req[h].by \in Users /\ req[h].admin \in BOOLEAN
              /\ [kind |-> req[h].kind, arg |-> req[h].arg] \in Calls
    /\ cookies \subseteq Users /\ cache \in [Accounts -> Accounts \cup {NoToken}]
    /\ mrs \in [MergeIds -> {NoMerge} \cup [author : Users, status : {"open", "merged", "closed"}]]
    /\ config = NoConfig \/ config \in [url : Urls, auth : AuthTypes, secret : BOOLEAN]
    /\ environments \in [EnvironmentNames -> 0 .. lastRow]
    /\ \A m, n \in EnvironmentNames : environments[m] = environments[n] => m = n \/ environments[m] = 0
    /\ instance \in {NoInstance} \cup [row : 1 .. lastRow, status : {"creating", "running"}]
    /\ abandoned \subseteq 1 .. lastRow
    /\ tokens \in [Tokens -> [stored : BOOLEAN, user : Users, issued : BOOLEAN]]
    /\ spent \subseteq Tokens

-----------------------------------------------------------------------------
(* Who may do what.  A handler decides by rows that it reads one after the other, and
   acts later.  When it is about to write, or to send, what it is going to do must have
   been the requester's right by rows that were really there at some time while the
   request was in progress.  The code promises no more, and these properties permit the
   rest: that a right, a role or a setting was revoked since it was read, and that the
   rows that gave two of them were never there at the same time. *)

WasMember(h) == {"active", "ready"} \subseteq held[h].is /\ held[h].as # {}
WasSuper(h) == {"active", "admin"} \subseteq held[h].is
WasOneOf(h, allowed) == WasMember(h) /\ (WasSuper(h) \/ held[h].as \cap allowed # {})

Writes == {"rows", "count", "insert", "refresh", "commit"}

\* Members, settings, the Git configuration, environments and a restart of Airflow are
\* changed by members who administer the project, or who are super administrators; the
\* instance is made and deleted by super administrators who are members; the accounts of
\* Conductor are theirs alone.
AdministrationAuthorised ==
    \A h \in Handlers : req[h].pc \in Writes =>
        /\ req[h].kind \in AdminGated => WasOneOf(h, {"project_admin"})
        /\ req[h].kind \in {"provision", "delete"} => WasMember(h) /\ WasSuper(h)
        /\ req[h].kind \in AccountKinds => WasSuper(h)

\* Who opens a request is a developer; who merges is a maintainer, and not the author
\* unless the project allowed that at some time during the request; who closes is the
\* author or a maintainer.
MergesAuthorised ==
    \A h \in Handlers : req[h].pc = "commit" =>
        /\ req[h].kind = "open" => WasOneOf(h, Developers)
        /\ req[h].kind = "merge" =>
              /\ WasOneOf(h, Maintainers)
              /\ mrs[req[h].arg.of].author = By(h) => "self" \in held[h].is
        /\ req[h].kind = "close" =>
              \/ WasMember(h) /\ mrs[req[h].arg.of].author = By(h)
              \/ WasOneOf(h, Maintainers)

\* What is sent to Airflow, and a cookie that lets one send it, take the permission that
\* it needs: membership, and a permission that a role of the requester has had.
ForwardsPermitted ==
    \A h \in Handlers : req[h].pc \in {"context", "mint", "forward"} =>
        /\ WasMember(h)
        /\ WasSuper(h) \/ Permits(held[h].may, req[h].arg.need)

\* The token that goes to Airflow is that of the account of a role that the requester
\* has had during the request, whoever made Airflow issue it.
ForwardedAsOwnAccount ==
    \A h \in Handlers : req[h].pc = "forward" =>
        req[h].got.token \in {Account(role) : role \in held[h].as}

\* Once a refresh has been answered, its token is good for nothing: a refresh that comes
\* in later does not find it.  Refreshes that overlap are another matter.
SpentTokenStaysSpent ==
    \A h \in Handlers : req[h].kind = "refresh" /\ req[h].arg.late => req[h].pc = "get"

\* Whatever updates overlap, a configuration with token authentication has a secret.
TokenHasCredential == config # NoConfig /\ config.auth = "token" => config.secret

\* An instance is left in creation only by the death of the handler that inserted it.
CreatingIsInFlight ==
    instance.status = "creating" =>
        \/ instance.row \in abandoned
        \/ \E h \in Handlers : Provisioning(h) /\ req[h].got.row = instance.row

-----------------------------------------------------------------------------
(* What the repository says and the code does not do. *)

\* "Prevent removing the last project_admin" (remove_member).
RemovalKeepsAdmin ==
    [][\A h \in Handlers :
          CommitRemove(h) /\ Is(req[h].arg.to, "project_admin") => Administrators' # {}]_vars
=============================================================================
