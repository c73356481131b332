---------------------------- MODULE AirflowProxy ----------------------------
(***************************************************************************)
(* Requests that are forwarded to a project's Airflow: the proxy, its      *)
(* browser session and the widgets.  Airflow does not know the users of    *)
(* Conductor: it sees one of three accounts, whose tokens are cached and   *)
(* shared by all users of that account.                                    *)
(***************************************************************************)
EXTENDS ProjectAccess

VARIABLES
    cookies,  \* users with a proxy session cookie for this project
    cache     \* cached Airflow tokens: whose token is stored under each key

airflowVars == <<cookies, cache>>

Accounts == {"admin", "dev", "viewer"}
NoToken == "none"

\* resolve_airflow_account: a role that it does not know is a viewer.
Account(role) ==
    IF role \in {"super_admin", "project_admin"} THEN "admin"
    ELSE IF role \in {"maintainer", "developer"} THEN "dev" ELSE "viewer"

\* Mutant: one token for each deployment.
DeploymentKey(account) == "admin"

\* The key also has the deployment and its generation, which are the project's.
CacheKey(account) == account

AirflowInit == cookies = {} /\ cache = [k \in Accounts |-> NoToken]

-----------------------------------------------------------------------------
(* A request comes in: what it is about decides the permission that it needs.  Paths
   and methods without a route are refused without a trace, and so is an unsafe
   request by cookie that has no proof of its origin. *)

ReceiveProxy(h) ==
    \E u \in Users, need \in {View, Run} : Receive(h, "proxy", u, [need |-> need])

\* The cookie of an earlier bootstrap instead of an access token.
ReceiveByCookie(h) ==
    \E u \in cookies, need \in {View, Run} : Receive(h, "proxy", u, [need |-> need])

ReceiveBootstrap(h) == \E u \in Users : Receive(h, "bootstrap", u, [need |-> View])
ReceiveWidget(h) == \E u \in Users : Receive(h, "widget", u, [need |-> View])

-----------------------------------------------------------------------------
(* resolve_project_airflow_context reads the membership again for the account, once
   more for the permission, and then the permissions of that role. *)

\* Mutant: an administrator of the project needs no permission.
ExemptAdmin(h) ==
    LET member == members[By(h)] IN
    /\ req[h].pc = "account"
    /\ IF member = NoRow THEN Refuse(h)
       ELSE Keep(h, IF req[h].admin \/ member.role = "project_admin" THEN "context" ELSE "permission",
                 [account |-> Account(member.role), member |-> member])
    /\ UNCHANGED <<accessVars, airflowVars>>

SeeAccount(h) ==
    LET member == members[By(h)] IN
    /\ req[h].pc = "account"
    /\ IF member = NoRow THEN Refuse(h)
       ELSE Keep(h, IF req[h].admin THEN "context" ELSE "permission",
                 [account |-> Account(member.role), member |-> member])
    /\ UNCHANGED <<accessVars, airflowVars>>

\* A row that the session has loaded already keeps the role that it had then.
SeeRole(h) ==
    LET member == members[By(h)]
        loaded == req[h].got.member
    IN
    /\ req[h].pc = "permission"
    /\ IF member = NoRow THEN Refuse(h)
       ELSE Keep(h, "grants", [account |-> req[h].got.account,
                               role |-> IF member.row = loaded.row THEN loaded.role
                                        ELSE member.role])
    /\ UNCHANGED <<accessVars, airflowVars>>

SeeGrants(h) ==
    /\ req[h].pc = "grants"
    /\ IF Permits(grants[req[h].got.role], req[h].arg.need)
       THEN Keep(h, "context", [account |-> req[h].got.account]) ELSE Refuse(h)
    /\ UNCHANGED <<accessVars, airflowVars>>

\* A project that was READY has its deployment, which never changes.
Bootstrap(h) ==
    /\ req[h].pc = "context" /\ req[h].kind = "bootstrap"
    /\ cookies' = cookies \cup {By(h)}
    /\ Answer(h)
    /\ UNCHANGED <<accessVars, cache>>

-----------------------------------------------------------------------------
(* AirflowSessionManager.get_access_token *)

SeeCache(h) ==
    LET account == req[h].got.account
        token == cache[CacheKey(account)]
    IN
    /\ req[h].pc = "context" /\ req[h].kind # "bootstrap"
    /\ IF token # NoToken THEN Keep(h, "forward", [token |-> token])
                          ELSE Goto(h, "mint")
    /\ UNCHANGED <<accessVars, airflowVars>>

\* Airflow issues a token for the account, which is stored before it is used; or
\* Airflow refuses, or does not answer.
Mint(h) ==
    LET account == req[h].got.account IN
    /\ req[h].pc = "mint"
    /\ \/ /\ cache' = [cache EXCEPT ![CacheKey(account)] = account]
          /\ Keep(h, "forward", [token |-> account])
       \/ UNCHANGED cache /\ Refuse(h)
    /\ UNCHANGED <<accessVars, cookies>>

\* After 55 minutes.
Expire(key) ==
    /\ cache[key] # NoToken
    /\ cache' = [cache EXCEPT ![key] = NoToken]
    /\ UNCHANGED <<accessVars, cookies, req>>

\* After airflow_proxy_session_ttl_seconds.
ExpireCookie(u) ==
    /\ u \in cookies
    /\ cookies' = cookies \ {u}
    /\ UNCHANGED <<accessVars, cache, req>>

\* One request to Airflow, whose errors and redirects are not passed on.
Forward(h) ==
    /\ req[h].pc = "forward" /\ req[h].kind = "proxy"
    /\ Answer(h)
    /\ UNCHANGED <<accessVars, airflowVars>>

\* Up to five requests with one token, which all must succeed.
Fetch(h) ==
    /\ req[h].pc = "forward" /\ req[h].kind = "widget"
    /\ Answer(h)
    /\ UNCHANGED <<accessVars, airflowVars>>

ProxyStep(h) ==
    \/ /\ Listening(h, AirflowKinds)
       /\ ReceiveProxy(h) \/ ReceiveByCookie(h) \/ ReceiveBootstrap(h) \/ ReceiveWidget(h)
       /\ UNCHANGED <<accessVars, airflowVars>>
    \/ SeeAccount(h) \/ SeeRole(h) \/ SeeGrants(h) \/ Bootstrap(h)
    \/ SeeCache(h) \/ Mint(h) \/ Forward(h) \/ Fetch(h)

ProxyCalls == [kind : AirflowKinds, arg : [need : {View, Run}]]
=============================================================================
