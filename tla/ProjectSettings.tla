-------------------------- MODULE ProjectSettings --------------------------
(***************************************************************************)
(* The settings of a project: whether authors may merge their own          *)
(* requests, the Git configuration with its credential, and the            *)
(* environments.  The handlers load a row, compute the new one and write   *)
(* the columns that differ from what they loaded: what another handler     *)
(* wrote to the other columns meanwhile stays.                             *)
(***************************************************************************)
EXTENDS ProjectAccess

CONSTANTS EnvironmentNames

VARIABLES
    config,       \* git_configs: repo_url, auth_type, credentials_encrypted
    environments  \* the row of each environment, by name; 0 if there is none

SettingsKinds == {"settings", "git", "environment"}
settingsVars == <<config, environments>>

Urls == {"https", "other"}
AuthTypes == {"https", "token", "ssh"}
NewConfig == [url |-> "other", auth |-> "https", secret |-> FALSE]
NoConfig == [absent |-> TRUE]

\* What a body may set; "keep" is a field that it does not have.  A secret is given
\* as a token or as credentials.  Bodies that no row makes acceptable are left out,
\* and so are those that change nothing or do what another does.
GitBodies ==
    {body \in [url : Urls \cup {"keep"}, auth : AuthTypes \cup {"keep"},
               secret : {"keep", "token", "credentials"}] :
        /\ body.secret = "token" => body.auth \in {"token", "keep"}
        /\ body.secret = "credentials" => body.auth \in {"ssh", "keep"}
        /\ {body.url, body.auth, body.secret} # {"keep"}
        /\ body.auth = "token" => body.url # "other"}

\* The environment named is created, gets the name "to", or is deleted.
EnvironmentBodies ==
    [op : {"create", "drop"}, name : EnvironmentNames, to : {"keep"}]
    \cup [op : {"rename"}, name : EnvironmentNames, to : EnvironmentNames]

SettingsInit ==
    /\ config = NoConfig
    /\ environments = [name \in EnvironmentNames |->
           IF name = "production" THEN 1 ELSE IF name = "development" THEN 2 ELSE 0]

ReceiveSettings(h) ==
    \/ \E u \in Users, on \in BOOLEAN :
           Receive(h, "settings", u, [on |-> on])
    \/ Listening(h, {"git"}) /\ \E u \in Users, body \in GitBodies :
           Receive(h, "git", u, body)
    \/ \E u \in Users, body \in EnvironmentBodies : Receive(h, "environment", u, body)

\* No UPDATE if the setting was that when the gate loaded the project.
UpdateSettings(h) ==
    /\ req[h].kind = "settings" /\ req[h].pc = "rows"
    /\ selfApprove' = IF req[h].got.self = req[h].arg.on THEN selfApprove ELSE req[h].arg.on
    /\ Answer(h)
    /\ UNCHANGED <<lifecycle, accountVars, memberVars, mix, settingsVars>>

-----------------------------------------------------------------------------
(* update_git_config *)

NewAuth(body, old) == IF body.auth = "keep" THEN old.auth ELSE body.auth
NewUrl(body, old) == IF body.url = "keep" THEN old.url ELSE body.url

\* Another type of authentication drops the secret.
NewSecret(body, old) ==
    \/ body.secret # "keep"
    \/ old.secret /\ (body.auth = "keep" \/ body.auth = old.auth)

Acceptable(body, old) ==
    LET auth == NewAuth(body, old) IN
    /\ body.secret = "token" => auth = "token"
    /\ body.secret = "credentials" => auth \in {"token", "ssh"}
    /\ auth = "token" /\ old.auth # "token" => body.secret # "keep"
    /\ auth = "token" => NewUrl(body, old) = "https" /\ NewSecret(body, old)

\* The handler has loaded the row, or inserted one of its own that nobody sees yet.
SeeConfig(h) ==
    LET body == req[h].arg
        old == IF config = NoConfig THEN NewConfig ELSE config
    IN
    /\ req[h].kind = "git" /\ req[h].pc = "rows"
    /\ IF Acceptable(body, old)
       THEN Keep(h, "commit", [old |-> old, insert |-> config = NoConfig]) ELSE Refuse(h)
    /\ UNCHANGED <<accessVars, settingsVars>>

\* Mutant: the secret is written whether it changed or not.
UpdatedAlways(body, old, now) ==
    [url |-> IF NewUrl(body, old) = old.url THEN now.url ELSE NewUrl(body, old),
     auth |-> IF NewAuth(body, old) = old.auth THEN now.auth ELSE NewAuth(body, old),
     secret |-> NewSecret(body, old)]

\* The row after the UPDATE, where it is now; a secret that is given is encrypted
\* anew, and differs.
Updated(body, old, now) ==
    [url |-> IF NewUrl(body, old) = old.url THEN now.url ELSE NewUrl(body, old),
     auth |-> IF NewAuth(body, old) = old.auth THEN now.auth ELSE NewAuth(body, old),
     secret |-> IF body.secret = "keep" /\ NewSecret(body, old) = old.secret
                THEN now.secret ELSE NewSecret(body, old)]

\* Of two handlers that insert the row, one violates the unique index.
CommitConfig(h) ==
    LET body == req[h].arg
        old == req[h].got.old
    IN
    /\ req[h].kind = "git" /\ req[h].pc = "commit"
    /\ IF req[h].got.insert /\ config # NoConfig THEN UNCHANGED config /\ Refuse(h)
       ELSE /\ config' = Updated(body, old, IF req[h].got.insert THEN old ELSE config)
            /\ Answer(h)
    /\ UNCHANGED <<accessVars, environments>>

-----------------------------------------------------------------------------
(* Environments: rows that an update or a deletion finds by the identity that its
   handler has loaded. *)

NamesOf(row) == {name \in EnvironmentNames : environments[name] = row}

SeeEnvironment(h) ==
    LET row == environments[req[h].arg.name] IN
    /\ req[h].kind = "environment" /\ req[h].pc = "rows" /\ req[h].arg.op # "create"
    /\ IF row = 0 THEN Refuse(h) ELSE Keep(h, "commit", [row |-> row])
    /\ UNCHANGED <<accessVars, settingsVars>>

\* A unique index keeps names apart.
CreateEnvironment(h) ==
    LET name == req[h].arg.name IN
    /\ req[h].kind = "environment" /\ req[h].pc = "rows" /\ req[h].arg.op = "create"
    /\ IF environments[name] # 0 THEN UNCHANGED <<environments, lastRow>> /\ Refuse(h)
       ELSE /\ lastRow < MaxRow
            /\ environments' = [environments EXCEPT ![name] = lastRow + 1]
            /\ lastRow' = lastRow + 1
            /\ Answer(h)
    /\ UNCHANGED <<lifecycle, selfApprove, accountVars, members, mix, config>>

\* The name that was loaded is not written again.  A change of a row that is gone
\* fails, its DELETE does not.
RenameEnvironment(h) ==
    LET row == req[h].got.row
        to == req[h].arg.to
    IN
    /\ req[h].kind = "environment" /\ req[h].pc = "commit" /\ req[h].arg.op = "rename"
    /\ IF NamesOf(row) = {} THEN UNCHANGED environments /\ Refuse(h)
       ELSE IF to = req[h].arg.name THEN UNCHANGED environments /\ Answer(h)
       ELSE IF environments[to] \notin {0, row} THEN UNCHANGED environments /\ Refuse(h)
       ELSE /\ environments' = [name \in EnvironmentNames |->
                   IF name = to THEN row
                   ELSE IF environments[name] = row THEN 0 ELSE environments[name]]
            /\ Answer(h)
    /\ UNCHANGED <<accessVars, config>>

DropEnvironment(h) ==
    /\ req[h].kind = "environment" /\ req[h].pc = "commit" /\ req[h].arg.op = "drop"
    /\ environments' = [name \in EnvironmentNames |->
           IF name \in NamesOf(req[h].got.row) THEN 0 ELSE environments[name]]
    /\ Answer(h)
    /\ UNCHANGED <<accessVars, config>>

SettingsStep(h) ==
    \/ Listening(h, SettingsKinds) /\ ReceiveSettings(h) /\ UNCHANGED <<accessVars, settingsVars>>
    \/ UpdateSettings(h) \/ SeeConfig(h) \/ CommitConfig(h)
    \/ SeeEnvironment(h) \/ CreateEnvironment(h) \/ RenameEnvironment(h) \/ DropEnvironment(h)

SettingsCalls ==
    [kind : {"settings"}, arg : [on : BOOLEAN]]
    \cup [kind : {"git"}, arg : GitBodies]
    \cup [kind : {"environment"}, arg : EnvironmentBodies]
=============================================================================
