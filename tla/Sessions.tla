------------------------------ MODULE Sessions ------------------------------
(***************************************************************************)
(* Signing in: registration, login and the rotation of refresh tokens.     *)
(* A refresh token is good while Redis has its identity; a refresh reads   *)
(* the identity, deletes it, loads the user and stores a new one, in four  *)
(* calls that others may come in between.  Access tokens are in no store:  *)
(* what they open is decided by the user's row at each request.            *)
(***************************************************************************)
EXTENDS ProjectAccess

CONSTANTS Tokens  \* identities (jti) of refresh tokens, in the order in which they are given out

ASSUME TokenAssumption == Tokens \subseteq Nat

VARIABLES
    tokens,  \* the refresh tokens: whose, and whether Redis has the identity
    spent    \* tokens with which a refresh was answered after Redis had known them

SessionKinds == {"register", "login", "refresh"}
sessionVars == <<tokens, spent>>

Unissued == [stored |-> FALSE, user |-> Founder, issued |-> FALSE]

\* Somebody may have signed in.
SessionInit ==
    /\ \E u \in Users :
           tokens = [t \in Tokens |-> IF "signed_in" \in mix /\ \A s \in Tokens : t <= s
                                      THEN [stored |-> TRUE, user |-> u, issued |-> TRUE]
                                      ELSE Unissued]
    /\ spent = {}

\* A new pair of tokens: the identity is stored, and the request answered.  The supply
\* of identities is a bound.
Issue(h) ==
    /\ \E t \in Tokens :
           /\ ~tokens[t].issued /\ \A s \in Tokens : s < t => tokens[s].issued
           /\ tokens' = [tokens EXCEPT ![t] =
                  [stored |-> TRUE, user |-> By(h), issued |-> TRUE]]
    /\ Answer(h)

\* The email address is free.
ReceiveRegistration(h) ==
    \E u \in Users : ~users[u].there /\ Call(h, "register", u, Nothing, "insert")

\* Email addresses are unique.
InsertUser(h) ==
    /\ req[h].kind = "register" /\ req[h].pc = "insert"
    /\ IF users[By(h)].there THEN UNCHANGED users /\ Refuse(h)
       ELSE /\ users' = [users EXCEPT ![By(h)] =
                  [there |-> TRUE, active |-> TRUE, admin |-> FALSE]]
            /\ Goto(h, "store")
    /\ UNCHANGED <<lifecycle, selfApprove, roles, grants, memberVars, mix, sessionVars>>

\* With the right password.
ReceiveLogin(h) ==
    \E u \in Users : Authenticated(u) /\ Call(h, "login", u, Nothing, "store")

StoreFirst(h) ==
    /\ req[h].kind \in {"register", "login"} /\ req[h].pc = "store"
    /\ Issue(h)
    /\ UNCHANGED <<accessVars, spent>>

\* late: a refresh with this token had been answered when the request came in.
ReceiveRefresh(h) ==
    \E t \in Tokens :
        /\ tokens[t].issued
        /\ Call(h, "refresh", tokens[t].user, [token |-> t, late |-> t \in spent], "get")

-----------------------------------------------------------------------------
(* refresh *)

GetToken(h) ==
    /\ req[h].kind = "refresh" /\ req[h].pc = "get"
    /\ IF tokens[req[h].arg.token].stored THEN Goto(h, "delete") ELSE Refuse(h)
    /\ UNCHANGED <<accessVars, sessionVars>>

\* Mutant: only a refresh that succeeds deletes the identity.
KeepToken(h) ==
    /\ req[h].kind = "refresh" /\ req[h].pc = "delete"
    /\ tokens' = IF users[By(h)].active
                 THEN [tokens EXCEPT ![req[h].arg.token].stored = FALSE] ELSE tokens
    /\ Goto(h, "user")
    /\ UNCHANGED <<accessVars, spent>>

\* Whether there was something to delete is not looked at.
DeleteToken(h) ==
    /\ req[h].kind = "refresh" /\ req[h].pc = "delete"
    /\ tokens' = [tokens EXCEPT ![req[h].arg.token].stored = FALSE]
    /\ Goto(h, "user")
    /\ UNCHANGED <<accessVars, spent>>

Spend(h) == spent' = spent \cup {req[h].arg.token}

SeeUser(h) ==
    /\ req[h].kind = "refresh" /\ req[h].pc = "user"
    /\ IF Authenticated(By(h)) THEN Goto(h, "renew") /\ UNCHANGED spent
                               ELSE Refuse(h) /\ Spend(h)
    /\ UNCHANGED <<accessVars, tokens>>

StoreNext(h) ==
    /\ req[h].kind = "refresh" /\ req[h].pc = "renew"
    /\ Issue(h)
    /\ Spend(h)
    /\ UNCHANGED accessVars

\* After refresh_token_expire_days.
ExpireToken(t) ==
    /\ tokens[t].stored
    /\ tokens' = [tokens EXCEPT ![t].stored = FALSE]
    /\ UNCHANGED <<accessVars, spent, req>>

SessionStep(h) ==
    \/ /\ Listening(h, SessionKinds)
       /\ ReceiveRegistration(h) \/ ReceiveLogin(h) \/ ReceiveRefresh(h)
       /\ UNCHANGED <<accessVars, sessionVars>>
    \/ InsertUser(h) \/ StoreFirst(h) \/ GetToken(h) \/ DeleteToken(h) \/ SeeUser(h)
    \/ StoreNext(h)

SessionCalls ==
    [kind : {"register", "login"}, arg : {Nothing}]
    \cup [kind : {"refresh"}, arg : [token : Tokens, late : BOOLEAN]]
=============================================================================
