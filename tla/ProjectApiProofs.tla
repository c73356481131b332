-------------------------- MODULE ProjectApiProofs --------------------------
(***************************************************************************)
(* Proofs about the API of a project, for any users, roles, handlers and   *)
(* mixes of requests.                                                      *)
(*                                                                         *)
(* What a handler decides is that something was so when it looked, and     *)
(* what was so while a request is in progress stays among what is held of  *)
(* its requester (Accrues).  So a request that has got to a program point  *)
(* has Passed what lies before it, and keeps having passed it whatever     *)
(* others do to the rows meanwhile (GrowingPasses).  That gives the        *)
(* theorems on authority.  The others need what is known of the rows that  *)
(* a handler has loaded: that the author of a merge request and a computed *)
(* configuration are still good when they are used, that the token under a *)
(* key is of that account, that a row being created has its handler, and   *)
(* that a token in the store has not been spent.                           *)
(***************************************************************************)
EXTENDS ProjectApi, TLAPS

-----------------------------------------------------------------------------
(* The invariant. *)

ProjectKinds == MemberKinds \cup SettingsKinds \cup AirflowKinds \cup MergeKinds \cup InstanceKinds
Kinds == ProjectKinds \cup AccountKinds \cup SessionKinds

\* The request r at another program point, and with something else read.
With(r, pc, got) ==
    [kind |-> r.kind, by |-> r.by, admin |-> r.admin, arg |-> r.arg, pc |-> pc, got |-> got]

\* The program points of a request.
PcsOf(kind) ==
    IF kind \in AccountKinds THEN {"commit"}
    ELSE IF kind = "register" THEN {"insert", "store"}
    ELSE IF kind = "login" THEN {"store"}
    ELSE IF kind = "refresh" THEN {"get", "delete", "user", "renew"}
    ELSE {"project", "member"} \cup
         IF kind \in AirflowKinds
         THEN {"account", "permission", "grants", "context", "mint", "forward"}
         ELSE IF kind \in MergeKinds THEN {"rows", "role", "commit"}
         ELSE IF kind = "provision" THEN {"rows", "insert", "refresh", "commit"}
         ELSE {"authority", "rows", "count", "commit"}

InProgress(r) ==
    /\ r = With(r, r.pc, r.got)
    /\ r.by \in Users /\ r.admin \in BOOLEAN
    /\ r.kind \in Kinds /\ r.pc \in PcsOf(r.kind)
    /\ [kind |-> r.kind, arg |-> r.arg] \in Calls

RequestsOK ==
    /\ req = [h \in Handlers |-> req[h]]
    /\ \A h \in Handlers : req[h] = Idle \/ InProgress(req[h])

Super(f) == {"active", "admin"} \subseteq f.is
AccountsOf(f) == {Account(role) : role \in f.as}

\* What a request r has passed at its program point, where f is what its requester was
\* and had since it came in.
PassedGate(r, f) ==
    /\ r.kind \notin SessionKinds => "active" \in f.is /\ (r.admin => "admin" \in f.is)
    /\ r.kind \in AccountKinds \cup {"provision", "delete"} => r.admin
    /\ r.kind \in ProjectKinds /\ r.pc # "project" => "ready" \in f.is
    /\ r.kind \in ProjectKinds /\ r.pc \notin {"project", "member"} => f.as # {}
    /\ r.kind \in AdminGated /\ r.pc \notin {"project", "member", "authority"} =>
          r.admin \/ "project_admin" \in f.as

PassedProxy(r, f) ==
    r.kind \in AirflowKinds =>
        /\ r.pc \in {"permission", "grants", "context", "mint"} => r.got.account \in AccountsOf(f)
        /\ r.pc = "permission" => r.got.member.role \in f.as
        /\ r.pc = "grants" => r.got.role \in f.as
        /\ r.pc \in {"context", "mint", "forward"} => r.admin \/ Permits(f.may, r.arg.need)
        /\ r.pc = "forward" => r.got.token \in AccountsOf(f)

PassedMerge(r, f) ==
    /\ r.kind \in {"merge", "close"} /\ r.pc \in {"member", "rows", "role"} /\ r.got.self =>
          "self" \in f.is
    /\ r.kind = "open" /\ r.pc = "commit" => r.admin \/ f.as \cap Developers # {}
    /\ r.kind = "merge" /\ r.pc = "commit" =>
          /\ r.admin \/ f.as \cap Maintainers # {}
          /\ r.got.author = r.by => "self" \in f.is
    /\ r.kind = "close" /\ r.pc = "commit" =>
          r.got.author = r.by \/ r.admin \/ f.as \cap Maintainers # {}

Passed(r, f) == PassedGate(r, f) /\ PassedProxy(r, f) /\ PassedMerge(r, f)

HeldOK == \A h \in Handlers : req[h] # Idle => Passed(req[h], held[h])

-----------------------------------------------------------------------------
(* The data, and what the requests in progress know of them. *)

UserRows == [there : BOOLEAN, active : BOOLEAN, admin : BOOLEAN]
MemberRows == [row : 1 .. lastRow, role : roles]

AccessOK ==
    /\ lifecycle \in {"READY", "DELETING"} /\ selfApprove \in BOOLEAN
    /\ users \in [Users -> UserRows]
    /\ roles \subseteq Roles
    /\ grants \in [Roles -> SUBSET ({View, Run, WholeProject, Everything} \cup Grantable)]
    /\ lastRow \in 1 .. MaxRow
    /\ members \in [Users -> {NoRow} \cup MemberRows]
    /\ \A u, v \in Users : members[u].row = members[v].row => u = v \/ members[u] = NoRow
    /\ \A h \in Handlers :
           req[h].kind = "change" /\ req[h].pc = "commit" => req[h].got.row # 0

Sealed(c) ==
    c \in [url : Urls, auth : AuthTypes, secret : BOOLEAN] /\ (c.auth = "token" => c.secret)

\* An update computes from a row that was as it must be; a row does not go away.
ConfigOK ==
    /\ config = NoConfig \/ Sealed(config)
    /\ \A h \in Handlers :
           req[h].kind = "git" /\ req[h].pc = "commit" =>
               /\ Sealed(req[h].got.old) /\ Acceptable(req[h].arg, req[h].got.old)
               /\ req[h].got.insert \in BOOLEAN
               /\ ~req[h].got.insert => config # NoConfig

EnvironmentsOK ==
    /\ environments \in [EnvironmentNames -> 0 .. lastRow]
    /\ \A m, n \in EnvironmentNames :
           environments[m] = environments[n] => m = n \/ environments[m] = 0

\* The author of a merge request is who a handler has seen.
MergesOK ==
    /\ mrs \in [MergeIds -> {NoMerge} \cup [author : Users, status : {"open", "merged", "closed"}]]
    /\ \A h \in Handlers :
           req[h].kind \in {"merge", "close"} /\ req[h].pc \in {"role", "commit"} =>
               /\ Opened(req[h].arg.of)
               /\ req[h].got.author = mrs[req[h].arg.of].author

\* Under each key, a token of that account.
ProxyOK ==
    /\ cookies \subseteq Users
    /\ cache \in [Accounts -> Accounts \cup {NoToken}]
    /\ \A key \in Accounts : cache[key] \in {key, NoToken}

\* Handlers that will set a row to running.
Running(r) ==
    \/ r.kind = "provision" /\ r.pc \in {"refresh", "commit"}
    \/ r.kind = "restart" /\ r.pc = "commit"

InstancesOK ==
    /\ instance \in {NoInstance} \cup [row : 1 .. lastRow, status : {"creating", "running"}]
    /\ abandoned \subseteq 1 .. lastRow
    /\ \A h \in Handlers :
           Running(req[h]) =>
               /\ req[h].got.row \in 1 .. lastRow
               /\ req[h].got.row = instance.row /\ req[h].got.status = "running" =>
                      instance.status = "running"
    /\ CreatingIsInFlight

SessionsOK ==
    /\ tokens \in [Tokens -> [stored : BOOLEAN, user : Users, issued : BOOLEAN]]
    /\ spent \subseteq Tokens
    /\ \A t \in spent : tokens[t].issued /\ ~tokens[t].stored
    /\ \A h \in Handlers :
           req[h].kind = "refresh" =>
               /\ tokens[req[h].arg.token].issued
               /\ req[h].pc \in {"user", "renew"} => ~tokens[req[h].arg.token].stored
               /\ req[h].arg.late => req[h].arg.token \in spent /\ req[h].pc = "get"

IInv ==
    /\ RequestsOK /\ HeldOK /\ AccessOK /\ ConfigOK /\ EnvironmentsOK /\ MergesOK /\ ProxyOK
    /\ InstancesOK /\ SessionsOK

-----------------------------------------------------------------------------
(* What is held of a requester. *)

Grows(f, g) == f.is \subseteq g.is /\ f.as \subseteq g.as /\ f.may \subseteq g.may

LEMMA GrowingPasses ==
    ASSUME NEW r, NEW f, NEW g, Grows(f, g), Passed(r, f)
    PROVE  Passed(r, g)
<1>1. AccountsOf(f) \subseteq AccountsOf(g)
  BY DEF Grows, AccountsOf
<1>2. \A need : Permits(f.may, need) => Permits(g.may, need)
  BY DEF Grows, Permits
<1>3. PassedGate(r, g)
  BY DEF Passed, PassedGate, Grows
<1>4. PassedProxy(r, g)
  BY <1>1, <1>2 DEF Passed, PassedProxy, Grows
<1>5. PassedMerge(r, g)
  BY DEF Passed, PassedMerge, Grows
<1> QED BY <1>3, <1>4, <1>5 DEF Passed

\* While a request is in progress, what is held grows by what is so after each step.
LEMMA Accrues ==
    ASSUME Observe, NEW h \in Handlers, req'[h].pc # "idle", NEW u \in Users, req'[h].by = u
    PROVE  /\ Grows(held[h], held'[h])
           /\ users'[u].there /\ users'[u].active => "active" \in held'[h].is
           /\ users'[u].admin => "admin" \in held'[h].is
           /\ lifecycle' = "READY" => "ready" \in held'[h].is
           /\ selfApprove' => "self" \in held'[h].is
           /\ members'[u].row # 0 => members'[u].role \in held'[h].as
           /\ \A role \in held'[h].as : grants'[role] \subseteq held'[h].may
<1>1. held'[h] = Accrue(held[h], Now'[u], grants')
  BY DEF Observe
<1>2. /\ held'[h].is = held[h].is \cup Now'[u].is
      /\ held'[h].as = held[h].as \cup Now'[u].as
      /\ held'[h].may = held[h].may \cup UNION {grants'[r] : r \in held'[h].as}
  BY <1>1 DEF Accrue
<1>3. /\ Now'[u].is = (IF users'[u].there /\ users'[u].active THEN {"active"} ELSE {})
                \cup (IF users'[u].admin THEN {"admin"} ELSE {})
                \cup (IF lifecycle' = "READY" THEN {"ready"} ELSE {})
                \cup (IF selfApprove' THEN {"self"} ELSE {})
      /\ Now'[u].as = IF members'[u].row = 0 THEN {} ELSE {members'[u].role}
  BY DEF Now
<1>4. Grows(held[h], held'[h])
  BY <1>2 DEF Grows
<1>5. /\ users'[u].there /\ users'[u].active => "active" \in held'[h].is
      /\ users'[u].admin => "admin" \in held'[h].is
  BY <1>2, <1>3
<1>6. /\ lifecycle' = "READY" => "ready" \in held'[h].is
      /\ selfApprove' => "self" \in held'[h].is
  BY <1>2, <1>3
<1>7. members'[u].row # 0 => members'[u].role \in held'[h].as
  BY <1>2, <1>3
<1>8. \A role \in held'[h].as : grants'[role] \subseteq held'[h].may
  BY <1>2
<1> QED BY <1>4, <1>5, <1>6, <1>7, <1>8

-----------------------------------------------------------------------------
(* Requests. *)

LEMMA NotIdle == \A r : InProgress(r) => r.pc # "idle" /\ r # Idle
  BY DEF InProgress, PcsOf, Kinds, ProjectKinds, Idle, AccountKinds, SessionKinds

LEMMA Moves ==
    ASSUME RequestsOK, NEW h \in Handlers, NEW pc, NEW got
    PROVE  /\ Answer(h) => req'[h] = Idle
           /\ req[h] # Idle /\ Goto(h, pc) => req'[h] = With(req[h], pc, req[h].got)
           /\ req[h] # Idle /\ Keep(h, pc, got) => req'[h] = With(req[h], pc, got)
           /\ Answer(h) \/ Goto(h, pc) \/ Keep(h, pc, got) =>
                 /\ req' = [k \in Handlers |-> req'[k]]
                 /\ \A k \in Handlers \ {h} : req'[k] = req[k]
<1>1. Answer(h) => req'[h] = Idle
  BY DEF RequestsOK, Answer
<1>2. ASSUME req[h] # Idle PROVE Goto(h, pc) => req'[h] = With(req[h], pc, req[h].got)
  BY <1>2 DEF RequestsOK, Goto, InProgress, With
<1>3. ASSUME req[h] # Idle PROVE Keep(h, pc, got) => req'[h] = With(req[h], pc, got)
  BY <1>3 DEF RequestsOK, Keep, InProgress, With
<1>4. Answer(h) \/ Goto(h, pc) \/ Keep(h, pc, got) =>
                 /\ req' = [k \in Handlers |-> req'[k]]
                 /\ \A k \in Handlers \ {h} : req'[k] = req[k]
  BY DEF RequestsOK, Answer, Goto, Keep
<1> QED BY <1>1, <1>2, <1>3, <1>4

Gates == {"project", "member", "authority"}

\* A request that no component but those of the kinds K holds anything of.
Light(r, K) ==
    r = Idle \/ r.kind \in K \/ r.kind = "open" \/ r.pc \in Gates \cup {"rows", "account"}

\* No request becomes one that another component holds something of.
Aside(K) == \A h \in Handlers : req'[h] = req[h] \/ Light(req'[h], K)

OnlyOf(h) == \A k \in Handlers \ {h} : req'[k] = req[k]

\* A handler that has passed the gates of its request of one of the kinds K goes on.
Proceeds(h, K) ==
    /\ req[h] # Idle /\ req[h].kind \in K /\ req[h].pc \notin Gates
    /\ \E pc \in PcsOf(req[h].kind) \ Gates :
           Answer(h) \/ Goto(h, pc) \/ \E got : Keep(h, pc, got)

\* Handlers whose request is unchanged have still passed what they had.
LEMMA OthersHold ==
    ASSUME HeldOK, RequestsOK, RequestsOK', Observe, NEW h \in Handlers,
           OnlyOf(h), req'[h] # Idle => Passed(req'[h], held'[h])
    PROVE  HeldOK'
<1> SUFFICES ASSUME NEW k \in Handlers, req'[k] # Idle
             PROVE  Passed(req'[k], held'[k])
  BY DEF HeldOK
<1>1. CASE k = h
  BY <1>1
<1>2. CASE k # h
  <2>1. req'[k] = req[k] /\ Passed(req[k], held[k])
    BY <1>2 DEF HeldOK, OnlyOf
  <2>2. InProgress(req'[k])
    BY DEF RequestsOK
  <2>3. req'[k].pc # "idle" /\ req'[k].by \in Users
    BY <2>2, NotIdle DEF InProgress
  <2>4. Grows(held[k], held'[k])
    BY <2>3, Accrues
  <2> QED BY <2>1, <2>4, GrowingPasses
<1> QED BY <1>1, <1>2

\* A handler goes on to a program point of its request.
LEMMA Continues ==
    ASSUME RequestsOK, NEW h \in Handlers, req[h] # Idle, NEW pc \in PcsOf(req[h].kind),
           Answer(h) \/ Goto(h, pc) \/ \E got : Keep(h, pc, got)
    PROVE  /\ RequestsOK' /\ OnlyOf(h)
           /\ req'[h] = Idle \/ \E g : req'[h] = With(req[h], pc, g)
<1>1. req'[h] = Idle \/ \E g : req'[h] = With(req[h], pc, g)
  BY Moves
<1>2. InProgress(req[h])
  BY DEF RequestsOK
<1>3. \A g : InProgress(With(req[h], pc, g))
  BY <1>2 DEF InProgress, With
<1>4. req' = [k \in Handlers |-> req'[k]] /\ OnlyOf(h)
  BY Moves DEF OnlyOf
<1>5. RequestsOK'
  BY <1>1, <1>3, <1>4 DEF RequestsOK, OnlyOf
<1> QED BY <1>1, <1>4, <1>5

LEMMA Proceeded ==
    ASSUME RequestsOK, NEW h \in Handlers, NEW K, Proceeds(h, K)
    PROVE  /\ RequestsOK' /\ OnlyOf(h) /\ Aside(K)
           /\ req'[h] = Idle \/ \E pc \in PcsOf(req[h].kind) \ Gates : \E g : req'[h] = With(req[h], pc, g)
<1>1. PICK pc \in PcsOf(req[h].kind) \ Gates :
          Answer(h) \/ Goto(h, pc) \/ \E got : Keep(h, pc, got)
  BY DEF Proceeds
<1>2. /\ RequestsOK' /\ OnlyOf(h)
      /\ req'[h] = Idle \/ \E g : req'[h] = With(req[h], pc, g)
  BY <1>1, Continues DEF Proceeds
<1>3. Light(req'[h], K)
  <2>1. CASE req'[h] = Idle
    BY <2>1 DEF Light
  <2>2. ASSUME NEW g, req'[h] = With(req[h], pc, g) PROVE req'[h].kind \in K
    BY <2>2 DEF Proceeds, With
  <2> QED BY <1>2, <2>1, <2>2 DEF Light
<1> QED BY <1>1, <1>2, <1>3 DEF Aside, OnlyOf

\* Beyond the gates, nothing more is held of requests but those for Airflow and merges.
LEMMA ProceededHeld ==
    ASSUME RequestsOK, HeldOK, Observe, NEW h \in Handlers, NEW K, Proceeds(h, K),
           K \cap (AirflowKinds \cup MergeKinds) = {}
    PROVE  RequestsOK' /\ HeldOK' /\ OnlyOf(h) /\ Aside(K)
<1>1. /\ RequestsOK' /\ OnlyOf(h) /\ Aside(K)
      /\ req'[h] = Idle \/ \E pc \in PcsOf(req[h].kind) \ Gates : \E g : req'[h] = With(req[h], pc, g)
  BY Proceeded
<1>2. /\ InProgress(req[h]) /\ Passed(req[h], held[h]) /\ req[h].pc \notin Gates
      /\ req[h].kind \notin AirflowKinds \cup MergeKinds
  BY DEF RequestsOK, HeldOK, Proceeds
<1>3. ASSUME req'[h] # Idle PROVE Passed(req'[h], held'[h])
  <2>1. PICK pc \in PcsOf(req[h].kind) \ Gates : \E g : req'[h] = With(req[h], pc, g)
    BY <1>1, <1>3
  <2>9. PICK g : req'[h] = With(req[h], pc, g)
    BY <2>1
  <2>2. InProgress(req'[h])
    BY <1>1, <1>3 DEF RequestsOK
  <2>3. Grows(held[h], held'[h])
    BY <2>2, NotIdle, Accrues DEF InProgress
  <2>4. Passed(req[h], held'[h])
    BY <1>2, <2>3, GrowingPasses
  <2>5. PassedGate(req'[h], held'[h])
    BY <2>9, <2>4, <1>2 DEF Passed, PassedGate, With, Gates
  <2>6. PassedProxy(req'[h], held'[h])
    BY <1>2, <2>9 DEF PassedProxy, With
  <2>7. PassedMerge(req'[h], held'[h])
    BY <1>2, <2>9 DEF PassedMerge, With, MergeKinds
  <2> QED BY <2>5, <2>6, <2>7 DEF Passed
<1>4. HeldOK'
  BY <1>1, <1>3, OthersHold
<1> QED BY <1>1, <1>4

\* A request comes in.
LEMMA Arrives ==
    ASSUME RequestsOK, HeldOK, Observe, NEW h \in Handlers, NEW kind \in Kinds, NEW u \in Users,
           NEW arg, NEW pc \in PcsOf(kind), users[u].admin \in BOOLEAN, users' = users,
           [kind |-> kind, arg |-> arg] \in Calls, Call(h, kind, u, arg, pc),
           pc # "project" => kind \in AccountKinds \cup SessionKinds,
           kind \notin SessionKinds => Authenticated(u),
           kind \in AccountKinds \cup {"provision", "delete"} => users[u].admin
    PROVE  /\ RequestsOK' /\ HeldOK' /\ OnlyOf(h) /\ req[h] = Idle
           /\ req'[h] = [kind |-> kind, by |-> u, admin |-> users[u].admin, arg |-> arg,
                         pc |-> pc, got |-> Nothing]
<1> DEFINE r == [kind |-> kind, by |-> u, admin |-> users[u].admin, arg |-> arg,
                 pc |-> pc, got |-> Nothing]
<1>1. req[h] = Idle
  BY NotIdle DEF RequestsOK, Call, Listening
<1>2. req'[h] = r /\ req' = [k \in Handlers |-> req'[k]] /\ OnlyOf(h)
  BY DEF RequestsOK, Call, OnlyOf
<1>3. InProgress(r)
  BY DEF InProgress, With
<1>4. RequestsOK'
  BY <1>2, <1>3 DEF RequestsOK, OnlyOf
<1>5. Passed(r, held'[h])
  <2>1. req'[h].pc # "idle" /\ req'[h].by = u
    BY <1>2, <1>3, NotIdle
  <2>2. /\ users[u].there /\ users[u].active => "active" \in held'[h].is
        /\ users[u].admin => "admin" \in held'[h].is
    BY <2>1, Accrues
  <2>3. PassedGate(r, held'[h])
    BY <2>2 DEF PassedGate, Authenticated, ProjectKinds, AccountKinds, SessionKinds, AdminGated,
                MemberKinds, SettingsKinds, AirflowKinds, MergeKinds, InstanceKinds
  <2>4. PassedProxy(r, held'[h]) /\ PassedMerge(r, held'[h])
    BY DEF PassedProxy, PassedMerge, AccountKinds, SessionKinds, AirflowKinds
  <2> QED BY <2>3, <2>4 DEF Passed
<1>6. HeldOK'
  BY <1>2, <1>4, <1>5, OthersHold
<1> QED BY <1>1, <1>2, <1>4, <1>6

-----------------------------------------------------------------------------
(* The gates. *)

LEMMA KindsApart ==
    /\ \A kind \in ProjectKinds : kind \notin AccountKinds \cup SessionKinds
    /\ \A kind \in AirflowKinds : kind \notin AdminGated \cup MergeKinds
    /\ \A kind \in MergeKinds : kind \notin AdminGated
  BY DEF ProjectKinds, AccountKinds, SessionKinds, AdminGated, MemberKinds, SettingsKinds,
         AirflowKinds, MergeKinds, InstanceKinds

LEMMA GatePcs ==
    ASSUME NEW r, InProgress(r), r.pc \in Gates
    PROVE  /\ r.kind \in ProjectKinds
           /\ r.pc = "authority" => r.kind \notin AirflowKinds \cup MergeKinds
<1>1. r.kind \in Kinds /\ r.pc \in PcsOf(r.kind)
  BY DEF InProgress
<1>2. r.kind \in ProjectKinds
  BY <1>1 DEF Kinds, PcsOf, AccountKinds, SessionKinds, Gates
<1>3. r.pc = "authority" => r.kind \notin AirflowKinds \cup MergeKinds
  BY <1>1, <1>2, KindsApart DEF PcsOf, MergeKinds, AirflowKinds, AccountKinds, SessionKinds
<1> QED BY <1>2, <1>3

LEMMA AfterGatePcs ==
    \A kind \in ProjectKinds :
        /\ AfterGate(kind) \in PcsOf(kind) /\ AfterGate(kind) \notin {"project", "member"}
        /\ AfterGate(kind) = "authority" <=> kind \in AdminGated
        /\ kind \in AirflowKinds => AfterGate(kind) = "account"
        /\ kind \in MergeKinds => AfterGate(kind) = IF kind = "open" THEN "role" ELSE "rows"
        /\ kind = "open" \/ AfterGate(kind) \in {"authority", "account", "rows"}
  BY DEF ProjectKinds, AccountKinds, SessionKinds, AdminGated, MemberKinds, SettingsKinds,
         AirflowKinds, MergeKinds, InstanceKinds, AfterGate, PcsOf

\* What the gate at which a request is lets it go on to, and what that says of it.
LEMMA GateOpens ==
    ASSUME RequestsOK, HeldOK, Observe, NEW h \in Handlers, Gate(h), req'[h] # Idle
    PROVE  /\ req[h].pc \in Gates /\ InProgress(req[h]) /\ UNCHANGED accessVars
           /\ \E pc \in PcsOf(req[h].kind) :
                  /\ Goto(h, pc) \/ \E got : Keep(h, pc, got)
                  /\ pc \in {"member", "authority", "account", "rows"} \/ req[h].kind = "open"
                  /\ Passed(req'[h], held'[h])
<1>1. PICK r : r = req[h]
  OBVIOUS
<1>2. r.pc \in Gates /\ UNCHANGED accessVars
  BY <1>1 DEF Gate, SeeProject, SeeMembership, SeeAuthority, Gates
<1>3. InProgress(r) /\ r # Idle /\ r.by \in Users /\ Passed(r, held[h])
  <2>1. r # Idle
    BY <1>2 DEF Idle, Gates
  <2> QED BY <1>1, <2>1 DEF RequestsOK, HeldOK, InProgress
<1>4. r.kind \in ProjectKinds /\ (r.pc = "authority" => r.kind \notin AirflowKinds \cup MergeKinds)
  BY <1>2, <1>3, GatePcs
<1>5. ASSUME NEW pc, NEW got, req'[h] = With(r, pc, got), pc # "idle"
      PROVE  /\ Grows(held[h], held'[h]) /\ Passed(r, held'[h])
             /\ lifecycle = "READY" => "ready" \in held'[h].is
             /\ selfApprove => "self" \in held'[h].is
             /\ members[r.by].row # 0 => members[r.by].role \in held'[h].as
  <2>1. req'[h].pc # "idle" /\ req'[h].by = r.by
    BY <1>5 DEF With
  <2>2. /\ Grows(held[h], held'[h])
        /\ lifecycle = "READY" => "ready" \in held'[h].is
        /\ selfApprove => "self" \in held'[h].is
        /\ members[r.by].row # 0 => members[r.by].role \in held'[h].as
    BY <1>2, <1>3, <2>1, Accrues DEF accessVars, memberVars
  <2> QED BY <1>3, <2>2, GrowingPasses
<1>6. CASE SeeProject(h)
  <2>1. /\ r.pc = "project" /\ lifecycle = "READY" /\ Keep(h, "member", [self |-> selfApprove])
    BY <1>1, <1>6, Moves DEF SeeProject, Refuse
  <2>2. req'[h] = With(r, "member", [self |-> selfApprove])
    BY <1>1, <1>3, <2>1, Moves
  <2>3. Passed(req'[h], held'[h])
    BY <1>4, <1>5, <2>1, <2>2, KindsApart
       DEF Passed, PassedGate, PassedProxy, PassedMerge, With
  <2>4. "member" \in PcsOf(r.kind)
    BY <1>4, KindsApart DEF PcsOf, AccountKinds, SessionKinds
  <2> QED BY <1>1, <1>2, <1>3, <2>1, <2>3, <2>4
<1>7. CASE SeeMembership(h)
  <2> DEFINE pc == AfterGate(r.kind)
  <2>1. r.pc = "member" /\ members[r.by].row # 0 /\ Goto(h, pc)
    BY <1>1, <1>7, Moves DEF SeeMembership, Refuse, By
  <2>2. req'[h] = With(r, pc, r.got)
    BY <1>1, <1>3, <2>1, Moves
  <2>3. /\ pc \in PcsOf(r.kind) /\ pc \notin {"project", "member", "idle"}
        /\ pc = "authority" <=> r.kind \in AdminGated
        /\ r.kind \in AirflowKinds => pc = "account"
        /\ r.kind \in MergeKinds => pc = IF r.kind = "open" THEN "role" ELSE "rows"
        /\ r.kind = "open" \/ pc \in {"authority", "account", "rows"}
    <3>1. pc # "idle"
      BY DEF AfterGate
    <3> QED BY <1>4, <3>1, AfterGatePcs
  <2>4. Passed(r, held'[h]) /\ held'[h].as # {}
    BY <1>5, <2>1, <2>2, <2>3
  <2> HIDE DEF pc
  <2>5. PassedGate(With(r, pc, r.got), held'[h])
    BY <2>1, <2>3, <2>4 DEF Passed, PassedGate, With
  <2>6. PassedProxy(With(r, pc, r.got), held'[h]) /\ PassedMerge(With(r, pc, r.got), held'[h])
    BY <2>1, <2>3, <2>4 DEF Passed, PassedProxy, PassedMerge, MergeKinds, With
  <2> QED BY <1>1, <1>2, <1>3, <2>1, <2>2, <2>3, <2>5, <2>6 DEF Passed
<1>8. CASE SeeAuthority(h)
  <2>1. /\ r.pc = "authority"
        /\ r.admin \/ (members[r.by].row # 0 /\ members[r.by].role = "project_admin")
        /\ Goto(h, "rows")
    BY <1>1, <1>8, Moves DEF SeeAuthority, Refuse, By, Is
  <2>2. req'[h] = With(r, "rows", r.got)
    BY <1>1, <1>3, <2>1, Moves
  <2>3. Passed(r, held'[h]) /\ (r.admin \/ "project_admin" \in held'[h].as)
    BY <1>5, <2>1, <2>2
  <2>4. PassedGate(With(r, "rows", r.got), held'[h])
    BY <2>1, <2>3 DEF Passed, PassedGate, With
  <2>5. PassedProxy(With(r, "rows", r.got), held'[h]) /\ PassedMerge(With(r, "rows", r.got), held'[h])
    BY <1>4, <2>1 DEF PassedProxy, PassedMerge, MergeKinds, With
  <2>6. "rows" \in PcsOf(r.kind)
    BY <1>4, <2>1, KindsApart DEF PcsOf, AccountKinds, SessionKinds
  <2> QED BY <1>1, <1>2, <1>3, <2>1, <2>2, <2>4, <2>5, <2>6 DEF Passed
<1> QED BY <1>6, <1>7, <1>8 DEF Gate

LEMMA GateKeeps ==
    ASSUME RequestsOK, HeldOK, Observe, NEW h \in Handlers, Gate(h)
    PROVE  /\ RequestsOK' /\ HeldOK' /\ OnlyOf(h) /\ Aside({})
           /\ req[h].pc \in Gates /\ req[h].kind \in ProjectKinds
           /\ UNCHANGED accessVars
<1>1. req[h].pc \in Gates /\ UNCHANGED accessVars
  BY DEF Gate, SeeProject, SeeMembership, SeeAuthority, Gates
<1>2. req[h] # Idle /\ InProgress(req[h])
  BY <1>1 DEF Idle, Gates, RequestsOK
<1>3. req[h].kind \in ProjectKinds
  BY <1>1, <1>2, GatePcs
<1>4. CASE req'[h] = Idle
  <2>1. OnlyOf(h) /\ req' = [k \in Handlers |-> req'[k]]
    BY Moves DEF OnlyOf, Gate, SeeProject, SeeMembership, SeeAuthority, Refuse
  <2>2. RequestsOK'
    BY <1>4, <2>1 DEF RequestsOK, OnlyOf
  <2>3. HeldOK' /\ Aside({})
    BY <1>4, <2>1, <2>2, OthersHold DEF Aside, Light, OnlyOf
  <2> QED BY <1>1, <1>3, <2>1, <2>2, <2>3
<1>5. CASE req'[h] # Idle
  <2>1. PICK pc \in PcsOf(req[h].kind) :
                  /\ Goto(h, pc) \/ \E got : Keep(h, pc, got)
                  /\ pc \in {"member", "authority", "account", "rows"} \/ req[h].kind = "open"
                  /\ Passed(req'[h], held'[h])
    BY <1>5, GateOpens
  <2>2. /\ RequestsOK' /\ OnlyOf(h)
        /\ req'[h] = Idle \/ \E g : req'[h] = With(req[h], pc, g)
    BY <1>2, <2>1, Continues
  <2>3. PICK g : req'[h] = With(req[h], pc, g)
    BY <1>5, <2>2
  <2>4. Light(req'[h], {})
    BY <2>1, <2>3 DEF Light, With, Gates
  <2>5. HeldOK' /\ Aside({})
    BY <2>1, <2>2, <2>4, OthersHold DEF Aside, OnlyOf
  <2> QED BY <1>1, <1>3, <2>2, <2>5
<1> QED BY <1>4, <1>5

-----------------------------------------------------------------------------
(* What a step does not disturb. *)

LEMMA AccessStays ==
    ASSUME AccessOK, UNCHANGED <<roles, grants, members>>,
           lifecycle' \in {"READY", "DELETING"}, selfApprove' \in BOOLEAN,
           users' \in [Users -> UserRows], lastRow' \in lastRow .. MaxRow,
           NEW K, "change" \notin K, Aside(K)
    PROVE  AccessOK'
<1>1. lastRow' \in 1 .. MaxRow /\ \A row \in 1 .. lastRow : row \in 1 .. lastRow'
  BY RowAssumption DEF AccessOK
<1>2. members' \in [Users -> {NoRow} \cup MemberRows']
  BY <1>1 DEF AccessOK, MemberRows
<1>3. ASSUME NEW h \in Handlers, req'[h].kind = "change", req'[h].pc = "commit"
      PROVE  req'[h].got.row # 0
  <2>1. req'[h] = req[h]
    BY <1>3 DEF Aside, Light, Gates, Idle
  <2> QED BY <1>3, <2>1 DEF AccessOK
<1> QED BY <1>1, <1>2, <1>3 DEF AccessOK

LEMMA ConfigStays ==
    ASSUME ConfigOK, UNCHANGED config, NEW K, "git" \notin K, Aside(K)
    PROVE  ConfigOK'
<1>1. ASSUME NEW h \in Handlers, req'[h].kind = "git", req'[h].pc = "commit"
      PROVE  req'[h] = req[h]
  BY <1>1 DEF Aside, Light, Gates, Idle
<1> QED BY <1>1 DEF ConfigOK

LEMMA EnvironmentsStay ==
    ASSUME EnvironmentsOK, AccessOK, UNCHANGED environments, lastRow' \in lastRow .. MaxRow
    PROVE  EnvironmentsOK'
<1>1. \A row \in 0 .. lastRow : row \in 0 .. lastRow'
  BY RowAssumption DEF AccessOK
<1> QED BY <1>1 DEF EnvironmentsOK

LEMMA MergesStay ==
    ASSUME MergesOK, UNCHANGED mrs, NEW K, K \cap {"merge", "close"} = {}, Aside(K)
    PROVE  MergesOK'
<1>1. ASSUME NEW h \in Handlers, req'[h].kind \in {"merge", "close"}, req'[h].pc \in {"role", "commit"}
      PROVE  req'[h] = req[h]
  BY <1>1 DEF Aside, Light, Gates, Idle
<1> QED BY <1>1 DEF MergesOK, Opened

LEMMA ProxyStays ==
    ASSUME ProxyOK, UNCHANGED airflowVars
    PROVE  ProxyOK'
  BY DEF ProxyOK, airflowVars

LEMMA InstancesStay ==
    ASSUME InstancesOK, AccessOK, UNCHANGED instance, lastRow' \in lastRow .. MaxRow,
           NEW K, K \cap {"provision", "restart"} = {}, Aside(K),
           abandoned \subseteq abandoned', abandoned' \subseteq 1 .. lastRow',
           \A h \in Handlers : Provisioning(h) =>
               req'[h] = req[h] \/ req[h].got.row \in abandoned'
    PROVE  InstancesOK'
<1>1. \A row \in 1 .. lastRow : row \in 1 .. lastRow'
  BY RowAssumption DEF AccessOK
<1>2. ASSUME NEW h \in Handlers, Running(req'[h])
      PROVE  req'[h] = req[h]
  BY <1>2 DEF Aside, Light, Gates, Idle, Running
<1>3. CreatingIsInFlight'
  <2> SUFFICES ASSUME instance.status = "creating", instance.row \notin abandoned'
               PROVE  \E h \in Handlers : Provisioning(h)' /\ req'[h].got.row = instance.row
    BY DEF CreatingIsInFlight
  <2>1. PICK h \in Handlers : Provisioning(h) /\ req[h].got.row = instance.row
    BY DEF InstancesOK, CreatingIsInFlight
  <2>2. req'[h] = req[h]
    BY <2>1
  <2> QED BY <2>1, <2>2 DEF Provisioning
<1>4. instance' \in {NoInstance} \cup [row : 1 .. lastRow', status : {"creating", "running"}]
  BY <1>1 DEF InstancesOK
<1>5. \A h \in Handlers : Running(req'[h]) =>
          /\ req'[h].got.row \in 1 .. lastRow'
          /\ req'[h].got.row = instance'.row /\ req'[h].got.status = "running" =>
                 instance'.status = "running"
  BY <1>1, <1>2 DEF InstancesOK
<1> QED BY <1>3, <1>4, <1>5 DEF InstancesOK, Running

LEMMA SessionsStay ==
    ASSUME SessionsOK, UNCHANGED sessionVars, NEW K, "refresh" \notin K, Aside(K),
           RequestsOK'
    PROVE  SessionsOK'
<1>1. ASSUME NEW h \in Handlers, req'[h].kind = "refresh"
      PROVE  req'[h] = req[h]
  <2>1. InProgress(req'[h])
    BY <1>1 DEF RequestsOK, Idle
  <2>2. req'[h].pc \in {"get", "delete", "user", "renew"}
    BY <1>1, <2>1 DEF InProgress, PcsOf, AccountKinds
  <2> QED BY <1>1, <2>2 DEF Aside, Light, Gates, Idle
<1> QED BY <1>1 DEF SessionsOK, sessionVars

\* What the requests of a kind are about.
LEMMA Arguments ==
    ASSUME NEW r, InProgress(r)
    PROVE  /\ r.kind \in {"add", "change"} => r.arg \in [to : Users, role : Roles]
           /\ r.kind = "remove" => r.arg.to \in Users
           /\ r.kind = "user" => r.arg \in [to : Users, active : BOOLEAN, admin : BOOLEAN]
           /\ r.kind \in {"create_role", "delete_role"} => r.arg.role \in Roles
           /\ r.kind \in {"permit", "forbid"} => r.arg \in [role : Roles, permission : Grantable]
           /\ r.kind \in AirflowKinds => r.arg.need \in {View, Run}
           /\ r.kind \in {"merge", "close"} => r.arg.of \in MergeIds
           /\ r.kind = "settings" => r.arg.on \in BOOLEAN
           /\ r.kind = "git" => r.arg \in GitBodies
           /\ r.kind = "environment" => r.arg \in EnvironmentBodies
           /\ r.kind = "refresh" => r.arg \in [token : Tokens, late : BOOLEAN]
<1>1. [kind |-> r.kind, arg |-> r.arg] \in Calls
  BY DEF InProgress
<1> USE DEF Calls, MemberCalls, ProxyCalls, MergeCalls, SettingsCalls, InstanceCalls, SessionCalls,
            AirflowKinds, InstanceKinds
<1>2. r.kind \in {"add", "change"} => r.arg \in [to : Users, role : Roles]
  BY <1>1
<1>3. r.kind = "remove" => r.arg.to \in Users
  BY <1>1
<1>4. r.kind = "user" => r.arg \in [to : Users, active : BOOLEAN, admin : BOOLEAN]
  BY <1>1
<1>5. r.kind \in {"create_role", "delete_role"} => r.arg.role \in Roles
  BY <1>1
<1>6. r.kind \in {"permit", "forbid"} => r.arg \in [role : Roles, permission : Grantable]
  BY <1>1
<1>7. r.kind \in AirflowKinds => r.arg.need \in {View, Run}
  BY <1>1
<1>8. r.kind \in {"merge", "close"} => r.arg.of \in MergeIds
  BY <1>1
<1>9. r.kind = "settings" => r.arg.on \in BOOLEAN
  BY <1>1
<1>10. r.kind = "git" => r.arg \in GitBodies
  BY <1>1
<1>11. r.kind = "environment" => r.arg \in EnvironmentBodies
  BY <1>1
<1>12. r.kind = "refresh" => r.arg \in [token : Tokens, late : BOOLEAN]
  BY <1>1
<1> QED BY <1>2, <1>3, <1>4, <1>5, <1>6, <1>7, <1>8, <1>9, <1>10, <1>11, <1>12

-----------------------------------------------------------------------------
(* Steps that change the requests only. *)

data == <<accessVars, airflowVars, mrs, settingsVars, instanceVars, sessionVars>>

\* Kinds of request that a component holds something of.
HeldKinds == {"change", "git", "merge", "close", "provision", "restart", "refresh"}

LEMMA DataStay ==
    ASSUME IInv, RequestsOK', HeldOK', UNCHANGED data,
           NEW K, K \cap HeldKinds = {}, Aside(K),
           \A h \in Handlers : Provisioning(h) => req'[h] = req[h]
    PROVE  IInv'
<1> USE DEF IInv, HeldKinds, data, accessVars, accountVars, memberVars, settingsVars, instanceVars
<1>1. lastRow' \in lastRow .. MaxRow
  BY RowAssumption DEF AccessOK
<1>2. AccessOK'
  BY <1>1, AccessStays DEF AccessOK
<1>3. ConfigOK' /\ EnvironmentsOK' /\ MergesOK'
  BY <1>1, ConfigStays, EnvironmentsStay, MergesStay
<1>4. ProxyOK' /\ SessionsOK'
  BY ProxyStays, SessionsStay
<1>5. InstancesOK'
  <2>1. abandoned \subseteq abandoned' /\ abandoned' \subseteq 1 .. lastRow'
    BY DEF InstancesOK
  <2> QED BY <1>1, <2>1, InstancesStay
<1> QED BY <1>2, <1>3, <1>4, <1>5

LEMMA GateStep ==
    ASSUME IInv, Observe, NEW h \in Handlers, Gate(h), Others
    PROVE  IInv'
<1>1. /\ RequestsOK' /\ HeldOK' /\ OnlyOf(h) /\ Aside({})
      /\ req[h].pc \in Gates /\ UNCHANGED accessVars
  BY GateKeeps DEF IInv
<1>2. \A k \in Handlers : Provisioning(k) => req'[k] = req[k]
  BY <1>1 DEF Provisioning, OnlyOf, Gates
<1>3. UNCHANGED data
  BY <1>1 DEF Others, data
<1> QED BY <1>1, <1>2, <1>3, DataStay

LEMMA ArrivalStep ==
    ASSUME IInv, Observe, NEW h \in Handlers, NEW kind \in Kinds \ {"refresh"}, NEW u \in Users,
           NEW arg, NEW pc \in PcsOf(kind), UNCHANGED data,
           [kind |-> kind, arg |-> arg] \in Calls, Call(h, kind, u, arg, pc),
           pc # "project" => kind \in AccountKinds \cup SessionKinds,
           kind \notin SessionKinds => Authenticated(u),
           kind \in AccountKinds \cup {"provision", "delete"} => users[u].admin
    PROVE  IInv'
<1>1. users[u].admin \in BOOLEAN /\ users' = users
  BY DEF IInv, AccessOK, UserRows, data, accessVars, accountVars
<1>2. /\ RequestsOK' /\ HeldOK' /\ OnlyOf(h) /\ req[h] = Idle
      /\ req'[h].kind = kind /\ req'[h].pc = pc
  <2>1. RequestsOK /\ HeldOK
    BY DEF IInv
  <2>2. /\ RequestsOK' /\ HeldOK' /\ OnlyOf(h) /\ req[h] = Idle
        /\ req'[h] = [kind |-> kind, by |-> u, admin |-> users[u].admin, arg |-> arg,
                      pc |-> pc, got |-> Nothing]
    BY <1>1, <2>1, Arrives
  <2> QED BY <2>2
<1>3. Aside(AccountKinds \cup {"register", "login"})
  BY <1>2 DEF Aside, Light, OnlyOf, Gates, SessionKinds
<1>4. \A k \in Handlers : Provisioning(k) => req'[k] = req[k]
  BY <1>2 DEF Provisioning, OnlyOf, Idle
<1>5. (AccountKinds \cup {"register", "login"}) \cap HeldKinds = {}
  BY DEF AccountKinds, HeldKinds
<1> QED BY <1>2, <1>3, <1>4, <1>5, DataStay

\* A request for the project comes in.
LEMMA ReceiveStep ==
    ASSUME IInv, Observe, NEW h \in Handlers, NEW kind \in ProjectKinds, NEW u \in Users,
           NEW arg, UNCHANGED data, [kind |-> kind, arg |-> arg] \in Calls,
           Receive(h, kind, u, arg), kind \in {"provision", "delete"} => users[u].admin
    PROVE  IInv'
<1>1. kind \in Kinds \ {"refresh"} /\ kind \notin AccountKinds /\ kind \notin SessionKinds
  BY KindsApart DEF Kinds, SessionKinds
<1>2. "project" \in PcsOf(kind)
  BY <1>1 DEF PcsOf, SessionKinds
<1> QED BY <1>1, <1>2, ArrivalStep DEF Receive

LEMMA MemberArrives ==
    ASSUME IInv, Observe, NEW h \in Handlers, ReceiveMember(h), UNCHANGED data
    PROVE  IInv'
<1>1. ASSUME NEW u \in Users, NEW to \in Users, NEW role \in Roles, NEW kind \in {"add", "change"},
             Receive(h, kind, u, [to |-> to, role |-> role])
      PROVE  IInv'
  <2>1. [kind |-> kind, arg |-> [to |-> to, role |-> role]] \in Calls
    BY DEF Calls, MemberCalls
  <2> QED BY <1>1, <2>1, ReceiveStep DEF ProjectKinds, MemberKinds
<1>2. ASSUME NEW u \in Users, NEW to \in Users, Receive(h, "remove", u, [to |-> to, role |-> NoRole])
      PROVE  IInv'
  <2>1. [kind |-> "remove", arg |-> [to |-> to, role |-> NoRole]] \in Calls
    BY DEF Calls, MemberCalls
  <2> QED BY <1>2, <2>1, ReceiveStep DEF ProjectKinds, MemberKinds
<1> QED BY <1>1, <1>2 DEF ReceiveMember

LEMMA AccountArrives ==
    ASSUME IInv, Observe, NEW h \in Handlers, ReceiveAccount(h), UNCHANGED data
    PROVE  IInv'
<1>1. ASSUME NEW kind \in AccountKinds, NEW u \in Users, NEW arg,
             ReceiveAdmin(h, kind, u, arg), [kind |-> kind, arg |-> arg] \in Calls
      PROVE  IInv'
  <2>1. kind \in Kinds \ {"refresh"} /\ "commit" \in PcsOf(kind)
    BY DEF Kinds, AccountKinds, PcsOf
  <2> QED BY <1>1, <2>1, ArrivalStep DEF ReceiveAdmin
<1>2. ASSUME NEW u \in Users, NEW to \in Users, NEW active \in BOOLEAN, NEW admin \in BOOLEAN,
             ReceiveAdmin(h, "user", u, [to |-> to, active |-> active, admin |-> admin])
      PROVE  IInv'
  <2>1. [kind |-> "user", arg |-> [to |-> to, active |-> active, admin |-> admin]] \in Calls
    BY DEF Calls, MemberCalls
  <2> QED BY <1>1, <1>2, <2>1 DEF AccountKinds
<1>3. ASSUME NEW u \in Users, NEW role \in Roles, NEW kind \in {"create_role", "delete_role"},
             ReceiveAdmin(h, kind, u, [role |-> role])
      PROVE  IInv'
  <2>1. [kind |-> kind, arg |-> [role |-> role]] \in Calls
    BY DEF Calls, MemberCalls
  <2> QED BY <1>1, <1>3, <2>1 DEF AccountKinds
<1>4. ASSUME NEW u \in Users, NEW role \in Roles, NEW p \in Grantable, NEW kind \in {"permit", "forbid"},
             ReceiveAdmin(h, kind, u, [role |-> role, permission |-> p])
      PROVE  IInv'
  <2>1. [kind |-> kind, arg |-> [role |-> role, permission |-> p]] \in Calls
    BY DEF Calls, MemberCalls
  <2> QED BY <1>1, <1>4, <2>1 DEF AccountKinds
<1> QED BY <1>2, <1>3, <1>4 DEF ReceiveAccount

LEMMA ProxyArrives ==
    ASSUME IInv, Observe, NEW h \in Handlers, UNCHANGED data,
           ReceiveProxy(h) \/ ReceiveByCookie(h) \/ ReceiveBootstrap(h) \/ ReceiveWidget(h)
    PROVE  IInv'
<1>1. PICK u \in Users, kind \in AirflowKinds, need \in {View, Run} : Receive(h, kind, u, [need |-> need])
  BY DEF IInv, ProxyOK, AirflowKinds, ReceiveProxy, ReceiveByCookie, ReceiveBootstrap, ReceiveWidget
<1>2. [kind |-> kind, arg |-> [need |-> need]] \in Calls
  BY DEF Calls, ProxyCalls
<1>3. kind \in ProjectKinds /\ kind \notin {"provision", "delete"}
  BY DEF ProjectKinds, AirflowKinds
<1> QED BY <1>1, <1>2, <1>3, ReceiveStep

LEMMA MergeArrives ==
    ASSUME IInv, Observe, NEW h \in Handlers, ReceiveMerge(h), UNCHANGED data
    PROVE  IInv'
<1>1. ASSUME NEW u \in Users, Receive(h, "open", u, Nothing) PROVE IInv'
  <2>1. [kind |-> "open", arg |-> Nothing] \in Calls
    BY DEF Calls, MergeCalls
  <2> QED BY <1>1, <2>1, ReceiveStep DEF ProjectKinds, MergeKinds
<1>2. ASSUME NEW u \in Users, NEW m \in MergeIds, NEW kind \in {"merge", "close"},
             Receive(h, kind, u, [of |-> m])
      PROVE  IInv'
  <2>1. [kind |-> kind, arg |-> [of |-> m]] \in Calls
    BY DEF Calls, MergeCalls
  <2> QED BY <1>2, <2>1, ReceiveStep DEF ProjectKinds, MergeKinds
<1> QED BY <1>1, <1>2 DEF ReceiveMerge

LEMMA SettingsArrive ==
    ASSUME IInv, Observe, NEW h \in Handlers, ReceiveSettings(h), UNCHANGED data
    PROVE  IInv'
<1>1. ASSUME NEW u \in Users, NEW on \in BOOLEAN, Receive(h, "settings", u, [on |-> on])
      PROVE  IInv'
  <2>1. [kind |-> "settings", arg |-> [on |-> on]] \in Calls
    BY DEF Calls, SettingsCalls
  <2> QED BY <1>1, <2>1, ReceiveStep DEF ProjectKinds, SettingsKinds
<1>2. ASSUME NEW u \in Users, NEW body \in GitBodies, Receive(h, "git", u, body)
      PROVE  IInv'
  <2>1. [kind |-> "git", arg |-> body] \in Calls
    BY DEF Calls, SettingsCalls
  <2> QED BY <1>2, <2>1, ReceiveStep DEF ProjectKinds, SettingsKinds
<1>3. ASSUME NEW u \in Users, NEW body \in EnvironmentBodies, Receive(h, "environment", u, body)
      PROVE  IInv'
  <2>1. [kind |-> "environment", arg |-> body] \in Calls
    BY DEF Calls, SettingsCalls
  <2> QED BY <1>3, <2>1, ReceiveStep DEF ProjectKinds, SettingsKinds
<1> QED BY <1>1, <1>2, <1>3 DEF ReceiveSettings

LEMMA InstanceArrives ==
    ASSUME IInv, Observe, NEW h \in Handlers, ReceiveInstance(h), UNCHANGED data
    PROVE  IInv'
<1>1. PICK u \in Users, kind \in InstanceKinds :
          /\ kind # "restart" => users[u].admin
          /\ Receive(h, kind, u, Nothing)
  BY DEF ReceiveInstance
<1>2. [kind |-> kind, arg |-> Nothing] \in Calls
  BY DEF Calls, InstanceCalls
<1> QED BY <1>1, <1>2, ReceiveStep DEF ProjectKinds, InstanceKinds

-----------------------------------------------------------------------------
(* Members and accounts. *)

\* A handler of these components leaves the rest as it is.
LEMMA AccessStep ==
    ASSUME IInv, Observe, NEW h \in Handlers, NEW K \in {MemberKinds, AccountKinds},
           Proceeds(h, K), AccessOK', lastRow' \in lastRow .. MaxRow, Others
    PROVE  IInv'
<1>1. /\ K \cap (AirflowKinds \cup MergeKinds) = {} /\ K \cap (HeldKinds \ {"change"}) = {}
  BY DEF MemberKinds, AccountKinds, AirflowKinds, MergeKinds, HeldKinds
<1>2. RequestsOK' /\ HeldOK' /\ OnlyOf(h) /\ Aside(K)
  BY <1>1, ProceededHeld DEF IInv
<1>3. ConfigOK' /\ EnvironmentsOK' /\ MergesOK'
  BY <1>1, <1>2, ConfigStays, EnvironmentsStay, MergesStay DEF IInv, Others, HeldKinds, settingsVars
<1>4. ProxyOK' /\ SessionsOK'
  BY <1>1, <1>2, ProxyStays, SessionsStay DEF IInv, Others, HeldKinds
<1>5. \A k \in Handlers : Provisioning(k) => req'[k] = req[k]
  BY <1>1, <1>2 DEF OnlyOf, Proceeds, Provisioning, HeldKinds
<1>6. InstancesOK'
  <2>1. abandoned \subseteq abandoned' /\ UNCHANGED instance
    BY DEF Others, instanceVars
  <2>2. abandoned' \subseteq 1 .. lastRow'
    BY <2>1, RowAssumption DEF IInv, AccessOK, InstancesOK, Others, instanceVars
  <2>3. K \cap {"provision", "restart"} = {}
    BY <1>1 DEF HeldKinds
  <2> QED BY <1>2, <1>5, <2>1, <2>2, <2>3, InstancesStay DEF IInv
<1> QED BY <1>2, <1>3, <1>4, <1>6 DEF IInv

\* A handler beyond the gates.
LEMMA ServedProceeds ==
    ASSUME RequestsOK, NEW h \in Handlers, NEW K, K \subseteq Kinds, req[h].kind \in K,
           NEW pc \in PcsOf(req[h].kind) \ Gates, req[h].pc \notin Gates,
           Answer(h) \/ Goto(h, pc) \/ \E got : Keep(h, pc, got)
    PROVE  Proceeds(h, K) /\ InProgress(req[h])
<1>1. req[h] # Idle
  BY DEF Idle, Kinds, ProjectKinds, MemberKinds, AccountKinds, SettingsKinds, AirflowKinds, MergeKinds,
         InstanceKinds, SessionKinds
<1> QED BY <1>1 DEF Proceeds, RequestsOK

LEMMA MemberWrites ==
    ASSUME IInv, Observe, NEW h \in Handlers, Others,
           \/ AddRows(h) \/ ChangeRows(h) \/ RemoveRows(h) \/ CountAdministrators(h)
           \/ CommitAdd(h) \/ CommitChange(h) \/ CommitRemove(h)
    PROVE  IInv'
<1> USE RowAssumption
<1>1. PcsOf("add") = PcsOf("change") /\ PcsOf("change") = PcsOf("remove")
      /\ {"rows", "count", "commit"} \subseteq PcsOf("add") \ Gates
  BY DEF PcsOf, Gates, AccountKinds, AirflowKinds, MergeKinds
<1>2. Proceeds(h, MemberKinds) /\ InProgress(req[h]) /\ req[h].kind \in MemberKinds
  <2>1. /\ req[h].kind \in MemberKinds /\ req[h].pc \notin Gates
        /\ \E pc \in {"rows", "count", "commit"} :
               Answer(h) \/ Goto(h, pc) \/ \E got : Keep(h, pc, got)
    BY DEF AddRows, ChangeRows, RemoveRows, CountAdministrators, CommitAdd, CommitChange, CommitRemove,
           Refuse, Gates, MemberKinds
  <2>2. MemberKinds \subseteq Kinds
    BY DEF Kinds, ProjectKinds
  <2>3. PICK pc \in {"rows", "count", "commit"} :
               Answer(h) \/ Goto(h, pc) \/ \E got : Keep(h, pc, got)
    BY <2>1
  <2>4. pc \in PcsOf(req[h].kind) \ Gates
    BY <1>1, <2>1 DEF MemberKinds
  <2> QED BY <2>1, <2>2, <2>3, <2>4, ServedProceeds DEF IInv
<1>3. UNCHANGED <<lifecycle, selfApprove, users, roles, grants>> /\ lastRow' \in lastRow .. MaxRow
  BY DEF AddRows, ChangeRows, RemoveRows, CountAdministrators, CommitAdd, CommitChange, CommitRemove,
         accessVars, accountVars, memberVars, IInv, AccessOK
<1>4. \A row \in 1 .. lastRow : row \in 1 .. lastRow'
  BY <1>3 DEF IInv, AccessOK
<1>5. OnlyOf(h) /\ (req'[h] = Idle \/ \E pc, g : req'[h] = With(req[h], pc, g))
  BY <1>2, Proceeded DEF IInv
<1>6. \A k \in Handlers :
           req'[k].kind = "change" /\ req'[k].pc = "commit" => req'[k].got.row # 0
  <2> SUFFICES ASSUME req'[h].kind = "change", req'[h].pc = "commit"
               PROVE  req'[h].got.row # 0
    BY <1>5 DEF IInv, AccessOK, OnlyOf
  <2>1. req[h].kind = "change" /\ req'[h] # Idle
    <3>1. req'[h] # Idle
      BY DEF Idle
    <3>2. PICK pc, g : req'[h] = With(req[h], pc, g)
      BY <1>5, <3>1
    <3>3. req'[h].kind = req[h].kind
      BY <3>2 DEF With
    <3> QED BY <3>1, <3>3
  <2>2. ChangeRows(h) /\ members[req[h].arg.to] # NoRow /\ Keep(h, "commit", members[req[h].arg.to])
    BY <2>1, Moves DEF IInv, AddRows, ChangeRows, RemoveRows, CountAdministrators, CommitAdd, CommitChange,
           CommitRemove, Refuse
  <2>3. req'[h].got = members[req[h].arg.to]
    <3>1. PICK m : m = members[req[h].arg.to]
      OBVIOUS
    <3>2. Keep(h, "commit", m) /\ req[h] # Idle
      BY <1>2, <2>2, <3>1, NotIdle
    <3>3. req'[h] = With(req[h], "commit", m)
      BY <3>2, Moves DEF IInv
    <3> QED BY <3>1, <3>3 DEF With
  <2>4. req[h].arg.to \in Users
    BY <1>2, <2>1, Arguments
  <2> QED BY <2>2, <2>3, <2>4 DEF IInv, AccessOK, MemberRows
<1>7. /\ members' \in [Users -> {NoRow} \cup MemberRows']
      /\ \A u, v \in Users : members'[u].row = members'[v].row => u = v \/ members'[u] = NoRow
  <2>1. CASE UNCHANGED members
    BY <1>3, <1>4, <2>1 DEF IInv, AccessOK, MemberRows
  <2>2. CASE CommitAdd(h) /\ ~UNCHANGED members
    <3>1. PICK to : to = req[h].arg.to
      OBVIOUS
    <3>2. PICK role : role = req[h].arg.role
      OBVIOUS
    <3>3. /\ to \in Users /\ role \in roles
          /\ members' = [members EXCEPT ![to] = [row |-> lastRow + 1, role |-> role]]
          /\ lastRow' = lastRow + 1
      BY <1>2, <2>2, <3>1, <3>2, Arguments DEF CommitAdd, memberVars
    <3>4. members' \in [Users -> {NoRow} \cup MemberRows']
      BY <1>3, <1>4, <3>3 DEF IInv, AccessOK, MemberRows
    <3>5. \A u \in Users : members[u].row # lastRow + 1
      BY DEF IInv, AccessOK, MemberRows, NoRow
    <3> QED BY <3>3, <3>4, <3>5 DEF IInv, AccessOK
  <2>3. CASE CommitChange(h) /\ ~UNCHANGED members
    <3>1. PICK to : to = req[h].arg.to
      OBVIOUS
    <3>2. PICK role : role = req[h].arg.role
      OBVIOUS
    <3>3. /\ to \in Users /\ role \in roles /\ members[to].row # 0
          /\ members' = [members EXCEPT ![to].role = role]
      BY <1>2, <2>3, <3>1, <3>2, Arguments DEF CommitChange, Unmoved, IInv, AccessOK
    <3>4. members[to] \in MemberRows
      BY <3>3 DEF IInv, AccessOK, NoRow
    <3>5. members'[to] = [row |-> members[to].row, role |-> role]
      BY <3>3, <3>4 DEF IInv, AccessOK, MemberRows
    <3>6. members'[to] \in MemberRows'
      BY <1>3, <1>4, <3>3, <3>4, <3>5 DEF MemberRows
    <3>7. \A u \in Users \ {to} : members'[u] = members[u] /\ members'[u] \in {NoRow} \cup MemberRows'
      BY <1>3, <1>4, <3>3 DEF IInv, AccessOK, MemberRows
    <3>8. members' = [u \in Users |-> members'[u]]
      BY <3>3 DEF IInv, AccessOK
    <3>9. \A u, v \in Users : members'[u].row = members'[v].row => u = v \/ members'[u] = NoRow
      <4>1. \A u \in Users : members'[u].row = members[u].row /\ (u # to => members'[u] = members[u])
        BY <3>5, <3>7
      <4>2. members[to] # NoRow
        BY <3>3 DEF NoRow
      <4>3. \A u \in Users \ {to} : members[u].row # members[to].row
        BY <3>3, <4>2 DEF IInv, AccessOK
      <4> QED BY <4>1, <4>3 DEF IInv, AccessOK
    <3> QED BY <3>6, <3>7, <3>8, <3>9
  <2>4. CASE CommitRemove(h) /\ ~UNCHANGED members
    <3>1. PICK to : to = req[h].arg.to
      OBVIOUS
    <3>2. to \in Users /\ members' = [members EXCEPT ![to] = NoRow]
      BY <1>2, <2>4, <3>1, Arguments DEF CommitRemove
    <3>3. members' \in [Users -> {NoRow} \cup MemberRows']
      BY <1>3, <1>4, <3>2 DEF IInv, AccessOK, MemberRows
    <3>4. \A u \in Users : members[u].row = 0 => members[u] = NoRow
      BY DEF IInv, AccessOK, MemberRows
    <3> QED BY <3>2, <3>3, <3>4 DEF IInv, AccessOK, NoRow
  <2> QED BY <2>1, <2>2, <2>3, <2>4 DEF AddRows, ChangeRows, RemoveRows, CountAdministrators, accessVars, memberVars
<1>8. AccessOK'
  BY <1>3, <1>6, <1>7 DEF IInv, AccessOK
<1> QED BY <1>2, <1>3, <1>8, AccessStep

LEMMA AccountWrites ==
    ASSUME IInv, Observe, NEW h \in Handlers, Others,
           \/ UpdateUser(h) \/ CreateRole(h) \/ DeleteRole(h) \/ AddPermission(h) \/ RemovePermission(h)
    PROVE  IInv'
<1>1. req[h].kind \in AccountKinds /\ req[h].pc = "commit" /\ Answer(h)
  BY DEF UpdateUser, CreateRole, DeleteRole, AddPermission, RemovePermission, Refuse, AccountKinds
<1>2. "commit" \in PcsOf(req[h].kind) \ Gates
  BY <1>1 DEF PcsOf, Gates
<1>3. Proceeds(h, AccountKinds) /\ InProgress(req[h])
  BY <1>1, <1>2, ServedProceeds DEF IInv, Kinds, Gates
<1>4. UNCHANGED <<lifecycle, selfApprove, members, lastRow>> /\ lastRow' \in lastRow .. MaxRow
  BY RowAssumption
     DEF UpdateUser, CreateRole, DeleteRole, AddPermission, RemovePermission, memberVars, IInv, AccessOK
<1>5. users' \in [Users -> UserRows]
  <2>1. CASE UpdateUser(h) /\ ~UNCHANGED users
    <3>1. PICK to : to = req[h].arg.to
      OBVIOUS
    <3>2. PICK active : active = req[h].arg.active
      OBVIOUS
    <3>3. PICK admin : admin = req[h].arg.admin
      OBVIOUS
    <3>4. /\ to \in Users /\ active \in BOOLEAN /\ admin \in BOOLEAN
          /\ users' = [users EXCEPT ![to].active = active, ![to].admin = admin]
      BY <1>3, <2>1, <3>1, <3>2, <3>3, Arguments DEF UpdateUser
    <3>5. users[to] \in UserRows
      BY <3>4 DEF IInv, AccessOK
    <3>6. [users[to] EXCEPT !.active = active, !.admin = admin] \in UserRows
      BY <3>4, <3>5 DEF UserRows
    <3>7. users' = [users EXCEPT ![to] = [users[to] EXCEPT !.active = active, !.admin = admin]]
      BY <3>4 DEF IInv, AccessOK
    <3> QED BY <3>6, <3>7 DEF IInv, AccessOK
  <2>2. CASE UNCHANGED users
    BY <2>2 DEF IInv, AccessOK, UserRows
  <2> QED BY <2>1, <2>2 DEF UpdateUser, CreateRole, DeleteRole, AddPermission, RemovePermission
<1>6. /\ roles' \subseteq Roles
      /\ grants' \in [Roles -> SUBSET ({View, Run, WholeProject, Everything} \cup Grantable)]
      /\ \A u \in Users : members[u] \in {NoRow} \cup [row : 1 .. lastRow, role : roles']
  <2>1. CASE UNCHANGED <<roles, grants>>
    BY <2>1 DEF IInv, AccessOK, MemberRows
  <2>2. PICK role : role = req[h].arg.role
    OBVIOUS
  <2>3. CASE CreateRole(h) /\ ~UNCHANGED roles
    <3>1. role \in Roles /\ roles' = roles \cup {role} /\ UNCHANGED grants
      BY <1>3, <2>2, <2>3, Arguments DEF CreateRole
    <3> QED BY <3>1 DEF IInv, AccessOK, MemberRows
  <2>4. CASE DeleteRole(h) /\ ~UNCHANGED <<roles, grants>>
    <3>1. /\ role \in Roles /\ roles' = roles \ {role} /\ grants' = [grants EXCEPT ![role] = {}]
          /\ \A u \in Users : ~(members[u].row # 0 /\ members[u].role = role)
      BY <1>3, <2>2, <2>4, Arguments DEF DeleteRole, Is
    <3>2. \A u \in Users : members[u] \in {NoRow} \cup [row : 1 .. lastRow, role : roles']
      BY <3>1 DEF IInv, AccessOK, MemberRows
    <3> QED BY <3>1, <3>2 DEF IInv, AccessOK
  <2>5. CASE (AddPermission(h) \/ RemovePermission(h)) /\ ~UNCHANGED grants
    <3>1. PICK p : p = req[h].arg.permission
      OBVIOUS
    <3>2. /\ role \in Roles /\ p \in Grantable /\ UNCHANGED roles
          /\ \/ grants' = [grants EXCEPT ![role] = @ \cup {p}]
             \/ grants' = [grants EXCEPT ![role] = @ \ {p}]
      BY <1>3, <2>2, <2>5, <3>1, Arguments DEF AddPermission, RemovePermission
    <3> QED BY <3>2 DEF IInv, AccessOK, MemberRows
  <2> QED BY <2>1, <2>3, <2>4, <2>5 DEF UpdateUser, CreateRole, DeleteRole, AddPermission, RemovePermission
<1>7. \A k \in Handlers :
           req'[k].kind = "change" /\ req'[k].pc = "commit" => req'[k].got.row # 0
  BY <1>1, Moves DEF IInv, AccessOK, Idle
<1>8. AccessOK'
  BY <1>4, <1>5, <1>6, <1>7 DEF IInv, AccessOK, MemberRows
<1> QED BY <1>3, <1>4, <1>8, AccessStep

-----------------------------------------------------------------------------
(* The proxy. *)

\* A handler that goes on has still passed what it had.
LEMMA GoingOn ==
    ASSUME HeldOK, RequestsOK, Observe, NEW h \in Handlers, NEW K, Proceeds(h, K), req'[h] # Idle
    PROVE  /\ InProgress(req[h]) /\ Passed(req[h], held'[h])
           /\ \A need : Permits(held[h].may, need) => Permits(held'[h].may, need)
           /\ UNCHANGED accessVars =>
                 /\ members[req[h].by].row # 0 => members[req[h].by].role \in held'[h].as
                 /\ \A role \in held'[h].as : grants[role] \subseteq held'[h].may
                 /\ selfApprove => "self" \in held'[h].is
<1>1. InProgress(req[h]) /\ Passed(req[h], held[h])
  BY DEF RequestsOK, HeldOK, Proceeds
<1>2. req'[h].by = req[h].by /\ req'[h].pc # "idle" /\ req[h].by \in Users
  <2>1. RequestsOK' /\ \E pc, g : req'[h] = With(req[h], pc, g)
    BY Proceeded
  <2>2. InProgress(req'[h])
    BY <2>1 DEF RequestsOK
  <2>3. req'[h].by = req[h].by
    BY <2>1 DEF With
  <2> QED BY <1>1, <2>2, <2>3, NotIdle DEF InProgress
<1>3. /\ Grows(held[h], held'[h])
      /\ selfApprove' => "self" \in held'[h].is
      /\ members'[req[h].by].row # 0 => members'[req[h].by].role \in held'[h].as
      /\ \A role \in held'[h].as : grants'[role] \subseteq held'[h].may
  BY <1>2, Accrues
<1>4. Passed(req[h], held'[h])
  BY <1>1, <1>3, GrowingPasses
<1>5. \A need : Permits(held[h].may, need) => Permits(held'[h].may, need)
  BY <1>3 DEF Grows, Permits
<1> QED BY <1>1, <1>3, <1>4, <1>5 DEF accessVars, accountVars, memberVars

\* A handler of the proxy leaves the rest as it is.
LEMMA ProxyHandles ==
    ASSUME IInv, Observe, NEW h \in Handlers, Proceeds(h, AirflowKinds),
           req'[h] # Idle => PassedProxy(req'[h], held'[h]), ProxyOK',
           UNCHANGED <<accessVars, mrs, settingsVars, instanceVars, sessionVars>>
    PROVE  IInv'
<1>1. /\ RequestsOK' /\ OnlyOf(h) /\ Aside(AirflowKinds)
      /\ req'[h] = Idle \/ \E pc \in PcsOf(req[h].kind) \ Gates : \E g : req'[h] = With(req[h], pc, g)
  BY Proceeded DEF IInv
<1>2. HeldOK'
  <2>1. ASSUME req'[h] # Idle PROVE Passed(req'[h], held'[h])
    <3>1. PICK pc \in PcsOf(req[h].kind) \ Gates : \E g : req'[h] = With(req[h], pc, g)
      BY <1>1, <2>1
    <3>2. PICK g : req'[h] = With(req[h], pc, g)
      BY <3>1
    <3>3. /\ Passed(req[h], held'[h]) /\ req[h].pc \notin Gates
          /\ req[h].kind \in AirflowKinds /\ req[h].kind \notin MergeKinds \cup AdminGated
      BY <2>1, GoingOn, KindsApart DEF IInv, Proceeds
    <3>4. PassedGate(req'[h], held'[h])
      BY <3>2, <3>3 DEF Passed, PassedGate, With, Gates
    <3>5. PassedMerge(req'[h], held'[h])
      BY <3>2, <3>3 DEF PassedMerge, MergeKinds, With
    <3> QED BY <2>1, <3>4, <3>5 DEF Passed
  <2> QED BY <1>1, <2>1, OthersHold DEF IInv
<1>3. lastRow' \in lastRow .. MaxRow
  BY RowAssumption DEF IInv, AccessOK, accessVars, memberVars
<1>4. AccessOK'
  BY <1>1, <1>3, AccessStays DEF IInv, AccessOK, accessVars, accountVars, memberVars, AirflowKinds
<1>5. ConfigOK' /\ EnvironmentsOK' /\ MergesOK' /\ SessionsOK'
  BY <1>1, <1>3, ConfigStays, EnvironmentsStay, MergesStay, SessionsStay DEF IInv, settingsVars, AirflowKinds
<1>6. InstancesOK'
  <2>1. \A k \in Handlers : Provisioning(k) => req'[k] = req[k]
    BY <1>1 DEF OnlyOf, Proceeds, Provisioning, AirflowKinds
  <2>2. abandoned \subseteq abandoned' /\ abandoned' \subseteq 1 .. lastRow' /\ UNCHANGED instance
    BY <1>3, RowAssumption DEF IInv, AccessOK, InstancesOK, instanceVars, accessVars, memberVars
  <2> QED BY <1>1, <1>3, <2>1, <2>2, InstancesStay DEF IInv, AirflowKinds
<1> QED BY <1>1, <1>2, <1>4, <1>5, <1>6 DEF IInv

LEMMA ProxyReads ==
    ASSUME IInv, Observe, NEW h \in Handlers, req[h].kind \in AirflowKinds,
           SeeAccount(h) \/ SeeRole(h) \/ SeeGrants(h) \/ SeeCache(h) \/ Mint(h),
           UNCHANGED <<mrs, settingsVars, instanceVars, sessionVars>>
    PROVE  IInv'
<1>1. PICK r : r = req[h]
  OBVIOUS
<1>2. {"account", "permission", "grants", "context", "mint", "forward"} \subseteq PcsOf(r.kind) \ Gates
  BY <1>1 DEF PcsOf, Gates, AccountKinds, AirflowKinds
<1>3. Proceeds(h, AirflowKinds) /\ InProgress(r) /\ r.pc \notin Gates
  <2>1. req[h].pc \notin Gates
    BY DEF SeeAccount, SeeRole, SeeGrants, SeeCache, Mint, Gates
  <2>2. PICK pc \in {"permission", "grants", "context", "mint", "forward"} :
            Answer(h) \/ Goto(h, pc) \/ \E got : Keep(h, pc, got)
    BY DEF SeeAccount, SeeRole, SeeGrants, SeeCache, Mint, Refuse
  <2>3. AirflowKinds \subseteq Kinds /\ pc \in PcsOf(req[h].kind) \ Gates
    BY <1>1, <1>2 DEF Kinds, ProjectKinds
  <2> QED BY <1>1, <2>1, <2>2, <2>3, ServedProceeds DEF IInv
<1>4. UNCHANGED accessVars /\ UNCHANGED cookies
  BY DEF SeeAccount, SeeRole, SeeGrants, SeeCache, Mint, airflowVars
<1>5. ASSUME req'[h] # Idle
      PROVE  /\ Passed(r, held'[h]) /\ r.by \in Users /\ r # Idle
             /\ members[r.by].row # 0 => members[r.by].role \in held'[h].as
             /\ \A role \in held'[h].as : grants[role] \subseteq held'[h].may
  BY <1>1, <1>3, <1>4, <1>5, GoingOn, NotIdle DEF IInv, InProgress
<1>6. PICK f : f = held'[h]
  OBVIOUS
<1>7. ASSUME SeeAccount(h), req'[h] # Idle PROVE PassedProxy(req'[h], f) /\ UNCHANGED cache
  <2>1. PICK member : member = members[r.by]
    OBVIOUS
  <2>2. PICK pc : pc = IF r.admin THEN "context" ELSE "permission"
    OBVIOUS
  <2>3. PICK got : got = [account |-> Account(member.role), member |-> member]
    OBVIOUS
  <2>4. member # NoRow /\ Keep(h, pc, got)
    BY <1>1, <1>7, <2>1, <2>2, <2>3, Moves DEF IInv, SeeAccount, Refuse, By
  <2>5. req'[h] = With(r, pc, got)
    BY <1>1, <1>5, <1>7, <2>4, Moves DEF IInv
  <2>6. member.role \in f.as
    BY <1>5, <1>6, <1>7, <2>1, <2>4 DEF IInv, AccessOK, MemberRows
  <2>7. Account(member.role) \in AccountsOf(f)
    BY <2>6 DEF AccountsOf
  <2> QED BY <1>7, <2>2, <2>3, <2>5, <2>6, <2>7 DEF PassedProxy, With, SeeAccount, airflowVars
<1>8. ASSUME SeeRole(h), req'[h] # Idle PROVE PassedProxy(req'[h], f) /\ UNCHANGED cache
  <2>1. PICK member : member = members[r.by]
    OBVIOUS
  <2>2. PICK role : role = IF member.row = r.got.member.row THEN r.got.member.role ELSE member.role
    OBVIOUS
  <2>3. PICK got : got = [account |-> r.got.account, role |-> role]
    OBVIOUS
  <2>4. r.pc = "permission" /\ member # NoRow /\ Keep(h, "grants", got)
    BY <1>1, <1>8, <2>1, <2>2, <2>3, Moves DEF IInv, SeeRole, Refuse, By
  <2>5. req'[h] = With(r, "grants", got)
    BY <1>1, <1>5, <1>8, <2>4, Moves DEF IInv
  <2>6. member.role \in f.as
    BY <1>5, <1>6, <1>8, <2>1, <2>4 DEF IInv, AccessOK, MemberRows
  <2>7. role \in f.as /\ r.got.account \in AccountsOf(f)
    BY <1>1, <1>5, <1>6, <1>8, <2>2, <2>4, <2>6 DEF Passed, PassedProxy
  <2> QED BY <1>8, <2>3, <2>5, <2>7 DEF PassedProxy, With, SeeRole, airflowVars
<1>9. ASSUME SeeGrants(h), req'[h] # Idle PROVE PassedProxy(req'[h], f) /\ UNCHANGED cache
  <2>1. PICK got : got = [account |-> r.got.account]
    OBVIOUS
  <2>2. r.pc = "grants" /\ Permits(grants[r.got.role], r.arg.need) /\ Keep(h, "context", got)
    BY <1>1, <1>9, <2>1, Moves DEF IInv, SeeGrants, Refuse
  <2>3. req'[h] = With(r, "context", got)
    BY <1>1, <1>5, <1>9, <2>2, Moves DEF IInv
  <2>4. r.got.role \in f.as /\ r.got.account \in AccountsOf(f)
    BY <1>1, <1>5, <1>6, <1>9, <2>2 DEF Passed, PassedProxy
  <2>5. Permits(f.may, r.arg.need)
    BY <1>5, <1>6, <1>9, <2>2, <2>4 DEF Permits
  <2> QED BY <1>9, <2>1, <2>3, <2>4, <2>5 DEF PassedProxy, With, SeeGrants, airflowVars
<1>10. ASSUME SeeCache(h), req'[h] # Idle PROVE PassedProxy(req'[h], f) /\ UNCHANGED cache
  <2>1. PICK token : token = cache[r.got.account]
    OBVIOUS
  <2>2. PICK got : got = [token |-> token]
    OBVIOUS
  <2>3. r.pc = "context" /\ IF token # NoToken THEN Keep(h, "forward", got) ELSE Goto(h, "mint")
    BY <1>1, <1>10, <2>1, <2>2 DEF SeeCache, CacheKey
  <2>4. req'[h] = IF token # NoToken THEN With(r, "forward", got) ELSE With(r, "mint", r.got)
    BY <1>1, <1>5, <1>10, <2>3, Moves DEF IInv
  <2>5. /\ r.got.account \in AccountsOf(f)
        /\ r.admin \/ Permits(f.may, r.arg.need)
    BY <1>1, <1>5, <1>6, <1>10, <2>3 DEF Passed, PassedProxy
  <2>6. token \in {r.got.account, NoToken}
    BY <2>1, <2>5 DEF IInv, ProxyOK, AccountsOf, Account, Accounts
  <2> QED BY <1>10, <2>2, <2>4, <2>5, <2>6 DEF PassedProxy, With, SeeCache, airflowVars
<1>11. ASSUME Mint(h), req'[h] # Idle PROVE PassedProxy(req'[h], f)
  <2>1. PICK got : got = [token |-> r.got.account]
    OBVIOUS
  <2>2. r.pc = "mint" /\ Keep(h, "forward", got)
    BY <1>1, <1>11, <2>1, Moves DEF IInv, Mint, Refuse
  <2>3. req'[h] = With(r, "forward", got)
    BY <1>1, <1>5, <1>11, <2>2, Moves DEF IInv
  <2>4. /\ r.got.account \in AccountsOf(f)
        /\ r.admin \/ Permits(f.may, r.arg.need)
    BY <1>1, <1>5, <1>6, <1>11, <2>2 DEF Passed, PassedProxy
  <2> QED BY <2>1, <2>3, <2>4 DEF PassedProxy, With
<1>12. ProxyOK'
  <2>1. CASE UNCHANGED cache
    BY <1>4, <2>1 DEF IInv, ProxyOK
  <2>2. CASE Mint(h) /\ ~UNCHANGED cache
    <3>1. PICK account : account = r.got.account
      OBVIOUS
    <3>2. r.pc = "mint" /\ cache' = [cache EXCEPT ![account] = account]
      BY <1>1, <2>2, <3>1 DEF Mint, CacheKey
    <3>3. Passed(r, held[h])
      BY <1>1, <1>3, NotIdle DEF IInv, HeldOK
    <3>4. account \in Accounts
      BY <1>1, <3>1, <3>2, <3>3 DEF Passed, PassedProxy, AccountsOf, Account, Accounts
    <3> QED BY <1>4, <3>2, <3>4 DEF IInv, ProxyOK
  <2> QED BY <2>1, <2>2 DEF SeeAccount, SeeRole, SeeGrants, SeeCache, airflowVars
<1>13. req'[h] # Idle => PassedProxy(req'[h], held'[h])
  BY <1>6, <1>7, <1>8, <1>9, <1>10, <1>11
<1> QED BY <1>3, <1>4, <1>12, <1>13, ProxyHandles

LEMMA ProxyAnswers ==
    ASSUME IInv, Observe, NEW h \in Handlers, req[h].kind \in AirflowKinds,
           Bootstrap(h) \/ Forward(h) \/ Fetch(h),
           UNCHANGED <<mrs, settingsVars, instanceVars, sessionVars>>
    PROVE  IInv'
<1>1. /\ UNCHANGED <<accessVars, cache>> /\ Answer(h) /\ req[h].pc \in {"context", "forward"}
      /\ cookies' \in {cookies, cookies \cup {By(h)}}
  BY DEF Bootstrap, Forward, Fetch, airflowVars
<1>2. "context" \in PcsOf(req[h].kind) \ Gates /\ AirflowKinds \subseteq Kinds /\ req[h].pc \notin Gates
  BY <1>1 DEF PcsOf, Gates, AccountKinds, AirflowKinds, Kinds, ProjectKinds
<1>3. Proceeds(h, AirflowKinds) /\ InProgress(req[h])
  BY <1>1, <1>2, ServedProceeds DEF IInv
<1>4. ProxyOK'
  BY <1>1, <1>3 DEF IInv, ProxyOK, InProgress, By
<1>5. req'[h] = Idle
  BY <1>1, Moves DEF IInv
<1> QED BY <1>1, <1>3, <1>4, <1>5, ProxyHandles

\* A step of no handler.
LEMMA RequestsStay ==
    ASSUME RequestsOK, HeldOK, Observe, UNCHANGED req
    PROVE  RequestsOK' /\ HeldOK' /\ Aside({})
<1>1. ASSUME NEW h \in Handlers, req[h] # Idle PROVE Passed(req[h], held'[h])
  <2>1. InProgress(req[h]) /\ Passed(req[h], held[h])
    BY <1>1 DEF RequestsOK, HeldOK
  <2>2. Grows(held[h], held'[h])
    BY <2>1, NotIdle, Accrues DEF InProgress
  <2> QED BY <2>1, <2>2, GrowingPasses
<1> QED BY <1>1 DEF RequestsOK, HeldOK, Aside

LEMMA ProxyExpires ==
    ASSUME IInv, Observe, (\E key \in Accounts : Expire(key)) \/ (\E u \in Users : ExpireCookie(u)),
           UNCHANGED <<mrs, settingsVars, instanceVars, sessionVars>>
    PROVE  IInv'
<1>1. UNCHANGED <<accessVars, req>>
  BY DEF Expire, ExpireCookie
<1>2. RequestsOK' /\ HeldOK' /\ Aside({})
  BY <1>1, RequestsStay DEF IInv
<1>3. ProxyOK'
  BY DEF IInv, ProxyOK, Expire, ExpireCookie
<1>4. lastRow' \in lastRow .. MaxRow
  BY <1>1, RowAssumption DEF IInv, AccessOK, accessVars, memberVars
<1>5. AccessOK'
  BY <1>1, <1>2, <1>4, AccessStays DEF IInv, AccessOK, accessVars, accountVars, memberVars
<1>6. ConfigOK' /\ EnvironmentsOK' /\ MergesOK' /\ SessionsOK'
  BY <1>2, <1>4, ConfigStays, EnvironmentsStay, MergesStay, SessionsStay DEF IInv, settingsVars
<1>7. InstancesOK'
  <2>1. abandoned \subseteq abandoned' /\ abandoned' \subseteq 1 .. lastRow' /\ UNCHANGED instance
    BY <1>1, <1>4 DEF IInv, InstancesOK, instanceVars, accessVars, memberVars
  <2> QED BY <1>1, <1>2, <1>4, <2>1, InstancesStay DEF IInv
<1> QED BY <1>2, <1>3, <1>5, <1>6, <1>7 DEF IInv

\* The project leaves READY.
LEMMA DeletionKeeps ==
    ASSUME IInv, Observe, Deletion
    PROVE  IInv'
<1>1. /\ UNCHANGED <<selfApprove, accountVars, memberVars, req>> /\ lifecycle' = "DELETING"
      /\ UNCHANGED <<airflowVars, mrs, settingsVars, instanceVars, sessionVars>>
  BY DEF Deletion, LeaveReady, Others
<1>2. RequestsOK' /\ HeldOK' /\ Aside({})
  BY <1>1, RequestsStay DEF IInv
<1>3. lastRow' \in lastRow .. MaxRow
  BY <1>1, RowAssumption DEF IInv, AccessOK, memberVars
<1>4. AccessOK' /\ ProxyOK'
  BY <1>1, <1>2, <1>3, AccessStays, ProxyStays DEF IInv, AccessOK, accountVars, memberVars
<1>5. ConfigOK' /\ EnvironmentsOK' /\ MergesOK' /\ SessionsOK'
  BY <1>1, <1>2, <1>3, ConfigStays, EnvironmentsStay, MergesStay, SessionsStay DEF IInv, settingsVars
<1>6. InstancesOK'
  <2>1. abandoned \subseteq abandoned' /\ abandoned' \subseteq 1 .. lastRow' /\ UNCHANGED instance
    BY <1>1, <1>3 DEF IInv, InstancesOK, instanceVars, memberVars
  <2> QED BY <1>1, <1>2, <1>3, <2>1, InstancesStay DEF IInv
<1> QED BY <1>2, <1>4, <1>5, <1>6 DEF IInv

LEMMA StutterKeeps ==
    ASSUME IInv, UNCHANGED vars
    PROVE  IInv'
<1> USE DEF IInv, vars, accessVars, accountVars, memberVars, airflowVars, settingsVars, instanceVars,
            sessionVars
<1>1. RequestsOK' /\ HeldOK'
  BY DEF RequestsOK, HeldOK
<1>2. AccessOK'
  BY DEF AccessOK, MemberRows
<1>3. ConfigOK' /\ EnvironmentsOK' /\ MergesOK' /\ ProxyOK'
  BY DEF ConfigOK, EnvironmentsOK, MergesOK, ProxyOK, Opened
<1>4. InstancesOK' /\ SessionsOK'
  BY DEF InstancesOK, SessionsOK, CreatingIsInFlight, Provisioning
<1> QED BY <1>1, <1>2, <1>3, <1>4

-----------------------------------------------------------------------------
(* A handler dies. *)

LEMMA CrashKeeps ==
    ASSUME IInv, Observe, NEW h \in Handlers, Crash(h)
    PROVE  IInv'
<1>1. /\ req'[h] = Idle /\ OnlyOf(h) /\ req' = [k \in Handlers |-> req'[k]]
      /\ UNCHANGED <<accessVars, airflowVars, mrs, settingsVars, instance, sessionVars>>
  BY Moves DEF IInv, Crash, OnlyOf
<1>2. RequestsOK' /\ Aside({})
  BY <1>1 DEF IInv, RequestsOK, OnlyOf, Aside, Light
<1>3. HeldOK'
  BY <1>1, <1>2, OthersHold DEF IInv
<1>4. lastRow' \in lastRow .. MaxRow
  BY <1>1, RowAssumption DEF IInv, AccessOK, accessVars, memberVars
<1>5. AccessOK' /\ ProxyOK'
  BY <1>1, <1>2, <1>4, AccessStays, ProxyStays DEF IInv, AccessOK, accessVars, accountVars, memberVars
<1>6. ConfigOK' /\ EnvironmentsOK' /\ MergesOK' /\ SessionsOK'
  BY <1>1, <1>2, <1>4, ConfigStays, EnvironmentsStay, MergesStay, SessionsStay DEF IInv, settingsVars
<1>7. InstancesOK'
  <2>1. abandoned' = IF Provisioning(h) THEN abandoned \cup {req[h].got.row} ELSE abandoned
    BY DEF Crash, Abandon
  <2>2. Provisioning(h) => req[h].got.row \in 1 .. lastRow
    BY DEF IInv, InstancesOK, Running, Provisioning
  <2>3. abandoned \subseteq abandoned' /\ abandoned' \subseteq 1 .. lastRow' /\ UNCHANGED instance
    BY <1>1, <2>1, <2>2 DEF IInv, InstancesOK, accessVars, memberVars
  <2>4. \A k \in Handlers : Provisioning(k) => req'[k] = req[k] \/ req[k].got.row \in abandoned'
    BY <1>1, <2>1 DEF OnlyOf
  <2> QED BY <1>2, <1>4, <2>3, <2>4, InstancesStay DEF IInv
<1> QED BY <1>2, <1>3, <1>5, <1>6, <1>7 DEF IInv

-----------------------------------------------------------------------------
(* Merge requests. *)

\* A handler of merge requests leaves the rest as it is.
LEMMA MergeHandles ==
    ASSUME IInv, Observe, NEW h \in Handlers, Proceeds(h, MergeKinds),
           req'[h] # Idle => PassedMerge(req'[h], held'[h]), MergesOK',
           UNCHANGED <<accessVars, airflowVars, settingsVars, instanceVars, sessionVars>>
    PROVE  IInv'
<1>1. /\ RequestsOK' /\ OnlyOf(h) /\ Aside(MergeKinds)
      /\ req'[h] = Idle \/ \E pc \in PcsOf(req[h].kind) \ Gates : \E g : req'[h] = With(req[h], pc, g)
  BY Proceeded DEF IInv
<1>2. HeldOK'
  <2>1. ASSUME req'[h] # Idle PROVE Passed(req'[h], held'[h])
    <3>1. PICK pc \in PcsOf(req[h].kind) \ Gates : \E g : req'[h] = With(req[h], pc, g)
      BY <1>1, <2>1
    <3>2. PICK g : req'[h] = With(req[h], pc, g)
      BY <3>1
    <3>3. /\ Passed(req[h], held'[h]) /\ req[h].pc \notin Gates
          /\ req[h].kind \in MergeKinds /\ req[h].kind \notin AirflowKinds \cup AdminGated
      BY <2>1, GoingOn, KindsApart DEF IInv, Proceeds
    <3>4. PassedGate(req'[h], held'[h])
      BY <3>2, <3>3 DEF Passed, PassedGate, With, Gates
    <3>5. PassedProxy(req'[h], held'[h])
      BY <3>2, <3>3 DEF PassedProxy, With
    <3> QED BY <2>1, <3>4, <3>5 DEF Passed
  <2> QED BY <1>1, <2>1, OthersHold DEF IInv
<1>3. lastRow' \in lastRow .. MaxRow
  BY RowAssumption DEF IInv, AccessOK, accessVars, memberVars
<1>4. AccessOK' /\ ProxyOK'
  BY <1>1, <1>3, AccessStays, ProxyStays DEF IInv, AccessOK, accessVars, accountVars, memberVars, MergeKinds
<1>5. ConfigOK' /\ EnvironmentsOK' /\ SessionsOK'
  BY <1>1, <1>3, ConfigStays, EnvironmentsStay, SessionsStay DEF IInv, settingsVars, MergeKinds
<1>6. InstancesOK'
  <2>1. \A k \in Handlers : Provisioning(k) => req'[k] = req[k]
    BY <1>1 DEF OnlyOf, Proceeds, Provisioning, MergeKinds
  <2>2. abandoned \subseteq abandoned' /\ abandoned' \subseteq 1 .. lastRow' /\ UNCHANGED instance
    BY <1>3, RowAssumption DEF IInv, AccessOK, InstancesOK, instanceVars, accessVars, memberVars
  <2> QED BY <1>1, <1>3, <2>1, <2>2, InstancesStay DEF IInv, MergeKinds
<1> QED BY <1>1, <1>2, <1>4, <1>5, <1>6 DEF IInv

LEMMA MergeProceeds ==
    ASSUME RequestsOK, NEW h \in Handlers,
           \/ OpenRole(h) \/ CommitOpen(h) \/ SeeMerge(h) \/ MergeRole(h)
           \/ CommitMerge(h) \/ CommitClose(h)
    PROVE  Proceeds(h, MergeKinds) /\ InProgress(req[h]) /\ req[h] # Idle /\ UNCHANGED accessVars
<1>1. /\ req[h].kind \in MergeKinds /\ req[h].pc \notin Gates /\ UNCHANGED accessVars
      /\ \E pc \in {"role", "commit"} : Answer(h) \/ Goto(h, pc) \/ \E got : Keep(h, pc, got)
  BY DEF OpenRole, CommitOpen, SeeMerge, MergeRole, CommitMerge, CommitClose, Refuse, Gates, MergeKinds
<1>2. PICK pc \in {"role", "commit"} : Answer(h) \/ Goto(h, pc) \/ \E got : Keep(h, pc, got)
  BY <1>1
<1>3. pc \in PcsOf(req[h].kind) \ Gates
  BY <1>1 DEF PcsOf, Gates, MergeKinds, AccountKinds, AirflowKinds
<1>4. MergeKinds \subseteq Kinds
  BY DEF Kinds, ProjectKinds
<1>5. Proceeds(h, MergeKinds) /\ InProgress(req[h])
  BY <1>1, <1>2, <1>3, <1>4, ServedProceeds
<1> QED BY <1>1, <1>5, NotIdle

\* The role by which a handler judges is one that its requester has now.
LEMMA JudgedIsHeld ==
    ASSUME IInv, Observe, NEW h \in Handlers, Proceeds(h, MergeKinds), UNCHANGED accessVars, req'[h] # Idle,
           NEW S \in {Developers, Maintainers}, Judged(h) \in S
    PROVE  req[h].admin \/ held'[h].as \cap S # {}
<1>1. members[req[h].by].row # 0 => members[req[h].by].role \in held'[h].as
  BY GoingOn DEF IInv
<1> QED BY <1>1 DEF Judged, By, Developers, Maintainers, NoRole

LEMMA MergeReads ==
    ASSUME IInv, Observe, NEW h \in Handlers, OpenRole(h) \/ SeeMerge(h) \/ MergeRole(h),
           UNCHANGED <<airflowVars, settingsVars, instanceVars, sessionVars>>
    PROVE  IInv'
<1>1. PICK r : r = req[h]
  OBVIOUS
<1>2. Proceeds(h, MergeKinds) /\ InProgress(r) /\ r # Idle /\ UNCHANGED <<accessVars, mrs>>
  BY <1>1, MergeProceeds DEF IInv, OpenRole, SeeMerge, MergeRole
<1>3. OnlyOf(h)
  BY <1>2, Proceeded DEF IInv
<1>4. req'[h] # Idle => Passed(r, held'[h])
  BY <1>1, <1>2, GoingOn DEF IInv
\* The obligations of the step, by handler.
<1> DEFINE Goal == /\ req'[h] # Idle => PassedMerge(req'[h], held'[h])
                   /\ req'[h].kind \in {"merge", "close"} /\ req'[h].pc \in {"role", "commit"} =>
                         Opened(req'[h].arg.of) /\ req'[h].got.author = mrs[req'[h].arg.of].author
<1>5. ASSUME req'[h] = Idle PROVE Goal
  BY <1>5 DEF Idle
<1>6. ASSUME OpenRole(h), req'[h] # Idle PROVE Goal
  <2>1. r.kind = "open" /\ Judged(h) \in Developers /\ Goto(h, "commit")
    BY <1>1, <1>6, Moves DEF IInv, OpenRole, Refuse
  <2>2. req'[h] = With(r, "commit", r.got)
    BY <1>1, <1>2, <2>1, Moves DEF IInv
  <2>3. r.admin \/ held'[h].as \cap Developers # {}
    BY <1>1, <1>2, <1>6, <2>1, JudgedIsHeld
  <2> QED BY <2>1, <2>2, <2>3 DEF PassedMerge, With
<1>7. ASSUME SeeMerge(h), req'[h] # Idle PROVE Goal
  <2>1. PICK m : m = r.arg.of
    OBVIOUS
  <2>2. PICK got : got = [self |-> r.got.self, author |-> mrs[m].author, status |-> mrs[m].status]
    OBVIOUS
  <2>3. r.kind \in {"merge", "close"} /\ r.pc = "rows" /\ Opened(m) /\ Keep(h, "role", got)
    BY <1>1, <1>7, <2>1, <2>2, Moves DEF IInv, SeeMerge, Refuse
  <2>4. req'[h] = With(r, "role", got)
    BY <1>1, <1>2, <2>3, Moves DEF IInv
  <2>5. PassedMerge(With(r, "role", got), held'[h])
    BY <1>4, <1>7, <2>2, <2>3 DEF Passed, PassedMerge, With
  <2> QED BY <2>1, <2>2, <2>3, <2>4, <2>5 DEF With
<1>8. ASSUME MergeRole(h), req'[h] # Idle PROVE Goal
  <2>1. /\ r.kind \in {"merge", "close"} /\ r.pc = "role" /\ Goto(h, "commit")
        /\ IF r.kind = "merge" THEN MayMerge(h) ELSE MayClose(h)
    BY <1>1, <1>8, Moves DEF IInv, MergeRole, Refuse
  <2>2. req'[h] = With(r, "commit", r.got)
    BY <1>1, <1>2, <2>1, Moves DEF IInv
  <2>3. Judged(h) \in Maintainers => r.admin \/ held'[h].as \cap Maintainers # {}
    BY <1>1, <1>2, <1>8, JudgedIsHeld
  <2>4. r.got.self => "self" \in held'[h].is
    BY <1>4, <1>8, <2>1 DEF Passed, PassedMerge
  <2>5. PassedMerge(With(r, "commit", r.got), held'[h])
    BY <1>1, <2>1, <2>3, <2>4 DEF PassedMerge, With, MayMerge, MayClose, By
  <2>6. Opened(r.arg.of) /\ r.got.author = mrs[r.arg.of].author
    BY <1>1, <2>1 DEF IInv, MergesOK
  <2> QED BY <2>2, <2>5, <2>6 DEF With
<1>9. Goal
  BY <1>5, <1>6, <1>7, <1>8
<1>10. MergesOK'
  BY <1>2, <1>3, <1>9 DEF IInv, MergesOK, OnlyOf, Opened
<1>11. req'[h] # Idle => PassedMerge(req'[h], held'[h])
  BY <1>9
<1> QED BY <1>2, <1>10, <1>11, MergeHandles

LEMMA MergeWrites ==
    ASSUME IInv, Observe, NEW h \in Handlers, CommitOpen(h) \/ CommitMerge(h) \/ CommitClose(h),
           UNCHANGED <<airflowVars, settingsVars, instanceVars, sessionVars>>
    PROVE  IInv'
<1>1. /\ Proceeds(h, MergeKinds) /\ InProgress(req[h]) /\ req[h] # Idle /\ UNCHANGED accessVars
      /\ req'[h] = Idle /\ OnlyOf(h)
  <2>1. Answer(h)
    BY DEF CommitOpen, CommitMerge, CommitClose
  <2> QED BY <2>1, MergeProceeds, Moves DEF IInv, OnlyOf
<1> DEFINE Rows == [author : Users, status : {"open", "merged", "closed"}]
<1>2. \A m \in MergeIds : Opened(m) => mrs[m] \in Rows
  BY DEF IInv, MergesOK, Opened
<1>3. \E m \in MergeIds, row \in Rows :
          /\ mrs' = [mrs EXCEPT ![m] = row] \/ UNCHANGED mrs
          /\ Opened(m) => row.author = mrs[m].author
  <2>1. CASE CommitOpen(h)
    <3>1. PICK u : u = By(h)
      OBVIOUS
    <3>2. u \in Users
      BY <1>1, <3>1 DEF By, InProgress
    <3>3. PICK m \in MergeIds : ~Opened(m) /\ mrs' = [mrs EXCEPT ![m] = [author |-> u, status |-> "open"]]
      BY <2>1, <3>1 DEF CommitOpen
    <3> QED BY <3>2, <3>3
  <2>2. ASSUME NEW status \in {"merged", "closed"}, req[h].kind \in {"merge", "close"}, req[h].pc = "commit",
               Write(h, status)
        PROVE  \E m \in MergeIds, row \in Rows :
                  /\ mrs' = [mrs EXCEPT ![m] = row] \/ UNCHANGED mrs
                  /\ Opened(m) => row.author = mrs[m].author
    <3>1. PICK m : m = req[h].arg.of
      OBVIOUS
    <3>2. m \in MergeIds /\ Opened(m) /\ mrs[m] \in Rows
      BY <1>1, <1>2, <2>2, <3>1, Arguments DEF IInv, MergesOK
    <3>3. PICK row \in Rows : row = [author |-> mrs[m].author, status |-> status]
      BY <3>2
    <3>4. [mrs[m] EXCEPT !.status = status] = row
      BY <3>2, <3>3
    <3>5. mrs' = [mrs EXCEPT ![m] = row] \/ UNCHANGED mrs
      BY <2>2, <3>1, <3>4 DEF Write
    <3> QED BY <3>2, <3>3, <3>5
  <2> QED BY <2>1, <2>2 DEF CommitOpen, CommitMerge, CommitClose
<1>4. PICK m \in MergeIds, row \in Rows :
          /\ mrs' = [mrs EXCEPT ![m] = row] \/ UNCHANGED mrs
          /\ Opened(m) => row.author = mrs[m].author
  BY <1>3
<1>5. /\ mrs' \in [MergeIds -> {NoMerge} \cup Rows]
      /\ \A k \in MergeIds : Opened(k) => mrs'[k] # NoMerge /\ mrs'[k].author = mrs[k].author
  BY <1>4 DEF IInv, MergesOK, Opened, NoMerge
<1>6. ASSUME NEW k \in Handlers, req'[k].kind \in {"merge", "close"}, req'[k].pc \in {"role", "commit"}
      PROVE  mrs'[req'[k].arg.of] # NoMerge /\ req'[k].got.author = mrs'[req'[k].arg.of].author
  <2>1. req'[k] = req[k] /\ req[k] # Idle
    BY <1>1, <1>6 DEF OnlyOf, Idle
  <2>2. req[k].arg.of \in MergeIds
    BY <1>6, <2>1, Arguments DEF IInv, RequestsOK
  <2>3. Opened(req[k].arg.of) /\ req[k].got.author = mrs[req[k].arg.of].author
    BY <1>6, <2>1 DEF IInv, MergesOK
  <2> QED BY <1>5, <2>1, <2>2, <2>3
<1>7. MergesOK'
  BY <1>5, <1>6 DEF MergesOK, Opened
<1> QED BY <1>1, <1>7, MergeHandles

-----------------------------------------------------------------------------
(* Settings. *)

\* A handler of settings leaves the rest as it is.
LEMMA SettingsHandle ==
    ASSUME IInv, Observe, NEW h \in Handlers, Proceeds(h, SettingsKinds),
           ConfigOK', EnvironmentsOK', lastRow' \in lastRow .. MaxRow,
           selfApprove' \in BOOLEAN, UNCHANGED <<lifecycle, accountVars, members>>,
           UNCHANGED <<airflowVars, mrs, instanceVars, sessionVars>>
    PROVE  IInv'
<1>1. SettingsKinds \cap (AirflowKinds \cup MergeKinds) = {} /\ SettingsKinds \cap (HeldKinds \ {"git"}) = {}
  BY DEF SettingsKinds, AirflowKinds, MergeKinds, HeldKinds
<1>2. RequestsOK' /\ HeldOK' /\ OnlyOf(h) /\ Aside(SettingsKinds)
  BY <1>1, ProceededHeld DEF IInv
<1>3. AccessOK'
  BY <1>1, <1>2, AccessStays DEF IInv, AccessOK, accountVars, HeldKinds
<1>4. MergesOK' /\ ProxyOK' /\ SessionsOK'
  BY <1>1, <1>2, MergesStay, ProxyStays, SessionsStay DEF IInv, HeldKinds
<1>5. InstancesOK'
  <2>1. \A k \in Handlers : Provisioning(k) => req'[k] = req[k]
    BY <1>2 DEF OnlyOf, Proceeds, Provisioning, SettingsKinds
  <2>2. abandoned \subseteq abandoned' /\ abandoned' \subseteq 1 .. lastRow' /\ UNCHANGED instance
    BY RowAssumption DEF IInv, AccessOK, InstancesOK, instanceVars
  <2> QED BY <1>1, <1>2, <2>1, <2>2, InstancesStay DEF IInv, HeldKinds
<1> QED BY <1>2, <1>3, <1>4, <1>5 DEF IInv

LEMMA SettingsProceed ==
    ASSUME IInv, NEW h \in Handlers,
           \/ UpdateSettings(h) \/ SeeConfig(h) \/ CommitConfig(h) \/ SeeEnvironment(h)
           \/ CreateEnvironment(h) \/ RenameEnvironment(h) \/ DropEnvironment(h)
    PROVE  /\ Proceeds(h, SettingsKinds) /\ InProgress(req[h]) /\ req[h] # Idle /\ OnlyOf(h)
           /\ UNCHANGED <<lifecycle, accountVars, members>>
<1>1. /\ req[h].kind \in SettingsKinds /\ req[h].pc \in {"rows", "commit"}
      /\ Answer(h) \/ \E got : Keep(h, "commit", got)
  BY DEF UpdateSettings, SeeConfig, CommitConfig, SeeEnvironment, CreateEnvironment, RenameEnvironment,
         DropEnvironment, Refuse, SettingsKinds
<1>2. "commit" \in PcsOf(req[h].kind) \ Gates /\ req[h].pc \notin Gates
  BY <1>1 DEF PcsOf, Gates, SettingsKinds, AccountKinds, AirflowKinds, MergeKinds
<1>3. SettingsKinds \subseteq Kinds
  BY DEF Kinds, ProjectKinds
<1>4. Proceeds(h, SettingsKinds) /\ InProgress(req[h]) /\ req[h] # Idle
  BY <1>1, <1>2, <1>3, ServedProceeds, NotIdle DEF IInv
<1>5. UNCHANGED <<lifecycle, accountVars, members>>
  BY DEF UpdateSettings, SeeConfig, CommitConfig, SeeEnvironment, CreateEnvironment, RenameEnvironment,
         DropEnvironment, accessVars, memberVars
<1> QED BY <1>4, <1>5, Proceeded DEF IInv

\* What an update writes of a row computed from an older one, over the row that is there now.
LEMMA UpdatedIsSealed ==
    ASSUME NEW body \in GitBodies, NEW old, Sealed(old), Acceptable(body, old), NEW now, Sealed(now)
    PROVE  Sealed(Updated(body, old, now))
<1>1. /\ body.url \in Urls \cup {"keep"} /\ body.auth \in AuthTypes \cup {"keep"}
      /\ body.secret \in {"keep", "token", "credentials"}
  BY DEF GitBodies
<1>2. /\ NewUrl(body, old) \in Urls /\ NewAuth(body, old) \in AuthTypes
      /\ NewSecret(body, old) \in BOOLEAN
  BY <1>1 DEF NewUrl, NewAuth, NewSecret, Sealed
<1>3. Updated(body, old, now) \in [url : Urls, auth : AuthTypes, secret : BOOLEAN]
  BY <1>2 DEF Updated, Sealed
<1>4. ASSUME Updated(body, old, now).auth = "token" PROVE Updated(body, old, now).secret
  <2>1. CASE NewAuth(body, old) = old.auth
    <3>1. now.auth = "token" /\ now.secret
      BY <1>4, <2>1 DEF Updated, Sealed
    <3>2. body.auth = "keep" \/ body.auth = old.auth
      BY <2>1 DEF NewAuth
    <3> QED BY <3>1, <3>2 DEF Updated, NewSecret, Sealed
  <2>2. CASE NewAuth(body, old) # old.auth
    <3>1. NewAuth(body, old) = "token" /\ old.auth # "token"
      BY <1>4, <2>2 DEF Updated
    <3>2. body.secret # "keep"
      BY <3>1 DEF Acceptable
    <3> QED BY <3>2 DEF Updated, NewSecret
  <2> QED BY <2>1, <2>2
<1> QED BY <1>3, <1>4 DEF Sealed

LEMMA GitKeeps ==
    ASSUME IInv, Observe, NEW h \in Handlers, UpdateSettings(h) \/ SeeConfig(h) \/ CommitConfig(h),
           UNCHANGED <<airflowVars, mrs, instanceVars, sessionVars>>
    PROVE  IInv'
<1>1. PICK r : r = req[h]
  OBVIOUS
<1>2. /\ Proceeds(h, SettingsKinds) /\ InProgress(r) /\ r # Idle /\ OnlyOf(h)
      /\ UNCHANGED <<lifecycle, accountVars, members>>
  BY <1>1, SettingsProceed
<1>3. UNCHANGED <<lastRow, environments>> /\ lastRow' \in lastRow .. MaxRow
  BY RowAssumption
     DEF IInv, AccessOK, UpdateSettings, SeeConfig, CommitConfig, accessVars, memberVars, settingsVars
<1>4. EnvironmentsOK'
  BY <1>3, EnvironmentsStay DEF IInv
<1>5. selfApprove' \in BOOLEAN
  <2>1. r.kind = "settings" => r.arg.on \in BOOLEAN
    BY <1>2, Arguments
  <2> QED BY <1>1, <2>1 DEF IInv, AccessOK, UpdateSettings, SeeConfig, CommitConfig, accessVars
<1>6. ConfigOK'
  <2>1. ASSUME UpdateSettings(h) PROVE ConfigOK'
    <3>1. req'[h] = Idle /\ UNCHANGED config
      BY <2>1, Moves DEF IInv, UpdateSettings, settingsVars
    <3> QED BY <1>2, <3>1 DEF IInv, ConfigOK, OnlyOf, Idle
  <2>2. ASSUME SeeConfig(h) PROVE ConfigOK'
    <3>1. PICK old : old = IF config = NoConfig THEN NewConfig ELSE config
      OBVIOUS
    <3>2. PICK insert \in BOOLEAN : insert <=> config = NoConfig
      OBVIOUS
    <3>3. PICK got : got = [old |-> old, insert |-> insert]
      OBVIOUS
    <3>4. /\ UNCHANGED config
          /\ IF Acceptable(r.arg, old) THEN Keep(h, "commit", got) ELSE Answer(h)
      <4>1. (config = NoConfig) = insert
        BY <3>2
      <4> QED BY <1>1, <2>2, <3>1, <3>3, <4>1 DEF SeeConfig, Refuse, settingsVars
    <3>5. req'[h] = Idle \/ (Acceptable(r.arg, old) /\ req'[h] = With(r, "commit", got))
      BY <1>1, <1>2, <3>4, Moves DEF IInv
    <3>6. Sealed(old) /\ (~insert => config # NoConfig)
      BY <3>1, <3>2 DEF IInv, ConfigOK, Sealed, NewConfig, Urls, AuthTypes
    <3>7. req'[h].kind = "git" /\ req'[h].pc = "commit" =>
              /\ Sealed(req'[h].got.old) /\ Acceptable(req'[h].arg, req'[h].got.old)
              /\ req'[h].got.insert \in BOOLEAN
              /\ ~req'[h].got.insert => config # NoConfig
      BY <3>3, <3>5, <3>6 DEF With, Idle
    <3> QED BY <1>2, <3>4, <3>7 DEF IInv, ConfigOK, OnlyOf
  <2>3. ASSUME CommitConfig(h) PROVE ConfigOK'
    <3>1. r.kind = "git" /\ r.pc = "commit" /\ req'[h] = Idle
      BY <1>1, <2>3, Moves DEF IInv, CommitConfig, Refuse
    <3>2. /\ Sealed(r.got.old) /\ Acceptable(r.arg, r.got.old) /\ r.arg \in GitBodies
          /\ ~r.got.insert => Sealed(config)
      BY <1>1, <1>2, <3>1, Arguments DEF IInv, ConfigOK
    <3>3. UNCHANGED config \/ Sealed(config')
      BY <1>1, <2>3, <3>2, UpdatedIsSealed DEF CommitConfig
    <3>4. config' = NoConfig \/ Sealed(config')
      BY <3>3 DEF IInv, ConfigOK
    <3>5. Sealed(config') => config' # NoConfig
      BY DEF Sealed, NoConfig
    <3>6. config # NoConfig => config' # NoConfig
      BY <3>3, <3>5
    <3> QED BY <1>2, <3>1, <3>4, <3>6 DEF IInv, ConfigOK, OnlyOf, Idle
  <2> QED BY <2>1, <2>2, <2>3
<1> QED BY <1>1, <1>2, <1>3, <1>4, <1>5, <1>6, SettingsHandle

LEMMA EnvironmentKeeps ==
    ASSUME IInv, Observe, NEW h \in Handlers,
           \/ SeeEnvironment(h) \/ CreateEnvironment(h) \/ RenameEnvironment(h) \/ DropEnvironment(h),
           UNCHANGED <<airflowVars, mrs, instanceVars, sessionVars>>
    PROVE  IInv'
<1> USE RowAssumption
<1>1. PICK r : r = req[h]
  OBVIOUS
<1>2. /\ Proceeds(h, SettingsKinds) /\ InProgress(r) /\ r # Idle /\ OnlyOf(h)
      /\ UNCHANGED <<lifecycle, accountVars, members>>
  BY <1>1, SettingsProceed
<1>3. r.kind = "environment" /\ UNCHANGED <<config, selfApprove>> /\ lastRow' \in lastRow .. MaxRow
  BY <1>1 DEF IInv, AccessOK, SeeEnvironment, CreateEnvironment, RenameEnvironment, DropEnvironment,
              accessVars, memberVars, settingsVars
<1>4. selfApprove' \in BOOLEAN
  BY <1>3 DEF IInv, AccessOK
<1>5. r.arg.name \in EnvironmentNames /\ (r.arg.op = "rename" => r.arg.to \in EnvironmentNames)
  BY <1>2, <1>3, Arguments DEF EnvironmentBodies
<1>6. ConfigOK'
  <2>1. req'[h] = Idle \/ req'[h].kind = "environment"
    <3>1. req'[h] = Idle \/ \E pc, g : req'[h] = With(r, pc, g)
      BY <1>1, <1>2, Proceeded DEF IInv
    <3>2. ASSUME NEW pc, NEW g, req'[h] = With(r, pc, g) PROVE req'[h].kind = r.kind
      BY <3>2 DEF With
    <3> QED BY <1>3, <3>1, <3>2
  <2> QED BY <1>2, <1>3, <2>1 DEF IInv, ConfigOK, OnlyOf, Idle
<1>7. EnvironmentsOK'
  <2>1. CASE UNCHANGED environments
    BY <1>3, <2>1, EnvironmentsStay DEF IInv
  <2>2. CASE CreateEnvironment(h) /\ ~UNCHANGED environments
    <3>1. PICK name : name = r.arg.name
      OBVIOUS
    <3>2. /\ name \in EnvironmentNames /\ lastRow' = lastRow + 1
          /\ environments' = [environments EXCEPT ![name] = lastRow + 1]
      BY <1>1, <1>5, <2>2, <3>1 DEF CreateEnvironment
    <3> QED BY <3>2 DEF IInv, AccessOK, EnvironmentsOK
  <2>3. CASE RenameEnvironment(h) /\ ~UNCHANGED environments
    <3>1. PICK row : row = r.got.row
      OBVIOUS
    <3>2. PICK to : to = r.arg.to
      OBVIOUS
    <3>3. /\ to \in EnvironmentNames /\ environments[to] \in {0, row} /\ NamesOf(row) # {}
          /\ UNCHANGED lastRow
          /\ environments' = [name \in EnvironmentNames |->
                IF name = to THEN row
                ELSE IF environments[name] = row THEN 0 ELSE environments[name]]
      BY <1>1, <1>5, <2>3, <3>1, <3>2 DEF RenameEnvironment, accessVars, memberVars
    <3>4. row \in 0 .. lastRow
      BY <3>3 DEF IInv, EnvironmentsOK, NamesOf
    <3>5. environments' \in [EnvironmentNames -> 0 .. lastRow']
      BY <3>3, <3>4 DEF IInv, AccessOK, EnvironmentsOK
    <3>6. ASSUME NEW m \in EnvironmentNames, NEW n \in EnvironmentNames, environments'[m] = environments'[n]
          PROVE  m = n \/ environments'[m] = 0
      BY <3>3, <3>6 DEF IInv, EnvironmentsOK
    <3> QED BY <3>5, <3>6 DEF EnvironmentsOK
  <2>4. CASE DropEnvironment(h) /\ ~UNCHANGED environments
    <3>1. PICK S : S = NamesOf(r.got.row)
      OBVIOUS
    <3>2. /\ UNCHANGED lastRow
          /\ environments' = [name \in EnvironmentNames |-> IF name \in S THEN 0 ELSE environments[name]]
      BY <1>1, <2>4, <3>1 DEF DropEnvironment, accessVars, memberVars
    <3> QED BY <3>2 DEF IInv, AccessOK, EnvironmentsOK
  <2> QED BY <2>1, <2>2, <2>3, <2>4 DEF SeeEnvironment, settingsVars
<1> QED BY <1>1, <1>2, <1>3, <1>4, <1>6, <1>7, SettingsHandle

-----------------------------------------------------------------------------
(* The older instances. *)

\* A handler of instances leaves the rest as it is.
LEMMA InstanceHandles ==
    ASSUME IInv, Observe, NEW h \in Handlers, Proceeds(h, InstanceKinds),
           InstancesOK', lastRow' \in lastRow .. MaxRow,
           UNCHANGED <<lifecycle, selfApprove, accountVars, members>>,
           UNCHANGED <<airflowVars, mrs, settingsVars, sessionVars>>
    PROVE  IInv'
<1>1. /\ InstanceKinds \cap (AirflowKinds \cup MergeKinds) = {}
      /\ InstanceKinds \cap (HeldKinds \ {"provision", "restart"}) = {}
  BY DEF InstanceKinds, AirflowKinds, MergeKinds, HeldKinds
<1>2. RequestsOK' /\ HeldOK' /\ OnlyOf(h) /\ Aside(InstanceKinds)
  BY <1>1, ProceededHeld DEF IInv
<1>3. AccessOK'
  BY <1>1, <1>2, AccessStays DEF IInv, AccessOK, accountVars, HeldKinds
<1>4. MergesOK' /\ ProxyOK' /\ SessionsOK'
  BY <1>1, <1>2, MergesStay, ProxyStays, SessionsStay DEF IInv, HeldKinds
<1>5. ConfigOK' /\ EnvironmentsOK'
  BY <1>1, <1>2, ConfigStays, EnvironmentsStay DEF IInv, settingsVars, HeldKinds
<1> QED BY <1>2, <1>3, <1>4, <1>5 DEF IInv

\* What the other handlers know of the instance.
InstanceKnown(r) ==
    Running(r) =>
        /\ r.got.row \in 1 .. lastRow
        /\ r.got.row = instance.row /\ r.got.status = "running" => instance.status = "running"

LEMMA InstanceKeeps ==
    ASSUME IInv, Observe, NEW h \in Handlers,
           \/ CheckAbsent(h) \/ InsertInstance(h) \/ RefreshInstance(h) \/ SeeInstance(h)
           \/ RunInstance(h) \/ DeleteInstance(h),
           UNCHANGED <<airflowVars, mrs, settingsVars, sessionVars>>
    PROVE  IInv'
<1> USE RowAssumption
<1>1. PICK r : r = req[h]
  OBVIOUS
<1>2. /\ r.kind \in InstanceKinds /\ r.pc \notin Gates
      /\ r.kind = "provision" \/ r.pc \in {"rows", "commit"}
      /\ \/ Answer(h)
         \/ Goto(h, "insert") /\ r.kind = "provision"
         \/ \E pc \in {"refresh", "commit"} : \E got :
                Keep(h, pc, got) /\ (r.kind = "provision" \/ pc = "commit")
  <2>1. CASE CheckAbsent(h)
    BY <1>1, <2>1 DEF CheckAbsent, Refuse, InstanceKinds, Gates
  <2>5. CASE RunInstance(h)
    BY <1>1, <2>5 DEF RunInstance, Refuse, InstanceKinds, Gates
  <2>6. CASE DeleteInstance(h)
    BY <1>1, <2>6 DEF DeleteInstance, InstanceKinds, Gates
  <2>2. CASE InsertInstance(h)
    BY <1>1, <2>2 DEF InsertInstance, Refuse, InstanceKinds, Gates
  <2>3. CASE RefreshInstance(h)
    BY <1>1, <2>3 DEF RefreshInstance, Refuse, InstanceKinds, Gates
  <2>4. CASE SeeInstance(h)
    <3>1. r.kind \in {"restart", "delete"} /\ r.pc = "rows"
      BY <1>1, <2>4 DEF SeeInstance
    <3>2. Answer(h) \/ Keep(h, "commit", instance)
      BY <2>4 DEF SeeInstance, Refuse
    <3> QED BY <3>1, <3>2 DEF InstanceKinds, Gates
  <2> QED BY <2>1, <2>2, <2>3, <2>4, <2>5, <2>6
<1>3. /\ InstanceKinds \subseteq Kinds /\ "commit" \in PcsOf(r.kind) \ Gates
      /\ r.kind = "provision" => {"insert", "refresh"} \subseteq PcsOf(r.kind) \ Gates
  BY <1>2 DEF Kinds, ProjectKinds, PcsOf, InstanceKinds, Gates, AccountKinds, AirflowKinds, MergeKinds
<1>4. PICK pc \in PcsOf(r.kind) \ Gates : Answer(h) \/ Goto(h, pc) \/ \E got : Keep(h, pc, got)
  BY <1>2, <1>3
<1>5. Proceeds(h, InstanceKinds) /\ InProgress(r) /\ r # Idle /\ OnlyOf(h)
  <2>1. Proceeds(h, InstanceKinds) /\ InProgress(r)
    BY <1>1, <1>2, <1>3, <1>4, ServedProceeds DEF IInv
  <2> QED BY <2>1, NotIdle, Proceeded DEF IInv
<1>6. /\ UNCHANGED <<lifecycle, selfApprove, accountVars, members, abandoned>>
      /\ lastRow' \in lastRow .. MaxRow /\ \A row \in 1 .. lastRow : row \in 1 .. lastRow'
  BY DEF IInv, AccessOK, CheckAbsent, InsertInstance, RefreshInstance, SeeInstance, RunInstance,
         DeleteInstance, accessVars, memberVars, instanceVars
<1>7. /\ instance \in {NoInstance} \cup [row : 1 .. lastRow, status : {"creating", "running"}]
      /\ \A k \in Handlers : InstanceKnown(req[k])
      /\ CreatingIsInFlight
  BY DEF IInv, InstancesOK, InstanceKnown
<1>8. ASSUME instance' \in {NoInstance} \cup [row : 1 .. lastRow', status : {"creating", "running"}],
             \A k \in Handlers \ {h} :
                 Running(req[k]) /\ req[k].got.row = instance'.row /\ req[k].got.status = "running" =>
                     instance'.status = "running",
             Running(req'[h]) =>
                 /\ req'[h].got.row \in 1 .. lastRow'
                 /\ req'[h].got.row = instance'.row /\ req'[h].got.status = "running" =>
                        instance'.status = "running",
             instance'.status = "creating" =>
                 \/ Provisioning(h)' /\ req'[h].got.row = instance'.row
                 \/ instance' = instance /\ (Provisioning(h) => req[h].got.row # instance.row)
      PROVE  IInv'
  <2>1. CreatingIsInFlight'
    <3> SUFFICES ASSUME instance'.status = "creating", instance'.row \notin abandoned'
                 PROVE  \E k \in Handlers : Provisioning(k)' /\ req'[k].got.row = instance'.row
      BY DEF CreatingIsInFlight
    <3>1. CASE Provisioning(h)' /\ req'[h].got.row = instance'.row
      BY <3>1
    <3>2. CASE instance' = instance /\ (Provisioning(h) => req[h].got.row # instance.row)
      <4>1. PICK k \in Handlers : Provisioning(k) /\ req[k].got.row = instance.row
        BY <1>6, <1>7, <3>2 DEF CreatingIsInFlight
      <4>2. req'[k] = req[k]
        BY <1>5, <3>2, <4>1 DEF OnlyOf
      <4> QED BY <3>2, <4>1, <4>2 DEF Provisioning
    <3> QED BY <1>8, <3>1, <3>2
  <2>2. \A k \in Handlers : Running(req'[k]) =>
            /\ req'[k].got.row \in 1 .. lastRow'
            /\ req'[k].got.row = instance'.row /\ req'[k].got.status = "running" =>
                   instance'.status = "running"
    BY <1>5, <1>6, <1>7, <1>8 DEF OnlyOf, InstanceKnown
  <2>3. abandoned' \subseteq 1 .. lastRow'
    BY <1>6 DEF IInv, InstancesOK
  <2>4. InstancesOK'
    BY <1>8, <2>1, <2>2, <2>3 DEF InstancesOK, Running
  <2> QED BY <1>5, <1>6, <2>4, InstanceHandles
<1>9. UNCHANGED instance => instance' \in {NoInstance} \cup [row : 1 .. lastRow', status : {"creating", "running"}]
  BY <1>6, <1>7
<1>10. Answer(h) => ~Running(req'[h])
  BY Moves DEF IInv, Running, Idle
<1>11. CASE CheckAbsent(h)
  <2>1. r.pc = "rows" /\ UNCHANGED instance /\ (Answer(h) \/ Goto(h, "insert"))
    BY <1>1, <1>11 DEF CheckAbsent, Refuse, instanceVars
  <2>2. req'[h] = Idle \/ req'[h] = With(r, "insert", r.got)
    BY <1>1, <1>5, <2>1, Moves DEF IInv
  <2>3. ~Running(req'[h])
    BY <2>2 DEF Running, With, Idle
  <2> QED BY <1>1, <1>7, <1>8, <1>9, <2>1, <2>3 DEF Provisioning, InstanceKnown
<1>12. CASE InsertInstance(h) /\ instance # NoInstance
  <2>1. r.pc = "insert" /\ UNCHANGED instance /\ Answer(h)
    BY <1>1, <1>12 DEF InsertInstance, Refuse
  <2> QED BY <1>1, <1>7, <1>8, <1>9, <1>10, <2>1 DEF Provisioning, InstanceKnown
<1>13. CASE InsertInstance(h) /\ instance = NoInstance
  <2>1. PICK new : new = [row |-> lastRow + 1, status |-> "creating"]
    OBVIOUS
  <2>2. r.kind = "provision" /\ instance' = new /\ lastRow' = lastRow + 1 /\ Keep(h, "refresh", new)
    BY <1>1, <1>13, <2>1 DEF InsertInstance
  <2>3. req'[h] = With(r, "refresh", new)
    BY <1>1, <1>5, <2>2, Moves DEF IInv
  <2>4. lastRow \in 1 .. MaxRow /\ lastRow + 1 \in 1 .. lastRow'
    BY <2>2 DEF IInv, AccessOK
  <2>5. Provisioning(h)' /\ req'[h].got = new
    BY <2>2, <2>3 DEF Provisioning, With
  <2>6. \A k \in Handlers : Running(req[k]) => req[k].got.row # lastRow + 1
    BY <1>7, <2>4 DEF InstanceKnown
  <2> QED BY <1>8, <2>1, <2>2, <2>4, <2>5, <2>6
<1>14. CASE RefreshInstance(h)
  <2>1. PICK got : got = instance
    OBVIOUS
  <2>2. /\ r.kind = "provision" /\ r.pc = "refresh" /\ UNCHANGED instance
        /\ IF instance.row = r.got.row THEN Keep(h, "commit", got) ELSE Answer(h)
    BY <1>1, <1>14, <2>1 DEF RefreshInstance, Refuse, instanceVars
  <2>3. req'[h] = IF instance.row = r.got.row THEN With(r, "commit", got) ELSE Idle
    BY <1>1, <1>5, <2>2, Moves DEF IInv
  <2>4. r.got.row \in 1 .. lastRow
    BY <1>1, <1>7, <2>2 DEF InstanceKnown, Running
  <2>5. CASE instance.row = r.got.row
    <3>1. Provisioning(h)' /\ req'[h].got = instance
      BY <2>1, <2>2, <2>3, <2>5 DEF Provisioning, With
    <3> QED BY <1>6, <1>7, <1>8, <1>9, <2>2, <2>4, <2>5, <3>1 DEF InstanceKnown
  <2>6. CASE instance.row # r.got.row
    <3>1. ~Running(req'[h])
      BY <2>3, <2>6 DEF Running, Idle
    <3> QED BY <1>1, <1>7, <1>8, <1>9, <2>2, <2>6, <3>1 DEF InstanceKnown
  <2> QED BY <2>5, <2>6
<1>15. CASE SeeInstance(h)
  <2>1. PICK got : got = instance
    OBVIOUS
  <2>2. /\ r.kind \in {"restart", "delete"} /\ UNCHANGED instance
        /\ Answer(h) \/ (instance # NoInstance /\ Keep(h, "commit", got))
    <3>1. r.kind \in {"restart", "delete"} /\ UNCHANGED instance
      BY <1>1, <1>15 DEF SeeInstance, instanceVars
    <3>2. Answer(h) \/ (instance # NoInstance /\ Keep(h, "commit", instance))
      BY <1>15 DEF SeeInstance, Refuse
    <3>3. Answer(h) \/ (instance # NoInstance /\ Keep(h, "commit", got))
      BY <2>1, <3>2
    <3> QED BY <3>1, <3>3
  <2>3. req'[h] = Idle \/ (instance # NoInstance /\ req'[h] = With(r, "commit", got))
    BY <1>1, <1>5, <2>2, Moves DEF IInv
  <2>4. Running(req'[h]) => instance # NoInstance /\ req'[h].got = instance
    BY <2>1, <2>3 DEF Running, With, Idle
  <2>5. instance # NoInstance => instance.row \in 1 .. lastRow'
    BY <1>6, <1>7
  <2> QED BY <1>1, <1>7, <1>8, <1>9, <2>2, <2>4, <2>5 DEF Provisioning, InstanceKnown
<1>16. CASE RunInstance(h)
  <2>1. /\ r.kind \in {"provision", "restart"} /\ r.pc = "commit" /\ Answer(h)
        /\ \/ UNCHANGED instance /\ r.got.status = "running"
           \/ UNCHANGED instance /\ instance.row # r.got.row
           \/ instance.row = r.got.row /\ instance' = [instance EXCEPT !.status = "running"]
    BY <1>1, <1>16 DEF RunInstance, Refuse
  <2>2. /\ r.got.row \in 1 .. lastRow
        /\ r.got.row = instance.row /\ r.got.status = "running" => instance.status = "running"
    BY <1>1, <1>7, <2>1 DEF InstanceKnown, Running
  <2>3. CASE UNCHANGED instance /\ (r.got.status = "running" \/ instance.row # r.got.row)
    BY <1>1, <1>7, <1>8, <1>9, <1>10, <2>1, <2>2, <2>3 DEF InstanceKnown
  <2>4. CASE instance.row = r.got.row /\ instance' = [instance EXCEPT !.status = "running"]
    <3>1. instance \in [row : 1 .. lastRow, status : {"creating", "running"}]
      BY <1>7, <2>2, <2>4 DEF NoInstance
    <3>2. instance' = [row |-> instance.row, status |-> "running"]
      BY <2>4, <3>1
    <3> QED BY <1>6, <1>8, <1>10, <2>1, <3>1, <3>2
  <2> QED BY <2>1, <2>3, <2>4
<1>17. CASE DeleteInstance(h)
  <2>1. r.kind = "delete" /\ Answer(h) /\ instance' \in {NoInstance, instance}
    BY <1>1, <1>17 DEF DeleteInstance
  <2>2. CASE UNCHANGED instance
    BY <1>1, <1>7, <1>8, <1>9, <1>10, <2>1, <2>2 DEF Provisioning, InstanceKnown
  <2>3. CASE instance' = NoInstance
    <3>1. instance'.status # "creating" /\ instance'.row = 0
      BY <2>3 DEF NoInstance
    <3>2. \A k \in Handlers : Running(req[k]) => req[k].got.row # 0
      BY <1>7 DEF InstanceKnown
    <3> QED BY <1>8, <1>10, <2>1, <2>3, <3>1, <3>2
  <2> QED BY <2>1, <2>2, <2>3
<1> QED BY <1>11, <1>12, <1>13, <1>14, <1>15, <1>16, <1>17

-----------------------------------------------------------------------------
(* Signing in. *)

\* A handler of sessions leaves the rest as it is, but for the users.
LEMMA SessionHandles ==
    ASSUME IInv, Observe, NEW h \in Handlers, RequestsOK', HeldOK', OnlyOf(h), Aside(SessionKinds),
           ~Provisioning(h), SessionsOK', users' \in [Users -> UserRows],
           UNCHANGED <<lifecycle, selfApprove, roles, grants, memberVars>>,
           UNCHANGED <<airflowVars, mrs, settingsVars, instanceVars>>
    PROVE  IInv'
<1>1. SessionKinds \cap (HeldKinds \ {"refresh"}) = {}
  BY DEF SessionKinds, HeldKinds
<1>2. lastRow' \in lastRow .. MaxRow
  BY RowAssumption DEF IInv, AccessOK, memberVars
<1>3. AccessOK'
  BY <1>1, <1>2, AccessStays DEF IInv, AccessOK, memberVars, HeldKinds
<1>4. MergesOK' /\ ProxyOK'
  BY <1>1, MergesStay, ProxyStays DEF IInv, HeldKinds
<1>5. ConfigOK' /\ EnvironmentsOK'
  BY <1>1, <1>2, ConfigStays, EnvironmentsStay DEF IInv, settingsVars, HeldKinds
<1>6. InstancesOK'
  <2>1. \A k \in Handlers : Provisioning(k) => req'[k] = req[k]
    BY DEF OnlyOf
  <2>2. abandoned \subseteq abandoned' /\ abandoned' \subseteq 1 .. lastRow' /\ UNCHANGED instance
    BY RowAssumption DEF IInv, AccessOK, InstancesOK, instanceVars, memberVars
  <2> QED BY <1>1, <1>2, <2>1, <2>2, InstancesStay DEF IInv, HeldKinds
<1> QED BY <1>3, <1>4, <1>5, <1>6 DEF IInv

\* Tokens that have been issued stay so, and come back to the store never.
Rotates ==
    /\ tokens' \in [Tokens -> [stored : BOOLEAN, user : Users, issued : BOOLEAN]]
    /\ \A t \in Tokens : tokens[t].issued =>
           tokens'[t].issued /\ (tokens'[t].stored => tokens[t].stored)

\* What a refresh knows of its token.
RefreshKnows(r) ==
    r.kind = "refresh" =>
        /\ tokens[r.arg.token].issued
        /\ r.pc \in {"user", "renew"} => ~tokens[r.arg.token].stored
        /\ r.arg.late => r.arg.token \in spent /\ r.pc = "get"

LEMMA TokensRotate ==
    ASSUME IInv, NEW h \in Handlers, OnlyOf(h), Rotates, spent \subseteq spent', spent' \subseteq Tokens,
           \A t \in spent' \ spent : tokens'[t].issued /\ ~tokens'[t].stored,
           req'[h].kind = "refresh" =>
               /\ tokens'[req'[h].arg.token].issued
               /\ req'[h].pc \in {"user", "renew"} => ~tokens'[req'[h].arg.token].stored
               /\ req'[h].arg.late => req'[h].arg.token \in spent' /\ req'[h].pc = "get"
    PROVE  SessionsOK'
<1>1. \A t \in spent' : tokens'[t].issued /\ ~tokens'[t].stored
  BY DEF IInv, SessionsOK, Rotates
<1>2. ASSUME NEW k \in Handlers \ {h}, req'[k].kind = "refresh"
      PROVE  /\ tokens'[req'[k].arg.token].issued
             /\ req'[k].pc \in {"user", "renew"} => ~tokens'[req'[k].arg.token].stored
             /\ req'[k].arg.late => req'[k].arg.token \in spent' /\ req'[k].pc = "get"
  <2>1. req'[k] = req[k] /\ InProgress(req[k])
    BY <1>2 DEF IInv, RequestsOK, OnlyOf, Idle
  <2>2. req[k].arg.token \in Tokens
    BY <1>2, <2>1, Arguments
  <2>3. RefreshKnows(req[k])
    BY DEF IInv, SessionsOK, RefreshKnows
  <2> QED BY <1>2, <2>1, <2>2, <2>3 DEF Rotates, RefreshKnows
<1> QED BY <1>1, <1>2 DEF SessionsOK, Rotates

LEMMA TokensStay ==
    ASSUME IInv, UNCHANGED tokens
    PROVE  Rotates
  BY DEF IInv, SessionsOK, Rotates

TokenRows == [stored : BOOLEAN, user : Users, issued : BOOLEAN]

LEMMA Unstored ==
    ASSUME NEW f \in [Tokens -> TokenRows], NEW t \in Tokens
    PROVE  /\ [f EXCEPT ![t].stored = FALSE] \in [Tokens -> TokenRows]
           /\ ~[f EXCEPT ![t].stored = FALSE][t].stored
           /\ [f EXCEPT ![t].stored = FALSE][t].issued <=> f[t].issued
           /\ \A s \in Tokens \ {t} : [f EXCEPT ![t].stored = FALSE][s] = f[s]
  BY DEF TokenRows

LEMMA UnstoredRotates ==
    ASSUME IInv, NEW t \in Tokens, tokens' = [tokens EXCEPT ![t].stored = FALSE]
    PROVE  Rotates /\ ~tokens'[t].stored
<1>1. tokens \in [Tokens -> TokenRows]
  BY DEF IInv, SessionsOK, TokenRows
<1>2. /\ tokens' \in [Tokens -> TokenRows] /\ ~tokens'[t].stored
      /\ tokens'[t].issued <=> tokens[t].issued
      /\ \A s \in Tokens \ {t} : tokens'[s] = tokens[s]
  BY <1>1, Unstored
<1> QED BY <1>2 DEF Rotates, TokenRows

\* A token that is issued was nobody's.
LEMMA IssueRotates ==
    ASSUME IInv, NEW h \in Handlers, Issue(h), By(h) \in Users
    PROVE  /\ Rotates /\ Answer(h)
           /\ \A t \in Tokens : tokens[t].issued => tokens'[t] = tokens[t]
<1>1. PICK u : u = By(h)
  OBVIOUS
<1>2. PICK t \in Tokens :
          ~tokens[t].issued /\ tokens' = [tokens EXCEPT ![t] = [stored |-> TRUE, user |-> u, issued |-> TRUE]]
  BY <1>1 DEF Issue
<1>3. Answer(h)
  BY DEF Issue
<1> QED BY <1>1, <1>2, <1>3 DEF IInv, SessionsOK, Rotates

LEMMA SessionArrives ==
    ASSUME IInv, Observe, NEW h \in Handlers, UNCHANGED data,
           ReceiveRegistration(h) \/ ReceiveLogin(h) \/ ReceiveRefresh(h)
    PROVE  IInv'
<1>1. CASE ReceiveRegistration(h) \/ ReceiveLogin(h)
  <2>1. PICK u \in Users, kind \in {"register", "login"} :
            \E pc \in PcsOf(kind) : Call(h, kind, u, Nothing, pc)
    BY <1>1 DEF ReceiveRegistration, ReceiveLogin, PcsOf, AccountKinds
  <2>2. [kind |-> kind, arg |-> Nothing] \in Calls
    BY DEF Calls, SessionCalls
  <2>3. kind \in Kinds \ {"refresh"} /\ kind \in SessionKinds /\ kind \notin AccountKinds
    BY DEF Kinds, SessionKinds, AccountKinds
  <2> QED BY <2>1, <2>2, <2>3, ArrivalStep DEF SessionKinds
<1>2. CASE ReceiveRefresh(h)
  <2>1. PICK t \in Tokens :
            tokens[t].issued /\ Call(h, "refresh", tokens[t].user, [token |-> t, late |-> t \in spent], "get")
    BY <1>2 DEF ReceiveRefresh
  <2>2. PICK u : u = tokens[t].user
    OBVIOUS
  <2>3. PICK late \in BOOLEAN : late <=> t \in spent
    OBVIOUS
  <2>4. PICK arg : arg = [token |-> t, late |-> late]
    OBVIOUS
  <2>5. Call(h, "refresh", u, arg, "get") /\ u \in Users
    <3>1. late = (t \in spent)
      BY <2>3
    <3> QED BY <2>1, <2>2, <2>4, <3>1 DEF IInv, SessionsOK
  <2>6. "refresh" \in Kinds /\ "refresh" \in SessionKinds /\ "refresh" \notin AccountKinds
        /\ "get" \in PcsOf("refresh") /\ [kind |-> "refresh", arg |-> arg] \in Calls
    BY <2>4 DEF Kinds, SessionKinds, AccountKinds, PcsOf, Calls, SessionCalls
  <2>7. /\ users[u].admin \in BOOLEAN /\ users' = users /\ RequestsOK /\ HeldOK
        /\ users' \in [Users -> UserRows]
    BY <2>5 DEF IInv, AccessOK, UserRows, data, accessVars, accountVars
  <2>8. /\ RequestsOK' /\ HeldOK' /\ OnlyOf(h) /\ req[h] = Idle
        /\ req'[h] = [kind |-> "refresh", by |-> u, admin |-> users[u].admin, arg |-> arg,
                      pc |-> "get", got |-> Nothing]
    BY <2>5, <2>6, <2>7, Arrives DEF SessionKinds
  <2>9. Aside(SessionKinds) /\ ~Provisioning(h)
    BY <2>6, <2>8 DEF Aside, Light, OnlyOf, Provisioning, Idle
  <2>10. SessionsOK'
    <3>1. UNCHANGED <<tokens, spent>> /\ spent \subseteq Tokens
      BY DEF IInv, SessionsOK, data, sessionVars
    <3>2. req'[h].arg = arg /\ req'[h].pc = "get" /\ req'[h].kind = "refresh"
      BY <2>8
    <3>3. arg.token = t /\ (arg.late => t \in spent)
      BY <2>3, <2>4
    <3> QED BY <2>1, <2>8, <3>1, <3>2, <3>3, TokensStay, TokensRotate
  <2> QED BY <2>7, <2>8, <2>9, <2>10, SessionHandles DEF data, accessVars, accountVars
<1> QED BY <1>1, <1>2

LEMMA SessionKeeps ==
    ASSUME IInv, Observe, NEW h \in Handlers,
           \/ InsertUser(h) \/ StoreFirst(h) \/ GetToken(h) \/ DeleteToken(h) \/ SeeUser(h) \/ StoreNext(h),
           UNCHANGED <<airflowVars, mrs, settingsVars, instanceVars>>
    PROVE  IInv'
<1>1. PICK r : r = req[h]
  OBVIOUS
<1>2. /\ r.kind \in SessionKinds /\ r.pc \notin Gates
      /\ \E pc \in PcsOf(r.kind) \ Gates : Answer(h) \/ Goto(h, pc)
  <2>1. CASE InsertUser(h)
    BY <1>1, <2>1 DEF InsertUser, Refuse, SessionKinds, AccountKinds, PcsOf, Gates
  <2>2. CASE StoreFirst(h)
    BY <1>1, <2>2 DEF StoreFirst, Issue, SessionKinds, AccountKinds, PcsOf, Gates
  <2>3. CASE GetToken(h)
    BY <1>1, <2>3 DEF GetToken, Refuse, SessionKinds, AccountKinds, PcsOf, Gates
  <2>4. CASE DeleteToken(h)
    BY <1>1, <2>4 DEF DeleteToken, SessionKinds, AccountKinds, PcsOf, Gates
  <2>5. CASE SeeUser(h)
    BY <1>1, <2>5 DEF SeeUser, Refuse, SessionKinds, AccountKinds, PcsOf, Gates
  <2>6. CASE StoreNext(h)
    BY <1>1, <2>6 DEF StoreNext, Issue, SessionKinds, AccountKinds, PcsOf, Gates
  <2> QED BY <2>1, <2>2, <2>3, <2>4, <2>5, <2>6
<1>3. SessionKinds \subseteq Kinds /\ SessionKinds \cap (AirflowKinds \cup MergeKinds) = {}
  BY DEF Kinds, SessionKinds, AirflowKinds, MergeKinds
<1>4. Proceeds(h, SessionKinds) /\ InProgress(r) /\ r # Idle /\ By(h) \in Users
  <2>1. PICK pc \in PcsOf(r.kind) \ Gates : Answer(h) \/ Goto(h, pc)
    BY <1>2
  <2>2. Proceeds(h, SessionKinds) /\ InProgress(r)
    BY <1>1, <1>2, <1>3, <2>1, ServedProceeds DEF IInv
  <2> QED BY <1>1, <2>2, NotIdle DEF InProgress, By
<1>5. RequestsOK' /\ HeldOK' /\ OnlyOf(h) /\ Aside(SessionKinds) /\ ~Provisioning(h)
  BY <1>1, <1>2, <1>3, <1>4, ProceededHeld DEF IInv, Provisioning, SessionKinds
<1>6. UNCHANGED <<lifecycle, selfApprove, roles, grants, memberVars>>
  BY DEF InsertUser, StoreFirst, GetToken, DeleteToken, SeeUser, StoreNext, accessVars, accountVars
<1>7. users' \in [Users -> UserRows]
  <2>1. CASE UNCHANGED users
    BY <2>1 DEF IInv, AccessOK, UserRows
  <2>2. CASE InsertUser(h) /\ ~UNCHANGED users
    <3>1. PICK u \in Users : u = By(h)
      BY <1>4
    <3>2. users' = [users EXCEPT ![u] = [there |-> TRUE, active |-> TRUE, admin |-> FALSE]]
      BY <2>2, <3>1 DEF InsertUser
    <3> QED BY <3>2 DEF IInv, AccessOK, UserRows
  <2> QED BY <2>1, <2>2 DEF InsertUser, StoreFirst, GetToken, DeleteToken, SeeUser, StoreNext, accessVars, accountVars
<1>8. r.kind = "refresh" => /\ r.arg.token \in Tokens /\ RefreshKnows(r)
  BY <1>1, <1>4, Arguments DEF IInv, SessionsOK, RefreshKnows
<1>9. spent \subseteq Tokens
  BY DEF IInv, SessionsOK
<1>10. SessionsOK'
  <2>1. CASE InsertUser(h) \/ StoreFirst(h)
    <3>1. r.kind # "refresh" /\ UNCHANGED spent /\ (UNCHANGED tokens \/ Issue(h))
      BY <1>1, <2>1 DEF InsertUser, StoreFirst, sessionVars
    <3>2. Rotates
      BY <1>4, <3>1, TokensStay, IssueRotates
    <3>3. req'[h].kind # "refresh"
      <4>1. req'[h] = Idle \/ \E pc, g : req'[h] = With(r, pc, g)
        BY <1>1, <1>4, Proceeded DEF IInv
      <4>2. ASSUME NEW pc, NEW g, req'[h] = With(r, pc, g) PROVE req'[h].kind = r.kind
        BY <4>2 DEF With
      <4> QED BY <3>1, <4>1, <4>2 DEF Idle
    <3> QED BY <1>5, <1>9, <3>1, <3>2, <3>3, TokensRotate
  <2>2. CASE GetToken(h)
    <3>1. /\ r.kind = "refresh" /\ UNCHANGED <<tokens, spent>>
          /\ Answer(h) \/ (tokens[r.arg.token].stored /\ Goto(h, "delete"))
      BY <1>1, <2>2 DEF GetToken, Refuse, sessionVars
    <3>2. req'[h] = Idle \/ (tokens[r.arg.token].stored /\ req'[h] = With(r, "delete", r.got))
      BY <1>1, <1>4, <3>1, Moves DEF IInv
    <3>3. r.arg.late => ~tokens[r.arg.token].stored
      BY <1>8, <3>1 DEF IInv, SessionsOK, RefreshKnows
    <3>4. req'[h].kind = "refresh" =>
              /\ tokens[req'[h].arg.token].issued /\ ~req'[h].arg.late /\ req'[h].pc = "delete"
      BY <1>8, <3>1, <3>2, <3>3 DEF RefreshKnows, With, Idle
    <3> QED BY <1>5, <1>9, <3>1, <3>4, TokensStay, TokensRotate
  <2>3. CASE DeleteToken(h)
    <3>1. PICK t : t = r.arg.token
      OBVIOUS
    <3>2. /\ r.kind = "refresh" /\ r.pc = "delete" /\ UNCHANGED spent /\ Goto(h, "user")
          /\ tokens' = [tokens EXCEPT ![t].stored = FALSE]
      BY <1>1, <2>3, <3>1 DEF DeleteToken
    <3>3. req'[h] = With(r, "user", r.got)
      BY <1>1, <1>4, <3>2, Moves DEF IInv
    <3>4. t \in Tokens
      BY <1>8, <3>1, <3>2
    <3>5. Rotates /\ ~tokens'[t].stored
      BY <3>2, <3>4, UnstoredRotates
    <3>6. tokens'[t].issued /\ ~r.arg.late
      BY <1>8, <3>1, <3>2, <3>4, <3>5 DEF RefreshKnows, Rotates
    <3>7. req'[h].arg = r.arg
      BY <3>3 DEF With
    <3> QED BY <1>5, <1>9, <3>1, <3>2, <3>5, <3>6, <3>7, TokensRotate
  <2>4. CASE SeeUser(h)
    <3>1. /\ r.kind = "refresh" /\ r.pc = "user" /\ UNCHANGED tokens
          /\ \/ Goto(h, "renew") /\ UNCHANGED spent
             \/ Answer(h) /\ spent' = spent \cup {r.arg.token}
      BY <1>1, <2>4 DEF SeeUser, Refuse, Spend
    <3>2. /\ r.arg.token \in Tokens /\ tokens[r.arg.token].issued /\ ~tokens[r.arg.token].stored
          /\ ~r.arg.late
      BY <1>8, <3>1 DEF RefreshKnows
    <3>3. req'[h] = Idle \/ req'[h] = With(r, "renew", r.got)
      BY <1>1, <1>4, <3>1, Moves DEF IInv
    <3>4. req'[h].kind = "refresh" => req'[h].arg = r.arg
      BY <3>3 DEF With, Idle
    <3> QED BY <1>5, <1>9, <3>1, <3>2, <3>4, TokensStay, TokensRotate
  <2>5. CASE StoreNext(h)
    <3>1. r.kind = "refresh" /\ r.pc = "renew" /\ Issue(h) /\ spent' = spent \cup {r.arg.token}
      BY <1>1, <2>5 DEF StoreNext, Spend
    <3>2. r.arg.token \in Tokens /\ tokens[r.arg.token].issued /\ ~tokens[r.arg.token].stored
      BY <1>8, <3>1 DEF RefreshKnows
    <3>3. Rotates /\ tokens'[r.arg.token] = tokens[r.arg.token] /\ req'[h] = Idle
      BY <1>4, <3>1, <3>2, IssueRotates, Moves DEF IInv
    <3> QED BY <1>5, <1>9, <3>1, <3>2, <3>3, TokensRotate DEF Idle
  <2> QED BY <2>1, <2>2, <2>3, <2>4, <2>5
<1> QED BY <1>5, <1>6, <1>7, <1>10, SessionHandles

LEMMA TokenExpires ==
    ASSUME IInv, Observe, NEW t \in Tokens, ExpireToken(t),
           UNCHANGED <<airflowVars, mrs, settingsVars, instanceVars>>
    PROVE  IInv'
<1>1. UNCHANGED <<accessVars, spent, req>> /\ tokens' = [tokens EXCEPT ![t].stored = FALSE]
  BY DEF ExpireToken
<1>2. RequestsOK' /\ HeldOK' /\ Aside({})
  BY <1>1, RequestsStay DEF IInv
<1>3. SessionsOK'
  <2>1. Rotates
    BY <1>1, UnstoredRotates
  <2>2. \A k \in Handlers : req[k].kind = "refresh" => req[k].arg.token \in Tokens
    BY Arguments DEF IInv, RequestsOK, Idle
  <2> QED BY <1>1, <2>1, <2>2 DEF IInv, SessionsOK, Rotates
<1>4. lastRow' \in lastRow .. MaxRow
  BY <1>1, RowAssumption DEF IInv, AccessOK, accessVars, memberVars
<1>5. AccessOK' /\ ProxyOK'
  BY <1>1, <1>2, <1>4, AccessStays, ProxyStays DEF IInv, AccessOK, accessVars, accountVars, memberVars
<1>6. ConfigOK' /\ EnvironmentsOK' /\ MergesOK'
  BY <1>2, <1>4, ConfigStays, EnvironmentsStay, MergesStay DEF IInv, settingsVars
<1>7. InstancesOK'
  <2>1. abandoned \subseteq abandoned' /\ abandoned' \subseteq 1 .. lastRow' /\ UNCHANGED instance
    BY <1>1, <1>4 DEF IInv, InstancesOK, instanceVars, accessVars, memberVars
  <2> QED BY <1>1, <1>2, <1>4, <2>1, InstancesStay DEF IInv
<1> QED BY <1>2, <1>3, <1>5, <1>6, <1>7 DEF IInv

-----------------------------------------------------------------------------
(* The invariant. *)

LEMMA InitOK == Init => IInv
<1> SUFFICES ASSUME Init PROVE IInv
  OBVIOUS
<1> USE UserAssumption, RoleAssumption, RowAssumption DEF Init
<1>1. req = [h \in Handlers |-> Idle]
  BY DEF AccessInit
<1>2. RequestsOK /\ HeldOK
  BY <1>1 DEF RequestsOK, HeldOK
<1>3. lastRow = 2 /\ 1 \in 1 .. lastRow /\ 2 \in 1 .. lastRow /\ lastRow \in 1 .. MaxRow
  BY DEF AccessInit
<1>4. roles \subseteq Roles /\ "project_admin" \in roles
  BY DEF AccessInit, SystemRoles
<1>5. users \in [Users -> UserRows]
  BY DEF AccessInit, UserRows
<1>6. grants \in [Roles -> SUBSET ({View, Run, WholeProject, Everything} \cup Grantable)]
  <2>1. \A role \in Roles : SeededGrants(role) \subseteq {View, Run, WholeProject, Everything}
    BY DEF SeededGrants
  <2> QED BY <2>1 DEF AccessInit
<1>7. /\ members \in [Users -> {NoRow} \cup MemberRows]
      /\ \A u, v \in Users : members[u].row = members[v].row => u = v \/ members[u] = NoRow
  <2>1. PICK second \in Users, role \in roles :
            members = [u \in Users |->
                IF u = Founder THEN [row |-> 1, role |-> "project_admin"]
                ELSE IF u = second THEN [row |-> 2, role |-> role] ELSE NoRow]
    BY DEF AccessInit
  <2>2. [row |-> 1, role |-> "project_admin"] \in MemberRows /\ [row |-> 2, role |-> role] \in MemberRows
    BY <1>3, <1>4 DEF MemberRows
  <2>3. members \in [Users -> {NoRow} \cup MemberRows]
    BY <2>1, <2>2
  <2>4. ASSUME NEW u \in Users, NEW v \in Users, members[u].row = members[v].row
        PROVE  u = v \/ members[u] = NoRow
    BY <2>1, <2>4 DEF NoRow
  <2> QED BY <2>3, <2>4
<1>8. AccessOK
  <2>1. lifecycle \in {"READY", "DELETING"} /\ selfApprove \in BOOLEAN
    BY DEF AccessInit
  <2>2. \A h \in Handlers : req[h].kind = "change" /\ req[h].pc = "commit" => req[h].got.row # 0
    BY <1>1 DEF Idle
  <2> QED BY <1>3, <1>4, <1>5, <1>6, <1>7, <2>1, <2>2 DEF AccessOK
<1>9. ConfigOK /\ EnvironmentsOK
  BY <1>1, <1>3 DEF SettingsInit, ConfigOK, EnvironmentsOK, Idle
<1>10. MergesOK /\ ProxyOK
  BY <1>1 DEF MergeInit, AirflowInit, MergesOK, ProxyOK, Idle
<1>11. InstancesOK
  BY <1>1 DEF InstanceInit, InstancesOK, CreatingIsInFlight, NoInstance, Running, Idle
<1>12. SessionsOK
  <2>1. PICK u \in Users :
            tokens = [t \in Tokens |-> IF "signed_in" \in mix /\ \A s \in Tokens : t <= s
                                       THEN [stored |-> TRUE, user |-> u, issued |-> TRUE] ELSE Unissued]
    BY DEF SessionInit
  <2>2. tokens \in [Tokens -> [stored : BOOLEAN, user : Users, issued : BOOLEAN]]
    BY <2>1 DEF Unissued
  <2> QED BY <1>1, <2>2 DEF SessionInit, SessionsOK, Idle
<1> QED BY <1>2, <1>8, <1>9, <1>10, <1>11, <1>12 DEF IInv

LEMMA AccessKeeps ==
    ASSUME IInv, Observe, NEW h \in Handlers, Access(h)
    PROVE  IInv'
<1>1. Others
  BY DEF Access
<1>2. UNCHANGED accessVars => UNCHANGED data
  BY <1>1 DEF Others, data
<1>3. CASE Gate(h)
  BY <1>1, <1>3, GateStep
<1>4. CASE MemberStep(h)
  BY <1>1, <1>2, <1>4, MemberArrives, MemberWrites DEF MemberStep
<1>5. CASE AccountStep(h)
  BY <1>1, <1>2, <1>5, AccountArrives, AccountWrites DEF AccountStep
<1> QED BY <1>3, <1>4, <1>5 DEF Access

LEMMA AirflowKeeps ==
    ASSUME IInv, Observe, Airflow
    PROVE  IInv'
<1>1. UNCHANGED <<mrs, settingsVars, instanceVars, sessionVars>>
  BY DEF Airflow
<1>2. ASSUME NEW h \in Handlers, Serves(h, AirflowKinds), ProxyStep(h) PROVE IInv'
  <2>1. CASE UNCHANGED <<accessVars, airflowVars>> /\ Listening(h, AirflowKinds)
             /\ (ReceiveProxy(h) \/ ReceiveByCookie(h) \/ ReceiveBootstrap(h) \/ ReceiveWidget(h))
    <3>1. UNCHANGED data
      BY <1>1, <2>1 DEF data
    <3> QED BY <2>1, <3>1, ProxyArrives
  <2>2. CASE SeeAccount(h) \/ SeeRole(h) \/ SeeGrants(h) \/ Bootstrap(h)
             \/ SeeCache(h) \/ Mint(h) \/ Forward(h) \/ Fetch(h)
    <3>1. req[h].kind \in AirflowKinds
      <4>1. req[h].pc # "idle"
        BY <2>2 DEF SeeAccount, SeeRole, SeeGrants, Bootstrap, SeeCache, Mint, Forward, Fetch
      <4>2. req[h] # Idle
        BY <4>1 DEF Idle
      <4>3. req[h].kind # Idle.kind
        BY <4>2 DEF IInv, RequestsOK, InProgress, Kinds, ProjectKinds, MemberKinds, SettingsKinds, AirflowKinds,
                    MergeKinds, InstanceKinds, AccountKinds, SessionKinds, Idle
      <4> QED BY <1>2, <4>3 DEF Serves
    <3> QED BY <1>1, <2>2, <3>1, ProxyReads, ProxyAnswers
  <2> QED BY <1>2, <2>1, <2>2 DEF ProxyStep
<1>3. ASSUME (\E key \in Accounts : Expire(key)) \/ (\E u \in Users : ExpireCookie(u)) PROVE IInv'
  BY <1>1, <1>3, ProxyExpires
<1> QED BY <1>2, <1>3 DEF Airflow

LEMMA MergesKeep ==
    ASSUME IInv, Observe, NEW h \in Handlers, Merges(h)
    PROVE  IInv'
<1>1. MergeStep(h) /\ UNCHANGED <<airflowVars, settingsVars, instanceVars, sessionVars>>
  BY DEF Merges
<1>2. UNCHANGED <<accessVars, mrs>> => UNCHANGED data
  BY <1>1 DEF data
<1> QED BY <1>1, <1>2, MergeArrives, MergeReads, MergeWrites DEF MergeStep

LEMMA SettingsKeep ==
    ASSUME IInv, Observe, NEW h \in Handlers, Settings(h)
    PROVE  IInv'
<1>1. SettingsStep(h) /\ UNCHANGED <<airflowVars, mrs, instanceVars, sessionVars>>
  BY DEF Settings
<1>2. UNCHANGED <<accessVars, settingsVars>> => UNCHANGED data
  BY <1>1 DEF data
<1> QED BY <1>1, <1>2, SettingsArrive, GitKeeps, EnvironmentKeeps DEF SettingsStep

LEMMA InstancesKeep ==
    ASSUME IInv, Observe, NEW h \in Handlers, Instances(h)
    PROVE  IInv'
<1>1. InstanceStep(h) /\ UNCHANGED <<airflowVars, mrs, settingsVars, sessionVars>>
  BY DEF Instances
<1>2. UNCHANGED <<accessVars, instanceVars>> => UNCHANGED data
  BY <1>1 DEF data
<1> QED BY <1>1, <1>2, InstanceArrives, InstanceKeeps DEF InstanceStep

LEMMA SigningInKeeps ==
    ASSUME IInv, Observe, SigningIn
    PROVE  IInv'
<1>1. UNCHANGED <<airflowVars, mrs, settingsVars, instanceVars>>
  BY DEF SigningIn
<1>2. UNCHANGED <<accessVars, sessionVars>> => UNCHANGED data
  BY <1>1 DEF data
<1>3. ASSUME NEW h \in Handlers, SessionStep(h) PROVE IInv'
  BY <1>1, <1>2, <1>3, SessionArrives, SessionKeeps DEF SessionStep
<1>4. ASSUME NEW t \in Tokens, ExpireToken(t) PROVE IInv'
  BY <1>1, <1>4, TokenExpires
<1> QED BY <1>3, <1>4 DEF SigningIn

LEMMA StepOK == IInv /\ [Next]_vars => IInv'
<1>1. ASSUME IInv, Next PROVE IInv'
  <2>1. Observe
    BY <1>1 DEF Next
  <2>2. ASSUME NEW h \in Handlers, Access(h) \/ Merges(h) \/ Settings(h) \/ Instances(h) \/ Crash(h)
        PROVE  IInv'
    BY <1>1, <2>1, <2>2, AccessKeeps, MergesKeep, SettingsKeep, InstancesKeep, CrashKeeps
  <2>3. CASE Airflow
    BY <1>1, <2>1, <2>3, AirflowKeeps
  <2>4. CASE SigningIn
    BY <1>1, <2>1, <2>4, SigningInKeeps
  <2>5. CASE Deletion
    BY <1>1, <2>1, <2>5, DeletionKeeps
  <2> QED BY <1>1, <2>2, <2>3, <2>4, <2>5 DEF Next
<1>2. ASSUME IInv, UNCHANGED vars PROVE IInv'
  BY <1>2, StutterKeeps
<1> QED BY <1>1, <1>2

\* The strengthening is inductive.
THEOREM Invariance == Spec => []IInv
  BY InitOK, StepOK, PTL DEF Spec

-----------------------------------------------------------------------------
(* The invariants of the runs. *)

\* Every row, request and token has its type; the role of a member exists, two members
\* have two rows, and one environment has one name.
THEOREM TypeCorrect == Spec => []TypeOK
<1>1. IInv => TypeOK
  BY DEF IInv, RequestsOK, InProgress, AccessOK, UserRows, MemberRows, ConfigOK, Sealed, EnvironmentsOK,
         MergesOK, ProxyOK, InstancesOK, SessionsOK, TypeOK
<1> QED BY <1>1, Invariance, PTL

\* forward_airflow_request sends the token of an account that stands for a role that the
\* requester has had since the request came in, although the tokens are cached for all.
THEOREM ForwardsAsSelf == Spec => []ForwardedAsOwnAccount
<1>1. ASSUME IInv PROVE ForwardedAsOwnAccount
  <2> SUFFICES ASSUME NEW h \in Handlers, req[h].pc = "forward"
               PROVE  req[h].got.token \in {Account(role) : role \in held[h].as}
    BY DEF ForwardedAsOwnAccount
  <2>1. InProgress(req[h]) /\ Passed(req[h], held[h])
    BY <1>1 DEF IInv, RequestsOK, HeldOK, Idle
  <2>2. req[h].kind \in AirflowKinds
    BY <2>1 DEF InProgress, PcsOf
  <2> QED BY <2>1, <2>2 DEF Passed, PassedProxy, AccountsOf
<1> QED BY <1>1, Invariance, PTL

\* update_git_config never leaves token authentication without a secret, whatever updates
\* of other columns overlap with it.
THEOREM TokensHaveSecrets == Spec => []TokenHasCredential
<1>1. IInv => TokenHasCredential
  BY DEF IInv, ConfigOK, Sealed, TokenHasCredential
<1> QED BY <1>1, Invariance, PTL

\* A row that provision_airflow inserted as "creating" has its handler, or its handler died.
THEOREM CreatingHasHandler == Spec => []CreatingIsInFlight
<1>1. IInv => CreatingIsInFlight
  BY DEF IInv, InstancesOK
<1> QED BY <1>1, Invariance, PTL

\* What a handler is about to write takes the authority of its requester: somebody whom
\* require_project_admin or require_admin has seen to have it, at a time when it had.
THEOREM AdministersByRight == Spec => []AdministrationAuthorised
<1>1. ASSUME IInv PROVE AdministrationAuthorised
  <2> SUFFICES ASSUME NEW h \in Handlers, req[h].pc \in Writes
               PROVE  /\ req[h].kind \in AdminGated => WasOneOf(h, {"project_admin"})
                      /\ req[h].kind \in {"provision", "delete"} => WasMember(h) /\ WasSuper(h)
                      /\ req[h].kind \in AccountKinds => WasSuper(h)
    BY DEF AdministrationAuthorised
  <2>1. PICK r : r = req[h]
    OBVIOUS
  <2>2. Passed(r, held[h])
    BY <1>1, <2>1 DEF IInv, HeldOK, Idle, Writes
  <2>3. r.pc \notin {"project", "member", "authority"}
    BY <2>1 DEF Writes
  <2>4. r.kind \in AdminGated \cup {"provision", "delete"} => r.kind \in ProjectKinds /\ r.kind \notin SessionKinds
    BY DEF AdminGated, ProjectKinds, MemberKinds, SettingsKinds, InstanceKinds, SessionKinds
  <2>5. r.kind \in AdminGated => WasOneOf(h, {"project_admin"})
    BY <2>2, <2>3, <2>4 DEF Passed, PassedGate, WasOneOf, WasMember, WasSuper
  <2>6. r.kind \in {"provision", "delete"} => WasMember(h) /\ WasSuper(h)
    BY <2>2, <2>3, <2>4 DEF Passed, PassedGate, WasMember, WasSuper
  <2>7. r.kind \in AccountKinds => WasSuper(h)
    BY <2>2 DEF Passed, PassedGate, WasSuper, AccountKinds, SessionKinds
  <2> QED BY <2>1, <2>5, <2>6, <2>7
<1> QED BY <1>1, Invariance, PTL

\* Who opens a merge request is a developer, who merges a maintainer and not the author
\* unless the project allowed that, who closes the author or a maintainer.
THEOREM MergesByRight == Spec => []MergesAuthorised
<1>1. ASSUME IInv PROVE MergesAuthorised
  <2> SUFFICES ASSUME NEW h \in Handlers, req[h].pc = "commit"
               PROVE  /\ req[h].kind = "open" => WasOneOf(h, Developers)
                      /\ req[h].kind = "merge" =>
                            /\ WasOneOf(h, Maintainers)
                            /\ mrs[req[h].arg.of].author = By(h) => "self" \in held[h].is
                      /\ req[h].kind = "close" =>
                            \/ WasMember(h) /\ mrs[req[h].arg.of].author = By(h)
                            \/ WasOneOf(h, Maintainers)
    BY DEF MergesAuthorised
  <2>1. PICK r : r = req[h]
    OBVIOUS
  <2>2. Passed(r, held[h])
    BY <1>1, <2>1 DEF IInv, HeldOK, Idle
  <2>3. r.kind \in MergeKinds => r.kind \in ProjectKinds /\ r.kind \notin SessionKinds
    BY DEF ProjectKinds, MergeKinds, SessionKinds
  <2>4. r.kind \in MergeKinds => WasMember(h) /\ (r.admin => WasSuper(h))
    BY <2>1, <2>2, <2>3 DEF Passed, PassedGate, WasMember, WasSuper
  <2>5. r.kind \in {"merge", "close"} => r.got.author = mrs[r.arg.of].author
    BY <1>1, <2>1 DEF IInv, MergesOK
  <2>6. r.kind = "open" => WasOneOf(h, Developers)
    BY <2>1, <2>2, <2>4 DEF Passed, PassedMerge, WasOneOf, MergeKinds
  <2>7. r.kind = "merge" => WasOneOf(h, Maintainers) /\ (mrs[r.arg.of].author = r.by => "self" \in held[h].is)
    BY <2>1, <2>2, <2>4, <2>5 DEF Passed, PassedMerge, WasOneOf, MergeKinds
  <2>8. r.kind = "close" =>
            (WasMember(h) /\ mrs[r.arg.of].author = r.by) \/ WasOneOf(h, Maintainers)
    BY <2>1, <2>2, <2>4, <2>5 DEF Passed, PassedMerge, WasOneOf, MergeKinds
  <2> QED BY <2>1, <2>6, <2>7, <2>8 DEF By
<1> QED BY <1>1, Invariance, PTL

\* What resolve_project_airflow_context lets through to Airflow, or to a cookie, is for a
\* member with a permission that one of its roles has had during the request.
THEOREM ForwardsByRight == Spec => []ForwardsPermitted
<1>1. ASSUME IInv PROVE ForwardsPermitted
  <2> SUFFICES ASSUME NEW h \in Handlers, req[h].pc \in {"context", "mint", "forward"}
               PROVE  /\ WasMember(h)
                      /\ WasSuper(h) \/ Permits(held[h].may, req[h].arg.need)
    BY DEF ForwardsPermitted
  <2>1. PICK r : r = req[h]
    OBVIOUS
  <2>2. InProgress(r) /\ Passed(r, held[h])
    BY <1>1, <2>1 DEF IInv, RequestsOK, HeldOK, Idle
  <2>3. r.kind \in AirflowKinds
    BY <2>1, <2>2 DEF InProgress, PcsOf
  <2>4. r.kind \in ProjectKinds /\ r.kind \notin SessionKinds
    BY <2>3 DEF ProjectKinds, AirflowKinds, SessionKinds
  <2>5. WasMember(h) /\ (r.admin => WasSuper(h))
    BY <2>1, <2>2, <2>4 DEF Passed, PassedGate, WasMember, WasSuper
  <2>6. r.admin \/ Permits(held[h].may, r.arg.need)
    BY <2>1, <2>2, <2>3 DEF Passed, PassedProxy
  <2> QED BY <2>1, <2>5, <2>6
<1> QED BY <1>1, Invariance, PTL

\* A refresh that came in after its token was spent never gets further than looking for it.
THEOREM SpentStaysSpent == Spec => []SpentTokenStaysSpent
<1>1. IInv => SpentTokenStaysSpent
  BY DEF IInv, SessionsOK, SpentTokenStaysSpent
<1> QED BY <1>1, Invariance, PTL

=============================================================================
