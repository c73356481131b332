---------------------------- MODULE MCProjectApi ----------------------------
(* ProjectApi with small sets. *)
EXTENDS ProjectApi, TLC

CONSTANTS ada, bob, h1, h2, m1, nobody

AllRoles == {"project_admin", "maintainer", "auditor"}
Mix ==
    {{"change", "joined"}, {"add", "deletion", "startup"},
     {"create_role", "add"}, {"delete_role", "add"}, {"git", "alone"}, {"environment", "alone"},
     {"open", "merge", "close", "settings", "joined"}, {"open", "merge", "remove", "joined"},
     {"proxy", "bootstrap", "permit", "joined"}, {"proxy", "forbid", "joined"},
     {"widget", "remove", "add"}, {"widget", "user", "joined"},
     {"provision", "restart", "delete", "deletion", "joined"},
     {"refresh", "user", "signed_in"}, {"register", "login", "refresh"}}

Removals == {{"remove", "joined"}}

Grants == {View}

Symmetric == Permutations(Handlers)
=============================================================================
