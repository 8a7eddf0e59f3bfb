----------------------------- MODULE MCAccounts -----------------------------
(* Sign-ins with changes of the row of a user, and replacements of rights  *)
(* with the checks that read them: requests of one kind meet.              *)
EXTENDS Accounts

CONSTANTS u1, u2

MCFirstUser ==
    [id |-> u1, name |-> "n1", password |-> "p1", roles |-> {"CLERK"},
     scopes |-> {"route"}, grants |-> Grants("CLERK", {"sell"})]

MCMixes ==
    { {"setStatus", "setPassword", "login", "refresh", "logout"},
      {"createUser", "updateUser", "login", "createCode"},
      {"setUserRoles", "setUserScopes"},
      {"setUserRoles", "addRolePermissions", "removeRolePermissions", "validate"} }
============================================================================
