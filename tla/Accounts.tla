------------------------------ MODULE Accounts ------------------------------
(***************************************************************************)
(* The accounts of users, what they may do, and their sessions: what       *)
(* administrators, the users themselves, the login and the check of every  *)
(* request do to the same rows.  No statement locks a row before it reads  *)
(* it; only the replacement of a user's roles or scopes is a transaction.  *)
(*                                                                         *)
(* A request opens with its first read.  Rows of users, roles and          *)
(* permissions are never deleted, so that a second look whether one is     *)
(* there is part of the same step.                                         *)
(***************************************************************************)
EXTENDS Integers, FiniteSets

CONSTANTS
    Workers,        \* requests in flight, each with a database connection
    Users,
    Names,          \* values of a unique column: username, code or mobile
    Passwords,
    Roles, Permissions,     \* codes
    SuperAdmin,     \* the role that brings the GLOBAL scope
    Scopes,         \* what a row of md_user_scope refers to
    Global,         \* the GLOBAL scope
    FirstUser,      \* the account at the start
    FirstCodes,     \* the roles and permissions at the start
    Mixes,          \* bound: the operations of a behaviour are one of these sets
    MaxRequests     \* bound: requests

Operations ==
    {"createUser", "updateUser", "setStatus", "setPassword", "login", "refresh", "logout",
     "createCode", "setUserRoles", "setUserScopes", "addRolePermissions",
     "removeRolePermissions", "validate"}

VARIABLES
    users,      \* rows of md_user, by id
    links,      \* rows of md_user_role
    scopes,     \* rows of md_user_scope
    grants,     \* rows of md_role_permission
    codes,      \* the roles and permissions there are
    req,        \* the request each worker handles
    begun,      \* requests so far
    mix,        \* the operations of this behaviour
    kept,       \* history: what held all the time a profile is read
    asked,      \* history: roles and scopes of a user as last asked for
    disturbed,  \* history: users with a sign-in during a revocation
    contended,  \* history: users whose rights two requests replaced at once
    loggedIn,   \* history: the password of a user's last login that was stored
    unrevoked   \* history: users last deactivated by a status that was text

vars == <<users, links, scopes, grants, codes, req, begun, mix, kept, asked,
          disturbed, contended, loggedIn, unrevoked>>
rights == <<links, scopes, grants>>
history == <<asked, disturbed, contended, loggedIn, unrevoked>>

(* refresh_token_hash: NULL or a hash, which bcrypt makes of the first 72  *)
(* bytes of a token.  These are the same in all tokens of a user: a hash   *)
(* does not tell which of them, nor which login, it is of.                 *)
NoSession == "none"
Stored == "stored"
NoPassword == "no password"
Active == "active"
Inactive == "inactive"
Status == {Active, Inactive}
AsText == "0"           \* in a request: inactive, not given as a number
Same == "same"          \* a field the request does not bring
NoUser == "no user"
NoRequest == [at |-> "idle"]

(* The first account is one the seed could have made.                      *)
ASSUME AccountsAssumption ==
    /\ Mixes \subseteq SUBSET Operations /\ MaxRequests \in Nat
    /\ SuperAdmin \in Roles /\ Global \in Scopes
    /\ FirstUser.id \in Users /\ NoUser \notin Users
    /\ FirstUser.name \in Names /\ FirstUser.password \in Passwords
    /\ FirstUser.roles \subseteq Roles /\ FirstUser.scopes \subseteq Scopes
    /\ FirstUser.grants \subseteq [role : Roles, perm : Permissions]
    /\ FirstCodes \subseteq Roles \cup Permissions

(* A request in progress.  What it brings: name, status, password, roles,  *)
(* scopes, code, grants.  found: the rows a DELETE works on; delLinks,     *)
(* delScopes, newLinks: what its transaction deleted and inserted.  perms: *)
(* the permissions a profile has read.                                     *)
Request(op, u, step, n) ==
    [op |-> op, user |-> u, at |-> step, n |-> n, name |-> Same, status |-> Same,
     password |-> NoPassword, roles |-> {}, scopes |-> {}, code |-> Same,
     grants |-> {}, perms |-> {}, found |-> {}, delLinks |-> {}, newLinks |-> {},
     delScopes |-> {}]

NewUser(name, pw) ==
    [name |-> name, status |-> Active, password |-> pw, session |-> NoSession]

(* A row of a user's roles or scopes, and the request that inserted it.    *)
Link(u, r, n) == [user |-> u, role |-> r, by |-> n]
Scope(u, s, n) == [user |-> u, scope |-> s, by |-> n]

RolesOf(u) == {l.role : l \in {k \in links : k.user = u}}
ScopesOf(u) == {s.scope : s \in {k \in scopes : k.user = u}}

(* What the user should be able to do, by the roles last asked for.        *)
Held(u) == {g \in grants : g.role \in asked[u].roles}

Idle(w) == req[w].at = "idle"
Others(w) == {v \in Workers \ {w} : ~Idle(v)}
Move(w, step) == req' = [req EXCEPT ![w].at = step]
End(w) == req' = [req EXCEPT ![w] = NoRequest]

----------------------------------------------------------------------------
AccountsInit ==
    /\ users = [u \in {FirstUser.id} |-> NewUser(FirstUser.name, FirstUser.password)]
    /\ links = {Link(FirstUser.id, r, 0) : r \in FirstUser.roles}
    /\ scopes = {Scope(FirstUser.id, s, 0) : s \in FirstUser.scopes}
    /\ grants = FirstUser.grants
    /\ codes = FirstCodes
    /\ req = [w \in Workers |-> NoRequest]
    /\ begun = 0
    /\ mix \in Mixes
    /\ kept = [w \in Workers |-> {}]
    /\ asked = [u \in Users |-> IF u = FirstUser.id
                  THEN [roles |-> FirstUser.roles, scopes |-> FirstUser.scopes]
                  ELSE [roles |-> {}, scopes |-> {}]]
    /\ disturbed = {} /\ contended = {}
    /\ loggedIn = [u \in Users |-> NoPassword] /\ unrevoked = {}

SignsIn == {"login", "refresh"}
Revokes == {"setStatus", "setPassword", "logout"}
Replaces == {"setUserRoles", "setUserScopes"}

(* The request's user, when one of the others is about the same.           *)
Meets(w, request, ours, theirs) ==
    {u \in {request.user} : /\ request.op \in ours
                            /\ \E v \in Others(w) : req[v].op \in theirs /\ req[v].user = u}

New(op, u, step) == Request(op, u, step, begun + 1)

Open(w, request) ==
    /\ Idle(w) /\ begun < MaxRequests /\ request.op \in mix
    /\ begun' = begun + 1
    /\ req' = [req EXCEPT ![w] = request]
    /\ disturbed' = disturbed \cup (Meets(w, request, SignsIn, Revokes)
                                    \cup Meets(w, request, Revokes, SignsIn))
    /\ contended' = contended \cup Meets(w, request, Replaces, Replaces)
    /\ UNCHANGED <<users, rights, codes, mix, asked, loggedIn, unrevoked>>

(* A request that is answered without a change is not modelled: when the   *)
(* user, the role or the code is not there, a code is, or a password or    *)
(* token does not match.                                                   *)
Taken(name, except) == \E u \in DOMAIN users \ {except} : users[u].name = name

Creating(w) == Cardinality({v \in Others(w) : req[v].op = "createUser"})

(* createUser: its check looks at the username only.                       *)
OpenCreateUser(w) == \E name \in Names, pw \in Passwords :
    /\ ~Taken(name, NoUser)
    /\ Cardinality(DOMAIN users) + Creating(w) < Cardinality(Users)  \* bound
    /\ Open(w, [New("createUser", NoUser, "insert") EXCEPT !.name = name, !.password = pw])

(* updateUser without a status; updateMe, of a user of status 1.           *)
OpenUpdateUser(w) == \E u \in DOMAIN users, name \in Names :
    Open(w, [New("updateUser", u, "update") EXCEPT !.name = name])

(* setStatus; updateUser with a status, which it accepts as text too.      *)
OpenSetStatus(w) ==
  \E u \in DOMAIN users, name \in Names \cup {Same}, status \in Status \cup {AsText} :
    Open(w, [New("setStatus", u, "update") EXCEPT !.name = name, !.status = status])

(* resetPassword, or changeMyPassword of a user who knows the old one.     *)
OpenSetPassword(w) == \E u \in DOMAIN users, pw \in Passwords :
    Open(w, [New("setPassword", u, "password") EXCEPT !.password = pw])

(* Mutant: findForLogin finds users of any status.                         *)
FoundForLoginAny(u, name) == users[u].name = name

FoundForLogin(u, name) == users[u].name = name /\ users[u].status = Active

OpenLogin(w) == \E u \in DOMAIN users, name \in Names :
    /\ FoundForLogin(u, name)
    /\ Open(w, [New("login", u, "store") EXCEPT !.password = users[u].password])

(* A token that has not expired, of whichever login, matches the hash.     *)
OpenRefresh(w) == \E u \in DOMAIN users :
    /\ users[u].session # NoSession
    /\ Open(w, New("refresh", u, "profile"))

OpenLogout(w) == \E u \in DOMAIN users :
    /\ users[u].status = Active
    /\ Open(w, New("logout", u, "logout"))

(* createRole, createPermission.                                           *)
OpenCreateCode(w) == \E code \in (Roles \cup Permissions) \ codes :
    Open(w, [New("createCode", NoUser, "code") EXCEPT !.code = code])

OpenSetUserRoles(w) == \E u \in DOMAIN users, rs \in SUBSET (Roles \cap codes) :
    Open(w, [New("setUserRoles", u, "links") EXCEPT !.roles = rs,
               !.scopes = IF SuperAdmin \in rs THEN {Global} ELSE {}])

OpenSetUserScopes(w) == \E u \in DOMAIN users, ss \in SUBSET Scopes :
    Open(w, [New("setUserScopes", u, "scopes") EXCEPT !.scopes = ss])

Grants(r, ps) == {[role |-> r, perm |-> p] : p \in ps}

(* addRolePermissions: reads what the role has, to insert the rest.        *)
OpenAddPermissions(w) == \E r \in Roles \cap codes, ps \in SUBSET (Permissions \cap codes) :
    /\ ps # {}
    /\ Open(w, [New("addRolePermissions", NoUser, "grant") EXCEPT
                  !.grants = Grants(r, ps) \ grants])

OpenRemovePermissions(w) == \E r \in Roles \cap codes, ps \in SUBSET (Permissions \cap codes) :
    /\ ps # {}
    /\ Open(w, [New("removeRolePermissions", NoUser, "ungrant") EXCEPT
                  !.grants = Grants(r, ps)])

(* The check of a request by a user, which needs one permission.           *)
OpenValidate(w) == \E u \in DOMAIN users, p \in Permissions :
    /\ users[u].status = Active
    /\ Open(w, [New("validate", u, "readRoles") EXCEPT !.code = p])

----------------------------------------------------------------------------
(* Rows of md_user.  Each UPDATE sets the columns it names and no others.  *)
OthersKept ==
    UNCHANGED <<rights, codes, begun, mix, asked, disturbed, contended>>

InsertUser(w) ==
    /\ req[w].at = "insert"
    /\ IF Taken(req[w].name, NoUser) THEN UNCHANGED users
       ELSE \E new \in Users \ DOMAIN users :
              users' = [u \in DOMAIN users \cup {new} |->
                IF u = new THEN NewUser(req[w].name, req[w].password) ELSE users[u]]
    /\ End(w)
    /\ OthersKept /\ UNCHANGED <<loggedIn, unrevoked>>

Patched(row, patch) ==
    [row EXCEPT !.name = IF patch.name = Same THEN @ ELSE patch.name,
                !.status = CASE patch.status = Same -> @
                             [] patch.status = AsText -> Inactive
                             [] OTHER -> patch.status]

Deactivated(u, status) ==
    IF status = Same THEN unrevoked
    ELSE IF status = AsText THEN unrevoked \cup {u} ELSE unrevoked \ {u}

(* A name that is taken violates the unique index.  A status 0 goes on to  *)
(* revoke the session; the text "0" is stored alike, but does not: it is   *)
(* not === 0.                                                              *)
UpdateUser(w) ==
    LET u == req[w].user
    IN  /\ req[w].at = "update"
        /\ \/ /\ Taken(req[w].name, u)
              /\ End(w)
              /\ UNCHANGED <<users, unrevoked>>
           \/ /\ ~Taken(req[w].name, u)
              /\ users' = [users EXCEPT ![u] = Patched(@, req[w])]
              /\ unrevoked' = Deactivated(u, req[w].status)
              /\ IF req[w].status = Inactive THEN Move(w, "revoke") ELSE End(w)
        /\ OthersKept /\ UNCHANGED loggedIn

SetSession(u, session) == users' = [users EXCEPT ![u].session = session]

(* A deactivation's second statement; also logout.                         *)
Revoke(w) ==
    /\ req[w].at \in {"revoke", "logout"}
    /\ SetSession(req[w].user, NoSession)
    /\ End(w)
    /\ OthersKept /\ UNCHANGED <<loggedIn, unrevoked>>

(* Mutant: the session outlives the password.                              *)
SetPasswordOnly(w) ==
    /\ req[w].at = "password"
    /\ users' = [users EXCEPT ![req[w].user].password = req[w].password]
    /\ End(w)
    /\ OthersKept /\ UNCHANGED <<loggedIn, unrevoked>>

SetPassword(w) ==
    /\ req[w].at = "password"
    /\ users' = [users EXCEPT ![req[w].user].password = req[w].password,
                              ![req[w].user].session = NoSession]
    /\ End(w)
    /\ OthersKept /\ UNCHANGED <<loggedIn, unrevoked>>

(* refresh: the user must still be active.                                 *)
RefreshProfile(w) ==
    /\ req[w].at = "profile"
    /\ IF users[req[w].user].status = Active THEN Move(w, "store") ELSE End(w)
    /\ UNCHANGED users
    /\ OthersKept /\ UNCHANGED <<loggedIn, unrevoked>>

(* login and refresh store the hash of the new refresh token.              *)
StoreSession(w) ==
    /\ req[w].at = "store"
    /\ SetSession(req[w].user, Stored)
    /\ loggedIn' = IF req[w].op = "login"
                   THEN [loggedIn EXCEPT ![req[w].user] = req[w].password] ELSE loggedIn
    /\ End(w)
    /\ OthersKept /\ UNCHANGED unrevoked

----------------------------------------------------------------------------
(* Codes, and the permissions of roles.                                    *)
InsertCode(w) ==
    /\ req[w].at = "code"
    /\ codes' = codes \cup {req[w].code}     \* again: a unique violation
    /\ End(w)
    /\ UNCHANGED <<users, rights, begun, mix, history>>

(* One INSERT of what was missing: all of it, or none when another request *)
(* inserted some of it meanwhile.                                          *)
InsertGrants(w) ==
    /\ req[w].at = "grant"
    /\ grants' = IF req[w].grants \cap grants = {} THEN grants \cup req[w].grants ELSE grants
    /\ End(w)
    /\ UNCHANGED <<users, links, scopes, codes, begun, mix, history>>

DeleteGrants(w) ==
    /\ req[w].at = "ungrant"
    /\ grants' = grants \ req[w].grants
    /\ End(w)
    /\ UNCHANGED <<users, links, scopes, codes, begun, mix, history>>

----------------------------------------------------------------------------
(* The replacement of a user's roles, and of the scopes: DELETE, INSERT.   *)
(* A DELETE works on the rows there are when it starts; it waits for a     *)
(* transaction that deleted one of them, and then does not see what that   *)
(* one inserted.                                                           *)
Waiting(w, step, next, table) ==
    /\ req[w].at = step
    /\ req' = [req EXCEPT ![w].at = next,
                          ![w].found = {k \in table : k.user = req[w].user}]
    /\ UNCHANGED <<users, rights, codes, begun, mix, history>>

StartDeleteLinks(w) == Waiting(w, "links", "deleteLinks", links)

(* A transaction that changes rights, has begun to, and is not over.       *)
Writes(v) == req[v].at \in {"deleteLinks", "insertLinks", "scopes",
                            "deleteScopes", "commit"}

DeletedLinks(v) == IF Writes(v) THEN req[v].delLinks ELSE {}
DeletedScopes(v) == IF Writes(v) THEN req[v].delScopes ELSE {}
InsertedLinks(v) == IF Writes(v) THEN req[v].newLinks ELSE {}

(* Mutant: the DELETE commits by itself, and the INSERT after it.          *)
DeleteLinksNow(w) ==
    /\ req[w].at = "deleteLinks"
    /\ \A v \in Others(w) : DeletedLinks(v) \cap req[w].found = {}
    /\ links' = links \ req[w].found
    /\ Move(w, "insertLinks")
    /\ UNCHANGED <<users, scopes, grants, codes, begun, mix, history>>

DeleteLinks(w) ==
    /\ req[w].at = "deleteLinks"
    /\ \A v \in Others(w) : DeletedLinks(v) \cap req[w].found = {}
    /\ req' = [req EXCEPT ![w].at = "insertLinks",
                          ![w].delLinks = req[w].found \cap links]
    /\ UNCHANGED <<users, rights, codes, begun, mix, history>>

(* The index on user and role: wait for another's row, fail on a committed *)
(* one.                                                                    *)
Duplicates(w, table) ==
    \E l \in table \ req[w].delLinks : l.user = req[w].user /\ l.role \in req[w].roles

AfterLinks(w) == IF req[w].scopes = {} THEN "commit" ELSE "scopes"

InsertLinks(w) ==
    /\ req[w].at = "insertLinks"
    /\ \A v \in Others(w) : ~Duplicates(w, InsertedLinks(v))
    /\ IF Duplicates(w, links) THEN End(w)
       ELSE req' = [req EXCEPT ![w].at = AfterLinks(w),
              ![w].newLinks = {Link(req[w].user, r, req[w].n) : r \in req[w].roles}]
    /\ UNCHANGED <<users, rights, codes, begun, mix, history>>

StartDeleteScopes(w) == Waiting(w, "scopes", "deleteScopes", scopes)

DeleteScopes(w) ==
    /\ req[w].at = "deleteScopes"
    /\ \A v \in Others(w) : DeletedScopes(v) \cap req[w].found = {}
    /\ req' = [req EXCEPT ![w].at = "commit",
                          ![w].delScopes = req[w].found \cap scopes]
    /\ UNCHANGED <<users, rights, codes, begun, mix, history>>

(* The INSERT of the scopes, and COMMIT.                                   *)
NewScopes(w) == {Scope(req[w].user, s, req[w].n) : s \in req[w].scopes}

Committed(w) ==
    LET u == req[w].user
    IN  [asked EXCEPT
           ![u].roles = IF req[w].op = "setUserRoles" THEN req[w].roles ELSE @,
           ![u].scopes = IF req[w].op = "setUserScopes" \/ req[w].scopes # {}
                         THEN req[w].scopes ELSE @]

Commit(w) ==
    /\ req[w].at = "commit"
    /\ links' = (links \ req[w].delLinks) \cup req[w].newLinks
    /\ scopes' = (scopes \ req[w].delScopes) \cup NewScopes(w)
    /\ asked' = Committed(w)
    /\ End(w)
    /\ UNCHANGED <<users, grants, codes, begun, mix, disturbed, contended, loggedIn,
                   unrevoked>>

----------------------------------------------------------------------------
(* getAuthProfile: one SELECT after another.                               *)
Reading(w, step) ==
    /\ req[w].at = step
    /\ UNCHANGED <<users, rights, codes, begun, mix, history>>

ReadRoles(w) ==
    /\ Reading(w, "readRoles")
    /\ req' = [req EXCEPT ![w].at = "readGrants", ![w].roles = RolesOf(req[w].user)]

ReadGrants(w) ==
    /\ Reading(w, "readGrants")
    /\ req' = [req EXCEPT ![w].at = "readScopes",
         ![w].perms = {g.perm : g \in {h \in grants : h.role \in req[w].roles}}]

ReadScopes(w) ==
    /\ Reading(w, "readScopes")
    /\ req' = [req EXCEPT ![w].at = "guard", ![w].scopes = ScopesOf(req[w].user)]

(* PermissionsGuard; the request then goes on, elsewhere, or is refused.   *)
Admitted(w) == req[w].code \in req[w].perms

Answer(w) == Reading(w, "guard") /\ End(w)

(* The process stops, or the connection breaks.                            *)
Abandon(w) ==
    /\ ~Idle(w)
    /\ End(w)
    /\ disturbed' = disturbed \cup {u \in {req[w].user} : req[w].at = "revoke"}
    /\ UNCHANGED <<users, rights, codes, begun, mix, asked, contended, loggedIn,
                   unrevoked>>

Begin(w) ==
    \/ OpenCreateUser(w) \/ OpenUpdateUser(w) \/ OpenSetStatus(w)
    \/ OpenSetPassword(w) \/ OpenLogin(w) \/ OpenRefresh(w) \/ OpenLogout(w)
    \/ OpenCreateCode(w) \/ OpenSetUserRoles(w) \/ OpenSetUserScopes(w)
    \/ OpenAddPermissions(w) \/ OpenRemovePermissions(w) \/ OpenValidate(w)

Proceed(w) ==
    \/ InsertUser(w) \/ UpdateUser(w) \/ Revoke(w) \/ SetPassword(w)
    \/ RefreshProfile(w) \/ StoreSession(w)
    \/ InsertCode(w) \/ InsertGrants(w) \/ DeleteGrants(w)
    \/ StartDeleteLinks(w) \/ DeleteLinks(w) \/ InsertLinks(w)
    \/ StartDeleteScopes(w) \/ DeleteScopes(w) \/ Commit(w)
    \/ ReadRoles(w) \/ ReadGrants(w) \/ ReadScopes(w) \/ Answer(w)

(* What the user has held since the check of the request began to read.    *)
Keep(w) ==
    CASE req'[w].at \in {"readRoles", "readGrants"} ->
           Held(req[w].user)' \cap (IF Idle(w) THEN grants ELSE kept[w])
      [] req'[w].at = "readScopes" \/ req'[w].at = "guard" -> kept[w]
      [] OTHER -> {}

AccountsNext ==
    /\ \E w \in Workers : Begin(w) \/ Proceed(w) \/ Abandon(w)
    /\ kept' = [w \in Workers |-> Keep(w)]

AccountsSpec == AccountsInit /\ [][AccountsNext]_vars

----------------------------------------------------------------------------
(* Properties.                                                             *)

(* The rows of the tables; a name is unique.  A user has at most one row   *)
(* for a role, and any number for a scope.                                 *)
AccountsTypeOK ==
    /\ DOMAIN users \subseteq Users
    /\ \A u \in DOMAIN users :
         /\ users[u] \in [name : Names, status : Status, password : Passwords,
                          session : {NoSession, Stored}]
         /\ ~Taken(users[u].name, u)
    /\ links \subseteq [user : Users, role : Roles, by : 0..MaxRequests]
    /\ \A k, l \in links : k.user = l.user /\ k.role = l.role => k = l
    /\ scopes \subseteq [user : Users, scope : Scopes, by : 0..MaxRequests]
    /\ grants \subseteq [role : Roles, perm : Permissions]
    /\ codes \subseteq Roles \cup Permissions

(* While a session can be continued, somebody has logged in with the       *)
(* user's present password, and the user is active, or a deactivation is   *)
(* about to revoke the session, or was one by a status in text, which      *)
(* revokes nothing: so it is unless a login or refresh overlapped with a   *)
(* change of status, a new password or a logout, or a deactivation broke   *)
(* off before it revoked.                                                  *)
SessionsAreCurrent ==
    \A u \in DOMAIN users \ disturbed :
        users[u].session # NoSession =>
          /\ loggedIn[u] = users[u].password
          /\ \/ users[u].status = Active
             \/ u \in unrevoked
             \/ \E w \in Workers : req[w].at = "revoke" /\ req[w].user = u

(* A request is not refused for a permission that a role has, and its user *)
(* that role by the replacements before and after, all the time that this  *)
(* is read, unless two requests replaced the user's roles at once.         *)
AdmittedByKeptRights ==
    \A w \in Workers :
        req[w].at = "guard" /\ req[w].user \notin contended =>
          (req[w].code \in {g.perm : g \in kept[w]} => Admitted(w))
=============================================================================
