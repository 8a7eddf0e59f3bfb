--------------------------- MODULE AccountsProofs ---------------------------
(***************************************************************************)
(* For any number of users, roles, permissions and requests: the sessions  *)
(* that are stored, the rows of roles, and what a request is admitted for. *)
(* Each request decides on what it read a few statements ago; the          *)
(* invariants say what of that still holds, as long as no request that     *)
(* undoes it was in flight for the same user.                              *)
(***************************************************************************)
EXTENDS Accounts, TLAPS

LinkRow == [user : Users, role : Roles, by : 0..MaxRequests]
ScopeRow == [user : Users, scope : Scopes, by : 0..MaxRequests]
Grant == [role : Roles, perm : Permissions]
UserRow == [name : Names, status : Status, password : Passwords,
            session : {NoSession, Stored}]
UserTables == UNION {[S -> UserRow] : S \in SUBSET Users}

Places == {"insert", "update", "revoke", "logout", "password", "profile", "store",
           "code", "grant", "ungrant", "links", "deleteLinks", "insertLinks", "scopes",
           "deleteScopes", "commit", "readRoles", "readGrants", "readScopes", "guard"}

RequestRecord ==
    [op : Operations, user : Users \cup {NoUser}, at : Places, n : 0..MaxRequests,
     name : Names \cup {Same}, status : Status \cup {AsText, Same},
     password : Passwords \cup {NoPassword}, roles : SUBSET Roles, scopes : SUBSET Scopes,
     code : Roles \cup Permissions \cup {Same}, grants : SUBSET Grant,
     perms : SUBSET Permissions, found : SUBSET (LinkRow \cup ScopeRow),
     delLinks : SUBSET LinkRow, newLinks : SUBSET LinkRow, delScopes : SUBSET ScopeRow]

Shape ==
    /\ users \in UserTables
    /\ links \subseteq LinkRow /\ scopes \subseteq ScopeRow /\ grants \subseteq Grant
    /\ codes \subseteq Roles \cup Permissions
    /\ req \in [Workers -> RequestRecord \cup {NoRequest}]
    /\ begun \in 0..MaxRequests
    /\ asked \in [Users -> [roles : SUBSET Roles, scopes : SUBSET Scopes]]
    /\ loggedIn \in [Users -> Passwords \cup {NoPassword}]

(* The operation a request at a place is of, and that its user is one of   *)
(* those there.                                                            *)
Replacing == {"links", "deleteLinks", "insertLinks", "scopes", "deleteScopes", "commit"}
Checking == {"readRoles", "readGrants", "readScopes", "guard"}

InPlace(r, there) ==
    /\ r.at = "update" => r.op \in {"updateUser", "setStatus"}
    /\ r.op = "updateUser" => r.status = Same
    /\ r.at \in {"revoke", "logout", "password"} => r.op \in Revokes
    /\ r.at \in {"profile", "store"} => r.op \in SignsIn
    /\ r.at \in Replacing => r.op \in Replaces
    /\ r.at \in {"links", "deleteLinks", "insertLinks"} => r.op = "setUserRoles"
    /\ r.at \in Checking <=> r.op = "validate"
    /\ r.at = "insert" <=> r.op = "createUser"
    /\ r.at = "insert" => r.name \in Names /\ r.password \in Passwords
    /\ r.at = "code" => r.code \in Roles \cup Permissions
    /\ r.at = "password" => r.password \in Passwords
    /\ r.at \in {"update", "revoke", "logout", "password", "profile", "store"}
                  \cup Replacing \cup Checking
         => r.user \in there

(* What holds of a request throughout.                                     *)
Brought(s, r) ==
    /\ s.op = r.op /\ s.user = r.user /\ s.n = r.n /\ s.name = r.name
    /\ s.status = r.status /\ s.password = r.password /\ s.code = r.code
    /\ s.grants = r.grants

OnlyChanges(w) == req' = [v \in Workers |-> IF v = w THEN req'[w] ELSE req[v]]

----------------------------------------------------------------------------
(* Tables and records.                                                     *)

LEMMA UserTypes ==
    ASSUME NEW t \in UserTables
    PROVE  /\ DOMAIN t \subseteq Users /\ t = [u \in DOMAIN t |-> t[u]]
           /\ \A u \in DOMAIN t :
                /\ t[u] \in UserRow
                /\ t[u] = [name |-> t[u].name, status |-> t[u].status,
                           password |-> t[u].password, session |-> t[u].session]
  <1>1. PICK S \in SUBSET Users : t \in [S -> UserRow]
    BY DEF UserTables
  <1>2. \A x \in UserRow : x = [name |-> x.name, status |-> x.status,
                                password |-> x.password, session |-> x.session]
    BY DEF UserRow
  <1> HIDE DEF UserRow
  <1> QED
    BY <1>1, <1>2

(* An UPDATE of one row.                                                   *)
LEMMA RowSet ==
    ASSUME NEW t \in UserTables, NEW u \in DOMAIN t, NEW row \in UserRow,
           NEW new, new = [t EXCEPT ![u] = row]
    PROVE  /\ new \in UserTables /\ DOMAIN new = DOMAIN t /\ new[u] = row
           /\ \A x \in DOMAIN t \ {u} : new[x] = t[x]
  <1>1. PICK S \in SUBSET Users : t \in [S -> UserRow]
    BY DEF UserTables
  <1>2. new \in [S -> UserRow]
    BY <1>1
  <1> QED
    BY <1>1, <1>2 DEF UserTables

LEMMA RequestIs ==
    ASSUME Shape, NEW w \in Workers
    PROVE  /\ req[w] \in RequestRecord \cup {NoRequest}
           /\ Idle(w) <=> req[w] = NoRequest
           /\ ~Idle(w) => req[w] \in RequestRecord
           /\ req \in [Workers -> RequestRecord \cup {NoRequest}]
  <1>1. \A r \in RequestRecord : r.at # "idle"
    BY DEF RequestRecord, Places
  <1> HIDE DEF RequestRecord
  <1> QED
    BY <1>1 DEF Shape, Idle, NoRequest

LEMMA EndIs ==
    ASSUME Shape, NEW w \in Workers, End(w)
    PROVE  OnlyChanges(w) /\ req'[w] = NoRequest
  <1> USE RequestIs
  <1>1. req \in [Workers -> RequestRecord \cup {NoRequest}]
    OBVIOUS
  <1> QED
    BY <1>1 DEF End, OnlyChanges

LEMMA MoveIs ==
    ASSUME Shape, NEW w \in Workers, req[w] \in RequestRecord, NEW step \in Places,
           NEW s, s = req'[w], Move(w, step)
    PROVE  LET r == req[w]
           IN  /\ OnlyChanges(w) /\ s \in RequestRecord /\ Brought(s, r) /\ s.at = step
               /\ s.roles = r.roles /\ s.scopes = r.scopes /\ s.perms = r.perms
               /\ s.found = r.found /\ s.delLinks = r.delLinks
               /\ s.newLinks = r.newLinks /\ s.delScopes = r.delScopes
  <1>1. req' = [req EXCEPT ![w].at = step]
    BY DEF Move
  <1>2. s = [req[w] EXCEPT !.at = step] /\ OnlyChanges(w)
    <2>1. req \in [Workers -> RequestRecord \cup {NoRequest}]
      BY RequestIs
    <2> QED
      BY ONLY <1>1, <2>1, s = req'[w], w \in Workers DEF OnlyChanges
  <1>3. PICK r : r = req[w]
    OBVIOUS
  <1>4. /\ s \in RequestRecord /\ Brought(s, r) /\ s.at = step
        /\ s.roles = r.roles /\ s.scopes = r.scopes /\ s.perms = r.perms
        /\ s.found = r.found /\ s.delLinks = r.delLinks
        /\ s.newLinks = r.newLinks /\ s.delScopes = r.delScopes
    BY ONLY <1>2, <1>3, req[w] \in RequestRecord, step \in Places DEF RequestRecord, Brought
  <1> QED
    BY <1>2, <1>3, <1>4

----------------------------------------------------------------------------
(* A request as it opens.                                                  *)

Opened(r) ==
    /\ r \in RequestRecord /\ InPlace(r, DOMAIN users)
    /\ r.n = begun + 1
    /\ r.found = {} /\ r.delLinks = {} /\ r.newLinks = {} /\ r.delScopes = {}
    /\ r.at \notin {"revoke", "readGrants", "readScopes", "guard", "deleteLinks",
                    "insertLinks", "deleteScopes", "commit"}
    /\ r.at = "scopes" => r.op = "setUserScopes"
    /\ r.at = "store" => /\ r.op = "login" /\ r.password = users[r.user].password
                         /\ users[r.user].status = Active
    /\ r.at = "profile" => r.op = "refresh" /\ users[r.user].session # NoSession

LEMMA BlankIs ==
    ASSUME begun \in 0..MaxRequests, begun < MaxRequests,
           NEW op \in Operations, NEW u \in Users \cup {NoUser}, NEW step \in Places,
           NEW r, r = New(op, u, step)
    PROVE  /\ r \in RequestRecord
           /\ r.op = op /\ r.user = u /\ r.at = step /\ r.n = begun + 1
           /\ r.found = {} /\ r.delLinks = {} /\ r.newLinks = {} /\ r.delScopes = {}
           /\ r.status = Same /\ r.name = Same
  <1>1. begun + 1 \in 0..MaxRequests
    BY AccountsAssumption
  <1>2. PICK n : n = begun + 1
    OBVIOUS
  <1>3. r = Request(op, u, step, n) /\ n \in 0..MaxRequests
    BY <1>1, <1>2 DEF New
  <1> QED
    BY ONLY <1>2, <1>3, op \in Operations, u \in Users \cup {NoUser}, step \in Places
       DEF Request, RequestRecord

LEMMA BeginOpens ==
    ASSUME Shape, NEW w \in Workers, Begin(w)
    PROVE  \E r : Open(w, r) /\ Opened(r)
  <1> DEFINE Started(r) == Open(w, r) /\ Opened(r)
  <1>0. /\ users \in UserTables /\ begun \in 0..MaxRequests
        /\ \A u \in DOMAIN users : /\ u \in Users /\ users[u] \in UserRow
                                   /\ users[u].password \in Passwords
    BY UserTypes DEF Shape, UserRow
  <1>1. \A r : Open(w, r) => begun < MaxRequests
    BY DEF Open
  <1>2. CASE OpenCreateUser(w)
    <2>1. PICK name \in Names, pw \in Passwords :
            Open(w, [New("createUser", NoUser, "insert") EXCEPT !.name = name, !.password = pw])
      BY <1>2 DEF OpenCreateUser
    <2>2. PICK b : b = New("createUser", NoUser, "insert")
      OBVIOUS
    <2>3. PICK r : r = [b EXCEPT !.name = name, !.password = pw]
      OBVIOUS
    <2>4. /\ b \in RequestRecord
          /\ b.op = "createUser" /\ b.user = NoUser /\ b.at = "insert" /\ b.n = begun + 1
          /\ b.found = {} /\ b.delLinks = {} /\ b.newLinks = {} /\ b.delScopes = {}
          /\ b.status = Same
      BY <1>0, <1>1, <2>1, <2>2, BlankIs DEF Operations, Places
    <2>5. /\ r \in RequestRecord
          /\ r.op = "createUser" /\ r.at = "insert" /\ r.n = begun + 1
          /\ r.found = {} /\ r.delLinks = {} /\ r.newLinks = {} /\ r.delScopes = {}
          /\ r.name = name /\ r.password = pw
      BY ONLY <2>3, <2>4, name \in Names, pw \in Passwords DEF RequestRecord
    <2>6. Opened(r)
      BY <2>5 DEF Opened, InPlace, Revokes, SignsIn, Replaces, Replacing, Checking
    <2> QED
      BY <2>1, <2>2, <2>3, <2>6
  <1>3. CASE OpenUpdateUser(w)
    <2>1. PICK u \in DOMAIN users, name \in Names :
            Open(w, [New("updateUser", u, "update") EXCEPT !.name = name])
      BY <1>3 DEF OpenUpdateUser
    <2>2. PICK b : b = New("updateUser", u, "update")
      OBVIOUS
    <2>3. PICK r : r = [b EXCEPT !.name = name]
      OBVIOUS
    <2>4. /\ b \in RequestRecord
          /\ b.op = "updateUser" /\ b.user = u /\ b.at = "update" /\ b.n = begun + 1
          /\ b.found = {} /\ b.delLinks = {} /\ b.newLinks = {} /\ b.delScopes = {}
          /\ b.status = Same
      BY <1>0, <1>1, <2>1, <2>2, BlankIs DEF Operations, Places
    <2>5. /\ r \in RequestRecord /\ r.user = u /\ r.status = Same
          /\ r.op = "updateUser" /\ r.at = "update" /\ r.n = begun + 1
          /\ r.found = {} /\ r.delLinks = {} /\ r.newLinks = {} /\ r.delScopes = {}
      BY ONLY <2>3, <2>4, name \in Names DEF RequestRecord
    <2>6. Opened(r)
      BY <2>5 DEF Opened, InPlace, Revokes, SignsIn, Replaces, Replacing, Checking
    <2> QED
      BY <2>1, <2>2, <2>3, <2>6
  <1>4. CASE OpenSetStatus(w)
    <2>1. PICK u \in DOMAIN users, name \in Names \cup {Same},
               status \in Status \cup {AsText} :
            Open(w, [New("setStatus", u, "update") EXCEPT !.name = name, !.status = status])
      BY <1>4 DEF OpenSetStatus
    <2>2. PICK b : b = New("setStatus", u, "update")
      OBVIOUS
    <2>3. PICK r : r = [b EXCEPT !.name = name, !.status = status]
      OBVIOUS
    <2>4. /\ b \in RequestRecord
          /\ b.op = "setStatus" /\ b.user = u /\ b.at = "update" /\ b.n = begun + 1
          /\ b.found = {} /\ b.delLinks = {} /\ b.newLinks = {} /\ b.delScopes = {}
      BY <1>0, <1>1, <2>1, <2>2, BlankIs DEF Operations, Places
    <2>5. /\ r \in RequestRecord /\ r.user = u
          /\ r.op = "setStatus" /\ r.at = "update" /\ r.n = begun + 1
          /\ r.found = {} /\ r.delLinks = {} /\ r.newLinks = {} /\ r.delScopes = {}
      BY ONLY <2>3, <2>4, name \in Names \cup {Same}, status \in Status \cup {AsText}
         DEF RequestRecord
    <2>6. Opened(r)
      BY <2>5 DEF Opened, InPlace, Revokes, SignsIn, Replaces, Replacing, Checking
    <2> QED
      BY <2>1, <2>2, <2>3, <2>6
  <1>5. CASE OpenSetPassword(w)
    <2>1. PICK u \in DOMAIN users, pw \in Passwords :
            Open(w, [New("setPassword", u, "password") EXCEPT !.password = pw])
      BY <1>5 DEF OpenSetPassword
    <2>2. PICK b : b = New("setPassword", u, "password")
      OBVIOUS
    <2>3. PICK r : r = [b EXCEPT !.password = pw]
      OBVIOUS
    <2>4. /\ b \in RequestRecord
          /\ b.op = "setPassword" /\ b.user = u /\ b.at = "password" /\ b.n = begun + 1
          /\ b.found = {} /\ b.delLinks = {} /\ b.newLinks = {} /\ b.delScopes = {}
      BY <1>0, <1>1, <2>1, <2>2, BlankIs DEF Operations, Places
    <2>5. /\ r \in RequestRecord /\ r.user = u /\ r.password = pw
          /\ r.op = "setPassword" /\ r.at = "password" /\ r.n = begun + 1
          /\ r.found = {} /\ r.delLinks = {} /\ r.newLinks = {} /\ r.delScopes = {}
      BY ONLY <2>3, <2>4, pw \in Passwords DEF RequestRecord
    <2>6. Opened(r)
      BY <2>5 DEF Opened, InPlace, Revokes, SignsIn, Replaces, Replacing, Checking
    <2> QED
      BY <2>1, <2>2, <2>3, <2>6
  <1>6. CASE OpenLogin(w)
    <2>1. PICK u \in DOMAIN users :
            /\ users[u].status = Active
            /\ Open(w, [New("login", u, "store") EXCEPT !.password = users[u].password])
      BY <1>6 DEF OpenLogin, FoundForLogin
    <2>2. PICK b : b = New("login", u, "store")
      OBVIOUS
    <2>3. PICK pw : pw = users[u].password
      OBVIOUS
    <2>4. PICK r : r = [b EXCEPT !.password = pw]
      OBVIOUS
    <2>5. /\ b \in RequestRecord /\ pw \in Passwords
          /\ b.op = "login" /\ b.user = u /\ b.at = "store" /\ b.n = begun + 1
          /\ b.found = {} /\ b.delLinks = {} /\ b.newLinks = {} /\ b.delScopes = {}
      BY <1>0, <1>1, <2>1, <2>2, <2>3, BlankIs DEF Operations, Places
    <2>6. /\ r \in RequestRecord /\ r.user = u /\ r.password = pw
          /\ r.op = "login" /\ r.at = "store" /\ r.n = begun + 1
          /\ r.found = {} /\ r.delLinks = {} /\ r.newLinks = {} /\ r.delScopes = {}
      BY ONLY <2>4, <2>5 DEF RequestRecord
    <2>7. Opened(r)
      BY <2>1, <2>3, <2>5, <2>6 DEF Opened, InPlace, Revokes, SignsIn, Replaces, Replacing, Checking
    <2> QED
      BY <2>1, <2>2, <2>3, <2>4, <2>7
  <1>7. CASE OpenRefresh(w)
    <2>1. PICK u \in DOMAIN users :
            users[u].session # NoSession /\ Open(w, New("refresh", u, "profile"))
      BY <1>7 DEF OpenRefresh
    <2>2. PICK r : r = New("refresh", u, "profile")
      OBVIOUS
    <2>3. /\ r \in RequestRecord /\ r.user = u
          /\ r.op = "refresh" /\ r.at = "profile" /\ r.n = begun + 1
          /\ r.found = {} /\ r.delLinks = {} /\ r.newLinks = {} /\ r.delScopes = {}
      BY <1>0, <1>1, <2>1, <2>2, BlankIs DEF Operations, Places
    <2>4. Opened(r)
      BY <2>1, <2>3 DEF Opened, InPlace, Revokes, SignsIn, Replaces, Replacing, Checking
    <2> QED
      BY <2>1, <2>2, <2>4
  <1>8. CASE OpenLogout(w)
    <2>1. PICK u \in DOMAIN users : Open(w, New("logout", u, "logout"))
      BY <1>8 DEF OpenLogout
    <2>2. PICK r : r = New("logout", u, "logout")
      OBVIOUS
    <2>3. /\ r \in RequestRecord /\ r.user = u
          /\ r.op = "logout" /\ r.at = "logout" /\ r.n = begun + 1
          /\ r.found = {} /\ r.delLinks = {} /\ r.newLinks = {} /\ r.delScopes = {}
      BY <1>0, <1>1, <2>1, <2>2, BlankIs DEF Operations, Places
    <2>4. Opened(r)
      BY <2>3 DEF Opened, InPlace, Revokes, SignsIn, Replaces, Replacing, Checking
    <2> QED
      BY <2>1, <2>2, <2>4
  <1>9. CASE OpenCreateCode(w)
    <2>1. PICK code \in Roles \cup Permissions :
            Open(w, [New("createCode", NoUser, "code") EXCEPT !.code = code])
      BY <1>9 DEF OpenCreateCode
    <2>2. PICK b : b = New("createCode", NoUser, "code")
      OBVIOUS
    <2>3. PICK r : r = [b EXCEPT !.code = code]
      OBVIOUS
    <2>4. /\ b \in RequestRecord
          /\ b.op = "createCode" /\ b.at = "code" /\ b.n = begun + 1
          /\ b.found = {} /\ b.delLinks = {} /\ b.newLinks = {} /\ b.delScopes = {}
      BY <1>0, <1>1, <2>1, <2>2, BlankIs DEF Operations, Places
    <2>5. /\ r \in RequestRecord
          /\ r.op = "createCode" /\ r.at = "code" /\ r.n = begun + 1 /\ r.code = code
          /\ r.found = {} /\ r.delLinks = {} /\ r.newLinks = {} /\ r.delScopes = {}
      BY ONLY <2>3, <2>4, code \in Roles \cup Permissions DEF RequestRecord
    <2>6. Opened(r)
      BY <2>5 DEF Opened, InPlace, Revokes, SignsIn, Replaces, Replacing, Checking
    <2> QED
      BY <2>1, <2>2, <2>3, <2>6
  <1>10. CASE OpenSetUserRoles(w)
    <2>1. PICK u \in DOMAIN users, rs \in SUBSET (Roles \cap codes) :
            Open(w, [New("setUserRoles", u, "links") EXCEPT !.roles = rs,
                       !.scopes = IF SuperAdmin \in rs THEN {Global} ELSE {}])
      BY <1>10 DEF OpenSetUserRoles
    <2>2. PICK b : b = New("setUserRoles", u, "links")
      OBVIOUS
    <2>3. PICK ss : ss = IF SuperAdmin \in rs THEN {Global} ELSE {}
      OBVIOUS
    <2>4. PICK r : r = [b EXCEPT !.roles = rs, !.scopes = ss]
      OBVIOUS
    <2>5. /\ b \in RequestRecord /\ ss \in SUBSET Scopes /\ rs \in SUBSET Roles
          /\ b.op = "setUserRoles" /\ b.user = u /\ b.at = "links" /\ b.n = begun + 1
          /\ b.found = {} /\ b.delLinks = {} /\ b.newLinks = {} /\ b.delScopes = {}
      <3>1. ss \in SUBSET Scopes /\ rs \in SUBSET Roles
        BY <2>3, AccountsAssumption
      <3> QED
        BY <1>0, <1>1, <2>1, <2>2, <3>1, BlankIs DEF Operations, Places
    <2>6. /\ r \in RequestRecord /\ r.user = u
          /\ r.op = "setUserRoles" /\ r.at = "links" /\ r.n = begun + 1
          /\ r.found = {} /\ r.delLinks = {} /\ r.newLinks = {} /\ r.delScopes = {}
      BY ONLY <2>4, <2>5 DEF RequestRecord
    <2>7. Opened(r)
      BY <2>6 DEF Opened, InPlace, Revokes, SignsIn, Replaces, Replacing, Checking
    <2> QED
      BY <2>1, <2>2, <2>3, <2>4, <2>7
  <1>11. CASE OpenSetUserScopes(w)
    <2>1. PICK u \in DOMAIN users, ss \in SUBSET Scopes :
            Open(w, [New("setUserScopes", u, "scopes") EXCEPT !.scopes = ss])
      BY <1>11 DEF OpenSetUserScopes
    <2>2. PICK b : b = New("setUserScopes", u, "scopes")
      OBVIOUS
    <2>3. PICK r : r = [b EXCEPT !.scopes = ss]
      OBVIOUS
    <2>4. /\ b \in RequestRecord
          /\ b.op = "setUserScopes" /\ b.user = u /\ b.at = "scopes" /\ b.n = begun + 1
          /\ b.found = {} /\ b.delLinks = {} /\ b.newLinks = {} /\ b.delScopes = {}
      BY <1>0, <1>1, <2>1, <2>2, BlankIs DEF Operations, Places
    <2>5. /\ r \in RequestRecord /\ r.user = u
          /\ r.op = "setUserScopes" /\ r.at = "scopes" /\ r.n = begun + 1
          /\ r.found = {} /\ r.delLinks = {} /\ r.newLinks = {} /\ r.delScopes = {}
      BY ONLY <2>3, <2>4, ss \in SUBSET Scopes DEF RequestRecord
    <2>6. Opened(r)
      BY <2>5 DEF Opened, InPlace, Revokes, SignsIn, Replaces, Replacing, Checking
    <2> QED
      BY <2>1, <2>2, <2>3, <2>6
  <1>12. CASE OpenAddPermissions(w)
    <2>1. PICK r0 \in Roles \cap codes, ps \in SUBSET (Permissions \cap codes) :
            Open(w, [New("addRolePermissions", NoUser, "grant") EXCEPT
                       !.grants = Grants(r0, ps) \ grants])
      BY <1>12 DEF OpenAddPermissions
    <2>2. PICK b : b = New("addRolePermissions", NoUser, "grant")
      OBVIOUS
    <2>3. PICK gs : gs = Grants(r0, ps) \ grants
      OBVIOUS
    <2>4. PICK r : r = [b EXCEPT !.grants = gs]
      OBVIOUS
    <2>5. gs \in SUBSET Grant
      BY <2>3 DEF Grants, Grant
    <2>6. /\ b \in RequestRecord
          /\ b.op = "addRolePermissions" /\ b.at = "grant" /\ b.n = begun + 1
          /\ b.found = {} /\ b.delLinks = {} /\ b.newLinks = {} /\ b.delScopes = {}
      BY <1>0, <1>1, <2>1, <2>2, BlankIs DEF Operations, Places
    <2>7. /\ r \in RequestRecord
          /\ r.op = "addRolePermissions" /\ r.at = "grant" /\ r.n = begun + 1
          /\ r.found = {} /\ r.delLinks = {} /\ r.newLinks = {} /\ r.delScopes = {}
      BY ONLY <2>4, <2>5, <2>6 DEF RequestRecord
    <2>8. Opened(r)
      BY <2>7 DEF Opened, InPlace, Revokes, SignsIn, Replaces, Replacing, Checking
    <2> QED
      BY <2>1, <2>2, <2>3, <2>4, <2>8
  <1>13. CASE OpenRemovePermissions(w)
    <2>1. PICK r0 \in Roles \cap codes, ps \in SUBSET (Permissions \cap codes) :
            Open(w, [New("removeRolePermissions", NoUser, "ungrant") EXCEPT
                       !.grants = Grants(r0, ps)])
      BY <1>13 DEF OpenRemovePermissions
    <2>2. PICK b : b = New("removeRolePermissions", NoUser, "ungrant")
      OBVIOUS
    <2>3. PICK gs : gs = Grants(r0, ps)
      OBVIOUS
    <2>4. PICK r : r = [b EXCEPT !.grants = gs]
      OBVIOUS
    <2>5. gs \in SUBSET Grant
      BY <2>3 DEF Grants, Grant
    <2>6. /\ b \in RequestRecord
          /\ b.op = "removeRolePermissions" /\ b.at = "ungrant" /\ b.n = begun + 1
          /\ b.found = {} /\ b.delLinks = {} /\ b.newLinks = {} /\ b.delScopes = {}
      BY <1>0, <1>1, <2>1, <2>2, BlankIs DEF Operations, Places
    <2>7. /\ r \in RequestRecord
          /\ r.op = "removeRolePermissions" /\ r.at = "ungrant" /\ r.n = begun + 1
          /\ r.found = {} /\ r.delLinks = {} /\ r.newLinks = {} /\ r.delScopes = {}
      BY ONLY <2>4, <2>5, <2>6 DEF RequestRecord
    <2>8. Opened(r)
      BY <2>7 DEF Opened, InPlace, Revokes, SignsIn, Replaces, Replacing, Checking
    <2> QED
      BY <2>1, <2>2, <2>3, <2>4, <2>8
  <1>14. CASE OpenValidate(w)
    <2>1. PICK u \in DOMAIN users, p \in Permissions :
            Open(w, [New("validate", u, "readRoles") EXCEPT !.code = p])
      BY <1>14 DEF OpenValidate
    <2>2. PICK b : b = New("validate", u, "readRoles")
      OBVIOUS
    <2>3. PICK r : r = [b EXCEPT !.code = p]
      OBVIOUS
    <2>4. /\ b \in RequestRecord
          /\ b.op = "validate" /\ b.user = u /\ b.at = "readRoles" /\ b.n = begun + 1
          /\ b.found = {} /\ b.delLinks = {} /\ b.newLinks = {} /\ b.delScopes = {}
      BY <1>0, <1>1, <2>1, <2>2, BlankIs DEF Operations, Places
    <2>5. /\ r \in RequestRecord /\ r.user = u
          /\ r.op = "validate" /\ r.at = "readRoles" /\ r.n = begun + 1
          /\ r.found = {} /\ r.delLinks = {} /\ r.newLinks = {} /\ r.delScopes = {}
      BY ONLY <2>3, <2>4, p \in Permissions DEF RequestRecord
    <2>6. Opened(r)
      BY <2>5 DEF Opened, InPlace, Revokes, SignsIn, Replaces, Replacing, Checking
    <2> QED
      BY <2>1, <2>2, <2>3, <2>6
  <1> QED
    BY <1>2, <1>3, <1>4, <1>5, <1>6, <1>7, <1>8, <1>9, <1>10, <1>11, <1>12, <1>13, <1>14
       DEF Begin

----------------------------------------------------------------------------
(* What a statement makes of its request.                                  *)

LEMMA StartDeleteLinksIs ==
    ASSUME Shape, NEW w \in Workers, req[w] \in RequestRecord, NEW s, s = req'[w],
           StartDeleteLinks(w)
    PROVE  LET r == req[w]
           IN  /\ OnlyChanges(w) /\ s \in RequestRecord /\ Brought(s, r) /\ s.at = "deleteLinks"
               /\ s.found = {k \in links : k.user = req[w].user}
               /\ s.roles = r.roles /\ s.scopes = r.scopes /\ s.perms = r.perms
               /\ s.delLinks = r.delLinks /\ s.newLinks = r.newLinks /\ s.delScopes = r.delScopes
  <1>1. PICK x : x = {k \in links : k.user = req[w].user}
    OBVIOUS
  <1>2. x \in SUBSET (LinkRow \cup ScopeRow)
    BY <1>1 DEF Shape
  <1>3. PICK r : r = req[w]
    OBVIOUS
  <1>4. PICK place : place = "deleteLinks"
    OBVIOUS
  <1>5. place \in Places
    BY <1>4 DEF Places
  <1>6. req' = [req EXCEPT ![w].at = place, ![w].found = x]
    BY <1>1, <1>4 DEF StartDeleteLinks, Waiting
  <1>7. req \in [Workers -> RequestRecord \cup {NoRequest}]
    BY RequestIs
  <1>8. s = [r EXCEPT !.at = place, !.found = x] /\ OnlyChanges(w)
    BY ONLY <1>3, <1>6, <1>7, s = req'[w], w \in Workers DEF OnlyChanges
  <1>9. /\ s \in RequestRecord /\ Brought(s, r) /\ s.at = place /\ s.found = x
        /\ s.roles = r.roles /\ s.scopes = r.scopes /\ s.perms = r.perms
        /\ s.delLinks = r.delLinks /\ s.newLinks = r.newLinks /\ s.delScopes = r.delScopes
    BY ONLY <1>2, <1>3, <1>5, <1>8, req[w] \in RequestRecord DEF RequestRecord, Brought
  <1> QED
    BY <1>1, <1>3, <1>4, <1>8, <1>9

LEMMA StartDeleteScopesIs ==
    ASSUME Shape, NEW w \in Workers, req[w] \in RequestRecord, NEW s, s = req'[w],
           StartDeleteScopes(w)
    PROVE  LET r == req[w]
           IN  /\ OnlyChanges(w) /\ s \in RequestRecord /\ Brought(s, r) /\ s.at = "deleteScopes"
               /\ s.found = {k \in scopes : k.user = req[w].user}
               /\ s.roles = r.roles /\ s.scopes = r.scopes /\ s.perms = r.perms
               /\ s.delLinks = r.delLinks /\ s.newLinks = r.newLinks /\ s.delScopes = r.delScopes
  <1>1. PICK x : x = {k \in scopes : k.user = req[w].user}
    OBVIOUS
  <1>2. x \in SUBSET (LinkRow \cup ScopeRow)
    BY <1>1 DEF Shape
  <1>3. PICK r : r = req[w]
    OBVIOUS
  <1>4. PICK place : place = "deleteScopes"
    OBVIOUS
  <1>5. place \in Places
    BY <1>4 DEF Places
  <1>6. req' = [req EXCEPT ![w].at = place, ![w].found = x]
    BY <1>1, <1>4 DEF StartDeleteScopes, Waiting
  <1>7. req \in [Workers -> RequestRecord \cup {NoRequest}]
    BY RequestIs
  <1>8. s = [r EXCEPT !.at = place, !.found = x] /\ OnlyChanges(w)
    BY ONLY <1>3, <1>6, <1>7, s = req'[w], w \in Workers DEF OnlyChanges
  <1>9. /\ s \in RequestRecord /\ Brought(s, r) /\ s.at = place /\ s.found = x
        /\ s.roles = r.roles /\ s.scopes = r.scopes /\ s.perms = r.perms
        /\ s.delLinks = r.delLinks /\ s.newLinks = r.newLinks /\ s.delScopes = r.delScopes
    BY ONLY <1>2, <1>3, <1>5, <1>8, req[w] \in RequestRecord DEF RequestRecord, Brought
  <1> QED
    BY <1>1, <1>3, <1>4, <1>8, <1>9

LEMMA DeleteLinksIs ==
    ASSUME Shape, NEW w \in Workers, req[w] \in RequestRecord, NEW s, s = req'[w],
           DeleteLinks(w)
    PROVE  LET r == req[w]
           IN  /\ OnlyChanges(w) /\ s \in RequestRecord /\ Brought(s, r) /\ s.at = "insertLinks"
               /\ s.delLinks = req[w].found \cap links
               /\ s.roles = r.roles /\ s.scopes = r.scopes /\ s.perms = r.perms
               /\ s.found = r.found /\ s.newLinks = r.newLinks /\ s.delScopes = r.delScopes
  <1>1. PICK x : x = req[w].found \cap links
    OBVIOUS
  <1>2. x \in SUBSET LinkRow
    BY <1>1 DEF Shape
  <1>3. PICK r : r = req[w]
    OBVIOUS
  <1>4. PICK place : place = "insertLinks"
    OBVIOUS
  <1>5. place \in Places
    BY <1>4 DEF Places
  <1>6. req' = [req EXCEPT ![w].at = place, ![w].delLinks = x]
    BY <1>1, <1>4 DEF DeleteLinks
  <1>7. req \in [Workers -> RequestRecord \cup {NoRequest}]
    BY RequestIs
  <1>8. s = [r EXCEPT !.at = place, !.delLinks = x] /\ OnlyChanges(w)
    BY ONLY <1>3, <1>6, <1>7, s = req'[w], w \in Workers DEF OnlyChanges
  <1>9. /\ s \in RequestRecord /\ Brought(s, r) /\ s.at = place /\ s.delLinks = x
        /\ s.roles = r.roles /\ s.scopes = r.scopes /\ s.perms = r.perms
        /\ s.found = r.found /\ s.newLinks = r.newLinks /\ s.delScopes = r.delScopes
    BY ONLY <1>2, <1>3, <1>5, <1>8, req[w] \in RequestRecord DEF RequestRecord, Brought
  <1> QED
    BY <1>1, <1>3, <1>4, <1>8, <1>9

LEMMA InsertLinksIs ==
    ASSUME Shape, NEW w \in Workers, req[w] \in RequestRecord, NEW s, s = req'[w],
           InsertLinks(w), ~Duplicates(w, links), req[w].user \in Users
    PROVE  LET r == req[w]
           IN  /\ OnlyChanges(w) /\ s \in RequestRecord /\ Brought(s, r) /\ s.at = AfterLinks(w)
               /\ s.newLinks = {Link(req[w].user, c, req[w].n) : c \in req[w].roles}
               /\ s.roles = r.roles /\ s.scopes = r.scopes /\ s.perms = r.perms
               /\ s.found = r.found /\ s.delLinks = r.delLinks /\ s.delScopes = r.delScopes
  <1>1. PICK x : x = {Link(req[w].user, c, req[w].n) : c \in req[w].roles}
    OBVIOUS
  <1>2. x \in SUBSET LinkRow
    BY <1>1 DEF RequestRecord, Link, LinkRow
  <1>3. PICK r : r = req[w]
    OBVIOUS
  <1>4. PICK place : place = AfterLinks(w)
    OBVIOUS
  <1>5. place \in Places
    BY <1>4 DEF Places, AfterLinks
  <1>6. req' = [req EXCEPT ![w].at = place, ![w].newLinks = x]
    BY <1>1, <1>4 DEF InsertLinks
  <1>7. req \in [Workers -> RequestRecord \cup {NoRequest}]
    BY RequestIs
  <1>8. s = [r EXCEPT !.at = place, !.newLinks = x] /\ OnlyChanges(w)
    BY ONLY <1>3, <1>6, <1>7, s = req'[w], w \in Workers DEF OnlyChanges
  <1>9. /\ s \in RequestRecord /\ Brought(s, r) /\ s.at = place /\ s.newLinks = x
        /\ s.roles = r.roles /\ s.scopes = r.scopes /\ s.perms = r.perms
        /\ s.found = r.found /\ s.delLinks = r.delLinks /\ s.delScopes = r.delScopes
    BY ONLY <1>2, <1>3, <1>5, <1>8, req[w] \in RequestRecord DEF RequestRecord, Brought
  <1> QED
    BY <1>1, <1>3, <1>4, <1>8, <1>9

LEMMA DeleteScopesIs ==
    ASSUME Shape, NEW w \in Workers, req[w] \in RequestRecord, NEW s, s = req'[w],
           DeleteScopes(w)
    PROVE  LET r == req[w]
           IN  /\ OnlyChanges(w) /\ s \in RequestRecord /\ Brought(s, r) /\ s.at = "commit"
               /\ s.delScopes = req[w].found \cap scopes
               /\ s.roles = r.roles /\ s.scopes = r.scopes /\ s.perms = r.perms
               /\ s.found = r.found /\ s.delLinks = r.delLinks /\ s.newLinks = r.newLinks
  <1>1. PICK x : x = req[w].found \cap scopes
    OBVIOUS
  <1>2. x \in SUBSET ScopeRow
    BY <1>1 DEF Shape
  <1>3. PICK r : r = req[w]
    OBVIOUS
  <1>4. PICK place : place = "commit"
    OBVIOUS
  <1>5. place \in Places
    BY <1>4 DEF Places
  <1>6. req' = [req EXCEPT ![w].at = place, ![w].delScopes = x]
    BY <1>1, <1>4 DEF DeleteScopes
  <1>7. req \in [Workers -> RequestRecord \cup {NoRequest}]
    BY RequestIs
  <1>8. s = [r EXCEPT !.at = place, !.delScopes = x] /\ OnlyChanges(w)
    BY ONLY <1>3, <1>6, <1>7, s = req'[w], w \in Workers DEF OnlyChanges
  <1>9. /\ s \in RequestRecord /\ Brought(s, r) /\ s.at = place /\ s.delScopes = x
        /\ s.roles = r.roles /\ s.scopes = r.scopes /\ s.perms = r.perms
        /\ s.found = r.found /\ s.delLinks = r.delLinks /\ s.newLinks = r.newLinks
    BY ONLY <1>2, <1>3, <1>5, <1>8, req[w] \in RequestRecord DEF RequestRecord, Brought
  <1> QED
    BY <1>1, <1>3, <1>4, <1>8, <1>9

LEMMA ReadRolesIs ==
    ASSUME Shape, NEW w \in Workers, req[w] \in RequestRecord, NEW s, s = req'[w],
           ReadRoles(w)
    PROVE  LET r == req[w]
           IN  /\ OnlyChanges(w) /\ s \in RequestRecord /\ Brought(s, r) /\ s.at = "readGrants"
               /\ s.roles = RolesOf(req[w].user)
               /\ s.scopes = r.scopes /\ s.perms = r.perms /\ s.found = r.found
               /\ s.delLinks = r.delLinks /\ s.newLinks = r.newLinks /\ s.delScopes = r.delScopes
  <1>1. PICK x : x = RolesOf(req[w].user)
    OBVIOUS
  <1>2. x \in SUBSET Roles
    BY <1>1 DEF Shape, RolesOf, LinkRow
  <1>3. PICK r : r = req[w]
    OBVIOUS
  <1>4. PICK place : place = "readGrants"
    OBVIOUS
  <1>5. place \in Places
    BY <1>4 DEF Places
  <1>6. req' = [req EXCEPT ![w].at = place, ![w].roles = x]
    BY <1>1, <1>4 DEF ReadRoles
  <1>7. req \in [Workers -> RequestRecord \cup {NoRequest}]
    BY RequestIs
  <1>8. s = [r EXCEPT !.at = place, !.roles = x] /\ OnlyChanges(w)
    BY ONLY <1>3, <1>6, <1>7, s = req'[w], w \in Workers DEF OnlyChanges
  <1>9. /\ s \in RequestRecord /\ Brought(s, r) /\ s.at = place /\ s.roles = x
        /\ s.scopes = r.scopes /\ s.perms = r.perms /\ s.found = r.found
        /\ s.delLinks = r.delLinks /\ s.newLinks = r.newLinks /\ s.delScopes = r.delScopes
    BY ONLY <1>2, <1>3, <1>5, <1>8, req[w] \in RequestRecord DEF RequestRecord, Brought
  <1> QED
    BY <1>1, <1>3, <1>4, <1>8, <1>9

LEMMA ReadGrantsIs ==
    ASSUME Shape, NEW w \in Workers, req[w] \in RequestRecord, NEW s, s = req'[w],
           ReadGrants(w)
    PROVE  LET r == req[w]
           IN  /\ OnlyChanges(w) /\ s \in RequestRecord /\ Brought(s, r) /\ s.at = "readScopes"
               /\ s.perms = {g.perm : g \in {h \in grants : h.role \in req[w].roles}}
               /\ s.roles = r.roles /\ s.scopes = r.scopes /\ s.found = r.found
               /\ s.delLinks = r.delLinks /\ s.newLinks = r.newLinks /\ s.delScopes = r.delScopes
  <1>1. PICK x : x = {g.perm : g \in {h \in grants : h.role \in req[w].roles}}
    OBVIOUS
  <1>2. x \in SUBSET Permissions
    BY <1>1 DEF Shape, Grant
  <1>3. PICK r : r = req[w]
    OBVIOUS
  <1>4. PICK place : place = "readScopes"
    OBVIOUS
  <1>5. place \in Places
    BY <1>4 DEF Places
  <1>6. req' = [req EXCEPT ![w].at = place, ![w].perms = x]
    BY <1>1, <1>4 DEF ReadGrants
  <1>7. req \in [Workers -> RequestRecord \cup {NoRequest}]
    BY RequestIs
  <1>8. s = [r EXCEPT !.at = place, !.perms = x] /\ OnlyChanges(w)
    BY ONLY <1>3, <1>6, <1>7, s = req'[w], w \in Workers DEF OnlyChanges
  <1>9. /\ s \in RequestRecord /\ Brought(s, r) /\ s.at = place /\ s.perms = x
        /\ s.roles = r.roles /\ s.scopes = r.scopes /\ s.found = r.found
        /\ s.delLinks = r.delLinks /\ s.newLinks = r.newLinks /\ s.delScopes = r.delScopes
    BY ONLY <1>2, <1>3, <1>5, <1>8, req[w] \in RequestRecord DEF RequestRecord, Brought
  <1> QED
    BY <1>1, <1>3, <1>4, <1>8, <1>9

LEMMA ReadScopesIs ==
    ASSUME Shape, NEW w \in Workers, req[w] \in RequestRecord, NEW s, s = req'[w],
           ReadScopes(w)
    PROVE  LET r == req[w]
           IN  /\ OnlyChanges(w) /\ s \in RequestRecord /\ Brought(s, r) /\ s.at = "guard"
               /\ s.scopes = ScopesOf(req[w].user)
               /\ s.roles = r.roles /\ s.perms = r.perms /\ s.found = r.found
               /\ s.delLinks = r.delLinks /\ s.newLinks = r.newLinks /\ s.delScopes = r.delScopes
  <1>1. PICK x : x = ScopesOf(req[w].user)
    OBVIOUS
  <1>2. x \in SUBSET Scopes
    BY <1>1 DEF Shape, ScopesOf, ScopeRow
  <1>3. PICK r : r = req[w]
    OBVIOUS
  <1>4. PICK place : place = "guard"
    OBVIOUS
  <1>5. place \in Places
    BY <1>4 DEF Places
  <1>6. req' = [req EXCEPT ![w].at = place, ![w].scopes = x]
    BY <1>1, <1>4 DEF ReadScopes
  <1>7. req \in [Workers -> RequestRecord \cup {NoRequest}]
    BY RequestIs
  <1>8. s = [r EXCEPT !.at = place, !.scopes = x] /\ OnlyChanges(w)
    BY ONLY <1>3, <1>6, <1>7, s = req'[w], w \in Workers DEF OnlyChanges
  <1>9. /\ s \in RequestRecord /\ Brought(s, r) /\ s.at = place /\ s.scopes = x
        /\ s.roles = r.roles /\ s.perms = r.perms /\ s.found = r.found
        /\ s.delLinks = r.delLinks /\ s.newLinks = r.newLinks /\ s.delScopes = r.delScopes
    BY ONLY <1>2, <1>3, <1>5, <1>8, req[w] \in RequestRecord DEF RequestRecord, Brought
  <1> QED
    BY <1>1, <1>3, <1>4, <1>8, <1>9

----------------------------------------------------------------------------
(* What a statement makes of the rows of users.                            *)

SetsRow(u, row) ==
    /\ row \in UserRow /\ u \in DOMAIN users
    /\ users' = [users EXCEPT ![u] = row]

LEMMA SetsRowIs ==
    ASSUME Shape, NEW u, NEW row, SetsRow(u, row)
    PROVE  /\ users' \in UserTables /\ DOMAIN users' = DOMAIN users /\ users'[u] = row
           /\ \A x \in DOMAIN users \ {u} : users'[x] = users[x]
  <1>1. PICK new : new = users'
    OBVIOUS
  <1>2. /\ new \in UserTables /\ DOMAIN new = DOMAIN users /\ new[u] = row
        /\ \A x \in DOMAIN users \ {u} : new[x] = users[x]
    BY <1>1, RowSet DEF Shape, SetsRow
  <1> QED
    BY <1>1, <1>2

(* A row after updateUser or setStatus.                                    *)
StatusSet(row, r) ==
    CASE r.status = Same -> row.status
      [] r.status = AsText -> Inactive
      [] OTHER -> r.status

LEMMA StatusSetIs ==
    ASSUME NEW row \in UserRow, NEW r \in RequestRecord
    PROVE  /\ StatusSet(row, r) \in Status
           /\ r.status = Same => StatusSet(row, r) = row.status
           /\ r.status \in Status => StatusSet(row, r) = r.status
  <1>1. row.status \in Status /\ r.status \in Status \cup {AsText, Same}
    BY DEF UserRow, RequestRecord
  <1> QED
    BY <1>1 DEF StatusSet, Status, Active, Inactive, AsText, Same

LEMMA PatchedIs ==
    ASSUME NEW row \in UserRow, NEW r \in RequestRecord
    PROVE  /\ Patched(row, r) \in UserRow
           /\ Patched(row, r).password = row.password
           /\ Patched(row, r).session = row.session
           /\ Patched(row, r).name = IF r.name = Same THEN row.name ELSE r.name
           /\ Patched(row, r).status = StatusSet(row, r)
  <1>1. PICK name : name = IF r.name = Same THEN row.name ELSE r.name
    OBVIOUS
  <1>2. PICK status : status = StatusSet(row, r)
    OBVIOUS
  <1>3. name \in Names /\ status \in Status
    BY <1>1, <1>2, StatusSetIs DEF RequestRecord, UserRow
  <1>4. PICK p : p = [row EXCEPT !.name = name, !.status = status]
    OBVIOUS
  <1>5. /\ p \in UserRow /\ p.password = row.password /\ p.session = row.session
        /\ p.name = name /\ p.status = status
    BY ONLY <1>3, <1>4, row \in UserRow DEF UserRow
  <1>6. Patched(row, r) = p
    BY <1>1, <1>2, <1>4 DEF Patched, StatusSet
  <1> QED
    BY <1>1, <1>2, <1>5, <1>6

LEMMA SetSessionIs ==
    ASSUME Shape, NEW u \in DOMAIN users, NEW x \in {NoSession, Stored},
           SetSession(u, x)
    PROVE  \E row : /\ SetsRow(u, row) /\ row.session = x
                    /\ row.name = users[u].name /\ row.status = users[u].status
                    /\ row.password = users[u].password
  <1>1. PICK old : old = users[u]
    OBVIOUS
  <1>2. old \in UserRow
    BY <1>1, UserTypes DEF Shape
  <1>3. PICK row : row = [old EXCEPT !.session = x]
    OBVIOUS
  <1>4. /\ row \in UserRow /\ row.session = x /\ row.name = old.name
        /\ row.status = old.status /\ row.password = old.password
    BY ONLY <1>2, <1>3, x \in {NoSession, Stored} DEF UserRow
  <1>5. users' = [users EXCEPT ![u] = row]
    BY <1>1, <1>3 DEF SetSession
  <1> QED
    BY <1>1, <1>4, <1>5 DEF SetsRow

LEMMA SetPasswordIs ==
    ASSUME Shape, NEW w \in Workers, NEW u, u = req[w].user, u \in DOMAIN users,
           req[w].password \in Passwords, SetPassword(w)
    PROVE  \E row : /\ SetsRow(u, row) /\ row.session = NoSession
                    /\ row.name = users[u].name
  <1>1. PICK old : old = users[u]
    OBVIOUS
  <1>2. old \in UserRow /\ users = [y \in DOMAIN users |-> users[y]]
    BY <1>1, UserTypes DEF Shape
  <1>3. PICK pw : pw = req[w].password
    OBVIOUS
  <1>4. PICK row : row = [old EXCEPT !.password = pw, !.session = NoSession]
    OBVIOUS
  <1>5. /\ row \in UserRow /\ row.session = NoSession /\ row.name = old.name
    BY ONLY <1>2, <1>4, <1>3, req[w].password \in Passwords DEF UserRow
  <1>6. users' = [users EXCEPT ![u].password = pw, ![u].session = NoSession]
    BY <1>3 DEF SetPassword
  <1>7. users' = [users EXCEPT ![u] = row]
    BY ONLY <1>1, <1>2, <1>4, <1>6, u \in DOMAIN users
  <1> QED
    BY <1>1, <1>5, <1>7 DEF SetsRow

(* A new user.                                                             *)
Adds(u, row) ==
    /\ u \in Users \ DOMAIN users /\ row \in UserRow
    /\ users' = [x \in DOMAIN users \cup {u} |-> IF x = u THEN row ELSE users[x]]

LEMMA AddsIs ==
    ASSUME Shape, NEW u, NEW row, Adds(u, row)
    PROVE  /\ users' \in UserTables /\ DOMAIN users' = DOMAIN users \cup {u}
           /\ users'[u] = row
           /\ \A x \in DOMAIN users : users'[x] = users[x]
  <1>1. users \in UserTables
    BY DEF Shape
  <1>2. /\ DOMAIN users \cup {u} \in SUBSET Users
        /\ \A x \in DOMAIN users : users[x] \in UserRow
    BY <1>1, UserTypes DEF Adds
  <1>3. users' \in [DOMAIN users \cup {u} -> UserRow]
    <2> HIDE DEF UserRow
    <2> QED
      BY <1>2 DEF Adds
  <1>4. users' \in UserTables
    BY <1>2, <1>3 DEF UserTables
  <1> QED
    BY <1>4 DEF Adds

LEMMA InsertUserIs ==
    ASSUME Shape, NEW w \in Workers, req[w].name \in Names, req[w].password \in Passwords,
           InsertUser(w)
    PROVE  \/ users' = users
           \/ /\ ~Taken(req[w].name, NoUser)
              /\ \E u, row : Adds(u, row) /\ row.session = NoSession /\ row.name = req[w].name
  <1>1. PICK row : row = NewUser(req[w].name, req[w].password)
    OBVIOUS
  <1>2. row \in UserRow /\ row.session = NoSession /\ row.name = req[w].name
    BY <1>1 DEF NewUser, UserRow, Status
  <1> QED
    BY <1>1, <1>2 DEF InsertUser, Adds

----------------------------------------------------------------------------
(* A step of a request, whatever it is.                                    *)

Placed == \A v \in Workers : ~Idle(v) => InPlace(req[v], DOMAIN users)

Advances(w) ==
    /\ OnlyChanges(w)
    /\ \/ req'[w] = NoRequest
       \/ /\ req'[w] \in RequestRecord /\ Brought(req'[w], req[w])
          /\ InPlace(req'[w], DOMAIN users)
    /\ begun' = begun /\ contended' = contended /\ disturbed \subseteq disturbed'

LEMMA OpenIs ==
    ASSUME Shape, NEW w \in Workers, NEW r \in RequestRecord, Open(w, r)
    PROVE  /\ OnlyChanges(w) /\ req'[w] = r /\ begun' = begun + 1 /\ begun' \in 0..MaxRequests
           /\ users' = users /\ links' = links /\ scopes' = scopes /\ grants' = grants
           /\ codes' = codes /\ asked' = asked
           /\ loggedIn' = loggedIn /\ unrevoked' = unrevoked
           /\ disturbed \subseteq disturbed' /\ contended \subseteq contended'
           /\ Idle(w)
  <1>1. req \in [Workers -> RequestRecord \cup {NoRequest}] /\ begun \in 0..MaxRequests
    BY DEF Shape
  <1>2. req' = [req EXCEPT ![w] = r]
    BY DEF Open
  <1>3. OnlyChanges(w) /\ req'[w] = r
    BY <1>1, <1>2 DEF OnlyChanges
  <1>4. begun' = begun + 1 /\ begun' \in 0..MaxRequests
    BY <1>1, AccountsAssumption DEF Open
  <1> QED
    BY <1>3, <1>4 DEF Open, rights

LEMMA EndAdvances ==
    ASSUME Shape, NEW w \in Workers, End(w), begun' = begun, contended' = contended,
           disturbed \subseteq disturbed'
    PROVE  Advances(w) /\ req'[w] = NoRequest
  BY EndIs DEF Advances

LEMMA MoveAdvances ==
    ASSUME Shape, NEW w \in Workers, req[w] \in RequestRecord, NEW s, s = req'[w],
           OnlyChanges(w), s \in RequestRecord, Brought(s, req[w]),
           InPlace(s, DOMAIN users), begun' = begun, contended' = contended,
           disturbed' = disturbed
    PROVE  Advances(w)
  BY DEF Advances

(* Where a request goes next, its operation and user still fit.            *)
LEMMA MovesInPlace ==
    ASSUME NEW there, NEW r, NEW s, InPlace(r, there), Brought(s, r),
           \/ r.at = "update" /\ r.status = Inactive /\ s.at = "revoke"
           \/ r.at = "profile" /\ s.at = "store"
           \/ r.at = "links" /\ s.at = "deleteLinks"
           \/ r.at = "deleteLinks" /\ s.at = "insertLinks"
           \/ r.at = "insertLinks" /\ s.at \in {"scopes", "commit"}
           \/ r.at = "scopes" /\ s.at = "deleteScopes"
           \/ r.at = "deleteScopes" /\ s.at = "commit"
           \/ r.at = "readRoles" /\ s.at = "readGrants"
           \/ r.at = "readGrants" /\ s.at = "readScopes"
           \/ r.at = "readScopes" /\ s.at = "guard"
    PROVE  InPlace(s, there)
  BY DEF InPlace, Brought, Revokes, SignsIn, Replaces, Replacing, Checking, Inactive, Same

LEMMA ProceedAdvances ==
    ASSUME Shape, Placed, NEW w \in Workers, ~Idle(w), Proceed(w)
    PROVE  Advances(w)
  <1>1. req[w] \in RequestRecord /\ InPlace(req[w], DOMAIN users)
    BY RequestIs DEF Placed
  <1>2. PICK s : s = req'[w]
    OBVIOUS
  <1>3. PICK r : r = req[w]
    OBVIOUS
  <1>4. begun' = begun /\ contended' = contended /\ disturbed' = disturbed
    BY DEF Proceed, InsertUser, UpdateUser, Revoke, SetPassword, RefreshProfile, StoreSession,
           InsertCode, InsertGrants, DeleteGrants, StartDeleteLinks, DeleteLinks, InsertLinks,
           StartDeleteScopes, DeleteScopes, Commit, ReadRoles, ReadGrants, ReadScopes, Answer,
           Waiting, Reading, OthersKept, history
  <1>5. CASE End(w)
    BY <1>4, <1>5, EndAdvances
  <1>6. CASE UpdateUser(w) /\ ~End(w)
    <2>1. Move(w, "revoke") /\ r.status = Inactive /\ r.at = "update"
      BY <1>3, <1>6 DEF UpdateUser
    <2>2. "revoke" \in Places
      BY DEF Places
    <2>3. OnlyChanges(w) /\ s \in RequestRecord /\ Brought(s, r) /\ s.at = "revoke"
      BY <1>1, <1>2, <1>3, <2>1, <2>2, MoveIs
    <2> QED
      BY <1>1, <1>2, <1>3, <1>4, <2>1, <2>3, MovesInPlace, MoveAdvances
  <1>7. CASE RefreshProfile(w) /\ ~End(w)
    <2>1. Move(w, "store") /\ r.at = "profile"
      BY <1>3, <1>7 DEF RefreshProfile
    <2>2. "store" \in Places
      BY DEF Places
    <2>3. OnlyChanges(w) /\ s \in RequestRecord /\ Brought(s, r) /\ s.at = "store"
      BY <1>1, <1>2, <1>3, <2>1, <2>2, MoveIs
    <2> QED
      BY <1>1, <1>2, <1>3, <1>4, <2>1, <2>3, MovesInPlace, MoveAdvances
  <1>8. CASE StartDeleteLinks(w)
    <2>1. OnlyChanges(w) /\ s \in RequestRecord /\ Brought(s, r) /\ s.at = "deleteLinks"
      BY <1>1, <1>2, <1>3, <1>8, StartDeleteLinksIs
    <2>2. r.at = "links"
      BY <1>3, <1>8 DEF StartDeleteLinks, Waiting
    <2> QED
      BY <1>1, <1>2, <1>3, <1>4, <2>1, <2>2, MovesInPlace, MoveAdvances
  <1>9. CASE DeleteLinks(w)
    <2>1. OnlyChanges(w) /\ s \in RequestRecord /\ Brought(s, r) /\ s.at = "insertLinks"
      BY <1>1, <1>2, <1>3, <1>9, DeleteLinksIs
    <2>2. r.at = "deleteLinks"
      BY <1>3, <1>9 DEF DeleteLinks
    <2> QED
      BY <1>1, <1>2, <1>3, <1>4, <2>1, <2>2, MovesInPlace, MoveAdvances
  <1>10. CASE InsertLinks(w) /\ ~End(w)
    <2>1. r.at = "insertLinks" /\ ~Duplicates(w, links)
      BY <1>3, <1>10 DEF InsertLinks
    <2>2. r.user \in Users
      BY <1>1, <1>3, <2>1, UserTypes DEF InPlace, Replacing, Shape
    <2>3. OnlyChanges(w) /\ s \in RequestRecord /\ Brought(s, r) /\ s.at = AfterLinks(w)
      BY <1>1, <1>2, <1>3, <1>10, <2>1, <2>2, InsertLinksIs
    <2>4. s.at \in {"scopes", "commit"}
      BY <2>3 DEF AfterLinks
    <2> QED
      BY <1>1, <1>2, <1>3, <1>4, <2>1, <2>3, <2>4, MovesInPlace, MoveAdvances
  <1>11. CASE StartDeleteScopes(w)
    <2>1. OnlyChanges(w) /\ s \in RequestRecord /\ Brought(s, r) /\ s.at = "deleteScopes"
      BY <1>1, <1>2, <1>3, <1>11, StartDeleteScopesIs
    <2>2. r.at = "scopes"
      BY <1>3, <1>11 DEF StartDeleteScopes, Waiting
    <2> QED
      BY <1>1, <1>2, <1>3, <1>4, <2>1, <2>2, MovesInPlace, MoveAdvances
  <1>12. CASE DeleteScopes(w)
    <2>1. OnlyChanges(w) /\ s \in RequestRecord /\ Brought(s, r) /\ s.at = "commit"
      BY <1>1, <1>2, <1>3, <1>12, DeleteScopesIs
    <2>2. r.at = "deleteScopes"
      BY <1>3, <1>12 DEF DeleteScopes
    <2> QED
      BY <1>1, <1>2, <1>3, <1>4, <2>1, <2>2, MovesInPlace, MoveAdvances
  <1>13. CASE ReadRoles(w)
    <2>1. OnlyChanges(w) /\ s \in RequestRecord /\ Brought(s, r) /\ s.at = "readGrants"
      BY <1>1, <1>2, <1>3, <1>13, ReadRolesIs
    <2>2. r.at = "readRoles"
      BY <1>3, <1>13 DEF ReadRoles, Reading
    <2> QED
      BY <1>1, <1>2, <1>3, <1>4, <2>1, <2>2, MovesInPlace, MoveAdvances
  <1>14. CASE ReadGrants(w)
    <2>1. OnlyChanges(w) /\ s \in RequestRecord /\ Brought(s, r) /\ s.at = "readScopes"
      BY <1>1, <1>2, <1>3, <1>14, ReadGrantsIs
    <2>2. r.at = "readGrants"
      BY <1>3, <1>14 DEF ReadGrants, Reading
    <2> QED
      BY <1>1, <1>2, <1>3, <1>4, <2>1, <2>2, MovesInPlace, MoveAdvances
  <1>15. CASE ReadScopes(w)
    <2>1. OnlyChanges(w) /\ s \in RequestRecord /\ Brought(s, r) /\ s.at = "guard"
      BY <1>1, <1>2, <1>3, <1>15, ReadScopesIs
    <2>2. r.at = "readScopes"
      BY <1>3, <1>15 DEF ReadScopes, Reading
    <2> QED
      BY <1>1, <1>2, <1>3, <1>4, <2>1, <2>2, MovesInPlace, MoveAdvances
  <1> QED
    BY <1>5, <1>6, <1>7, <1>8, <1>9, <1>10, <1>11, <1>12, <1>13, <1>14, <1>15
       DEF Proceed, InsertUser, Revoke, SetPassword, StoreSession, InsertCode, InsertGrants,
           DeleteGrants, Commit, Answer

----------------------------------------------------------------------------
(* What a step does to the rows of users.                                  *)

UsersEffect(w) ==
    /\ users' \in UserTables /\ DOMAIN users \subseteq DOMAIN users'
    /\ \A x \in DOMAIN users' \ DOMAIN users : users'[x].session = NoSession
    /\ \A x \in DOMAIN users :
         \/ /\ users'[x].password = users[x].password /\ users'[x].status = users[x].status
         \/ x = req[w].user /\ req[w].op \in Revokes
    /\ \A x \in Users :
         \/ loggedIn'[x] = loggedIn[x]
         \/ /\ req[w].at = "store" /\ req[w].op = "login" /\ req[w].user = x
            /\ loggedIn'[x] = req[w].password
    /\ \A x \in DOMAIN users : users'[x].session # NoSession =>
         /\ users'[x].password = users[x].password
         /\ req[w].at = "revoke" /\ req[w].user = x => x \in disturbed'
         /\ \/ /\ users'[x].session = users[x].session
               /\ \/ /\ users'[x].status = users[x].status
                     /\ x \in unrevoked => x \in unrevoked'
                  \/ users'[x].status = Active
                  \/ x \in unrevoked'
                  \/ req'[w].at = "revoke" /\ req'[w].user = x
            \/ /\ req[w].at = "store" /\ req[w].user = x
               /\ users'[x].status = users[x].status
               /\ req[w].op = "login" => loggedIn'[x] = req[w].password

LEMMA SameUsersEffect ==
    ASSUME Shape, NEW w, users' = users, loggedIn' = loggedIn, unrevoked' = unrevoked,
           req[w].at # "revoke" \/ req[w].user \in disturbed'
    PROVE  UsersEffect(w)
  BY DEF UsersEffect, Shape

LEMMA InsertUserEffect ==
    ASSUME Shape, NEW w \in Workers, req[w].name \in Names, req[w].password \in Passwords,
           InsertUser(w)
    PROVE  UsersEffect(w)
  <1>0. req[w].at = "insert" /\ loggedIn' = loggedIn /\ unrevoked' = unrevoked
    BY DEF InsertUser
  <1>1. CASE users' = users
    BY <1>0, <1>1, SameUsersEffect
  <1>2. CASE \E u, row : Adds(u, row) /\ row.session = NoSession /\ row.name = req[w].name
    <2>1. PICK u, row : Adds(u, row) /\ row.session = NoSession
      BY <1>2
    <2>2. /\ users' \in UserTables /\ DOMAIN users' = DOMAIN users \cup {u}
          /\ users'[u] = row
          /\ \A x \in DOMAIN users : users'[x] = users[x]
      BY <2>1, AddsIs
    <2> QED
      BY <1>0, <2>1, <2>2 DEF UsersEffect
  <1> QED
    BY <1>1, <1>2, InsertUserIs

LEMMA UpdateUserEffect ==
    ASSUME Shape, NEW w \in Workers, req[w] \in RequestRecord,
           InPlace(req[w], DOMAIN users), UpdateUser(w)
    PROVE  UsersEffect(w)
  <1>1. PICK r : r = req[w]
    OBVIOUS
  <1>2. PICK u : u = r.user
    OBVIOUS
  <1>3. r.at = "update" /\ u \in DOMAIN users /\ r \in RequestRecord
    BY <1>1, <1>2 DEF UpdateUser, InPlace
  <1>0. loggedIn' = loggedIn
    BY DEF UpdateUser
  <1>4. CASE UNCHANGED <<users, unrevoked>>
    BY <1>0, <1>1, <1>3, <1>4, SameUsersEffect
  <1>5. CASE /\ users' = [users EXCEPT ![u] = Patched(@, r)]
             /\ unrevoked' = Deactivated(u, r.status)
             /\ IF r.status = Inactive THEN Move(w, "revoke") ELSE End(w)
    <2>1. PICK old : old = users[u]
      OBVIOUS
    <2>2. old \in UserRow
      BY <1>3, <2>1, UserTypes DEF Shape
    <2>3. PICK row : row = Patched(old, r)
      OBVIOUS
    <2>4. /\ row \in UserRow /\ row.password = old.password /\ row.session = old.session
          /\ row.status = StatusSet(old, r)
          /\ r.status = Same => row.status = old.status
          /\ r.status \in Status => row.status = r.status
      BY <1>3, <2>2, <2>3, PatchedIs, StatusSetIs
    <2>5. SetsRow(u, row)
      BY <1>3, <1>5, <2>1, <2>3, <2>4 DEF SetsRow
    <2>6. /\ users' \in UserTables /\ DOMAIN users' = DOMAIN users /\ users'[u] = row
          /\ \A x \in DOMAIN users \ {u} : users'[x] = users[x]
      BY <2>5, SetsRowIs
    <2>7. row.status = old.status \/ r.op \in Revokes
      BY <1>1, <1>3, <2>4 DEF InPlace, Revokes
    <2>8. \/ row.status = old.status /\ unrevoked' = unrevoked
          \/ row.status = Active
          \/ u \in unrevoked'
          \/ req'[w].at = "revoke" /\ req'[w].user = u
      <3>1. r.status \in {Active, Inactive, AsText, Same}
        BY <1>3 DEF RequestRecord, Status
      <3>2. CASE r.status = Inactive
        <4>1. "revoke" \in Places
          BY DEF Places
        <4>2. Brought(req'[w], r) /\ req'[w].at = "revoke"
          BY <1>1, <1>3, <1>5, <3>2, <4>1, MoveIs
        <4> QED
          BY <1>2, <4>2 DEF Brought
      <3>3. CASE r.status = Same
        BY <1>5, <2>4, <3>3 DEF Deactivated
      <3>4. CASE r.status = AsText
        BY <1>5, <3>4 DEF Deactivated, AsText, Same
      <3>5. CASE r.status = Active
        BY <2>4, <3>5 DEF Status
      <3> QED
        BY <3>1, <3>2, <3>3, <3>4, <3>5
    <2>9. \A x \in DOMAIN users \ {u} : x \in unrevoked => x \in unrevoked'
      BY <1>5 DEF Deactivated
    <2> QED
      BY <1>0, <1>1, <1>2, <1>3, <2>1, <2>4, <2>6, <2>7, <2>8, <2>9 DEF UsersEffect
  <1> QED
    BY <1>1, <1>2, <1>4, <1>5 DEF UpdateUser

LEMMA SessionStatementsEffect ==
    ASSUME Shape, NEW w \in Workers, req[w] \in RequestRecord,
           InPlace(req[w], DOMAIN users),
           Revoke(w) \/ SetPassword(w) \/ StoreSession(w)
    PROVE  UsersEffect(w)
  <1>1. PICK u : u = req[w].user
    OBVIOUS
  <1>2. u \in DOMAIN users
    BY <1>1 DEF InPlace, Revoke, SetPassword, StoreSession
  <1>3. CASE Revoke(w)
    <2>1. req[w].at \in {"revoke", "logout"} /\ SetSession(u, NoSession)
      BY <1>1, <1>3 DEF Revoke
    <2>2. PICK row : /\ SetsRow(u, row) /\ row.session = NoSession
                     /\ row.status = users[u].status /\ row.password = users[u].password
      BY <1>2, <2>1, SetSessionIs
    <2>3. /\ users' \in UserTables /\ DOMAIN users' = DOMAIN users /\ users'[u] = row
          /\ \A x \in DOMAIN users \ {u} : users'[x] = users[x]
      BY <2>2, SetsRowIs
    <2>4. loggedIn' = loggedIn /\ unrevoked' = unrevoked
      BY <1>3 DEF Revoke
    <2> QED
      BY <1>1, <1>2, <2>1, <2>2, <2>3, <2>4 DEF UsersEffect
  <1>4. CASE SetPassword(w)
    <2>1. req[w].at = "password" /\ req[w].password \in Passwords /\ req[w].op \in Revokes
      BY <1>4 DEF SetPassword, InPlace
    <2>2. PICK row : SetsRow(u, row) /\ row.session = NoSession
      BY <1>1, <1>2, <1>4, <2>1, SetPasswordIs
    <2>3. /\ users' \in UserTables /\ DOMAIN users' = DOMAIN users /\ users'[u] = row
          /\ \A x \in DOMAIN users \ {u} : users'[x] = users[x]
      BY <2>2, SetsRowIs
    <2>4. loggedIn' = loggedIn /\ unrevoked' = unrevoked
      BY <1>4 DEF SetPassword
    <2> QED
      BY <1>1, <1>2, <2>1, <2>2, <2>3, <2>4 DEF UsersEffect
  <1>5. CASE StoreSession(w)
    <2>1. req[w].at = "store" /\ SetSession(u, Stored)
      BY <1>1, <1>5 DEF StoreSession
    <2>2. PICK row : /\ SetsRow(u, row) /\ row.session = Stored
                     /\ row.status = users[u].status /\ row.password = users[u].password
      BY <1>2, <2>1, SetSessionIs
    <2>3. /\ users' \in UserTables /\ DOMAIN users' = DOMAIN users /\ users'[u] = row
          /\ \A x \in DOMAIN users \ {u} : users'[x] = users[x]
      BY <2>2, SetsRowIs
    <2>4. PICK pw : pw = req[w].password
      OBVIOUS
    <2>5. unrevoked' = unrevoked /\ u \in Users
      BY <1>2, <1>5, UserTypes DEF StoreSession, Shape
    <2>6. /\ \A x \in Users : \/ loggedIn'[x] = loggedIn[x]
                             \/ (req[w].op = "login" /\ x = u /\ loggedIn'[x] = pw)
          /\ req[w].op = "login" => loggedIn'[u] = pw
      <3>1. loggedIn' = IF req[w].op = "login" THEN [loggedIn EXCEPT ![u] = pw] ELSE loggedIn
        BY <1>1, <1>5, <2>4 DEF StoreSession
      <3>2. loggedIn \in [Users -> Passwords \cup {NoPassword}]
        BY DEF Shape
      <3> QED
        BY ONLY <2>5, <3>1, <3>2
    <2> QED
      BY <1>1, <1>2, <2>1, <2>2, <2>3, <2>4, <2>5, <2>6 DEF UsersEffect
  <1> QED
    BY <1>3, <1>4, <1>5

LEMMA ProceedUsers ==
    ASSUME Shape, Placed, NEW w \in Workers, ~Idle(w), Proceed(w)
    PROVE  UsersEffect(w)
  <1>1. req[w] \in RequestRecord /\ InPlace(req[w], DOMAIN users)
    BY RequestIs DEF Placed
  <1>2. CASE InsertUser(w)
    BY <1>1, <1>2, InsertUserEffect DEF InPlace, InsertUser
  <1>3. CASE UpdateUser(w)
    BY <1>1, <1>3, UpdateUserEffect
  <1>4. CASE Revoke(w) \/ SetPassword(w) \/ StoreSession(w)
    BY <1>1, <1>4, SessionStatementsEffect
  <1>5. CASE ~(\/ InsertUser(w) \/ UpdateUser(w) \/ Revoke(w) \/ SetPassword(w)
               \/ StoreSession(w))
    <2>1. /\ users' = users /\ loggedIn' = loggedIn /\ unrevoked' = unrevoked
          /\ req[w].at # "revoke"
      BY <1>5 DEF Proceed, RefreshProfile, InsertCode, InsertGrants, DeleteGrants,
             StartDeleteLinks, DeleteLinks, InsertLinks, StartDeleteScopes, DeleteScopes,
             Commit, ReadRoles, ReadGrants, ReadScopes, Answer, Waiting, Reading, history
    <2> QED
      BY <2>1, SameUsersEffect
  <1> QED
    BY <1>2, <1>3, <1>4, <1>5

----------------------------------------------------------------------------
(* The rows and requests keep their shape.                                 *)

LEMMA CommitTypes ==
    ASSUME Shape, NEW w \in Workers, req[w] \in RequestRecord, req[w].user \in Users,
           Commit(w)
    PROVE  /\ links' \subseteq LinkRow /\ scopes' \subseteq ScopeRow
           /\ asked' \in [Users -> [roles : SUBSET Roles, scopes : SUBSET Scopes]]
  <1>1. PICK r : r = req[w]
    OBVIOUS
  <1>2. /\ r.delLinks \subseteq LinkRow /\ r.newLinks \subseteq LinkRow
        /\ r.roles \subseteq Roles /\ r.scopes \subseteq Scopes /\ r.n \in 0..MaxRequests
    BY <1>1 DEF RequestRecord
  <1>3. links' \subseteq LinkRow
    BY <1>1, <1>2 DEF Commit, Shape
  <1>4. NewScopes(w) \subseteq ScopeRow
    BY <1>1, <1>2 DEF NewScopes, Scope, ScopeRow
  <1>5. scopes' \subseteq ScopeRow
    BY <1>4 DEF Commit, Shape
  <1>6. PICK u : u = r.user
    OBVIOUS
  <1>7. PICK rs : rs = IF r.op = "setUserRoles" THEN r.roles ELSE asked[u].roles
    OBVIOUS
  <1>8. PICK ss : ss = IF r.op = "setUserScopes" \/ r.scopes # {}
                       THEN r.scopes ELSE asked[u].scopes
    OBVIOUS
  <1>9. PICK as : as = asked
    OBVIOUS
  <1>10. as \in [Users -> [roles : SUBSET Roles, scopes : SUBSET Scopes]] /\ u \in Users
    BY <1>1, <1>6, <1>9 DEF Shape
  <1>11. rs \subseteq Roles /\ ss \subseteq Scopes
    BY <1>2, <1>7, <1>8, <1>9, <1>10
  <1>12. asked' = [as EXCEPT ![u].roles = rs, ![u].scopes = ss]
    BY <1>1, <1>6, <1>7, <1>8, <1>9 DEF Commit, Committed
  <1>13. asked' \in [Users -> [roles : SUBSET Roles, scopes : SUBSET Scopes]]
    BY ONLY <1>10, <1>11, <1>12
  <1> QED
    BY <1>3, <1>5, <1>13

LEMMA TablesKeepShape ==
    ASSUME Shape, Placed, NEW w \in Workers, ~Idle(w), Proceed(w)
    PROVE  /\ links' \subseteq LinkRow /\ scopes' \subseteq ScopeRow /\ grants' \subseteq Grant
           /\ codes' \subseteq Roles \cup Permissions
           /\ asked' \in [Users -> [roles : SUBSET Roles, scopes : SUBSET Scopes]]
           /\ loggedIn' \in [Users -> Passwords \cup {NoPassword}]
  <1>1. req[w] \in RequestRecord /\ InPlace(req[w], DOMAIN users)
    BY RequestIs DEF Placed
  <1>2. CASE Commit(w)
    <2>1. req[w].user \in Users
      BY <1>1, <1>2, UserTypes DEF Shape, Commit, InPlace, Replacing
    <2> QED
      BY <1>1, <1>2, <2>1, CommitTypes DEF Commit, Shape
  <1>3. CASE InsertCode(w)
    BY <1>1, <1>3 DEF InsertCode, InPlace, Shape, rights, history
  <1>4. CASE InsertGrants(w) \/ DeleteGrants(w)
    <2>1. req[w].grants \subseteq Grant
      BY <1>1 DEF RequestRecord
    <2> QED
      BY <2>1, <1>4 DEF InsertGrants, DeleteGrants, Shape, history
  <1>6. CASE StoreSession(w)
    <2>1. req[w].password \in Passwords \cup {NoPassword}
      BY <1>1 DEF RequestRecord
    <2> QED
      BY <1>6, <2>1 DEF StoreSession, OthersKept, rights, Shape
  <1>5. CASE ~(\/ Commit(w) \/ InsertCode(w) \/ InsertGrants(w) \/ DeleteGrants(w)
               \/ StoreSession(w))
    BY <1>5 DEF Proceed, InsertUser, UpdateUser, Revoke, SetPassword, RefreshProfile,
           StartDeleteLinks, DeleteLinks, InsertLinks, StartDeleteScopes,
           DeleteScopes, ReadRoles, ReadGrants, ReadScopes, Answer, Waiting, Reading,
           OthersKept, rights, history, Shape
  <1> QED
    BY <1>2, <1>3, <1>4, <1>5, <1>6

LEMMA RequestsKeepShape ==
    ASSUME Shape, NEW w \in Workers, OnlyChanges(w),
           req'[w] \in RequestRecord \cup {NoRequest}
    PROVE  req' \in [Workers -> RequestRecord \cup {NoRequest}]
  BY DEF Shape, OnlyChanges

LEMMA PlacedStays ==
    ASSUME Shape, Placed, NEW w \in Workers, OnlyChanges(w), DOMAIN users \subseteq DOMAIN users',
           req'[w] = NoRequest \/ InPlace(req'[w], DOMAIN users)
    PROVE  Placed'
  <1>1. \A r : InPlace(r, DOMAIN users) => InPlace(r, DOMAIN users')
    BY DEF InPlace
  <1> SUFFICES ASSUME NEW v \in Workers, ~Idle(v)' PROVE InPlace(req'[v], DOMAIN users')
    BY DEF Placed
  <1>2. CASE v = w
    BY <1>1, <1>2 DEF Idle, NoRequest
  <1>3. CASE v # w
    <2>1. req'[v] = req[v]
      BY <1>3 DEF OnlyChanges
    <2> QED
      BY <1>1, <2>1 DEF Placed, Idle
  <1> QED
    BY <1>2, <1>3

LEMMA ProceedIsBusy ==
    ASSUME NEW w, Proceed(w)
    PROVE  ~Idle(w)
  BY DEF Proceed, Idle, InsertUser, UpdateUser, Revoke, SetPassword, RefreshProfile, StoreSession,
         InsertCode, InsertGrants, DeleteGrants, StartDeleteLinks, DeleteLinks, InsertLinks,
         StartDeleteScopes, DeleteScopes, Commit, ReadRoles, ReadGrants, ReadScopes, Answer,
         Waiting, Reading

LEMMA AbandonIs ==
    ASSUME Shape, NEW w \in Workers, Abandon(w)
    PROVE  /\ Advances(w) /\ req'[w] = NoRequest /\ ~Idle(w)
           /\ users' = users /\ links' = links /\ scopes' = scopes /\ grants' = grants
           /\ codes' = codes /\ asked' = asked
           /\ loggedIn' = loggedIn /\ unrevoked' = unrevoked
           /\ req[w].at = "revoke" => req[w].user \in disturbed'
  <1>1. End(w) /\ begun' = begun /\ contended' = contended /\ disturbed \subseteq disturbed'
    BY DEF Abandon
  <1>2. Advances(w) /\ req'[w] = NoRequest
    BY <1>1, EndAdvances
  <1> QED
    BY <1>2 DEF Abandon, rights

LEMMA ShapeStays ==
    ASSUME Shape, Placed, NEW w \in Workers, Begin(w) \/ Proceed(w) \/ Abandon(w)
    PROVE  Shape' /\ Placed'
  <1>1. CASE Begin(w)
    <2>1. PICK r : Open(w, r) /\ Opened(r)
      BY <1>1, BeginOpens
    <2>2. r \in RequestRecord /\ InPlace(r, DOMAIN users)
      BY <2>1 DEF Opened
    <2>3. /\ OnlyChanges(w) /\ req'[w] = r /\ begun' \in 0..MaxRequests
          /\ users' = users /\ links' = links /\ scopes' = scopes /\ grants' = grants
          /\ codes' = codes /\ asked' = asked /\ loggedIn' = loggedIn
      BY <2>1, <2>2, OpenIs
    <2>4. req' \in [Workers -> RequestRecord \cup {NoRequest}]
      BY <2>2, <2>3, RequestsKeepShape
    <2>5. Placed'
      BY <2>2, <2>3, PlacedStays
    <2> QED
      BY <2>3, <2>4, <2>5 DEF Shape
  <1>2. CASE Proceed(w)
    <2>1. ~Idle(w)
      BY <1>2, ProceedIsBusy
    <2>2. Advances(w)
      BY <1>2, <2>1, ProceedAdvances
    <2>3. users' \in UserTables /\ DOMAIN users \subseteq DOMAIN users'
      BY <1>2, <2>1, ProceedUsers DEF UsersEffect
    <2>4. req' \in [Workers -> RequestRecord \cup {NoRequest}]
      BY <2>2, RequestsKeepShape DEF Advances
    <2>5. Placed'
      BY <2>2, <2>3, PlacedStays DEF Advances
    <2> QED
      BY <1>2, <2>1, <2>2, <2>3, <2>4, <2>5, TablesKeepShape DEF Shape, Advances
  <1>3. CASE Abandon(w)
    <2>1. /\ Advances(w) /\ req'[w] = NoRequest
          /\ users' = users /\ links' = links /\ scopes' = scopes /\ grants' = grants
          /\ codes' = codes /\ asked' = asked /\ loggedIn' = loggedIn
      BY <1>3, AbandonIs
    <2>2. req' \in [Workers -> RequestRecord \cup {NoRequest}]
      BY <2>1, RequestsKeepShape DEF Advances
    <2>3. Placed'
      BY <2>1, PlacedStays DEF Advances
    <2> QED
      BY <2>1, <2>2, <2>3 DEF Shape, Advances
  <1> QED
    BY <1>1, <1>2, <1>3

----------------------------------------------------------------------------
(* Sessions.  Who logs in while nothing was revoked meanwhile still has    *)
(* the password he brought; who continues a session, the one of the last   *)
(* login; and when it comes to storing the session, he is active.          *)

SignInsApart ==
    \A v, x \in Workers :
        /\ ~Idle(v) /\ req[v].op \in SignsIn
        /\ ~Idle(x) /\ req[x].op \in Revokes /\ req[x].user = req[v].user
        => req[v].user \in disturbed

Proven(v) == IF req[v].op = "login" THEN req[v].password ELSE loggedIn[req[v].user]

WellSignedIn ==
    \A v \in Workers :
        ~Idle(v) /\ req[v].at \in {"profile", "store"} /\ req[v].user \notin disturbed =>
          /\ Proven(v) = users[req[v].user].password
          /\ req[v].at = "store" => users[req[v].user].status = Active

SessionsInv == Shape /\ Placed /\ SignInsApart /\ WellSignedIn /\ SessionsAreCurrent

LEMMA OpenSessions ==
    ASSUME SessionsInv, NEW w \in Workers, NEW r, Open(w, r), Opened(r)
    PROVE  (SignInsApart /\ WellSignedIn /\ SessionsAreCurrent)'
  <1>0. Shape
    BY DEF SessionsInv
  <1>1. r \in RequestRecord /\ InPlace(r, DOMAIN users)
    BY DEF Opened
  <1>2. /\ OnlyChanges(w) /\ req'[w] = r /\ users' = users /\ disturbed \subseteq disturbed'
        /\ loggedIn' = loggedIn /\ unrevoked' = unrevoked /\ Idle(w)
    BY <1>0, <1>1, OpenIs
  <1>3. \A v \in Workers \ {w} : req'[v] = req[v] /\ (Idle(v)' <=> Idle(v))
    BY <1>2 DEF OnlyChanges, Idle
  <1>4. SignInsApart'
    <2> SUFFICES ASSUME NEW v \in Workers, NEW x \in Workers,
                        ~Idle(v)', req'[v].op \in SignsIn, ~Idle(x)', req'[x].op \in Revokes,
                        req'[x].user = req'[v].user
                 PROVE  req'[v].user \in disturbed'
      BY DEF SignInsApart
    <2>1. v # x
      BY DEF SignsIn, Revokes
    <2>2. CASE v # w /\ x # w
      BY <1>2, <1>3, <2>2 DEF SessionsInv, SignInsApart
    <2>3. CASE v = w
      <3>1. x \in Others(w) /\ req[x].op \in Revokes /\ req[x].user = r.user
        BY <1>2, <1>3, <2>1, <2>3 DEF Others
      <3> QED
        BY <1>2, <2>3, <3>1 DEF Open, Meets
    <2>4. CASE x = w
      <3>1. v \in Others(w) /\ req[v].op \in SignsIn /\ req[v].user = r.user
        BY <1>2, <1>3, <2>1, <2>4 DEF Others
      <3> QED
        BY <1>2, <2>1, <1>3, <2>4, <3>1 DEF Open, Meets
    <2> QED
      BY <2>2, <2>3, <2>4
  <1>5. WellSignedIn'
    <2> SUFFICES ASSUME NEW v \in Workers, ~Idle(v)', req'[v].at \in {"profile", "store"},
                        req'[v].user \notin disturbed'
                 PROVE  /\ Proven(v)' = users[req'[v].user].password
                        /\ req'[v].at = "store" => users[req'[v].user].status = Active
      BY <1>2 DEF WellSignedIn
    <2>1. CASE v # w
      BY <1>2, <1>3, <2>1 DEF SessionsInv, WellSignedIn, Proven
    <2>2. CASE v = w
      <3>1. r.user \in DOMAIN users \ disturbed
        BY <1>1, <1>2, <2>2 DEF InPlace
      <3> QED
        BY <1>2, <2>2, <3>1 DEF Opened, SessionsInv, SessionsAreCurrent, Proven
    <2> QED
      BY <2>1, <2>2
  <1>6. SessionsAreCurrent'
    <2> SUFFICES ASSUME NEW u \in DOMAIN users, u \notin disturbed', users[u].session # NoSession
                 PROVE  /\ loggedIn[u] = users[u].password
                        /\ \/ users[u].status = Active
                           \/ u \in unrevoked
                           \/ \E v \in Workers : req'[v].at = "revoke" /\ req'[v].user = u
      BY <1>2 DEF SessionsAreCurrent
    <2>1. /\ loggedIn[u] = users[u].password
          /\ \/ users[u].status = Active
             \/ u \in unrevoked
             \/ \E v \in Workers : req[v].at = "revoke" /\ req[v].user = u
      BY <1>2 DEF SessionsInv, SessionsAreCurrent
    <2>2. \A v \in Workers : req[v].at = "revoke" => v # w
      BY <1>2 DEF Idle
    <2> QED
      BY <1>3, <2>1, <2>2
  <1> QED
    BY <1>4, <1>5, <1>6

(* No sign-in changes, but to be stored when the user is active.           *)
SignInGoesOn(w) ==
    req'[w] # NoRequest /\ req'[w].at \in {"profile", "store"} =>
      /\ req[w].at = "profile" /\ users' = users
      /\ users[req[w].user].status = Active

LEMMA ProceedSignsIn ==
    ASSUME Shape, Placed, NEW w \in Workers, ~Idle(w), Proceed(w)
    PROVE  SignInGoesOn(w)
  <1>1. req[w] \in RequestRecord /\ InPlace(req[w], DOMAIN users)
    BY RequestIs DEF Placed
  <1>2. CASE RefreshProfile(w)
    BY <1>2, EndIs DEF RefreshProfile, SignInGoesOn
  <1>3. CASE End(w)
    BY <1>3, EndIs DEF SignInGoesOn
  <1>4. CASE UpdateUser(w) /\ ~End(w)
    <2>1. Move(w, "revoke")
      BY <1>4 DEF UpdateUser
    <2>2. "revoke" \in Places
      BY DEF Places
    <2>3. req'[w].at = "revoke"
      BY <1>1, <2>1, <2>2, MoveIs
    <2> QED
      BY <2>3 DEF SignInGoesOn
  <1>5. CASE InsertLinks(w) /\ ~End(w)
    <2>1. ~Duplicates(w, links)
      BY <1>5 DEF InsertLinks
    <2>2. req[w].user \in Users
      BY <1>1, <1>5, UserTypes DEF InPlace, Replacing, Shape, InsertLinks
    <2>3. req'[w].at = AfterLinks(w)
      BY <1>1, <1>5, <2>1, <2>2, InsertLinksIs
    <2> QED
      BY <2>3 DEF SignInGoesOn, AfterLinks
  <1>6. CASE \/ StartDeleteLinks(w) \/ DeleteLinks(w) \/ StartDeleteScopes(w) \/ DeleteScopes(w)
             \/ ReadRoles(w) \/ ReadGrants(w) \/ ReadScopes(w)
    <2>1. req'[w].at \in {"deleteLinks", "insertLinks", "deleteScopes", "commit",
                          "readGrants", "readScopes", "guard"}
      BY <1>1, <1>6, StartDeleteLinksIs, DeleteLinksIs, StartDeleteScopesIs, DeleteScopesIs,
         ReadRolesIs, ReadGrantsIs, ReadScopesIs
    <2> QED
      BY <2>1 DEF SignInGoesOn
  <1> QED
    BY <1>2, <1>3, <1>4, <1>5, <1>6
       DEF Proceed, InsertUser, Revoke, SetPassword, StoreSession, InsertCode, InsertGrants,
           DeleteGrants, Commit, Answer

LEMMA StepSessions ==
    ASSUME SessionsInv, NEW w \in Workers, ~Idle(w), Advances(w), UsersEffect(w),
           SignInGoesOn(w)
    PROVE  (SignInsApart /\ WellSignedIn /\ SessionsAreCurrent)'
  <1>0. Shape /\ Placed /\ SignInsApart /\ WellSignedIn /\ SessionsAreCurrent
    BY DEF SessionsInv
  <1>1. /\ OnlyChanges(w) /\ disturbed \subseteq disturbed'
        /\ \/ req'[w] = NoRequest
           \/ req'[w] \in RequestRecord /\ Brought(req'[w], req[w])
    BY DEF Advances
  <1>2. \A v \in Workers \ {w} : req'[v] = req[v] /\ (Idle(v)' <=> Idle(v))
    BY <1>1 DEF OnlyChanges, Idle
  <1>3. ~Idle(w)' => Brought(req'[w], req[w])
    BY <1>1 DEF Idle, NoRequest
  <1>4. \A v \in Workers : ~Idle(v)' => ~Idle(v) /\ Brought(req'[v], req[v])
    BY <1>2, <1>3 DEF Brought
  <1>5. SignInsApart'
    BY <1>0, <1>1, <1>4 DEF SignInsApart, Brought
  <1>6. \A u \in DOMAIN users \ disturbed :
          /\ u \in Users
          /\ loggedIn[u] = users[u].password => loggedIn'[u] = users[u].password
    <2> SUFFICES ASSUME NEW u \in DOMAIN users, u \notin disturbed, u \in Users,
                        loggedIn[u] = users[u].password
                 PROVE  loggedIn'[u] = users[u].password
      BY <1>0, UserTypes DEF Shape
    <2>1. CASE loggedIn'[u] = loggedIn[u]
      BY <2>1
    <2>2. CASE /\ req[w].at = "store" /\ req[w].op = "login" /\ req[w].user = u
               /\ loggedIn'[u] = req[w].password
      BY <1>0, <2>2 DEF WellSignedIn, Proven
    <2> QED
      BY <2>1, <2>2 DEF UsersEffect
  <1>7. WellSignedIn'
    <2> SUFFICES ASSUME NEW v \in Workers, ~Idle(v)', req'[v].at \in {"profile", "store"},
                        req'[v].user \notin disturbed'
                 PROVE  /\ Proven(v)' = users'[req'[v].user].password
                        /\ req'[v].at = "store" => users'[req'[v].user].status = Active
      BY DEF WellSignedIn
    <2>1. PICK u : u = req[v].user
      OBVIOUS
    <2>2. /\ ~Idle(v) /\ req'[v].user = u /\ req'[v].password = req[v].password
          /\ req'[v].op = req[v].op /\ u \notin disturbed /\ u \notin disturbed'
      BY <1>1, <1>4, <2>1 DEF Brought
    <2>3. /\ req[v].at \in {"profile", "store"}
          /\ \/ users'[u].password = users[u].password /\ users'[u].status = users[u].status
             \/ users' = users
          /\ req'[v].at = "store" => req[v].at = "store" \/ users[u].status = Active
      <3>1. CASE v = w
        BY <2>1, <3>1 DEF SignInGoesOn, NoRequest, Idle
      <3>2. CASE v # w
        <4>1. req'[v] = req[v]
          BY <1>2, <3>2
        <4>2. u \in DOMAIN users /\ req[v].op \in SignsIn
          BY <1>0, <2>1, <2>2, <4>1 DEF Placed, InPlace
        <4>3. ~(u = req[w].user /\ req[w].op \in Revokes)
          BY <1>0, <2>1, <2>2, <4>2 DEF SignInsApart
        <4> QED
          BY <4>1, <4>2, <4>3 DEF UsersEffect
      <3> QED
        BY <3>1, <3>2
    <2>4. u \in DOMAIN users
      BY <1>0, <2>1, <2>2, <2>3 DEF Placed, InPlace
    <2>5. Proven(v) = users[u].password /\ (req[v].at = "store" => users[u].status = Active)
      BY <1>0, <2>1, <2>2, <2>3 DEF WellSignedIn
    <2>6. Proven(v)' = users[u].password
      BY <1>6, <2>1, <2>2, <2>4, <2>5 DEF Proven
    <2> QED
      BY <2>2, <2>3, <2>5, <2>6
  <1>8. SessionsAreCurrent'
    <2> SUFFICES ASSUME NEW u \in DOMAIN users', u \notin disturbed',
                        users'[u].session # NoSession
                 PROVE  /\ loggedIn'[u] = users'[u].password
                        /\ \/ users'[u].status = Active
                           \/ u \in unrevoked'
                           \/ \E v \in Workers : req'[v].at = "revoke" /\ req'[v].user = u
      BY DEF SessionsAreCurrent
    <2>1. u \in DOMAIN users /\ u \notin disturbed
      BY <1>1 DEF UsersEffect
    <2>2. users'[u].password = users[u].password
      BY <2>1 DEF UsersEffect
    <2>3. ~(req[w].at = "revoke" /\ req[w].user = u)
      BY <2>1 DEF UsersEffect
    <2>4. CASE /\ users'[u].session = users[u].session
               /\ \/ /\ users'[u].status = users[u].status
                     /\ u \in unrevoked => u \in unrevoked'
                  \/ users'[u].status = Active
                  \/ u \in unrevoked'
                  \/ req'[w].at = "revoke" /\ req'[w].user = u
      <3>1. /\ loggedIn[u] = users[u].password
            /\ \/ users[u].status = Active
               \/ u \in unrevoked
               \/ \E v \in Workers : req[v].at = "revoke" /\ req[v].user = u
        BY <1>0, <2>1, <2>4 DEF SessionsAreCurrent
      <3>2. \A v \in Workers : req[v].at = "revoke" /\ req[v].user = u => req'[v] = req[v]
        BY <1>2, <2>3
      <3> QED
        BY <1>6, <2>1, <2>2, <2>4, <3>1, <3>2
    <2>5. CASE /\ req[w].at = "store" /\ req[w].user = u
               /\ users'[u].status = users[u].status
               /\ req[w].op = "login" => loggedIn'[u] = req[w].password
      <3>1. Proven(w) = users[u].password /\ users[u].status = Active
        BY <1>0, <2>1, <2>5 DEF WellSignedIn
      <3> QED
        BY <1>6, <2>1, <2>2, <2>5, <3>1 DEF Proven
    <2> QED
      BY <2>1, <2>4, <2>5 DEF UsersEffect
  <1> QED
    BY <1>5, <1>7, <1>8

LEMMA SessionsInit ==
    ASSUME AccountsInit
    PROVE  SessionsInv
  <1>1. PICK row : row = NewUser(FirstUser.name, FirstUser.password)
    OBVIOUS
  <1>2. row \in UserRow /\ row.session = NoSession
    BY <1>1, AccountsAssumption DEF NewUser, UserRow, Status
  <1>3. users = [u \in {FirstUser.id} |-> row] /\ FirstUser.id \in Users
    BY <1>1, AccountsAssumption DEF AccountsInit
  <1>4. users \in [{FirstUser.id} -> UserRow] /\ {FirstUser.id} \in SUBSET Users
    BY <1>2, <1>3
  <1>5. users \in UserTables
    BY <1>4 DEF UserTables
  <1>6. links \subseteq LinkRow /\ scopes \subseteq ScopeRow
    BY AccountsAssumption DEF AccountsInit, Link, Scope, LinkRow, ScopeRow
  <1>7. asked \in [Users -> [roles : SUBSET Roles, scopes : SUBSET Scopes]]
    BY AccountsAssumption DEF AccountsInit
  <1>8. /\ grants \subseteq Grant /\ codes \subseteq Roles \cup Permissions
        /\ loggedIn \in [Users -> Passwords \cup {NoPassword}]
    BY AccountsAssumption DEF AccountsInit, Grant
  <1>9. req = [v \in Workers |-> NoRequest] /\ begun \in 0..MaxRequests
    BY AccountsAssumption DEF AccountsInit
  <1>10. Shape
    BY <1>5, <1>6, <1>7, <1>8, <1>9 DEF Shape
  <1>11. \A v \in Workers : Idle(v)
    BY <1>9 DEF Idle, NoRequest
  <1> QED
    BY <1>2, <1>3, <1>10, <1>11
       DEF SessionsInv, Placed, SignInsApart, WellSignedIn, SessionsAreCurrent

LEMMA SessionsStep ==
    ASSUME SessionsInv, NEW w \in Workers, Begin(w) \/ Proceed(w) \/ Abandon(w)
    PROVE  SessionsInv'
  <1>1. Shape /\ Placed
    BY DEF SessionsInv
  <1>2. Shape' /\ Placed'
    BY <1>1, ShapeStays
  <1>3. CASE Begin(w)
    <2>1. PICK r : Open(w, r) /\ Opened(r)
      BY <1>1, <1>3, BeginOpens
    <2> QED
      BY <1>2, <2>1, OpenSessions DEF SessionsInv
  <1>4. CASE Proceed(w)
    <2>1. ~Idle(w)
      BY <1>4, ProceedIsBusy
    <2>2. Advances(w) /\ UsersEffect(w) /\ SignInGoesOn(w)
      BY <1>1, <1>4, <2>1, ProceedAdvances, ProceedUsers, ProceedSignsIn
    <2> QED
      BY <1>2, <2>1, <2>2, StepSessions DEF SessionsInv
  <1>5. CASE Abandon(w)
    <2>1. /\ Advances(w) /\ req'[w] = NoRequest /\ ~Idle(w) /\ users' = users
          /\ loggedIn' = loggedIn /\ unrevoked' = unrevoked
          /\ req[w].at = "revoke" => req[w].user \in disturbed'
      BY <1>1, <1>5, AbandonIs
    <2>2. UsersEffect(w)
      BY <1>1, <2>1, SameUsersEffect
    <2>3. SignInGoesOn(w)
      BY <2>1 DEF SignInGoesOn
    <2> QED
      BY <1>2, <2>1, <2>2, <2>3, StepSessions DEF SessionsInv
  <1> QED
    BY <1>3, <1>4, <1>5

LEMMA SessionsNext ==
    ASSUME SessionsInv, [AccountsNext]_vars
    PROVE  SessionsInv'
  <1>1. CASE AccountsNext
    BY <1>1, SessionsStep DEF AccountsNext
  <1>2. CASE UNCHANGED vars
    BY <1>2 DEF vars, SessionsInv, Shape, Placed, SignInsApart, WellSignedIn,
                Proven, SessionsAreCurrent, Idle, InPlace
  <1> QED
    BY <1>1, <1>2

(* Whenever a user's session can be continued, somebody has logged in with *)
(* the present password, and the user is active, or about to have the      *)
(* session revoked, or deactivated by a status in text: login and refresh, *)
(* with whichever token, against updateUser, setStatus, setPassword and    *)
(* logout, for any number of requests in flight.                           *)
THEOREM SessionsStayCurrent == AccountsSpec => []SessionsAreCurrent
  <1>1. AccountsInit => SessionsInv
    BY SessionsInit
  <1>2. SessionsInv /\ [AccountsNext]_vars => SessionsInv'
    BY SessionsNext
  <1>3. SessionsInv => SessionsAreCurrent
    BY DEF SessionsInv
  <1> QED
    BY <1>1, <1>2, <1>3, PTL DEF AccountsSpec

----------------------------------------------------------------------------
(* Roles.  What the transaction of a replacement works on, and that the    *)
(* rows of a user are what was last asked for when nobody else replaces.   *)

LinksOf(u) == {k \in links : k.user = u}
RowsFor(r) == {Link(r.user, c, r.n) : c \in r.roles}
Inserted == {"scopes", "deleteScopes", "commit"}

Transacts(r) ==
    /\ \A l \in r.delLinks \cup r.newLinks : l.user = r.user
    /\ r.at = "deleteLinks" => \A l \in r.found : l.user = r.user
    /\ r.at \notin Inserted => r.newLinks = {}
    /\ r.at \notin Inserted \cup {"insertLinks"} => r.delLinks = {}
    /\ r.at \in Inserted /\ r.op = "setUserRoles" => r.newLinks = RowsFor(r)
    /\ r.op # "setUserRoles" => r.newLinks = {} /\ r.delLinks = {}

HoldsOld(r) ==
    /\ r.at = "deleteLinks" => r.found = LinksOf(r.user)
    /\ r.at \in Inserted \cup {"insertLinks"} /\ r.op = "setUserRoles" =>
         r.delLinks = LinksOf(r.user)

Transacting == \A v \in Workers : ~Idle(v) => Transacts(req[v])

OneReplacer ==
    \A v, x \in Workers :
        /\ v # x /\ ~Idle(v) /\ ~Idle(x) /\ req[v].user = req[x].user
        /\ req[v].op \in Replaces /\ req[x].op \in Replaces
        => req[v].user \in contended

OldHeld == \A v \in Workers :
    ~Idle(v) /\ req[v].user \notin contended => HoldsOld(req[v])

LinksAsked == \A u \in Users \ contended : RolesOf(u) = asked[u].roles

LEMMA OpenedTransacts ==
    ASSUME NEW r, Opened(r)
    PROVE  Transacts(r) /\ HoldsOld(r)
  BY DEF Opened, Transacts, HoldsOld, Inserted

(* Where nothing of the transaction changes.                               *)
LEMMA SameTransacts ==
    ASSUME NEW r, NEW s, Brought(s, r), Transacts(r),
           s.delLinks = r.delLinks, s.newLinks = r.newLinks, s.at # "deleteLinks",
           r.at \notin Inserted \cup {"insertLinks"}, s.at \notin Inserted
    PROVE  Transacts(s)
  BY DEF Transacts, Brought, Inserted

LEMMA ProceedTransacts ==
    ASSUME Shape, Placed, NEW w \in Workers, ~Idle(w), Proceed(w), Transacts(req[w])
    PROVE  req'[w] = NoRequest \/ Transacts(req'[w])
  <1>1. req[w] \in RequestRecord /\ InPlace(req[w], DOMAIN users)
    BY RequestIs DEF Placed
  <1>2. PICK s : s = req'[w]
    OBVIOUS
  <1>3. PICK r : r = req[w]
    OBVIOUS
  <1>4. Transacts(r)
    BY <1>3
  <1>5. CASE End(w)
    BY <1>5, EndIs
  <1>6. CASE (UpdateUser(w) \/ RefreshProfile(w)) /\ ~End(w)
    <2>1. PICK step \in {"revoke", "store"} : Move(w, step)
      BY <1>6 DEF UpdateUser, RefreshProfile
    <2>2. r.at \in {"update", "profile"} /\ step \in Places
      BY <1>3, <1>6 DEF UpdateUser, RefreshProfile, Places
    <2>3. /\ Brought(s, r) /\ s.at = step
          /\ s.delLinks = r.delLinks /\ s.newLinks = r.newLinks
      BY <1>1, <1>2, <1>3, <2>1, <2>2, MoveIs
    <2> QED
      BY <1>2, <1>4, <2>1, <2>2, <2>3, SameTransacts DEF Inserted
  <1>7. CASE StartDeleteLinks(w)
    <2>1. /\ Brought(s, r) /\ s.at = "deleteLinks" /\ s.found = {k \in links : k.user = r.user}
          /\ s.delLinks = r.delLinks /\ s.newLinks = r.newLinks
      BY <1>1, <1>2, <1>3, <1>7, StartDeleteLinksIs
    <2>2. r.at = "links"
      BY <1>3, <1>7 DEF StartDeleteLinks, Waiting
    <2> QED
      BY <1>2, <1>4, <2>1, <2>2 DEF Transacts, Brought, Inserted
  <1>8. CASE DeleteLinks(w)
    <2>1. /\ Brought(s, r) /\ s.at = "insertLinks" /\ s.delLinks = r.found \cap links
          /\ s.newLinks = r.newLinks
      BY <1>1, <1>2, <1>3, <1>8, DeleteLinksIs
    <2>2. r.at = "deleteLinks" /\ r.op = "setUserRoles"
      BY <1>1, <1>3, <1>8 DEF DeleteLinks, InPlace
    <2> QED
      BY <1>2, <1>4, <2>1, <2>2 DEF Transacts, Brought, Inserted
  <1>9. CASE InsertLinks(w) /\ ~End(w)
    <2>1. ~Duplicates(w, links) /\ r.at = "insertLinks"
      BY <1>3, <1>9 DEF InsertLinks
    <2>2. req[w].user \in Users /\ r.op = "setUserRoles"
      BY <1>1, <1>3, <2>1, UserTypes DEF InPlace, Replacing, Shape
    <2>3. /\ Brought(s, r) /\ s.at = AfterLinks(w) /\ s.delLinks = r.delLinks
          /\ s.newLinks = RowsFor(r) /\ s.roles = r.roles
      BY <1>1, <1>2, <1>3, <1>9, <2>1, <2>2, InsertLinksIs DEF RowsFor
    <2>4. s.at \in {"scopes", "commit"}
      BY <2>3 DEF AfterLinks
    <2>5. RowsFor(s) = RowsFor(r)
      BY <2>3 DEF RowsFor, Brought
    <2>6. \A l \in s.newLinks : l.user = s.user
      BY <2>3 DEF RowsFor, Link, Brought
    <2> QED
      BY <1>2, <1>4, <2>1, <2>2, <2>3, <2>4, <2>5, <2>6 DEF Transacts, Brought, Inserted
  <1>10. CASE StartDeleteScopes(w) \/ DeleteScopes(w)
    <2>1. /\ Brought(s, r) /\ s.at \in {"deleteScopes", "commit"} /\ s.roles = r.roles
          /\ s.delLinks = r.delLinks /\ s.newLinks = r.newLinks
      BY <1>1, <1>2, <1>3, <1>10, StartDeleteScopesIs, DeleteScopesIs
    <2>2. r.at \in {"scopes", "deleteScopes"}
      BY <1>3, <1>10 DEF StartDeleteScopes, DeleteScopes, Waiting
    <2>3. RowsFor(s) = RowsFor(r)
      BY <2>1 DEF RowsFor, Brought
    <2> QED
      BY <1>2, <1>4, <2>1, <2>2, <2>3 DEF Transacts, Brought, Inserted
  <1>11. CASE ReadRoles(w) \/ ReadGrants(w) \/ ReadScopes(w)
    <2>1. /\ Brought(s, r) /\ s.at \in {"readGrants", "readScopes", "guard"}
          /\ s.delLinks = r.delLinks /\ s.newLinks = r.newLinks
      BY <1>1, <1>2, <1>3, <1>11, ReadRolesIs, ReadGrantsIs, ReadScopesIs
    <2>2. r.at \in {"readRoles", "readGrants", "readScopes"}
      BY <1>3, <1>11 DEF ReadRoles, ReadGrants, ReadScopes, Reading
    <2> QED
      BY <1>2, <1>4, <2>1, <2>2, SameTransacts DEF Inserted
  <1> QED
    BY <1>5, <1>6, <1>7, <1>8, <1>9, <1>10, <1>11
       DEF Proceed, InsertUser, Revoke, SetPassword, StoreSession, InsertCode, InsertGrants,
           DeleteGrants, Commit, Answer

LEMMA ProceedHoldsOld ==
    ASSUME Shape, Placed, NEW w \in Workers, ~Idle(w), Proceed(w), ~Commit(w),
           HoldsOld(req[w])
    PROVE  req'[w] = NoRequest \/ HoldsOld(req[w])'
  <1>1. req[w] \in RequestRecord /\ InPlace(req[w], DOMAIN users)
    BY RequestIs DEF Placed
  <1>2. PICK s : s = req'[w]
    OBVIOUS
  <1>3. PICK r : r = req[w]
    OBVIOUS
  <1>4. HoldsOld(r)
    BY <1>3
  <1>5. links' = links
    BY DEF Proceed, InsertUser, UpdateUser, Revoke, SetPassword, RefreshProfile, StoreSession,
           InsertCode, InsertGrants, DeleteGrants, StartDeleteLinks, DeleteLinks, InsertLinks,
           StartDeleteScopes, DeleteScopes, ReadRoles, ReadGrants, ReadScopes, Answer,
           Waiting, Reading, OthersKept, rights
  <1>6. SUFFICES ASSUME s # NoRequest PROVE HoldsOld(s)
    BY <1>2, <1>5 DEF HoldsOld, LinksOf
  <1>7. ~End(w)
    BY <1>2, <1>6, EndIs
  <1>8. CASE UpdateUser(w) \/ RefreshProfile(w)
    <2>1. PICK step \in {"revoke", "store"} : Move(w, step)
      BY <1>7, <1>8 DEF UpdateUser, RefreshProfile
    <2>2. step \in Places
      BY DEF Places
    <2>3. s.at = step
      BY <1>1, <1>2, <1>3, <2>1, <2>2, MoveIs
    <2> QED
      BY <2>3 DEF HoldsOld, Inserted
  <1>9. CASE StartDeleteLinks(w)
    <2>1. Brought(s, r) /\ s.at = "deleteLinks" /\ s.found = {k \in links : k.user = r.user}
      BY <1>1, <1>2, <1>3, <1>9, StartDeleteLinksIs
    <2> QED
      BY <2>1 DEF HoldsOld, Brought, Inserted, LinksOf
  <1>10. CASE DeleteLinks(w)
    <2>1. Brought(s, r) /\ s.at = "insertLinks" /\ s.delLinks = r.found \cap links
      BY <1>1, <1>2, <1>3, <1>10, DeleteLinksIs
    <2>2. r.at = "deleteLinks"
      BY <1>3, <1>10 DEF DeleteLinks
    <2>3. r.found \cap links = LinksOf(r.user)
      BY <1>4, <2>2 DEF HoldsOld, LinksOf
    <2> QED
      BY <2>1, <2>3 DEF HoldsOld, Brought, Inserted
  <1>11. CASE InsertLinks(w)
    <2>1. ~Duplicates(w, links) /\ r.at = "insertLinks"
      BY <1>3, <1>7, <1>11 DEF InsertLinks
    <2>2. req[w].user \in Users
      BY <1>1, <1>3, <2>1, UserTypes DEF InPlace, Replacing, Shape
    <2>3. Brought(s, r) /\ s.at = AfterLinks(w) /\ s.delLinks = r.delLinks
      BY <1>1, <1>2, <1>3, <1>11, <2>1, <2>2, InsertLinksIs
    <2>4. s.at # "deleteLinks"
      BY <2>3 DEF AfterLinks
    <2> QED
      BY <1>4, <2>1, <2>3, <2>4 DEF HoldsOld, Brought, Inserted
  <1>12. CASE StartDeleteScopes(w) \/ DeleteScopes(w)
    <2>1. /\ Brought(s, r) /\ s.at \in {"deleteScopes", "commit"}
          /\ s.delLinks = r.delLinks
      BY <1>1, <1>2, <1>3, <1>12, StartDeleteScopesIs, DeleteScopesIs
    <2>2. r.at \in {"scopes", "deleteScopes"}
      BY <1>3, <1>12 DEF StartDeleteScopes, DeleteScopes, Waiting
    <2> QED
      BY <1>4, <2>1, <2>2 DEF HoldsOld, Brought, Inserted
  <1>13. CASE ReadRoles(w) \/ ReadGrants(w) \/ ReadScopes(w)
    <2>1. s.at \in {"readGrants", "readScopes", "guard"}
      BY <1>1, <1>2, <1>3, <1>13, ReadRolesIs, ReadGrantsIs, ReadScopesIs
    <2> QED
      BY <2>1 DEF HoldsOld, Inserted
  <1> QED
    BY <1>7, <1>8, <1>9, <1>10, <1>11, <1>12, <1>13
       DEF Proceed, InsertUser, Revoke, SetPassword, StoreSession, InsertCode, InsertGrants,
           DeleteGrants, Answer

(* What a step does to the rows of roles, and to what was asked for.       *)
RolesEffect(w) ==
    \/ links' = links /\ \A u \in Users : asked'[u].roles = asked[u].roles
    \/ /\ req[w].at = "commit" /\ req[w].op = "setUserRoles"
       /\ links' = (links \ req[w].delLinks) \cup req[w].newLinks
       /\ \A u \in Users : asked'[u].roles = IF u = req[w].user THEN req[w].roles
                                             ELSE asked[u].roles

LEMMA CommitEffect ==
    ASSUME Shape, NEW w \in Workers, req[w].user \in Users, Transacts(req[w]), Commit(w)
    PROVE  RolesEffect(w)
  <1>1. PICK r : r = req[w]
    OBVIOUS
  <1>2. PICK u : u = r.user
    OBVIOUS
  <1>3. PICK as : as = asked
    OBVIOUS
  <1>4. PICK ss : ss = IF r.op = "setUserScopes" \/ r.scopes # {} THEN r.scopes ELSE as[u].scopes
    OBVIOUS
  <1>5. PICK rs : rs = IF r.op = "setUserRoles" THEN r.roles ELSE as[u].roles
    OBVIOUS
  <1>6. asked' = [as EXCEPT ![u].roles = rs, ![u].scopes = ss]
    BY <1>1, <1>2, <1>3, <1>4, <1>5 DEF Commit, Committed
  <1>7. as \in [Users -> [roles : SUBSET Roles, scopes : SUBSET Scopes]] /\ u \in Users
    BY <1>1, <1>2, <1>3 DEF Shape
  <1>8. \A x \in Users : asked'[x].roles = IF x = u THEN rs ELSE as[x].roles
    BY ONLY <1>6, <1>7
  <1>9. links' = (links \ r.delLinks) \cup r.newLinks /\ r.at = "commit"
    BY <1>1 DEF Commit
  <1>10. CASE r.op = "setUserRoles"
    BY <1>1, <1>2, <1>3, <1>5, <1>8, <1>9, <1>10 DEF RolesEffect
  <1>11. CASE r.op # "setUserRoles"
    <2>1. links' = links
      BY <1>1, <1>9, <1>11 DEF Transacts
    <2> QED
      BY <1>3, <1>5, <1>8, <1>11, <2>1 DEF RolesEffect
  <1> QED
    BY <1>10, <1>11

RightsInv ==
    /\ Shape /\ Placed /\ Transacting /\ OneReplacer /\ OldHeld /\ LinksAsked

LEMMA RightsOpen ==
    ASSUME RightsInv, NEW w \in Workers, NEW r, Open(w, r), Opened(r)
    PROVE  (Transacting /\ OneReplacer /\ OldHeld /\ LinksAsked)'
  <1>0. Shape /\ Transacting /\ OneReplacer /\ OldHeld /\ LinksAsked
    BY DEF RightsInv
  <1>1. r \in RequestRecord
    BY DEF Opened
  <1>2. /\ OnlyChanges(w) /\ req'[w] = r /\ links' = links /\ asked' = asked
        /\ contended \subseteq contended' /\ Idle(w)
    BY <1>0, <1>1, OpenIs
  <1>3. \A v \in Workers \ {w} : req'[v] = req[v] /\ (Idle(v)' <=> Idle(v))
    BY <1>2 DEF OnlyChanges, Idle
  <1>4. Transacts(r) /\ HoldsOld(r)
    BY OpenedTransacts
  <1>5. Transacting'
    BY <1>0, <1>2, <1>3, <1>4 DEF Transacting
  <1>6. OneReplacer'
    <2> SUFFICES ASSUME NEW v \in Workers, NEW x \in Workers, v # x, ~Idle(v)', ~Idle(x)',
                        req'[v].user = req'[x].user,
                        req'[v].op \in Replaces, req'[x].op \in Replaces
                 PROVE  req'[v].user \in contended'
      BY DEF OneReplacer
    <2>1. CASE v # w /\ x # w
      BY <1>0, <1>2, <1>3, <2>1 DEF OneReplacer
    <2>2. CASE v = w
      <3>1. x \in Others(w) /\ req[x].op \in Replaces /\ req[x].user = r.user
        BY <1>2, <1>3, <2>2 DEF Others
      <3> QED
        BY <1>2, <2>2, <3>1 DEF Open, Meets
    <2>3. CASE x = w
      <3>1. v \in Others(w) /\ req[v].op \in Replaces /\ req[v].user = r.user
        BY <1>2, <1>3, <2>3 DEF Others
      <3> QED
        BY <1>2, <1>3, <2>3, <3>1 DEF Open, Meets
    <2> QED
      BY <2>1, <2>2, <2>3
  <1>7. OldHeld'
    <2> SUFFICES ASSUME NEW v \in Workers, ~Idle(v)', req'[v].user \notin contended'
                 PROVE  HoldsOld(req[v])'
      BY DEF OldHeld
    <2>1. HoldsOld(req'[v])
      BY <1>0, <1>2, <1>3, <1>4 DEF OldHeld
    <2> QED
      BY <1>2, <2>1 DEF HoldsOld, LinksOf
  <1>8. LinksAsked'
    BY <1>0, <1>2 DEF LinksAsked, RolesOf
  <1> QED
    BY <1>5, <1>6, <1>7, <1>8

LEMMA RightsAdvance ==
    ASSUME RightsInv, NEW w \in Workers, ~Idle(w), Advances(w), RolesEffect(w),
           req'[w] = NoRequest \/ Transacts(req'[w]),
           req'[w] = NoRequest \/ (links' = links /\ (HoldsOld(req[w]) => HoldsOld(req[w])'))
    PROVE  (Transacting /\ OneReplacer /\ OldHeld /\ LinksAsked)'
  <1>0. Shape /\ Placed /\ Transacting /\ OneReplacer /\ OldHeld /\ LinksAsked
    BY DEF RightsInv
  <1>1. /\ OnlyChanges(w) /\ contended' = contended
        /\ \/ req'[w] = NoRequest
           \/ req'[w] \in RequestRecord /\ Brought(req'[w], req[w])
    BY DEF Advances
  <1>2. \A v \in Workers \ {w} : req'[v] = req[v] /\ (Idle(v)' <=> Idle(v))
    BY <1>1 DEF OnlyChanges, Idle
  <1>3. ~Idle(w)' => req'[w] # NoRequest /\ Brought(req'[w], req[w])
    BY <1>1 DEF Idle, NoRequest
  <1>4. \A v \in Workers : ~Idle(v)' => ~Idle(v) /\ Brought(req'[v], req[v])
    BY <1>2, <1>3 DEF Brought
  <1>5. Transacting'
    BY <1>0, <1>2, <1>3 DEF Transacting
  <1>6. OneReplacer'
    BY <1>0, <1>1, <1>4 DEF OneReplacer, Brought
  <1>7. PICK r : r = req[w]
    OBVIOUS
  <1>8. Transacts(r)
    BY <1>0, <1>7 DEF Transacting
  (* The rows of another user stay. *)
  <1>9. \A u : u # r.user => LinksOf(u)' = LinksOf(u)
    <2>1. CASE links' = links
      BY <2>1 DEF LinksOf
    <2>2. CASE links' = (links \ r.delLinks) \cup r.newLinks
      BY <1>8, <2>2 DEF LinksOf, Transacts
    <2> QED
      BY <1>7, <2>1, <2>2 DEF RolesEffect
  <1>10. OldHeld'
    <2> SUFFICES ASSUME NEW v \in Workers, ~Idle(v)', req'[v].user \notin contended'
                 PROVE  HoldsOld(req[v])'
      BY DEF OldHeld
    <2>1. CASE v = w
      BY <1>0, <1>1, <1>3, <2>1 DEF OldHeld, Brought
    <2>2. CASE v # w
      <3>1. req'[v] = req[v] /\ HoldsOld(req[v]) /\ ~Idle(v) /\ req[v].user \notin contended
        BY <1>0, <1>1, <1>2, <2>2 DEF OldHeld
      <3>2. CASE links' = links
        BY <3>1, <3>2 DEF HoldsOld, LinksOf
      <3>3. CASE links' # links
        <4>1. req[w].op = "setUserRoles"
          BY <3>3 DEF RolesEffect
        <4>2. CASE req[v].op \in Replaces
          <5>1. req[v].user # r.user
            BY <1>0, <1>7, <2>2, <3>1, <4>1, <4>2 DEF OneReplacer, Replaces
          <5>2. LinksOf(req[v].user)' = LinksOf(req[v].user)
            BY <1>9, <3>1, <5>1
          <5> QED
            BY <3>1, <5>2 DEF HoldsOld
        <4>3. CASE req[v].op \notin Replaces
          <5>1. req[v].at \notin Replacing
            BY <1>0, <3>1, <4>3 DEF Placed, InPlace
          <5> QED
            BY <3>1, <5>1 DEF HoldsOld, Replacing, Inserted
        <4> QED
          BY <4>2, <4>3
      <3> QED
        BY <3>2, <3>3
    <2> QED
      BY <2>1, <2>2
  <1>11. LinksAsked'
    <2> SUFFICES ASSUME NEW u \in Users, u \notin contended
                 PROVE  RolesOf(u)' = asked'[u].roles
      BY <1>1 DEF LinksAsked
    <2>1. RolesOf(u) = asked[u].roles
      BY <1>0 DEF LinksAsked
    <2>2. CASE links' = links /\ \A x \in Users : asked'[x].roles = asked[x].roles
      BY <2>1, <2>2 DEF RolesOf
    <2>3. CASE /\ r.at = "commit" /\ r.op = "setUserRoles"
               /\ links' = (links \ r.delLinks) \cup r.newLinks
               /\ \A x \in Users : asked'[x].roles = IF x = r.user THEN r.roles
                                                     ELSE asked[x].roles
      <3>1. CASE u # r.user
        <4>1. LinksOf(u)' = LinksOf(u)
          BY <1>9, <3>1
        <4> QED
          BY <2>1, <2>3, <3>1, <4>1 DEF RolesOf, LinksOf
      <3>2. CASE u = r.user
        <4>1. r.newLinks = RowsFor(r)
          BY <1>8, <2>3 DEF Transacts, Inserted
        <4>2. r.delLinks = LinksOf(u)
          BY <1>0, <1>7, <2>3, <3>2 DEF OldHeld, HoldsOld, Inserted
        <4>3. {k \in links' : k.user = u} = RowsFor(r)
          BY <2>3, <3>2, <4>1, <4>2 DEF LinksOf, RowsFor, Link
        <4>4. {l.role : l \in RowsFor(r)} = r.roles
          <5>1. \A l \in RowsFor(r) : l.role \in r.roles
            BY DEF RowsFor, Link
          <5>2. \A c \in r.roles : \E l \in RowsFor(r) : l.role = c
            <6> TAKE c \in r.roles
            <6>1. Link(r.user, c, r.n) \in RowsFor(r)
              BY DEF RowsFor
            <6>2. Link(r.user, c, r.n).role = c
              BY DEF Link
            <6> QED
              BY <6>1, <6>2
          <5> QED
            BY <5>1, <5>2
        <4> QED
          BY <2>3, <3>2, <4>3, <4>4 DEF RolesOf
      <3> QED
        BY <3>1, <3>2
    <2> QED
      BY <1>7, <2>2, <2>3 DEF RolesEffect
  <1> QED
    BY <1>5, <1>6, <1>10, <1>11

LEMMA RightsInit ==
    ASSUME AccountsInit
    PROVE  RightsInv
  <1>1. Shape /\ Placed
    BY SessionsInit DEF SessionsInv
  <1>2. \A v \in Workers : Idle(v)
    BY DEF AccountsInit, Idle, NoRequest
  <1>3. LinksAsked
    <2> SUFFICES ASSUME NEW u \in Users PROVE RolesOf(u) = asked[u].roles
      BY DEF LinksAsked
    <2>1. \A l \in links : l.user = FirstUser.id /\ l.role \in FirstUser.roles
      BY DEF AccountsInit, Link
    <2>2. \A c \in FirstUser.roles : \E l \in links : l.user = FirstUser.id /\ l.role = c
      <3> TAKE c \in FirstUser.roles
      <3>1. Link(FirstUser.id, c, 0) \in links
        BY DEF AccountsInit
      <3> QED
        BY <3>1 DEF Link
    <2>3. asked[u].roles = IF u = FirstUser.id THEN FirstUser.roles ELSE {}
      BY DEF AccountsInit
    <2> QED
      BY <2>1, <2>2, <2>3 DEF RolesOf
  <1> QED
    BY <1>1, <1>2, <1>3 DEF RightsInv, Transacting, OneReplacer, OldHeld

LEMMA ProceedRoles ==
    ASSUME Shape, Placed, NEW w \in Workers, Proceed(w), Transacts(req[w])
    PROVE  RolesEffect(w)
  <1>0. req[w] \in RequestRecord /\ InPlace(req[w], DOMAIN users)
    BY ProceedIsBusy, RequestIs DEF Placed
  <1>1. CASE Commit(w)
    <2>1. req[w].user \in Users
      BY <1>0, <1>1, UserTypes DEF Shape, Commit, InPlace, Replacing
    <2> QED
      BY <1>1, <2>1, CommitEffect
  <1>2. CASE ~Commit(w)
    BY <1>2 DEF Proceed, InsertUser, UpdateUser, Revoke, SetPassword, RefreshProfile,
           StoreSession, InsertCode, InsertGrants, DeleteGrants, StartDeleteLinks, DeleteLinks,
           InsertLinks, StartDeleteScopes, DeleteScopes, ReadRoles, ReadGrants, ReadScopes,
           Answer, Waiting, Reading, OthersKept, rights, history, RolesEffect
  <1> QED
    BY <1>1, <1>2

LEMMA RightsStep ==
    ASSUME RightsInv, NEW w \in Workers, Begin(w) \/ Proceed(w) \/ Abandon(w)
    PROVE  RightsInv'
  <1>1. Shape /\ Placed
    BY DEF RightsInv
  <1>2. Shape' /\ Placed'
    BY <1>1, ShapeStays
  <1>3. CASE Begin(w)
    <2>1. PICK r : Open(w, r) /\ Opened(r)
      BY <1>1, <1>3, BeginOpens
    <2> QED
      BY <1>2, <2>1, RightsOpen DEF RightsInv
  <1>4. CASE Proceed(w)
    <2>1. ~Idle(w) /\ Transacts(req[w])
      BY <1>4, ProceedIsBusy DEF RightsInv, Transacting
    <2>2. Advances(w) /\ RolesEffect(w) /\ (req'[w] = NoRequest \/ Transacts(req'[w]))
      BY <1>1, <1>4, <2>1, ProceedAdvances, ProceedRoles, ProceedTransacts
    <2>3. CASE Commit(w)
      <3>1. req'[w] = NoRequest
        BY <1>1, <2>3, EndIs DEF Commit
      <3> QED
        BY <1>2, <2>1, <2>2, <3>1, RightsAdvance DEF RightsInv
    <2>4. CASE ~Commit(w)
      <3>1. links' = links
        BY <1>4, <2>4
           DEF Proceed, InsertUser, UpdateUser, Revoke, SetPassword, RefreshProfile,
               StoreSession, InsertCode, InsertGrants, DeleteGrants, StartDeleteLinks,
               DeleteLinks, InsertLinks, StartDeleteScopes, DeleteScopes, ReadRoles,
               ReadGrants, ReadScopes, Answer, Waiting, Reading, OthersKept, rights
      <3>2. req'[w] = NoRequest \/ (HoldsOld(req[w]) => HoldsOld(req[w])')
        BY <1>1, <1>4, <2>1, <2>4, ProceedHoldsOld
      <3> QED
        BY <1>2, <2>1, <2>2, <3>1, <3>2, RightsAdvance DEF RightsInv
    <2> QED
      BY <2>3, <2>4
  <1>5. CASE Abandon(w)
    <2>1. /\ Advances(w) /\ req'[w] = NoRequest /\ ~Idle(w)
          /\ links' = links /\ asked' = asked
      BY <1>1, <1>5, AbandonIs
    <2>2. RolesEffect(w)
      BY <2>1 DEF RolesEffect
    <2> QED
      BY <1>2, <2>1, <2>2, RightsAdvance DEF RightsInv
  <1> QED
    BY <1>3, <1>4, <1>5

----------------------------------------------------------------------------
(* What a profile has read, against what held all the time.                *)

Reads(v) ==
    /\ req[v].at \in {"readRoles", "readGrants"} => kept[v] \subseteq Held(req[v].user)
    /\ req[v].user \notin contended =>
         /\ req[v].at = "readGrants" => \A g \in kept[v] : g.role \in req[v].roles
         /\ req[v].at \in {"readScopes", "guard"} => \A g \in kept[v] : g.perm \in req[v].perms

KeptRead == \A v \in Workers : ~Idle(v) => Reads(v)

AdmitInv == RightsInv /\ KeptRead

(* What is kept only gets less while the roles are read.                   *)
LEMMA KeepIs ==
    ASSUME NEW v \in Workers, kept' = [x \in Workers |-> Keep(x)]
    PROVE  /\ req'[v].at \in {"readRoles", "readGrants"} => kept'[v] \subseteq Held(req[v].user)'
           /\ req'[v].at = "readGrants" /\ ~Idle(v) => kept'[v] \subseteq kept[v]
           /\ req'[v].at \in {"readScopes", "guard"} => kept'[v] = kept[v]
  BY DEF Keep

LEMMA OthersRead ==
    ASSUME NEW v \in Workers, kept' = [x \in Workers |-> Keep(x)],
           req'[v] = req[v], ~Idle(v), contended \subseteq contended', Reads(v)
    PROVE  Reads(v)'
  BY KeepIs DEF Reads

LEMMA ReadsOn ==
    ASSUME Shape, Placed, LinksAsked, NEW w \in Workers, ~Idle(w), Proceed(w), Advances(w),
           kept' = [x \in Workers |-> Keep(x)], Reads(w), req'[w] # NoRequest
    PROVE  Reads(w)'
  <1>1. req[w] \in RequestRecord /\ InPlace(req[w], DOMAIN users)
    BY RequestIs DEF Placed
  <1>2. PICK s : s = req'[w]
    OBVIOUS
  <1>3. PICK r : r = req[w]
    OBVIOUS
  <1>4. Brought(s, r) /\ InPlace(s, DOMAIN users) /\ contended' = contended
    BY <1>2, <1>3 DEF Advances
  <1>5. CASE ReadRoles(w)
    <2>1. s.at = "readGrants" /\ s.roles = RolesOf(r.user)
      BY <1>1, <1>2, <1>3, <1>5, ReadRolesIs
    <2>2. r.at = "readRoles" /\ asked' = asked
      BY <1>3, <1>5 DEF ReadRoles, Reading, history
    <2>3. kept'[w] \subseteq Held(req[w].user)'
      BY <1>2, <2>1, KeepIs
    <2>4. r.user \in Users
      BY <1>1, <1>3, <2>2, UserTypes DEF InPlace, Checking, Shape
    <2>5. r.user \notin contended => \A g \in kept'[w] : g.role \in s.roles
      BY <1>2, <1>3, <1>4, <2>1, <2>2, <2>3, <2>4 DEF LinksAsked, Held, Brought
    <2> QED
      BY <1>2, <1>3, <1>4, <2>1, <2>3, <2>5 DEF Reads, Brought
  <1>6. CASE ReadGrants(w)
    <2>1. s.at = "readScopes" /\ s.perms = {g.perm : g \in {h \in grants : h.role \in r.roles}}
      BY <1>1, <1>2, <1>3, <1>6, ReadGrantsIs
    <2>2. r.at = "readGrants"
      BY <1>3, <1>6 DEF ReadGrants, Reading
    <2>3. kept'[w] = kept[w]
      BY <1>2, <2>1, KeepIs
    <2>4. kept[w] \subseteq grants
      BY <1>3, <2>2 DEF Reads, Held
    <2>5. r.user \notin contended => \A g \in kept[w] : g.role \in r.roles
      BY <1>3, <2>2 DEF Reads
    <2>6. r.user \notin contended => \A g \in kept[w] : g.perm \in s.perms
      BY <2>1, <2>4, <2>5
    <2> QED
      BY <1>2, <1>4, <2>1, <2>3, <2>6 DEF Reads, Brought
  <1>7. CASE ReadScopes(w)
    <2>1. s.at = "guard" /\ s.perms = r.perms
      BY <1>1, <1>2, <1>3, <1>7, ReadScopesIs
    <2>2. r.at = "readScopes"
      BY <1>3, <1>7 DEF ReadScopes, Reading
    <2>3. kept'[w] = kept[w]
      BY <1>2, <2>1, KeepIs
    <2> QED
      BY <1>2, <1>3, <1>4, <2>1, <2>2, <2>3 DEF Reads, Brought
  <1>8. CASE ~(ReadRoles(w) \/ ReadGrants(w) \/ ReadScopes(w))
    <2>1. ~Answer(w)
      BY <1>2, EndIs DEF Answer
    <2>2. r.at \notin Checking
      BY <1>3, <1>8, <2>1
         DEF Proceed, InsertUser, UpdateUser, Revoke, SetPassword, RefreshProfile, StoreSession,
             InsertCode, InsertGrants, DeleteGrants, StartDeleteLinks, DeleteLinks, InsertLinks,
             StartDeleteScopes, DeleteScopes, Commit, Waiting, Checking
    <2>3. s.at \notin Checking
      BY <1>1, <1>3, <1>4, <2>2 DEF InPlace, Brought
    <2> QED
      BY <1>2, <2>3 DEF Reads, Checking
  <1> QED
    BY <1>5, <1>6, <1>7, <1>8

LEMMA ReadsStep ==
    ASSUME AdmitInv, NEW w \in Workers, Begin(w) \/ Proceed(w) \/ Abandon(w),
           kept' = [x \in Workers |-> Keep(x)]
    PROVE  KeptRead'
  <1>0. Shape /\ Placed /\ LinksAsked /\ KeptRead
    BY DEF AdmitInv, RightsInv
  <1>1. SUFFICES ASSUME NEW v \in Workers, ~Idle(v)' PROVE Reads(v)'
    BY DEF KeptRead
  <1>2. CASE Begin(w)
    <2>1. PICK r : Open(w, r) /\ Opened(r)
      BY <1>0, <1>2, BeginOpens
    <2>2. r \in RequestRecord /\ r.at \notin {"readGrants", "readScopes", "guard"}
      BY <2>1 DEF Opened
    <2>3. OnlyChanges(w) /\ req'[w] = r /\ contended \subseteq contended'
      BY <1>0, <2>1, <2>2, OpenIs
    <2>4. CASE v = w
      BY <2>2, <2>3, <2>4, KeepIs DEF Reads
    <2>5. CASE v # w
      <3>1. req'[v] = req[v] /\ ~Idle(v)
        BY <1>1, <2>3, <2>5 DEF OnlyChanges, Idle
      <3> QED
        BY <1>0, <2>3, <3>1, OthersRead DEF KeptRead
    <2> QED
      BY <2>4, <2>5
  <1>3. CASE Proceed(w) \/ Abandon(w)
    <2>1. ~Idle(w) /\ Advances(w)
      BY <1>0, <1>3, ProceedIsBusy, ProceedAdvances, AbandonIs
    <2>2. CASE v = w
      <3>1. req'[w] # NoRequest
        BY <1>1, <2>2 DEF Idle, NoRequest
      <3>2. Proceed(w)
        BY <1>0, <1>3, <3>1, AbandonIs
      <3> QED
        BY <1>0, <2>1, <2>2, <3>1, <3>2, ReadsOn DEF KeptRead
    <2>3. CASE v # w
      <3>1. req'[v] = req[v] /\ ~Idle(v) /\ contended \subseteq contended'
        BY <1>1, <2>1, <2>3 DEF Advances, OnlyChanges, Idle
      <3> QED
        BY <1>0, <3>1, OthersRead DEF KeptRead
    <2> QED
      BY <2>2, <2>3
  <1> QED
    BY <1>2, <1>3

LEMMA AdmitNext ==
    ASSUME AdmitInv, [AccountsNext]_vars
    PROVE  AdmitInv'
  <1>1. CASE AccountsNext
    <2>1. PICK w \in Workers : Begin(w) \/ Proceed(w) \/ Abandon(w)
      BY <1>1 DEF AccountsNext
    <2>2. kept' = [x \in Workers |-> Keep(x)]
      BY <1>1 DEF AccountsNext
    <2>3. RightsInv'
      BY <2>1, RightsStep DEF AdmitInv
    <2> QED
      BY <2>1, <2>2, <2>3, ReadsStep DEF AdmitInv
  <1>2. CASE UNCHANGED vars
    BY <1>2 DEF vars, AdmitInv, RightsInv, Shape, Placed, Transacting, OneReplacer, OldHeld,
                LinksAsked, KeptRead, Reads, Held, HoldsOld, LinksOf, RolesOf, Idle
  <1> QED
    BY <1>1, <1>2

(* A request is not refused for a permission that its user holds all the   *)
(* time the profile is read: getAuthProfile reads roles, permissions and   *)
(* scopes one SELECT after another, while replacements of roles and        *)
(* changes of grants commit between them.                                  *)
THEOREM KeptRightsAdmit == AccountsSpec => []AdmittedByKeptRights
  <1>1. AccountsInit => AdmitInv
    <2> SUFFICES ASSUME AccountsInit PROVE AdmitInv
      OBVIOUS
    <2>1. RightsInv
      BY RightsInit
    <2>2. \A v \in Workers : Idle(v)
      BY DEF AccountsInit, Idle, NoRequest
    <2> QED
      BY <2>1, <2>2 DEF AdmitInv, KeptRead
  <1>2. AdmitInv /\ [AccountsNext]_vars => AdmitInv'
    BY AdmitNext
  <1>3. AdmitInv => AdmittedByKeptRights
    BY DEF AdmitInv, KeptRead, Reads, AdmittedByKeptRights, Admitted, Idle
  <1> QED
    BY <1>1, <1>2, <1>3, PTL DEF AccountsSpec

----------------------------------------------------------------------------
(* Names: whoever inserts or updates a row looks at all the others.        *)

NamesDiffer == \A u \in DOMAIN users : ~Taken(users[u].name, u)

LEMMA NamesWhereKept ==
    ASSUME NamesDiffer, DOMAIN users' = DOMAIN users,
           \A x \in DOMAIN users : users'[x].name = users[x].name
    PROVE  NamesDiffer'
  BY DEF NamesDiffer, Taken

LEMMA NamesStay ==
    ASSUME Shape, Placed, NamesDiffer, NEW w \in Workers, Proceed(w)
    PROVE  NamesDiffer'
  <1>0. req[w] \in RequestRecord /\ InPlace(req[w], DOMAIN users)
    BY ProceedIsBusy, RequestIs DEF Placed
  <1>1. DOMAIN users \subseteq Users /\ NoUser \notin DOMAIN users
    BY UserTypes, AccountsAssumption DEF Shape
  <1>2. CASE users' = users
    BY <1>2 DEF NamesDiffer, Taken
  <1>3. CASE InsertUser(w) /\ users' # users
    <2>1. /\ ~Taken(req[w].name, NoUser)
          /\ \E u, row : Adds(u, row) /\ row.session = NoSession /\ row.name = req[w].name
      BY <1>0, <1>3, InsertUserIs DEF InPlace, InsertUser
    <2>2. PICK u, row : Adds(u, row) /\ row.name = req[w].name
      BY <2>1
    <2>3. /\ DOMAIN users' = DOMAIN users \cup {u} /\ users'[u] = row
          /\ \A x \in DOMAIN users : users'[x] = users[x]
      BY <2>2, AddsIs
    <2>4. u \notin DOMAIN users
      BY <2>2 DEF Adds
    <2> QED
      BY <1>1, <2>1, <2>2, <2>3, <2>4 DEF NamesDiffer, Taken
  <1>4. CASE UpdateUser(w) /\ users' # users
    <2>1. PICK r : r = req[w]
      OBVIOUS
    <2>2. PICK u : u = r.user
      OBVIOUS
    <2>3. /\ ~Taken(r.name, u) /\ users' = [users EXCEPT ![u] = Patched(@, r)]
          /\ u \in DOMAIN users
      BY <1>0, <1>4, <2>1, <2>2 DEF UpdateUser, InPlace
    <2>4. PICK row : row = Patched(users[u], r)
      OBVIOUS
    <2>5. /\ row \in UserRow
          /\ row.name = IF r.name = Same THEN users[u].name ELSE r.name
      BY <1>0, <2>1, <2>3, <2>4, UserTypes, PatchedIs DEF Shape
    <2>6. SetsRow(u, row)
      BY <2>3, <2>4, <2>5 DEF SetsRow
    <2>7. /\ DOMAIN users' = DOMAIN users /\ users'[u] = row
          /\ \A x \in DOMAIN users \ {u} : users'[x] = users[x]
      BY <2>6, SetsRowIs
    <2>8. CASE r.name = Same
      BY <2>5, <2>7, <2>8, NamesWhereKept
    <2>9. CASE r.name # Same
      BY <2>3, <2>5, <2>7, <2>9 DEF NamesDiffer, Taken
    <2> QED
      BY <2>8, <2>9
  <1>5. CASE Revoke(w) \/ SetPassword(w) \/ StoreSession(w)
    <2>1. PICK u : u = req[w].user
      OBVIOUS
    <2>2. u \in DOMAIN users
      BY <1>0, <1>5, <2>1 DEF InPlace, Revoke, SetPassword, StoreSession
    <2>3. \E row : SetsRow(u, row) /\ row.name = users[u].name
      <3>1. CASE Revoke(w)
        <4>1. SetSession(u, NoSession)
          BY <2>1, <3>1 DEF Revoke
        <4> QED
          BY <2>2, <4>1, SetSessionIs
      <3>2. CASE StoreSession(w)
        <4>1. SetSession(u, Stored)
          BY <2>1, <3>2 DEF StoreSession
        <4> QED
          BY <2>2, <4>1, SetSessionIs
      <3>3. CASE SetPassword(w)
        <4>1. req[w].password \in Passwords
          BY <1>0, <3>3 DEF SetPassword, InPlace
        <4> QED
          BY <2>1, <2>2, <3>3, <4>1, SetPasswordIs
      <3> QED
        BY <1>5, <3>1, <3>2, <3>3
    <2>4. PICK row : SetsRow(u, row) /\ row.name = users[u].name
      BY <2>3
    <2>5. /\ DOMAIN users' = DOMAIN users /\ users'[u] = row
          /\ \A x \in DOMAIN users \ {u} : users'[x] = users[x]
      BY <2>4, SetsRowIs
    <2> QED
      BY <2>4, <2>5, NamesWhereKept
  <1>6. CASE ~(\/ InsertUser(w) \/ UpdateUser(w) \/ Revoke(w) \/ SetPassword(w)
               \/ StoreSession(w))
    <2>1. users' = users
      BY <1>6 DEF Proceed, RefreshProfile, InsertCode, InsertGrants, DeleteGrants,
             StartDeleteLinks, DeleteLinks, InsertLinks, StartDeleteScopes, DeleteScopes,
             Commit, ReadRoles, ReadGrants, ReadScopes, Answer, Waiting, Reading
    <2> QED
      BY <1>2, <2>1
  <1> QED
    BY <1>2, <1>3, <1>4, <1>5, <1>6

----------------------------------------------------------------------------
(* A user has one row for a role: in the table, and among the rows that    *)
(* transactions have inserted and not committed.                           *)

SameKey(k, l) == k.user = l.user /\ k.role = l.role

LinksDiffer == \A k, l \in links : SameKey(k, l) => k = l

(* A request's number is its own, and not of a row that was there before.  *)
Older(l, v) == l.by # req[v].n

NumbersApart ==
    /\ \A v \in Workers : ~Idle(v) => req[v].n <= begun
    /\ \A v, x \in Workers : v # x /\ ~Idle(v) /\ ~Idle(x) => req[v].n # req[x].n
    /\ \A l \in links : l.by <= begun /\ \A v \in Workers : ~Idle(v) => Older(l, v)
    /\ \A x \in Workers : ~Idle(x) => \A l \in req[x].delLinks :
         l.by <= begun /\ \A v \in Workers : ~Idle(v) => Older(l, v)

NewLinksApart ==
    /\ \A v \in Workers : ~Idle(v) =>
         \A l \in req[v].newLinks : \A k \in links \ req[v].delLinks : ~SameKey(k, l)
    /\ \A v, x \in Workers : v # x /\ ~Idle(v) /\ ~Idle(x) =>
         \A l \in req[v].newLinks : \A k \in req[x].newLinks : ~SameKey(k, l)

(* What a step of a replacement does to the rows of its transaction.       *)
LinksEffect(w) ==
    \/ req'[w] = NoRequest /\ links' = links
    \/ req'[w] = NoRequest /\ links' = (links \ req[w].delLinks) \cup req[w].newLinks
    \/ /\ req'[w] # NoRequest /\ links' = links /\ req'[w].n = req[w].n
       /\ \/ req'[w].newLinks = req[w].newLinks /\ req'[w].delLinks = req[w].delLinks
          \/ req'[w].newLinks = {} /\ req'[w].delLinks \subseteq links
          \/ /\ req'[w].newLinks = RowsFor(req[w]) /\ req'[w].delLinks = req[w].delLinks
             /\ ~Duplicates(w, links)
             /\ \A v \in Others(w) : ~Duplicates(w, InsertedLinks(v))

LEMMA NewRowsAre ==
    ASSUME NEW r, Transacts(r)
    PROVE  /\ \A l \in r.newLinks : l.by = r.n /\ l.user = r.user /\ l.role \in r.roles
           /\ \A k, l \in r.newLinks : SameKey(k, l) => k = l
           /\ r.newLinks # {} => r.at \in Inserted
  <1>1. r.newLinks = {} \/ r.newLinks = RowsFor(r)
    BY DEF Transacts
  <1>2. r.newLinks # {} => r.at \in Inserted
    BY DEF Transacts
  <1>3. \A l \in RowsFor(r) : \E c \in r.roles : l = Link(r.user, c, r.n)
    BY DEF RowsFor
  <1>4. \A c : /\ Link(r.user, c, r.n).by = r.n /\ Link(r.user, c, r.n).user = r.user
               /\ Link(r.user, c, r.n).role = c
    BY DEF Link
  <1>5. \A l \in RowsFor(r) : l.by = r.n /\ l.user = r.user /\ l.role \in r.roles
    BY <1>3, <1>4
  <1>6. \A k, l \in RowsFor(r) : SameKey(k, l) => k = l
    BY <1>3, <1>4 DEF SameKey
  <1> QED
    BY <1>1, <1>2, <1>5, <1>6

LEMMA ProceedLinks ==
    ASSUME Shape, Placed, NEW w \in Workers, Proceed(w), Transacts(req[w])
    PROVE  LinksEffect(w)
  <1>0. req[w] \in RequestRecord /\ InPlace(req[w], DOMAIN users)
    BY ProceedIsBusy, RequestIs DEF Placed
  <1>1. PICK s : s = req'[w]
    OBVIOUS
  <1>2. PICK r : r = req[w]
    OBVIOUS
  <1>3. NoRequest \notin RequestRecord
    BY DEF NoRequest, RequestRecord, Places
  <1>4. CASE Commit(w)
    BY <1>4, EndIs DEF Commit, LinksEffect
  <1>5. CASE End(w) /\ ~Commit(w)
    <2>1. links' = links
      BY <1>5 DEF Proceed, InsertUser, UpdateUser, Revoke, SetPassword, RefreshProfile,
             StoreSession, InsertCode, InsertGrants, DeleteGrants, StartDeleteLinks,
             DeleteLinks, InsertLinks, StartDeleteScopes, DeleteScopes, ReadRoles, ReadGrants,
             ReadScopes, Answer, Waiting, Reading, OthersKept, rights
    <2> QED
      BY <1>5, <2>1, EndIs DEF LinksEffect
  <1>6. CASE (UpdateUser(w) \/ RefreshProfile(w)) /\ ~End(w)
    <2>1. PICK step \in {"revoke", "store"} : Move(w, step)
      BY <1>6 DEF UpdateUser, RefreshProfile
    <2>2. step \in Places /\ links' = links
      BY <1>6 DEF UpdateUser, RefreshProfile, Places, OthersKept, rights
    <2>3. /\ s \in RequestRecord /\ s.n = r.n
          /\ s.delLinks = r.delLinks /\ s.newLinks = r.newLinks
      BY <1>0, <1>1, <1>2, <2>1, <2>2, MoveIs DEF Brought
    <2> QED
      BY <1>1, <1>2, <1>3, <2>2, <2>3 DEF LinksEffect
  <1>7. CASE \/ StartDeleteLinks(w) \/ StartDeleteScopes(w) \/ DeleteScopes(w)
             \/ ReadRoles(w) \/ ReadGrants(w) \/ ReadScopes(w)
    <2>1. links' = links
      BY <1>7 DEF StartDeleteLinks, StartDeleteScopes, DeleteScopes, ReadRoles, ReadGrants,
             ReadScopes, Waiting, Reading, rights
    <2>2. /\ s \in RequestRecord /\ s.n = r.n
          /\ s.delLinks = r.delLinks /\ s.newLinks = r.newLinks
      BY <1>0, <1>1, <1>2, <1>7, StartDeleteLinksIs, StartDeleteScopesIs, DeleteScopesIs,
         ReadRolesIs, ReadGrantsIs, ReadScopesIs DEF Brought
    <2> QED
      BY <1>1, <1>2, <1>3, <2>1, <2>2 DEF LinksEffect
  <1>8. CASE DeleteLinks(w)
    <2>1. links' = links /\ r.at = "deleteLinks"
      BY <1>2, <1>8 DEF DeleteLinks, rights
    <2>2. /\ s \in RequestRecord /\ s.n = r.n
          /\ s.delLinks \subseteq links /\ s.newLinks = r.newLinks
      BY <1>0, <1>1, <1>2, <1>8, DeleteLinksIs DEF Brought
    <2>3. r.newLinks = {}
      BY <1>2, <2>1 DEF Transacts, Inserted
    <2> QED
      BY <1>1, <1>2, <1>3, <2>1, <2>2, <2>3 DEF LinksEffect
  <1>9. CASE InsertLinks(w) /\ ~End(w)
    <2>1. /\ links' = links /\ r.at = "insertLinks" /\ ~Duplicates(w, links)
          /\ \A v \in Others(w) : ~Duplicates(w, InsertedLinks(v))
      BY <1>2, <1>9 DEF InsertLinks, rights
    <2>2. req[w].user \in Users
      BY <1>0, <1>2, <2>1, UserTypes DEF InPlace, Replacing, Shape
    <2>3. /\ s \in RequestRecord /\ s.n = r.n
          /\ s.delLinks = r.delLinks /\ s.newLinks = RowsFor(r)
      BY <1>0, <1>1, <1>2, <1>9, <2>1, <2>2, InsertLinksIs DEF Brought, RowsFor
    <2> QED
      BY <1>1, <1>2, <1>3, <2>1, <2>3 DEF LinksEffect
  <1> QED
    BY <1>4, <1>5, <1>6, <1>7, <1>8, <1>9
       DEF Proceed, InsertUser, Revoke, SetPassword, StoreSession, InsertCode, InsertGrants,
           DeleteGrants, Answer

RowsInv ==
    /\ Shape /\ Placed /\ Transacting
    /\ NamesDiffer /\ LinksDiffer /\ NumbersApart /\ NewLinksApart

LEMMA NumbersAre ==
    ASSUME Shape
    PROVE  /\ begun \in Int /\ \A l \in LinkRow : l.by \in Int
           /\ \A v \in Workers : ~Idle(v) =>
                req[v].n \in Int /\ req[v].delLinks \subseteq LinkRow
  <1>1. MaxRequests \in Nat
    BY AccountsAssumption
  <1>2. \A r \in RequestRecord : r.n \in Int /\ r.delLinks \subseteq LinkRow
    BY <1>1 DEF RequestRecord
  <1>3. \A v \in Workers : ~Idle(v) => req[v] \in RequestRecord
    BY RequestIs
  <1> QED
    BY <1>1, <1>2, <1>3 DEF Shape, LinkRow

LEMMA RowsOpen ==
    ASSUME RowsInv, NEW w \in Workers, NEW r, Open(w, r), Opened(r)
    PROVE  (Transacting /\ NamesDiffer /\ LinksDiffer /\ NumbersApart /\ NewLinksApart)'
  <1>0. /\ Shape /\ Transacting /\ NamesDiffer /\ LinksDiffer /\ NumbersApart
        /\ NewLinksApart
    BY DEF RowsInv
  <1>1. /\ r \in RequestRecord /\ r.n = begun + 1 /\ r.newLinks = {} /\ r.delLinks = {}
        /\ Transacts(r)
    BY OpenedTransacts DEF Opened
  <1>2. /\ OnlyChanges(w) /\ req'[w] = r /\ users' = users /\ links' = links
        /\ begun' = begun + 1
    BY <1>0, <1>1, OpenIs
  <1>3. \A v \in Workers \ {w} : req'[v] = req[v] /\ (Idle(v)' <=> Idle(v))
    BY <1>2 DEF OnlyChanges, Idle
  <1>4. Transacting'
    BY <1>1, <1>0, <1>2, <1>3 DEF Transacting
  <1>5. NamesDiffer' /\ LinksDiffer'
    BY <1>0, <1>2 DEF NamesDiffer, Taken, LinksDiffer
  <1>6. /\ begun \in Int /\ \A l \in links : l.by \in Int
        /\ \A v \in Workers : ~Idle(v) =>
             req[v].n \in Int /\ \A l \in req[v].delLinks : l.by \in Int
    BY <1>0, NumbersAre DEF Shape
  <1>7. NumbersApart'
    <2>1. (\A v \in Workers : ~Idle(v) => req[v].n <= begun)'
      BY <1>0, <1>1, <1>2, <1>3, <1>6 DEF NumbersApart
    <2>2. (\A v, x \in Workers : v # x /\ ~Idle(v) /\ ~Idle(x) => req[v].n # req[x].n)'
      BY <1>0, <1>1, <1>2, <1>3, <1>6 DEF NumbersApart
    <2>3. (\A l \in links : l.by <= begun /\ \A v \in Workers : ~Idle(v) => Older(l, v))'
      BY <1>0, <1>1, <1>2, <1>3, <1>6 DEF NumbersApart, Older
    <2>4. (\A x \in Workers : ~Idle(x) => \A l \in req[x].delLinks :
             l.by <= begun /\ \A v \in Workers : ~Idle(v) => Older(l, v))'
      <3> SUFFICES ASSUME NEW x \in Workers, ~Idle(x)', NEW l \in req'[x].delLinks
                   PROVE  l.by <= begun' /\ \A v \in Workers : ~Idle(v)' => l.by # req'[v].n
        BY DEF Older
      <3>1. x # w
        BY <1>1, <1>2
      <3>2. ~Idle(x) /\ l \in req[x].delLinks
        BY <1>3, <3>1
      <3>3. l.by <= begun /\ l.by \in Int /\ \A v \in Workers : ~Idle(v) => l.by # req[v].n
        BY <1>0, <1>6, <3>2 DEF NumbersApart, Older
      <3> QED
        BY <1>1, <1>2, <1>3, <1>6, <3>3
    <2> QED
      BY <2>1, <2>2, <2>3, <2>4 DEF NumbersApart
  <1>8. NewLinksApart'
    BY <1>0, <1>1, <1>2, <1>3 DEF NewLinksApart
  <1> QED
    BY <1>4, <1>5, <1>7, <1>8

LEMMA RowsAdvance ==
    ASSUME RowsInv, NEW w \in Workers, ~Idle(w), Advances(w), LinksEffect(w),
           req'[w] = NoRequest \/ Transacts(req'[w])
    PROVE  (Transacting /\ LinksDiffer /\ NumbersApart /\ NewLinksApart)'
  <1>0. Shape /\ Transacting /\ LinksDiffer /\ NumbersApart /\ NewLinksApart
    BY DEF RowsInv
  <1>1. OnlyChanges(w) /\ begun' = begun
    BY DEF Advances
  <1>2. \A v \in Workers \ {w} : req'[v] = req[v] /\ (Idle(v)' <=> Idle(v))
    BY <1>1 DEF OnlyChanges, Idle
  <1>3. ~Idle(w)' => req'[w] # NoRequest
    BY DEF Idle, NoRequest
  <1>4. Transacting'
    BY <1>0, <1>2, <1>3 DEF Transacting
  <1>5. PICK r : r = req[w]
    OBVIOUS
  <1>6. PICK s : s = req'[w]
    OBVIOUS
  <1>7. Transacts(r)
    BY <1>0, <1>5 DEF Transacting
  <1>8. /\ \A l \in r.newLinks : l.by = r.n
        /\ \A k, l \in r.newLinks : SameKey(k, l) => k = l
    BY <1>7, NewRowsAre
  <1>9. LinksDiffer'
    <2>1. CASE links' = links
      BY <1>0, <2>1 DEF LinksDiffer
    <2>2. CASE links' = (links \ r.delLinks) \cup r.newLinks
      <3>1. \A l \in r.newLinks : \A k \in links \ r.delLinks : ~SameKey(k, l)
        BY <1>0, <1>5 DEF NewLinksApart
      <3>2. \A k, l : SameKey(k, l) => SameKey(l, k)
        BY DEF SameKey
      <3> HIDE DEF SameKey
      <3> QED
        BY <1>0, <1>8, <2>2, <3>1, <3>2 DEF LinksDiffer
    <2> QED
      BY <1>5, <2>1, <2>2 DEF LinksEffect
  (* Rows that are gone or new, and requests that are left. *)
  <1>10. \A l \in links' : l \in links \/ (req'[w] = NoRequest /\ l \in r.newLinks)
    BY <1>5 DEF LinksEffect
  <1>11. \A v \in Workers : ~Idle(v)' => ~Idle(v) /\ req'[v].n = req[v].n
    BY <1>2, <1>3 DEF LinksEffect
  <1>12. \A x \in Workers : ~Idle(x)' => \A l \in req'[x].delLinks :
           l \in links \/ l \in req[x].delLinks
    BY <1>2, <1>3 DEF LinksEffect
  <1>13. NumbersApart'
    <2>1. (\A v \in Workers : ~Idle(v) => req[v].n <= begun)'
      BY <1>0, <1>1, <1>11 DEF NumbersApart
    <2>2. (\A v, x \in Workers : v # x /\ ~Idle(v) /\ ~Idle(x) => req[v].n # req[x].n)'
      BY <1>0, <1>11 DEF NumbersApart
    <2>3. (\A l \in links : l.by <= begun /\ \A v \in Workers : ~Idle(v) => Older(l, v))'
      <3> SUFFICES ASSUME NEW l \in links'
                   PROVE  l.by <= begun /\ \A v \in Workers : ~Idle(v)' => l.by # req'[v].n
        BY <1>1 DEF Older
      <3>1. CASE l \in links
        BY <1>0, <1>11, <3>1 DEF NumbersApart, Older
      <3>2. CASE req'[w] = NoRequest /\ l \in r.newLinks
        <4>1. l.by = req[w].n
          BY <1>5, <1>8, <3>2
        <4>2. \A v \in Workers : ~Idle(v)' => v # w
          BY <1>3, <3>2
        <4> QED
          BY <1>0, <1>11, <4>1, <4>2 DEF NumbersApart
      <3> QED
        BY <1>10, <3>1, <3>2
    <2>4. (\A x \in Workers : ~Idle(x) => \A l \in req[x].delLinks :
             l.by <= begun /\ \A v \in Workers : ~Idle(v) => Older(l, v))'
      <3> SUFFICES ASSUME NEW x \in Workers, ~Idle(x)', NEW l \in req'[x].delLinks
                   PROVE  l.by <= begun /\ \A v \in Workers : ~Idle(v)' => l.by # req'[v].n
        BY <1>1 DEF Older
      <3>1. l.by <= begun /\ \A v \in Workers : ~Idle(v) => l.by # req[v].n
        BY <1>0, <1>11, <1>12 DEF NumbersApart, Older
      <3> QED
        BY <1>11, <3>1
    <2> QED
      BY <2>1, <2>2, <2>3, <2>4 DEF NumbersApart
  <1>14. NewLinksApart'
    <2>0. \A k, l : SameKey(k, l) <=> SameKey(l, k)
      BY DEF SameKey
    <2>1. CASE req'[w] = NoRequest
      <3>1. \A v \in Workers : ~Idle(v)' => v # w /\ ~Idle(v) /\ req'[v] = req[v]
        BY <1>2, <1>3, <2>1
      <3>2. (\A v, x \in Workers : v # x /\ ~Idle(v) /\ ~Idle(x) =>
               \A l \in req[v].newLinks : \A k \in req[x].newLinks : ~SameKey(k, l))'
        BY <1>0, <3>1 DEF NewLinksApart, SameKey
      <3>3. (\A v \in Workers : ~Idle(v) =>
               \A l \in req[v].newLinks : \A k \in links \ req[v].delLinks : ~SameKey(k, l))'
        <4> SUFFICES ASSUME NEW v \in Workers, ~Idle(v)', NEW l \in req'[v].newLinks,
                            NEW k \in links' \ req'[v].delLinks
                     PROVE  ~SameKey(k, l)
          BY DEF SameKey
        <4>1. v # w /\ ~Idle(v) /\ req'[v] = req[v]
          BY <3>1
        <4>2. CASE k \in links
          BY <1>0, <4>1, <4>2 DEF NewLinksApart
        <4>3. CASE k \in r.newLinks
          BY <1>0, <1>5, <4>1, <4>3 DEF NewLinksApart
        <4> QED
          BY <1>10, <4>2, <4>3
      <3> QED
        BY <3>2, <3>3 DEF NewLinksApart
    <2>2. CASE /\ req'[w] # NoRequest /\ links' = links
               /\ \/ s.newLinks = r.newLinks /\ s.delLinks = r.delLinks
                  \/ s.newLinks = {}
      <3>1. \A v \in Workers : ~Idle(v)' => ~Idle(v) /\ req'[v].newLinks \subseteq req[v].newLinks
        BY <1>2, <1>5, <1>6, <2>2
      <3>2. \A v \in Workers : ~Idle(v)' =>
              req'[v].newLinks = {} \/ req'[v].delLinks = req[v].delLinks
        BY <1>2, <1>5, <1>6, <2>2
      <3>3. (\A v, x \in Workers : v # x /\ ~Idle(v) /\ ~Idle(x) =>
               \A l \in req[v].newLinks : \A k \in req[x].newLinks : ~SameKey(k, l))'
        BY <1>0, <3>1 DEF NewLinksApart, SameKey
      <3>4. (\A v \in Workers : ~Idle(v) =>
               \A l \in req[v].newLinks : \A k \in links \ req[v].delLinks : ~SameKey(k, l))'
        BY <1>0, <2>2, <3>1, <3>2 DEF NewLinksApart, SameKey
      <3> QED
        BY <3>3, <3>4 DEF NewLinksApart
    <2>3. CASE /\ req'[w] # NoRequest /\ links' = links
               /\ s.newLinks = RowsFor(r) /\ s.delLinks = r.delLinks
               /\ ~Duplicates(w, links)
               /\ \A v \in Others(w) : ~Duplicates(w, InsertedLinks(v))
      <3>1. \A l \in s.newLinks : l.user = r.user /\ l.role \in r.roles
        BY <2>3 DEF RowsFor, Link
      <3>2. \A k \in links \ r.delLinks : ~(k.user = r.user /\ k.role \in r.roles)
        BY <1>5, <2>3 DEF Duplicates
      <3>3. \A l \in s.newLinks : \A k \in links \ r.delLinks : ~SameKey(k, l)
        BY <3>1, <3>2 DEF SameKey
      <3>4. \A v \in Workers : v # w /\ ~Idle(v) =>
              \A l \in s.newLinks : \A k \in req[v].newLinks : ~SameKey(k, l)
        <4> SUFFICES ASSUME NEW v \in Workers, v # w, ~Idle(v), NEW l \in s.newLinks,
                            NEW k \in req[v].newLinks
                     PROVE  ~SameKey(k, l)
          OBVIOUS
        <4>1. v \in Others(w)
          BY DEF Others
        <4>2. Transacts(req[v])
          BY <1>0 DEF Transacting
        <4>3. k.by = req[v].n /\ req[v].at \in Inserted
          BY <4>2, NewRowsAre
        <4>4. k \in InsertedLinks(v)
          BY <4>3 DEF InsertedLinks, Writes, Inserted
        <4>5. k \notin r.delLinks
          BY <1>0, <1>5, <4>3 DEF NumbersApart, Older
        <4>6. ~(k.user = r.user /\ k.role \in r.roles)
          BY <1>5, <2>3, <4>1, <4>4, <4>5 DEF Duplicates
        <4> QED
          BY <3>1, <4>6 DEF SameKey
      <3>5. (\A v, x \in Workers : v # x /\ ~Idle(v) /\ ~Idle(x) =>
               \A l \in req[v].newLinks : \A k \in req[x].newLinks : ~SameKey(k, l))'
        <4> SUFFICES ASSUME NEW v \in Workers, NEW x \in Workers, v # x, ~Idle(v)', ~Idle(x)',
                            NEW l \in req'[v].newLinks, NEW k \in req'[x].newLinks
                     PROVE  ~SameKey(k, l)
          BY DEF SameKey
        <4>1. CASE v # w /\ x # w
          BY <1>0, <1>2, <4>1 DEF NewLinksApart
        <4>2. CASE v = w
          BY <1>2, <1>6, <3>4, <4>2
        <4>3. CASE x = w
          BY <1>2, <1>6, <2>0, <3>4, <4>3
        <4> QED
          BY <4>1, <4>2, <4>3
      <3>6. (\A v \in Workers : ~Idle(v) =>
               \A l \in req[v].newLinks : \A k \in links \ req[v].delLinks : ~SameKey(k, l))'
        <4> SUFFICES ASSUME NEW v \in Workers, ~Idle(v)', NEW l \in req'[v].newLinks,
                            NEW k \in links \ req'[v].delLinks
                     PROVE  ~SameKey(k, l)
          BY <2>3 DEF SameKey
        <4>1. CASE v = w
          BY <1>6, <2>3, <3>3, <4>1
        <4>2. CASE v # w
          BY <1>0, <1>2, <4>2 DEF NewLinksApart
        <4> QED
          BY <4>1, <4>2
      <3> QED
        BY <3>5, <3>6 DEF NewLinksApart
    <2> QED
      BY <1>5, <1>6, <2>1, <2>2, <2>3 DEF LinksEffect
  <1> QED
    BY <1>4, <1>9, <1>13, <1>14

LEMMA RowsInit ==
    ASSUME AccountsInit
    PROVE  RowsInv
  <1>1. Shape /\ Placed
    BY SessionsInit DEF SessionsInv
  <1>2. \A v \in Workers : Idle(v)
    BY DEF AccountsInit, Idle, NoRequest
  <1>3. NamesDiffer
    BY DEF AccountsInit, NamesDiffer, Taken
  <1>4. \A l \in links : l = Link(FirstUser.id, l.role, 0)
    BY DEF AccountsInit, Link
  <1>5. LinksDiffer
    BY <1>4 DEF LinksDiffer, SameKey
  <1>6. \A l \in links : l.by = 0
    BY DEF AccountsInit, Link
  <1>7. NumbersApart
    BY <1>2, <1>6 DEF NumbersApart, AccountsInit
  <1> QED
    BY <1>1, <1>2, <1>3, <1>5, <1>7 DEF RowsInv, Transacting, NewLinksApart

LEMMA RowsStep ==
    ASSUME RowsInv, NEW w \in Workers, Begin(w) \/ Proceed(w) \/ Abandon(w)
    PROVE  RowsInv'
  <1>1. Shape /\ Placed /\ NamesDiffer
    BY DEF RowsInv
  <1>2. Shape' /\ Placed'
    BY <1>1, ShapeStays
  <1>3. CASE Begin(w)
    <2>1. PICK r : Open(w, r) /\ Opened(r)
      BY <1>1, <1>3, BeginOpens
    <2> QED
      BY <1>2, <2>1, RowsOpen DEF RowsInv
  <1>4. CASE Proceed(w)
    <2>1. ~Idle(w) /\ Transacts(req[w])
      BY <1>4, ProceedIsBusy DEF RowsInv, Transacting
    <2>2. Advances(w) /\ LinksEffect(w) /\ (req'[w] = NoRequest \/ Transacts(req'[w]))
      BY <1>1, <1>4, <2>1, ProceedAdvances, ProceedLinks, ProceedTransacts
    <2>3. NamesDiffer'
      BY <1>1, <1>4, NamesStay
    <2> QED
      BY <1>2, <2>1, <2>2, <2>3, RowsAdvance DEF RowsInv
  <1>5. CASE Abandon(w)
    <2>1. /\ Advances(w) /\ req'[w] = NoRequest /\ ~Idle(w)
          /\ links' = links /\ users' = users
      BY <1>1, <1>5, AbandonIs
    <2>2. LinksEffect(w)
      BY <2>1 DEF LinksEffect
    <2>3. NamesDiffer'
      BY <1>1, <2>1, NamesWhereKept
    <2> QED
      BY <1>2, <2>1, <2>2, <2>3, RowsAdvance DEF RowsInv
  <1> QED
    BY <1>3, <1>4, <1>5

LEMMA RowsNext ==
    ASSUME RowsInv, [AccountsNext]_vars
    PROVE  RowsInv'
  <1>1. CASE AccountsNext
    BY <1>1, RowsStep DEF AccountsNext
  <1>2. CASE UNCHANGED vars
    BY <1>2 DEF vars, RowsInv, Shape, Placed, Transacting, NamesDiffer, Taken, LinksDiffer,
                NumbersApart, Older, NewLinksApart, Idle
  <1> QED
    BY <1>1, <1>2

(* The rows have their types; no two users have one name, and no user two  *)
(* rows for a role, whatever createUser, updateUser and setUserRoles       *)
(* interleave: each checks before it writes, and the unique indexes see    *)
(* what the others have committed or are about to.                         *)
THEOREM AccountsTypeCorrect == AccountsSpec => []AccountsTypeOK
  <1>1. AccountsInit => RowsInv
    BY RowsInit
  <1>2. RowsInv /\ [AccountsNext]_vars => RowsInv'
    BY RowsNext
  <1>3. RowsInv => AccountsTypeOK
    <2> SUFFICES ASSUME RowsInv PROVE AccountsTypeOK
      OBVIOUS
    <2>1. Shape /\ NamesDiffer /\ LinksDiffer
      BY DEF RowsInv
    <2>2. DOMAIN users \subseteq Users /\ \A u \in DOMAIN users : users[u] \in UserRow
      BY <2>1, UserTypes DEF Shape
    <2> QED
      BY <2>1, <2>2 DEF AccountsTypeOK, Shape, NamesDiffer, LinksDiffer, SameKey, UserRow,
                        LinkRow, ScopeRow, Grant
  <1> QED
    BY <1>1, <1>2, <1>3, PTL DEF AccountsSpec
=============================================================================
