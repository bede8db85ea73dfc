---------------------------- MODULE AccountProofs ----------------------------
(***************************************************************************)
(* Proofs about the accounts, for any number of requests, calls, crashes   *)
(* and pubkey admins and any names and passwords; and about logins, for    *)
(* any number of them, of users and addresses, any limit and any budget.   *)
(***************************************************************************)
EXTENDS UserStore, Login, FiniteSetTheorems, TLAPS

-----------------------------------------------------------------------------
(* The rows of the internal database.                                        *)

Tables == {"users", "roles", "designs"}
UserFields == {"id", "name", "pwd", "role", "perm", "access"}

\* Accounts that the seeding makes of GODB_ADMIN_PUBKEYS.
PubRows == {UserRow(PubId(n), n, "pubkey-only", "admin") : n \in PubAdmins}

\* A row of a table has the columns its handlers read.
RowOK(t, x) ==
    /\ "id" \in DOMAIN x
    /\ t = "users" => DOMAIN x = UserFields
    /\ t = "designs" => "active" \in DOMAIN x /\ x.active \in BOOLEAN

\* The operations on accounts, on roles, and those whose calls set a password.
OnUsers == {"CreateUser", "UpdateUser", "SetUserPermissions", "ChangePassword",
            "InitializeSetup", "SetUserDBAccess", "DeleteUser"}
OnRoles == {"CreateRole", "UpdateRole", "DeleteRole"}
SetPassword == {"CreateUser", "ChangePassword", "InitializeSetup", "DeleteUser"}

\* What a call asks for: no call sets an id, and an account that is made is
\* not the default one.
CallOK(c) ==
    /\ c.op \in OnUsers => c.t = "users" /\ DOMAIN c.set \subseteq UserFields \ {"id"}
    /\ c.op \in OnRoles => c.t = "roles" /\ DOMAIN c.set \subseteq {"perm", "access"}
    /\ c.op = "SaveDesign" => c.t = "designs" /\ DOMAIN c.set = {"active"} /\ c.set.active \in BOOLEAN
    /\ c.op \in OnUsers /\ "pwd" \in DOMAIN c.set => c.op \in SetPassword
    /\ c.op = "InitializeSetup" => "pwd" \in DOMAIN c.set /\ c.set.pwd # DefaultPwd
    /\ c.op = "CreateUser" => c.id # FirstId
    /\ c.op = "SetUserDBAccess" => DOMAIN c.set = {"access"}

\* A row that setup may be due for.
Due(x) == x = None \/ x.pwd = DefaultPwd

\* What a request may save is an edit of a row it has read.
CopyOK(q) ==
    \E y \in q.seen :
        /\ y # None /\ RowOK(q.c.t, y)
        /\ q.row = Edit(y, q.c.set)

ReqOK(q) ==
    q.st # "idle" =>
        /\ DOMAIN q = {"c", "seen", "row", "st"} /\ CallOK(q.c)
        /\ q.st = "save" => CopyOK(q)
        /\ q.st \in {"reread", "save"} /\ q.c.op = "InitializeSetup" => \E v \in q.seen : Due(v)

\* The keys of a table.
KeysFor(t, rows) ==
    /\ \A x \in rows : RowOK(t, x)
    /\ \A x, y \in rows : x.id = y.id => x = y
    /\ t = "users" => \A u, v \in rows : u.name = v.name => u = v

KeysOK ==
    /\ db = [t \in Tables |-> db[t]] /\ want = [t \in {"users", "roles"} |-> want[t]]
    /\ \A t \in Tables : KeysFor(t, db[t])
    /\ \A t \in {"users", "roles"} : \A x \in want[t] : "id" \in DOMAIN x

ReqsOK ==
    /\ req = [r \in Reqs |-> req[r]]
    /\ \A r \in Reqs : ReqOK(req[r])
    /\ boot # "up" => \A r \in Reqs : ~Busy(r)

\* While accounts are seeded there are none but those of GODB_ADMIN_PUBKEYS,
\* whose names and ids go together.
SeedsOK ==
    /\ boot = "roles" => todo \in Seq(Builtins)
    /\ boot = "users" => todo \in Seq(PubRows) /\ db.users \subseteq PubRows

\* Before any request has changed a row there are built-in roles and admins only.
UntouchedOK ==
    ~touched =>
        /\ db.roles \subseteq Builtins
        /\ \A u \in db.users : u.role = "admin"
        /\ boot = "up" => db.users # {}

\* One request at most is about to insert an active design, and then all
\* designs are inactive, unless two of them met.
DesignsOK ==
    Id("designs") \notin tainted =>
        /\ \A r, s \in Reqs : InsertsActive(r) /\ InsertsActive(s) => r = s
        /\ (\E r \in Reqs : InsertsActive(r)) => \A d \in db.designs : ~d.active
        /\ \A d, e \in db.designs : d.active /\ e.active => d = e

\* Once set up, the default account has another password than the default.
SetupOK ==
    /\ setups \in Nat
    /\ setups > 0 /\ FirstId \notin tainted =>
          setups = 1 /\ \A u \in db.users : u.id = FirstId => u.pwd # DefaultPwd

StoreIInv ==
    KeysOK /\ ReqsOK /\ SeedsOK /\ UntouchedOK /\ DesignsOK /\ SetupOK /\ SerialChangesKept

\* An edit sets its fields and leaves the others.
LEMMA EditFields ==
    ASSUME NEW x, NEW set
    PROVE  /\ DOMAIN Edit(x, set) = DOMAIN x \cup DOMAIN set
           /\ \A f \in DOMAIN set : Edit(x, set)[f] = set[f]
           /\ \A f \in DOMAIN x \ DOMAIN set : Edit(x, set)[f] = x[f]
  BY DEF Edit

\* An edit of a row of users or roles, as the calls ask for it, is a row of
\* the same id; but for a call that sets a password it has the same one.
LEMMA EditRow ==
    ASSUME NEW t, NEW x, RowOK(t, x), NEW set, NEW F,
           t = "users" => F = UserFields \ {"id"},
           t # "users" => t = "roles" /\ F = {"perm", "access"},
           DOMAIN set \subseteq F
    PROVE  /\ RowOK(t, Edit(x, set)) /\ Edit(x, set).id = x.id
           /\ "pwd" \notin DOMAIN set /\ t = "users" => Edit(x, set).pwd = x.pwd
           /\ "pwd" \in DOMAIN set => Edit(x, set).pwd = set.pwd
           /\ "name" \notin DOMAIN set /\ t = "users" => Edit(x, set).name = x.name
<1> DEFINE e == Edit(x, set)
<1>1. /\ DOMAIN e = DOMAIN x \cup DOMAIN set
      /\ \A f \in DOMAIN set : e[f] = set[f]
      /\ \A f \in DOMAIN x \ DOMAIN set : e[f] = x[f]
  BY EditFields
<1> HIDE DEF e
<1>2. "id" \in DOMAIN x \ DOMAIN set
  BY DEF RowOK
<1>3. e.id = x.id /\ "id" \in DOMAIN e
  BY <1>1, <1>2
<1>4. CASE t = "users"
  <2>1. DOMAIN x = UserFields /\ DOMAIN set \subseteq UserFields
    BY <1>4 DEF RowOK
  <2>2. DOMAIN e = UserFields
    BY <1>1, <2>1
  <2>3. "pwd" \in UserFields /\ "name" \in UserFields
    BY DEF UserFields
  <2>4. RowOK(t, e)
    BY <1>3, <1>4, <2>2 DEF RowOK
  <2>5. "pwd" \notin DOMAIN set => e.pwd = x.pwd
    BY <1>1, <2>1, <2>3
  <2>6. "pwd" \in DOMAIN set => e.pwd = set.pwd
    BY <1>1
  <2>7. "name" \notin DOMAIN set => e.name = x.name
    BY <1>1, <2>1, <2>3
  <2> QED
    BY <1>3, <2>4, <2>5, <2>6, <2>7 DEF e
<1>5. CASE t = "roles"
  <2>1. RowOK(t, e)
    BY <1>3, <1>5 DEF RowOK
  <2>2. "pwd" \in DOMAIN set => e.pwd = set.pwd
    BY <1>1
  <2> QED
    BY <1>3, <1>5, <2>1, <2>2 DEF e
<1> QED
  BY <1>4, <1>5

\* A save keeps the keys of a table, however many rows it drops.
LEMMA ReplaceKeys ==
    ASSUME NEW t, NEW rows, KeysFor(t, rows), NEW row, RowOK(t, row)
    PROVE  KeysFor(t, Replace(t, row, rows))
  BY DEF KeysFor, Replace, Evicted

\* What a save leaves in a table.
LEMMA ReplaceRows ==
    ASSUME NEW t, NEW rows, NEW row
    PROVE  /\ row \in Replace(t, row, rows)
           /\ \A x \in Replace(t, row, rows) : x # row => x \in rows /\ x.id # row.id
           /\ \A x \in rows : x \in Replace(t, row, rows) \/ x \in Evicted(t, row, rows)
  BY DEF Replace, Evicted

\* A row that is found has the id, and there is one to find when there is any.
LEMMA FindOne ==
    ASSUME NEW t, NEW id
    PROVE  /\ GetByID(t, id) # None => GetByID(t, id) \in db[t] /\ GetByID(t, id).id = id
           /\ \A x \in db[t] : x.id = id => GetByID(t, id) \in db[t] /\ GetByID(t, id).id = id
  BY DEF GetByID, TheOne, Find

\* So is an account that is found by its name.
LEMMA FindUser ==
    ASSUME NEW n
    PROVE  /\ GetUser(n) # None => GetUser(n) \in db.users /\ GetUser(n).name = n
           /\ \A u \in db.users : u.name = n => GetUser(n) \in db.users
  BY DEF GetUser, TheOne

\* Every call that can be asked for is such a call.
LEMMA CallsOK ==
    ASSUME NEW c \in AnyCall
    PROVE  CallOK(c)
<1> USE DEF CallOK, Call, OnUsers, OnRoles, SetPassword, UserFields
<1>1. CASE c \in CreateUser
  <2>1. NewId[1] = "user" /\ FirstId[1] = "admin-001"
    BY DEF NewId, FirstId, Id
  <2>2. NewId # FirstId
    BY <2>1
  <2>3. PICK x \in [name : NewNames, pwd : NewPwds, role : {"readonly"}, perm : {{}}] :
           c = [op |-> "CreateUser", t |-> "users", id |-> NewId, set |-> x]
    BY <1>1 DEF CreateUser
  <2> QED
    BY <2>2, <2>3
<1>2. CASE c \in UpdateUser
  BY <1>2 DEF UpdateUser
<1>3. CASE c \in SetUserPermissions
  BY <1>3 DEF SetUserPermissions
<1>4. CASE c \in ChangePassword
  BY <1>4 DEF ChangePassword
<1>5. CASE c \in InitializeSetup
  BY <1>5 DEF InitializeSetup
<1>6. CASE c \in SetUserDBAccess
  BY <1>6 DEF SetUserDBAccess
<1>7. CASE c \in DeleteUser
  BY <1>7 DEF DeleteUser
<1>8. CASE c \in CreateRole
  BY <1>8 DEF CreateRole
<1>9. CASE c \in UpdateRole
  BY <1>9 DEF UpdateRole
<1>10. CASE c \in DeleteRole
  BY <1>10 DEF DeleteRole
<1>11. CASE c \in SaveDesign
  BY <1>11 DEF SaveDesign
<1> QED
  BY <1>1, <1>2, <1>3, <1>4, <1>5, <1>6, <1>7, <1>8, <1>9, <1>10, <1>11 DEF AnyCall

\* A step of one request that leaves the rows alone, and does not bring it to
\* the insertion of an active design.
LEMMA RequestStep ==
    ASSUME StoreIInv, NEW r \in Reqs, NEW q, ReqOK(q), boot = "up",
           ~(q.st = "write" /\ q.c.op = "SaveDesign" /\ q.c.set.active),
           req' = [req EXCEPT ![r] = q], UNCHANGED <<db, boot, todo, hist>>
    PROVE  StoreIInv'
<1>1. req' = [o \in Reqs |-> req'[o]] /\ req'[r] = q
      /\ \A o \in Reqs : o # r => req'[o] = req[o]
  BY DEF StoreIInv, ReqsOK
<1>2. ReqsOK'
  BY <1>1 DEF StoreIInv, ReqsOK
<1>3. \A o \in Reqs : InsertsActive(o)' => InsertsActive(o)
  BY <1>1 DEF InsertsActive, At
<1>4. DesignsOK'
  BY <1>3 DEF StoreIInv, DesignsOK, hist
<1>5. KeysOK'
  BY DEF StoreIInv, KeysOK, hist
<1>6. SeedsOK'
  BY DEF StoreIInv, SeedsOK, hist
<1>7. UntouchedOK'
  BY DEF StoreIInv, UntouchedOK, hist
<1>8. SetupOK'
  BY DEF StoreIInv, SetupOK, hist
<1>9. SerialChangesKept'
  BY DEF StoreIInv, SerialChangesKept, hist
<1> QED
  BY <1>2, <1>4, <1>5, <1>6, <1>7, <1>8, <1>9 DEF StoreIInv

\* A request that is over.
LEMMA IdleOK == ReqOK(Idle) /\ Idle.st = "idle"
  BY DEF ReqOK, Idle

\* A request begins with its first statement.
LEMMA BeginKeeps ==
    ASSUME StoreIInv, NEW r \in Reqs, Begin(r)
    PROVE  StoreIInv'
<1>1. PICK c \in AnyCall :
        req' = [req EXCEPT ![r] =
                    [c |-> c, seen |-> {}, row |-> None,
                     st |-> IF c.op \in Readers THEN "read"
                            ELSE IF c.op = "InitializeSetup" THEN "check"
                            ELSE IF c.op = "SaveDesign" /\ c.set.active THEN "deactivate"
                            ELSE "write"]]
  BY DEF Begin
<1> DEFINE q == [c |-> c, seen |-> {}, row |-> None,
                 st |-> IF c.op \in Readers THEN "read"
                        ELSE IF c.op = "InitializeSetup" THEN "check"
                        ELSE IF c.op = "SaveDesign" /\ c.set.active THEN "deactivate"
                        ELSE "write"]
<1>2. /\ q.c = c /\ DOMAIN q = {"c", "seen", "row", "st"} /\ q.st \in {"read", "check", "deactivate", "write"}
      /\ q.st = "write" /\ c.op = "SaveDesign" => ~c.set.active
  OBVIOUS
<1>3. ReqOK(q)
  <2> HIDE DEF q
  <2> QED
    BY <1>2, CallsOK DEF ReqOK
<1>4. req' = [req EXCEPT ![r] = q]
  BY <1>1
<1> HIDE DEF q
<1> QED
  BY <1>2, <1>3, <1>4, RequestStep DEF Begin

\* A request reads the row it is about and edits a copy, or ends.
LEMMA ReadKeeps ==
    ASSUME StoreIInv, NEW r \in Reqs, Read(r)
    PROVE  StoreIInv'
<1>1. boot = "up" /\ req[r].st = "read" /\ req[r].c.op \in Readers
  BY DEF Read, At
<1>2. CASE req' = [req EXCEPT ![r] = Idle]
  BY <1>1, <1>2, IdleOK, RequestStep DEF Read
<1>3. CASE req' # [req EXCEPT ![r] = Idle]
  <2>1. PICK c, x : c = req[r].c /\ x = GetByID(c.t, c.id)
    OBVIOUS
  <2>2. /\ x # None
        /\ req' = [req EXCEPT ![r].seen = {x}, ![r].row = Edit(x, c.set), ![r].st = "save"]
    BY <1>3, <2>1 DEF Read, Done
  <2>3. PICK q : q = [req[r] EXCEPT !.seen = {x}, !.row = Edit(x, c.set), !.st = "save"]
    OBVIOUS
  <2>4. req' = [req EXCEPT ![r] = q]
    BY <2>2, <2>3 DEF StoreIInv, ReqsOK
  <2>5. CallOK(c) /\ DOMAIN req[r] = {"c", "seen", "row", "st"}
    BY <1>1, <2>1 DEF StoreIInv, ReqsOK, ReqOK
  <2>6. q.c = c /\ q.seen = {x} /\ q.row = Edit(x, c.set) /\ q.st = "save" /\ DOMAIN q = DOMAIN req[r]
    BY <2>1, <2>3, <2>5
  <2>7. c.t \in {"users", "roles"} /\ c.op # "InitializeSetup" /\ c.op # "SaveDesign"
    BY <1>1, <2>1, <2>5 DEF CallOK, Readers, OnUsers, OnRoles
  <2>8. x \in db[c.t] /\ RowOK(c.t, x)
    BY SMTT(30), <2>1, <2>2, <2>7, FindOne DEF StoreIInv, KeysOK, KeysFor, Tables
  <2>9. ReqOK(q)
    BY <2>2, <2>5, <2>6, <2>7, <2>8 DEF ReqOK, CopyOK
  <2> QED
    BY <1>1, <2>4, <2>6, <2>7, <2>9, RequestStep DEF Read
<1> QED
  BY <1>2, <1>3

\* InitializeSetup looks whether setup is due.
LEMMA CheckSetupKeeps ==
    ASSUME StoreIInv, NEW r \in Reqs, CheckSetup(r)
    PROVE  StoreIInv'
<1>1. boot = "up" /\ req[r].st = "check" /\ req[r].c.op = "InitializeSetup"
  BY DEF CheckSetup, At
<1>2. PICK u : u = GetUser("admin")
  OBVIOUS
<1>3. CASE u # None /\ u.pwd # DefaultPwd
  <2>1. req' = [req EXCEPT ![r] = Idle]
    BY <1>2, <1>3 DEF CheckSetup, Done
  <2> QED
    BY <1>1, <2>1, IdleOK, RequestStep DEF CheckSetup
<1>4. CASE Due(u)
  <2>1. req' = [req EXCEPT ![r].seen = {u}, ![r].st = "reread"]
    BY <1>2, <1>4 DEF CheckSetup, Due
  <2>2. PICK q : q = [req[r] EXCEPT !.seen = {u}, !.st = "reread"]
    OBVIOUS
  <2>3. req' = [req EXCEPT ![r] = q]
    BY <2>1, <2>2 DEF StoreIInv, ReqsOK
  <2>4. CallOK(req[r].c) /\ DOMAIN req[r] = {"c", "seen", "row", "st"}
    BY <1>1 DEF StoreIInv, ReqsOK, ReqOK
  <2>5. q.c = req[r].c /\ q.seen = {u} /\ q.st = "reread" /\ DOMAIN q = DOMAIN req[r]
    BY <2>2, <2>4
  <2>6. ReqOK(q)
    BY <1>4, <2>4, <2>5 DEF ReqOK
  <2> QED
    BY <1>1, <2>3, <2>5, <2>6, RequestStep DEF CheckSetup
<1> QED
  BY <1>3, <1>4 DEF Due

\* Then it reads the account again and edits that copy.
LEMMA RereadSetupKeeps ==
    ASSUME StoreIInv, NEW r \in Reqs, RereadSetup(r)
    PROVE  StoreIInv'
<1>1. boot = "up" /\ req[r].st = "reread" /\ req[r].c.op = "InitializeSetup"
  BY DEF RereadSetup, At
<1>2. PICK u : u = GetUser("admin")
  OBVIOUS
<1>3. CASE u = None
  <2>1. req' = [req EXCEPT ![r] = Idle]
    BY <1>2, <1>3 DEF RereadSetup, Done
  <2> QED
    BY <1>1, <2>1, IdleOK, RequestStep DEF RereadSetup
<1>4. CASE u # None
  <2>1. PICK c, seen : c = req[r].c /\ seen = req[r].seen
    OBVIOUS
  <2>2. PICK q : q = [req[r] EXCEPT !.seen = seen \cup {u}, !.st = "save", !.row = Edit(u, c.set)]
    OBVIOUS
  <2>3. req' = [req EXCEPT ![r].seen = @ \cup {u}, ![r].st = "save", ![r].row = Edit(u, req[r].c.set)]
    BY <1>2, <1>4 DEF RereadSetup
  <2>4. req' = [req EXCEPT ![r] = q]
    BY <2>1, <2>2, <2>3 DEF StoreIInv, ReqsOK
  <2>5. CallOK(c) /\ DOMAIN req[r] = {"c", "seen", "row", "st"} /\ \E v \in seen : Due(v)
    BY <1>1, <2>1 DEF StoreIInv, ReqsOK, ReqOK
  <2>6. q.c = c /\ q.seen = seen \cup {u} /\ q.st = "save" /\ q.row = Edit(u, c.set) /\ DOMAIN q = DOMAIN req[r]
    BY <2>1, <2>2, <2>5
  <2>7. c.t = "users"
    BY <1>1, <2>1, <2>5 DEF CallOK, OnUsers
  <2>8. RowOK("users", u)
    BY <1>2, <1>4, FindUser DEF StoreIInv, KeysOK, KeysFor, Tables
  <2>9. ReqOK(q)
    BY <1>4, <2>5, <2>6, <2>7, <2>8 DEF ReqOK, CopyOK
  <2> QED
    BY <1>1, <2>4, <2>6, <2>9, RequestStep DEF RereadSetup
<1> QED
  BY <1>3, <1>4

\* Rows are what they are wanted to be, but for those of some ids.
Alike(rows, wanted, ids) == {x \in rows : x.id \notin ids} = {x \in wanted : x.id \notin ids}

\* The same, row by row.
LEMMA AlikeRows ==
    ASSUME NEW rows, NEW wanted, NEW ids
    PROVE  Alike(rows, wanted, ids) <=> \A x : x.id \notin ids => (x \in rows <=> x \in wanted)
  BY DEF Alike

\* A request that changes the rows of one table, and is over.
LEMMA TableStep ==
    ASSUME StoreIInv, NEW r \in Reqs, boot = "up", Done(r),
           NEW t, t \in {"users", "roles"}, NEW rows, NEW wanted,
           db' = [db EXCEPT ![t] = rows], want' = [want EXCEPT ![t] = wanted],
           KeysFor(t, rows), \A x \in wanted : "id" \in DOMAIN x,
           tainted \subseteq tainted', Alike(rows, wanted, tainted'),
           touched' = TRUE, SetupOK', UNCHANGED <<boot, todo>>
    PROVE  StoreIInv'
<1>1. /\ req' = [o \in Reqs |-> req'[o]] /\ req'[r] = Idle
      /\ \A o \in Reqs : o # r => req'[o] = req[o]
  BY DEF StoreIInv, ReqsOK, Done
<1>2. ReqsOK'
  BY <1>1, IdleOK DEF StoreIInv, ReqsOK
<1>3. /\ db' = [s \in Tables |-> db'[s]] /\ db'[t] = rows /\ \A s \in Tables : s # t => db'[s] = db[s]
      /\ want' = [s \in {"users", "roles"} |-> want'[s]] /\ want'[t] = wanted
      /\ \A s \in {"users", "roles"} : s # t => want'[s] = want[s]
  BY DEF StoreIInv, KeysOK, Tables
<1>4. KeysOK'
  BY <1>3 DEF StoreIInv, KeysOK
<1>5. \A o \in Reqs : InsertsActive(o)' => InsertsActive(o)
  BY <1>1, IdleOK DEF InsertsActive, At
<1>6. db'.designs = db.designs
  BY <1>3 DEF Tables
<1>7. DesignsOK'
  BY <1>5, <1>6 DEF StoreIInv, DesignsOK
<1>8. SeedsOK'
  BY DEF StoreIInv, SeedsOK
<1>9. UntouchedOK'
  BY DEF UntouchedOK
<1>10. SerialChangesKept'
  <2>1. \A s \in {"users", "roles"} : Alike(db[s], want[s], tainted)
    BY DEF StoreIInv, KeysOK, SerialChangesKept, Alike
  <2>2. ASSUME NEW s, s \in {"users", "roles"}
        PROVE  Alike(db'[s], want'[s], tainted')
    <3>1. CASE s = t
      BY <1>3, <3>1
    <3>2. CASE s # t
      <4>1. db'[s] = db[s] /\ want'[s] = want[s]
        BY <1>3, <2>2, <3>2 DEF Tables
      <4>2. \A x : x.id \notin tainted => (x \in db[s] <=> x \in want[s])
        BY <2>1, <2>2, AlikeRows
      <4>3. \A x : x.id \notin tainted' => (x \in db[s] <=> x \in want[s])
        BY <4>2
      <4> QED
        BY <4>1, <4>3, AlikeRows
    <3> QED
      BY <3>1, <3>2
  <2>3. DOMAIN want' = {"users", "roles"}
    BY <1>3
  <2> QED
    BY <2>2, <2>3 DEF SerialChangesKept, Alike
<1> QED
  BY <1>2, <1>4, <1>7, <1>8, <1>9, <1>10 DEF StoreIInv

\* Rows with the fields of set put into those of an id.
EditAll(rows, id, set) == {IF x.id = id THEN Edit(x, set) ELSE x : x \in rows}

\* An edit that sets no id keeps it.
LEMMA EditId ==
    ASSUME NEW x, NEW set, "id" \in DOMAIN x, "id" \notin DOMAIN set
    PROVE  Edit(x, set).id = x.id /\ "id" \in DOMAIN Edit(x, set)
  BY EditFields

\* A saved copy of a row that was current is the row as it is wanted; a save
\* of any other taints its id.
LEMMA SaveAlike ==
    ASSUME NEW t, NEW rows, NEW wanted, NEW ids, NEW row, NEW set, NEW ids2,
           "id" \notin DOMAIN set, KeysFor(t, rows), Alike(rows, wanted, ids),
           \A x \in wanted : "id" \in DOMAIN x, ids \subseteq ids2,
           \A e \in Evicted(t, row, rows) : e.id = row.id \/ e.id \in ids2,
           row.id \notin ids2 => \E y \in rows : y.id = row.id /\ row = Edit(y, set)
    PROVE  Alike(Replace(t, row, rows), EditAll(wanted, row.id, set), ids2)
<1>1. \A x : x.id \notin ids2 => (x \in rows <=> x \in wanted)
  BY AlikeRows
<1>2. ASSUME NEW z, z.id \notin ids2, z \in Replace(t, row, rows)
      PROVE  z \in EditAll(wanted, row.id, set)
  <2>1. CASE z = row
    <3>1. PICK y \in rows : y.id = row.id /\ row = Edit(y, set)
      BY <1>2, <2>1
    <3>2. y \in wanted
      BY <1>1, <1>2, <2>1, <3>1
    <3> QED
      BY <2>1, <3>1, <3>2 DEF EditAll
  <2>2. CASE z # row
    <3>1. z \in rows /\ z.id # row.id
      BY <1>2, <2>2, ReplaceRows
    <3> QED
      BY <1>1, <1>2, <3>1 DEF EditAll
  <2> QED
    BY <2>1, <2>2
<1>3. ASSUME NEW z, z.id \notin ids2, z \in EditAll(wanted, row.id, set)
      PROVE  z \in Replace(t, row, rows)
  <2>1. PICK w \in wanted : z = IF w.id = row.id THEN Edit(w, set) ELSE w
    BY <1>3 DEF EditAll
  <2>2. z.id = w.id
    BY <2>1, EditId
  <2>3. w \in rows
    BY <1>1, <1>3, <2>1, <2>2
  <2>4. CASE w.id = row.id
    <3>1. PICK y \in rows : y.id = row.id /\ row = Edit(y, set)
      BY <1>3, <2>2, <2>4
    <3>2. w = y
      BY <2>3, <2>4, <3>1 DEF KeysFor
    <3> QED
      BY <2>1, <2>4, <3>1, <3>2, ReplaceRows
  <2>5. CASE w.id # row.id
    <3>1. w \notin Evicted(t, row, rows)
      BY <1>3, <2>2, <2>5
    <3> QED
      BY <2>1, <2>3, <2>5, <3>1, ReplaceRows
  <2> QED
    BY <2>4, <2>5
<1> QED
  BY <1>2, <1>3, AlikeRows

\* A new row is as it is wanted, and what it drops is tainted or has its id.
LEMMA MakeAlike ==
    ASSUME NEW t, NEW rows, NEW wanted, NEW ids, NEW row, NEW ids2,
           Alike(rows, wanted, ids), ids \subseteq ids2,
           \A e \in Evicted(t, row, rows) : e.id = row.id \/ e.id \in ids2
    PROVE  Alike(Replace(t, row, rows), (wanted \ Find(wanted, row.id)) \cup {row}, ids2)
<1>1. \A x : x.id \notin ids2 => (x \in rows <=> x \in wanted)
  BY AlikeRows
<1>2. ASSUME NEW z, z.id \notin ids2, z \in Replace(t, row, rows)
      PROVE  z \in (wanted \ Find(wanted, row.id)) \cup {row}
  BY <1>1, <1>2, ReplaceRows DEF Find
<1>3. ASSUME NEW z, z.id \notin ids2, z \in (wanted \ Find(wanted, row.id)) \cup {row}
      PROVE  z \in Replace(t, row, rows)
  <2>1. CASE z = row
    BY <2>1, ReplaceRows
  <2>2. CASE z # row
    <3>1. z \in rows /\ z.id # row.id
      BY <1>1, <1>3, <2>2 DEF Find
    <3> QED
      BY <1>3, <3>1, ReplaceRows
  <2> QED
    BY <2>1, <2>2
<1> QED
  BY <1>2, <1>3, AlikeRows

\* A column set in one statement, and a row deleted in one.
LEMMA PatchAlike ==
    ASSUME NEW rows, NEW wanted, NEW ids, NEW id, NEW set, "id" \notin DOMAIN set,
           Alike(rows, wanted, ids), \A x \in rows \cup wanted : "id" \in DOMAIN x
    PROVE  /\ Alike(EditAll(rows, id, set), EditAll(wanted, id, set), ids)
           /\ Alike(rows \ Find(rows, id), wanted \ Find(wanted, id), ids)
<1>1. \A x : x.id \notin ids => (x \in rows <=> x \in wanted)
  BY AlikeRows
<1>2. \A x \in rows \cup wanted : (IF x.id = id THEN Edit(x, set) ELSE x).id = x.id
  BY EditId
<1>3. Alike(rows \ Find(rows, id), wanted \ Find(wanted, id), ids)
  <2>1. \A x : x.id \notin ids => (x \in rows \ Find(rows, id) <=> x \in wanted \ Find(wanted, id))
    BY <1>1 DEF Find
  <2> QED
    BY <2>1, AlikeRows
<1>4. ASSUME NEW z, z.id \notin ids, z \in EditAll(rows, id, set)
      PROVE  z \in EditAll(wanted, id, set)
  <2>1. PICK w \in rows : z = IF w.id = id THEN Edit(w, set) ELSE w
    BY <1>4 DEF EditAll
  <2>2. w \in wanted
    BY <1>1, <1>2, <1>4, <2>1
  <2> QED
    BY <2>1, <2>2 DEF EditAll
<1>5. ASSUME NEW z, z.id \notin ids, z \in EditAll(wanted, id, set)
      PROVE  z \in EditAll(rows, id, set)
  <2>1. PICK w \in wanted : z = IF w.id = id THEN Edit(w, set) ELSE w
    BY <1>5 DEF EditAll
  <2>2. w \in rows
    BY <1>1, <1>2, <1>5, <2>1
  <2> QED
    BY <2>1, <2>2 DEF EditAll
<1> QED
  BY <1>3, <1>4, <1>5, AlikeRows

\* The edited copy is saved, whatever became of the row meanwhile.
LEMMA SaveKeeps ==
    ASSUME StoreIInv, NEW r \in Reqs, Save(r)
    PROVE  StoreIInv'
<1>1. /\ boot = "up" /\ req[r].st = "save" /\ req[r].c.op \in Readers \cup {"InitializeSetup"}
      /\ touched' = TRUE /\ Done(r) /\ UNCHANGED <<boot, todo>>
  BY DEF Save, At
<1>2. PICK c, x, seen, g : c = req[r].c /\ x = req[r].row /\ seen = req[r].seen /\ g = GetByID(c.t, x.id)
  OBVIOUS
<1>3. PICK t, set, rows, wanted : t = c.t /\ set = c.set /\ rows = db[t] /\ wanted = want[t]
  OBVIOUS
<1>4. /\ CallOK(c)
      /\ \E y \in seen : y # None /\ RowOK(t, y) /\ x = Edit(y, set)
      /\ c.op = "InitializeSetup" => \E v \in seen : Due(v)
  BY <1>1, <1>2, <1>3 DEF StoreIInv, ReqsOK, ReqOK, CopyOK
<1>5. PICK y \in seen : y # None /\ RowOK(t, y) /\ x = Edit(y, set)
  BY <1>4
<1>6. PICK F : /\ t \in {"users", "roles"} /\ DOMAIN set \subseteq F /\ "id" \notin F
               /\ t = "users" => F = UserFields \ {"id"}
               /\ t # "users" => t = "roles" /\ F = {"perm", "access"}
  <2>1. c.op \in OnUsers \/ c.op \in OnRoles
    BY <1>1, <1>2 DEF Readers, OnUsers, OnRoles
  <2>2. CASE c.op \in OnUsers
    BY <1>3, <1>4, <2>2 DEF CallOK
  <2>3. CASE c.op \in OnRoles
    BY <1>3, <1>4, <2>3 DEF CallOK
  <2> QED
    BY <2>1, <2>2, <2>3
<1>7. /\ RowOK(t, x) /\ x.id = y.id
      /\ "pwd" \notin DOMAIN set /\ t = "users" => x.pwd = y.pwd
      /\ "pwd" \in DOMAIN set => x.pwd = set.pwd
  BY <1>5, <1>6, EditRow
<1>8. /\ KeysFor(t, rows) /\ \A z \in wanted : "id" \in DOMAIN z
      /\ Alike(rows, wanted, tainted)
  BY <1>3, <1>6 DEF StoreIInv, KeysOK, Tables, SerialChangesKept, Alike
<1>9. /\ db' = [db EXCEPT ![t] = Replace(t, x, rows)]
      /\ want' = [want EXCEPT ![t] = EditAll(wanted, x.id, set)]
      /\ tainted' = tainted \cup {e.id : e \in Evicted(t, x, rows) \ Find(rows, x.id)}
                            \cup (IF seen # {g} THEN {x.id} ELSE {})
  BY <1>2, <1>3, <1>6 DEF Save, Wanted, EditAll, StoreIInv, KeysOK, Tables
<1>10. setups' = IF x.id # FirstId THEN setups
                 ELSE IF c.op = "InitializeSetup" THEN setups + 1
                 ELSE IF c.op = "ChangePassword" /\ x.pwd = DefaultPwd THEN 0
                 ELSE setups
  BY <1>2 DEF Save
<1>11. tainted \subseteq tainted' /\ \A e \in Evicted(t, x, rows) : e.id = x.id \/ e.id \in tainted'
  BY <1>9 DEF Find
<1>12. x.id \notin tainted' => seen = {g} /\ g = y /\ y \in rows
  <2>1. ASSUME x.id \notin tainted' PROVE seen = {g} /\ g = y
    BY <1>5, <1>9, <2>1
  <2>2. g = y => y \in rows
    BY <1>2, <1>3, <1>5, FindOne
  <2> QED
    BY <2>1, <2>2
<1>13. Alike(Replace(t, x, rows), EditAll(wanted, x.id, set), tainted')
  <2>1. x.id \notin tainted' => \E z \in rows : z.id = x.id /\ x = Edit(z, set)
    BY <1>5, <1>7, <1>12
  <2>2. "id" \notin DOMAIN set
    BY <1>6
  <2>3. PICK ids2 : ids2 = tainted'
    OBVIOUS
  <2> QED
    BY <1>8, <1>11, <2>1, <2>2, <2>3, SaveAlike
<1>14. \A z \in EditAll(wanted, x.id, set) : "id" \in DOMAIN z
  BY <1>6, <1>8, EditId DEF EditAll
<1>15. KeysFor(t, Replace(t, x, rows))
  BY <1>7, <1>8, ReplaceKeys
<1>16. SetupOK'
  <2>1. setups \in Nat /\ (setups > 0 /\ FirstId \notin tainted =>
            setups = 1 /\ \A u \in db.users : u.id = FirstId => u.pwd # DefaultPwd)
    BY DEF StoreIInv, SetupOK
  <2>2. t = "users" => db'.users = Replace(t, x, rows) /\ rows = db.users
    BY <1>3, <1>9 DEF StoreIInv, KeysOK, Tables
  <2>3. t # "users" => db'.users = db.users
    BY <1>6, <1>9 DEF StoreIInv, KeysOK, Tables
  <2>4. setups' \in Nat
    BY <1>10, <2>1
  <2>5. CASE t # "users"
    <3>1. c.op \in OnRoles \/ c.op \in OnUsers
      BY <1>1, <1>2 DEF Readers, OnUsers, OnRoles
    <3>2. c.op \notin {"InitializeSetup", "ChangePassword"}
      BY <1>3, <1>4, <2>5, <3>1 DEF CallOK, OnUsers, OnRoles
    <3> QED
      BY <1>10, <1>11, <2>1, <2>3, <2>5, <3>2 DEF SetupOK
  <2>6. CASE t = "users" /\ x.id # FirstId
    <3>1. \A u \in db'.users : u.id = FirstId => u \in db.users
      BY <2>2, <2>6, ReplaceRows
    <3> QED
      BY <1>10, <1>11, <2>1, <2>6, <3>1 DEF SetupOK
  <2>7. CASE t = "users" /\ x.id = FirstId
    <3>1. \A u \in db'.users : u.id = FirstId => u = x
      BY <2>2, <2>7, ReplaceRows
    <3>2. CASE FirstId \in tainted'
      BY <2>4, <3>2 DEF SetupOK
    <3>3. CASE FirstId \notin tainted'
      <4>1. seen = {g} /\ g = y /\ y \in db.users /\ y.id = FirstId /\ FirstId \notin tainted
        BY <1>7, <1>11, <1>12, <2>2, <2>7, <3>3
      <4>2. CASE c.op = "InitializeSetup"
        <5>1. y.pwd = DefaultPwd
          BY <1>4, <1>5, <4>1, <4>2 DEF Due
        <5>2. setups' = 1
          BY <1>10, <2>1, <2>7, <4>1, <4>2, <5>1
        <5>3. x.pwd # DefaultPwd
          BY <1>3, <1>4, <1>7, <4>2 DEF CallOK
        <5> QED
          BY <3>1, <5>2, <5>3 DEF SetupOK
      <4>3. CASE c.op = "ChangePassword" /\ x.pwd = DefaultPwd
        <5>1. setups' = 0
          BY <1>10, <2>7, <4>3
        <5> QED
          BY <5>1 DEF SetupOK
      <4>4. CASE c.op # "InitializeSetup" /\ ~(c.op = "ChangePassword" /\ x.pwd = DefaultPwd)
        <5>1. setups' = setups
          BY <1>10, <2>7, <4>4
        <5>2. y.pwd # DefaultPwd => x.pwd # DefaultPwd
          <6>1. CASE "pwd" \in DOMAIN set
            <7>1. c.op \in OnUsers
              BY <1>1, <1>2, <1>3, <1>4, <2>7 DEF CallOK, Readers, OnUsers, OnRoles
            <7>2. c.op = "ChangePassword"
              BY <1>1, <1>2, <1>3, <1>4, <4>4, <6>1, <7>1 DEF CallOK, Readers, SetPassword
            <7> QED
              BY <4>4, <7>2
          <6>2. CASE "pwd" \notin DOMAIN set
            BY <1>7, <2>7, <6>2
          <6> QED
            BY <6>1, <6>2
        <5> QED
          BY <2>1, <2>4, <3>1, <4>1, <5>1, <5>2 DEF SetupOK
      <4> QED
        BY <4>2, <4>3, <4>4
    <3> QED
      BY <3>2, <3>3
  <2> QED
    BY <2>5, <2>6, <2>7
<1> QED
  BY <1>1, <1>6, <1>9, <1>11, <1>13, <1>14, <1>15, <1>16, TableStep

\* A new row, made of the request alone, may drop others.
LEMMA CreateKeeps ==
    ASSUME StoreIInv, NEW r \in Reqs, Create(r)
    PROVE  StoreIInv'
<1>1. /\ boot = "up" /\ req[r].st = "write" /\ req[r].c.op \in {"CreateUser", "CreateRole"}
      /\ touched' = TRUE /\ Done(r) /\ UNCHANGED <<boot, todo, setups>>
  BY DEF Create, At
<1>2. PICK c, y, x : /\ c = req[r].c
                     /\ y = IF c.t = "users" THEN UserRow(c.id, "", "", "") ELSE [id |-> c.id]
                     /\ x = Edit(y, c.set)
  OBVIOUS
<1>3. PICK t, set, rows, wanted : t = c.t /\ set = c.set /\ rows = db[t] /\ wanted = want[t]
  OBVIOUS
<1>4. CallOK(c)
  BY <1>1, <1>2 DEF StoreIInv, ReqsOK, ReqOK
<1>5. PICK F : /\ t \in {"users", "roles"} /\ DOMAIN set \subseteq F /\ "id" \notin F
               /\ t = "users" => F = UserFields \ {"id"}
               /\ t # "users" => t = "roles" /\ F = {"perm", "access"}
  <2>1. c.op \in OnUsers \/ c.op \in OnRoles
    BY <1>1, <1>2 DEF OnUsers, OnRoles
  <2>2. CASE c.op \in OnUsers
    BY <1>3, <1>4, <2>2 DEF CallOK
  <2>3. CASE c.op \in OnRoles
    BY <1>3, <1>4, <2>3 DEF CallOK
  <2> QED
    BY <2>1, <2>2, <2>3
<1>6. RowOK(t, y) /\ y.id = c.id
  BY <1>2, <1>3, <1>5 DEF RowOK, UserRow, UserFields
<1>7. RowOK(t, x) /\ x.id = c.id
  <2>1. x = Edit(y, set)
    BY <1>2, <1>3
  <2>2. RowOK(t, Edit(y, set)) /\ Edit(y, set).id = y.id
    BY <1>5, <1>6, EditRow
  <2> QED
    BY <1>6, <2>1, <2>2
<1>8. /\ KeysFor(t, rows) /\ \A z \in wanted : "id" \in DOMAIN z
      /\ Alike(rows, wanted, tainted)
  BY <1>3, <1>5 DEF StoreIInv, KeysOK, Tables, SerialChangesKept, Alike
<1>9. /\ db' = [db EXCEPT ![t] = Replace(t, x, rows)]
      /\ want' = [want EXCEPT ![t] = (wanted \ Find(wanted, x.id)) \cup {x}]
      /\ tainted' = tainted \cup {e.id : e \in Evicted(t, x, rows)}
  BY <1>2, <1>3, <1>5 DEF Create, StoreIInv, KeysOK, Tables
<1>10. Alike(Replace(t, x, rows), (wanted \ Find(wanted, x.id)) \cup {x}, tainted')
  <2>1. PICK ids2 : ids2 = tainted'
    OBVIOUS
  <2>2. \A e \in Evicted(t, x, rows) : e.id \in ids2
    BY <1>9, <2>1
  <2>3. tainted \subseteq ids2
    BY <1>9, <2>1
  <2> QED
    BY <1>8, <2>1, <2>2, <2>3, MakeAlike
<1>11. \A z \in (wanted \ Find(wanted, x.id)) \cup {x} : "id" \in DOMAIN z
  BY <1>7, <1>8 DEF RowOK
<1>12. KeysFor(t, Replace(t, x, rows))
  BY <1>7, <1>8, ReplaceKeys
<1>13. SetupOK'
  <2>1. t = "users" => db'.users = Replace(t, x, rows) /\ rows = db.users
    BY <1>3, <1>9 DEF StoreIInv, KeysOK, Tables
  <2>2. t # "users" => db'.users = db.users
    BY <1>5, <1>9 DEF StoreIInv, KeysOK, Tables
  <2>3. t = "users" => x.id # FirstId
    BY <1>1, <1>2, <1>3, <1>4, <1>7 DEF CallOK, OnRoles
  <2>4. \A u \in db'.users : u.id = FirstId => u \in db.users
    BY <2>1, <2>2, <2>3, ReplaceRows
  <2> QED
    BY <1>1, <1>9, <2>4 DEF StoreIInv, SetupOK
<1>14. tainted \subseteq tainted'
  BY <1>9
<1> QED
  BY <1>1, <1>5, <1>9, <1>10, <1>11, <1>12, <1>13, <1>14, TableStep

\* A column is set where the row is, in one statement.
LEMMA PatchKeeps ==
    ASSUME StoreIInv, NEW r \in Reqs, Patch(r)
    PROVE  StoreIInv'
<1>1. /\ boot = "up" /\ req[r].st = "write" /\ req[r].c.op = "SetUserDBAccess"
      /\ touched' = TRUE /\ Done(r) /\ UNCHANGED <<boot, todo, setups, tainted>>
  BY DEF Patch, At
<1>2. PICK set, id, rows, wanted : /\ set = req[r].c.set /\ id = req[r].c.id
                                   /\ rows = db.users /\ wanted = want.users
  OBVIOUS
<1>3. DOMAIN set = {"access"}
  BY <1>1, <1>2 DEF StoreIInv, ReqsOK, ReqOK, CallOK
<1>4. /\ KeysFor("users", rows) /\ \A z \in wanted : "id" \in DOMAIN z
      /\ Alike(rows, wanted, tainted)
  BY <1>2 DEF StoreIInv, KeysOK, Tables, SerialChangesKept, Alike
<1>5. /\ db' = [db EXCEPT !["users"] = EditAll(rows, id, set)]
      /\ want' = [want EXCEPT !["users"] = EditAll(wanted, id, set)]
  BY ZenonT(40), <1>2 DEF Patch, Wanted, EditAll, StoreIInv, KeysOK, Tables
<1>6. ASSUME NEW u \in rows
      PROVE  LET e == IF u.id = id THEN Edit(u, set) ELSE u IN
             RowOK("users", e) /\ e.id = u.id /\ e.name = u.name /\ e.pwd = u.pwd
  <2>1. RowOK("users", u)
    BY <1>4 DEF KeysFor
  <2>2. RowOK("users", Edit(u, set)) /\ Edit(u, set).id = u.id /\ Edit(u, set).name = u.name
        /\ Edit(u, set).pwd = u.pwd
    <3>1. PICK F : F = UserFields \ {"id"} /\ DOMAIN set \subseteq F /\ "name" \notin DOMAIN set /\ "pwd" \notin DOMAIN set
      BY <1>3 DEF UserFields
    <3> QED
      BY <2>1, <3>1, EditRow
  <2> QED
    BY <2>1, <2>2
<1>7. \A x \in EditAll(rows, id, set) : /\ RowOK("users", x)
         /\ \E u \in rows : x = (IF u.id = id THEN Edit(u, set) ELSE u)
                /\ x.id = u.id /\ x.name = u.name /\ x.pwd = u.pwd
  BY <1>6 DEF EditAll
<1>8. KeysFor("users", EditAll(rows, id, set))
  <2>1. \A u, v \in rows : u.id = v.id \/ u.name = v.name => u = v
    BY <1>4 DEF KeysFor
  <2>2. \A x, y \in EditAll(rows, id, set) : x.id = y.id \/ x.name = y.name => x = y
    BY <1>7, <2>1
  <2> QED
    BY <1>7, <2>2 DEF KeysFor
<1>9. \A z \in EditAll(wanted, id, set) : "id" \in DOMAIN z
  BY <1>3, <1>4, EditId DEF EditAll
<1>10. Alike(EditAll(rows, id, set), EditAll(wanted, id, set), tainted)
  <2>1. \A x \in rows \cup wanted : "id" \in DOMAIN x
    BY <1>4 DEF KeysFor, RowOK
  <2>2. PICK ids : ids = tainted
    OBVIOUS
  <2> QED
    BY <1>3, <1>4, <2>1, <2>2, PatchAlike
<1>11. SetupOK'
  <2>1. db'.users = EditAll(rows, id, set)
    BY <1>5 DEF StoreIInv, KeysOK, Tables
  <2> QED
    BY <1>1, <1>2, <1>7, <2>1 DEF StoreIInv, SetupOK
<1> QED
  BY <1>1, <1>5, <1>8, <1>9, <1>10, <1>11, TableStep

\* A row is deleted.
LEMMA DeleteKeeps ==
    ASSUME StoreIInv, NEW r \in Reqs, Delete(r)
    PROVE  StoreIInv'
<1>1. /\ boot = "up" /\ req[r].st = "write" /\ req[r].c.op \in {"DeleteUser", "DeleteRole"}
      /\ touched' = TRUE /\ Done(r) /\ UNCHANGED <<boot, todo, setups, tainted>>
  BY DEF Delete, At
<1>2. PICK t, id, rows, wanted : /\ t = req[r].c.t /\ id = req[r].c.id
                                 /\ rows = db[t] /\ wanted = want[t]
  OBVIOUS
<1>3. t \in {"users", "roles"}
  BY <1>1, <1>2 DEF StoreIInv, ReqsOK, ReqOK, CallOK, OnUsers, OnRoles
<1>4. /\ KeysFor(t, rows) /\ \A z \in wanted : "id" \in DOMAIN z
      /\ Alike(rows, wanted, tainted)
  BY <1>2, <1>3 DEF StoreIInv, KeysOK, Tables, SerialChangesKept, Alike
<1>5. /\ db' = [db EXCEPT ![t] = rows \ Find(rows, id)]
      /\ want' = [want EXCEPT ![t] = wanted \ Find(wanted, id)]
  BY <1>2, <1>3 DEF Delete, StoreIInv, KeysOK, Tables
<1>6. KeysFor(t, rows \ Find(rows, id)) /\ \A z \in wanted \ Find(wanted, id) : "id" \in DOMAIN z
  BY <1>4 DEF KeysFor
<1>7. Alike(rows \ Find(rows, id), wanted \ Find(wanted, id), tainted)
  <2>1. \A x \in rows \cup wanted : "id" \in DOMAIN x
    BY <1>4 DEF KeysFor, RowOK
  <2>2. PICK ids : ids = tainted
    OBVIOUS
  <2>3. PICK set : set = [access |-> {}]
    OBVIOUS
  <2>4. "id" \notin DOMAIN set
    BY <2>3
  <2> QED
    BY <1>4, <2>1, <2>2, <2>4, PatchAlike
<1>8. SetupOK'
  <2>1. db'.users \subseteq db.users
    BY <1>2, <1>3, <1>5 DEF StoreIInv, KeysOK, Tables
  <2> QED
    BY <1>1, <2>1 DEF StoreIInv, SetupOK
<1> QED
  BY <1>1, <1>3, <1>5, <1>6, <1>7, <1>8, TableStep

\* Nothing is lost when accounts and roles stay as they are.
LEMMA KeptMore ==
    ASSUME StoreIInv, tainted \subseteq tainted', want' = want,
           db'.users = db.users, db'.roles = db.roles
    PROVE  SerialChangesKept'
<1>1. DOMAIN want = {"users", "roles"}
  BY DEF StoreIInv, KeysOK
<1>2. \A t \in {"users", "roles"} : Alike(db[t], want[t], tainted)
  BY <1>1 DEF StoreIInv, SerialChangesKept, Alike
<1>3. ASSUME NEW t, t \in {"users", "roles"}
      PROVE  Alike(db'[t], want'[t], tainted')
  <2>1. db'[t] = db[t]
    BY <1>3
  <2>2. \A x : x.id \notin tainted => (x \in db[t] <=> x \in want[t])
    BY <1>2, <1>3, AlikeRows
  <2>3. \A x : x.id \notin tainted' => (x \in db'[t] <=> x \in want'[t])
    BY <2>1, <2>2
  <2> QED
    BY <2>3, AlikeRows
<1> QED
  BY <1>1, <1>3 DEF SerialChangesKept, Alike

\* What a step on designs leaves alone.
LEMMA DesignStep ==
    ASSUME StoreIInv, NEW r \in Reqs, NEW q, ReqOK(q), boot = "up",
           req' = [req EXCEPT ![r] = q], NEW rows,
           db' = [db EXCEPT !.designs = rows], KeysFor("designs", rows),
           tainted \subseteq tainted', UNCHANGED <<boot, todo, want, setups, touched>>,
           DesignsOK'
    PROVE  StoreIInv'
<1>1. req' = [o \in Reqs |-> req'[o]] /\ req'[r] = q
      /\ \A o \in Reqs : o # r => req'[o] = req[o]
  BY DEF StoreIInv, ReqsOK
<1>2. ReqsOK'
  BY <1>1 DEF StoreIInv, ReqsOK
<1>3. /\ db' = [t \in Tables |-> db'[t]] /\ db'.designs = rows
      /\ db'.users = db.users /\ db'.roles = db.roles
  BY DEF StoreIInv, KeysOK, Tables
<1>4. KeysOK'
  BY <1>3 DEF StoreIInv, KeysOK, KeysFor, Tables
<1>5. SeedsOK'
  BY DEF StoreIInv, SeedsOK
<1>6. UntouchedOK'
  BY <1>3 DEF StoreIInv, UntouchedOK
<1>7. SetupOK'
  BY <1>3 DEF StoreIInv, SetupOK
<1>8. SerialChangesKept'
  BY <1>3, KeptMore
<1> QED
  BY <1>2, <1>4, <1>5, <1>6, <1>7, <1>8 DEF StoreIInv

\* The other designs are made inactive.
LEMMA DeactivateKeeps ==
    ASSUME StoreIInv, NEW r \in Reqs, Deactivate(r)
    PROVE  StoreIInv'
<1>1. boot = "up" /\ req[r].st = "deactivate" /\ req[r].c.op = "SaveDesign"
  BY DEF Deactivate, At
<1>2. PICK rows, new : rows = db.designs /\ new = {[d EXCEPT !.active = FALSE] : d \in rows}
  OBVIOUS
<1>3. PICK q : q = [req[r] EXCEPT !.st = "write"]
  OBVIOUS
<1>4. req' = [req EXCEPT ![r] = q]
  BY <1>3 DEF Deactivate, StoreIInv, ReqsOK
<1>5. CallOK(req[r].c) /\ DOMAIN req[r] = {"c", "seen", "row", "st"}
  BY <1>1 DEF StoreIInv, ReqsOK, ReqOK
<1>6. q.c = req[r].c /\ q.st = "write" /\ DOMAIN q = DOMAIN req[r]
  BY <1>3, <1>5
<1>7. ReqOK(q)
  BY <1>5, <1>6 DEF ReqOK
<1>8. \A d \in rows : RowOK("designs", d)
  BY <1>2 DEF StoreIInv, KeysOK, KeysFor, Tables
<1>9. \A x \in new : \E d \in rows : x = [d EXCEPT !.active = FALSE] /\ RowOK("designs", x)
                                  /\ x.id = d.id /\ ~x.active
  BY <1>2, <1>8 DEF RowOK
<1>10. KeysFor("designs", new)
  <2>1. \A d, e \in rows : d.id = e.id => d = e
    BY <1>2 DEF StoreIInv, KeysOK, KeysFor, Tables
  <2>2. ASSUME NEW x \in new, NEW y \in new, x.id = y.id
        PROVE  x = y
    <3>1. PICK d \in rows : x = [d EXCEPT !.active = FALSE] /\ x.id = d.id
      BY <1>9
    <3>2. PICK e \in rows : y = [e EXCEPT !.active = FALSE] /\ y.id = e.id
      BY <1>9
    <3>3. d = e
      BY <2>1, <2>2, <3>1, <3>2
    <3> QED
      BY <3>1, <3>2, <3>3
  <2> QED
    BY <1>9, <2>2 DEF KeysFor
<1>11. /\ db' = [db EXCEPT !.designs = new]
       /\ tainted' = tainted \cup (IF \E o \in Reqs : InsertsActive(o) THEN {Id("designs")} ELSE {})
       /\ UNCHANGED <<boot, todo, want, setups, touched>>
  BY <1>2 DEF Deactivate
<1>12. db'.designs = new
  BY <1>11 DEF StoreIInv, KeysOK, Tables
<1>13. DesignsOK'
  <2> SUFFICES ASSUME Id("designs") \notin tainted'
               PROVE  /\ \A o, s \in Reqs : InsertsActive(o)' /\ InsertsActive(s)' => o = s
                      /\ \A d \in db'.designs : ~d.active
    BY DEF DesignsOK
  <2>1. \A o \in Reqs : ~InsertsActive(o)
    BY <1>11
  <2>2. \A o \in Reqs : o # r => ~InsertsActive(o)'
    <3>1. \A o \in Reqs : o # r => req'[o] = req[o]
      BY <1>4 DEF StoreIInv, ReqsOK
    <3> QED
      BY <1>11, <2>1, <3>1 DEF InsertsActive, At
  <2> QED
    BY <1>9, <1>12, <2>2
<1> QED
  BY <1>1, <1>4, <1>7, <1>10, <1>11, <1>13, DesignStep

\* A design is inserted, unless there is one of that id.
LEMMA InsertDesignKeeps ==
    ASSUME StoreIInv, NEW r \in Reqs, InsertDesign(r)
    PROVE  StoreIInv'
<1>1. boot = "up" /\ req[r].st = "write" /\ req[r].c.op = "SaveDesign"
      /\ Done(r) /\ UNCHANGED <<boot, todo, hist>>
  BY DEF InsertDesign, At
<1>2. PICK c, rows : c = req[r].c /\ rows = db.designs
  OBVIOUS
<1>3. DOMAIN c.set = {"active"} /\ c.set.active \in BOOLEAN
  BY <1>1, <1>2 DEF StoreIInv, ReqsOK, ReqOK, CallOK
<1>4. PICK y : y = [id |-> c.id]
  OBVIOUS
<1>5. PICK x : x = Edit(y, c.set)
  OBVIOUS
<1>6. RowOK("designs", x) /\ x.id = c.id /\ x.active = c.set.active
  <2>1. DOMAIN y = {"id"} /\ y.id = c.id
    BY <1>4
  <2>2. PICK set : set = c.set
    OBVIOUS
  <2>3. x = Edit(y, set)
    BY <1>5, <2>2
  <2>4. /\ DOMAIN Edit(y, set) = DOMAIN y \cup DOMAIN set
        /\ \A f \in DOMAIN set : Edit(y, set)[f] = set[f]
        /\ \A f \in DOMAIN y \ DOMAIN set : Edit(y, set)[f] = y[f]
    BY EditFields
  <2>5. x.active = c.set.active /\ "active" \in DOMAIN x
    BY <1>3, <2>2, <2>3, <2>4
  <2>6. "id" \in DOMAIN y \ DOMAIN c.set
    BY <1>3, <2>1
  <2>7. x.id = c.id /\ "id" \in DOMAIN x
    BY <2>1, <2>2, <2>6, <2>3, <2>4
  <2> QED
    BY <1>3, <2>5, <2>7 DEF RowOK
<1>7. PICK new : new = IF Find(rows, c.id) # {} THEN rows ELSE rows \cup {x}
  OBVIOUS
<1>8. db' = [db EXCEPT !.designs = new]
  BY <1>2, <1>4, <1>5, <1>7 DEF InsertDesign, StoreIInv, KeysOK, Tables
<1>9. KeysFor("designs", new)
  <2>1. KeysFor("designs", rows)
    BY <1>2 DEF StoreIInv, KeysOK, Tables
  <2>2. Find(rows, c.id) = {} => \A d \in rows : d.id # x.id
    BY <1>6 DEF Find
  <2> QED
    BY <1>6, <1>7, <2>1, <2>2 DEF KeysFor
<1>10. req' = [req EXCEPT ![r] = Idle] /\ req'[r] = Idle /\ \A o \in Reqs : o # r => req'[o] = req[o]
  BY <1>1 DEF Done, StoreIInv, ReqsOK
<1>11. DesignsOK'
  <2> SUFFICES ASSUME Id("designs") \notin tainted
               PROVE  /\ \A o, s \in Reqs : InsertsActive(o)' /\ InsertsActive(s)' => o = s
                      /\ (\E o \in Reqs : InsertsActive(o)') => \A d \in db'.designs : ~d.active
                      /\ \A d, e \in db'.designs : d.active /\ e.active => d = e
    BY <1>1 DEF DesignsOK, hist
  <2>1. /\ \A o, s \in Reqs : InsertsActive(o) /\ InsertsActive(s) => o = s
        /\ (\E o \in Reqs : InsertsActive(o)) => \A d \in rows : ~d.active
        /\ \A d, e \in rows : d.active /\ e.active => d = e
    BY <1>2 DEF StoreIInv, DesignsOK
  <2>2. \A o \in Reqs : InsertsActive(o)' => InsertsActive(o) /\ o # r
    BY <1>1, <1>10, IdleOK DEF InsertsActive, At
  <2>3. x.active => InsertsActive(r)
    BY <1>1, <1>2, <1>6 DEF InsertsActive, At
  <2>4. db'.designs = new /\ new \subseteq rows \cup {x}
    BY <1>7, <1>8 DEF StoreIInv, KeysOK, Tables
  <2>5. \A o, s \in Reqs : InsertsActive(o)' /\ InsertsActive(s)' => o = s
    BY <2>1, <2>2
  <2>6. (\E o \in Reqs : InsertsActive(o)') => \A d \in new : ~d.active
    BY <2>1, <2>2, <2>3, <2>4
  <2>7. \A d, e \in new : d.active /\ e.active => d = e
    BY <2>1, <2>3, <2>4
  <2> QED
    BY <2>4, <2>5, <2>6, <2>7
<1> QED
  BY <1>1, <1>8, <1>9, <1>10, <1>11, IdleOK, DesignStep DEF hist

\* The built-in roles and the accounts of GODB_ADMIN_PUBKEYS are rows, and
\* none of those is the default account.
LEMMA SeededRows ==
    /\ DefaultRoles \in Seq(Builtins)
    /\ \A x \in Builtins : RowOK("roles", x)
    /\ \A x \in PubRows : RowOK("users", x) /\ x.role = "admin" /\ x.id # FirstId
    /\ \A x, y \in PubRows : x.name = y.name => x.id = y.id
<1>1. DefaultRoles \in Seq(Builtins)
  BY DEF DefaultRoles, Builtins
<1>2. \A x \in Builtins : RowOK("roles", x)
  BY DEF DefaultRoles, Builtins, RowOK
<1>3. \A n : PubId(n) # FirstId
  BY DEF PubId, FirstId, Id
<1>4. \A x \in PubRows : \E n \in PubAdmins : /\ DOMAIN x = UserFields /\ x.role = "admin"
                                          /\ x.id = PubId(n) /\ x.name = n
  BY DEF PubRows, UserRow, UserFields
<1> QED
  BY <1>1, <1>2, <1>3, <1>4 DEF RowOK, UserFields

\* Any order of them is a sequence of them.
LEMMA PubRowsInOrder ==
    ASSUME NEW s \in SetToSeqs(PubRows)
    PROVE  s \in Seq(PubRows)
<1>1. IsFiniteSet(PubRows)
  <2> DEFINE f == [n \in PubAdmins |-> UserRow(PubId(n), n, "pubkey-only", "admin")]
  <2>1. f \in Surjection(PubAdmins, PubRows)
    BY DEF PubRows, Surjection
  <2> QED
    BY StoreAssumption, <2>1, FS_Surjection
<1>2. Cardinality(PubRows) \in Nat
  BY <1>1, FS_CardinalityType
<1>3. PICK n \in Nat : n = Cardinality(PubRows)
  BY <1>2
<1>4. s \in [1..n -> PubRows]
  BY <1>3 DEF SetToSeqs
<1> QED
  BY <1>4

\* Open counts the roles, and seeds them when there are none.
LEMMA CountRolesKeeps ==
    ASSUME StoreIInv, CountRoles
    PROVE  StoreIInv'
<1>1. boot = "down" /\ boot' = "roles" /\ todo' \in Seq(Builtins) /\ UNCHANGED <<db, req, hist>>
  BY SeededRows DEF CountRoles
<1>2. \A r \in Reqs : ~InsertsActive(r)'
  BY <1>1 DEF InsertsActive, At
<1>3. KeysOK'
  BY <1>1 DEF StoreIInv, KeysOK, hist
<1>4. ReqsOK'
  BY <1>1 DEF StoreIInv, ReqsOK, Busy
<1>5. DesignsOK'
  BY <1>1, <1>2 DEF StoreIInv, DesignsOK, hist
<1> QED
  BY <1>1, <1>3, <1>4, <1>5 DEF StoreIInv, SeedsOK, UntouchedOK, SetupOK, SerialChangesKept, hist

\* A row is seeded into roles or users, and drops none but its own.
LEMMA SeedStep ==
    ASSUME StoreIInv, boot # "up", NEW t, t \in {"users", "roles"}, NEW x, RowOK(t, x),
           db' = [db EXCEPT ![t] = Replace(t, x, @)],
           want' = [want EXCEPT ![t] = (@ \ Find(@, x.id)) \cup {x}],
           \A e \in Evicted(t, x, db[t]) : e.id = x.id, UNCHANGED <<req, tainted, touched>>,
           SetupOK', SeedsOK', UntouchedOK', boot' = "up" \/ UNCHANGED boot
    PROVE  StoreIInv'
<1>1. PICK rows, wanted, ids : rows = db[t] /\ wanted = want[t] /\ ids = tainted
  OBVIOUS
<1>2. /\ db' = [s \in Tables |-> db'[s]] /\ db'[t] = Replace(t, x, rows)
      /\ \A s \in Tables : s # t => db'[s] = db[s]
      /\ want' = [s \in {"users", "roles"} |-> want'[s]]
      /\ want'[t] = (wanted \ Find(wanted, x.id)) \cup {x}
      /\ \A s \in {"users", "roles"} : s # t => want'[s] = want[s]
  BY <1>1 DEF StoreIInv, KeysOK, Tables
<1>3. KeysFor(t, Replace(t, x, rows))
  BY <1>1, ReplaceKeys DEF StoreIInv, KeysOK, Tables
<1>4. \A z \in (wanted \ Find(wanted, x.id)) \cup {x} : "id" \in DOMAIN z
  BY <1>1 DEF StoreIInv, KeysOK, RowOK
<1>5. KeysOK'
  BY <1>2, <1>3, <1>4 DEF StoreIInv, KeysOK
<1>6. ReqsOK'
  BY DEF StoreIInv, ReqsOK, Busy
<1>7. \A r \in Reqs : ~InsertsActive(r)'
  BY DEF StoreIInv, ReqsOK, Busy, InsertsActive, At
<1>8. DesignsOK'
  BY <1>2, <1>7 DEF StoreIInv, DesignsOK, Tables
<1>9. \A s \in {"users", "roles"} : Alike(db[s], want[s], tainted)
  BY DEF StoreIInv, KeysOK, SerialChangesKept, Alike
<1>10. Alike(Replace(t, x, rows), (wanted \ Find(wanted, x.id)) \cup {x}, ids)
  BY <1>1, <1>9, MakeAlike
<1>11. \A s \in {"users", "roles"} : Alike(db'[s], want'[s], tainted')
  BY <1>1, <1>2, <1>9, <1>10 DEF Tables
<1>12. SerialChangesKept'
  BY <1>2, <1>11 DEF SerialChangesKept, Alike
<1> QED
  BY <1>5, <1>6, <1>8, <1>12 DEF StoreIInv

\* One round of a seeding loop.
LEMMA SeedRowKeeps ==
    ASSUME StoreIInv, SeedRow
    PROVE  StoreIInv'
<1>1. boot \in {"roles", "users"} /\ todo # <<>> /\ todo' = Tail(todo)
      /\ UNCHANGED <<boot, req, tainted, setups, touched>>
  BY DEF SeedRow
<1>2. PICK x : x = Head(todo)
  OBVIOUS
<1>3. /\ db' = [db EXCEPT ![boot] = Replace(boot, x, @)]
      /\ want' = [want EXCEPT ![boot] = (@ \ Find(@, x.id)) \cup {x}]
  BY <1>2 DEF SeedRow
<1>4. CASE boot = "roles"
  <2>1. x \in Builtins /\ todo' \in Seq(Builtins)
    BY <1>1, <1>2, <1>4 DEF StoreIInv, SeedsOK
  <2>2. RowOK("roles", x)
    BY <2>1, SeededRows
  <2>3. \A e \in Evicted("roles", x, db["roles"]) : e.id = x.id
    BY DEF Evicted
  <2>4. /\ db'.users = db.users /\ db'.roles = Replace("roles", x, db.roles)
    BY <1>3, <1>4 DEF StoreIInv, KeysOK, Tables
  <2>5. SetupOK'
    BY <1>1, <2>4 DEF StoreIInv, SetupOK
  <2>6. SeedsOK'
    BY <1>1, <1>4, <2>1 DEF SeedsOK
  <2>7. UntouchedOK'
    BY <1>1, <1>4, <2>1, <2>4 DEF StoreIInv, UntouchedOK, Replace
  <2> QED
    BY <1>1, <1>3, <1>4, <2>2, <2>3, <2>5, <2>6, <2>7, SeedStep
<1>5. CASE boot = "users"
  <2>1. x \in PubRows /\ todo' \in Seq(PubRows) /\ db.users \subseteq PubRows
    BY <1>1, <1>2, <1>5 DEF StoreIInv, SeedsOK
  <2>2. RowOK("users", x) /\ x.role = "admin" /\ x.id # FirstId
    BY <2>1, SeededRows
  <2>3. \A e \in Evicted("users", x, db["users"]) : e.id = x.id
    <3>1. \A e \in db["users"] : e.name = x.name => e.id = x.id
      BY <2>1, SeededRows
    <3> QED
      BY <3>1 DEF Evicted
  <2>4. /\ db'.roles = db.roles /\ db'.users = Replace("users", x, db.users)
    BY <1>3, <1>5 DEF StoreIInv, KeysOK, Tables
  <2>5. \A u \in db'.users : u = x \/ u \in db.users
    BY <2>4 DEF Replace
  <2>6. SetupOK'
    BY <1>1, <2>2, <2>5 DEF StoreIInv, SetupOK
  <2>7. SeedsOK'
    BY <1>1, <1>5, <2>1, <2>5 DEF SeedsOK
  <2>8. UntouchedOK'
    BY <1>1, <1>5, <2>2, <2>4, <2>5 DEF StoreIInv, UntouchedOK
  <2> QED
    BY <1>1, <1>3, <1>5, <2>2, <2>3, <2>6, <2>7, <2>8, SeedStep
<1> QED
  BY <1>1, <1>4, <1>5

\* Then it counts the users.
LEMMA CountUsersKeeps ==
    ASSUME StoreIInv, CountUsers
    PROVE  StoreIInv'
<1>1. boot = "roles" /\ UNCHANGED <<db, req, hist>>
      /\ IF db.users = {} THEN boot' = "users" /\ todo' \in SetToSeqs(PubRows) ELSE boot' = "up"
  BY DEF CountUsers, PubRows
<1>2. \A r \in Reqs : ~InsertsActive(r)'
  BY <1>1 DEF StoreIInv, ReqsOK, InsertsActive, At, Busy
<1>3. KeysOK'
  BY <1>1 DEF StoreIInv, KeysOK, hist
<1>4. ReqsOK'
  BY <1>1 DEF StoreIInv, ReqsOK, Busy
<1>5. DesignsOK'
  BY <1>1, <1>2 DEF StoreIInv, DesignsOK, hist
<1>6. SeedsOK'
  BY <1>1, PubRowsInOrder DEF SeedsOK
<1>7. UntouchedOK'
  BY <1>1 DEF StoreIInv, UntouchedOK, hist
<1> QED
  BY <1>1, <1>3, <1>4, <1>5, <1>6, <1>7 DEF StoreIInv, SetupOK, SerialChangesKept, hist

\* The default account is seeded when no other is named admin.
LEMMA SeedAdminKeeps ==
    ASSUME StoreIInv, SeedAdmin
    PROVE  StoreIInv'
<1>1. boot = "users" /\ boot' = "up" /\ UNCHANGED <<todo, req, tainted, touched>>
  BY DEF SeedAdmin
<1>2. SeedsOK'
  BY <1>1 DEF SeedsOK
<1>3. CASE GetUser("admin") # None
  <2>1. UNCHANGED <<db, want, setups>>
    BY <1>3 DEF SeedAdmin
  <2>2. db.users # {}
    BY <1>3, FindUser
  <2>3. KeysOK'
    BY <2>1 DEF StoreIInv, KeysOK
  <2>4. ReqsOK'
    BY <1>1 DEF StoreIInv, ReqsOK, Busy
  <2>5. \A r \in Reqs : ~InsertsActive(r)'
    BY <1>1 DEF StoreIInv, ReqsOK, InsertsActive, At, Busy
  <2>6. DesignsOK'
    BY <1>1, <2>1, <2>5 DEF StoreIInv, DesignsOK
  <2>7. UntouchedOK'
    BY <1>1, <2>1, <2>2 DEF StoreIInv, UntouchedOK
  <2> QED
    BY <1>1, <1>2, <2>1, <2>3, <2>4, <2>6, <2>7 DEF StoreIInv, SetupOK, SerialChangesKept
<1>4. CASE GetUser("admin") = None
  <2>1. PICK x : x = UserRow(FirstId, "admin", DefaultPwd, "admin")
    OBVIOUS
  <2>2. /\ RowOK("users", x) /\ x.id = FirstId /\ x.name = "admin" /\ x.role = "admin"
    BY <2>1 DEF RowOK, UserRow, UserFields
  <2>3. /\ db' = [db EXCEPT !["users"] = Replace("users", x, @)]
        /\ want' = [want EXCEPT !["users"] = (@ \ Find(@, x.id)) \cup {x}]
        /\ setups' = 0
    BY <1>4, <2>1, <2>2 DEF SeedAdmin
  <2>4. \A u \in db.users : u # None
    <3>1. \A u \in db.users : DOMAIN u = UserFields
      BY DEF StoreIInv, KeysOK, KeysFor, RowOK, Tables
    <3>2. DOMAIN None = {"id"} /\ "name" \in UserFields
      BY DEF None, UserFields
    <3> QED
      BY <3>1, <3>2
  <2>5. \A u \in db.users : u.name # "admin"
    BY <1>4, <2>4, FindUser
  <2>6. \A e \in Evicted("users", x, db["users"]) : e.id = x.id
    BY <2>2, <2>5 DEF Evicted
  <2>7. SetupOK'
    BY <2>3 DEF SetupOK
  <2>8. /\ db'.roles = db.roles /\ db'.users = Replace("users", x, db.users)
    BY <2>3 DEF StoreIInv, KeysOK, Tables
  <2>9. UntouchedOK'
    BY <1>1, <2>2, <2>8 DEF StoreIInv, UntouchedOK, Replace
  <2> QED
    BY <1>1, <1>2, <2>2, <2>3, <2>6, <2>7, <2>9, SeedStep
<1> QED
  BY <1>3, <1>4

\* The process dies.
LEMMA CrashKeeps ==
    ASSUME StoreIInv, Crash
    PROVE  StoreIInv'
<1>1. boot' = "down" /\ req' = [r \in Reqs |-> Idle] /\ UNCHANGED <<db, hist>>
  BY DEF Crash
<1>2. KeysOK'
  BY <1>1 DEF StoreIInv, KeysOK, hist
<1>3. ReqsOK'
  BY <1>1, IdleOK DEF ReqsOK, Busy
<1>4. \A r \in Reqs : ~InsertsActive(r)'
  BY <1>1 DEF InsertsActive, At
<1>5. DesignsOK'
  BY <1>1, <1>4 DEF StoreIInv, DesignsOK, hist
<1> QED
  BY <1>1, <1>2, <1>3, <1>5 DEF StoreIInv, SeedsOK, UntouchedOK, SetupOK, SerialChangesKept, hist

\* Nothing of the store changes.
LEMMA StoreStutter ==
    ASSUME StoreIInv, UNCHANGED <<db, boot, todo, req, hist>>
    PROVE  StoreIInv'
<1>1. KeysOK' /\ SeedsOK' /\ UntouchedOK' /\ SetupOK' /\ SerialChangesKept'
  BY DEF StoreIInv, KeysOK, SeedsOK, UntouchedOK, SetupOK, SerialChangesKept, hist
<1>2. ReqsOK'
  BY DEF StoreIInv, ReqsOK, Busy
<1>3. DesignsOK'
  BY DEF StoreIInv, DesignsOK, InsertsActive, At, hist
<1> QED
  BY <1>1, <1>2, <1>3 DEF StoreIInv

\* Every built-in role grants what it should, from its row or without.
LEMMA BuiltinsGrant ==
    ASSUME db.roles \subseteq Builtins, NEW b \in Builtins
    PROVE  RolePerms(b.id) = b.perm
<1>1. \A x, y \in Builtins : x.id = y.id => x = y
  <2>1. Id("admin") # Id("developer") /\ Id("admin") # Id("readonly") /\ Id("developer") # Id("readonly")
    BY DEF Id
  <2> QED
    BY <2>1 DEF Builtins, DefaultRoles
<1>2. b # None
  <2>1. "perm" \in DOMAIN b /\ DOMAIN None = {"id"}
    BY DEF Builtins, DefaultRoles, None
  <2> QED
    BY <2>1
<1>3. TheOne(Find(Builtins, b.id)) = b
  <2>1. Find(Builtins, b.id) = {b}
    BY <1>1 DEF Find
  <2> QED
    BY <2>1 DEF TheOne
<1>4. CASE GetByID("roles", b.id) # None
  <2>1. GetByID("roles", b.id) = b
    BY <1>1, <1>4, FindOne
  <2> QED
    BY <1>4, <2>1 DEF RolePerms
<1>5. CASE GetByID("roles", b.id) = None
  BY <1>2, <1>3, <1>5 DEF RolePerms
<1> QED
  BY <1>4, <1>5

\* What the inductive invariant says of the rows.
LEMMA StoreImplied == StoreIInv => StoreInv /\ SerialChangesKept
<1> SUFFICES ASSUME StoreIInv PROVE StoreInv
  BY DEF StoreIInv
<1>1. TypeOK
  <2>1. DOMAIN UserRow(0, 0, 0, 0) = UserFields
    BY DEF UserRow, UserFields
  <2>2. DOMAIN db = Tables
    BY DEF StoreIInv, KeysOK
  <2> QED
    BY <2>1, <2>2 DEF StoreIInv, KeysOK, KeysFor, ReqsOK, RowOK, TypeOK, Tables
<1>2. SeedEnough
  <2> SUFFICES ASSUME boot = "up", ~touched
               PROVE  /\ \E u \in db.users : "*" \in RolePerms(Id(u.role))
                      /\ \A b \in Builtins : RolePerms(b.id) = b.perm
    BY DEF SeedEnough
  <2>1. PICK u \in db.users : u.role = "admin"
    BY DEF StoreIInv, UntouchedOK
  <2>2. \A b \in Builtins : RolePerms(b.id) = b.perm
    BY BuiltinsGrant DEF StoreIInv, UntouchedOK
  <2>3. PICK b \in Builtins : b.id = Id("admin") /\ b.perm = {"*"}
    BY DEF Builtins, DefaultRoles
  <2>4. RolePerms(Id(u.role)) = {"*"}
    BY <2>1, <2>2, <2>3
  <2> QED
    BY <2>1, <2>2, <2>4
<1>3. OneActive
  BY DEF StoreIInv, DesignsOK, OneActive
<1>4. SetupOnce
  BY DEF StoreIInv, SetupOK, SetupOnce
<1> QED
  BY <1>1, <1>2, <1>3, <1>4 DEF StoreInv

\* It holds at the start: the tables are empty.
LEMMA StoreInit == Init => StoreIInv
<1> SUFFICES ASSUME Init PROVE StoreIInv
  OBVIOUS
<1>1. /\ db = [t \in Tables |-> db[t]] /\ \A t \in Tables : db[t] = {}
      /\ want = [t \in {"users", "roles"} |-> want[t]] /\ \A t \in {"users", "roles"} : want[t] = {}
  <2>1. db = [users |-> {}, roles |-> {}, designs |-> {}] /\ want = [users |-> {}, roles |-> {}]
    BY DEF Init
  <2>2. db = [t \in Tables |-> db[t]]
    BY <2>1 DEF Tables
  <2>3. want = [t \in {"users", "roles"} |-> want[t]]
    BY <2>1
  <2> QED
    BY <2>1, <2>2, <2>3 DEF Tables
<1>2. KeysOK
  BY <1>1 DEF KeysOK, KeysFor, Tables
<1>3. ReqsOK
  BY IdleOK DEF Init, ReqsOK, Busy
<1>4. DesignsOK
  BY <1>1 DEF Init, DesignsOK, InsertsActive, At, Tables
<1>5. SerialChangesKept
  BY <1>1 DEF SerialChangesKept, Tables
<1>6. SeedsOK /\ UntouchedOK /\ SetupOK
  BY <1>1 DEF Init, SeedsOK, UntouchedOK, SetupOK, Tables
<1> QED
  BY <1>2, <1>3, <1>4, <1>5, <1>6 DEF StoreIInv

\* Every step of the store keeps it.
LEMMA StoreStep == StoreIInv /\ [Next]_vars => StoreIInv'
<1> SUFFICES ASSUME StoreIInv, [Next]_vars PROVE StoreIInv'
  OBVIOUS
<1>1. ASSUME NEW r \in Reqs, Serve(r)
      PROVE  StoreIInv'
  BY <1>1, BeginKeeps, ReadKeeps, CheckSetupKeeps, RereadSetupKeeps, SaveKeeps, CreateKeeps,
     PatchKeeps, DeleteKeeps, DeactivateKeeps, InsertDesignKeeps DEF Serve
<1>2. CASE Open
  BY <1>2, CountRolesKeeps, SeedRowKeeps, CountUsersKeeps, SeedAdminKeeps DEF Open
<1>3. CASE Crash
  BY <1>3, CrashKeeps
<1>4. CASE Tick
  BY <1>4, StoreStutter DEF Tick
<1>5. CASE UNCHANGED vars
  BY <1>5, StoreStutter DEF vars
<1> QED
  BY <1>1, <1>2, <1>3, <1>4, <1>5 DEF Next

\* However many requests change accounts, roles and designs at once and
\* wherever the process dies: keys are kept, what was seeded is enough to
\* administrate with, one design is active and the default account is set up
\* once, as far as StoreInv promises it (store.go, admin.go, setup.go).
THEOREM StoreInvariance == Spec => []StoreInv
<1>1. Spec => []StoreIInv
  BY StoreInit, StoreStep, PTL DEF Spec
<1> QED
  BY <1>1, StoreImplied, PTL

\* And a change of a row is lost only where two requests saved copies of it
\* across each other, or a save took the key or the name of another row.
THEOREM ChangesKept == Spec => []SerialChangesKept
<1>1. Spec => []StoreIInv
  BY StoreInit, StoreStep, PTL DEF Spec
<1> QED
  BY <1>1, StoreImplied, PTL

-----------------------------------------------------------------------------
(* Logins.                                                                   *)

Budgeted == {"logins", "challenges", "edits", "crashes", "faults"}

\* The steps of a login or ceremony at which it has a challenge, and at which
\* it is a guess at an address that the limiter has not counted yet.
HasChallenge(a) == a.at \in {"read", "check", "save"} /\ a.by \in Kinds
IsGuess(a) == a.at = "count" \/ (a.at \in {"read", "check"} /\ a.by = "password")

AttemptOK(a) ==
    /\ a.at \in {"idle", "read", "check", "count", "save"}
    /\ a.at \in {"read", "check"} =>
          /\ a.by \in {"password", "pubkey"} /\ a.user \in Users
          /\ {"at", "by", "user", "row"} \subseteq DOMAIN a
          /\ IF a.by = "password" THEN "ip" \in DOMAIN a ELSE "n" \in DOMAIN a
    /\ a.at = "save" => a.by = "passkey"
    /\ IsGuess(a) => a.ip \in Ips

LoginTypes ==
    /\ up \in {"down", "writing", "up"} /\ secret \in BOOLEAN /\ misread \in BOOLEAN
    /\ {key, file, keys, clock} \subseteq Nat
    /\ left \in [Budgeted -> Nat]
    /\ entry = [i \in Ips |-> entry[i]] /\ tries \in [Ips -> Nat]
    /\ \A i \in Ips : entry[i] = [count |-> entry[i].count, blocked |-> entry[i].blocked]
                     /\ entry[i].count \in Nat /\ entry[i].blocked \in Nat
    /\ attempt = [r \in Logins |-> attempt[r]] /\ \A r \in Logins : AttemptOK(attempt[r])

\* The key of the tokens: everybody's is the one in the file or the secret,
\* unless a file was not read.
TokenKeysOK ==
    /\ up = "writing" => ~secret /\ key # NoKey /\ file = NoKey
    /\ up = "up" => key = (IF secret THEN Configured ELSE file) /\ (secret \/ file # NoKey)
    /\ \A t \in tokens :
          secret \/ ~misread => t.key = (IF secret THEN Configured ELSE file) /\ (secret \/ file # NoKey)

\* A token that was made of what the account was then shows its role, or ends
\* a Duration after it changed.
TokenRolesOK ==
    /\ account = [u \in Users |-> account[u]] /\ \A u \in Users : "role" \in DOMAIN account[u]
    /\ changed \in [Users -> Nat] /\ \A u \in Users : changed[u] <= clock
    /\ \A t \in tokens :
          /\ t.user \in Users /\ t.exp \in Nat /\ t.exp <= clock + Duration
          /\ ~t.late /\ ~t.refreshed =>
                t.role = account[t.user].role \/ t.exp <= changed[t.user] + Duration

\* The number of a challenge has been given out and been good for nothing yet.
Usable(n, spent, c) == n \in DOMAIN spent /\ n > c /\ spent[n] = 0

\* A challenge waits in a map or is in the hands of one request, never both:
\* spent is what each was good for, c the number of those not given out.
Apart(spent, waits, asks, c) ==
    /\ \A k \in Kinds, u \in Users : waits[k][u] = Nothing \/ Usable(waits[k][u].n, spent, c)
    /\ \A r \in Logins : HasChallenge(asks[r]) => Usable(asks[r].n, spent, c)
    /\ \A k, l \in Kinds, u, v \in Users :
          waits[k][u] # Nothing /\ waits[l][v] # Nothing /\ waits[k][u].n = waits[l][v].n
              => k = l /\ u = v
    /\ \A r, o \in Logins :
          HasChallenge(asks[r]) /\ HasChallenge(asks[o]) /\ asks[r].n = asks[o].n => r = o
    /\ \A r \in Logins, k \in Kinds, u \in Users :
          HasChallenge(asks[r]) /\ waits[k][u] # Nothing => asks[r].n # waits[k][u].n

Redeemable(spent, c) ==
    /\ DOMAIN spent \subseteq Nat \ {0} /\ 1..c \subseteq DOMAIN spent
    /\ \A n \in DOMAIN spent : spent[n] \in {0, 1} /\ (n <= c => spent[n] = 0)

ChallengesOK ==
    /\ pending = [k \in Kinds |-> [u \in Users |-> pending[k][u]]]
    /\ Redeemable(redeemed, left.challenges)
    /\ Apart(redeemed, pending, attempt, left.challenges)

\* Guesses at an address that were let through and are not counted.
Uncounted(i) == {r \in Logins : IsGuess(attempt[r]) /\ attempt[r].ip = i}

\* Of t guesses let through c are counted and n under way while the address is
\* free, and they are no more than the limit allows while it is blocked until b.
Guarded(time, c, b, t, n) ==
    IF time < b
    THEN c >= Threshold /\ t <= Threshold - 1 + Cardinality(Logins)
    ELSE t <= (IF c < Threshold THEN c ELSE 0) + n

GuessesOK ==
    \A i \in Ips :
        Guarded(clock, entry[i].count, entry[i].blocked, tries[i], Cardinality(Uncounted(i)))

LoginIInv == LoginTypes /\ TokenKeysOK /\ TokenRolesOK /\ ChallengesOK /\ GuessesOK

\* What is assumed of the constants.
LEMMA LoginConstants ==
    /\ Threshold \in Nat \ {0} /\ Duration \in Nat /\ IsFiniteSet(Logins)
    /\ Budgets \subseteq [Budgeted -> Nat]
  BY LoginAssumption DEF Budgeted

\* What is spent is spent of one kind.
LEMMA Spending ==
    ASSUME left \in [Budgeted -> Nat], NEW x \in Budgeted, Spend(x)
    PROVE  /\ left' \in [Budgeted -> Nat] /\ left[x] > 0
           /\ left' = [left EXCEPT ![x] = left[x] - 1]
           /\ x # "challenges" => left'.challenges = left.challenges
<1>1. left[x] \in Nat /\ left[x] > 0 /\ left' = [left EXCEPT ![x] = left[x] - 1]
  BY DEF Spend
<1>2. left[x] - 1 \in Nat
  BY <1>1
<1>3. left' \in [Budgeted -> Nat]
  BY <1>1, <1>2
<1>4. x # "challenges" => left'.challenges = left.challenges
  BY <1>1 DEF Budgeted
<1> QED
  BY <1>1, <1>3, <1>4

\* Each part of the invariant stays when what it is about stays: the key and its file,
LEMMA KeysStay ==
    ASSUME TokenKeysOK, UNCHANGED <<secret, up, key, file, misread, tokens>>
    PROVE  TokenKeysOK'
  BY DEF TokenKeysOK

\* the roles of accounts and tokens,
LEMMA RolesStay ==
    ASSUME TokenRolesOK, UNCHANGED <<account, changed, clock, tokens>>
    PROVE  TokenRolesOK'
  BY DEF TokenRolesOK

\* the challenges put and taken,
LEMMA ChallengesStay ==
    ASSUME ChallengesOK, UNCHANGED <<redeemed, pending, attempt>>, left'.challenges = left.challenges
    PROVE  ChallengesOK'
  BY DEF ChallengesOK

\* and the count of guesses.
LEMMA GuessesStay ==
    ASSUME GuessesOK, UNCHANGED <<clock, entry, tries, attempt>>
    PROVE  GuessesOK'
  BY DEF GuessesOK, Uncounted

\* One request goes on.
LEMMA Going ==
    ASSUME LoginTypes, NEW r \in Logins, NEW a, AttemptOK(a), Go(r, a)
    PROVE  /\ attempt' = [o \in Logins |-> attempt'[o]] /\ \A o \in Logins : AttemptOK(attempt'[o])
           /\ attempt'[r] = a /\ \A o \in Logins : o # r => attempt'[o] = attempt[o]
  BY DEF LoginTypes, Go

\* The types, when the request goes on.
LEMMA TypesGo ==
    ASSUME LoginTypes, NEW r \in Logins, NEW a, AttemptOK(a), Go(r, a),
           UNCHANGED <<disk, entry, tries, clock, left>>
    PROVE  LoginTypes'
  BY Going DEF LoginTypes, disk

\* Its challenge, when it has any, is the one it had.
LEMMA ChallengesGo ==
    ASSUME LoginTypes, ChallengesOK, NEW r \in Logins, NEW a, AttemptOK(a), Go(r, a),
           HasChallenge(a) => HasChallenge(attempt[r]) /\ a.n = attempt[r].n,
           UNCHANGED <<redeemed, pending>>, left'.challenges = left.challenges
    PROVE  ChallengesOK'
<1>1. attempt'[r] = a /\ \A o \in Logins : o # r => attempt'[o] = attempt[o]
  BY Going
<1>2. PICK asks, new : asks = attempt /\ new = attempt'
  OBVIOUS
<1>3. \A o \in Logins : HasChallenge(new[o]) => HasChallenge(asks[o]) /\ new[o].n = asks[o].n
  BY <1>1, <1>2
<1>4. PICK spent, waits, c : spent = redeemed /\ waits = pending /\ c = left.challenges
  OBVIOUS
<1>5. Apart(spent, waits, asks, c)
  BY <1>2, <1>4 DEF ChallengesOK
<1>6. Apart(spent, waits, new, c)
  BY <1>3, <1>5 DEF Apart
<1> QED
  BY <1>2, <1>4, <1>6 DEF ChallengesOK

\* It is the guess it was.
LEMMA GuessesGo ==
    ASSUME LoginTypes, GuessesOK, NEW r \in Logins, NEW a, AttemptOK(a), Go(r, a),
           IsGuess(a) <=> IsGuess(attempt[r]), IsGuess(a) => a.ip = attempt[r].ip,
           UNCHANGED <<clock, entry, tries>>
    PROVE  GuessesOK'
<1>1. attempt'[r] = a /\ \A o \in Logins : o # r => attempt'[o] = attempt[o]
  BY Going
<1>2. \A i \in Ips : Uncounted(i)' = Uncounted(i)
  BY <1>1 DEF Uncounted
<1> QED
  BY <1>2 DEF GuessesOK

\* A token is made while requests are served.
LEMMA TokenMade ==
    ASSUME LoginTypes, TokenKeysOK, TokenRolesOK, up = "up", NEW u \in Users, NEW role, NEW f,
           tokens' = tokens \cup {Token(u, role, f)}, UNCHANGED <<disk, people, clock>>
    PROVE  TokenKeysOK' /\ TokenRolesOK'
<1>1. PICK t : t = Token(u, role, f)
  OBVIOUS
<1>2. /\ t.user = u /\ t.role = role /\ t.key = key /\ t.exp = clock + Duration
      /\ t.refreshed = f /\ t.late = (role # account[u].role)
  BY <1>1 DEF Token
<1>3. tokens' = tokens \cup {t}
  BY <1>1
<1>4. TokenKeysOK'
  BY <1>2, <1>3 DEF TokenKeysOK, disk
<1>5. t.exp \in Nat /\ t.exp <= clock + Duration
  BY <1>2, LoginConstants DEF LoginTypes
<1>6. TokenRolesOK'
  BY <1>2, <1>3, <1>5 DEF TokenRolesOK, people
<1> QED
  BY <1>4, <1>6

\* The process starts: the key is read, or made and written.
LEMMA LoadKeeps ==
    ASSUME LoginIInv, Load
    PROVE  LoginIInv'
<1>1. up = "down" /\ UNCHANGED <<secret, people, limiter, pending, attempt, tokens, redeemed, clock>>
  BY DEF Load
<1>2. /\ left' \in [Budgeted -> Nat] /\ left'.challenges = left.challenges
  <2>1. UNCHANGED left \/ Spend("faults")
    BY DEF Load
  <2> QED
    BY <2>1, Spending DEF LoginIInv, LoginTypes, Budgeted
<1>3. LoginTypes'
  <2>1. {key', file', keys'} \subseteq Nat /\ up' \in {"writing", "up"} /\ misread' \in BOOLEAN
    <3>1. {key, file, keys} \subseteq Nat /\ keys + 1 \in Nat /\ misread \in BOOLEAN
      BY DEF LoginIInv, LoginTypes
    <3>2. /\ key' \in {Configured, file, keys + 1} /\ file' \in {file, NoKey} /\ keys' \in {keys, keys + 1}
          /\ misread' \in {misread, TRUE}
      BY DEF Load
    <3>3. up' \in {"writing", "up"}
      BY DEF Load
    <3>4. key' \in Nat /\ file' \in Nat /\ keys' \in Nat
      BY <3>1, <3>2 DEF Configured, NoKey
    <3> QED
      BY <3>1, <3>2, <3>3, <3>4
  <2> QED
    BY <1>1, <1>2, <2>1 DEF LoginIInv, LoginTypes, people, limiter
<1>4. TokenKeysOK'
  <2>1. CASE secret /\ key' = Configured /\ up' = "up" /\ UNCHANGED <<file, keys, misread, left>>
    BY <1>1, <2>1 DEF LoginIInv, TokenKeysOK
  <2>2. CASE ~secret /\ file # NoKey /\ key' = file /\ up' = "up" /\ UNCHANGED <<file, keys, misread, left>>
    BY <1>1, <2>2 DEF LoginIInv, TokenKeysOK
  <2>3. CASE ~secret /\ key' = keys + 1 /\ file' = NoKey /\ up' = "writing"
             /\ (~misread' => ~misread /\ file = NoKey)
    <3>1. key' # NoKey
      BY <2>3 DEF LoginIInv, LoginTypes, NoKey
    <3> QED
      BY <1>1, <2>3, <3>1 DEF LoginIInv, TokenKeysOK
  <2> QED
    BY <2>1, <2>2, <2>3 DEF Load
<1>5. TokenRolesOK'
  BY <1>1, RolesStay DEF LoginIInv, people
<1>6. ChallengesOK'
  BY <1>1, <1>2, ChallengesStay DEF LoginIInv
<1>7. GuessesOK'
  BY <1>1, GuessesStay DEF LoginIInv, limiter
<1> QED
  BY <1>3, <1>4, <1>5, <1>6, <1>7 DEF LoginIInv

\* The key is on the disk, or the process gives up.
LEMMA WriteKeeps ==
    ASSUME LoginIInv, Written \/ WriteFails
    PROVE  LoginIInv'
<1>1. /\ up = "writing" /\ UNCHANGED <<secret, key, keys, misread>>
      /\ UNCHANGED <<people, limiter, pending, attempt, tokens, redeemed, clock>>
      /\ \/ file' = key /\ up' = "up"
         \/ file' = file /\ up' = "down"
  <2>1. CASE Written
    BY <2>1 DEF Written
  <2>2. CASE WriteFails
    BY <2>2 DEF WriteFails
  <2> QED
    BY <2>1, <2>2
<1>2. /\ left' \in [Budgeted -> Nat] /\ left'.challenges = left.challenges
  <2>1. UNCHANGED left \/ Spend("faults")
    BY DEF Written, WriteFails
  <2> QED
    BY <2>1, Spending DEF LoginIInv, LoginTypes, Budgeted
<1>3. LoginTypes'
  BY <1>1, <1>2 DEF LoginIInv, LoginTypes, people, limiter
<1>4. TokenKeysOK'
  BY <1>1 DEF LoginIInv, TokenKeysOK
<1>5. TokenRolesOK'
  BY <1>1, RolesStay DEF LoginIInv, people
<1>6. ChallengesOK'
  BY <1>1, <1>2, ChallengesStay DEF LoginIInv
<1>7. GuessesOK'
  BY <1>1, GuessesStay DEF LoginIInv, limiter
<1> QED
  BY <1>3, <1>4, <1>5, <1>6, <1>7 DEF LoginIInv

\* A request that is over has no challenge and is no guess.
LEMMA RestingOK == AttemptOK(Resting) /\ ~HasChallenge(Resting) /\ ~IsGuess(Resting)
  BY DEF AttemptOK, HasChallenge, IsGuess, Resting

\* The process dies: challenges, guesses and requests are gone.
LEMMA LoginCrashKeeps ==
    ASSUME LoginIInv, LoginCrash
    PROVE  LoginIInv'
<1>1. /\ up' = "down" /\ entry' = [i \in Ips |-> Fresh] /\ tries' = [i \in Ips |-> 0]
      /\ pending' = [k \in Kinds |-> [u \in Users |-> Nothing]]
      /\ attempt' = [r \in Logins |-> Resting]
      /\ UNCHANGED <<secret, key, file, keys, misread, people, tokens, redeemed, clock>>
  BY DEF LoginCrash
<1>2. /\ left' \in [Budgeted -> Nat] /\ left'.challenges = left.challenges
  BY Spending DEF LoginCrash, LoginIInv, LoginTypes, Budgeted
<1>3. LoginTypes'
  BY <1>1, <1>2, RestingOK DEF LoginIInv, LoginTypes, Fresh
<1>4. TokenKeysOK'
  BY <1>1 DEF LoginIInv, TokenKeysOK
<1>5. TokenRolesOK'
  BY <1>1, RolesStay DEF LoginIInv, people
<1>6. ChallengesOK'
  <2>1. PICK spent, waits, new, c :
          spent = redeemed /\ waits = pending' /\ new = attempt' /\ c = left.challenges
    OBVIOUS
  <2>2. /\ \A k \in Kinds, u \in Users : waits[k][u] = Nothing
        /\ \A r \in Logins : ~HasChallenge(new[r])
    BY <1>1, <2>1, RestingOK
  <2>3. Apart(spent, waits, new, c)
    BY <2>2 DEF Apart
  <2> QED
    BY <1>1, <1>2, <2>1, <2>3 DEF LoginIInv, ChallengesOK
<1>7. GuessesOK'
  <2>1. ASSUME NEW i \in Ips
        PROVE  ~(clock' < entry'[i].blocked) /\ tries'[i] = 0 /\ entry'[i].count = 0
               /\ Cardinality(Uncounted(i)') \in Nat
    <3>1. Uncounted(i)' = {}
      BY <1>1, RestingOK DEF Uncounted
    <3>2. Cardinality(Uncounted(i)') = 0
      BY <3>1, FS_EmptySet
    <3> QED
      BY <1>1, <3>2 DEF LoginIInv, LoginTypes, Fresh
  <2> QED
    BY <2>1 DEF GuessesOK, Guarded
<1> QED
  BY <1>3, <1>4, <1>5, <1>6, <1>7 DEF LoginIInv

\* A token is made of another.
LEMMA RefreshKeeps ==
    ASSUME LoginIInv, Refresh
    PROVE  LoginIInv'
<1>1. PICK t \in tokens : tokens' = tokens \cup {Token(t.user, t.role, TRUE)}
  BY DEF Refresh
<1>2. up = "up" /\ UNCHANGED <<disk, people, limiter, pending, attempt, redeemed, clock>>
  BY DEF Refresh
<1>3. PICK u, role : u = t.user /\ role = t.role
  OBVIOUS
<1>4. u \in Users
  BY <1>3 DEF LoginIInv, TokenRolesOK
<1>5. tokens' = tokens \cup {Token(u, role, TRUE)}
  BY <1>1, <1>3
<1>6. TokenKeysOK' /\ TokenRolesOK'
  BY <1>2, <1>4, <1>5, TokenMade DEF LoginIInv
<1>7. /\ left' \in [Budgeted -> Nat] /\ left'.challenges = left.challenges
  BY Spending DEF Refresh, LoginIInv, LoginTypes, Budgeted
<1>8. LoginTypes'
  BY <1>2, <1>7 DEF LoginIInv, LoginTypes, disk, limiter
<1>9. ChallengesOK'
  BY <1>2, <1>7, ChallengesStay DEF LoginIInv
<1>10. GuessesOK'
  BY <1>2, GuessesStay DEF LoginIInv, limiter
<1> QED
  BY <1>6, <1>8, <1>9, <1>10 DEF LoginIInv

\* The guesses under way are no more than the requests.
LEMMA UncountedFinite ==
    ASSUME NEW i
    PROVE  /\ IsFiniteSet(Uncounted(i)) /\ Cardinality(Uncounted(i)) \in Nat
           /\ Cardinality(Logins) \in Nat /\ Cardinality(Uncounted(i)) <= Cardinality(Logins)
<1>1. Uncounted(i) \subseteq Logins /\ IsFiniteSet(Logins)
  BY LoginConstants DEF Uncounted
<1> QED
  BY <1>1, FS_Subset, FS_CardinalityType

\* The limiter lets a login through.
LEMMA EnterLoginKeeps ==
    ASSUME LoginIInv, NEW r \in Logins, EnterLogin(r)
    PROVE  LoginIInv'
<1>1. /\ attempt[r].at = "idle" /\ Spend("logins")
      /\ UNCHANGED <<disk, people, entry, pending, tokens, redeemed, clock>>
  BY DEF EnterLogin, LoginAt
<1>2. PICK i \in Ips, u \in Users :
        /\ clock >= entry[i].blocked
        /\ tries' = [tries EXCEPT ![i] = @ + 1]
        /\ Go(r, [at |-> "read", by |-> "password", ip |-> i, user |-> u, row |-> Unread])
  BY DEF EnterLogin
<1>3. PICK a : a = [at |-> "read", by |-> "password", ip |-> i, user |-> u, row |-> Unread]
  OBVIOUS
<1>4. AttemptOK(a) /\ ~HasChallenge(a) /\ IsGuess(a) /\ a.ip = i /\ Go(r, a)
  BY <1>2, <1>3 DEF AttemptOK, HasChallenge, IsGuess, Kinds
<1>5. /\ attempt' = [o \in Logins |-> attempt'[o]] /\ \A o \in Logins : AttemptOK(attempt'[o])
      /\ attempt'[r] = a /\ \A o \in Logins : o # r => attempt'[o] = attempt[o]
  BY <1>4, Going DEF LoginIInv
<1>6. /\ left' \in [Budgeted -> Nat] /\ left'.challenges = left.challenges
  BY <1>1, Spending DEF LoginIInv, LoginTypes, Budgeted
<1>7. /\ tries' \in [Ips -> Nat] /\ tries'[i] = tries[i] + 1 /\ tries[i] \in Nat
      /\ \A j \in Ips : j # i => tries'[j] = tries[j]
  BY <1>2 DEF LoginIInv, LoginTypes
<1>8. LoginTypes'
  BY <1>1, <1>5, <1>6, <1>7 DEF LoginIInv, LoginTypes, disk
<1>9. TokenKeysOK'
  BY <1>1, KeysStay DEF LoginIInv, disk
<1>10. TokenRolesOK'
  BY <1>1, RolesStay DEF LoginIInv, people
<1>11. ChallengesOK'
  BY <1>1, <1>4, <1>6, ChallengesGo DEF LoginIInv
<1>12. GuessesOK'
  <2>1. ~IsGuess(attempt[r])
    BY <1>1 DEF IsGuess
  <2>2. Uncounted(i)' = Uncounted(i) \cup {r} /\ r \notin Uncounted(i)
    BY <1>4, <1>5, <2>1 DEF Uncounted
  <2>3. Cardinality(Uncounted(i)') = Cardinality(Uncounted(i)) + 1
    BY <2>2, UncountedFinite, FS_AddElement
  <2>4. \A j \in Ips : j # i => Uncounted(j)' = Uncounted(j)
    BY <1>4, <1>5, <2>1 DEF Uncounted
  <2>5. PICK c, b, n, m : /\ c = entry[i].count /\ b = entry[i].blocked
                          /\ n = Cardinality(Uncounted(i)) /\ m = tries[i]
    OBVIOUS
  <2>6. c \in Nat /\ b \in Nat /\ n \in Nat /\ m \in Nat /\ clock \in Nat
    BY <2>5, UncountedFinite DEF LoginIInv, LoginTypes
  <2>7. m <= (IF c < Threshold THEN c ELSE 0) + n
    BY <1>2, <2>5, <2>6 DEF LoginIInv, GuessesOK, Guarded
  <2>8. m + 1 <= (IF c < Threshold THEN c ELSE 0) + (n + 1)
    BY <2>6, <2>7, LoginConstants
  <2>9. Guarded(clock, c, b, m + 1, n + 1)
    BY <1>2, <2>5, <2>6, <2>8 DEF Guarded
  <2> QED
    BY <1>1, <1>7, <2>3, <2>4, <2>5, <2>9 DEF LoginIInv, GuessesOK
<1> QED
  BY <1>8, <1>9, <1>10, <1>11, <1>12 DEF LoginIInv

\* A request that only goes on.
LEMMA GoKeeps ==
    ASSUME LoginIInv, NEW r \in Logins, NEW a, AttemptOK(a), Go(r, a),
           HasChallenge(a) => HasChallenge(attempt[r]) /\ a.n = attempt[r].n,
           IsGuess(a) <=> IsGuess(attempt[r]), IsGuess(a) => a.ip = attempt[r].ip,
           UNCHANGED <<disk, people, limiter, pending, tokens, redeemed, clock, left>>
    PROVE  LoginIInv'
<1>1. LoginTypes'
  BY TypesGo DEF LoginIInv, limiter
<1>2. TokenKeysOK'
  BY KeysStay DEF LoginIInv, disk
<1>3. TokenRolesOK'
  BY RolesStay DEF LoginIInv, people
<1>4. ChallengesOK'
  BY ChallengesGo DEF LoginIInv
<1>5. GuessesOK'
  BY GuessesGo DEF LoginIInv, limiter
<1> QED
  BY <1>1, <1>2, <1>3, <1>4, <1>5 DEF LoginIInv

\* A login that is answered is a guess still, until the limiter counts it.
LEMMA AnsweredOK ==
    ASSUME NEW i \in Ips, NEW s
    PROVE  LET a == [at |-> "count", ip |-> i, status |-> s] IN
           AttemptOK(a) /\ ~HasChallenge(a) /\ IsGuess(a) /\ a.ip = i
  BY DEF AttemptOK, HasChallenge, IsGuess

\* A body that does not parse is answered.
LEMMA MalformedKeeps ==
    ASSUME LoginIInv, NEW r \in Logins, Malformed(r)
    PROVE  LoginIInv'
<1>1. /\ attempt[r].at = "read" /\ attempt[r].by = "password"
      /\ UNCHANGED <<disk, people, limiter, pending, tokens, redeemed, clock, left>>
  BY DEF Malformed, LoginAt
<1>2. PICK i : i = attempt[r].ip
  OBVIOUS
<1>3. PICK a : a = [at |-> "count", ip |-> i, status |-> 400]
  OBVIOUS
<1>4. IsGuess(attempt[r]) /\ i \in Ips
  BY <1>1, <1>2 DEF LoginIInv, LoginTypes, AttemptOK, IsGuess
<1>5. AttemptOK(a) /\ ~HasChallenge(a) /\ IsGuess(a) /\ a.ip = i
  BY <1>3, <1>4, AnsweredOK
<1>6. Go(r, a)
  BY <1>2, <1>3 DEF Malformed
<1> QED
  BY <1>1, <1>2, <1>4, <1>5, <1>6, GoKeeps

\* The account is read, if it is there.
LEMMA ReadAccountKeeps ==
    ASSUME LoginIInv, NEW r \in Logins, ReadAccount(r)
    PROVE  LoginIInv'
<1>1. /\ attempt[r].at = "read"
      /\ UNCHANGED <<disk, people, limiter, pending, tokens, redeemed, clock, left>>
  BY DEF ReadAccount, LoginAt
<1>2. PICK p, row : p = attempt[r] /\ row = account[attempt[r].user]
  OBVIOUS
<1>3. AttemptOK(p) /\ p.at = "read"
  BY <1>1, <1>2 DEF LoginIInv, LoginTypes
<1>4. CASE account[attempt[r].user].role # "gone"
  <2>1. PICK a : a = [p EXCEPT !.at = "check", !.row = row]
    OBVIOUS
  <2>2. Go(r, a)
    BY <1>2, <1>4, <2>1 DEF ReadAccount
  <2>3. DOMAIN a = DOMAIN p /\ a.at = "check" /\ \A f \in DOMAIN p : f \notin {"at", "row"} => a[f] = p[f]
    BY <1>3, <2>1 DEF AttemptOK
  <2>4. /\ a.by = p.by /\ a.user = p.user
        /\ IF p.by = "password" THEN a.ip = p.ip ELSE a.n = p.n
    BY <1>3, <2>3 DEF AttemptOK
  <2>5. AttemptOK(a)
    BY <1>3, <2>3, <2>4 DEF AttemptOK, IsGuess
  <2>6. /\ HasChallenge(a) => HasChallenge(p) /\ a.n = p.n
        /\ IsGuess(a) <=> IsGuess(p)
        /\ IsGuess(a) => a.ip = p.ip
    BY <1>3, <2>3, <2>4 DEF HasChallenge, IsGuess, Kinds
  <2> QED
    BY <1>1, <1>2, <2>2, <2>5, <2>6, GoKeeps
<1>5. CASE account[attempt[r].user].role = "gone" /\ p.by = "password"
  <2>1. PICK i : i = p.ip
    OBVIOUS
  <2>2. PICK a : a = [at |-> "count", ip |-> i, status |-> 401]
    OBVIOUS
  <2>3. IsGuess(p) /\ i \in Ips
    BY <1>3, <1>5, <2>1 DEF AttemptOK, IsGuess
  <2>4. AttemptOK(a) /\ ~HasChallenge(a) /\ IsGuess(a) /\ a.ip = i
    BY <2>2, <2>3, AnsweredOK
  <2>5. Go(r, a)
    BY <1>2, <1>5, <2>1, <2>2 DEF ReadAccount
  <2> QED
    BY <1>1, <1>2, <2>1, <2>3, <2>4, <2>5, GoKeeps
<1>6. CASE account[attempt[r].user].role = "gone" /\ p.by # "password"
  <2>1. Go(r, Resting)
    BY <1>2, <1>6 DEF ReadAccount
  <2>2. ~IsGuess(p)
    BY <1>3, <1>6 DEF IsGuess
  <2> QED
    BY <1>1, <1>2, <2>1, <2>2, RestingOK, GoKeeps
<1> QED
  BY <1>4, <1>5, <1>6

\* The password is checked; when it is the right one, a token is made.
LEMMA CheckPasswordKeeps ==
    ASSUME LoginIInv, NEW r \in Logins, CheckPassword(r)
    PROVE  LoginIInv'
<1>1. /\ up = "up" /\ attempt[r].at = "check" /\ attempt[r].by = "password"
      /\ UNCHANGED <<disk, people, limiter, pending, redeemed, clock, left>>
  BY DEF CheckPassword, LoginAt
<1>2. PICK s : /\ Grant(r) \/ UNCHANGED tokens
               /\ Go(r, [at |-> "count", ip |-> attempt[r].ip, status |-> s])
  BY DEF CheckPassword
<1>3. PICK i, u, role : i = attempt[r].ip /\ u = attempt[r].user /\ role = attempt[r].row.role
  OBVIOUS
<1>4. PICK a : a = [at |-> "count", ip |-> i, status |-> s]
  OBVIOUS
<1>5. IsGuess(attempt[r]) /\ i \in Ips /\ u \in Users
  BY <1>1, <1>3 DEF LoginIInv, LoginTypes, AttemptOK, IsGuess
<1>6. AttemptOK(a) /\ ~HasChallenge(a) /\ IsGuess(a) /\ a.ip = i /\ Go(r, a)
  BY <1>2, <1>3, <1>4, <1>5, AnsweredOK
<1>7. LoginTypes'
  BY <1>1, <1>6, TypesGo DEF LoginIInv, limiter
<1>8. TokenKeysOK' /\ TokenRolesOK'
  <2>1. CASE Grant(r)
    <3>1. tokens' = tokens \cup {Token(u, role, FALSE)}
      BY <1>3, <2>1 DEF Grant
    <3> QED
      BY <1>1, <1>5, <3>1, TokenMade DEF LoginIInv
  <2>2. CASE UNCHANGED tokens
    BY <1>1, <2>2, KeysStay, RolesStay DEF LoginIInv, disk, people
  <2> QED
    BY <1>2, <2>1, <2>2
<1>9. ChallengesOK'
  BY <1>1, <1>6, ChallengesGo DEF LoginIInv
<1>10. GuessesOK'
  BY <1>1, <1>3, <1>5, <1>6, GuessesGo DEF LoginIInv, limiter
<1> QED
  BY <1>7, <1>8, <1>9, <1>10 DEF LoginIInv

\* The limiter counts a login that failed, and forgets with any other.
LEMMA CountKeeps ==
    ASSUME LoginIInv, NEW r \in Logins, Count(r)
    PROVE  LoginIInv'
<1>1. /\ attempt[r].at = "count" /\ Go(r, Resting)
      /\ UNCHANGED <<disk, people, pending, tokens, redeemed, clock, left>>
  BY DEF Count, LoginAt
<1>2. PICK i : i = attempt[r].ip
  OBVIOUS
<1>3. IsGuess(attempt[r]) /\ i \in Ips
  BY <1>1, <1>2 DEF LoginIInv, LoginTypes, AttemptOK, IsGuess
<1>4. PICK c, b, n, m, t : /\ c = entry[i].count /\ b = entry[i].blocked /\ t = tries[i]
                           /\ n = Cardinality(Uncounted(i)) /\ m = Cardinality(Logins)
  OBVIOUS
<1>5. /\ c \in Nat /\ b \in Nat /\ n \in Nat /\ m \in Nat /\ t \in Nat /\ clock \in Nat /\ n <= m
      /\ Threshold \in Nat \ {0}
  BY <1>3, <1>4, UncountedFinite, LoginConstants DEF LoginIInv, LoginTypes
<1>6. /\ attempt' = [o \in Logins |-> attempt'[o]] /\ \A o \in Logins : AttemptOK(attempt'[o])
      /\ attempt'[r] = Resting /\ \A o \in Logins : o # r => attempt'[o] = attempt[o]
  BY <1>1, RestingOK, Going DEF LoginIInv
<1>7. IF clock < b THEN c >= Threshold /\ t <= Threshold - 1 + m
      ELSE t <= (IF c < Threshold THEN c ELSE 0) + n
  BY <1>3, <1>4 DEF LoginIInv, GuessesOK, Guarded
<1>8. /\ \A j \in Ips : j # i => Uncounted(j)' = Uncounted(j)
      /\ Cardinality(Uncounted(i)') = n - 1
  <2>1. Uncounted(i)' = Uncounted(i) \ {r} /\ r \in Uncounted(i)
    BY <1>2, <1>3, <1>6, RestingOK DEF Uncounted
  <2>2. \A j \in Ips : j # i => Uncounted(j)' = Uncounted(j)
    BY <1>2, <1>3, <1>6, RestingOK DEF Uncounted
  <2>3. Cardinality(Uncounted(i)') = Cardinality(Uncounted(i)) - 1
    BY <2>1, UncountedFinite, FS_RemoveElement
  <2> QED
    BY <1>4, <2>2, <2>3
<1>9. PICK d, e, f : /\ entry' = [entry EXCEPT ![i] = [count |-> d, blocked |-> e]]
                     /\ tries' = [tries EXCEPT ![i] = f]
                     /\ d \in Nat /\ e \in Nat /\ f \in Nat
                     /\ Guarded(clock, d, e, f, n - 1)
  <2>1. CASE attempt[r].status = 401 /\ c + 1 >= Threshold
    <3>1. entry' = [entry EXCEPT ![i] = [count |-> c + 1, blocked |-> clock + (c + 1) - (Threshold - 1)]]
          /\ tries' = tries
      BY <1>2, <1>4, <2>1 DEF Count
    <3>2. tries' = [tries EXCEPT ![i] = t]
      BY <1>3, <1>4, <3>1 DEF LoginIInv, LoginTypes
    <3>3. clock + (c + 1) - (Threshold - 1) \in Nat /\ clock < clock + (c + 1) - (Threshold - 1)
      BY <1>5, <2>1
    <3>4. t <= Threshold - 1 + m
      BY <1>5, <1>7
    <3>5. Guarded(clock, c + 1, clock + (c + 1) - (Threshold - 1), t, n - 1) /\ c + 1 \in Nat
      BY <1>4, <1>5, <2>1, <3>3, <3>4 DEF Guarded
    <3> QED
      BY <1>5, <3>1, <3>2, <3>3, <3>5
  <2>2. CASE attempt[r].status = 401 /\ c + 1 < Threshold
    <3>1. entry' = [entry EXCEPT ![i] = [count |-> c + 1, blocked |-> b]] /\ tries' = tries
      BY <1>2, <1>4, <1>5, <2>2 DEF Count
    <3>2. tries' = [tries EXCEPT ![i] = t]
      BY <1>3, <1>4, <3>1 DEF LoginIInv, LoginTypes
    <3>3. ~(clock < b) /\ t <= (c + 1) + (n - 1)
      BY <1>5, <1>7, <2>2
    <3>4. Guarded(clock, c + 1, b, t, n - 1) /\ c + 1 \in Nat
      BY <1>5, <2>2, <3>3 DEF Guarded
    <3> QED
      BY <1>5, <3>1, <3>2, <3>4
  <2>3. CASE attempt[r].status # 401
    <3>1. entry' = [entry EXCEPT ![i] = [count |-> 0, blocked |-> 0]] /\ tries' = [tries EXCEPT ![i] = 0]
      BY <1>2, <2>3 DEF Count, Fresh
    <3>2. n - 1 >= 0
      <4>1. r \in Uncounted(i)
        BY <1>2, <1>3 DEF Uncounted
      <4>2. n # 0
        BY <1>4, <4>1, UncountedFinite, FS_EmptySet
      <4> QED
        BY <1>5, <4>2
    <3>3. Guarded(clock, 0, 0, 0, n - 1) /\ 0 \in Nat
      BY <1>5, <3>2 DEF Guarded
    <3> QED
      BY <3>1, <3>3
  <2> QED
    BY <1>5, <2>1, <2>2, <2>3
<1>10. /\ entry' = [j \in Ips |-> entry'[j]] /\ entry'[i] = [count |-> d, blocked |-> e]
       /\ \A j \in Ips : j # i => entry'[j] = entry[j] /\ tries'[j] = tries[j]
       /\ tries' \in [Ips -> Nat] /\ tries'[i] = f
  BY <1>3, <1>9 DEF LoginIInv, LoginTypes
<1>11. LoginTypes'
  <2>1. \A j \in Ips : entry'[j] = [count |-> entry'[j].count, blocked |-> entry'[j].blocked]
                     /\ entry'[j].count \in Nat /\ entry'[j].blocked \in Nat
    BY <1>9, <1>10 DEF LoginIInv, LoginTypes
  <2> QED
    BY <1>1, <1>6, <1>10, <2>1 DEF LoginIInv, LoginTypes, disk
<1>12. GuessesOK'
  <2>1. entry'[i].count = d /\ entry'[i].blocked = e
    BY <1>10
  <2> QED
    BY <1>1, <1>4, <1>8, <1>9, <1>10, <2>1 DEF LoginIInv, GuessesOK
<1>13. TokenKeysOK' /\ TokenRolesOK'
  BY <1>1, KeysStay, RolesStay DEF LoginIInv, disk, people
<1>14. ChallengesOK'
  BY <1>1, RestingOK, ChallengesGo DEF LoginIInv
<1> QED
  BY <1>11, <1>12, <1>13, <1>14 DEF LoginIInv

\* A challenge that is put into a map has a number of its own.
LEMMA PutApart ==
    ASSUME NEW spent, NEW waits, NEW asks, NEW c \in Nat, c > 0,
           Redeemable(spent, c), Apart(spent, waits, asks, c),
           NEW k \in Kinds, NEW u \in Users, NEW x, x.n = c, NEW new,
           new[k][u] = x, \A l \in Kinds, v \in Users : <<l, v>> # <<k, u>> => new[l][v] = waits[l][v]
    PROVE  Redeemable(spent, c - 1) /\ Apart(spent, new, asks, c - 1)
<1>1. c \in DOMAIN spent /\ spent[c] = 0 /\ DOMAIN spent \subseteq Nat
  BY DEF Redeemable
<1>2. \A n : Usable(n, spent, c) => Usable(n, spent, c - 1) /\ n # c
  BY <1>1 DEF Usable
<1>3. Usable(c, spent, c - 1)
  BY <1>1 DEF Usable
<1>4. Redeemable(spent, c - 1)
  <2>1. 1..(c - 1) \subseteq DOMAIN spent
    BY DEF Redeemable
  <2>2. \A n \in DOMAIN spent : n <= c - 1 => n <= c
    BY <1>1
  <2> QED
    BY <2>1, <2>2 DEF Redeemable
<1>5. \A l \in Kinds, v \in Users : (l = k /\ v = u) \/ new[l][v] = waits[l][v]
  OBVIOUS
<1>6. \A l \in Kinds, v \in Users : waits[l][v] # Nothing => waits[l][v].n # c
  BY <1>2 DEF Apart
<1>7. \A r \in Logins : HasChallenge(asks[r]) => asks[r].n # c
  BY <1>2 DEF Apart
<1>8. \A l \in Kinds, v \in Users : new[l][v] = Nothing \/ Usable(new[l][v].n, spent, c - 1)
  BY <1>2, <1>3, <1>5 DEF Apart
<1>9. \A r \in Logins : HasChallenge(asks[r]) => Usable(asks[r].n, spent, c - 1)
  BY <1>2 DEF Apart
<1>10. \A l, m \in Kinds, v, w \in Users :
          new[l][v] # Nothing /\ new[m][w] # Nothing /\ new[l][v].n = new[m][w].n => l = m /\ v = w
  BY <1>5, <1>6 DEF Apart
<1>11. \A r \in Logins, l \in Kinds, v \in Users :
          HasChallenge(asks[r]) /\ new[l][v] # Nothing => asks[r].n # new[l][v].n
  BY <1>5, <1>7 DEF Apart
<1> QED
  BY <1>4, <1>8, <1>9, <1>10, <1>11 DEF Apart

\* One that is taken out is in the hands of that request alone.
LEMMA TakeApart ==
    ASSUME NEW spent, NEW waits, NEW asks, NEW c, Apart(spent, waits, asks, c),
           NEW r \in Logins, NEW k \in Kinds, NEW u \in Users, waits[k][u] # Nothing,
           NEW less, less[k][u] = Nothing,
           \A l \in Kinds, v \in Users : <<l, v>> # <<k, u>> => less[l][v] = waits[l][v],
           NEW new, \A o \in Logins : o # r => new[o] = asks[o],
           HasChallenge(new[r]) => new[r].n = waits[k][u].n
    PROVE  Apart(spent, less, new, c)
<1>1. \A l \in Kinds, v \in Users :
          less[l][v] # Nothing => ~(l = k /\ v = u) /\ less[l][v] = waits[l][v]
  OBVIOUS
<1>2. \A o \in Logins : HasChallenge(new[o]) =>
          o = r \/ (HasChallenge(asks[o]) /\ new[o].n = asks[o].n)
  OBVIOUS
<1>3. \A l \in Kinds, v \in Users : less[l][v] = Nothing \/ Usable(less[l][v].n, spent, c)
  BY <1>1 DEF Apart
<1>4. \A o \in Logins : HasChallenge(new[o]) => Usable(new[o].n, spent, c)
  BY <1>2 DEF Apart
<1>5. \A l, m \in Kinds, v, w \in Users :
          less[l][v] # Nothing /\ less[m][w] # Nothing /\ less[l][v].n = less[m][w].n => l = m /\ v = w
  BY <1>1 DEF Apart
<1>6. \A q, o \in Logins :
          HasChallenge(new[q]) /\ HasChallenge(new[o]) /\ new[q].n = new[o].n => q = o
  BY <1>2 DEF Apart
<1>7. \A o \in Logins, l \in Kinds, v \in Users :
          HasChallenge(new[o]) /\ less[l][v] # Nothing => new[o].n # less[l][v].n
  BY <1>1, <1>2 DEF Apart
<1> QED
  BY <1>3, <1>4, <1>5, <1>6, <1>7 DEF Apart

\* One that has been good for something is in nobody's hands any more.
LEMMA RedeemApart ==
    ASSUME NEW spent, NEW waits, NEW asks, NEW c \in Nat, Redeemable(spent, c), Apart(spent, waits, asks, c),
           NEW r \in Logins, HasChallenge(asks[r]), NEW n, n = asks[r].n,
           NEW new, \A o \in Logins : o # r => new[o] = asks[o], ~HasChallenge(new[r]),
           NEW more, DOMAIN more = DOMAIN spent, more[n] = 1,
           \A m \in DOMAIN spent : m # n => more[m] = spent[m]
    PROVE  Redeemable(more, c) /\ Apart(more, waits, new, c)
<1>1. n \in DOMAIN spent /\ n > c /\ spent[n] = 0 /\ DOMAIN spent \subseteq Nat
  BY DEF Apart, Usable, Redeemable
<1>2. Redeemable(more, c)
  <2>1. ~(n <= c)
    BY <1>1
  <2> QED
    BY <2>1 DEF Redeemable
<1>3. \A m : Usable(m, spent, c) /\ m # n => Usable(m, more, c)
  BY DEF Usable
<1>4. \A o \in Logins : HasChallenge(new[o]) =>
          HasChallenge(asks[o]) /\ new[o].n = asks[o].n /\ o # r
  OBVIOUS
<1>5. \A o \in Logins : HasChallenge(new[o]) => new[o].n # n
  BY <1>4 DEF Apart
<1>6. \A k \in Kinds, u \in Users : waits[k][u] # Nothing => waits[k][u].n # n
  BY DEF Apart
<1>7. \A k \in Kinds, u \in Users : waits[k][u] = Nothing \/ Usable(waits[k][u].n, more, c)
  BY <1>3, <1>6 DEF Apart
<1>8. \A o \in Logins : HasChallenge(new[o]) => Usable(new[o].n, more, c)
  BY <1>3, <1>4, <1>5 DEF Apart
<1>9. /\ \A k, l \in Kinds, u, v \in Users :
            waits[k][u] # Nothing /\ waits[l][v] # Nothing /\ waits[k][u].n = waits[l][v].n
                => k = l /\ u = v
      /\ \A p, o \in Logins :
            HasChallenge(new[p]) /\ HasChallenge(new[o]) /\ new[p].n = new[o].n => p = o
      /\ \A o \in Logins, k \in Kinds, u \in Users :
            HasChallenge(new[o]) /\ waits[k][u] # Nothing => new[o].n # waits[k][u].n
  BY <1>4 DEF Apart
<1>10. Apart(more, waits, new, c)
  BY <1>7, <1>8, <1>9 DEF Apart
<1> QED
  BY <1>2, <1>10

\* A new challenge replaces the one its user had.
LEMMA PutKeeps ==
    ASSUME LoginIInv, NEW k \in Kinds, NEW u \in Users, Put(k, u)
    PROVE  LoginIInv'
<1>1. /\ Spend("challenges")
      /\ pending' = [pending EXCEPT ![k][u] = [n |-> left.challenges, exp |-> clock + Life]]
      /\ UNCHANGED <<disk, people, limiter, attempt, tokens, redeemed, clock>>
  BY DEF Put
<1>2. PICK c, x : c = left.challenges /\ x = [n |-> left.challenges, exp |-> clock + Life]
  OBVIOUS
<1>3. c \in Nat /\ c > 0 /\ x.n = c /\ left' \in [Budgeted -> Nat] /\ left'.challenges = c - 1
  <2>1. left \in [Budgeted -> Nat] /\ "challenges" \in Budgeted
    BY DEF LoginIInv, LoginTypes, Budgeted
  <2>2. left' \in [Budgeted -> Nat] /\ left.challenges > 0
        /\ left' = [left EXCEPT !["challenges"] = left["challenges"] - 1]
    BY <1>1, <2>1, Spending
  <2>3. left'.challenges = left.challenges - 1
    BY <2>1, <2>2
  <2> QED
    BY <1>2, <2>1, <2>2, <2>3
<1>4. PICK spent, waits, asks, new : spent = redeemed /\ waits = pending /\ asks = attempt /\ new = pending'
  OBVIOUS
<1>5. /\ new = [l \in Kinds |-> [v \in Users |-> new[l][v]]]
      /\ new[k][u] = x /\ \A l \in Kinds, v \in Users : <<l, v>> # <<k, u>> => new[l][v] = waits[l][v]
  BY <1>1, <1>2, <1>4 DEF LoginIInv, ChallengesOK
<1>6. Redeemable(spent, c - 1) /\ Apart(spent, new, asks, c - 1)
  <2>1. Redeemable(spent, c) /\ Apart(spent, waits, asks, c)
    BY <1>2, <1>4 DEF LoginIInv, ChallengesOK
  <2> QED
    BY <1>3, <1>5, <2>1, PutApart
<1>7. ChallengesOK'
  BY ZenonT(40), <1>1, <1>3, <1>4, <1>5, <1>6 DEF ChallengesOK
<1>8. LoginTypes'
  BY <1>1, <1>3 DEF LoginIInv, LoginTypes, disk, limiter
<1>9. TokenKeysOK' /\ TokenRolesOK' /\ GuessesOK'
  BY <1>1, KeysStay, RolesStay, GuessesStay DEF LoginIInv, disk, people, limiter
<1> QED
  BY <1>7, <1>8, <1>9 DEF LoginIInv

\* A challenge is taken out, for better or worse.
LEMMA TakeKeepsInv ==
    ASSUME LoginIInv, NEW r \in Logins, NEW k \in Kinds, NEW u \in Users, Take(r, k, u)
    PROVE  LoginIInv'
<1>1. /\ attempt[r].at = "idle" /\ pending[k][u] # Nothing
      /\ pending' = [pending EXCEPT ![k][u] = Nothing]
      /\ UNCHANGED <<disk, people, limiter, tokens, redeemed, clock, left>>
  BY DEF Take, LoginAt
<1>2. PICK n : n = pending[k][u].n
  OBVIOUS
<1>3. PICK a : AttemptOK(a) /\ ~IsGuess(a) /\ (HasChallenge(a) => a.n = n) /\ Go(r, a)
  <2>1. CASE Go(r, Resting)
    BY <2>1, RestingOK
  <2>2. CASE k = "pubkey" /\ Go(r, [at |-> "read", by |-> k, n |-> n, user |-> u, row |-> Unread])
    <3>1. PICK a : a = [at |-> "read", by |-> k, n |-> n, user |-> u, row |-> Unread]
      OBVIOUS
    <3>2. AttemptOK(a) /\ ~IsGuess(a) /\ a.n = n
      BY <2>2, <3>1 DEF AttemptOK, IsGuess
    <3> QED
      BY <2>2, <3>1, <3>2
  <2>3. CASE k = "passkey" /\ Go(r, [at |-> "save", by |-> k, n |-> n, user |-> u, row |-> Unread])
    <3>1. PICK a : a = [at |-> "save", by |-> k, n |-> n, user |-> u, row |-> Unread]
      OBVIOUS
    <3>2. AttemptOK(a) /\ ~IsGuess(a) /\ a.n = n
      BY <2>3, <3>1 DEF AttemptOK, IsGuess
    <3> QED
      BY <2>3, <3>1, <3>2
  <2>4. k = "pubkey" \/ k = "passkey"
    BY DEF Kinds
  <2> QED
    BY <1>2, <2>1, <2>2, <2>3, <2>4 DEF Take
<1>4. /\ attempt' = [o \in Logins |-> attempt'[o]] /\ \A o \in Logins : AttemptOK(attempt'[o])
      /\ attempt'[r] = a /\ \A o \in Logins : o # r => attempt'[o] = attempt[o]
  BY <1>3, Going DEF LoginIInv
<1>5. PICK spent, waits, asks, c, less, new :
        /\ spent = redeemed /\ waits = pending /\ asks = attempt /\ c = left.challenges
        /\ less = pending' /\ new = attempt'
  OBVIOUS
<1>6. /\ less = [l \in Kinds |-> [v \in Users |-> less[l][v]]]
      /\ less[k][u] = Nothing /\ \A l \in Kinds, v \in Users : <<l, v>> # <<k, u>> => less[l][v] = waits[l][v]
  BY <1>1, <1>5 DEF LoginIInv, ChallengesOK
<1>7. Apart(spent, less, new, c)
  <2>1. Apart(spent, waits, asks, c) /\ waits[k][u] # Nothing
    BY <1>1, <1>5 DEF LoginIInv, ChallengesOK
  <2>2. \A o \in Logins : o # r => new[o] = asks[o]
    BY <1>4, <1>5
  <2>3. HasChallenge(new[r]) => new[r].n = waits[k][u].n
    BY <1>2, <1>3, <1>4, <1>5
  <2> QED
    BY <1>6, <2>1, <2>2, <2>3, TakeApart
<1>8. ChallengesOK'
  BY SMTT(30), <1>1, <1>5, <1>6, <1>7 DEF LoginIInv, ChallengesOK
<1>9. LoginTypes'
  BY <1>1, <1>3, TypesGo DEF LoginIInv, limiter
<1>10. GuessesOK'
  <2>1. ~IsGuess(attempt[r])
    BY <1>1 DEF IsGuess
  <2> QED
    BY <1>1, <1>3, <2>1, GuessesGo DEF LoginIInv, limiter
<1>11. TokenKeysOK' /\ TokenRolesOK'
  BY <1>1, KeysStay, RolesStay DEF LoginIInv, disk, people
<1> QED
  BY <1>8, <1>9, <1>10, <1>11 DEF LoginIInv

\* A request with a challenge ends, and the challenge was good or not.
LEMMA RedeemKeeps ==
    ASSUME LoginIInv, NEW r \in Logins, HasChallenge(attempt[r]), Go(r, Resting),
           Redeem(attempt[r].n) \/ UNCHANGED redeemed,
           UNCHANGED <<disk, limiter, pending, clock, left>>
    PROVE  LoginTypes' /\ ChallengesOK' /\ GuessesOK'
<1>1. LoginTypes'
  BY RestingOK, TypesGo DEF LoginIInv, limiter
<1>2. ~IsGuess(attempt[r])
  <2>1. AttemptOK(attempt[r])
    BY DEF LoginIInv, LoginTypes
  <2> QED
    BY <2>1 DEF HasChallenge, IsGuess, Kinds
<1>3. GuessesOK'
  BY <1>2, RestingOK, GuessesGo DEF LoginIInv, limiter
<1>4. ChallengesOK'
  <2>1. CASE UNCHANGED redeemed
    BY <2>1, RestingOK, ChallengesGo DEF LoginIInv
  <2>2. CASE Redeem(attempt[r].n)
    <3>1. PICK spent, waits, asks, c, new, n :
            /\ spent = redeemed /\ waits = pending /\ asks = attempt /\ c = left.challenges
            /\ new = attempt' /\ n = attempt[r].n
      OBVIOUS
    <3>2. PICK more : more = [spent EXCEPT ![n] = @ + 1]
      OBVIOUS
    <3>3. redeemed' = more
      BY <2>2, <3>1, <3>2 DEF Redeem
    <3>4. new[r] = Resting /\ \A o \in Logins : o # r => new[o] = asks[o]
      BY <3>1, RestingOK, Going DEF LoginIInv
    <3>5. c \in Nat /\ Redeemable(spent, c) /\ Apart(spent, waits, asks, c)
      BY <3>1 DEF LoginIInv, ChallengesOK, LoginTypes, Budgeted
    <3>6. Redeemable(more, c) /\ Apart(more, waits, new, c)
      <4>1. HasChallenge(asks[r]) /\ n = asks[r].n
        BY <3>1
      <4>2. n \in DOMAIN spent /\ spent[n] = 0
        BY <3>5, <4>1 DEF Apart, Usable
      <4>3. /\ DOMAIN more = DOMAIN spent /\ more[n] = 1
            /\ \A m \in DOMAIN spent : m # n => more[m] = spent[m]
        BY <3>2, <4>2
      <4>4. ~HasChallenge(new[r])
        BY <3>4, RestingOK
      <4> QED
        BY <3>4, <3>5, <4>1, <4>3, <4>4, RedeemApart
    <3> QED
      BY <3>1, <3>3, <3>6 DEF LoginIInv, ChallengesOK
  <2> QED
    BY <2>1, <2>2
<1> QED
  BY <1>1, <1>3, <1>4

\* A signature is checked against the key of the account.
LEMMA VerifyChallengeKeeps ==
    ASSUME LoginIInv, NEW r \in Logins, VerifyChallenge(r)
    PROVE  LoginIInv'
<1>1. /\ up = "up" /\ attempt[r].at = "check" /\ attempt[r].by = "pubkey" /\ Go(r, Resting)
      /\ Grant(r) \/ UNCHANGED tokens
      /\ Redeem(attempt[r].n) \/ UNCHANGED redeemed
      /\ UNCHANGED <<disk, people, limiter, pending, clock, left>>
  BY DEF VerifyChallenge, LoginAt
<1>2. HasChallenge(attempt[r])
  BY <1>1 DEF HasChallenge, Kinds
<1>3. LoginTypes' /\ ChallengesOK' /\ GuessesOK'
  BY <1>1, <1>2, RedeemKeeps
<1>4. TokenKeysOK' /\ TokenRolesOK'
  <2>1. CASE Grant(r)
    <3>1. PICK u, role : u = attempt[r].user /\ role = attempt[r].row.role
      OBVIOUS
    <3>2. u \in Users
      BY <1>1, <3>1 DEF LoginIInv, LoginTypes, AttemptOK
    <3>3. tokens' = tokens \cup {Token(u, role, FALSE)}
      BY <2>1, <3>1 DEF Grant
    <3> QED
      BY <1>1, <3>2, <3>3, TokenMade DEF LoginIInv
  <2>2. CASE UNCHANGED tokens
    BY <1>1, <2>2, KeysStay, RolesStay DEF LoginIInv, disk, people
  <2> QED
    BY <1>1, <2>1, <2>2
<1> QED
  BY <1>3, <1>4 DEF LoginIInv

\* A passkey is saved, or not.
LEMMA SavePasskeyKeeps ==
    ASSUME LoginIInv, NEW r \in Logins, SavePasskey(r)
    PROVE  LoginIInv'
<1>1. /\ attempt[r].at = "save" /\ Go(r, Resting)
      /\ Redeem(attempt[r].n) \/ UNCHANGED redeemed
      /\ UNCHANGED <<disk, people, limiter, pending, tokens, clock, left>>
  BY DEF SavePasskey, LoginAt
<1>2. HasChallenge(attempt[r])
  BY <1>1 DEF LoginIInv, LoginTypes, AttemptOK, HasChallenge, Kinds
<1>3. LoginTypes' /\ ChallengesOK' /\ GuessesOK'
  BY <1>1, <1>2, RedeemKeeps
<1>4. TokenKeysOK' /\ TokenRolesOK'
  BY <1>1, KeysStay, RolesStay DEF LoginIInv, disk, people
<1> QED
  BY <1>3, <1>4 DEF LoginIInv

\* An account gets another role, or goes.
LEMMA EditAccountKeeps ==
    ASSUME LoginIInv, EditAccount
    PROVE  LoginIInv'
<1>1. /\ Spend("edits") /\ UNCHANGED <<disk, limiter, pending, attempt, tokens, redeemed, clock>>
  BY DEF EditAccount
<1>2. PICK u \in Users : \E x : /\ account' = [account EXCEPT ![u].role = x]
                                /\ changed' = [changed EXCEPT ![u] = clock]
  BY DEF EditAccount
<1>3. /\ left' \in [Budgeted -> Nat] /\ left'.challenges = left.challenges
  BY <1>1, Spending DEF LoginIInv, LoginTypes, Budgeted
<1>4. LoginTypes'
  BY <1>1, <1>3 DEF LoginIInv, LoginTypes, disk, limiter
<1>5. TokenKeysOK' /\ GuessesOK'
  BY <1>1, KeysStay, GuessesStay DEF LoginIInv, disk, limiter
<1>6. ChallengesOK'
  BY <1>1, <1>3, ChallengesStay DEF LoginIInv
<1>7. TokenRolesOK'
  <2>1. /\ account' = [v \in Users |-> account'[v]] /\ \A v \in Users : "role" \in DOMAIN account'[v]
        /\ \A v \in Users : v # u => account'[v] = account[v]
    BY <1>2 DEF LoginIInv, TokenRolesOK
  <2>2. clock \in Nat /\ changed \in [Users -> Nat]
    BY DEF LoginIInv, LoginTypes, TokenRolesOK
  <2>3. changed' \in [Users -> Nat] /\ changed'[u] = clock /\ \A v \in Users : v # u => changed'[v] = changed[v]
    BY <1>2, <2>2
  <2>4. \A v \in Users : changed'[v] <= clock
    BY <2>2, <2>3 DEF LoginIInv, TokenRolesOK
  <2>5. ASSUME NEW t \in tokens
        PROVE  /\ t.user \in Users /\ t.exp \in Nat /\ t.exp <= clock + Duration
               /\ ~t.late /\ ~t.refreshed =>
                     t.role = account'[t.user].role \/ t.exp <= changed'[t.user] + Duration
    <3>1. t.user \in Users /\ t.exp \in Nat /\ t.exp <= clock + Duration
          /\ (~t.late /\ ~t.refreshed =>
                t.role = account[t.user].role \/ t.exp <= changed[t.user] + Duration)
      BY DEF LoginIInv, TokenRolesOK
    <3>2. CASE t.user = u
      BY <2>3, <3>1, <3>2
    <3>3. CASE t.user # u
      BY <2>1, <2>3, <3>1, <3>3
    <3> QED
      BY <3>2, <3>3
  <2> QED
    BY <1>1, <2>1, <2>3, <2>4, <2>5 DEF TokenRolesOK
<1> QED
  BY <1>4, <1>5, <1>6, <1>7 DEF LoginIInv

\* Time goes on; the end of a block starts the count of guesses anew.
LEMMA LoginTickKeeps ==
    ASSUME LoginIInv, LoginTick
    PROVE  LoginIInv'
<1>1. /\ clock' = clock + 1 /\ clock \in Nat
      /\ tries' = [i \in Ips |-> IF entry[i].blocked = clock + 1 THEN 0 ELSE tries[i]]
      /\ UNCHANGED <<disk, people, entry, pending, attempt, tokens, redeemed, left>>
  BY DEF LoginTick, LoginIInv, LoginTypes
<1>2. LoginTypes'
  <2>1. tries' \in [Ips -> Nat]
    BY <1>1 DEF LoginIInv, LoginTypes
  <2> QED
    BY <1>1, <2>1 DEF LoginIInv, LoginTypes, disk
<1>3. TokenKeysOK'
  BY <1>1, KeysStay DEF LoginIInv, disk
<1>4. TokenRolesOK'
  <2>1. account' = account /\ changed' = changed /\ tokens' = tokens
    BY <1>1 DEF people
  <2>2. \A u \in Users : changed[u] <= clock + 1
    BY <1>1 DEF LoginIInv, TokenRolesOK
  <2>3. \A t \in tokens : t.exp <= (clock + 1) + Duration
    BY <1>1, LoginConstants DEF LoginIInv, TokenRolesOK
  <2> QED
    BY <1>1, <2>1, <2>2, <2>3 DEF LoginIInv, TokenRolesOK
<1>5. ChallengesOK'
  BY <1>1, ChallengesStay DEF LoginIInv
<1>6. GuessesOK'
  <2>1. ASSUME NEW i \in Ips
        PROVE  Guarded(clock', entry'[i].count, entry'[i].blocked, tries'[i], Cardinality(Uncounted(i)'))
    <3>1. Uncounted(i)' = Uncounted(i)
      BY <1>1 DEF Uncounted
    <3>2. PICK c, b, t, n : /\ c = entry[i].count /\ b = entry[i].blocked /\ t = tries[i]
                            /\ n = Cardinality(Uncounted(i))
      OBVIOUS
    <3>3. c \in Nat /\ b \in Nat /\ t \in Nat /\ n \in Nat /\ Threshold \in Nat
      BY <3>2, UncountedFinite, LoginConstants DEF LoginIInv, LoginTypes
    <3>4. Guarded(clock, c, b, t, n)
      BY <3>2 DEF LoginIInv, GuessesOK
    <3>5. Guarded(clock + 1, c, b, IF b = clock + 1 THEN 0 ELSE t, n)
      BY <1>1, <3>3, <3>4 DEF Guarded
    <3> QED
      BY <1>1, <3>1, <3>2, <3>5
  <2> QED
    BY <2>1 DEF GuessesOK
<1> QED
  BY <1>2, <1>3, <1>4, <1>5, <1>6 DEF LoginIInv

\* It holds at the start.
LEMMA LoginStart == LoginInit => LoginIInv
<1> SUFFICES ASSUME LoginInit PROVE LoginIInv
  OBVIOUS
<1>1. left \in [Budgeted -> Nat]
  BY LoginConstants DEF LoginInit
<1>2. LoginTypes
  <2>1. up \in {"down", "writing", "up"} /\ secret \in BOOLEAN /\ misread \in BOOLEAN
    BY DEF LoginInit
  <2>2. {key, file, keys, clock} \subseteq Nat
    BY DEF LoginInit, NoKey, Configured
  <2>3. /\ entry = [i \in Ips |-> entry[i]] /\ tries \in [Ips -> Nat]
        /\ \A i \in Ips : entry[i] = Fresh
    BY DEF LoginInit
  <2>4. \A i \in Ips : entry[i] = [count |-> entry[i].count, blocked |-> entry[i].blocked]
                       /\ entry[i].count \in Nat /\ entry[i].blocked \in Nat
    BY <2>3 DEF Fresh
  <2>5. attempt = [r \in Logins |-> attempt[r]] /\ \A r \in Logins : AttemptOK(attempt[r])
    BY RestingOK DEF LoginInit
  <2> QED
    BY <1>1, <2>1, <2>2, <2>3, <2>4, <2>5 DEF LoginTypes
<1>3. TokenKeysOK
  BY DEF LoginInit, TokenKeysOK
<1>4. TokenRolesOK
  BY DEF LoginInit, TokenRolesOK
<1>5. ChallengesOK
  <2>1. PICK spent, waits, asks, c : spent = redeemed /\ waits = pending /\ asks = attempt /\ c = left.challenges
    OBVIOUS
  <2>2. c \in Nat /\ spent = [n \in 1..c |-> 0]
    BY <1>1, <2>1 DEF LoginInit, Budgeted
  <2>3. Redeemable(spent, c)
    BY <2>2 DEF Redeemable
  <2>4. /\ \A k \in Kinds, u \in Users : waits[k][u] = Nothing
        /\ \A r \in Logins : ~HasChallenge(asks[r])
    BY <2>1, RestingOK DEF LoginInit
  <2>5. Apart(spent, waits, asks, c)
    BY <2>4 DEF Apart
  <2> QED
    BY <2>1, <2>3, <2>5 DEF ChallengesOK, LoginInit
<1>6. GuessesOK
  <2>1. ASSUME NEW i \in Ips
        PROVE  Guarded(clock, entry[i].count, entry[i].blocked, tries[i], Cardinality(Uncounted(i)))
    <3>1. Uncounted(i) = {}
      BY RestingOK DEF LoginInit, Uncounted
    <3>2. Cardinality(Uncounted(i)) = 0
      BY <3>1, FS_EmptySet
    <3>3. clock = 0 /\ entry[i].count = 0 /\ entry[i].blocked = 0 /\ tries[i] = 0
      BY DEF LoginInit, Fresh
    <3> QED
      BY <3>2, <3>3, LoginConstants DEF Guarded
  <2> QED
    BY <2>1 DEF GuessesOK
<1> QED
  BY <1>2, <1>3, <1>4, <1>5, <1>6 DEF LoginIInv

\* Every step keeps it.
LEMMA LoginStep == LoginIInv /\ [LoginNext]_loginVars => LoginIInv'
<1> SUFFICES ASSUME LoginIInv, [LoginNext]_loginVars PROVE LoginIInv'
  OBVIOUS
<1>1. CASE Start
  BY <1>1, LoadKeeps, WriteKeeps, LoginCrashKeeps DEF Start
<1>2. CASE Refresh \/ EditAccount \/ LoginTick
  BY <1>2, RefreshKeeps, EditAccountKeeps, LoginTickKeeps
<1>3. ASSUME NEW k \in Kinds, NEW u \in Users, Put(k, u)
      PROVE  LoginIInv'
  BY <1>3, PutKeeps
<1>4. ASSUME NEW r \in Logins, ServeLogin(r)
      PROVE  LoginIInv'
  BY <1>4, EnterLoginKeeps, MalformedKeeps, ReadAccountKeeps, CheckPasswordKeeps, CountKeeps,
     VerifyChallengeKeeps, SavePasskeyKeeps, TakeKeepsInv DEF ServeLogin
<1>5. CASE UNCHANGED loginVars
  <2>1. LoginTypes'
    BY <1>5 DEF loginVars, LoginIInv, LoginTypes, disk, limiter
  <2>2. TokenKeysOK' /\ TokenRolesOK' /\ GuessesOK'
    BY <1>5, KeysStay, RolesStay, GuessesStay DEF loginVars, LoginIInv, disk, people, limiter
  <2>3. ChallengesOK'
    BY <1>5, ChallengesStay DEF loginVars, LoginIInv
  <2> QED
    BY <2>1, <2>2, <2>3 DEF LoginIInv
<1> QED
  BY <1>1, <1>2, <1>3, <1>4, <1>5 DEF LoginNext

\* What it says of challenges, tokens, roles and guesses.
LEMMA LoginImplied == LoginIInv => LoginInv
<1> SUFFICES ASSUME LoginIInv PROVE LoginInv
  OBVIOUS
<1>1. LoginTypeOK
  <2>1. \A k \in Kinds, u \in Users : pending[k][u].n \in {0} \cup DOMAIN redeemed
    BY DEF LoginIInv, ChallengesOK, Apart, Usable, Nothing
  <2> QED
    BY <2>1 DEF LoginIInv, LoginTypes, AttemptOK, LoginTypeOK
<1>2. RedeemedOnce
  BY DEF LoginIInv, ChallengesOK, Redeemable, RedeemedOnce
<1>3. TokensSurvive
  <2> SUFFICES ASSUME up = "up", ~misread, NEW t \in tokens, clock <= t.exp
               PROVE  Valid(t)
    BY DEF TokensSurvive
  <2>1. t.key = key
    BY DEF LoginIInv, TokenKeysOK
  <2> QED
    BY <2>1 DEF Valid
<1>4. RolesCatchUp
  <2> SUFFICES ASSUME NEW t \in tokens, Valid(t), ~t.late, ~t.refreshed, t.role # account[t.user].role
               PROVE  clock - changed[t.user] <= Duration
    BY DEF RolesCatchUp
  <2>1. t.user \in Users /\ t.exp \in Nat /\ t.exp <= changed[t.user] + Duration /\ changed[t.user] \in Nat
    BY DEF LoginIInv, TokenRolesOK
  <2>2. clock <= t.exp /\ clock \in Nat
    BY DEF Valid, LoginIInv, LoginTypes
  <2> QED
    BY <2>1, <2>2, LoginConstants
<1>5. GuessesBounded
  <2> SUFFICES ASSUME NEW i \in Ips
               PROVE  tries[i] <= Threshold - 1 + Cardinality(Logins)
    BY DEF GuessesBounded
  <2>1. PICK c, b, t, n, m : /\ c = entry[i].count /\ b = entry[i].blocked /\ t = tries[i]
                             /\ n = Cardinality(Uncounted(i)) /\ m = Cardinality(Logins)
    OBVIOUS
  <2>2. /\ c \in Nat /\ b \in Nat /\ t \in Nat /\ n \in Nat /\ m \in Nat /\ n <= m
        /\ clock \in Nat /\ Threshold \in Nat \ {0}
    BY <2>1, UncountedFinite, LoginConstants DEF LoginIInv, LoginTypes
  <2>3. Guarded(clock, c, b, t, n)
    BY <2>1 DEF LoginIInv, GuessesOK
  <2>4. t <= Threshold - 1 + m
    BY <2>1, <2>2, <2>3 DEF Guarded
  <2> QED
    BY <2>1, <2>4
<1> QED
  BY <1>1, <1>2, <1>3, <1>4, <1>5 DEF LoginInv

\* However many log in at once, wherever the process dies and whatever key
\* file it finds: a challenge is good for one login, tokens survive restarts,
\* a role that was taken away is in use a Duration longer at most, and the
\* limiter lets no more guesses through than its limit and one per request
\* (auth.go, passkey.go, secret.go, ratelimit.go).
THEOREM LoginInvariance == LoginSpec => []LoginInv
<1>1. LoginSpec => []LoginIInv
  BY LoginStart, LoginStep, PTL DEF LoginSpec
<1> QED
  BY <1>1, LoginImplied, PTL

=============================================================================
