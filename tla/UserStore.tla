------------------------------ MODULE UserStore ------------------------------
(***************************************************************************)
(* The internal database of accounts, internal/internaldb/store.go, and    *)
(* the handlers that change it: internal/api/handler/admin.go, setup.go,   *)
(* permissions.go and ChangePassword of auth.go.                           *)
(*                                                                         *)
(* The SQLite pool has one connection, so a statement is one step, and a   *)
(* handler is a sequence of statements between which others may run.       *)
(* SaveUser and SaveRole replace a whole row with a copy read earlier and  *)
(* edited since.  A restart migrates and seeds, statement by statement.    *)
(*                                                                         *)
(* Rows are records; what a request changes is a record of those fields,   *)
(* so an edit takes those and else the row.  A username, a role or a       *)
(* permission is a member of a small set; passwords stand for their hashes.*)
(***************************************************************************)
EXTENDS Integers, FiniteSets, Sequences, SequencesExt

CONSTANTS
    Reqs,          \* goroutines that serve requests
    PubAdmins,     \* names in GODB_ADMIN_PUBKEYS
    NewNames,      \* names requests ask for
    NewPwds,       \* passwords requests ask for
    MaxCalls,      \* bound: requests begun
    MaxCrashes,    \* bound: times the process dies
    MaxNow         \* bound: the clock, in seconds

ASSUME StoreAssumption ==
    {MaxCalls, MaxCrashes, MaxNow} \subseteq Nat /\ IsFiniteSet(PubAdmins)

VARIABLES
    db,        \* [users, roles, designs]: the sets of rows on the disk
    boot,      \* how far Open has come; "up" when requests are served
    todo,      \* rows the seeding loop under way has yet to save
    req,       \* req[r]: the request r serves and how far it has come
    now,       \* time.Now().Unix()
    calls, crashes,
    \* history
    want,      \* users and roles had every request been one step
    tainted,   \* ids that requests changed under each other, or took away
    setups,    \* setups of the default account since it had the default password
    touched    \* some request has changed users or roles

hist == <<want, tainted, setups, touched>>
vars == <<db, boot, todo, req, now, calls, crashes, hist>>

-----------------------------------------------------------------------------
\* Rows.

DefaultPwd == "admin"
\* Ids are triples; those of users are "admin-<name>", "admin-001" and
\* "user-<second>" in the code.
Id(s)    == <<s, "", 0>>
PubId(n) == <<"admin", n, 0>>
FirstId  == Id("admin-001")
NewId    == <<"user", "", now>>
None     == [id |-> Id("")]

UserRow(id, name, pwd, role) ==
    [id |-> id, name |-> name, pwd |-> pwd, role |-> role,
     perm |-> {}, access |-> {}]

\* DefaultRoles, with the permissions the roles differ in.
DefaultRoles ==
    <<[id |-> Id("admin"),     perm |-> {"*"},                access |-> {}],
      [id |-> Id("developer"), perm |-> {"query", "execute"}, access |-> {}],
      [id |-> Id("readonly"),  perm |-> {"query"},            access |-> {}]>>
Builtins == {DefaultRoles[i] : i \in 1..3}

\* A row with the fields of set put into it.
Edit(x, set) ==
    [f \in DOMAIN x \cup DOMAIN set |-> IF f \in DOMAIN set THEN set[f] ELSE x[f]]

Find(rows, id)       == {x \in rows : x.id = id}
TheOne(rows)         == IF rows = {} THEN None ELSE CHOOSE x \in rows : TRUE
GetByID(t, id)       == TheOne(Find(db[t], id))
GetUser(name)        == TheOne({u \in db.users : u.name = name})

\* Rows that INSERT OR REPLACE drops: the same key, or the same unique name.
Evicted(t, row, rows) ==
    {x \in rows : x.id = row.id \/ (t = "users" /\ x.name = row.name)}

Replace(t, row, rows) == (rows \ Evicted(t, row, rows)) \cup {row}

\* GetEffectivePerms for a role: its row, or else the built-in of that name.
RolePerms(id) ==
    LET row     == GetByID("roles", id)
        builtin == TheOne(Find(Builtins, id))
    IN  IF row # None THEN row.perm
        ELSE IF builtin # None THEN builtin.perm ELSE {}

-----------------------------------------------------------------------------
\* Requests.

\* What a request may ask: the operation, the row, the fields it sets, and
\* for ChangePassword the old password.
Call(op, t, id, set) == [op |-> op, t |-> t, id |-> id, set |-> set]

UserIds == {u.id : u \in db.users}

\* The handlers, each as the calls it may be asked for.  A username and a
\* role are required by UpdateUser, the rest is set only when it is given.
CreateUser ==
    {Call("CreateUser", "users", NewId, s) :
        s \in [name : NewNames, pwd : NewPwds, role : {"readonly"}, perm : {{}}]}
UpdateUser ==
    {Call("UpdateUser", "users", i, s) : i \in UserIds,
        s \in [name : NewNames, role : {"developer"}]
              \cup [name : NewNames, role : {"readonly"}, perm : {{"jobs"}}]}
SetUserPermissions ==
    {Call("SetUserPermissions", "users", i, s) : i \in UserIds,
        s \in [perm : {{"jobs"}}, access : {{"c1"}}]}
ChangePassword ==
    {Call("ChangePassword", "users", i, s) : i \in UserIds, s \in [pwd : NewPwds]}
\* At least eight characters, so never the default one.
InitializeSetup ==
    {Call("InitializeSetup", "users", FirstId, s) : s \in [pwd : NewPwds \ {DefaultPwd}]}
SetUserDBAccess ==
    {Call("SetUserDBAccess", "users", i, s) : i \in UserIds, s \in [access : {{}, {"c1"}}]}
DeleteUser ==
    {Call("DeleteUser", "users", i, [pwd |-> DefaultPwd]) : i \in UserIds}

\* UpdateRole and SetRolePermissions differ in the name only.
CreateRole ==
    {Call("CreateRole", "roles", Id("developer"), s) : s \in [perm : {{"query"}}, access : {{}}]}
UpdateRole ==
    {Call("UpdateRole", "roles", i, s) : i \in {Id("developer"), Id("readonly")},
        s \in [perm : {{}}] \cup [access : {{"c1"}}]}
DeleteRole == {Call("DeleteRole", "roles", Id("developer"), [perm |-> {}])}

SaveDesign ==
    {Call("SaveDesign", "designs", i, s) : i \in {Id("d1"), Id("d2")}, s \in [active : BOOLEAN]}

AnyCall == CreateUser \cup UpdateUser \cup SetUserPermissions \cup ChangePassword
           \cup InitializeSetup \cup SetUserDBAccess \cup DeleteUser
           \cup CreateRole \cup UpdateRole \cup DeleteRole \cup SaveDesign

Idle == [st |-> "idle"]
Busy(r) == req[r].st # "idle"
Done(r) == req' = [req EXCEPT ![r] = Idle]
At(r, st, op) == /\ boot = "up"
                 /\ req[r].st = st
                 /\ req[r].c.op \in op

Readers == {"UpdateUser", "SetUserPermissions", "ChangePassword", "UpdateRole"}

\* The first statement of a handler comes after it has parsed its request.
Begin(r) ==
    /\ boot = "up" /\ ~Busy(r) /\ calls < MaxCalls
    /\ calls' = calls + 1
    /\ \E c \in AnyCall :
          req' = [req EXCEPT ![r] =
                    [c |-> c, seen |-> {}, row |-> None,
                     st |-> IF c.op \in Readers THEN "read"
                            ELSE IF c.op = "InitializeSetup" THEN "check"
                            ELSE IF c.op = "SaveDesign" /\ c.set.active THEN "deactivate"
                            ELSE "write"]]
    /\ UNCHANGED <<db, boot, todo, now, crashes, hist>>

\* Mutation: a column is missing in the SELECT, so the copy lacks it.
ReadWithoutAccess(r) ==
    /\ At(r, "read", Readers)
    /\ LET c == req[r].c
           x == GetByID(c.t, c.id)
       IN  \/ /\ x # None
              /\ req' = [req EXCEPT ![r].seen = {x}, ![r].row = Edit([x EXCEPT !.access = {}], c.set),
                                    ![r].st = "save"]
           \/ /\ x = None \/ c.op = "ChangePassword"
              /\ Done(r)
    /\ UNCHANGED <<db, boot, todo, now, calls, crashes, hist>>

\* GetUserByID or GetRole, and the edit of the copy.  Not found, or an old
\* password that does not match (the caller's, so it may), ends the request.
Read(r) ==
    /\ At(r, "read", Readers)
    /\ LET c == req[r].c
           x == GetByID(c.t, c.id)
       IN  \/ /\ x # None
              /\ req' = [req EXCEPT ![r].seen = {x}, ![r].row = Edit(x, c.set),
                                    ![r].st = "save"]
           \/ /\ x = None \/ c.op = "ChangePassword"
              /\ Done(r)
    /\ UNCHANGED <<db, boot, todo, now, calls, crashes, hist>>

\* IsSetupComplete: no account named admin means that setup is due.
CheckSetup(r) ==
    /\ At(r, "check", {"InitializeSetup"})
    /\ LET u == GetUser("admin") IN
          IF u # None /\ u.pwd # DefaultPwd THEN Done(r)
          ELSE req' = [req EXCEPT ![r].seen = {u}, ![r].st = "reread"]
    /\ UNCHANGED <<db, boot, todo, now, calls, crashes, hist>>

\* CompleteSetup reads the account once more and edits that copy.
RereadSetup(r) ==
    /\ At(r, "reread", {"InitializeSetup"})
    /\ LET u == GetUser("admin") IN
          IF u = None THEN Done(r)
          ELSE req' = [req EXCEPT ![r].seen = @ \cup {u}, ![r].st = "save",
                                  ![r].row = Edit(u, req[r].c.set)]
    /\ UNCHANGED <<db, boot, todo, now, calls, crashes, hist>>

\* Had the request been one step: its fields, set in the row as it is wanted.
Wanted(t, id, set) ==
    want' = [want EXCEPT ![t] = {IF x.id = id THEN Edit(x, set) ELSE x : x \in @}]

\* SaveUser or SaveRole of the edited copy.  Another's name in it drops that
\* user, and a row deleted since comes back.
Save(r) ==
    /\ At(r, "save", Readers \cup {"InitializeSetup"})
    /\ LET c == req[r].c
           x == req[r].row
           stale == req[r].seen # {GetByID(c.t, x.id)}
       IN  /\ db' = [db EXCEPT ![c.t] = Replace(c.t, x, @)]
           /\ tainted' = tainted \cup {e.id : e \in Evicted(c.t, x, db[c.t]) \ Find(db[c.t], x.id)}
                                 \cup (IF stale THEN {x.id} ELSE {})
           /\ Wanted(c.t, x.id, c.set)
           /\ setups' = IF x.id # FirstId THEN setups
                        ELSE IF c.op = "InitializeSetup" THEN setups + 1
                        ELSE IF c.op = "ChangePassword" /\ x.pwd = DefaultPwd THEN 0
                        ELSE setups
    /\ touched' = TRUE
    /\ Done(r)
    /\ UNCHANGED <<boot, todo, now, calls, crashes>>

\* CreateUser and CreateRole insert a row made of the request alone.
Create(r) ==
    /\ At(r, "write", {"CreateUser", "CreateRole"})
    /\ LET c   == req[r].c
           row == Edit(IF c.t = "users" THEN UserRow(c.id, "", "", "") ELSE [id |-> c.id], c.set)
       IN  /\ db' = [db EXCEPT ![c.t] = Replace(c.t, row, @)]
           /\ tainted' = tainted \cup {e.id : e \in Evicted(c.t, row, db[c.t])}
           /\ want' = [want EXCEPT ![c.t] = (@ \ Find(@, row.id)) \cup {row}]
    /\ touched' = TRUE
    /\ Done(r)
    /\ UNCHANGED <<boot, todo, now, calls, crashes, setups>>

\* SetUserDBAccess updates one column, DeleteUser and DeleteRole drop a row.
Patch(r) ==
    /\ At(r, "write", {"SetUserDBAccess"})
    /\ LET c == req[r].c IN
          /\ db' = [db EXCEPT !.users = {IF u.id = c.id THEN Edit(u, c.set) ELSE u : u \in @}]
          /\ Wanted("users", c.id, c.set)
    /\ touched' = TRUE
    /\ Done(r)
    /\ UNCHANGED <<boot, todo, now, calls, crashes, tainted, setups>>

Delete(r) ==
    /\ At(r, "write", {"DeleteUser", "DeleteRole"})
    /\ LET c == req[r].c IN
          /\ db' = [db EXCEPT ![c.t] = @ \ Find(@, c.id)]
          /\ want' = [want EXCEPT ![c.t] = @ \ Find(@, c.id)]
    /\ touched' = TRUE
    /\ Done(r)
    /\ UNCHANGED <<boot, todo, now, calls, crashes, tainted, setups>>

InsertsActive(r) == At(r, "write", {"SaveDesign"}) /\ req[r].c.set.active

\* Mutation: the other designs stay as they are.
DeactivateNothing(r) ==
    /\ At(r, "deactivate", {"SaveDesign"})
    /\ tainted' = tainted \cup (IF \E o \in Reqs : InsertsActive(o) THEN {Id("designs")} ELSE {})
    /\ req' = [req EXCEPT ![r].st = "write"]
    /\ UNCHANGED <<db, boot, todo, now, calls, crashes, want, setups, touched>>

\* SaveDesign: all designs inactive first, then a plain INSERT, which fails
\* when there is a design of that id.
Deactivate(r) ==
    /\ At(r, "deactivate", {"SaveDesign"})
    /\ tainted' = tainted \cup (IF \E o \in Reqs : InsertsActive(o) THEN {Id("designs")} ELSE {})
    /\ db' = [db EXCEPT !.designs = {[d EXCEPT !.active = FALSE] : d \in @}]
    /\ req' = [req EXCEPT ![r].st = "write"]
    /\ UNCHANGED <<boot, todo, now, calls, crashes, want, setups, touched>>

InsertDesign(r) ==
    /\ At(r, "write", {"SaveDesign"})
    /\ LET c == req[r].c IN
          db' = IF Find(db.designs, c.id) # {} THEN db
                ELSE [db EXCEPT !.designs = @ \cup {Edit([id |-> c.id], c.set)}]
    /\ Done(r)
    /\ UNCHANGED <<boot, todo, now, calls, crashes, hist>>

-----------------------------------------------------------------------------
\* Start and crash.

\* Open: migrate creates what is missing; then roles are counted.
CountRoles ==
    /\ boot = "down"
    /\ boot' = "roles"
    /\ todo' = IF db.roles = {} THEN DefaultRoles ELSE <<>>
    /\ UNCHANGED <<db, req, now, calls, crashes, hist>>

\* One round of a seeding loop: of the roles in order, then of the accounts
\* of GODB_ADMIN_PUBKEYS in the order of a Go map.
SeedRow ==
    /\ boot \in {"roles", "users"} /\ todo # <<>>
    /\ db' = [db EXCEPT ![boot] = Replace(boot, Head(todo), @)]
    /\ want' = [want EXCEPT ![boot] = (@ \ Find(@, Head(todo).id)) \cup {Head(todo)}]
    /\ todo' = Tail(todo)
    /\ UNCHANGED <<boot, req, now, calls, crashes, tainted, setups, touched>>

CountUsers ==
    /\ boot = "roles" /\ todo = <<>>
    /\ IF db.users = {}
       THEN /\ boot' = "users"
            /\ todo' \in SetToSeqs({UserRow(PubId(n), n, "pubkey-only", "admin") : n \in PubAdmins})
       ELSE boot' = "up" /\ UNCHANGED todo
    /\ UNCHANGED <<db, req, now, calls, crashes, hist>>

\* The default account, when none is named admin yet.
SeedAdmin ==
    /\ boot = "users" /\ todo = <<>>
    /\ LET row == UserRow(FirstId, "admin", DefaultPwd, "admin") IN
          IF GetUser("admin") # None THEN UNCHANGED <<db, want, setups>>
          ELSE /\ db' = [db EXCEPT !.users = Replace("users", row, @)]
               /\ want' = [want EXCEPT !.users = (@ \ Find(@, FirstId)) \cup {row}]
               /\ setups' = 0
    /\ boot' = "up"
    /\ UNCHANGED <<todo, req, now, calls, crashes, tainted, touched>>

\* The process dies: requests and loops are gone, rows are on the disk.
Crash ==
    /\ boot # "down" /\ crashes < MaxCrashes
    /\ crashes' = crashes + 1
    /\ boot' = "down" /\ todo' = <<>>
    /\ req' = [r \in Reqs |-> Idle]
    /\ UNCHANGED <<db, now, calls, hist>>

Tick ==
    /\ boot = "up" /\ now < MaxNow
    /\ now' = now + 1
    /\ UNCHANGED <<db, boot, todo, req, calls, crashes, hist>>

-----------------------------------------------------------------------------
Init ==
    /\ db = [users |-> {}, roles |-> {}, designs |-> {}]
    /\ want = [users |-> {}, roles |-> {}]
    /\ boot = "down" /\ todo = <<>>
    /\ req = [r \in Reqs |-> Idle]
    /\ now = 0 /\ calls = 0 /\ crashes = 0
    /\ tainted = {} /\ setups = 0 /\ touched = FALSE

Serve(r) ==
    \/ Begin(r) \/ Read(r) \/ CheckSetup(r) \/ RereadSetup(r) \/ Save(r)
    \/ Create(r) \/ Patch(r) \/ Delete(r) \/ Deactivate(r) \/ InsertDesign(r)

Open == CountRoles \/ SeedRow \/ CountUsers \/ SeedAdmin

Next == (\E r \in Reqs : Serve(r)) \/ Open \/ Crash \/ Tick

Spec == Init /\ [][Next]_vars

-----------------------------------------------------------------------------
(***************************************************************************)
(* Properties.                                                             *)
(***************************************************************************)

\* Keys and the unique column: no two rows of one id, no two users of one
\* name; and requests are served only after a whole Open.
TypeOK ==
    /\ \A t \in DOMAIN db : \A x, y \in db[t] : x.id = y.id => x = y
    /\ \A u, v \in db.users : u.name = v.name => u = v
    /\ \A u \in db.users : DOMAIN u = DOMAIN UserRow(0, 0, 0, 0)
    /\ boot # "up" => \A r \in Reqs : ~Busy(r)

\* A row of users or roles is what the requests on it asked for, each taken
\* as one step, unless one of them saved a copy it had read before another's
\* change, or a save took the row's key or name for another account.  The
\* read-modify-write of UpdateUser, SetUserPermissions, ChangePassword,
\* CompleteSetup and UpdateRole loses nothing else.
SerialChangesKept ==
    \A t \in DOMAIN want :
        {x \in db[t] : x.id \notin tainted} = {x \in want[t] : x.id \notin tainted}

\* The first-time setup of the default account is completed once, unless
\* its password is set back to the default one: a second is saved only
\* when it overlapped a change of that account (IsSetupComplete and
\* CompleteSetup are steps apart).
SetupOnce == setups > 1 => FirstId \in tainted

\* However often the process died while seeding: once requests are served,
\* and none has changed an account or a role yet, someone is an admin, and
\* each built-in role grants what it should, though its row may be missing.
SeedEnough ==
    boot = "up" /\ ~touched =>
        /\ \E u \in db.users : "*" \in RolePerms(Id(u.role))
        /\ \A b \in Builtins : RolePerms(b.id) = b.perm

\* One design at most is active, unless two SaveDesign overlapped.
OneActive ==
    Id("designs") \in tainted \/ \A d, e \in db.designs : d.active /\ e.active => d = e

\* The rows of the three tables.
StoreInv == TypeOK /\ SeedEnough /\ OneActive /\ SetupOnce

=============================================================================
