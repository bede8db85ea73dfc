----------------------------- MODULE ColumnCrypto -----------------------------
(***************************************************************************)
(* The key store and the handlers that encrypt and decrypt a column of a   *)
(* table (internal/crypto/store.go, engine.go, internal/api/handler/       *)
(* crypto.go).  Keys live in memory and in one file that every change      *)
(* rewrites in place.  A column is read by one SELECT and written back by  *)
(* one UPDATE a row, without a transaction: clients and other handlers     *)
(* write the same rows in between.  The handlers name the rows by SQLite's *)
(* rowid, so the table is one of SQLite.                                   *)
(*                                                                         *)
(* What a cell holds is a plain value under layers of keys: an envelope is *)
(* itself a text, which a second call encrypts again.  The ciphers are in  *)
(* module Ciphers; here one is told by its kind: "cipher" (AES, ChaCha20,  *)
(* X25519), "rsa" (too short a message space for an envelope), "oneway"    *)
(* (argon2id and the signatures, whose Encrypt forgets what it was given). *)
(***************************************************************************)
EXTENDS Naturals, Sequences, FiniteSets, FiniteSetsExt

CONSTANTS
    Reqs,           \* requests served at a time
    Users,
    Keys,           \* identifiers GenKeyID may hand out, each once
    KindOf,         \* the algorithm of each key, by kind
    OwnerOf,        \* the user who makes each key
    Rows,           \* rowids of the table
    Values,         \* values clients write
    Printed,        \* a value as "%v" prints it
    Saved,          \* keys the file holds to begin with
    First,          \* cells to begin with
    MaxDepth,       \* bound on the layers of a cell
    MaxWrites, MaxCalls, MaxCrashes    \* bounds on clients, requests, crashes

ASSUME Kinds == KindOf \in [Keys -> {"cipher", "rsa", "oneway"}] /\ OwnerOf \in [Keys -> Users]
ASSUME RowsAreNumbers == Rows \subseteq Nat /\ IsFiniteSet(Rows)
ASSUME PrintedOnce ==
    /\ Values \subseteq DOMAIN Printed /\ {"gone", "null", "lost"} \cap DOMAIN Printed = {}
    /\ \A v \in DOMAIN Printed : Printed[v] \in DOMAIN Printed /\ Printed[Printed[v]] = Printed[v]
ASSUME FirstReadable ==
    /\ Saved \subseteq Keys /\ MaxDepth \in Nat
    /\ First \in [Rows -> [plain : Values, layers : Seq(Saved)]]
    /\ \A r \in Rows : Len(First[r].layers) <= MaxDepth
ASSUME NobodyIsNone == "none" \notin Reqs

VARIABLES
    up,             \* the server runs
    mem,            \* KeyStore.keys
    file,           \* the keys of the file, or Torn
    holder,         \* the request that holds the store's lock
    made,           \* identifiers handed out
    cells,          \* the column
    req,            \* the requests under way
    dropped,        \* history: keys to be deleted, or whose saving was refused
    unsaved,        \* history: the last write of the file failed
    wrote,          \* history: what a client wrote last to each row
    lost,           \* history: rows whose client value a handler wrote over
    writes, calls, crashes

vars == <<up, mem, file, holder, made, cells, req, dropped, unsaved, wrote, lost,
          writes, calls, crashes>>
store == <<mem, file, holder, made, dropped, unsaved>>
table == <<cells, wrote, lost>>
bounds == <<writes, calls, crashes>>

Torn == {"torn"}        \* a file that does not parse; no set of keys
NoReq == "none"
NoKey == "none"
Gone == "gone"          \* no row with this rowid
Null == "null"
Lost == "lost"          \* a digest or a signature where a value was

Plain(v) == [plain |-> v, layers |-> <<>>]
Idle == [pc |-> "idle"]

TypeOK ==
    /\ up \in BOOLEAN
    /\ mem \subseteq made /\ made \subseteq Keys
    /\ file = Torn \/ file \subseteq made
    /\ holder \in Reqs \cup {NoReq}
    /\ \A r \in Rows :
          /\ cells[r].plain \in DOMAIN Printed \cup {Gone, Null, Lost}
          /\ cells[r].layers \in UNION {[1..n -> made] : n \in 0..MaxDepth}
          /\ cells[r].plain \in {Gone, Null} => cells[r].layers = <<>>
    /\ \A q \in Reqs : (holder = q) <=> req[q].pc \in {"open", "write"}

Init ==
    /\ up = TRUE
    /\ mem = Saved /\ file = Saved /\ holder = NoReq /\ made = Saved
    /\ cells = First /\ wrote = [r \in Rows |-> First[r].plain]
    /\ req = [q \in Reqs |-> Idle]
    /\ dropped = {} /\ unsaved = FALSE /\ lost = {}
    /\ writes = 0 /\ calls = 0 /\ crashes = 0

-----------------------------------------------------------------------------
(* The key store. *)

Call(q, r) ==
    /\ up /\ req[q] = Idle /\ calls < MaxCalls
    /\ calls' = calls + 1
    /\ req' = [req EXCEPT ![q] = r]

\* CreateCryptoKey and RotateCryptoKey: a new key either way, the old one stays.
CreateKey(q) ==
    \E k \in Keys \ made :
        /\ Call(q, [pc |-> "save", op |-> "create", key |-> k])
        /\ made' = made \cup {k}
        /\ UNCHANGED <<up, mem, file, holder, dropped, unsaved, table, writes, crashes>>

\* DeleteCryptoKey: any key, whoever owns it.
DeleteKey(q) ==
    \E k \in made :
        /\ Call(q, [pc |-> "save", op |-> "delete", key |-> k])
        /\ dropped' = dropped \cup {k}
        /\ UNCHANGED <<up, mem, file, holder, made, unsaved, table, writes, crashes>>

\* Save and Delete change the memory first, then write the file.
Lock(q) ==
    /\ up /\ req[q].pc = "save" /\ holder = NoReq
    /\ holder' = q
    /\ mem' = IF req[q].op = "create" THEN mem \cup {req[q].key} ELSE mem \ {req[q].key}
    /\ req' = [req EXCEPT ![q].pc = "open"]
    /\ UNCHANGED <<up, file, made, dropped, unsaved, table, bounds>>

\* os.WriteFile empties the file as it opens it.
Truncate(q) ==
    /\ up /\ req[q].pc = "open"
    /\ file' = Torn
    /\ req' = [req EXCEPT ![q].pc = "write"]
    /\ UNCHANGED <<up, mem, holder, made, dropped, unsaved, table, bounds>>

Written(q) ==
    /\ up /\ req[q].pc = "write"
    /\ file' = mem /\ unsaved' = FALSE
    /\ holder' = NoReq
    /\ req' = [req EXCEPT ![q] = Idle]
    /\ UNCHANGED <<up, mem, made, dropped, table, bounds>>

\* The error goes to the caller; the memory keeps the change.
WriteFails(q) ==
    /\ up /\ req[q].pc \in {"open", "write"}
    /\ unsaved' = TRUE
    /\ dropped' = dropped \cup {req[q].key}
    /\ holder' = NoReq
    /\ req' = [req EXCEPT ![q] = Idle]
    /\ UNCHANGED <<up, mem, file, made, table, bounds>>

Saving(q) ==
    CreateKey(q) \/ DeleteKey(q) \/ Lock(q) \/ Truncate(q) \/ Written(q) \/ WriteFails(q)

-----------------------------------------------------------------------------
(* Columns. *)

\* EncryptColumn and DecryptColumn: the rows a WHERE clause selects, as one
\* SELECT reads them.  A NULL is passed over.  An envelope names its own key,
\* so DecryptColumn is given none.
Select(q) ==
    \E op \in {"encrypt", "decrypt"}, u \in Users, k \in made \cup {NoKey}, S \in SUBSET Rows :
        LET found == {r \in S : cells[r].plain \notin {Gone, Null}} IN
        /\ (op = "decrypt") <=> (k = NoKey)
        /\ op = "encrypt" => \A r \in found : Len(cells[r].layers) < MaxDepth
        /\ Call(q, [pc |-> "rows", op |-> op, user |-> u, key |-> k, seen |-> [r \in found |-> cells[r]],
                    todo |-> found, touched |-> {}, affected |-> 0])
        /\ found # {}      \* no rows, nothing to do
        /\ UNCHANGED <<up, store, table, writes, crashes>>

\* Service.Encrypt of a text, once "%v" has printed it.
Wrap(c, k) ==
    IF KindOf[k] = "oneway" THEN [plain |-> Lost, layers |-> <<k>>]
    ELSE [plain |-> IF c.layers = <<>> /\ c.plain # Lost THEN Printed[c.plain] ELSE c.plain,
          layers |-> Append(c.layers, k)]

\* Service.Decrypt of an envelope.
Unwrap(c) ==
    LET n == Len(c.layers) IN [plain |-> c.plain, layers |-> SubSeq(c.layers, 1, n - 1)]

RowOf(q) == Min(req[q].todo)
KeyOf(q) ==
    LET c == req[q].seen[RowOf(q)] IN
    IF req[q].op = "encrypt" THEN req[q].key ELSE c.layers[Len(c.layers)]

Usable(q) ==
    LET c == req[q].seen[RowOf(q)] IN
    /\ req[q].op = "decrypt" => c.layers # <<>>
    /\ KeyOf(q) \in mem
    /\ OwnerOf[KeyOf(q)] = req[q].user
    /\ ~(req[q].op = "encrypt" /\ KindOf[KeyOf(q)] = "rsa" /\ c.layers # <<>>)

\* The text the UPDATE will carry; Get waits for the store's lock.
Compute(q) ==
    /\ up /\ req[q].pc = "rows" /\ req[q].todo # {} /\ holder = NoReq
    /\ Usable(q)
    /\ req' = [req EXCEPT ![q].pc = "update"]
    /\ UNCHANGED <<up, store, table, bounds>>

PassOver(q) ==
    /\ up /\ req[q].pc = "rows" /\ req[q].todo # {} /\ holder = NoReq
    /\ ~Usable(q)
    /\ req' = [req EXCEPT ![q].todo = @ \ {RowOf(q)}]
    /\ UNCHANGED <<up, store, table, bounds>>

TextOf(q) ==
    LET c == req[q].seen[RowOf(q)] IN
    IF req[q].op = "encrypt" THEN Wrap(c, req[q].key) ELSE Unwrap(c)

\* Everybody else's picture of a row that changed is old.
Touch(R, r, q) ==
    [p \in Reqs |-> IF p # q /\ R[p].pc \in {"rows", "update"}
                    THEN [R[p] EXCEPT !.touched = @ \cup {r}] ELSE R[p]]

Put(r, c) == cells' = [cells EXCEPT ![r] = IF @.plain = Gone THEN @ ELSE c]

Loses(q) ==
    LET r == RowOf(q) IN
    lost' = IF r \in req[q].touched /\ cells[r].plain # req[q].seen[r].plain
            THEN lost \cup {r} ELSE lost

NextRow(q, n) ==
    Touch([req EXCEPT ![q].pc = "rows", ![q].todo = @ \ {RowOf(q)}, ![q].affected = @ + n],
          RowOf(q), q)

\* A row that is gone is counted too: Execute reports no error.
UpdateRow(q) ==
    /\ up /\ req[q].pc = "update"
    /\ Put(RowOf(q), TextOf(q)) /\ Loses(q)
    /\ req' = NextRow(q, 1)
    /\ UNCHANGED <<up, store, wrote, bounds>>

\* The statement ran, its answer did not come back.
UpdateUnanswered(q) ==
    /\ up /\ req[q].pc = "update"
    /\ Put(RowOf(q), TextOf(q)) /\ Loses(q)
    /\ req' = NextRow(q, 0)
    /\ UNCHANGED <<up, store, wrote, bounds>>

UpdateFails(q) ==
    /\ up /\ req[q].pc = "update"
    /\ req' = [req EXCEPT ![q].pc = "rows", ![q].todo = @ \ {RowOf(q)}]
    /\ UNCHANGED <<up, store, table, bounds>>

Answer(q) ==
    /\ up /\ req[q].pc = "rows" /\ req[q].todo = {}
    /\ req' = [req EXCEPT ![q] = Idle]
    /\ UNCHANGED <<up, store, table, bounds>>

Column(q) ==
    \/ Select(q) \/ Compute(q) \/ PassOver(q)
    \/ UpdateRow(q) \/ UpdateUnanswered(q) \/ UpdateFails(q) \/ Answer(q)

-----------------------------------------------------------------------------
(* Clients of the table, and the process. *)

ClientWrites(r) ==
    /\ up /\ writes < MaxWrites
    /\ \E v \in Values \cup {Null, Gone} :
          /\ cells' = [cells EXCEPT ![r] = Plain(v)]
          /\ wrote' = [wrote EXCEPT ![r] = v]
    /\ lost' = lost \ {r}
    /\ req' = Touch(req, r, NoReq)
    /\ writes' = writes + 1
    /\ UNCHANGED <<up, store, calls, crashes>>

Crash ==
    /\ up /\ crashes < MaxCrashes
    /\ up' = FALSE /\ crashes' = crashes + 1
    /\ mem' = {} /\ holder' = NoReq
    /\ req' = [q \in Reqs |-> Idle]
    /\ dropped' = dropped \cup {req[q].key : q \in {p \in Reqs : req[p].pc \in {"save", "open", "write"}}}
    /\ UNCHANGED <<file, made, unsaved, table, writes, calls>>

\* Mutation: a file that does not parse is taken for an empty one.
StartFromNothing ==
    /\ ~up
    /\ up' = TRUE /\ mem' = (IF file = Torn THEN {} ELSE file) /\ unsaved' = (file = Torn)
    /\ UNCHANGED <<file, holder, made, dropped, table, req, bounds>>

\* NewKeyStore: no file is no keys, a file that does not parse ends the server.
Start ==
    /\ ~up /\ file # Torn
    /\ up' = TRUE /\ mem' = file /\ unsaved' = FALSE
    /\ UNCHANGED <<file, holder, made, dropped, table, req, bounds>>

Next ==
    \/ \E q \in Reqs : Saving(q) \/ Column(q)
    \/ \E r \in Rows : ClientWrites(r)
    \/ Crash \/ Start

Spec == Init /\ [][Next]_vars

-----------------------------------------------------------------------------
\* While nobody writes the file and the last write went well, the file holds
\* the keys of the memory: a restart changes nothing.
FileFollowsMemory == up /\ holder = NoReq /\ ~unsaved => file = mem

\* What the handlers wrote can be read back: the keys of every envelope are
\* there, unless somebody asked to delete the key or its caller was not told
\* that it was saved.
CellsReadable ==
    up => \A r \in Rows : \A n \in 1..Len(cells[r].layers) : cells[r].layers[n] \in mem \cup dropped

\* A handler takes away a client's value only when somebody wrote the row
\* between its SELECT and its UPDATE, or when it was asked to use a one-way
\* algorithm; otherwise the value is there under its envelopes, at worst in
\* the form "%v" gave it.
ValuesKept ==
    \A r \in Rows \ lost :
        \/ cells[r].plain = wrote[r]
        \/ cells[r].plain = Lost /\ \E k \in made : KindOf[k] = "oneway"
        \/ wrote[r] \in Values /\ cells[r].plain = Printed[wrote[r]]

\* A handler about to report as many rows as it read has changed each one of
\* them, if nobody else wrote it meanwhile.
FullCountMeansAll ==
    \A q \in Reqs :
        req[q].pc = "rows" /\ req[q].todo = {} /\ req[q].affected = Cardinality(DOMAIN req[q].seen) =>
            \A r \in DOMAIN req[q].seen \ req[q].touched :
                Len(cells[r].layers) # Len(req[q].seen[r].layers) \/ cells[r].plain = Lost

\* The keys, their file and the column.
ColumnInv ==
    TypeOK /\ FileFollowsMemory /\ CellsReadable /\ ValuesKept /\ FullCountMeansAll

=============================================================================
