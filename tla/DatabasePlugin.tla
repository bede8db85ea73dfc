---------------------------- MODULE DatabasePlugin ----------------------------
(***************************************************************************)
(* The plugins over database drivers: postgres, mysql, mariadb, mssql,     *)
(* sqlite, mongodb and redis under plugins/, behind the interface of       *)
(* internal/plugin/interface.go.                                           *)
(*                                                                         *)
(* A plugin owns a pool of connections to a server.  A call takes one of   *)
(* them, has the server do something, reads what comes back, and gives the *)
(* connection back; Schema does so once for the list of tables and twice   *)
(* for every table of it.  Calls run at the same time, Close may come at   *)
(* any time, and so may the loss of a connection.                          *)
(*                                                                         *)
(* What the seven share is written once; at the end each plugin is the     *)
(* steps it is made of.  Tables are numbers, in the order they are listed; *)
(* of rows only the count matters.                                         *)
(***************************************************************************)
EXTENDS Naturals, FiniteSets, Sequences, SequencesExt

CONSTANTS
    Callers,   \* goroutines that call the plugin
    MaxOpen,   \* size of a pool, 10 in the code; that of sqlite is 1
    Tabs,      \* numbers of the tables there may be
    Size,      \* rows in a table, and columns of one
    Names,     \* databases there may be
    Full,      \* databases that hold tables from the start
    MaxCalls   \* bound: calls made

ASSUME PluginAssumption ==
    /\ MaxOpen \in Nat \ {0} /\ Size \in Nat /\ MaxCalls \in Nat
    /\ Tabs \subseteq Nat /\ IsFiniteSet(Tabs)
    /\ Full \subseteq Names /\ IsFiniteSet(Names)

SQL   == {"postgres", "mysql", "mariadb", "mssql", "sqlite"}
Kinds == SQL \cup {"mongodb", "redis"}

VARIABLES
    kind,     \* which plugin this is
    connected,  \* Connect: "new", "opened", "ready" (handle set) or "failed"
    pool,     \* "none", "open", "closing", "closed", or "lost": open and out of reach
    busy,     \* the calls that hold a connection of the pool
    tables, dbs, inits,  \* the server: tables, databases, "_init_" collections
    call,     \* call[r]: what r does and how far it is
    calls,    \* counter for the bound
    halfway   \* history: a CreateDatabase failed after its first command

serverVars == <<tables, dbs, inits>>
pluginVars == <<kind, connected, pool, busy, serverVars, call, calls, halfway>>

Slots == IF kind = "sqlite" THEN 1 ELSE MaxOpen

\* What a list of the tables may be: the SQL plugins ask for them in order.
Listings ==
    {s \in SetToSeqs(tables) : kind \in SQL => \A i, j \in DOMAIN s : i < j => s[i] < s[j]}

Idle    == [op |-> "", st |-> "idle", stage |-> "", name |-> "", size |-> 0, got |-> 0,
            listed |-> <<>>, todo |-> <<>>, out |-> <<>>]
Resting == {"idle", "ok", "error"}
Holding == {"run", "landed", "rows"}
Set(r, c)   == call' = [call EXCEPT ![r] = c]
Release(r)  == busy' = busy \ {r}
Wait(c, s)  == [c EXCEPT !.st = "wait", !.stage = s, !.got = 0, !.size = 0]

-----------------------------------------------------------------------------
\* Connect and Close.

\* sql.Open, pgxpool.NewWithConfig, mongo.Connect, redis.NewClient; only
\* pgxpool parses its address first, the others may refuse it as well.
OpenPool ==
    /\ connected = "new"
    /\ \/ connected' = "opened" /\ pool' = "open"
       \/ kind # "redis" /\ connected' = "failed" /\ UNCHANGED pool
    /\ UNCHANGED <<kind, busy, serverVars, call, calls, halfway>>

PingOk ==
    /\ connected = "opened"
    /\ connected' = "ready"
    /\ UNCHANGED <<kind, pool, busy, serverVars, call, calls, halfway>>

\* The SQL plugins close the pool again; mongodb and redis drop theirs.
PingFails ==
    /\ connected = "opened"
    /\ connected' = "failed"
    /\ pool' = IF kind \in SQL THEN "closed" ELSE "lost"
    /\ UNCHANGED <<kind, busy, serverVars, call, calls, halfway>>

\* Close: no new connection is given out; pgxpool waits for those in use.
Close ==
    /\ connected = "ready" /\ pool = "open"
    /\ pool' = IF kind = "postgres" THEN "closing" ELSE "closed"
    /\ UNCHANGED <<kind, connected, busy, serverVars, call, calls, halfway>>

CloseEnd ==
    /\ pool = "closing" /\ busy = {}
    /\ pool' = "closed"
    /\ UNCHANGED <<kind, connected, busy, serverVars, call, calls, halfway>>

-----------------------------------------------------------------------------
\* Calls.

FirstStage ==
    [Ping |-> "ping", Query |-> "read", Execute |-> "exec", Tables |-> "list", Schema |-> "list",
     Databases |-> "dbs", CreateDatabase |-> "create", DropDatabase |-> "drop"]

\* sqlite and redis answer without a server where there is nothing to ask,
\* connected or not; everything else needs a handle.
Immediate(op) ==
    IF kind \in {"sqlite", "redis"} /\ op = "Databases" THEN "ok"
    ELSE IF kind \in {"sqlite", "redis"} /\ op \in {"CreateDatabase", "DropDatabase"} THEN "error"
    ELSE IF connected = "failed" THEN "error" ELSE "wait"

Begin(r) ==
    /\ connected \in {"ready", "failed"}
    /\ call[r].st \in Resting /\ calls < MaxCalls
    /\ \E op \in DOMAIN FirstStage :
       \E n \in IF op \in {"CreateDatabase", "DropDatabase"} THEN Names ELSE {""} :
          Set(r, [Idle EXCEPT !.op = op, !.name = n, !.stage = FirstStage[op], !.st = Immediate(op)])
    /\ calls' = calls + 1
    /\ UNCHANGED <<kind, connected, pool, busy, serverVars, halfway>>

\* On to the next table of Schema, if there is one.
NextTable(c) == IF c.todo = <<>> THEN [c EXCEPT !.st = "ok"] ELSE Wait(c, "count")

\* The table at hand goes into the schema, or is passed over.
Described(c, kept) ==
    NextTable([c EXCEPT !.todo = Tail(@), !.out = IF kept THEN Append(@, Head(c.todo)) ELSE @])

\* A stage is done: what comes next.
StageFinished(c) ==
    CASE c.op = "Schema" /\ c.stage = "list"  ->
            NextTable([c EXCEPT !.todo = SubSeq(@, 1, c.got), !.listed = SubSeq(@, 1, c.got)])
      [] c.stage = "count"                    -> Wait(c, "cols")
      [] c.stage = "cols"                     -> Described(c, TRUE)
      [] kind = "mongodb" /\ c.stage = "create" -> Wait(c, "uncreate")
      [] OTHER                                -> [c EXCEPT !.st = "ok"]

\* A stage failed.  Schema goes on: without the count of a table; without
\* its columns; and the SQL plugins without the table.
StageFailed(c) ==
    CASE c.stage = "count" -> Wait(c, "cols")
      [] c.stage = "cols"  -> Described(c, kind \notin SQL)
      [] OTHER             -> [c EXCEPT !.st = "error"]

Acquire(r) ==
    /\ call[r].st = "wait" /\ pool = "open"
    /\ Cardinality(busy) < Slots
    /\ busy' = busy \cup {r}
    /\ Set(r, [call[r] EXCEPT !.st = "run"])
    /\ UNCHANGED <<kind, connected, pool, serverVars, calls, halfway>>

\* A failure here leaves the work of CreateDatabase half done.
Halfway(c) ==
    halfway' = (halfway \/ c.stage = "uncreate" \/ (c.stage = "create" /\ c.st = "landed"))

\* The pool has been closed.
Refused(r) ==
    /\ call[r].st = "wait" /\ pool \in {"closing", "closed"}
    /\ Set(r, StageFailed(call[r]))
    /\ Halfway(call[r])
    /\ UNCHANGED <<kind, connected, pool, busy, serverVars, calls>>

\* Mutation: the connection is not given back after an error.
ServerErrorKeeps(r) ==
    /\ call[r].st \in {"run", "landed"}
    /\ Set(r, StageFailed(call[r]))
    /\ Halfway(call[r])
    /\ UNCHANGED <<kind, connected, pool, busy, serverVars, calls>>

\* The server refuses, or its answer is lost.
ServerError(r) ==
    /\ call[r].st \in {"run", "landed"}
    /\ Release(r)
    /\ Set(r, StageFailed(call[r]))
    /\ Halfway(call[r])
    /\ UNCHANGED <<kind, connected, pool, serverVars, calls>>

\* Commands that change the server.  A mongodb database is there while it
\* has a collection: CreateDatabase makes one and drops it again.
Change(c) ==
    \/ /\ c.stage = "exec"
       /\ tables' \in SUBSET Tabs
       /\ UNCHANGED <<dbs, inits>>
    \/ /\ c.stage = "create" /\ kind # "mongodb" /\ c.name \notin dbs
       /\ dbs' = dbs \cup {c.name}
       /\ UNCHANGED <<tables, inits>>
    \/ /\ c.stage = "create" /\ kind = "mongodb" /\ c.name \notin inits
       /\ dbs' = dbs \cup {c.name} /\ inits' = inits \cup {c.name}
       /\ UNCHANGED tables
    \/ /\ c.stage = "uncreate"
       /\ inits' = inits \ {c.name}
       /\ dbs' = dbs \ ({c.name} \ Full)
       /\ UNCHANGED tables
    \/ /\ c.stage = "drop"
       /\ dbs' = dbs \ {c.name} /\ inits' = inits \ {c.name}
       /\ UNCHANGED tables
    \/ /\ c.stage \in {"ping", "count"}
       /\ UNCHANGED serverVars

Lands(r) ==
    /\ call[r].st = "run"
    /\ Change(call[r])
    /\ Set(r, [call[r] EXCEPT !.st = "landed"])
    /\ UNCHANGED <<kind, connected, pool, busy, calls, halfway>>

Answered(r) ==
    /\ call[r].st = "landed"
    /\ Release(r)
    /\ Set(r, StageFinished(call[r]))
    /\ UNCHANGED <<kind, connected, pool, serverVars, calls, halfway>>

\* The server has a result: rows of a table, lists, columns of the table.
OpenRows(r) ==
    LET c == call[r]
        There == [read |-> Size, dbs |-> Cardinality(dbs),
                  cols |-> IF c.stage = "cols" /\ Head(c.todo) \in tables THEN Size ELSE 0]
    IN  /\ c.st = "run"
        /\ \/ /\ c.stage = "list"
              /\ \E list \in Listings :
                    Set(r, [c EXCEPT !.st = "rows", !.todo = list, !.listed = list, !.size = Len(list)])
           \/ /\ c.stage \in DOMAIN There
              /\ Set(r, [c EXCEPT !.st = "rows", !.size = There[c.stage]])
        /\ UNCHANGED <<kind, connected, pool, busy, serverVars, calls, halfway>>

\* rows.Next and rows.Scan; mongodb's cursor.All and redis in one piece.
NextRow(r) ==
    /\ call[r].st = "rows" /\ call[r].got < call[r].size
    /\ Set(r, [call[r] EXCEPT !.got = IF kind \in SQL THEN @ + 1 ELSE call[r].size])
    /\ UNCHANGED <<kind, connected, pool, busy, serverVars, calls, halfway>>

\* Mutation: Tables leaves its rows open, and Schema goes on with the names.
EndRowsKeepsList(r) ==
    /\ call[r].st = "rows" /\ call[r].got = call[r].size
    /\ IF call[r].op = "Schema" /\ call[r].stage = "list" THEN UNCHANGED busy ELSE Release(r)
    /\ Set(r, StageFinished(call[r]))
    /\ UNCHANGED <<kind, connected, pool, serverVars, calls, halfway>>

EndRows(r) ==
    /\ call[r].st = "rows" /\ call[r].got = call[r].size
    /\ Release(r)
    /\ Set(r, StageFinished(call[r]))
    /\ UNCHANGED <<kind, connected, pool, serverVars, calls, halfway>>

\* A row cannot be read: an error; Schema passes over the column instead.
ScanFails(r) ==
    /\ kind \in SQL
    /\ call[r].st = "rows" /\ call[r].got < call[r].size
    /\ IF call[r].stage = "cols"
       THEN Set(r, [call[r] EXCEPT !.size = @ - 1]) /\ UNCHANGED busy
       ELSE Set(r, StageFailed(call[r])) /\ Release(r)
    /\ UNCHANGED <<kind, connected, pool, serverVars, calls, halfway>>

\* Mutation: what has come by then is the answer, as in the SQL plugins.
CutRowsAnswers(r) ==
    /\ call[r].st = "rows" /\ call[r].got < call[r].size
    /\ Release(r)
    /\ Set(r, StageFinished(call[r]))
    /\ UNCHANGED <<kind, connected, pool, serverVars, calls, halfway>>

\* The connection is lost between two rows.  rows.Next says FALSE and none
\* of the SQL plugins asks rows.Err, so what has come is the answer.
CutRows(r) ==
    /\ call[r].st = "rows" /\ call[r].got < call[r].size
    /\ Release(r)
    /\ Set(r, IF kind \in SQL THEN StageFinished(call[r]) ELSE StageFailed(call[r]))
    /\ UNCHANGED <<kind, connected, pool, serverVars, calls, halfway>>

-----------------------------------------------------------------------------
\* The plugins.

Connection == OpenPool \/ PingOk \/ PingFails \/ Close

Command(r) == Acquire(r) \/ Refused(r) \/ Lands(r) \/ Answered(r) \/ ServerError(r)
Rows(r)    == OpenRows(r) \/ NextRow(r) \/ EndRows(r) \/ ScanFails(r) \/ CutRows(r)
Step(r)    == Command(r) \/ Rows(r)
Calls      == \E r \in Callers : Begin(r) \/ Step(r)

Postgres == kind = "postgres" /\ (Connection \/ CloseEnd \/ Calls)
MySQL    == kind = "mysql"    /\ (Connection \/ Calls)
MariaDB  == kind = "mariadb"  /\ (Connection \/ Calls)
MSSQL    == kind = "mssql"    /\ (Connection \/ Calls)
SQLite   == kind = "sqlite"   /\ (Connection \/ Calls)
MongoDB  == kind = "mongodb"  /\ (Connection \/ Calls)
Redis    == kind = "redis"    /\ (Connection \/ Calls)

PluginInit ==
    /\ kind \in Kinds
    /\ connected = "new" /\ pool = "none" /\ busy = {}
    /\ tables \in {{}, Tabs} /\ dbs = Full /\ inits = {}
    /\ call = [r \in Callers |-> Idle]
    /\ calls = 0 /\ halfway = FALSE

PluginNext == Postgres \/ MySQL \/ MariaDB \/ MSSQL \/ SQLite \/ MongoDB \/ Redis

\* Goroutines are scheduled, and a server answers or the driver gives up.
PluginFairness == WF_pluginVars(CloseEnd) /\ \A r \in Callers : WF_pluginVars(Step(r))

PluginSpec     == PluginInit /\ [][PluginNext]_pluginVars
PluginFairSpec == PluginSpec /\ PluginFairness

-----------------------------------------------------------------------------
(***************************************************************************)
(* Properties.                                                             *)
(***************************************************************************)

\* States and counts, a call never having read more than there was.
PluginTypeOK ==
    /\ connected \in {"new", "opened", "ready", "failed"}
    /\ pool \in {"none", "open", "closing", "closed", "lost"}
    /\ tables \subseteq Tabs /\ inits \subseteq dbs /\ dbs \subseteq Names
    /\ \A r \in Callers : /\ call[r].st \in Resting \cup Holding \cup {"wait"}
                       /\ call[r].got <= call[r].size
    /\ calls \in 0..MaxCalls /\ halfway \in BOOLEAN

\* On every path, errors, lost connections and Close included, a call gives
\* its connection back before it waits for another or returns.
SlotsReturned ==
    /\ busy = {r \in Callers : call[r].st \in Holding}
    /\ Cardinality(busy) <= Slots

\* A Connect that fails leaves no pool open, but for mongodb and redis,
\* whose clients nobody can close any more.
PluginPools ==
    connected = "failed" => pool \in {"none", "closed"} \/ (pool = "lost" /\ kind \in {"mongodb", "redis"})

\* An answer without an error may be cut short, but only by an SQL plugin;
\* what mongodb and redis answer is whole.
WholeOrSql ==
    \A r \in Callers : call[r].st = "ok" /\ call[r].op \in {"Query", "Tables", "Databases"}
                    => call[r].got = call[r].size \/ kind \in SQL

\* Some of the list, each once and in its order.
Picked(some, list) ==
    \E from \in [DOMAIN some -> DOMAIN list] :
        /\ \A i \in DOMAIN some : some[i] = list[from[i]]
        /\ \A i, j \in DOMAIN some : i < j => from[i] < from[j]

\* Whatever happens after the list of tables has come, Schema answers: with
\* some of the tables of the list, in order, and mongodb and redis with all
\* of them, though columns and counts may be missing.
SchemaGoesOn ==
    \A r \in Callers : LET c == call[r] IN
        c.op = "Schema" =>
            /\ c.st = "error" => c.stage = "list"
            /\ c.st # "idle" /\ c.stage # "list" =>
                  /\ Picked(c.out \o c.todo, c.listed)
                  /\ kind \notin SQL => c.out \o c.todo = c.listed

\* The collection that CreateDatabase makes for a moment is left behind only
\* when a CreateDatabase was stopped half way.
InitsDropped ==
    inits # {} => halfway \/ \E r \in Callers : call[r].op = "CreateDatabase" /\ call[r].st \notin Resting

\* The pool, the server and the calls.
PluginInv == PluginTypeOK /\ SlotsReturned /\ PluginPools /\ SchemaGoesOn /\ InitsDropped

\* Every call returns, also with one connection for all of them, and Close
\* of postgres, which waits for the calls, returns too.
CallsReturn ==
    /\ \A r \in Callers : call[r].st \notin Resting ~> call[r].st \in Resting
    /\ pool = "closing" ~> pool = "closed"

=============================================================================
