--------------------------- MODULE ConnectionProofs ---------------------------
(***************************************************************************)
(* Proofs about the way to a database: the plugins, for every kind of      *)
(* them, any number of goroutines, any size of the pool and any tables;    *)
(* the gate a statement passes, for texts, lists and chains of roles of    *)
(* any length; the connection manager, for any number of identifiers and   *)
(* request goroutines; and the provisioner, for any databases, whatever    *)
(* containers are found and however often the server starts, dies and      *)
(* starts again.                                                           *)
(***************************************************************************)
EXTENDS ConnectionManager, Provisioner, MCRequests, FiniteSetTheorems, WellFoundedInduction, TLAPS

-----------------------------------------------------------------------------
(* The database plugins.                                                     *)

\* The fields of a call.
Fields == {"op", "st", "stage", "name", "size", "got", "listed", "todo", "out"}

\* What the record of a call may be: the three calls that read keep the stage
\* they begin with, a command that has landed is none of theirs, and their answer
\* is whole unless the plugin is an SQL one.
Good(c) ==
    /\ DOMAIN c = Fields
    /\ c.st \in Resting \cup Holding \cup {"wait"}
    /\ c.op = "Query" => c.stage = "read"
    /\ c.op = "Tables" => c.stage = "list"
    /\ c.op = "Databases" => c.stage = "dbs"
    /\ c.st = "landed" => c.stage \notin {"read", "list", "dbs"}
    /\ c.st = "ok" /\ c.op \in {"Query", "Tables", "Databases"} => c.got = c.size \/ kind \in SQL

\* The inductive invariant.
PlugIInv ==
    /\ DOMAIN call = Callers /\ kind \in Kinds
    /\ \A r \in Callers : Good(call[r])
    /\ busy = {r \in Callers : call[r].st \in Holding}
    /\ IsFiniteSet(busy) /\ Cardinality(busy) <= Slots

\* A call that waits for its next connection stays as it should be.
LEMMA WaitGood ==
    ASSUME NEW c, Good(c), NEW s, c.op \notin {"Query", "Tables", "Databases"}
    PROVE  Good(Wait(c, s)) /\ Wait(c, s).st \notin Holding
  BY DEF Good, Wait, Fields, Holding

\* So does one that goes on to the next table, or ends with its schema.
LEMMA NextTableGood ==
    ASSUME NEW c, Good(c), c.op \notin {"Query", "Tables", "Databases"}
    PROVE  Good(NextTable(c)) /\ NextTable(c).st \notin Holding
<1>1. CASE c.todo = <<>>
  BY <1>1 DEF NextTable, Good, Fields, Holding, Resting
<1>2. CASE c.todo # <<>>
  BY <1>2, WaitGood DEF NextTable
<1> QED
  BY <1>1, <1>2

\* So does one that has described a table.
LEMMA DescribedGood ==
    ASSUME NEW c, Good(c), NEW kept, c.op \notin {"Query", "Tables", "Databases"}
    PROVE  Good(Described(c, kept)) /\ Described(c, kept).st \notin Holding
<1> DEFINE d == [c EXCEPT !.todo = Tail(@), !.out = IF kept THEN Append(@, Head(c.todo)) ELSE @]
<1>1. /\ DOMAIN d = DOMAIN c /\ d.st = c.st /\ d.op = c.op
      /\ d.stage = c.stage /\ d.got = c.got /\ d.size = c.size
  BY DEF Good, Fields
<1> HIDE DEF d
<1>2. Good(d)
  BY <1>1 DEF Good
<1>3. Good(NextTable(d)) /\ NextTable(d).st \notin Holding
  BY <1>1, <1>2, NextTableGood
<1> QED
  BY <1>3 DEF Described, d

\* A stage that ends well: the answer of a read is whole, or the plugin is an
\* SQL one.
LEMMA FinishedGood ==
    ASSUME NEW c, Good(c), c.st \in {"landed", "rows"},
           c.st = "rows" => c.got = c.size \/ kind \in SQL
    PROVE  Good(StageFinished(c)) /\ StageFinished(c).st \notin Holding
<1>1. CASE c.op \in {"Query", "Tables", "Databases"}
  <2>1. c.stage \in {"read", "list", "dbs"} /\ c.st = "rows"
    BY <1>1 DEF Good
  <2>2. StageFinished(c) = [c EXCEPT !.st = "ok"]
    BY <1>1, <2>1 DEF StageFinished
  <2> QED
    BY <2>1, <2>2 DEF Good, Fields, Resting, Holding
<1>2. CASE c.op \notin {"Query", "Tables", "Databases"}
  <2>1. CASE c.op = "Schema" /\ c.stage = "list"
    <3> DEFINE d == [c EXCEPT !.todo = SubSeq(@, 1, c.got), !.listed = SubSeq(@, 1, c.got)]
    <3>1. /\ DOMAIN d = DOMAIN c /\ d.st = c.st /\ d.op = c.op
          /\ d.stage = c.stage /\ d.got = c.got /\ d.size = c.size
      BY DEF Good, Fields
    <3> HIDE DEF d
    <3>2. Good(d)
      BY <3>1 DEF Good
    <3>3. Good(NextTable(d)) /\ NextTable(d).st \notin Holding
      BY <1>2, <3>1, <3>2, NextTableGood
    <3>4. StageFinished(c) = NextTable(d)
      BY <2>1 DEF StageFinished, d
    <3> QED
      BY <3>3, <3>4
  <2>2. CASE c.stage = "count"
    <3>1. StageFinished(c) = Wait(c, "cols")
      BY <2>2 DEF StageFinished
    <3> QED
      BY <1>2, <3>1, WaitGood
  <2>3. CASE c.stage = "cols"
    <3>1. StageFinished(c) = Described(c, TRUE)
      BY <2>3 DEF StageFinished
    <3> QED
      BY <1>2, <3>1, DescribedGood
  <2>4. CASE c.stage = "create" /\ kind = "mongodb"
    <3>1. StageFinished(c) = Wait(c, "uncreate")
      BY <2>4 DEF StageFinished
    <3> QED
      BY <1>2, <3>1, WaitGood
  <2>5. CASE /\ ~(c.op = "Schema" /\ c.stage = "list") /\ c.stage \notin {"count", "cols"}
             /\ ~(c.stage = "create" /\ kind = "mongodb")
    <3>1. StageFinished(c) = [c EXCEPT !.st = "ok"]
      BY <2>5 DEF StageFinished
    <3> QED
      BY <1>2, <3>1 DEF Good, Fields, Resting, Holding
  <2> QED
    BY <2>1, <2>2, <2>3, <2>4, <2>5
<1> QED
  BY <1>1, <1>2

\* A stage that fails.
LEMMA FailedGood ==
    ASSUME NEW c, Good(c)
    PROVE  Good(StageFailed(c)) /\ StageFailed(c).st \notin Holding
<1>1. CASE c.stage = "count"
  <2>1. StageFailed(c) = Wait(c, "cols") /\ c.op \notin {"Query", "Tables", "Databases"}
    BY <1>1 DEF StageFailed, Good
  <2> QED
    BY <2>1, WaitGood
<1>2. CASE c.stage = "cols"
  <2>1. StageFailed(c) = Described(c, kind \notin SQL) /\ c.op \notin {"Query", "Tables", "Databases"}
    BY <1>2 DEF StageFailed, Good
  <2> QED
    BY <2>1, DescribedGood
<1>3. CASE c.stage \notin {"count", "cols"}
  <2>1. StageFailed(c) = [c EXCEPT !.st = "error"]
    BY <1>3 DEF StageFailed
  <2> QED
    BY <2>1 DEF Good, Fields, Resting, Holding
<1> QED
  BY <1>1, <1>2, <1>3

\* One call moves on, and takes, keeps or gives back its connection as its new
\* state says.
LEMMA CallMoves ==
    ASSUME PlugIInv, NEW r \in Callers, NEW c, Good(c), Set(r, c), kind' = kind,
           \/ c.st \in Holding /\ r \in busy /\ busy' = busy
           \/ c.st \in Holding /\ busy' = busy \cup {r} /\ Cardinality(busy) < Slots
           \/ c.st \notin Holding /\ busy' = busy \ {r}
    PROVE  PlugIInv'
<1>1. /\ DOMAIN call' = Callers /\ call'[r] = c
      /\ \A q \in Callers \ {r} : call'[q] = call[q]
  BY DEF Set, PlugIInv
<1>2. \A q \in Callers : Good(call[q])'
  <2>1. Good(call[r])'
    BY <1>1 DEF Good
  <2>2. ASSUME NEW q \in Callers \ {r} PROVE Good(call[q])'
    BY <1>1, <2>2 DEF PlugIInv, Good
  <2> QED
    BY <2>1, <2>2
<1>3. busy' = {q \in Callers : call'[q].st \in Holding}
  BY <1>1 DEF PlugIInv
<1>4. Slots' = Slots /\ Slots \in Nat
  BY PluginAssumption DEF Slots
<1>5. IsFiniteSet(busy') /\ Cardinality(busy') <= Slots
  <2>1. IsFiniteSet(busy) /\ Cardinality(busy) <= Slots /\ Cardinality(busy) \in Nat
    BY FS_CardinalityType DEF PlugIInv
  <2>2. CASE busy' = busy
    BY <2>1, <2>2
  <2>3. CASE busy' = busy \cup {r} /\ Cardinality(busy) < Slots
    <3>1. IsFiniteSet(busy \cup {r}) /\ Cardinality(busy \cup {r}) <= Cardinality(busy) + 1
      BY <2>1, FS_AddElement
    <3>2. Cardinality(busy \cup {r}) \in Nat
      BY <3>1, FS_CardinalityType
    <3> QED
      BY <1>4, <2>1, <2>3, <3>1, <3>2
  <2>4. CASE busy' = busy \ {r}
    <3>1. busy \ {r} \in SUBSET busy
      OBVIOUS
    <3>2. IsFiniteSet(busy \ {r}) /\ Cardinality(busy \ {r}) <= Cardinality(busy)
      BY <2>1, <3>1, FS_Subset
    <3>3. Cardinality(busy \ {r}) \in Nat
      BY <3>2, FS_CardinalityType
    <3> QED
      BY <1>4, <2>1, <2>4, <3>2, <3>3
  <2> QED
    BY <2>2, <2>3, <2>4
<1> QED
  BY <1>1, <1>2, <1>3, <1>4, <1>5 DEF PlugIInv

\* No call has begun.
LEMMA PlugInitInv == PluginInit => PlugIInv
<1> SUFFICES ASSUME PluginInit PROVE PlugIInv
  OBVIOUS
<1>1. \A r \in Callers : call[r] = Idle
  BY DEF PluginInit
<1>2. Good(Idle) /\ Idle.st \notin Holding
  BY DEF Good, Idle, Fields, Resting, Holding
<1>3. IsFiniteSet({}) /\ Cardinality({}) = 0
  BY FS_EmptySet
<1>4. Slots \in Nat
  BY PluginAssumption DEF Slots
<1> QED
  BY <1>1, <1>2, <1>3, <1>4 DEF PlugIInv, PluginInit

\* A call begins: it holds nothing, and the two that answer at once ask for
\* nothing.
LEMMA BeginInv ==
    ASSUME PlugIInv, NEW r \in Callers, Begin(r) PROVE PlugIInv'
<1>1. PICK op \in DOMAIN FirstStage :
      \E n \in IF op \in {"CreateDatabase", "DropDatabase"} THEN Names ELSE {""} :
         Set(r, [Idle EXCEPT !.op = op, !.name = n, !.stage = FirstStage[op], !.st = Immediate(op)])
  BY DEF Begin
<1>2. PICK n : Set(r, [Idle EXCEPT !.op = op, !.name = n, !.stage = FirstStage[op], !.st = Immediate(op)])
  BY <1>1
<1> DEFINE c == [Idle EXCEPT !.op = op, !.name = n, !.stage = FirstStage[op], !.st = Immediate(op)]
<1>3. /\ DOMAIN c = Fields /\ c.op = op /\ c.stage = FirstStage[op]
      /\ c.st = Immediate(op) /\ c.got = c.size
  BY DEF Idle, Fields
<1>4. Immediate(op) \in {"ok", "error", "wait"}
  BY DEF Immediate
<1>5. /\ op = "Query" => FirstStage[op] = "read"
      /\ op = "Tables" => FirstStage[op] = "list"
      /\ op = "Databases" => FirstStage[op] = "dbs"
  BY DEF FirstStage
<1>6. r \notin busy
  BY DEF Begin, PlugIInv, Resting, Holding
<1>7. Set(r, c) /\ kind' = kind /\ busy' = busy
  BY <1>2 DEF Begin
<1> HIDE DEF c
<1>8. Good(c) /\ c.st \notin Holding
  BY <1>3, <1>4, <1>5 DEF Good, Resting, Holding
<1> QED
  BY <1>6, <1>7, <1>8, CallMoves

\* A call goes one step on.
LEMMA CallStepInv ==
    ASSUME PlugIInv, NEW r \in Callers, Step(r) PROVE PlugIInv'
<1> DEFINE c == call[r]
<1>0. Good(c) /\ (r \in busy <=> c.st \in Holding)
  BY DEF PlugIInv
<1>1. CASE Acquire(r)
  <2> DEFINE d == [c EXCEPT !.st = "run"]
  <2>1. Good(d) /\ d.st \in Holding
    BY <1>0 DEF Good, Fields, Holding
  <2>2. Set(r, d) /\ kind' = kind /\ busy' = busy \cup {r} /\ Cardinality(busy) < Slots
    BY <1>1 DEF Acquire
  <2> QED
    BY <2>1, <2>2, CallMoves
<1>2. CASE Refused(r)
  <2>1. Set(r, StageFailed(c)) /\ kind' = kind /\ busy' = busy /\ r \notin busy
    BY <1>0, <1>2 DEF Refused, Holding
  <2> QED
    BY <1>0, <2>1, FailedGood, CallMoves
<1>3. CASE ServerError(r)
  <2>1. Set(r, StageFailed(c)) /\ kind' = kind /\ busy' = busy \ {r}
    BY <1>3 DEF ServerError, Release
  <2> QED
    BY <1>0, <2>1, FailedGood, CallMoves
<1>4. CASE Lands(r)
  <2> DEFINE d == [c EXCEPT !.st = "landed"]
  <2>1. c.st = "run" /\ c.stage \notin {"read", "list", "dbs"}
    BY <1>4 DEF Lands, Change
  <2>2. Good(d) /\ d.st \in Holding
    BY <1>0, <2>1 DEF Good, Fields, Holding
  <2>3. Set(r, d) /\ kind' = kind /\ busy' = busy /\ r \in busy
    BY <1>0, <1>4, <2>1 DEF Lands, Holding
  <2> QED
    BY <2>2, <2>3, CallMoves
<1>5. CASE Answered(r)
  <2>1. Set(r, StageFinished(c)) /\ kind' = kind /\ busy' = busy \ {r} /\ c.st = "landed"
    BY <1>5 DEF Answered, Release
  <2> QED
    BY <1>0, <2>1, FinishedGood, CallMoves
<1>6. CASE OpenRows(r)
  <2>1. PICK t, l, s : Set(r, [c EXCEPT !.st = "rows", !.todo = t, !.listed = l, !.size = s])
    <3>1. CASE c.stage = "list"
      BY <1>6, <3>1 DEF OpenRows
    <3>2. CASE c.stage # "list"
      <4>1. PICK s : Set(r, [c EXCEPT !.st = "rows", !.size = s])
        BY <1>6, <3>2 DEF OpenRows
      <4>2. [c EXCEPT !.st = "rows", !.size = s]
            = [c EXCEPT !.st = "rows", !.todo = c.todo, !.listed = c.listed, !.size = s]
        BY <1>0 DEF Good, Fields
      <4> QED
        BY <4>1, <4>2
    <3> QED
      BY <3>1, <3>2
  <2> DEFINE d == [c EXCEPT !.st = "rows", !.todo = t, !.listed = l, !.size = s]
  <2>2. Good(d) /\ d.st \in Holding
    BY <1>0 DEF Good, Fields, Holding
  <2>3. Set(r, d)
    BY <2>1
  <2>4. kind' = kind /\ busy' = busy /\ r \in busy
    BY <1>0, <1>6 DEF OpenRows, Holding
  <2> QED
    BY <2>2, <2>3, <2>4, CallMoves
<1>7. CASE NextRow(r)
  <2>1. PICK g : Set(r, [c EXCEPT !.got = g])
    BY <1>7 DEF NextRow
  <2> DEFINE d == [c EXCEPT !.got = g]
  <2>2. c.st = "rows" /\ kind' = kind /\ busy' = busy /\ r \in busy
    BY <1>0, <1>7 DEF NextRow, Holding
  <2>3. Good(d) /\ d.st \in Holding
    BY <1>0, <2>2 DEF Good, Fields, Holding
  <2>4. Set(r, d)
    BY <2>1
  <2> QED
    BY <2>2, <2>3, <2>4, CallMoves
<1>8. CASE EndRows(r)
  <2>1. Set(r, StageFinished(c)) /\ kind' = kind /\ busy' = busy \ {r} /\ c.st = "rows" /\ c.got = c.size
    BY <1>8 DEF EndRows, Release
  <2> QED
    BY <1>0, <2>1, FinishedGood, CallMoves
<1>9. CASE ScanFails(r)
  <2>1. c.st = "rows" /\ kind' = kind
    BY <1>9 DEF ScanFails
  <2>2. CASE c.stage = "cols"
    <3>1. PICK s : Set(r, [c EXCEPT !.size = s])
      BY <1>9, <2>2 DEF ScanFails
    <3> DEFINE d == [c EXCEPT !.size = s]
    <3>2. busy' = busy /\ r \in busy
      BY <1>0, <1>9, <2>1, <2>2 DEF ScanFails, Holding
    <3>3. Good(d) /\ d.st \in Holding
      BY <1>0, <2>1 DEF Good, Fields, Holding
    <3>4. Set(r, d)
      BY <3>1
    <3> QED
      BY <2>1, <3>2, <3>3, <3>4, CallMoves
  <2>3. CASE c.stage # "cols"
    <3>1. Set(r, StageFailed(c)) /\ busy' = busy \ {r}
      BY <1>9, <2>3 DEF ScanFails, Release
    <3> QED
      BY <1>0, <2>1, <3>1, FailedGood, CallMoves
  <2> QED
    BY <2>2, <2>3
<1>10. CASE CutRows(r)
  <2>1. kind' = kind /\ busy' = busy \ {r} /\ c.st = "rows"
    BY <1>10 DEF CutRows, Release
  <2>2. CASE kind \in SQL
    <3>1. Set(r, StageFinished(c))
      BY <1>10, <2>2 DEF CutRows
    <3> QED
      BY <1>0, <2>1, <2>2, <3>1, FinishedGood, CallMoves
  <2>3. CASE kind \notin SQL
    <3>1. Set(r, StageFailed(c))
      BY <1>10, <2>3 DEF CutRows
    <3> QED
      BY <1>0, <2>1, <3>1, FailedGood, CallMoves
  <2> QED
    BY <2>2, <2>3
<1> QED
  BY <1>1, <1>2, <1>3, <1>4, <1>5, <1>6, <1>7, <1>8, <1>9, <1>10 DEF Step, Command, Rows

\* No step of a plugin breaks the invariant.
LEMMA PlugNextInv == PlugIInv /\ [PluginNext]_pluginVars => PlugIInv'
<1> SUFFICES ASSUME PlugIInv, [PluginNext]_pluginVars PROVE PlugIInv'
  OBVIOUS
<1>1. ASSUME UNCHANGED <<kind, busy, call>> PROVE PlugIInv'
  BY <1>1 DEF PlugIInv, Good, Slots
<1>2. CASE Connection \/ CloseEnd
  BY <1>1, <1>2 DEF Connection, OpenPool, PingOk, PingFails, Close, CloseEnd
<1>3. CASE Calls
  BY <1>3, BeginInv, CallStepInv DEF Calls
<1>4. CASE UNCHANGED pluginVars
  BY <1>1, <1>4 DEF pluginVars
<1> QED
  BY <1>2, <1>3, <1>4 DEF PluginNext, Postgres, MySQL, MariaDB, MSSQL, SQLite, MongoDB, Redis

-----------------------------------------------------------------------------
\* What Schema has of its list, the pool and the server.

\* A call of Schema: while it lists, nothing is picked; then there is a table at
\* hand, and what is described and what is to come are picked from the list.
SchemaOK(c) ==
    /\ c.todo \in Seq(Tabs) /\ c.listed \in Seq(Tabs) /\ c.out \in Seq(Tabs)
    /\ c.stage = "list" => /\ c.out = <<>> /\ c.listed = c.todo
                           /\ c.st = "rows" => c.size = Len(c.todo)
    /\ c.stage # "list" => /\ c.st # "error"
                           /\ c.st \notin Resting => c.todo # <<>>
                           /\ Picked(c.out \o c.todo, c.listed)
                           /\ kind \notin SQL => c.out \o c.todo = c.listed

\* Any call: what was read is no more than there is, and a stage belongs to its
\* operation.
CallOK(c) ==
    /\ c.got \in Nat /\ c.size \in Nat /\ c.got <= c.size
    /\ c.st \in {"wait", "run", "landed"} => c.got = 0
    /\ c.op = "Schema" => c.stage \in {"list", "count", "cols"} /\ SchemaOK(c)
    /\ c.stage \in {"count", "cols"} => c.op = "Schema"
    /\ c.stage \in {"create", "uncreate"} => c.op = "CreateDatabase" /\ c.name \in Names

\* The call that has made the collection of n and has yet to drop it.
Owns(c, n) ==
    /\ c.op = "CreateDatabase" /\ c.name = n
    /\ \/ c.stage = "create" /\ c.st = "landed"
       \/ c.stage = "uncreate" /\ c.st \in {"wait", "run"}

\* A pool as Connect and Close leave it.
PoolOK ==
    /\ connected = "new" => pool = "none"
    /\ connected = "opened" => pool = "open"
    /\ connected = "ready" => pool \in {"open", "closing", "closed"}
    /\ pool = "closing" => connected = "ready"
    /\ PluginPools

\* The collections of CreateDatabase have owners, but for one stopped half way.
InitsOwned ==
    /\ inits # {} => kind = "mongodb"
    /\ ~halfway => \A n \in inits : \E r \in Callers : Owns(call[r], n)

\* The types of all that is not a call.
ServerTypes ==
    /\ connected \in {"new", "opened", "ready", "failed"}
    /\ pool \in {"none", "open", "closing", "closed", "lost"}
    /\ tables \subseteq Tabs /\ inits \subseteq dbs /\ dbs \subseteq Names
    /\ calls \in 0..MaxCalls /\ halfway \in BOOLEAN

\* The second inductive invariant.
ServerIInv ==
    /\ ServerTypes /\ PoolOK /\ InitsOwned
    /\ \A r \in Callers : CallOK(call[r])

\* A list is picked from itself.
LEMMA PickedAll == ASSUME NEW l \in Seq(Tabs) PROVE Picked(<<>> \o l, l)
<1> DEFINE from == [i \in DOMAIN l |-> i]
<1>1. <<>> \o l = l
  OBVIOUS
<1>2. from \in [DOMAIN l -> DOMAIN l] /\ \A i \in DOMAIN l : from[i] = i
  OBVIOUS
<1> HIDE DEF from
<1>3. /\ \A i \in DOMAIN l : l[i] = l[from[i]]
      /\ \A i, j \in DOMAIN l : i < j => from[i] < from[j]
  BY <1>2
<1> QED
  BY <1>1, <1>2, <1>3 DEF Picked

\* Without the first of what is to come, it is still picked.
LEMMA PickedLess ==
    ASSUME NEW a \in Seq(Tabs), NEW b \in Seq(Tabs), b # <<>>, NEW l, Picked(a \o b, l)
    PROVE  Picked(a \o Tail(b), l)
<1>1. PICK from \in [DOMAIN (a \o b) -> DOMAIN l] :
         /\ \A i \in DOMAIN (a \o b) : (a \o b)[i] = l[from[i]]
         /\ \A i, j \in DOMAIN (a \o b) : i < j => from[i] < from[j]
  BY DEF Picked
<1>2. PICK m, n : m = Len(a) /\ n = Len(b) /\ m \in Nat /\ n \in Nat /\ n > 0
  <2>1. Len(b) # 0
    OBVIOUS
  <2>2. Len(a) \in Nat /\ Len(b) \in Nat /\ Len(b) > 0
    BY <2>1
  <2> QED
    BY <2>2, Zenon
<1>3. DOMAIN (a \o b) = 1..(m + n) /\ DOMAIN (a \o Tail(b)) = 1..(m + n - 1)
  BY <1>2
<1> DEFINE on(i) == IF i <= m THEN i ELSE i + 1
           g == [i \in 1..(m + n - 1) |-> from[on(i)]]
<1>4. \A i \in 1..(m + n - 1) : on(i) \in 1..(m + n) /\ (a \o Tail(b))[i] = (a \o b)[on(i)]
  <2> SUFFICES ASSUME NEW i \in 1..(m + n - 1)
               PROVE  on(i) \in 1..(m + n) /\ (a \o Tail(b))[i] = (a \o b)[on(i)]
    OBVIOUS
  <2>1. CASE i <= m
    BY <1>2, <2>1
  <2>2. CASE i > m
    <3>1. (a \o Tail(b))[i] = Tail(b)[i - m] /\ i - m \in 1..(n - 1)
      BY <1>2, <2>2
    <3>2. Tail(b)[i - m] = b[i - m + 1]
      BY <1>2, <3>1
    <3>3. (a \o b)[i + 1] = b[i + 1 - m]
      BY <1>2, <2>2
    <3>4. i - m + 1 = i + 1 - m /\ on(i) = i + 1
      BY <1>2, <2>2
    <3> QED
      BY <1>2, <3>1, <3>2, <3>3, <3>4
  <2> QED
    BY <1>2, <2>1, <2>2
<1>5. \A i, j \in 1..(m + n - 1) : i < j => on(i) < on(j)
  BY <1>2
<1> HIDE DEF on
<1>6. g \in [1..(m + n - 1) -> DOMAIN l]
  BY <1>1, <1>3, <1>4
<1>7. \A i \in 1..(m + n - 1) : (a \o Tail(b))[i] = l[g[i]]
  BY <1>1, <1>3, <1>4
<1>8. \A i, j \in 1..(m + n - 1) : i < j => g[i] < g[j]
  BY <1>1, <1>3, <1>4, <1>5
<1> HIDE DEF g
<1> QED
  BY <1>3, <1>6, <1>7, <1>8 DEF Picked

\* The lists of a call of Schema, whatever its stage.
Lists(c) ==
    /\ c.todo \in Seq(Tabs) /\ c.listed \in Seq(Tabs) /\ c.out \in Seq(Tabs)
    /\ Picked(c.out \o c.todo, c.listed)
    /\ kind \notin SQL => c.out \o c.todo = c.listed

\* A call of Schema with a table at hand waits for the next answer.
LEMMA WaitOK ==
    ASSUME NEW c, Good(c), Lists(c), c.op = "Schema", c.todo # <<>>, NEW s, s \in {"count", "cols"}
    PROVE  CallOK(Wait(c, s))
<1>1. /\ Wait(c, s).op = "Schema" /\ Wait(c, s).stage = s /\ Wait(c, s).st = "wait"
      /\ Wait(c, s).got = 0 /\ Wait(c, s).size = 0
      /\ Wait(c, s).todo = c.todo /\ Wait(c, s).listed = c.listed /\ Wait(c, s).out = c.out
  BY DEF Wait, Good, Fields
<1>2. PICK w : w = Wait(c, s)
  OBVIOUS
<1> HIDE DEF Wait
<1>3. SchemaOK(w)
  BY <1>1, <1>2 DEF SchemaOK, Lists
<1>4. w.op = "Schema" /\ w.stage \in {"count", "cols"} /\ w.got = 0 /\ w.size = 0
  BY <1>1, <1>2
<1>5. CallOK(w)
  BY <1>3, <1>4 DEF CallOK
<1> QED
  BY <1>2, <1>5

\* It goes on to the next table, or ends.
LEMMA NextTableOK ==
    ASSUME NEW c, Good(c), Lists(c), c.op = "Schema", c.stage \in {"list", "count", "cols"},
           c.stage = "list" => c.out = <<>> /\ c.listed = c.todo,
           c.got \in Nat, c.size \in Nat, c.got <= c.size
    PROVE  CallOK(NextTable(c))
<1>1. CASE c.todo = <<>>
  <2> DEFINE d == [c EXCEPT !.st = "ok"]
  <2>1. /\ d.op = "Schema" /\ d.stage = c.stage /\ d.st = "ok" /\ d.got = c.got /\ d.size = c.size
        /\ d.todo = c.todo /\ d.listed = c.listed /\ d.out = c.out
    BY DEF Good, Fields
  <2>2. NextTable(c) = d
    BY <1>1 DEF NextTable
  <2> HIDE DEF d
  <2>3. SchemaOK(d)
    BY <2>1 DEF SchemaOK, Lists, Resting
  <2> QED
    BY <2>1, <2>2, <2>3 DEF CallOK
<1>2. CASE c.todo # <<>>
  BY <1>2, WaitOK DEF NextTable
<1> QED
  BY <1>1, <1>2

\* The table at hand is described, or, by an SQL plugin only, passed over.
LEMMA DescribedOK ==
    ASSUME NEW c, Good(c), CallOK(c), c.stage = "cols", c.st \notin Resting,
           NEW kept, kept \in BOOLEAN, kind \notin SQL => kept
    PROVE  CallOK(Described(c, kept))
<1> DEFINE out == IF kept THEN Append(c.out, Head(c.todo)) ELSE c.out
           d == [c EXCEPT !.todo = Tail(c.todo), !.out = out]
<1>1. /\ d.op = c.op /\ d.stage = c.stage /\ d.st = c.st /\ d.got = c.got /\ d.size = c.size
      /\ d.todo = Tail(c.todo) /\ d.listed = c.listed /\ d.out = out
      /\ DOMAIN d = Fields /\ Described(c, kept) = NextTable(d)
  BY DEF Good, Fields, Described
<1>2. /\ c.op = "Schema" /\ SchemaOK(c) /\ c.todo # <<>>
      /\ c.got \in Nat /\ c.size \in Nat /\ c.got <= c.size
  BY DEF CallOK, SchemaOK
<1>3. PICK a, b, l : a = c.out /\ b = c.todo /\ l = c.listed
  OBVIOUS
<1>4. /\ a \in Seq(Tabs) /\ b \in Seq(Tabs) /\ l \in Seq(Tabs) /\ b # <<>>
      /\ Picked(a \o b, l) /\ (kind \notin SQL => a \o b = l)
  BY <1>2, <1>3 DEF SchemaOK
<1>5. /\ Append(a, Head(b)) \in Seq(Tabs) /\ Tail(b) \in Seq(Tabs)
      /\ Append(a, Head(b)) \o Tail(b) = a \o b
  BY <1>4
<1>6. Picked(a \o Tail(b), l)
  BY <1>4, PickedLess
<1>7. out = IF kept THEN Append(a, Head(b)) ELSE a
  BY <1>3
<1> HIDE DEF d, out
<1>8. Lists(d)
  <2>1. CASE kept
    BY <1>1, <1>3, <1>4, <1>5, <1>7, <2>1 DEF Lists
  <2>2. CASE ~kept
    BY <1>1, <1>3, <1>4, <1>5, <1>6, <1>7, <2>2 DEF Lists
  <2> QED
    BY <2>1, <2>2
<1>9. Good(d)
  BY <1>1, <1>2 DEF Good
<1> QED
  BY <1>1, <1>2, <1>8, <1>9, NextTableOK

\* A call of Schema past its list has its lists in order.
LEMMA ListsThere ==
    ASSUME NEW c, CallOK(c), c.op = "Schema", c.stage # "list" PROVE Lists(c)
  BY DEF CallOK, SchemaOK, Lists

\* A call that only changes its state, and is none of Schema.
LEMMA OtherOK ==
    ASSUME NEW c, Good(c), CallOK(c), c.op # "Schema", NEW x, x \in {"ok", "error"}
    PROVE  CallOK([c EXCEPT !.st = x])
<1> DEFINE d == [c EXCEPT !.st = x]
<1>1. /\ d.op = c.op /\ d.stage = c.stage /\ d.got = c.got /\ d.size = c.size /\ d.name = c.name
      /\ d.st \notin {"wait", "run", "landed"}
  BY DEF Good, Fields
<1> HIDE DEF d
<1>2. CallOK(d)
  BY <1>1 DEF CallOK
<1> QED
  BY <1>2 DEF d

\* A stage that ends well leaves a call in order.
LEMMA FinishedOK ==
    ASSUME NEW c, Good(c), CallOK(c), c.st \in {"landed", "rows"}
    PROVE  CallOK(StageFinished(c))
<1>1. c.st \notin Resting /\ c.got \in Nat /\ c.size \in Nat /\ c.got <= c.size
  BY DEF Resting, CallOK
<1>2. CASE c.op = "Schema" /\ c.stage = "list"
  <2>1. c.st = "rows" /\ SchemaOK(c)
    BY <1>2 DEF Good, CallOK
  <2>2. PICK t : t = c.todo
    OBVIOUS
  <2>3. t \in Seq(Tabs) /\ c.listed = t /\ c.out = <<>> /\ c.got <= Len(t)
    BY <1>1, <1>2, <2>1, <2>2 DEF SchemaOK
  <2>4. PICK u : u = SubSeq(t, 1, c.got)
    OBVIOUS
  <2>5. u \in Seq(Tabs)
    BY <1>1, <2>3, <2>4
  <2> DEFINE d == [c EXCEPT !.todo = SubSeq(c.todo, 1, c.got), !.listed = SubSeq(c.listed, 1, c.got)]
  <2>6. /\ d.op = c.op /\ d.stage = c.stage /\ d.st = c.st /\ d.got = c.got /\ d.size = c.size
        /\ d.todo = u /\ d.listed = u /\ d.out = <<>> /\ DOMAIN d = Fields
    BY <2>2, <2>3, <2>4 DEF Good, Fields
  <2>7. StageFinished(c) = NextTable(d)
    BY <1>2 DEF StageFinished
  <2> HIDE DEF d
  <2>8. <<>> \o u = u /\ Picked(<<>> \o u, u) /\ <<>> \in Seq(Tabs)
    BY <2>5, PickedAll
  <2>9. Lists(d) /\ Good(d)
    BY <1>2, <2>1, <2>5, <2>6, <2>8 DEF Lists, Good
  <2> QED
    BY <1>1, <1>2, <2>6, <2>7, <2>9, NextTableOK
<1>3. CASE c.stage = "count"
  <2>1. c.op = "Schema" /\ c.todo # <<>>
    BY <1>1, <1>3 DEF CallOK, SchemaOK
  <2>2. StageFinished(c) = Wait(c, "cols")
    BY <1>3 DEF StageFinished
  <2> QED
    BY <1>3, <2>1, <2>2, ListsThere, WaitOK
<1>4. CASE c.stage = "cols"
  <2>1. StageFinished(c) = Described(c, TRUE)
    BY <1>4 DEF StageFinished
  <2> QED
    BY <1>1, <1>4, <2>1, DescribedOK
<1>5. CASE c.stage = "create" /\ kind = "mongodb"
  <2>1. StageFinished(c) = Wait(c, "uncreate")
    BY <1>5 DEF StageFinished
  <2>2. PICK w : w = Wait(c, "uncreate")
    OBVIOUS
  <2>3. /\ w.op = c.op /\ w.stage = "uncreate" /\ w.name = c.name
        /\ w.got = 0 /\ w.size = 0
    BY <2>2 DEF Wait, Good, Fields
  <2>4. c.op = "CreateDatabase" /\ c.name \in Names
    BY <1>5 DEF CallOK
  <2>5. CallOK(w)
    BY <2>3, <2>4 DEF CallOK
  <2> QED
    BY <2>1, <2>2, <2>5
<1>6. CASE /\ ~(c.op = "Schema" /\ c.stage = "list") /\ c.stage \notin {"count", "cols"}
           /\ ~(c.stage = "create" /\ kind = "mongodb")
  <2>1. StageFinished(c) = [c EXCEPT !.st = "ok"]
    BY <1>6 DEF StageFinished
  <2>2. c.op # "Schema"
    BY <1>6 DEF CallOK
  <2> QED
    BY <2>1, <2>2, OtherOK
<1> QED
  BY <1>2, <1>3, <1>4, <1>5, <1>6

\* A stage that fails does so too.
LEMMA FailedOK ==
    ASSUME NEW c, Good(c), CallOK(c), c.st \notin Resting
    PROVE  CallOK(StageFailed(c))
<1>1. CASE c.stage = "count"
  <2>1. c.op = "Schema" /\ c.todo # <<>>
    BY <1>1 DEF CallOK, SchemaOK
  <2>2. StageFailed(c) = Wait(c, "cols")
    BY <1>1 DEF StageFailed
  <2> QED
    BY <1>1, <2>1, <2>2, ListsThere, WaitOK
<1>2. CASE c.stage = "cols"
  <2>1. StageFailed(c) = Described(c, kind \notin SQL)
    BY <1>2 DEF StageFailed
  <2>2. PICK kept : kept = (kind \notin SQL)
    OBVIOUS
  <2>3. kept \in BOOLEAN /\ (kind \notin SQL => kept)
    BY <2>2
  <2>4. CallOK(Described(c, kept))
    BY <1>2, <2>3, DescribedOK
  <2> QED
    BY <2>1, <2>2, <2>4
<1>3. CASE c.stage \notin {"count", "cols"}
  <2> DEFINE d == [c EXCEPT !.st = "error"]
  <2>1. StageFailed(c) = d
    BY <1>3 DEF StageFailed
  <2>2. CASE c.op # "Schema"
    BY <2>1, <2>2, OtherOK
  <2>3. CASE c.op = "Schema"
    <3>1. /\ d.op = c.op /\ d.stage = "list" /\ d.st = "error" /\ d.got = c.got /\ d.size = c.size
          /\ d.todo = c.todo /\ d.listed = c.listed /\ d.out = c.out
      BY <1>3, <2>3 DEF Good, Fields, CallOK
    <3> HIDE DEF d
    <3>2. SchemaOK(d)
      BY <1>3, <2>3, <3>1 DEF CallOK, SchemaOK
    <3>3. CallOK(d)
      BY <3>1, <3>2 DEF CallOK
    <3> QED
      BY <2>1, <3>3
  <2> QED
    BY <2>2, <2>3
<1> QED
  BY <1>1, <1>2, <1>3

\* One call moves on: the other calls are as they were.
LEMMA CallsStayOK ==
    ASSUME PlugIInv, ServerIInv, NEW r \in Callers, NEW c, CallOK(c), Set(r, c), kind' = kind
    PROVE  \A q \in Callers : CallOK(call[q])'
<1>1. call'[r] = c /\ \A q \in Callers \ {r} : call'[q] = call[q]
  BY DEF Set, PlugIInv
<1>2. CallOK(call[r])'
  BY <1>1 DEF CallOK, SchemaOK
<1>3. ASSUME NEW q \in Callers \ {r} PROVE CallOK(call[q])'
  <2>1. call'[q] = call[q] /\ CallOK(call[q])
    BY <1>1 DEF ServerIInv
  <2> QED
    BY <2>1 DEF CallOK, SchemaOK
<1> QED
  BY <1>2, <1>3

\* Every collection that is there afterwards has its owner: the call that
\* moved, or the one it had before.
LEMMA InitsStayOwned ==
    ASSUME PlugIInv, ServerIInv, NEW r \in Callers, NEW c, Set(r, c), kind' = kind,
           halfway => halfway', inits' # {} => kind = "mongodb",
           ~halfway' => \A n \in inits' : Owns(c, n) \/ (n \in inits /\ ~Owns(call[r], n))
    PROVE  InitsOwned'
<1>1. call'[r] = c /\ \A q \in Callers \ {r} : call'[q] = call[q]
  BY DEF Set, PlugIInv
<1>2. ASSUME ~halfway', NEW n \in inits' PROVE \E q \in Callers : Owns(call[q], n)'
  <2>1. CASE Owns(c, n)
    BY <1>1, <2>1 DEF Owns
  <2>2. CASE n \in inits /\ ~Owns(call[r], n)
    <3>1. PICK q \in Callers : Owns(call[q], n)
      BY <1>2, <2>2 DEF ServerIInv, InitsOwned
    <3>2. call'[q] = call[q]
      BY <1>1, <2>2, <3>1
    <3> QED
      BY <3>1, <3>2 DEF Owns
  <2> QED
    BY <1>2, <2>1, <2>2
<1> QED
  BY <1>2 DEF InitsOwned

\* A step that leaves the server and the pool alone.
LEMMA QuietStep ==
    ASSUME PlugIInv, ServerIInv, NEW r \in Callers, NEW c, CallOK(c), Set(r, c),
           UNCHANGED <<kind, connected, pool, serverVars, halfway>>, calls' \in 0..MaxCalls,
           \A n : Owns(call[r], n) => Owns(c, n)
    PROVE  ServerIInv'
<1>1. \A q \in Callers : CallOK(call[q])'
  BY CallsStayOK
<1>2. inits' = inits /\ (inits # {} => kind = "mongodb")
  BY DEF serverVars, ServerIInv, InitsOwned
<1>3. InitsOwned'
  BY <1>2, InitsStayOwned
<1>4. ServerTypes' /\ PoolOK'
  BY DEF ServerIInv, ServerTypes, PoolOK, PluginPools, serverVars
<1> QED
  BY <1>1, <1>3, <1>4 DEF ServerIInv

\* A step that fails a stage: what it leaves behind is half done.
LEMMA FailingStep ==
    ASSUME PlugIInv, ServerIInv, NEW r \in Callers, call[r].st \in {"wait", "run", "landed", "rows"},
           Set(r, StageFailed(call[r])), UNCHANGED <<kind, connected, pool, serverVars, calls>>,
           halfway' \in BOOLEAN, halfway => halfway',
           \A n : Owns(call[r], n) => halfway'
    PROVE  ServerIInv'
<1>1. PICK d : d = StageFailed(call[r])
  OBVIOUS
<1>2. CallOK(d)
  BY <1>1, FailedOK DEF PlugIInv, ServerIInv, Resting
<1>3. \A q \in Callers : CallOK(call[q])'
  BY <1>1, <1>2, CallsStayOK
<1>4. inits' = inits /\ (inits # {} => kind = "mongodb")
  BY DEF serverVars, ServerIInv, InitsOwned
<1>5. InitsOwned'
  BY <1>1, <1>4, InitsStayOwned
<1>6. ServerTypes' /\ PoolOK'
  BY DEF ServerIInv, ServerTypes, PoolOK, PluginPools, serverVars
<1> QED
  BY <1>3, <1>5, <1>6 DEF ServerIInv

\* A call begins with nothing read and nothing listed.
LEMMA BeginServer ==
    ASSUME PlugIInv, ServerIInv, NEW r \in Callers, Begin(r) PROVE ServerIInv'
<1>1. PICK op, n :
        /\ op \in DOMAIN FirstStage
        /\ n \in IF op \in {"CreateDatabase", "DropDatabase"} THEN Names ELSE {""}
        /\ Set(r, [Idle EXCEPT !.op = op, !.name = n, !.stage = FirstStage[op], !.st = Immediate(op)])
  BY DEF Begin
<1>2. op = "CreateDatabase" => n \in Names
  BY <1>1
<1> DEFINE c == [Idle EXCEPT !.op = op, !.name = n, !.stage = FirstStage[op], !.st = Immediate(op)]
<1>3. /\ c.op = op /\ c.name = n /\ c.stage = FirstStage[op] /\ c.st = Immediate(op)
      /\ c.got = 0 /\ c.size = 0 /\ c.todo = <<>> /\ c.listed = <<>> /\ c.out = <<>>
  BY DEF Idle
<1>4. /\ op = "Schema" => FirstStage[op] = "list"
      /\ FirstStage[op] \notin {"count", "cols", "uncreate"}
      /\ FirstStage[op] = "create" => op = "CreateDatabase"
  <2>1. op \in {"Ping", "Query", "Execute", "Tables", "Schema", "Databases",
                "CreateDatabase", "DropDatabase"}
    BY <1>1 DEF FirstStage
  <2>2. /\ FirstStage["Ping"] = "ping" /\ FirstStage["Query"] = "read"
        /\ FirstStage["Execute"] = "exec" /\ FirstStage["Tables"] = "list"
        /\ FirstStage["Schema"] = "list" /\ FirstStage["Databases"] = "dbs"
        /\ FirstStage["CreateDatabase"] = "create" /\ FirstStage["DropDatabase"] = "drop"
    BY DEF FirstStage
  <2> HIDE DEF FirstStage
  <2> QED
    BY <2>1, <2>2
<1>5. Immediate(op) \in {"ok", "error", "wait"}
  BY DEF Immediate
<1>6. Set(r, c)
  BY <1>1
<1> HIDE DEF c
<1>7. op = "Schema" => SchemaOK(c)
  <2>1. <<>> \in Seq(Tabs)
    OBVIOUS
  <2> QED
    BY <1>3, <1>4, <1>5, <2>1 DEF SchemaOK
<1>8. CallOK(c)
  <2>1. c.got \in Nat /\ c.size \in Nat /\ c.got <= c.size
    BY <1>3
  <2>2. c.stage \in {"create", "uncreate"} => c.op = "CreateDatabase" /\ c.name \in Names
    BY <1>2, <1>3, <1>4
  <2> QED
    BY <1>3, <1>4, <1>7, <2>1, <2>2 DEF CallOK
<1>9. \A m : ~Owns(call[r], m)
  BY DEF Begin, Owns, Resting
<1>10. calls' \in 0..MaxCalls
  <2>1. calls < MaxCalls /\ calls' = calls + 1
    BY DEF Begin
  <2>2. calls \in 0..MaxCalls /\ MaxCalls \in Nat
    BY PluginAssumption DEF ServerIInv, ServerTypes
  <2> QED
    BY <2>1, <2>2
<1>11. UNCHANGED <<kind, connected, pool, serverVars, halfway>>
  BY DEF Begin
<1> QED
  BY <1>6, <1>8, <1>9, <1>10, <1>11, QuietStep

\* A command takes effect: the databases stay named, a collection that is made
\* is owned by its call, and one that is dropped needs no owner.
LEMMA LandsServer ==
    ASSUME PlugIInv, ServerIInv, NEW r \in Callers, Lands(r) PROVE ServerIInv'
<1> DEFINE c == call[r]
           d == [c EXCEPT !.st = "landed"]
<1>1. Good(c) /\ CallOK(c) /\ c.st = "run"
  BY DEF PlugIInv, ServerIInv, Lands
<1>2. /\ Set(r, d) /\ Change(c)
      /\ kind' = kind /\ connected' = connected /\ pool' = pool
      /\ calls' = calls /\ halfway' = halfway
  BY DEF Lands
<1>3. /\ d.op = c.op /\ d.stage = c.stage /\ d.name = c.name /\ d.st = "landed"
      /\ d.got = c.got /\ d.size = c.size
      /\ d.todo = c.todo /\ d.listed = c.listed /\ d.out = c.out
  BY <1>1 DEF Good, Fields
<1>4. c.stage \in {"exec", "create", "uncreate", "drop", "ping", "count"}
  BY <1>2 DEF Change
<1> HIDE DEF d
<1>5. CallOK(d)
  <2>1. c.op = "Schema" => SchemaOK(d)
    BY <1>1, <1>3, <1>4 DEF CallOK, SchemaOK, Resting
  <2> QED
    BY <1>1, <1>3, <2>1 DEF CallOK
<1>6. \A q \in Callers : CallOK(call[q])'
  BY <1>2, <1>5, CallsStayOK
<1>7. c.stage \in {"create", "uncreate"} => c.op = "CreateDatabase" /\ c.name \in Names
  BY <1>1 DEF CallOK
<1>8. /\ tables' \subseteq Tabs /\ inits' \subseteq dbs' /\ dbs' \subseteq Names
      /\ inits' # {} => kind = "mongodb"
      /\ \A n \in inits' : Owns(d, n) \/ (n \in inits /\ ~Owns(c, n))
  <2>1. /\ tables \subseteq Tabs /\ inits \subseteq dbs /\ dbs \subseteq Names
        /\ inits # {} => kind = "mongodb"
    BY DEF ServerIInv, ServerTypes, InitsOwned
  <2>2. CASE c.stage = "exec"
    BY <1>2, <2>1, <2>2 DEF Change, Owns
  <2>3. CASE c.stage = "create" /\ kind # "mongodb"
    BY <1>2, <1>7, <2>1, <2>3 DEF Change, Owns
  <2>4. CASE c.stage = "create" /\ kind = "mongodb"
    <3>1. dbs' = dbs \cup {c.name} /\ inits' = inits \cup {c.name} /\ tables' = tables
      BY <1>2, <2>4 DEF Change
    <3>2. Owns(d, c.name) /\ \A n : ~Owns(c, n)
      BY <1>1, <1>3, <1>7, <2>4 DEF Owns
    <3> QED
      BY <1>7, <2>1, <2>4, <3>1, <3>2
  <2>5. CASE c.stage = "uncreate"
    <3>1. inits' = inits \ {c.name} /\ dbs' = dbs \ ({c.name} \ Full) /\ tables' = tables
      BY <1>2, <2>5 DEF Change
    <3>2. \A n : Owns(c, n) => n = c.name
      BY DEF Owns
    <3> QED
      BY <2>1, <3>1, <3>2
  <2>6. CASE c.stage = "drop"
    BY <1>2, <2>1, <2>6 DEF Change, Owns
  <2>7. CASE c.stage \in {"ping", "count"}
    BY <1>2, <2>1, <2>7 DEF Change, Owns, serverVars
  <2> QED
    BY <1>4, <2>2, <2>3, <2>4, <2>5, <2>6, <2>7
<1>9. InitsOwned'
  BY <1>2, <1>8, InitsStayOwned
<1>10. ServerTypes' /\ PoolOK'
  BY <1>2, <1>8 DEF ServerIInv, ServerTypes, PoolOK, PluginPools
<1> QED
  BY <1>6, <1>9, <1>10 DEF ServerIInv

\* A call goes one step on.
LEMMA CallStepServer ==
    ASSUME PlugIInv, ServerIInv, NEW r \in Callers, Step(r) PROVE ServerIInv'
<1> DEFINE c == call[r]
<1>0. Good(c) /\ CallOK(c) /\ calls \in 0..MaxCalls /\ halfway \in BOOLEAN
  BY DEF PlugIInv, ServerIInv, ServerTypes
<1>1. CASE Acquire(r)
  <2> DEFINE d == [c EXCEPT !.st = "run"]
  <2>1. /\ d.op = c.op /\ d.stage = c.stage /\ d.name = c.name /\ d.st = "run" /\ c.st = "wait"
        /\ d.got = c.got /\ d.size = c.size
        /\ d.todo = c.todo /\ d.listed = c.listed /\ d.out = c.out
    BY <1>0, <1>1 DEF Good, Fields, Acquire
  <2>2. Set(r, d) /\ UNCHANGED <<kind, connected, pool, serverVars, halfway, calls>>
    BY <1>1 DEF Acquire
  <2> HIDE DEF d
  <2>3. c.op = "Schema" => SchemaOK(d)
    BY <1>0, <2>1 DEF CallOK, SchemaOK, Resting
  <2>4. CallOK(d)
    BY <1>0, <2>1, <2>3 DEF CallOK
  <2>5. \A n : Owns(c, n) => Owns(d, n)
    BY <2>1 DEF Owns
  <2> QED
    BY <1>0, <2>2, <2>4, <2>5, QuietStep
<1>2. CASE Refused(r)
  <2>1. /\ c.st = "wait" /\ Set(r, StageFailed(c)) /\ Halfway(c)
        /\ UNCHANGED <<kind, connected, pool, serverVars, calls>>
    BY <1>2 DEF Refused
  <2> QED
    BY <1>0, <2>1, FailingStep DEF Halfway, Owns
<1>3. CASE ServerError(r)
  <2>1. /\ c.st \in {"run", "landed"} /\ Set(r, StageFailed(c)) /\ Halfway(c)
        /\ UNCHANGED <<kind, connected, pool, serverVars, calls>>
    BY <1>3 DEF ServerError
  <2> QED
    BY <1>0, <2>1, FailingStep DEF Halfway, Owns
<1>4. CASE Lands(r)
  BY <1>4, LandsServer
<1>5. CASE Answered(r)
  <2>1. /\ c.st = "landed" /\ Set(r, StageFinished(c))
        /\ UNCHANGED <<kind, connected, pool, serverVars, calls, halfway>>
    BY <1>5 DEF Answered
  <2>2. CallOK(StageFinished(c))
    BY <1>0, <2>1, FinishedOK
  <2>3. inits = {} \/ \A n : Owns(c, n) => Owns(StageFinished(c), n)
    <3>1. SUFFICES ASSUME inits # {}, NEW n, Owns(c, n) PROVE Owns(StageFinished(c), n)
      OBVIOUS
    <3>2. kind = "mongodb" /\ c.op = "CreateDatabase" /\ c.name = n /\ c.stage = "create"
      BY <2>1, <3>1 DEF Owns, ServerIInv, InitsOwned
    <3>3. StageFinished(c) = Wait(c, "uncreate")
      BY <3>2 DEF StageFinished
    <3>4. /\ Wait(c, "uncreate").op = c.op /\ Wait(c, "uncreate").name = c.name
          /\ Wait(c, "uncreate").stage = "uncreate" /\ Wait(c, "uncreate").st = "wait"
      BY <1>0 DEF Wait, Good, Fields
    <3> QED
      BY <3>2, <3>3, <3>4 DEF Owns
  <2>4. PICK d : d = StageFinished(c)
    OBVIOUS
  <2>5. \A q \in Callers : CallOK(call[q])'
    BY <2>1, <2>2, <2>4, CallsStayOK
  <2>6. inits' = inits /\ (inits # {} => kind = "mongodb") /\ kind' = kind /\ halfway' = halfway
    BY <2>1 DEF serverVars, ServerIInv, InitsOwned
  <2>7. InitsOwned'
    BY <2>1, <2>3, <2>4, <2>6, InitsStayOwned
  <2>8. ServerTypes' /\ PoolOK'
    BY <2>1 DEF ServerIInv, ServerTypes, PoolOK, PluginPools, serverVars
  <2> QED
    BY <2>5, <2>7, <2>8 DEF ServerIInv
<1>6. CASE OpenRows(r)
  <2>1. c.st = "run" /\ UNCHANGED <<kind, connected, pool, serverVars, calls, halfway>>
    BY <1>6 DEF OpenRows
  <2>2. \A n : Owns(c, n) => c.stage \in {"create", "uncreate"}
    BY DEF Owns
  <2>3. CASE c.stage = "list"
    <3>1. PICK l \in Listings :
             Set(r, [c EXCEPT !.st = "rows", !.todo = l, !.listed = l, !.size = Len(l)])
      BY <1>6, <2>3 DEF OpenRows
    <3>2. l \in Seq(Tabs) /\ Len(l) \in Nat
      <4>1. PICK k : k = Cardinality(tables)
        OBVIOUS
      <4>2. k \in Nat /\ tables \subseteq Tabs
        <5>1. tables \subseteq Tabs /\ IsFiniteSet(Tabs)
          BY PluginAssumption DEF ServerIInv, ServerTypes
        <5>2. IsFiniteSet(tables)
          BY <5>1, FS_Subset
        <5> QED
          BY <4>1, <5>1, <5>2, FS_CardinalityType
      <4>3. l \in [1..k -> tables]
        BY <4>1 DEF Listings, SetToSeqs
      <4> QED
        BY <4>2, <4>3
    <3> DEFINE d == [c EXCEPT !.st = "rows", !.todo = l, !.listed = l, !.size = Len(l)]
    <3>3. /\ d.op = c.op /\ d.stage = "list" /\ d.st = "rows" /\ d.name = c.name
          /\ d.got = c.got /\ d.size = Len(l) /\ d.todo = l /\ d.listed = l /\ d.out = c.out
      BY <1>0, <2>3 DEF Good, Fields
    <3>4. Set(r, d)
      BY <3>1
    <3>5. c.got = 0
      BY <2>1, <2>3, <1>0 DEF CallOK
    <3> HIDE DEF d
    <3>6. c.op = "Schema" => SchemaOK(d)
      BY <1>0, <2>3, <3>2, <3>3 DEF CallOK, SchemaOK
    <3>7. CallOK(d)
      BY <1>0, <2>3, <3>2, <3>3, <3>5, <3>6 DEF CallOK
    <3> QED
      BY <1>0, <2>1, <2>2, <2>3, <3>4, <3>7, QuietStep
  <2>4. CASE c.stage # "list"
    <3>1. PICK x \in Nat : Set(r, [c EXCEPT !.st = "rows", !.size = x])
      <4>1. Cardinality(dbs) \in Nat
        <5>1. dbs \subseteq Names /\ IsFiniteSet(Names)
          BY PluginAssumption DEF ServerIInv, ServerTypes
        <5>2. IsFiniteSet(dbs)
          BY <5>1, FS_Subset
        <5> QED
          BY <5>2, FS_CardinalityType
      <4>2. Size \in Nat /\ 0 \in Nat
        BY PluginAssumption
      <4> DEFINE There == [read |-> Size, dbs |-> Cardinality(dbs),
                           cols |-> IF c.stage = "cols" /\ Head(c.todo) \in tables THEN Size ELSE 0]
      <4>3. c.stage \in {"read", "dbs", "cols"} /\ Set(r, [c EXCEPT !.st = "rows", !.size = There[c.stage]])
        BY <1>6, <2>4 DEF OpenRows
      <4>4. There["read"] \in Nat /\ There["dbs"] \in Nat /\ There["cols"] \in Nat
        BY <4>1, <4>2
      <4> HIDE DEF There
      <4> QED
        BY <4>3, <4>4
    <3> DEFINE d == [c EXCEPT !.st = "rows", !.size = x]
    <3>2. /\ d.op = c.op /\ d.stage = c.stage /\ d.st = "rows" /\ d.name = c.name
          /\ d.got = c.got /\ d.size = x /\ d.todo = c.todo /\ d.listed = c.listed /\ d.out = c.out
      BY <1>0 DEF Good, Fields
    <3>3. Set(r, d)
      BY <3>1
    <3>4. c.got = 0
      BY <1>0, <2>1 DEF CallOK
    <3>5. c.stage \in {"read", "dbs", "cols"}
      BY <1>6, <2>4 DEF OpenRows
    <3> HIDE DEF d
    <3>6. c.op = "Schema" => SchemaOK(d)
      BY <1>0, <2>1, <2>4, <3>2 DEF CallOK, SchemaOK, Resting
    <3>7. CallOK(d)
      BY <1>0, <3>1, <3>2, <3>4, <3>6 DEF CallOK
    <3> QED
      BY <1>0, <2>1, <2>2, <3>3, <3>5, <3>7, QuietStep
  <2> QED
    BY <2>3, <2>4
<1>7. \A n : c.st = "rows" => ~Owns(c, n)
  BY DEF Owns
<1>8. CASE NextRow(r)
  <2>1. PICK g \in Nat : Set(r, [c EXCEPT !.got = g]) /\ g <= c.size
    BY SMTT(30), <1>0, <1>8 DEF NextRow, CallOK
  <2> DEFINE d == [c EXCEPT !.got = g]
  <2>2. c.st = "rows" /\ UNCHANGED <<kind, connected, pool, serverVars, calls, halfway>>
    BY <1>8 DEF NextRow
  <2>3. /\ d.op = c.op /\ d.stage = c.stage /\ d.st = "rows" /\ d.name = c.name
        /\ d.got = g /\ d.size = c.size /\ d.todo = c.todo /\ d.listed = c.listed /\ d.out = c.out
    BY <1>0, <2>2 DEF Good, Fields
  <2>4. Set(r, d)
    BY <2>1
  <2> HIDE DEF d
  <2>5. c.op = "Schema" => SchemaOK(d)
    BY <1>0, <2>2, <2>3 DEF CallOK, SchemaOK
  <2>6. CallOK(d)
    BY <1>0, <2>1, <2>3, <2>5 DEF CallOK
  <2> QED
    BY <1>0, <1>7, <2>2, <2>4, <2>6, QuietStep
<1>9. ASSUME c.st = "rows", Set(r, StageFinished(c)),
             UNCHANGED <<kind, connected, pool, serverVars, calls, halfway>>
      PROVE  ServerIInv'
  <2>1. PICK d : d = StageFinished(c)
    OBVIOUS
  <2>2. CallOK(d)
    BY <1>0, <1>9, <2>1, FinishedOK
  <2> QED
    BY <1>0, <1>7, <1>9, <2>1, <2>2, QuietStep
<1>10. ASSUME c.st = "rows", Set(r, StageFailed(c)),
              UNCHANGED <<kind, connected, pool, serverVars, calls, halfway>>
       PROVE  ServerIInv'
  BY <1>0, <1>7, <1>10, FailingStep
<1>11. CASE EndRows(r)
  BY <1>9, <1>11 DEF EndRows
<1>12. CASE ScanFails(r)
  <2>1. /\ c.st = "rows" /\ c.got < c.size
        /\ UNCHANGED <<kind, connected, pool, serverVars, calls, halfway>>
    BY <1>12 DEF ScanFails
  <2>2. CASE c.stage = "cols"
    <3> DEFINE d == [c EXCEPT !.size = c.size - 1]
    <3>1. Set(r, d)
      BY <1>12, <2>2 DEF ScanFails
    <3>2. /\ d.op = c.op /\ d.stage = c.stage /\ d.st = "rows" /\ d.name = c.name
          /\ d.got = c.got /\ d.size = c.size - 1
          /\ d.todo = c.todo /\ d.listed = c.listed /\ d.out = c.out
      BY <1>0, <2>1 DEF Good, Fields
    <3> HIDE DEF d
    <3>3. c.op = "Schema" => SchemaOK(d)
      BY <1>0, <2>1, <2>2, <3>2 DEF CallOK, SchemaOK
    <3>4. PICK g, x : g = c.got /\ x = c.size
      OBVIOUS
    <3>5. g \in Nat /\ x - 1 \in Nat /\ g <= x - 1
      BY <1>0, <2>1, <3>4 DEF CallOK
    <3>6. CallOK(d)
      BY <1>0, <2>1, <3>2, <3>3, <3>4, <3>5 DEF CallOK
    <3> QED
      BY <1>0, <1>7, <2>1, <3>1, <3>6, QuietStep
  <2>3. CASE c.stage # "cols"
    BY <1>10, <1>12, <2>1, <2>3 DEF ScanFails
  <2> QED
    BY <2>2, <2>3
<1>13. CASE CutRows(r)
  BY <1>9, <1>10, <1>13 DEF CutRows
<1> QED
  BY <1>1, <1>2, <1>3, <1>4, <1>5, <1>6, <1>8, <1>11, <1>12, <1>13 DEF Step, Command, Rows

\* Nothing happens to a call.
LEMMA CallsSame ==
    ASSUME ServerIInv, UNCHANGED <<kind, call>>, UNCHANGED <<serverVars, halfway>>
    PROVE  (\A q \in Callers : CallOK(call[q])') /\ InitsOwned'
<1>1. ASSUME NEW q \in Callers PROVE CallOK(call[q])'
  <2>1. CallOK(call[q])
    BY DEF ServerIInv
  <2> QED
    BY <2>1 DEF CallOK, SchemaOK
<1>2. InitsOwned'
  BY DEF ServerIInv, InitsOwned, Owns, serverVars
<1> QED
  BY <1>1, <1>2

\* Connect and Close, and the end of it.
LEMMA ConnectServer ==
    ASSUME PlugIInv, ServerIInv, Connection \/ CloseEnd PROVE ServerIInv'
<1>1. UNCHANGED <<kind, serverVars, call, calls, halfway>>
  BY DEF Connection, OpenPool, PingOk, PingFails, Close, CloseEnd
<1>2. (\A q \in Callers : CallOK(call[q])') /\ InitsOwned'
  BY <1>1, CallsSame
<1>3. PoolOK' /\ connected' \in {"new", "opened", "ready", "failed"}
      /\ pool' \in {"none", "open", "closing", "closed", "lost"}
  <2>1. /\ PoolOK /\ connected \in {"new", "opened", "ready", "failed"}
        /\ pool \in {"none", "open", "closing", "closed", "lost"}
    BY DEF ServerIInv, ServerTypes
  <2>2. CASE OpenPool
    BY <2>1, <2>2 DEF OpenPool, PoolOK, PluginPools
  <2>3. CASE PingOk
    BY <2>1, <2>3 DEF PingOk, PoolOK, PluginPools
  <2>4. CASE PingFails
    <3>1. kind \in Kinds
      BY DEF PlugIInv
    <3> QED
      BY <2>1, <2>4, <3>1 DEF PingFails, PoolOK, PluginPools, SQL, Kinds
  <2>5. CASE Close
    BY <2>1, <2>5 DEF Close, PoolOK, PluginPools
  <2>6. CASE CloseEnd
    BY <2>1, <2>6 DEF CloseEnd, PoolOK, PluginPools
  <2> QED
    BY <2>2, <2>3, <2>4, <2>5, <2>6 DEF Connection
<1>4. ServerTypes'
  BY <1>1, <1>3 DEF ServerIInv, ServerTypes, serverVars
<1> QED
  BY <1>2, <1>3, <1>4 DEF ServerIInv

\* No step of a plugin breaks the second invariant.
LEMMA ServerNextInv ==
    PlugIInv /\ ServerIInv /\ [PluginNext]_pluginVars => ServerIInv'
<1> SUFFICES ASSUME PlugIInv, ServerIInv, [PluginNext]_pluginVars PROVE ServerIInv'
  OBVIOUS
<1>1. CASE Connection \/ CloseEnd
  BY <1>1, ConnectServer
<1>2. CASE Calls
  BY <1>2, BeginServer, CallStepServer DEF Calls
<1>3. CASE UNCHANGED pluginVars
  <2>1. UNCHANGED <<kind, call>> /\ UNCHANGED <<serverVars, halfway>>
    BY <1>3 DEF pluginVars
  <2>2. ServerTypes' /\ PoolOK'
    BY <1>3 DEF pluginVars, serverVars, ServerIInv, ServerTypes, PoolOK, PluginPools
  <2> QED
    BY <2>1, <2>2, CallsSame DEF ServerIInv
<1> QED
  BY <1>1, <1>2, <1>3 DEF PluginNext, Postgres, MySQL, MariaDB, MSSQL, SQLite, MongoDB, Redis

\* No pool, no call and no collection at first.
LEMMA ServerInitInv == PluginInit => ServerIInv
<1> SUFFICES ASSUME PluginInit PROVE ServerIInv
  OBVIOUS
<1>1. ServerTypes /\ PoolOK /\ InitsOwned
  <2>1. calls = 0 /\ MaxCalls \in Nat
    BY PluginAssumption DEF PluginInit
  <2>2. calls \in 0..MaxCalls
    BY <2>1
  <2> QED
    BY <2>2, PluginAssumption DEF PluginInit, ServerTypes, PoolOK, PluginPools, InitsOwned
<1>2. CallOK(Idle)
  BY DEF CallOK, Idle
<1>3. \A r \in Callers : call[r] = Idle
  BY DEF PluginInit
<1> QED
  BY <1>1, <1>2, <1>3 DEF ServerIInv

\* What the invariants say of the properties.
LEMMA PluginInvHolds == PlugIInv /\ ServerIInv => PluginInv /\ WholeOrSql
<1> SUFFICES ASSUME PlugIInv, ServerIInv PROVE PluginInv /\ WholeOrSql
  OBVIOUS
<1>1. SlotsReturned /\ WholeOrSql
  BY DEF PlugIInv, Good, SlotsReturned, WholeOrSql
<1>2. PluginTypeOK
  BY DEF PlugIInv, Good, ServerIInv, ServerTypes, CallOK, PluginTypeOK
<1>3. PluginPools
  BY DEF ServerIInv, PoolOK
<1>4. SchemaGoesOn
  BY DEF ServerIInv, CallOK, SchemaOK, SchemaGoesOn
<1>5. InitsDropped
  <2>1. SUFFICES ASSUME inits # {}, ~halfway
                 PROVE  \E r \in Callers : call[r].op = "CreateDatabase" /\ call[r].st \notin Resting
    BY DEF InitsDropped
  <2>2. PICK n \in inits : TRUE
    BY <2>1
  <2>3. PICK r \in Callers : Owns(call[r], n)
    BY <2>1, <2>2 DEF ServerIInv, InitsOwned
  <2> QED
    BY <2>3 DEF Owns, Resting
<1> QED
  BY <1>1, <1>2, <1>3, <1>4, <1>5 DEF PluginInv

\* Both invariants hold.
LEMMA PluginBoth == PluginSpec => [](PlugIInv /\ ServerIInv)
<1>1. PluginInit => PlugIInv /\ ServerIInv
  BY PlugInitInv, ServerInitInv
<1>2. PlugIInv /\ ServerIInv /\ [PluginNext]_pluginVars => PlugIInv' /\ ServerIInv'
  BY PlugNextInv, ServerNextInv
<1> QED
  BY <1>1, <1>2, PTL DEF PluginSpec

\* A call gives its connection back before it waits or returns, the pool is never
\* overdrawn and never left open, Schema answers with tables of its list in order,
\* and a collection made by CreateDatabase is dropped unless it was stopped half
\* way (plugins/*).
THEOREM PluginInvariance == PluginSpec => []PluginInv
  BY PluginBoth, PluginInvHolds, PTL

\* An answer cut short is never given for a whole one by mongodb and redis.
THEOREM WholeAnswers == PluginSpec => []WholeOrSql
  BY PluginBoth, PluginInvHolds, PTL

-----------------------------------------------------------------------------
(* Induction over data.  The operators of the gate are loops: functions on   *)
(* 0..n whose value at i is a step from the value at i - 1.  A loop has      *)
(* states, and what its first state has and every step keeps, its last has.  *)

\* A set of numbers has a least one.
LEMMA LeastNumber ==
    ASSUME NEW T, T \subseteq Nat, T # {}
    PROVE  \E x \in T : \A y \in T : x <= y
<1>1. PICK x \in T : \A y \in T : ~ (<<y, x>> \in OpToRel(<, Nat))
  BY NatLessThanWellFounded, WFMin, Zenon
<1>2. \A y \in T : ~ (y < x)
  BY <1>1 DEF OpToRel
<1> QED
  BY <1>2

\* Induction over the numbers of an interval, for a set of them.
LEMMA IndexInduction ==
    ASSUME NEW n \in Nat, NEW P, 0 \in P, \A i \in 1..n : i - 1 \in P => i \in P
    PROVE  \A i \in 0..n : i \in P
<1> DEFINE Wrong == {i \in Nat : i <= n /\ i \notin P}
<1>1. ASSUME Wrong # {} PROVE FALSE
  <2>1. PICK k \in Wrong : \A x \in Wrong : k <= x
    BY <1>1, LeastNumber
  <2>2. k \in Nat /\ k <= n /\ k \notin P /\ k # 0
    OBVIOUS
  <2>3. k \in 1..n /\ k - 1 \in Nat /\ k - 1 <= n /\ ~(k <= k - 1)
    BY <2>2
  <2>4. k - 1 \in P
    BY <2>1, <2>3
  <2> QED
    BY <2>2, <2>3, <2>4
<1>2. ASSUME NEW i \in 0..n PROVE i \in P
  <2>1. i \in Nat /\ i <= n
    OBVIOUS
  <2> QED
    BY <1>1, <2>1
<1> QED
  BY <1>2

\* The states of the first k rounds of a loop, from base by the steps.
Rounds(g, k, S, base, step) ==
    /\ g \in [0..k -> S] /\ g[0] = base
    /\ \A i \in 1..k : g[i] = step[i][g[i - 1]]

\* One round more.
LEMMA OneRound ==
    ASSUME NEW S, NEW n \in Nat, NEW base \in S, NEW step \in [1..n -> [S -> S]],
           NEW k \in 0..(n - 1), NEW g, Rounds(g, k, S, base, step)
    PROVE  \E h : Rounds(h, k + 1, S, base, step)
<1>1. g \in [0..k -> S] /\ g[0] = base /\ \A i \in 1..k : g[i] = step[i][g[i - 1]]
  BY DEF Rounds
<1>2. k \in Nat /\ k + 1 \in 1..n /\ k \in 0..k
  OBVIOUS
<1>3. PICK x \in S : x = step[k + 1][g[k]]
  <2>1. g[k] \in S
    BY <1>1, <1>2
  <2>2. step[k + 1] \in [S -> S]
    BY <1>2
  <2> QED
    BY <2>1, <2>2
<1>4. PICK h : h = [i \in 0..(k + 1) |-> IF i = k + 1 THEN x ELSE g[i]]
  OBVIOUS
<1>5. h \in [0..(k + 1) -> S]
  BY <1>1, <1>2, <1>4
<1>6. h[k + 1] = x /\ \A i \in 0..k : h[i] = g[i]
  BY <1>2, <1>4
<1>7. h[0] = base
  BY <1>1, <1>2, <1>6
<1>8. ASSUME NEW i \in 1..(k + 1) PROVE h[i] = step[i][h[i - 1]]
  <2>1. CASE i = k + 1
    BY <1>2, <1>3, <1>6, <2>1
  <2>2. CASE i # k + 1
    <3>1. i \in 1..k /\ i \in 0..k /\ i - 1 \in 0..k
      BY <1>2, <2>2
    <3> QED
      BY <1>1, <1>6, <3>1
  <2> QED
    BY <2>1, <2>2
<1> QED
  BY <1>5, <1>7, <1>8 DEF Rounds

\* A loop over n steps, each of which takes one state to another, has its states.
LEMMA LoopHasStates ==
    ASSUME NEW S, NEW n \in Nat, NEW base \in S, NEW step \in [1..n -> [S -> S]]
    PROVE  \E g : Rounds(g, n, S, base, step)
<1> DEFINE Bad == {k \in Nat : k <= n /\ ~ \E g : Rounds(g, k, S, base, step)}
<1>1. \E g : Rounds(g, 0, S, base, step)
  <2>1. PICK g : g = [i \in 0..0 |-> base]
    OBVIOUS
  <2>2. g \in [0..0 -> S] /\ g[0] = base
    BY <2>1
  <2> QED
    BY <2>2 DEF Rounds
<1>2. ASSUME Bad # {} PROVE FALSE
  <2>1. PICK k \in Bad : \A x \in Bad : k <= x
    BY <1>2, LeastNumber
  <2>2. k \in Nat /\ k <= n /\ ~ \E g : Rounds(g, k, S, base, step)
    OBVIOUS
  <2>3. k # 0
    BY <1>1, <2>2
  <2>4. PICK j \in 0..(n - 1) : k = j + 1
    <3>1. k - 1 \in 0..(n - 1) /\ k = (k - 1) + 1
      BY <2>2, <2>3
    <3> QED
      BY <3>1
  <2>5. j \in Nat /\ j <= n /\ ~(k <= j)
    BY <2>4
  <2>6. j \notin Bad
    BY <2>1, <2>5
  <2>7. \E g : Rounds(g, j, S, base, step)
    BY <2>5, <2>6
  <2> QED
    BY <2>2, <2>4, <2>7, OneRound
<1> QED
  BY <1>2

\* Whatever goes by these steps from there has states of that kind.
LEMMA LoopStatesAre ==
    ASSUME NEW S, NEW n \in Nat, NEW base \in S, NEW f,
           f = [i \in 0..n |-> f[i]], f[0] = base,
           \A i \in 1..n : f[i - 1] \in S => f[i] \in S
    PROVE  f \in [0..n -> S]
<1> DEFINE P == {i \in 0..n : f[i] \in S}
<1>1. 0 \in P
  OBVIOUS
<1>2. ASSUME NEW i \in 1..n, i - 1 \in P PROVE i \in P
  <2>1. f[i] \in S /\ i \in 0..n
    BY <1>2
  <2> QED
    BY <2>1
<1>3. \A i \in 0..n : i \in P
  <2> HIDE DEF P
  <2> QED
    BY <1>1, <1>2, IndexInduction
<1>4. \A i \in 0..n : f[i] \in S
  BY <1>3
<1> QED
  BY <1>4

\* The least of a set of numbers.
LEMMA MinOfNumbers ==
    ASSUME NEW T, T \subseteq Nat, T # {}
    PROVE  Min(T) \in T /\ \A y \in T : Min(T) <= y
  BY LeastNumber DEF Min

-----------------------------------------------------------------------------
(* Roles and permissions.                                                    *)

\* The state of the loops that append what is new, over the elements of X.
Gathered(X) == [seen : SUBSET X, out : Seq(X)]

\* An element is taken once: seen, and put at the end if it was new.
LEMMA AddNewExact ==
    ASSUME NEW X, NEW st \in Gathered(X), NEW x \in X
    PROVE  /\ AddNew(st, x) \in Gathered(X)
           /\ AddNew(st, x).seen = st.seen \cup {x}
           /\ ToSet(AddNew(st, x).out) = ToSet(st.out) \cup ({x} \ st.seen)
           /\ IsInjective(st.out) /\ ToSet(st.out) \subseteq st.seen
                 => IsInjective(AddNew(st, x).out) /\ ToSet(AddNew(st, x).out) \subseteq st.seen \cup {x}
<1> DEFINE out == st.out
<1>1. out \in Seq(X) /\ st.seen \subseteq X
  BY DEF Gathered
<1>2. CASE x \in st.seen
  BY <1>1, <1>2 DEF AddNew
<1>3. CASE x \notin st.seen
  <2>1. PICK more : more = Append(out, x)
    OBVIOUS
  <2>2. AddNew(st, x) = [seen |-> st.seen \cup {x}, out |-> more]
    BY <1>3, <2>1 DEF AddNew
  <2>3. PICK n \in Nat : n = Len(out)
    BY <1>1
  <2>4. /\ more \in Seq(X) /\ DOMAIN more = 1..(n + 1) /\ DOMAIN out = 1..n
        /\ more[n + 1] = x /\ \A i \in 1..n : more[i] = out[i]
    BY <1>1, <2>1, <2>3
  <2>5. ToSet(more) = ToSet(out) \cup {x}
    <3>1. \A i \in 1..(n + 1) : i \in 1..n \/ i = n + 1
      BY <2>3
    <3>2. n + 1 \in 1..(n + 1) /\ \A i \in 1..n : i \in 1..(n + 1)
      BY <2>3
    <3> QED
      BY <2>4, <3>1, <3>2, Zenon DEF ToSet
  <2>6. ASSUME IsInjective(out), ToSet(out) \subseteq st.seen PROVE IsInjective(more)
    <3>1. ASSUME NEW i \in 1..(n + 1), NEW j \in 1..(n + 1), more[i] = more[j], i # j PROVE FALSE
      <4>1. CASE i \in 1..n /\ j \in 1..n
        BY <2>4, <2>6, <3>1, <4>1 DEF IsInjective
      <4>2. CASE i = n + 1 /\ j \in 1..n
        <5>1. out[j] \in ToSet(out) /\ out[j] = x
          BY <2>4, <3>1, <4>2 DEF ToSet
        <5> QED
          BY <1>3, <2>6, <5>1
      <4>3. CASE j = n + 1 /\ i \in 1..n
        <5>1. out[i] \in ToSet(out) /\ out[i] = x
          BY <2>4, <3>1, <4>3 DEF ToSet
        <5> QED
          BY <1>3, <2>6, <5>1
      <4> QED
        BY <2>3, <3>1, <4>1, <4>2, <4>3
    <3> QED
      BY <2>4, <3>1 DEF IsInjective
  <2>7. AddNew(st, x) \in Gathered(X)
    BY <1>1, <2>2, <2>4 DEF Gathered
  <2> QED
    BY <1>1, <1>3, <2>2, <2>5, <2>6, <2>7
<1> QED
  BY <1>2, <1>3

\* The states of AddAll.
LEMMA AddAllStates ==
    ASSUME NEW X, NEW st \in Gathered(X), NEW xs \in Seq(X)
    PROVE  \E f \in [0..Len(xs) -> Gathered(X)] :
              /\ f[0] = st
              /\ \A i \in 1..Len(xs) : f[i] = AddNew(f[i - 1], xs[i])
              /\ AddAll(st, xs) = f[Len(xs)]
<1> DEFINE Next1(f) == [i \in 0..Len(xs) |-> IF i = 0 THEN st ELSE AddNew(f[i - 1], xs[i])]
<1>1. PICK n \in Nat : n = Len(xs)
  OBVIOUS
<1>2. PICK step : step = [i \in 1..n |-> [x \in Gathered(X) |-> AddNew(x, xs[i])]]
  OBVIOUS
<1>3. st \in Gathered(X) /\ step \in [1..n -> [Gathered(X) -> Gathered(X)]]
  <2>1. st \in Gathered(X)
    OBVIOUS
  <2>2. ASSUME NEW i \in 1..n, NEW x \in Gathered(X) PROVE AddNew(x, xs[i]) \in Gathered(X)
    BY <1>1, AddNewExact
  <2> QED
    BY <1>2, <2>1, <2>2
<1>4. PICK g : Rounds(g, n, Gathered(X), st, step)
  BY <1>3, LoopHasStates
<1>5. g \in [0..n -> Gathered(X)] /\ g[0] = st
  BY <1>4 DEF Rounds
<1>6. ASSUME NEW i \in 1..n PROVE g[i] = AddNew(g[i - 1], xs[i])
  <2>1. g[i] = step[i][g[i - 1]] /\ g[i - 1] \in Gathered(X)
    BY <1>4, <1>5 DEF Rounds
  <2> QED
    BY <1>2, <2>1
<1>7. g = Next1(g)
  BY <1>1, <1>5, <1>6
<1>8. PICK f : f = CHOOSE x : x = Next1(x)
  OBVIOUS
<1>9. f = Next1(f)
  BY <1>7, <1>8, Zenon
<1>10. AddAll(st, xs) = f[Len(xs)]
  BY <1>8 DEF AddAll
<1>11. f[0] = st
  BY <1>1, <1>9
<1>12. ASSUME NEW i \in 1..n PROVE f[i] = AddNew(f[i - 1], xs[i])
  BY <1>1, <1>9
<1>13. f \in [0..n -> Gathered(X)]
  <2>1. ASSUME NEW i \in 1..n, f[i - 1] \in Gathered(X) PROVE f[i] \in Gathered(X)
    <3>1. PICK x \in Gathered(X) : x = f[i - 1]
      BY <2>1
    <3>2. step[i][x] = AddNew(x, xs[i]) /\ step[i][x] \in Gathered(X)
      BY <1>2, <1>3
    <3> QED
      BY <1>12, <3>1, <3>2
  <2>2. f = [i \in 0..n |-> f[i]]
    BY <1>1, <1>9
  <2> QED
    BY <1>3, <1>11, <2>1, <2>2, LoopStatesAre
<1> QED
  BY <1>1, <1>10, <1>11, <1>12, <1>13

\* AddAll adds what is new, each once.
LEMMA AddAllExact ==
    ASSUME NEW X, NEW st \in Gathered(X), NEW xs \in Seq(X)
    PROVE  /\ AddAll(st, xs) \in Gathered(X)
           /\ AddAll(st, xs).seen = st.seen \cup ToSet(xs)
           /\ ToSet(AddAll(st, xs).out) = ToSet(st.out) \cup (ToSet(xs) \ st.seen)
           /\ IsInjective(st.out) /\ ToSet(st.out) \subseteq st.seen
                 => /\ IsInjective(AddAll(st, xs).out)
                    /\ ToSet(AddAll(st, xs).out) \subseteq AddAll(st, xs).seen
<1>1. PICK n \in Nat : n = Len(xs)
  OBVIOUS
<1>2. PICK f \in [0..n -> Gathered(X)] :
        /\ f[0] = st /\ AddAll(st, xs) = f[n]
        /\ \A i \in 1..n : f[i] = AddNew(f[i - 1], xs[i])
  BY <1>1, AddAllStates
<1> DEFINE First(i) == {xs[j] : j \in 1..i}
           Done(i) == /\ f[i].seen = st.seen \cup First(i)
                      /\ ToSet(f[i].out) = ToSet(st.out) \cup (First(i) \ st.seen)
                      /\ IsInjective(st.out) /\ ToSet(st.out) \subseteq st.seen
                            => IsInjective(f[i].out) /\ ToSet(f[i].out) \subseteq f[i].seen
           P == {i \in 0..n : Done(i)}
<1>3. 0 \in P
  <2>1. First(0) = {}
    OBVIOUS
  <2> QED
    BY <1>2, <2>1
<1>4. ASSUME NEW i \in 1..n, i - 1 \in P PROVE i \in P
  <2>1. PICK b \in Gathered(X), x \in X : b = f[i - 1] /\ x = xs[i] /\ f[i] = AddNew(b, x)
    <3>1. i - 1 \in 0..n /\ i \in 1..n /\ i \in DOMAIN xs
      BY <1>1
    <3> QED
      BY <1>2, <3>1
  <2>2. First(i) = First(i - 1) \cup {x}
    <3>1. \A j \in 1..i : j \in 1..(i - 1) \/ j = i
      OBVIOUS
    <3>2. \A j \in 1..(i - 1) : j \in 1..i
      OBVIOUS
    <3>3. i \in 1..i
      OBVIOUS
    <3> QED
      BY <2>1, <3>1, <3>2, <3>3
  <2>3. PICK F, G : F = First(i - 1) /\ G = First(i) /\ G = F \cup {x}
    BY <2>2
  <2>4. /\ b.seen = st.seen \cup F
        /\ ToSet(b.out) = ToSet(st.out) \cup (F \ st.seen)
        /\ IsInjective(st.out) /\ ToSet(st.out) \subseteq st.seen
              => IsInjective(b.out) /\ ToSet(b.out) \subseteq b.seen
    BY <1>4, <2>1, <2>3
  <2>5. PICK a : a = AddNew(b, x)
    OBVIOUS
  <2>6. /\ a.seen = b.seen \cup {x}
        /\ ToSet(a.out) = ToSet(b.out) \cup ({x} \ b.seen)
        /\ IsInjective(b.out) /\ ToSet(b.out) \subseteq b.seen
                 => IsInjective(a.out) /\ ToSet(a.out) \subseteq b.seen \cup {x}
    BY <2>5, AddNewExact
  <2>7. /\ a.seen = st.seen \cup G
        /\ ToSet(a.out) = ToSet(st.out) \cup (G \ st.seen)
        /\ IsInjective(st.out) /\ ToSet(st.out) \subseteq st.seen
              => IsInjective(a.out) /\ ToSet(a.out) \subseteq a.seen
    BY <2>3, <2>4, <2>6
  <2>8. Done(i)
    BY <2>1, <2>3, <2>5, <2>7
  <2> QED
    BY <2>8
<1>5. \A i \in 0..n : i \in P
  <2> HIDE DEF P
  <2> QED
    BY <1>3, <1>4, IndexInduction
<1>6. Done(n) /\ f[n] \in Gathered(X)
  BY <1>2, <1>5
<1>7. First(n) = ToSet(xs)
  BY <1>1 DEF ToSet
<1> QED
  BY <1>2, <1>6, <1>7

\* The states of Collect.
LEMMA CollectStates ==
    ASSUME NEW X, NEW chain, NEW list, Len(chain) \in Nat,
           \A i \in 1..Len(chain) : chain[i][list] \in Seq(X)
    PROVE  \E f \in [0..Len(chain) -> Gathered(X)] :
              /\ f[0] = [seen |-> {}, out |-> <<>>]
              /\ \A i \in 1..Len(chain) : f[i] = AddAll(f[i - 1], chain[i][list])
              /\ Collect(chain, list) = f[Len(chain)]
<1> DEFINE Next1(f) == [i \in 0..Len(chain) |->
                          IF i = 0 THEN [seen |-> {}, out |-> <<>>] ELSE AddAll(f[i - 1], chain[i][list])]
<1>1. PICK n \in Nat : n = Len(chain)
  OBVIOUS
<1>2. PICK step : step = [i \in 1..n |-> [x \in Gathered(X) |-> AddAll(x, chain[i][list])]]
  OBVIOUS
<1>3. [seen |-> {}, out |-> <<>>] \in Gathered(X) /\ step \in [1..n -> [Gathered(X) -> Gathered(X)]]
  <2>1. [seen |-> {}, out |-> <<>>] \in Gathered(X)
    BY DEF Gathered
  <2>2. ASSUME NEW i \in 1..n, NEW x \in Gathered(X) PROVE AddAll(x, chain[i][list]) \in Gathered(X)
    BY <1>1, AddAllExact
  <2> QED
    BY <1>2, <2>1, <2>2
<1>4. PICK g : Rounds(g, n, Gathered(X), [seen |-> {}, out |-> <<>>], step)
  BY <1>3, LoopHasStates
<1>5. g \in [0..n -> Gathered(X)] /\ g[0] = [seen |-> {}, out |-> <<>>]
  BY <1>4 DEF Rounds
<1>6. ASSUME NEW i \in 1..n PROVE g[i] = AddAll(g[i - 1], chain[i][list])
  <2>1. g[i] = step[i][g[i - 1]] /\ g[i - 1] \in Gathered(X)
    BY <1>4, <1>5 DEF Rounds
  <2> QED
    BY <1>2, <2>1
<1>7. g = Next1(g)
  BY <1>1, <1>5, <1>6
<1>8. PICK f : f = CHOOSE x : x = Next1(x)
  OBVIOUS
<1>9. f = Next1(f)
  BY <1>7, <1>8, Zenon
<1>10. Collect(chain, list) = f[Len(chain)]
  BY <1>8 DEF Collect
<1>11. f[0] = [seen |-> {}, out |-> <<>>]
  BY <1>1, <1>9
<1>12. ASSUME NEW i \in 1..n PROVE f[i] = AddAll(f[i - 1], chain[i][list])
  <2>1. i \in 0..Len(chain) /\ i # 0
    BY <1>1
  <2> QED
    BY <1>9, <2>1, Zenon
<1>13. f \in [0..n -> Gathered(X)]
  <2>1. ASSUME NEW i \in 1..n, f[i - 1] \in Gathered(X) PROVE f[i] \in Gathered(X)
    <3>1. PICK x \in Gathered(X) : x = f[i - 1]
      BY <2>1
    <3>2. step[i][x] = AddAll(x, chain[i][list]) /\ step[i][x] \in Gathered(X)
      BY <1>2, <1>3
    <3> QED
      BY <1>12, <3>1, <3>2
  <2>2. f = [i \in 0..n |-> f[i]]
    BY <1>1, <1>9
  <2> QED
    BY <1>3, <1>11, <2>1, <2>2, LoopStatesAre
<1> QED
  BY <1>1, <1>10, <1>11, <1>12, <1>13

\* Collect yields what is in the lists of the chain, each once.
LEMMA CollectExact ==
    ASSUME NEW X, NEW chain, NEW list, Len(chain) \in Nat,
           \A i \in 1..Len(chain) : chain[i][list] \in Seq(X)
    PROVE  /\ Collect(chain, list) \in Gathered(X)
           /\ Collect(chain, list).seen = UNION {ToSet(chain[i][list]) : i \in 1..Len(chain)}
           /\ ToSet(Collect(chain, list).out) = Collect(chain, list).seen
           /\ IsInjective(Collect(chain, list).out)
<1>1. PICK n \in Nat : n = Len(chain)
  OBVIOUS
<1>2. PICK f \in [0..n -> Gathered(X)] :
        /\ f[0] = [seen |-> {}, out |-> <<>>] /\ Collect(chain, list) = f[n]
        /\ \A i \in 1..n : f[i] = AddAll(f[i - 1], chain[i][list])
  BY <1>1, CollectStates
<1> DEFINE First(i) == UNION {ToSet(chain[j][list]) : j \in 1..i}
           Done(i) == f[i].seen = First(i) /\ ToSet(f[i].out) = First(i) /\ IsInjective(f[i].out)
           P == {i \in 0..n : Done(i)}
<1>3. 0 \in P
  <2>1. First(0) = {}
    OBVIOUS
  <2>2. f[0].seen = {} /\ f[0].out = <<>>
    BY <1>2
  <2>3. ToSet(<<>>) = {} /\ IsInjective(<<>>)
    BY DEF ToSet, IsInjective
  <2> QED
    BY <2>1, <2>2, <2>3
<1>4. ASSUME NEW i \in 1..n, i - 1 \in P PROVE i \in P
  <2>1. PICK b \in Gathered(X), x \in Seq(X) : b = f[i - 1] /\ x = chain[i][list] /\ f[i] = AddAll(b, x)
    <3>1. i - 1 \in 0..n /\ i \in 1..n
      BY <1>1
    <3> QED
      BY <1>1, <1>2, <3>1
  <2>2. First(i) = First(i - 1) \cup ToSet(x)
    <3>1. \A j \in 1..i : j \in 1..(i - 1) \/ j = i
      OBVIOUS
    <3>2. \A j \in 1..(i - 1) : j \in 1..i
      OBVIOUS
    <3>3. i \in 1..i
      OBVIOUS
    <3> QED
      BY <2>1, <3>1, <3>2, <3>3
  <2>3. PICK F, G : F = First(i - 1) /\ G = First(i) /\ G = F \cup ToSet(x)
    BY <2>2
  <2>4. b.seen = F /\ ToSet(b.out) = F /\ IsInjective(b.out)
    BY <1>4, <2>1, <2>3
  <2>5. PICK a : a = AddAll(b, x)
    OBVIOUS
  <2>6. a.seen = F \cup ToSet(x) /\ ToSet(a.out) = F \cup (ToSet(x) \ F) /\ IsInjective(a.out)
    BY <2>4, <2>5, AddAllExact
  <2>7. a.seen = G /\ ToSet(a.out) = G /\ IsInjective(a.out)
    BY <2>3, <2>6
  <2>8. Done(i)
    BY <2>1, <2>3, <2>5, <2>7
  <2> QED
    BY <2>8
<1>5. \A i \in 0..n : i \in P
  <2> HIDE DEF P
  <2> QED
    BY <1>3, <1>4, IndexInduction
<1>6. Done(n) /\ f[n] \in Gathered(X)
  BY <1>2, <1>5
<1> QED
  BY <1>1, <1>2, <1>6

\* The roles there are, and what the walk along them goes through.
Known(table) == {table[id] : id \in DOMAIN table} \cup {Builtin[id] : id \in DOMAIN Builtin}
Climbing(table, id) == [met : Seq(Known(table)), next : {id} \cup {r.parent : r \in Known(table)}]

\* The lists of a role hold permissions and entries.
LEMMA KnownRoles ==
    ASSUME NEW table, SoundTable(table), NEW r \in Known(table)
    PROVE  r.perms \in Seq(Perms) /\ r.access \in Seq(Entries)
<1>1. CASE \E id \in DOMAIN table : r = table[id]
  BY <1>1 DEF SoundTable
<1>2. CASE \E id \in DOMAIN Builtin : r = Builtin[id]
  <2>1. PICK id \in DOMAIN Builtin : r = Builtin[id]
    BY <1>2
  <2>2. id = "admin" \/ id = "developer" \/ id = "readonly"
    BY DEF Builtin
  <2>3. Admin \in Perms /\ List \in Perms /\ Query \in Perms /\ Exec \in Perms /\ "jobs:list" \in Perms
    BY DEF Perms, Text, List, Query, Exec
  <2>4. <<Admin>> \in Seq(Perms) /\ <<List, Query, Exec, "jobs:list">> \in Seq(Perms) /\ <<List, Query>> \in Seq(Perms)
    <3> HIDE DEF Perms
    <3> QED
      BY <2>3
  <2>5. <<>> \in Seq(Entries)
    OBVIOUS
  <2>6. CASE id = "admin"
    <3>1. r = [perms |-> <<Admin>>, access |-> <<>>, parent |-> ""]
      BY <2>1, <2>6 DEF Builtin
    <3> QED
      BY <2>4, <2>5, <3>1
  <2>7. CASE id = "developer"
    <3>1. r = [perms |-> <<List, Query, Exec, "jobs:list">>, access |-> <<>>, parent |-> ""]
      BY <2>1, <2>7 DEF Builtin
    <3> QED
      BY <2>4, <2>5, <3>1
  <2>8. CASE id = "readonly"
    <3>1. r = [perms |-> <<List, Query>>, access |-> <<>>, parent |-> ""]
      BY <2>1, <2>8 DEF Builtin
    <3> QED
      BY <2>4, <2>5, <3>1
  <2> QED
    BY <2>2, <2>6, <2>7, <2>8
<1> QED
  BY <1>1, <1>2 DEF Known

\* A role that is found is one of those there are.
LEMMA LookupKnown ==
    ASSUME NEW table, NEW id
    PROVE  Lookup(table, id) = <<>> \/ \E r \in Known(table) : Lookup(table, id) = <<r>>
  BY DEF Lookup, Known

\* So the walk goes on with roles.
LEMMA ClimbGoes ==
    ASSUME NEW table, NEW id, NEW st \in Climbing(table, id)
    PROVE  Climb(table, st) \in Climbing(table, id)
<1>1. CASE Lookup(table, st.next) = <<>>
  BY <1>1 DEF Climb
<1>2. ASSUME NEW r \in Known(table), Lookup(table, st.next) = <<r>>
      PROVE  Climb(table, st) \in Climbing(table, id)
  <2>1. Climb(table, st) = [met |-> st.met \o <<r>>, next |-> r.parent]
    BY <1>2 DEF Climb
  <2>2. st.met \in Seq(Known(table))
    BY DEF Climbing
  <2>3. st.met \o <<r>> \in Seq(Known(table))
    BY <2>2
  <2>4. r.parent \in {id} \cup {x.parent : x \in Known(table)}
    OBVIOUS
  <2> QED
    BY <2>1, <2>3, <2>4 DEF Climbing
<1> QED
  BY <1>1, <1>2, LookupKnown

\* There are finitely many.
LEMMA FiniteRoles ==
    ASSUME NEW table, SoundTable(table)
    PROVE  Cardinality(DOMAIN table \cup DOMAIN Builtin) \in Nat
<1>1. DOMAIN Builtin = {"admin", "developer", "readonly"}
  BY DEF Builtin
<1>2. IsFiniteSet({"admin", "developer", "readonly"})
  <2>1. IsFiniteSet({"admin"})
    BY FS_Singleton
  <2>2. {"admin"} \cup {"developer"} = {"admin", "developer"}
    OBVIOUS
  <2>3. {"admin", "developer"} \cup {"readonly"} = {"admin", "developer", "readonly"}
    OBVIOUS
  <2>4. IsFiniteSet({"admin", "developer"})
    BY <2>1, <2>2, FS_AddElement, Zenon
  <2> QED
    BY <2>3, <2>4, FS_AddElement, Zenon
<1> QED
  BY <1>1, <1>2, FS_Union, FS_CardinalityType DEF SoundTable

\* The states of the walk.
LEMMA WalkStates ==
    ASSUME NEW table, NEW id, SoundTable(table)
    PROVE  Walk(table, id) \in Climbing(table, id)
<1> DEFINE Next1(f) == [i \in 0..Cardinality(DOMAIN table \cup DOMAIN Builtin) |->
                          IF i = 0 THEN [met |-> <<>>, next |-> id] ELSE Climb(table, f[i - 1])]
<1>1. PICK n \in Nat : n = Cardinality(DOMAIN table \cup DOMAIN Builtin)
  BY FiniteRoles
<1>2. PICK step : step = [i \in 1..n |-> [x \in Climbing(table, id) |-> Climb(table, x)]]
  OBVIOUS
<1>3. [met |-> <<>>, next |-> id] \in Climbing(table, id) /\ step \in [1..n -> [Climbing(table, id) -> Climbing(table, id)]]
  <2>1. [met |-> <<>>, next |-> id] \in Climbing(table, id)
    BY DEF Climbing
  <2>2. ASSUME NEW i \in 1..n, NEW x \in Climbing(table, id) PROVE Climb(table, x) \in Climbing(table, id)
    BY ClimbGoes
  <2> QED
    BY <1>2, <2>1, <2>2
<1>4. PICK g : Rounds(g, n, Climbing(table, id), [met |-> <<>>, next |-> id], step)
  BY <1>3, LoopHasStates
<1>5. g \in [0..n -> Climbing(table, id)] /\ g[0] = [met |-> <<>>, next |-> id]
  BY <1>4 DEF Rounds
<1>6. ASSUME NEW i \in 1..n PROVE g[i] = Climb(table, g[i - 1])
  <2>1. g[i] = step[i][g[i - 1]] /\ g[i - 1] \in Climbing(table, id)
    BY <1>4, <1>5 DEF Rounds
  <2> QED
    BY <1>2, <2>1
<1>7. g = Next1(g)
  <2>1. g = [i \in 0..n |-> IF i = 0 THEN [met |-> <<>>, next |-> id] ELSE Climb(table, g[i - 1])]
    BY <1>5, <1>6
  <2> QED
    BY <1>1, <2>1, Zenon
<1>8. PICK f : f = CHOOSE x : x = Next1(x)
  OBVIOUS
<1>9. f = Next1(f)
  BY <1>7, <1>8, Zenon
<1>10. Walk(table, id) = f[Cardinality(DOMAIN table \cup DOMAIN Builtin)]
  BY <1>8 DEF Walk
<1>11. f[0] = [met |-> <<>>, next |-> id]
  BY <1>1, <1>9
<1>12. ASSUME NEW i \in 1..n PROVE f[i] = Climb(table, f[i - 1])
  <2>1. i \in 0..Cardinality(DOMAIN table \cup DOMAIN Builtin) /\ i # 0
    BY <1>1
  <2> QED
    BY <1>9, <2>1, Zenon
<1>13. f \in [0..n -> Climbing(table, id)]
  <2>1. ASSUME NEW i \in 1..n, f[i - 1] \in Climbing(table, id) PROVE f[i] \in Climbing(table, id)
    <3>1. PICK x \in Climbing(table, id) : x = f[i - 1]
      BY <2>1
    <3>2. step[i][x] = Climb(table, x) /\ step[i][x] \in Climbing(table, id)
      BY <1>2, <1>3
    <3> QED
      BY <1>12, <3>1, <3>2
  <2>2. f = [i \in 0..n |-> f[i]]
    BY <1>1, <1>9
  <2> QED
    BY <1>3, <1>11, <2>1, <2>2, LoopStatesAre
<1>14. n \in 0..n /\ Walk(table, id) = f[n]
  BY <1>1, <1>10
<1> QED
  BY <1>13, <1>14

\* A chain is a sequence of roles.
LEMMA ChainOfRoles ==
    ASSUME NEW table, NEW id, SoundTable(table)
    PROVE  /\ Chain(table, id) \in Seq(Known(table))
           /\ \A i \in 1..Len(Chain(table, id)) :
                 /\ Chain(table, id)[i] \in Known(table)
                 /\ Chain(table, id)[i].perms \in Seq(Perms)
                 /\ Chain(table, id)[i].access \in Seq(Entries)
<1>1. Chain(table, id) \in Seq(Known(table))
  <2>1. Walk(table, id) \in Climbing(table, id)
    BY WalkStates
  <2> QED
    BY <2>1 DEF Climbing, Chain
<1>2. PICK chain \in Seq(Known(table)) : chain = Chain(table, id)
  BY <1>1
<1>3. ASSUME NEW i \in 1..Len(chain)
      PROVE  chain[i] \in Known(table) /\ chain[i].perms \in Seq(Perms) /\ chain[i].access \in Seq(Entries)
  <2>1. chain[i] \in Known(table)
    OBVIOUS
  <2> QED
    BY <2>1, KnownRoles
<1> QED
  BY <1>1, <1>2, <1>3

\* Below the first role with the admin permission, if there is one.
LEMMA FirstAdmin ==
    ASSUME NEW chain, Len(chain) \in Nat, NEW top,
           top = SelectInSeq(chain, LAMBDA r : Contains(r.perms, Admin))
    PROVE  \/ top = 0 /\ \A i \in 1..Len(chain) : ~Contains(chain[i].perms, Admin)
           \/ /\ top \in 1..Len(chain) /\ Contains(chain[top].perms, Admin)
              /\ \A i \in 1..(top - 1) : ~Contains(chain[i].perms, Admin)
<1> DEFINE I == {i \in 1..Len(chain) : Contains(chain[i].perms, Admin)}
<1>1. top = IF I # {} THEN Min(I) ELSE 0
  BY DEF SelectInSeq
<1>2. CASE I = {}
  BY <1>1, <1>2
<1>3. CASE I # {}
  <2>1. I \subseteq Nat
    OBVIOUS
  <2>2. top \in I /\ \A y \in I : top <= y
    <3> HIDE DEF I
    <3> QED
      BY <1>1, <1>3, <2>1, MinOfNumbers
  <2>3. ASSUME NEW i \in 1..(top - 1) PROVE ~Contains(chain[i].perms, Admin)
    <3>1. i \in 1..Len(chain) /\ ~(top <= i)
      BY <2>2
    <3> QED
      BY <2>2, <3>1
  <2> QED
    BY <2>2, <2>3
<1> QED
  BY <1>2, <1>3

\* The walk over the roles yields just what the chain and the extras hold.
LEMMA EffectiveIsExact ==
    ASSUME NEW table, NEW id, NEW extra \in Seq(Perms), SoundTable(table)
    PROVE  EffectiveExact(table, id, extra) /\ GetEffectivePerms(table, id, extra) \in Seq(Perms)
<1>1. PICK chain : /\ chain = Chain(table, id) /\ chain \in Seq(Known(table))
                   /\ \A i \in 1..Len(chain) : chain[i].perms \in Seq(Perms)
  BY ChainOfRoles
<1>2. PICK n \in Nat : n = Len(chain) /\ DOMAIN chain = 1..n
  BY <1>1
<1>3. PICK top : top = SelectInSeq(chain, LAMBDA r : Contains(r.perms, Admin))
  OBVIOUS
<1> DEFINE Met(m) == UNION {ToSet(chain[i].perms) : i \in 1..m}
<1>4. PICK Below :
        /\ Below = {i \in DOMAIN chain : \A j \in 1..i : ~Contains(chain[j].perms, Admin)}
        /\ EffectiveSet(table, id, extra) =
              IF Below = DOMAIN chain THEN (UNION {ToSet(chain[i].perms) : i \in Below}) \cup ToSet(extra)
              ELSE {Admin} \cup (ToSet(extra) \ UNION {ToSet(chain[i].perms) : i \in Below})
  <2> DEFINE B(c) == {i \in DOMAIN c : \A j \in 1..i : ~Contains(c[j].perms, Admin)}
             E(c) == IF B(c) = DOMAIN c THEN (UNION {ToSet(c[i].perms) : i \in B(c)}) \cup ToSet(extra)
                     ELSE {Admin} \cup (ToSet(extra) \ UNION {ToSet(c[i].perms) : i \in B(c)})
  <2>1. EffectiveSet(table, id, extra) = E(Chain(table, id))
    BY DEF EffectiveSet
  <2>2. EffectiveSet(table, id, extra) = E(chain)
    <3> HIDE DEF E
    <3> QED
      BY <1>1, <2>1
  <2>3. PICK b : b = B(chain)
    OBVIOUS
  <2> QED
    BY <2>2, <2>3, Zenon
<1>5. CASE top = 0
  <2>1. Below = 1..n
    <3>1. \A i \in 1..n : ~Contains(chain[i].perms, Admin)
      <4>1. Len(chain) \in Nat /\ ~(top \in 1..Len(chain))
        BY <1>2, <1>5
      <4>2. \A i \in 1..Len(chain) : ~Contains(chain[i].perms, Admin)
        BY <1>3, <4>1, FirstAdmin
      <4> QED
        BY <1>2, <4>2
    <3>2. \A i \in 1..n : \A j \in 1..i : j \in 1..n
      OBVIOUS
    <3> QED
      BY <1>2, <1>4, <3>1, <3>2
  <2>2. PICK own : own = Collect(chain, "perms")
    OBVIOUS
  <2>3. own \in Gathered(Perms) /\ own.seen = Met(n) /\ ToSet(own.out) = own.seen
    BY <1>1, <1>2, <2>2, CollectExact
  <2>4. GetEffectivePerms(table, id, extra) = AddAll(own, extra).out
    BY <1>1, <1>3, <1>5, <2>2 DEF GetEffectivePerms
  <2>5. /\ AddAll(own, extra) \in Gathered(Perms)
        /\ ToSet(AddAll(own, extra).out) = ToSet(own.out) \cup (ToSet(extra) \ own.seen)
    BY <2>3, AddAllExact
  <2>6. AddAll(own, extra).out \in Seq(Perms)
    BY <2>5 DEF Gathered
  <2>7. EffectiveSet(table, id, extra) = Met(n) \cup ToSet(extra)
    <3>1. UNION {ToSet(chain[i].perms) : i \in Below} = Met(n)
      BY <2>1, Zenon
    <3> QED
      BY <1>2, <1>4, <2>1, <3>1
  <2>8. ToSet(AddAll(own, extra).out) = Met(n) \cup ToSet(extra)
    BY <2>3, <2>5
  <2> QED
    BY <2>4, <2>6, <2>7, <2>8 DEF EffectiveExact
<1>6. CASE top # 0
  <2>1. /\ top \in 1..n /\ Contains(chain[top].perms, Admin)
        /\ \A i \in 1..(top - 1) : ~Contains(chain[i].perms, Admin)
    BY <1>2, <1>3, <1>6, FirstAdmin
  <2>2. Below = 1..(top - 1) /\ Below # 1..n
    <3>1. ASSUME NEW i \in 1..n PROVE i \in Below <=> i \in 1..(top - 1)
      <4>1. CASE i < top
        <5>1. \A j \in 1..i : j \in 1..(top - 1)
          BY <2>1, <4>1
        <5> QED
          BY <1>2, <1>4, <2>1, <4>1, <5>1
      <4>2. CASE ~(i < top)
        <5>1. top \in 1..i
          BY <2>1, <4>2
        <5> QED
          BY <1>2, <1>4, <2>1, <4>2, <5>1
      <4> QED
        BY <2>1, <4>1, <4>2
    <3>2. \A i \in 1..(top - 1) : i \in 1..n
      BY <2>1
    <3>3. top \notin 1..(top - 1)
      BY <2>1
    <3>4. Below \subseteq 1..n
      BY <1>2, <1>4
    <3> QED
      BY <2>1, <3>1, <3>2, <3>3, <3>4
  <2>3. PICK walked : walked = SubSeq(chain, 1, top - 1)
    OBVIOUS
  <2>4. /\ Len(walked) = top - 1 /\ Len(walked) \in Nat
        /\ \A i \in 1..Len(walked) : walked[i] = chain[i] /\ chain[i].perms \in Seq(Perms)
    BY <1>1, <1>2, <2>1, <2>3
  <2>5. PICK own : own = Collect(walked, "perms")
    OBVIOUS
  <2>6. own \in Gathered(Perms) /\ own.seen = UNION {ToSet(walked[i].perms) : i \in 1..Len(walked)}
    BY <2>4, <2>5, CollectExact
  <2>7. own.seen = Met(top - 1)
    BY <2>4, <2>6
  <2>8. PICK st : st = [own EXCEPT !.out = <<Admin>>]
    OBVIOUS
  <2>9. st \in Gathered(Perms) /\ st.seen = own.seen /\ ToSet(st.out) = {Admin}
    <3>1. <<Admin>> \in Seq(Perms)
      <4>1. Admin \in Perms
        BY DEF Perms
      <4> QED
        BY <4>1
    <3>2. ToSet(<<Admin>>) = {Admin}
      BY DEF ToSet
    <3> QED
      BY <2>6, <2>8, <3>1, <3>2 DEF Gathered
  <2>10. GetEffectivePerms(table, id, extra) = AddAll(st, extra).out
    BY <1>1, <1>3, <1>6, <2>3, <2>5, <2>8 DEF GetEffectivePerms
  <2>11. /\ AddAll(st, extra) \in Gathered(Perms)
         /\ ToSet(AddAll(st, extra).out) = {Admin} \cup (ToSet(extra) \ Met(top - 1))
    BY <2>7, <2>9, AddAllExact
  <2>12. AddAll(st, extra).out \in Seq(Perms)
    BY <2>11 DEF Gathered
  <2>13. EffectiveSet(table, id, extra) = {Admin} \cup (ToSet(extra) \ Met(top - 1))
    BY <1>2, <1>4, <2>2
  <2> QED
    BY <2>10, <2>11, <2>12, <2>13 DEF EffectiveExact
<1> QED
  BY <1>5, <1>6

\* Two sequences one after the other.
LEMMA Joined ==
    ASSUME NEW X, NEW u \in Seq(X), NEW v \in Seq(X)
    PROVE  u \o v \in Seq(X) /\ Len(u \o v) = Len(u) + Len(v)
  OBVIOUS

\* RemoveFirst of a list in which everything is once takes the element out.
LEMMA RemoveFirstExact ==
    ASSUME NEW X, NEW s \in Seq(X), NEW e
    PROVE  /\ RemoveFirst(s, e) \in Seq(X)
           /\ IsInjective(s) => /\ ToSet(RemoveFirst(s, e)) = ToSet(s) \ {e}
                                /\ IsInjective(RemoveFirst(s, e))
<1>1. PICK n \in Nat : n = Len(s) /\ DOMAIN s = 1..n
  OBVIOUS
<1>2. CASE ~ \E i \in 1..n : s[i] = e
  <2>1. RemoveFirst(s, e) = s
    BY <1>1, <1>2 DEF RemoveFirst
  <2>2. e \notin ToSet(s)
    BY <1>1, <1>2 DEF ToSet
  <2> QED
    BY <2>1, <2>2
<1>3. CASE \E i \in 1..n : s[i] = e
  <2> DEFINE I == {i \in 1..n : s[i] = e}
  <2>1. PICK k : k = Min(I)
    OBVIOUS
  <2>2. k \in I
    <3>1. I \subseteq Nat /\ I # {}
      BY <1>3
    <3> HIDE DEF I
    <3> QED
      BY <2>1, <3>1, MinOfNumbers
  <2>3. RemoveFirst(s, e) = SubSeq(s, 1, k - 1) \o SubSeq(s, k + 1, Len(s))
    BY <1>1, <1>3, <2>1 DEF RemoveFirst, RemoveAt, SelectInSeq
  <2>4. PICK t : t = SubSeq(s, 1, k - 1) \o SubSeq(s, k + 1, Len(s))
    OBVIOUS
  <2>5. /\ t \in Seq(X) /\ DOMAIN t = 1..(n - 1)
        /\ \A i \in 1..(n - 1) : t[i] = IF i < k THEN s[i] ELSE s[i + 1]
    <3>1. k \in 1..n
      BY <2>2
    <3>2. PICK u, v : u = SubSeq(s, 1, k - 1) /\ v = SubSeq(s, k + 1, n)
      OBVIOUS
    <3>3. /\ u \in Seq(X) /\ Len(u) = k - 1 /\ \A i \in 1..(k - 1) : u[i] = s[i]
      BY <1>1, <3>1, <3>2
    <3>4. /\ v \in Seq(X) /\ Len(v) = n - k /\ \A i \in 1..(n - k) : v[i] = s[k + i]
      BY <1>1, <3>1, <3>2
    <3>5. t = u \o v
      BY <1>1, <2>4, <3>2
    <3>6. t \in Seq(X) /\ Len(t) = n - 1
      <4>1. t \in Seq(X) /\ Len(t) = Len(u) + Len(v)
        BY <3>3, <3>4, <3>5, Joined
      <4> QED
        BY <3>1, <3>3, <3>4, <4>1
    <3>7. ASSUME NEW i \in 1..(n - 1) PROVE t[i] = IF i < k THEN s[i] ELSE s[i + 1]
      <4>1. CASE i < k
        BY <3>1, <3>3, <3>4, <3>5, <4>1
      <4>2. CASE ~(i < k)
        <5>0. i - (k - 1) \in 1..(n - k) /\ i \in 1..(Len(u) + Len(v)) /\ ~(i <= Len(u)) /\ i - Len(u) = i - (k - 1)
          BY <3>1, <3>3, <3>4, <4>2
        <5>1. t[i] = v[i - (k - 1)] /\ i - (k - 1) \in 1..(n - k)
          BY <3>3, <3>4, <3>5, <5>0
        <5>2. k + (i - (k - 1)) = i + 1
          BY <3>1
        <5> QED
          BY <3>4, <4>2, <5>1, <5>2
      <4> QED
        BY <4>1, <4>2
    <3> QED
      BY <3>6, <3>7
  <2>6. ASSUME IsInjective(s) PROVE ToSet(t) = ToSet(s) \ {e} /\ IsInjective(t)
    <3>0. k \in 1..n /\ s[k] = e
      BY <2>2
    <3>1. \A i, j \in 1..n : s[i] = s[j] => i = j
      BY <1>1, <2>6 DEF IsInjective
    <3> DEFINE At(i) == IF i < k THEN i ELSE i + 1
    <3>2. \A i \in 1..(n - 1) : At(i) \in 1..n /\ At(i) # k /\ t[i] = s[At(i)]
      BY <2>5, <3>0
    <3>3. \A i, j \in 1..(n - 1) : At(i) = At(j) => i = j
      BY <3>0
    <3>4. IsInjective(t)
      <4> HIDE DEF At
      <4> QED
        BY <2>5, <3>1, <3>2, <3>3 DEF IsInjective
    <3>5. \A j \in 1..n : j # k => \E i \in 1..(n - 1) : At(i) = j
      <4>1. ASSUME NEW j \in 1..n, j # k PROVE \E i \in 1..(n - 1) : At(i) = j
        <5>1. CASE j < k
          <6>1. j \in 1..(n - 1) /\ At(j) = j
            BY <3>0, <5>1
          <6> QED
            BY <6>1
        <5>2. CASE ~(j < k)
          <6>1. j - 1 \in 1..(n - 1) /\ At(j - 1) = j
            BY <3>0, <4>1, <5>2
          <6> QED
            BY <6>1
        <5> QED
          BY <5>1, <5>2
      <4> QED
        BY <4>1
    <3>6. ToSet(t) = ToSet(s) \ {e}
      <4>1. \A i \in 1..(n - 1) : t[i] \in ToSet(s) /\ t[i] # e
        <5> HIDE DEF At
        <5> QED
          BY <1>1, <3>0, <3>1, <3>2 DEF ToSet
      <4>2. ASSUME NEW j \in 1..n, s[j] # e PROVE s[j] \in ToSet(t)
        <5>1. PICK i \in 1..(n - 1) : At(i) = j
          BY <3>0, <3>5, <4>2
        <5>2. t[i] = s[j]
          BY <3>2, <5>1
        <5> QED
          BY <2>5, <5>2 DEF ToSet
      <4> QED
        BY <1>1, <2>5, <4>1, <4>2 DEF ToSet
    <3> QED
      BY <3>4, <3>6
  <2> QED
    BY <2>3, <2>4, <2>5, <2>6
<1> QED
  BY <1>2, <1>3

\* What an extra entry does.
LEMMA OverrideExact ==
    ASSUME NEW st \in Gathered(Entries), NEW e \in Entries
    PROVE  /\ Override(st, e) \in Gathered(Entries)
           /\ Override(st, e).seen = st.seen \cup {e}
           /\ IsInjective(st.out) /\ ToSet(st.out) \subseteq st.seen
                 => /\ IsInjective(Override(st, e).out)
                    /\ ToSet(Override(st, e).out) = (ToSet(st.out) \ {Opposite[e]}) \cup ({e} \ st.seen)
                    /\ ToSet(Override(st, e).out) \subseteq st.seen \cup {e}
<1>1. PICK r : r = RemoveFirst(st.out, Opposite[e])
  OBVIOUS
<1>2. st.out \in Seq(Entries) /\ st.seen \subseteq Entries
  BY DEF Gathered
<1>3. /\ r \in Seq(Entries)
      /\ IsInjective(st.out) => ToSet(r) = ToSet(st.out) \ {Opposite[e]} /\ IsInjective(r)
  BY <1>1, <1>2, RemoveFirstExact
<1>4. PICK less : less = [st EXCEPT !.out = r]
  OBVIOUS
<1>5. less \in Gathered(Entries) /\ less.seen = st.seen /\ less.out = r
  BY <1>2, <1>3, <1>4 DEF Gathered
<1>6. Override(st, e) = AddNew(less, e)
  BY <1>1, <1>4 DEF Override
<1>7. /\ AddNew(less, e) \in Gathered(Entries)
      /\ AddNew(less, e).seen = less.seen \cup {e}
      /\ ToSet(AddNew(less, e).out) = ToSet(less.out) \cup ({e} \ less.seen)
      /\ IsInjective(less.out) /\ ToSet(less.out) \subseteq less.seen
            => IsInjective(AddNew(less, e).out) /\ ToSet(AddNew(less, e).out) \subseteq less.seen \cup {e}
  BY <1>5, AddNewExact
<1> QED
  BY <1>3, <1>5, <1>6, <1>7

\* What the roles of a chain say of connections.
LEMMA OwnExact ==
    ASSUME NEW table, NEW id, SoundTable(table)
    PROVE  /\ Collect(Chain(table, id), "access") \in Gathered(Entries)
           /\ Collect(Chain(table, id), "access").seen = OwnAccess(table, id)
           /\ ToSet(Collect(Chain(table, id), "access").out) = OwnAccess(table, id)
           /\ IsInjective(Collect(Chain(table, id), "access").out)
<1>1. PICK chain : /\ chain = Chain(table, id) /\ chain \in Seq(Known(table))
                   /\ \A i \in 1..Len(chain) : chain[i].access \in Seq(Entries)
  BY ChainOfRoles
<1>2. PICK own : own = Collect(chain, "access")
  OBVIOUS
<1>3. Len(chain) \in Nat /\ DOMAIN chain = 1..Len(chain)
  BY <1>1
<1>4. /\ own \in Gathered(Entries) /\ ToSet(own.out) = own.seen /\ IsInjective(own.out)
      /\ own.seen = UNION {ToSet(chain[i].access) : i \in 1..Len(chain)}
  BY <1>1, <1>2, <1>3, CollectExact
<1>5. OwnAccess(table, id) = UNION {ToSet(r.access) : r \in ToSet(chain)}
  BY <1>1 DEF OwnAccess
<1>6. UNION {ToSet(chain[i].access) : i \in 1..Len(chain)} = UNION {ToSet(r.access) : r \in ToSet(chain)}
  BY <1>3 DEF ToSet
<1> QED
  BY <1>1, <1>2, <1>4, <1>5, <1>6

\* The states of the merge of the extra entries.
LEMMA AccessStates ==
    ASSUME NEW table, NEW id, NEW extra \in Seq(Entries), SoundTable(table)
    PROVE  \E f \in [0..Len(extra) -> Gathered(Entries)] :
              /\ f[0] = Collect(Chain(table, id), "access")
              /\ \A i \in 1..Len(extra) : f[i] = Override(f[i - 1], extra[i])
              /\ GetEffectiveDBAccess(table, id, extra) = f[Len(extra)].out
<1> DEFINE Next1(f) == [i \in 0..Len(extra) |->
                          IF i = 0 THEN Collect(Chain(table, id), "access") ELSE Override(f[i - 1], extra[i])]
<1>1. PICK n \in Nat : n = Len(extra)
  OBVIOUS
<1>2. PICK step : step = [i \in 1..n |-> [x \in Gathered(Entries) |-> Override(x, extra[i])]]
  OBVIOUS
<1>3. Collect(Chain(table, id), "access") \in Gathered(Entries) /\ step \in [1..n -> [Gathered(Entries) -> Gathered(Entries)]]
  <2>1. Collect(Chain(table, id), "access") \in Gathered(Entries)
    BY OwnExact
  <2>2. ASSUME NEW i \in 1..n, NEW x \in Gathered(Entries) PROVE Override(x, extra[i]) \in Gathered(Entries)
    BY <1>1, OverrideExact
  <2> QED
    BY <1>2, <2>1, <2>2
<1>4. PICK g : Rounds(g, n, Gathered(Entries), Collect(Chain(table, id), "access"), step)
  BY <1>3, LoopHasStates
<1>5. g \in [0..n -> Gathered(Entries)] /\ g[0] = Collect(Chain(table, id), "access")
  BY <1>4 DEF Rounds
<1>6. ASSUME NEW i \in 1..n PROVE g[i] = Override(g[i - 1], extra[i])
  <2>1. g[i] = step[i][g[i - 1]] /\ g[i - 1] \in Gathered(Entries)
    BY <1>4, <1>5 DEF Rounds
  <2> QED
    BY <1>2, <2>1
<1>7. g = Next1(g)
  BY <1>1, <1>5, <1>6
<1>8. PICK f : f = CHOOSE x : x = Next1(x)
  OBVIOUS
<1>9. f = Next1(f)
  BY <1>7, <1>8, Zenon
<1>10. GetEffectiveDBAccess(table, id, extra) = f[Len(extra)].out
  BY <1>8 DEF GetEffectiveDBAccess
<1>11. f[0] = Collect(Chain(table, id), "access")
  BY <1>1, <1>9
<1>12. ASSUME NEW i \in 1..n PROVE f[i] = Override(f[i - 1], extra[i])
  <2>1. i \in 0..Len(extra) /\ i # 0
    BY <1>1
  <2> QED
    BY <1>9, <2>1, Zenon
<1>13. f \in [0..n -> Gathered(Entries)]
  <2>1. ASSUME NEW i \in 1..n, f[i - 1] \in Gathered(Entries) PROVE f[i] \in Gathered(Entries)
    <3>1. PICK x \in Gathered(Entries) : x = f[i - 1]
      BY <2>1
    <3>2. step[i][x] = Override(x, extra[i]) /\ step[i][x] \in Gathered(Entries)
      BY <1>2, <1>3
    <3> QED
      BY <1>12, <3>1, <3>2
  <2>2. f = [i \in 0..n |-> f[i]]
    BY <1>1, <1>9
  <2> QED
    BY <1>3, <1>11, <2>1, <2>2, LoopStatesAre
<1> QED
  BY <1>1, <1>10, <1>11, <1>12, <1>13

\* The opposite of the opposite of an entry is the entry, which it is not.
LEMMA Opposites ==
    \A e \in Entries : /\ Opposite[e] \in Entries /\ Opposite[e] # e
                       /\ \A d \in Entries : Opposite[e] = d <=> e = Opposite[d]
<1>1. Entries = {"c1", "-c1", "c2", "-c2", "*", "-*"}
  BY DEF Entries, Opposite
<1>2. /\ Opposite["c1"] = "-c1" /\ Opposite["-c1"] = "c1" /\ Opposite["c2"] = "-c2"
      /\ Opposite["-c2"] = "c2" /\ Opposite["*"] = "-*" /\ Opposite["-*"] = "*"
  BY DEF Opposite
<1> QED
  BY <1>1, <1>2

\* The overrides leave just the entries that stand, each once.
LEMMA AccessStands ==
    ASSUME NEW table, NEW id, NEW extra \in Seq(Entries), SoundTable(table)
    PROVE  /\ GetEffectiveDBAccess(table, id, extra) \in Seq(Entries)
           /\ ToSet(GetEffectiveDBAccess(table, id, extra))
                 = {e \in Entries : Stands(OwnAccess(table, id), extra, e)}
           /\ IsInjective(GetEffectiveDBAccess(table, id, extra))
<1>1. PICK n \in Nat : n = Len(extra) /\ DOMAIN extra = 1..n
  OBVIOUS
<1>2. PICK f \in [0..n -> Gathered(Entries)] :
        /\ f[0] = Collect(Chain(table, id), "access")
        /\ \A i \in 1..n : f[i] = Override(f[i - 1], extra[i])
        /\ GetEffectiveDBAccess(table, id, extra) = f[n].out
  BY <1>1, AccessStates
<1>3. PICK own : own = OwnAccess(table, id)
  OBVIOUS
<1> DEFINE Stood(i, e) ==
             \/ e \in own /\ \A j \in 1..i : extra[j] # Opposite[e]
             \/ /\ e \notin own
                /\ \E k \in 1..i : /\ extra[k] = e
                                   /\ \A j \in 1..(k - 1) : extra[j] # e
                                   /\ \A j \in (k + 1)..i : extra[j] # Opposite[e]
           Met(i) == {extra[j] : j \in 1..i}
           Done(i) == /\ f[i].seen = own \cup Met(i) /\ IsInjective(f[i].out)
                      /\ ToSet(f[i].out) \subseteq f[i].seen
                      /\ ToSet(f[i].out) = {e \in Entries : Stood(i, e)}
           P == {i \in 0..n : Done(i)}
<1>4. 0 \in P
  <2>1. f[0].seen = own /\ ToSet(f[0].out) = own /\ IsInjective(f[0].out) /\ own \subseteq Entries
    BY <1>2, <1>3, OwnExact DEF Gathered
  <2>2. Met(0) = {} /\ \A e \in Entries : Stood(0, e) <=> e \in own
    OBVIOUS
  <2> HIDE DEF Stood, Met
  <2> QED
    BY <2>1, <2>2
<1>5. ASSUME NEW i \in 1..n, i - 1 \in P PROVE i \in P
  <2>1. PICK b \in Gathered(Entries), x \in Entries : b = f[i - 1] /\ x = extra[i] /\ f[i] = Override(b, x)
    <3>1. i - 1 \in 0..n /\ extra[i] \in Entries
      BY <1>1
    <3> QED
      BY <1>2, <3>1
  <2>2. PICK m : m = Met(i - 1)
    OBVIOUS
  <2>3. Met(i) = m \cup {x}
    <3>1. \A j \in 1..i : j \in 1..(i - 1) \/ j = i
      OBVIOUS
    <3>2. \A j \in 1..(i - 1) : j \in 1..i
      OBVIOUS
    <3>3. i \in 1..i
      OBVIOUS
    <3> QED
      BY <2>1, <2>2, <3>1, <3>2, <3>3
  <2>4. PICK B : B = {e \in Entries : Stood(i - 1, e)}
    OBVIOUS
  <2>5. b.seen = own \cup m /\ IsInjective(b.out) /\ ToSet(b.out) \subseteq b.seen /\ ToSet(b.out) = B
    BY <1>5, <2>1, <2>2, <2>4
  <2>6. PICK a : a = Override(b, x)
    OBVIOUS
  <2>7. /\ a.seen = own \cup m \cup {x} /\ IsInjective(a.out) /\ ToSet(a.out) \subseteq a.seen
        /\ ToSet(a.out) = (B \ {Opposite[x]}) \cup ({x} \ (own \cup m))
    <3>1. /\ Override(b, x).seen = b.seen \cup {x} /\ IsInjective(Override(b, x).out)
          /\ ToSet(Override(b, x).out) = (ToSet(b.out) \ {Opposite[x]}) \cup ({x} \ b.seen)
          /\ ToSet(Override(b, x).out) \subseteq b.seen \cup {x}
      BY <2>5, OverrideExact
    <3> QED
      BY <2>5, <2>6, <3>1
  <2>8. ASSUME NEW e \in Entries
        PROVE  Stood(i, e) <=> \/ Stood(i - 1, e) /\ e # Opposite[x]
                               \/ e = x /\ e \notin own \cup m
    <3>1. extra[i] = x /\ (e = Opposite[x] <=> Opposite[e] = x) /\ x # Opposite[x]
      BY <2>1, Opposites
    <3>2. \A j \in 1..i : j \in 1..(i - 1) \/ j = i
      OBVIOUS
    <3>3. i \in 1..i /\ \A j \in 1..(i - 1) : j \in 1..i
      OBVIOUS
    <3>4. CASE e \in own
      BY <3>1, <3>2, <3>3, <3>4
    <3>5. CASE e \notin own
      <4>1. e \in m <=> \E j \in 1..(i - 1) : extra[j] = e
        BY <2>2
      <4>2. ASSUME Stood(i, e) PROVE (Stood(i - 1, e) /\ e # Opposite[x]) \/ (e = x /\ e \notin own \cup m)
        <5>1. PICK k \in 1..i : /\ extra[k] = e
                                /\ \A j \in 1..(k - 1) : extra[j] # e
                                /\ \A j \in (k + 1)..i : extra[j] # Opposite[e]
          BY <3>5, <4>2
        <5>2. CASE k = i
          BY <3>1, <3>5, <4>1, <5>1, <5>2
        <5>3. CASE k # i
          <6>1. k \in 1..(i - 1) /\ i \in (k + 1)..i /\ \A j \in (k + 1)..(i - 1) : j \in (k + 1)..i
            BY <5>3
          <6>2. x # Opposite[e]
            BY <3>1, <5>1, <6>1
          <6> QED
            BY <3>1, <3>5, <5>1, <6>1, <6>2
        <5> QED
          BY <5>2, <5>3
      <4>3. ASSUME Stood(i - 1, e), e # Opposite[x] PROVE Stood(i, e)
        <5>1. PICK k \in 1..(i - 1) : /\ extra[k] = e
                                      /\ \A j \in 1..(k - 1) : extra[j] # e
                                      /\ \A j \in (k + 1)..(i - 1) : extra[j] # Opposite[e]
          BY <3>5, <4>3
        <5>2. k \in 1..i /\ \A j \in (k + 1)..i : j \in (k + 1)..(i - 1) \/ j = i
          OBVIOUS
        <5> QED
          BY <3>1, <3>5, <4>3, <5>1, <5>2
      <4>4. ASSUME e = x, e \notin m PROVE Stood(i, e)
        <5>1. \A j \in (i + 1)..i : FALSE
          OBVIOUS
        <5> QED
          BY <3>1, <3>3, <3>5, <4>1, <4>4, <5>1
      <4> QED
        BY <4>2, <4>3, <4>4
    <3> QED
      BY <3>4, <3>5
  <2>9. ToSet(a.out) = {e \in Entries : Stood(i, e)}
    <3> HIDE DEF Stood
    <3> QED
      BY <2>4, <2>7, <2>8
  <2>10. Done(i)
    <3> HIDE DEF Stood, Met
    <3> QED
      BY <2>1, <2>3, <2>6, <2>7, <2>9
  <2> QED
    BY <2>10
<1>6. \A i \in 0..n : i \in P
  <2> HIDE DEF P
  <2> QED
    BY <1>4, <1>5, IndexInduction
<1>7. Done(n) /\ f[n] \in Gathered(Entries)
  <2>1. n \in 0..n
    OBVIOUS
  <2> HIDE DEF Done
  <2> QED
    BY <1>2, <1>6, <2>1
<1>8. \A e \in Entries : Stood(n, e) <=> Stands(own, extra, e)
  BY <1>1 DEF Stands, Contains
<1> HIDE DEF Stood
<1> QED
  BY <1>2, <1>3, <1>7, <1>8 DEF Gathered

\* What is in a sequence, said in two ways.
LEMMA ContainsInSet ==
    ASSUME NEW X, NEW s \in Seq(X), NEW e
    PROVE  Contains(s, e) <=> e \in ToSet(s)
<1>1. DOMAIN s = 1..Len(s)
  OBVIOUS
<1> QED
  BY <1>1 DEF Contains, ToSet

\* Inherited and extra access is what it should be.
LEMMA AccessIsExact ==
    ASSUME NEW table, NEW id, NEW extra \in Seq(Entries), SoundTable(table)
    PROVE  AccessExact(table, id, extra)
<1>1. PICK access : access = GetEffectiveDBAccess(table, id, extra)
  OBVIOUS
<1>2. PICK own : own = OwnAccess(table, id)
  OBVIOUS
<1>3. /\ access \in Seq(Entries) /\ IsInjective(access)
      /\ ToSet(access) = {e \in Entries : Stands(own, extra, e)}
  BY <1>1, <1>2, AccessStands
<1>4. ASSUME extra # <<>>, Last(extra) = "-c1", "-c1" \notin own \cup ToSet(Front(extra))
      PROVE  ~CheckDBAccess(<<>>, access, "c1")
  <2>1. PICK n \in Nat : n = Len(extra) /\ n # 0 /\ n \in 1..n
    BY <1>4
  <2>2. extra[n] = "-c1"
    BY <1>4, <2>1 DEF Last
  <2>3. ASSUME NEW j \in 1..(n - 1) PROVE extra[j] # "-c1"
    <3>1. PICK front : front = SubSeq(extra, 1, n - 1)
      OBVIOUS
    <3>2. j \in DOMAIN front /\ front[j] = extra[j]
      BY <2>1, <3>1
    <3>3. Front(extra) = front
      BY <2>1, <3>1 DEF Front
    <3>4. front[j] \in ToSet(front)
      BY <3>2 DEF ToSet
    <3> QED
      BY <1>4, <3>2, <3>3, <3>4
  <2>4. \A j \in (n + 1)..n : FALSE
    BY <2>1
  <2>5. Stands(own, extra, "-c1")
    BY <1>4, <2>1, <2>2, <2>3, <2>4 DEF Stands
  <2>6. "-c1" \in Entries /\ Opposite["c1"] = "-c1"
    BY DEF Entries, Opposite
  <2>7. Contains(access, Opposite["c1"])
    BY <1>3, <2>5, <2>6, ContainsInSet
  <2> QED
    BY <2>7 DEF CheckDBAccess
<1> QED
  BY <1>1, <1>2, <1>3, <1>4 DEF AccessExact

\* The first of the permissions that decide.
LEMMA DenyFirst ==
    ASSUME NEW ps \in Seq(Perms), NEW action, NEW resource
    PROVE  DenyWins(ps, action, resource)
<1> DEFINE Decides(p) == p = Admin \/ (Text[p].deny /\ matchesResource(p, action, resource))
           I == {i \in 1..Len(ps) : Decides(ps[i])}
<1>1. SUFFICES ASSUME \A i \in 1..Len(ps) : ps[i] # Admin
               PROVE  HasResourcePermission(ps, action, resource) <=>
                        /\ \E p \in ToSet(ps) : matchesResource(p, action, resource)
                        /\ ~\E p \in ToSet(ps) : Text[p].deny /\ matchesResource(p, action, resource)
  BY DEF DenyWins, Contains
<1>2. DOMAIN ps = 1..Len(ps) /\ I \subseteq Nat
  OBVIOUS
<1>3. PICK first : first = IF I # {} THEN Min(I) ELSE 0
  OBVIOUS
<1>4. HasResourcePermission(ps, action, resource) =
         IF first # 0 THEN ps[first] = Admin ELSE \E i \in DOMAIN ps : matchesResource(ps[i], action, resource)
  BY <1>3 DEF HasResourcePermission, SelectInSeq
<1>5. CASE I = {}
  <2>1. first = 0
    BY <1>3, <1>5
  <2>2. ~\E p \in ToSet(ps) : Text[p].deny /\ matchesResource(p, action, resource)
    BY <1>2, <1>5 DEF ToSet
  <2> QED
    BY <1>2, <1>4, <2>1, <2>2 DEF ToSet
<1>6. CASE I # {}
  <2>1. first \in I /\ first # 0
    <3>1. Min(I) \in I
      <4> HIDE DEF I
      <4> QED
        BY <1>2, <1>6, MinOfNumbers
    <3> QED
      BY <1>3, <1>6, <3>1
  <2>2. ps[first] # Admin /\ Text[ps[first]].deny /\ matchesResource(ps[first], action, resource)
    BY <1>1, <2>1
  <2>3. ps[first] \in ToSet(ps)
    BY <1>2, <2>1 DEF ToSet
  <2> QED
    BY <1>4, <2>1, <2>2, <2>3
<1> QED
  BY <1>5, <1>6

\* What only an administrator or "execute:*" grants: to execute anything.
LEMMA ExecuteAnything ==
    ASSUME NEW ps \in Seq(Perms), HasResourcePermission(ps, "execute", "*")
    PROVE  {Admin, "execute:*"} \cap ToSet(ps) # {}
<1>1. SUFFICES ASSUME Admin \notin ToSet(ps) PROVE "execute:*" \in ToSet(ps)
  OBVIOUS
<1>2. ~Contains(ps, Admin)
  BY <1>1, ContainsInSet
<1>3. /\ \E p \in ToSet(ps) : matchesResource(p, "execute", "*")
      /\ ~\E p \in ToSet(ps) : Text[p].deny /\ matchesResource(p, "execute", "*")
  BY <1>2, DenyFirst DEF DenyWins
<1>4. PICK p \in ToSet(ps) : matchesResource(p, "execute", "*") /\ ~Text[p].deny
  BY <1>3
<1>5. p \in DOMAIN Text
  <2>1. p \in Perms
    BY DEF ToSet
  <2> QED
    BY <1>1, <2>1 DEF Perms
<1>6. /\ "*" # "connection.*" /\ "*" \notin Covers["connection.*"] /\ "*" \notin Covers["jobs.*"] /\ "*" \notin Covers["c1"]
  BY DEF Covers
<1>7. p = "execute:*"
  BY <1>4, <1>5, <1>6 DEF Text, Part, matchesResource, matchPattern, List, Query, Exec
<1> QED
  BY <1>7

\* What DBAccessMiddleware decides by.
LEMMA CheckReaches ==
    ASSUME NEW table, NEW id, NEW extra \in Seq(Perms), NEW scope \in Seq(Entries),
           SoundTable(table), NEW c \in Entries
    PROVE  CheckDBAccess(GetEffectivePerms(table, id, extra), GetEffectiveDBAccess(table, id, scope), c) <=>
              \/ {Admin, List, Query, Exec} \cap EffectiveSet(table, id, extra) # {}
              \/ /\ ~Stands(OwnAccess(table, id), scope, Opposite[c])
                 /\ \E e \in {c, "*"} : Stands(OwnAccess(table, id), scope, e)
<1>1. PICK ps : ps = GetEffectivePerms(table, id, extra) /\ ps \in Seq(Perms) /\ ToSet(ps) = EffectiveSet(table, id, extra)
  BY EffectiveIsExact DEF EffectiveExact
<1>2. PICK access : /\ access = GetEffectiveDBAccess(table, id, scope) /\ access \in Seq(Entries)
                    /\ ToSet(access) = {e \in Entries : Stands(OwnAccess(table, id), scope, e)}
  BY AccessStands
<1>3. Opposite[c] \in Entries /\ "*" \in Entries
  BY Opposites DEF Entries, Opposite
<1>4. \A e \in Entries : Contains(access, e) <=> Stands(OwnAccess(table, id), scope, e)
  BY <1>2, ContainsInSet
<1>5. (\E i \in DOMAIN ps : ps[i] \in {Admin, List, Query, Exec}) <=> {Admin, List, Query, Exec} \cap ToSet(ps) # {}
  BY DEF ToSet
<1> QED
  BY <1>1, <1>2, <1>3, <1>4, <1>5 DEF CheckDBAccess

-----------------------------------------------------------------------------
(* The command guard.                                                        *)

\* The first word of a statement decides.
LEMMA FirstWord ==
    ASSUME NEW X, NEW s \in Seq(X), NEW k \in 1..Len(s), s[k] # "nl", \A j \in 1..(k - 1) : s[j] = "nl"
    PROVE  prefixCommand(s) = IF s[k] \in Commands THEN s[k] ELSE Unknown
<1> DEFINE I == {i \in 1..Len(s) : s[i] # "nl"}
<1>1. k \in I /\ I \subseteq Nat /\ I # {}
  OBVIOUS
<1>2. PICK first : first = Min(I)
  OBVIOUS
<1>3. first \in I /\ \A y \in I : first <= y
  <2> HIDE DEF I
  <2> QED
    BY <1>1, <1>2, MinOfNumbers
<1>4. first = k
  BY <1>1, <1>3
<1>5. TrimSpace(s) = SubSeq(s, (first - 1) + 1, Len(s))
  <2>1. first # 0
    BY <1>3
  <2> QED
    BY <1>1, <1>2, <2>1 DEF TrimSpace, SelectInSeq, After
<1>6. PICK t : t = SubSeq(s, k, Len(s))
  OBVIOUS
<1>7. TrimSpace(s) = t
  BY <1>4, <1>5, <1>6
<1>8. t # <<>> /\ Head(t) = s[k]
  <2>1. t \in Seq(X) /\ Len(t) = Len(s) - k + 1 /\ t[1] = s[k]
    BY <1>6
  <2>2. Len(t) # 0
    BY <2>1
  <2> QED
    BY <2>1, <2>2
<1> QED
  BY <1>7, <1>8 DEF prefixCommand, Starts

\* A statement of ends of lines has none.
LEMMA NoWord ==
    ASSUME NEW X, NEW s \in Seq(X), \A j \in 1..Len(s) : s[j] = "nl"
    PROVE  prefixCommand(s) = Unknown
<1>1. {i \in 1..Len(s) : s[i] # "nl"} = {}
  OBVIOUS
<1>2. TrimSpace(s) = <<>>
  BY <1>1 DEF TrimSpace, SelectInSeq
<1> QED
  BY <1>2 DEF prefixCommand, Starts

\* Nothing but ends of lines so far.
Blank(s) == \A j \in 1..Len(s) : s[j] = "nl"

\* What one word more makes of a statement.
LEMMA OneWordMore ==
    ASSUME NEW X, NEW s \in Seq(X), NEW t \in X
    PROVE  /\ Append(s, t) \in Seq(X)
           /\ Blank(Append(s, t)) <=> Blank(s) /\ t = "nl"
           /\ prefixCommand(Append(s, t)) = IF ~Blank(s) THEN prefixCommand(s)
                                            ELSE IF t \in Commands THEN t ELSE Unknown
<1>1. PICK n \in Nat : n = Len(s)
  OBVIOUS
<1>2. PICK u : u = Append(s, t)
  OBVIOUS
<1>3. u \in Seq(X) /\ Len(u) = n + 1 /\ u[n + 1] = t /\ \A i \in 1..n : u[i] = s[i]
  BY <1>1, <1>2
<1>4. Blank(u) <=> Blank(s) /\ t = "nl"
  <2>1. \A i \in 1..(n + 1) : i \in 1..n \/ i = n + 1
    BY <1>1
  <2>2. n + 1 \in 1..(n + 1) /\ \A i \in 1..n : i \in 1..(n + 1)
    BY <1>1
  <2> QED
    BY <1>1, <1>3, <2>1, <2>2, Zenon DEF Blank
<1>5. CASE Blank(s) /\ t = "nl"
  <2>1. "nl" \notin Commands
    BY DEF Commands
  <2>2. prefixCommand(u) = Unknown
    BY <1>3, <1>4, <1>5, NoWord DEF Blank
  <2> QED
    BY <1>2, <1>3, <1>4, <1>5, <2>1, <2>2
<1>6. CASE Blank(s) /\ t # "nl"
  <2>1. n + 1 \in 1..Len(u) /\ \A j \in 1..((n + 1) - 1) : u[j] = "nl"
    BY <1>1, <1>3, <1>6 DEF Blank
  <2>2. prefixCommand(u) = IF t \in Commands THEN t ELSE Unknown
    BY <1>3, <1>6, <2>1, FirstWord
  <2> QED
    BY <1>2, <1>3, <1>4, <1>6, <2>2
<1>7. CASE ~Blank(s)
  <2> DEFINE T == {j \in 1..n : s[j] # "nl"}
  <2>1. T # {} /\ T \subseteq Nat
    BY <1>1, <1>7 DEF Blank
  <2>2. PICK k \in T : \A y \in T : k <= y
    <3> HIDE DEF T
    <3> QED
      BY <2>1, LeastNumber
  <2>3. k \in 1..n /\ s[k] # "nl"
    OBVIOUS
  <2>4. \A j \in 1..(k - 1) : s[j] = "nl"
    <3>1. ASSUME NEW j \in 1..(k - 1), s[j] # "nl" PROVE FALSE
      <4>1. j \in T /\ ~(k <= j)
        BY <2>3, <3>1
      <4> QED
        BY <2>2, <4>1
    <3> QED
      BY <3>1
  <2>5. prefixCommand(s) = IF s[k] \in Commands THEN s[k] ELSE Unknown
    BY <1>1, <2>3, <2>4, FirstWord
  <2>6. k \in 1..Len(u) /\ u[k] # "nl" /\ u[k] = s[k] /\ \A j \in 1..(k - 1) : u[j] = "nl"
    BY <1>1, <1>3, <2>3, <2>4
  <2>7. prefixCommand(u) = IF s[k] \in Commands THEN s[k] ELSE Unknown
    BY <1>3, <2>6, FirstWord
  <2> QED
    BY <1>2, <1>3, <1>4, <1>7, <2>5, <2>7
<1> QED
  BY <1>5, <1>6, <1>7

\* The states of the lexer on a text of words of X.
Lexing(X) == [mode : {"", "sq", "dq", "--", "/*"}, fresh : BOOLEAN, heads : SUBSET (X \cup {"x"})]
Start == [mode |-> "", fresh |-> TRUE, heads |-> {}]

\* Each word takes the lexer on.
LEMMA LexGoes ==
    ASSUME NEW X, NEW st \in Lexing(X), NEW t \in X
    PROVE  LexAt(st, t) \in Lexing(X)
<1>1. PICK m, b, h : st = [mode |-> m, fresh |-> b, heads |-> h] /\ m \in {"", "sq", "dq", "--", "/*"}
                     /\ b \in BOOLEAN /\ h \subseteq X \cup {"x"}
  BY DEF Lexing
<1>2. CASE m \in Quotes \/ m = "--" \/ m = "/*"
  BY <1>1, <1>2 DEF LexAt, Lexing, Quotes
<1>3. CASE m = ""
  <2>1. CASE t \in Quotes
    BY <1>1, <1>3, <2>1 DEF LexAt, Lexing, Quotes
  <2>2. CASE t \in {"--", "/*"}
    BY <1>1, <1>3, <2>2 DEF LexAt, Lexing, Quotes
  <2>3. CASE t \notin Quotes /\ t \notin {"--", "/*"}
    BY <1>1, <1>3, <2>3 DEF LexAt, Lexing, Quotes
  <2> QED
    BY <2>1, <2>2, <2>3
<1> QED
  BY <1>1, <1>2, <1>3 DEF Quotes

\* The states of Lexed.
LEMMA LexStates ==
    ASSUME NEW X, NEW s \in Seq(X)
    PROVE  \E f \in [0..Len(s) -> Lexing(X)] :
              /\ f[0] = Start
              /\ \A i \in 1..Len(s) : f[i] = LexAt(f[i - 1], s[i])
              /\ Lexed(s) = f[Len(s)]
<1> DEFINE Next1(f) == [i \in 0..Len(s) |-> IF i = 0 THEN Start ELSE LexAt(f[i - 1], s[i])]
<1>1. PICK n \in Nat : n = Len(s)
  OBVIOUS
<1>2. PICK step : step = [i \in 1..n |-> [x \in Lexing(X) |-> LexAt(x, s[i])]]
  OBVIOUS
<1>3. Start \in Lexing(X) /\ step \in [1..n -> [Lexing(X) -> Lexing(X)]]
  <2>1. Start \in Lexing(X)
    BY DEF Lexing, Start
  <2>2. ASSUME NEW i \in 1..n, NEW x \in Lexing(X) PROVE LexAt(x, s[i]) \in Lexing(X)
    BY <1>1, LexGoes
  <2> QED
    BY <1>2, <2>1, <2>2
<1>4. PICK g : Rounds(g, n, Lexing(X), Start, step)
  BY <1>3, LoopHasStates
<1>5. g \in [0..n -> Lexing(X)] /\ g[0] = Start
  BY <1>4 DEF Rounds
<1>6. ASSUME NEW i \in 1..n PROVE g[i] = LexAt(g[i - 1], s[i])
  <2>1. g[i] = step[i][g[i - 1]] /\ g[i - 1] \in Lexing(X)
    BY <1>4, <1>5 DEF Rounds
  <2> QED
    BY <1>2, <2>1
<1>7. g = Next1(g)
  BY <1>1, <1>5, <1>6
<1>8. PICK f : f = CHOOSE x : x = Next1(x)
  OBVIOUS
<1>9. f = Next1(f)
  BY <1>7, <1>8, Zenon
<1>10. Lexed(s) = f[Len(s)]
  BY <1>8 DEF Lexed, Start
<1>11. f[0] = Start
  BY <1>1, <1>9
<1>12. ASSUME NEW i \in 1..n PROVE f[i] = LexAt(f[i - 1], s[i])
  <2>1. i \in 0..Len(s) /\ i # 0
    BY <1>1
  <2> QED
    BY <1>9, <2>1, Zenon
<1>13. f \in [0..n -> Lexing(X)]
  <2>1. ASSUME NEW i \in 1..n, f[i - 1] \in Lexing(X) PROVE f[i] \in Lexing(X)
    <3>1. PICK x \in Lexing(X) : x = f[i - 1]
      BY <2>1
    <3>2. step[i][x] = LexAt(x, s[i]) /\ step[i][x] \in Lexing(X)
      BY <1>2, <1>3
    <3> QED
      BY <1>12, <3>1, <3>2
  <2>2. f = [i \in 0..n |-> f[i]]
    BY <1>1, <1>9
  <2> QED
    BY <1>3, <1>11, <2>1, <2>2, LoopStatesAre
<1> QED
  BY <1>1, <1>10, <1>11, <1>12, <1>13

\* The position of a word in a text.
LEMMA IndexOfWord ==
    ASSUME NEW X, NEW s \in Seq(X), NEW t
    PROVE  \/ IndexOf(s, t) = 0 /\ \A i \in 1..Len(s) : s[i] # t
           \/ /\ IndexOf(s, t) \in 1..Len(s) /\ s[IndexOf(s, t)] = t
              /\ \A i \in 1..(IndexOf(s, t) - 1) : s[i] # t
<1> DEFINE I == {i \in 1..Len(s) : s[i] = t}
<1>1. PICK k : k = IndexOf(s, t)
  OBVIOUS
<1>2. k = IF I # {} THEN Min(I) ELSE 0
  BY <1>1 DEF IndexOf, SelectInSeq
<1>3. CASE I = {}
  BY <1>1, <1>2, <1>3
<1>4. CASE I # {}
  <2>1. I \subseteq Nat
    OBVIOUS
  <2>2. k \in I /\ \A y \in I : k <= y
    <3> HIDE DEF I
    <3> QED
      BY <1>2, <1>4, <2>1, MinOfNumbers
  <2>3. ASSUME NEW i \in 1..(k - 1) PROVE s[i] # t
    <3>1. i \in 1..Len(s) /\ ~(k <= i)
      BY <2>2
    <3> QED
      BY <2>2, <3>1
  <2> QED
    BY <1>1, <2>2, <2>3
<1> QED
  BY <1>3, <1>4

\* Texts stay texts.
LEMMA CutGoes ==
    ASSUME NEW X, NEW s \in Seq(X)
    PROVE  Cut(s) \in Seq(X)
<1>1. ASSUME NEW t PROVE (IF IndexOf(s, t) = 0 THEN <<>> ELSE After(s, IndexOf(s, t))) \in Seq(X)
  <2>1. PICK k : k = IndexOf(s, t)
    OBVIOUS
  <2>2. CASE k = 0
    BY <2>1, <2>2
  <2>3. CASE k \in 1..Len(s)
    <3>1. SubSeq(s, k + 1, Len(s)) \in Seq(X)
      BY <2>3
    <3> QED
      BY <2>1, <2>3, <3>1 DEF After
  <2> QED
    BY <2>1, <2>2, <2>3, IndexOfWord
<1>2. s # <<>> => Tail(s) \in Seq(X)
  OBVIOUS
<1> QED
  BY <1>1, <1>2 DEF Cut, Starts

\* The states of trimSQL.
LEMMA TrimStates ==
    ASSUME NEW X, NEW s \in Seq(X)
    PROVE  \E f \in [0..Len(s) -> Seq(X)] :
              /\ f[0] = s
              /\ \A i \in 1..Len(s) : f[i] = Cut(f[i - 1])
              /\ trimSQL(s) = f[Len(s)]
<1> DEFINE Next1(f) == [i \in 0..Len(s) |-> IF i = 0 THEN s ELSE Cut(f[i - 1])]
<1>1. PICK n \in Nat : n = Len(s)
  OBVIOUS
<1>2. PICK step : step = [i \in 1..n |-> [x \in Seq(X) |-> Cut(x)]]
  OBVIOUS
<1>3. s \in Seq(X) /\ step \in [1..n -> [Seq(X) -> Seq(X)]]
  <2>1. s \in Seq(X)
    OBVIOUS
  <2>2. ASSUME NEW i \in 1..n, NEW x \in Seq(X) PROVE Cut(x) \in Seq(X)
    BY CutGoes
  <2> QED
    BY <1>2, <2>1, <2>2
<1>4. PICK g : Rounds(g, n, Seq(X), s, step)
  BY <1>3, LoopHasStates
<1>5. g \in [0..n -> Seq(X)] /\ g[0] = s
  BY <1>4 DEF Rounds
<1>6. ASSUME NEW i \in 1..n PROVE g[i] = Cut(g[i - 1])
  <2>1. g[i] = step[i][g[i - 1]] /\ g[i - 1] \in Seq(X)
    BY <1>4, <1>5 DEF Rounds
  <2> QED
    BY <1>2, <2>1
<1>7. g = Next1(g)
  BY <1>1, <1>5, <1>6
<1>8. PICK f : f = CHOOSE x : x = Next1(x)
  OBVIOUS
<1>9. f = Next1(f)
  BY <1>7, <1>8, Zenon
<1>10. trimSQL(s) = f[Len(s)]
  BY <1>8 DEF trimSQL
<1>11. f[0] = s
  BY <1>1, <1>9
<1>12. ASSUME NEW i \in 1..n PROVE f[i] = Cut(f[i - 1])
  <2>1. i \in 0..Len(s) /\ i # 0
    BY <1>1
  <2> QED
    BY <1>9, <2>1, Zenon
<1>13. f \in [0..n -> Seq(X)]
  <2>1. ASSUME NEW i \in 1..n, f[i - 1] \in Seq(X) PROVE f[i] \in Seq(X)
    <3>1. PICK x \in Seq(X) : x = f[i - 1]
      BY <2>1
    <3>2. step[i][x] = Cut(x) /\ step[i][x] \in Seq(X)
      BY <1>2, <1>3
    <3> QED
      BY <1>12, <3>1, <3>2
  <2>2. f = [i \in 0..n |-> f[i]]
    BY <1>1, <1>9
  <2> QED
    BY <1>3, <1>11, <2>1, <2>2, LoopStatesAre
<1> QED
  BY <1>1, <1>10, <1>11, <1>12, <1>13

\* Where the lexer is as at the start, the rest of the text is all there is.
LEMMA LexRest ==
    ASSUME NEW X, NEW s \in Seq(X), NEW f \in [0..Len(s) -> Lexing(X)],
           \A i \in 1..Len(s) : f[i] = LexAt(f[i - 1], s[i]), Lexed(s) = f[Len(s)],
           NEW k \in 0..Len(s), f[k] = Start
    PROVE  Lexed(SubSeq(s, k + 1, Len(s))) = Lexed(s)
<1>1. PICK r : r = SubSeq(s, k + 1, Len(s))
  OBVIOUS
<1>2. PICK n \in Nat : n = Len(s) - k
  OBVIOUS
<1>3. r \in Seq(X) /\ Len(r) = n /\ \A i \in 1..n : r[i] = s[k + i]
  BY <1>1, <1>2
<1>4. PICK g \in [0..n -> Lexing(X)] :
         /\ g[0] = Start /\ Lexed(r) = g[n]
         /\ \A i \in 1..n : g[i] = LexAt(g[i - 1], r[i])
  <2>1. r \in Seq(X) /\ n = Len(r)
    BY <1>3
  <2> QED
    BY <2>1, LexStates
<1> DEFINE P == {i \in 0..n : g[i] = f[k + i]}
<1>5. 0 \in P
  BY <1>4
<1>6. ASSUME NEW i \in 1..n, i - 1 \in P PROVE i \in P
  <2>1. g[i] = LexAt(g[i - 1], s[k + i]) /\ g[i - 1] = f[k + (i - 1)]
    BY <1>3, <1>4, <1>6
  <2>2. k + i \in 1..Len(s) /\ k + (i - 1) = (k + i) - 1
    BY <1>2
  <2>3. f[k + i] = LexAt(f[k + (i - 1)], s[k + i])
    BY <2>2
  <2> QED
    BY <2>1, <2>3
<1>7. \A i \in 0..n : i \in P
  <2> HIDE DEF P
  <2> QED
    BY <1>5, <1>6, IndexInduction
<1>8. g[n] = f[k + n] /\ k + n = Len(s)
  BY <1>2, <1>7
<1> QED
  BY <1>1, <1>4, <1>8

\* How comments end, and the lexer within one.
Comment == [o \in {"--", "/*"} |-> IF o = "--" THEN "nl" ELSE "*/"]
Inside(o) == [mode |-> o, fresh |-> TRUE, heads |-> {}]

\* In a comment the lexer stays until its end.
LEMMA CommentSteps ==
    ASSUME NEW o \in {"--", "/*"}
    PROVE  /\ LexAt(Start, o) = Inside(o) /\ LexAt(Start, "nl") = Start
           /\ \A t : LexAt(Inside(o), t) = IF t = Comment[o] THEN Start ELSE Inside(o)
<1>1. o \notin Quotes /\ "" \notin Quotes /\ "nl" \notin Quotes /\ "nl" \notin {"--", "/*"}
  BY DEF Quotes
<1>2. LexAt(Start, o) = Inside(o)
  BY <1>1 DEF LexAt, Start, Inside
<1>3. LexAt(Start, "nl") = Start
  BY <1>1 DEF LexAt, Start
<1>4. ASSUME NEW t PROVE LexAt(Inside(o), t) = IF t = Comment[o] THEN Start ELSE Inside(o)
  <2>1. CASE o = "--"
    <3>1. PICK c : c = Inside("--") /\ c = [mode |-> "--", fresh |-> TRUE, heads |-> {}]
      BY DEF Inside
    <3>2. c.mode = "--" /\ "--" \notin Quotes /\ Comment["--"] = "nl"
      BY <3>1 DEF Quotes, Comment
    <3>3. LexAt(c, t) = [c EXCEPT !.mode = IF t = "nl" THEN "" ELSE @]
      BY <3>2 DEF LexAt
    <3>4. CASE t = "nl"
      <4>1. LexAt(c, t) = [c EXCEPT !.mode = ""]
        BY <3>3, <3>4
      <4>2. [c EXCEPT !.mode = ""] = [mode |-> "", fresh |-> TRUE, heads |-> {}]
        <5>1. PICK m, b, h, new : m = "--" /\ b = TRUE /\ h = {} /\ new = ""
          OBVIOUS
        <5>2. [[mode |-> m, fresh |-> b, heads |-> h] EXCEPT !.mode = new]
                 = [mode |-> new, fresh |-> b, heads |-> h]
          OBVIOUS
        <5> QED
          BY <3>1, <5>1, <5>2, Zenon
      <4>3. LexAt(c, t) = Start
        BY <4>1, <4>2 DEF Start
      <4> QED
        BY <2>1, <3>1, <3>2, <3>4, <4>3
    <3>5. CASE t # "nl"
      BY <2>1, <3>1, <3>2, <3>3, <3>5
    <3> QED
      BY <3>4, <3>5
  <2>2. CASE o = "/*"
    <3>1. PICK c : c = Inside("/*") /\ c = [mode |-> "/*", fresh |-> TRUE, heads |-> {}]
      BY DEF Inside
    <3>2. c.mode = "/*" /\ "/*" \notin Quotes /\ Comment["/*"] = "*/"
      BY <3>1 DEF Quotes, Comment
    <3>3. LexAt(c, t) = [c EXCEPT !.mode = IF t = "*/" THEN "" ELSE @]
      BY <3>2 DEF LexAt
    <3>4. CASE t = "*/"
      <4>1. LexAt(c, t) = [c EXCEPT !.mode = ""]
        BY <3>3, <3>4
      <4>2. [c EXCEPT !.mode = ""] = [mode |-> "", fresh |-> TRUE, heads |-> {}]
        <5>1. PICK m, b, h, new : m = "/*" /\ b = TRUE /\ h = {} /\ new = ""
          OBVIOUS
        <5>2. [[mode |-> m, fresh |-> b, heads |-> h] EXCEPT !.mode = new]
                 = [mode |-> new, fresh |-> b, heads |-> h]
          OBVIOUS
        <5> QED
          BY <3>1, <5>1, <5>2, Zenon
      <4>3. LexAt(c, t) = Start
        BY <4>1, <4>2 DEF Start
      <4> QED
        BY <2>2, <3>1, <3>2, <3>4, <4>3
    <3>5. CASE t # "*/"
      BY <2>2, <3>1, <3>2, <3>3, <3>5
    <3> QED
      BY <3>4, <3>5
  <2> QED
    BY <2>1, <2>2
<1> QED
  BY <1>2, <1>3, <1>4

\* What is cut off in front has no words for a database.
LEMMA CutKeepsHeads ==
    ASSUME NEW X, NEW s \in Seq(X)
    PROVE  HeadWords(Cut(s)) = HeadWords(s)
<1>1. PICK n \in Nat : n = Len(s)
  OBVIOUS
<1>2. PICK f \in [0..n -> Lexing(X)] :
         /\ f[0] = Start /\ Lexed(s) = f[n]
         /\ \A i \in 1..n : f[i] = LexAt(f[i - 1], s[i])
  BY <1>1, LexStates
<1>3. CASE Starts(s, {"nl"})
  <2>1. s # <<>> /\ s[1] = "nl" /\ 1 \in 1..n
    BY <1>1, <1>3 DEF Starts
  <2>2. f[1] = Start
    BY <1>2, <2>1, CommentSteps
  <2>3. Lexed(SubSeq(s, 1 + 1, Len(s))) = Lexed(s)
    <3>1. 1 \in 0..Len(s)
      BY <1>1, <2>1
    <3> QED
      BY <1>1, <1>2, <2>2, <3>1, LexRest
  <2>4. Cut(s) = SubSeq(s, 1 + 1, Len(s))
    <3>1. Cut(s) = Tail(s)
      <4>1. ~Starts(s, {"--"}) /\ ~Starts(s, {"/*"})
        BY <1>3 DEF Starts
      <4> QED
        BY <1>3, <4>1 DEF Cut
    <3>2. Tail(s) = SubSeq(s, 1 + 1, Len(s))
      BY <2>1
    <3> QED
      BY <3>1, <3>2
  <2> QED
    BY <2>3, <2>4 DEF HeadWords
<1>4. ASSUME NEW o \in {"--", "/*"}, Starts(s, {o}),
             Cut(s) = IF IndexOf(s, Comment[o]) = 0 THEN <<>> ELSE After(s, IndexOf(s, Comment[o]))
      PROVE  HeadWords(Cut(s)) = HeadWords(s)
  <2>1. s[1] = o /\ 1 \in 1..n /\ o # Comment[o]
    BY <1>1, <1>4 DEF Starts, Comment
  <2>2. f[1] = Inside(o)
    BY <1>2, <2>1, CommentSteps
  <2>3. PICK k : k = IndexOf(s, Comment[o])
    OBVIOUS
  <2>4. ASSUME NEW m \in 1..n, \A i \in 1..m : s[i] # Comment[o] PROVE f[m] = Inside(o)
    <3> DEFINE P == {i \in 0..m : i # 0 => f[i] = Inside(o)}
    <3>1. 0 \in P
      OBVIOUS
    <3>2. ASSUME NEW i \in 1..m, i - 1 \in P PROVE i \in P
      <4>1. CASE i = 1
        BY <2>2, <4>1
      <4>2. CASE i # 1
        <5>1. i \in 1..n /\ f[i - 1] = Inside(o) /\ s[i] # Comment[o]
          BY <2>4, <3>2, <4>2
        <5>2. f[i] = Inside(o)
          BY <1>2, <5>1, CommentSteps
        <5> QED
          BY <5>2
      <4> QED
        BY <4>1, <4>2
    <3>3. \A i \in 0..m : i \in P
      <4>1. m \in Nat
        OBVIOUS
      <4> HIDE DEF P
      <4> QED
        BY <3>1, <3>2, <4>1, IndexInduction
    <3> QED
      BY <3>3
  <2>5. CASE k = 0
    <3>1. \A i \in 1..n : s[i] # Comment[o]
      <4>1. k \notin 1..Len(s)
        BY <1>1, <2>5
      <4> QED
        BY <1>1, <2>3, <4>1, IndexOfWord
    <3>2. Lexed(s) = Inside(o)
      <4>1. n \in 1..n
        BY <2>1
      <4> QED
        BY <1>2, <2>4, <3>1, <4>1
    <3>3. Cut(s) = <<>>
      BY <1>4, <2>3, <2>5
    <3>4. Lexed(<<>>) = Start
      <4>1. <<>> \in Seq(X) /\ Len(<<>>) = 0
        OBVIOUS
      <4>2. PICK e \in [0..0 -> Lexing(X)] : e[0] = Start /\ Lexed(<<>>) = e[0]
        BY <4>1, LexStates
      <4> QED
        BY <4>2
    <3> QED
      <4>1. Inside(o).heads = {} /\ Start.heads = {}
        BY DEF Inside, Start
      <4> QED
        BY <3>2, <3>3, <3>4, <4>1 DEF HeadWords
  <2>6. CASE k # 0
    <3>1. k \in 1..n /\ s[k] = Comment[o] /\ \A i \in 1..(k - 1) : s[i] # Comment[o]
      BY <1>1, <2>3, <2>6, IndexOfWord
    <3>2. k # 1
      BY <2>1, <3>1
    <3>3. k - 1 \in 1..n
      BY <3>1, <3>2
    <3>4. f[k - 1] = Inside(o)
      BY <2>4, <3>1, <3>3
    <3>5. f[k] = Start
      BY <1>2, <3>1, <3>4, CommentSteps
    <3>6. Lexed(SubSeq(s, k + 1, Len(s))) = Lexed(s)
      <4>1. k \in 0..Len(s)
        BY <1>1, <3>1
      <4> QED
        BY <1>1, <1>2, <3>5, <4>1, LexRest
    <3>7. Cut(s) = SubSeq(s, k + 1, Len(s))
      BY <1>4, <2>3, <2>6 DEF After
    <3> QED
      BY <3>6, <3>7 DEF HeadWords
  <2> QED
    BY <2>5, <2>6
<1>5. CASE Starts(s, {"--"})
  <2>1. Cut(s) = IF IndexOf(s, Comment["--"]) = 0 THEN <<>> ELSE After(s, IndexOf(s, Comment["--"]))
    <3>1. ~Starts(s, {"nl"}) /\ Comment["--"] = "nl"
      BY <1>5 DEF Starts, Comment
    <3> QED
      BY <1>5, <3>1 DEF Cut
  <2> QED
    BY <1>4, <1>5, <2>1
<1>6. CASE Starts(s, {"/*"})
  <2>1. Cut(s) = IF IndexOf(s, Comment["/*"]) = 0 THEN <<>> ELSE After(s, IndexOf(s, Comment["/*"]))
    <3>1. ~Starts(s, {"nl"}) /\ ~Starts(s, {"--"}) /\ Comment["/*"] = "*/"
      BY <1>6 DEF Starts, Comment
    <3> QED
      BY <1>6, <3>1 DEF Cut
  <2> QED
    BY <1>4, <1>6, <2>1
<1>7. CASE ~Starts(s, {"nl"}) /\ ~Starts(s, {"--"}) /\ ~Starts(s, {"/*"})
  BY <1>7 DEF Cut
<1> QED
  BY <1>3, <1>5, <1>6, <1>7

\* So trimming takes away none of the words a database acts on.
LEMMA TrimKeepsHeads ==
    ASSUME NEW X, NEW s \in Seq(X)
    PROVE  trimSQL(s) \in Seq(X) /\ HeadWords(trimSQL(s)) = HeadWords(s)
<1>1. PICK n \in Nat : n = Len(s)
  OBVIOUS
<1>2. PICK f \in [0..n -> Seq(X)] : /\ f[0] = s /\ trimSQL(s) = f[n]
                                    /\ \A i \in 1..n : f[i] = Cut(f[i - 1])
  BY <1>1, TrimStates
<1> DEFINE P == {i \in 0..n : HeadWords(f[i]) = HeadWords(s)}
<1>3. 0 \in P
  BY <1>2
<1>4. ASSUME NEW i \in 1..n, i - 1 \in P PROVE i \in P
  BY <1>2, <1>4, CutKeepsHeads
<1>5. \A i \in 0..n : i \in P
  <2> HIDE DEF P
  <2> QED
    BY <1>3, <1>4, IndexInduction
<1>6. n \in 0..n
  OBVIOUS
<1> QED
  BY <1>2, <1>5, <1>6

\* The states of the splitter on a text of words of X.
Splitting(X) == [out : Seq(Seq(X)), cur : Seq(X), quote : {"", "sq", "dq"}]
NothingYet == [out |-> <<>>, cur |-> <<>>, quote |-> ""]

\* What the splitter does with a word.
SplitsBy(a, t, d) ==
    \/ /\ a.quote # "" /\ d.quote = (IF t = a.quote THEN "" ELSE a.quote)
       /\ d.cur = Append(a.cur, t) /\ d.out = a.out
    \/ /\ a.quote = "" /\ t \in Quotes /\ d.quote = t
       /\ d.cur = Append(a.cur, t) /\ d.out = a.out
    \/ /\ a.quote = "" /\ t = ";" /\ d.quote = ""
       /\ d.cur = <<>> /\ d.out = Append(a.out, a.cur)
    \/ /\ a.quote = "" /\ t \notin Quotes /\ t # ";" /\ d.quote = ""
       /\ d.cur = Append(a.cur, t) /\ d.out = a.out

\* It does.
LEMMA SplitStep ==
    ASSUME NEW X, NEW a \in Splitting(X), NEW t \in X, NEW d, d = SplitAt(a, t)
    PROVE  d \in Splitting(X) /\ SplitsBy(a, t, d)
<1>1. /\ a.out \in Seq(Seq(X)) /\ a.cur \in Seq(X) /\ a.quote \in {"", "sq", "dq"}
      /\ Append(a.cur, t) \in Seq(X) /\ Append(a.out, a.cur) \in Seq(Seq(X)) /\ <<>> \in Seq(X)
  <2>1. a.out \in Seq(Seq(X)) /\ a.cur \in Seq(X) /\ a.quote \in {"", "sq", "dq"}
    BY DEF Splitting
  <2>2. Append(a.cur, t) \in Seq(X) /\ Append(a.out, a.cur) \in Seq(Seq(X)) /\ <<>> \in Seq(X)
    <3>1. \A Y : \A u \in Seq(Y), y \in Y : Append(u, y) \in Seq(Y)
      OBVIOUS
    <3>2. \A Y : <<>> \in Seq(Y)
      OBVIOUS
    <3> QED
      BY <2>1, <3>1, <3>2, Zenon
  <2> QED
    BY <2>1, <2>2 DEF SplitsBy
<1>2. ";" \notin Quotes /\ Quotes \subseteq {"", "sq", "dq"} /\ "" \notin Quotes
  BY DEF Quotes
<1>3. CASE a.quote # ""
  <2>1. d = [a EXCEPT !.cur = Append(@, t), !.quote = IF t = @ THEN "" ELSE @]
    BY <1>3 DEF SplitAt
  <2> QED
    BY <1>1, <1>3, <2>1 DEF Splitting, SplitsBy
<1>4. CASE a.quote = "" /\ t \in Quotes
  <2>1. d = [a EXCEPT !.cur = Append(@, t), !.quote = t]
    BY <1>2, <1>4 DEF SplitAt
  <2> QED
    BY <1>1, <1>2, <1>4, <2>1 DEF Splitting, SplitsBy
<1>5. CASE a.quote = "" /\ t = ";"
  <2>1. d = [a EXCEPT !.out = Append(@, a.cur), !.cur = <<>>]
    BY <1>2, <1>5 DEF SplitAt
  <2> QED
    BY <1>1, <1>5, <2>1 DEF Splitting, SplitsBy
<1>6. CASE a.quote = "" /\ t \notin Quotes /\ t # ";"
  <2>1. d = [a EXCEPT !.cur = Append(@, t)]
    BY <1>6 DEF SplitAt
  <2> QED
    BY <1>1, <1>6, <2>1 DEF Splitting, SplitsBy
<1> QED
  BY <1>3, <1>4, <1>5, <1>6

\* So the splitter goes on.
LEMMA SplitGoes == ASSUME NEW X, NEW a \in Splitting(X), NEW t \in X PROVE SplitAt(a, t) \in Splitting(X)
  BY SplitStep

\* What the lexer does with a word that is no comment mark, outside of comments.
LexesBy(b, t, e) ==
    \/ /\ b.mode # "" /\ e.mode = (IF t = b.mode THEN "" ELSE b.mode)
       /\ e.fresh = b.fresh /\ e.heads = b.heads
    \/ /\ b.mode = "" /\ t \in Quotes /\ e.mode = t /\ e.fresh = FALSE
       /\ e.heads = b.heads \cup (IF b.fresh THEN {"x"} ELSE {})
    \/ /\ b.mode = "" /\ t = ";" /\ e.mode = "" /\ e.fresh = TRUE
       /\ e.heads = b.heads
    \/ /\ b.mode = "" /\ t = "nl" /\ e = b
    \/ /\ b.mode = "" /\ t \notin Quotes \cup {";", "nl"} /\ e.mode = "" /\ e.fresh = FALSE
       /\ e.heads = b.heads \cup (IF b.fresh THEN {t} ELSE {})

\* It does.
LEMMA LexStep ==
    ASSUME NEW X, NEW b \in Lexing(X), NEW t \in X, NEW e, e = LexAt(b, t), t \notin {"--", "/*", "*/"},
           b.mode \in {"", "sq", "dq"}
    PROVE  LexesBy(b, t, e)
<1>1. DOMAIN b = {"mode", "fresh", "heads"}
  BY DEF Lexing
<1>2. /\ ";" \notin Quotes /\ "nl" \notin Quotes /\ "" \notin Quotes
      /\ b.mode # "" <=> b.mode \in Quotes
      /\ b.mode # "--" /\ b.mode # "/*"
  BY DEF Quotes
<1>3. CASE b.mode # ""
  <2>1. e = [b EXCEPT !.mode = IF t = @ THEN "" ELSE @]
    BY <1>2, <1>3 DEF LexAt
  <2> QED
    BY <1>1, <1>3, <2>1 DEF LexesBy
<1>4. CASE b.mode = "" /\ t \in Quotes
  <2>1. e = [mode |-> t, fresh |-> FALSE, heads |-> b.heads \cup (IF b.fresh THEN {"x"} ELSE {})]
    BY <1>2, <1>4 DEF LexAt
  <2>2. PICK no, h : no = FALSE /\ h = b.heads \cup (IF b.fresh THEN {"x"} ELSE {})
    OBVIOUS
  <2>3. PICK c : c = [mode |-> t, fresh |-> no, heads |-> h]
    OBVIOUS
  <2>4. c.mode = t /\ c.fresh = no /\ c.heads = h
    BY <2>3
  <2>5. e = c
    BY <2>1, <2>2, <2>3, Zenon
  <2> QED
    BY <1>4, <2>2, <2>4, <2>5, Zenon DEF LexesBy
<1>5. CASE b.mode = "" /\ t = ";"
  <2>1. e = [b EXCEPT !.fresh = TRUE]
    BY <1>2, <1>5 DEF LexAt
  <2> QED
    BY <1>1, <1>5, <2>1 DEF LexesBy
<1>6. CASE b.mode = "" /\ t = "nl"
  <2>1. e = b
    BY <1>2, <1>6 DEF LexAt
  <2> QED
    BY <1>6, <2>1 DEF LexesBy
<1>7. CASE b.mode = "" /\ t \notin Quotes \cup {";", "nl"}
  <2>1. e = [b EXCEPT !.heads = @ \cup (IF b.fresh THEN {t} ELSE {}), !.fresh = FALSE]
    BY <1>2, <1>7 DEF LexAt
  <2> QED
    BY <1>1, <1>7, <2>1 DEF LexesBy
<1> QED
  BY <1>3, <1>4, <1>5, <1>6, <1>7

\* The states of splitStatements.
LEMMA SplitStates ==
    ASSUME NEW X, NEW s \in Seq(X)
    PROVE  \E f \in [0..Len(s) -> Splitting(X)] :
              /\ f[0] = NothingYet
              /\ \A i \in 1..Len(s) : f[i] = SplitAt(f[i - 1], s[i])
              /\ splitStatements(s) = (IF f[Len(s)].cur = <<>> THEN f[Len(s)].out ELSE Append(f[Len(s)].out, f[Len(s)].cur))
<1> DEFINE Next1(f) == [i \in 0..Len(s) |-> IF i = 0 THEN NothingYet ELSE SplitAt(f[i - 1], s[i])]
<1>1. PICK n \in Nat : n = Len(s)
  OBVIOUS
<1>2. PICK step : step = [i \in 1..n |-> [x \in Splitting(X) |-> SplitAt(x, s[i])]]
  OBVIOUS
<1>3. NothingYet \in Splitting(X) /\ step \in [1..n -> [Splitting(X) -> Splitting(X)]]
  <2>1. NothingYet \in Splitting(X)
    BY DEF Splitting, NothingYet
  <2>2. ASSUME NEW i \in 1..n, NEW x \in Splitting(X) PROVE SplitAt(x, s[i]) \in Splitting(X)
    BY <1>1, SplitGoes
  <2> QED
    BY <1>2, <2>1, <2>2
<1>4. PICK g : Rounds(g, n, Splitting(X), NothingYet, step)
  BY <1>3, LoopHasStates
<1>5. g \in [0..n -> Splitting(X)] /\ g[0] = NothingYet
  BY <1>4 DEF Rounds
<1>6. ASSUME NEW i \in 1..n PROVE g[i] = SplitAt(g[i - 1], s[i])
  <2>1. g[i] = step[i][g[i - 1]] /\ g[i - 1] \in Splitting(X)
    BY <1>4, <1>5 DEF Rounds
  <2> QED
    BY <1>2, <2>1
<1>7. g = Next1(g)
  BY <1>1, <1>5, <1>6
<1>8. PICK f : f = CHOOSE x : x = Next1(x)
  OBVIOUS
<1>9. f = Next1(f)
  BY <1>7, <1>8, Zenon
<1>10. splitStatements(s) = (IF f[Len(s)].cur = <<>> THEN f[Len(s)].out ELSE Append(f[Len(s)].out, f[Len(s)].cur))
  <2> DEFINE Pieces(x) == IF x[Len(s)].cur = <<>> THEN x[Len(s)].out ELSE Append(x[Len(s)].out, x[Len(s)].cur)
  <2>1. splitStatements(s) = Pieces(CHOOSE x : x = Next1(x))
    BY DEF splitStatements, NothingYet
  <2>2. splitStatements(s) = Pieces(f)
    <3> HIDE DEF Pieces
    <3> QED
      BY <1>8, <2>1
  <2> QED
    BY <2>2
<1>11. f[0] = NothingYet
  BY <1>1, <1>9
<1>12. ASSUME NEW i \in 1..n PROVE f[i] = SplitAt(f[i - 1], s[i])
  <2>1. i \in 0..Len(s) /\ i # 0
    BY <1>1
  <2> QED
    BY <1>9, <2>1, Zenon
<1>13. f \in [0..n -> Splitting(X)]
  <2>1. ASSUME NEW i \in 1..n, f[i - 1] \in Splitting(X) PROVE f[i] \in Splitting(X)
    <3>1. PICK x \in Splitting(X) : x = f[i - 1]
      BY <2>1
    <3>2. step[i][x] = SplitAt(x, s[i]) /\ step[i][x] \in Splitting(X)
      BY <1>2, <1>3
    <3> QED
      BY <1>12, <3>1, <3>2
  <2>2. f = [i \in 0..n |-> f[i]]
    BY <1>1, <1>9
  <2> QED
    BY <1>3, <1>11, <2>1, <2>2, LoopStatesAre
<1> QED
  BY <1>1, <1>10, <1>11, <1>12, <1>13

\* A statement is of a command or of none.
LEMMA CommandOrNone == \A stmt : prefixCommand(stmt) \in Commands \cup {Unknown}
  BY DEF prefixCommand, Starts

\* The states of WorstOf.
LEMMA WorstStates ==
    ASSUME NEW stmts, Len(stmts) \in Nat
    PROVE  \E f \in [0..Len(stmts) -> (Commands \cup {Unknown})] :
              /\ f[0] = Unknown
              /\ \A i \in 1..Len(stmts) : f[i] = Worse(f[i - 1], stmts[i])
              /\ WorstOf(stmts) = f[Len(stmts)]
<1> DEFINE Next1(f) == [i \in 0..Len(stmts) |-> IF i = 0 THEN Unknown ELSE Worse(f[i - 1], stmts[i])]
<1>1. PICK n \in Nat : n = Len(stmts)
  OBVIOUS
<1>2. PICK step : step = [i \in 1..n |-> [x \in (Commands \cup {Unknown}) |-> Worse(x, stmts[i])]]
  OBVIOUS
<1>3. Unknown \in Commands \cup {Unknown} /\ step \in [1..n -> [(Commands \cup {Unknown}) -> (Commands \cup {Unknown})]]
  <2>1. Unknown \in Commands \cup {Unknown}
    OBVIOUS
  <2>2. ASSUME NEW i \in 1..n, NEW x \in Commands \cup {Unknown} PROVE Worse(x, stmts[i]) \in Commands \cup {Unknown}
    BY CommandOrNone DEF Worse
  <2> QED
    BY <1>2, <2>1, <2>2
<1>4. PICK g : Rounds(g, n, (Commands \cup {Unknown}), Unknown, step)
  BY <1>3, LoopHasStates
<1>5. g \in [0..n -> (Commands \cup {Unknown})] /\ g[0] = Unknown
  BY <1>4 DEF Rounds
<1>6. ASSUME NEW i \in 1..n PROVE g[i] = Worse(g[i - 1], stmts[i])
  <2>1. g[i] = step[i][g[i - 1]] /\ g[i - 1] \in Commands \cup {Unknown}
    BY <1>4, <1>5 DEF Rounds
  <2> QED
    BY <1>2, <2>1
<1>7. g = Next1(g)
  BY <1>1, <1>5, <1>6
<1>8. PICK f : f = CHOOSE x : x = Next1(x)
  OBVIOUS
<1>9. f = Next1(f)
  BY <1>7, <1>8, Zenon
<1>10. WorstOf(stmts) = f[Len(stmts)]
  BY <1>8 DEF WorstOf
<1>11. f[0] = Unknown
  BY <1>1, <1>9
<1>12. ASSUME NEW i \in 1..n PROVE f[i] = Worse(f[i - 1], stmts[i])
  <2>1. i \in 0..Len(stmts) /\ i # 0
    BY <1>1
  <2> QED
    BY <1>9, <2>1, Zenon
<1>13. f \in [0..n -> (Commands \cup {Unknown})]
  <2>1. ASSUME NEW i \in 1..n, f[i - 1] \in Commands \cup {Unknown} PROVE f[i] \in Commands \cup {Unknown}
    <3>1. PICK x \in Commands \cup {Unknown} : x = f[i - 1]
      BY <2>1
    <3>2. step[i][x] = Worse(x, stmts[i]) /\ step[i][x] \in Commands \cup {Unknown}
      BY <1>2, <1>3
    <3> QED
      BY <1>12, <3>1, <3>2
  <2>2. f = [i \in 0..n |-> f[i]]
    BY <1>1, <1>9
  <2> QED
    BY <1>3, <1>11, <2>1, <2>2, LoopStatesAre
<1> QED
  BY <1>1, <1>10, <1>11, <1>12, <1>13

\* What the splitter has found by now: the commands of the statements.
CommandsOf(stmts) == {prefixCommand(stmts[k]) : k \in 1..Len(stmts)}
Found(a) == {prefixCommand(a.cur)} \cup CommandsOf(a.out)

\* Splitter and lexer in step.
Alike(a, b) ==
    /\ b.mode = a.quote
    /\ b.fresh <=> Blank(a.cur)
    /\ a.quote # "" => ~Blank(a.cur)
    /\ b.heads \cap Commands = Found(a) \cap Commands

\* One statement more.
LEMMA FoundMore ==
    ASSUME NEW X, NEW out \in Seq(Seq(X)), NEW last \in Seq(X)
    PROVE  CommandsOf(Append(out, last)) = CommandsOf(out) \cup {prefixCommand(last)}
<1>0. PICK n \in Nat : n = Len(out)
  OBVIOUS
<1>1. PICK more : n = Len(out) /\ more = Append(out, last)
  BY <1>0
<1>2. Len(more) = n + 1 /\ more[n + 1] = last /\ \A i \in 1..n : more[i] = out[i]
  BY <1>1
<1>3. \A i \in 1..(n + 1) : i \in 1..n \/ i = n + 1
  OBVIOUS
<1>4. n + 1 \in 1..(n + 1) /\ \A i \in 1..n : i \in 1..(n + 1)
  OBVIOUS
<1> QED
  BY <1>1, <1>2, <1>3, <1>4 DEF CommandsOf

\* They stay in step on a word that is no comment mark.
LEMMA StayAlike ==
    ASSUME NEW X, NEW a \in Splitting(X), NEW b \in Lexing(X), NEW t \in X,
           t \notin {"--", "/*", "*/"}, Alike(a, b)
    PROVE  Alike(SplitAt(a, t), LexAt(b, t))
<1>1. /\ a.out \in Seq(Seq(X)) /\ a.cur \in Seq(X) /\ a.quote \in {"", "sq", "dq"}
      /\ b.mode = a.quote /\ b.mode \in {"", "sq", "dq"} /\ b.fresh \in BOOLEAN
      /\ b.fresh <=> Blank(a.cur)
      /\ a.quote # "" => ~Blank(a.cur)
      /\ b.heads \cap Commands = Found(a) \cap Commands
  BY DEF Splitting, Lexing, Alike
<1>2. PICK d : d = SplitAt(a, t)
  OBVIOUS
<1>3. PICK e : e = LexAt(b, t)
  OBVIOUS
<1>4. /\ d \in Splitting(X)
      /\ \/ /\ a.quote # "" /\ d.quote = (IF t = a.quote THEN "" ELSE a.quote)
            /\ d.cur = Append(a.cur, t) /\ d.out = a.out
         \/ /\ a.quote = "" /\ t \in Quotes /\ d.quote = t
            /\ d.cur = Append(a.cur, t) /\ d.out = a.out
         \/ /\ a.quote = "" /\ t = ";" /\ d.quote = ""
            /\ d.cur = <<>> /\ d.out = Append(a.out, a.cur)
         \/ /\ a.quote = "" /\ t \notin Quotes /\ t # ";" /\ d.quote = ""
            /\ d.cur = Append(a.cur, t) /\ d.out = a.out
  <2>1. d \in Splitting(X) /\ SplitsBy(a, t, d)
    BY <1>2, SplitStep
  <2> QED
    BY <2>1, Zenon DEF SplitsBy
<1>5. \/ /\ b.mode # "" /\ e.mode = (IF t = b.mode THEN "" ELSE b.mode)
         /\ e.fresh = b.fresh /\ e.heads = b.heads
      \/ /\ b.mode = "" /\ t \in Quotes /\ e.mode = t /\ e.fresh = FALSE
         /\ e.heads = b.heads \cup (IF b.fresh THEN {"x"} ELSE {})
      \/ /\ b.mode = "" /\ t = ";" /\ e.mode = "" /\ e.fresh = TRUE
         /\ e.heads = b.heads
      \/ /\ b.mode = "" /\ t = "nl" /\ e = b
      \/ /\ b.mode = "" /\ t \notin Quotes \cup {";", "nl"} /\ e.mode = "" /\ e.fresh = FALSE
         /\ e.heads = b.heads \cup (IF b.fresh THEN {t} ELSE {})
  <2>1. b.mode \in {"", "sq", "dq"}
    BY <1>1
  <2> QED
    <3>1. LexesBy(b, t, e)
      BY <1>3, <2>1, LexStep
    <3> QED
      BY <3>1, Zenon DEF LexesBy
<1>6. /\ ";" \notin Quotes /\ "nl" \notin Quotes /\ "" \notin Quotes
      /\ "x" \notin Commands /\ "nl" \notin Commands /\ ";" \notin Commands /\ Unknown \notin Commands
      /\ \A q \in Quotes : q \notin Commands /\ q # "nl"
  BY DEF Quotes, Commands, Unknown
<1>7. /\ Append(a.cur, t) \in Seq(X)
      /\ Blank(Append(a.cur, t)) <=> Blank(a.cur) /\ t = "nl"
      /\ prefixCommand(Append(a.cur, t)) = IF ~Blank(a.cur) THEN prefixCommand(a.cur)
                                           ELSE IF t \in Commands THEN t ELSE Unknown
  <2>1. a.cur \in Seq(X)
    BY <1>1
  <2> QED
    BY <2>1, OneWordMore, Zenon
<1>8. Blank(a.cur) => prefixCommand(a.cur) = Unknown
  BY <1>1, NoWord DEF Blank
<1>9. PICK rest : rest = CommandsOf(a.out)
  OBVIOUS
<1>10. Found(a) = {prefixCommand(a.cur)} \cup rest
  BY <1>9 DEF Found
<1>11. d.out = a.out => Found(d) = {prefixCommand(d.cur)} \cup rest
  BY <1>9 DEF Found
<1>12. CASE a.quote # ""
  <2>1. /\ d.quote = (IF t = a.quote THEN "" ELSE a.quote) /\ d.cur = Append(a.cur, t) /\ d.out = a.out
        /\ e.mode = d.quote /\ e.fresh = b.fresh /\ e.heads = b.heads
    BY <1>1, <1>4, <1>5, <1>12
  <2>2. ~Blank(a.cur) /\ ~Blank(d.cur) /\ prefixCommand(d.cur) = prefixCommand(a.cur)
    BY <1>1, <1>7, <1>12, <2>1
  <2>3. Found(d) = Found(a)
    BY <1>10, <1>11, <2>1, <2>2
  <2> QED
    BY <1>1, <1>2, <1>3, <2>1, <2>2, <2>3 DEF Alike
<1>13. CASE a.quote = "" /\ t \in Quotes
  <2>1. /\ d.quote = t /\ d.cur = Append(a.cur, t) /\ d.out = a.out
        /\ e.mode = t /\ e.fresh = FALSE /\ e.heads = b.heads \cup (IF b.fresh THEN {"x"} ELSE {})
    BY <1>1, <1>4, <1>5, <1>6, <1>13
  <2>2. ~Blank(d.cur) /\ prefixCommand(d.cur) = (IF ~Blank(a.cur) THEN prefixCommand(a.cur) ELSE Unknown)
    BY <1>6, <1>7, <1>13, <2>1
  <2>3. prefixCommand(d.cur) = prefixCommand(a.cur)
    BY <1>8, <2>2
  <2>4. Found(d) = Found(a) /\ e.heads \cap Commands = b.heads \cap Commands
    BY <1>6, <1>10, <1>11, <2>1, <2>3
  <2> QED
    BY <1>1, <1>2, <1>3, <2>1, <2>2, <2>4 DEF Alike
<1>14. CASE a.quote = "" /\ t = ";"
  <2>1. /\ d.quote = "" /\ d.cur = <<>> /\ d.out = Append(a.out, a.cur)
        /\ e.mode = "" /\ e.fresh = TRUE /\ e.heads = b.heads
    BY <1>1, <1>4, <1>5, <1>6, <1>14
  <2>2. <<>> \in Seq(X) /\ Blank(<<>>) /\ prefixCommand(<<>>) = Unknown
    <3>1. <<>> \in Seq(X) /\ \A j \in 1..Len(<<>>) : <<>>[j] = "nl"
      OBVIOUS
    <3> QED
      BY <3>1, NoWord DEF Blank
  <2>3. Found(d) = {Unknown} \cup {prefixCommand(a.cur)} \cup rest
    <3>1. CommandsOf(d.out) = rest \cup {prefixCommand(a.cur)}
      <4>1. a.out \in Seq(Seq(X)) /\ a.cur \in Seq(X)
        BY <1>1
      <4>2. CommandsOf(Append(a.out, a.cur)) = CommandsOf(a.out) \cup {prefixCommand(a.cur)}
        BY <4>1, FoundMore
      <4> QED
        BY <1>9, <2>1, <4>2
    <3> QED
      BY <2>1, <2>2, <3>1 DEF Found
  <2>4. e.heads \cap Commands = Found(d) \cap Commands
    BY <1>1, <1>6, <1>10, <2>1, <2>3
  <2> QED
    BY <1>2, <1>3, <2>1, <2>2, <2>4 DEF Alike
<1>15. CASE a.quote = "" /\ t = "nl"
  <2>1. /\ d.quote = "" /\ d.cur = Append(a.cur, t) /\ d.out = a.out /\ e = b
    BY <1>1, <1>4, <1>5, <1>6, <1>15
  <2>2. Blank(d.cur) <=> Blank(a.cur)
    BY <1>7, <1>15, <2>1
  <2>3. prefixCommand(d.cur) = prefixCommand(a.cur)
    BY <1>6, <1>7, <1>8, <1>15, <2>1
  <2>4. Found(d) = Found(a)
    BY <1>10, <1>11, <2>1, <2>3
  <2> QED
    BY <1>1, <1>2, <1>3, <1>15, <2>1, <2>2, <2>4 DEF Alike
<1>16. CASE a.quote = "" /\ t \notin Quotes \cup {";", "nl"}
  <2>1. /\ d.quote = "" /\ d.cur = Append(a.cur, t) /\ d.out = a.out
        /\ e.mode = "" /\ e.fresh = FALSE /\ e.heads = b.heads \cup (IF b.fresh THEN {t} ELSE {})
    BY <1>1, <1>4, <1>5, <1>16
  <2>2. ~Blank(d.cur)
    BY <1>7, <1>16, <2>1
  <2>3. CASE Blank(a.cur)
    <3>1. prefixCommand(d.cur) = (IF t \in Commands THEN t ELSE Unknown) /\ prefixCommand(a.cur) = Unknown
      BY <1>7, <1>8, <2>1, <2>3
    <3>2. e.heads = b.heads \cup {t}
      BY <1>1, <2>1, <2>3
    <3>3. Found(d) \cap Commands = (Found(a) \cup {t}) \cap Commands
      BY <1>6, <1>10, <1>11, <2>1, <3>1
    <3> QED
      BY <1>1, <1>2, <1>3, <2>1, <2>2, <3>2, <3>3 DEF Alike
  <2>4. CASE ~Blank(a.cur)
    <3>1. prefixCommand(d.cur) = prefixCommand(a.cur) /\ e.heads = b.heads
      BY <1>1, <1>7, <2>1, <2>4
    <3>2. Found(d) = Found(a)
      BY <1>10, <1>11, <2>1, <3>1
    <3> QED
      BY <1>1, <1>2, <1>3, <2>1, <2>2, <3>1, <3>2 DEF Alike
  <2> QED
    BY <2>3, <2>4
<1> QED
  BY <1>12, <1>13, <1>14, <1>15, <1>16

\* So the guard's statements begin with the commands a database finds.
LEMMA SameCommands ==
    ASSUME NEW X, NEW s \in Seq(X), ToSet(s) \cap {"--", "/*", "*/"} = {}
    PROVE  /\ splitStatements(s) \in Seq(Seq(X))
           /\ CommandsOf(splitStatements(s)) \cap Commands = HeadWords(s) \cap Commands
<1>1. PICK n \in Nat : n = Len(s)
  OBVIOUS
<1>2. PICK f \in [0..n -> Splitting(X)] :
        /\ f[0] = NothingYet /\ \A i \in 1..n : f[i] = SplitAt(f[i - 1], s[i])
        /\ splitStatements(s) = IF f[n].cur = <<>> THEN f[n].out ELSE Append(f[n].out, f[n].cur)
  BY <1>1, SplitStates
<1>3. PICK g \in [0..n -> Lexing(X)] :
        /\ g[0] = Start /\ Lexed(s) = g[n]
        /\ \A i \in 1..n : g[i] = LexAt(g[i - 1], s[i])
  BY <1>1, LexStates
<1> DEFINE P == {i \in 0..n : Alike(f[i], g[i])}
<1>4. 0 \in P
  <2>1. /\ f[0].out = <<>> /\ f[0].cur = <<>> /\ f[0].quote = ""
        /\ g[0].mode = "" /\ g[0].fresh = TRUE /\ g[0].heads = {}
    <3>1. NothingYet.out = <<>> /\ NothingYet.cur = <<>> /\ NothingYet.quote = ""
      BY DEF NothingYet
    <3>2. Start.mode = "" /\ Start.fresh = TRUE /\ Start.heads = {}
      BY DEF Start
    <3>3. f[0] = NothingYet /\ g[0] = Start
      BY <1>2, <1>3
    <3> QED
      BY <3>1, <3>2, <3>3
  <2>2. <<>> \in Seq(X) /\ Blank(<<>>) /\ prefixCommand(<<>>) = Unknown
    <3>1. <<>> \in Seq(X) /\ \A j \in 1..Len(<<>>) : <<>>[j] = "nl"
      OBVIOUS
    <3> QED
      BY <3>1, NoWord DEF Blank
  <2>3. CommandsOf(<<>>) = {}
    BY DEF CommandsOf
  <2>4. Unknown \notin Commands
    BY DEF Commands, Unknown
  <2>5. Alike(f[0], g[0])
    BY <2>1, <2>2, <2>3, <2>4 DEF Alike, Found
  <2> QED
    BY <2>5
<1>5. ASSUME NEW i \in 1..n, i - 1 \in P PROVE i \in P
  <2>1. PICK a \in Splitting(X), b \in Lexing(X), t \in X :
           /\ a = f[i - 1] /\ b = g[i - 1] /\ t = s[i]
           /\ f[i] = SplitAt(a, t) /\ g[i] = LexAt(b, t)
    <3>1. f[i - 1] \in Splitting(X) /\ g[i - 1] \in Lexing(X) /\ s[i] \in X
      BY <1>1
    <3> QED
      BY <1>2, <1>3, <3>1
  <2>2. t \notin {"--", "/*", "*/"}
    <3>1. s[i] \in ToSet(s)
      BY <1>1 DEF ToSet
    <3> QED
      BY <2>1, <3>1
  <2>3. Alike(a, b)
    BY <1>5, <2>1
  <2>4. Alike(SplitAt(a, t), LexAt(b, t))
    BY <2>2, <2>3, StayAlike
  <2> QED
    BY <2>1, <2>4
<1>6. \A i \in 0..n : i \in P
  <2> HIDE DEF P
  <2> QED
    BY <1>4, <1>5, IndexInduction
<1>7. PICK a \in Splitting(X), b \in Lexing(X) : a = f[n] /\ b = g[n] /\ Alike(a, b)
  <2>1. n \in 0..n
    OBVIOUS
  <2> QED
    BY <1>6, <2>1
<1>8. a.out \in Seq(Seq(X)) /\ a.cur \in Seq(X)
  BY DEF Splitting
<1>9. HeadWords(s) \cap Commands = Found(a) \cap Commands
  BY <1>3, <1>7 DEF Alike, HeadWords
<1>10. CASE a.cur = <<>>
  <2>1. splitStatements(s) = a.out
    BY <1>2, <1>7, <1>10
  <2>2. prefixCommand(<<>>) = Unknown /\ Unknown \notin Commands
    <3>1. <<>> \in Seq(X) /\ \A j \in 1..Len(<<>>) : <<>>[j] = "nl"
      OBVIOUS
    <3> QED
      BY <3>1, NoWord DEF Commands, Unknown
  <2>3. Found(a) \cap Commands = CommandsOf(a.out) \cap Commands
    BY <1>10, <2>2 DEF Found
  <2> QED
    BY <1>8, <1>9, <2>1, <2>3
<1>11. CASE a.cur # <<>>
  <2>1. splitStatements(s) = Append(a.out, a.cur)
    BY <1>2, <1>7, <1>11
  <2>2. CommandsOf(Append(a.out, a.cur)) = CommandsOf(a.out) \cup {prefixCommand(a.cur)}
    BY <1>8, FoundMore
  <2>3. Append(a.out, a.cur) \in Seq(Seq(X))
    BY <1>8
  <2>4. Found(a) = CommandsOf(Append(a.out, a.cur))
    BY <2>2 DEF Found
  <2> QED
    BY <1>9, <2>1, <2>3, <2>4
<1> QED
  BY <1>10, <1>11

\* The risks of the commands.
LEMMA Risks ==
    /\ \A c : riskLevel(c) \in Nat
    /\ riskLevel(Unknown) = 0 /\ riskLevel("SELECT") = 1
    /\ \A c \in Commands : riskLevel(c) >= 1
    /\ \A c \in Commands : c # "SELECT" => riskLevel(c) >= 2
<1>1. \A c : riskLevel(c) \in {0, 1, 2, 3, 4, 5}
  BY DEF riskLevel
<1>2. riskLevel(Unknown) = 0 /\ riskLevel("SELECT") = 1
  BY DEF riskLevel, Unknown
<1>3. \A c \in Commands : c # "SELECT" => riskLevel(c) \in {2, 3, 4, 5}
  BY DEF riskLevel, Commands
<1>4. \A r \in {2, 3, 4, 5} : r >= 2
  OBVIOUS
<1> QED
  BY <1>1, <1>2, <1>3, <1>4

\* The command that stands for a text is one of its, of the highest risk.
LEMMA WorstIsWorst ==
    ASSUME NEW stmts, Len(stmts) \in Nat
    PROVE  /\ WorstOf(stmts) \in CommandsOf(stmts) \cup {Unknown}
           /\ \A c \in CommandsOf(stmts) : riskLevel(c) <= riskLevel(WorstOf(stmts))
<1>1. PICK n \in Nat : n = Len(stmts)
  OBVIOUS
<1>2. PICK f \in [0..n -> (Commands \cup {Unknown})] :
        /\ f[0] = Unknown /\ WorstOf(stmts) = f[n]
        /\ \A i \in 1..n : f[i] = Worse(f[i - 1], stmts[i])
  BY <1>1, WorstStates
<1> DEFINE Done(i) == /\ f[i] = Unknown \/ \E k \in 1..i : f[i] = prefixCommand(stmts[k])
                      /\ \A k \in 1..i : riskLevel(prefixCommand(stmts[k])) <= riskLevel(f[i])
           P == {i \in 0..n : Done(i)}
<1>3. 0 \in P
  BY <1>2
<1>4. ASSUME NEW i \in 1..n, i - 1 \in P PROVE i \in P
  <2>1. PICK w, c : w = f[i - 1] /\ c = prefixCommand(stmts[i])
    OBVIOUS
  <2>2. f[i] = IF riskLevel(c) > riskLevel(w) THEN c ELSE w
    BY <1>2, <2>1 DEF Worse
  <2>3. /\ w = Unknown \/ \E k \in 1..(i - 1) : w = prefixCommand(stmts[k])
        /\ \A k \in 1..(i - 1) : riskLevel(prefixCommand(stmts[k])) <= riskLevel(w)
    BY <1>4, <2>1
  <2>4. \A k \in 1..i : k \in 1..(i - 1) \/ k = i
    OBVIOUS
  <2>5. i \in 1..i /\ \A k \in 1..(i - 1) : k \in 1..i
    OBVIOUS
  <2>6. \A x : riskLevel(x) \in Nat
    BY Risks
  <2>7. f[i] = Unknown \/ \E k \in 1..i : f[i] = prefixCommand(stmts[k])
    BY <2>1, <2>2, <2>3, <2>5
  <2>8. riskLevel(w) <= riskLevel(f[i]) /\ riskLevel(c) <= riskLevel(f[i])
    BY <2>2, <2>6
  <2>9. ASSUME NEW k \in 1..i PROVE riskLevel(prefixCommand(stmts[k])) <= riskLevel(f[i])
    <3>1. CASE k = i
      BY <2>1, <2>8, <3>1
    <3>2. CASE k \in 1..(i - 1)
      <4>1. riskLevel(prefixCommand(stmts[k])) <= riskLevel(w)
        BY <2>3, <3>2
      <4> QED
        BY <2>6, <2>8, <4>1
    <3> QED
      BY <2>4, <3>1, <3>2
  <2> QED
    BY <2>7, <2>9
<1>5. \A i \in 0..n : i \in P
  <2> HIDE DEF P
  <2> QED
    BY <1>3, <1>4, IndexInduction
<1>6. Done(n)
  BY <1>5
<1> QED
  BY <1>1, <1>2, <1>6 DEF CommandsOf

\* The guard sees the worst command a database will find, in any text.
LEMMA GuardIsRight ==
    ASSUME NEW X, NEW s \in Seq(X)
    PROVE  GuardSeesWorst(s)
<1>1. SUFFICES ASSUME PlainAfterTrim(s)
               PROVE  IF HeadWords(s) \cap Commands = {} THEN detectCommand(s) = Unknown
                      ELSE /\ detectCommand(s) \in HeadWords(s) \cap Commands
                           /\ \A c \in HeadWords(s) \cap Commands : riskLevel(c) <= riskLevel(detectCommand(s))
  BY DEF GuardSeesWorst
<1>2. PICK t \in Seq(X) : t = trimSQL(s) /\ HeadWords(t) = HeadWords(s)
  BY TrimKeepsHeads
<1>3. PICK stmts \in Seq(Seq(X)) :
        stmts = splitStatements(t) /\ CommandsOf(stmts) \cap Commands = HeadWords(t) \cap Commands
  BY <1>1, <1>2, SameCommands DEF PlainAfterTrim
<1>4. PICK w : w = WorstOf(stmts) /\ w = detectCommand(s)
  BY <1>2, <1>3 DEF detectCommand
<1>5. /\ w \in CommandsOf(stmts) \cup {Unknown}
      /\ \A c \in CommandsOf(stmts) : riskLevel(c) <= riskLevel(w)
  <2>1. Len(stmts) \in Nat
    OBVIOUS
  <2>2. /\ WorstOf(stmts) \in CommandsOf(stmts) \cup {Unknown}
        /\ \A c \in CommandsOf(stmts) : riskLevel(c) <= riskLevel(WorstOf(stmts))
    BY <2>1, WorstIsWorst
  <2> QED
    BY <1>4, <2>2
<1>6. CommandsOf(stmts) \subseteq Commands \cup {Unknown}
  BY CommandOrNone DEF CommandsOf
<1>7. CASE HeadWords(s) \cap Commands = {}
  BY <1>2, <1>3, <1>4, <1>5, <1>6, <1>7
<1>8. CASE HeadWords(s) \cap Commands # {}
  <2>1. PICK c \in Commands : c \in CommandsOf(stmts)
    BY <1>2, <1>3, <1>8
  <2>2. riskLevel(c) >= 1 /\ riskLevel(c) <= riskLevel(w) /\ riskLevel(c) \in Nat /\ riskLevel(w) \in Nat
    BY <1>5, <2>1, Risks
  <2>3. w # Unknown
    BY <2>2, Risks
  <2>4. w \in CommandsOf(stmts) \cap Commands
    BY <1>5, <1>6, <2>3
  <2> QED
    BY <1>2, <1>3, <1>4, <1>5, <1>8, <2>4
<1> QED
  BY <1>7, <1>8

-----------------------------------------------------------------------------
(* The gate.                                                                 *)

\* What the account may do by the roles as they are now.
Effective == GetEffectivePerms(roles, token.role, token.perm)
Allowed   == CheckDBAccess(Effective, GetEffectiveDBAccess(roles, token.role, ScopeOf(token)), Conn)

\* What the variables of a request hold.
GateTypes ==
    /\ token \in Tokens /\ route \in DOMAIN Routes /\ text \in Texts /\ roles \in RoleTables
    /\ edited \in BOOLEAN
    /\ stage \in {"auth", "access", "perm", "guard", "risk", "done"}
    /\ ran \in {"nothing", "Query", "Execute"}
    /\ GateTypeOK

\* The handler let the text pass, before it ran.
LetPass ==
    /\ Of.handler = "QueryConnection" => CheckCommand(text, perms)
    /\ Of.handler = "ExecuteConnection" =>
          \/ CheckCommand(text, perms)
          \/ detectCommand(text) = Unknown /\ HasResourcePermission(perms, "execute", "*")
    /\ Of.handler = "ExecuteSafe" =>
          CheckCommand(text, token.perm) /\ (confirm \/ Classify(text) # "HIGH")

\* Why a request was refused.
LacksOne ==
    \/ Of.scoped /\ ~Allowed
    \/ ~HasPermission(Effective, Of.need)
    \/ Of.handler # "ExecuteSafe" /\ ~CheckCommand(text, Effective)
    \/ Of.handler = "ExecuteSafe" /\ ~CheckCommand(text, token.perm)

\* What the checks behind a request have shown.
PastPerm   == stage = "guard" \/ stage = "risk" \/ ran # "nothing"
PastAccess == stage = "perm" \/ PastPerm
PastAuth   == stage = "access" \/ PastAccess
GateIInv ==
    /\ GateTypes
    /\ PastAuth \/ status = 403 => token.kind # "none"
    /\ stage = "access" => Of.scoped
    /\ PastAccess /\ Of.scoped /\ ~edited => Allowed
    /\ PastPerm => perms = Effective /\ HasPermission(perms, Of.need)
    /\ stage = "risk" => Of.handler = "ExecuteSafe" /\ CheckCommand(text, token.perm)
    /\ ran # "nothing" => LetPass
    /\ status = 403 /\ ~edited => LacksOne

\* A request starts with nothing checked.
LEMMA GateStarts == GateInit => GateIInv
<1> SUFFICES ASSUME GateInit PROVE GateIInv
  OBVIOUS
<1>1. GateTypes
  <2>1. status = 0 /\ ran = "nothing" /\ stage = "auth"
    BY DEF GateInit
  <2>2. status \in {0, 200, 401, 403, 409}
    BY <2>1
  <2>3. GateTypeOK
    <3>1. status # 200 /\ status = 0 /\ ran = "nothing" /\ stage # "done"
      BY <2>1
    <3> QED
      BY <2>2, <3>1 DEF GateTypeOK
  <2> QED
    BY <2>1, <2>3 DEF GateInit, GateTypes
<1>2. stage = "auth" /\ ran = "nothing" /\ status = 0
  BY DEF GateInit
<1> QED
  BY <1>1, <1>2 DEF GateIInv, PastAuth, PastAccess, PastPerm

\* What does not change with the request and the roles.
LEMMA SameRequest ==
    ASSUME UNCHANGED request, UNCHANGED roles
    PROVE  /\ Of' = Of /\ Effective' = Effective /\ Allowed' = Allowed
           /\ token' = token /\ route' = route /\ text' = text /\ confirm' = confirm
<1>1. token' = token /\ route' = route /\ text' = text /\ confirm' = confirm /\ roles' = roles
  BY DEF request
<1>2. Of' = Of
  BY <1>1 DEF Of
<1>3. Effective' = Effective
  BY <1>1 DEF Effective
<1> QED
  BY <1>1, <1>2, <1>3 DEF Allowed

\* Each check keeps the types.
LEMMA GateTypesKept ==
    ASSUME GateIInv, GateNext
    PROVE  GateTypes'
<1>1. /\ token \in Tokens /\ route \in DOMAIN Routes /\ text \in Texts /\ roles \in RoleTables
      /\ edited \in BOOLEAN
      /\ stage \in {"auth", "access", "perm", "guard", "risk", "done"}
      /\ ran \in {"nothing", "Query", "Execute"}
      /\ status \in {0, 200, 401, 403, 409} /\ ((status # 0) <=> (stage = "done")) /\ ((ran # "nothing") <=> (status = 200))
  BY DEF GateIInv, GateTypes, GateTypeOK
<1>2. token' = token /\ route' = route /\ text' = text
  BY DEF GateNext, Auth, DBAccess, PermissionCheck, QueryConnection, ExecuteConnection, ExecuteSafe, Execute, EditRole, request
<1>3. roles' \in RoleTables /\ edited' \in BOOLEAN
  BY <1>1 DEF GateNext, Auth, DBAccess, PermissionCheck, QueryConnection, ExecuteConnection, ExecuteSafe, Execute, EditRole
<1>4. \/ stage' \in {"access", "perm", "guard", "risk"} /\ status' = 0 /\ ran' = "nothing"
      \/ stage' = "done" /\ status' \in {401, 403, 409} /\ ran' = "nothing"
      \/ stage' = "done" /\ status' = 200 /\ ran' \in {"Query", "Execute"}
  <2>1. stage # "done" => status = 0 /\ ran = "nothing"
    <3>1. (status # 0 <=> stage = "done") /\ (ran # "nothing" <=> status = 200)
      BY DEF GateIInv, GateTypes, GateTypeOK
    <3> QED
      BY <3>1
  <2>2. CASE Auth
    BY <2>1, <2>2 DEF Auth, Answer
  <2>3. CASE DBAccess
    BY <2>1, <2>3 DEF DBAccess, Answer
  <2>4. CASE PermissionCheck
    BY <2>1, <2>4 DEF PermissionCheck, Answer
  <2>5. CASE QueryConnection
    BY <2>1, <2>5 DEF QueryConnection, Run, Answer
  <2>6. CASE ExecuteConnection
    BY <2>1, <2>6 DEF ExecuteConnection, Run, Answer
  <2>7. CASE ExecuteSafe
    BY <2>1, <2>7 DEF ExecuteSafe, Answer
  <2>8. CASE Execute
    BY <2>1, <2>8 DEF Execute, Run, Answer
  <2>9. CASE EditRole
    BY <2>1, <2>9 DEF EditRole
  <2> QED
    BY <2>2, <2>3, <2>4, <2>5, <2>6, <2>7, <2>8, <2>9 DEF GateNext
<1>5. GateTypeOK'
  <2>1. status' \in {0, 200, 401, 403, 409}
    <3>1. status' = 0 \/ status' \in {401, 403, 409} \/ status' = 200
      BY <1>4
    <3> QED
      BY <3>1
  <2>2. \/ stage' # "done" /\ status' = 0 /\ ran' = "nothing"
        \/ stage' = "done" /\ status' \in {401, 403, 409} /\ ran' = "nothing"
        \/ stage' = "done" /\ status' = 200 /\ ran' # "nothing"
    BY <1>4
  <2>3. (status' # 0 <=> stage' = "done") /\ (ran' # "nothing" <=> status' = 200)
    <3>1. status' \in {401, 403, 409} => status' # 0 /\ status' # 200
      OBVIOUS
    <3>2. /\ status' = 0 => status' # 200
          /\ status' = 200 => status' # 0
      OBVIOUS
    <3> QED
      BY <2>2, <3>1, <3>2
  <2> QED
    BY <2>1, <2>3 DEF GateTypeOK
<1>6. /\ stage' \in {"auth", "access", "perm", "guard", "risk", "done"}
      /\ ran' \in {"nothing", "Query", "Execute"}
  BY <1>4
<1> QED
  BY <1>1, <1>2, <1>3, <1>5, <1>6 DEF GateTypes

\* Each check adds what it shows to what was shown before it.
LEMMA GateSteps == GateIInv /\ [GateNext]_gateVars => GateIInv'
<1> SUFFICES ASSUME GateIInv, [GateNext]_gateVars PROVE GateIInv'
  OBVIOUS
<1>1. CASE UNCHANGED gateVars
  <2>1. /\ UNCHANGED request /\ UNCHANGED roles
        /\ edited' = edited /\ stage' = stage /\ perms' = perms /\ status' = status /\ ran' = ran
    BY <1>1 DEF gateVars, request
  <2>2. /\ Of' = Of /\ Effective' = Effective /\ Allowed' = Allowed
        /\ token' = token /\ route' = route /\ text' = text /\ confirm' = confirm
    BY <2>1, SameRequest
  <2>3. GateTypes'
    <3>1. GateTypes /\ GateTypeOK
      BY DEF GateIInv, GateTypes
    <3>2. GateTypeOK'
      BY <2>1, <3>1 DEF GateTypeOK
    <3>3. roles' = roles
      BY <2>1
    <3> QED
      BY <2>1, <2>2, <3>1, <3>2, <3>3 DEF GateTypes
  <2>4. (PastAuth' <=> PastAuth) /\ (PastAccess' <=> PastAccess) /\ (PastPerm' <=> PastPerm)
    BY <2>1 DEF PastAuth, PastAccess, PastPerm
  <2>5. LetPass' <=> LetPass
    BY <2>1, <2>2 DEF LetPass
  <2>6. LacksOne' <=> LacksOne
    BY <2>2 DEF LacksOne
  <2> QED
    BY <2>1, <2>2, <2>3, <2>4, <2>5, <2>6 DEF GateIInv
<1>2. CASE GateNext
  <2>1. GateTypes'
    BY <1>2, GateTypesKept
  <2>2. /\ stage # "done" => status = 0 /\ ran = "nothing"
        /\ ran # "nothing" => status = 200
    <3>1. (status # 0 <=> stage = "done") /\ (ran # "nothing" <=> status = 200)
      BY DEF GateIInv, GateTypes, GateTypeOK
    <3> QED
      BY <3>1
  <2>3. CASE ~EditRole
    <3>1. UNCHANGED request /\ UNCHANGED roles /\ edited' = edited
      BY <1>2, <2>3 DEF GateNext, Auth, DBAccess, PermissionCheck, QueryConnection, ExecuteConnection, ExecuteSafe, Execute
    <3>2. /\ Of' = Of /\ Effective' = Effective /\ Allowed' = Allowed
          /\ token' = token /\ route' = route /\ text' = text /\ confirm' = confirm
      BY <3>1, SameRequest
    <3>3. CASE Auth
      <4>1. stage = "auth" /\ perms' = perms /\ ran' = "nothing" /\ ran = "nothing" /\ status = 0
        BY <2>2, <3>3 DEF Auth
      <4>2. CASE token.kind = "none"
        <5>1. stage' = "done" /\ status' = 401
          BY <3>3, <4>2 DEF Auth, Answer
        <5> QED
          BY <2>1, <4>1, <5>1 DEF GateIInv, PastAuth, PastAccess, PastPerm
      <4>3. CASE token.kind # "none"
        <5>1. stage' = (IF Of.scoped THEN "access" ELSE "perm") /\ status' = 0
          BY <3>3, <4>1, <4>3 DEF Auth
        <5> QED
          BY <2>1, <3>2, <4>1, <4>3, <5>1 DEF GateIInv, PastAuth, PastAccess, PastPerm
      <4> QED
        BY <4>2, <4>3
    <3>4. CASE DBAccess
      <4>1. stage = "access" /\ perms' = perms /\ ran' = "nothing" /\ ran = "nothing" /\ status = 0
        BY <2>2, <3>4 DEF DBAccess
      <4>2. token.kind # "none" /\ Of.scoped
        BY <4>1 DEF GateIInv, PastAuth, PastAccess, PastPerm
      <4>3. CASE Allowed
        <5>1. stage' = "perm" /\ status' = 0
          BY <3>4, <4>1, <4>3 DEF DBAccess, Allowed, Effective
        <5> QED
          BY <2>1, <3>1, <3>2, <4>1, <4>2, <4>3, <5>1 DEF GateIInv, PastAuth, PastAccess, PastPerm
      <4>4. CASE ~Allowed
        <5>1. stage' = "done" /\ status' = 403
          BY <3>4, <4>1, <4>4 DEF DBAccess, Allowed, Effective, Answer
        <5> QED
          BY <2>1, <3>1, <3>2, <4>1, <4>2, <4>4, <5>1 DEF GateIInv, PastAuth, PastAccess, PastPerm, LacksOne
      <4> QED
        BY <4>3, <4>4
    <3>5. CASE PermissionCheck
      <4>1. stage = "perm" /\ perms' = Effective /\ ran' = "nothing" /\ ran = "nothing" /\ status = 0
        BY <2>2, <3>5 DEF PermissionCheck, Effective
      <4>2. token.kind # "none" /\ (Of.scoped /\ ~edited => Allowed)
        BY <4>1 DEF GateIInv, PastAuth, PastAccess, PastPerm
      <4>3. CASE HasPermission(perms', Of.need)
        <5>1. stage' = "guard" /\ status' = 0
          BY <3>5, <4>1, <4>3 DEF PermissionCheck
        <5> QED
          BY <2>1, <3>1, <3>2, <4>1, <4>2, <4>3, <5>1 DEF GateIInv, PastAuth, PastAccess, PastPerm
      <4>4. CASE ~HasPermission(perms', Of.need)
        <5>1. stage' = "done" /\ status' = 403
          BY <3>5, <4>1, <4>4 DEF PermissionCheck, Answer
        <5> QED
          BY <2>1, <3>1, <3>2, <4>1, <4>2, <4>4, <5>1 DEF GateIInv, PastAuth, PastAccess, PastPerm, LacksOne
      <4> QED
        BY <4>3, <4>4
    <3>6. CASE QueryConnection
      <4>1. stage = "guard" /\ Of.handler = "QueryConnection" /\ perms' = perms /\ ran = "nothing" /\ status = 0
        BY <2>2, <3>6 DEF QueryConnection
      <4>2. /\ token.kind # "none" /\ (Of.scoped /\ ~edited => Allowed)
            /\ perms = Effective /\ HasPermission(perms, Of.need)
        BY <4>1 DEF GateIInv, PastAuth, PastAccess, PastPerm
      <4>3. CASE CheckCommand(text, perms)
        <5>1. stage' = "done" /\ status' = 200 /\ ran' = "Query"
          BY <3>6, <4>3 DEF QueryConnection, Run, Answer
        <5> QED
          BY <2>1, <3>1, <3>2, <4>1, <4>2, <4>3, <5>1 DEF GateIInv, PastAuth, PastAccess, PastPerm, LetPass
      <4>4. CASE ~CheckCommand(text, perms)
        <5>1. stage' = "done" /\ status' = 403 /\ ran' = "nothing"
          BY <3>6, <4>1, <4>4 DEF QueryConnection, Answer
        <5> QED
          BY <2>1, <3>1, <3>2, <4>1, <4>2, <4>4, <5>1 DEF GateIInv, PastAuth, PastAccess, PastPerm, LacksOne
      <4> QED
        BY <4>3, <4>4
    <3>7. CASE ExecuteConnection
      <4> DEFINE Takes == \/ CheckCommand(text, perms)
                          \/ detectCommand(text) = Unknown /\ HasResourcePermission(perms, "execute", "*")
      <4>1. stage = "guard" /\ Of.handler = "ExecuteConnection" /\ perms' = perms /\ ran = "nothing" /\ status = 0
        BY <2>2, <3>7 DEF ExecuteConnection
      <4>2. /\ token.kind # "none" /\ (Of.scoped /\ ~edited => Allowed)
            /\ perms = Effective /\ HasPermission(perms, Of.need)
        BY <4>1 DEF GateIInv, PastAuth, PastAccess, PastPerm
      <4>3. CASE Takes
        <5>1. stage' = "done" /\ status' = 200 /\ ran' = "Execute"
          BY <3>7, <4>3 DEF ExecuteConnection, Run, Answer
        <5> QED
          BY <2>1, <3>1, <3>2, <4>1, <4>2, <4>3, <5>1 DEF GateIInv, PastAuth, PastAccess, PastPerm, LetPass
      <4>4. CASE ~Takes
        <5>1. stage' = "done" /\ status' = 403 /\ ran' = "nothing"
          BY <3>7, <4>1, <4>4 DEF ExecuteConnection, Answer
        <5> QED
          BY <2>1, <3>1, <3>2, <4>1, <4>2, <4>4, <5>1 DEF GateIInv, PastAuth, PastAccess, PastPerm, LacksOne
      <4> QED
        BY <4>3, <4>4
    <3>8. CASE ExecuteSafe
      <4>1. stage = "guard" /\ Of.handler = "ExecuteSafe" /\ perms' = perms /\ ran' = "nothing" /\ ran = "nothing" /\ status = 0
        BY <2>2, <3>8 DEF ExecuteSafe
      <4>2. /\ token.kind # "none" /\ (Of.scoped /\ ~edited => Allowed)
            /\ perms = Effective /\ HasPermission(perms, Of.need)
        BY <4>1 DEF GateIInv, PastAuth, PastAccess, PastPerm
      <4>3. CASE CheckCommand(text, token.perm)
        <5>1. stage' = "risk" /\ status' = 0
          BY <3>8, <4>1, <4>3 DEF ExecuteSafe
        <5> QED
          BY <2>1, <3>1, <3>2, <4>1, <4>2, <4>3, <5>1 DEF GateIInv, PastAuth, PastAccess, PastPerm
      <4>4. CASE ~CheckCommand(text, token.perm)
        <5>1. stage' = "done" /\ status' = 403
          BY <3>8, <4>1, <4>4 DEF ExecuteSafe, Answer
        <5> QED
          BY <2>1, <3>1, <3>2, <4>1, <4>2, <4>4, <5>1 DEF GateIInv, PastAuth, PastAccess, PastPerm, LacksOne
      <4> QED
        BY <4>3, <4>4
    <3>9. CASE Execute
      <4>1. stage = "risk" /\ perms' = perms /\ ran = "nothing" /\ status = 0
        BY <2>2, <3>9 DEF Execute
      <4>2. /\ token.kind # "none" /\ (Of.scoped /\ ~edited => Allowed)
            /\ perms = Effective /\ HasPermission(perms, Of.need)
            /\ Of.handler = "ExecuteSafe" /\ CheckCommand(text, token.perm)
        BY <4>1 DEF GateIInv, PastAuth, PastAccess, PastPerm
      <4>3. \/ stage' = "done" /\ status' = 409 /\ ran' = "nothing"
            \/ stage' = "done" /\ status' = 200 /\ (confirm \/ Classify(text) # "HIGH")
        BY <3>9, <4>1 DEF Execute, Run, Answer
      <4>4. CASE status' = 409
        BY <2>1, <3>1, <3>2, <4>2, <4>3, <4>4 DEF GateIInv, PastAuth, PastAccess, PastPerm
      <4>5. CASE status' = 200
        <5>1. LetPass'
          BY <3>2, <4>2, <4>3, <4>5 DEF LetPass
        <5> QED
          BY <2>1, <3>1, <3>2, <4>1, <4>2, <4>3, <4>5, <5>1 DEF GateIInv, PastAuth, PastAccess, PastPerm
      <4> QED
        BY <4>3, <4>4, <4>5
    <3> QED
      BY <1>2, <2>3, <3>3, <3>4, <3>5, <3>6, <3>7, <3>8, <3>9 DEF GateNext
  <2>4. CASE EditRole
    <3>1. /\ UNCHANGED request /\ edited' = TRUE /\ stage' = stage /\ perms' = perms
          /\ status' = 0 /\ ran' = "nothing" /\ status = 0 /\ ran = "nothing" /\ stage \in {"access", "perm"}
      BY <2>2, <2>4 DEF EditRole
    <3>2. token' = token /\ route' = route /\ Of' = Of
      BY <3>1 DEF request, Of
    <3>3. token.kind # "none" /\ (stage = "access" => Of.scoped)
      BY <3>1 DEF GateIInv, PastAuth, PastAccess, PastPerm
    <3> QED
      BY <2>1, <3>1, <3>2, <3>3 DEF GateIInv, PastAuth, PastAccess, PastPerm
  <2> QED
    BY <2>3, <2>4
<1> QED
  BY <1>1, <1>2


-----------------------------------------------------------------------------
\* What a request that reached its handler shows of the account: by the
\* assumption its token and the roles are sound.
LEMMA GateData ==
    ASSUME GateTypes, token.kind # "none"
    PROVE  /\ SoundTable(roles) /\ token.perm \in Seq(Perms) /\ ScopeOf(token) \in Seq(Entries)
           /\ Conn \in Entries /\ text \in Seq(STRING)
           /\ Effective \in Seq(Perms) /\ ToSet(Effective) = Held
<1>1. token \in Tokens /\ roles \in RoleTables /\ text \in Texts
  BY DEF GateTypes
<1>2. SoundTable(roles) /\ text \in Seq(STRING) /\ Conn \in Entries
  BY <1>1, GateAssumption
<1>3. token.perm \in Seq(Perms) /\ ScopeOf(token) \in Seq(Entries)
  BY <1>1, GateAssumption
<1>4. /\ EffectiveExact(roles, token.role, token.perm)
      /\ GetEffectivePerms(roles, token.role, token.perm) \in Seq(Perms)
  BY <1>2, <1>3, EffectiveIsExact
<1> QED
  BY <1>2, <1>3, <1>4 DEF Effective, Held, EffectiveExact

\* The connection is reached just when the middleware allows it.
LEMMA AllowedReaches ==
    ASSUME GateTypes, token.kind # "none"
    PROVE  Allowed <=> Reaches
<1>1. SoundTable(roles) /\ token.perm \in Seq(Perms) /\ ScopeOf(token) \in Seq(Entries) /\ Conn \in Entries
  BY GateData
<1>2. CheckDBAccess(GetEffectivePerms(roles, token.role, token.perm),
                    GetEffectiveDBAccess(roles, token.role, ScopeOf(token)), Conn) <=>
         \/ {Admin, List, Query, Exec} \cap EffectiveSet(roles, token.role, token.perm) # {}
         \/ /\ ~Stands(OwnAccess(roles, token.role), ScopeOf(token), Opposite[Conn])
            /\ \E e \in {Conn, "*"} : Stands(OwnAccess(roles, token.role), ScopeOf(token), e)
  BY <1>1, CheckReaches
<1> QED
  BY <1>2 DEF Allowed, Effective, Reaches, Held, Own

\* What HasPermission and the guard look for, in the set of permissions.
LEMMA PermissionInSet ==
    ASSUME NEW ps \in Seq(Perms), NEW p
    PROVE  HasPermission(ps, p) <=> {Admin, p} \cap ToSet(ps) # {}
  BY DEF HasPermission, ToSet

\* The handlers by their routes.
LEMMA RouteFacts ==
    ASSUME GateTypes
    PROVE  /\ Of.handler = "ExecuteSafe" <=> route = "safe"
           /\ Of.handler \in {"QueryConnection", "ExecuteConnection", "ExecuteSafe"}
<1>1. route \in {"query", "execute", "safe", "dbquery", "dbexec"}
  BY DEF GateTypes, Routes
<1> QED
  BY <1>1 DEF Of, Routes

\* What the guard finds: the worst of the commands sent, or none.
LEMMA GuardFinds ==
    ASSUME GateTypes, PlainAfterTrim(text)
    PROVE  /\ Sent = {} => detectCommand(text) = Unknown
           /\ Sent # {} => /\ detectCommand(text) \in Sent /\ detectCommand(text) # Unknown
                           /\ \A c \in Sent : riskLevel(c) <= riskLevel(detectCommand(text))
<1>1. text \in Seq(STRING)
  BY GateAssumption DEF GateTypes
<1>2. GuardSeesWorst(text)
  BY <1>1, GuardIsRight
<1>3. Unknown \notin Sent
  BY DEF Sent, Commands, Unknown
<1> QED
  BY <1>2, <1>3 DEF GuardSeesWorst, Sent

\* What the guard is asked with, as the property says it.
LEMMA GuardNeeds ==
    ASSUME GateTypes, PlainAfterTrim(text), NEW ps \in Seq(Perms)
    PROVE  /\ CheckCommand(text, ps) => Sent # {}
           /\ CheckCommand(text, ps) /\ Sent \ {"SELECT"} # {} => Exec \in ToSet(ps)
           /\ CheckCommand(text, ps) /\ Sent = {"SELECT"} => Query \in ToSet(ps)
           /\ ~CheckCommand(text, ps) => Sent = {} \/ \E c \in Sent : Needed(c) \notin ToSet(ps)
<1>1. PICK d : d = detectCommand(text)
  OBVIOUS
<1>2. /\ Sent = {} => d = Unknown
      /\ Sent # {} => d \in Sent /\ d # Unknown /\ \A c \in Sent : riskLevel(c) <= riskLevel(d)
  BY <1>1, GuardFinds
<1>3. CheckCommand(text, ps) <=> d # Unknown /\ Needed(d) \in ToSet(ps)
  BY <1>1, ContainsInSet DEF CheckCommand
<1>4. ASSUME NEW c \in Sent \ {"SELECT"} PROVE d # "SELECT"
  <2>1. c \in Commands /\ riskLevel(c) <= riskLevel(d)
    BY <1>2 DEF Sent
  <2>2. riskLevel(c) >= 2 /\ riskLevel("SELECT") = 1
    BY <1>4, <2>1, Risks
  <2>3. riskLevel(d) \in Nat /\ riskLevel(c) \in Nat
    BY Risks
  <2> QED
    BY <2>1, <2>2, <2>3
<1>5. Needed("SELECT") = Query /\ \A c : c # "SELECT" => Needed(c) = Exec
  BY DEF Needed, Query, Exec
<1> QED
  BY <1>2, <1>3, <1>4, <1>5

\* So a text that ran was permitted.
LEMMA PermittedRuns == GateIInv => RunsWhatIsPermitted
<1> SUFFICES ASSUME GateIInv, ran # "nothing", ~edited, PlainAfterTrim(text)
             PROVE  /\ Entitled
                    /\ Sent \ {"SELECT"} # {} => Exec \in Granted
                    /\ Sent = {"SELECT"} => Query \in Granted
                    /\ Sent = {} => Of.handler = "ExecuteConnection" /\ {Admin, "execute:*"} \cap Held # {}
  BY DEF RunsWhatIsPermitted
<1>1. /\ GateTypes /\ token.kind # "none" /\ (Of.scoped => Allowed)
      /\ perms = Effective /\ HasPermission(perms, Of.need) /\ LetPass
  BY DEF GateIInv, PastAuth, PastAccess, PastPerm
<1>2. /\ SoundTable(roles) /\ token.perm \in Seq(Perms)
      /\ Effective \in Seq(Perms) /\ ToSet(Effective) = Held
  BY <1>1, GateData
<1>3. Entitled
  <2>1. Has(Of.need)
    BY <1>1, <1>2, PermissionInSet DEF Has
  <2> QED
    BY <1>1, <2>1, AllowedReaches DEF Entitled
<1>4. CASE route = "safe"
  <2>1. Of.handler = "ExecuteSafe" /\ Granted = ToSet(token.perm)
    BY <1>1, <1>4, RouteFacts DEF Granted
  <2>2. CheckCommand(text, token.perm)
    BY <1>1, <2>1 DEF LetPass
  <2> QED
    BY <1>1, <1>2, <1>3, <2>1, <2>2, GuardNeeds
<1>5. CASE route # "safe"
  <2>1. Granted = Held
    BY <1>5 DEF Granted
  <2>2. Of.handler \in {"QueryConnection", "ExecuteConnection"}
    BY <1>1, <1>5, RouteFacts
  <2>3. CASE CheckCommand(text, Effective)
    BY <1>1, <1>2, <1>3, <2>1, <2>3, GuardNeeds
  <2>4. CASE ~CheckCommand(text, Effective)
    <3>1. /\ Of.handler = "ExecuteConnection" /\ detectCommand(text) = Unknown
          /\ HasResourcePermission(Effective, "execute", "*")
      BY <1>1, <2>2, <2>4 DEF LetPass
    <3>2. {Admin, "execute:*"} \cap Held # {}
      BY <1>2, <3>1, ExecuteAnything
    <3>3. Sent = {}
      BY <1>1, <3>1, GuardFinds
    <3> QED
      BY <1>3, <3>1, <3>2, <3>3
  <2> QED
    BY <2>3, <2>4
<1> QED
  BY <1>4, <1>5

\* And a refused one was not.
LEMMA RefusedLacks == GateIInv => PermittedIsRun
<1> SUFFICES ASSUME GateIInv, status = 403, ~edited, PlainAfterTrim(text)
             PROVE  ~Entitled \/ Sent = {} \/ \E c \in Sent : Needed(c) \notin Granted
  BY DEF PermittedIsRun
<1>1. GateTypes /\ token.kind # "none" /\ LacksOne
  BY DEF GateIInv
<1>2. /\ SoundTable(roles) /\ token.perm \in Seq(Perms)
      /\ Effective \in Seq(Perms) /\ ToSet(Effective) = Held
  BY <1>1, GateData
<1>3. CASE Of.scoped /\ ~Allowed
  BY <1>1, <1>3, AllowedReaches DEF Entitled
<1>4. CASE ~HasPermission(Effective, Of.need)
  BY <1>2, <1>4, PermissionInSet DEF Entitled, Has
<1>5. CASE Of.handler # "ExecuteSafe" /\ ~CheckCommand(text, Effective)
  <2>1. Granted = ToSet(Effective)
    BY <1>1, <1>2, <1>5, RouteFacts DEF Granted
  <2> QED
    BY <1>1, <1>2, <1>5, <2>1, GuardNeeds
<1>6. CASE Of.handler = "ExecuteSafe" /\ ~CheckCommand(text, token.perm)
  <2>1. Granted = ToSet(token.perm)
    BY <1>1, <1>6, RouteFacts DEF Granted
  <2> QED
    BY <1>1, <1>2, <1>6, <2>1, GuardNeeds
<1> QED
  BY <1>1, <1>3, <1>4, <1>5, <1>6 DEF LacksOne

\* A text that begins with a word is not changed by trimming.
LEMMA TrimsNothing ==
    ASSUME NEW X, NEW s \in Seq(X), s # <<>>, Head(s) # "nl"
    PROVE  TrimSpace(s) = s
<1> DEFINE I == {i \in 1..Len(s) : s[i] # "nl"}
<1>1. 1 \in I /\ I \subseteq Nat /\ I # {}
  OBVIOUS
<1>2. PICK first : first = Min(I)
  OBVIOUS
<1>3. first \in I /\ \A y \in I : first <= y
  <2> HIDE DEF I
  <2> QED
    BY <1>1, <1>2, MinOfNumbers
<1>4. first = 1
  BY <1>1, <1>3
<1>5. TrimSpace(s) = SubSeq(s, (first - 1) + 1, Len(s))
  <2>1. first # 0
    BY <1>4
  <2> QED
    BY <1>1, <1>2, <2>1 DEF TrimSpace, SelectInSeq, After
<1>6. SubSeq(s, 1, Len(s)) = s
  OBVIOUS
<1> QED
  BY <1>4, <1>5, <1>6

\* Nothing drastic runs unconfirmed on /execute/safe.
LEMMA DrasticAsks == GateIInv => HighIsConfirmed
<1> SUFFICES ASSUME GateIInv, route = "safe", ran # "nothing",
                    \/ Starts(text, {"DROP", "TRUNCATE", "ALTER"})
                    \/ Starts(text, {"UPDATE", "DELETE"}) /\ ~Contains(text, "WHERE")
             PROVE  confirm
  BY DEF HighIsConfirmed
<1>1. GateTypes /\ LetPass
  BY DEF GateIInv
<1>2. confirm \/ Classify(text) # "HIGH"
  BY <1>1, RouteFacts DEF LetPass
<1>3. text \in Seq(STRING) /\ text # <<>> /\ Head(text) # "nl"
  <2>1. text \in Seq(STRING)
    BY <1>1, GateAssumption DEF GateTypes
  <2> QED
    BY <2>1 DEF Starts
<1>4. TrimSpace(text) = text
  BY <1>3, TrimsNothing
<1>5. PICK w : w = Head(text)
  OBVIOUS
<1>6. \A ts : Starts(text, ts) <=> w \in ts
  BY <1>3, <1>5 DEF Starts
<1>7. CASE w \in {"DROP", "TRUNCATE", "ALTER"}
  <2>1. Classify(text) = "HIGH"
    BY <1>4, <1>6, <1>7 DEF Classify
  <2> QED
    BY <1>2, <2>1
<1>8. CASE w \in {"UPDATE", "DELETE"} /\ ~Contains(text, "WHERE")
  <2>1. evaluateUpdate(text) = "HIGH" /\ evaluateDelete(text) = "HIGH"
    BY <1>8 DEF evaluateUpdate, evaluateDelete
  <2>2. Classify(text) = "HIGH"
    BY <1>4, <1>6, <1>8, <2>1 DEF Classify
  <2> QED
    BY <1>2, <2>2
<1> QED
  BY <1>6, <1>7, <1>8

\* What the checks have shown always holds of a request.
THEOREM GateInvariant == GateSpec => []GateIInv
<1> QED
  BY GateStarts, GateSteps, PTL DEF GateSpec

\* An answer says of a text what it should: who is permitted is not refused,
\* and nothing drastic runs unconfirmed (ExecuteSafe, Executor.Execute).
THEOREM GateAnswers == GateSpec => []GateInv
<1>1. GateIInv => GateInv
  BY RefusedLacks, DrasticAsks DEF GateIInv, GateTypes, GateInv
<1> QED
  BY <1>1, GateInvariant, PTL

\* Nothing runs but what the roles and the extras of the account permit
\* (AuthMiddleware, DBAccessMiddleware, RequirePermission, CheckCommand).
THEOREM GateIsTight == GateSpec => []RunsWhatIsPermitted
<1> QED
  BY PermittedRuns, GateInvariant, PTL

-----------------------------------------------------------------------------
(* The operators of the gate, on any input.                                  *)

\* The lists of a role are of permissions and of entries.
RoleSound(r) == r.perms \in Seq(Perms) /\ r.access \in Seq(Entries)

\* Tables of no role, one or two.
LEMMA SmallTables ==
    /\ \A x : SoundTable([r \in {} |-> x])
    /\ \A r : RoleSound(r) => SoundTable([team |-> r])
    /\ \A r, q : RoleSound(r) /\ RoleSound(q) => SoundTable([team |-> r, base |-> q])
<1>1. IsFiniteSet({}) /\ IsFiniteSet({"team"}) /\ IsFiniteSet({"team", "base"})
  <2>1. IsFiniteSet({} \cup {"team"})
    BY FS_EmptySet, FS_AddElement
  <2>2. IsFiniteSet(({} \cup {"team"}) \cup {"base"})
    BY <2>1, FS_AddElement
  <2>3. {} \cup {"team"} = {"team"} /\ ({} \cup {"team"}) \cup {"base"} = {"team", "base"}
    OBVIOUS
  <2> QED
    BY <2>1, <2>2, <2>3, FS_EmptySet
<1>2. ASSUME NEW x PROVE SoundTable([r \in {} |-> x])
  BY <1>1 DEF SoundTable
<1>3. ASSUME NEW r, RoleSound(r) PROVE SoundTable([team |-> r])
  BY <1>1, <1>3 DEF SoundTable, RoleSound
<1>4. ASSUME NEW r, NEW q, RoleSound(r), RoleSound(q) PROVE SoundTable([team |-> r, base |-> q])
  BY <1>1, <1>4 DEF SoundTable, RoleSound
<1> QED
  BY <1>2, <1>3, <1>4

\* The roles of the probes are sound.
LEMMA ProbeTables == \A t \in MCRoleTables : SoundTable(t)
<1>1. ASSUME NEW p \in Seq(Perms), NEW a \in Seq(Entries), NEW up
      PROVE  RoleSound(Role(p, a, up))
  BY DEF RoleSound, Role
<1>2. Query \in Perms /\ Exec \in Perms /\ "jobs:list" \in Perms /\ "execute:*" \in Perms
  BY DEF Perms, Text
<1>3. /\ <<>> \in Seq(Perms) /\ <<Query>> \in Seq(Perms) /\ <<Exec>> \in Seq(Perms)
      /\ <<"jobs:list">> \in Seq(Perms) /\ <<"execute:*">> \in Seq(Perms)
  BY <1>2
<1>4. {"c1", "-c1", "-c2", "*"} \subseteq Entries
  BY DEF Entries, Opposite
<1>5. /\ <<>> \in Seq(Entries) /\ <<"c1">> \in Seq(Entries) /\ <<"c1", "-c2">> \in Seq(Entries)
      /\ <<"*">> \in Seq(Entries) /\ <<"-c1">> \in Seq(Entries)
  BY <1>4
<1>6. \A up : /\ RoleSound(Role(<<Query>>, <<"c1">>, up)) /\ RoleSound(Role(<<Query>>, <<>>, up))
              /\ RoleSound(Role(<<Exec>>, <<"c1", "-c2">>, up)) /\ RoleSound(Role(<<"jobs:list">>, <<"*">>, up))
              /\ RoleSound(Role(<<Exec>>, <<"-c1">>, up)) /\ RoleSound(Role(<<"execute:*">>, <<"c1">>, up))
  BY <1>1, <1>3, <1>5
<1> QED
  BY <1>6, SmallTables, Zenon DEF MCRoleTables

\* The probes ask of lists of words, permissions and entries.
LEMMA ProbesAre ==
    ASSUME NEW x \in Probes
    PROVE  /\ x.of = "text" => x.s \in Seq(Words)
           /\ x.of = "perms" => x.s \in Seq(Perms)
           /\ x.of = "roles" => x.s \in Seq(Entries) /\ SoundTable(x.table)
           /\ x.of = "extras" => x.s \in Seq(Perms) /\ SoundTable(x.table)
<1>1. ASSUME NEW S, NEW n \in Nat PROVE ListsUpTo(S, n) \subseteq Seq(S)
  BY DEF ListsUpTo
<1>2. \A s \in ListsUpTo({Admin, Query, Exec, "jobs:list"}, MaxList) : s \in Seq(Perms)
  <2>1. {Admin, Query, Exec, "jobs:list"} \subseteq Perms
    BY DEF Perms, Text, Query, Exec
  <2>2. \A s \in Seq({Admin, Query, Exec, "jobs:list"}) : s \in Seq(Perms)
    BY <2>1
  <2> QED
    BY <1>1, <2>2, MCAssumption
<1>3. /\ \A s \in ListsUpTo(Words, MaxText) : s \in Seq(Words)
      /\ \A s \in ListsUpTo(Perms, MaxList) : s \in Seq(Perms)
      /\ \A s \in ListsUpTo(Entries, MaxList) : s \in Seq(Entries)
  BY <1>1, MCAssumption
<1> DEFINE OfText   == {[of |-> "text", s |-> s] : s \in ListsUpTo(Words, MaxText)}
           OfPerms  == {[of |-> "perms", s |-> s, on |-> r] :
                          s \in ListsUpTo(Perms, MaxList), r \in {"*", "connection.c1", "c1", "jobs.j1"}}
           OfRoles  == {[of |-> "roles", s |-> s, table |-> t, id |-> i] :
                          s \in ListsUpTo(Entries, MaxList), t \in MCRoleTables, i \in {"team", "base"}}
           OfExtras == {[of |-> "extras", s |-> s, table |-> t, id |-> i] :
                          s \in ListsUpTo({Admin, Query, Exec, "jobs:list"}, MaxList), t \in MCRoleTables,
                          i \in {"team", "readonly", "admin"}}
<1>4. CASE x \in OfText
  BY <1>3, <1>4
<1>5. CASE x \in OfPerms
  BY <1>3, <1>5
<1>6. CASE x \in OfRoles
  BY <1>3, <1>6, ProbeTables
<1>7. CASE x \in OfExtras
  <2>1. PICK s \in ListsUpTo({Admin, Query, Exec, "jobs:list"}, MaxList), t \in MCRoleTables,
             i \in {"team", "readonly", "admin"} : x = [of |-> "extras", s |-> s, table |-> t, id |-> i]
    BY <1>7
  <2>2. s \in Seq(Perms) /\ SoundTable(t)
    BY <1>2, ProbeTables
  <2>3. x.of = "extras" /\ x.s = s /\ x.table = t
    BY <2>1
  <2> QED
    BY <2>2, <2>3
<1>8. x \in OfText \cup OfPerms \cup OfRoles \cup OfExtras
  BY DEF Probes
<1> QED
  <2> HIDE DEF OfText, OfPerms, OfRoles, OfExtras
  <2> QED
    BY <1>4, <1>5, <1>6, <1>7, <1>8

\* On every input the operators of the gate do what their references say.
LEMMA OperatorsDo == (bench \in Probes \/ On("gate") \/ On("plugin")) => OperatorsMatch
<1>1. CASE On("gate") \/ On("plugin")
  <2>1. bench.of \in {"gate", "plugin"}
    BY <1>1 DEF On
  <2> QED
    BY <2>1 DEF OperatorsMatch, ProbeText, ProbePerms, ProbeAccess, ProbeEffective
<1>2. CASE bench \in Probes
  <2>1. ProbeText
    BY <1>2, ProbesAre, GuardIsRight DEF ProbeText
  <2>2. ProbePerms
    BY <1>2, ProbesAre, DenyFirst DEF ProbePerms
  <2>3. ProbeAccess
    BY <1>2, ProbesAre, AccessIsExact DEF ProbeAccess
  <2>4. ProbeEffective
    BY <1>2, ProbesAre, EffectiveIsExact DEF ProbeEffective
  <2> QED
    BY <2>1, <2>2, <2>3, <2>4 DEF OperatorsMatch
<1> QED
  BY <1>1, <1>2

\* The guard, the permissions and the access lists are read right, whatever
\* the lengths of texts and lists (detectCommand, HasResourcePermission,
\* GetEffectiveDBAccess, GetEffectivePerms).
THEOREM OperatorsAreRight == MCSpec => []OperatorsMatch
<1> DEFINE Bench == bench \in Probes \/ On("gate") \/ On("plugin")
<1>1. MCInit => Bench
  BY DEF MCInit
<1>2. Bench /\ [MCNext]_<<gateVars, pluginVars, bench>> => Bench'
  BY DEF MCNext, On
<1>3. Bench => OperatorsMatch
  BY OperatorsDo
<1> QED
  BY <1>1, <1>2, <1>3, PTL DEF MCSpec

-----------------------------------------------------------------------------
(* The connection manager.                                                   *)

USE ConnectionAssumption

\* The manager starts with no entry and everyone idle (NewManager).
LEMMA InitInv == Init => IInv
  BY DEF Init, IInv, TypeOK, LockHeldAcrossCalls, PoolsAccounted, FailedIsFinal,
         WorkOnRegistered, FreshUntilPublished, CloseRegistered, FailedUntouched,
         Procs, States, PlugStates, RequestPCs, CheckerPCs

\* No action of a request, of a ping or of the checker breaks the invariant.
LEMMA NextInv == IInv /\ [Next]_vars => IInv'
<1> SUFFICES ASSUME IInv, [Next]_vars PROVE IInv'
  OBVIOUS
<1> USE DEF IInv, TypeOK, LockHeldAcrossCalls, PoolsAccounted, FailedIsFinal,
            WorkOnRegistered, FreshUntilPublished, CloseRegistered,
            FailedUntouched, Procs, States, PlugStates, RequestPCs, CheckerPCs,
            Goto
<1>1. ASSUME NEW r \in Requests, NEW i \in Ids, AddLock(r, i) PROVE IInv'
  BY <1>1 DEF AddLock
<1>2. ASSUME NEW r \in Requests, NEW i \in Ids, RemoveLock(r, i) PROVE IInv'
  BY <1>2 DEF RemoveLock
<1>3. ASSUME NEW r \in Requests, NEW i \in Ids, PingGet(r, i) PROVE IInv'
  BY <1>3 DEF PingGet
<1>4. ASSUME NEW r \in Requests, NEW i \in Ids, UseGet(r, i) PROVE IInv'
  BY <1>4 DEF UseGet
<1>5. ASSUME NEW r \in Requests, AddConnected(r) PROVE IInv'
  BY <1>5 DEF AddConnected
<1>6. ASSUME NEW r \in Requests, AddFailed(r) PROVE IInv'
  BY <1>6 DEF AddFailed
<1>7. ASSUME NEW r \in Requests, RemoveClose(r) PROVE IInv'
  BY <1>7 DEF RemoveClose
<1>8. ASSUME NEW r \in Requests, UseCheck(r) PROVE IInv'
  BY <1>8 DEF UseCheck
<1>9. ASSUME NEW r \in Requests, UseReturn(r) PROVE IInv'
  BY <1>9 DEF UseReturn
<1>10. ASSUME NEW p \in Procs, PingCheck(p) PROVE IInv'
  BY <1>10 DEF PingCheck, AfterPing
<1>11. ASSUME NEW p \in Procs, PingAnswer(p) PROVE IInv'
  BY <1>11 DEF PingAnswer
<1>12. ASSUME NEW p \in Procs, PingApplyOk(p) PROVE IInv'
  BY <1>12 DEF PingApplyOk, AfterPing
<1>13. ASSUME NEW p \in Procs, PingApplyErr(p) PROVE IInv'
  BY <1>13 DEF PingApplyErr, AfterPing
<1>14. CASE CheckTick
  BY <1>14 DEF CheckTick
<1>15. CASE CheckVisit
  BY <1>15 DEF CheckVisit
<1>16. CASE CheckRoundDone
  BY <1>16 DEF CheckRoundDone
<1>17. CASE CheckApply
  BY <1>17 DEF CheckApply
<1>18. CASE UNCHANGED vars
  BY <1>18 DEF vars
<1> QED
  BY <1>1, <1>2, <1>3, <1>4, <1>5, <1>6, <1>7, <1>8, <1>9, <1>10, <1>11, <1>12, <1>13, <1>14, <1>15, <1>16, <1>17, <1>18
     DEF Next, RequestStep, PingStep, CheckerStep

\* The inductive invariant holds in every reachable state.
THEOREM Invariance == Spec => []IInv
<1>1. Init => IInv
  BY InitInv
<1>2. IInv /\ [Next]_vars => IInv'
  BY NextInv
<1> QED
  BY <1>1, <1>2, PTL DEF Spec

\* Type correctness of the manager.
THEOREM TypeCorrect == Spec => []TypeOK
<1>1. IInv => TypeOK
  BY DEF IInv
<1> QED
  BY <1>1, Invariance, PTL

\* m.mu is held for writing by exactly the goroutine inside Connect or Close.
THEOREM LockDiscipline == Spec => []LockHeldAcrossCalls
<1>1. IInv => LockHeldAcrossCalls
  BY DEF IInv
<1> QED
  BY <1>1, Invariance, PTL

\* No pool is leaked and no entry outlives its pool.
THEOREM PoolsAreAccounted == Spec => []PoolsAccounted
<1>1. IInv => PoolsAccounted
  BY DEF IInv
<1> QED
  BY <1>1, Invariance, PTL

\* A plugin that never connected is never pinged nor queried: an object in use
\* has been registered, so its plugin was opened or failed, and a failed one
\* lets nobody past the tests of mc.State.
THEOREM NeverCalled == Spec => []NeverConnectedNeverCalled
<1>1. IInv => NeverConnectedNeverCalled
  <2> SUFFICES ASSUME IInv, NEW p \in Procs, pc[p] \in {"pinging", "using"}
               PROVE  plug[cur[p]] \in {"open", "closed"}
    BY DEF NeverConnectedNeverCalled
  <2>1. cur[p] \in Ids /\ plug[cur[p]] # "unused"
    BY DEF IInv, WorkOnRegistered
  <2>2. plug[cur[p]] # "failed"
    BY <2>1 DEF IInv, FailedUntouched
  <2>3. plug[cur[p]] \in PlugStates
    BY <2>1 DEF IInv, TypeOK
  <2> QED
    BY <2>1, <2>2, <2>3 DEF PlugStates
<1> QED
  BY <1>1, Invariance, PTL

\* Only Add puts an entry into the map, and it puts in a new object.
THEOREM RemovedStaysRemoved == Spec => NoResurrection
<1>1. IInv /\ [Next]_vars => [\A i \in conns' \ conns : plug[i] = "unused"]_vars
  <2> SUFFICES ASSUME IInv, [Next]_vars
               PROVE  \A i \in conns' \ conns : plug[i] = "unused"
    OBVIOUS
  <2>1. ASSUME NEW r \in Requests, AddConnected(r) \/ AddFailed(r)
        PROVE  \A i \in conns' \ conns : plug[i] = "unused"
    BY <2>1 DEF AddConnected, AddFailed, IInv, FreshUntilPublished
  <2>2. ASSUME NEW r \in Requests, RemoveClose(r)
        PROVE  \A i \in conns' \ conns : plug[i] = "unused"
    BY <2>2 DEF RemoveClose
  <2>3. CASE UNCHANGED conns
    BY <2>3
  <2> QED
    BY <2>1, <2>2, <2>3
       DEF Next, RequestStep, PingStep, CheckerStep, vars, AddLock, RemoveLock,
           PingGet, UseGet, UseCheck, UseReturn, PingCheck, PingAnswer,
           PingApplyOk, PingApplyErr, CheckTick, CheckVisit, CheckRoundDone,
           CheckApply
<1> QED
  BY <1>1, Invariance, PTL DEF Spec, NoResurrection

-----------------------------------------------------------------------------
(* The provisioner.                                                          *)

USE ProvisionerAssumption

\* What a world says.
Budget ==
    [docker : BOOLEAN, dbs : SUBSET Dbs, boxes : [Dbs -> {"none", "running", "exited", "paused"}],
     deaths : Nat, mishaps : Nat, guests : Nat]

\* What the budget and the databases hold, beyond ProvTypeOK.
DataOK ==
    /\ left \in Budget
    /\ data \in [Dbs -> [tables : SUBSET {"own", "sample"}, samples : Nat]]
    /\ expired \in BOOLEAN
    /\ ours \subseteq Dbs /\ abandoned \subseteq Dbs /\ faulted \subseteq Dbs

\* Where a database can stand in each phase of the process.
PhaseOK ==
    \A d \in Dbs :
        /\ phase \in {"down", "ended"} => at[d] = "off"
        /\ phase = "starting" => at[d] \notin {"off", "stop", "drain"}
        /\ phase = "starting" /\ at[d] # "failed" => d \in left.dbs
        /\ phase = "serving" => at[d] \in {"failed", "done"}
        /\ phase = "stopping" => at[d] \in {"off", "stop", "drain"}

\* Containers with docker, embedded servers without.
EitherOr ==
    /\ \A d \in Dbs : at[d] \in {"image", "status", "start", "run", "ready"} => Docker
    /\ \A d \in Dbs : at[d] \in {"find", "launch"} => ~Docker
    /\ Docker => \A d \in Dbs : server[d] = "none"

\* What processes of the server have started and is not noted as failed is
\* noted as started, to be looked at by a start under way, or the child of an
\* earlier process.
OursOK(d) ==
    /\ d \in left.dbs
    /\ IF Docker THEN box[d] = "running" ELSE server[d] = "child"
    /\ phase = "down" => d \in abandoned
    /\ d \notin faulted =>
          \/ ~Docker /\ d \in abandoned
          \/ Docker /\ phase = "down"
          \/ Docker /\ at[d] \in {"lock", "image", "status"}
          \/ phase \in {"starting", "serving"} /\ d \in started
          \/ at[d] = "stop"

OursKnown == \A d \in ours : OursOK(d)

\* Seeding has looked at the tables before it makes one, and made one before
\* it puts rows in.
SeedOK(d) ==
    /\ data[d].samples <= 1
    /\ data[d].samples > 0 => "sample" \in data[d].tables
    /\ at[d] = "create" => data[d].tables = {}
    /\ at[d] = "insert" => data[d].samples = 0 /\ "sample" \in data[d].tables

SeedInOrder == \A d \in Dbs : SeedOK(d)

\* An open connection is noted or about to be; a MySQL inside this process is
\* noted until Shutdown stops it, which comes after the connections.
InsideKnown ==
    \A d \in Dbs :
        /\ conn[d] = "open" => d \in provisioned \/ at[d] \in {"schema", "create", "insert", "note"}
        /\ server[d] = "inside" => \/ phase \in {"starting", "serving"} /\ d \in started
                                   \/ at[d] \in {"stop", "drain"}
        /\ at[d] = "drain" => provisioned = {} /\ server[d] = "inside"
        /\ phase = "ended" => provisioned = {}
        /\ phase = "down" => server[d] # "inside"

\* The inductive invariant.
ProvIInv == ProvTypeOK /\ DataOK /\ PhaseOK /\ EitherOr /\ OursKnown /\ SeedInOrder /\ InsideKnown

\* The first process has not started.
LEMMA ProvInitInv == ProvInit => ProvIInv
<1> SUFFICES ASSUME ProvInit PROVE ProvIInv
  OBVIOUS
<1> USE DEF ProvInit
<1>1. left \in Budget
  BY DEF Budget
<1>2. box \in [Dbs -> {"none", "running", "exited", "paused"}]
  BY <1>1 DEF Budget
<1>3. ProvTypeOK
  BY <1>2 DEF ProvTypeOK, Nothing
<1>4. DataOK
  BY <1>1 DEF DataOK, Nothing
<1> QED
  BY <1>3, <1>4 DEF ProvIInv, PhaseOK, EitherOr, OursKnown, SeedInOrder, SeedOK,
                      InsideKnown, Nothing

\* The budget stays one, of the same databases, with docker or without.
LeftKept == left' \in Budget /\ left'.docker = left.docker /\ left'.dbs = left.dbs

\* A mishap, a death or a guest changes nothing else of the budget.
LEMMA LeftIsKept ==
    ASSUME left \in Budget,
           \/ UNCHANGED left \/ Trouble
           \/ left.mishaps > 0 /\ left' = [left EXCEPT !.mishaps = @ - 1]
           \/ left.deaths > 0 /\ left' = [left EXCEPT !.deaths = @ - 1]
           \/ left.guests > 0 /\ left' = [left EXCEPT !.guests = @ - 1]
    PROVE  LeftKept
  BY DEF LeftKept, Budget, Trouble

\* No step of New, of Shutdown, of docker or of anybody else breaks it.
LEMMA ProvNextInv == ProvIInv /\ [ProvNext]_provVars => ProvIInv'
<1> SUFFICES ASSUME ProvIInv, [ProvNext]_provVars PROVE ProvIInv'
  OBVIOUS
<1>0. ProvTypeOK /\ DataOK /\ PhaseOK /\ EitherOr /\ OursKnown /\ SeedInOrder /\ InsideKnown
  BY DEF ProvIInv
<1> USE DEF proc, world, hist, Docker, Sql, Serves, Nothing, Go, Leave, Failed, Brought,
            Created, Inserted, ToStop, Stopped
<1> USE DEF ProvIInv, ProvTypeOK, DataOK, PhaseOK, EitherOr, OursKnown, OursOK, SeedInOrder, SeedOK, InsideKnown
<1>1. ASSUME NEW d \in Dbs, ImageThere(d) PROVE ProvIInv'
  BY <1>1 DEF ImageThere
<1>2. ASSUME NEW d \in Dbs, ReadStatus(d) PROVE ProvIInv'
  BY <1>2 DEF ReadStatus
<1>3. ASSUME NEW d \in Dbs, WaitReady(d) PROVE ProvIInv'
  BY <1>3 DEF WaitReady
<1>4. ASSUME NEW d \in Dbs, AddOpens(d) PROVE ProvIInv'
  BY <1>4 DEF AddOpens
<1>5. ASSUME NEW d \in Dbs, ReadSchema(d) PROVE ProvIInv'
  BY <1>5 DEF ReadSchema
<1>6. ASSUME NEW d \in Dbs, CreateSample(d) PROVE ProvIInv'
  BY <1>6 DEF CreateSample
<1>7. ASSUME NEW d \in Dbs, Note(d) PROVE ProvIInv'
  BY <1>7 DEF Note
<1>8. ASSUME NEW d \in Dbs, RemoveConn(d) PROVE ProvIInv'
  BY <1>8 DEF RemoveConn
<1>9. ASSUME NEW d \in Dbs, StopContainer(d) PROVE ProvIInv'
  BY <1>9 DEF StopContainer
<1>10. ASSUME NEW d \in Dbs, StopPostgres(d) PROVE ProvIInv'
  BY <1>10 DEF StopPostgres
<1>11. ASSUME NEW d \in Dbs, CloseMySQL(d) PROVE ProvIInv'
  BY <1>11 DEF CloseMySQL
<1>12. ASSUME NEW d \in Dbs, UserRemoves(d) PROVE ProvIInv'
  BY <1>12 DEF UserRemoves
<1>13. ASSUME NEW d \in Dbs, UserCreates(d) PROVE ProvIInv'
  BY <1>13 DEF UserCreates
<1>14. ASSUME NEW d \in Dbs, GuestGoes(d) PROVE ProvIInv'
  BY <1>14 DEF GuestGoes
<1>15. CASE Serve
  BY <1>15 DEF Serve
<1>16. CASE Signal
  BY <1>16 DEF Signal
<1>17. CASE ShutdownEnds
  BY <1>17 DEF ShutdownEnds
<1>18. CASE Exit
  BY <1>18 DEF Exit, Gone
<1>19. CASE UNCHANGED provVars
  BY <1>19 DEF provVars
<1> HIDE DEF ProvIInv, ProvTypeOK, DataOK, PhaseOK, EitherOr, OursKnown, OursOK, SeedInOrder, SeedOK, InsideKnown
<1>20. ASSUME NEW d \in Dbs, Lock(d) PROVE ProvIInv'
  <2> USE <1>0, <1>20 DEF Lock
  <2>1. ProvTypeOK'
    <3>1. CASE ~Docker /\ KindOf[d] = "plain"
      BY SMTT(30), <3>1 DEF ProvTypeOK, DataOK
    <3>2. CASE Docker
      BY <3>2 DEF ProvTypeOK, DataOK
    <3>3. CASE ~Docker /\ KindOf[d] = "postgres"
      BY <3>3 DEF ProvTypeOK, DataOK
    <3>4. CASE ~Docker /\ KindOf[d] = "mysql"
      BY <3>4 DEF ProvTypeOK, DataOK
    <3> QED
      BY <3>1, <3>2, <3>3, <3>4
  <2>2. OursKnown'
    <3> SUFFICES ASSUME NEW e \in ours' PROVE OursOK(e)'
      BY DEF OursKnown
    <3>1. e \in ours \/ e = d
      BY DEF OursKnown
    <3>2. CASE e = d
      BY <3>2 DEF OursKnown, OursOK, ProvTypeOK, DataOK, PhaseOK, EitherOr, InsideKnown
    <3>3. CASE e # d
      BY <3>1, <3>3 DEF OursKnown, OursOK, ProvTypeOK, DataOK, PhaseOK, EitherOr, InsideKnown
    <3> QED
      BY <3>2, <3>3
  <2>3. DataOK' /\ PhaseOK' /\ EitherOr'
    BY DEF ProvTypeOK, DataOK, PhaseOK, EitherOr
  <2>4. SeedInOrder'
    BY DEF ProvTypeOK, DataOK, PhaseOK, SeedInOrder, SeedOK
  <2>5. InsideKnown'
    BY DEF ProvTypeOK, PhaseOK, EitherOr, InsideKnown
  <2> QED
    BY <2>1, <2>2, <2>3, <2>4, <2>5 DEF ProvIInv
<1>21. ASSUME NEW d \in Dbs, ImageFails(d) PROVE ProvIInv'
  <2>1. LeftKept
    BY <1>0, <1>21, LeftIsKept DEF ImageFails, DataOK
  <2> USE <1>0, <1>21, <2>1 DEF ImageFails, LeftKept
  <2>2. ProvTypeOK'
    BY DEF ProvTypeOK, DataOK
  <2>3. DataOK' /\ PhaseOK' /\ EitherOr'
    BY DEF ProvTypeOK, DataOK, PhaseOK, EitherOr
  <2>4. OursKnown' /\ SeedInOrder' /\ InsideKnown'
    BY DEF ProvTypeOK, DataOK, PhaseOK, EitherOr, OursKnown, OursOK, SeedInOrder, SeedOK, InsideKnown
  <2> QED
    BY <2>2, <2>3, <2>4 DEF ProvIInv
<1>22. ASSUME NEW d \in Dbs, StatusFails(d) PROVE ProvIInv'
  <2>1. LeftKept
    BY <1>0, <1>22, LeftIsKept DEF StatusFails, DataOK
  <2> USE <1>0, <1>22, <2>1 DEF StatusFails, LeftKept
  <2>2. ProvTypeOK'
    BY DEF ProvTypeOK, DataOK
  <2>3. DataOK' /\ PhaseOK' /\ EitherOr'
    BY DEF ProvTypeOK, DataOK, PhaseOK, EitherOr
  <2>4. OursKnown' /\ SeedInOrder' /\ InsideKnown'
    BY DEF ProvTypeOK, DataOK, PhaseOK, EitherOr, OursKnown, OursOK, SeedInOrder, SeedOK, InsideKnown
  <2> QED
    BY <2>2, <2>3, <2>4 DEF ProvIInv
<1>23. ASSUME NEW d \in Dbs, DockerStart(d) PROVE ProvIInv'
  <2> USE <1>0, <1>23 DEF DockerStart
  <2>1. ProvTypeOK'
    BY DEF ProvTypeOK, DataOK
  <2>2. OursKnown'
    <3> SUFFICES ASSUME NEW e \in ours' PROVE OursOK(e)'
      BY DEF OursKnown
    <3>1. e \in ours \/ e = d
      BY DEF OursKnown
    <3>2. CASE e = d
      BY <3>2 DEF OursKnown, OursOK, ProvTypeOK, DataOK, PhaseOK, EitherOr, InsideKnown
    <3>3. CASE e # d
      BY <3>1, <3>3 DEF OursKnown, OursOK, ProvTypeOK, DataOK, PhaseOK, EitherOr, InsideKnown
    <3> QED
      BY <3>2, <3>3
  <2>3. DataOK' /\ PhaseOK' /\ EitherOr'
    BY DEF ProvTypeOK, DataOK, PhaseOK, EitherOr
  <2>4. SeedInOrder' /\ InsideKnown'
    BY DEF ProvTypeOK, DataOK, PhaseOK, EitherOr, SeedInOrder, SeedOK, InsideKnown
  <2> QED
    BY <2>1, <2>2, <2>3, <2>4 DEF ProvIInv
<1>24. ASSUME NEW d \in Dbs, DockerStartFails(d) PROVE ProvIInv'
  <2>1. LeftKept
    BY <1>0, <1>24, LeftIsKept DEF DockerStartFails, DataOK
  <2> USE <1>0, <1>24, <2>1 DEF DockerStartFails, LeftKept
  <2>2. ProvTypeOK'
    BY DEF ProvTypeOK, DataOK
  <2>3. OursKnown'
    <3> SUFFICES ASSUME NEW e \in ours' PROVE OursOK(e)'
      BY DEF OursKnown
    <3>1. e \in ours \/ e = d
      BY DEF OursKnown
    <3>2. CASE e = d
      BY <3>2 DEF OursKnown, OursOK, ProvTypeOK, DataOK, PhaseOK, EitherOr, InsideKnown
    <3>3. CASE e # d
      BY <3>1, <3>3 DEF OursKnown, OursOK, ProvTypeOK, DataOK, PhaseOK, EitherOr, InsideKnown
    <3> QED
      BY <3>2, <3>3
  <2>4. DataOK' /\ PhaseOK' /\ EitherOr'
    BY DEF ProvTypeOK, DataOK, PhaseOK, EitherOr
  <2>5. SeedInOrder' /\ InsideKnown'
    BY DEF ProvTypeOK, DataOK, PhaseOK, EitherOr, SeedInOrder, SeedOK, InsideKnown
  <2> QED
    BY <2>2, <2>3, <2>4, <2>5 DEF ProvIInv
<1>25. ASSUME NEW d \in Dbs, DockerRun(d) PROVE ProvIInv'
  <2> USE <1>0, <1>25 DEF DockerRun
  <2>1. ProvTypeOK'
    BY DEF ProvTypeOK, DataOK
  <2>2. OursKnown'
    <3> SUFFICES ASSUME NEW e \in ours' PROVE OursOK(e)'
      BY DEF OursKnown
    <3>1. e \in ours \/ e = d
      BY DEF OursKnown
    <3>2. CASE e = d
      BY <3>2 DEF OursKnown, OursOK, ProvTypeOK, DataOK, PhaseOK, EitherOr, InsideKnown
    <3>3. CASE e # d
      BY <3>1, <3>3 DEF OursKnown, OursOK, ProvTypeOK, DataOK, PhaseOK, EitherOr, InsideKnown
    <3> QED
      BY <3>2, <3>3
  <2>3. DataOK' /\ PhaseOK' /\ EitherOr'
    BY DEF ProvTypeOK, DataOK, PhaseOK, EitherOr
  <2>4. SeedInOrder' /\ InsideKnown'
    BY DEF ProvTypeOK, DataOK, PhaseOK, EitherOr, SeedInOrder, SeedOK, InsideKnown
  <2> QED
    BY <2>1, <2>2, <2>3, <2>4 DEF ProvIInv
<1>26. ASSUME NEW d \in Dbs, DockerRunFails(d) PROVE ProvIInv'
  <2>1. LeftKept
    BY <1>0, <1>26, LeftIsKept DEF DockerRunFails, DataOK
  <2> USE <1>0, <1>26, <2>1 DEF DockerRunFails, LeftKept
  <2>2. ProvTypeOK'
    BY SMTT(30) DEF ProvTypeOK, DataOK
  <2>3. OursKnown'
    <3> SUFFICES ASSUME NEW e \in ours' PROVE OursOK(e)'
      BY DEF OursKnown
    <3>1. e \in ours \/ e = d
      BY DEF OursKnown
    <3>2. CASE e = d
      BY <3>2 DEF OursKnown, OursOK, ProvTypeOK, DataOK, PhaseOK, EitherOr, InsideKnown
    <3>3. CASE e # d
      BY <3>1, <3>3 DEF OursKnown, OursOK, ProvTypeOK, DataOK, PhaseOK, EitherOr, InsideKnown
    <3> QED
      BY <3>2, <3>3
  <2>4. DataOK' /\ PhaseOK' /\ EitherOr'
    BY DEF ProvTypeOK, DataOK, PhaseOK, EitherOr
  <2>5. SeedInOrder' /\ InsideKnown'
    BY DEF ProvTypeOK, DataOK, PhaseOK, EitherOr, SeedInOrder, SeedOK, InsideKnown
  <2> QED
    BY <2>2, <2>3, <2>4, <2>5 DEF ProvIInv
<1>27. ASSUME NEW d \in Dbs, ReadyFails(d) PROVE ProvIInv'
  <2>1. LeftKept
    BY <1>0, <1>27, LeftIsKept DEF ReadyFails, DataOK
  <2> USE <1>0, <1>27, <2>1 DEF ReadyFails, LeftKept
  <2>2. ProvTypeOK'
    BY DEF ProvTypeOK, DataOK
  <2>3. DataOK' /\ PhaseOK' /\ EitherOr'
    BY DEF ProvTypeOK, DataOK, PhaseOK, EitherOr
  <2>4. OursKnown' /\ SeedInOrder' /\ InsideKnown'
    BY DEF ProvTypeOK, DataOK, PhaseOK, EitherOr, OursKnown, OursOK, SeedInOrder, SeedOK, InsideKnown
  <2> QED
    BY <2>2, <2>3, <2>4 DEF ProvIInv
<1>28. ASSUME NEW d \in Dbs, FindPostgres(d) PROVE ProvIInv'
  <2>1. LeftKept
    BY <1>0, <1>28, LeftIsKept DEF FindPostgres, DataOK
  <2> USE <1>0, <1>28, <2>1 DEF FindPostgres, LeftKept
  <2>2. ProvTypeOK'
    <3>1. CASE Go(d, "add")
      BY <3>1 DEF ProvTypeOK, DataOK
    <3>2. CASE Go(d, "launch")
      BY <3>2 DEF ProvTypeOK, DataOK
    <3> QED
      BY <3>1, <3>2
  <2>3. DataOK' /\ PhaseOK' /\ EitherOr'
    BY DEF ProvTypeOK, DataOK, PhaseOK, EitherOr
  <2>4. OursKnown'
    BY DEF ProvTypeOK, DataOK, PhaseOK, EitherOr, OursKnown, OursOK
  <2>5. SeedInOrder'
    BY DEF ProvTypeOK, DataOK, PhaseOK, SeedInOrder, SeedOK
  <2>6. InsideKnown'
    BY DEF ProvTypeOK, PhaseOK, EitherOr, InsideKnown
  <2> QED
    BY <2>2, <2>3, <2>4, <2>5, <2>6 DEF ProvIInv
<1>29. ASSUME NEW d \in Dbs, Launch(d) PROVE ProvIInv'
  <2> USE <1>0, <1>29 DEF Launch
  <2>1. ProvTypeOK'
    <3>1. \A e \in Dbs : data'[e].tables \subseteq {"own", "sample"}
      BY DEF ProvTypeOK, DataOK
    <3>2. server' \in [Dbs -> {"none", "child", "inside"}]
      BY DEF ProvTypeOK
    <3>3. at' = [at EXCEPT ![d] = "add"] /\ started' = started \cup {d}
          /\ UNCHANGED <<phase, mu, conn, provisioned, box>>
      OBVIOUS
    <3>4. at[d] = "launch"
      OBVIOUS
    <3> QED
      BY <3>1, <3>2, <3>3, <3>4 DEF ProvTypeOK
  <2>2. OursKnown'
    <3> SUFFICES ASSUME NEW e \in ours' PROVE OursOK(e)'
      BY DEF OursKnown
    <3>1. e \in ours \/ e = d
      BY DEF OursKnown
    <3>2. CASE e = d
      BY <3>2 DEF OursKnown, OursOK, ProvTypeOK, DataOK, PhaseOK, EitherOr, InsideKnown
    <3>3. CASE e # d
      BY <3>1, <3>3 DEF OursKnown, OursOK, ProvTypeOK, DataOK, PhaseOK, EitherOr, InsideKnown
    <3> QED
      BY <3>2, <3>3
  <2>3. SeedInOrder'
    <3> SUFFICES ASSUME NEW e \in Dbs PROVE SeedOK(e)'
      BY DEF SeedInOrder
    <3>1. SeedOK(e)
      BY DEF SeedInOrder
    <3>2. CASE e = d
      BY <3>1, <3>2 DEF SeedOK, ProvTypeOK, DataOK, PhaseOK
    <3>3. CASE e # d
      BY <3>1, <3>3 DEF SeedOK, ProvTypeOK, DataOK, PhaseOK
    <3> QED
      BY <3>2, <3>3
  <2>4. DataOK'
    BY SMTT(30) DEF ProvTypeOK, DataOK
  <2>5. PhaseOK' /\ EitherOr'
    BY DEF ProvTypeOK, PhaseOK, EitherOr
  <2>6. InsideKnown'
    BY DEF ProvTypeOK, DataOK, PhaseOK, EitherOr, InsideKnown
  <2> QED
    BY <2>1, <2>2, <2>3, <2>4, <2>5, <2>6 DEF ProvIInv
<1>30. ASSUME NEW d \in Dbs, LaunchFails(d) PROVE ProvIInv'
  <2>1. LeftKept
    BY <1>0, <1>30, LeftIsKept DEF LaunchFails, DataOK
  <2> USE <1>0, <1>30, <2>1 DEF LaunchFails, LeftKept
  <2>2. ProvTypeOK'
    BY DEF ProvTypeOK, DataOK
  <2>3. DataOK' /\ PhaseOK' /\ EitherOr'
    BY DEF ProvTypeOK, DataOK, PhaseOK, EitherOr
  <2>4. OursKnown' /\ SeedInOrder' /\ InsideKnown'
    BY DEF ProvTypeOK, DataOK, PhaseOK, EitherOr, OursKnown, OursOK, SeedInOrder, SeedOK, InsideKnown
  <2> QED
    BY <2>2, <2>3, <2>4 DEF ProvIInv
<1>31. ASSUME NEW d \in Dbs, AddFails(d) PROVE ProvIInv'
  <2>1. LeftKept
    BY <1>0, <1>31, LeftIsKept DEF AddFails, DataOK
  <2> USE <1>0, <1>31, <2>1 DEF AddFails, LeftKept
  <2>2. ProvTypeOK'
    BY DEF ProvTypeOK, DataOK
  <2>3. DataOK' /\ PhaseOK' /\ EitherOr'
    BY DEF ProvTypeOK, DataOK, PhaseOK, EitherOr
  <2>4. OursKnown' /\ SeedInOrder' /\ InsideKnown'
    BY DEF ProvTypeOK, DataOK, PhaseOK, EitherOr, OursKnown, OursOK, SeedInOrder, SeedOK, InsideKnown
  <2> QED
    BY <2>2, <2>3, <2>4 DEF ProvIInv
<1>32. ASSUME NEW d \in Dbs, InsertSample(d) PROVE ProvIInv'
  <2> USE <1>0, <1>32 DEF InsertSample
  <2>1. ProvTypeOK'
    BY DEF ProvTypeOK, DataOK
  <2>2. DataOK'
    <3>1. data[d] \in [tables : SUBSET {"own", "sample"}, samples : Nat]
      BY DEF DataOK
    <3>2. [data[d] EXCEPT !.samples = @ + 1] \in [tables : SUBSET {"own", "sample"}, samples : Nat]
      BY <3>1
    <3> QED
      BY <3>2 DEF DataOK
  <2>3. SeedInOrder'
    <3> SUFFICES ASSUME NEW e \in Dbs PROVE SeedOK(e)'
      BY DEF SeedInOrder
    <3>1. SeedOK(e)
      BY DEF SeedInOrder
    <3>2. CASE e = d
      BY <3>1, <3>2 DEF SeedOK, ProvTypeOK, DataOK, PhaseOK
    <3>3. CASE e # d
      BY <3>1, <3>3 DEF SeedOK, ProvTypeOK, DataOK, PhaseOK
    <3> QED
      BY <3>2, <3>3
  <2>4. PhaseOK' /\ EitherOr'
    BY DEF ProvTypeOK, DataOK, PhaseOK, EitherOr
  <2>5. OursKnown' /\ InsideKnown'
    BY DEF ProvTypeOK, DataOK, PhaseOK, EitherOr, OursKnown, OursOK, InsideKnown
  <2> QED
    BY <2>1, <2>2, <2>3, <2>4, <2>5 DEF ProvIInv
<1>33. ASSUME NEW d \in Dbs, SeedFails(d) PROVE ProvIInv'
  <2>1. LeftKept
    BY <1>0, <1>33, LeftIsKept DEF SeedFails, DataOK
  <2> USE <1>0, <1>33, <2>1 DEF SeedFails, LeftKept
  <2>2. ProvTypeOK'
    BY DEF ProvTypeOK, DataOK
  <2>3. SeedInOrder'
    <3> SUFFICES ASSUME NEW e \in Dbs PROVE SeedOK(e)'
      BY DEF SeedInOrder
    <3>1. SeedOK(e)
      BY DEF SeedInOrder
    <3>2. CASE e = d
      BY <3>1, <3>2 DEF SeedOK, ProvTypeOK, DataOK, PhaseOK
    <3>3. CASE e # d
      BY <3>1, <3>3 DEF SeedOK, ProvTypeOK, DataOK, PhaseOK
    <3> QED
      BY <3>2, <3>3
  <2>4. DataOK' /\ PhaseOK' /\ EitherOr'
    BY SMTT(30) DEF ProvTypeOK, DataOK, PhaseOK, EitherOr
  <2>5. OursKnown' /\ InsideKnown'
    BY DEF ProvTypeOK, DataOK, PhaseOK, EitherOr, OursKnown, OursOK, InsideKnown
  <2> QED
    BY <2>2, <2>3, <2>4, <2>5 DEF ProvIInv
<1>34. ASSUME NEW d \in Dbs, StopFails(d) PROVE ProvIInv'
  <2>1. LeftKept
    BY <1>0, <1>34, LeftIsKept DEF StopFails, DataOK
  <2> USE <1>0, <1>34, <2>1 DEF StopFails, LeftKept
  <2>2. ProvTypeOK'
    BY DEF ProvTypeOK, DataOK
  <2>3. DataOK' /\ PhaseOK' /\ EitherOr'
    BY DEF ProvTypeOK, DataOK, PhaseOK, EitherOr
  <2>4. OursKnown' /\ SeedInOrder' /\ InsideKnown'
    BY DEF ProvTypeOK, DataOK, PhaseOK, EitherOr, OursKnown, OursOK, SeedInOrder, SeedOK, InsideKnown
  <2> QED
    BY <2>2, <2>3, <2>4 DEF ProvIInv
<1>35. ASSUME NEW d \in Dbs, StopPostgresFails(d) PROVE ProvIInv'
  <2>1. LeftKept
    BY <1>0, <1>35, LeftIsKept DEF StopPostgresFails, DataOK
  <2> USE <1>0, <1>35, <2>1 DEF StopPostgresFails, LeftKept
  <2>2. ProvTypeOK'
    BY DEF ProvTypeOK, DataOK
  <2>3. DataOK' /\ PhaseOK' /\ EitherOr'
    BY DEF ProvTypeOK, DataOK, PhaseOK, EitherOr
  <2>4. OursKnown' /\ SeedInOrder' /\ InsideKnown'
    BY DEF ProvTypeOK, DataOK, PhaseOK, EitherOr, OursKnown, OursOK, SeedInOrder, SeedOK, InsideKnown
  <2> QED
    BY <2>2, <2>3, <2>4 DEF ProvIInv
<1>36. ASSUME NEW d \in Dbs, Drained(d) PROVE ProvIInv'
  <2> USE <1>0, <1>36 DEF Drained
  <2>1. ProvTypeOK'
    BY DEF ProvTypeOK, DataOK
  <2>2. DataOK' /\ PhaseOK' /\ EitherOr'
    BY DEF ProvTypeOK, DataOK, PhaseOK, EitherOr
  <2>3. OursKnown' /\ SeedInOrder' /\ InsideKnown'
    BY DEF ProvTypeOK, DataOK, PhaseOK, EitherOr, OursKnown, OursOK, SeedInOrder, SeedOK, InsideKnown
  <2> QED
    BY <2>1, <2>2, <2>3 DEF ProvIInv
<1>37. ASSUME NEW d \in Dbs, GuestComes(d) PROVE ProvIInv'
  <2>1. LeftKept
    BY <1>0, <1>37, LeftIsKept DEF GuestComes, DataOK
  <2> USE <1>0, <1>37, <2>1 DEF GuestComes, LeftKept
  <2>2. ProvTypeOK'
    BY DEF ProvTypeOK, DataOK
  <2>3. DataOK' /\ PhaseOK' /\ EitherOr'
    BY DEF ProvTypeOK, DataOK, PhaseOK, EitherOr
  <2>4. OursKnown' /\ SeedInOrder' /\ InsideKnown'
    BY DEF ProvTypeOK, DataOK, PhaseOK, EitherOr, OursKnown, OursOK, SeedInOrder, SeedOK, InsideKnown
  <2> QED
    BY <2>2, <2>3, <2>4 DEF ProvIInv
<1>38. ASSUME NEW d \in Dbs, ContainerExits(d) PROVE ProvIInv'
  <2>1. LeftKept
    BY <1>0, <1>38, LeftIsKept DEF ContainerExits, DataOK
  <2> USE <1>0, <1>38, <2>1 DEF ContainerExits, LeftKept
  <2>2. ProvTypeOK'
    BY DEF ProvTypeOK, DataOK
  <2>3. OursKnown'
    <3> SUFFICES ASSUME NEW e \in ours' PROVE OursOK(e)'
      BY DEF OursKnown
    <3>1. e \in ours \/ e = d
      BY DEF OursKnown
    <3>2. CASE e = d
      BY <3>2 DEF OursKnown, OursOK, ProvTypeOK, DataOK, PhaseOK, EitherOr, InsideKnown
    <3>3. CASE e # d
      BY <3>1, <3>3 DEF OursKnown, OursOK, ProvTypeOK, DataOK, PhaseOK, EitherOr, InsideKnown
    <3> QED
      BY <3>2, <3>3
  <2>4. DataOK' /\ PhaseOK' /\ EitherOr'
    BY DEF ProvTypeOK, DataOK, PhaseOK, EitherOr
  <2>5. SeedInOrder' /\ InsideKnown'
    BY DEF ProvTypeOK, DataOK, PhaseOK, EitherOr, SeedInOrder, SeedOK, InsideKnown
  <2> QED
    BY <2>2, <2>3, <2>4, <2>5 DEF ProvIInv
<1>39. CASE New
  <2> USE <1>0, <1>39 DEF New
  <2>1. ProvTypeOK'
    BY DEF ProvTypeOK, DataOK, PhaseOK
  <2>2. DataOK' /\ PhaseOK' /\ EitherOr'
    BY DEF ProvTypeOK, DataOK, PhaseOK, EitherOr
  <2>3. OursKnown' /\ SeedInOrder' /\ InsideKnown'
    BY DEF ProvTypeOK, DataOK, PhaseOK, EitherOr, OursKnown, OursOK, SeedInOrder, SeedOK, InsideKnown
  <2> QED
    BY <2>1, <2>2, <2>3 DEF ProvIInv
<1>40. CASE Expire
  <2>1. LeftKept
    BY <1>0, <1>40, LeftIsKept DEF Expire, DataOK
  <2> USE <1>0, <1>40, <2>1 DEF Expire, LeftKept
  <2>2. ProvTypeOK'
    BY DEF ProvTypeOK, DataOK, PhaseOK
  <2>3. DataOK' /\ PhaseOK' /\ EitherOr'
    BY DEF ProvTypeOK, DataOK, PhaseOK, EitherOr
  <2>4. OursKnown' /\ SeedInOrder' /\ InsideKnown'
    BY DEF ProvTypeOK, DataOK, PhaseOK, EitherOr, OursKnown, OursOK, SeedInOrder, SeedOK, InsideKnown
  <2> QED
    BY <2>2, <2>3, <2>4 DEF ProvIInv
<1>41. CASE Die
  <2>1. LeftKept
    BY <1>0, <1>41, LeftIsKept DEF Die, DataOK
  <2> USE <1>0, <1>41, <2>1 DEF Die, Gone, LeftKept
  <2>2. ProvTypeOK'
    BY DEF ProvTypeOK, DataOK, PhaseOK
  <2>3. DataOK' /\ PhaseOK' /\ EitherOr'
    BY DEF ProvTypeOK, DataOK, PhaseOK, EitherOr
  <2>4. OursKnown' /\ SeedInOrder' /\ InsideKnown'
    BY DEF ProvTypeOK, DataOK, PhaseOK, EitherOr, OursKnown, OursOK, SeedInOrder, SeedOK, InsideKnown
  <2> QED
    BY <2>2, <2>3, <2>4 DEF ProvIInv
<1> QED
  BY <1>1, <1>2, <1>3, <1>4, <1>5, <1>6, <1>7, <1>8, <1>9, <1>10, <1>11, <1>12, <1>13, <1>14,
     <1>15, <1>16, <1>17, <1>18, <1>19, <1>20, <1>21, <1>22, <1>23, <1>24, <1>25, <1>26, <1>27,
     <1>28, <1>29, <1>30, <1>31, <1>32, <1>33, <1>34, <1>35, <1>36, <1>37, <1>38, <1>39, <1>40,
     <1>41
     DEF ProvNext, ProcessStep, Provision, DockerStep, Shutdown, Others

\* The invariant of the run is part of it.
LEMMA ProvIInvImplies == ProvIInv => ProvisionerInv
  BY DEF ProvIInv, ProvisionerInv, ProvTypeOK, DataOK, PhaseOK, EitherOr, OursKnown, OursOK, SeedInOrder,
         SeedOK, InsideKnown, NothingLeft, SampleOnce, WaitsForOthersOnly, Docker

\* Nothing that was started is left by a proper end but what the invariant
\* names, samples are put in once, and Shutdown does not wait for the server's
\* own connections (provisioner.go, docker.go, embedded.go).
THEOREM ProvInvariance == ProvInit /\ [][ProvNext]_provVars => []ProvisionerInv
<1>1. ProvInit => ProvIInv
  BY ProvInitInv
<1>2. ProvIInv /\ [ProvNext]_provVars => ProvIInv'
  BY ProvNextInv
<1> QED
  BY <1>1, <1>2, ProvIInvImplies, PTL

===============================================================================
