---------------------------- MODULE TransferEngine ----------------------------
(***************************************************************************)
(* The transfer engine: internal/transfer/engine.go.                       *)
(*                                                                         *)
(* Start runs every job in a goroutine of its own, which copies tables of a*)
(* source database to a target database page by page.  Cancel, and other   *)
(* clients of the two databases, run at the same time.  Each call to a     *)
(* database is one step: it may fail, and an insert may also take effect   *)
(* and lose its answer.  A driver is free to ignore a cancelled context, so*)
(* a call made after Cancel may still succeed.                             *)
(*                                                                         *)
(* All jobs of the model copy between the same two databases.  A job takes *)
(* its tables in the order in which the source happens to list them, which *)
(* the model leaves open.  Progress events, which no decision of run       *)
(* depends on, are in ProgressFanout.                                      *)
(***************************************************************************)
EXTENDS Naturals, FiniteSets, Sequences, SequencesExt

CONSTANTS Jobs,          \* the jobs that may be started
          Tables,        \* the tables of the source
          Content,       \* the rows of each table, in the order a page query lists them
          Keyed,         \* tables whose primary key the target enforces
          Ignores,       \* the target is PostgreSQL: ON CONFLICT DO NOTHING
          BatchSizes,    \* the batch sizes clients ask for
          DefaultBatch,  \* 100 in the code
          Modes,         \* the on_conflict values clients ask for
          DryRuns,       \* the dry_run values clients ask for
          MaxDeletes     \* bound: rows other clients delete from each source table

ASSUME TransferAssumption ==
    /\ Content \in [Tables -> Seq(Nat)]
    /\ \A t \in Tables : IsInjective(Content[t])    \* each row has its own number
    /\ Keyed \subseteq Tables
    /\ Ignores \in BOOLEAN
    /\ BatchSizes \subseteq Nat
    /\ DefaultBatch \in Nat \ {0}
    /\ Modes \subseteq {"error", "skip", "overwrite"}
    /\ DryRuns \subseteq BOOLEAN
    /\ MaxDeletes \in Nat

VARIABLES
    status,     \* js.Job.Status; "absent" before Start
    opt,        \* the options of the job
    cancelled,  \* the context of the job is cancelled
    pc,         \* where run stands
    todo,       \* run: tables the loop has not come to
    cur,        \* run: the table the loop is at, as a set of at most one
    off,        \* transferTable: offset
    page,       \* transferTable: rows read and not yet inserted
    source,     \* the source database
    target,     \* the target database
    handled,    \* history: tables run has finished with
    sent,       \* history: rows whose insert took effect
    late        \* history: statements that took effect on the target after Cancel

loopVars == <<todo, cur, handled>>
pageVars == <<off, page, sent>>
dbVars   == <<source, target, late>>
vars     == <<status, opt, cancelled, pc, loopVars, pageVars, dbVars>>

RowsOf(t) == ToSet(Content[t])

Requested == [dry : DryRuns, mode : Modes, batch : BatchSizes, want : SUBSET Tables]

Options == [dry : BOOLEAN, mode : {"error", "skip", "overwrite"},
            batch : Nat \ {0}, want : SUBSET Tables]

Statuses == {"absent", "pending", "running", "done", "failed", "cancelled"}

PCs == {"absent", "begin", "schema", "next", "create", "conflict", "read",
        "insert", "ended"}

\* The control state of the jobs.
ControlTypeOK ==
    /\ status \in [Jobs -> Statuses]
    /\ opt \in [Jobs -> Options]
    /\ cancelled \in [Jobs -> BOOLEAN]
    /\ pc \in [Jobs -> PCs]
    /\ todo \in [Jobs -> SUBSET Tables]
    /\ cur \in [Jobs -> SUBSET Tables]
    /\ handled \in [Jobs -> SUBSET Tables]
    /\ late \in [Jobs -> Nat]

\* The pages under way and the two databases.
DataTypeOK ==
    /\ off \in [Jobs -> Nat]
    /\ page \in [Jobs -> Seq(Nat)]
    /\ sent \in [Jobs -> [Tables -> SUBSET Nat]]
    /\ source \in [Tables -> Seq(Nat)]
    /\ DOMAIN target = Tables
    /\ \A t \in Tables :
         target[t] \in [present : BOOLEAN, old : BOOLEAN, rows : [RowsOf(t) -> Nat]]

TypeOK == ControlTypeOK /\ DataTypeOK

\* A table of the target may exist already and may hold rows of its own.
Init ==
    /\ status = [j \in Jobs |-> "absent"]
    /\ opt = [j \in Jobs |-> [dry |-> FALSE, mode |-> "error",
                              batch |-> DefaultBatch, want |-> {}]]
    /\ cancelled = [j \in Jobs |-> FALSE]
    /\ pc = [j \in Jobs |-> "absent"]
    /\ todo = [j \in Jobs |-> {}]
    /\ cur = [j \in Jobs |-> {}]
    /\ off = [j \in Jobs |-> 0]
    /\ page = [j \in Jobs |-> <<>>]
    /\ source = Content
    /\ \E used \in SUBSET Tables :
         target = [t \in Tables |-> [present |-> t \in used, old |-> t \in used,
                                     rows |-> [r \in RowsOf(t) |-> 0]]]
    /\ handled = [j \in Jobs |-> {}]
    /\ sent = [j \in Jobs |-> [t \in Tables |-> {}]]
    /\ late = [j \in Jobs |-> 0]

Goto(j, l) == pc' = [pc EXCEPT ![j] = l]

SetStatus(j, s) == status' = [status EXCEPT ![j] = s]

\* A statement of job j takes effect on the target.
Lands(j, db) ==
    /\ target' = db
    /\ late' = [late EXCEPT ![j] = IF cancelled[j] THEN @ + 1 ELSE @]

\* A statement fails and leaves the target alone.
Refused == UNCHANGED <<target, late>>

Occupied(t) == target[t].old \/ \E r \in RowsOf(t) : target[t].rows[r] > 0

-----------------------------------------------------------------------------
(* The client: Start and Cancel.  Status and List change nothing.            *)

Start(j, o) ==
    /\ pc[j] = "absent"
    /\ SetStatus(j, "pending")
    /\ opt' = [opt EXCEPT ![j] = [o EXCEPT !.batch = IF @ = 0 THEN DefaultBatch ELSE @]]
    /\ Goto(j, "begin")
    /\ UNCHANGED <<cancelled, loopVars, pageVars, dbVars>>

\* Cancel does not look at the status: a job that has ended is cancelled too.
Cancel(j) ==
    /\ pc[j] # "absent"
    /\ SetStatus(j, "cancelled")
    /\ cancelled' = [cancelled EXCEPT ![j] = TRUE]
    /\ UNCHANGED <<opt, pc, loopVars, pageVars, dbVars>>

-----------------------------------------------------------------------------
(* run.                                                                      *)

Fail(j) ==
    /\ SetStatus(j, "failed")
    /\ Goto(j, "ended")

\* The goroutine starts: the status is overwritten whatever it is.
Begin(j) ==
    /\ pc[j] = "begin"
    /\ SetStatus(j, "running")
    /\ Goto(j, "schema")
    /\ UNCHANGED <<opt, cancelled, loopVars, pageVars, dbVars>>

\* No names means all tables; a name the source does not have is dropped.
FilterTables(names) == IF names = {} THEN Tables ELSE Tables \cap names

\* The schema of the source is read and filtered.
FetchSchema(j) ==
    /\ pc[j] = "schema"
    /\ ~opt[j].dry
    /\ todo' = [todo EXCEPT ![j] = FilterTables(opt[j].want)]
    /\ Goto(j, "next")
    /\ UNCHANGED <<status, opt, cancelled, cur, handled, pageVars, dbVars>>

\* A dry run ends when the schema is read.
FinishDryRun(j) ==
    /\ pc[j] = "schema"
    /\ opt[j].dry
    /\ SetStatus(j, "done")
    /\ Goto(j, "ended")
    /\ UNCHANGED <<opt, cancelled, loopVars, pageVars, dbVars>>

SchemaFails(j) ==
    /\ pc[j] = "schema"
    /\ Fail(j)
    /\ UNCHANGED <<opt, cancelled, loopVars, pageVars, dbVars>>

\* The head of the loop over the tables: the next one, if the job is not cancelled.
NextTable(j) ==
    /\ pc[j] = "next"
    /\ ~cancelled[j]
    /\ \E t \in todo[j] : /\ todo' = [todo EXCEPT ![j] = @ \ {t}]
                          /\ cur' = [cur EXCEPT ![j] = {t}]
    /\ Goto(j, "create")
    /\ UNCHANGED <<status, opt, cancelled, handled, pageVars, dbVars>>

TableCancelled(j) ==
    /\ pc[j] = "next"
    /\ cancelled[j]
    /\ todo[j] # {}
    /\ Fail(j)
    /\ UNCHANGED <<opt, cancelled, loopVars, pageVars, dbVars>>

\* Mutation: a cancelled context breaks out of the loop.
FinishEarly(j) ==
    /\ pc[j] = "next"
    /\ todo[j] = {} \/ cancelled[j]
    /\ SetStatus(j, "done")
    /\ Goto(j, "ended")
    /\ UNCHANGED <<opt, cancelled, loopVars, pageVars, dbVars>>

\* After the last table.
Finish(j) ==
    /\ pc[j] = "next"
    /\ todo[j] = {}
    /\ SetStatus(j, "done")
    /\ Goto(j, "ended")
    /\ UNCHANGED <<opt, cancelled, loopVars, pageVars, dbVars>>

\* CREATE TABLE IF NOT EXISTS; an error is logged and ignored.
CreateTable(j) ==
    /\ pc[j] = "create"
    /\ \/ \E t \in cur[j] : Lands(j, [target EXCEPT ![t].present = TRUE])
       \/ Refused
    /\ Goto(j, "conflict")
    /\ UNCHANGED <<status, opt, cancelled, loopVars, pageVars, source>>

\* transferTable begins.
EnterTransfer(j) ==
    /\ Goto(j, "read")
    /\ off' = [off EXCEPT ![j] = 0]

\* on_conflict = "overwrite": truncate; an error is ignored.
Truncate(j) ==
    /\ pc[j] = "conflict"
    /\ opt[j].mode = "overwrite"
    /\ \/ \E t \in cur[j] :
            /\ target[t].present
            /\ Lands(j, [target EXCEPT ![t].old = FALSE,
                                       ![t].rows = [r \in RowsOf(t) |-> 0]])
       \/ Refused
    /\ EnterTransfer(j)
    /\ UNCHANGED <<status, opt, cancelled, loopVars, page, sent, source>>

FinishTable(j) ==
    /\ handled' = [handled EXCEPT ![j] = @ \cup cur[j]]
    /\ cur' = [cur EXCEPT ![j] = {}]
    /\ Goto(j, "next")

\* on_conflict = "skip": leave out a table that has rows.
SkipTable(j) ==
    /\ pc[j] = "conflict"
    /\ opt[j].mode = "skip"
    /\ \E t \in cur[j] : Occupied(t)
    /\ FinishTable(j)
    /\ UNCHANGED <<status, opt, cancelled, todo, pageVars, dbVars>>

\* on_conflict = "skip" and no rows counted; a count that fails counts as zero.
CountedZero(j) ==
    /\ pc[j] = "conflict"
    /\ opt[j].mode = "skip"
    /\ EnterTransfer(j)
    /\ UNCHANGED <<status, opt, cancelled, loopVars, page, sent, dbVars>>

\* on_conflict = "error", or a value the switch does not know: no look at the table.
NoConflictCheck(j) ==
    /\ pc[j] = "conflict"
    /\ opt[j].mode = "error"
    /\ EnterTransfer(j)
    /\ UNCHANGED <<status, opt, cancelled, loopVars, page, sent, dbVars>>

\* SELECT * FROM t LIMIT n OFFSET m
Page(t, m, n) ==
    SubSeq(source[t], m + 1, IF m + n < Len(source[t]) THEN m + n ELSE Len(source[t]))

\* Mutation: the context is looked at once per table only.
ReadPageUnchecked(j) ==
    /\ pc[j] = "read"
    /\ \E t \in cur[j] : LET p == Page(t, off[j], opt[j].batch) IN
         /\ p # <<>>
         /\ page' = [page EXCEPT ![j] = p]
    /\ Goto(j, "insert")
    /\ UNCHANGED <<status, opt, cancelled, loopVars, off, sent, dbVars>>

\* The head of the loop of transferTable: the context, then the next page.
ReadPage(j) ==
    /\ pc[j] = "read"
    /\ ~cancelled[j]
    /\ \E t \in cur[j] : LET p == Page(t, off[j], opt[j].batch) IN
         /\ p # <<>>
         /\ page' = [page EXCEPT ![j] = p]
    /\ Goto(j, "insert")
    /\ UNCHANGED <<status, opt, cancelled, loopVars, off, sent, dbVars>>

\* An empty page ends the table.
LastPage(j) ==
    /\ pc[j] = "read"
    /\ ~cancelled[j]
    /\ \E t \in cur[j] : Page(t, off[j], opt[j].batch) = <<>>
    /\ FinishTable(j)
    /\ UNCHANGED <<status, opt, cancelled, todo, pageVars, dbVars>>

\* The context is cancelled, or the query fails.
ReadFails(j) ==
    /\ pc[j] = "read"
    /\ Fail(j)
    /\ UNCHANGED <<opt, cancelled, loopVars, pageVars, dbVars>>

\* What the multi-row INSERT of a page does in the target: it fails as a whole
\* on a duplicate key, except where ON CONFLICT DO NOTHING drops the duplicates.
Insertable(t, p) ==
    /\ target[t].present
    /\ t \in Keyed /\ ~Ignores => \A r \in ToSet(p) : target[t].rows[r] = 0

Inserted(t, p) ==
    [target EXCEPT ![t].rows =
        [r \in RowsOf(t) |->
            IF r \in ToSet(p) /\ (t \in Keyed => @[r] = 0) THEN @[r] + 1 ELSE @[r]]]

InsertLands(j) ==
    \E t \in cur[j] :
        /\ Insertable(t, page[j])
        /\ Lands(j, Inserted(t, page[j]))
        /\ sent' = [sent EXCEPT ![j][t] = @ \cup ToSet(page[j])]

InsertBatch(j) ==
    /\ pc[j] = "insert"
    /\ InsertLands(j)
    /\ off' = [off EXCEPT ![j] = @ + Len(page[j])]
    /\ page' = [page EXCEPT ![j] = <<>>]
    /\ Goto(j, "read")
    /\ UNCHANGED <<status, opt, cancelled, loopVars, source>>

\* Mutation: a batch that fails is logged and left out.
InsertFailsContinue(j) ==
    /\ pc[j] = "insert"
    /\ InsertLands(j) \/ (Refused /\ UNCHANGED sent)
    /\ off' = [off EXCEPT ![j] = @ + Len(page[j])]
    /\ page' = [page EXCEPT ![j] = <<>>]
    /\ Goto(j, "read")
    /\ UNCHANGED <<status, opt, cancelled, loopVars, source>>

\* Mutation: a batch that fails is tried again.
InsertFailsRetry(j) ==
    /\ pc[j] = "insert"
    /\ InsertLands(j) \/ (Refused /\ UNCHANGED sent)
    /\ page' = [page EXCEPT ![j] = <<>>]
    /\ Goto(j, "read")
    /\ UNCHANGED <<status, opt, cancelled, loopVars, off, source>>

\* The insert is refused, or takes effect and its answer is lost.
InsertFails(j) ==
    /\ pc[j] = "insert"
    /\ InsertLands(j) \/ (Refused /\ UNCHANGED sent)
    /\ Fail(j)
    /\ page' = [page EXCEPT ![j] = <<>>]
    /\ UNCHANGED <<opt, cancelled, loopVars, off, source>>

Work(j) ==
    \/ Begin(j) \/ FetchSchema(j) \/ FinishDryRun(j) \/ SchemaFails(j)
    \/ NextTable(j) \/ TableCancelled(j) \/ Finish(j)
    \/ CreateTable(j) \/ Truncate(j) \/ SkipTable(j) \/ CountedZero(j) \/ NoConflictCheck(j)
    \/ ReadPage(j) \/ LastPage(j) \/ ReadFails(j)
    \/ InsertBatch(j) \/ InsertFails(j)

-----------------------------------------------------------------------------
(* Another client of the source deletes a row; the rows after it move up.    *)

SourceDelete(t) ==
    /\ Len(Content[t]) - Len(source[t]) < MaxDeletes
    /\ \E k \in DOMAIN source[t] :
         source' = [source EXCEPT ![t] = RemoveAt(@, k)]
    /\ UNCHANGED <<status, opt, cancelled, pc, loopVars, pageVars, target, late>>

Next ==
    \/ \E j \in Jobs : (\E o \in Requested : Start(j, o)) \/ Cancel(j) \/ Work(j)
    \/ \E t \in Tables : SourceDelete(t)

Spec == Init /\ [][Next]_vars

\* The goroutine of a job is scheduled and every call to a database returns.
Fairness == \A j \in Jobs : WF_vars(Work(j))

FairSpec == Spec /\ Fairness

-----------------------------------------------------------------------------
(* What a job promises.                                                      *)

\* The tables the client asked the job to write.
Wanted(j) ==
    IF pc[j] = "absent" \/ opt[j].dry THEN {} ELSE FilterTables(opt[j].want)

\* "done" is only shown when every table was dealt with, "failed" when the
\* goroutine is gone, "cancelled" when somebody called Cancel.
HonestAbout(j) ==
    /\ status[j] = "done" => pc[j] = "ended" /\ handled[j] = Wanted(j)
    /\ status[j] = "failed" => pc[j] = "ended"
    /\ status[j] = "cancelled" => cancelled[j]
    /\ status[j] \in {"pending", "running"} => pc[j] \notin {"absent", "ended"}

StatusHonest == \A j \in Jobs : HonestAbout(j)

\* A table that was copied, not skipped, misses at most as many of the rows
\* still in the source as other clients deleted from it: paging by offset
\* loses one row for each deletion, and none when there is no deletion.
LossBounded ==
    \A j \in Jobs : opt[j].mode # "skip" =>
        \A t \in handled[j] :
            Cardinality(ToSet(source[t]) \ sent[j][t])
              <= Len(Content[t]) - Len(source[t])

\* No job puts a row into the target twice, however its batches fail.
CopiesAccounted ==
    \A t \in Tables : \A r \in RowsOf(t) :
        target[t].rows[r] <= Cardinality({j \in Jobs : r \in sent[j][t]})

\* Other clients only take rows away from the source, and keep their order.
SourceShrinks ==
    \A t \in Tables :
        /\ IsInjective(source[t])
        /\ ToSet(source[t]) \subseteq RowsOf(t)
        /\ Len(source[t]) <= Len(Content[t])

\* The rows the page query of job j has still to list, from offset n on.
Ahead(j, t, n) == {source[t][i] : i \in {k \in DOMAIN source[t] : k > off[j] + n}}

\* The offset of a job counts the rows it has sent of its table, and neither
\* the page it holds nor the pages to come list one of them again.
OffsetCounts(j) ==
    /\ pc[j] # "insert" => page[j] = <<>>
    /\ \A t \in Tables :
        /\ sent[j][t] \subseteq RowsOf(t)
        /\ sent[j][t] # {} => t \in handled[j] \cup cur[j]
    /\ \A t \in cur[j] :
        /\ pc[j] \in {"create", "conflict"} => sent[j][t] = {}
        /\ pc[j] \in {"read", "insert"} =>
             /\ Cardinality(sent[j][t]) = off[j]
             /\ IsInjective(page[j]) /\ ToSet(page[j]) \subseteq RowsOf(t)
             /\ sent[j][t] \cap ToSet(page[j]) = {}
             /\ Ahead(j, t, Len(page[j])) \cap (sent[j][t] \cup ToSet(page[j])) = {}

\* The content of both databases, and what the status says of it.
ContentInv ==
    /\ TypeOK
    /\ StatusHonest
    /\ LossBounded
    /\ CopiesAccounted
    /\ SourceShrinks
    /\ \A j \in Jobs : OffsetCounts(j)

\* After Cancel at most two more statements reach the target: the CREATE TABLE
\* and the TRUNCATE of the table run had turned to, or one INSERT.
LateBounded == \A j \in Jobs : late[j] <= 2

\* Every job comes to an end, with Cancel or without.
EveryJobEnds == \A j \in Jobs : pc[j] # "absent" ~> pc[j] = "ended"

\* TestCancelTransfer: a job that was cancelled says so.
CancelSticks == \A j \in Jobs : cancelled[j] => status[j] = "cancelled"

-----------------------------------------------------------------------------
(* The refinement: what a client of the engine may rely on.                  *)

Phase(j) == CASE pc[j] = "absent" -> "none"
              [] pc[j] = "begin"  -> "queued"
              [] pc[j] = "ended"  -> "closed"
              [] OTHER            -> "open"

Promise == INSTANCE TransferPromise WITH
             wanted <- [j \in Jobs |-> Wanted(j)],
             phase  <- [j \in Jobs |-> Phase(j)]

\* Every step of the engine is a step of the promise or invisible to a client.
KeepsPromise == Promise!Spec

-----------------------------------------------------------------------------
(* The inductive invariant of the control state.                             *)

\* Where the loop over the tables stands.
LoopInv(j) ==
    /\ pc[j] \in {"absent", "begin", "schema"}
         => todo[j] = {} /\ cur[j] = {} /\ handled[j] = {}
    /\ pc[j] \in {"next", "create", "conflict", "read", "insert"}
         => ~opt[j].dry /\ todo[j] \cup cur[j] \cup handled[j] = Wanted(j)
    /\ pc[j] = "next" => cur[j] = {}
    /\ todo[j] \cap (cur[j] \cup handled[j]) = {}
    /\ pc[j] \in {"create", "conflict", "read", "insert"}
         => \E t \in Wanted(j) : t \notin handled[j] /\ cur[j] = {t}
    /\ handled[j] \subseteq Wanted(j)

\* How many statements can have slipped through since Cancel.
LateInv(j) ==
    /\ ~cancelled[j] => late[j] = 0
    /\ pc[j] \in {"absent", "begin", "schema", "create", "insert"} => late[j] = 0
    /\ pc[j] = "conflict" => late[j] <= 1
    /\ late[j] <= 2

JobInv(j) == HonestAbout(j) /\ LoopInv(j) /\ LateInv(j)

ControlInv == ControlTypeOK /\ \A j \in Jobs : JobInv(j)

=============================================================================
