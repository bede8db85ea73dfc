------------------------------ MODULE TableData ------------------------------
(***************************************************************************)
(* What the REST interface does to the rows of one table: the import of a  *)
(* CSV file (internal/api/handler/importcsv.go) and the explorer with its  *)
(* pages and its edits of single rows (internal/api/handler/explorer.go).  *)
(*                                                                         *)
(* The import reads the whole file, infers a type for the column from its  *)
(* values one after the other, may create the table, and inserts batch by  *)
(* batch.  A page is one query by offset, followed by another that counts; *)
(* nothing ties them to each other or to the next page.                    *)
(***************************************************************************)
EXTENDS Integers, FiniteSets, SequencesExt

CONSTANTS
    Batch,           \* rows of one INSERT, 100 in the code
    MaxPerPage, DefaultPerPage,    \* 200 and 50 in the code
    FirstRows,       \* rows the table has at first
    Plans            \* bounds: the CSV files that may be imported, as sequences of values with
                     \* "bad" for a line that cannot be parsed; the number of edits of single
                     \* rows; what a client asks for as per_page, if it reads the pages

\* A value is NULL, an integer, a decimal number, "nan" (a word that ParseFloat
\* reads as a number: NaN, Inf), or other text.
CsvValues == {"null", "int", "real", "nan", "text"}

ASSUME TableAssumption ==
    /\ Batch \in Nat \ {0}
    /\ MaxPerPage \in Nat /\ DefaultPerPage \in 1..MaxPerPage
    /\ FirstRows \in Nat
    /\ \A p \in Plans :
         p.edits \in Nat /\ p.pages \subseteq Int /\ p.files \subseteq Seq(CsvValues \cup {"bad"})

VARIABLES
    strict,   \* the database enforces the types of columns (PostgreSQL) or does not (SQLite)
    coltype,  \* type of the imported column, "none" while there is no such table
    listing,  \* the rows, in the order of the column pages are sorted by
    import,   \* the import request
    walk,     \* a client that reads page after page
    edits,    \* edits so far
    plan      \* the bounds of this behaviour

tableVars == <<strict, coltype, listing, import, walk, edits, plan>>

-----------------------------------------------------------------------------
(* Types and values.                                                         *)

\* One value of inferTypes.  TEXT also means that nothing is known yet.
Infer(t, v) ==
    IF v = "null" THEN t
    ELSE IF v = "text" THEN "TEXT"
    ELSE IF v = "int" /\ t # "REAL" THEN "INTEGER"
    ELSE "REAL"

inferTypes(vs) ==
    LET t[n \in 0..Len(vs)] == IF n = 0 THEN "TEXT" ELSE Infer(t[n - 1], vs[n]) IN t[Len(vs)]

\* Lines that cannot be parsed, or have too few fields or too many, are passed over.
Parsed(file) ==
    LET r[n \in 0..Len(file)] ==
          IF n = 0 THEN <<>> ELSE IF file[n] = "bad" THEN r[n - 1] ELSE Append(r[n - 1], file[n])
    IN  r[Len(file)]

\* quoteCSVValue: what looks like a number goes unquoted into a column of numbers.
Bare(v, t) == t # "TEXT" /\ v \in {"int", "real", "nan"}

\* What a column holds of a value inferred to be of type t, or "refused".
Store(v, t) ==
    IF v = "nan" /\ Bare(v, t) THEN "refused"
    ELSE IF v = "null" \/ ~strict \/ coltype = "TEXT" THEN v
    ELSE IF v = "text" \/ (coltype = "INTEGER" /\ v # "int" /\ ~Bare(v, t)) THEN "refused"
    ELSE IF coltype = "INTEGER" /\ v = "real" THEN "rounded"
    ELSE v

-----------------------------------------------------------------------------

NoImport == [at |-> "none", rows |-> <<>>, type |-> "TEXT", next |-> 1, landed |-> <<>>, said |-> 0]
NoWalk == [at |-> "none", page |-> 1, per |-> 1, pages |-> 0, start |-> {}, seen |-> <<>>,
           added |-> 0, gone |-> 0, moved |-> 0, blind |-> FALSE]

TableTypeOK ==
    /\ strict \in BOOLEAN
    /\ coltype \in {"none", "TEXT", "INTEGER", "REAL"}
    /\ import.at \in {"none", "create", "insert", "created", "bad request", "error", "empty"}
    /\ walk.at \in {"none", "page", "count", "ended"}
    /\ walk.per \in 1..MaxPerPage
    /\ edits \in 0..plan.edits /\ plan \in Plans

TableInit ==
    /\ strict \in BOOLEAN
    /\ coltype \in {"none", "TEXT", "INTEGER"}
    /\ listing = [i \in 1..FirstRows |-> i]
    /\ import = NoImport
    /\ walk = NoWalk
    /\ edits = 0
    /\ plan \in Plans

\* Rows are numbered in the order they come; a new one may stand anywhere.
NewRow == 1 + Len(import.landed) + FirstRows + edits

\* A walk under way notes what is done to the table meanwhile.
Noted(what, n) == walk' = IF walk.at \in {"page", "count"} THEN [walk EXCEPT ![what] = @ + n] ELSE walk

-----------------------------------------------------------------------------
(* ImportCSV.                                                                *)

ImportBegin(file, create) ==
    /\ import.at = "none"
    /\ LET rows == Parsed(file) IN
       import' = [NoImport EXCEPT
                    !.at = IF rows = <<>> THEN "bad request" ELSE IF create THEN "create" ELSE "insert",
                    !.rows = rows, !.type = inferTypes(rows)]
    /\ UNCHANGED <<strict, coltype, listing, walk, edits, plan>>

\* CREATE TABLE IF NOT EXISTS
CreateTable ==
    /\ import.at = "create"
    /\ coltype' = IF coltype = "none" THEN import.type ELSE coltype
    /\ import' = [import EXCEPT !.at = "insert"]
    /\ UNCHANGED <<strict, listing, walk, edits, plan>>

CreateFails ==
    /\ import.at = "create"
    /\ import' = [import EXCEPT !.at = "error"]
    /\ UNCHANGED <<strict, coltype, listing, walk, edits, plan>>

BatchEnd == IF import.next + Batch - 1 < Len(import.rows) THEN import.next + Batch - 1 ELSE Len(import.rows)
Stored == [i \in 1..(BatchEnd - import.next + 1) |-> Store(import.rows[import.next + i - 1], import.type)]
Accepted == coltype # "none" /\ "refused" \notin ToSet(Stored)

\* The rows are there; they come last in the table.
BatchLands(now) ==
    /\ import.at = "insert" /\ import.next <= Len(import.rows)
    /\ Accepted
    /\ listing' = listing \o [i \in 1..Len(Stored) |-> NewRow + i - 1]
    /\ import' = [import EXCEPT !.at = now, !.next = BatchEnd + 1, !.landed = @ \o Stored, !.said = BatchEnd]
    /\ Noted("added", Len(Stored))
    /\ UNCHANGED <<strict, coltype, edits, plan>>

InsertBatch == BatchLands("insert")

\* The rows are there, but the answer is an error.
InsertUnanswered == BatchLands("empty")

\* Mutation: a batch that failed is passed over.
InsertFailsGoesOn ==
    /\ import.at = "insert" /\ import.next <= Len(import.rows)
    /\ import' = [import EXCEPT !.next = BatchEnd + 1, !.said = BatchEnd]
    /\ UNCHANGED <<strict, coltype, listing, walk, edits, plan>>

\* The handler returns and writes nothing: the client gets 200 and no body.
InsertFails ==
    /\ import.at = "insert" /\ import.next <= Len(import.rows)
    /\ import' = [import EXCEPT !.at = "empty"]
    /\ UNCHANGED <<strict, coltype, listing, walk, edits, plan>>

\* 201 with the number of rows.
ImportAnswered ==
    /\ import.at = "insert" /\ import.next > Len(import.rows)
    /\ import' = [import EXCEPT !.at = "created"]
    /\ UNCHANGED <<strict, coltype, listing, walk, edits, plan>>

-----------------------------------------------------------------------------
(* The explorer: InsertRow, DeleteRow, UpdateRow; BrowseTable.               *)

InsertRow ==
    /\ edits < plan.edits
    /\ \E k \in 1..(Len(listing) + 1) : listing' = InsertAt(listing, k, NewRow)
    /\ edits' = edits + 1
    /\ Noted("added", 1)
    /\ UNCHANGED <<strict, coltype, import, plan>>

DeleteRow ==
    /\ edits < plan.edits
    /\ \E k \in 1..Len(listing) : listing' = RemoveAt(listing, k)
    /\ edits' = edits + 1
    /\ Noted("gone", 1)
    /\ UNCHANGED <<strict, coltype, import, plan>>

\* The row gets another place if the column pages are sorted by is changed.
EditRow ==
    /\ edits < plan.edits
    /\ \E k, l \in 1..Len(listing) : k # l /\ listing' = InsertAt(RemoveAt(listing, k), l, listing[k])
    /\ edits' = edits + 1
    /\ Noted("moved", 1)
    /\ UNCHANGED <<strict, coltype, import, plan>>

PageSize(per) == IF per < 1 \/ per > MaxPerPage THEN DefaultPerPage ELSE per

WalkBegin(per) ==
    /\ walk.at = "none"
    /\ walk' = [NoWalk EXCEPT !.at = "page", !.per = PageSize(per), !.start = ToSet(listing)]
    /\ UNCHANGED <<strict, coltype, listing, import, edits, plan>>

\* LIMIT per_page OFFSET (page - 1) * per_page, in a given order.
PageQuery ==
    /\ walk.at = "page"
    /\ LET offset == (walk.page - 1) * walk.per
           end == IF offset + walk.per < Len(listing) THEN offset + walk.per ELSE Len(listing) IN
       walk' = [walk EXCEPT !.at = "count", !.seen = @ \o SubSeq(listing, offset + 1, end)]
    /\ UNCHANGED <<strict, coltype, listing, import, edits, plan>>

\* The client goes on while there are pages left.
Turned(pages) ==
    walk' = IF walk.page < pages THEN [walk EXCEPT !.at = "page", !.page = @ + 1, !.pages = pages]
            ELSE [walk EXCEPT !.at = "ended", !.pages = pages]

CountQuery ==
    /\ walk.at = "count"
    /\ Turned((Len(listing) + walk.per - 1) \div walk.per)
    /\ UNCHANGED <<strict, coltype, listing, import, edits, plan>>

\* A count that fails is logged; the answer says that there are no pages.
CountFails ==
    /\ walk.at = "count"
    /\ walk' = [walk EXCEPT !.at = "ended", !.pages = 0, !.blind = TRUE]
    /\ UNCHANGED <<strict, coltype, listing, import, edits, plan>>

TableNext ==
    \/ \E f \in plan.files, c \in BOOLEAN : ImportBegin(f, c)
    \/ CreateTable \/ CreateFails \/ InsertBatch \/ InsertUnanswered \/ InsertFails \/ ImportAnswered
    \/ InsertRow \/ DeleteRow \/ EditRow
    \/ \E p \in plan.pages : WalkBegin(p)
    \/ PageQuery \/ CountQuery \/ CountFails

TableSpec == TableInit /\ [][TableNext]_tableVars

-----------------------------------------------------------------------------
(* Properties.                                                               *)

\* What a column of values should be: after the last text, REAL if a value is
\* no integer, INTEGER if there are integers only, and TEXT if there is nothing.
\* A text before that does not count, though the column must hold it.
TypeBySuffix ==
    LET vs == import.rows
        Rest == {i \in 1..Len(vs) : vs[i] # "null" /\ \A j \in i..Len(vs) : vs[j] # "text"} IN
    import.type = IF Rest = {} THEN "TEXT"
                     ELSE IF \E i \in Rest : vs[i] # "int" THEN "REAL" ELSE "INTEGER"

\* An import has put in the rows of its file in order, each once, up to the end
\* of some batch; if it says so, all of them; and values change on the way only
\* by the rounding of a number in a column inferred or declared to be integer.
ImportHonest ==
    LET k == Len(import.landed) IN
    /\ k = Len(import.rows) \/ k % Batch = 0
    /\ import.at = "created" => k = Len(import.rows) /\ import.said = k
    /\ \A i \in 1..k :
          \/ import.landed[i] = import.rows[i]
          \/ import.rows[i] = "real" /\ import.landed[i] = "rounded" /\ coltype = "INTEGER" /\ strict

Times(r) == Cardinality({i \in 1..Len(walk.seen) : walk.seen[i] = r})

\* A walk through all pages misses at most as many of the rows that were there
\* all along as were deleted or moved meanwhile, and shows at most as many twice
\* as were added or moved; a count that failed ends it early.
WalkBounded ==
    walk.at = "ended" /\ ~walk.blind =>
        LET all == walk.start \cap ToSet(listing)
            missed == {r \in all : Times(r) = 0} IN
        /\ Cardinality(missed) <= walk.gone + walk.moved
        /\ Len(walk.seen) - Cardinality(ToSet(walk.seen)) <= walk.added + walk.moved

\* What is imported, and what a reader of pages sees.
TableInv == TableTypeOK /\ TypeBySuffix /\ ImportHonest /\ WalkBounded

=============================================================================
