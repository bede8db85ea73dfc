------------------------------ MODULE DataProofs ------------------------------
(***************************************************************************)
(* Proofs about what the REST interface does to data: the key store and    *)
(* the encrypted columns, for any number of requests, users, keys and      *)
(* rows, any values and any way "%v" prints them; the import of a file and *)
(* the walk through a table, for any files, batches, pages and edits; and  *)
(* the algorithms, on texts of any length.                                 *)
(***************************************************************************)
EXTENDS MCColumnCrypto, FiniteSetTheorems, SequenceTheorems, WellFoundedInduction, TLAPS

\* A cell, and the keys of its layers.
Cell == [plain : DOMAIN Printed \cup {Gone, Null, Lost}, layers : Seq(Keys)]
KeysOf(c) == {c.layers[n] : n \in 1..Len(c.layers)}

\* Requests to save a key, and requests for a column.
Savings == [pc : {"save", "open", "write"}, op : {"create", "delete"}, key : Keys]
Passes == [pc : {"rows", "update"}, op : {"encrypt", "decrypt"}, user : Users,
           key : Keys \cup {NoKey}, seen : UNION {[S -> Cell] : S \in SUBSET Rows},
           todo : SUBSET Rows, touched : SUBSET Rows, affected : Nat]

\* Memory and file: what the file lacks of the memory is to be deleted, was
\* refused, or is the key of whoever writes.
StoreOK ==
    /\ up \in BOOLEAN
    /\ made \subseteq Keys /\ mem \subseteq made /\ (file = Torn \/ file \subseteq made)
    /\ holder \in Reqs \cup {NoReq}
    /\ ~up => holder = NoReq /\ \A q \in Reqs : req[q] = Idle
    /\ FileFollowsMemory
    /\ up /\ file # Torn =>
         \A k \in mem : k \in file \/ k \in dropped \/ (holder # NoReq /\ k = req[holder].key)

\* The column: while the server is down, the file stands for the memory.
CellsOK ==
    /\ cells \in [Rows -> Cell]
    /\ wrote \in [Rows -> Values \cup {Null, Gone}]
    /\ \A r \in Rows :
         /\ Len(cells[r].layers) <= MaxDepth
         /\ KeysOf(cells[r]) \subseteq made
         /\ cells[r].plain \in {Gone, Null} => cells[r].layers = <<>>
         /\ up => KeysOf(cells[r]) \subseteq mem \cup dropped
         /\ ~up /\ file # Torn => KeysOf(cells[r]) \subseteq file \cup dropped

\* A row as a request read it can be worked on.
SeenOK(c, op) ==
    /\ c.plain \notin {Gone, Null}
    /\ Len(c.layers) <= MaxDepth
    /\ op = "encrypt" => Len(c.layers) < MaxDepth
    /\ KeysOf(c) \subseteq made
    /\ KeysOf(c) \subseteq mem \cup dropped

\* What a request has done to a row it has behind it, unless others wrote it.
Changed(r, c) == Len(cells[r].layers) # Len(c.layers) \/ cells[r].plain = Lost

\* A request for a column: what it has not come to yet is as it was read,
\* unless others wrote it, and it counts what it changed.
PassOK(x) ==
    /\ x \in Passes /\ up
    /\ x.todo \subseteq DOMAIN x.seen
    /\ x.op = "encrypt" => x.key \in made
    /\ \A r \in DOMAIN x.seen : SeenOK(x.seen[r], x.op)
    /\ \A r \in x.todo \ x.touched : cells[r] = x.seen[r]
    /\ x.affected + Cardinality(x.todo) <= Cardinality(DOMAIN x.seen)
    /\ x.affected + Cardinality(x.todo) = Cardinality(DOMAIN x.seen) =>
         \A r \in (DOMAIN x.seen \ x.todo) \ x.touched : Changed(r, x.seen[r])
    /\ x.pc = "update" =>
         /\ x.todo # {}
         /\ x.op = "encrypt" => x.key \in mem \cup dropped
         /\ x.op = "decrypt" => x.seen[Min(x.todo)].layers # <<>>

\* A request to save a key.
SavingOK(x) ==
    /\ x \in Savings /\ x.key \in made /\ up
    /\ x.op = "delete" => x.key \in dropped

\* Every request, and who holds the lock.
Served(q) ==
    /\ req[q] = Idle \/ SavingOK(req[q]) \/ PassOK(req[q])
    /\ holder = q <=> req[q].pc \in {"open", "write"}

ReqsOK == DOMAIN req = Reqs /\ \A q \in Reqs : Served(q)

\* The inductive invariant.
ColIInv == StoreOK /\ CellsOK /\ ReqsOK /\ ValuesKept

-----------------------------------------------------------------------------
(* The rows and the texts.                                                   *)

\* A set of numbers that is not empty has a least one.
LEMMA Least == ASSUME NEW T, T \subseteq Nat, T # {}
               PROVE  \E x \in T : \A y \in T : x <= y
<1>1. PICK x \in T : \A y \in T : <<y, x>> \notin OpToRel(<, Nat)
  BY WFMin, NatLessThanWellFounded, Zenon
<1>2. \A y \in T : ~(y < x)
  <2> TAKE y \in T
  <2>1. <<y, x>> \in Nat \X Nat /\ <<y, x>>[1] = y /\ <<y, x>>[2] = x
    OBVIOUS
  <2> QED
    BY <1>1, <2>1, Zenon DEF OpToRel
<1> QED
  BY <1>2

\* The row at hand is one of those to do.
LEMMA RowAtHand ==
    ASSUME NEW T, T \subseteq Rows, T # {}
    PROVE  Min(T) \in T
<1>1. \E x \in T : \A y \in T : x <= y
  BY RowsAreNumbers, Least
<1> QED
  BY <1>1 DEF Min

\* Encryption puts one layer on a text, or forgets it; a value it keeps is the
\* one it was, or as "%v" prints it.
LEMMA WrapLaw ==
    ASSUME NEW c \in Cell, NEW k \in Keys, c.plain \notin {Gone, Null}
    PROVE  /\ Wrap(c, k) \in Cell
           /\ Wrap(c, k).plain \notin {Gone, Null}
           /\ Len(Wrap(c, k).layers) <= Len(c.layers) + 1
           /\ KeysOf(Wrap(c, k)) \subseteq KeysOf(c) \cup {k}
           /\ Len(Wrap(c, k).layers) # Len(c.layers) \/ Wrap(c, k).plain = Lost
           /\ \/ Wrap(c, k).plain = c.plain
              \/ Wrap(c, k).plain = Lost /\ KindOf[k] = "oneway"
              \/ c.plain \in DOMAIN Printed /\ Wrap(c, k).plain = Printed[c.plain]
<1>0. c.layers \in Seq(Keys) /\ Len(c.layers) \in Nat /\ c.plain \in DOMAIN Printed \cup {Lost}
  BY DEF Cell
<1>1. CASE KindOf[k] = "oneway"
  <2>1. Wrap(c, k).plain = Lost /\ Wrap(c, k).layers = <<k>>
    BY <1>1 DEF Wrap
  <2>2. <<k>> \in Seq(Keys) /\ Len(<<k>>) = 1 /\ \A n \in 1..1 : <<k>>[n] = k
    OBVIOUS
  <2>3. Wrap(c, k) = [plain |-> Lost, layers |-> <<k>>]
    BY <1>1 DEF Wrap
  <2> QED
    BY <1>0, <1>1, <2>1, <2>2, <2>3 DEF Cell, KeysOf, Lost, Gone, Null
<1>2. CASE KindOf[k] # "oneway"
  <2> DEFINE p == IF c.layers = <<>> /\ c.plain # Lost THEN Printed[c.plain] ELSE c.plain
             l == Append(c.layers, k)
  <2>1. Wrap(c, k) = [plain |-> p, layers |-> l]
    BY <1>2 DEF Wrap
  <2>2. /\ p \in DOMAIN Printed \cup {Lost}
        /\ p = c.plain \/ (c.plain \in DOMAIN Printed /\ p = Printed[c.plain])
    BY <1>0, PrintedOnce
  <2>3. l \in Seq(Keys) /\ Len(l) = Len(c.layers) + 1
    BY <1>0
  <2>4. \A n \in 1..Len(l) : l[n] = k \/ (n \in 1..Len(c.layers) /\ l[n] = c.layers[n])
    BY <1>0
  <2>5. p \notin {Gone, Null}
    BY <2>2, PrintedOnce DEF Gone, Null, Lost
  <2> HIDE DEF p, l
  <2>6. Wrap(c, k).plain = p /\ Wrap(c, k).layers = l
    BY <2>1
  <2>7. KeysOf(Wrap(c, k)) \subseteq KeysOf(c) \cup {k}
    BY <2>4, <2>6 DEF KeysOf
  <2>8. Wrap(c, k) \in Cell
    BY <2>1, <2>2, <2>3 DEF Cell
  <2> QED
    BY <1>0, <2>2, <2>3, <2>5, <2>6, <2>7, <2>8
<1> QED
  BY <1>1, <1>2

\* Decryption takes one layer off and leaves the value.
LEMMA UnwrapLaw ==
    ASSUME NEW c \in Cell, c.layers # <<>>
    PROVE  /\ Unwrap(c) \in Cell
           /\ Unwrap(c).plain = c.plain
           /\ Len(Unwrap(c).layers) = Len(c.layers) - 1
           /\ KeysOf(Unwrap(c)) \subseteq KeysOf(c)
<1> DEFINE n == Len(c.layers)
           l == SubSeq(c.layers, 1, n - 1)
<1>1. c.layers \in Seq(Keys) /\ n \in Nat /\ n # 0
  BY DEF Cell
<1>2. l \in Seq(Keys) /\ Len(l) = n - 1 /\ \A i \in 1..(n - 1) : l[i] = c.layers[i]
  BY <1>1
<1>3. Unwrap(c) = [plain |-> c.plain, layers |-> l]
  BY DEF Unwrap
<1> HIDE DEF l
<1>4. KeysOf(Unwrap(c)) \subseteq KeysOf(c)
  BY <1>1, <1>2, <1>3 DEF KeysOf
<1> QED
  BY <1>2, <1>3, <1>4 DEF Cell

-----------------------------------------------------------------------------
(* What a step leaves alone.                                                 *)

\* The column stands when keys only come, or go to those to be deleted.
LEMMA TableKept ==
    ASSUME CellsOK, ValuesKept, up, UNCHANGED <<up, table>>,
           made \subseteq made', mem \cup dropped \subseteq mem' \cup dropped'
    PROVE  CellsOK' /\ ValuesKept'
<1>1. UNCHANGED <<cells, wrote, lost>>
  BY DEF table
<1>2. CellsOK'
  BY <1>1 DEF CellsOK, KeysOf
<1>3. ValuesKept'
  BY <1>1 DEF ValuesKept
<1> QED
  BY <1>2, <1>3

\* The store stands when the holder of its lock does.
LEMMA StoreKept ==
    ASSUME StoreOK, up, UNCHANGED <<up, store>>, holder # NoReq => req'[holder] = req[holder]
    PROVE  StoreOK'
<1>1. UNCHANGED <<mem, file, holder, made, dropped, unsaved>>
  BY DEF store
<1> QED
  BY <1>1 DEF StoreOK, FileFollowsMemory

\* A request that did not move stands when the column did not change.
LEMMA OtherKept ==
    ASSUME NEW p \in Reqs, Served(p), req'[p] = req[p], UNCHANGED <<up, cells>>,
           made \subseteq made', dropped \subseteq dropped',
           mem \cup dropped \subseteq mem' \cup dropped', holder' = p <=> holder = p
    PROVE  Served(p)'
<1>1. CASE req[p] = Idle
  BY <1>1 DEF Served
<1>2. CASE SavingOK(req[p])
  BY <1>2 DEF Served, SavingOK
<1>3. CASE PassOK(req[p])
  <2> DEFINE x == req[p]
  <2>1. \A r \in DOMAIN x.seen : SeenOK(x.seen[r], x.op)
    BY <1>3 DEF PassOK
  <2>2. \A r \in DOMAIN x.seen : SeenOK(req[p].seen[r], req[p].op)'
    BY <2>1 DEF SeenOK, KeysOf
  <2>3. \A r \in DOMAIN x.seen : Changed(r, x.seen[r]) => Changed(r, req[p].seen[r])'
    BY DEF Changed
  <2>4. PassOK(req[p])'
    BY <1>3, <2>2, <2>3 DEF PassOK
  <2> QED
    BY <2>4 DEF Served
<1> QED
  BY <1>1, <1>2, <1>3 DEF Served

\* One request moves, the column does not change.
LEMMA OneMoves ==
    ASSUME ReqsOK, NEW q \in Reqs, NEW x, req' = [req EXCEPT ![q] = x], UNCHANGED <<up, cells>>,
           made \subseteq made', dropped \subseteq dropped',
           mem \cup dropped \subseteq mem' \cup dropped',
           holder' = holder \/ {holder, holder'} \subseteq {q, NoReq},
           Served(q)'
    PROVE  ReqsOK'
<1>1. DOMAIN req' = Reqs /\ \A p \in Reqs \ {q} : req'[p] = req[p]
  BY DEF ReqsOK
<1>2. ASSUME NEW p \in Reqs \ {q} PROVE Served(p)'
  <2>1. holder' = p <=> holder = p
    BY NobodyIsNone DEF NoReq
  <2>2. Served(p)
    BY DEF ReqsOK
  <2> QED
    BY <1>1, <2>1, <2>2, OtherKept
<1> QED
  BY <1>1, <1>2 DEF ReqsOK

-----------------------------------------------------------------------------
(* The steps.                                                                *)

\* The server starts with the keys of its file, and every value can be read.
LEMMA ColInitInv == Init => ColIInv
<1> SUFFICES ASSUME Init PROVE ColIInv
  OBVIOUS
<1> USE DEF Init
<1>1. StoreOK
  BY FirstReadable DEF StoreOK, FileFollowsMemory
<1>2. \A r \in Rows : /\ cells[r].plain \in Values /\ cells[r].layers \in Seq(Saved)
                      /\ Len(cells[r].layers) <= MaxDepth
  BY FirstReadable
<1>3. CellsOK
  <2>1. cells \in [Rows -> [plain : Values, layers : Seq(Saved)]]
    BY FirstReadable
  <2>2. [plain : Values, layers : Seq(Saved)] \subseteq Cell
    BY FirstReadable, PrintedOnce DEF Cell
  <2>3. \A r \in Rows : KeysOf(cells[r]) \subseteq Saved
    BY <1>2 DEF KeysOf
  <2>4. \A r \in Rows : cells[r].plain \notin {Gone, Null}
    BY <1>2, PrintedOnce DEF Gone, Null
  <2>5. wrote \in [Rows -> Values \cup {Null, Gone}]
    BY <1>2
  <2> QED
    BY <1>2, <2>1, <2>2, <2>3, <2>4, <2>5 DEF CellsOK
<1>4. ReqsOK
  BY NobodyIsNone DEF ReqsOK, Served, Idle, NoReq
<1>5. ValuesKept
  BY DEF ValuesKept
<1> QED
  BY <1>1, <1>3, <1>4, <1>5 DEF ColIInv

\* Saving and deleting a key.
LEMMA SavingInv ==
    ASSUME ColIInv, NEW q \in Reqs, Saving(q) PROVE ColIInv'
<1>0. StoreOK /\ CellsOK /\ ReqsOK /\ ValuesKept /\ Served(q) /\ DOMAIN req = Reqs
  BY DEF ColIInv, ReqsOK
<1>1. CASE CreateKey(q)
  <2>1. PICK k \in Keys \ made :
          /\ Call(q, [pc |-> "save", op |-> "create", key |-> k])
          /\ made' = made \cup {k}
          /\ UNCHANGED <<up, mem, file, holder, dropped, unsaved, table, writes, crashes>>
    BY <1>1 DEF CreateKey
  <2> DEFINE x == [pc |-> "save", op |-> "create", key |-> k]
  <2>2. up /\ req[q] = Idle /\ req' = [req EXCEPT ![q] = x] /\ UNCHANGED cells
    BY <2>1 DEF Call, table
  <2>3. holder # q
    BY <1>0, <2>2 DEF Served, Idle
  <2>4. x \in Savings /\ x.key = k /\ x.op = "create" /\ x.pc = "save"
    BY DEF Savings
  <2> HIDE DEF x
  <2>5. Served(q)'
    BY <1>0, <2>1, <2>2, <2>3, <2>4 DEF Served, SavingOK
  <2>6. ReqsOK'
    BY <1>0, <2>1, <2>2, <2>5, OneMoves
  <2>7. StoreOK'
    BY <1>0, <2>1, <2>2, <2>3 DEF StoreOK, FileFollowsMemory
  <2>8. CellsOK' /\ ValuesKept'
    BY <1>0, <2>1, <2>2, TableKept
  <2> QED
    BY <2>6, <2>7, <2>8 DEF ColIInv
<1>2. CASE DeleteKey(q)
  <2>1. PICK k \in made :
          /\ Call(q, [pc |-> "save", op |-> "delete", key |-> k])
          /\ dropped' = dropped \cup {k}
          /\ UNCHANGED <<up, mem, file, holder, made, unsaved, table, writes, crashes>>
    BY <1>2 DEF DeleteKey
  <2> DEFINE x == [pc |-> "save", op |-> "delete", key |-> k]
  <2>2. up /\ req[q] = Idle /\ req' = [req EXCEPT ![q] = x] /\ UNCHANGED cells
    BY <2>1 DEF Call, table
  <2>3. holder # q
    BY <1>0, <2>2 DEF Served, Idle
  <2>4. x \in Savings /\ x.key = k /\ x.op = "delete" /\ x.pc = "save"
    BY <1>0 DEF Savings, StoreOK
  <2> HIDE DEF x
  <2>5. Served(q)'
    BY <1>0, <2>1, <2>2, <2>3, <2>4 DEF Served, SavingOK
  <2>6. ReqsOK'
    BY <1>0, <2>1, <2>2, <2>5, OneMoves
  <2>7. StoreOK'
    BY <1>0, <2>1, <2>2, <2>3 DEF StoreOK, FileFollowsMemory
  <2>8. CellsOK' /\ ValuesKept'
    BY <1>0, <2>1, <2>2, TableKept
  <2> QED
    BY <2>6, <2>7, <2>8 DEF ColIInv
<1>3. CASE Lock(q)
  <2> DEFINE x == [req[q] EXCEPT !.pc = "open"]
  <2>1. /\ up /\ req[q].pc = "save" /\ holder = NoReq /\ holder' = q
        /\ req' = [req EXCEPT ![q] = x]
        /\ UNCHANGED <<up, file, made, dropped, unsaved, table, cells>>
    BY <1>3 DEF Lock, table
  <2>2. SavingOK(req[q])
    BY <1>0, <2>1 DEF Served, Idle, PassOK, Passes
  <2>3. x \in Savings /\ x.key = req[q].key /\ x.op = req[q].op /\ x.pc = "open"
    BY <2>2 DEF SavingOK, Savings
  <2>4. /\ mem' \subseteq mem \cup {x.key}
        /\ mem \cup dropped \subseteq mem' \cup dropped'
    BY <1>3, <2>1, <2>2, <2>3 DEF Lock, SavingOK, Savings
  <2> HIDE DEF x
  <2>5. Served(q)'
    BY <1>0, <2>1, <2>2, <2>3 DEF Served, SavingOK
  <2>6. ReqsOK'
    BY <1>0, <2>1, <2>4, <2>5, OneMoves
  <2>7. StoreOK'
    BY <1>0, <2>1, <2>2, <2>3, <2>4, NobodyIsNone DEF StoreOK, FileFollowsMemory, SavingOK, NoReq
  <2>8. CellsOK' /\ ValuesKept'
    BY <1>0, <2>1, <2>4, TableKept
  <2> QED
    BY <2>6, <2>7, <2>8 DEF ColIInv
<1>4. CASE Truncate(q)
  <2> DEFINE x == [req[q] EXCEPT !.pc = "write"]
  <2>1. /\ up /\ req[q].pc = "open" /\ file' = Torn
        /\ req' = [req EXCEPT ![q] = x]
        /\ UNCHANGED <<up, mem, holder, made, dropped, unsaved, table, cells>>
    BY <1>4 DEF Truncate, table
  <2>2. SavingOK(req[q]) /\ holder = q
    BY <1>0, <2>1 DEF Served, Idle, PassOK, Passes
  <2>3. x \in Savings /\ x.key = req[q].key /\ x.op = req[q].op /\ x.pc = "write"
    BY <2>2 DEF SavingOK, Savings
  <2> HIDE DEF x
  <2>5. Served(q)'
    BY <1>0, <2>1, <2>2, <2>3 DEF Served, SavingOK
  <2>6. ReqsOK'
    BY <1>0, <2>1, <2>5, OneMoves
  <2>7. StoreOK'
    BY <1>0, <2>1, <2>2, NobodyIsNone DEF StoreOK, FileFollowsMemory, NoReq
  <2>8. CellsOK' /\ ValuesKept'
    BY <1>0, <2>1, TableKept
  <2> QED
    BY <2>6, <2>7, <2>8 DEF ColIInv
<1>5. CASE Written(q)
  <2>1. /\ up /\ req[q].pc = "write" /\ file' = mem /\ holder' = NoReq
        /\ req' = [req EXCEPT ![q] = Idle]
        /\ UNCHANGED <<up, mem, made, dropped, table, cells>>
    BY <1>5 DEF Written, table
  <2>2. holder = q
    BY <1>0, <2>1 DEF Served
  <2>5. Served(q)'
    BY <1>0, <2>1, NobodyIsNone DEF Served, Idle, NoReq
  <2>6. ReqsOK'
    BY <1>0, <2>1, <2>2, <2>5, OneMoves
  <2>7. StoreOK'
    BY <1>0, <2>1 DEF StoreOK, FileFollowsMemory
  <2>8. CellsOK' /\ ValuesKept'
    BY <1>0, <2>1, TableKept
  <2> QED
    BY <2>6, <2>7, <2>8 DEF ColIInv
<1>6. CASE WriteFails(q)
  <2>1. /\ up /\ req[q].pc \in {"open", "write"} /\ unsaved' = TRUE /\ holder' = NoReq
        /\ dropped' = dropped \cup {req[q].key}
        /\ req' = [req EXCEPT ![q] = Idle]
        /\ UNCHANGED <<up, mem, file, made, table, cells>>
    BY <1>6 DEF WriteFails, table
  <2>2. holder = q
    BY <1>0, <2>1 DEF Served
  <2>5. Served(q)'
    BY <1>0, <2>1, NobodyIsNone DEF Served, Idle, NoReq
  <2>6. ReqsOK'
    BY <1>0, <2>1, <2>2, <2>5, OneMoves
  <2>7. StoreOK'
    BY <1>0, <2>1, <2>2 DEF StoreOK, FileFollowsMemory
  <2>8. CellsOK' /\ ValuesKept'
    BY <1>0, <2>1, TableKept
  <2> QED
    BY <2>6, <2>7, <2>8 DEF ColIInv
<1> QED
  BY <1>1, <1>2, <1>3, <1>4, <1>5, <1>6 DEF Saving

\* A request that leaves a row behind, uncounted, cannot count them all any more.
LEMMA RowDropped ==
    ASSUME NEW q \in Reqs, PassOK(req[q]), req[q].todo # {},
           req'[q] \in Passes, req'[q].pc = "rows", req'[q].todo = req[q].todo \ {RowOf(q)},
           req'[q].op = req[q].op, req'[q].key = req[q].key, req'[q].seen = req[q].seen,
           req'[q].touched = req[q].touched, req'[q].affected = req[q].affected,
           UNCHANGED <<up, cells, mem, made, dropped>>
    PROVE  PassOK(req[q])'
<1> DEFINE x == req[q]
           r == RowOf(q)
<1>1. x.todo \subseteq Rows /\ r \in x.todo /\ DOMAIN x.seen \subseteq Rows
  BY RowAtHand DEF PassOK, Passes, RowOf
<1>2. IsFiniteSet(x.todo) /\ IsFiniteSet(DOMAIN x.seen)
  BY <1>1, RowsAreNumbers, FS_Subset
<1>3. Cardinality(x.todo \ {r}) = Cardinality(x.todo) - 1
  BY <1>1, <1>2, FS_RemoveElement
<1>4. /\ Cardinality(x.todo) \in Nat /\ Cardinality(DOMAIN x.seen) \in Nat /\ x.affected \in Nat
      /\ x.affected + Cardinality(x.todo) <= Cardinality(DOMAIN x.seen)
  BY <1>2, FS_CardinalityType DEF PassOK, Passes
<1>5. x.affected + Cardinality(x.todo \ {r}) < Cardinality(DOMAIN x.seen)
  BY <1>3, <1>4
<1>6. x.affected + Cardinality(x.todo \ {r}) # Cardinality(DOMAIN x.seen)
      /\ x.affected + Cardinality(x.todo \ {r}) <= Cardinality(DOMAIN x.seen)
  BY <1>1, <1>2, <1>4, <1>5, FS_RemoveElement, FS_CardinalityType
<1>7. \A s \in DOMAIN x.seen : SeenOK(req[q].seen[s], req[q].op)'
  BY DEF PassOK, SeenOK, KeysOf
<1> QED
  BY <1>6, <1>7 DEF PassOK

\* Reading a column, encrypting a text, and passing over a row.
LEMMA ReadingInv ==
    ASSUME ColIInv, NEW q \in Reqs,
           Select(q) \/ Compute(q) \/ PassOver(q) \/ UpdateFails(q) \/ Answer(q)
    PROVE  ColIInv'
<1>0. StoreOK /\ CellsOK /\ ReqsOK /\ ValuesKept /\ Served(q) /\ DOMAIN req = Reqs
  BY DEF ColIInv, ReqsOK
<1>1. ASSUME NEW x, req' = [req EXCEPT ![q] = x], up, UNCHANGED <<up, store, table>>,
             req[q].pc \in {"idle", "rows", "update"}, req'[q] = Idle \/ PassOK(req[q])'
      PROVE  ColIInv'
  <2>1. UNCHANGED <<cells, mem, made, dropped, holder>>
    BY <1>1 DEF store, table
  <2>2. holder # q
    BY <1>0, <1>1 DEF Served
  <2>3. req'[q] = x /\ (x = Idle \/ x.pc \in {"rows", "update"})
    BY <1>0, <1>1 DEF PassOK, Passes
  <2>4. Served(q)'
    BY <1>1, <2>1, <2>2, <2>3 DEF Served, Idle
  <2>5. ReqsOK'
    BY <1>0, <1>1, <2>1, <2>4, OneMoves
  <2>6. StoreOK'
    BY <1>0, <1>1, <2>2, StoreKept
  <2>7. CellsOK' /\ ValuesKept'
    BY <1>0, <1>1, <2>1, TableKept
  <2> QED
    BY <2>5, <2>6, <2>7 DEF ColIInv
<1>2. CASE Select(q)
  <2>1. PICK op \in {"encrypt", "decrypt"}, u \in Users, k \in made \cup {NoKey}, S \in SUBSET Rows :
          LET found == {r \in S : cells[r].plain \notin {Gone, Null}} IN
          /\ (op = "decrypt") <=> (k = NoKey)
          /\ op = "encrypt" => \A r \in found : Len(cells[r].layers) < MaxDepth
          /\ Call(q, [pc |-> "rows", op |-> op, user |-> u, key |-> k,
                      seen |-> [r \in found |-> cells[r]],
                      todo |-> found, touched |-> {}, affected |-> 0])
    BY <1>2 DEF Select
  <2> DEFINE found == {r \in S : cells[r].plain \notin {Gone, Null}}
             seen == [r \in found |-> cells[r]]
             x == [pc |-> "rows", op |-> op, user |-> u, key |-> k, seen |-> seen,
                   todo |-> found, touched |-> {}, affected |-> 0]
  <2>2. up /\ req[q] = Idle /\ req' = [req EXCEPT ![q] = x]
    BY <2>1 DEF Call
  <2>3. UNCHANGED <<up, store, table>>
    BY <1>2 DEF Select
  <2>4. found \in SUBSET Rows /\ seen \in [found -> Cell]
    BY <1>0 DEF CellsOK
  <2>5. IsFiniteSet(found)
    BY <2>4, RowsAreNumbers, FS_Subset
  <2>6. \A r \in found : SeenOK(seen[r], op)
    BY <1>0, <2>1, <2>2 DEF CellsOK, SeenOK
  <2>7. seen \in UNION {[T -> Cell] : T \in SUBSET Rows}
    BY <2>4
  <2>8. DOMAIN seen = found
    OBVIOUS
  <2>9. \A r \in found : cells[r] = seen[r]
    OBVIOUS
  <2>10. k \in Keys \cup {NoKey} /\ (op = "encrypt" => k \in made)
    BY <1>0, <2>1 DEF StoreOK
  <2> HIDE DEF found, seen
  <2>11. x \in Passes
    BY <2>4, <2>7, <2>10 DEF Passes
  <2>12. Cardinality(found) \in Nat
    BY <2>5, FS_CardinalityType
  <2>13. PassOK(x)
    BY <2>2, <2>6, <2>8, <2>9, <2>10, <2>11, <2>12 DEF PassOK
  <2> HIDE DEF x
  <2>14. req'[q] = x
    BY <1>0, <2>2
  <2>15. UNCHANGED <<up, cells, mem, made, dropped>>
    BY <2>3 DEF store, table
  <2>16. PassOK(req[q])'
    BY <2>13, <2>14, <2>15 DEF PassOK, SeenOK, KeysOf, Changed
  <2>17. req[q].pc = "idle"
    BY <2>2 DEF Idle
  <2> QED
    BY <1>1, <2>2, <2>3, <2>16, <2>17
<1>3. CASE Compute(q)
  <2> DEFINE x == [req[q] EXCEPT !.pc = "update"]
  <2>1. /\ up /\ req[q].pc = "rows" /\ req[q].todo # {} /\ Usable(q)
        /\ req' = [req EXCEPT ![q] = x] /\ UNCHANGED <<up, store, table>>
    BY <1>3 DEF Compute
  <2>2. PassOK(req[q])
    BY <1>0, <2>1 DEF Served, Idle, SavingOK, Savings
  <2>3. /\ x \in Passes /\ x.pc = "update" /\ x.op = req[q].op /\ x.key = req[q].key
        /\ x.seen = req[q].seen /\ x.todo = req[q].todo /\ x.touched = req[q].touched
        /\ x.affected = req[q].affected
    BY <2>2 DEF PassOK, Passes
  <2>4. /\ req[q].op = "encrypt" => req[q].key \in mem
        /\ req[q].op = "decrypt" => req[q].seen[Min(req[q].todo)].layers # <<>>
    BY <2>1 DEF Usable, KeyOf, RowOf
  <2> HIDE DEF x
  <2>5. req'[q] = x
    BY <1>0, <2>1
  <2>6. UNCHANGED <<up, cells, mem, made, dropped>>
    BY <2>1 DEF store, table
  <2>7. PassOK(req[q])'
    BY <2>1, <2>2, <2>3, <2>4, <2>5, <2>6 DEF PassOK, SeenOK, KeysOf, Changed
  <2> QED
    BY <1>1, <2>1, <2>7
<1>4. CASE PassOver(q) \/ UpdateFails(q)
  <2> DEFINE x == [req[q] EXCEPT !.pc = "rows", !.todo = @ \ {RowOf(q)}]
  <2>1. up /\ req[q].pc \in {"rows", "update"} /\ UNCHANGED <<up, store, table>>
    BY <1>4 DEF PassOver, UpdateFails
  <2>2. PassOK(req[q]) /\ req[q].todo # {}
    <3>1. PassOK(req[q])
      BY <1>0, <2>1 DEF Served, Idle, SavingOK, Savings
    <3>2. req[q].pc = "update" \/ req[q].todo # {}
      BY <1>4 DEF PassOver, UpdateFails
    <3> QED
      BY <3>1, <3>2 DEF PassOK
  <2>3. req[q] \in Passes
    BY <2>2 DEF PassOK
  <2>4. PICK y \in Passes :
          /\ req' = [req EXCEPT ![q] = y] /\ y.pc = "rows" /\ y.todo = req[q].todo \ {RowOf(q)}
          /\ y.op = req[q].op /\ y.key = req[q].key /\ y.seen = req[q].seen
          /\ y.touched = req[q].touched /\ y.affected = req[q].affected
    <3>1. CASE PassOver(q)
      <4> DEFINE y == [req[q] EXCEPT !.todo = @ \ {RowOf(q)}]
      <4>1. req' = [req EXCEPT ![q] = y] /\ req[q].pc = "rows"
        BY <3>1 DEF PassOver
      <4>2. /\ y \in Passes /\ y.pc = "rows" /\ y.todo = req[q].todo \ {RowOf(q)}
            /\ y.op = req[q].op /\ y.key = req[q].key /\ y.seen = req[q].seen
            /\ y.touched = req[q].touched /\ y.affected = req[q].affected
        BY <2>3, <4>1 DEF Passes
      <4> QED
        BY <4>1, <4>2
    <3>2. CASE UpdateFails(q)
      <4>1. req' = [req EXCEPT ![q] = x]
        BY <3>2 DEF UpdateFails
      <4>2. /\ x \in Passes /\ x.pc = "rows" /\ x.todo = req[q].todo \ {RowOf(q)}
            /\ x.op = req[q].op /\ x.key = req[q].key /\ x.seen = req[q].seen
            /\ x.touched = req[q].touched /\ x.affected = req[q].affected
        BY <2>3 DEF Passes
      <4> QED
        BY <4>1, <4>2
    <3> QED
      BY <1>4, <3>1, <3>2
  <2>5. req'[q] = y
    BY <1>0, <2>4
  <2>6. UNCHANGED <<up, cells, mem, made, dropped>>
    BY <2>1 DEF store, table
  <2>7. PassOK(req[q])'
    BY <2>2, <2>4, <2>5, <2>6, RowDropped
  <2> QED
    BY <1>1, <2>1, <2>4, <2>7
<1>5. CASE Answer(q)
  BY <1>0, <1>1, <1>5 DEF Answer
<1> QED
  BY <1>2, <1>3, <1>4, <1>5

\* A request stands when another one, or a client, writes a row and its picture
\* of that row is marked as old.
LEMMA TouchedStands ==
    ASSUME NEW p \in Reqs, Served(p), NEW r \in Rows, UNCHANGED <<up, store>>,
           \A s \in Rows \ {r} : cells'[s] = cells[s],
           req'[p] = IF req[p].pc \in {"rows", "update"}
                     THEN [req[p] EXCEPT !.touched = @ \cup {r}] ELSE req[p]
    PROVE  Served(p)'
<1>0. UNCHANGED <<mem, file, holder, made, dropped, unsaved>>
  BY DEF store
<1>1. CASE req[p] = Idle
  BY <1>0, <1>1 DEF Served, Idle
<1>2. CASE SavingOK(req[p])
  BY <1>0, <1>2 DEF Served, SavingOK, Savings
<1>3. CASE PassOK(req[p])
  <2> DEFINE x == req[p]
             y == [x EXCEPT !.touched = @ \cup {r}]
  <2>1. req'[p] = y
    BY <1>3 DEF PassOK, Passes
  <2>2. /\ y \in Passes /\ y.pc = x.pc /\ y.op = x.op /\ y.key = x.key /\ y.seen = x.seen
        /\ y.todo = x.todo /\ y.touched = x.touched \cup {r} /\ y.affected = x.affected
    BY <1>3 DEF PassOK, Passes
  <2>3. DOMAIN x.seen \subseteq Rows
    BY <1>3 DEF PassOK, Passes
  <2> HIDE DEF y
  <2>4. \A s \in DOMAIN x.seen : SeenOK(req[p].seen[s], req[p].op)'
    BY <1>0, <1>3, <2>1, <2>2 DEF PassOK, SeenOK, KeysOf
  <2>5. \A s \in DOMAIN x.seen \ {r} : Changed(s, x.seen[s]) => Changed(s, req[p].seen[s])'
    BY <2>1, <2>2, <2>3 DEF Changed
  <2>6. PassOK(req[p])'
    BY <1>0, <1>3, <2>1, <2>2, <2>3, <2>4, <2>5 DEF PassOK
  <2> QED
    BY <1>0, <1>3, <2>1, <2>2, <2>6 DEF Served
<1> QED
  BY <1>1, <1>2, <1>3 DEF Served

\* What an UPDATE carries for the row at hand, next to what was read of it.
LEMMA TextLaw ==
    ASSUME ColIInv, NEW q \in Reqs, up, req[q].pc = "update"
    PROVE  LET r == RowOf(q)  c == req[q].seen[r]  t == TextOf(q) IN
           /\ PassOK(req[q]) /\ r \in req[q].todo /\ r \in DOMAIN req[q].seen /\ r \in Rows
           /\ c \in Cell /\ t \in Cell /\ SeenOK(c, req[q].op)
           /\ t.plain \notin {Gone, Null} /\ Len(t.layers) <= MaxDepth
           /\ KeysOf(t) \subseteq made /\ KeysOf(t) \subseteq mem \cup dropped
           /\ Len(t.layers) # Len(c.layers) \/ t.plain = Lost
           /\ \/ t.plain = c.plain
              \/ t.plain = Lost /\ \E k \in made : KindOf[k] = "oneway"
              \/ c.plain \in DOMAIN Printed /\ t.plain = Printed[c.plain]
<1> DEFINE r == RowOf(q)
           c == req[q].seen[r]
           t == TextOf(q)
           k == req[q].key
<1>1. PassOK(req[q])
  BY DEF ColIInv, ReqsOK, Served, Idle, SavingOK, Savings
<1>2. r \in req[q].todo /\ r \in DOMAIN req[q].seen /\ r \in Rows
  BY <1>1, RowAtHand DEF PassOK, Passes, RowOf
<1>3. c \in Cell /\ SeenOK(c, req[q].op)
  BY <1>1, <1>2 DEF PassOK, Passes
<1>4. made \subseteq Keys /\ Len(c.layers) \in Nat /\ MaxDepth \in Nat
  BY <1>3, FirstReadable DEF ColIInv, StoreOK, Cell
<1>5. CASE req[q].op = "encrypt"
  <2>1. t = Wrap(c, k)
    BY <1>5 DEF TextOf
  <2>2. k \in made /\ k \in mem \cup dropped
    BY <1>1, <1>5 DEF PassOK
  <2>3. c.plain \notin {Gone, Null} /\ Len(c.layers) < MaxDepth
        /\ KeysOf(c) \subseteq made /\ KeysOf(c) \subseteq mem \cup dropped
    BY <1>3, <1>5 DEF SeenOK
  <2>4. /\ t \in Cell /\ t.plain \notin {Gone, Null}
        /\ Len(t.layers) <= Len(c.layers) + 1
        /\ KeysOf(t) \subseteq KeysOf(c) \cup {k}
        /\ Len(t.layers) # Len(c.layers) \/ t.plain = Lost
        /\ \/ t.plain = c.plain
           \/ t.plain = Lost /\ KindOf[k] = "oneway"
           \/ c.plain \in DOMAIN Printed /\ t.plain = Printed[c.plain]
    BY <1>3, <1>4, <2>1, <2>2, <2>3, WrapLaw
  <2> HIDE DEF t, c, k, r
  <2>5. Len(t.layers) \in Nat
    BY <2>4 DEF Cell
  <2>6. Len(t.layers) <= MaxDepth
    BY <1>4, <2>3, <2>4, <2>5
  <2>7. KeysOf(t) \subseteq made /\ KeysOf(t) \subseteq mem \cup dropped
    BY <2>2, <2>3, <2>4
  <2>8. \/ t.plain = c.plain
        \/ t.plain = Lost /\ \E l \in made : KindOf[l] = "oneway"
        \/ c.plain \in DOMAIN Printed /\ t.plain = Printed[c.plain]
    BY <2>2, <2>4
  <2> QED
    BY <1>1, <1>2, <1>3, <2>4, <2>6, <2>7, <2>8 DEF t, c, k, r
<1>6. CASE req[q].op = "decrypt"
  <2>1. t = Unwrap(c)
    BY <1>6 DEF TextOf
  <2>2. c.layers # <<>>
    BY <1>1, <1>6 DEF PassOK, RowOf
  <2>3. c.plain \notin {Gone, Null} /\ Len(c.layers) <= MaxDepth
        /\ KeysOf(c) \subseteq made /\ KeysOf(c) \subseteq mem \cup dropped
    BY <1>3 DEF SeenOK
  <2>4. /\ t \in Cell /\ t.plain = c.plain
        /\ Len(t.layers) = Len(c.layers) - 1
        /\ KeysOf(t) \subseteq KeysOf(c)
    BY <1>3, <2>1, <2>2, UnwrapLaw
  <2> HIDE DEF t, c, k, r
  <2>5. Len(t.layers) <= MaxDepth /\ Len(t.layers) # Len(c.layers)
    BY <1>4, <2>3, <2>4
  <2> QED
    BY <1>1, <1>2, <1>3, <2>3, <2>4, <2>5 DEF t, c, k, r
<1> QED
  BY <1>1, <1>5, <1>6 DEF PassOK, Passes

\* An UPDATE, counted or not.
LEMMA UpdateInv ==
    ASSUME ColIInv, NEW q \in Reqs, UpdateRow(q) \/ UpdateUnanswered(q) PROVE ColIInv'
<1> DEFINE r == RowOf(q)
           x == req[q]
           c == x.seen[r]
           t == TextOf(q)
<1>0. StoreOK /\ CellsOK /\ ReqsOK /\ ValuesKept /\ Served(q) /\ DOMAIN req = Reqs
  BY DEF ColIInv, ReqsOK
<1>1. PICK n \in {0, 1} :
        /\ up /\ x.pc = "update" /\ Put(r, t) /\ Loses(q)
        /\ req' = NextRow(q, n)
        /\ UNCHANGED <<up, store, wrote, bounds>>
  BY DEF UpdateRow, UpdateUnanswered
<1>2. /\ PassOK(x) /\ r \in x.todo /\ r \in DOMAIN x.seen /\ r \in Rows
      /\ c \in Cell /\ t \in Cell /\ SeenOK(c, x.op)
      /\ t.plain \notin {Gone, Null} /\ Len(t.layers) <= MaxDepth
      /\ KeysOf(t) \subseteq made /\ KeysOf(t) \subseteq mem \cup dropped
      /\ Len(t.layers) # Len(c.layers) \/ t.plain = Lost
      /\ \/ t.plain = c.plain
         \/ t.plain = Lost /\ \E k \in made : KindOf[k] = "oneway"
         \/ c.plain \in DOMAIN Printed /\ t.plain = Printed[c.plain]
  BY <1>1, TextLaw
<1>3. UNCHANGED <<mem, file, holder, made, dropped, unsaved>>
  BY <1>1 DEF store
<1>4. cells' = [cells EXCEPT ![r] = IF @.plain = Gone THEN @ ELSE t]
  BY <1>1 DEF Put
<1>5. lost' = IF r \in x.touched /\ cells[r].plain # c.plain THEN lost \cup {r} ELSE lost
  BY <1>1 DEF Loses
<1> DEFINE y == [x EXCEPT !.pc = "rows", !.todo = @ \ {r}, !.affected = @ + n]
<1>6. req' = Touch([req EXCEPT ![q] = y], r, q)
  BY <1>1 DEF NextRow
<1>7. /\ DOMAIN req' = Reqs /\ req'[q] = y
      /\ \A p \in Reqs \ {q} : req'[p] = IF req[p].pc \in {"rows", "update"}
                     THEN [req[p] EXCEPT !.touched = @ \cup {r}] ELSE req[p]
  <2> HIDE DEF y, r
  <2>1. \A p \in Reqs : [req EXCEPT ![q] = y][p] = IF p = q THEN y ELSE req[p]
    BY <1>0
  <2> QED
    BY <1>6, <2>1 DEF Touch
<1>8. /\ y \in Passes /\ y.pc = "rows" /\ y.op = x.op /\ y.key = x.key /\ y.seen = x.seen
      /\ y.todo = x.todo \ {r} /\ y.touched = x.touched /\ y.affected = x.affected + n
  <2>1. x \in Passes
    BY <1>2 DEF PassOK
  <2>2. x.affected + n \in Nat /\ x.todo \ {r} \in SUBSET Rows
    BY <2>1 DEF Passes
  <2> HIDE DEF r, x
  <2>3. /\ y.pc = "rows" /\ y.op = x.op /\ y.key = x.key /\ y.seen = x.seen
        /\ y.todo = x.todo \ {r} /\ y.touched = x.touched /\ y.affected = x.affected + n
    BY <2>1 DEF Passes
  <2>4. y \in Passes
    BY <2>1, <2>2 DEF Passes
  <2> QED
    BY <2>3, <2>4
<1> HIDE DEF r, x, c, t, y
<1>9. /\ \A s \in Rows \ {r} : cells'[s] = cells[s]
      /\ cells'[r] = cells[r] \/ (cells'[r] = t /\ cells[r].plain # Gone)
      /\ cells[r].plain # Gone => cells'[r] = t
      /\ cells' \in [Rows -> Cell]
  BY <1>0, <1>2, <1>4 DEF CellsOK
<1>10. CellsOK'
  <2>1. \A s \in Rows : /\ Len(cells'[s].layers) <= MaxDepth
                        /\ KeysOf(cells'[s]) \subseteq made
                        /\ cells'[s].plain \in {Gone, Null} => cells'[s].layers = <<>>
                        /\ KeysOf(cells'[s]) \subseteq mem \cup dropped
    BY <1>0, <1>1, <1>2, <1>9 DEF CellsOK
  <2>2. \A s \in Rows : KeysOf(cells[s])' = KeysOf(cells'[s])
    BY DEF KeysOf
  <2> QED
    BY <1>0, <1>1, <1>3, <1>9, <2>1, <2>2 DEF CellsOK
<1>11. ValuesKept'
  <2>1. ASSUME NEW s \in Rows \ lost'
        PROVE  \/ cells'[s].plain = wrote[s]
               \/ cells'[s].plain = Lost /\ \E k \in made : KindOf[k] = "oneway"
               \/ wrote[s] \in Values /\ cells'[s].plain = Printed[wrote[s]]
    <3>0. /\ s \in Rows /\ s \notin lost
          /\ \/ cells[s].plain = wrote[s]
             \/ cells[s].plain = Lost /\ \E k \in made : KindOf[k] = "oneway"
             \/ wrote[s] \in Values /\ cells[s].plain = Printed[wrote[s]]
      BY <1>0, <1>5, <2>1 DEF ValuesKept
    <3>1. CASE cells'[s] = cells[s]
      BY <3>0, <3>1
    <3>2. CASE cells'[s] # cells[s]
      <4>1. s = r /\ cells'[s] = t
        BY <1>9, <3>0, <3>2
      <4>2. cells[s].plain = c.plain
        <5>1. CASE r \in x.touched
          BY <1>5, <2>1, <4>1, <5>1
        <5>2. CASE r \notin x.touched
          BY <1>2, <4>1, <5>2 DEF PassOK, c
        <5> QED
          BY <5>1, <5>2
      <4>3. c.plain \notin {Gone, Null} /\ wrote[s] \in Values \cup {Null, Gone}
        BY <1>0, <1>2, <3>0 DEF SeenOK, CellsOK
      <4> QED
        BY <1>2, <3>0, <4>1, <4>2, <4>3, PrintedOnce DEF Lost
    <3> QED
      BY <3>1, <3>2
  <2> QED
    BY <1>1, <1>3, <2>1 DEF ValuesKept
<1>12. PassOK(req[q])'
  <2>1. IsFiniteSet(x.todo) /\ IsFiniteSet(DOMAIN x.seen)
    BY <1>2, RowsAreNumbers, FS_Subset DEF PassOK, Passes
  <2>2. Cardinality(x.todo \ {r}) = Cardinality(x.todo) - 1
    BY <1>2, <2>1, FS_RemoveElement
  <2>3. /\ Cardinality(x.todo) \in Nat /\ Cardinality(DOMAIN x.seen) \in Nat /\ x.affected \in Nat
        /\ x.affected + Cardinality(x.todo) <= Cardinality(DOMAIN x.seen)
    BY <1>2, <2>1, FS_CardinalityType DEF PassOK, Passes
  <2>4. /\ x.affected + n + Cardinality(x.todo \ {r}) <= Cardinality(DOMAIN x.seen)
        /\ x.affected + n + Cardinality(x.todo \ {r}) = Cardinality(DOMAIN x.seen)
             => x.affected + Cardinality(x.todo) = Cardinality(DOMAIN x.seen)
    BY <2>2, <2>3
  <2>5. \A s \in DOMAIN x.seen : SeenOK(req[q].seen[s], req[q].op)'
    BY <1>2, <1>3, <1>7, <1>8 DEF PassOK, SeenOK, KeysOf
  <2>6. DOMAIN x.seen \subseteq Rows /\ x.todo \subseteq Rows
    BY <1>2 DEF PassOK, Passes
  <2>7. \A s \in (x.todo \ {r}) \ x.touched : cells'[s] = x.seen[s]
    BY <1>2, <1>9, <2>6 DEF PassOK
  <2>8. ASSUME x.affected + Cardinality(x.todo) = Cardinality(DOMAIN x.seen),
               NEW s \in (DOMAIN x.seen \ (x.todo \ {r})) \ x.touched
        PROVE  Changed(s, req[q].seen[s])'
    <3>1. CASE s = r
      <4>1. cells[r] = c
        BY <1>2, <2>8, <3>1 DEF PassOK, c
      <4>2. cells'[r] = t
        BY <1>2, <1>9, <4>1 DEF SeenOK
      <4> QED
        BY <1>2, <1>7, <1>8, <3>1, <4>2 DEF Changed, c
    <3>2. CASE s # r
      <4>1. Changed(s, x.seen[s])
        BY <1>2, <2>8, <3>2 DEF PassOK
      <4> QED
        BY <1>7, <1>8, <1>9, <2>6, <3>2, <4>1 DEF Changed
    <3> QED
      BY <3>1, <3>2
  <2>9. x.todo \ {r} \subseteq DOMAIN x.seen /\ (x.op = "encrypt" => x.key \in made)
    BY <1>2 DEF PassOK
  <2> QED
    BY <1>1, <1>3, <1>7, <1>8, <2>4, <2>5, <2>7, <2>8, <2>9 DEF PassOK
<1>13. Served(q)'
  BY <1>0, <1>1, <1>3, <1>7, <1>8, <1>12 DEF Served, x
<1>14. \A p \in Reqs \ {q} : Served(p)'
  BY <1>0, <1>1, <1>2, <1>7, <1>9, TouchedStands DEF ReqsOK
<1>15. ReqsOK'
  BY <1>7, <1>13, <1>14 DEF ReqsOK
<1>16. StoreOK'
  <2>1. holder # q
    BY <1>0, <1>1 DEF Served, x
  <2>2. ASSUME holder # NoReq PROVE req'[holder] = req[holder]
    <3>1. holder \in Reqs \ {q} /\ req[holder].pc \in {"open", "write"}
      BY <1>0, <2>1, <2>2 DEF StoreOK, ReqsOK, Served
    <3> QED
      BY <1>7, <3>1
  <2> QED
    BY <1>0, <1>1, <2>2, StoreKept
<1> QED
  BY <1>10, <1>11, <1>15, <1>16 DEF ColIInv

\* A client writes a row.
LEMMA ClientInv ==
    ASSUME ColIInv, NEW r \in Rows, ClientWrites(r) PROVE ColIInv'
<1>0. StoreOK /\ CellsOK /\ ReqsOK /\ ValuesKept /\ DOMAIN req = Reqs
  BY DEF ColIInv, ReqsOK
<1>1. PICK v \in Values \cup {Null, Gone} :
        /\ cells' = [cells EXCEPT ![r] = Plain(v)]
        /\ wrote' = [wrote EXCEPT ![r] = v]
  BY DEF ClientWrites
<1>2. /\ up /\ lost' = lost \ {r} /\ req' = Touch(req, r, NoReq)
      /\ UNCHANGED <<up, store>> /\ UNCHANGED <<mem, file, holder, made, dropped, unsaved>>
  BY DEF ClientWrites, store
<1>3. /\ Plain(v) \in Cell /\ Plain(v).plain = v /\ Plain(v).layers = <<>>
      /\ Len(Plain(v).layers) = 0 /\ KeysOf(Plain(v)) = {}
  <2>1. <<>> \in Seq(Keys) /\ Len(<<>>) = 0
    OBVIOUS
  <2>2. Plain(v) = [plain |-> v, layers |-> <<>>]
    BY DEF Plain
  <2> QED
    BY <2>1, <2>2, PrintedOnce DEF Cell, KeysOf
<1>4. /\ cells' \in [Rows -> Cell] /\ cells'[r] = Plain(v)
      /\ \A s \in Rows \ {r} : cells'[s] = cells[s]
      /\ wrote' \in [Rows -> Values \cup {Null, Gone}] /\ wrote'[r] = v
      /\ \A s \in Rows \ {r} : wrote'[s] = wrote[s]
  BY <1>0, <1>1, <1>3 DEF CellsOK
<1>5. CellsOK'
  <2>1. \A s \in Rows : /\ Len(cells'[s].layers) <= MaxDepth
                        /\ KeysOf(cells'[s]) \subseteq made
                        /\ cells'[s].plain \in {Gone, Null} => cells'[s].layers = <<>>
                        /\ KeysOf(cells'[s]) \subseteq mem \cup dropped
    BY <1>0, <1>2, <1>3, <1>4, FirstReadable DEF CellsOK
  <2>2. \A s \in Rows : KeysOf(cells[s])' = KeysOf(cells'[s])
    BY DEF KeysOf
  <2> QED
    BY <1>2, <1>4, <2>1, <2>2 DEF CellsOK
<1>6. ValuesKept'
  BY <1>0, <1>2, <1>3, <1>4 DEF ValuesKept
<1>7. /\ DOMAIN req' = Reqs
      /\ \A p \in Reqs : req'[p] = IF req[p].pc \in {"rows", "update"}
                     THEN [req[p] EXCEPT !.touched = @ \cup {r}] ELSE req[p]
  BY <1>2, NobodyIsNone DEF Touch, NoReq
<1>8. ReqsOK'
  BY <1>0, <1>2, <1>4, <1>7, TouchedStands DEF ReqsOK
<1>9. StoreOK'
  <2>1. ASSUME holder # NoReq PROVE req'[holder] = req[holder]
    <3>1. holder \in Reqs /\ req[holder].pc \in {"open", "write"}
      BY <1>0, <2>1 DEF StoreOK, ReqsOK, Served
    <3> QED
      BY <1>7, <3>1
  <2> QED
    BY <1>0, <1>2, <2>1, StoreKept
<1> QED
  BY <1>5, <1>6, <1>8, <1>9 DEF ColIInv

\* The process ends: the keys the file may lack have been asked for by nobody
\* who was told that they are saved.
LEMMA CrashInv == ColIInv /\ Crash => ColIInv'
<1> SUFFICES ASSUME ColIInv, Crash PROVE ColIInv'
  OBVIOUS
<1>0. StoreOK /\ CellsOK /\ ReqsOK /\ ValuesKept
  BY DEF ColIInv
<1>1. /\ up /\ up' = FALSE /\ mem' = {} /\ holder' = NoReq /\ req' = [q \in Reqs |-> Idle]
      /\ dropped' = dropped \cup {req[q].key : q \in {p \in Reqs : req[p].pc \in {"save", "open", "write"}}}
      /\ UNCHANGED <<file, made, unsaved, cells, wrote, lost>>
  BY DEF Crash, table
<1>2. file # Torn => mem \cup dropped \subseteq file \cup dropped'
  <2>1. SUFFICES ASSUME file # Torn, NEW k \in mem, holder # NoReq, k = req[holder].key
                 PROVE  k \in dropped'
    BY <1>0, <1>1 DEF StoreOK
  <2>2. holder \in Reqs /\ req[holder].pc \in {"open", "write"}
    BY <1>0, <2>1 DEF StoreOK, ReqsOK, Served
  <2> QED
    BY <1>1, <2>1, <2>2
<1>3. StoreOK'
  BY <1>0, <1>1 DEF StoreOK, FileFollowsMemory
<1>4. CellsOK'
  BY <1>0, <1>1, <1>2 DEF CellsOK, KeysOf
<1>5. ReqsOK'
  BY <1>1, NobodyIsNone DEF ReqsOK, Served, Idle, NoReq
<1>6. ValuesKept'
  BY <1>0, <1>1 DEF ValuesKept
<1> QED
  BY <1>3, <1>4, <1>5, <1>6 DEF ColIInv

\* The process starts with the keys of a file that parses.
LEMMA StartInv == ColIInv /\ Start => ColIInv'
<1> SUFFICES ASSUME ColIInv, Start PROVE ColIInv'
  OBVIOUS
<1>0. StoreOK /\ CellsOK /\ ReqsOK /\ ValuesKept
  BY DEF ColIInv
<1>1. /\ ~up /\ file # Torn /\ up' = TRUE /\ mem' = file
      /\ UNCHANGED <<file, holder, made, dropped, cells, wrote, lost, req>>
  BY DEF Start, table
<1>2. holder = NoReq /\ \A q \in Reqs : req[q] = Idle
  BY <1>0, <1>1 DEF StoreOK
<1>3. StoreOK'
  BY <1>0, <1>1, <1>2 DEF StoreOK, FileFollowsMemory
<1>4. CellsOK'
  BY <1>0, <1>1 DEF CellsOK, KeysOf
<1>5. ReqsOK'
  BY <1>0, <1>1, <1>2 DEF ReqsOK, Served
<1>6. ValuesKept'
  BY <1>0, <1>1 DEF ValuesKept
<1> QED
  BY <1>3, <1>4, <1>5, <1>6 DEF ColIInv

\* Nothing else happens.
LEMMA ColNextInv == ColIInv /\ [Next]_vars => ColIInv'
<1> SUFFICES ASSUME ColIInv, [Next]_vars PROVE ColIInv'
  OBVIOUS
<1>1. ASSUME NEW q \in Reqs, Saving(q) PROVE ColIInv'
  BY <1>1, SavingInv
<1>2. ASSUME NEW q \in Reqs, Column(q) PROVE ColIInv'
  BY <1>2, ReadingInv, UpdateInv DEF Column
<1>3. ASSUME NEW r \in Rows, ClientWrites(r) PROVE ColIInv'
  BY <1>3, ClientInv
<1>4. CASE UNCHANGED vars
  BY <1>4 DEF vars, ColIInv, StoreOK, FileFollowsMemory, CellsOK, KeysOf, ReqsOK, Served, SavingOK,
              PassOK, SeenOK, Changed, ValuesKept
<1> QED
  BY <1>1, <1>2, <1>3, <1>4, CrashInv, StartInv DEF Next

\* The invariant of the run is part of it.
LEMMA ColIInvImplies == ColIInv => ColumnInv
<1> SUFFICES ASSUME ColIInv PROVE ColumnInv
  OBVIOUS
<1>0. StoreOK /\ CellsOK /\ ReqsOK /\ ValuesKept
  BY DEF ColIInv
<1>1. TypeOK
  <2>1. ASSUME NEW r \in Rows
        PROVE  cells[r].layers \in UNION {[1..n -> made] : n \in 0..MaxDepth}
    <3> DEFINE l == cells[r].layers
    <3>1. l \in Seq(Keys) /\ Len(l) \in Nat /\ Len(l) <= MaxDepth /\ MaxDepth \in Nat
      BY <1>0, FirstReadable DEF CellsOK, Cell
    <3>2. \A n \in 1..Len(l) : l[n] \in made
      BY <1>0 DEF CellsOK, KeysOf
    <3>3. l \in [1..Len(l) -> made]
      BY <3>1, <3>2
    <3> QED
      BY <3>1, <3>3
  <2>2. \A r \in Rows : /\ cells[r].plain \in DOMAIN Printed \cup {Gone, Null, Lost}
                        /\ cells[r].plain \in {Gone, Null} => cells[r].layers = <<>>
    BY <1>0 DEF CellsOK, Cell
  <2> QED
    BY <1>0, <2>1, <2>2 DEF TypeOK, StoreOK, ReqsOK, Served
<1>2. FileFollowsMemory /\ ValuesKept
  BY <1>0 DEF StoreOK
<1>3. CellsReadable
  BY <1>0 DEF CellsReadable, CellsOK, KeysOf
<1>4. FullCountMeansAll
  <2>1. SUFFICES ASSUME NEW q \in Reqs, req[q].pc = "rows", req[q].todo = {},
                        req[q].affected = Cardinality(DOMAIN req[q].seen),
                        NEW r \in DOMAIN req[q].seen \ req[q].touched
                 PROVE  Changed(r, req[q].seen[r])
    BY DEF FullCountMeansAll, Changed
  <2>2. PassOK(req[q])
    BY <1>0, <2>1 DEF ReqsOK, Served, Idle, SavingOK, Savings
  <2>3. Cardinality({}) = 0 /\ req[q].affected \in Nat
    BY <2>2, FS_EmptySet DEF PassOK, Passes
  <2>4. req[q].affected + Cardinality(req[q].todo) = Cardinality(DOMAIN req[q].seen)
    BY <2>1, <2>3
  <2> QED
    BY <2>1, <2>2, <2>4 DEF PassOK
<1> QED
  BY <1>1, <1>2, <1>3, <1>4 DEF ColumnInv

\* The file holds the keys of the memory, envelopes can be opened, values are
\* there under them, and a full count means what it says (store.go, crypto.go).
THEOREM ColumnInvariance == Spec => []ColumnInv
<1>1. Init => ColIInv
  BY ColInitInv
<1>2. ColIInv /\ [Next]_vars => ColIInv'
  BY ColNextInv
<1> QED
  BY <1>1, <1>2, ColIInvImplies, PTL DEF Spec

-----------------------------------------------------------------------------
(* Loops: what a recursive function computes, and what the import reads.     *)

\* A loop over n values: r[k] is its state after k of them.
StepsWithin(step, n, T) == \A k \in 1..n : \A x \in T : step[<<k, x>>] \in T
IsLoop(r, n, b, step) == \A k \in 0..n : r[k] = IF k = 0 THEN b ELSE step[<<k, r[k - 1]>>]

\* There is such a function.
LEMMA LoopRuns ==
    ASSUME NEW n \in Nat, NEW T, NEW b \in T, NEW step, StepsWithin(step, n, T)
    PROVE  \E r \in [0..n -> T] : IsLoop(r, n, b, step)
<1> USE DEF StepsWithin, IsLoop
<1> DEFINE Runs(m) == \E r \in [0..m -> T] :
                        \A k \in 0..m : r[k] = IF k = 0 THEN b ELSE step[<<k, r[k - 1]>>]
           Bad == {m \in 0..n : ~Runs(m)}
<1>1. SUFFICES ASSUME Bad # {} PROVE FALSE
  <2>1. Bad = {} => Runs(n)
    <3> HIDE DEF Runs
    <3> QED
      OBVIOUS
  <2>2. Runs(n) => \E r \in [0..n -> T] : IsLoop(r, n, b, step)
    OBVIOUS
  <2> HIDE DEF Bad, Runs
  <2> QED
    BY <2>1, <2>2
<1>2. PICK m \in Bad : \A y \in Bad : m <= y
  <2>1. Bad \subseteq Nat
    OBVIOUS
  <2> HIDE DEF Bad
  <2> QED
    BY <1>1, <2>1, Least
<1>3. Runs(0)
  <2> DEFINE r == [k \in 0..0 |-> b]
  <2>1. r \in [0..0 -> T] /\ \A k \in 0..0 : k = 0 /\ r[k] = b
    OBVIOUS
  <2> HIDE DEF r
  <2> QED
    BY <2>1
<1>4. m \in Nat /\ m # 0 /\ m <= n /\ m - 1 \in 0..n
  <2>1. m \in 0..n /\ ~Runs(m)
    OBVIOUS
  <2>2. m # 0
    BY <1>3, <2>1
  <2> HIDE DEF Runs
  <2> QED
    BY <2>1, <2>2
<1>5. Runs(m - 1)
  <2>1. m - 1 \notin Bad
    <3> HIDE DEF Bad
    <3> QED
      BY <1>2, <1>4
  <2> HIDE DEF Runs
  <2> QED
    BY <1>4, <2>1
<1>6. PICK r \in [0..(m - 1) -> T] :
        \A k \in 0..(m - 1) : r[k] = IF k = 0 THEN b ELSE step[<<k, r[k - 1]>>]
  BY <1>5
<1> DEFINE x == step[<<m, r[m - 1]>>]
           s == [k \in 0..m |-> IF k = m THEN x ELSE r[k]]
<1>7. x \in T
  BY <1>4
<1>8. /\ s \in [0..m -> T] /\ s[m] = x
      /\ \A k \in 0..(m - 1) : s[k] = r[k] /\ k \in 0..m
  BY <1>4, <1>7
<1>9. ASSUME NEW k \in 0..m
      PROVE  s[k] = IF k = 0 THEN b ELSE step[<<k, s[k - 1]>>]
  <2>1. CASE k = m
    <3>1. s[m - 1] = r[m - 1]
      BY <1>4, <1>8
    <3> QED
      BY <1>4, <1>8, <2>1, <3>1
  <2>2. CASE k # m
    <3>1. k \in 0..(m - 1) /\ (k # 0 => k - 1 \in 0..(m - 1))
      BY <1>4, <2>2
    <3>2. r[k] = IF k = 0 THEN b ELSE step[<<k, r[k - 1]>>]
      BY <1>6, <3>1
    <3> QED
      BY <1>8, <3>1, <3>2
  <2> QED
    BY <2>1, <2>2
<1> HIDE DEF s
<1>10. Runs(m)
  BY <1>8, <1>9
<1> QED
  BY <1>2, <1>10

\* Two loops that start alike and go on alike are in the same state throughout.
LEMMA LoopsAgree ==
    ASSUME NEW n \in Nat, NEW r, NEW s, r[0] = s[0],
           \A k \in 1..n : r[k - 1] = s[k - 1] => r[k] = s[k]
    PROVE  \A k \in 0..n : r[k] = s[k]
<1> DEFINE Bad == {k \in 0..n : r[k] # s[k]}
<1>1. SUFFICES ASSUME Bad # {} PROVE FALSE
  OBVIOUS
<1>2. PICK m \in Bad : \A y \in Bad : m <= y
  <2>1. Bad \subseteq Nat
    OBVIOUS
  <2> HIDE DEF Bad
  <2> QED
    BY <1>1, <2>1, Least
<1>3. m \in 1..n /\ r[m] # s[m]
  OBVIOUS
<1>4. m - 1 \in 0..n /\ m - 1 \notin Bad
  <2> HIDE DEF Bad
  <2> QED
    BY <1>2, <1>3
<1>5. r[m - 1] = s[m - 1]
  BY <1>4
<1> HIDE DEF Bad
<1> QED
  BY <1>3, <1>5

Types == {"TEXT", "INTEGER", "REAL"}

\* One step of inferTypes gives a type.
LEMMA InferGivesType == \A t \in Types : \A v : Infer(t, v) \in Types
  BY DEF Infer, Types

\* inferTypes goes through the values one after the other.
LEMMA InferRuns ==
    ASSUME NEW vs \in Seq(CsvValues)
    PROVE  \E t \in [0..Len(vs) -> Types] :
             /\ t[0] = "TEXT"
             /\ \A n \in 1..Len(vs) : t[n] = Infer(t[n - 1], vs[n])
             /\ inferTypes(vs) = t[Len(vs)]
<1> DEFINE L == Len(vs)
           step == [z \in (1..L) \X Types |-> Infer(z[2], vs[z[1]])]
           F(t) == [n \in 0..L |-> IF n = 0 THEN "TEXT" ELSE Infer(t[n - 1], vs[n])]
           t0 == CHOOSE t : t = F(t)
<1>1. L \in Nat /\ "TEXT" \in Types
  BY DEF Types
<1>2. \A k \in 1..L : \A x \in Types : step[<<k, x>>] = Infer(x, vs[k]) /\ step[<<k, x>>] \in Types
  BY InferGivesType
<1>3. inferTypes(vs) = t0[L]
  BY DEF inferTypes
<1> HIDE DEF step, L
<1>4. PICK r \in [0..L -> Types] : IsLoop(r, L, "TEXT", step)
  <2>1. StepsWithin(step, L, Types)
    BY <1>2 DEF StepsWithin
  <2> QED
    BY <1>1, <2>1, LoopRuns
<1>5. \A k \in 0..L : r[k] = IF k = 0 THEN "TEXT" ELSE Infer(r[k - 1], vs[k])
  <2> TAKE k \in 0..L
  <2>1. k # 0 => k \in 1..L /\ k - 1 \in 0..L
    BY <1>1
  <2> QED
    BY <1>2, <1>4, <2>1 DEF IsLoop
<1>6. r = F(r)
  BY <1>5
<1>7. t0 = F(t0)
  BY <1>6
<1> HIDE DEF t0
<1>8. \A n \in 0..L : t0[n] = IF n = 0 THEN "TEXT" ELSE Infer(t0[n - 1], vs[n])
  BY <1>7
<1>9. \A k \in 0..L : r[k] = t0[k]
  <2>1. r[0] = t0[0]
    BY <1>1, <1>5, <1>8
  <2>2. \A k \in 1..L : r[k - 1] = t0[k - 1] => r[k] = t0[k]
    <3> TAKE k \in 1..L
    <3>1. k # 0 /\ k \in 0..L
      BY <1>1
    <3> QED
      BY <1>5, <1>8, <3>1
  <2> QED
    BY ZenonT(40), <1>1, <2>1, <2>2, LoopsAgree
<1>10. r[0] = "TEXT" /\ \A n \in 1..L : n \in 0..L /\ n # 0
  BY <1>1, <1>5
<1> QED
  BY <1>1, <1>3, <1>5, <1>9, <1>10 DEF L

\* inferTypes gives the type of the values after the last text.
LEMMA InferLaw ==
    ASSUME NEW vs \in Seq(CsvValues)
    PROVE  LET Rest == {i \in 1..Len(vs) : vs[i] # "null" /\ \A j \in i..Len(vs) : vs[j] # "text"} IN
           /\ inferTypes(vs) \in Types
           /\ inferTypes(vs) = IF Rest = {} THEN "TEXT"
                               ELSE IF \E i \in Rest : vs[i] # "int" THEN "REAL" ELSE "INTEGER"
<1> DEFINE L == Len(vs)
           Rest(n) == {i \in 1..n : vs[i] # "null" /\ \A j \in i..n : vs[j] # "text"}
           Is(n) == IF Rest(n) = {} THEN "TEXT"
                    ELSE IF \E i \in Rest(n) : vs[i] # "int" THEN "REAL" ELSE "INTEGER"
           s == [n \in 0..L |-> Is(n)]
<1>1. PICK t \in [0..L -> Types] :
        /\ t[0] = "TEXT"
        /\ \A n \in 1..L : t[n] = Infer(t[n - 1], vs[n])
        /\ inferTypes(vs) = t[L]
  BY InferRuns
<1>2. L \in Nat /\ \A n \in 1..L : vs[n] \in CsvValues /\ n \in Nat /\ n - 1 \in 0..L /\ n \in 0..L
  OBVIOUS
<1>3. \A n \in 1..L : Is(n) = Infer(Is(n - 1), vs[n])
  <2> SUFFICES ASSUME NEW n \in 1..L PROVE Is(n) = Infer(Is(n - 1), vs[n])
    OBVIOUS
  <2>1. CASE vs[n] = "text"
    <3>1. Rest(n) = {}
      BY <1>2, <2>1
    <3> QED
      BY <2>1, <3>1 DEF Infer
  <2>2. CASE vs[n] = "null"
    <3>1. Rest(n) = Rest(n - 1)
      BY <1>2, <2>2
    <3> QED
      BY <2>2, <3>1 DEF Infer
  <2>3. CASE vs[n] \notin {"text", "null"}
    <3>1. Rest(n) = Rest(n - 1) \cup {n}
      BY <1>2, <2>3
    <3> HIDE DEF Rest
    <3> QED
      BY <1>2, <2>3, <3>1 DEF Infer, CsvValues
  <2> QED
    BY <2>1, <2>2, <2>3
<1>4. s[0] = "TEXT" /\ \A n \in 0..L : s[n] = Is(n)
  <2>1. Rest(0) = {}
    OBVIOUS
  <2> QED
    BY <1>2, <2>1
<1> HIDE DEF s, Is
<1>5. \A k \in 0..L : t[k] = s[k]
  <2>1. \A k \in 1..L : t[k - 1] = s[k - 1] => t[k] = s[k]
    BY <1>1, <1>2, <1>3, <1>4
  <2>2. t[0] = s[0]
    BY <1>1, <1>4
  <2> QED
    BY ZenonT(40), <1>2, <2>1, <2>2, LoopsAgree
<1>6. inferTypes(vs) = Is(L) /\ inferTypes(vs) \in Types
  BY <1>1, <1>2, <1>4, <1>5
<1> QED
  BY <1>6 DEF Is

\* Parsed keeps nothing but values.
LEMMA ParsedValues ==
    ASSUME NEW lines \in Seq(CsvValues \cup {"bad"})
    PROVE  Parsed(lines) \in Seq(CsvValues)
<1> DEFINE L == Len(lines)
           T == Seq(CsvValues)
           step == [z \in (1..L) \X T |->
                      IF lines[z[1]] = "bad" THEN z[2] ELSE Append(z[2], lines[z[1]])]
           F(r) == [n \in 0..L |-> IF n = 0 THEN <<>>
                                   ELSE IF lines[n] = "bad" THEN r[n - 1]
                                   ELSE Append(r[n - 1], lines[n])]
           r0 == CHOOSE r : r = F(r)
<1>1. L \in Nat /\ <<>> \in T
  OBVIOUS
<1>2. \A k \in 1..L : \A x \in T :
        /\ step[<<k, x>>] = IF lines[k] = "bad" THEN x ELSE Append(x, lines[k])
        /\ step[<<k, x>>] \in T
  <2> SUFFICES ASSUME NEW k \in 1..L, NEW x \in T
               PROVE  /\ step[<<k, x>>] = IF lines[k] = "bad" THEN x ELSE Append(x, lines[k])
                      /\ step[<<k, x>>] \in T
    OBVIOUS
  <2>1. lines[k] = "bad" \/ lines[k] \in CsvValues
    OBVIOUS
  <2>2. step[<<k, x>>] = IF lines[k] = "bad" THEN x ELSE Append(x, lines[k])
    OBVIOUS
  <2>3. lines[k] \in CsvValues => Append(x, lines[k]) \in T
    BY AppendProperties
  <2> QED
    BY <2>1, <2>2, <2>3
<1>3. Parsed(lines) = r0[L]
  BY DEF Parsed
<1> HIDE DEF step, L, T
<1>4. PICK r \in [0..L -> T] : IsLoop(r, L, <<>>, step)
  <2>1. StepsWithin(step, L, T)
    BY <1>2 DEF StepsWithin
  <2> QED
    BY <1>1, <2>1, LoopRuns
<1>5. \A n \in 0..L : r[n] = IF n = 0 THEN <<>> ELSE IF lines[n] = "bad" THEN r[n - 1]
                               ELSE Append(r[n - 1], lines[n])
  <2> TAKE n \in 0..L
  <2>1. n # 0 => n \in 1..L /\ n - 1 \in 0..L
    BY <1>1
  <2> QED
    BY <1>2, <1>4, <2>1 DEF IsLoop
<1>6. r = F(r)
  BY <1>5
<1>7. r0 = F(r0)
  BY <1>6
<1> HIDE DEF r0
<1>8. \A n \in 0..L : r0[n] = IF n = 0 THEN <<>> ELSE IF lines[n] = "bad" THEN r0[n - 1]
                                ELSE Append(r0[n - 1], lines[n])
  BY <1>7
<1>9. \A k \in 0..L : r[k] = r0[k]
  <2>1. r[0] = r0[0]
    BY <1>1, <1>5, <1>8
  <2>2. \A k \in 1..L : r[k - 1] = r0[k - 1] => r[k] = r0[k]
    <3> TAKE k \in 1..L
    <3>1. k # 0 /\ k \in 0..L
      BY <1>1
    <3> QED
      BY <1>5, <1>8, <3>1
  <2> QED
    BY ZenonT(40), <1>1, <2>1, <2>2, LoopsAgree
<1> QED
  BY <1>1, <1>3, <1>9 DEF T

-----------------------------------------------------------------------------
(* Lists: pieces of the rows of a table.                                     *)

\* A piece of a sequence.
LEMMA Piece == ASSUME NEW S, NEW s \in Seq(S), NEW a \in Int, NEW b \in Int, a >= 1, b <= Len(s), a <= b + 1
               PROVE  /\ SubSeq(s, a, b) \in Seq(S) /\ Len(SubSeq(s, a, b)) = b - a + 1
                      /\ \A j \in 1..(b - a + 1) : SubSeq(s, a, b)[j] = s[a + j - 1]
<1>1. Len(s) \in Nat
  OBVIOUS
<1>2. \A j \in a..b : s[j] \in S
  BY <1>1
<1>3. Len(SubSeq(s, a, b)) = IF a <= b THEN b - a + 1 ELSE 0
  BY <1>1
<1>4. SubSeq(s, a, b) \in Seq(S)
  BY <1>1, <1>2
<1>5. \A j \in 1..(b - a + 1) : SubSeq(s, a, b)[j] = s[a + j - 1]
  BY <1>1
<1> QED
  BY <1>1, <1>3, <1>4, <1>5

\* Two sequences, one behind the other.
LEMMA Joined == ASSUME NEW S, NEW s \in Seq(S), NEW t \in Seq(S)
                PROVE  /\ s \o t \in Seq(S) /\ Len(s \o t) = Len(s) + Len(t)
                       /\ \A j \in 1..(Len(s) + Len(t)) :
                            (s \o t)[j] = IF j <= Len(s) THEN s[j] ELSE t[j - Len(s)]
  OBVIOUS

\* RemoveAt moves the elements behind the place down by one.
LEMMA RemoveLaw == ASSUME NEW S, NEW s \in Seq(S), NEW k \in 1..Len(s)
                   PROVE  /\ RemoveAt(s, k) \in Seq(S) /\ Len(RemoveAt(s, k)) = Len(s) - 1
                          /\ \A j \in 1..(Len(s) - 1) :
                               RemoveAt(s, k)[j] = IF j < k THEN s[j] ELSE s[j + 1]
<1> DEFINE n == Len(s)
           p == SubSeq(s, 1, k - 1)
           q == SubSeq(s, k + 1, n)
<1>1. n \in Nat /\ k \in Nat /\ k >= 1 /\ k <= n
  OBVIOUS
<1>2. p \in Seq(S) /\ Len(p) = k - 1 /\ \A j \in 1..(k - 1) : p[j] = s[j]
  BY SMTT(30), <1>1, Piece
<1>3. q \in Seq(S) /\ Len(q) = n - k /\ \A j \in 1..(n - k) : q[j] = s[k + j]
  <2>1. /\ q \in Seq(S) /\ Len(q) = n - (k + 1) + 1
        /\ \A j \in 1..(n - (k + 1) + 1) : q[j] = s[k + 1 + j - 1]
    BY SMTT(30), <1>1, Piece
  <2>2. n - (k + 1) + 1 = n - k /\ \A j \in 1..(n - k) : k + 1 + j - 1 = k + j
    BY <1>1
  <2> HIDE DEF q
  <2> QED
    BY <2>1, <2>2
<1>4. RemoveAt(s, k) = p \o q
  BY DEF RemoveAt
<1> HIDE DEF p, q
<1>5. /\ p \o q \in Seq(S) /\ Len(p \o q) = n - 1
      /\ \A j \in 1..(n - 1) : (p \o q)[j] = IF j <= k - 1 THEN p[j] ELSE q[j - (k - 1)]
  <2>1. /\ p \o q \in Seq(S) /\ Len(p \o q) = Len(p) + Len(q)
        /\ \A j \in 1..(Len(p) + Len(q)) :
             (p \o q)[j] = IF j <= Len(p) THEN p[j] ELSE q[j - Len(p)]
    BY <1>2, <1>3, Joined
  <2>2. Len(p) + Len(q) = n - 1
    BY <1>1, <1>2, <1>3
  <2> QED
    BY <1>2, <2>1, <2>2
<1>6. ASSUME NEW j \in 1..(n - 1)
      PROVE  (p \o q)[j] = IF j < k THEN s[j] ELSE s[j + 1]
  <2>1. CASE j < k
    <3>1. j \in 1..(k - 1) /\ j <= k - 1
      BY <1>1, <2>1
    <3> QED
      BY <1>2, <1>5, <2>1, <3>1
  <2>2. CASE ~(j < k)
    <3>1. j - (k - 1) \in 1..(n - k) /\ ~(j <= k - 1) /\ k + (j - (k - 1)) = j + 1
      BY <1>1, <2>2
    <3>2. q[j - (k - 1)] = s[k + (j - (k - 1))]
      BY <1>3, <3>1
    <3> QED
      BY <1>5, <2>2, <3>1, <3>2
  <2> QED
    BY <2>1, <2>2
<1> QED
  BY <1>4, <1>5, <1>6

\* InsertAt moves the elements from the place on up by one.
LEMMA InsertLaw == ASSUME NEW S, NEW s \in Seq(S), NEW x \in S, NEW k \in 1..(Len(s) + 1)
                   PROVE  /\ InsertAt(s, k, x) \in Seq(S) /\ Len(InsertAt(s, k, x)) = Len(s) + 1
                          /\ \A j \in 1..(Len(s) + 1) :
                               InsertAt(s, k, x)[j] = IF j < k THEN s[j] ELSE IF j = k THEN x ELSE s[j - 1]
<1> DEFINE n == Len(s)
           p == SubSeq(s, 1, k - 1)
           o == <<x>>
           q == SubSeq(s, k, n)
<1>1. n \in Nat /\ k \in Nat /\ k >= 1 /\ k <= n + 1
  OBVIOUS
<1>2. p \in Seq(S) /\ Len(p) = k - 1 /\ \A j \in 1..(k - 1) : p[j] = s[j]
  BY SMTT(30), <1>1, Piece
<1>3. q \in Seq(S) /\ Len(q) = n - k + 1 /\ \A j \in 1..(n - k + 1) : q[j] = s[k + j - 1]
  BY SMTT(30), <1>1, Piece
<1>4. o \in Seq(S) /\ Len(o) = 1 /\ o[1] = x
  OBVIOUS
<1>5. InsertAt(s, k, x) = (p \o o) \o q
  BY DEF InsertAt
<1> HIDE DEF p, o, q
<1>6. /\ p \o o \in Seq(S) /\ Len(p \o o) = k
      /\ \A j \in 1..k : (p \o o)[j] = IF j <= k - 1 THEN p[j] ELSE o[j - (k - 1)]
  <2>1. /\ p \o o \in Seq(S) /\ Len(p \o o) = Len(p) + Len(o)
        /\ \A j \in 1..(Len(p) + Len(o)) :
             (p \o o)[j] = IF j <= Len(p) THEN p[j] ELSE o[j - Len(p)]
    BY <1>2, <1>4, Joined
  <2>2. Len(p) + Len(o) = k
    BY <1>1, <1>2, <1>4
  <2> QED
    BY <1>2, <2>1, <2>2
<1> DEFINE r == p \o o
<1> HIDE DEF r
<1>7. /\ r \o q \in Seq(S) /\ Len(r \o q) = n + 1
      /\ \A j \in 1..(n + 1) : (r \o q)[j] = IF j <= k THEN r[j] ELSE q[j - k]
  <2>1. r \in Seq(S) /\ Len(r) = k
    BY <1>6 DEF r
  <2>2. /\ r \o q \in Seq(S) /\ Len(r \o q) = Len(r) + Len(q)
        /\ \A j \in 1..(Len(r) + Len(q)) :
             (r \o q)[j] = IF j <= Len(r) THEN r[j] ELSE q[j - Len(r)]
    BY <1>3, <2>1, Joined
  <2>3. Len(r) + Len(q) = n + 1
    BY <1>1, <1>3, <2>1
  <2> QED
    BY <2>1, <2>2, <2>3
<1>8. ASSUME NEW j \in 1..(n + 1)
      PROVE  (r \o q)[j] = IF j < k THEN s[j] ELSE IF j = k THEN x ELSE s[j - 1]
  <2>1. CASE j < k
    <3>1. j \in 1..(k - 1) /\ j <= k - 1 /\ j \in 1..k /\ j <= k
      BY <1>1, <2>1
    <3> QED
      BY <1>2, <1>6, <1>7, <2>1, <3>1 DEF r
  <2>2. CASE j = k
    <3>1. j \in 1..k /\ ~(j <= k - 1) /\ j - (k - 1) = 1 /\ j <= k
      BY <1>1, <2>2
    <3>2. (r \o q)[j] = r[j]
      BY <1>7, <3>1
    <3>3. r[j] = o[1]
      BY <1>6, <3>1 DEF r
    <3>4. ~(j < k)
      BY <1>1, <2>2
    <3> QED
      BY <1>4, <2>2, <3>2, <3>3, <3>4
  <2>3. CASE j > k
    <3>1. j - k \in 1..(n - k + 1) /\ ~(j <= k) /\ k + (j - k) - 1 = j - 1
      BY <1>1, <2>3
    <3>2. q[j - k] = s[k + (j - k) - 1]
      BY <1>3, <3>1
    <3> QED
      BY <1>1, <1>7, <2>3, <3>1, <3>2
  <2>4. j < k \/ j = k \/ j > k
    BY <1>1
  <2> QED
    BY <2>1, <2>2, <2>3, <2>4
<1> QED
  BY <1>5, <1>7, <1>8 DEF r

\* A row that gets another place: those between move by one.
LEMMA MoveLaw == ASSUME NEW S, NEW s \in Seq(S), NEW k \in 1..Len(s), NEW l \in 1..Len(s)
                 PROVE  LET t == InsertAt(RemoveAt(s, k), l, s[k]) IN
                        /\ t \in Seq(S) /\ Len(t) = Len(s)
                        /\ \A j \in 1..Len(s) :
                             t[j] = IF j = l THEN s[k] ELSE IF j < l THEN (IF j < k THEN s[j] ELSE s[j + 1])
                                    ELSE IF j - 1 < k THEN s[j - 1] ELSE s[j]
<1> DEFINE r == RemoveAt(s, k)
           x == s[k]
<1>1. Len(s) \in Nat /\ k \in Nat /\ l \in Nat /\ x \in S
  OBVIOUS
<1>2. /\ r \in Seq(S) /\ Len(r) = Len(s) - 1
      /\ \A j \in 1..(Len(s) - 1) : r[j] = IF j < k THEN s[j] ELSE s[j + 1]
  BY RemoveLaw
<1> HIDE DEF r, x
<1>3. l \in 1..(Len(r) + 1) /\ Len(r) + 1 = Len(s)
  BY <1>1, <1>2
<1>4. /\ InsertAt(r, l, x) \in Seq(S) /\ Len(InsertAt(r, l, x)) = Len(r) + 1
      /\ \A j \in 1..(Len(r) + 1) :
           InsertAt(r, l, x)[j] = IF j < l THEN r[j] ELSE IF j = l THEN x ELSE r[j - 1]
  BY <1>1, <1>2, <1>3, InsertLaw
<1>5. ASSUME NEW j \in 1..Len(s)
      PROVE  InsertAt(r, l, x)[j] =
               IF j = l THEN x ELSE IF j < l THEN (IF j < k THEN s[j] ELSE s[j + 1])
               ELSE IF j - 1 < k THEN s[j - 1] ELSE s[j]
  <2>1. CASE j < l
    <3>1. j \in 1..(Len(s) - 1) /\ j # l
      BY <1>1, <2>1
    <3>2. InsertAt(r, l, x)[j] = r[j]
      BY <1>3, <1>4, <2>1
    <3> QED
      BY <1>2, <2>1, <3>1, <3>2
  <2>2. CASE j = l
    BY <1>1, <1>3, <1>4, <2>2
  <2>3. CASE j > l
    <3>1. j - 1 \in 1..(Len(s) - 1) /\ (j - 1) + 1 = j /\ ~(j < l) /\ j # l
      BY <1>1, <2>3
    <3>2. InsertAt(r, l, x)[j] = r[j - 1]
      BY <1>3, <1>4, <3>1
    <3>3. r[j - 1] = IF j - 1 < k THEN s[j - 1] ELSE s[j]
      BY <1>2, <3>1
    <3> QED
      BY <3>1, <3>2, <3>3
  <2> QED
    BY <1>1, <2>1, <2>2, <2>3
<1> QED
  BY <1>3, <1>4, <1>5 DEF r, x

-----------------------------------------------------------------------------
(* Counting.                                                                 *)

\* The rows of a list on the first p places, and those behind.
Distinct(s) == \A k, l \in 1..Len(s) : s[k] = s[l] => k = l
InFront(s, p) == {s[k] : k \in {i \in 1..Len(s) : i <= p}}
Behind(s, p)  == {s[k] : k \in {i \in 1..Len(s) : i > p}}

\* What becomes of the list, its fronts and its backs when s turns into t and the
\* rows of X come in: one other row at most gets into a front or a back.
Rebuilt(s, t, X)   == t \in Seq(Nat) /\ Distinct(t) /\ ToSet(t) \subseteq ToSet(s) \cup X
FrontKept(s, t, X) == \A p \in Nat : InFront(t, p) \subseteq InFront(s, p) \cup X
FrontPlus(s, t, X) == \A p \in Nat : \E y : InFront(t, p) \subseteq InFront(s, p) \cup X \cup {y}
BackKept(s, t, X)  == \A p \in Nat : Behind(t, p) \subseteq Behind(s, p) \cup X
BackPlus(s, t, X)  == \A p \in Nat : \E y : Behind(t, p) \subseteq Behind(s, p) \cup X \cup {y}

\* The size of a part.
LEMMA Smaller == ASSUME NEW A, IsFiniteSet(A), NEW B, B \subseteq A
                 PROVE  IsFiniteSet(B) /\ Cardinality(B) <= Cardinality(A)
  BY FS_Subset

\* The size of what has one element more at most.
LEMMA OneMore == ASSUME NEW A, IsFiniteSet(A), NEW x, NEW B, B \subseteq A \cup {x}
                 PROVE  IsFiniteSet(B) /\ Cardinality(B) <= Cardinality(A) + 1
<1>1. /\ IsFiniteSet(A \cup {x}) /\ Cardinality(A) \in Nat
      /\ Cardinality(A \cup {x}) <= Cardinality(A) + 1 /\ Cardinality(A \cup {x}) \in Nat
  BY FS_AddElement, FS_CardinalityType
<1>2. IsFiniteSet(B) /\ Cardinality(B) <= Cardinality(A \cup {x}) /\ Cardinality(B) \in Nat
  BY <1>1, FS_Subset, FS_CardinalityType
<1> QED
  BY <1>1, <1>2

\* What occurs in a list is finite, and as much as the list is long if it
\* repeats nothing.
LEMMA Occurring == ASSUME NEW S, NEW s \in Seq(S)
                   PROVE  /\ IsFiniteSet(ToSet(s)) /\ Cardinality(ToSet(s)) \in Nat
                          /\ Distinct(s) => Cardinality(ToSet(s)) = Len(s)
<1>1. Len(s) \in Nat /\ DOMAIN s = 1..Len(s) /\ s \in [1..Len(s) -> S]
  OBVIOUS
<1>2. s \in Surjection(1..Len(s), ToSet(s))
  BY <1>1 DEF Surjection, ToSet
<1>3. IsFiniteSet(1..Len(s)) /\ Cardinality(1..Len(s)) = Len(s)
  BY <1>1, FS_Interval
<1>4. IsFiniteSet(ToSet(s))
  BY <1>2, <1>3, FS_Surjection
<1>5. Distinct(s) => s \in Injection(1..Len(s), ToSet(s))
  BY <1>1, <1>2 DEF Distinct, Injection, IsInjective, Surjection
<1>6. Distinct(s) => Cardinality(ToSet(s)) = Len(s)
  BY <1>2, <1>3, <1>5, FS_Surjection
<1> QED
  BY <1>4, <1>6, FS_CardinalityType

\* A list consists of its front and its back.
LEMMA FrontAndBack == ASSUME NEW S, NEW s \in Seq(S), NEW p \in Int
                      PROVE  /\ ToSet(s) = InFront(s, p) \cup Behind(s, p)
                             /\ Len(s) <= p => InFront(s, p) = ToSet(s)
                             /\ p <= 0 => InFront(s, p) = {}
                             /\ Distinct(s) => InFront(s, p) \cap Behind(s, p) = {}
<1>1. Len(s) \in Nat /\ DOMAIN s = 1..Len(s)
  OBVIOUS
<1>2. ToSet(s) = {s[k] : k \in 1..Len(s)}
  BY <1>1 DEF ToSet
<1>3. ToSet(s) = InFront(s, p) \cup Behind(s, p)
  BY <1>1, <1>2 DEF InFront, Behind
<1>4. Len(s) <= p => InFront(s, p) = ToSet(s)
  BY <1>1, <1>2 DEF InFront
<1>5. p <= 0 => InFront(s, p) = {}
  BY <1>1 DEF InFront
<1>6. Distinct(s) => InFront(s, p) \cap Behind(s, p) = {}
  BY <1>1 DEF Distinct, InFront, Behind
<1> QED
  BY <1>3, <1>4, <1>5, <1>6

\* A new row pushes one row from the front to the back.
LEMMA InsertedList ==
    ASSUME NEW s \in Seq(Nat), Distinct(s), NEW x, x \in Nat, x \notin ToSet(s), NEW k \in 1..(Len(s) + 1)
    PROVE  LET t == InsertAt(s, k, x) IN
           Rebuilt(s, t, {x}) /\ FrontKept(s, t, {x}) /\ BackPlus(s, t, {x})
<1>1. PICK t : t = InsertAt(s, k, x)
  OBVIOUS
<1>2. /\ t \in Seq(Nat) /\ Len(t) = Len(s) + 1
      /\ \A j \in 1..(Len(s) + 1) : t[j] = IF j < k THEN s[j] ELSE IF j = k THEN x ELSE s[j - 1]
  <2>1. /\ InsertAt(s, k, x) \in Seq(Nat) /\ Len(InsertAt(s, k, x)) = Len(s) + 1
        /\ \A j \in 1..(Len(s) + 1) :
             InsertAt(s, k, x)[j] = IF j < k THEN s[j] ELSE IF j = k THEN x ELSE s[j - 1]
    <3>1. PICK S : S = Nat
      OBVIOUS
    <3>2. s \in Seq(S) /\ x \in S
      BY <3>1
    <3>3. /\ InsertAt(s, k, x) \in Seq(S) /\ Len(InsertAt(s, k, x)) = Len(s) + 1
          /\ \A j \in 1..(Len(s) + 1) :
               InsertAt(s, k, x)[j] = IF j < k THEN s[j] ELSE IF j = k THEN x ELSE s[j - 1]
      BY <3>2, InsertLaw
    <3> QED
      BY <3>1, <3>3
  <2> QED
    BY <1>1, <2>1
<1>3. /\ Len(s) \in Nat /\ k \in Nat /\ DOMAIN t = 1..Len(t) /\ DOMAIN s = 1..Len(s)
      /\ k >= 1 /\ k <= Len(s) + 1
  BY <1>2
<1> DEFINE from(j) == IF j < k THEN j ELSE j - 1
<1>4. ASSUME NEW j \in 1..Len(t)
      PROVE  /\ j \in Nat /\ (t[j] = x \/ j # k)
             /\ j # k => from(j) \in 1..Len(s) /\ from(j) \in Nat /\ t[j] = s[from(j)]
  BY <1>2, <1>3
<1>5. \A j \in 1..Len(s) : s[j] # x
  BY <1>3 DEF ToSet
<1>6. t[k] = x
  BY <1>2, <1>3
<1>7. Distinct(t)
  <2> SUFFICES ASSUME NEW i \in 1..Len(t), NEW j \in 1..Len(t), t[i] = t[j] PROVE i = j
    BY DEF Distinct
  <2>1. CASE i = k \/ j = k
    <3> HIDE DEF from
    <3> QED
      BY <1>4, <1>5, <1>6, <2>1
  <2>2. CASE i # k /\ j # k
    <3>1. /\ from(i) \in 1..Len(s) /\ from(j) \in 1..Len(s)
          /\ s[from(i)] = s[from(j)] /\ i \in Nat /\ j \in Nat
      <4> HIDE DEF from
      <4> QED
        BY <1>4, <2>2
    <3>2. from(i) = from(j)
      <4> HIDE DEF from
      <4> QED
        BY <3>1 DEF Distinct
    <3> QED
      BY <1>3, <2>2, <3>1, <3>2
  <2> QED
    BY <2>1, <2>2
<1>8. ToSet(t) \subseteq ToSet(s) \cup {x}
  <2> HIDE DEF from
  <2> QED
    BY <1>3, <1>4, <1>6 DEF ToSet
<1>9. ASSUME NEW p \in Nat
      PROVE  /\ InFront(t, p) \subseteq InFront(s, p) \cup {x}
             /\ Behind(t, p) \subseteq Behind(s, p) \cup {x} \cup {s[p]}
  <2>1. ASSUME NEW j \in 1..Len(t), j <= p, j # k PROVE from(j) <= p
    BY <1>3, <1>4, <2>1
  <2>2. ASSUME NEW j \in 1..Len(t), j > p, j # k PROVE from(j) > p \/ from(j) = p
    BY <1>3, <1>4, <2>2
  <2> HIDE DEF from
  <2>3. InFront(t, p) \subseteq InFront(s, p) \cup {x}
    BY <1>4, <1>6, <2>1 DEF InFront
  <2>4. Behind(t, p) \subseteq Behind(s, p) \cup {x} \cup {s[p]}
    BY <1>4, <1>6, <2>2 DEF Behind
  <2> QED
    BY <2>3, <2>4
<1>10. Rebuilt(s, t, {x})
  BY <1>2, <1>7, <1>8 DEF Rebuilt
<1>11. FrontKept(s, t, {x}) /\ BackPlus(s, t, {x})
  BY <1>9 DEF FrontKept, BackPlus
<1> QED
  BY <1>1, <1>10, <1>11

\* A deletion pulls one row from the back to the front.
LEMMA RemovedList ==
    ASSUME NEW s \in Seq(Nat), Distinct(s), NEW k \in 1..Len(s)
    PROVE  LET t == RemoveAt(s, k) IN
           Rebuilt(s, t, {}) /\ FrontPlus(s, t, {}) /\ BackKept(s, t, {})
<1>1. PICK t : t = RemoveAt(s, k)
  OBVIOUS
<1>2. /\ t \in Seq(Nat) /\ Len(t) = Len(s) - 1
      /\ \A j \in 1..(Len(s) - 1) : t[j] = IF j < k THEN s[j] ELSE s[j + 1]
  BY <1>1, RemoveLaw
<1>3. /\ Len(s) \in Nat /\ k \in Nat /\ DOMAIN t = 1..Len(t) /\ DOMAIN s = 1..Len(s)
      /\ k >= 1 /\ k <= Len(s)
  BY <1>2
<1> DEFINE from(j) == IF j < k THEN j ELSE j + 1
<1>4. ASSUME NEW j \in 1..Len(t)
      PROVE  j \in Nat /\ from(j) \in 1..Len(s) /\ from(j) \in Nat /\ t[j] = s[from(j)]
  <2>1. PICK m : m = Len(s) /\ m \in Nat /\ Len(t) = m - 1
    BY <1>2, <1>3
  <2>2. j \in 1..(m - 1)
    BY <2>1
  <2>3. j \in Nat /\ from(j) \in 1..m /\ from(j) \in Nat
    BY <1>3, <2>1, <2>2
  <2>4. t[j] = s[from(j)]
    BY <1>2, <2>1, <2>2
  <2> QED
    BY <2>1, <2>3, <2>4
<1>5. Distinct(t)
  <2> SUFFICES ASSUME NEW i \in 1..Len(t), NEW j \in 1..Len(t), t[i] = t[j] PROVE i = j
    BY DEF Distinct
  <2>1. from(i) = from(j)
    <3> HIDE DEF from
    <3> QED
      BY <1>4 DEF Distinct
  <2> QED
    BY <1>3, <1>4, <2>1
<1>6. ToSet(t) \subseteq ToSet(s)
  <2> HIDE DEF from
  <2> QED
    BY <1>3, <1>4 DEF ToSet
<1>7. ASSUME NEW p \in Nat
      PROVE  /\ InFront(t, p) \subseteq InFront(s, p) \cup {s[p + 1]}
             /\ Behind(t, p) \subseteq Behind(s, p)
  <2>1. ASSUME NEW j \in 1..Len(t), j <= p PROVE from(j) <= p \/ from(j) = p + 1
    BY <1>3, <1>4, <2>1
  <2>2. ASSUME NEW j \in 1..Len(t), j > p PROVE from(j) > p
    BY <1>3, <1>4, <2>2
  <2> HIDE DEF from
  <2>3. InFront(t, p) \subseteq InFront(s, p) \cup {s[p + 1]}
    BY <1>4, <2>1 DEF InFront
  <2>4. Behind(t, p) \subseteq Behind(s, p)
    BY <1>4, <2>2 DEF Behind
  <2> QED
    BY <2>3, <2>4
<1>8. Rebuilt(s, t, {})
  BY <1>2, <1>5, <1>6 DEF Rebuilt
<1>9. FrontPlus(s, t, {}) /\ BackKept(s, t, {})
  BY <1>7 DEF FrontPlus, BackKept
<1> QED
  BY <1>1, <1>8, <1>9

\* A row that moves takes one place in the front or in the back from another.
LEMMA MovedList ==
    ASSUME NEW s \in Seq(Nat), Distinct(s), NEW k \in 1..Len(s), NEW l \in 1..Len(s)
    PROVE  LET t == InsertAt(RemoveAt(s, k), l, s[k]) IN
           Rebuilt(s, t, {}) /\ FrontPlus(s, t, {}) /\ BackPlus(s, t, {})
<1>1. PICK t \in Seq(Nat) :
        /\ t = InsertAt(RemoveAt(s, k), l, s[k]) /\ Len(t) = Len(s)
        /\ \A j \in 1..Len(s) :
             t[j] = IF j = l THEN s[k] ELSE IF j < l THEN (IF j < k THEN s[j] ELSE s[j + 1])
                    ELSE IF j - 1 < k THEN s[j - 1] ELSE s[j]
  <2>1. PICK N, t : N = Nat /\ t = InsertAt(RemoveAt(s, k), l, s[k])
    OBVIOUS
  <2>2. s \in Seq(N)
    BY <2>1
  <2>3. /\ t \in Seq(N) /\ Len(t) = Len(s)
        /\ \A j \in 1..Len(s) :
             t[j] = IF j = l THEN s[k] ELSE IF j < l THEN (IF j < k THEN s[j] ELSE s[j + 1])
                    ELSE IF j - 1 < k THEN s[j - 1] ELSE s[j]
    BY ZenonT(40), <2>1, <2>2, MoveLaw
  <2> QED
    BY <2>1, <2>3
<1>2. /\ Len(s) \in Nat /\ k \in Nat /\ l \in Nat /\ DOMAIN t = 1..Len(t) /\ DOMAIN s = 1..Len(s)
      /\ k >= 1 /\ k <= Len(s) /\ l >= 1 /\ l <= Len(s)
  BY <1>1
<1> DEFINE from(j) == IF j = l THEN k ELSE IF j < l THEN (IF j < k THEN j ELSE j + 1)
                      ELSE IF j - 1 < k THEN j - 1 ELSE j
<1>3. \A j \in 1..Len(t) : j \in Nat /\ from(j) \in 1..Len(s) /\ from(j) \in Nat /\ t[j] = s[from(j)]
  BY <1>1, <1>2
<1>4. Distinct(t)
  <2> SUFFICES ASSUME NEW i \in 1..Len(t), NEW j \in 1..Len(t), t[i] = t[j] PROVE i = j
    BY DEF Distinct
  <2>1. i \in Nat /\ j \in Nat
    BY <1>3
  <2>2. from(i) = from(j)
    <3> HIDE DEF from
    <3> QED
      BY <1>3 DEF Distinct
  <2> QED
    BY SMTT(30), <1>2, <2>1, <2>2
<1>5. ToSet(t) \subseteq ToSet(s)
  <2> HIDE DEF from
  <2> QED
    BY <1>2, <1>3 DEF ToSet
<1>6. ASSUME NEW p \in Nat
      PROVE  /\ \E y : InFront(t, p) \subseteq InFront(s, p) \cup {y}
             /\ \E y : Behind(t, p) \subseteq Behind(s, p) \cup {y}
  <2> DEFINE y == IF l <= p THEN s[k] ELSE s[p + 1]
             z == IF l <= p THEN s[p] ELSE s[k]
  <2>1. ASSUME NEW j \in 1..Len(t), j <= p
        PROVE  t[j] = y \/ from(j) <= p
    <3>1. from(j) <= p \/ from(j) = IF l <= p THEN k ELSE p + 1
      BY <1>2, <2>1
    <3> QED
      BY <1>3, <3>1
  <2>2. ASSUME NEW j \in 1..Len(t), j > p
        PROVE  t[j] = z \/ from(j) > p
    <3>1. from(j) > p \/ from(j) = IF l <= p THEN p ELSE k
      BY <1>2, <2>2
    <3> QED
      BY SMTT(30), <1>3, <3>1
  <2> HIDE DEF from, y, z
  <2>3. InFront(t, p) \subseteq InFront(s, p) \cup {y}
    BY <1>3, <2>1 DEF InFront
  <2>4. Behind(t, p) \subseteq Behind(s, p) \cup {z}
    BY <1>3, <2>2 DEF Behind
  <2> QED
    BY <2>3, <2>4
<1>7. Rebuilt(s, t, {})
  BY <1>4, <1>5 DEF Rebuilt
<1>8. FrontPlus(s, t, {}) /\ BackPlus(s, t, {})
  BY <1>6 DEF FrontPlus, BackPlus
<1> QED
  BY <1>1, <1>7, <1>8

\* New rows at the end.
LEMMA ExtendedList ==
    ASSUME NEW s \in Seq(Nat), Distinct(s), NEW u \in Seq(Nat), Distinct(u), ToSet(s) \cap ToSet(u) = {}
    PROVE  LET t == s \o u IN
           Rebuilt(s, t, ToSet(u)) /\ FrontKept(s, t, ToSet(u)) /\ BackKept(s, t, ToSet(u))
<1>1. PICK t : t = s \o u
  OBVIOUS
<1>2. /\ t \in Seq(Nat) /\ Len(t) = Len(s) + Len(u)
      /\ \A j \in 1..(Len(s) + Len(u)) : t[j] = IF j <= Len(s) THEN s[j] ELSE u[j - Len(s)]
  BY <1>1, Joined
<1>3. /\ Len(s) \in Nat /\ Len(u) \in Nat
      /\ DOMAIN t = 1..Len(t) /\ DOMAIN s = 1..Len(s) /\ DOMAIN u = 1..Len(u)
  BY <1>2
<1>4. ASSUME NEW j \in 1..Len(t)
      PROVE  /\ j \in Nat
             /\ j <= Len(s) => j \in 1..Len(s) /\ t[j] = s[j]
             /\ j > Len(s) => j - Len(s) \in 1..Len(u) /\ t[j] = u[j - Len(s)]
  BY <1>2, <1>3
<1>5. \A i \in 1..Len(s) : \A j \in 1..Len(u) : s[i] # u[j]
  BY <1>3 DEF ToSet
<1>6. Distinct(t)
  <2> SUFFICES ASSUME NEW i \in 1..Len(t), NEW j \in 1..Len(t), t[i] = t[j] PROVE i = j
    BY DEF Distinct
  <2>1. i \in Nat /\ j \in Nat
    BY <1>4
  <2>2. CASE i <= Len(s) /\ j <= Len(s)
    BY <1>4, <2>2 DEF Distinct
  <2>3. CASE i > Len(s) /\ j > Len(s)
    <3>1. i - Len(s) = j - Len(s)
      BY <1>4, <2>3 DEF Distinct
    <3> QED
      BY <1>3, <2>1, <3>1
  <2>4. ~(i <= Len(s) /\ j > Len(s)) /\ ~(i > Len(s) /\ j <= Len(s))
    BY <1>4, <1>5
  <2> QED
    BY <1>3, <2>1, <2>2, <2>3, <2>4
<1>7. \A j \in 1..Len(t) : (j <= Len(s) /\ j \in 1..Len(s) /\ t[j] = s[j]) \/ t[j] \in ToSet(u)
  <2> SUFFICES ASSUME NEW j \in 1..Len(t)
               PROVE  (j <= Len(s) /\ j \in 1..Len(s) /\ t[j] = s[j]) \/ t[j] \in ToSet(u)
    OBVIOUS
  <2>1. j <= Len(s) \/ j > Len(s)
    BY <1>3, <1>4
  <2>2. \A i \in 1..Len(u) : u[i] \in ToSet(u)
    BY <1>3 DEF ToSet
  <2> QED
    BY <1>4, <2>1, <2>2
<1>8. ToSet(t) \subseteq ToSet(s) \cup ToSet(u)
  <2> SUFFICES ASSUME NEW j \in 1..Len(t) PROVE t[j] \in ToSet(s) \cup ToSet(u)
    BY <1>3 DEF ToSet
  <2> QED
    BY <1>3, <1>7 DEF ToSet
<1>9. ASSUME NEW p \in Nat
      PROVE  /\ InFront(t, p) \subseteq InFront(s, p) \cup ToSet(u)
             /\ Behind(t, p) \subseteq Behind(s, p) \cup ToSet(u)
  BY <1>7 DEF InFront, Behind
<1>10. Rebuilt(s, t, ToSet(u))
  BY <1>2, <1>6, <1>8 DEF Rebuilt
<1>11. FrontKept(s, t, ToSet(u)) /\ BackKept(s, t, ToSet(u))
  BY <1>9 DEF FrontKept, BackKept
<1> QED
  BY <1>1, <1>10, <1>11

\* A page takes the next rows of the list from the back to the front.
LEMMA PageOfList ==
    ASSUME NEW s \in Seq(Nat), Distinct(s), NEW p \in Nat, NEW n \in Nat
    PROVE  LET end == IF p + n < Len(s) THEN p + n ELSE Len(s)
               u == SubSeq(s, p + 1, end) IN
           /\ u \in Seq(Nat) /\ Distinct(u) /\ ToSet(u) \subseteq ToSet(s)
           /\ InFront(s, p + n) \subseteq InFront(s, p) \cup ToSet(u)
           /\ Behind(s, p + n) \subseteq Behind(s, p) \ ToSet(u)
           /\ ToSet(u) \subseteq Behind(s, p)
<1> DEFINE end == IF p + n < Len(s) THEN p + n ELSE Len(s)
           m == IF p + 1 <= end THEN end - p ELSE 0
<1>1. Len(s) \in Nat /\ end \in Nat /\ end <= Len(s) /\ m \in Nat /\ p + 1 \in Nat
  OBVIOUS
<1>2. PICK u \in Seq(Nat) :
        /\ u = SubSeq(s, p + 1, end) /\ Len(u) = m
        /\ \A j \in 1..m : u[j] = s[p + j]
  <2>1. CASE p + 1 <= end
    <3>1. /\ SubSeq(s, p + 1, end) \in Seq(Nat) /\ Len(SubSeq(s, p + 1, end)) = end - (p + 1) + 1
          /\ \A j \in 1..(end - (p + 1) + 1) : SubSeq(s, p + 1, end)[j] = s[p + 1 + j - 1]
      <4> HIDE DEF end
      <4>1. PICK a \in Int, b \in Int : a = p + 1 /\ b = end
        BY <1>1
      <4>2. a >= 1 /\ b <= Len(s) /\ a <= b + 1
        BY <1>1, <2>1, <4>1
      <4>3. /\ SubSeq(s, a, b) \in Seq(Nat) /\ Len(SubSeq(s, a, b)) = b - a + 1
            /\ \A j \in 1..(b - a + 1) : SubSeq(s, a, b)[j] = s[a + j - 1]
        BY <4>2, Piece
      <4> QED
        BY <4>1, <4>3, Zenon
    <3>2. end - (p + 1) + 1 = m /\ \A j \in 1..m : p + 1 + j - 1 = p + j
      BY <1>1, <2>1
    <3> HIDE DEF end, m
    <3> QED
      BY ZenonT(40), <3>1, <3>2
  <2>2. CASE ~(p + 1 <= end)
    <3>1. SubSeq(s, p + 1, end) = <<>>
      BY <1>1, <2>2, SubSeqEmpty
    <3>2. <<>> \in Seq(Nat) /\ Len(<<>>) = 0 /\ m = 0
      BY <2>2
    <3>3. \A j \in 1..m : FALSE
      BY <3>2
    <3> HIDE DEF m, end
    <3> QED
      BY <3>1, <3>2, <3>3
  <2> QED
    BY <2>1, <2>2
<1>3. DOMAIN u = 1..m /\ DOMAIN s = 1..Len(s)
  BY <1>2
<1>4. \A j \in 1..m : j \in Nat /\ p + j \in 1..Len(s) /\ p + j > p /\ p + j <= p + n
  BY <1>1
<1>5. \A i \in 1..Len(s) : i > p /\ i <= p + n => i - p \in 1..m /\ i = p + (i - p)
  BY <1>1
<1> HIDE DEF end, m
<1>6. Distinct(u)
  <2> SUFFICES ASSUME NEW i \in 1..m, NEW j \in 1..m, u[i] = u[j] PROVE i = j
    BY <1>2 DEF Distinct
  <2>1. p + i = p + j
    BY <1>2, <1>4 DEF Distinct
  <2> QED
    BY <1>4, <2>1
<1>7. ToSet(u) \subseteq Behind(s, p) /\ ToSet(u) \subseteq ToSet(s)
  BY SMTT(30), <1>2, <1>3, <1>4 DEF ToSet, Behind
<1>8. InFront(s, p + n) \subseteq InFront(s, p) \cup ToSet(u)
  <2> SUFFICES ASSUME NEW i \in 1..Len(s), i <= p + n, i > p PROVE s[i] \in ToSet(u)
    BY <1>1 DEF InFront
  <2>1. i - p \in 1..m /\ i = p + (i - p)
    BY <1>5
  <2>2. u[i - p] = s[i]
    BY <1>2, <2>1
  <2> QED
    BY <1>3, <2>1, <2>2 DEF ToSet
<1>9. Behind(s, p + n) \subseteq Behind(s, p) \ ToSet(u)
  <2> SUFFICES ASSUME NEW i \in 1..Len(s), i > p + n PROVE i > p /\ s[i] \notin ToSet(u)
    BY DEF Behind
  <2>1. i > p /\ i \in Nat /\ \A j \in 1..m : p + j # i
    <3>1. i \in Nat
      BY <1>1
    <3>2. \A j \in 1..m : p + j <= p + n /\ j \in Nat
      BY <1>4
    <3> QED
      BY <3>1, <3>2
  <2>2. \A j \in 1..m : s[p + j] # s[i]
    BY <1>4, <2>1 DEF Distinct
  <2> QED
    BY <1>2, <1>3, <2>1, <2>2 DEF ToSet
<1> QED
  BY <1>2, <1>6, <1>7, <1>8, <1>9 DEF end

-----------------------------------------------------------------------------
(* The invariant of the table.                                               *)

Imports == [at : {"none", "create", "insert", "created", "bad request", "error", "empty"},
            rows : Seq(CsvValues), type : Types, next : Nat,
            landed : Seq(CsvValues \cup {"rounded"}), said : Nat]
Walks == [at : {"none", "page", "count", "ended"}, page : Nat \ {0}, per : 1..MaxPerPage, pages : Nat,
          start : SUBSET Nat, seen : Seq(Nat), added : Nat, gone : Nat, moved : Nat, blind : BOOLEAN]

\* The rows of the table are distinct and older than the next one.
ListingOK ==
    /\ listing \in Seq(Nat) /\ Distinct(listing)
    /\ \A r \in ToSet(listing) \cup walk.start \cup ToSet(walk.seen) : r < NewRow

\* How far the import has come.
ImportOK ==
    /\ import \in Imports
    /\ import.next = Len(import.landed) + 1
    /\ import.said = Len(import.landed)
    /\ Len(import.landed) <= Len(import.rows)
    /\ import.at \notin {"insert", "created", "empty"} => import.landed = <<>>

\* Where the next page begins, and what a walk has missed of the rows S.
Offset == IF walk.at = "page" THEN (walk.page - 1) * walk.per ELSE walk.page * walk.per
Missed(S) == (walk.start \cap S) \ ToSet(walk.seen)

\* A row is missed when it comes in front of the next page unseen, and seen
\* twice when it goes back behind; a walk counts what brings that about.
WalkOK ==
    /\ walk \in Walks /\ IsFiniteSet(walk.start)
    /\ walk.at \in {"page", "count"} =>
         /\ Cardinality(Missed(InFront(listing, Offset))) <= walk.gone + walk.moved
         /\ Len(walk.seen) - Cardinality(ToSet(walk.seen))
              + Cardinality(ToSet(walk.seen) \cap Behind(listing, Offset)) <= walk.added + walk.moved
    /\ walk.at = "ended" /\ ~walk.blind =>
         /\ Cardinality(Missed(ToSet(listing))) <= walk.gone + walk.moved
         /\ Len(walk.seen) - Cardinality(ToSet(walk.seen)) <= walk.added + walk.moved

\* The inductive invariant.
TableIInv == TableTypeOK /\ ListingOK /\ ImportOK /\ TypeBySuffix /\ ImportHonest /\ WalkOK

\* The place of the next page is a number, and page after page it moves on.
LEMMA OffsetLaw == ASSUME walk \in Walks
                   PROVE  /\ Offset \in Nat
                          /\ walk.at = "page" => walk.page * walk.per = Offset + walk.per
                          /\ walk.per \in Nat /\ walk.page * walk.per \in Nat
<1>1. walk.page \in Nat \ {0} /\ walk.per \in 1..MaxPerPage
  BY DEF Walks
<1>2. PICK p \in Nat : p + 1 = walk.page
  <2>1. walk.page - 1 \in Nat /\ (walk.page - 1) + 1 = walk.page
    BY <1>1
  <2> QED
    BY <2>1
<1>3. PICK w \in Nat : w = walk.per
  BY <1>1, TableAssumption
<1>4. p * w \in Nat /\ (p + 1) * w = p * w + w /\ (p + 1) - 1 = p
  OBVIOUS
<1>5. Offset = IF walk.at = "page" THEN p * w ELSE (p + 1) * w
  BY <1>2, <1>3, <1>4 DEF Offset
<1>6. (p + 1) * w \in Nat
  BY <1>4
<1> QED
  BY <1>2, <1>3, <1>4, <1>5, <1>6

\* The numbers of a walk.
LEMMA WalkSets == ASSUME walk \in Walks, IsFiniteSet(walk.start)
                  PROVE  /\ \A S : IsFiniteSet(Missed(S)) /\ Cardinality(Missed(S)) \in Nat
                         /\ IsFiniteSet(ToSet(walk.seen)) /\ Cardinality(ToSet(walk.seen)) \in Nat
                         /\ \A S : /\ IsFiniteSet(ToSet(walk.seen) \cap S)
                                   /\ Cardinality(ToSet(walk.seen) \cap S) \in Nat
                         /\ Len(walk.seen) \in Nat
                         /\ walk.gone \in Nat /\ walk.moved \in Nat /\ walk.added \in Nat
<1>1. walk.seen \in Seq(Nat)
  BY DEF Walks
<1>2. IsFiniteSet(ToSet(walk.seen)) /\ Cardinality(ToSet(walk.seen)) \in Nat
  BY <1>1, Occurring
<1>3. ASSUME NEW S PROVE IsFiniteSet(Missed(S)) /\ Cardinality(Missed(S)) \in Nat
  <2>1. Missed(S) \subseteq walk.start
    BY DEF Missed
  <2> QED
    BY <2>1, FS_Subset, FS_CardinalityType
<1>4. ASSUME NEW S PROVE /\ IsFiniteSet(ToSet(walk.seen) \cap S)
                         /\ Cardinality(ToSet(walk.seen) \cap S) \in Nat
  <2>1. ToSet(walk.seen) \cap S \subseteq ToSet(walk.seen)
    OBVIOUS
  <2> QED
    BY <1>2, <2>1, FS_Subset, FS_CardinalityType
<1> QED
  BY <1>1, <1>2, <1>3, <1>4 DEF Walks

\* What a change of the list may do to a walk under way, with X the new rows.
Moderate(X) ==
    /\ \/ FrontKept(listing, listing', X)
       \/ /\ walk'.gone + walk'.moved >= walk.gone + walk.moved + 1
          /\ FrontPlus(listing, listing', X)
    /\ \/ BackKept(listing, listing', X)
       \/ /\ walk'.added + walk'.moved >= walk.added + walk.moved + 1
          /\ BackPlus(listing, listing', X)

\* The accounts of a walk stand such a change.
LEMMA ListChanged ==
    ASSUME WalkOK, walk' \in Walks, NEW X, \A r \in X : r \notin walk.start /\ r \notin ToSet(walk.seen),
           /\ walk'.at = walk.at /\ walk'.page = walk.page /\ walk'.per = walk.per
           /\ walk'.start = walk.start /\ walk'.seen = walk.seen /\ walk'.blind = walk.blind,
           walk'.gone + walk'.moved >= walk.gone + walk.moved,
           walk'.added + walk'.moved >= walk.added + walk.moved,
           Rebuilt(listing, listing', X),
           walk.at \in {"page", "count"} => Moderate(X)
    PROVE  WalkOK'
<1>1. walk \in Walks /\ IsFiniteSet(walk.start)
  BY DEF WalkOK
<1>2. Offset' = Offset
  BY DEF Offset
<1>3. PICK st : st = walk.start
  OBVIOUS
<1>4. PICK sn : sn = ToSet(walk.seen)
  OBVIOUS
<1>5. /\ \A S : /\ IsFiniteSet((st \cap S) \ sn) /\ Cardinality((st \cap S) \ sn) \in Nat
               /\ IsFiniteSet(sn \cap S) /\ Cardinality(sn \cap S) \in Nat
      /\ Len(walk.seen) \in Nat /\ Cardinality(sn) \in Nat
      /\ walk.gone \in Nat /\ walk.moved \in Nat /\ walk.added \in Nat
  BY <1>1, <1>3, <1>4, WalkSets DEF Missed
<1>6. walk'.gone \in Nat /\ walk'.moved \in Nat /\ walk'.added \in Nat
  BY DEF Walks
<1>7. ASSUME walk.at \in {"page", "count"}
      PROVE  /\ Cardinality((st \cap InFront(listing', Offset)) \ sn) <= walk'.gone + walk'.moved
             /\ Len(walk.seen) - Cardinality(sn) + Cardinality(sn \cap Behind(listing', Offset))
                   <= walk'.added + walk'.moved
  <2>1. PICK F : F = InFront(listing, Offset)
    OBVIOUS
  <2>2. PICK G : G = InFront(listing', Offset)
    OBVIOUS
  <2>3. PICK B : B = Behind(listing, Offset)
    OBVIOUS
  <2>4. PICK C : C = Behind(listing', Offset)
    OBVIOUS
  <2>5. /\ Cardinality((st \cap F) \ sn) <= walk.gone + walk.moved
        /\ Len(walk.seen) - Cardinality(sn) + Cardinality(sn \cap B) <= walk.added + walk.moved
    BY <1>3, <1>4, <1>7, <2>1, <2>3 DEF WalkOK, Missed
  <2>6. /\ \/ G \subseteq F \cup X
           \/ /\ walk'.gone + walk'.moved >= walk.gone + walk.moved + 1
              /\ \E y : G \subseteq F \cup X \cup {y}
        /\ \/ C \subseteq B \cup X
           \/ /\ walk'.added + walk'.moved >= walk.added + walk.moved + 1
              /\ \E y : C \subseteq B \cup X \cup {y}
    <3>1. Offset \in Nat
      BY <1>1, OffsetLaw
    <3> QED
      BY <1>7, <2>1, <2>2, <2>3, <2>4, <3>1 DEF Moderate, FrontKept, FrontPlus, BackKept, BackPlus
  <2>7. \A r \in X : r \notin st /\ r \notin sn
    BY <1>3, <1>4
  <2>8. Cardinality((st \cap G) \ sn) <= walk'.gone + walk'.moved
    <3> DEFINE M == (st \cap F) \ sn
               N == (st \cap G) \ sn
    <3>1. IsFiniteSet(M) /\ Cardinality(M) \in Nat /\ Cardinality(N) \in Nat
      BY <1>5
    <3>2. CASE G \subseteq F \cup X
      <4>1. N \subseteq M
        BY <2>7, <3>2
      <4> HIDE DEF M, N
      <4>2. Cardinality(N) <= Cardinality(M)
        BY <3>1, <4>1, Smaller
      <4>3. Cardinality(M) <= walk.gone + walk.moved
        BY <2>5 DEF M
      <4>4. Cardinality(N) <= walk'.gone + walk'.moved
        BY <1>5, <1>6, <3>1, <4>2, <4>3
      <4> QED
        BY <4>4 DEF N
    <3>3. CASE /\ walk'.gone + walk'.moved >= walk.gone + walk.moved + 1
               /\ \E y : G \subseteq F \cup X \cup {y}
      <4>1. PICK y : G \subseteq F \cup X \cup {y}
        BY <3>3
      <4>2. N \subseteq M \cup {y}
        BY <2>7, <4>1
      <4> HIDE DEF M, N
      <4>3. Cardinality(N) <= Cardinality(M) + 1
        BY <3>1, <4>2, OneMore
      <4>4. Cardinality(M) <= walk.gone + walk.moved
        BY <2>5 DEF M
      <4>5. Cardinality(N) <= walk'.gone + walk'.moved
        BY <1>5, <1>6, <3>1, <3>3, <4>3, <4>4
      <4> QED
        BY <4>5 DEF N
    <3> QED
      BY <2>6, <3>2, <3>3
  <2>9. Len(walk.seen) - Cardinality(sn) + Cardinality(sn \cap C) <= walk'.added + walk'.moved
    <3> DEFINE M == sn \cap B
               N == sn \cap C
    <3>1. IsFiniteSet(M) /\ Cardinality(M) \in Nat /\ Cardinality(N) \in Nat
      BY <1>5
    <3>2. CASE C \subseteq B \cup X
      <4>1. N \subseteq M
        BY <2>7, <3>2
      <4> HIDE DEF M, N
      <4>2. Cardinality(N) <= Cardinality(M)
        BY <3>1, <4>1, Smaller
      <4>3. Len(walk.seen) - Cardinality(sn) + Cardinality(M) <= walk.added + walk.moved
        BY <2>5 DEF M
      <4>4. Len(walk.seen) - Cardinality(sn) + Cardinality(N) <= walk'.added + walk'.moved
        BY SMTT(30), <1>5, <1>6, <3>1, <4>2, <4>3
      <4> QED
        BY <4>4 DEF N
    <3>3. CASE /\ walk'.added + walk'.moved >= walk.added + walk.moved + 1
               /\ \E y : C \subseteq B \cup X \cup {y}
      <4>1. PICK y : C \subseteq B \cup X \cup {y}
        BY <3>3
      <4>2. N \subseteq M \cup {y}
        BY <2>7, <4>1
      <4> HIDE DEF M, N
      <4>3. Cardinality(N) <= Cardinality(M) + 1
        BY <3>1, <4>2, OneMore
      <4>4. Len(walk.seen) - Cardinality(sn) + Cardinality(M) <= walk.added + walk.moved
        BY <2>5 DEF M
      <4>5. walk'.added + walk'.moved >= walk.added + walk.moved + 1
        BY <3>3
      <4>6. PICK d \in Int : d = Len(walk.seen) - Cardinality(sn)
        BY <1>5
      <4>7. PICK m \in Nat, n \in Nat : m = Cardinality(M) /\ n = Cardinality(N)
        BY <3>1 DEF M, N
      <4>8. n <= m + 1 /\ d + m <= walk.added + walk.moved
        BY <4>3, <4>4, <4>6, <4>7
      <4>9. walk.added + walk.moved \in Int /\ walk'.added + walk'.moved \in Int
        BY <1>5, <1>6
      <4>10. d + n <= walk'.added + walk'.moved
        BY <4>5, <4>8, <4>9
      <4> QED
        BY <4>6, <4>7, <4>10 DEF N
    <3> QED
      BY <2>6, <3>2, <3>3
  <2> QED
    BY <2>2, <2>4, <2>8, <2>9
<1>8. ASSUME walk.at = "ended", ~walk.blind
      PROVE  /\ Cardinality((st \cap ToSet(listing')) \ sn) <= walk'.gone + walk'.moved
             /\ Len(walk.seen) - Cardinality(sn) <= walk'.added + walk'.moved
  <2>1. PICK T : T = ToSet(listing)
    OBVIOUS
  <2>2. PICK U : U = ToSet(listing')
    OBVIOUS
  <2>3. /\ Cardinality((st \cap T) \ sn) <= walk.gone + walk.moved
        /\ Len(walk.seen) - Cardinality(sn) <= walk.added + walk.moved
    BY <1>3, <1>4, <1>8, <2>1 DEF WalkOK, Missed
  <2>4. (st \cap U) \ sn \subseteq (st \cap T) \ sn
    BY <1>3, <1>4, <2>1, <2>2 DEF Rebuilt
  <2>5. Cardinality((st \cap U) \ sn) <= Cardinality((st \cap T) \ sn)
    BY <1>5, <2>4, Smaller
  <2>6. Cardinality((st \cap U) \ sn) \in Nat /\ Cardinality((st \cap T) \ sn) \in Nat
    BY <1>5
  <2>7. Cardinality((st \cap U) \ sn) <= walk'.gone + walk'.moved
    BY <1>5, <1>6, <2>3, <2>5, <2>6
  <2>8. Len(walk.seen) - Cardinality(sn) <= walk'.added + walk'.moved
    BY <1>5, <1>6, <2>3
  <2> QED
    BY <2>2, <2>7, <2>8
<1>9. IsFiniteSet(walk'.start) /\ walk'.start = st /\ ToSet(walk'.seen) = sn
  BY <1>1, <1>3, <1>4
<1> QED
  BY <1>2, <1>7, <1>8, <1>9 DEF WalkOK, Missed

-----------------------------------------------------------------------------
(* Single rows.                                                              *)

\* What Noted does to a walk.
LEMMA NotedLaw ==
    ASSUME walk \in Walks, NEW n \in Nat, NEW what \in {"added", "gone", "moved"}, Noted(what, n)
    PROVE  /\ walk' \in Walks
           /\ walk'.at = walk.at /\ walk'.page = walk.page /\ walk'.per = walk.per
           /\ walk'.start = walk.start /\ walk'.seen = walk.seen /\ walk'.blind = walk.blind
           /\ walk'.gone + walk'.moved >= walk.gone + walk.moved
           /\ walk'.added + walk'.moved >= walk.added + walk.moved
           /\ walk.at \in {"page", "count"} =>
                /\ what \in {"gone", "moved"} => walk'.gone + walk'.moved = walk.gone + walk.moved + n
                /\ what \in {"added", "moved"} => walk'.added + walk'.moved = walk.added + walk.moved + n
<1>1. walk.gone \in Nat /\ walk.moved \in Nat /\ walk.added \in Nat
  BY DEF Walks
<1>2. CASE walk.at \notin {"page", "count"}
  <2>1. walk' = walk
    BY <1>2 DEF Noted
  <2> QED
    BY <1>1, <1>2, <2>1
<1>3. CASE walk.at \in {"page", "count"} /\ what = "added"
  <2>1. walk' = [walk EXCEPT !["added"] = walk.added + n]
    BY <1>3 DEF Noted
  <2>2. walk.added + n \in Nat
    BY <1>1
  <2>3. walk' \in Walks
    BY <2>1, <2>2 DEF Walks
  <2>4. /\ walk'.at = walk.at /\ walk'.page = walk.page /\ walk'.per = walk.per
        /\ walk'.start = walk.start /\ walk'.seen = walk.seen /\ walk'.blind = walk.blind
        /\ walk'.gone = walk.gone /\ walk'.moved = walk.moved /\ walk'.added = walk.added + n
    BY <2>1 DEF Walks
  <2> QED
    BY <1>1, <1>3, <2>3, <2>4
<1>4. CASE walk.at \in {"page", "count"} /\ what = "gone"
  <2>1. walk' = [walk EXCEPT !["gone"] = walk.gone + n]
    BY <1>4 DEF Noted
  <2>2. walk.gone + n \in Nat
    BY <1>1
  <2>3. walk' \in Walks
    BY <2>1, <2>2 DEF Walks
  <2>4. /\ walk'.at = walk.at /\ walk'.page = walk.page /\ walk'.per = walk.per
        /\ walk'.start = walk.start /\ walk'.seen = walk.seen /\ walk'.blind = walk.blind
        /\ walk'.gone = walk.gone + n /\ walk'.moved = walk.moved /\ walk'.added = walk.added
    BY <2>1 DEF Walks
  <2> QED
    BY <1>1, <1>4, <2>3, <2>4
<1>5. CASE walk.at \in {"page", "count"} /\ what = "moved"
  <2>1. walk' = [walk EXCEPT !["moved"] = walk.moved + n]
    BY <1>5 DEF Noted
  <2>2. walk.moved + n \in Nat
    BY <1>1
  <2>3. walk' \in Walks
    BY <2>1, <2>2 DEF Walks
  <2>4. /\ walk'.at = walk.at /\ walk'.page = walk.page /\ walk'.per = walk.per
        /\ walk'.start = walk.start /\ walk'.seen = walk.seen /\ walk'.blind = walk.blind
        /\ walk'.gone = walk.gone /\ walk'.moved = walk.moved + n /\ walk'.added = walk.added
    BY <2>1 DEF Walks
  <2> QED
    BY <1>1, <1>5, <2>3, <2>4
<1> QED
  BY <1>2, <1>3, <1>4, <1>5

\* The bounds of a behaviour are numbers.
LEMMA PlanBounds == \A p \in Plans : p.edits \in Nat
  BY TableAssumption

\* The next row has a number that no row has had.
LEMMA FreshRow == ASSUME TableIInv
                  PROVE  /\ NewRow \in Nat /\ edits \in Nat /\ plan.edits \in Nat
                         /\ \A r : r >= NewRow => r \notin walk.start /\ r \notin ToSet(walk.seen)
                                                  /\ r \notin ToSet(listing)
                         /\ Offset \in Nat
<1>1. edits \in Nat /\ plan.edits \in Nat
  <2>1. plan \in Plans /\ edits \in 0..plan.edits
    BY DEF TableIInv, TableTypeOK
  <2> QED
    BY <2>1, PlanBounds
<1>2. Len(import.landed) \in Nat
  BY DEF TableIInv, ImportOK, Imports
<1>3. NewRow \in Nat
  BY <1>1, <1>2, TableAssumption DEF NewRow
<1>4. Offset \in Nat
  BY OffsetLaw DEF TableIInv, WalkOK
<1>5. listing \in Seq(Nat) /\ walk.seen \in Seq(Nat) /\ walk.start \in SUBSET Nat
  BY DEF TableIInv, ListingOK, WalkOK, Walks
<1>6. \A r \in ToSet(listing) \cup walk.start \cup ToSet(walk.seen) : r < NewRow /\ r \in Nat
  <2>1. ToSet(listing) \subseteq Nat /\ ToSet(walk.seen) \subseteq Nat
    BY <1>5 DEF ToSet
  <2> QED
    BY <1>5, <2>1 DEF TableIInv, ListingOK
<1> QED
  BY <1>1, <1>3, <1>4, <1>6

\* What a step that has nothing to do with the import leaves of it.
LEMMA ImportKept == ASSUME TableIInv, UNCHANGED <<import, coltype, strict>>
                    PROVE  ImportOK' /\ TypeBySuffix' /\ ImportHonest'
<1>1. ImportOK'
  BY DEF TableIInv, ImportOK
<1>2. TypeBySuffix'
  BY DEF TableIInv, TypeBySuffix
<1>3. ImportHonest'
  BY DEF TableIInv, ImportHonest
<1> QED
  BY <1>1, <1>2, <1>3

\* A change of one row, with X the row that comes, if any.
LEMMA RowStepInv ==
    ASSUME TableIInv, edits < plan.edits, edits' = edits + 1, UNCHANGED <<strict, coltype, import, plan>>,
           NEW what \in {"added", "gone", "moved"}, Noted(what, 1),
           NEW X, \A r \in X : r = NewRow,
           Rebuilt(listing, listing', X),
           FrontKept(listing, listing', X) \/ (what \in {"gone", "moved"} /\ FrontPlus(listing, listing', X)),
           BackKept(listing, listing', X) \/ (what \in {"added", "moved"} /\ BackPlus(listing, listing', X))
    PROVE  TableIInv'
<1>1. /\ NewRow \in Nat /\ edits \in Nat /\ plan.edits \in Nat
      /\ NewRow \notin walk.start /\ NewRow \notin ToSet(walk.seen)
  BY FreshRow
<1>2. walk \in Walks /\ WalkOK
  BY DEF TableIInv, WalkOK
<1>3. /\ walk' \in Walks
      /\ walk'.at = walk.at /\ walk'.page = walk.page /\ walk'.per = walk.per
      /\ walk'.start = walk.start /\ walk'.seen = walk.seen /\ walk'.blind = walk.blind
      /\ walk'.gone + walk'.moved >= walk.gone + walk.moved
      /\ walk'.added + walk'.moved >= walk.added + walk.moved
      /\ walk.at \in {"page", "count"} =>
           /\ what \in {"gone", "moved"} => walk'.gone + walk'.moved = walk.gone + walk.moved + 1
           /\ what \in {"added", "moved"} => walk'.added + walk'.moved = walk.added + walk.moved + 1
  <2>1. 1 \in Nat
    OBVIOUS
  <2> QED
    BY <1>2, <2>1, NotedLaw
<1>4. WalkOK'
  <2>1. walk.at \in {"page", "count"} => Moderate(X)
    <3>1. /\ walk.gone \in Nat /\ walk.added \in Nat /\ walk.moved \in Nat
          /\ walk'.gone \in Nat /\ walk'.added \in Nat /\ walk'.moved \in Nat
      BY <1>2, <1>3 DEF Walks
    <3>2. walk.at \in {"page", "count"} =>
            /\ what \in {"gone", "moved"} => walk'.gone + walk'.moved >= walk.gone + walk.moved + 1
            /\ what \in {"added", "moved"} => walk'.added + walk'.moved >= walk.added + walk.moved + 1
      BY <1>3, <3>1
    <3> QED
      BY <3>2 DEF Moderate
  <2>2. \A r \in X : r \notin walk.start /\ r \notin ToSet(walk.seen)
    BY <1>1
  <2> QED
    BY <1>2, <1>3, <2>1, <2>2, ListChanged
<1>5. ListingOK'
  <2>1. NewRow' = NewRow + 1
    <3>1. PICK n \in Nat : n = Len(import.landed)
      BY DEF TableIInv, ImportOK, Imports
    <3>2. import' = import /\ FirstRows \in Nat
      BY TableAssumption
    <3>3. NewRow = 1 + n + FirstRows + edits /\ NewRow' = 1 + n + FirstRows + (edits + 1)
      BY <3>1, <3>2 DEF NewRow
    <3> QED
      BY <1>1, <3>2, <3>3
  <2>2. \A r \in ToSet(listing) \cup walk.start \cup ToSet(walk.seen) : r < NewRow /\ r \in Nat
    <3>1. listing \in Seq(Nat)
      BY DEF TableIInv, ListingOK
    <3>2. ToSet(listing) \subseteq Nat /\ ToSet(walk.seen) \subseteq Nat /\ walk.start \subseteq Nat
      BY <1>2, <3>1 DEF ToSet, Walks
    <3> QED
      BY <3>2 DEF TableIInv, ListingOK
  <2>3. \A r \in ToSet(listing') \cup walk'.start \cup ToSet(walk'.seen) : r < NewRow + 1
    BY <1>1, <1>3, <2>2 DEF Rebuilt
  <2> QED
    BY <2>1, <2>3 DEF ListingOK, Rebuilt
<1>6. TableTypeOK'
  <2>1. edits' \in 0..plan.edits
    BY <1>1
  <2>2. walk'.at \in {"none", "page", "count", "ended"} /\ walk'.per \in 1..MaxPerPage
    BY <1>3 DEF Walks
  <2> QED
    BY <2>1, <2>2 DEF TableIInv, TableTypeOK
<1> QED
  BY <1>4, <1>5, <1>6, ImportKept DEF TableIInv

\* A row comes.
LEMMA InsertRowInv == ASSUME TableIInv, InsertRow PROVE TableIInv'
<1>1. PICK k \in 1..(Len(listing) + 1) : listing' = InsertAt(listing, k, NewRow)
  BY DEF InsertRow
<1>2. NewRow \in Nat /\ NewRow \notin ToSet(listing) /\ listing \in Seq(Nat) /\ Distinct(listing)
  BY FreshRow DEF TableIInv, ListingOK
<1>3. PICK X : X = {NewRow}
  OBVIOUS
<1>4. /\ Rebuilt(listing, listing', X) /\ FrontKept(listing, listing', X)
      /\ BackPlus(listing, listing', X)
  BY <1>1, <1>2, <1>3, InsertedList
<1>5. \A r \in X : r = NewRow
  BY <1>3
<1>6. /\ edits < plan.edits /\ edits' = edits + 1 /\ Noted("added", 1)
      /\ UNCHANGED <<strict, coltype, import, plan>>
  BY DEF InsertRow
<1> QED
  BY <1>4, <1>5, <1>6, RowStepInv

\* A row goes.
LEMMA DeleteRowInv == ASSUME TableIInv, DeleteRow PROVE TableIInv'
<1>1. PICK k \in 1..Len(listing) : listing' = RemoveAt(listing, k)
  BY DEF DeleteRow
<1>2. listing \in Seq(Nat) /\ Distinct(listing)
  BY DEF TableIInv, ListingOK
<1>3. /\ Rebuilt(listing, listing', {}) /\ FrontPlus(listing, listing', {})
      /\ BackKept(listing, listing', {})
  BY <1>1, <1>2, RemovedList
<1>4. \A r \in {} : r = NewRow
  OBVIOUS
<1>5. /\ edits < plan.edits /\ edits' = edits + 1 /\ Noted("gone", 1)
      /\ UNCHANGED <<strict, coltype, import, plan>>
  BY DEF DeleteRow
<1> QED
  BY <1>3, <1>4, <1>5, RowStepInv

\* A row gets another place.
LEMMA EditRowInv == ASSUME TableIInv, EditRow PROVE TableIInv'
<1>1. PICK k \in 1..Len(listing), l \in 1..Len(listing) :
        listing' = InsertAt(RemoveAt(listing, k), l, listing[k])
  BY DEF EditRow
<1>2. listing \in Seq(Nat) /\ Distinct(listing)
  BY DEF TableIInv, ListingOK
<1>3. /\ Rebuilt(listing, listing', {}) /\ FrontPlus(listing, listing', {})
      /\ BackPlus(listing, listing', {})
  BY <1>1, <1>2, MovedList
<1>4. \A r \in {} : r = NewRow
  OBVIOUS
<1>5. /\ edits < plan.edits /\ edits' = edits + 1 /\ Noted("moved", 1)
      /\ UNCHANGED <<strict, coltype, import, plan>>
  BY DEF EditRow
<1> QED
  BY <1>3, <1>4, <1>5, RowStepInv

-----------------------------------------------------------------------------
(* The import.                                                               *)

\* What a column makes of a value that it takes.
LEMMA StoreLaw ==
    ASSUME NEW v \in CsvValues, NEW t, Store(v, t) # "refused"
    PROVE  /\ Store(v, t) \in CsvValues \cup {"rounded"}
           /\ \/ Store(v, t) = v
              \/ v = "real" /\ Store(v, t) = "rounded" /\ coltype = "INTEGER" /\ strict
  BY DEF Store, CsvValues

\* The end of a batch plus a batch is the end of a batch.
LEMMA Multiple == ASSUME NEW k \in Nat, NEW b \in Nat \ {0}, k % b = 0 PROVE (k + b) % b = 0
<1>1. \E q \in Nat : k = q * b
  OBVIOUS
<1>2. \A q \in Nat : (q * b) % b = 0
  OBVIOUS
<1>3. PICK q \in Nat : k = q * b
  BY <1>1
<1>4. (q + 1) * b = k + b /\ q + 1 \in Nat
  BY <1>3
<1> QED
  BY <1>2, <1>4

\* A batch of an import: what it stores follows what has landed, value for
\* value, and ends at the end of the file or of a batch.
LEMMA BatchLaw ==
    ASSUME ImportOK, ImportHonest, import.at = "insert", import.next <= Len(import.rows), Accepted
    PROVE  \E m \in Nat \ {0} :
             /\ Len(Stored) = m /\ Stored \in Seq(CsvValues \cup {"rounded"})
             /\ BatchEnd = Len(import.landed) + m /\ BatchEnd <= Len(import.rows)
             /\ BatchEnd = Len(import.rows) \/ BatchEnd % Batch = 0
             /\ \A i \in 1..m :
                  \/ Stored[i] = import.rows[Len(import.landed) + i]
                  \/ /\ import.rows[Len(import.landed) + i] = "real" /\ Stored[i] = "rounded"
                     /\ coltype = "INTEGER" /\ strict
<1>1. PICK k \in Nat : k = Len(import.landed)
  BY DEF ImportOK, Imports
<1>2. PICK L \in Nat : L = Len(import.rows)
  <2>1. import.rows \in Seq(CsvValues)
    BY DEF ImportOK, Imports
  <2> QED
    BY <2>1
<1>3. import.next = k + 1 /\ k + 1 <= L
  BY <1>1, <1>2 DEF ImportOK
<1>4. PICK b \in Nat \ {0} : b = Batch
  BY TableAssumption
<1>5. k % b = 0
  <2>1. k = L \/ k % Batch = 0
    BY <1>1, <1>2 DEF ImportHonest
  <2> QED
    BY <1>3, <1>4, <2>1
<1>6. BatchEnd = IF k + b < L THEN k + b ELSE L
  <2>1. import.next + Batch - 1 = k + b
    BY <1>3, <1>4
  <2> QED
    BY <1>2, <2>1 DEF BatchEnd
<1>7. PICK m \in Nat \ {0} : BatchEnd = k + m
  <2>1. (IF k + b < L THEN k + b ELSE L) - k \in Nat \ {0}
    BY <1>3
  <2>2. (IF k + b < L THEN k + b ELSE L) = k + ((IF k + b < L THEN k + b ELSE L) - k)
    OBVIOUS
  <2> QED
    BY <1>6, <2>1, <2>2
<1>8. k + m <= L /\ (k + m = L \/ m = b)
  BY <1>6, <1>7
<1>9. k + m = L \/ (k + m) % Batch = 0
  <2>1. (k + b) % b = 0
    BY <1>5, Multiple
  <2> QED
    BY <1>4, <1>8, <2>1
<1>10. import.rows \in Seq(CsvValues)
  BY DEF ImportOK, Imports
<1>11. /\ DOMAIN Stored = 1..m
       /\ \A i \in 1..m : Stored[i] = Store(import.rows[k + i], import.type)
  <2>1. BatchEnd - import.next + 1 = m
    BY <1>3, <1>7
  <2>2. \A i \in 1..m : import.next + i - 1 = k + i
    BY <1>3
  <2> QED
    BY <2>1, <2>2 DEF Stored
<1>12. ASSUME NEW i \in 1..m
       PROVE  /\ Stored[i] \in CsvValues \cup {"rounded"}
              /\ \/ Stored[i] = import.rows[k + i]
                 \/ /\ import.rows[k + i] = "real" /\ Stored[i] = "rounded"
                    /\ coltype = "INTEGER" /\ strict
  <2>1. k + i \in 1..L
    BY <1>8
  <2>2. PICK v \in CsvValues : v = import.rows[k + i]
    BY <1>2, <1>10, <2>1
  <2>3. PICK t : t = import.type
    OBVIOUS
  <2>4. Stored[i] = Store(v, t)
    BY <1>11, <2>2, <2>3
  <2>5. Stored[i] # "refused"
    BY <1>11 DEF Accepted, ToSet
  <2> QED
    BY <2>2, <2>4, <2>5, StoreLaw
<1>13. Stored \in Seq(CsvValues \cup {"rounded"}) /\ Len(Stored) = m
  <2>1. Stored = [i \in 1..m |-> Stored[i]]
    <3>1. Stored = [i \in DOMAIN Stored |-> Stored[i]]
      BY DEF Stored
    <3> QED
      BY <1>11, <3>1
  <2>2. Stored \in [1..m -> CsvValues \cup {"rounded"}]
    BY <1>12, <2>1
  <2> QED
    BY <2>2
<1> QED
  BY <1>1, <1>2, <1>7, <1>8, <1>9, <1>12, <1>13

\* The numbers that the rows of a batch get are new, one for each.
LEMMA NewNumbers ==
    ASSUME NEW n \in Nat, NEW m \in Nat
    PROVE  LET u == [i \in 1..m |-> n + i - 1] IN
           /\ u \in Seq(Nat) /\ Distinct(u)
           /\ \A r \in ToSet(u) : r \in Nat /\ r >= n /\ r < n + m
<1> DEFINE u == [i \in 1..m |-> n + i - 1]
<1>1. DOMAIN u = 1..m /\ \A i \in 1..m : u[i] = n + i - 1 /\ u[i] \in Nat /\ u[i] >= n /\ u[i] < n + m
  OBVIOUS
<1>2. u \in Seq(Nat) /\ Len(u) = m
  <2>1. u \in [1..m -> Nat]
    BY <1>1
  <2> HIDE DEF u
  <2> QED
    BY <1>1, <2>1
<1> HIDE DEF u
<1>3. Distinct(u)
  BY <1>1, <1>2 DEF Distinct
<1>4. \A r \in ToSet(u) : r \in Nat /\ r >= n /\ r < n + m
  BY <1>1 DEF ToSet
<1> QED
  BY <1>2, <1>3, <1>4 DEF u

\* A batch of an import.
LEMMA BatchImport ==
    ASSUME TableIInv, NEW now \in {"insert", "empty"}, BatchLands(now)
    PROVE  /\ ImportOK' /\ TypeBySuffix' /\ ImportHonest'
           /\ Len(import'.landed) = Len(import.landed) + Len(Stored)
<1>1. /\ ImportOK /\ ImportHonest /\ TypeBySuffix
      /\ import.at = "insert" /\ import.next <= Len(import.rows) /\ Accepted
      /\ UNCHANGED <<strict, coltype>>
      /\ import' = [import EXCEPT !.at = now, !.next = BatchEnd + 1, !.landed = import.landed \o Stored,
                                  !.said = BatchEnd]
  BY DEF TableIInv, BatchLands
<1>2. PICK m \in Nat \ {0} :
        /\ Len(Stored) = m /\ Stored \in Seq(CsvValues \cup {"rounded"})
        /\ BatchEnd = Len(import.landed) + m /\ BatchEnd <= Len(import.rows)
        /\ BatchEnd = Len(import.rows) \/ BatchEnd % Batch = 0
        /\ \A i \in 1..m :
             \/ Stored[i] = import.rows[Len(import.landed) + i]
             \/ /\ import.rows[Len(import.landed) + i] = "real" /\ Stored[i] = "rounded"
                /\ coltype = "INTEGER" /\ strict
  BY <1>1, BatchLaw
<1>3. import \in Imports
  BY <1>1 DEF ImportOK
<1>4. PICK s : s = Stored
  OBVIOUS
<1>5. PICK l \in Seq(CsvValues \cup {"rounded"}) : l = import.landed
  BY <1>3 DEF Imports
<1>6. PICK e : e = BatchEnd
  OBVIOUS
<1>7. PICK k \in Nat : k = Len(l)
  BY <1>5
<1>8. e = k + m /\ e \in Nat /\ s \in Seq(CsvValues \cup {"rounded"}) /\ Len(s) = m
  BY <1>2, <1>4, <1>5, <1>6, <1>7
<1>9. PICK g \in Seq(CsvValues \cup {"rounded"}) :
        /\ g = l \o s /\ Len(g) = e
        /\ \A i \in 1..e : g[i] = IF i <= k THEN l[i] ELSE s[i - k]
  <2>1. /\ l \o s \in Seq(CsvValues \cup {"rounded"}) /\ Len(l \o s) = k + m
        /\ \A i \in 1..(k + m) : (l \o s)[i] = IF i <= k THEN l[i] ELSE s[i - k]
    <3>1. PICK S : S = CsvValues \cup {"rounded"}
      OBVIOUS
    <3>2. l \in Seq(S) /\ s \in Seq(S) /\ Len(l) = k /\ Len(s) = m
      BY <1>5, <1>7, <1>8, <3>1
    <3>3. /\ l \o s \in Seq(S) /\ Len(l \o s) = k + m
          /\ \A i \in 1..(k + m) : (l \o s)[i] = IF i <= k THEN l[i] ELSE s[i - k]
      BY <3>2, Joined
    <3> QED
      BY <3>1, <3>3
  <2> QED
    BY <1>8, <2>1
<1>10. import' = [import EXCEPT !.at = now, !.next = e + 1, !.landed = g, !.said = e]
  BY <1>1, <1>4, <1>5, <1>6, <1>9
<1>11. /\ import'.at = now /\ import'.next = e + 1 /\ import'.landed = g /\ import'.said = e
       /\ import'.rows = import.rows /\ import'.type = import.type
       /\ import' \in Imports
  <2>1. e + 1 \in Nat
    BY <1>8
  <2>2. PICK V, W : V = Seq(CsvValues) /\ W = Seq(CsvValues \cup {"rounded"})
    OBVIOUS
  <2>3. PICK A : A = {"none", "create", "insert", "created", "bad request", "error", "empty"}
    OBVIOUS
  <2>9. now \in A
    BY <2>3
  <2>4. /\ import \in [at : A, rows : V, type : Types, next : Nat, landed : W, said : Nat]
        /\ g \in W /\ now \in A
    BY <1>3, <1>9, <2>2, <2>3, <2>9 DEF Imports
  <2>5. import' \in [at : A, rows : V, type : Types, next : Nat, landed : W, said : Nat]
    BY <1>8, <1>10, <2>1, <2>4
  <2>6. /\ import'.at = now /\ import'.next = e + 1 /\ import'.landed = g /\ import'.said = e
        /\ import'.rows = import.rows /\ import'.type = import.type
    BY <1>10, <2>4
  <2> QED
    BY <2>2, <2>3, <2>5, <2>6 DEF Imports
<1>12. ImportOK'
  BY <1>2, <1>6, <1>9, <1>11 DEF ImportOK
<1>13. TypeBySuffix'
  BY <1>1, <1>11 DEF TypeBySuffix
<1>14. ASSUME NEW i \in 1..e
       PROVE  \/ g[i] = import.rows[i]
              \/ import.rows[i] = "real" /\ g[i] = "rounded" /\ coltype = "INTEGER" /\ strict
  <2>1. CASE i <= k
    <3>1. i \in 1..k
      BY <1>8, <2>1
    <3>2. \/ l[i] = import.rows[i]
          \/ import.rows[i] = "real" /\ l[i] = "rounded" /\ coltype = "INTEGER" /\ strict
      BY <1>1, <1>5, <1>7, <3>1 DEF ImportHonest
    <3> QED
      BY <1>9, <2>1, <3>2
  <2>2. CASE ~(i <= k)
    <3>1. i - k \in 1..m /\ k + (i - k) = i
      BY <1>8, <2>2
    <3>2. PICK j : j = i - k
      OBVIOUS
    <3>3. \/ s[j] = import.rows[k + j]
          \/ import.rows[k + j] = "real" /\ s[j] = "rounded" /\ coltype = "INTEGER" /\ strict
      BY <1>2, <1>4, <1>5, <1>7, <3>1, <3>2
    <3> QED
      BY <1>9, <2>2, <3>1, <3>2, <3>3
  <2> QED
    BY <2>1, <2>2
<1>15. ImportHonest'
  <2>1. e = Len(import.rows) \/ e % Batch = 0
    BY <1>2, <1>6
  <2>2. now # "created"
    OBVIOUS
  <2> QED
    BY <1>1, <1>9, <1>11, <1>14, <2>1, <2>2 DEF ImportHonest
<1> QED
  BY <1>2, <1>5, <1>7, <1>8, <1>9, <1>11, <1>12, <1>13, <1>15

\* The rows of a batch come last.
LEMMA BatchLandsInv ==
    ASSUME TableIInv, NEW now \in {"insert", "empty"}, BatchLands(now) PROVE TableIInv'
<1>1. /\ listing' = listing \o [i \in 1..Len(Stored) |-> NewRow + i - 1]
      /\ Noted("added", Len(Stored)) /\ UNCHANGED <<strict, coltype, edits, plan>>
  BY DEF BatchLands
<1>2. PICK m \in Nat : m = Len(Stored)
  <2>1. ImportOK /\ ImportHonest /\ import.at = "insert" /\ import.next <= Len(import.rows) /\ Accepted
    BY DEF TableIInv, BatchLands
  <2> QED
    BY <2>1, BatchLaw
<1>3. PICK n \in Nat : n = NewRow
  BY FreshRow
<1>4. /\ \A r : r >= n => r \notin walk.start /\ r \notin ToSet(walk.seen) /\ r \notin ToSet(listing)
  BY <1>3, FreshRow
<1>5. PICK u \in Seq(Nat) : /\ u = [i \in 1..m |-> n + i - 1] /\ Distinct(u)
                            /\ \A r \in ToSet(u) : r \in Nat /\ r >= n /\ r < n + m
  BY NewNumbers
<1>6. walk \in Walks /\ WalkOK /\ listing \in Seq(Nat) /\ Distinct(listing)
  BY DEF TableIInv, WalkOK, ListingOK
<1>7. PICK X : X = ToSet(u)
  OBVIOUS
<1>8. /\ Rebuilt(listing, listing', X) /\ FrontKept(listing, listing', X)
      /\ BackKept(listing, listing', X)
  <2>1. listing' = listing \o u
    BY <1>1, <1>2, <1>3, <1>5
  <2>2. ToSet(listing) \cap ToSet(u) = {}
    BY <1>4, <1>5
  <2> QED
    BY <1>5, <1>6, <1>7, <2>1, <2>2, ExtendedList
<1>9. /\ walk' \in Walks
      /\ walk'.at = walk.at /\ walk'.page = walk.page /\ walk'.per = walk.per
      /\ walk'.start = walk.start /\ walk'.seen = walk.seen /\ walk'.blind = walk.blind
      /\ walk'.gone + walk'.moved >= walk.gone + walk.moved
      /\ walk'.added + walk'.moved >= walk.added + walk.moved
  <2>1. "added" \in {"added", "gone", "moved"} /\ Noted("added", m)
    BY <1>1, <1>2
  <2> QED
    BY <1>6, <2>1, NotedLaw
<1>10. WalkOK'
  <2>1. walk.at \in {"page", "count"} => Moderate(X)
    BY <1>8 DEF Moderate
  <2>2. \A r \in X : r \notin walk.start /\ r \notin ToSet(walk.seen)
    BY <1>4, <1>5, <1>7
  <2> QED
    BY <1>6, <1>8, <1>9, <2>1, <2>2, ListChanged
<1>11. /\ ImportOK' /\ TypeBySuffix' /\ ImportHonest'
       /\ Len(import'.landed) = Len(import.landed) + m
  BY <1>2, BatchImport
<1>12. ListingOK'
  <2>1. NewRow' = n + m
    <3>1. PICK k \in Nat : k = Len(import.landed)
      BY DEF TableIInv, ImportOK, Imports
    <3>2. edits \in Nat /\ FirstRows \in Nat
      BY FreshRow, TableAssumption
    <3>3. NewRow = 1 + k + FirstRows + edits /\ NewRow' = 1 + (k + m) + FirstRows + edits
      BY <1>1, <1>11, <3>1 DEF NewRow
    <3> QED
      BY <1>3, <3>2, <3>3
  <2>2. \A r \in ToSet(listing) \cup walk.start \cup ToSet(walk.seen) : r < n /\ r \in Nat
    <3>1. ToSet(listing) \subseteq Nat /\ ToSet(walk.seen) \subseteq Nat /\ walk.start \subseteq Nat
      BY <1>6 DEF ToSet, Walks
    <3> QED
      BY <1>3, <3>1 DEF TableIInv, ListingOK
  <2>3. \A r \in ToSet(listing') \cup walk'.start \cup ToSet(walk'.seen) : r < n + m
    <3>1. ToSet(listing') \subseteq ToSet(listing) \cup X
      BY <1>8 DEF Rebuilt
    <3>2. \A r \in X : r \in Nat /\ r < n + m
      BY <1>5, <1>7
    <3>3. \A r \in Nat : r < n => r < n + m
      BY <1>2, <1>3
    <3>4. walk'.start = walk.start /\ walk'.seen = walk.seen
      BY <1>9
    <3> QED
      BY <2>2, <3>1, <3>2, <3>3, <3>4
  <2> QED
    BY <1>8, <2>1, <2>3 DEF ListingOK, Rebuilt
<1>13. TableTypeOK'
  <2>1. walk'.at \in {"none", "page", "count", "ended"} /\ walk'.per \in 1..MaxPerPage
    BY <1>9 DEF Walks
  <2>2. import'.at \in {"none", "create", "insert", "created", "bad request", "error", "empty"}
    BY <1>11 DEF ImportOK, Imports
  <2> QED
    BY <1>1, <2>1, <2>2 DEF TableIInv, TableTypeOK
<1> QED
  BY <1>10, <1>11, <1>12, <1>13 DEF TableIInv

\* What a step of the import that puts in no rows leaves.
LEMMA ImportStep ==
    ASSUME TableIInv, UNCHANGED <<strict, listing, walk, edits, plan>>,
           coltype' \in {"none", "TEXT", "INTEGER", "REAL"}, Len(import'.landed) = Len(import.landed),
           ImportOK', TypeBySuffix', ImportHonest'
    PROVE  TableIInv'
<1>1. NewRow' = NewRow /\ Offset' = Offset
  BY DEF NewRow, Offset
<1>2. ListingOK'
  BY <1>1 DEF TableIInv, ListingOK
<1>3. WalkOK'
  BY <1>1 DEF TableIInv, WalkOK, Missed
<1>4. import'.at \in {"none", "create", "insert", "created", "bad request", "error", "empty"}
  BY DEF ImportOK, Imports
<1>5. TableTypeOK'
  BY <1>4 DEF TableIInv, TableTypeOK
<1> QED
  BY <1>2, <1>3, <1>5 DEF TableIInv

\* An import that only changes where it is; landed is empty before the inserts.
LEMMA ImportMoves ==
    ASSUME TableIInv, NEW now \in {"insert", "error", "empty", "created"},
           import' = [import EXCEPT !.at = now],
           now \in {"insert", "error"} => import.at = "create",
           now \in {"empty", "created"} => import.at = "insert",
           now = "created" => import.next > Len(import.rows),
           strict' = strict, import.at # "create" => coltype' = coltype
    PROVE  ImportOK' /\ TypeBySuffix' /\ ImportHonest' /\ Len(import'.landed) = Len(import.landed)
<1>1. /\ import \in Imports /\ import.next = Len(import.landed) + 1 /\ import.said = Len(import.landed)
      /\ Len(import.landed) <= Len(import.rows)
      /\ import.at = "create" => import.landed = <<>>
  BY DEF TableIInv, ImportOK
<1>2. /\ import'.at = now /\ import'.next = import.next /\ import'.landed = import.landed
      /\ import'.said = import.said /\ import'.rows = import.rows /\ import'.type = import.type
  BY <1>1 DEF Imports
<1>3. import' \in Imports
  <2>1. now \in {"none", "create", "insert", "created", "bad request", "error", "empty"}
    OBVIOUS
  <2> QED
    BY <1>1, <2>1 DEF Imports
<1>4. now = "error" => import.landed = <<>>
  BY <1>1
<1>5. ImportOK'
  BY <1>1, <1>2, <1>3, <1>4 DEF ImportOK
<1>6. TypeBySuffix'
  BY <1>2 DEF TableIInv, TypeBySuffix
<1>7. ImportHonest'
  <2>1. ImportHonest
    BY DEF TableIInv
  <2>2. CASE import.at = "create"
    <3>1. Len(import.landed) = 0 /\ now # "created"
      BY <1>1, <2>2
    <3>2. 0 % Batch = 0 /\ 1..0 = {}
      BY TableAssumption
    <3> QED
      BY <1>2, <3>1, <3>2 DEF ImportHonest
  <2>3. CASE import.at # "create"
    <3>1. coltype' = coltype
      BY <2>3
    <3>2. now = "created" => Len(import.landed) = Len(import.rows) /\ import.said = Len(import.landed)
      <4>1. PICK k \in Nat : k = Len(import.landed)
        BY <1>1 DEF Imports
      <4>2. Len(import.rows) \in Nat
        <5>1. import.rows \in Seq(CsvValues)
          BY <1>1 DEF Imports
        <5> QED
          BY <5>1
      <4> QED
        BY <1>1, <4>1, <4>2
    <3> QED
      BY <1>2, <2>1, <3>1, <3>2 DEF ImportHonest
  <2> QED
    BY <2>2, <2>3
<1> QED
  BY <1>2, <1>5, <1>6, <1>7

\* The steps of an import around its batches.
LEMMA ImportStepsInv ==
    ASSUME TableIInv, CreateTable \/ CreateFails \/ InsertFails \/ ImportAnswered
    PROVE  TableIInv'
<1>1. coltype \in {"none", "TEXT", "INTEGER", "REAL"} /\ import.type \in Types
  BY DEF TableIInv, TableTypeOK, ImportOK, Imports
<1>2. CASE CreateTable
  <2>1. /\ import.at = "create" /\ import' = [import EXCEPT !.at = "insert"]
        /\ UNCHANGED <<strict, listing, walk, edits, plan>>
        /\ coltype' = IF coltype = "none" THEN import.type ELSE coltype
    BY <1>2 DEF CreateTable
  <2>2. coltype' \in {"none", "TEXT", "INTEGER", "REAL"}
    BY <1>1, <2>1 DEF Types
  <2>3. /\ "insert" \in {"insert", "error", "empty", "created"} /\ "insert" \notin {"empty", "created"}
    OBVIOUS
  <2>4. ImportOK' /\ TypeBySuffix' /\ ImportHonest' /\ Len(import'.landed) = Len(import.landed)
    BY <2>1, <2>3, ImportMoves
  <2> QED
    BY <2>1, <2>2, <2>4, ImportStep
<1>3. CASE CreateFails
  <2>1. /\ import.at = "create" /\ import' = [import EXCEPT !.at = "error"]
        /\ UNCHANGED <<strict, coltype, listing, walk, edits, plan>>
    BY <1>3 DEF CreateFails
  <2>2. /\ "error" \in {"insert", "error", "empty", "created"} /\ "error" \notin {"empty", "created"}
    OBVIOUS
  <2>3. ImportOK' /\ TypeBySuffix' /\ ImportHonest' /\ Len(import'.landed) = Len(import.landed)
    BY <2>1, <2>2, ImportMoves
  <2> QED
    BY <1>1, <2>1, <2>3, ImportStep
<1>4. CASE InsertFails
  <2>1. /\ import.at = "insert" /\ import' = [import EXCEPT !.at = "empty"]
        /\ UNCHANGED <<strict, coltype, listing, walk, edits, plan>>
    BY <1>4 DEF InsertFails
  <2>2. /\ "empty" \in {"insert", "error", "empty", "created"} /\ "empty" \notin {"insert", "error"}
        /\ "empty" # "created"
    OBVIOUS
  <2>3. ImportOK' /\ TypeBySuffix' /\ ImportHonest' /\ Len(import'.landed) = Len(import.landed)
    BY <2>1, <2>2, ImportMoves
  <2> QED
    BY <1>1, <2>1, <2>3, ImportStep
<1>5. CASE ImportAnswered
  <2>1. /\ import.at = "insert" /\ import' = [import EXCEPT !.at = "created"]
        /\ import.next > Len(import.rows)
        /\ UNCHANGED <<strict, coltype, listing, walk, edits, plan>>
    BY <1>5 DEF ImportAnswered
  <2>2. "created" \in {"insert", "error", "empty", "created"} /\ "created" \notin {"insert", "error"}
    OBVIOUS
  <2>3. ImportOK' /\ TypeBySuffix' /\ ImportHonest' /\ Len(import'.landed) = Len(import.landed)
    BY <2>1, <2>2, ImportMoves
  <2> QED
    BY <1>1, <2>1, <2>3, ImportStep
<1> QED
  BY <1>2, <1>3, <1>4, <1>5

\* The files of a behaviour are sequences of values and of bad lines.
LEMMA PlanFiles == \A p \in Plans : \A f \in p.files : f \in Seq(CsvValues \cup {"bad"})
  BY TableAssumption

\* An import begins: it reads the file and infers a type.
LEMMA ImportBeginInv ==
    ASSUME TableIInv, NEW f \in Seq(CsvValues \cup {"bad"}), NEW c, ImportBegin(f, c) PROVE TableIInv'
<1>2. PICK vs \in Seq(CsvValues) : vs = Parsed(f)
  BY ParsedValues
<1>3. PICK t : t = inferTypes(vs)
  OBVIOUS
<1>4. PICK now :
        /\ now = "insert" \/ now = "create" \/ now = "bad request"
        /\ import' = [NoImport EXCEPT !.at = now, !.rows = vs, !.type = t]
        /\ import.at = "none" /\ UNCHANGED <<strict, coltype, listing, walk, edits, plan>>
  BY <1>2, <1>3 DEF ImportBegin
<1>5. t \in Types
  BY <1>2, <1>3, InferLaw
<1>6. /\ import'.at = now /\ import'.rows = vs /\ import'.type = t /\ import'.next = 1
      /\ import'.landed = <<>> /\ import'.said = 0
  BY <1>4 DEF NoImport
<1>7. import' \in Imports
  <2>1. PICK V, W : V = Seq(CsvValues) /\ W = Seq(CsvValues \cup {"rounded"})
    OBVIOUS
  <2>2. PICK A : A = {"none", "create", "insert", "created", "bad request", "error", "empty"}
    OBVIOUS
  <2>3. now \in A
    BY <1>4, <2>2
  <2>4. vs \in V /\ <<>> \in W
    BY <1>2, <2>1
  <2>5. import' = [at |-> now, rows |-> vs, type |-> t, next |-> 1, landed |-> <<>>, said |-> 0]
    BY <1>4 DEF NoImport
  <2>6. import' \in [at : A, rows : V, type : Types, next : Nat, landed : W, said : Nat]
    BY <1>5, <2>3, <2>4, <2>5
  <2> QED
    BY <2>1, <2>2, <2>6 DEF Imports
<1>8. Len(vs) \in Nat
  BY <1>2
<1>9. ImportOK'
  <2>1. /\ import'.next = Len(import'.landed) + 1 /\ import'.said = Len(import'.landed)
        /\ Len(import'.landed) <= Len(import'.rows)
    BY <1>6, <1>8
  <2> QED
    BY <1>4, <1>6, <1>7, <2>1 DEF ImportOK
<1>10. TypeBySuffix'
  <2>1. LET Rest == {i \in 1..Len(vs) : vs[i] # "null" /\ \A j \in i..Len(vs) : vs[j] # "text"} IN
        t = IF Rest = {} THEN "TEXT" ELSE IF \E i \in Rest : vs[i] # "int" THEN "REAL" ELSE "INTEGER"
    BY <1>2, <1>3, InferLaw
  <2>2. PICK r, y : r = import'.rows /\ y = import'.type
    OBVIOUS
  <2>3. r = vs /\ y = t
    BY <1>6, <2>2
  <2>4. LET Rest == {i \in 1..Len(r) : r[i] # "null" /\ \A j \in i..Len(r) : r[j] # "text"} IN
        y = IF Rest = {} THEN "TEXT" ELSE IF \E i \in Rest : r[i] # "int" THEN "REAL" ELSE "INTEGER"
    BY <2>1, <2>3
  <2> QED
    BY <2>2, <2>4 DEF TypeBySuffix
<1>11. ImportHonest'
  <2>1. 0 % Batch = 0
    BY TableAssumption
  <2>3. 1..0 = {} /\ Len(<< >>) = 0
    OBVIOUS
  <2>2. now # "created"
    BY <1>4
  <2> QED
    BY <1>6, <2>1, <2>2, <2>3 DEF ImportHonest
<1>12. Len(import'.landed) = Len(import.landed)
  BY <1>4, <1>6 DEF TableIInv, ImportOK
<1>13. coltype' \in {"none", "TEXT", "INTEGER", "REAL"}
  BY <1>4 DEF TableIInv, TableTypeOK
<1> QED
  BY <1>4, <1>9, <1>10, <1>11, <1>12, <1>13, ImportStep

-----------------------------------------------------------------------------
(* The walk through the pages.                                               *)

\* What a step of a walk leaves of the rest.
LEMMA WalkStep ==
    ASSUME TableIInv, UNCHANGED <<strict, coltype, listing, import, edits, plan>>,
           walk' \in Walks, WalkOK',
           \A r \in walk'.start \cup ToSet(walk'.seen) : r \in ToSet(listing) \cup walk.start \cup ToSet(walk.seen)
    PROVE  TableIInv'
<1>1. NewRow' = NewRow
  BY DEF NewRow
<1>2. ListingOK'
  <2>1. \A r \in ToSet(listing') \cup walk'.start \cup ToSet(walk'.seen) :
          r \in ToSet(listing) \cup walk.start \cup ToSet(walk.seen)
    OBVIOUS
  <2> QED
    BY <1>1, <2>1 DEF TableIInv, ListingOK
<1>3. walk'.at \in {"none", "page", "count", "ended"} /\ walk'.per \in 1..MaxPerPage
  BY DEF Walks
<1>4. TableTypeOK'
  BY <1>3 DEF TableIInv, TableTypeOK
<1> QED
  BY <1>2, <1>4, ImportKept DEF TableIInv

\* A walk begins in front of all rows.
LEMMA WalkBeginInv == ASSUME TableIInv, NEW per, per \in Int, WalkBegin(per) PROVE TableIInv'
<1>1. PICK n : n = PageSize(per)
  OBVIOUS
<1>2. n \in 1..MaxPerPage /\ n \in Nat
  BY <1>1, TableAssumption DEF PageSize
<1>3. /\ walk.at = "none" /\ UNCHANGED <<strict, coltype, listing, import, edits, plan>>
      /\ walk' = [NoWalk EXCEPT !.at = "page", !.per = n, !.start = ToSet(listing)]
  BY <1>1 DEF WalkBegin
<1>4. listing \in Seq(Nat)
  BY DEF TableIInv, ListingOK
<1>5. PICK S : S = ToSet(listing)
  OBVIOUS
<1>6. S \subseteq Nat /\ IsFiniteSet(S)
  BY <1>4, <1>5, Occurring DEF ToSet
<1>7. walk' = [at |-> "page", page |-> 1, per |-> n, pages |-> 0, start |-> S, seen |-> << >>,
               added |-> 0, gone |-> 0, moved |-> 0, blind |-> FALSE]
  BY <1>3, <1>5 DEF NoWalk
<1>8. /\ walk'.at = "page" /\ walk'.page = 1 /\ walk'.per = n /\ walk'.start = S /\ walk'.seen = << >>
      /\ walk'.added = 0 /\ walk'.gone = 0 /\ walk'.moved = 0 /\ walk'.blind = FALSE
  BY <1>7
<1>9. walk' \in Walks
  <2>1. PICK W, T : W = Seq(Nat) /\ T = SUBSET Nat
    OBVIOUS
  <2>2. << >> \in W /\ S \in T /\ 1 \in Nat \ {0} /\ 0 \in Nat /\ FALSE \in BOOLEAN
    BY <1>6, <2>1
  <2>3. PICK A, P : A = {"none", "page", "count", "ended"} /\ P = Nat \ {0}
    OBVIOUS
  <2>4. "page" \in A /\ 1 \in P
    BY <2>3
  <2>5. walk' \in [at : A, page : P, per : 1..MaxPerPage, pages : Nat, start : T, seen : W,
                   added : Nat, gone : Nat, moved : Nat, blind : BOOLEAN]
    BY <1>2, <1>7, <2>2, <2>4
  <2> QED
    BY <2>1, <2>3, <2>5 DEF Walks
<1>10. ToSet(walk'.seen) = {} /\ Len(walk'.seen) = 0
  BY <1>8 DEF ToSet
<1>11. Offset' = 0
  <2>1. (1 - 1) * n = 0
    BY <1>2
  <2> QED
    BY <1>8, <2>1 DEF Offset
<1>12. Cardinality({}) = 0
  BY FS_EmptySet
<1>13. WalkOK'
  <2>1. InFront(listing', 0) = {}
    BY <1>3, <1>4, FrontAndBack
  <2>2. Missed(InFront(listing, Offset))' = {}
    BY <1>11, <2>1 DEF Missed
  <2>3. (ToSet(walk.seen) \cap Behind(listing, Offset))' = {}
    BY <1>10
  <2>4. Cardinality(ToSet(walk'.seen)) = 0
    BY <1>10, <1>12
  <2>5. Cardinality(Missed(InFront(listing, Offset))') = 0
    BY <1>12, <2>2
  <2>6. Cardinality(ToSet(walk'.seen) \cap Behind(listing, Offset)') = 0
    BY <1>12, <2>3
  <2>7. 0 <= walk'.gone + walk'.moved /\ 0 - 0 + 0 <= walk'.added + walk'.moved
    BY <1>8
  <2>8. IsFiniteSet(walk'.start)
    BY <1>6, <1>8
  <2> QED
    BY <1>8, <1>9, <1>10, <2>4, <2>5, <2>6, <2>7, <2>8 DEF WalkOK
<1>14. \A r \in walk'.start \cup ToSet(walk'.seen) : r \in ToSet(listing) \cup walk.start \cup ToSet(walk.seen)
  BY <1>5, <1>8, <1>10
<1> QED
  BY <1>3, <1>9, <1>13, <1>14, WalkStep

\* What a page adds to the accounts of rows shown twice: U are the rows of the
\* page, B those behind its start and C those behind its end.
LEMMA PageAccount ==
    ASSUME NEW sn, NEW U, IsFiniteSet(sn), IsFiniteSet(U), NEW B, NEW C,
           U \subseteq B, C \subseteq B \ U, NEW l \in Nat
    PROVE  /\ Cardinality(sn \cup U) \in Nat
           /\ l + Cardinality(U) - Cardinality(sn \cup U) + Cardinality((sn \cup U) \cap C)
                 <= l - Cardinality(sn) + Cardinality(sn \cap B)
<1>1. IsFiniteSet(sn \cap U) /\ IsFiniteSet(sn \cap B) /\ IsFiniteSet(sn \cap C)
  BY FS_Subset
<1>2. (sn \cup U) \cap C = sn \cap C /\ (sn \cap U) \cap (sn \cap C) = {}
      /\ (sn \cap U) \cup (sn \cap C) \subseteq sn \cap B
  OBVIOUS
<1>3. PICK D, E, F : D = sn \cap U /\ E = sn \cap C /\ F = sn \cap B
  OBVIOUS
<1>4. IsFiniteSet(D) /\ IsFiniteSet(E) /\ IsFiniteSet(F) /\ D \cap E = {} /\ D \cup E \subseteq F
  BY <1>1, <1>2, <1>3
<1>5. Cardinality(D \cup E) <= Cardinality(F) /\ Cardinality(D \cup E) = Cardinality(D) + Cardinality(E)
  <2>1. IsFiniteSet(D \cup E) /\ Cardinality(D \cup E) = Cardinality(D) + Cardinality(E) - Cardinality(D \cap E)
    BY <1>4, FS_Union
  <2>2. Cardinality(D \cap E) = 0
    BY <1>4, FS_EmptySet
  <2>3. Cardinality(D) \in Nat /\ Cardinality(E) \in Nat
    BY <1>4, FS_CardinalityType
  <2> QED
    BY <1>4, <2>1, <2>2, <2>3, FS_Subset
<1>6. Cardinality(sn \cup U) = Cardinality(sn) + Cardinality(U) - Cardinality(D) /\ IsFiniteSet(sn \cup U)
  BY <1>3, FS_Union
<1>7. PICK d \in Nat, e \in Nat, f \in Nat, a \in Nat, u \in Nat, z \in Nat :
        /\ d = Cardinality(D) /\ e = Cardinality(E) /\ f = Cardinality(F)
        /\ a = Cardinality(sn) /\ u = Cardinality(U) /\ z = Cardinality(sn \cup U)
  BY <1>4, <1>6, FS_CardinalityType
<1>8. d + e <= f /\ z = a + u - d
  BY <1>5, <1>6, <1>7
<1>9. l + u - z + e <= l - a + f
  BY <1>8
<1> QED
  BY <1>2, <1>3, <1>7, <1>9

\* A page: the walk goes on behind its rows.
LEMMA PageQueryInv == ASSUME TableIInv, PageQuery PROVE TableIInv'
<1>1. /\ walk.at = "page" /\ UNCHANGED <<strict, coltype, listing, import, edits, plan>>
      /\ listing \in Seq(Nat) /\ Distinct(listing) /\ walk \in Walks /\ IsFiniteSet(walk.start) /\ WalkOK
  BY DEF TableIInv, PageQuery, ListingOK, WalkOK
<1>2. PICK p \in Nat, n \in Nat : p = Offset /\ n = walk.per /\ walk.page * walk.per = p + n
  BY <1>1, OffsetLaw
<1>3. (walk.page - 1) * walk.per = p
  BY <1>1, <1>2 DEF Offset
<1>4. PICK u \in Seq(Nat) :
        /\ u = SubSeq(listing, p + 1, IF p + n < Len(listing) THEN p + n ELSE Len(listing))
        /\ Distinct(u) /\ ToSet(u) \subseteq ToSet(listing)
        /\ InFront(listing, p + n) \subseteq InFront(listing, p) \cup ToSet(u)
        /\ Behind(listing, p + n) \subseteq Behind(listing, p) \ ToSet(u)
        /\ ToSet(u) \subseteq Behind(listing, p)
  BY <1>1, PageOfList
<1>5. PICK s \in Seq(Nat) : s = walk.seen
  BY <1>1 DEF Walks
<1>6. PICK g \in Seq(Nat) : g = s \o u /\ Len(g) = Len(s) + Len(u) /\ ToSet(g) = ToSet(s) \cup ToSet(u)
  <2>1. PICK N : N = Nat
    OBVIOUS
  <2>2. s \in Seq(N) /\ u \in Seq(N)
    BY <1>4, <1>5, <2>1
  <2>3. s \o u \in Seq(N) /\ Len(s \o u) = Len(s) + Len(u)
    BY <2>2, Joined
  <2>4. ToSet(s \o u) = ToSet(s) \cup ToSet(u)
    <3>1. /\ \A j \in 1..(Len(s) + Len(u)) : (s \o u)[j] = IF j <= Len(s) THEN s[j] ELSE u[j - Len(s)]
      BY <2>2, Joined
    <3>2. PICK t : t = s \o u
      OBVIOUS
    <3>3. /\ DOMAIN t = 1..(Len(s) + Len(u)) /\ DOMAIN s = 1..Len(s) /\ DOMAIN u = 1..Len(u)
          /\ Len(s) \in Nat /\ Len(u) \in Nat
      BY <2>2, <2>3, <3>2
    <3>4. \A j \in DOMAIN t : t[j] \in ToSet(s) \cup ToSet(u)
      <4> SUFFICES ASSUME NEW j \in DOMAIN t PROVE t[j] \in ToSet(s) \cup ToSet(u)
        OBVIOUS
      <4>1. CASE j <= Len(s)
        <5>1. j \in DOMAIN s /\ t[j] = s[j]
          BY <3>1, <3>2, <3>3, <4>1
        <5> QED
          BY <5>1 DEF ToSet
      <4>2. CASE ~(j <= Len(s))
        <5>1. j - Len(s) \in DOMAIN u /\ t[j] = u[j - Len(s)]
          BY <3>1, <3>2, <3>3, <4>2
        <5> QED
          BY <5>1 DEF ToSet
      <4> QED
        BY <4>1, <4>2
    <3>5. \A j \in DOMAIN s : j \in DOMAIN t /\ t[j] = s[j]
      BY <3>1, <3>2, <3>3
    <3>6. \A j \in DOMAIN u : Len(s) + j \in DOMAIN t /\ t[Len(s) + j] = u[j]
      <4> TAKE j \in DOMAIN u
      <4>1. Len(s) + j \in DOMAIN t /\ ~(Len(s) + j <= Len(s)) /\ (Len(s) + j) - Len(s) = j
        BY <3>3
      <4> QED
        BY <3>1, <3>2, <3>3, <4>1
    <3>7. ToSet(t) \subseteq ToSet(s) \cup ToSet(u)
      <4>1. \A x \in ToSet(t) : \E j \in DOMAIN t : x = t[j]
        BY DEF ToSet
      <4> QED
        BY <3>4, <4>1
    <3>8. ToSet(s) \subseteq ToSet(t)
      BY <3>5 DEF ToSet
    <3>9. ToSet(u) \subseteq ToSet(t)
      BY <3>6 DEF ToSet
    <3> QED
      BY <3>2, <3>7, <3>8, <3>9
  <2> QED
    BY <2>1, <2>3, <2>4
<1>7. walk' = [walk EXCEPT !.at = "count", !.seen = g]
  BY <1>2, <1>3, <1>4, <1>5, <1>6 DEF PageQuery
<1>8. /\ walk'.at = "count" /\ walk'.seen = g /\ walk'.page = walk.page /\ walk'.per = walk.per
      /\ walk'.start = walk.start /\ walk'.blind = walk.blind
      /\ walk'.gone = walk.gone /\ walk'.added = walk.added /\ walk'.moved = walk.moved
  BY <1>1, <1>7 DEF Walks
<1>9. walk' \in Walks
  BY <1>1, <1>6, <1>7 DEF Walks
<1>10. Offset' = p + n
  BY <1>2, <1>8 DEF Offset
<1>11. PICK F, G, B, C : /\ F = InFront(listing, p) /\ G = InFront(listing, p + n)
                         /\ B = Behind(listing, p) /\ C = Behind(listing, p + n)
  OBVIOUS
<1>12. PICK S, U, st : S = ToSet(s) /\ U = ToSet(u) /\ st = walk.start
  OBVIOUS
<1>13. /\ IsFiniteSet(S) /\ IsFiniteSet(U) /\ Cardinality(U) = Len(u) /\ Len(s) \in Nat /\ IsFiniteSet(st)
       /\ Cardinality(S) \in Nat
  <2>1. IsFiniteSet(S) /\ Cardinality(S) \in Nat
    BY <1>5, <1>12, Occurring
  <2>2. IsFiniteSet(U) /\ Cardinality(U) = Len(u)
    BY <1>4, <1>12, Occurring
  <2>3. Len(s) \in Nat
    BY <1>5
  <2> QED
    BY <1>1, <1>12, <2>1, <2>2, <2>3
<1>14. /\ G \subseteq F \cup U /\ C \subseteq B \ U /\ U \subseteq B
  BY <1>4, <1>11, <1>12
<1>15. /\ Cardinality((st \cap F) \ S) <= walk.gone + walk.moved
       /\ Len(s) - Cardinality(S) + Cardinality(S \cap B) <= walk.added + walk.moved
  BY <1>1, <1>2, <1>5, <1>11, <1>12 DEF WalkOK, Missed
<1>16. walk.gone \in Nat /\ walk.moved \in Nat /\ walk.added \in Nat
  BY <1>1 DEF Walks
<1>17. Cardinality((st \cap G) \ (S \cup U)) <= walk.gone + walk.moved
  <2>1. PICK M, N : M = (st \cap F) \ S /\ N = (st \cap G) \ (S \cup U)
    OBVIOUS
  <2>2. N \subseteq M /\ M \subseteq st
    BY <1>14, <2>1
  <2>3. IsFiniteSet(M) /\ IsFiniteSet(N)
    BY <1>13, <2>2, FS_Subset
  <2>4. Cardinality(N) <= Cardinality(M) /\ Cardinality(M) \in Nat /\ Cardinality(N) \in Nat
    BY <2>2, <2>3, Smaller, FS_CardinalityType
  <2> QED
    BY <1>15, <1>16, <2>1, <2>4
<1>18. Len(g) - Cardinality(S \cup U) + Cardinality((S \cup U) \cap C) <= walk.added + walk.moved
  <2>1. PICK l \in Nat : l = Len(s)
    BY <1>13
  <2>2. /\ Cardinality(S \cup U) \in Nat
        /\ l + Cardinality(U) - Cardinality(S \cup U) + Cardinality((S \cup U) \cap C)
              <= l - Cardinality(S) + Cardinality(S \cap B)
    BY <1>13, <1>14, PageAccount
  <2>3. Cardinality(S \cap B) \in Nat /\ Cardinality((S \cup U) \cap C) \in Nat
    <3>1. IsFiniteSet(S \cup U)
      BY <1>13, FS_Union
    <3>2. IsFiniteSet(S \cap B) /\ IsFiniteSet((S \cup U) \cap C)
      BY <1>13, <3>1, FS_Subset
    <3> QED
      BY <3>2, FS_CardinalityType
  <2>4. PICK y \in Int : y = l - Cardinality(S) + Cardinality(S \cap B)
    BY <1>13, <2>3
  <2>5. PICK x \in Int : x = l + Cardinality(U) - Cardinality(S \cup U) + Cardinality((S \cup U) \cap C)
    <3>1. Cardinality(U) \in Nat
      BY <1>13, FS_CardinalityType
    <3> QED
      BY <2>2, <2>3, <3>1
  <2>6. x <= y /\ y <= walk.added + walk.moved /\ walk.added + walk.moved \in Int
    BY <1>15, <1>16, <2>1, <2>2, <2>4, <2>5
  <2>7. x <= walk.added + walk.moved
    BY <2>6
  <2>8. Len(g) = l + Cardinality(U)
    BY <1>6, <1>13, <2>1
  <2>9. Cardinality(U) \in Nat
    BY <1>13, FS_CardinalityType
  <2> QED
    BY <2>2, <2>3, <2>5, <2>7, <2>8, <2>9
<1>19. WalkOK'
  <2>1. ToSet(walk'.seen) = S \cup U /\ Len(walk'.seen) = Len(g)
    BY <1>6, <1>8, <1>12
  <2>2. Missed(InFront(listing, Offset))' = (st \cap G) \ (S \cup U)
    BY <1>1, <1>8, <1>10, <1>11, <1>12, <2>1 DEF Missed
  <2>3. Behind(listing, Offset)' = C
    BY <1>1, <1>10, <1>11
  <2> QED
    BY <1>1, <1>8, <1>9, <1>17, <1>18, <2>1, <2>2, <2>3 DEF WalkOK
<1>20. \A r \in walk'.start \cup ToSet(walk'.seen) : r \in ToSet(listing) \cup walk.start \cup ToSet(walk.seen)
  BY <1>4, <1>5, <1>6, <1>8
<1> QED
  BY <1>1, <1>9, <1>19, <1>20, WalkStep

\* So many pages hold all the rows.
LEMMA PagesHold ==
    ASSUME NEW n \in Nat, NEW b \in Nat \ {0}
    PROVE  /\ (n + b - 1) \div b \in Nat
           /\ \A p \in Nat : p >= (n + b - 1) \div b => p * b >= n
  OBVIOUS

\* A count: the walk goes on, or all rows are in front of where it ends.
LEMMA CountQueryInv == ASSUME TableIInv, CountQuery PROVE TableIInv'
<1>1. /\ walk.at = "count" /\ UNCHANGED <<strict, coltype, listing, import, edits, plan>>
      /\ listing \in Seq(Nat) /\ walk \in Walks /\ IsFiniteSet(walk.start) /\ WalkOK
  BY DEF TableIInv, CountQuery, ListingOK, WalkOK
<1>2. PICK p \in Nat \ {0}, b \in Nat \ {0} : p = walk.page /\ b = walk.per
  <2>1. walk.page \in Nat \ {0} /\ walk.per \in 1..MaxPerPage
    BY <1>1 DEF Walks
  <2>2. walk.per \in Nat \ {0}
    BY <2>1, TableAssumption
  <2> QED
    BY <2>1, <2>2
<1>3. PICK n \in Nat : n = Len(listing)
  BY <1>1
<1>4. PICK m \in Nat : m = (n + b - 1) \div b /\ (p >= m => p * b >= n)
  BY PagesHold
<1>5. walk' = IF p < m THEN [walk EXCEPT !.at = "page", !.page = p + 1, !.pages = m]
              ELSE [walk EXCEPT !.at = "ended", !.pages = m]
  BY <1>2, <1>3, <1>4 DEF CountQuery, Turned
<1>6. /\ walk'.seen = walk.seen /\ walk'.start = walk.start /\ walk'.blind = walk.blind /\ walk'.per = walk.per
      /\ walk'.gone = walk.gone /\ walk'.added = walk.added /\ walk'.moved = walk.moved
      /\ p < m => walk'.at = "page" /\ walk'.page = p + 1
      /\ ~(p < m) => walk'.at = "ended"
  BY <1>1, <1>5 DEF Walks
<1>7. walk' \in Walks
  <2>1. p + 1 \in Nat \ {0}
    OBVIOUS
  <2> QED
    BY <1>1, <1>5, <2>1 DEF Walks
<1>8. Offset = p * b /\ p * b \in Nat
  BY <1>1, <1>2 DEF Offset
<1>9. PICK sn, st : sn = ToSet(walk.seen) /\ st = walk.start
  OBVIOUS
<1>10. /\ Cardinality((st \cap InFront(listing, p * b)) \ sn) <= walk.gone + walk.moved
       /\ Len(walk.seen) - Cardinality(sn) + Cardinality(sn \cap Behind(listing, p * b))
             <= walk.added + walk.moved
  BY <1>1, <1>8, <1>9 DEF WalkOK, Missed
<1>11. WalkOK'
  <2>1. CASE p < m
    <3>1. Offset' = p * b
      <4>1. (p + 1) - 1 = p
        OBVIOUS
      <4> QED
        BY <1>2, <1>6, <2>1, <4>1 DEF Offset
    <3>2. Missed(InFront(listing, Offset))' = (st \cap InFront(listing, p * b)) \ sn
      BY <1>1, <1>6, <1>9, <3>1 DEF Missed
    <3>3. Behind(listing, Offset)' = Behind(listing, p * b)
      BY <1>1, <3>1
    <3> QED
      BY <1>1, <1>6, <1>7, <1>9, <1>10, <2>1, <3>2, <3>3 DEF WalkOK
  <2>2. CASE ~(p < m)
    <3>1. InFront(listing, p * b) = ToSet(listing)
      <4>1. p * b >= n /\ p * b \in Int
        BY <1>4, <2>2
      <4>2. Len(listing) <= p * b
        BY <1>3, <4>1
      <4> QED
        BY <1>1, <4>1, <4>2, FrontAndBack
    <3>2. Missed(ToSet(listing))' = (st \cap InFront(listing, p * b)) \ sn
      BY <1>1, <1>6, <1>9, <3>1 DEF Missed
    <3>3. Len(walk.seen) - Cardinality(sn) <= walk.added + walk.moved
      <4>1. /\ Cardinality(sn) \in Nat /\ Len(walk.seen) \in Nat
            /\ Cardinality(sn \cap Behind(listing, p * b)) \in Nat
            /\ walk.added \in Nat /\ walk.moved \in Nat
        BY <1>1, <1>9, WalkSets
      <4> QED
        BY <1>10, <4>1
    <3> QED
      BY <1>1, <1>6, <1>7, <1>9, <1>10, <2>2, <3>2, <3>3 DEF WalkOK
  <2> QED
    BY <2>1, <2>2
<1>12. \A r \in walk'.start \cup ToSet(walk'.seen) : r \in ToSet(listing) \cup walk.start \cup ToSet(walk.seen)
  BY <1>6
<1> QED
  BY <1>1, <1>7, <1>11, <1>12, WalkStep

\* A count that fails ends the walk, blind.
LEMMA CountFailsInv == ASSUME TableIInv, CountFails PROVE TableIInv'
<1>1. /\ walk.at = "count" /\ UNCHANGED <<strict, coltype, listing, import, edits, plan>>
      /\ walk' = [walk EXCEPT !.at = "ended", !.pages = 0, !.blind = TRUE]
      /\ walk \in Walks /\ IsFiniteSet(walk.start)
  BY DEF TableIInv, CountFails, WalkOK
<1>2. /\ walk'.seen = walk.seen /\ walk'.start = walk.start /\ walk'.blind = TRUE /\ walk'.at = "ended"
      /\ walk' \in Walks
  BY <1>1 DEF Walks
<1>3. WalkOK'
  BY <1>1, <1>2 DEF WalkOK
<1>4. \A r \in walk'.start \cup ToSet(walk'.seen) : r \in ToSet(listing) \cup walk.start \cup ToSet(walk.seen)
  BY <1>2
<1> QED
  BY <1>1, <1>2, <1>3, <1>4, WalkStep

\* The invariant holds at first.
LEMMA TableInitInv == ASSUME TableInit PROVE TableIInv
<1>1. /\ strict \in BOOLEAN /\ coltype \in {"none", "TEXT", "INTEGER"} /\ edits = 0 /\ plan \in Plans
      /\ listing = [i \in 1..FirstRows |-> i] /\ import = NoImport /\ walk = NoWalk
  BY DEF TableInit
<1>2. /\ import.at = "none" /\ import.rows = << >> /\ import.type = "TEXT" /\ import.next = 1
      /\ import.landed = << >> /\ import.said = 0
  BY <1>1 DEF NoImport
<1>3. /\ walk.at = "none" /\ walk.page = 1 /\ walk.per = 1 /\ walk.start = {} /\ walk.seen = << >>
  BY <1>1 DEF NoWalk
<1>4. import \in Imports
  <2>1. PICK V, W : V = Seq(CsvValues) /\ W = Seq(CsvValues \cup {"rounded"})
    OBVIOUS
  <2>2. << >> \in V /\ << >> \in W /\ 1 \in Nat /\ 0 \in Nat /\ "TEXT" \in Types
    BY <2>1 DEF Types
  <2>3. import \in [at : {"none", "create", "insert", "created", "bad request", "error", "empty"},
                    rows : V, type : Types, next : Nat, landed : W, said : Nat]
    BY <1>1, <2>2 DEF NoImport
  <2> QED
    BY <2>1, <2>3 DEF Imports
<1>5. ImportOK
  <2>1. Len(<< >>) = 0
    OBVIOUS
  <2> QED
    BY <1>2, <1>4, <2>1 DEF ImportOK
<1>6. TypeBySuffix
  <2>1. 1..Len(<< >>) = {}
    OBVIOUS
  <2> QED
    BY <1>2, <2>1 DEF TypeBySuffix
<1>7. ImportHonest
  <2>1. 1..Len(<< >>) = {} /\ Len(<< >>) = 0
    OBVIOUS
  <2> QED
    BY <1>2, <2>1 DEF ImportHonest
<1>8. walk \in Walks
  <2>1. PICK W, T : W = Seq(Nat) /\ T = SUBSET Nat
    OBVIOUS
  <2>2. << >> \in W /\ {} \in T
    BY <2>1
  <2>3. PICK P : P = Nat \ {0}
    OBVIOUS
  <2>4. 1 \in P /\ 0 \in Nat /\ FALSE \in BOOLEAN
    BY <2>3
  <2>5. 1 \in 1..MaxPerPage
    BY TableAssumption
  <2>6. walk \in [at : {"none", "page", "count", "ended"}, page : P, per : 1..MaxPerPage, pages : Nat,
                  start : T, seen : W, added : Nat, gone : Nat, moved : Nat, blind : BOOLEAN]
    BY <1>1, <2>2, <2>4, <2>5 DEF NoWalk
  <2> QED
    BY <2>1, <2>3, <2>6 DEF Walks
<1>9. WalkOK
  <2>1. IsFiniteSet({})
    BY FS_EmptySet
  <2> QED
    BY <1>3, <1>8, <2>1 DEF WalkOK
<1>10. ListingOK
  <2>1. listing \in Seq(Nat) /\ Len(listing) = FirstRows /\ \A i \in 1..FirstRows : listing[i] = i
    BY <1>1, TableAssumption
  <2>2. Distinct(listing)
    BY <2>1 DEF Distinct
  <2>3. NewRow = 1 + FirstRows
    <3>1. Len(import.landed) = 0
      BY <1>2
    <3> QED
      BY <1>1, <3>1, TableAssumption DEF NewRow
  <2>4. \A r \in ToSet(listing) : r < 1 + FirstRows
    <3>1. DOMAIN listing = 1..FirstRows
      BY <1>1
    <3> QED
      BY <2>1, <3>1, TableAssumption DEF ToSet
  <2>5. ToSet(walk.seen) = {}
    BY <1>3 DEF ToSet
  <2> QED
    BY <1>3, <2>1, <2>2, <2>3, <2>4, <2>5 DEF ListingOK
<1>11. TableTypeOK
  <2>1. 0 \in 0..plan.edits
    BY <1>1, PlanBounds
  <2> QED
    BY <1>1, <1>2, <1>3, <1>8, <2>1 DEF TableTypeOK, Walks
<1> QED
  BY <1>5, <1>6, <1>7, <1>9, <1>10, <1>11 DEF TableIInv

\* Nothing changes when no variable does.
LEMMA TableStutter == ASSUME TableIInv, UNCHANGED tableVars PROVE TableIInv'
<1>1. NewRow' = NewRow /\ Offset' = Offset /\ UNCHANGED <<strict, coltype, listing, import, walk, edits, plan>>
  BY DEF tableVars, NewRow, Offset
<1>2. TableTypeOK' /\ ListingOK'
  BY <1>1 DEF TableIInv, TableTypeOK, ListingOK
<1>3. WalkOK'
  BY <1>1 DEF TableIInv, WalkOK, Missed
<1> QED
  BY <1>1, <1>2, <1>3, ImportKept DEF TableIInv

\* Every step keeps the invariant.
LEMMA TableNextInv == ASSUME TableIInv, [TableNext]_tableVars PROVE TableIInv'
<1>1. plan \in Plans
  BY DEF TableIInv, TableTypeOK
<1>2. ASSUME NEW f \in plan.files, NEW c \in BOOLEAN, ImportBegin(f, c) PROVE TableIInv'
  <2>1. f \in Seq(CsvValues \cup {"bad"})
    BY <1>1, PlanFiles
  <2> QED
    BY <1>2, <2>1, ImportBeginInv
<1>3. CASE InsertBatch
  BY <1>3, BatchLandsInv DEF InsertBatch
<1>4. CASE InsertUnanswered
  BY <1>4, BatchLandsInv DEF InsertUnanswered
<1>5. ASSUME NEW p \in plan.pages, WalkBegin(p) PROVE TableIInv'
  <2>1. p \in Int
    BY <1>1, TableAssumption
  <2> QED
    BY <1>5, <2>1, WalkBeginInv
<1> QED
  BY <1>2, <1>3, <1>4, <1>5, ImportStepsInv, InsertRowInv, DeleteRowInv, EditRowInv, PageQueryInv,
     CountQueryInv, CountFailsInv, TableStutter DEF TableNext

\* The invariant gives what is promised of the import and of the reader of pages.
LEMMA TableInvHolds == ASSUME TableIInv PROVE TableInv
<1>1. TableTypeOK /\ TypeBySuffix /\ ImportHonest /\ WalkOK
  BY DEF TableIInv
<1>2. WalkBounded
  <2> SUFFICES ASSUME walk.at = "ended", ~walk.blind
               PROVE  /\ Cardinality({r \in walk.start \cap ToSet(listing) : Times(r) = 0})
                           <= walk.gone + walk.moved
                      /\ Len(walk.seen) - Cardinality(ToSet(walk.seen)) <= walk.added + walk.moved
    BY DEF WalkBounded
  <2>1. /\ Cardinality(Missed(ToSet(listing))) <= walk.gone + walk.moved
        /\ Len(walk.seen) - Cardinality(ToSet(walk.seen)) <= walk.added + walk.moved
    BY <1>1 DEF WalkOK
  <2>2. walk.seen \in Seq(Nat)
    BY <1>1 DEF WalkOK, Walks
  <2>3. ASSUME NEW r PROVE Times(r) = 0 <=> r \notin ToSet(walk.seen)
    <3>1. PICK s \in Seq(Nat) : s = walk.seen
      BY <2>2
    <3>2. Len(s) \in Nat /\ DOMAIN s = 1..Len(s)
      BY <3>1
    <3>3. PICK T : T = {i \in 1..Len(s) : s[i] = r}
      OBVIOUS
    <3>4. T = {} <=> r \notin ToSet(s)
      BY <3>2, <3>3 DEF ToSet
    <3>5. IsFiniteSet(T)
      <4>1. T \subseteq 1..Len(s) /\ IsFiniteSet(1..Len(s))
        BY <3>2, <3>3, FS_Interval
      <4> QED
        BY <4>1, FS_Subset
    <3>6. Cardinality(T) = 0 <=> T = {}
      BY <3>5, FS_EmptySet
    <3> QED
      BY <3>1, <3>3, <3>4, <3>6 DEF Times
  <2>4. {r \in walk.start \cap ToSet(listing) : Times(r) = 0} = Missed(ToSet(listing))
    BY <2>3 DEF Missed
  <2> QED
    BY <2>1, <2>4
<1> QED
  BY <1>1, <1>2 DEF TableInv

\* For all files, batches and page sizes: an import infers the type that its values
\* call for, says what it has done and changes no value but by rounding, and a walk
\* through the pages misses and repeats no more rows than were touched meanwhile.
THEOREM TableInvariance == TableSpec => []TableInv
<1>1. TableInit => TableIInv
  BY TableInitInv
<1>2. TableIInv /\ [TableNext]_tableVars => TableIInv'
  BY TableNextInv
<1>3. TableIInv => TableInv
  BY TableInvHolds
<1> QED
  BY <1>1, <1>2, <1>3, PTL DEF TableSpec

-----------------------------------------------------------------------------
(* The algorithms: what is cut off is what was put there, and what was made  *)
(* with one key and additional data opens with no other.                     *)

\* The lengths.
LEMMA Lengths ==
    /\ TagLen \in Nat /\ TagLen >= 1 /\ Block \in Nat /\ Block >= 1
    /\ PubLen \in Nat /\ PubLen >= 1 /\ SaltLen \in Nat
    /\ Word \in Nat /\ Word >= 1 /\ Base \in Nat /\ Base >= 2
<1>1. /\ TagLen \in Nat \ {0} /\ Block \in Nat \ {0} /\ PubLen \in Nat \ {0} /\ Word \in Nat \ {0}
      /\ SaltLen \in Nat /\ Base \in Nat \ {0, 1}
  BY LengthAssumption
<1> QED
  BY <1>1

\* A list given by its elements.
LEMMA Listed ==
    ASSUME NEW n \in Nat, NEW s, s = [i \in 1..n |-> s[i]], NEW S, \A i \in 1..n : s[i] \in S
    PROVE  s \in Seq(S) /\ Len(s) = n
  OBVIOUS

\* Two lists with the same elements are the same.
LEMMA SameList ==
    ASSUME NEW S, NEW s \in Seq(S), NEW t \in Seq(S), Len(s) = Len(t), \A i \in 1..Len(s) : s[i] = t[i]
    PROVE  s = t
  OBVIOUS

\* A list behind another can be cut off again.
LEMMA CutApart ==
    ASSUME NEW S, NEW u \in Seq(S), NEW v \in Seq(S)
    PROVE  /\ Crypto!Prefix(u \o v, Len(u)) = u
           /\ Crypto!After(u \o v, Len(u)) = v
           /\ Crypto!Prefix(u \o v, Len(u \o v) - Len(v)) = u
           /\ Crypto!After(u \o v, Len(u \o v) - Len(v)) = v
<1>1. PICK m, n \in Nat : m = Len(u) /\ n = Len(v) /\ m \in Nat
  OBVIOUS
<1>2. PICK w : w = u \o v
  OBVIOUS
<1>3. /\ w \in Seq(S) /\ Len(w) = m + n
      /\ \A j \in 1..(m + n) : w[j] = IF j <= m THEN u[j] ELSE v[j - m]
  BY <1>1, <1>2, Joined
<1>4. SubSeq(w, 1, m) = u
  <2>1. /\ SubSeq(w, 1, m) \in Seq(S) /\ Len(SubSeq(w, 1, m)) = m - 1 + 1
        /\ \A j \in 1..(m - 1 + 1) : SubSeq(w, 1, m)[j] = w[1 + j - 1]
    <3>1. 1 \in Int /\ m \in Int /\ 1 >= 1 /\ m <= Len(w) /\ 1 <= m + 1
      BY <1>1, <1>3
    <3> QED
      BY <1>3, <3>1, Piece
  <2>2. PICK x : x = SubSeq(w, 1, m)
    OBVIOUS
  <2>3. x \in Seq(S) /\ Len(x) = m /\ \A j \in 1..m : x[j] = w[j]
    BY <1>1, <2>1, <2>2
  <2>4. \A j \in 1..m : j \in 1..(m + n) /\ j <= m
    BY <1>1
  <2>5. \A j \in 1..m : x[j] = u[j]
    BY <1>3, <2>3, <2>4
  <2> QED
    BY <1>1, <2>2, <2>3, <2>5, SameList
<1>5. SubSeq(w, m + 1, m + n) = v
  <2>1. PICK a, b \in Int : a = m + 1 /\ b = m + n /\ b - a + 1 = n /\ a \in Int /\ a >= 1 /\ b <= Len(w) /\ a <= b + 1
    BY <1>1, <1>3
  <2>2. /\ SubSeq(w, a, b) \in Seq(S) /\ Len(SubSeq(w, a, b)) = b - a + 1
        /\ \A j \in 1..(b - a + 1) : SubSeq(w, a, b)[j] = w[a + j - 1]
    BY <1>3, <2>1, Piece
  <2>3. PICK x : x = SubSeq(w, a, b)
    OBVIOUS
  <2>4. x \in Seq(S) /\ Len(x) = n /\ \A j \in 1..n : x[j] = w[m + j]
    <3>1. \A j \in 1..n : a + j - 1 = m + j
      BY <1>1, <2>1
    <3> QED
      BY <2>1, <2>2, <2>3, <3>1
  <2>5. \A j \in 1..n : m + j \in 1..(m + n) /\ ~(m + j <= m) /\ (m + j) - m = j
    BY <1>1
  <2>6. \A j \in 1..n : x[j] = v[j]
    BY <1>3, <2>4, <2>5
  <2> QED
    BY <1>1, <2>1, <2>3, <2>4, <2>6, SameList
<1>6. Len(w) - n = m
  BY <1>1, <1>3
<1> QED
  BY <1>1, <1>2, <1>3, <1>4, <1>5, <1>6 DEF Crypto!Prefix, Crypto!After

\* Ciphertext and tag of a text.
CtOf(k, nonce, p) == [i \in 1..Len(p) |-> <<"ct", k, nonce, p[i]>>]
TagOf(k, nonce, p, aad) == [i \in 1..TagLen |-> <<"tag", k, nonce, <<p, aad>>>>]

\* They are lists of symbols, and the ciphertext shows the text to who has the key.
LEMMA SealedLists ==
    ASSUME NEW k, NEW nonce, NEW S, NEW p \in Seq(S), NEW a
    PROVE  \E T : /\ CtOf(k, nonce, p) \in Seq(T) /\ TagOf(k, nonce, p, a) \in Seq(T)
                  /\ Len(CtOf(k, nonce, p)) = Len(p) /\ Len(TagOf(k, nonce, p, a)) = TagLen
                  /\ Crypto!Bare(CtOf(k, nonce, p)) = p
<1>1. PICK n \in Nat : n = Len(p)
  OBVIOUS
<1>2. PICK T : T = {<<"ct", k, nonce, p[i]>> : i \in 1..n} \cup {<<"tag", k, nonce, <<p, a>>>>}
  OBVIOUS
<1>3. PICK c : c = CtOf(k, nonce, p)
  OBVIOUS
<1>4. c = [i \in 1..n |-> c[i]] /\ \A i \in 1..n : c[i] \in T /\ c[i] = <<"ct", k, nonce, p[i]>>
  BY <1>1, <1>2, <1>3 DEF CtOf
<1>5. c \in Seq(T) /\ Len(c) = n
  BY <1>4, Listed
<1>6. PICK t : t = TagOf(k, nonce, p, a)
  OBVIOUS
<1>7. t = [i \in 1..TagLen |-> t[i]] /\ \A i \in 1..TagLen : t[i] \in T
  BY <1>2, <1>6 DEF TagOf
<1>8. t \in Seq(T) /\ Len(t) = TagLen
  BY <1>7, Lengths, Listed
<1>9. Crypto!Bare(c) = p
  <2>1. \A i \in 1..n : c[i][4] = p[i]
    BY <1>4
  <2>2. PICK b : b = [i \in 1..n |-> c[i][4]]
    OBVIOUS
  <2>3. \A i \in 1..n : p[i] \in S
    BY <1>1
  <2>4. b = [i \in 1..n |-> b[i]] /\ \A i \in 1..n : b[i] = p[i] /\ b[i] \in S
    BY <2>1, <2>2, <2>3
  <2>5. b \in Seq(S) /\ Len(b) = n
    BY <2>4, Listed
  <2>6. b = p
    BY <1>1, <2>4, <2>5, SameList
  <2> QED
    BY <1>5, <2>2, <2>6 DEF Crypto!Bare
<1> QED
  BY <1>1, <1>3, <1>5, <1>6, <1>8, <1>9

\* What Seal makes is cut into the two.
LEMMA SealParts ==
    ASSUME NEW k, NEW nonce, NEW S, NEW p \in Seq(S), NEW a
    PROVE  LET out == Crypto!Seal(k, nonce, p, a) IN
           /\ out = CtOf(k, nonce, p) \o TagOf(k, nonce, p, a)
           /\ Len(out) = Len(p) + TagLen
           /\ Crypto!Prefix(out, Len(out) - TagLen) = CtOf(k, nonce, p)
           /\ Crypto!After(out, Len(out) - TagLen) = TagOf(k, nonce, p, a)
<1>1. PICK c, t : c = CtOf(k, nonce, p) /\ t = TagOf(k, nonce, p, a)
  OBVIOUS
<1>2. PICK T : c \in Seq(T) /\ t \in Seq(T) /\ Len(c) = Len(p) /\ Len(t) = TagLen
  BY <1>1, SealedLists
<1>3. Crypto!Seal(k, nonce, p, a) = c \o t
  BY <1>1 DEF Crypto!Seal, CtOf, TagOf
<1>4. Len(c \o t) = Len(p) + TagLen
  <2>1. Len(c \o t) = Len(c) + Len(t)
    BY <1>2, Joined
  <2> QED
    BY <1>2, <2>1
<1>5. /\ Crypto!Prefix(c \o t, Len(c \o t) - TagLen) = c
      /\ Crypto!After(c \o t, Len(c \o t) - TagLen) = t
  BY <1>2, CutApart
<1> QED
  BY <1>1, <1>3, <1>4, <1>5

\* It opens with its key and additional data, and gives the text.
LEMMA OpensOwn ==
    ASSUME NEW k, NEW nonce, NEW S, NEW p \in Seq(S), NEW a
    PROVE  Crypto!Open(k, nonce, CtOf(k, nonce, p) \o TagOf(k, nonce, p, a), a) = Crypto!Took(p)
<1>1. PICK s : s = Crypto!Seal(k, nonce, p, a)
  OBVIOUS
<1>2. /\ s = CtOf(k, nonce, p) \o TagOf(k, nonce, p, a)
      /\ Len(s) = Len(p) + TagLen
      /\ Crypto!Prefix(s, Len(s) - TagLen) = CtOf(k, nonce, p)
  BY <1>1, SealParts
<1>3. Crypto!Bare(CtOf(k, nonce, p)) = p
  BY SealedLists
<1>4. Len(s) >= TagLen
  BY <1>2, Lengths
<1> QED
  BY <1>1, <1>2, <1>3, <1>4 DEF Crypto!Open

\* It opens with no other.
LEMMA OpensNoOther ==
    ASSUME NEW k, NEW nonce, NEW S, NEW p \in Seq(S), NEW a, NEW kb, NEW a2, kb # k \/ a2 # a
    PROVE  Crypto!Open(kb, nonce, CtOf(k, nonce, p) \o TagOf(k, nonce, p, a), a2) = Crypto!Failed
<1>1. PICK c, t, s : c = CtOf(k, nonce, p) /\ t = TagOf(k, nonce, p, a) /\ s = c \o t
  OBVIOUS
<1>2. PICK T : c \in Seq(T) /\ t \in Seq(T) /\ Len(c) = Len(p) /\ Len(t) = TagLen
  BY <1>1, SealedLists
<1>3. PICK m, n \in Nat : m = Len(p) /\ n = TagLen /\ n >= 1 /\ m \in Nat
  BY Lengths
<1>4. /\ s \in Seq(T) /\ Len(s) = m + n
      /\ \A j \in 1..(m + n) : s[j] = IF j <= m THEN c[j] ELSE t[j - m]
  <2>1. /\ c \o t \in Seq(T) /\ Len(c \o t) = Len(c) + Len(t)
        /\ \A j \in 1..(Len(c) + Len(t)) :
             (c \o t)[j] = IF j <= Len(c) THEN c[j] ELSE t[j - Len(c)]
    BY <1>2, Joined
  <2> QED
    BY <1>1, <1>2, <1>3, <2>1
<1>5. s[m + 1] = <<"tag", k, nonce, <<p, a>>>>
  <2>1. m + 1 \in 1..(m + n) /\ ~(m + 1 <= m) /\ (m + 1) - m = 1
    BY <1>3
  <2>2. t[1] = <<"tag", k, nonce, <<p, a>>>>
    BY <1>1, <1>3 DEF TagOf
  <2> QED
    BY <1>4, <2>1, <2>2
<1>6. PICK q : q = Crypto!Bare(Crypto!Prefix(s, Len(s) - TagLen))
  OBVIOUS
<1>7. q \in Seq({q[i] : i \in 1..m}) /\ Len(q) = m
  <2>1. Crypto!Prefix(s, Len(s) - TagLen) = c
    BY <1>1, <1>2, CutApart
  <2>2. q = [i \in 1..m |-> c[i][4]]
    BY <1>2, <1>3, <1>6, <2>1 DEF Crypto!Bare
  <2>3. q = [i \in 1..m |-> q[i]]
    BY <2>2
  <2> QED
    BY <1>3, <2>3, Listed
<1>8. ASSUME s = Crypto!Seal(kb, nonce, q, a2) PROVE FALSE
  <2>1. PICK c2, t2 : c2 = CtOf(kb, nonce, q) /\ t2 = TagOf(kb, nonce, q, a2)
    OBVIOUS
  <2>2. PICK T2 : c2 \in Seq(T2) /\ t2 \in Seq(T2) /\ Len(c2) = m /\ Len(t2) = TagLen
    BY <1>7, <2>1, SealedLists
  <2>3. s = c2 \o t2
    BY <1>7, <1>8, <2>1, SealParts
  <2>4. \A j \in 1..(m + n) : s[j] = IF j <= m THEN c2[j] ELSE t2[j - m]
    BY <1>3, <2>2, <2>3, Joined
  <2>5. s[m + 1] = <<"tag", kb, nonce, <<q, a2>>>>
    <3>1. m + 1 \in 1..(m + n) /\ ~(m + 1 <= m) /\ (m + 1) - m = 1
      BY <1>3
    <3>2. t2[1] = <<"tag", kb, nonce, <<q, a2>>>>
      BY <1>3, <2>1 DEF TagOf
    <3> QED
      BY <2>4, <3>1, <3>2
  <2>6. k = kb /\ a = a2
    BY <1>5, <2>5
  <2> QED
    BY <2>6
<1> QED
  BY <1>1, <1>6, <1>8 DEF Crypto!Open

\* A text is padded to full blocks, and the padding says how long it is.
LEMMA PadLaw ==
    ASSUME NEW p \in Seq(Nat)
    PROVE  LET padded == Crypto!padPKCS7(p, Block) IN
           /\ padded \in Seq(Nat) /\ padded # <<>>
           /\ Len(padded) % Block = 0
           /\ Crypto!unpadPKCS7(padded) = Crypto!Took(p)
<1>1. PICK m, b \in Nat : m = Len(p) /\ b = Block /\ b >= 1 /\ m \in Nat
  BY Lengths
<1>2. PICK n \in Nat : n = b - (m % b) /\ n >= 1
  <2>1. m % b \in Nat /\ m % b < b
    BY <1>1
  <2>2. b - (m % b) \in Nat /\ b - (m % b) >= 1
    BY <1>1, <2>1
  <2> QED
    BY <2>2
<1>3. (m + n) % b = 0
  <2>1. PICK q, r \in Nat : q = m \div b /\ r = m % b /\ m = b * q + r
    <3>1. m \div b \in Nat /\ m % b \in Nat /\ m = b * (m \div b) + (m % b)
      BY <1>1
    <3> QED
      BY <3>1
  <2>2. m + n = b * q + b
    BY <1>2, <2>1
  <2>3. PICK x \in Nat : x = q + 1
    OBVIOUS
  <2>4. m + n = b * x
    BY <1>1, <2>1, <2>2, <2>3
  <2>5. (b * x) % b = 0
    BY <1>1
  <2> QED
    BY <2>4, <2>5
<1>4. PICK t : t = [i \in 1..n |-> n]
  OBVIOUS
<1>5. t \in Seq(Nat) /\ Len(t) = n /\ \A i \in 1..n : t[i] = n
  BY <1>4
<1>6. PICK w : w = p \o t
  OBVIOUS
<1>7. /\ w \in Seq(Nat) /\ Len(w) = m + n
      /\ \A j \in 1..(m + n) : w[j] = IF j <= m THEN p[j] ELSE t[j - m]
  <2>1. /\ p \o t \in Seq(Nat) /\ Len(p \o t) = Len(p) + Len(t)
        /\ \A j \in 1..(Len(p) + Len(t)) :
             (p \o t)[j] = IF j <= Len(p) THEN p[j] ELSE t[j - Len(p)]
    BY <1>5, Joined
  <2> QED
    BY <1>1, <1>5, <1>6, <2>1
<1>8. Crypto!padPKCS7(p, Block) = w
  BY <1>1, <1>2, <1>4, <1>6 DEF Crypto!padPKCS7
<1>9. \A j \in (m + 1)..(m + n) : w[j] = n
  <2> SUFFICES ASSUME NEW j \in (m + 1)..(m + n) PROVE w[j] = n
    OBVIOUS
  <2>1. j \in 1..(m + n) /\ ~(j <= m) /\ j - m \in 1..n
    BY <1>1, <1>2
  <2> QED
    BY <1>5, <1>7, <2>1
<1>10. w[m + n] = n
  <2>1. m + n \in (m + 1)..(m + n)
    BY <1>1, <1>2
  <2> QED
    BY <1>9, <2>1
<1>11. Crypto!unpadPKCS7(w) = Crypto!Took(p)
  <2>1. w # <<>>
    BY <1>1, <1>2, <1>7
  <2>2. ~(n > Len(w)) /\ Len(w) - n = m
    BY <1>1, <1>2, <1>7
  <2>3. ~ \E i \in m + 1..Len(w) : w[i] # n
    BY <1>7, <1>9
  <2>4. Crypto!Prefix(w, m) = p
    BY <1>1, <1>5, <1>6, CutApart
  <2>5. w[Len(w)] = n
    BY <1>7, <1>10
  <2> QED
    BY <2>1, <2>2, <2>3, <2>4, <2>5 DEF Crypto!unpadPKCS7
<1>12. w # <<>>
  BY <1>1, <1>2, <1>7
<1> QED
  BY <1>1, <1>3, <1>7, <1>8, <1>11, <1>12

\* What aes-256-cbc gives and what it takes back.
LEMMA CbcLaw ==
    ASSUME NEW k, NEW nonce, NEW p \in Seq(Nat), NEW a
    PROVE  LET e == Crypto!CbcEncrypt(k, nonce, p, a) IN
           /\ e = [ct |-> CtOf(k, nonce, Crypto!padPKCS7(p, Block)), nonce |-> nonce,
                   tag |-> Crypto!Mac(k, nonce, CtOf(k, nonce, Crypto!padPKCS7(p, Block)), a)]
           /\ Crypto!CbcDecrypt(k, e, a) = Crypto!Took(p)
<1>1. PICK w : w = Crypto!padPKCS7(p, Block)
  OBVIOUS
<1>2. w \in Seq(Nat) /\ w # <<>> /\ Len(w) % Block = 0 /\ Crypto!unpadPKCS7(w) = Crypto!Took(p)
  BY <1>1, PadLaw
<1>3. PICK c : c = CtOf(k, nonce, w)
  OBVIOUS
<1>4. PICK T : c \in Seq(T) /\ Len(c) = Len(w) /\ Crypto!Bare(c) = w
  BY <1>2, <1>3, SealedLists
<1>5. c # <<>>
  BY <1>2, <1>4
<1>6. PICK t : t = Crypto!Mac(k, nonce, c, a)
  OBVIOUS
<1>7. PICK e : e = [ct |-> c, nonce |-> nonce, tag |-> t]
  OBVIOUS
<1>8. e = Crypto!CbcEncrypt(k, nonce, p, a)
  BY <1>1, <1>3, <1>6, <1>7 DEF Crypto!CbcEncrypt, CtOf
<1>9. e.ct = c /\ e.nonce = nonce /\ e.tag = t
  BY <1>7
<1>10. Crypto!CbcDecrypt(k, e, a) = Crypto!Took(p)
  BY <1>2, <1>4, <1>5, <1>6, <1>9 DEF Crypto!CbcDecrypt
<1> QED
  BY <1>1, <1>3, <1>6, <1>7, <1>8, <1>10

\* Lists that are the same behind the same list are the same.
LEMMA CancelFront ==
    ASSUME NEW S, NEW u \in Seq(S), NEW v \in Seq(S), NEW w \in Seq(S), u \o v = u \o w
    PROVE  v = w
<1>1. /\ Crypto!After(u \o v, Len(u)) = v
      /\ Crypto!After(u \o w, Len(u)) = w
  BY CutApart
<1> QED
  BY <1>1

\* The MAC of one key and additional data is not that of another.
LEMMA MacsDiffer ==
    ASSUME NEW k, NEW nonce, NEW S, NEW c \in Seq(S), NEW a \in Seq(S), NEW kb, NEW a2 \in Seq(S),
           kb # k \/ a2 # a
    PROVE  Crypto!Mac(k, nonce, c, a) # Crypto!Mac(kb, nonce, c, a2)
<1>1. 1 \in 1..TagLen
  BY Lengths
<1>2. Crypto!Mac(k, nonce, c, a)[1] = <<"mac", k, nonce, c \o a>>
  BY <1>1 DEF Crypto!Mac
<1>3. Crypto!Mac(kb, nonce, c, a2)[1] = <<"mac", kb, nonce, c \o a2>>
  BY <1>1 DEF Crypto!Mac
<1>4. PICK x, y : x = c \o a /\ y = c \o a2
  OBVIOUS
<1>5. kb # k \/ x # y
  BY <1>4, CancelFront
<1>6. <<"mac", k, nonce, x>> # <<"mac", kb, nonce, y>>
  BY <1>5
<1> QED
  BY <1>2, <1>3, <1>4, <1>6

\* What x25519-aes-256-gcm gives and what it opens.
SaltOf(nonce) == [i \in 1..SaltLen |-> <<"salt", nonce, "none", i>>]
PubOf == [i \in 1..PubLen |-> <<"pub", "ephemeral", "none", i>>]
SharedKey(k, nonce) == Crypto!Derived("ephemeral", k, SaltOf(nonce))

\* The tag of what it gives, and what becomes of its ciphertext with any tag.
IsX25519(k, nonce, p, a, e) ==
    /\ DOMAIN e = {"ct", "nonce", "tag"}
    /\ e.nonce = nonce
    /\ e.tag = TagOf(SharedKey(k, nonce), nonce, p, a)
    /\ \A f, kd, ad :
         f.ct = e.ct =>
           Crypto!X25519Decrypt(kd, f, ad)
             = Crypto!Open(SharedKey(kd, nonce), f.nonce,
                           CtOf(SharedKey(k, nonce), nonce, p) \o f.tag, ad)

\* It is what x25519 gives.
LEMMA X25519Law ==
    ASSUME NEW k, NEW nonce, NEW S, NEW p \in Seq(S), NEW a
    PROVE  IsX25519(k, nonce, p, a, Crypto!X25519Encrypt(k, nonce, p, a))
<1>1. PICK pub, salt, sh : pub = PubOf /\ salt = SaltOf(nonce) /\ sh = SharedKey(k, nonce)
  OBVIOUS
<1>2. PICK c, t : c = CtOf(sh, nonce, p) /\ t = TagOf(sh, nonce, p, a)
  OBVIOUS
<1>3. PICK T : c \in Seq(T)
  BY <1>2, SealedLists
<1>4. PICK e : e = [ct |-> pub \o salt \o c, nonce |-> nonce, tag |-> t]
  OBVIOUS
<1>5. Crypto!X25519Encrypt(k, nonce, p, a) = e
  <2>1. PICK out : out = Crypto!Seal(sh, nonce, p, a)
    OBVIOUS
  <2>2. /\ Crypto!Prefix(out, Len(out) - TagLen) = c
        /\ Crypto!After(out, Len(out) - TagLen) = t
    BY <1>2, <2>1, SealParts
  <2> QED
    BY <1>1, <1>4, <2>1, <2>2 DEF Crypto!X25519Encrypt, PubOf, SaltOf, SharedKey
<1>6. PICK m, n \in Nat : m = PubLen /\ n = SaltLen /\ m >= 1 /\ n \in Nat
  BY Lengths
<1>7. PICK U : U = T \cup {pub[i] : i \in 1..m} \cup {salt[i] : i \in 1..n}
  OBVIOUS
<1>8. pub \in Seq(U) /\ Len(pub) = m /\ salt \in Seq(U) /\ Len(salt) = n /\ c \in Seq(U)
  <2>1. pub = [i \in 1..m |-> pub[i]] /\ salt = [i \in 1..n |-> salt[i]]
    BY <1>1, <1>6 DEF PubOf, SaltOf
  <2>2. (\A i \in 1..m : pub[i] \in U) /\ (\A i \in 1..n : salt[i] \in U)
    BY <1>7
  <2>3. pub \in Seq(U) /\ Len(pub) = m
    BY <1>6, <2>1, <2>2, Listed
  <2>4. salt \in Seq(U) /\ Len(salt) = n
    BY <1>6, <2>1, <2>2, Listed
  <2>5. T \subseteq U
    BY <1>7
  <2>6. c \in Seq(U)
    BY <1>3, <2>5
  <2> QED
    BY <2>3, <2>4, <2>6
<1>9. PICK h, g : h = pub \o salt /\ g = h \o c
  OBVIOUS
<1>10. h \in Seq(U) /\ Len(h) = m + n /\ g \in Seq(U) /\ Len(g) = (m + n) + Len(c)
  <2>1. pub \o salt \in Seq(U) /\ Len(pub \o salt) = Len(pub) + Len(salt)
    BY <1>8, Joined
  <2>2. h \in Seq(U)
    BY <1>9, <2>1
  <2>3. h \o c \in Seq(U) /\ Len(h \o c) = Len(h) + Len(c)
    BY <1>8, <2>2, Joined
  <2> QED
    BY <1>8, <1>9, <2>1, <2>3
<1>11. Len(c) \in Nat /\ m + n \in Nat
  BY <1>6, <1>8
<1>12. Crypto!After(g, m + n) = c /\ Crypto!Prefix(g, m + n) = h
  <2>1. Crypto!After(h \o c, Len(h)) = c /\ Crypto!Prefix(h \o c, Len(h)) = h
    BY <1>8, <1>10, CutApart
  <2> QED
    BY <1>9, <1>10, <2>1
<1>13. Crypto!After(h, m) = salt
  BY <1>8, <1>9, CutApart
<1>14. SubSeq(g, m + 1, m + n) = salt
  <2>1. /\ SubSeq(g, m + 1, m + n) \in Seq(U)
        /\ Len(SubSeq(g, m + 1, m + n)) = n
        /\ \A j \in 1..n : SubSeq(g, m + 1, m + n)[j] = g[m + j]
    <3>1. PICK x, y \in Int : x = m + 1 /\ y = m + n /\ x >= 1 /\ y <= Len(g) /\ x <= y + 1 /\ y - x + 1 = n /\ x \in Int
      BY <1>6, <1>10, <1>11
    <3>2. /\ SubSeq(g, x, y) \in Seq(U) /\ Len(SubSeq(g, x, y)) = y - x + 1
          /\ \A j \in 1..(y - x + 1) : SubSeq(g, x, y)[j] = g[x + j - 1]
      BY <1>10, <3>1, Piece
    <3>3. \A j \in 1..n : x + j - 1 = m + j
      BY <1>6, <3>1
    <3> QED
      BY <3>1, <3>2, <3>3
  <2>2. ASSUME NEW j \in 1..n PROVE g[m + j] = salt[j]
    <3>1. m + j \in 1..(m + n) /\ m + j \in 1..((m + n) + Len(c)) /\ m + j <= m + n /\ ~(m + j <= m) /\ (m + j) - m = j
      BY <1>6, <1>11
    <3>2. \A i \in 1..(Len(h) + Len(c)) : (h \o c)[i] = IF i <= Len(h) THEN h[i] ELSE c[i - Len(h)]
      BY <1>8, <1>10, Joined
    <3>3. \A i \in 1..(Len(pub) + Len(salt)) : (pub \o salt)[i] = IF i <= Len(pub) THEN pub[i] ELSE salt[i - Len(pub)]
      BY <1>8, Joined
    <3>4. g[m + j] = h[m + j]
      BY <1>9, <1>10, <3>1, <3>2
    <3>5. h[m + j] = salt[j]
      BY <1>8, <1>9, <3>1, <3>3
    <3> QED
      BY <3>4, <3>5
  <2>3. PICK z : z = SubSeq(g, m + 1, m + n)
    OBVIOUS
  <2>4. z \in Seq(U) /\ Len(z) = n /\ \A j \in 1..n : z[j] = salt[j]
    BY <2>1, <2>2, <2>3
  <2> QED
    BY <1>8, <2>3, <2>4, SameList
<1>15. g[1][2] = "ephemeral"
  <2>1. 1 \in 1..(Len(h) + Len(c)) /\ 1 <= Len(h) /\ 1 \in 1..(Len(pub) + Len(salt)) /\ 1 <= Len(pub) /\ 1 \in 1..PubLen
    BY <1>6, <1>8, <1>10, <1>11
  <2>2. \A i \in 1..(Len(h) + Len(c)) : (h \o c)[i] = IF i <= Len(h) THEN h[i] ELSE c[i - Len(h)]
    BY <1>8, <1>10, Joined
  <2>3. \A i \in 1..(Len(pub) + Len(salt)) : (pub \o salt)[i] = IF i <= Len(pub) THEN pub[i] ELSE salt[i - Len(pub)]
    BY <1>8, Joined
  <2>4. g[1] = pub[1]
    BY <1>9, <2>1, <2>2, <2>3
  <2>5. pub[1] = <<"pub", "ephemeral", "none", 1>>
    BY <1>1, <2>1 DEF PubOf
  <2> QED
    BY <2>4, <2>5
<1>16. ~(Len(g) < PubLen + SaltLen)
  BY <1>6, <1>10, <1>11
<1>17. e.ct = g /\ e.nonce = nonce /\ e.tag = t /\ DOMAIN e = {"ct", "nonce", "tag"}
  BY <1>4, <1>9
<1>18. ASSUME NEW f, NEW kb, NEW a2, f.ct = g
       PROVE  Crypto!X25519Decrypt(kb, f, a2)
                = Crypto!Open(SharedKey(kb, nonce), f.nonce, c \o f.tag, a2)
  <2>1. SharedKey(kb, nonce) = Crypto!Derived("ephemeral", kb, salt)
    BY <1>1 DEF SharedKey
  <2> QED
    BY <1>6, <1>12, <1>14, <1>15, <1>16, <1>18, <2>1 DEF Crypto!X25519Decrypt
<1> QED
  BY <1>1, <1>2, <1>5, <1>17, <1>18 DEF IsX25519

\* Two keys share different secrets with the same third.
LEMMA SecretsDiffer ==
    ASSUME NEW k, NEW kb, NEW nonce, k # kb
    PROVE  SharedKey(k, nonce) # SharedKey(kb, nonce)
<1>1. {"ephemeral", k} # {"ephemeral", kb}
  OBVIOUS
<1> QED
  BY <1>1 DEF SharedKey, Crypto!Derived

\* The states of Pow.
Powers(f, n) == f[0] = 1 /\ \A i \in 1..n : f[i] = Base * f[i - 1]

\* Pow has such states.
LEMMA PowRuns ==
    ASSUME NEW n \in Nat
    PROVE  \E f : Powers(f, n) /\ Crypto!Pow(n) = f[n]
<1> DEFINE Next1(f) == [i \in 0..n |-> IF i = 0 THEN 1 ELSE Base * f[i - 1]]
<1>1. PICK step : step = [x \in (1..n) \X Nat |-> Base * x[2]]
  OBVIOUS
<1>2. \A i \in 1..n : \A x \in Nat : step[<<i, x>>] = Base * x /\ step[<<i, x>>] \in Nat
  <2>1. \A x \in Nat : Base * x \in Nat
    BY Lengths
  <2> QED
    BY <1>1, <2>1
<1>3. 1 \in Nat /\ StepsWithin(step, n, Nat)
  BY <1>2 DEF StepsWithin
<1>4. PICK g \in [0..n -> Nat] : IsLoop(g, n, 1, step)
  BY <1>3, LoopRuns
<1>5. g[0] = 1 /\ \A i \in 1..n : g[i] = Base * g[i - 1]
  <2>1. 0 \in 0..n
    OBVIOUS
  <2>2. g[0] = 1
    BY <1>4, <2>1 DEF IsLoop
  <2>3. ASSUME NEW i \in 1..n PROVE g[i] = Base * g[i - 1]
    <3>1. i \in 0..n /\ i # 0 /\ i - 1 \in 0..n
      OBVIOUS
    <3>2. g[i] = step[<<i, g[i - 1]>>] /\ g[i - 1] \in Nat
      BY <1>4, <3>1 DEF IsLoop
    <3> QED
      BY <1>2, <3>2
  <2> QED
    BY <2>2, <2>3
<1>6. g = Next1(g)
  BY <1>4, <1>5
<1>7. PICK f : f = CHOOSE x : x = Next1(x)
  OBVIOUS
<1>8. f = Next1(f)
  BY <1>6, <1>7, Zenon
<1>9. Crypto!Pow(n) = f[n]
  BY <1>7 DEF Crypto!Pow
<1>10. f[0] = 1
  BY <1>8
<1>11. ASSUME NEW i \in 1..n PROVE f[i] = Base * f[i - 1]
  <2>1. i \in 0..n /\ i # 0
    OBVIOUS
  <2> QED
    BY <1>8, <2>1, Zenon
<1> QED
  BY <1>9, <1>10, <1>11 DEF Powers

\* Powers, one at a time.
LEMMA PowNext ==
    ASSUME NEW n \in Nat
    PROVE  Crypto!Pow(0) = 1 /\ Crypto!Pow(n + 1) = Base * Crypto!Pow(n)
<1>1. Crypto!Pow(0) = 1
  BY PowRuns DEF Powers
<1>2. PICK f : Powers(f, n) /\ Crypto!Pow(n) = f[n]
  BY PowRuns
<1>3. PICK g : Powers(g, n + 1) /\ Crypto!Pow(n + 1) = g[n + 1]
  BY PowRuns
<1>4. f[0] = g[0] /\ \A i \in 1..n : f[i - 1] = g[i - 1] => f[i] = g[i]
  <2>1. \A i \in 1..n : i \in 1..(n + 1)
    OBVIOUS
  <2> QED
    BY <1>2, <1>3, <2>1 DEF Powers
<1>5. f[n] = g[n]
  BY <1>4, LoopsAgree
<1>6. g[n + 1] = Base * g[n]
  <2>1. n + 1 \in 1..(n + 1) /\ (n + 1) - 1 = n
    OBVIOUS
  <2> QED
    BY <1>3, <2>1 DEF Powers
<1> QED
  BY <1>1, <1>2, <1>3, <1>5, <1>6

\* Powers are numbers, each greater than the one before.
LEMMA PowGrows ==
    ASSUME NEW n \in Nat
    PROVE  /\ Crypto!Pow(n) \in Nat /\ Crypto!Pow(n) >= 1
           /\ \A i \in 0..n : Crypto!Pow(i) <= Crypto!Pow(n)
<1> DEFINE Good(m) == /\ Crypto!Pow(m) \in Nat /\ Crypto!Pow(m) >= 1
                      /\ \A i \in 0..m : Crypto!Pow(i) <= Crypto!Pow(m)
           Bad == {m \in Nat : ~Good(m)}
<1>1. SUFFICES ASSUME Bad # {} PROVE FALSE
  <2>1. n \notin Bad => Good(n)
    <3> HIDE DEF Good
    <3> QED
      OBVIOUS
  <2> QED
    BY <2>1
<1>2. PICK m \in Bad : \A y \in Bad : m <= y
  <2>1. Bad \subseteq Nat
    OBVIOUS
  <2> HIDE DEF Bad
  <2> QED
    BY <1>1, <2>1, Least
<1>3. m \in Nat /\ ~Good(m)
  <2> HIDE DEF Good
  <2> QED
    OBVIOUS
<1>4. Good(0)
  <2>1. Crypto!Pow(0) = 1 /\ \A i \in 0..0 : i = 0
    BY PowNext
  <2> QED
    BY <2>1
<1>5. PICK k \in Nat : m = k + 1
  <2>1. m # 0
    BY <1>3, <1>4
  <2>2. m - 1 \in Nat /\ m = (m - 1) + 1
    BY <1>3, <2>1
  <2> QED
    BY <2>2
<1>6. Good(k)
  <2>1. k \notin Bad
    <3> HIDE DEF Bad
    <3> QED
      BY <1>2, <1>5
  <2> HIDE DEF Good
  <2> QED
    BY <2>1
<1>7. PICK x \in Nat : x = Crypto!Pow(k) /\ x >= 1
  BY <1>6
<1>8. Crypto!Pow(m) = Base * x
  BY <1>5, <1>7, PowNext
<1>9. Base * x \in Nat /\ Base * x >= x
  BY <1>7, Lengths
<1>10. Good(m)
  <2>1. ASSUME NEW i \in 0..m PROVE Crypto!Pow(i) <= Base * x
    <3>1. CASE i = m
      BY <1>8, <1>9, <3>1
    <3>2. CASE i # m
      <4>1. i \in 0..k
        BY <1>5, <3>2
      <4>2. PICK y : y = Crypto!Pow(i) /\ y <= x
        BY <1>6, <1>7, <4>1
      <4>3. y \in Nat
        <5>1. i \in Nat /\ i < m
          BY <1>5, <4>1
        <5>2. i \notin Bad
          <6> HIDE DEF Bad
          <6> QED
            BY <1>2, <1>3, <5>1
        <5> QED
          BY <4>2, <5>1, <5>2
      <4> QED
        BY <1>9, <4>2, <4>3
    <3> QED
      BY <3>1, <3>2
  <2> QED
    BY <1>7, <1>8, <1>9, <2>1
<1> QED
  BY <1>3, <1>10

\* The states of SetBytes.
Sums(v, b, n) == v[0] = 0 /\ \A i \in 1..n : v[i] = v[i - 1] * Base + b[i]

\* SetBytes has such states.
LEMMA SetBytesRuns ==
    ASSUME NEW b \in Seq(Nat)
    PROVE  \E v : Sums(v, b, Len(b)) /\ Crypto!SetBytes(b) = v[Len(b)]
<1> DEFINE Next1(f) == [i \in 0..Len(b) |-> IF i = 0 THEN 0 ELSE f[i - 1] * Base + b[i]]
<1>0. PICK n \in Nat : n = Len(b) /\ \A i \in 1..n : b[i] \in Nat
  OBVIOUS
<1>1. PICK step : step = [x \in (1..n) \X Nat |-> x[2] * Base + b[x[1]]]
  OBVIOUS
<1>2. \A i \in 1..n : \A x \in Nat : step[<<i, x>>] = x * Base + b[i] /\ step[<<i, x>>] \in Nat
  <2>1. \A x, y \in Nat : x * Base + y \in Nat
    BY Lengths
  <2> QED
    BY <1>0, <1>1, <2>1
<1>3. 0 \in Nat /\ StepsWithin(step, n, Nat)
  BY <1>2 DEF StepsWithin
<1>4. PICK g \in [0..n -> Nat] : IsLoop(g, n, 0, step)
  BY <1>3, LoopRuns
<1>5. g[0] = 0 /\ \A i \in 1..n : g[i] = g[i - 1] * Base + b[i]
  <2>1. 0 \in 0..n
    OBVIOUS
  <2>2. g[0] = 0
    BY <1>4, <2>1 DEF IsLoop
  <2>3. ASSUME NEW i \in 1..n PROVE g[i] = g[i - 1] * Base + b[i]
    <3>1. i \in 0..n /\ i # 0 /\ i - 1 \in 0..n
      OBVIOUS
    <3>2. g[i] = step[<<i, g[i - 1]>>] /\ g[i - 1] \in Nat
      BY <1>4, <3>1 DEF IsLoop
    <3> QED
      BY <1>2, <3>2
  <2> QED
    BY <2>2, <2>3
<1>6. g = Next1(g)
  BY <1>0, <1>4, <1>5
<1>7. PICK f : f = CHOOSE x : x = Next1(x)
  OBVIOUS
<1>8. f = Next1(f)
  BY <1>6, <1>7, Zenon
<1>9. Crypto!SetBytes(b) = f[Len(b)]
  BY <1>7 DEF Crypto!SetBytes
<1>10. f[0] = 0
  BY <1>0, <1>8
<1>11. ASSUME NEW i \in 1..n PROVE f[i] = f[i - 1] * Base + b[i]
  <2>1. i \in 0..Len(b) /\ i # 0
    BY <1>0
  <2> QED
    BY <1>8, <2>1, Zenon
<1> QED
  BY <1>0, <1>9, <1>10, <1>11 DEF Sums

\* How many bytes a number needs.
LEMMA BytesLen ==
    ASSUME NEW r \in Nat, r < Crypto!Pow(Word)
    PROVE  \E len \in 0..Word :
             /\ len = CHOOSE i \in 0..Word : r < Crypto!Pow(i) /\ (i = 0 \/ r >= Crypto!Pow(i - 1))
             /\ r < Crypto!Pow(len) /\ (len = 0 \/ r >= Crypto!Pow(len - 1))
<1> DEFINE Fit == {i \in 0..Word : r < Crypto!Pow(i)}
<1>1. Word \in Nat
  BY Lengths
<1>2. PICK x \in Fit : \A y \in Fit : x <= y
  <2>1. Fit \subseteq Nat /\ Word \in Fit
    BY <1>1
  <2> HIDE DEF Fit
  <2> QED
    BY <2>1, Least
<1>3. x \in 0..Word /\ r < Crypto!Pow(x)
  OBVIOUS
<1>4. x = 0 \/ r >= Crypto!Pow(x - 1)
  <2>1. CASE x # 0
    <3>1. x - 1 \in 0..Word /\ x - 1 \in Nat /\ ~(x <= x - 1)
      BY <1>1, <1>3, <2>1
    <3>2. x - 1 \notin Fit
      <4> HIDE DEF Fit
      <4> QED
        BY <1>2, <3>1
    <3>3. PICK y \in Nat : y = Crypto!Pow(x - 1)
      BY <3>1, PowGrows
    <3>4. ~(r < y)
      BY <3>1, <3>2, <3>3
    <3>5. r >= y
      BY <3>4
    <3> QED
      BY <3>3, <3>5
  <2> QED
    BY <2>1
<1> HIDE DEF Fit
<1>5. PICK len : len = CHOOSE i \in 0..Word : r < Crypto!Pow(i) /\ (i = 0 \/ r >= Crypto!Pow(i - 1))
  OBVIOUS
<1>6. len \in 0..Word /\ r < Crypto!Pow(len) /\ (len = 0 \/ r >= Crypto!Pow(len - 1))
  BY <1>3, <1>4, <1>5, Zenon
<1> QED
  BY <1>5, <1>6

\* The bytes of a number give the number, and there are as many as can be only if it is
\* large enough.
LEMMA BytesLaw ==
    ASSUME NEW r \in Nat, r < Crypto!Pow(Word)
    PROVE  /\ Crypto!Bytes(r) \in Seq(Nat) /\ Len(Crypto!Bytes(r)) \in 0..Word
           /\ Crypto!SetBytes(Crypto!Bytes(r)) = r
           /\ Len(Crypto!Bytes(r)) = Word <=> r >= Crypto!Pow(Word - 1)
<1>1. PICK len \in 0..Word :
        /\ len = CHOOSE i \in 0..Word : r < Crypto!Pow(i) /\ (i = 0 \/ r >= Crypto!Pow(i - 1))
        /\ r < Crypto!Pow(len) /\ (len = 0 \/ r >= Crypto!Pow(len - 1))
  BY BytesLen
<1>2. len \in Nat /\ Word \in Nat /\ Word >= 1 /\ Base \in Nat /\ Base >= 2
  BY Lengths
<1>3. PICK b : b = [i \in 1..len |-> (r \div Crypto!Pow(len - i)) % Base]
  OBVIOUS
<1>4. Crypto!Bytes(r) = b
  BY <1>1, <1>3 DEF Crypto!Bytes
<1> DEFINE W(i) == r \div Crypto!Pow(len - i)
<1>5. ASSUME NEW i \in 0..len PROVE len - i \in Nat /\ Crypto!Pow(len - i) \in Nat /\ Crypto!Pow(len - i) >= 1 /\ W(i) \in Nat
  <2>1. len - i \in Nat
    BY <1>2
  <2>2. PICK y \in Nat : y = Crypto!Pow(len - i) /\ y >= 1
    BY <2>1, PowGrows
  <2>3. r \div y \in Nat
    BY <2>2
  <2> QED
    BY <2>1, <2>2, <2>3
<1>6. ASSUME NEW i \in 1..len PROVE b[i] = W(i) % Base /\ b[i] \in Nat
  <2>1. PICK x \in Nat : x = W(i)
    <3>1. i \in 0..len
      BY <1>2
    <3> QED
      BY <1>5, <3>1
  <2>2. x % Base \in Nat
    BY <1>2
  <2> QED
    BY <1>3, <2>1, <2>2
<1>7. b \in Seq(Nat) /\ Len(b) = len
  <2>1. b = [i \in 1..len |-> b[i]]
    BY <1>3
  <2> QED
    BY <1>2, <1>6, <2>1, Listed
<1>8. PICK v : Sums(v, b, len) /\ Crypto!SetBytes(b) = v[len]
  BY <1>7, SetBytesRuns
<1>9. W(0) = 0
  <2>1. PICK y \in Nat : y = Crypto!Pow(len) /\ y >= 1 /\ r < y
    BY <1>1, <1>2, PowGrows
  <2>2. r \div y = 0
    BY <2>1
  <2> QED
    BY <1>2, <2>1, <2>2
<1>10. ASSUME NEW i \in 1..len PROVE W(i) = W(i - 1) * Base + b[i]
  <2>1. PICK k \in Nat : k = len - i /\ len - (i - 1) = k + 1
    BY <1>2
  <2>2. PICK y \in Nat : y = Crypto!Pow(k) /\ y >= 1
    BY <2>1, PowGrows
  <2>3. Crypto!Pow(k + 1) = Base * y
    BY <2>1, <2>2, PowNext
  <2>4. PICK q \in Nat : q = r \div y
    BY <2>2
  <2>5. r \div (Base * y) = q \div Base
    <3>1. Base * y = y * Base
      BY <1>2
    <3>2. (r \div y) \div Base = r \div (y * Base)
      BY <1>2, <2>2
    <3> QED
      BY <2>4, <3>1, <3>2
  <2>6. q = (q \div Base) * Base + (q % Base)
    BY <1>2
  <2>7. W(i) = q /\ W(i - 1) = q \div Base
    BY <2>1, <2>2, <2>3, <2>4, <2>5
  <2>8. b[i] = q % Base
    BY <1>6, <2>7
  <2> QED
    BY <2>6, <2>7, <2>8
<1>11. PICK w : w = [i \in 0..len |-> W(i)]
  OBVIOUS
<1>12. w[0] = v[0] /\ \A i \in 1..len : w[i - 1] = v[i - 1] => w[i] = v[i]
  <2>1. w[0] = 0 /\ v[0] = 0
    <3>1. 0 \in 0..len
      BY <1>2
    <3> QED
      BY <1>8, <1>9, <1>11, <3>1 DEF Sums
  <2>2. ASSUME NEW i \in 1..len, w[i - 1] = v[i - 1] PROVE w[i] = v[i]
    <3>1. i \in 0..len /\ i - 1 \in 0..len
      BY <1>2
    <3>2. w[i] = W(i) /\ w[i - 1] = W(i - 1)
      BY <1>11, <3>1
    <3> HIDE DEF W
    <3>3. v[i] = v[i - 1] * Base + b[i]
      BY <1>8 DEF Sums
    <3> QED
      BY <1>10, <2>2, <3>2, <3>3
  <2> QED
    BY <2>1, <2>2
<1>13. w[len] = v[len]
  <2>1. \A i \in 0..len : w[i] = v[i]
    BY <1>2, <1>12, LoopsAgree
  <2> QED
    BY <1>2, <2>1
<1>14. w[len] = r
  <2>1. len \in 0..len /\ len - len = 0
    BY <1>2
  <2>2. Crypto!Pow(0) = 1
    BY <1>2, PowNext
  <2>3. r \div 1 = r
    OBVIOUS
  <2> QED
    BY <1>11, <2>1, <2>2, <2>3
<1>15. len = Word <=> r >= Crypto!Pow(Word - 1)
  <2>1. PICK y \in Nat : y = Crypto!Pow(Word - 1)
    <3>1. Word - 1 \in Nat
      BY <1>2
    <3> QED
      BY <3>1, PowGrows
  <2>2. CASE len = Word
    <3>1. len = 0 \/ r >= Crypto!Pow(len - 1)
      BY <1>1
    <3>2. len # 0
      BY <1>2, <2>2
    <3> QED
      BY <2>2, <3>1, <3>2
  <2>3. CASE len # Word
    <3>1. len \in 0..(Word - 1) /\ Word - 1 \in Nat
      BY <1>2, <2>3
    <3>2. Crypto!Pow(len) <= y /\ Crypto!Pow(len) \in Nat
      BY <1>2, <2>1, <3>1, PowGrows
    <3>3. ~(r >= y)
      BY <1>1, <2>1, <3>2
    <3> QED
      BY <2>1, <2>3, <3>3
  <2> QED
    BY <2>2, <2>3
<1> QED
  BY <1>4, <1>7, <1>8, <1>13, <1>14, <1>15

-----------------------------------------------------------------------------
(* The laws of the algorithms, on any text.                                  *)

\* A signature of ecdsa-p256.
LEMMA SignatureLaw ==
    ASSUME NEW r \in Nat, NEW s \in Nat, r < Crypto!Pow(Word), s < Crypto!Pow(Word),
           NEW data, NEW signed
    PROVE  Crypto!EcdsaVerify(data, Crypto!EcdsaSign(r, s), signed, r, s)
             = IF r < Crypto!Pow(Word - 1) \/ s < Crypto!Pow(Word - 1) THEN "error"
               ELSE IF data = signed THEN "valid" ELSE "invalid"
<1>1. PICK a, b : a = Crypto!Bytes(r) /\ b = Crypto!Bytes(s)
  OBVIOUS
<1>2. PICK m, n \in Nat : m = Len(a) /\ n = Len(b) /\ m <= Word /\ n <= Word
  <2>1. Len(a) \in 0..Word /\ Len(b) \in 0..Word /\ Word \in Nat
    BY <1>1, BytesLaw, Lengths
  <2> QED
    BY <2>1
<1>3. a \in Seq(Nat) /\ b \in Seq(Nat) /\ Crypto!SetBytes(a) = r /\ Crypto!SetBytes(b) = s
  BY <1>1, BytesLaw
<1>4. PICK sig : sig = a \o b
  OBVIOUS
<1>5. Len(sig) = m + n
  BY <1>2, <1>3, <1>4
<1>6. PICK y \in Nat : y = Crypto!Pow(Word - 1)
  <2>1. Word - 1 \in Nat
    BY Lengths
  <2> QED
    BY <2>1, PowGrows
<1>7. (m = Word <=> r >= y) /\ (n = Word <=> s >= y)
  BY <1>1, <1>2, <1>6, BytesLaw
<1>8. Len(sig) # 2 * Word <=> (r < y \/ s < y)
  <2>1. m + n # 2 * Word <=> (m # Word \/ n # Word)
    BY <1>2, Lengths
  <2> QED
    BY <1>5, <1>7, <2>1
<1>9. Crypto!EcdsaSign(r, s) = sig
  BY <1>1, <1>4 DEF Crypto!EcdsaSign
<1>10. CASE r < y \/ s < y
  BY <1>6, <1>8, <1>9, <1>10 DEF Crypto!EcdsaVerify
<1>11. CASE ~(r < y \/ s < y)
  <2>1. m = Word /\ n = Word
    BY <1>7, <1>11
  <2>2. Crypto!Prefix(sig, Word) = a /\ Crypto!After(sig, Word) = b
    <3>1. Crypto!Prefix(a \o b, Len(a)) = a /\ Crypto!After(a \o b, Len(a)) = b
      BY <1>3, CutApart
    <3> QED
      BY <1>2, <1>4, <2>1, <3>1
  <2>3. Len(sig) = 2 * Word
    BY <1>8, <1>11
  <2> QED
    BY <1>3, <1>6, <1>9, <1>11, <2>2, <2>3 DEF Crypto!EcdsaVerify
<1> QED
  BY <1>10, <1>11

\* Encryption, without the numbers of a signature.
Enc(algo, k, nonce, p, a) == Crypto!Encrypt(algo, k, nonce, p, a, 5, 7)

\* What the two AEADs give.
LEMMA AeadGives ==
    ASSUME NEW k, NEW nonce, NEW S, NEW p \in Seq(S), NEW a
    PROVE  Crypto!AeadEncrypt(k, nonce, p, a)
             = [ct |-> CtOf(k, nonce, p), nonce |-> nonce, tag |-> TagOf(k, nonce, p, a)]
<1>1. PICK out : out = Crypto!Seal(k, nonce, p, a)
  OBVIOUS
<1>2. /\ Crypto!Prefix(out, Len(out) - TagLen) = CtOf(k, nonce, p)
      /\ Crypto!After(out, Len(out) - TagLen) = TagOf(k, nonce, p, a)
  BY <1>1, SealParts
<1> QED
  BY <1>1, <1>2 DEF Crypto!AeadEncrypt

\* What aes-256-cbc gives.
LEMMA CbcGives ==
    ASSUME NEW k, NEW nonce, NEW p, NEW a, NEW c, c = CtOf(k, nonce, Crypto!padPKCS7(p, Block))
    PROVE  Crypto!CbcEncrypt(k, nonce, p, a)
             = [ct |-> c, nonce |-> nonce, tag |-> Crypto!Mac(k, nonce, c, a)]
  BY DEF Crypto!CbcEncrypt, CtOf

\* What aes-256-cbc takes back.
LEMMA CbcTakes ==
    ASSUME NEW k, NEW nonce, NEW p \in Seq(Nat), NEW a
    PROVE  Crypto!CbcDecrypt(k, Crypto!CbcEncrypt(k, nonce, p, a), a) = Crypto!Took(p)
  BY CbcLaw

\* The algorithms, each with its own functions.
LEMMA ByAlgorithm ==
    ASSUME NEW k, NEW nonce, NEW p, NEW a, NEW e
    PROVE  /\ \A algo \in {"aes-256-gcm", "chacha20-poly1305"} :
                /\ Enc(algo, k, nonce, p, a) = Crypto!AeadEncrypt(k, nonce, p, a)
                /\ Crypto!Decrypt(algo, k, e, a) = Crypto!AeadDecrypt(k, e, a)
           /\ Enc("aes-256-cbc", k, nonce, p, a) = Crypto!CbcEncrypt(k, nonce, p, a)
           /\ Crypto!Decrypt("aes-256-cbc", k, e, a) = Crypto!CbcDecrypt(k, e, a)
           /\ Enc("x25519-aes-256-gcm", k, nonce, p, a) = Crypto!X25519Encrypt(k, nonce, p, a)
           /\ Crypto!Decrypt("x25519-aes-256-gcm", k, e, a) = Crypto!X25519Decrypt(k, e, a)
           /\ Enc("rsa-oaep-4096", k, nonce, p, a) = Crypto!RsaEncrypt(k, p, a)
           /\ Crypto!Decrypt("rsa-oaep-4096", k, e, a) = Crypto!RsaDecrypt(k, e, a)
           /\ \A algo \in {"argon2id", "ed25519", "ecdsa-p256"} :
                \E b : Crypto!Decrypt(algo, k, e, a) = Crypto!Raw(b)
  BY DEF Enc, Crypto!Encrypt, Crypto!Decrypt

\* Each of the ciphers gives back what it was given.
LEMMA RoundTrip ==
    ASSUME NEW algo \in Crypto!Sealing \cup {"rsa-oaep-4096"}, NEW k, NEW nonce, NEW p \in Seq(Nat), NEW a
    PROVE  Crypto!Decrypt(algo, k, Enc(algo, k, nonce, p, a), a) = Crypto!Took(p)
<1>1. CASE algo \in {"aes-256-gcm", "chacha20-poly1305"}
  <2>1. PICK e : e = [ct |-> CtOf(k, nonce, p), nonce |-> nonce, tag |-> TagOf(k, nonce, p, a)]
    OBVIOUS
  <2>2. Enc(algo, k, nonce, p, a) = e
    BY <1>1, <2>1, ByAlgorithm, AeadGives
  <2>3. e.ct = CtOf(k, nonce, p) /\ e.nonce = nonce /\ e.tag = TagOf(k, nonce, p, a)
    BY <2>1
  <2>4. Crypto!AeadDecrypt(k, e, a) = Crypto!Open(k, nonce, CtOf(k, nonce, p) \o TagOf(k, nonce, p, a), a)
    BY <2>3 DEF Crypto!AeadDecrypt
  <2>5. Crypto!Decrypt(algo, k, e, a) = Crypto!AeadDecrypt(k, e, a)
    BY <1>1, ByAlgorithm
  <2> QED
    BY <2>2, <2>4, <2>5, OpensOwn
<1>2. CASE algo = "aes-256-cbc"
  <2>1. PICK e : e = Crypto!CbcEncrypt(k, nonce, p, a)
    OBVIOUS
  <2>2. Crypto!CbcDecrypt(k, e, a) = Crypto!Took(p)
    BY <2>1, CbcTakes
  <2>3. Enc(algo, k, nonce, p, a) = e
    BY <1>2, <2>1, ByAlgorithm
  <2>4. Crypto!Decrypt(algo, k, e, a) = Crypto!CbcDecrypt(k, e, a)
    BY <1>2, ByAlgorithm
  <2> QED
    BY <2>2, <2>3, <2>4
<1>3. CASE algo = "x25519-aes-256-gcm"
  <2>1. PICK e, sh : e = Crypto!X25519Encrypt(k, nonce, p, a) /\ sh = SharedKey(k, nonce)
    OBVIOUS
  <2>2. Enc(algo, k, nonce, p, a) = e
    BY <1>3, <2>1, ByAlgorithm
  <2>3. IsX25519(k, nonce, p, a, e)
    BY <2>1, X25519Law
  <2>4. /\ e.nonce = nonce /\ e.tag = TagOf(sh, nonce, p, a)
        /\ Crypto!X25519Decrypt(k, e, a) = Crypto!Open(sh, e.nonce, CtOf(sh, nonce, p) \o e.tag, a)
    BY <2>1, <2>3 DEF IsX25519
  <2>5. Crypto!Open(sh, nonce, CtOf(sh, nonce, p) \o TagOf(sh, nonce, p, a), a) = Crypto!Took(p)
    BY OpensOwn
  <2>6. Crypto!Decrypt(algo, k, e, a) = Crypto!X25519Decrypt(k, e, a)
    BY <1>3, ByAlgorithm
  <2> QED
    BY <2>2, <2>4, <2>5, <2>6
<1>4. CASE algo = "rsa-oaep-4096"
  <2>1. PICK x : x = <<"rsa", k, "none", <<p, a>>>>
    OBVIOUS
  <2>2. PICK e : e = [ct |-> <<x>>, nonce |-> <<>>, tag |-> <<>>]
    OBVIOUS
  <2>3. Enc(algo, k, nonce, p, a) = e
    BY <1>4, <2>1, <2>2, ByAlgorithm DEF Crypto!RsaEncrypt
  <2>4. Len(e.ct) = 1 /\ e.ct[1] = x
    BY <2>2
  <2>5. x[2] = k /\ x[4] = <<p, a>> /\ x[4][1] = p /\ x[4][2] = a
    BY <2>1
  <2>6. Crypto!RsaDecrypt(k, e, a) = Crypto!Took(p)
    BY <2>4, <2>5 DEF Crypto!RsaDecrypt
  <2>7. Crypto!Decrypt(algo, k, e, a) = Crypto!RsaDecrypt(k, e, a)
    BY <1>4, ByAlgorithm
  <2> QED
    BY <2>3, <2>6, <2>7
<1> QED
  BY <1>1, <1>2, <1>3, <1>4 DEF Crypto!Sealing

\* A ciphertext with the tag that belongs to additional data a opens with no other key and
\* no other additional data.
LEMMA Binding ==
    ASSUME NEW algo \in Crypto!Sealing, NEW k, NEW nonce, NEW p \in Seq(Nat), NEW S,
           NEW a \in Seq(S), NEW a1 \in Seq(S), NEW kb, NEW a2 \in Seq(S), kb # k \/ a2 # a,
           NEW e1, e1 = Enc(algo, k, nonce, p, a1), NEW e, e = Enc(algo, k, nonce, p, a),
           NEW f, f.ct = e1.ct, f.nonce = e1.nonce, f.tag = e.tag
    PROVE  Crypto!Decrypt(algo, kb, f, a2) = Crypto!Failed
<1>1. CASE algo \in {"aes-256-gcm", "chacha20-poly1305"}
  <2>1. e1 = Crypto!AeadEncrypt(k, nonce, p, a1) /\ e = Crypto!AeadEncrypt(k, nonce, p, a)
    BY <1>1, ByAlgorithm
  <2>2. /\ e1 = [ct |-> CtOf(k, nonce, p), nonce |-> nonce, tag |-> TagOf(k, nonce, p, a1)]
        /\ e = [ct |-> CtOf(k, nonce, p), nonce |-> nonce, tag |-> TagOf(k, nonce, p, a)]
    BY <2>1, AeadGives
  <2>3. f.ct = CtOf(k, nonce, p) /\ f.nonce = nonce /\ f.tag = TagOf(k, nonce, p, a)
    BY <2>2
  <2>4. Crypto!AeadDecrypt(kb, f, a2) = Crypto!Open(kb, nonce, CtOf(k, nonce, p) \o TagOf(k, nonce, p, a), a2)
    BY <2>3 DEF Crypto!AeadDecrypt
  <2>5. Crypto!Decrypt(algo, kb, f, a2) = Crypto!AeadDecrypt(kb, f, a2)
    BY <1>1, ByAlgorithm
  <2> QED
    BY <2>4, <2>5, OpensNoOther
<1>2. CASE algo = "aes-256-cbc"
  <2>1. PICK w : w = Crypto!padPKCS7(p, Block)
    OBVIOUS
  <2>2. PICK c : c = CtOf(k, nonce, w)
    OBVIOUS
  <2>3. w \in Seq(Nat)
    BY <2>1, PadLaw
  <2>4. PICK T : c \in Seq(T)
    BY <2>2, <2>3, SealedLists
  <2>5. e1 = Crypto!CbcEncrypt(k, nonce, p, a1) /\ e = Crypto!CbcEncrypt(k, nonce, p, a)
    BY <1>2, ByAlgorithm
  <2>6. c = CtOf(k, nonce, Crypto!padPKCS7(p, Block))
    BY <2>1, <2>2
  <2>7. /\ e1 = [ct |-> c, nonce |-> nonce, tag |-> Crypto!Mac(k, nonce, c, a1)]
        /\ e = [ct |-> c, nonce |-> nonce, tag |-> Crypto!Mac(k, nonce, c, a)]
    BY <2>5, <2>6, CbcGives
  <2>8. f.ct = c /\ f.nonce = nonce /\ f.tag = Crypto!Mac(k, nonce, c, a)
    BY <2>7
  <2>9. PICK U : U = S \cup T
    OBVIOUS
  <2>10. c \in Seq(U) /\ a \in Seq(U) /\ a2 \in Seq(U)
    <3>1. S \subseteq U /\ T \subseteq U
      BY <2>9
    <3> QED
      BY <2>4, <3>1
  <2>11. Crypto!Mac(k, nonce, c, a) # Crypto!Mac(kb, nonce, c, a2)
    BY <2>10, MacsDiffer
  <2>12. Crypto!CbcDecrypt(kb, f, a2) = Crypto!Failed
    BY <2>8, <2>11 DEF Crypto!CbcDecrypt
  <2> QED
    BY <1>2, <2>12, ByAlgorithm
<1>3. CASE algo = "x25519-aes-256-gcm"
  <2>1. PICK sh, sh2 : sh = SharedKey(k, nonce) /\ sh2 = SharedKey(kb, nonce)
    OBVIOUS
  <2>2. e1 = Crypto!X25519Encrypt(k, nonce, p, a1) /\ e = Crypto!X25519Encrypt(k, nonce, p, a)
    BY <1>3, ByAlgorithm
  <2>3. IsX25519(k, nonce, p, a1, e1) /\ IsX25519(k, nonce, p, a, e)
    BY <2>2, X25519Law
  <2>4. e1.nonce = nonce /\ e.tag = TagOf(sh, nonce, p, a)
    BY <2>1, <2>3 DEF IsX25519
  <2>5. f.nonce = nonce /\ f.tag = TagOf(sh, nonce, p, a)
    BY <2>4
  <2>6. Crypto!X25519Decrypt(kb, f, a2) = Crypto!Open(sh2, f.nonce, CtOf(sh, nonce, p) \o f.tag, a2)
    BY <2>1, <2>3 DEF IsX25519
  <2>7. sh2 # sh \/ a2 # a
    BY <2>1, SecretsDiffer
  <2>8. Crypto!Open(sh2, nonce, CtOf(sh, nonce, p) \o TagOf(sh, nonce, p, a), a2) = Crypto!Failed
    BY <2>7, OpensNoOther
  <2>9. Crypto!Decrypt(algo, kb, f, a2) = Crypto!X25519Decrypt(kb, f, a2)
    BY <1>3, ByAlgorithm
  <2> QED
    BY <2>5, <2>6, <2>8, <2>9
<1> QED
  BY <1>1, <1>2, <1>3 DEF Crypto!Sealing

\* The fields of a ciphertext.
LEMMA Fields ==
    ASSUME NEW algo \in Crypto!Sealing, NEW k, NEW nonce, NEW p \in Seq(Nat), NEW a
    PROVE  DOMAIN Enc(algo, k, nonce, p, a) = {"ct", "nonce", "tag"}
<1>1. CASE algo \in {"aes-256-gcm", "chacha20-poly1305"}
  <2>1. Enc(algo, k, nonce, p, a) = [ct |-> CtOf(k, nonce, p), nonce |-> nonce, tag |-> TagOf(k, nonce, p, a)]
    BY <1>1, ByAlgorithm, AeadGives
  <2> QED
    BY <2>1
<1>2. CASE algo = "aes-256-cbc"
  <2>1. PICK c : c = CtOf(k, nonce, Crypto!padPKCS7(p, Block))
    OBVIOUS
  <2>2. Crypto!CbcEncrypt(k, nonce, p, a) = [ct |-> c, nonce |-> nonce, tag |-> Crypto!Mac(k, nonce, c, a)]
    BY <2>1, CbcGives
  <2>3. Enc(algo, k, nonce, p, a) = Crypto!CbcEncrypt(k, nonce, p, a)
    BY <1>2, ByAlgorithm
  <2> QED
    BY <2>2, <2>3
<1>3. CASE algo = "x25519-aes-256-gcm"
  <2>1. PICK e : e = Crypto!X25519Encrypt(k, nonce, p, a)
    OBVIOUS
  <2>2. DOMAIN e = {"ct", "nonce", "tag"}
    BY <2>1, X25519Law DEF IsX25519
  <2>3. Enc(algo, k, nonce, p, a) = e
    BY <1>3, <2>1, ByAlgorithm
  <2> QED
    BY <2>2, <2>3
<1> QED
  BY <1>1, <1>2, <1>3 DEF Crypto!Sealing

\* The texts of the probes are lists of numbers.
LEMMA TextsAreLists == Texts \subseteq Seq(Nat)
<1> SUFFICES ASSUME NEW p \in Texts PROVE p \in Seq(Nat)
  OBVIOUS
<1>1. PICK n \in 0..MaxText : p \in [1..n -> 0..2]
  BY DEF Texts
<1>2. n \in Nat
  BY Lengths
<1>3. p = [i \in 1..n |-> p[i]] /\ \A i \in 1..n : p[i] \in Nat
  BY <1>1
<1> QED
  BY <1>2, <1>3, Listed

\* The additional data of the probes are lists.
LEMMA AadsAreLists == \E S : Aads \subseteq Seq(S)
<1>1. PICK x, y : x = <<"aad", "none", "none", 1>> /\ y = <<"aad", "none", "none", 2>>
  OBVIOUS
<1>2. PICK S : S = {x, y}
  OBVIOUS
<1>3. <<>> \in Seq(S) /\ <<x>> \in Seq(S) /\ <<y>> \in Seq(S)
  BY <1>2
<1>4. Aads = {<<>>, <<x>>, <<y>>}
  BY <1>1 DEF Aads
<1> QED
  BY <1>3, <1>4

\* What a run is about.
ProbeKnown == probe \in Probes \cup {[of |-> "columns"], [of |-> "table"]}

\* The probe of a text.
LEMMA TextProbe ==
    ASSUME ProbeKnown, probe.of = "text"
    PROVE  probe.algo \in Crypto!Algorithms /\ probe.p \in Texts /\ probe.aad \in Aads
  BY DEF ProbeKnown, Probes

\* The probe of a signature.
LEMMA SignProbe ==
    ASSUME ProbeKnown, probe.of = "sign"
    PROVE  probe.r \in Numbers /\ probe.s \in Numbers
  BY DEF ProbeKnown, Probes

\* A text comes back from the ciphers, and from nothing else.
LEMMA RoundTripHolds == ProbeKnown => ProbeRoundTrip
<1> SUFFICES ASSUME ProbeKnown, probe.of = "text"
             PROVE  (Crypto!Decrypt(probe.algo, "key", Sealed(probe.aad), probe.aad) = Crypto!Took(probe.p))
                       <=> probe.algo \in Crypto!Sealing \cup {"rsa-oaep-4096"}
  BY DEF ProbeRoundTrip
<1>1. PICK algo, p, a : algo = probe.algo /\ p = probe.p /\ a = probe.aad
  OBVIOUS
<1>2. algo \in Crypto!Algorithms /\ p \in Seq(Nat)
  BY <1>1, TextProbe, TextsAreLists
<1>3. PICK e : e = Enc(algo, "key", "nonce", p, a)
  OBVIOUS
<1>4. Sealed(probe.aad) = e
  BY <1>1, <1>3 DEF Sealed, Enc
<1>5. algo \in Crypto!Sealing \cup {"rsa-oaep-4096"} => Crypto!Decrypt(algo, "key", e, a) = Crypto!Took(p)
  BY <1>2, <1>3, RoundTrip
<1>6. ASSUME algo \notin Crypto!Sealing \cup {"rsa-oaep-4096"}
      PROVE  Crypto!Decrypt(algo, "key", e, a) # Crypto!Took(p)
  <2>1. algo \in {"argon2id", "ed25519", "ecdsa-p256"}
    BY <1>2, <1>6 DEF Crypto!Algorithms
  <2>2. PICK b : Crypto!Decrypt(algo, "key", e, a) = Crypto!Raw(b)
    BY <2>1, ByAlgorithm
  <2>3. "text" \in DOMAIN Crypto!Took(p) /\ "text" \notin DOMAIN Crypto!Raw(b)
    BY DEF Crypto!Took, Crypto!Raw
  <2> QED
    BY <2>2, <2>3
<1> QED
  BY <1>1, <1>4, <1>5, <1>6

\* A ciphertext is bound to its key, its additional data and its tag.
LEMMA BindingHolds == ProbeKnown => ProbeBinding
<1> SUFFICES ASSUME ProbeKnown, probe.of = "text", probe.algo \in Crypto!Sealing
             PROVE  /\ Crypto!Decrypt(probe.algo, "other", Sealed(probe.aad), probe.aad) = Crypto!Failed
                    /\ \A ad \in Aads \ {probe.aad} :
                         /\ Crypto!Decrypt(probe.algo, "key", Sealed(probe.aad), ad) = Crypto!Failed
                         /\ Crypto!Decrypt(probe.algo, "key",
                                [Sealed(probe.aad) EXCEPT !.tag = Sealed(ad).tag], probe.aad) = Crypto!Failed
  BY DEF ProbeBinding
<1>1. PICK algo, p, a : algo = probe.algo /\ p = probe.p /\ a = probe.aad
  OBVIOUS
<1>2. algo \in Crypto!Sealing /\ p \in Seq(Nat) /\ a \in Aads
  BY <1>1, TextProbe, TextsAreLists
<1>3. PICK S : Aads \subseteq Seq(S)
  BY AadsAreLists
<1>4. PICK e : e = Enc(algo, "key", "nonce", p, a)
  OBVIOUS
<1>5. Sealed(probe.aad) = e
  BY <1>1, <1>4 DEF Sealed, Enc
<1>6. Crypto!Decrypt(algo, "other", e, a) = Crypto!Failed
  <2>1. "other" # "key"
    OBVIOUS
  <2> QED
    BY <1>2, <1>3, <1>4, <2>1, Binding
<1>7. ASSUME NEW ad \in Aads \ {a}
      PROVE  /\ Crypto!Decrypt(algo, "key", e, ad) = Crypto!Failed
             /\ Crypto!Decrypt(algo, "key", [e EXCEPT !.tag = Sealed(ad).tag], a) = Crypto!Failed
  <2>1. ad \in Seq(S) /\ a \in Seq(S) /\ ad # a
    BY <1>2, <1>3
  <2>2. Crypto!Decrypt(algo, "key", e, ad) = Crypto!Failed
    BY <1>2, <1>4, <2>1, Binding
  <2>3. PICK d : d = Enc(algo, "key", "nonce", p, ad)
    OBVIOUS
  <2>4. Sealed(ad) = d
    BY <1>1, <2>3 DEF Sealed, Enc
  <2>5. PICK f : f = [e EXCEPT !.tag = d.tag]
    OBVIOUS
  <2>6. f.ct = e.ct /\ f.nonce = e.nonce /\ f.tag = d.tag
    <3>1. DOMAIN e = {"ct", "nonce", "tag"}
      BY <1>2, <1>4, Fields
    <3> QED
      BY <2>5, <3>1
  <2>7. Crypto!Decrypt(algo, "key", f, a) = Crypto!Failed
    BY <1>2, <1>4, <2>1, <2>3, <2>6, Binding
  <2> QED
    BY <2>2, <2>4, <2>5, <2>7
<1> QED
  BY <1>1, <1>5, <1>6, <1>7

\* A signature verifies when both of its numbers need all their bytes.
LEMMA SignatureHolds == ProbeKnown => ProbeSignature
<1> SUFFICES ASSUME ProbeKnown, probe.of = "sign" PROVE ProbeSignature
  BY DEF ProbeSignature
<1>1. PICK r, s : r = probe.r /\ s = probe.s
  OBVIOUS
<1>2. r \in Nat /\ s \in Nat /\ r < Crypto!Pow(Word) /\ s < Crypto!Pow(Word)
  <2>1. Crypto!Pow(Word) \in Nat
    BY Lengths, PowGrows
  <2> QED
    BY <1>1, <2>1, SignProbe DEF Numbers
<1> QED
  BY <1>1, <1>2, SignatureLaw DEF ProbeSignature

\* What every run of the data is about stays what it is, so the laws of the algorithms hold.
\* With any lengths and any bound on the texts: a text comes back from the five ciphers and from
\* no other algorithm, a ciphertext opens with no other key, additional data or tag, and a
\* signature of ecdsa-p256 is refused exactly when a number has a leading zero (algorithms.go,
\* modern.go).
THEOREM AlgorithmsAreRight == MCSpec => []CipherLaws
<1>1. MCInit => ProbeKnown
  BY DEF MCInit, On, ProbeKnown
<1>2. ProbeKnown /\ [MCNext]_<<vars, tableVars, probe>> => ProbeKnown'
  BY DEF ProbeKnown, MCNext, Probes, Numbers, Texts, Aads
<1>3. ProbeKnown => CipherLaws
  BY RoundTripHolds, BindingHolds, SignatureHolds DEF CipherLaws
<1> QED
  BY <1>1, <1>2, <1>3, PTL DEF MCSpec

=============================================================================
