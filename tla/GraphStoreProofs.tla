--------------------------- MODULE GraphStoreProofs ---------------------------
(***************************************************************************)
(* The graph store keeps GraphInv, and no statement writes over a node it  *)
(* had seen, for any objects, goroutines, files and numbers of statements. *)
(*                                                                         *)
(* The identifier of a new node is made before the lock is taken; what     *)
(* makes it good is that the nodes there were then are still there: nodes  *)
(* only go away in DropDatabase, which waits for its own lock for ever, so *)
(* that nobody else changes or saves the object after it.                  *)
(*                                                                         *)
(* And TRAVERSE, which takes no lock, answers as it should whatever is     *)
(* added meanwhile, for any graph, start and depth.                        *)
(***************************************************************************)
EXTENDS GraphStore, FiniteSetTheorems, WellFoundedInduction, TLAPS

Dense(f) == \E n \in Nat : DOMAIN f = 1..n

Bys(es) == {e.by : e \in ToSet(es)}

\* DropDatabase waits for the lock that it holds.
Stuck(o) ==
    \E q \in Editors : lock[o] = q /\ pc[q] = "save" /\ job[q].op = "drop" /\ job[q].obj = o

NodeFields == {"op", "obj", "by", "id", "known", "text"}
EdgeFields == {"op", "obj", "by", "from", "to", "text"}

\* The locals of the request of q.
KnownJob(q) ==
    /\ job[q].obj \in used
    /\ job[q].op \in {"node", "edge", "close", "drop"}
    /\ "text" \in DOMAIN job[q]
    /\ "obj" \in DOMAIN job[q]
    /\ "op" \in DOMAIN job[q]
    /\ job[q].op = "node" =>
         /\ DOMAIN job[q] = NodeFields
         /\ job[q].id \in Nat \ {0}
         /\ job[q].known = 1..(job[q].id - 1)
    /\ job[q].op = "edge" =>
         /\ DOMAIN job[q] = EdgeFields
         /\ job[q].from \in Nat /\ job[q].to \in Nat /\ job[q].by \in Int

\* Whoever changes or writes holds the lock.
HoldsLock(q) ==
    /\ pc[q] \in {"changing", "saving"} => lock[job[q].obj] = q
    /\ pc[q] \in {"change", "changing"} => job[q].op \in {"node", "edge"}
    /\ job[q].op = "drop" => pc[q] = "save" /\ lock[job[q].obj] = q

\* The nodes there were stay until the new one is made; it then stays.
KnownStay(q) ==
    /\ job[q].op = "node" /\ pc[q] \in {"change", "changing"} =>
         Stuck(job[q].obj) \/ job[q].known \subseteq DOMAIN nodes[job[q].obj]
    /\ job[q].op = "node" /\ pc[q] = "save" =>
         Stuck(job[q].obj) \/ job[q].id \in DOMAIN nodes[job[q].obj]
    /\ job[q].op = "edge" /\ pc[q] = "save" =>
         Stuck(job[q].obj) \/ job[q].by \in Bys(edges[job[q].obj])

\* What is being written holds all that is to be answered for.
TextOK(q) ==
    pc[q] = "saving" =>
      /\ Dense(job[q].text.nodes)
      /\ job[q].text.edges \in Seq(Edges)
      /\ acked[job[q].obj].nodes \subseteq DOMAIN job[q].text.nodes
      /\ acked[job[q].obj].edges \subseteq Bys(job[q].text.edges)
      /\ DOMAIN job[q].text.nodes \subseteq DOMAIN nodes[job[q].obj]
      /\ Bys(job[q].text.edges) \subseteq Bys(edges[job[q].obj])
      /\ job[q].op = "node" => job[q].id \in DOMAIN job[q].text.nodes
      /\ job[q].op = "edge" => job[q].by \in Bys(job[q].text.edges)

EditOK(q) ==
    pc[q] # "idle" => KnownJob(q) /\ HoldsLock(q) /\ KnownStay(q) /\ TextOK(q)

\* The memory of an object.
ObjectOK(o) ==
    /\ Dense(nodes[o])
    /\ DOMAIN acked[o] = {"nodes", "edges"}
    /\ \/ Stuck(o)
       \/ /\ acked[o].nodes \subseteq DOMAIN nodes[o]
          /\ acked[o].edges \subseteq Bys(edges[o])

FileOK ==
    file # Torn =>
      /\ Dense(file.nodes)
      /\ file.edges \in Seq(Edges)
      /\ owner # None =>
           /\ acked[owner].nodes \subseteq DOMAIN file.nodes
           /\ acked[owner].edges \subseteq Bys(file.edges)

Shape ==
    /\ DOMAIN nodes = Objects
    /\ DOMAIN edges = Objects
    /\ DOMAIN lock = Objects
    /\ DOMAIN acked = Objects
    /\ DOMAIN pc = Requests
    /\ DOMAIN job = Requests
    /\ owner \in used \cup {None}

GraphIInv ==
    /\ TypeOK
    /\ Shape
    /\ \A o \in Objects : ObjectOK(o)
    /\ \A q \in Editors : EditOK(q)
    /\ FileOK

\* A step that takes nothing from the object.
Grows(o) == DOMAIN nodes[o] \subseteq DOMAIN nodes'[o] /\ Bys(edges[o]) \subseteq Bys(edges'[o])

-----------------------------------------------------------------------------

\* What the constants assume, as the proofs use it.
LEMMA Constants ==
    /\ None \notin Objects
    /\ \A q \in Editors : q \in Requests /\ q # None /\ q \notin Browsers
    /\ \A q \in Browsers : q \in Requests /\ q # None /\ q \notin Editors
    /\ MaxWrites \in Nat /\ MaxCrashes \in Nat
BY GraphAssumption DEF Requests

\* Identifiers 1 to n without a gap are as many as there are.
LEMMA DenseCount ==
    ASSUME NEW f, Dense(f)
    PROVE  /\ DOMAIN f = 1..Cardinality(DOMAIN f)
           /\ Cardinality(DOMAIN f) \in Nat
           /\ DOMAIN f \subseteq Nat \ {0}
<1>1. PICK n \in Nat : DOMAIN f = 1..n
    BY DEF Dense
<1>2. Cardinality(1..n) = n
    BY FS_Interval
<1> QED
    BY <1>1, <1>2

\* A node whose identifier is not past the next one leaves no gap.
LEMMA DenseInsert ==
    ASSUME NEW f, NEW g, Dense(f), NEW k \in Nat \ {0}, 1..(k - 1) \subseteq DOMAIN f,
           DOMAIN g = DOMAIN f \cup {k}
    PROVE  Dense(g)
<1>1. PICK n \in Nat : DOMAIN f = 1..n
    BY DEF Dense
<1>2. CASE k \in 1..n
    <2>1. DOMAIN g = 1..n
        BY <1>1, <1>2
    <2> QED
        BY <2>1 DEF Dense
<1>3. CASE k \notin 1..n
    <2>1. k > n
        BY <1>3
    <2>2. k - 1 \in 1..n \/ k = 1
        BY <1>1
    <2>3. k = n + 1
        BY <2>1, <2>2
    <2>4. DOMAIN g = 1..(n + 1)
        BY <1>1, <2>3
    <2> QED
        BY <2>4 DEF Dense
<1> QED
    BY <1>2, <1>3

\* An empty memory has no gap and holds nothing.
LEMMA EmptyFacts ==
    /\ Dense(<<>>) /\ DOMAIN <<>> = {}
    /\ <<>> \in Seq(Edges)
    /\ Held(Empty) = [nodes |-> {}, edges |-> {}]
<1>1. DOMAIN <<>> = 1..0 /\ 1..0 = {}
    OBVIOUS
<1>2. <<>> \in Seq(Edges)
    OBVIOUS
<1>3. Empty.nodes = <<>> /\ Empty.edges = <<>>
    BY DEF Empty
<1>4. ToSet(<<>>) = {}
    BY DEF ToSet
<1>5. {e.by : e \in ToSet(<<>>)} = {}
    BY <1>4
<1>6. Held(Empty) = [nodes |-> {}, edges |-> {}]
    <2>1. DOMAIN Empty.nodes = {}
        BY <1>1, <1>3
    <2>2. {e.by : e \in ToSet(Empty.edges)} = {}
        BY <1>3, <1>5
    <2> QED
        BY <2>1, <2>2 DEF Held
<1> QED
    BY <1>1, <1>2, <1>6 DEF Dense

\* An edge put at the end adds its number and takes none away.
LEMMA AppendBys ==
    ASSUME NEW es \in Seq(Edges), NEW e \in Edges
    PROVE  /\ Append(es, e) \in Seq(Edges)
           /\ Bys(es) \subseteq Bys(Append(es, e))
           /\ e.by \in Bys(Append(es, e))
<1>1. Append(es, e) \in Seq(Edges)
    OBVIOUS
<1>2. /\ Len(Append(es, e)) = Len(es) + 1
      /\ \A i \in 1..Len(es) : Append(es, e)[i] = es[i]
      /\ Append(es, e)[Len(es) + 1] = e
      /\ Len(es) \in Nat
    OBVIOUS
<1>3. ToSet(es) \subseteq ToSet(Append(es, e))
    <2> SUFFICES ASSUME NEW i \in 1..Len(es)
                 PROVE  es[i] \in ToSet(Append(es, e))
        BY DEF ToSet
    <2> QED
        BY <1>2 DEF ToSet
<1>4. e \in ToSet(Append(es, e))
    BY <1>1, <1>2 DEF ToSet
<1> QED
    BY <1>1, <1>3, <1>4 DEF Bys

-----------------------------------------------------------------------------

\* A dropped object stays stuck: nobody takes the lock, and its holder waits for it.
LEMMA StuckStays ==
    ASSUME NEW r \in Requests, NEW o \in Objects, Stuck(o),
           \A q \in Editors : q # r => pc'[q] = pc[q] /\ job'[q] = job[q],
           \A q \in Editors : lock[o] = q /\ q # r => lock'[o] = q,
           lock[o] = r /\ job[r].obj = o => pc[r] # "save"
    PROVE  Stuck(o)'
<1>1. PICK q \in Editors :
          lock[o] = q /\ pc[q] = "save" /\ job[q].op = "drop" /\ job[q].obj = o
    BY DEF Stuck
<1>2. q # r
    BY <1>1
<1> QED
    BY <1>1, <1>2 DEF Stuck

\* A step of others keeps what is known of a request.
LEMMA OtherEditor ==
    ASSUME GraphIInv, NEW q \in Editors, pc'[q] = pc[q], job'[q] = job[q],
           used \subseteq used',
           \A o \in used : lock[o] = q => lock'[o] = q /\ acked'[o] = acked[o],
           \A o \in used : Stuck(o) => Stuck(o)',
           \A o \in used : Stuck(o)' \/ Grows(o)
    PROVE  EditOK(q)'
<1> SUFFICES ASSUME pc[q] # "idle"
             PROVE  (KnownJob(q) /\ HoldsLock(q) /\ KnownStay(q) /\ TextOK(q))'
    BY DEF EditOK
<1> DEFINE x == job[q].obj
<1>0. KnownJob(q) /\ HoldsLock(q) /\ KnownStay(q) /\ TextOK(q)
    BY DEF GraphIInv, EditOK
<1>1. x \in used
    BY <1>0 DEF KnownJob
<1>2. KnownJob(q)'
    BY <1>0 DEF KnownJob
<1>3. HoldsLock(q)'
    BY <1>0, <1>1 DEF HoldsLock
<1>4. KnownStay(q)'
    <2>1. CASE Stuck(x)'
        <3>1. x' = x
            OBVIOUS
        <3>2. Stuck(job[q].obj)'
            BY <2>1, <3>1 DEF Stuck
        <3> QED
            BY <3>2 DEF KnownStay
    <2>2. CASE ~Stuck(x)'
        <3>1. ~Stuck(x) /\ Grows(x)
            BY <1>1, <2>2
        <3> QED
            BY <1>0, <3>1 DEF KnownStay, Grows
    <2> QED
        BY <2>1, <2>2
<1>5. TextOK(q)'
    <2> SUFFICES ASSUME pc[q] = "saving"
                 PROVE  TextOK(q)'
        BY DEF TextOK
    <2>1. lock[x] = q
        BY <1>0 DEF HoldsLock
    <2>2. acked'[x] = acked[x] /\ lock'[x] = q
        BY <1>1, <2>1
    <2>3. ~Stuck(x)'
        BY <2>2 DEF Stuck
    <2>4. Grows(x)
        BY <1>1, <2>3
    <2> QED
        BY <1>0, <2>2, <2>4 DEF TextOK, Grows
<1> QED
    BY <1>2, <1>3, <1>4, <1>5

-----------------------------------------------------------------------------

\* Where the goroutines stand: the part of TypeOK a step of one of them touches.
Places ==
    /\ \A r \in Editors : pc[r] \in {"idle"} \cup Writers
    /\ \A r \in Browsers : pc[r] \in {"idle"} \cup Readers
    /\ \A r \in Requests : pc[r] = "idle" => job[r] = None

\* A goroutine moves, and the others stay where they are.
LEMMA Moves ==
    ASSUME TypeOK, Shape, NEW r \in Requests, NEW l, NEW j, Goto(r, l, j),
           r \in Editors => l \in {"idle"} \cup Writers,
           r \in Browsers => l \in {"idle"} \cup Readers,
           l = "idle" => j = None
    PROVE  /\ pc'[r] = l /\ job'[r] = j
           /\ \A q \in Requests : q # r => pc'[q] = pc[q] /\ job'[q] = job[q]
           /\ DOMAIN pc' = Requests /\ DOMAIN job' = Requests
           /\ Places'
<1>1. /\ pc'[r] = l /\ job'[r] = j
      /\ \A q \in Requests : q # r => pc'[q] = pc[q] /\ job'[q] = job[q]
      /\ DOMAIN pc' = Requests /\ DOMAIN job' = Requests
    BY DEF Goto, Shape
<1>2. Editors \subseteq Requests /\ Browsers \subseteq Requests
    BY DEF Requests
<1>3. \A q \in Editors : pc'[q] \in {"idle"} \cup Writers
    BY <1>1, <1>2 DEF TypeOK
<1>4. \A q \in Browsers : pc'[q] \in {"idle"} \cup Readers
    BY <1>1, <1>2 DEF TypeOK
<1>5. \A q \in Requests : pc'[q] = "idle" => job'[q] = None
    BY <1>1 DEF TypeOK
<1>6. Places'
    BY <1>3, <1>4, <1>5 DEF Places, Writers, Readers
<1> QED
    BY <1>1, <1>6

\* A step that changes only where a goroutine stands keeps the rest.
LEMMA QuietStep ==
    ASSUME GraphIInv, NEW r \in Requests, NEW l, NEW j, Goto(r, l, j),
           r \in Editors => l \in {"idle"} \cup Writers,
           r \in Browsers => l \in {"idle"} \cup Readers,
           l = "idle" => j = None,
           \A o \in Objects : lock[o] = r /\ job[r].obj = o => pc[r] # "save",
           open' \subseteq open,
           UNCHANGED <<used, memory, lock, writing, file, crashes, owner, acked>>,
           writes' \in 0..MaxWrites,
           r \in Editors => EditOK(r)'
    PROVE  GraphIInv'
<1>0. TypeOK /\ Shape /\ FileOK
    BY DEF GraphIInv
<1>1. /\ pc'[r] = l /\ job'[r] = j
      /\ \A q \in Requests : q # r => pc'[q] = pc[q] /\ job'[q] = job[q]
      /\ DOMAIN pc' = Requests /\ DOMAIN job' = Requests
      /\ Places'
    <2> HIDE DEF GraphIInv
    <2> QED
        BY <1>0, Moves
<1>2. TypeOK'
    BY <1>0, <1>1 DEF TypeOK, Places, memory
<1>3. Shape'
    BY <1>0, <1>1 DEF Shape, memory
<1>4. \A o \in Objects : Stuck(o) => Stuck(o)'
    BY <1>1, StuckStays, Constants
<1>5. \A o \in Objects : ObjectOK(o)'
    BY <1>4 DEF GraphIInv, ObjectOK, memory
<1>6. used \subseteq Objects
    BY <1>0 DEF TypeOK
<1>7. \A q \in Editors : EditOK(q)'
    <2>1. \A q \in Editors : q # r => pc'[q] = pc[q] /\ job'[q] = job[q]
        BY <1>1, Constants
    <2>2. \A o \in used : Grows(o)
        BY DEF Grows, memory
    <2>3. \A q \in Editors : q # r => EditOK(q)'
        BY <2>1, <2>2, <1>4, <1>6, OtherEditor
    <2> QED
        BY <2>3
<1>8. FileOK'
    BY <1>0 DEF FileOK
<1> QED
    BY <1>2, <1>3, <1>5, <1>7, <1>8 DEF GraphIInv

\* The readers change nothing.
LEMMA ReadSteps ==
    ASSUME GraphIInv, NEW r \in Browsers,
           ReadStep(r) \/ \E o \in Objects : Browse(r, o)
    PROVE  GraphIInv'
<1>0. r \in Requests /\ r # None /\ r \notin Editors
    BY Constants
<1>1. \A o \in Objects : lock[o] # r
    BY <1>0 DEF GraphIInv, TypeOK
<1>2. writes \in 0..MaxWrites
    BY DEF GraphIInv, TypeOK
<1>3. /\ \/ Goto(r, "idle", None)
         \/ \E l \in Readers : \E j : Goto(r, l, j)
      /\ UNCHANGED <<open, used, memory, lock, writing, file, writes, crashes, owner, acked>>
    BY DEF ReadStep, Browse, Read, ReadReturn, Traverse, ScanBegin, ScanEdge, ScanEnd, NextLevel,
           TraverseReturn, Readers
<1>4. CASE Goto(r, "idle", None)
    BY <1>0, <1>1, <1>2, <1>3, <1>4, QuietStep
<1>5. CASE \E l \in Readers : \E j : Goto(r, l, j)
    <2>1. PICK l \in Readers : \E j : Goto(r, l, j)
        BY <1>5
    <2>2. PICK j : Goto(r, l, j)
        BY <2>1
    <2>3. l # "idle"
        BY <2>1 DEF Readers
    <2> QED
        BY <1>0, <1>1, <1>2, <1>3, <2>2, <2>3, QuietStep
<1> QED
    BY <1>3, <1>4, <1>5

-----------------------------------------------------------------------------

\* CREATE NODE makes the identifier next to those there are.
LEMMA CreateNodeStep ==
    ASSUME GraphIInv, NEW r \in Editors, NEW o \in Objects, CreateNode(r, o)
    PROVE  GraphIInv'
<1> DEFINE n == Cardinality(DOMAIN nodes[o])
           j == [op |-> "node", obj |-> o, by |-> writes', id |-> n + 1,
                 known |-> DOMAIN nodes[o], text |-> Empty]
<1>1. /\ pc[r] = "idle" /\ o \in open /\ writes < MaxWrites /\ writes' = writes + 1
      /\ Goto(r, "change", j)
      /\ UNCHANGED <<open, used, memory, lock, writing, file, crashes, owner, acked>>
    BY DEF CreateNode
<1>2. /\ TypeOK /\ Shape /\ ObjectOK(o)
      /\ r \in Requests /\ r \notin Browsers
    BY Constants DEF GraphIInv
<1>3. o \in used
    BY <1>1, <1>2 DEF TypeOK
<1>4. DOMAIN nodes[o] = 1..n /\ n \in Nat
    BY <1>2, DenseCount DEF ObjectOK
<1>5. writes' \in 0..MaxWrites
    BY <1>1, <1>2, Constants DEF TypeOK
<1>6. /\ j.op = "node" /\ j.obj = o /\ j.id = n + 1 /\ j.known = DOMAIN nodes[o]
      /\ DOMAIN j = NodeFields
    BY DEF NodeFields
<1> HIDE DEF j
<1>7. pc'[r] = "change" /\ job'[r] = j
    BY <1>1, <1>2 DEF Goto, Shape
<1>8. EditOK(r)'
    <2>1. KnownJob(r)'
        BY <1>1, <1>3, <1>4, <1>6, <1>7 DEF KnownJob, NodeFields
    <2>2. HoldsLock(r)'
        BY <1>6, <1>7 DEF HoldsLock
    <2>3. KnownStay(r)'
        BY <1>1, <1>6, <1>7 DEF KnownStay, memory
    <2>4. TextOK(r)'
        BY <1>7 DEF TextOK
    <2> QED
        BY <2>1, <2>2, <2>3, <2>4 DEF EditOK
<1>9. "change" \in {"idle"} \cup Writers
    BY DEF Writers
<1> QED
    BY <1>1, <1>2, <1>5, <1>8, <1>9, QuietStep

\* CREATE EDGE is on its way, with the ends it was given.
LEMMA CreateEdgeStep ==
    ASSUME GraphIInv, NEW r \in Editors, NEW o \in Objects, CreateEdge(r, o)
    PROVE  GraphIInv'
<1>0. PICK e \in NewEdges :
          Goto(r, "change", [op |-> "edge", obj |-> o, by |-> writes', from |-> e[1], to |-> e[2],
                             text |-> Empty])
    BY DEF CreateEdge
<1> DEFINE j == [op |-> "edge", obj |-> o, by |-> writes', from |-> e[1], to |-> e[2],
                 text |-> Empty]
<1>1. /\ pc[r] = "idle" /\ o \in open /\ writes < MaxWrites /\ writes' = writes + 1
      /\ Goto(r, "change", j)
      /\ UNCHANGED <<open, used, memory, lock, writing, file, crashes, owner, acked>>
    BY <1>0 DEF CreateEdge
<1>2. /\ TypeOK /\ Shape
      /\ r \in Requests /\ r \notin Browsers
    BY Constants DEF GraphIInv
<1>3. o \in used
    BY <1>1, <1>2 DEF TypeOK
<1>4. e[1] \in Nat /\ e[2] \in Nat
    BY FirstFileAssumption
<1>5. writes' \in 0..MaxWrites
    BY <1>1, <1>2, Constants DEF TypeOK
<1>6. /\ j.op = "edge" /\ j.obj = o /\ j.from = e[1] /\ j.to = e[2] /\ j.by = writes'
      /\ DOMAIN j = EdgeFields
    BY DEF EdgeFields
<1> HIDE DEF j
<1>7. pc'[r] = "change" /\ job'[r] = j
    BY <1>1, <1>2 DEF Goto, Shape
<1>8. EditOK(r)'
    <2>1. KnownJob(r)'
        BY <1>1, <1>3, <1>4, <1>5, <1>6, <1>7 DEF KnownJob, EdgeFields
    <2>2. HoldsLock(r)'
        BY <1>6, <1>7 DEF HoldsLock
    <2>3. KnownStay(r)'
        BY <1>6, <1>7 DEF KnownStay
    <2>4. TextOK(r)'
        BY <1>7 DEF TextOK
    <2> QED
        BY <2>1, <2>2, <2>3, <2>4 DEF EditOK
<1>9. "change" \in {"idle"} \cup Writers
    BY DEF Writers
<1> QED
    BY <1>1, <1>2, <1>5, <1>8, <1>9, QuietStep

\* Close leaves the memory, and goes on to save.
LEMMA CloseStep ==
    ASSUME GraphIInv, NEW r \in Editors, NEW o \in Objects, Close(r, o)
    PROVE  GraphIInv'
<1> DEFINE j == [op |-> "close", obj |-> o, text |-> Empty]
<1>1. /\ pc[r] = "idle" /\ o \in open /\ open' \subseteq open /\ Goto(r, "save", j)
      /\ UNCHANGED <<used, memory, lock, writing, file, writes, crashes, owner, acked>>
    BY DEF Close
<1>2. /\ TypeOK /\ Shape
      /\ r \in Requests /\ r \notin Browsers
    BY Constants DEF GraphIInv
<1>3. o \in used /\ writes' \in 0..MaxWrites
    BY <1>1, <1>2 DEF TypeOK
<1>4. j.op = "close" /\ j.obj = o /\ DOMAIN j = {"op", "obj", "text"}
    OBVIOUS
<1> HIDE DEF j
<1>5. pc'[r] = "save" /\ job'[r] = j
    BY <1>1, <1>2 DEF Goto, Shape
<1>6. EditOK(r)'
    BY <1>1, <1>3, <1>4, <1>5 DEF EditOK, KnownJob, HoldsLock, KnownStay, TextOK
<1>7. "save" \in {"idle"} \cup Writers
    BY DEF Writers
<1> QED
    BY <1>1, <1>2, <1>3, <1>6, <1>7, QuietStep

\* A file that cannot be opened is left as it is, and nothing is answered.
LEMMA SaveRefusedStep ==
    ASSUME GraphIInv, NEW r \in Editors, SaveRefused(r)
    PROVE  GraphIInv'
<1>1. /\ pc[r] = "save" /\ lock[job[r].obj] = None /\ Goto(r, "idle", None)
      /\ UNCHANGED <<open, used, memory, lock, writing, file, writes, crashes, owner, acked>>
    BY DEF SaveRefused, Object
<1>2. /\ TypeOK /\ Shape
      /\ r \in Requests /\ r \notin Browsers /\ r # None
    BY Constants DEF GraphIInv
<1>3. EditOK(r)'
    BY <1>1, <1>2 DEF EditOK, Goto, Shape
<1>4. writes' \in 0..MaxWrites
    BY <1>1, <1>2 DEF TypeOK
<1> QED
    BY <1>1, <1>2, <1>3, <1>4, QuietStep

-----------------------------------------------------------------------------

\* A step of a goroutine that holds or takes or gives back the lock of an object
\* keeps what is known of the others.
LEMMA LockedStep ==
    ASSUME GraphIInv, NEW r \in Editors, NEW o \in used, NEW l, NEW j, NEW v \in Editors \cup {None},
           Goto(r, l, j), l \in {"idle"} \cup Writers, l = "idle" => j = None,
           \/ lock[o] = None
           \/ lock[o] = r /\ pc[r] # "save",
           pc[r] = "save" => job[r].obj = o,
           lock' = [lock EXCEPT ![o] = v],
           \A x \in Objects \ {o} : /\ nodes'[x] = nodes[x] /\ edges'[x] = edges[x]
                                    /\ acked'[x] = acked[x],
           Stuck(o)' \/ Grows(o),
           used' = used
    PROVE  /\ o \in Objects /\ ~Stuck(o)
           /\ pc'[r] = l /\ Places'
           /\ DOMAIN pc' = Requests /\ DOMAIN job' = Requests /\ DOMAIN lock' = Objects
           /\ \A x \in Objects : lock'[x] \in Editors \cup {None}
           /\ \A q \in Editors : q # r => EditOK(q)'
           /\ \A x \in Objects : x # o => ObjectOK(x)'
<1>0. /\ TypeOK /\ Shape /\ r \in Requests /\ r \notin Browsers /\ r # None
      /\ \A q \in Editors : q \in Requests /\ q # None
      /\ o \in Objects /\ used \subseteq Objects
    BY Constants DEF GraphIInv, TypeOK
<1>1. ~Stuck(o)
    BY <1>0 DEF Stuck
<1>2. /\ pc'[r] = l /\ Places'
      /\ \A q \in Requests : q # r => pc'[q] = pc[q] /\ job'[q] = job[q]
      /\ DOMAIN pc' = Requests /\ DOMAIN job' = Requests
    BY <1>0, Moves
<1>3. /\ \A x \in Objects : x # o => lock'[x] = lock[x]
      /\ DOMAIN lock' = Objects
    BY <1>0 DEF Shape
<1>4. \A x \in Objects : lock'[x] \in Editors \cup {None}
    BY <1>0, <1>3 DEF TypeOK
<1>5. \A x \in Objects : Stuck(x) => Stuck(x)'
    <2> SUFFICES ASSUME NEW x \in Objects, Stuck(x)
                 PROVE  Stuck(x)'
        OBVIOUS
    <2>1. x # o
        BY <1>1
    <2>2. lock'[x] = lock[x]
        BY <1>3, <2>1
    <2>3. lock[x] = r /\ job[r].obj = x => pc[r] # "save"
        BY <2>1
    <2>4. \A q \in Editors : q # r => pc'[q] = pc[q] /\ job'[q] = job[q]
        BY <1>0, <1>2
    <2> QED
        BY <1>0, <2>2, <2>3, <2>4, StuckStays
<1>6. \A x \in Objects : Stuck(x)' \/ Grows(x)
    <2> SUFFICES ASSUME NEW x \in Objects, x # o
                 PROVE  Grows(x)
        OBVIOUS
    <2> QED
        BY DEF Grows
<1>7. \A q \in Editors : q # r => EditOK(q)'
    <2> SUFFICES ASSUME NEW q \in Editors, q # r
                 PROVE  EditOK(q)'
        OBVIOUS
    <2>1. pc'[q] = pc[q] /\ job'[q] = job[q]
        BY <1>0, <1>2
    <2>2. \A x \in used : lock[x] = q => lock'[x] = q /\ acked'[x] = acked[x]
        BY <1>0, <1>3
    <2> QED
        BY <1>0, <1>5, <1>6, <2>1, <2>2, OtherEditor
<1>8. \A x \in Objects : x # o => ObjectOK(x)'
    <2> SUFFICES ASSUME NEW x \in Objects, x # o
                 PROVE  ObjectOK(x)'
        OBVIOUS
    <2>1. ObjectOK(x) /\ nodes'[x] = nodes[x] /\ edges'[x] = edges[x] /\ acked'[x] = acked[x]
        BY DEF GraphIInv
    <2> QED
        BY <2>1, <1>5 DEF ObjectOK
<1> QED
    BY <1>0, <1>1, <1>2, <1>3, <1>4, <1>7, <1>8

\* What holds of a goroutine on its way.
LEMMA Underway ==
    ASSUME GraphIInv, NEW r \in Editors, pc[r] # "idle"
    PROVE  /\ TypeOK /\ Shape /\ FileOK
           /\ KnownJob(r) /\ HoldsLock(r) /\ KnownStay(r) /\ TextOK(r)
           /\ \E o \in used : job[r].obj = o /\ o \in Objects /\ ObjectOK(o)
<1>1. TypeOK /\ Shape /\ FileOK /\ KnownJob(r) /\ HoldsLock(r) /\ KnownStay(r) /\ TextOK(r)
    BY DEF GraphIInv, EditOK
<1>2. job[r].obj \in used /\ used \subseteq Objects
    BY <1>1 DEF KnownJob, TypeOK
<1>3. \A o \in Objects : ObjectOK(o)
    BY DEF GraphIInv
<1> QED
    BY <1>1, <1>2, <1>3

\* A change takes the lock; what it knew of is still there.
LEMMA ChangeBeginStep ==
    ASSUME GraphIInv, NEW r \in Editors, ChangeBegin(r)
    PROVE  GraphIInv'
<1>0. PICK o \in used : job[r].obj = o /\ o \in Objects /\ ObjectOK(o)
    BY Underway DEF ChangeBegin
<1>1. /\ pc[r] = "change" /\ lock[o] = None /\ lock' = [lock EXCEPT ![o] = r]
      /\ writing' = writing \cup {o} /\ Goto(r, "changing", job[r])
      /\ UNCHANGED <<open, used, nodes, edges, file, writes, crashes, owner, acked>>
    BY <1>0 DEF ChangeBegin, Object, memory
<1>2. /\ TypeOK /\ Shape /\ FileOK
      /\ KnownJob(r) /\ HoldsLock(r) /\ KnownStay(r)
      /\ o \in Objects /\ ObjectOK(o) /\ job[r].obj = o
    BY <1>0, <1>1, Underway
<1>3. "changing" \in {"idle"} \cup Writers /\ Grows(o)
    BY <1>1 DEF Writers, Grows
<1>4. /\ ~Stuck(o)
      /\ pc'[r] = "changing" /\ job'[r] = job[r] /\ Places'
      /\ lock'[o] = r
      /\ DOMAIN pc' = Requests /\ DOMAIN job' = Requests /\ DOMAIN lock' = Objects
      /\ \A x \in Objects : lock'[x] \in Editors \cup {None}
      /\ \A q \in Editors : q # r => EditOK(q)'
      /\ \A x \in Objects : x # o => ObjectOK(x)'
    <2>1. /\ lock[o] = None \/ (lock[o] = r /\ pc[r] # "save")
          /\ pc[r] = "save" => job[r].obj = o
          /\ Goto(r, "changing", job[r])
          /\ \A x \in Objects \ {o} : /\ nodes'[x] = nodes[x] /\ edges'[x] = edges[x]
                                      /\ acked'[x] = acked[x]
          /\ lock' = [lock EXCEPT ![o] = r]
          /\ Stuck(o)' \/ Grows(o)
          /\ used' = used
          /\ r \in Editors \cup {None}
          /\ "changing" \in {"idle"} \cup Writers
          /\ "changing" = "idle" => job[r] = None
        BY <1>1, <1>2, <1>3
    <2>2. job'[r] = job[r] /\ lock'[o] = r
        BY <2>1, <1>2, Constants DEF Goto, Shape
    <2>3. /\ ~Stuck(o) /\ pc'[r] = "changing" /\ Places'
          /\ DOMAIN pc' = Requests /\ DOMAIN job' = Requests /\ DOMAIN lock' = Objects
          /\ \A x \in Objects : lock'[x] \in Editors \cup {None}
          /\ \A q \in Editors : q # r => EditOK(q)'
          /\ \A x \in Objects : x # o => ObjectOK(x)'
        BY <2>1, LockedStep
    <2> QED
        BY <2>2, <2>3
<1>5. EditOK(r)'
    <2>1. KnownJob(r)'
        BY <1>1, <1>2, <1>4 DEF KnownJob
    <2>2. HoldsLock(r)'
        BY <1>1, <1>2, <1>4 DEF HoldsLock
    <2>3. KnownStay(r)'
        BY <1>1, <1>2, <1>4 DEF KnownStay
    <2>4. TextOK(r)'
        BY <1>4 DEF TextOK
    <2> QED
        BY <2>1, <2>2, <2>3, <2>4 DEF EditOK
<1>6. ObjectOK(o)'
    BY <1>1, <1>2, <1>4 DEF ObjectOK
<1>7. TypeOK'
    BY <1>1, <1>2, <1>4 DEF TypeOK, Places
<1>8. Shape'
    BY <1>1, <1>2, <1>4 DEF Shape
<1>9. FileOK'
    BY <1>1, <1>2 DEF FileOK
<1> QED
    BY <1>4, <1>5, <1>6, <1>7, <1>8, <1>9 DEF GraphIInv

\* The change itself: the memory has no gap and loses nothing.
LEMMA ChangeMemory ==
    ASSUME GraphIInv, NEW r \in Editors, ChangeEnd(r), NEW o \in Objects, job[r].obj = o
    PROVE  /\ Dense(nodes'[o]) /\ Grows(o) /\ edges'[o] \in Seq(Edges)
           /\ DOMAIN nodes' = Objects /\ DOMAIN edges' = Objects
           /\ \A x \in Objects \ {o} : nodes'[x] = nodes[x] /\ edges'[x] = edges[x]
           /\ \A k \in DOMAIN nodes[o] :
                k # job[r].id => nodes'[o][k] = nodes[o][k]
           /\ job[r].op = "node" => /\ job[r].id \in DOMAIN nodes'[o]
                                    /\ job[r].known \subseteq DOMAIN nodes[o]
           /\ job[r].op = "edge" => nodes' = nodes /\ job[r].by \in Bys(edges'[o])
           /\ job[r].op \in {"node", "edge"}
<1>1. /\ TypeOK /\ Shape /\ KnownJob(r) /\ HoldsLock(r) /\ KnownStay(r) /\ ObjectOK(o)
      /\ pc[r] = "changing" /\ lock[o] = r
    BY Underway DEF ChangeEnd, HoldsLock
<1>2. ~Stuck(o)
    BY <1>1 DEF Stuck
<1>3. job[r].op \in {"node", "edge"}
    BY <1>1 DEF HoldsLock
<1>4. edges[o] \in Seq(Edges) /\ Dense(nodes[o])
    BY <1>1 DEF TypeOK, ObjectOK
<1>5. CASE job[r].op = "node"
    <2>1. /\ job[r].known \subseteq DOMAIN nodes[o] /\ job[r].known = 1..(job[r].id - 1)
          /\ job[r].id \in Nat \ {0}
        BY <1>1, <1>2, <1>5 DEF KnownStay, KnownJob
    <2>2. /\ nodes' = [nodes EXCEPT ![o] = [k \in DOMAIN nodes[o] \cup {job[r].id} |->
                                              IF k = job[r].id THEN job[r].by ELSE nodes[o][k]]]
          /\ edges' = edges
        BY <1>5 DEF ChangeEnd, InsertNode
    <2>3. /\ nodes'[o] = [k \in DOMAIN nodes[o] \cup {job[r].id} |->
                            IF k = job[r].id THEN job[r].by ELSE nodes[o][k]]
          /\ DOMAIN nodes' = Objects /\ DOMAIN edges' = Objects
          /\ \A x \in Objects \ {o} : nodes'[x] = nodes[x] /\ edges'[x] = edges[x]
        BY <1>1, <2>2 DEF Shape
    <2>4. DOMAIN nodes'[o] = DOMAIN nodes[o] \cup {job[r].id}
        BY <2>3
    <2>5. \A k \in DOMAIN nodes[o] : k # job[r].id => nodes'[o][k] = nodes[o][k]
        BY <2>3
    <2>6. Dense(nodes'[o])
        BY <1>4, <2>1, <2>4, DenseInsert
    <2>7. Grows(o)
        BY <2>2, <2>4 DEF Grows
    <2> QED
        BY <1>3, <1>4, <1>5, <2>1, <2>2, <2>3, <2>4, <2>5, <2>6, <2>7
<1>6. CASE job[r].op = "edge"
    <2> DEFINE e == [from |-> job[r].from, to |-> job[r].to, by |-> job[r].by]
    <2>1. /\ job[r].from \in Nat /\ job[r].to \in Nat /\ job[r].by \in Int
        BY <1>1, <1>6 DEF KnownJob
    <2>2. e \in Edges /\ e.by = job[r].by
        BY <2>1 DEF Edges
    <2>3. nodes' = nodes /\ edges' = [edges EXCEPT ![o] = Append(edges[o], e)]
        BY <1>6 DEF ChangeEnd, AppendEdge
    <2> HIDE DEF e
    <2>4. /\ edges'[o] = Append(edges[o], e)
          /\ DOMAIN nodes' = Objects /\ DOMAIN edges' = Objects
          /\ \A x \in Objects \ {o} : nodes'[x] = nodes[x] /\ edges'[x] = edges[x]
        BY <1>1, <2>3 DEF Shape
    <2>5. /\ edges'[o] \in Seq(Edges) /\ Bys(edges[o]) \subseteq Bys(edges'[o])
          /\ job[r].by \in Bys(edges'[o])
        BY <1>4, <2>2, <2>4, AppendBys
    <2> QED
        BY <1>3, <1>4, <1>6, <2>3, <2>4, <2>5 DEF Grows
<1> QED
    BY <1>3, <1>5, <1>6

\* A change gives the lock back, with the new node or edge in the memory.
LEMMA ChangeEndStep ==
    ASSUME GraphIInv, NEW r \in Editors, ChangeEnd(r)
    PROVE  GraphIInv'
<1>0. PICK o \in used : job[r].obj = o /\ o \in Objects /\ ObjectOK(o)
    BY Underway DEF ChangeEnd
<1>1. /\ pc[r] = "changing" /\ lock' = [lock EXCEPT ![o] = None]
      /\ writing' = writing \ {o} /\ Goto(r, "save", job[r])
      /\ UNCHANGED <<open, used, file, writes, crashes, owner, acked>>
    BY <1>0 DEF ChangeEnd, Object
<1>2. /\ TypeOK /\ Shape /\ FileOK /\ KnownJob(r) /\ lock[o] = r
      /\ o \in Objects /\ ObjectOK(o) /\ job[r].obj = o
    BY <1>0, <1>1, Underway DEF HoldsLock
<1>3. /\ Dense(nodes'[o]) /\ Grows(o) /\ edges'[o] \in Seq(Edges)
      /\ DOMAIN nodes' = Objects /\ DOMAIN edges' = Objects
      /\ \A x \in Objects \ {o} : nodes'[x] = nodes[x] /\ edges'[x] = edges[x]
      /\ job[r].op = "node" => job[r].id \in DOMAIN nodes'[o]
      /\ job[r].op = "edge" => job[r].by \in Bys(edges'[o])
      /\ job[r].op \in {"node", "edge"}
    BY <1>2, ChangeMemory
<1>4. /\ ~Stuck(o) /\ pc'[r] = "save" /\ Places'
      /\ DOMAIN pc' = Requests /\ DOMAIN job' = Requests /\ DOMAIN lock' = Objects
      /\ \A x \in Objects : lock'[x] \in Editors \cup {None}
      /\ \A q \in Editors : q # r => EditOK(q)'
      /\ \A x \in Objects : x # o => ObjectOK(x)'
    <2>1. /\ lock[o] = None \/ (lock[o] = r /\ pc[r] # "save")
          /\ pc[r] = "save" => job[r].obj = o
          /\ Goto(r, "save", job[r])
          /\ \A x \in Objects \ {o} : /\ nodes'[x] = nodes[x] /\ edges'[x] = edges[x]
                                      /\ acked'[x] = acked[x]
          /\ lock' = [lock EXCEPT ![o] = None]
          /\ Stuck(o)' \/ Grows(o)
          /\ used' = used
          /\ None \in Editors \cup {None}
          /\ "save" \in {"idle"} \cup Writers
          /\ "save" = "idle" => job[r] = None
        BY <1>1, <1>2, <1>3 DEF Writers
    <2> QED
        BY <2>1, LockedStep
<1>5. job'[r] = job[r]
    BY <1>1, <1>2, Constants DEF Goto, Shape
<1>6. EditOK(r)'
    <2>1. KnownJob(r)'
        BY <1>1, <1>2, <1>5 DEF KnownJob
    <2>2. HoldsLock(r)'
        BY <1>3, <1>4, <1>5 DEF HoldsLock
    <2>3. KnownStay(r)'
        BY <1>2, <1>3, <1>4, <1>5 DEF KnownStay
    <2>4. TextOK(r)'
        BY <1>4 DEF TextOK
    <2> QED
        BY <2>1, <2>2, <2>3, <2>4 DEF EditOK
<1>7. ObjectOK(o)'
    <2>1. /\ acked[o].nodes \subseteq DOMAIN nodes'[o]
          /\ acked[o].edges \subseteq Bys(edges'[o])
        BY <1>2, <1>3, <1>4 DEF ObjectOK, Grows
    <2> QED
        BY <1>1, <1>2, <1>3, <2>1 DEF ObjectOK
<1>8. TypeOK'
    <2>1. DOMAIN nodes'[o] \subseteq Nat \ {0}
        BY <1>3, DenseCount
    <2>2. \A x \in Objects : DOMAIN nodes'[x] \subseteq Nat \ {0} /\ edges'[x] \in Seq(Edges)
        BY <1>2, <1>3, <2>1 DEF TypeOK
    <2> QED
        BY <1>1, <1>2, <1>4, <2>2 DEF TypeOK, Places
<1>9. Shape'
    BY <1>1, <1>2, <1>3, <1>4 DEF Shape
<1>10. FileOK'
    BY <1>1, <1>2 DEF FileOK
<1> QED
    BY <1>4, <1>6, <1>7, <1>8, <1>9, <1>10 DEF GraphIInv

\* save takes the lock and makes the text of what there is.
LEMMA SaveBeginStep ==
    ASSUME GraphIInv, NEW r \in Editors, SaveBegin(r)
    PROVE  GraphIInv'
<1>0. PICK o \in used : job[r].obj = o /\ o \in Objects /\ ObjectOK(o)
    BY Underway DEF SaveBegin
<1> DEFINE j == [job[r] EXCEPT !.text = Content(o)]
<1>1. /\ pc[r] = "save" /\ lock[o] = None /\ lock' = [lock EXCEPT ![o] = r]
      /\ file' = Torn /\ Goto(r, "saving", j)
      /\ UNCHANGED <<open, used, nodes, edges, writing, writes, crashes, owner, acked>>
    BY <1>0 DEF SaveBegin, Object, memory
<1>2. /\ TypeOK /\ Shape /\ KnownJob(r) /\ HoldsLock(r) /\ KnownStay(r)
      /\ o \in Objects /\ ObjectOK(o) /\ job[r].obj = o
    BY <1>0, <1>1, Underway
<1>3. /\ DOMAIN j = DOMAIN job[r]
      /\ j.text = Content(o)
      /\ \A f \in DOMAIN job[r] : f # "text" => j[f] = job[r][f]
    BY <1>2 DEF KnownJob
<1> HIDE DEF j
<1>4. /\ ~Stuck(o) /\ pc'[r] = "saving" /\ Places'
      /\ DOMAIN pc' = Requests /\ DOMAIN job' = Requests /\ DOMAIN lock' = Objects
      /\ \A x \in Objects : lock'[x] \in Editors \cup {None}
      /\ \A q \in Editors : q # r => EditOK(q)'
      /\ \A x \in Objects : x # o => ObjectOK(x)'
    <2>1. /\ lock[o] = None \/ (lock[o] = r /\ pc[r] # "save")
          /\ pc[r] = "save" => job[r].obj = o
          /\ Goto(r, "saving", j)
          /\ \A x \in Objects \ {o} : /\ nodes'[x] = nodes[x] /\ edges'[x] = edges[x]
                                      /\ acked'[x] = acked[x]
          /\ lock' = [lock EXCEPT ![o] = r]
          /\ Stuck(o)' \/ Grows(o)
          /\ used' = used
          /\ r \in Editors \cup {None}
          /\ "saving" \in {"idle"} \cup Writers
          /\ "saving" = "idle" => j = None
        BY <1>1, <1>2 DEF Writers, Grows
    <2> QED
        BY <2>1, LockedStep
<1>5. job'[r] = j /\ lock'[o] = r
    BY <1>1, <1>2, Constants DEF Goto, Shape
<1>6. j.op = job[r].op /\ j.obj = o
    BY <1>2, <1>3 DEF KnownJob
<1>7. /\ job[r].op = "node" => j.id = job[r].id /\ j.known = job[r].known
      /\ job[r].op = "edge" => j.from = job[r].from /\ j.to = job[r].to /\ j.by = job[r].by
    BY <1>2, <1>3 DEF KnownJob, NodeFields, EdgeFields
<1>8. EditOK(r)'
    <2>1. KnownJob(r)'
        BY <1>1, <1>2, <1>3, <1>5, <1>6, <1>7 DEF KnownJob
    <2>2. HoldsLock(r)'
        BY <1>1, <1>2, <1>4, <1>5, <1>6, Constants DEF HoldsLock
    <2>3. KnownStay(r)'
        BY <1>4 DEF KnownStay
    <2>4. TextOK(r)'
        <3>1. j.text.nodes = nodes[o] /\ j.text.edges = edges[o]
            BY <1>3 DEF Content
        <3>2. /\ Dense(nodes[o]) /\ edges[o] \in Seq(Edges)
              /\ acked[o].nodes \subseteq DOMAIN nodes[o]
              /\ acked[o].edges \subseteq Bys(edges[o])
              /\ job[r].op = "node" => job[r].id \in DOMAIN nodes[o]
              /\ job[r].op = "edge" => job[r].by \in Bys(edges[o])
            BY <1>1, <1>2, <1>4 DEF ObjectOK, KnownStay, TypeOK
        <3> QED
            BY <1>1, <1>5, <1>6, <1>7, <3>1, <3>2 DEF TextOK
    <2> QED
        BY <2>1, <2>2, <2>3, <2>4 DEF EditOK
<1>9. ObjectOK(o)'
    BY <1>1, <1>2, <1>4 DEF ObjectOK
<1>10. TypeOK'
    BY <1>1, <1>2, <1>4 DEF TypeOK, Places
<1>11. Shape'
    BY <1>1, <1>2, <1>4 DEF Shape
<1>12. FileOK'
    BY <1>1 DEF FileOK
<1> QED
    BY <1>4, <1>8, <1>9, <1>10, <1>11, <1>12 DEF GraphIInv

\* save has written: the answer counts what the text holds.
LEMMA SaveEndStep ==
    ASSUME GraphIInv, NEW r \in Editors, SaveEnd(r)
    PROVE  GraphIInv'
<1>0. PICK o \in used : job[r].obj = o /\ o \in Objects /\ ObjectOK(o)
    BY Underway DEF SaveEnd
<1>1. /\ pc[r] = "saving" /\ lock' = [lock EXCEPT ![o] = None]
      /\ file' = job[r].text \/ file' = Torn
      /\ owner' = o /\ Answer(job[r]) /\ Goto(r, "idle", None)
      /\ UNCHANGED <<open, used, nodes, edges, writing, writes, crashes>>
    BY <1>0 DEF SaveEnd, Object, memory
<1>2. /\ TypeOK /\ Shape /\ HoldsLock(r) /\ TextOK(r) /\ KnownJob(r)
      /\ o \in Objects /\ ObjectOK(o) /\ job[r].obj = o
    BY <1>0, <1>1, Underway
<1>3. lock[o] = r /\ job[r].op \in {"node", "edge", "close"}
    BY <1>1, <1>2 DEF HoldsLock, KnownJob
<1>4. /\ DOMAIN acked' = Objects
      /\ \A x \in Objects \ {o} : acked'[x] = acked[x]
      /\ DOMAIN acked'[o] = {"nodes", "edges"}
      /\ acked'[o].nodes = acked[o].nodes \cup (IF job[r].op = "node" THEN {job[r].id} ELSE {})
      /\ acked'[o].edges = acked[o].edges \cup (IF job[r].op = "edge" THEN {job[r].by} ELSE {})
    BY <1>1, <1>2 DEF Answer, Shape
<1>5. /\ ~Stuck(o) /\ pc'[r] = "idle" /\ Places'
      /\ DOMAIN pc' = Requests /\ DOMAIN job' = Requests /\ DOMAIN lock' = Objects
      /\ \A x \in Objects : lock'[x] \in Editors \cup {None}
      /\ \A q \in Editors : q # r => EditOK(q)'
      /\ \A x \in Objects : x # o => ObjectOK(x)'
    <2>1. /\ lock[o] = None \/ (lock[o] = r /\ pc[r] # "save")
          /\ pc[r] = "save" => job[r].obj = o
          /\ Goto(r, "idle", None)
          /\ \A x \in Objects \ {o} : /\ nodes'[x] = nodes[x] /\ edges'[x] = edges[x]
                                      /\ acked'[x] = acked[x]
          /\ lock' = [lock EXCEPT ![o] = None]
          /\ Stuck(o)' \/ Grows(o)
          /\ used' = used
          /\ None \in Editors \cup {None}
          /\ "idle" \in {"idle"} \cup Writers
          /\ "idle" = "idle" => None = None
        BY <1>1, <1>2, <1>3, <1>4 DEF Writers, Grows
    <2> QED
        BY <2>1, LockedStep
<1>6. EditOK(r)'
    BY <1>5 DEF EditOK
<1>7. /\ Dense(job[r].text.nodes) /\ job[r].text.edges \in Seq(Edges)
      /\ acked'[o].nodes \subseteq DOMAIN job[r].text.nodes
      /\ acked'[o].edges \subseteq Bys(job[r].text.edges)
    BY <1>1, <1>2, <1>4 DEF TextOK
<1>8. ObjectOK(o)'
    <2>1. /\ DOMAIN job[r].text.nodes \subseteq DOMAIN nodes[o]
          /\ Bys(job[r].text.edges) \subseteq Bys(edges[o])
        BY <1>1, <1>2 DEF TextOK
    <2> QED
        BY <1>1, <1>2, <1>4, <1>7, <2>1 DEF ObjectOK
<1>9. TypeOK'
    BY <1>1, <1>2, <1>5 DEF TypeOK, Places
<1>10. Shape'
    BY <1>0, <1>1, <1>2, <1>4, <1>5 DEF Shape
<1>11. FileOK'
    BY <1>1, <1>7 DEF FileOK
<1> QED
    BY <1>5, <1>6, <1>8, <1>9, <1>10, <1>11 DEF GraphIInv

\* A write that stops half way leaves no whole file.
LEMMA SaveFailsStep ==
    ASSUME GraphIInv, NEW r \in Editors, SaveFails(r)
    PROVE  GraphIInv'
<1>0. PICK o \in used : job[r].obj = o /\ o \in Objects /\ ObjectOK(o)
    BY Underway DEF SaveFails
<1>1. /\ pc[r] = "saving" /\ lock' = [lock EXCEPT ![o] = None]
      /\ file' = Torn /\ owner' = o /\ Goto(r, "idle", None)
      /\ UNCHANGED <<open, used, nodes, edges, writing, writes, crashes, acked>>
    BY <1>0 DEF SaveFails, Object, memory
<1>2. /\ TypeOK /\ Shape /\ lock[o] = r
      /\ o \in Objects /\ ObjectOK(o) /\ job[r].obj = o
    BY <1>0, <1>1, Underway DEF HoldsLock
<1>3. /\ ~Stuck(o) /\ pc'[r] = "idle" /\ Places'
      /\ DOMAIN pc' = Requests /\ DOMAIN job' = Requests /\ DOMAIN lock' = Objects
      /\ \A x \in Objects : lock'[x] \in Editors \cup {None}
      /\ \A q \in Editors : q # r => EditOK(q)'
      /\ \A x \in Objects : x # o => ObjectOK(x)'
    <2>1. /\ lock[o] = None \/ (lock[o] = r /\ pc[r] # "save")
          /\ pc[r] = "save" => job[r].obj = o
          /\ Goto(r, "idle", None)
          /\ \A x \in Objects \ {o} : /\ nodes'[x] = nodes[x] /\ edges'[x] = edges[x]
                                      /\ acked'[x] = acked[x]
          /\ lock' = [lock EXCEPT ![o] = None]
          /\ Stuck(o)' \/ Grows(o)
          /\ used' = used
          /\ None \in Editors \cup {None}
          /\ "idle" \in {"idle"} \cup Writers
          /\ "idle" = "idle" => None = None
        BY <1>1, <1>2 DEF Writers, Grows
    <2> QED
        BY <2>1, LockedStep
<1>4. EditOK(r)'
    BY <1>3 DEF EditOK
<1>5. ObjectOK(o)'
    BY <1>1, <1>2, <1>3 DEF ObjectOK
<1>6. TypeOK'
    BY <1>1, <1>2, <1>3 DEF TypeOK, Places
<1>7. Shape'
    BY <1>0, <1>1, <1>2, <1>3 DEF Shape
<1>8. FileOK'
    BY <1>1 DEF FileOK
<1> QED
    BY <1>3, <1>4, <1>5, <1>6, <1>7, <1>8 DEF GraphIInv

\* DropDatabase takes the lock and waits for it: the object is stuck.
LEMMA DropDatabaseStep ==
    ASSUME GraphIInv, NEW r \in Editors, NEW o \in Objects, DropDatabase(r, o)
    PROVE  GraphIInv'
<1> DEFINE j == [op |-> "drop", obj |-> o, text |-> Empty]
<1>1. /\ pc[r] = "idle" /\ o \in open /\ lock[o] = None /\ lock' = [lock EXCEPT ![o] = r]
      /\ nodes' = [nodes EXCEPT ![o] = <<>>] /\ edges' = [edges EXCEPT ![o] = <<>>]
      /\ Goto(r, "save", j)
      /\ UNCHANGED <<open, used, writing, file, writes, crashes, owner, acked>>
    BY DEF DropDatabase
<1>2. TypeOK /\ Shape /\ FileOK /\ ObjectOK(o)
    BY DEF GraphIInv
<1>3. o \in used
    BY <1>1, <1>2 DEF TypeOK
<1>4. j.op = "drop" /\ j.obj = o /\ DOMAIN j = {"op", "obj", "text"}
    OBVIOUS
<1> HIDE DEF j
<1>5. job'[r] = j /\ pc'[r] = "save" /\ lock'[o] = r
    BY <1>1, <1>2, Constants DEF Goto, Shape
<1>6. Stuck(o)'
    BY <1>4, <1>5 DEF Stuck
<1>7. /\ nodes'[o] = <<>> /\ edges'[o] = <<>>
      /\ DOMAIN nodes' = Objects /\ DOMAIN edges' = Objects
      /\ \A x \in Objects \ {o} : nodes'[x] = nodes[x] /\ edges'[x] = edges[x]
    BY <1>1, <1>2 DEF Shape
<1>8. /\ Places'
      /\ DOMAIN pc' = Requests /\ DOMAIN job' = Requests /\ DOMAIN lock' = Objects
      /\ \A x \in Objects : lock'[x] \in Editors \cup {None}
      /\ \A q \in Editors : q # r => EditOK(q)'
      /\ \A x \in Objects : x # o => ObjectOK(x)'
    <2>1. /\ lock[o] = None \/ (lock[o] = r /\ pc[r] # "save")
          /\ pc[r] = "save" => job[r].obj = o
          /\ Goto(r, "save", j)
          /\ \A x \in Objects \ {o} : /\ nodes'[x] = nodes[x] /\ edges'[x] = edges[x]
                                      /\ acked'[x] = acked[x]
          /\ lock' = [lock EXCEPT ![o] = r]
          /\ Stuck(o)' \/ Grows(o)
          /\ used' = used
          /\ r \in Editors \cup {None}
          /\ "save" \in {"idle"} \cup Writers
          /\ "save" = "idle" => j = None
        BY <1>1, <1>6, <1>7 DEF Writers
    <2> QED
        BY <1>3, <2>1, LockedStep
<1>9. EditOK(r)'
    BY <1>1, <1>3, <1>4, <1>5 DEF EditOK, KnownJob, HoldsLock, KnownStay, TextOK
<1>10. DOMAIN nodes'[o] = {} /\ edges'[o] \in Seq(Edges) /\ Dense(nodes'[o])
    BY <1>7, EmptyFacts
<1>11. ObjectOK(o)'
    BY <1>1, <1>2, <1>6, <1>10 DEF ObjectOK
<1>12. TypeOK'
    <2>1. \A x \in Objects : DOMAIN nodes'[x] \subseteq Nat \ {0} /\ edges'[x] \in Seq(Edges)
        <3> SUFFICES ASSUME NEW x \in Objects, x # o
                     PROVE  DOMAIN nodes'[x] \subseteq Nat \ {0} /\ edges'[x] \in Seq(Edges)
            BY <1>10
        <3> QED
            BY <1>2, <1>7 DEF TypeOK
    <2> QED
        BY <1>1, <1>2, <1>8, <2>1 DEF TypeOK, Places
<1>13. Shape'
    BY <1>1, <1>2, <1>7, <1>8 DEF Shape
<1>14. FileOK'
    BY <1>1, <1>2 DEF FileOK
<1> QED
    BY <1>8, <1>9, <1>11, <1>12, <1>13, <1>14 DEF GraphIInv

-----------------------------------------------------------------------------

\* An object is connected with the content of the file, or with none.
LEMMA ConnectStep ==
    ASSUME GraphIInv, NEW o \in Objects, Connect(o)
    PROVE  GraphIInv'
<1> DEFINE c == IF file = Torn THEN Empty ELSE file
<1>1. /\ o \notin used /\ open' = open \cup {o} /\ used' = used \cup {o}
      /\ nodes' = [nodes EXCEPT ![o] = c.nodes] /\ edges' = [edges EXCEPT ![o] = c.edges]
      /\ acked' = [acked EXCEPT ![o] = Held(c)]
      /\ UNCHANGED <<lock, writing, file, pc, job, writes, crashes, owner>>
    BY DEF Connect
<1>2. TypeOK /\ Shape /\ FileOK
    BY DEF GraphIInv
<1>3. Dense(c.nodes) /\ c.edges \in Seq(Edges)
    <2>1. CASE file = Torn
        <3>1. c.nodes = <<>> /\ c.edges = <<>>
            BY <2>1 DEF Empty
        <3> HIDE DEF c
        <3> QED
            BY <3>1, EmptyFacts
    <2>2. CASE file # Torn
        BY <1>2, <2>2 DEF FileOK
    <2> QED
        BY <2>1, <2>2
<1>4. Held(c) = [nodes |-> DOMAIN c.nodes, edges |-> Bys(c.edges)]
    BY DEF Held, Bys
<1> HIDE DEF c
<1>5. /\ nodes'[o] = c.nodes /\ edges'[o] = c.edges
      /\ acked'[o] = [nodes |-> DOMAIN c.nodes, edges |-> Bys(c.edges)]
      /\ \A x \in Objects : x # o => /\ nodes'[x] = nodes[x] /\ edges'[x] = edges[x]
                                     /\ acked'[x] = acked[x]
      /\ DOMAIN nodes' = Objects /\ DOMAIN edges' = Objects /\ DOMAIN acked' = Objects
    BY <1>1, <1>2, <1>4 DEF Shape
<1>6. \A x \in Objects : Stuck(x) => Stuck(x)'
    BY <1>1 DEF Stuck
<1>7. \A x \in Objects : ObjectOK(x)'
    <2>1. ObjectOK(o)'
        BY <1>3, <1>5 DEF ObjectOK
    <2>2. \A x \in Objects : x # o => ObjectOK(x)'
        <3> SUFFICES ASSUME NEW x \in Objects, x # o
                     PROVE  ObjectOK(x)'
            OBVIOUS
        <3>1. ObjectOK(x)
            BY DEF GraphIInv
        <3> QED
            BY <1>5, <1>6, <3>1 DEF ObjectOK
    <2> QED
        BY <2>1, <2>2
<1>8. \A q \in Editors : EditOK(q)'
    <2> SUFFICES ASSUME NEW q \in Editors
                 PROVE  EditOK(q)'
        OBVIOUS
    <2>1. used \subseteq Objects
        BY <1>2 DEF TypeOK
    <2>2. \A x \in used : /\ Grows(x)
                          /\ Stuck(x) => Stuck(x)'
                          /\ acked'[x] = acked[x] /\ lock'[x] = lock[x]
        BY <1>1, <1>5, <1>6, <2>1 DEF Grows
    <2>3. pc'[q] = pc[q] /\ job'[q] = job[q] /\ used \subseteq used'
        BY <1>1
    <2> QED
        BY <2>2, <2>3, OtherEditor
<1>9. TypeOK'
    <2>1. DOMAIN nodes'[o] \subseteq Nat \ {0}
        BY <1>3, <1>5, DenseCount
    <2>2. \A x \in Objects : DOMAIN nodes'[x] \subseteq Nat \ {0} /\ edges'[x] \in Seq(Edges)
        BY <1>2, <1>3, <1>5, <2>1 DEF TypeOK
    <2> QED
        BY <1>1, <1>2, <2>2 DEF TypeOK
<1>10. Shape'
    BY <1>1, <1>2, <1>5 DEF Shape
<1>11. FileOK'
    <2>1. owner # None => owner # o /\ owner \in Objects
        BY <1>1, <1>2 DEF Shape, TypeOK
    <2>2. owner # None => acked'[owner] = acked[owner]
        BY <1>5, <2>1
    <2> QED
        BY <1>1, <1>2, <2>2 DEF FileOK
<1> QED
    BY <1>7, <1>8, <1>9, <1>10, <1>11 DEF GraphIInv

\* After the end of the process the memory is empty and the file is as it was.
LEMMA DieStep ==
    ASSUME GraphIInv, Die
    PROVE  GraphIInv'
<1>1. /\ crashes < MaxCrashes /\ crashes' = crashes + 1
      /\ open' = {} /\ used' = {} /\ writing' = {} /\ owner' = None
      /\ file' = file /\ writes' = writes
      /\ nodes' = [x \in Objects |-> <<>>] /\ edges' = [x \in Objects |-> <<>>]
      /\ lock' = [x \in Objects |-> None] /\ acked' = [x \in Objects |-> Held(Empty)]
      /\ pc' = [q \in Requests |-> "idle"] /\ job' = [q \in Requests |-> None]
    BY DEF Die
<1>2. TypeOK /\ FileOK
    BY DEF GraphIInv
<1>3. \A x \in Objects : /\ nodes'[x] = <<>> /\ edges'[x] = <<>> /\ acked'[x] = Held(Empty)
                         /\ lock'[x] = None
    BY <1>1
<1>4. \A x \in Objects :
        /\ ObjectOK(x)'
        /\ DOMAIN nodes'[x] \subseteq Nat \ {0} /\ edges'[x] \in Seq(Edges)
    <2> SUFFICES ASSUME NEW x \in Objects
                 PROVE  /\ ObjectOK(x)'
                        /\ DOMAIN nodes'[x] \subseteq Nat \ {0} /\ edges'[x] \in Seq(Edges)
        OBVIOUS
    <2>1. /\ Dense(nodes'[x]) /\ DOMAIN nodes'[x] = {} /\ edges'[x] \in Seq(Edges)
          /\ acked'[x] = [nodes |-> {}, edges |-> {}]
        BY <1>3, EmptyFacts
    <2> QED
        BY <2>1 DEF ObjectOK
<1>5. \A q \in Requests : pc'[q] = "idle" /\ job'[q] = None
    BY <1>1
<1>6. TypeOK'
    BY <1>1, <1>2, <1>3, <1>4, <1>5, Constants DEF TypeOK
<1>7. Shape'
    BY <1>1 DEF Shape
<1>8. \A q \in Editors : EditOK(q)'
    BY <1>5, Constants DEF EditOK
<1>9. FileOK'
    BY <1>1, <1>2 DEF FileOK
<1> QED
    BY <1>4, <1>6, <1>7, <1>8, <1>9 DEF GraphIInv

-----------------------------------------------------------------------------

\* The invariant holds at the start.
LEMMA InitOK ==
    Init => GraphIInv
<1> SUFFICES ASSUME Init
             PROVE  GraphIInv
    OBVIOUS
<1>1. \A o \in Objects : /\ nodes[o] = <<>> /\ edges[o] = <<>> /\ lock[o] = None
                         /\ acked[o] = [nodes |-> {}, edges |-> {}]
    BY EmptyFacts DEF Init
<1>2. \A q \in Requests : pc[q] = "idle" /\ job[q] = None
    BY DEF Init
<1>3. \A o \in Objects : /\ ObjectOK(o)
                         /\ DOMAIN nodes[o] \subseteq Nat \ {0} /\ edges[o] \in Seq(Edges)
    <2> SUFFICES ASSUME NEW o \in Objects
                 PROVE  /\ ObjectOK(o)
                        /\ DOMAIN nodes[o] \subseteq Nat \ {0} /\ edges[o] \in Seq(Edges)
        OBVIOUS
    <2>1. /\ Dense(nodes[o]) /\ DOMAIN nodes[o] = {} /\ edges[o] \in Seq(Edges)
          /\ acked[o] = [nodes |-> {}, edges |-> {}]
        BY <1>1, EmptyFacts
    <2> QED
        BY <2>1 DEF ObjectOK
<1>4. TypeOK
    BY <1>1, <1>2, <1>3, Constants DEF Init, TypeOK
<1>5. Shape
    BY DEF Init, Shape
<1>6. \A q \in Editors : EditOK(q)
    BY <1>2, Constants DEF EditOK
<1>7. FileOK
    <2> SUFFICES ASSUME file # Torn
                 PROVE  FileOK
        BY DEF FileOK
    <2>1. file \in FirstFile \ {Torn} /\ owner = None
        BY DEF Init
    <2>2. /\ file.edges \in Seq(Edges) /\ IsFiniteSet(DOMAIN file.nodes)
          /\ DOMAIN file.nodes = 1..Cardinality(DOMAIN file.nodes)
        BY <2>1, FirstFileAssumption
    <2>3. Cardinality(DOMAIN file.nodes) \in Nat
        BY <2>2, FS_CardinalityType
    <2> QED
        BY <2>1, <2>2, <2>3 DEF FileOK, Dense
<1> QED
    BY <1>3, <1>4, <1>5, <1>6, <1>7 DEF GraphIInv

\* Every step keeps the invariant.
LEMMA NextOK ==
    GraphIInv /\ [Next]_vars => GraphIInv'
<1> SUFFICES ASSUME GraphIInv, [Next]_vars
             PROVE  GraphIInv'
    OBVIOUS
<1>1. CASE \E o \in Objects : Connect(o)
    BY <1>1, ConnectStep
<1>2. CASE \E r \in Editors : WriteStep(r) \/ \E o \in Objects : Edit(r, o)
    <2>1. PICK r \in Editors : WriteStep(r) \/ \E o \in Objects : Edit(r, o)
        BY <1>2
    <2>2. CASE WriteStep(r)
        BY <2>2, ChangeBeginStep, ChangeEndStep, SaveBeginStep, SaveEndStep, SaveRefusedStep,
           SaveFailsStep DEF WriteStep
    <2>3. CASE \E o \in Objects : Edit(r, o)
        BY <2>3, CreateNodeStep, CreateEdgeStep, CloseStep, DropDatabaseStep DEF Edit
    <2> QED
        BY <2>1, <2>2, <2>3
<1>3. CASE \E r \in Browsers : ReadStep(r) \/ Fault(r) \/ \E o \in Objects : Browse(r, o)
    <2>1. PICK r \in Browsers : ReadStep(r) \/ Fault(r) \/ \E o \in Objects : Browse(r, o)
        BY <1>3
    <2>2. CASE Fault(r)
        BY <2>2, DieStep DEF Fault
    <2> QED
        BY <2>1, <2>2, ReadSteps
<1>4. CASE Crash
    BY <1>4, DieStep DEF Crash
<1>5. CASE UNCHANGED vars
    <2>1. /\ open' = open /\ used' = used /\ nodes' = nodes /\ edges' = edges /\ lock' = lock
          /\ writing' = writing /\ file' = file /\ pc' = pc /\ job' = job /\ writes' = writes
          /\ crashes' = crashes /\ owner' = owner /\ acked' = acked
        BY <1>5 DEF vars, memory
    <2>2. \A o \in Objects : ObjectOK(o)'
        BY <2>1 DEF GraphIInv, ObjectOK, Stuck
    <2>3. \A q \in Editors : EditOK(q)'
        BY <2>1 DEF GraphIInv, EditOK, KnownJob, HoldsLock, KnownStay, TextOK, Stuck
    <2>4. TypeOK' /\ Shape' /\ FileOK'
        BY <2>1 DEF GraphIInv, TypeOK, Shape, FileOK
    <2> QED
        BY <2>2, <2>3, <2>4 DEF GraphIInv
<1> QED
    BY <1>1, <1>2, <1>3, <1>4, <1>5 DEF Next

\* What the runs check follows from the invariant.
LEMMA GraphInvFollows ==
    GraphIInv => GraphInv
<1> SUFFICES ASSUME GraphIInv
             PROVE  GraphInv
    OBVIOUS
<1>1. TypeOK /\ FileOK
    BY DEF GraphIInv
<1>2. IdsDense
    BY DenseCount DEF GraphIInv, ObjectOK, IdsDense
<1>3. AnsweredIsSaved
    <2>1. Held(file).nodes = DOMAIN file.nodes /\ Held(file).edges = Bys(file.edges)
        BY DEF Held, Bys
    <2> QED
        BY <1>1, <2>1 DEF AnsweredIsSaved, FileOK
<1> QED
    BY <1>1, <1>2, <1>3 DEF GraphInv

\* The memory and the file of the graph store: identifiers without a gap in every
\* object, and a whole file that holds all its writer has loaded or answered for,
\* for any objects, goroutines, edges, files at the start, crashes and faults.
THEOREM GraphInvariance == Spec => []GraphInv
<1>1. Init => GraphIInv
    BY InitOK
<1>2. GraphIInv /\ [Next]_vars => GraphIInv'
    BY NextOK
<1>3. GraphIInv => GraphInv
    BY GraphInvFollows
<1> QED
    BY <1>1, <1>2, <1>3, PTL DEF Spec

\* Only the end of a change leads from "changing" to "save".
LEMMA OnlyChangeEnd ==
    ASSUME GraphIInv, [Next]_vars, NEW r \in Editors, pc[r] = "changing", pc'[r] = "save"
    PROVE  ChangeEnd(r)
<1>1. TypeOK /\ Shape /\ r \in Requests /\ r \notin Browsers
    BY Constants DEF GraphIInv
<1>2. \A q \in Requests : \A l, j : Goto(q, l, j) /\ q # r => pc'[r] = pc[r]
    BY <1>1 DEF Goto, Shape
<1>3. CASE \E o \in Objects : Connect(o)
    BY <1>3 DEF Connect
<1>4. CASE \E q \in Editors : WriteStep(q) \/ \E o \in Objects : Edit(q, o)
    <2>1. PICK q \in Editors : WriteStep(q) \/ \E o \in Objects : Edit(q, o)
        BY <1>4
    <2>2. \E l, j : Goto(q, l, j)
        BY <2>1 DEF WriteStep, Edit, ChangeBegin, ChangeEnd, SaveBegin, SaveEnd, SaveRefused,
                    SaveFails, CreateNode, CreateEdge, Close, DropDatabase
    <2>3. q = r
        BY <1>2, <2>2, Constants
    <2> QED
        BY <2>1, <2>3 DEF WriteStep, Edit, ChangeBegin, SaveBegin, SaveEnd, SaveRefused, SaveFails,
                          CreateNode, CreateEdge, Close, DropDatabase
<1>5. CASE \E q \in Browsers : ReadStep(q) \/ \E o \in Objects : Browse(q, o)
    <2>1. PICK q \in Browsers : ReadStep(q) \/ \E o \in Objects : Browse(q, o)
        BY <1>5
    <2>2. \E l, j : Goto(q, l, j)
        BY <2>1 DEF ReadStep, Browse, Read, ReadReturn, Traverse, ScanBegin, ScanEdge, ScanEnd,
                    NextLevel, TraverseReturn
    <2> QED
        BY <1>1, <1>2, <2>2, Constants
<1>6. CASE Die
    BY <1>1, <1>6 DEF Die
<1>7. CASE UNCHANGED vars
    BY <1>7 DEF vars
<1> QED
    BY <1>3, <1>4, <1>5, <1>6, <1>7 DEF Next, Crash, Fault

\* A node that was there when a CREATE NODE began is not overwritten by it, however
\* many others it overlaps with.
THEOREM NothingOverwritten == Spec => KnownNotOverwritten
<1> DEFINE Kept ==
        \A r \in Editors : pc[r] = "changing" /\ pc'[r] = "save" /\ job[r].op = "node"
            => \A k \in job[r].known : nodes'[Object(r)][k] = nodes[Object(r)][k]
<1>1. GraphIInv /\ [Next]_vars => Kept
    <2> SUFFICES ASSUME GraphIInv, [Next]_vars,
                        NEW r \in Editors, pc[r] = "changing", pc'[r] = "save", job[r].op = "node",
                        NEW k \in job[r].known
                 PROVE  nodes'[Object(r)][k] = nodes[Object(r)][k]
        OBVIOUS
    <2>1. ChangeEnd(r)
        BY OnlyChangeEnd
    <2>2. PICK o \in used : job[r].obj = o /\ o \in Objects /\ ObjectOK(o)
        BY Underway
    <2>3. /\ job[r].known \subseteq DOMAIN nodes[o]
          /\ \A x \in DOMAIN nodes[o] : x # job[r].id => nodes'[o][x] = nodes[o][x]
        BY <2>1, <2>2, ChangeMemory
    <2>4. job[r].known = 1..(job[r].id - 1) /\ job[r].id \in Nat
        BY Underway DEF KnownJob
    <2>5. k # job[r].id
        BY <2>4
    <2> QED
        BY <2>2, <2>3, <2>5 DEF Object
<1>2. GraphIInv /\ [Next]_vars => [Kept]_vars
    BY <1>1
<1>3. Spec => []GraphIInv
    BY InitOK, NextOK, PTL DEF Spec
<1> QED
    BY <1>2, <1>3, PTL DEF Spec, KnownNotOverwritten

-----------------------------------------------------------------------------
(* Induction over data.  Within is a loop: a function on 0..n whose value at *)
(* i is a step from the value at i - 1.  It has states, and what the first   *)
(* has and every step keeps, all have.                                       *)

\* A set of numbers has a least one.
LEMMA LeastNumber ==
    ASSUME NEW T, T \subseteq Nat, T # {}
    PROVE  \E x \in T : \A y \in T : x <= y
<1>1. PICK x \in T : \A y \in T : ~ (<<y, x>> \in OpToRel(<, Nat))
  BY NatLessThanWellFounded, WFMin, Zenon
<1>2. \A y \in T : ~ (y < x)
  BY <1>1 DEF OpToRel
<1> QED
  BY <1>2

\* Induction over the numbers of an interval, for a set of them.
LEMMA IndexInduction ==
    ASSUME NEW n \in Nat, NEW P, 0 \in P, \A i \in 1..n : i - 1 \in P => i \in P
    PROVE  \A i \in 0..n : i \in P
<1> DEFINE Wrong == {i \in Nat : i <= n /\ i \notin P}
<1>1. ASSUME Wrong # {} PROVE FALSE
  <2>1. PICK k \in Wrong : \A x \in Wrong : k <= x
    BY <1>1, LeastNumber
  <2>2. k \in Nat /\ k <= n /\ k \notin P /\ k # 0
    OBVIOUS
  <2>3. k \in 1..n /\ k - 1 \in Nat /\ k - 1 <= n /\ ~(k <= k - 1)
    BY <2>2
  <2>4. k - 1 \in P
    BY <2>1, <2>3
  <2> QED
    BY <2>2, <2>3, <2>4
<1>2. ASSUME NEW i \in 0..n PROVE i \in P
  <2>1. i \in Nat /\ i <= n
    OBVIOUS
  <2> QED
    BY <1>1, <2>1
<1> QED
  BY <1>2

\* The states of the first k rounds of a loop, from base by the steps.
Rounds(g, k, S, base, step) ==
    /\ g \in [0..k -> S] /\ g[0] = base
    /\ \A i \in 1..k : g[i] = step[i][g[i - 1]]

\* One round more.
LEMMA OneRound ==
    ASSUME NEW S, NEW n \in Nat, NEW base \in S, NEW step \in [1..n -> [S -> S]],
           NEW k \in 0..(n - 1), NEW g, Rounds(g, k, S, base, step)
    PROVE  \E h : Rounds(h, k + 1, S, base, step)
<1>1. g \in [0..k -> S] /\ g[0] = base /\ \A i \in 1..k : g[i] = step[i][g[i - 1]]
  BY DEF Rounds
<1>2. k \in Nat /\ k + 1 \in 1..n /\ k \in 0..k
  OBVIOUS
<1>3. PICK x \in S : x = step[k + 1][g[k]]
  <2>1. g[k] \in S
    BY <1>1, <1>2
  <2>2. step[k + 1] \in [S -> S]
    BY <1>2
  <2> QED
    BY <2>1, <2>2
<1>4. PICK h : h = [i \in 0..(k + 1) |-> IF i = k + 1 THEN x ELSE g[i]]
  OBVIOUS
<1>5. h \in [0..(k + 1) -> S]
  BY <1>1, <1>2, <1>4
<1>6. h[k + 1] = x /\ \A i \in 0..k : h[i] = g[i]
  BY <1>2, <1>4
<1>7. h[0] = base
  BY <1>1, <1>2, <1>6
<1>8. ASSUME NEW i \in 1..(k + 1) PROVE h[i] = step[i][h[i - 1]]
  <2>1. CASE i = k + 1
    BY <1>2, <1>3, <1>6, <2>1
  <2>2. CASE i # k + 1
    <3>1. i \in 1..k /\ i \in 0..k /\ i - 1 \in 0..k
      BY <1>2, <2>2
    <3> QED
      BY <1>1, <1>6, <3>1
  <2> QED
    BY <2>1, <2>2
<1> QED
  BY <1>5, <1>7, <1>8 DEF Rounds

\* A loop over n steps, each of which takes one state to another, has its states.
LEMMA LoopHasStates ==
    ASSUME NEW S, NEW n \in Nat, NEW base \in S, NEW step \in [1..n -> [S -> S]]
    PROVE  \E g : Rounds(g, n, S, base, step)
<1> DEFINE Bad == {k \in Nat : k <= n /\ ~ \E g : Rounds(g, k, S, base, step)}
<1>1. \E g : Rounds(g, 0, S, base, step)
  <2>1. PICK g : g = [i \in 0..0 |-> base]
    OBVIOUS
  <2>2. g \in [0..0 -> S] /\ g[0] = base
    BY <2>1
  <2> QED
    BY <2>2 DEF Rounds
<1>2. ASSUME Bad # {} PROVE FALSE
  <2>1. PICK k \in Bad : \A x \in Bad : k <= x
    BY <1>2, LeastNumber
  <2>2. k \in Nat /\ k <= n /\ ~ \E g : Rounds(g, k, S, base, step)
    OBVIOUS
  <2>3. k # 0
    BY <1>1, <2>2
  <2>4. PICK j \in 0..(n - 1) : k = j + 1
    <3>1. k - 1 \in 0..(n - 1) /\ k = (k - 1) + 1
      BY <2>2, <2>3
    <3> QED
      BY <3>1
  <2>5. j \in Nat /\ j <= n /\ ~(k <= j)
    BY <2>4
  <2>6. j \notin Bad
    BY <2>1, <2>5
  <2>7. \E g : Rounds(g, j, S, base, step)
    BY <2>5, <2>6
  <2> QED
    BY <2>2, <2>4, <2>7, OneRound
<1> QED
  BY <1>2

\* Whatever goes by these steps from there has states of that kind.
LEMMA LoopStatesAre ==
    ASSUME NEW S, NEW n \in Nat, NEW base \in S, NEW f,
           f = [i \in 0..n |-> f[i]], f[0] = base,
           \A i \in 1..n : f[i - 1] \in S => f[i] \in S
    PROVE  f \in [0..n -> S]
<1> DEFINE P == {i \in 0..n : f[i] \in S}
<1>1. 0 \in P
  OBVIOUS
<1>2. ASSUME NEW i \in 1..n, i - 1 \in P PROVE i \in P
  <2>1. f[i] \in S /\ i \in 0..n
    BY <1>2
  <2> QED
    BY <2>1
<1>3. \A i \in 0..n : i \in P
  <2> HIDE DEF P
  <2> QED
    BY <1>1, <1>2, IndexInduction
<1>4. \A i \in 0..n : f[i] \in S
  BY <1>3
<1> QED
  BY <1>4

\* The least of a set of numbers.
LEMMA MinOfNumbers ==
    ASSUME NEW T, T \subseteq Nat, T # {}
    PROVE  Min(T) \in T /\ \A y \in T : Min(T) <= y
  BY LeastNumber DEF Min

-----------------------------------------------------------------------------
(* The nodes within n steps.                                                 *)

\* The ends of the edges that lead from V.
Reach(es, V) == {e.to : e \in {f \in ToSet(es) : f.from \in V}}

\* The states of Within: what is reached at each step.
Steps(f, es, s, n) ==
    f[0] = {s} /\ \A i \in 1..n : f[i] = f[i - 1] \cup Reach(es, f[i - 1])

\* Within has such states.
LEMMA WithinStates ==
    ASSUME NEW es, NEW s, NEW n \in Nat
    PROVE  \E f : Steps(f, es, s, n) /\ Within(es, s, n) = f[n]
<1> DEFINE All == {s} \cup {e.to : e \in ToSet(es)}
           Step(V) == V \cup {e.to : e \in {x \in ToSet(es) : x.from \in V}}
           Next1(f) == [k \in 0..n |-> IF k = 0 THEN {s} ELSE f[k - 1] \cup {e.to : e \in {x \in ToSet(es) : x.from \in f[k - 1]}}]
<1>1. PICK step : step = [i \in 1..n |-> [V \in SUBSET All |-> Step(V)]]
  OBVIOUS
<1>2. {s} \in SUBSET All /\ step \in [1..n -> [SUBSET All -> SUBSET All]]
  <2>1. \A V \in SUBSET All : Step(V) \in SUBSET All
    OBVIOUS
  <2> HIDE DEF All, Step
  <2>2. step \in [1..n -> [SUBSET All -> SUBSET All]]
    BY <1>1, <2>1
  <2> QED
    BY <2>2 DEF All
<1> HIDE DEF All
<1>3. PICK g : Rounds(g, n, SUBSET All, {s}, step)
  BY <1>2, LoopHasStates
<1>4. g \in [0..n -> SUBSET All] /\ g[0] = {s}
  BY <1>3 DEF Rounds
<1>5. ASSUME NEW i \in 1..n PROVE g[i] = Step(g[i - 1])
  <2>1. g[i] = step[i][g[i - 1]] /\ g[i - 1] \in SUBSET All
    BY <1>3, <1>4 DEF Rounds
  <2> HIDE DEF Step
  <2> QED
    BY <1>1, <2>1
<1>6. g = Next1(g)
  BY <1>4, <1>5
<1>7. PICK f : f = CHOOSE x : x = Next1(x)
  OBVIOUS
<1>8. f = Next1(f)
  BY <1>6, <1>7, Zenon
<1>9. Within(es, s, n) = f[n]
  BY <1>7 DEF Within
<1>10. f[0] = {s}
  BY <1>8
<1>11. ASSUME NEW i \in 1..n PROVE f[i] = Step(f[i - 1])
  <2>1. i \in 0..n /\ i # 0
    OBVIOUS
  <2> QED
    BY <1>8, <2>1, Zenon
<1> QED
  BY <1>9, <1>10, <1>11 DEF Reach, Steps

\* Within, one step at a time.
LEMMA WithinNext ==
    ASSUME NEW es, NEW s, NEW n \in Nat
    PROVE  /\ Within(es, s, 0) = {s}
           /\ Within(es, s, n + 1) = Within(es, s, n) \cup Reach(es, Within(es, s, n))
<1>1. Within(es, s, 0) = {s}
  BY WithinStates DEF Steps
<1>2. PICK f : Steps(f, es, s, n) /\ Within(es, s, n) = f[n]
  BY WithinStates
<1>3. PICK g : Steps(g, es, s, n + 1) /\ Within(es, s, n + 1) = g[n + 1]
  BY WithinStates
<1> DEFINE P == {i \in 0..n : f[i] = g[i]}
<1>4. 0 \in P
  <2>1. 0 \in 0..n /\ f[0] = g[0]
    BY <1>2, <1>3 DEF Steps
  <2> QED
    BY <2>1
<1>5. ASSUME NEW i \in 1..n, i - 1 \in P PROVE i \in P
  <2>1. i \in 1..(n + 1) /\ i \in 0..n /\ f[i - 1] = g[i - 1]
    BY <1>5
  <2> QED
    BY <1>2, <1>3, <2>1 DEF Steps
<1>6. \A i \in 0..n : i \in P
  <2> HIDE DEF P
  <2> QED
    BY <1>4, <1>5, IndexInduction
<1>7. f[n] = g[n]
  BY <1>6
<1>8. g[n + 1] = g[n] \cup Reach(es, g[n])
  <2>1. n + 1 \in 1..(n + 1) /\ (n + 1) - 1 = n
    OBVIOUS
  <2> QED
    BY <1>3, <2>1 DEF Steps
<1> QED
  BY <1>1, <1>2, <1>3, <1>7, <1>8

\* More edges reach no less.
LEMMA WithinGrows ==
    ASSUME NEW es, NEW fs, NEW s, NEW n \in Nat, ToSet(es) \subseteq ToSet(fs)
    PROVE  Within(es, s, n) \subseteq Within(fs, s, n)
<1> DEFINE P == {i \in 0..n : Within(es, s, i) \subseteq Within(fs, s, i)}
<1>1. 0 \in P
  BY WithinNext
<1>2. ASSUME NEW i \in 1..n, i - 1 \in P PROVE i \in P
  <2>1. PICK m \in Nat : i = m + 1 /\ m = i - 1
    <3>1. i - 1 \in Nat /\ i = (i - 1) + 1
      OBVIOUS
    <3> QED
      BY <3>1
  <2>2. PICK V, U : V = Within(es, s, m) /\ U = Within(fs, s, m)
    OBVIOUS
  <2>3. V \subseteq U
    BY <1>2, <2>1, <2>2
  <2>4. /\ Within(es, s, i) = V \cup Reach(es, V)
        /\ Within(fs, s, i) = U \cup Reach(fs, U)
    BY <2>1, <2>2, WithinNext
  <2>5. Reach(es, V) \subseteq Reach(fs, U)
    BY <2>3 DEF Reach
  <2>6. i \in 0..n
    OBVIOUS
  <2> QED
    BY <2>3, <2>4, <2>5, <2>6
<1>3. \A i \in 0..n : i \in P
  <2> HIDE DEF P
  <2> QED
    BY <1>1, <1>2, IndexInduction
<1> QED
  BY <1>3

\* A set from which no edge leads out holds all that is reached from its members.
LEMMA WithinClosed ==
    ASSUME NEW es, NEW s, NEW n \in Nat, NEW V, s \in V, Reach(es, V) \subseteq V
    PROVE  Within(es, s, n) \subseteq V
<1> DEFINE P == {i \in 0..n : Within(es, s, i) \subseteq V}
<1>1. 0 \in P
  BY WithinNext
<1>2. ASSUME NEW i \in 1..n, i - 1 \in P PROVE i \in P
  <2>1. PICK m \in Nat : i = m + 1 /\ m = i - 1
    <3>1. i - 1 \in Nat /\ i = (i - 1) + 1
      OBVIOUS
    <3> QED
      BY <3>1
  <2>2. PICK U : U = Within(es, s, m)
    OBVIOUS
  <2>3. U \subseteq V
    BY <1>2, <2>1, <2>2
  <2>4. Within(es, s, i) = U \cup Reach(es, U)
    BY <2>1, <2>2, WithinNext
  <2>5. Reach(es, U) \subseteq Reach(es, V)
    BY <2>3 DEF Reach
  <2>6. i \in 0..n
    OBVIOUS
  <2> QED
    BY <2>3, <2>4, <2>5, <2>6
<1>3. \A i \in 0..n : i \in P
  <2> HIDE DEF P
  <2> QED
    BY <1>1, <1>2, IndexInduction
<1> QED
  BY <1>3

-----------------------------------------------------------------------------
(* TRAVERSE.  What a walk has handled, it has handled for all of the edges   *)
(* there were at its start; edges are only added until the store is dropped. *)

WalkFields ==
    {"op", "obj", "start", "depth", "d", "visited", "level", "next", "rest", "rows", "first", "there"}

\* The locals of a walk over the edges es and the nodes ns.
LocalsOK(j, es, ns) ==
    /\ j.d \in Nat /\ j.depth \in Nat /\ j.d + 1 <= j.depth
    /\ j.start \in j.visited
    /\ j.level \in Seq(j.visited) /\ j.next \in Seq(j.visited) /\ j.rest \in Seq(Edges)
    /\ ToSet(j.first) \subseteq ToSet(es) /\ ToSet(j.rest) \subseteq ToSet(es)
    /\ j.there \subseteq ns

\* The level at hand and the next one are as far away as the walk takes them for,
\* and what was near at the start has been visited.
LevelsOK(j, es) ==
    /\ ToSet(j.level) \subseteq Within(es, j.start, j.d)
    /\ ToSet(j.next) \subseteq Within(es, j.start, j.d + 1)
    /\ ToSet(j.next) \cap Within(j.first, j.start, j.d) = {}
    /\ Within(j.first, j.start, j.d) \subseteq j.visited

\* An edge of the start that leads from a visited node to a new one is still ahead: in
\* what the pass has to scan, or its node waits for its own pass.
AheadOK(j, at) ==
    /\ at = "scan" => j.level # <<>>
    /\ \A e \in ToSet(j.first) :
         e.from \in j.visited /\ e.to \notin j.visited =>
           /\ e.from \in ToSet(j.level) \cup ToSet(j.next)
           /\ at = "scan" /\ e.from = Head(j.level) => e \in ToSet(j.rest)

\* Each visited node that was there has one row, with a distance that is right.
RowsOK(j, es) ==
    /\ \A x \in j.rows :
         /\ x[1] \in j.visited /\ x[2] \in 1..(j.d + 1)
         /\ x[1] \in Within(es, j.start, x[2])
         /\ x[1] \notin Within(j.first, j.start, x[2] - 1)
    /\ \A x, y \in j.rows : x[1] = y[1] => x = y
    /\ (j.visited \cap j.there) \ {j.start} \subseteq {x[1] : x \in j.rows}

WalkOK(j, es, ns, at) ==
    DOMAIN j = WalkFields /\ LocalsOK(j, es, ns) /\ LevelsOK(j, es) /\ AheadOK(j, at) /\ RowsOK(j, es)

\* The walk of r, unless the store it is in was dropped.
WalkAt(r) ==
    pc[r] \in {"level", "scan"} =>
      /\ job[r].obj \in used
      /\ Stuck(job[r].obj) \/ WalkOK(job[r], edges[job[r].obj], DOMAIN nodes[job[r].obj], pc[r])

WalksOK == \A r \in Browsers : WalkAt(r)

\* A step that takes no node and no edge from the object.
Adds(o) ==
    DOMAIN nodes[o] \subseteq DOMAIN nodes'[o] /\ ToSet(edges[o]) \subseteq ToSet(edges'[o])

\* The fields of the locals of a walk.
LEMMA LocalsEdges ==
    ASSUME NEW j, NEW es, NEW ns, LocalsOK(j, es, ns)
    PROVE  /\ j.d \in Nat /\ j.d + 1 \in Nat /\ j.d + 1 \in 1..(j.d + 1)
           /\ \A x \in 1..(j.d + 1) : x \in Nat /\ x - 1 \in Nat /\ x \in 1..(j.d + 2)
BY DEF LocalsOK

\* A walk is no worse when edges and nodes come in.
LEMMA WalkGrows ==
    ASSUME NEW j, NEW es, NEW fs, NEW ns, NEW ms, NEW at, WalkOK(j, es, ns, at),
           ToSet(es) \subseteq ToSet(fs), ns \subseteq ms
    PROVE  WalkOK(j, fs, ms, at)
<1>1. DOMAIN j = WalkFields /\ LocalsOK(j, es, ns) /\ LevelsOK(j, es) /\ AheadOK(j, at) /\ RowsOK(j, es)
    BY DEF WalkOK
<1>2. LocalsOK(j, fs, ms)
    BY <1>1 DEF LocalsOK
<1>3. j.d \in Nat /\ j.d + 1 \in Nat /\ \A x \in 1..(j.d + 1) : x \in Nat
    BY <1>1, LocalsEdges
<1>4. \A n \in Nat : Within(es, j.start, n) \subseteq Within(fs, j.start, n)
    BY WithinGrows
<1>5. LevelsOK(j, fs)
    BY <1>1, <1>3, <1>4 DEF LevelsOK
<1>6. RowsOK(j, fs)
    BY <1>1, <1>3, <1>4 DEF RowsOK
<1> QED
    BY <1>1, <1>2, <1>5, <1>6 DEF WalkOK

\* A walk at its start.
LEMMA WalkBegins ==
    ASSUME NEW o, NEW s, NEW n \in Nat \ {0}, NEW es, NEW ns, NEW j,
           j = [op |-> "traverse", obj |-> o, start |-> s, depth |-> n, d |-> 0,
                visited |-> {s}, level |-> <<s>>, next |-> <<>>, rest |-> <<>>,
                rows |-> {}, first |-> es, there |-> ns]
    PROVE  WalkOK(j, es, ns, "level")
<1>1. /\ DOMAIN j = WalkFields
      /\ j.start = s /\ j.depth = n /\ j.d = 0 /\ j.visited = {s} /\ j.level = <<s>>
      /\ j.next = <<>> /\ j.rest = <<>> /\ j.rows = {} /\ j.first = es /\ j.there = ns
    BY DEF WalkFields
<1>2. /\ <<s>> \in Seq({s}) /\ <<>> \in Seq({s}) /\ <<>> \in Seq(Edges)
      /\ ToSet(<<s>>) = {s} /\ ToSet(<<>>) = {}
    BY DEF ToSet
<1>3. /\ Within(es, s, 0) = {s}
      /\ \A k \in Nat : k + 1 \in Nat
    BY WithinNext
<1>4. LocalsOK(j, es, ns)
    BY <1>1, <1>2 DEF LocalsOK
<1>5. LevelsOK(j, es)
    BY <1>1, <1>2, <1>3 DEF LevelsOK
<1>6. AheadOK(j, "level")
    BY <1>1, <1>2 DEF AheadOK
<1>7. RowsOK(j, es)
    BY <1>1 DEF RowsOK
<1> QED
    BY <1>1, <1>4, <1>5, <1>6, <1>7 DEF WalkOK

\* The pass over the edges for the next node of the level.
LEMMA ScanBegins ==
    ASSUME NEW j, NEW es \in Seq(Edges), NEW ns, WalkOK(j, es, ns, "level"), j.level # <<>>,
           NEW k, k = [j EXCEPT !.rest = es]
    PROVE  WalkOK(k, es, ns, "scan")
<1>1. DOMAIN j = WalkFields /\ LocalsOK(j, es, ns) /\ LevelsOK(j, es) /\ AheadOK(j, "level") /\ RowsOK(j, es)
    BY DEF WalkOK
<1>2. /\ DOMAIN k = WalkFields
      /\ k.start = j.start /\ k.depth = j.depth /\ k.d = j.d /\ k.visited = j.visited
      /\ k.level = j.level /\ k.next = j.next /\ k.rest = es /\ k.rows = j.rows
      /\ k.first = j.first /\ k.there = j.there
    BY <1>1 DEF WalkFields
<1>3. LocalsOK(k, es, ns)
    BY <1>1, <1>2 DEF LocalsOK
<1>4. LevelsOK(k, es)
    BY <1>1, <1>2 DEF LevelsOK
<1>5. AheadOK(k, "scan")
    BY <1>1, <1>2 DEF AheadOK, LocalsOK
<1>6. RowsOK(k, es)
    BY <1>1, <1>2 DEF RowsOK
<1> QED
    BY <1>2, <1>3, <1>4, <1>5, <1>6 DEF WalkOK

\* The head of a sequence and what follows it.
LEMMA HeadAndTail ==
    ASSUME NEW S, NEW q \in Seq(S), q # <<>>
    PROVE  /\ Head(q) \in S /\ Head(q) \in ToSet(q)
           /\ Tail(q) \in Seq(S)
           /\ ToSet(q) = {Head(q)} \cup ToSet(Tail(q))
<1>1. PICK n \in Nat : n = Len(q) /\ n >= 1
    <2>1. Len(q) \in Nat /\ Len(q) # 0
        OBVIOUS
    <2> QED
        BY <2>1
<1>2. /\ DOMAIN q = 1..n /\ \A i \in 1..n : q[i] \in S
      /\ Head(q) = q[1] /\ 1 \in 1..n
    BY <1>1
<1>3. /\ Tail(q) \in Seq(S) /\ DOMAIN Tail(q) = 1..(n - 1)
      /\ \A i \in 1..(n - 1) : Tail(q)[i] = q[i + 1]
    BY <1>1
<1>4. \A i \in 1..n : i = 1 \/ (i - 1 \in 1..(n - 1) /\ (i - 1) + 1 = i)
    BY <1>1
<1>5. \A i \in 1..(n - 1) : i + 1 \in 1..n
    BY <1>1
<1>6. \A x \in ToSet(q) : x = Head(q) \/ x \in ToSet(Tail(q))
    <2> SUFFICES ASSUME NEW i \in 1..n, i # 1
                 PROVE  q[i] \in ToSet(Tail(q))
        BY <1>2 DEF ToSet
    <2>1. i - 1 \in 1..(n - 1) /\ (i - 1) + 1 = i
        BY <1>4
    <2>2. Tail(q)[i - 1] = q[i]
        BY <1>3, <2>1
    <2> QED
        BY <1>3, <2>1, <2>2 DEF ToSet
<1>7. \A x \in ToSet(Tail(q)) : x \in ToSet(q)
    BY <1>2, <1>3, <1>5 DEF ToSet
<1>8. Head(q) \in ToSet(q)
    BY <1>2 DEF ToSet
<1> QED
    BY <1>2, <1>3, <1>6, <1>7, <1>8

\* A pass that finds no edge to a new node is done with its node.
LEMMA ScanEnds ==
    ASSUME NEW j, NEW es, NEW ns, WalkOK(j, es, ns, "scan"), Fresh(j) = {},
           NEW k, k = [j EXCEPT !.level = Tail(@), !.rest = <<>>]
    PROVE  WalkOK(k, es, ns, "level")
<1>1. DOMAIN j = WalkFields /\ LocalsOK(j, es, ns) /\ LevelsOK(j, es) /\ AheadOK(j, "scan") /\ RowsOK(j, es)
    BY DEF WalkOK
<1>2. /\ DOMAIN k = WalkFields
      /\ k.start = j.start /\ k.depth = j.depth /\ k.d = j.d /\ k.visited = j.visited
      /\ k.level = Tail(j.level) /\ k.next = j.next /\ k.rest = <<>> /\ k.rows = j.rows
      /\ k.first = j.first /\ k.there = j.there
    BY <1>1 DEF WalkFields
<1>3. j.level \in Seq(j.visited) /\ j.level # <<>>
    BY <1>1 DEF LocalsOK, AheadOK
<1>4. /\ Tail(j.level) \in Seq(j.visited)
      /\ ToSet(j.level) = {Head(j.level)} \cup ToSet(Tail(j.level))
    BY <1>3, HeadAndTail
<1>5. <<>> \in Seq(Edges) /\ ToSet(<<>>) = {}
    BY DEF ToSet
<1>6. LocalsOK(k, es, ns)
    BY <1>1, <1>2, <1>4, <1>5 DEF LocalsOK
<1>7. LevelsOK(k, es)
    BY <1>1, <1>2, <1>4 DEF LevelsOK
<1>8. AheadOK(k, "level")
    <2> SUFFICES ASSUME NEW e \in ToSet(j.first), e.from \in j.visited, e.to \notin j.visited
                 PROVE  e.from \in ToSet(Tail(j.level)) \cup ToSet(j.next)
        BY <1>2 DEF AheadOK
    <2>1. e.from = Head(j.level) => e \in ToSet(j.rest)
        BY <1>1 DEF AheadOK
    <2>2. e \notin ToSet(j.rest) \/ e.from # Head(j.level)
        BY DEF Fresh, ToSet
    <2> QED
        BY <1>1, <1>4, <2>1, <2>2 DEF AheadOK
<1>9. RowsOK(k, es)
    BY <1>1, <1>2 DEF RowsOK
<1> QED
    BY <1>2, <1>6, <1>7, <1>8, <1>9 DEF WalkOK

\* When a level has no node left, all that was near at the start has been visited.
LEMMA NearVisited ==
    ASSUME NEW j, NEW es, NEW ns, WalkOK(j, es, ns, "level"), j.level = <<>>
    PROVE  Within(j.first, j.start, j.d + 1) \subseteq j.visited
<1>1. LocalsOK(j, es, ns) /\ LevelsOK(j, es) /\ AheadOK(j, "level")
    BY DEF WalkOK
<1>2. PICK V : V = Within(j.first, j.start, j.d)
    OBVIOUS
<1>3. V \subseteq j.visited /\ ToSet(j.next) \cap V = {}
    BY <1>1, <1>2 DEF LevelsOK
<1>4. ToSet(j.level) = {}
    BY DEF ToSet
<1>5. Within(j.first, j.start, j.d + 1) = V \cup Reach(j.first, V)
    <2>1. j.d \in Nat
        BY <1>1 DEF LocalsOK
    <2> QED
        BY <1>2, <2>1, WithinNext
<1>6. \A e \in ToSet(j.first) : e.from \in V => e.to \in j.visited
    BY <1>1, <1>3, <1>4 DEF AheadOK
<1> QED
    BY <1>3, <1>5, <1>6 DEF Reach

\* The next level is one step further away.
LEMMA NextLevels ==
    ASSUME NEW j, NEW es, NEW ns, WalkOK(j, es, ns, "level"), j.level = <<>>, ~LastLevel(j),
           NEW k, k = [j EXCEPT !.level = j.next, !.next = <<>>, !.d = @ + 1]
    PROVE  WalkOK(k, es, ns, "level")
<1>1. DOMAIN j = WalkFields /\ LocalsOK(j, es, ns) /\ LevelsOK(j, es) /\ AheadOK(j, "level") /\ RowsOK(j, es)
    BY DEF WalkOK
<1>2. PICK d \in Nat : d = j.d
    BY <1>1 DEF LocalsOK
<1>3. /\ DOMAIN k = WalkFields
      /\ k.start = j.start /\ k.depth = j.depth /\ k.d = d + 1 /\ k.visited = j.visited
      /\ k.level = j.next /\ k.next = <<>> /\ k.rest = j.rest /\ k.rows = j.rows
      /\ k.first = j.first /\ k.there = j.there
    BY <1>1, <1>2 DEF WalkFields
<1>4. <<>> \in Seq(j.visited) /\ ToSet(<<>>) = {}
    BY DEF ToSet
<1>5. LocalsOK(k, es, ns)
    <2>1. j.depth \in Nat /\ d + 1 <= j.depth /\ d + 1 # j.depth
        BY <1>1, <1>2 DEF LocalsOK, LastLevel
    <2>2. d + 1 \in Nat /\ (d + 1) + 1 <= j.depth
        BY <2>1
    <2> QED
        BY <1>1, <1>3, <1>4, <2>1, <2>2 DEF LocalsOK
<1>6. LevelsOK(k, es)
    <2>1. Within(j.first, j.start, d + 1) \subseteq j.visited
        BY <1>2, NearVisited
    <2>2. ToSet(j.next) \subseteq Within(es, j.start, d + 1)
        BY <1>1, <1>2 DEF LevelsOK
    <2> QED
        BY <1>3, <1>4, <2>1, <2>2 DEF LevelsOK
<1>7. AheadOK(k, "level")
    <2>1. ToSet(j.level) = {}
        BY DEF ToSet
    <2> QED
        BY <1>1, <1>3, <2>1 DEF AheadOK
<1>8. RowsOK(k, es)
    <2>1. \A x \in 1..(d + 1) : x \in 1..((d + 1) + 1)
        OBVIOUS
    <2> QED
        BY <1>1, <1>2, <1>3, <2>1 DEF RowsOK
<1> QED
    BY <1>3, <1>5, <1>6, <1>7, <1>8 DEF WalkOK

\* What TRAVERSE answers with is right.
LEMMA WalkReturns ==
    ASSUME NEW j, NEW es, NEW ns, WalkOK(j, es, ns, "level"), j.level = <<>>, LastLevel(j)
    PROVE  /\ \A x, y \in j.rows : x[1] = y[1] => x = y
           /\ \A x \in j.rows : /\ x[1] \in Within(es, j.start, x[2])
                                /\ x[1] \notin Within(j.first, j.start, x[2] - 1)
           /\ (Within(j.first, j.start, j.depth) \cap j.there) \ {j.start}
                 \subseteq {x[1] : x \in j.rows}
<1>1. LocalsOK(j, es, ns) /\ LevelsOK(j, es) /\ AheadOK(j, "level") /\ RowsOK(j, es)
    BY DEF WalkOK
<1>2. Within(j.first, j.start, j.depth) \subseteq j.visited
    <2>1. CASE j.d + 1 = j.depth
        BY <2>1, NearVisited
    <2>2. CASE j.next = <<>>
        <3>1. ToSet(j.level) = {} /\ ToSet(j.next) = {}
            BY <2>2 DEF ToSet
        <3>2. Reach(j.first, j.visited) \subseteq j.visited
            BY <1>1, <3>1 DEF AheadOK, Reach
        <3>3. j.start \in j.visited /\ j.depth \in Nat
            BY <1>1 DEF LocalsOK
        <3> QED
            BY <3>2, <3>3, WithinClosed
    <2> QED
        BY <2>1, <2>2 DEF LastLevel
<1>3. (j.visited \cap j.there) \ {j.start} \subseteq {x[1] : x \in j.rows}
    BY <1>1 DEF RowsOK
<1>4. (Within(j.first, j.start, j.depth) \cap j.there) \ {j.start} \subseteq {x[1] : x \in j.rows}
    <2>1. (Within(j.first, j.start, j.depth) \cap j.there) \ {j.start}
            \subseteq (j.visited \cap j.there) \ {j.start}
        BY <1>2
    <2> QED
        BY <1>3, <2>1
<1> QED
    BY <1>1, <1>4 DEF RowsOK

\* The edge of a pass that leads to a new node: the first such, and what comes after it.
LEMMA FirstFresh ==
    ASSUME NEW j, j.rest \in Seq(Edges), Fresh(j) # {}
    PROVE  \E i, q :
           /\ i = Min(Fresh(j)) /\ q = SubSeq(j.rest, i + 1, Len(j.rest))
           /\ j.rest[i] \in ToSet(j.rest)
           /\ j.rest[i].from = Head(j.level) /\ j.rest[i].to \notin j.visited
           /\ q \in Seq(Edges) /\ ToSet(q) \subseteq ToSet(j.rest)
           /\ \A e \in ToSet(j.rest) :
                e.from = Head(j.level) /\ e.to \notin j.visited /\ e.to # j.rest[i].to
                  => e \in ToSet(q)
<1> DEFINE s == j.rest
<1>a. PICK i : i = Min(Fresh(j))
    OBVIOUS
<1>b. PICK q : q = SubSeq(s, i + 1, Len(s))
    OBVIOUS
<1>1. PICK n \in Nat : n = Len(s) /\ DOMAIN s = 1..n
    OBVIOUS
<1>2. Fresh(j) \subseteq 1..n
    BY <1>1 DEF Fresh
<1>3. i \in Fresh(j) /\ \A x \in Fresh(j) : i <= x
    <2>1. Fresh(j) \subseteq Nat
        BY <1>2
    <2> QED
        BY <1>a, <2>1, MinOfNumbers
<1>4. i \in 1..n /\ s[i].from = Head(j.level) /\ s[i].to \notin j.visited
    BY <1>1, <1>3 DEF Fresh
<1>5. /\ q \in Seq(Edges) /\ DOMAIN q = 1..(n - i)
      /\ \A k \in 1..(n - i) : q[k] = s[i + k]
    BY <1>b, <1>1, <1>4
<1>6. ToSet(q) \subseteq ToSet(s)
    <2> SUFFICES ASSUME NEW k \in 1..(n - i)
                 PROVE  q[k] \in ToSet(s)
        BY <1>5 DEF ToSet
    <2>1. i + k \in 1..n
        BY <1>4
    <2> QED
        BY <1>1, <1>5, <2>1 DEF ToSet
<1>7. ASSUME NEW e \in ToSet(s), e.from = Head(j.level), e.to \notin j.visited, e.to # s[i].to
      PROVE  e \in ToSet(q)
    <2>1. PICK m \in 1..n : e = s[m]
        BY <1>1 DEF ToSet
    <2>2. m \in Fresh(j) /\ m # i
        BY <1>1, <1>7, <2>1 DEF Fresh
    <2>3. m - i \in 1..(n - i) /\ i + (m - i) = m
        BY <1>3, <1>4, <2>2
    <2>4. q[m - i] = e
        BY <1>5, <2>1, <2>3
    <2> QED
        BY <1>5, <2>3, <2>4 DEF ToSet
<1>8. s[i] \in ToSet(s)
    BY <1>1, <1>4 DEF ToSet
<1> QED
    BY <1>a, <1>b, <1>4, <1>5, <1>6, <1>7, <1>8

\* What is put at the end of a sequence.
LEMMA AppendSet ==
    ASSUME NEW S, NEW q \in Seq(S), NEW v
    PROVE  /\ Append(q, v) \in Seq(S \cup {v})
           /\ ToSet(Append(q, v)) = ToSet(q) \cup {v}
<1>1. PICK n \in Nat : n = Len(q) /\ DOMAIN q = 1..n
    OBVIOUS
<1>2. q \in Seq(S \cup {v})
    OBVIOUS
<1>3. PICK a : a = Append(q, v)
    OBVIOUS
<1>4. a \in Seq(S \cup {v})
    BY <1>2, <1>3
<1>5. DOMAIN a = 1..(n + 1) /\ a[n + 1] = v /\ \A i \in 1..n : a[i] = q[i]
    BY <1>1, <1>3
<1>6. \A i \in 1..(n + 1) : i \in 1..n \/ i = n + 1
    OBVIOUS
<1>7. n + 1 \in 1..(n + 1) /\ \A i \in 1..n : i \in 1..(n + 1)
    OBVIOUS
<1>8. ToSet(a) = ToSet(q) \cup {v}
    BY <1>1, <1>5, <1>6, <1>7, Zenon DEF ToSet
<1> QED
    BY <1>3, <1>4, <1>8

\* A pass that comes to an edge to a new node goes there.
LEMMA ScanVisits ==
    ASSUME NEW j, NEW es, WalkOK(j, es, DOMAIN nodes[j.obj], "scan"), Fresh(j) # {},
           NEW i, i = Min(Fresh(j)), NEW v, v = j.rest[i].to,
           NEW k, k = Visit([j EXCEPT !.rest = SubSeq(@, i + 1, Len(@))], v)
    PROVE  WalkOK(k, es, DOMAIN nodes[j.obj], "scan") /\ k.obj = j.obj
<1>0. PICK ns : ns = DOMAIN nodes[j.obj]
    OBVIOUS
<1>1. DOMAIN j = WalkFields /\ LocalsOK(j, es, ns) /\ LevelsOK(j, es) /\ AheadOK(j, "scan") /\ RowsOK(j, es)
    BY <1>0 DEF WalkOK
<1>2. PICK d \in Nat : d = j.d
    BY <1>1 DEF LocalsOK
<1>3. PICK q :
        /\ q = SubSeq(j.rest, i + 1, Len(j.rest))
        /\ j.rest[i] \in ToSet(j.rest)
        /\ j.rest[i].from = Head(j.level) /\ j.rest[i].to \notin j.visited
        /\ q \in Seq(Edges) /\ ToSet(q) \subseteq ToSet(j.rest)
        /\ \A e \in ToSet(j.rest) :
             e.from = Head(j.level) /\ e.to \notin j.visited /\ e.to # j.rest[i].to
               => e \in ToSet(q)
    <2>1. j.rest \in Seq(Edges)
        BY <1>1 DEF LocalsOK
    <2> QED
        BY <2>1, FirstFresh
<1>4. PICK row : row = <<v, d + 1>>
    OBVIOUS
<1>5. PICK new : new = IF v \in ns THEN {row} ELSE {}
    OBVIOUS
<1>6. /\ DOMAIN k = WalkFields /\ k.obj = j.obj
      /\ k.start = j.start /\ k.depth = j.depth /\ k.d = d /\ k.visited = j.visited \cup {v}
      /\ k.level = j.level /\ k.next = Append(j.next, v) /\ k.rest = q /\ k.rows = j.rows \cup new
      /\ k.first = j.first /\ k.there = j.there
    BY <1>0, <1>1, <1>2, <1>3, <1>4, <1>5 DEF WalkFields, Visit
<1>7. /\ j.rest \in Seq(Edges) /\ ToSet(j.rest) \subseteq ToSet(es)
      /\ j.level \in Seq(j.visited) /\ j.next \in Seq(j.visited) /\ j.level # <<>>
    BY <1>1 DEF LocalsOK, AheadOK
<1>8. PICK e \in ToSet(j.rest) : e = j.rest[i] /\ e.from = Head(j.level) /\ e.to = v
    BY <1>3
<1>9. /\ v \notin j.visited /\ q \in Seq(Edges) /\ ToSet(q) \subseteq ToSet(j.rest)
      /\ \A x \in ToSet(j.rest) :
           x.from = Head(j.level) /\ x.to \notin j.visited /\ x.to # v => x \in ToSet(q)
    BY <1>3
<1>10. /\ Append(j.next, v) \in Seq(j.visited \cup {v})
       /\ ToSet(Append(j.next, v)) = ToSet(j.next) \cup {v}
    <2>1. PICK n : n = j.next /\ n \in Seq(j.visited)
        BY <1>7
    <2>2. /\ Append(n, v) \in Seq(j.visited \cup {v})
          /\ ToSet(Append(n, v)) = ToSet(n) \cup {v}
        BY <2>1, AppendSet
    <2> QED
        BY <2>1, <2>2
<1>11. Head(j.level) \in j.visited /\ Head(j.level) \in ToSet(j.level)
    BY <1>7, HeadAndTail
<1>12. j.level \in Seq(j.visited \cup {v})
    BY <1>7
<1>13. v \in Within(es, j.start, d + 1)
    <2>1. Head(j.level) \in Within(es, j.start, d)
        BY <1>1, <1>2, <1>11 DEF LevelsOK
    <2>2. v \in Reach(es, Within(es, j.start, d))
        BY <1>7, <1>8, <2>1 DEF Reach
    <2> QED
        BY <2>2, WithinNext
<1>14. v \notin Within(j.first, j.start, d)
    BY <1>1, <1>2, <1>9 DEF LevelsOK
<1>15. LocalsOK(k, es, ns)
    BY <1>1, <1>2, <1>6, <1>7, <1>9, <1>10, <1>12 DEF LocalsOK
<1>16. LevelsOK(k, es)
    BY <1>1, <1>2, <1>6, <1>10, <1>13, <1>14 DEF LevelsOK
<1>17. AheadOK(k, "scan")
    <2> SUFFICES ASSUME NEW x \in ToSet(j.first),
                        x.from \in j.visited \cup {v}, x.to \notin j.visited \cup {v}
                 PROVE  /\ x.from \in ToSet(j.level) \cup ToSet(j.next) \cup {v}
                        /\ x.from = Head(j.level) => x \in ToSet(q)
        BY <1>6, <1>7, <1>10 DEF AheadOK
    <2>1. CASE x.from = v
        BY <1>9, <1>11, <2>1
    <2>2. CASE x.from \in j.visited
        <3>1. /\ x.from \in ToSet(j.level) \cup ToSet(j.next)
              /\ x.from = Head(j.level) => x \in ToSet(j.rest)
            BY <1>1, <2>2 DEF AheadOK
        <3> QED
            BY <1>9, <3>1
    <2> QED
        BY <2>1, <2>2
<1>18. RowsOK(k, es)
    <2>1. \A x \in new : x = row /\ x[1] = v /\ x[2] = d + 1 /\ v \in ns
        BY <1>4, <1>5
    <2>2. d + 1 \in 1..(d + 1) /\ (d + 1) - 1 = d
        OBVIOUS
    <2>3. ASSUME NEW x \in j.rows \cup new
          PROVE  /\ x[1] \in j.visited \cup {v} /\ x[2] \in 1..(d + 1)
                 /\ x[1] \in Within(es, j.start, x[2])
                 /\ x[1] \notin Within(j.first, j.start, x[2] - 1)
        <3>1. CASE x \in j.rows
            BY <1>1, <1>2, <3>1 DEF RowsOK
        <3>2. CASE x \in new
            BY <1>13, <1>14, <2>1, <2>2, <3>2
        <3> QED
            BY <3>1, <3>2
    <2>4. ASSUME NEW x \in j.rows \cup new, NEW y \in j.rows \cup new, x[1] = y[1]
          PROVE  x = y
        <3>1. \A z \in j.rows : z[1] # v
            BY <1>1, <1>9 DEF RowsOK
        <3>2. \A z, u \in j.rows : z[1] = u[1] => z = u
            BY <1>1 DEF RowsOK
        <3> QED
            BY <2>1, <2>4, <3>1, <3>2
    <2>5. ASSUME NEW u \in ((j.visited \cup {v}) \cap j.there) \ {j.start}
          PROVE  \E x \in j.rows \cup new : x[1] = u
        <3>1. CASE u \in j.visited
            <4>1. u \in {x[1] : x \in j.rows}
                BY <1>1, <3>1 DEF RowsOK
            <4> QED
                BY <4>1
        <3>2. CASE u = v
            <4>1. v \in ns
                BY <1>1, <3>2 DEF LocalsOK
            <4> QED
                BY <1>4, <1>5, <3>2, <4>1
        <3> QED
            BY <3>1, <3>2
    <2>6. \A x \in k.rows :
            /\ x[1] \in k.visited /\ x[2] \in 1..(k.d + 1)
            /\ x[1] \in Within(es, k.start, x[2])
            /\ x[1] \notin Within(k.first, k.start, x[2] - 1)
        BY <1>6, <2>3
    <2>7. \A x, y \in k.rows : x[1] = y[1] => x = y
        BY <1>6, <2>4
    <2>8. (k.visited \cap k.there) \ {k.start} \subseteq {x[1] : x \in k.rows}
        BY <1>6, <2>5
    <2> QED
        BY <2>6, <2>7, <2>8 DEF RowsOK
<1> QED
    BY <1>0, <1>6, <1>15, <1>16, <1>17, <1>18 DEF WalkOK

-----------------------------------------------------------------------------

\* A step of an editor is one of its own, and it takes no lock from another.
LEMMA EditorMoves ==
    ASSUME GraphIInv, NEW r \in Editors, WriteStep(r) \/ \E o \in Objects : Edit(r, o)
    PROVE  /\ \A q \in Requests : q # r => pc'[q] = pc[q] /\ job'[q] = job[q]
           /\ \A o \in Objects, q \in Editors : lock[o] = q /\ q # r => lock'[o] = q
           /\ used' = used
<1>1. Shape /\ TypeOK /\ r \in Requests /\ r # None /\ EditOK(r) /\ \A q \in Editors : q # None
    BY Constants DEF GraphIInv
<1>2. \E l, j : Goto(r, l, j)
    BY DEF WriteStep, Edit, ChangeBegin, ChangeEnd, SaveBegin, SaveEnd, SaveRefused, SaveFails,
           CreateNode, CreateEdge, Close, DropDatabase
<1>3. \A q \in Requests : q # r => pc'[q] = pc[q] /\ job'[q] = job[q]
    BY <1>1, <1>2 DEF Goto, Shape
<1>4. used' = used
    BY DEF WriteStep, Edit, ChangeBegin, ChangeEnd, SaveBegin, SaveEnd, SaveRefused, SaveFails,
           CreateNode, CreateEdge, Close, DropDatabase
<1>5. \/ lock' = lock
      \/ \E o \in Objects, x \in Editors \cup {None} :
           lock' = [lock EXCEPT ![o] = x] /\ lock[o] \in {None, r}
    <2>1. CASE ChangeBegin(r) \/ SaveBegin(r)
        <3>1. job[r].obj \in Objects
            BY <1>1, <2>1 DEF EditOK, KnownJob, TypeOK, ChangeBegin, SaveBegin
        <3> QED
            BY <2>1, <3>1 DEF ChangeBegin, SaveBegin, Object
    <2>2. CASE ChangeEnd(r) \/ SaveEnd(r) \/ SaveFails(r)
        <3>1. job[r].obj \in Objects /\ lock[job[r].obj] = r
            BY <1>1, <2>2 DEF EditOK, KnownJob, HoldsLock, TypeOK, ChangeEnd, SaveEnd, SaveFails
        <3> QED
            BY <2>2, <3>1 DEF ChangeEnd, SaveEnd, SaveFails, Object
    <2>3. CASE SaveRefused(r)
        BY <2>3 DEF SaveRefused
    <2>4. CASE \E o \in Objects : Edit(r, o)
        <3>1. PICK o \in Objects : Edit(r, o)
            BY <2>4
        <3>2. CASE DropDatabase(r, o)
            BY <3>2 DEF DropDatabase
        <3> QED
            BY <3>1, <3>2 DEF Edit, CreateNode, CreateEdge, Close
    <2> QED
        BY <2>1, <2>2, <2>3, <2>4 DEF WriteStep
<1>6. \A o \in Objects, q \in Editors : lock[o] = q /\ q # r => lock'[o] = q
    BY <1>1, <1>5 DEF Shape
<1> QED
    BY <1>3, <1>4, <1>6

\* An editor takes nothing from an object, unless it drops it; what is dropped stays so.
LEMMA EditorAdds ==
    ASSUME GraphIInv, NEW r \in Editors, WriteStep(r) \/ \E o \in Objects : Edit(r, o),
           NEW x \in Objects
    PROVE  /\ Stuck(x) => Stuck(x)'
           /\ Stuck(x)' \/ Adds(x)
<1>1. Shape /\ TypeOK /\ r \in Requests /\ r # None /\ EditOK(r) /\ \A q \in Editors : q \in Requests
    BY Constants DEF GraphIInv
<1>2. Stuck(x) => Stuck(x)'
    <2>1. /\ \A q \in Editors : q # r => pc'[q] = pc[q] /\ job'[q] = job[q]
          /\ \A q \in Editors : lock[x] = q /\ q # r => lock'[x] = q
        BY <1>1, EditorMoves
    <2>2. lock[x] = r /\ job[r].obj = x => pc[r] # "save"
        BY <1>1 DEF WriteStep, Edit, ChangeBegin, ChangeEnd, SaveBegin, SaveEnd, SaveRefused,
               SaveFails, CreateNode, CreateEdge, Close, DropDatabase, Object
    <2> QED
        BY <1>1, <2>1, <2>2, StuckStays
<1>3. ASSUME UNCHANGED memory PROVE Adds(x)
    BY <1>3 DEF memory, Adds
<1>4. ASSUME ChangeEnd(r) PROVE Adds(x)
    <2>1. PICK o \in Objects : o = job[r].obj
        BY <1>1, <1>4 DEF EditOK, KnownJob, TypeOK, ChangeEnd
    <2>2. CASE x # o
        BY <1>1, <1>4, <2>1, <2>2 DEF ChangeEnd, InsertNode, AppendEdge, Shape, Adds
    <2>3. CASE x = o /\ job[r].op = "node"
        <3>1. /\ edges' = edges
              /\ nodes'[o] = [k \in DOMAIN nodes[o] \cup {job[r].id} |->
                                IF k = job[r].id THEN job[r].by ELSE nodes[o][k]]
            BY <1>1, <1>4, <2>1, <2>3 DEF ChangeEnd, InsertNode, Shape
        <3> QED
            BY <2>3, <3>1 DEF Adds
    <2>4. CASE x = o /\ job[r].op # "node"
        <3>1. PICK e : e = [from |-> job[r].from, to |-> job[r].to, by |-> job[r].by]
            OBVIOUS
        <3>2. PICK es : es = edges[o] /\ es \in Seq(Edges)
            BY <1>1 DEF TypeOK
        <3>3. nodes' = nodes /\ edges'[o] = Append(es, e)
            BY <1>1, <1>4, <2>1, <2>4, <3>1, <3>2 DEF ChangeEnd, AppendEdge, Shape
        <3>4. ToSet(Append(es, e)) = ToSet(es) \cup {e}
            BY <3>2, AppendSet
        <3> QED
            BY <2>4, <3>2, <3>3, <3>4 DEF Adds
    <2> QED
        BY <2>2, <2>3, <2>4
<1>5. ASSUME NEW o \in Objects, DropDatabase(r, o) PROVE Stuck(x)' \/ Adds(x)
    <2>1. DropDatabase(r, o)
        BY <1>5
    <2>2. CASE x # o
        BY <1>1, <2>1, <2>2 DEF DropDatabase, Shape, Adds
    <2>3. CASE x = o
        <3>1. PICK j : j = [op |-> "drop", obj |-> o, text |-> Empty]
            OBVIOUS
        <3>2. pc'[r] = "save" /\ job'[r] = j /\ lock'[o] = r
            BY <1>1, <2>1, <3>1 DEF DropDatabase, Goto, Shape
        <3>3. j.op = "drop" /\ j.obj = o
            BY <3>1
        <3> QED
            BY <2>3, <3>2, <3>3 DEF Stuck
    <2> QED
        BY <2>2, <2>3
<1>6. \/ UNCHANGED memory \/ ChangeEnd(r) \/ \E o \in Objects : DropDatabase(r, o)
    BY DEF WriteStep, Edit, ChangeBegin, SaveBegin, SaveEnd, SaveRefused, SaveFails,
           CreateNode, CreateEdge, Close
<1> QED
    BY <1>2, <1>3, <1>4, <1>5, <1>6

\* Steps of others leave a walk as good as it was.
LEMMA WalkStays ==
    ASSUME NEW r \in Browsers, WalkAt(r), pc'[r] = pc[r], job'[r] = job[r], used \subseteq used',
           \A o \in used : (Stuck(o) => Stuck(o)') /\ (Stuck(o)' \/ Adds(o))
    PROVE  WalkAt(r)'
<1> SUFFICES ASSUME pc[r] \in {"level", "scan"}
             PROVE  WalkAt(r)'
    BY DEF WalkAt
<1>1. PICK o \in used : o = job[r].obj
    BY DEF WalkAt
<1>2. o \in used' /\ (job[r].obj)' = o
    BY <1>1
<1>3. CASE Stuck(o)'
    <2>1. Stuck(job[r].obj)'
        BY <1>1, <1>2, <1>3 DEF Stuck
    <2> QED
        BY <1>2, <2>1 DEF WalkAt
<1>4. CASE ~Stuck(o)'
    <2>1. ~Stuck(o) /\ Adds(o)
        BY <1>4
    <2>2. WalkOK(job[r], edges[o], DOMAIN nodes[o], pc[r])
        BY <1>1, <2>1 DEF WalkAt
    <2>3. PICK es, fs, ns, ms, j, at :
              /\ es = edges[o] /\ fs = edges'[o] /\ ns = DOMAIN nodes[o] /\ ms = DOMAIN nodes'[o]
              /\ j = job[r] /\ at = pc[r]
        OBVIOUS
    <2>4. WalkOK(j, es, ns, at) /\ ToSet(es) \subseteq ToSet(fs) /\ ns \subseteq ms
        BY <2>1, <2>2, <2>3 DEF Adds
    <2>5. WalkOK(j, fs, ms, at)
        BY <2>4, WalkGrows
    <2>6. WalkOK(job[r], edges[job[r].obj], DOMAIN nodes[job[r].obj], pc[r])'
        BY <1>1, <2>3, <2>5
    <2> QED
        BY <1>2, <2>6 DEF WalkAt
<1> QED
    BY <1>3, <1>4

\* Goroutines that read change neither the memory nor who is stuck.
LEMMA BrowserMoves ==
    ASSUME GraphIInv, NEW r \in Browsers, ReadStep(r) \/ \E o \in Objects : Browse(r, o)
    PROVE  /\ \A q \in Requests : q # r => pc'[q] = pc[q] /\ job'[q] = job[q]
           /\ used' = used /\ nodes' = nodes /\ edges' = edges
           /\ \A o : Stuck(o)' = Stuck(o)
           /\ \A q \in Browsers : q # r /\ WalkAt(q) => WalkAt(q)'
<1>1. Shape /\ r \in Requests /\ r \notin Editors /\ Editors \subseteq Requests /\ Browsers \subseteq Requests
    BY Constants DEF GraphIInv
<1>2. \E l, j : Goto(r, l, j)
    BY DEF ReadStep, Browse, Read, ReadReturn, Traverse, ScanBegin, ScanEdge, ScanEnd, NextLevel,
           TraverseReturn
<1>3. \A q \in Requests : q # r => pc'[q] = pc[q] /\ job'[q] = job[q]
    BY <1>1, <1>2 DEF Goto, Shape
<1>4. used' = used /\ nodes' = nodes /\ edges' = edges /\ lock' = lock
    BY DEF ReadStep, Browse, Read, ReadReturn, Traverse, ScanBegin, ScanEdge, ScanEnd, NextLevel,
           TraverseReturn, memory
<1>5. \A q \in Editors : pc'[q] = pc[q] /\ job'[q] = job[q]
    BY <1>1, <1>3
<1>6. \A o : Stuck(o)' = Stuck(o)
    BY <1>4, <1>5 DEF Stuck
<1>7. ASSUME NEW q \in Browsers, q # r, WalkAt(q) PROVE WalkAt(q)'
    <2>1. pc'[q] = pc[q] /\ job'[q] = job[q] /\ used \subseteq used'
        BY <1>1, <1>3, <1>4, <1>7
    <2>2. \A o \in used : (Stuck(o) => Stuck(o)') /\ (Stuck(o)' \/ Adds(o))
        BY <1>4, <1>6 DEF Adds
    <2> QED
        BY <1>7, <2>1, <2>2, WalkStays
<1> QED
    BY <1>3, <1>4, <1>6, <1>7

\* A walk that has moved on is good if its new locals are.
LEMMA WalkMoves ==
    ASSUME GraphIInv, NEW r \in Browsers, ReadStep(r) \/ \E o \in Objects : Browse(r, o),
           NEW l, NEW j, Goto(r, l, j), j.obj \in used,
           Stuck(j.obj) \/ WalkOK(j, edges[j.obj], DOMAIN nodes[j.obj], l)
    PROVE  WalkAt(r)'
<1>1. used' = used /\ nodes' = nodes /\ edges' = edges /\ \A o : Stuck(o)' = Stuck(o)
    BY BrowserMoves
<1>2. pc'[r] = l /\ job'[r] = j
    BY Constants DEF Goto, GraphIInv, Shape
<1>3. Stuck(j.obj) => Stuck(job[r].obj)'
    <2>1. PICK o : o = j.obj
        OBVIOUS
    <2>2. Stuck(o) => Stuck(o)'
        BY <1>1
    <2>3. (job[r].obj)' = o
        BY <1>2, <2>1
    <2> QED
        BY <2>1, <2>2, <2>3 DEF Stuck
<1>4. WalkOK(j, edges[j.obj], DOMAIN nodes[j.obj], l)
        => WalkOK(job[r], edges[job[r].obj], DOMAIN nodes[job[r].obj], pc[r])'
    BY <1>1, <1>2
<1> QED
    BY <1>1, <1>2, <1>3, <1>4 DEF WalkAt

\* A walk keeps its promise at each of its own steps.
LEMMA OwnStep ==
    ASSUME GraphIInv, NEW r \in Browsers, WalkAt(r), ReadStep(r) \/ \E o \in Objects : Browse(r, o)
    PROVE  WalkAt(r)'
<1> DEFINE j == job[r]
<1>1. Shape /\ TypeOK /\ r \in Requests
    BY Constants DEF GraphIInv
<1>2. \A l, k : Goto(r, l, k) => pc'[r] = l /\ job'[r] = k
    BY <1>1 DEF Goto, Shape
<1>3. CASE ReadReturn(r) \/ TraverseReturn(r) \/ \E o \in Objects : Read(r, o)
    <2>1. \E l, k : Goto(r, l, k) /\ l \in {"idle", "read"}
        BY <1>3 DEF ReadReturn, TraverseReturn, Read
    <2>2. pc'[r] \in {"idle", "read"}
        BY <1>2, <2>1
    <2>3. pc'[r] \notin {"level", "scan"}
        BY <2>2
    <2> QED
        BY <2>3 DEF WalkAt
<1>4. CASE \E o \in Objects : Traverse(r, o)
    <2>1. PICK o \in Objects : Traverse(r, o)
        BY <1>4
    <2>2. PICK s \in Starts, n \in Depths :
            Goto(r, "level", [op |-> "traverse", obj |-> o, start |-> s, depth |-> n, d |-> 0,
                              visited |-> {s}, level |-> <<s>>, next |-> <<>>, rest |-> <<>>,
                              rows |-> {}, first |-> edges[o], there |-> DOMAIN nodes[o]])
        BY <2>1 DEF Traverse
    <2>3. PICK es, ns : es = edges[o] /\ ns = DOMAIN nodes[o]
        OBVIOUS
    <2>4. PICK k : k = [op |-> "traverse", obj |-> o, start |-> s, depth |-> n, d |-> 0,
                        visited |-> {s}, level |-> <<s>>, next |-> <<>>, rest |-> <<>>,
                        rows |-> {}, first |-> es, there |-> ns]
        OBVIOUS
    <2>5. n \in Nat \ {0}
        BY GraphAssumption
    <2>6. WalkOK(k, es, ns, "level")
        BY <2>4, <2>5, WalkBegins
    <2>7. k.obj = o /\ Goto(r, "level", k)
        BY <2>2, <2>3, <2>4
    <2>8. o \in used
        BY <1>1, <2>1 DEF Traverse, TypeOK
    <2>9. k.obj \in used /\ WalkOK(k, edges[k.obj], DOMAIN nodes[k.obj], "level")
        BY <2>3, <2>6, <2>7, <2>8
    <2> QED
        BY <2>7, <2>9, WalkMoves
<1>5. CASE ScanBegin(r) \/ ScanEdge(r) \/ ScanEnd(r) \/ NextLevel(r)
    <2>1. pc[r] \in {"level", "scan"}
        BY <1>5 DEF ScanBegin, ScanEdge, ScanEnd, NextLevel
    <2>2. j.obj \in used /\ (Stuck(j.obj) \/ WalkOK(j, edges[j.obj], DOMAIN nodes[j.obj], pc[r]))
        BY <2>1 DEF WalkAt
    <2>3. PICK o \in used : o = j.obj /\ o \in Objects
        BY <1>1, <2>2 DEF TypeOK
    <2>4. PICK es, ns : es = edges[o] /\ ns = DOMAIN nodes[o]
        OBVIOUS
    <2>5. es \in Seq(Edges)
        BY <1>1, <2>3, <2>4 DEF TypeOK
    <2>6. CASE ScanBegin(r)
        <3>1. PICK k : k = [j EXCEPT !.rest = es]
            OBVIOUS
        <3>2. pc[r] = "level" /\ j.level # <<>> /\ Goto(r, "scan", k)
            BY <2>3, <2>4, <2>6, <3>1 DEF ScanBegin, Object
        <3>3. k.obj = o
            BY <2>3, <3>1
        <3>4. Stuck(o) \/ WalkOK(k, es, ns, "scan")
            BY <2>2, <2>3, <2>4, <2>5, <3>1, <3>2, ScanBegins
        <3> QED
            BY <2>3, <2>4, <3>2, <3>3, <3>4, WalkMoves
    <2>7. CASE ScanEdge(r)
        <3>1. PICK i, v, k : /\ i = Min(Fresh(j)) /\ v = j.rest[i].to
                             /\ k = Visit([j EXCEPT !.rest = SubSeq(@, i + 1, Len(@))], v)
            OBVIOUS
        <3>2. pc[r] = "scan" /\ Fresh(j) # {} /\ Goto(r, "scan", k)
            BY <2>7, <3>1 DEF ScanEdge
        <3>3. k.obj = o
            BY <2>3, <3>1 DEF Visit
        <3>4. Stuck(o) \/ WalkOK(k, es, ns, "scan")
            BY <2>2, <2>3, <2>4, <3>1, <3>2, ScanVisits
        <3> QED
            BY <2>3, <2>4, <3>2, <3>3, <3>4, WalkMoves
    <2>8. CASE ScanEnd(r)
        <3>1. PICK k : k = [j EXCEPT !.level = Tail(@), !.rest = <<>>]
            OBVIOUS
        <3>2. pc[r] = "scan" /\ Fresh(j) = {} /\ Goto(r, "level", k)
            BY <2>8, <3>1 DEF ScanEnd
        <3>3. k.obj = o
            BY <2>3, <3>1
        <3>4. Stuck(o) \/ WalkOK(k, es, ns, "level")
            BY <2>2, <2>3, <2>4, <3>1, <3>2, ScanEnds
        <3> QED
            BY <2>3, <2>4, <3>2, <3>3, <3>4, WalkMoves
    <2>9. CASE NextLevel(r)
        <3>1. PICK k : k = [j EXCEPT !.level = j.next, !.next = <<>>, !.d = @ + 1]
            OBVIOUS
        <3>2. pc[r] = "level" /\ j.level = <<>> /\ ~LastLevel(j) /\ Goto(r, "level", k)
            BY <2>9, <3>1 DEF NextLevel
        <3>3. k.obj = o
            BY <2>3, <3>1
        <3>4. Stuck(o) \/ WalkOK(k, es, ns, "level")
            BY <2>2, <2>3, <2>4, <3>1, <3>2, NextLevels
        <3> QED
            BY <2>3, <2>4, <3>2, <3>3, <3>4, WalkMoves
    <2> QED
        BY <1>5, <2>6, <2>7, <2>8, <2>9
<1> QED
    BY <1>3, <1>4, <1>5 DEF ReadStep, Browse

\* No step spoils a walk, except the end of the process, which ends it.
LEMMA WalksNextOK ==
    GraphIInv /\ WalksOK /\ [Next]_vars => WalksOK'
<1> SUFFICES ASSUME GraphIInv, WalksOK, [Next]_vars, NEW q \in Browsers
             PROVE  WalkAt(q)'
    BY DEF WalksOK
<1>0. WalkAt(q) /\ q \in Requests /\ Shape /\ TypeOK
    BY Constants DEF WalksOK, GraphIInv
<1>1. CASE \E o \in Objects : Connect(o)
    <2>1. PICK o \in Objects : Connect(o)
        BY <1>1
    <2>2. /\ o \notin used /\ used' = used \cup {o} /\ lock' = lock /\ pc' = pc /\ job' = job
          /\ \A x \in Objects : x # o => nodes'[x] = nodes[x] /\ edges'[x] = edges[x]
        BY <1>0, <2>1 DEF Connect, Shape
    <2>3. \A x \in used : (Stuck(x) => Stuck(x)') /\ Adds(x)
        BY <1>0, <2>2 DEF Stuck, Adds, TypeOK
    <2>4. pc'[q] = pc[q] /\ job'[q] = job[q] /\ used \subseteq used'
        BY <2>2
    <2> QED
        BY <1>0, <2>3, <2>4, WalkStays
<1>2. CASE \E r \in Editors : WriteStep(r) \/ \E o \in Objects : Edit(r, o)
    <2>1. PICK r \in Editors : WriteStep(r) \/ \E o \in Objects : Edit(r, o)
        BY <1>2
    <2>2. q # r
        BY Constants
    <2>3. pc'[q] = pc[q] /\ job'[q] = job[q] /\ used \subseteq used'
        BY <1>0, <2>1, <2>2, EditorMoves
    <2>4. \A x \in used : (Stuck(x) => Stuck(x)') /\ (Stuck(x)' \/ Adds(x))
        BY <1>0, <2>1, EditorAdds DEF TypeOK
    <2> QED
        BY <1>0, <2>3, <2>4, WalkStays
<1>3. CASE \E r \in Browsers : ReadStep(r) \/ \E o \in Objects : Browse(r, o)
    <2>1. PICK r \in Browsers : ReadStep(r) \/ \E o \in Objects : Browse(r, o)
        BY <1>3
    <2> QED
        BY <1>0, <2>1, BrowserMoves, OwnStep
<1>4. CASE Die
    <2>1. pc'[q] = "idle"
        BY <1>0, <1>4 DEF Die
    <2> QED
        BY <2>1 DEF WalkAt
<1>5. CASE UNCHANGED vars
    <2>1. used' = used /\ nodes' = nodes /\ edges' = edges /\ lock' = lock /\ pc' = pc /\ job' = job
        BY <1>5 DEF vars, memory
    <2>2. \A x \in used : (Stuck(x) => Stuck(x)') /\ Adds(x)
        BY <2>1 DEF Stuck, Adds
    <2>3. pc'[q] = pc[q] /\ job'[q] = job[q] /\ used \subseteq used'
        BY <2>1
    <2> QED
        BY <1>0, <2>2, <2>3, WalkStays
<1> QED
    BY <1>1, <1>2, <1>3, <1>4, <1>5 DEF Next, Crash, Fault

\* A walk ends by its return, unless the process does.
LEMMA OnlyReturn ==
    ASSUME GraphIInv, [Next]_vars, NEW r \in Browsers, pc[r] = "level", pc'[r] = "idle",
           crashes' = crashes
    PROVE  TraverseReturn(r)
<1>1. TypeOK /\ Shape /\ r \in Requests /\ r \notin Editors
    BY Constants DEF GraphIInv
<1>2. CASE \E o \in Objects : Connect(o)
    BY <1>2 DEF Connect
<1>3. CASE \E q \in Editors : WriteStep(q) \/ \E o \in Objects : Edit(q, o)
    <2>1. PICK q \in Editors : WriteStep(q) \/ \E o \in Objects : Edit(q, o)
        BY <1>3
    <2>2. pc'[r] = pc[r]
        BY <1>1, <2>1, EditorMoves
    <2> QED
        BY <2>2
<1>4. CASE \E q \in Browsers : ReadStep(q) \/ \E o \in Objects : Browse(q, o)
    <2>1. PICK q \in Browsers : ReadStep(q) \/ \E o \in Objects : Browse(q, o)
        BY <1>4
    <2>2. q = r
        BY <1>1, <2>1, BrowserMoves
    <2>3. \A l, j : Goto(r, l, j) => pc'[r] = l
        BY <1>1 DEF Goto, Shape
    <2> QED
        BY <2>1, <2>2, <2>3 DEF ReadStep, Browse, Read, Traverse, ReadReturn, ScanBegin, ScanEdge,
                                ScanEnd, NextLevel
<1>5. CASE Die
    BY <1>1, <1>5 DEF Die, TypeOK
<1>6. CASE UNCHANGED vars
    BY <1>6 DEF vars
<1> QED
    BY <1>2, <1>3, <1>4, <1>5, <1>6 DEF Next, Crash, Fault

\* TRAVERSE among concurrent writes reports each node once, at a distance it has in the
\* graph as it has become and that was not shorter at the start, and every node that was
\* there and within reach at the start; for any graph, start, depth and number of writers.
THEOREM WalksAreExact == Spec => TraverseExact
<1> DEFINE Exact ==
        \A r \in Browsers :
          pc[r] = "level" /\ pc'[r] = "idle" /\ crashes' = crashes /\ ~Dropped(Object(r))
            => AnswerOK(job[r])
<1>1. GraphIInv /\ WalksOK /\ [Next]_vars => Exact
    <2> SUFFICES ASSUME GraphIInv, WalksOK, [Next]_vars, NEW r \in Browsers, pc[r] = "level",
                        pc'[r] = "idle", crashes' = crashes, ~Dropped(Object(r)),
                        NEW j, j = job[r]
                 PROVE  AnswerOK(j)
        OBVIOUS
    <2>1. TraverseReturn(r)
        BY OnlyReturn
    <2>2. ~Stuck(j.obj)
        BY DEF Stuck, Dropped, Object
    <2>3. WalkOK(j, edges[j.obj], DOMAIN nodes[j.obj], "level")
        BY <2>2 DEF WalksOK, WalkAt
    <2>4. j.level = <<>> /\ LastLevel(j)
        BY <2>1 DEF TraverseReturn
    <2> QED
        BY <2>3, <2>4, WalkReturns DEF AnswerOK
<1>2. GraphIInv /\ WalksOK /\ [Next]_vars => [Exact]_vars
    BY <1>1
<1>3. Init => WalksOK
    <2>1. Init => \A r \in Browsers : pc[r] = "idle"
        BY Constants DEF Init
    <2> QED
        BY <2>1 DEF WalksOK, WalkAt
<1>4. Spec => [](GraphIInv /\ WalksOK)
    BY <1>3, InitOK, NextOK, WalksNextOK, PTL DEF Spec
<1> QED
    BY <1>2, <1>4, PTL DEF Spec, TraverseExact

=============================================================================
