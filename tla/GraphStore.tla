------------------------------ MODULE GraphStore ------------------------------
(***************************************************************************)
(* The embedded graph database: plugins/graph/graph.go.                    *)
(*                                                                         *)
(* An object is one GraphPlugin, made when a connection is added.  All     *)
(* objects of the model have the same path: a connection added again after *)
(* it was removed, or two connections without a FilePath, which share      *)
(* graph.db.json.  Node "n_k" is the number k.                             *)
(*                                                                         *)
(* g.mu guards the changes of the map and the slice (`writing' while one   *)
(* is under way) and the write of the file.  The readers, and the len that *)
(* makes a new node's identifier, take no lock: one that meets a change    *)
(* under way reads on, or the Go runtime ends the process (Fault).         *)
(*                                                                         *)
(* The file is Torn from the moment WriteFile has truncated it until it    *)
(* has written all.  Labels, properties and types of edges are left out.   *)
(***************************************************************************)
EXTENDS Integers, SequencesExt, FiniteSetsExt, TLC

CONSTANTS Objects,     \* the plugin objects, each good for one connection
          Browsers,    \* the goroutines that serve requests to read
          Editors,     \* the goroutines that serve all other requests
          FirstFile,   \* what the file may hold at the start
          NewEdges,    \* the edges <<from, to>> requests create
          Starts,      \* the nodes requests traverse from
          Depths,      \* and to what depths
          Mingle,      \* bound: may one read while there are two objects?
          MaxWrites,   \* bound: CREATE statements
          MaxCrashes,  \* bound: ends of the process
          Torn,        \* content of a file not written to its end
          None

Requests == Browsers \cup Editors

ASSUME GraphAssumption ==
    /\ None \notin Objects \cup Requests
    /\ Browsers \cap Editors = {}
    /\ Depths \subseteq Nat \ {0}
    /\ Mingle \in BOOLEAN
    /\ {MaxWrites, MaxCrashes} \subseteq Nat

Edges == [from : Nat, to : Nat, by : Int]

\* A whole file at the start numbers its nodes without a gap.
ASSUME FirstFileAssumption ==
    /\ NewEdges \subseteq Nat \X Nat
    /\ \A f \in FirstFile \ {Torn} :
         /\ f.edges \in Seq(Edges)
         /\ IsFiniteSet(DOMAIN f.nodes) /\ DOMAIN f.nodes = 1..Cardinality(DOMAIN f.nodes)

VARIABLES
    open,     \* the objects behind a connection
    used,     \* the objects that have been connected since the process began
    nodes,    \* g.data.Nodes: identifier to the number of the statement that made it
    edges,    \* g.data.Edges
    lock,     \* the holder of g.mu
    writing,  \* the objects whose map or slice is being changed
    file,     \* content of the file, or Torn
    pc, job,  \* where each request stands, and its locals
    writes,   \* CREATE statements so far
    crashes,  \* ends of the process so far
    owner,    \* history: the object that wrote the file last
    acked     \* history: what an object has loaded or answered for

memory == <<nodes, edges>>
vars == <<open, used, nodes, edges, lock, writing, file, pc, job, writes, crashes, owner, acked>>

Writers == {"change", "changing", "save", "saving"}
Readers == {"read", "level", "scan"}

Empty == [nodes |-> <<>>, edges |-> <<>>]

\* What a reader of the content can rely on: identifiers, and numbers of edges.
Held(content) ==
    [nodes |-> DOMAIN content.nodes, edges |-> {e.by : e \in ToSet(content.edges)}]

Content(o) == [nodes |-> nodes[o], edges |-> edges[o]]

Init ==
    /\ open = {}
    /\ used = {}
    /\ nodes = [o \in Objects |-> <<>>]
    /\ edges = [o \in Objects |-> <<>>]
    /\ lock = [o \in Objects |-> None]
    /\ writing = {}
    /\ file \in FirstFile
    /\ pc = [r \in Requests |-> "idle"]
    /\ job = [r \in Requests |-> None]
    /\ writes = 0
    /\ crashes = 0
    /\ owner = None
    /\ acked = [o \in Objects |-> Held(Empty)]

Goto(r, l, j) ==
    /\ pc' = [pc EXCEPT ![r] = l]
    /\ job' = [job EXCEPT ![r] = j]

Object(r) == job[r].obj

-----------------------------------------------------------------------------
(* Connect: the content of the file, or nothing when it does not parse.      *)

Connect(o) ==
    LET content == IF file = Torn THEN Empty ELSE file
    IN  /\ o \notin used
        /\ used # {} => Mingle \/ \A r \in Browsers : pc[r] = "idle"
        /\ open' = open \cup {o}
        /\ used' = used \cup {o}
        /\ nodes' = [nodes EXCEPT ![o] = content.nodes]
        /\ edges' = [edges EXCEPT ![o] = content.edges]
        /\ acked' = [acked EXCEPT ![o] = Held(content)]
        /\ UNCHANGED <<lock, writing, file, pc, job, writes, crashes, owner>>

-----------------------------------------------------------------------------
(* CREATE NODE and CREATE EDGE: change the memory, then save.                *)

\* Mutation: the identifier is the number of nodes.
CreateNodeReuses(r, o) ==
    /\ pc[r] = "idle"
    /\ o \in open
    /\ writes < MaxWrites
    /\ writes' = writes + 1
    /\ Goto(r, "change", [op |-> "node", obj |-> o, by |-> writes',
                          id |-> Cardinality(DOMAIN nodes[o]), known |-> DOMAIN nodes[o],
                          text |-> Empty])
    /\ UNCHANGED <<open, used, memory, lock, writing, file, crashes, owner, acked>>

\* The identifier is made of len(g.data.Nodes), read before the lock is taken.
\* `known' is history: the nodes there are at that time.
CreateNode(r, o) ==
    /\ pc[r] = "idle"
    /\ o \in open
    /\ writes < MaxWrites
    /\ writes' = writes + 1
    /\ Goto(r, "change", [op |-> "node", obj |-> o, by |-> writes',
                          id |-> Cardinality(DOMAIN nodes[o]) + 1, known |-> DOMAIN nodes[o],
                          text |-> Empty])
    /\ UNCHANGED <<open, used, memory, lock, writing, file, crashes, owner, acked>>

\* The ends of an edge need not exist.
CreateEdge(r, o) ==
    /\ pc[r] = "idle"
    /\ o \in open
    /\ writes < MaxWrites
    /\ writes' = writes + 1
    /\ \E e \in NewEdges :
         Goto(r, "change", [op |-> "edge", obj |-> o, by |-> writes', from |-> e[1], to |-> e[2],
                            text |-> Empty])
    /\ UNCHANGED <<open, used, memory, lock, writing, file, crashes, owner, acked>>

ChangeBegin(r) ==
    /\ pc[r] = "change"
    /\ lock[Object(r)] = None
    /\ lock' = [lock EXCEPT ![Object(r)] = r]
    /\ writing' = writing \cup {Object(r)}
    /\ Goto(r, "changing", job[r])
    /\ UNCHANGED <<open, used, memory, file, writes, crashes, owner, acked>>

InsertNode(j) ==
    /\ nodes' = [nodes EXCEPT ![j.obj] = [k \in DOMAIN @ \cup {j.id} |->
                                            IF k = j.id THEN j.by ELSE @[k]]]
    /\ UNCHANGED edges

AppendEdge(j) ==
    /\ edges' = [edges EXCEPT ![j.obj] = Append(@, [from |-> j.from, to |-> j.to, by |-> j.by])]
    /\ UNCHANGED nodes

ChangeEnd(r) ==
    /\ pc[r] = "changing"
    /\ IF job[r].op = "node" THEN InsertNode(job[r]) ELSE AppendEdge(job[r])
    /\ lock' = [lock EXCEPT ![Object(r)] = None]
    /\ writing' = writing \ {Object(r)}
    /\ Goto(r, "save", job[r])
    /\ UNCHANGED <<open, used, file, writes, crashes, owner, acked>>

-----------------------------------------------------------------------------
(* save: lock, marshal, write the file, unlock.                              *)

\* Mutation: the file is written without the lock.
SaveBeginUnlocked(r) ==
    /\ pc[r] = "save"
    /\ lock[Object(r)] = None
    /\ file' = Torn
    /\ Goto(r, "saving", [job[r] EXCEPT !.text = Content(Object(r))])
    /\ UNCHANGED <<open, used, memory, lock, writing, writes, crashes, owner, acked>>

SaveBegin(r) ==
    /\ pc[r] = "save"
    /\ lock[Object(r)] = None
    /\ lock' = [lock EXCEPT ![Object(r)] = r]
    /\ file' = Torn
    /\ Goto(r, "saving", [job[r] EXCEPT !.text = Content(Object(r))])
    /\ UNCHANGED <<open, used, memory, writing, writes, crashes, owner, acked>>

\* What the client is told counts from then on.
Answer(j) ==
    acked' = [acked EXCEPT ![j.obj] =
                [nodes |-> @.nodes \cup (IF j.op = "node" THEN {j.id} ELSE {}),
                 edges |-> @.edges \cup (IF j.op = "edge" THEN {j.by} ELSE {})]]

\* An object that writes over what another one has written since the file was
\* truncated may leave the end of the longer text in place.
SaveEnd(r) ==
    /\ pc[r] = "saving"
    /\ \/ file' = job[r].text
       \/ file # Torn /\ file' = Torn
    /\ owner' = Object(r)
    /\ lock' = [lock EXCEPT ![Object(r)] = None]
    /\ Answer(job[r])
    /\ Goto(r, "idle", None)
    /\ UNCHANGED <<open, used, memory, writing, writes, crashes>>

\* The file cannot be opened.
SaveRefused(r) ==
    /\ pc[r] = "save"
    /\ lock[Object(r)] = None
    /\ Goto(r, "idle", None)
    /\ UNCHANGED <<open, used, memory, lock, writing, file, writes, crashes, owner, acked>>

\* The write stops half way.
SaveFails(r) ==
    /\ pc[r] = "saving"
    /\ file' = Torn
    /\ owner' = Object(r)
    /\ lock' = [lock EXCEPT ![Object(r)] = None]
    /\ Goto(r, "idle", None)
    /\ UNCHANGED <<open, used, memory, writing, writes, crashes, acked>>

-----------------------------------------------------------------------------
(* Close, which is save, and DropDatabase, which calls save with g.mu held.  *)

Close(r, o) ==
    /\ pc[r] = "idle"
    /\ o \in open
    /\ open' = open \ {o}
    /\ Goto(r, "save", [op |-> "close", obj |-> o, text |-> Empty])
    /\ UNCHANGED <<used, memory, lock, writing, file, writes, crashes, owner, acked>>

DropDatabase(r, o) ==
    /\ pc[r] = "idle"
    /\ o \in open
    /\ lock[o] = None
    /\ lock' = [lock EXCEPT ![o] = r]
    /\ nodes' = [nodes EXCEPT ![o] = <<>>]
    /\ edges' = [edges EXCEPT ![o] = <<>>]
    /\ Goto(r, "save", [op |-> "drop", obj |-> o, text |-> Empty])
    /\ UNCHANGED <<open, used, writing, file, writes, crashes, owner, acked>>

-----------------------------------------------------------------------------
(* MATCH, NEIGHBORS, NODE, Tables and Schema run over the map or the slice   *)
(* and answer.                                                               *)

Read(r, o) ==
    /\ pc[r] = "idle"
    /\ o \in open
    /\ Mingle \/ used = {o}
    /\ Goto(r, "read", [op |-> "read", obj |-> o])
    /\ UNCHANGED <<open, used, memory, lock, writing, file, writes, crashes, owner, acked>>

ReadReturn(r) ==
    /\ pc[r] = "read"
    /\ Goto(r, "idle", None)
    /\ UNCHANGED <<open, used, memory, lock, writing, file, writes, crashes, owner, acked>>

-----------------------------------------------------------------------------
(* TRAVERSE: one pass over the edges for each node of a level.               *)

\* `first' and `there' are history: the edges and the nodes at the start.
Traverse(r, o) ==
    /\ pc[r] = "idle"
    /\ o \in open
    /\ Mingle \/ used = {o}
    /\ \E s \in Starts, n \in Depths :
         Goto(r, "level", [op |-> "traverse", obj |-> o, start |-> s, depth |-> n, d |-> 0,
                           visited |-> {s}, level |-> <<s>>, next |-> <<>>, rest |-> <<>>,
                           rows |-> {}, first |-> edges[o], there |-> DOMAIN nodes[o]])
    /\ UNCHANGED <<open, used, memory, lock, writing, file, writes, crashes, owner, acked>>

\* Mutation: readers take the lock too.
ScanBeginLocks(r) ==
    /\ pc[r] = "level"
    /\ job[r].level # <<>>
    /\ lock[Object(r)] = None
    /\ Goto(r, "scan", [job[r] EXCEPT !.rest = edges[Object(r)]])
    /\ UNCHANGED <<open, used, memory, lock, writing, file, writes, crashes, owner, acked>>

\* The range statement copies the slice header: edges appended later are not seen.
ScanBegin(r) ==
    /\ pc[r] = "level"
    /\ job[r].level # <<>>
    /\ Goto(r, "scan", [job[r] EXCEPT !.rest = edges[Object(r)]])
    /\ UNCHANGED <<open, used, memory, lock, writing, file, writes, crashes, owner, acked>>

\* The edges of the copy still to come that lead from the node to a new one.
Fresh(j) == {i \in DOMAIN j.rest : j.rest[i].from = Head(j.level) /\ j.rest[i].to \notin j.visited}

\* Mutation: an edge to a node that does not exist is not followed.
VisitExisting(j, v) ==
    IF v \in DOMAIN nodes[j.obj]
      THEN [j EXCEPT !.visited = @ \cup {v}, !.next = Append(@, v), !.rows = @ \cup {<<v, j.d + 1>>}]
      ELSE [j EXCEPT !.visited = @ \cup {v}]

Visit(j, v) ==
    [j EXCEPT !.visited = @ \cup {v},
              !.next = Append(@, v),
              !.rows = @ \cup (IF v \in DOMAIN nodes[j.obj] THEN {<<v, j.d + 1>>} ELSE {})]

ScanEdge(r) ==
    LET j == job[r]
        i == Min(Fresh(j))
    IN  /\ pc[r] = "scan"
        /\ Fresh(j) # {}
        /\ Goto(r, "scan", Visit([j EXCEPT !.rest = SubSeq(@, i + 1, Len(@))], j.rest[i].to))
        /\ UNCHANGED <<open, used, memory, lock, writing, file, writes, crashes, owner, acked>>

ScanEnd(r) ==
    /\ pc[r] = "scan"
    /\ Fresh(job[r]) = {}
    /\ Goto(r, "level", [job[r] EXCEPT !.level = Tail(@), !.rest = <<>>])
    /\ UNCHANGED <<open, used, memory, lock, writing, file, writes, crashes, owner, acked>>

LastLevel(j) == j.next = <<>> \/ j.d + 1 = j.depth

NextLevel(r) ==
    /\ pc[r] = "level"
    /\ job[r].level = <<>>
    /\ ~LastLevel(job[r])
    /\ Goto(r, "level", [job[r] EXCEPT !.level = job[r].next, !.next = <<>>, !.d = @ + 1])
    /\ UNCHANGED <<open, used, memory, lock, writing, file, writes, crashes, owner, acked>>

TraverseReturn(r) ==
    /\ pc[r] = "level"
    /\ job[r].level = <<>>
    /\ LastLevel(job[r])
    /\ Goto(r, "idle", None)
    /\ UNCHANGED <<open, used, memory, lock, writing, file, writes, crashes, owner, acked>>

-----------------------------------------------------------------------------
(* The end of the process, and a start with the file as it is.               *)

Die ==
    /\ crashes < MaxCrashes
    /\ crashes' = crashes + 1
    /\ open' = {}
    /\ used' = {}
    /\ nodes' = [o \in Objects |-> <<>>]
    /\ edges' = [o \in Objects |-> <<>>]
    /\ lock' = [o \in Objects |-> None]
    /\ writing' = {}
    /\ pc' = [r \in Requests |-> "idle"]
    /\ job' = [r \in Requests |-> None]
    /\ owner' = None
    /\ acked' = [o \in Objects |-> Held(Empty)]
    /\ UNCHANGED <<file, writes>>

Crash == Die

\* A reader meets a change of the map or of the slice header.
Fault(r) ==
    /\ pc[r] # "idle"
    /\ Object(r) \in writing
    /\ Die

-----------------------------------------------------------------------------

ReadStep(r) ==
    ReadReturn(r) \/ ScanBegin(r) \/ ScanEdge(r) \/ ScanEnd(r) \/ NextLevel(r) \/ TraverseReturn(r)

WriteStep(r) ==
    ChangeBegin(r) \/ ChangeEnd(r) \/ SaveBegin(r) \/ SaveEnd(r) \/ SaveRefused(r) \/ SaveFails(r)

Edit(r, o) ==
    CreateNode(r, o) \/ CreateEdge(r, o) \/ Close(r, o) \/ DropDatabase(r, o)

Browse(r, o) == Read(r, o) \/ Traverse(r, o)

Next ==
    \/ \E o \in Objects : Connect(o)
    \/ \E r \in Editors : WriteStep(r) \/ \E o \in Objects : Edit(r, o)
    \/ \E r \in Browsers : ReadStep(r) \/ Fault(r) \/ \E o \in Objects : Browse(r, o)
    \/ Crash

Spec == Init /\ [][Next]_vars

\* A goroutine that can go on does.
Fairness ==
    /\ \A r \in Browsers : WF_vars(ReadStep(r))
    /\ \A r \in Editors : WF_vars(WriteStep(r))

FairSpec == Spec /\ Fairness

-----------------------------------------------------------------------------
(* Properties.                                                               *)

TypeOK ==
    /\ open \subseteq used
    /\ used \subseteq Objects
    /\ \A o \in Objects :
         /\ DOMAIN nodes[o] \subseteq Nat \ {0}
         /\ edges[o] \in Seq(Edges)
         /\ lock[o] \in Editors \cup {None}
    /\ writing \subseteq used
    /\ \A r \in Editors : pc[r] \in {"idle"} \cup Writers
    /\ \A r \in Browsers : pc[r] \in {"idle"} \cup Readers
    /\ \A r \in Requests : pc[r] = "idle" => job[r] = None
    /\ writes \in 0..MaxWrites
    /\ crashes \in 0..MaxCrashes
    /\ owner \in Objects \cup {None}

\* The identifiers are n_1 to n_N without a gap, in every object, although they
\* are made outside the lock; the len of the next one relies on it.
IdsDense ==
    \A o \in Objects : DOMAIN nodes[o] = 1..Cardinality(DOMAIN nodes[o])

\* A node that was there when a CREATE NODE began is not overwritten by it (two
\* that overlap may get the same identifier).
KnownNotOverwritten ==
    [][\A r \in Editors : pc[r] = "changing" /\ pc'[r] = "save" /\ job[r].op = "node"
          => \A k \in job[r].known : nodes'[Object(r)][k] = nodes[Object(r)][k]]_vars

\* A file that is whole holds all that the object that wrote it has loaded or
\* answered for, whatever the order of changes and saves of its requests.
AnsweredIsSaved ==
    file # Torn /\ owner # None =>
        /\ acked[owner].nodes \subseteq Held(file).nodes
        /\ acked[owner].edges \subseteq Held(file).edges

\* The memory of the objects and the file they share.
GraphInv == TypeOK /\ IdsDense /\ AnsweredIsSaved

\* The nodes within n steps of s.
Within(es, s, n) ==
    LET w[k \in 0..n] == IF k = 0 THEN {s}
                         ELSE w[k - 1] \cup {e.to : e \in {f \in ToSet(es) : f.from \in w[k - 1]}}
    IN  w[n]

Dropped(o) == \E r \in Editors : pc[r] # "idle" /\ job[r].op = "drop" /\ Object(r) = o

\* Each node once, at a distance that it has in the graph as it has become and that was
\* not shorter at the start, and every node that was there and within reach at the start.
AnswerOK(j) ==
    /\ \A x, y \in j.rows : x[1] = y[1] => x = y
    /\ \A x \in j.rows : /\ x[1] \in Within(edges[j.obj], j.start, x[2])
                         /\ x[1] \notin Within(j.first, j.start, x[2] - 1)
    /\ (Within(j.first, j.start, j.depth) \cap j.there) \ {j.start} \subseteq {x[1] : x \in j.rows}

\* TRAVERSE among concurrent writes answers with the nodes and distances it should.
TraverseExact ==
    [][\A r \in Browsers :
         pc[r] = "level" /\ pc'[r] = "idle" /\ crashes' = crashes /\ ~Dropped(Object(r))
           => AnswerOK(job[r])]_vars

\* A read returns although others hold the lock, even one that never gives it back.
ReadersReturn ==
    \A r \in Browsers : pc[r] \in Readers ~> pc[r] = "idle"

=============================================================================
