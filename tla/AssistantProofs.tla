--------------------------- MODULE AssistantProofs ---------------------------
(***************************************************************************)
(* Proofs about the assistant: chats and their memory (AgentChat), the     *)
(* requests of MCP clients (McpGate), and completions and streams of       *)
(* language models (LlmClient).  Each has an inductive invariant that says *)
(* what a step of one actor leaves of the others: who was alone has the    *)
(* gate to itself, who holds the lock of the file is the only one that     *)
(* writes, a chat that waits will add one answer at most, and a model of a *)
(* list is still to come, has failed, or came too late.                    *)
(***************************************************************************)
EXTENDS AgentChat, McpGate, LlmClient, FiniteSetTheorems, SequenceTheorems, TLAPS

-----------------------------------------------------------------------------
(* Chats.                                                                    *)

Turns == {"user", "assistant"} \X Chats
Locked == {"flock", "read", "open", "write", "flock2", "recall"}
Pcs == {"bind", "turn", "mutex", "mutex2", "decide", "tool", "schema", "sql", "query", "answer", "restore"}
           \cup Locked
Chatters == [pc : Pcs, session : Sessions, old : Chats \cup {Nobody}, load : Seq(Chats),
             ran : SUBSET Conns, refused : SUBSET Conns]

ChatTypes ==
    /\ gate \in [Procs -> Chats \cup {Nobody}]
    /\ sessions \in [Procs -> [Sessions -> Seq(Turns)]]
    /\ mutex \in [Procs -> Chats \cup {Nobody}] /\ flock \in Chats \cup {Nobody}
    /\ (file = Torn \/ file \in Seq(Chats)) /\ told \in Seq(Chats)
    /\ chat \in [Chats -> Chatters \cup {Idle}]

LocksOK ==
    \A q \in Chats : /\ mutex[ProcOf[q]] = q <=> chat[q].pc \in Locked
                     /\ flock = q <=> chat[q].pc \in {"read", "open", "write", "recall"}

\* The file is what was told, unless somebody writes; who writes has what was told.
MemOK ==
    /\ (\A q \in Chats : chat[q].pc # "write") => file = told \/ (file = Torn /\ told = << >>)
    /\ \A q \in Chats :
         /\ chat[q].pc = "write" => file = Torn
         /\ chat[q].pc \in {"open", "write"} => chat[q].load = LastOf(Append(told, q), MaxMemory)

\* Two chats at a time have met; who has met nobody has its own gate and puts back
\* what was there before any chat came.
ScopeOK ==
    /\ \A q, r \in Chats :
         q # r /\ ProcOf[q] = ProcOf[r] /\ Under(q) /\ Under(r) => q \in met /\ ProcOf[q] \in met
    /\ \A q \in Chats \ met :
         Under(q) => /\ chat[q].ran \subseteq ScopeOf[q] /\ chat[q].refused \cap ScopeOf[q] = {}
                     /\ chat[q].pc # "bind" => gate[ProcOf[q]] = q
    /\ \A q \in Chats : Under(q) /\ ProcOf[q] \notin met => chat[q].old = Nobody
    /\ \A p \in Procs \ met : (\A q \in Chats : ProcOf[q] = p => ~Under(q)) => gate[p] = Nobody

\* Whose answer is still to come, and the questions of a history.
Waiting(x) == x.pc \notin {"idle", "bind", "turn", "restore"}
Pending(p, s) == {q \in Chats : ProcOf[q] = p /\ Waiting(chat[q]) /\ chat[q].session = s}
Served(p) == {q \in Chats : ProcOf[q] = p}
Asked(h) == {i \in 1..Len(h) : h[i][1] = "user"}

\* Every chat that waits will add one answer at most.
HistOK ==
    \A p \in Procs : \A s \in Sessions :
        /\ \A i \in Asked(sessions[p][s]) : i <= MaxHistory
        /\ Asked(sessions[p][s]) # {} =>
             Len(sessions[p][s]) + Cardinality(Pending(p, s)) <= MaxHistory + Cardinality(Served(p))

ChatIInv == ChatTypes /\ LocksOK /\ MemOK /\ ScopeOK /\ HistOK

\* A chat that goes on, from what it was to x.
Moves(q, x) ==
    /\ Under(q) /\ x \in Chatters
    /\ chat' = [chat EXCEPT ![q] = x]
    /\ x.session = chat[q].session /\ x.old = chat[q].old

\* What is under way is a record with all its fields.
LEMMA ChatterLaw == ASSUME ChatTypes, NEW q \in Chats
                    PROVE  /\ Under(q) => chat[q] \in Chatters
                           /\ ~Under(q) => chat[q] = Idle
                           /\ Idle.pc = "idle" /\ Idle \notin Chatters
                           /\ \A x \in Chatters : x.pc # "idle"
<1>1. chat[q] \in Chatters \cup {Idle}
  BY DEF ChatTypes
<1>2. Idle.pc = "idle"
  BY DEF Idle
<1>3. \A x \in Chatters : x.pc # "idle"
  BY DEF Chatters, Pcs, Locked
<1> QED
  BY <1>1, <1>2, <1>3 DEF Under

\* Go leaves all but the place.
LEMMA GoLaw ==
    ASSUME ChatTypes, NEW q \in Chats, Under(q), NEW pc, pc \in Pcs, Go(q, pc)
    PROVE  \E x : /\ Moves(q, x) /\ x.pc = pc /\ x.load = chat[q].load
                  /\ x.ran = chat[q].ran /\ x.refused = chat[q].refused
<1>1. chat[q] \in Chatters
  BY ChatterLaw
<1>2. PICK x : x = [chat[q] EXCEPT !.pc = pc]
  OBVIOUS
<1>3. /\ x \in Chatters /\ x.pc = pc /\ x.load = chat[q].load /\ x.session = chat[q].session
      /\ x.old = chat[q].old /\ x.ran = chat[q].ran /\ x.refused = chat[q].refused
  BY <1>1, <1>2 DEF Chatters
<1>4. chat' = [chat EXCEPT ![q] = x]
  BY <1>2 DEF Go
<1> QED
  BY <1>3, <1>4 DEF Moves

\* One chat moves and the others stay.
LEMMA MovesLaw ==
    ASSUME ChatTypes, NEW q \in Chats, NEW x, Moves(q, x)
    PROVE  /\ chat' \in [Chats -> Chatters \cup {Idle}]
           /\ chat'[q] = x /\ x.pc # "idle"
           /\ \A r \in Chats : r # q => chat'[r] = chat[r]
           /\ \A r \in Chats : Under(r)' <=> Under(r)
           /\ ProcOf[q] \in Procs
<1>1. chat \in [Chats -> Chatters \cup {Idle}] /\ x \in Chatters /\ chat' = [chat EXCEPT ![q] = x] /\ Under(q)
  BY DEF ChatTypes, Moves
<1>2. x.pc # "idle"
  BY <1>1, ChatterLaw
<1>3. /\ chat' \in [Chats -> Chatters \cup {Idle}] /\ chat'[q] = x
      /\ \A r \in Chats : r # q => chat'[r] = chat[r]
  BY <1>1
<1>4. \A r \in Chats : Under(r)' <=> Under(r)
  BY <1>1, <1>2, <1>3 DEF Under
<1>5. ProcOf[q] \in Procs
  BY ChatAssumption
<1> QED
  BY <1>2, <1>3, <1>4, <1>5

\* A move that leaves the locks, and where a chat stands with them.
LEMMA LocksKept ==
    ASSUME ChatTypes, LocksOK, NEW q \in Chats, NEW x, Moves(q, x), UNCHANGED <<mutex, flock>>,
           x.pc \in Locked <=> chat[q].pc \in Locked,
           x.pc \in {"read", "open", "write", "recall"} <=> chat[q].pc \in {"read", "open", "write", "recall"}
    PROVE  LocksOK'
<1>1. \A r \in Chats : /\ chat'[r].pc \in Locked <=> chat[r].pc \in Locked
                       /\ chat'[r].pc \in {"read", "open", "write", "recall"}
                            <=> chat[r].pc \in {"read", "open", "write", "recall"}
  BY MovesLaw
<1> QED
  BY <1>1 DEF LocksOK

\* A move between places where nothing is written.
LEMMA MemKept ==
    ASSUME ChatTypes, MemOK, NEW q \in Chats, NEW x, Moves(q, x), UNCHANGED <<file, told>>,
           chat[q].pc \notin {"open", "write"}, x.pc \notin {"open", "write"}
    PROVE  MemOK'
<1>1. \A r \in Chats : r # q => chat'[r] = chat[r]
  BY MovesLaw
<1>2. chat'[q] = x
  BY MovesLaw
<1>3. (\A r \in Chats : chat'[r].pc # "write") => \A r \in Chats : chat[r].pc # "write"
  BY <1>1
<1>4. \A r \in Chats : chat'[r].pc \in {"open", "write"} => chat'[r] = chat[r]
  BY <1>1, <1>2
<1> QED
  BY <1>3, <1>4 DEF MemOK

\* A move of a chat that has its gate leaves it alone, and adds to what it ran
\* only what its gate lets through.
LEMMA ScopeKept ==
    ASSUME ChatTypes, ScopeOK, NEW q \in Chats, NEW x, Moves(q, x), met' = met, x.pc # "bind",
           \/ gate' = gate /\ chat[q].pc # "bind"
           \/ gate' = [gate EXCEPT ![ProcOf[q]] = q],
           q \notin met /\ (chat[q].pc # "bind" => gate[ProcOf[q]] = q)
               /\ chat[q].ran \subseteq ScopeOf[q] /\ chat[q].refused \cap ScopeOf[q] = {}
             => x.ran \subseteq ScopeOf[q] /\ x.refused \cap ScopeOf[q] = {}
    PROVE  ScopeOK'
<1>1. /\ chat'[q] = x /\ \A r \in Chats : r # q => chat'[r] = chat[r]
      /\ \A r \in Chats : Under(r)' <=> Under(r)
      /\ ProcOf[q] \in Procs /\ Under(q)
  BY MovesLaw DEF Moves
<1>2. \A r, s \in Chats :
        r # s /\ ProcOf[r] = ProcOf[s] /\ Under(r) /\ Under(s) => r \in met /\ ProcOf[r] \in met
  BY DEF ScopeOK
<1>3. gate \in [Procs -> Chats \cup {Nobody}]
  BY DEF ChatTypes
<1>4. \A p \in Procs : p # ProcOf[q] => gate'[p] = gate[p]
  BY <1>1, <1>3
<1>5. ASSUME NEW r \in Chats, r \notin met, Under(r)
      PROVE  /\ chat'[r].ran \subseteq ScopeOf[r] /\ chat'[r].refused \cap ScopeOf[r] = {}
             /\ chat'[r].pc # "bind" => gate'[ProcOf[r]] = r
  <2>1. /\ chat[r].ran \subseteq ScopeOf[r] /\ chat[r].refused \cap ScopeOf[r] = {}
        /\ chat[r].pc # "bind" => gate[ProcOf[r]] = r
    BY <1>5 DEF ScopeOK
  <2>2. CASE r = q
    <3>1. gate'[ProcOf[q]] = q
      BY <1>1, <1>3, <2>1, <2>2
    <3> QED
      BY <1>1, <1>5, <2>1, <2>2, <3>1
  <2>3. CASE r # q
    <3>1. ProcOf[r] # ProcOf[q]
      BY <1>1, <1>2, <1>5, <2>3
    <3>2. ProcOf[r] \in Procs
      BY ChatAssumption
    <3> QED
      BY <1>1, <1>4, <2>1, <2>3, <3>1, <3>2
  <2> QED
    BY <2>2, <2>3
<1>6. ASSUME NEW r \in Chats, Under(r), ProcOf[r] \notin met PROVE chat'[r].old = Nobody
  BY <1>1, <1>6 DEF ScopeOK, Moves
<1>7. ASSUME NEW p \in Procs \ met, \A r \in Chats : ProcOf[r] = p => ~Under(r) PROVE gate'[p] = Nobody
  <2>1. p # ProcOf[q]
    BY <1>1, <1>7
  <2> QED
    BY <1>4, <1>7, <2>1 DEF ScopeOK
<1> QED
  BY <1>1, <1>2, <1>5, <1>6, <1>7 DEF ScopeOK

\* What is counted is finite.
LEMMA Counted == \A p, s : /\ IsFiniteSet(Served(p)) /\ Cardinality(Served(p)) \in Nat
                           /\ IsFiniteSet(Pending(p, s)) /\ Cardinality(Pending(p, s)) \in Nat
                           /\ Cardinality(Pending(p, s)) <= Cardinality(Served(p))
<1> SUFFICES ASSUME NEW p, NEW s
             PROVE  /\ IsFiniteSet(Served(p)) /\ Cardinality(Served(p)) \in Nat
                    /\ IsFiniteSet(Pending(p, s)) /\ Cardinality(Pending(p, s)) \in Nat
                    /\ Cardinality(Pending(p, s)) <= Cardinality(Served(p))
  OBVIOUS
<1>1. IsFiniteSet(Chats) /\ Served(p) \subseteq Chats /\ Pending(p, s) \subseteq Served(p)
  BY ChatAssumption DEF Served, Pending
<1>2. IsFiniteSet(Served(p))
  BY <1>1, FS_Subset
<1> QED
  BY <1>1, <1>2, FS_Subset, FS_CardinalityType

\* Fewer chats wait, and the histories stay.
LEMMA HistKept ==
    ASSUME ChatTypes, HistOK, sessions' = sessions,
           \A r \in Chats : Waiting(chat'[r]) => Waiting(chat[r]) /\ chat'[r].session = chat[r].session
    PROVE  HistOK'
<1> SUFFICES ASSUME NEW p \in Procs, NEW s \in Sessions
             PROVE  /\ \A i \in Asked(sessions[p][s]) : i <= MaxHistory
                    /\ Asked(sessions[p][s]) # {} =>
                         Len(sessions[p][s]) + Cardinality(Pending(p, s)') <= MaxHistory + Cardinality(Served(p))
  BY DEF HistOK, Served, Asked
<1>1. /\ \A i \in Asked(sessions[p][s]) : i <= MaxHistory
      /\ Asked(sessions[p][s]) # {} =>
           Len(sessions[p][s]) + Cardinality(Pending(p, s)) <= MaxHistory + Cardinality(Served(p))
  BY DEF HistOK
<1>2. Pending(p, s)' \subseteq Pending(p, s)
  BY DEF Pending
<1>3. PICK P, Q : P = Pending(p, s) /\ Q = Pending(p, s)'
  OBVIOUS
<1>4. IsFiniteSet(P) /\ IsFiniteSet(Q)
  BY <1>2, <1>3, Counted, FS_Subset
<1>5. Cardinality(Q) <= Cardinality(P) /\ Cardinality(P) \in Nat /\ Cardinality(Q) \in Nat
  BY <1>2, <1>3, <1>4, FS_Subset, FS_CardinalityType
<1>6. PICK l \in Nat : l = Len(sessions[p][s])
  <2>1. sessions[p][s] \in Seq(Turns)
    BY DEF ChatTypes
  <2> QED
    BY <2>1
<1>7. Cardinality(Served(p)) \in Nat /\ MaxHistory \in Nat
  BY Counted, ChatAssumption
<1>8. Asked(sessions[p][s]) # {} => l + Cardinality(P) <= MaxHistory + Cardinality(Served(p))
  BY <1>1, <1>3, <1>6
<1> QED
  BY <1>1, <1>3, <1>5, <1>6, <1>7, <1>8

\* A move that touches neither the memory nor the histories.
LEMMA QuietInv ==
    ASSUME ChatIInv, NEW q \in Chats, NEW x, Moves(q, x), UNCHANGED <<gate, sessions, memory, met>>,
           chat[q].pc \notin Locked \cup {"bind", "turn"}, x.pc \notin Locked \cup {"bind"},
           Waiting(x) => Waiting(chat[q]),
           q \notin met /\ gate[ProcOf[q]] = q
               /\ chat[q].ran \subseteq ScopeOf[q] /\ chat[q].refused \cap ScopeOf[q] = {}
             => x.ran \subseteq ScopeOf[q] /\ x.refused \cap ScopeOf[q] = {}
    PROVE  ChatIInv'
<1>1. ChatTypes /\ LocksOK /\ MemOK /\ ScopeOK /\ HistOK /\ UNCHANGED <<mutex, flock, file, told>>
  BY DEF ChatIInv, memory
<1>2. ChatTypes'
  BY <1>1, MovesLaw DEF ChatTypes
<1>3. /\ chat[q].pc \notin {"read", "open", "write", "recall", "bind"} /\ chat[q].pc \notin Locked
      /\ x.pc \notin {"read", "open", "write", "recall", "bind"} /\ x.pc \notin Locked
  BY DEF Locked
<1>4. LocksOK'
  BY <1>1, <1>3, LocksKept
<1>5. MemOK'
  BY <1>1, <1>3, MemKept
<1>6. ScopeOK'
  BY <1>1, <1>3, ScopeKept
<1>7. HistOK'
  <2>1. \A r \in Chats : Waiting(chat'[r]) => Waiting(chat[r]) /\ chat'[r].session = chat[r].session
    BY <1>1, MovesLaw DEF Moves
  <2> QED
    BY <1>1, <2>1, HistKept
<1> QED
  BY <1>2, <1>4, <1>5, <1>6, <1>7 DEF ChatIInv

\* A move from one of these places to another keeps the invariant.
LEMMA GoQuiet ==
    ASSUME ChatIInv, NEW q \in Chats, NEW pc, Go(q, pc), UNCHANGED <<gate, sessions, memory, met>>,
           chat[q].pc \in {"decide", "tool", "schema", "sql", "query"},
           pc \in {"tool", "schema", "sql", "query", "answer", "restore"}
    PROVE  ChatIInv'
<1>1. Under(q) /\ chat[q].pc \notin Locked \cup {"bind", "turn"} /\ Waiting(chat[q])
  BY DEF Under, Locked, Waiting
<1>2. pc \in Pcs /\ pc \notin Locked \cup {"bind"}
  BY DEF Pcs, Locked
<1>3. PICK x : Moves(q, x) /\ x.pc = pc /\ x.ran = chat[q].ran /\ x.refused = chat[q].refused
  BY <1>1, <1>2, GoLaw DEF ChatIInv
<1> QED
  BY <1>1, <1>2, <1>3, QuietInv

\* A call goes through the gate of the process, which may be another chat's.
LEMMA ThroughInv ==
    ASSUME ChatIInv, NEW q \in Chats, NEW c \in Conns, NEW then, Through(q, c, then),
           chat[q].pc \in {"tool", "schema", "query"}, then \in {"answer", "sql"}
    PROVE  ChatIInv'
<1>1. Under(q) /\ chat[q].pc \notin Locked \cup {"bind", "turn"} /\ Waiting(chat[q])
  BY DEF Under, Locked, Waiting
<1>2. chat[q] \in Chatters /\ chat \in [Chats -> Chatters \cup {Idle}]
  BY <1>1, ChatterLaw DEF ChatIInv, ChatTypes
<1>3. PICK g : g = gate[ProcOf[q]]
  OBVIOUS
<1>4. UNCHANGED <<gate, sessions, memory, met>>
  BY DEF Through
<1>5. CASE c \in Scope(g)
  <2>1. PICK x : x = [chat[q] EXCEPT !.pc = then, !.ran = chat[q].ran \cup {c}]
    OBVIOUS
  <2>2. /\ x \in Chatters /\ x.pc = then /\ x.ran = chat[q].ran \cup {c} /\ x.refused = chat[q].refused
        /\ x.session = chat[q].session /\ x.old = chat[q].old
    <3>1. then \in Pcs
      BY DEF Pcs
    <3>2. chat[q].ran \cup {c} \in SUBSET Conns
      BY <1>2 DEF Chatters
    <3> QED
      BY <1>2, <2>1, <3>1, <3>2 DEF Chatters
  <2>3. chat' = [chat EXCEPT ![q] = x]
    BY <1>3, <1>5, <2>1 DEF Through
  <2>4. Moves(q, x)
    BY <1>1, <2>2, <2>3 DEF Moves
  <2>5. g = q => c \in ScopeOf[q]
    BY <1>5, ChatAssumption DEF Scope, Nobody
  <2>6. x.pc \notin Locked \cup {"bind"}
    BY <2>2 DEF Locked
  <2> QED
    BY <1>1, <1>3, <1>4, <2>2, <2>4, <2>5, <2>6, QuietInv
<1>6. CASE c \notin Scope(g)
  <2>1. PICK x : x = [chat[q] EXCEPT !.pc = "restore", !.refused = chat[q].refused \cup {c}]
    OBVIOUS
  <2>2. /\ x \in Chatters /\ x.pc = "restore" /\ x.ran = chat[q].ran /\ x.refused = chat[q].refused \cup {c}
        /\ x.session = chat[q].session /\ x.old = chat[q].old
    <3>1. "restore" \in Pcs
      BY DEF Pcs
    <3>2. chat[q].refused \cup {c} \in SUBSET Conns
      BY <1>2 DEF Chatters
    <3> QED
      BY <1>2, <2>1, <3>1, <3>2 DEF Chatters
  <2>3. chat' = [chat EXCEPT ![q] = x]
    BY <1>3, <1>6, <2>1 DEF Through
  <2>4. Moves(q, x)
    BY <1>1, <2>2, <2>3 DEF Moves
  <2>5. g = q => c \notin ScopeOf[q]
    BY <1>6, ChatAssumption DEF Scope, Nobody
  <2>6. x.pc \notin Locked \cup {"bind"}
    BY <2>2 DEF Locked
  <2> QED
    BY <1>1, <1>3, <1>4, <2>2, <2>4, <2>5, <2>6, QuietInv
<1> QED
  BY <1>5, <1>6

\* The steps of decideTool and executeTool.
LEMMA ToolsInv ==
    ASSUME ChatIInv, NEW q \in Chats,
           Decide(q) \/ Tool(q) \/ Schema(q) \/ WriteSql(q) \/ Query(q) \/ ToolAnswers(q)
    PROVE  ChatIInv'
<1>1. CASE Decide(q)
  BY <1>1, GoQuiet DEF Decide
<1>2. CASE Tool(q)
  BY <1>2, ThroughInv DEF Tool
<1>3. CASE Schema(q)
  BY <1>3, ThroughInv DEF Schema
<1>4. CASE WriteSql(q)
  BY <1>4, GoQuiet DEF WriteSql
<1>5. CASE Query(q)
  <2>1. PICK c \in chat[q].ran : Through(q, c, "answer")
    BY <1>5 DEF Query
  <2>2. chat[q].pc = "query" /\ Under(q)
    BY <1>5 DEF Query, Under
  <2>3. c \in Conns
    BY <2>1, <2>2, ChatterLaw DEF ChatIInv, Chatters
  <2> QED
    BY <2>1, <2>2, <2>3, ThroughInv
<1>6. CASE ToolAnswers(q)
  BY <1>6, GoQuiet DEF ToolAnswers
<1> QED
  BY <1>1, <1>2, <1>3, <1>4, <1>5, <1>6

\* The end of a list of chats is one.
LEMMA LastOfLaw == ASSUME NEW S, NEW s \in Seq(S), NEW n \in Nat
                   PROVE  LastOf(s, n) \in Seq(S) /\ Len(LastOf(s, n)) <= n
                          /\ Len(LastOf(s, n)) <= Len(s)
<1> DEFINE k == IF Len(s) > n THEN Len(s) - n + 1 ELSE 1
<1>1. Len(s) \in Nat /\ k \in Nat /\ k >= 1
  OBVIOUS
<1>2. k <= Len(s) + 1 /\ Len(s) - k + 1 <= n /\ Len(s) - k + 1 <= Len(s)
  BY <1>1
<1> HIDE DEF k
<1>3. \A j \in k..Len(s) : j \in 1..Len(s)
  BY <1>1
<1>4. SubSeq(s, k, Len(s)) \in Seq(S)
  BY <1>1, <1>3
<1>5. Len(SubSeq(s, k, Len(s))) = Len(s) - k + 1
  BY <1>1, <1>2
<1> QED
  BY <1>1, <1>2, <1>4, <1>5 DEF LastOf, k

\* A chat begins: the gate it finds is the one to put back.
LEMMA BeginInv == ASSUME ChatIInv, NEW q \in Chats, Begin(q) PROVE ChatIInv'
<1>1. /\ ~Under(q) /\ UNCHANGED <<gate, sessions, mutex, flock, file, told>>
      /\ ChatTypes /\ LocksOK /\ MemOK /\ ScopeOK /\ HistOK
  BY DEF Begin, memory, ChatIInv
<1>2. ProcOf[q] \in Procs /\ gate[ProcOf[q]] \in Chats \cup {Nobody} /\ chat[q] = Idle
  BY <1>1, ChatAssumption, ChatterLaw DEF ChatTypes
<1>3. PICK s \in Sessions :
        chat' = [chat EXCEPT ![q] = [pc |-> "bind", session |-> s, old |-> gate[ProcOf[q]],
                                     load |-> << >>, ran |-> {}, refused |-> {}]]
  BY DEF Begin
<1>4. PICK x : x = [pc |-> "bind", session |-> s, old |-> gate[ProcOf[q]], load |-> << >>,
                    ran |-> {}, refused |-> {}]
  OBVIOUS
<1>5. /\ x \in Chatters /\ x.pc = "bind" /\ x.old = gate[ProcOf[q]] /\ x.ran = {} /\ x.refused = {}
  <2>1. PICK T : T = Seq(Chats)
    OBVIOUS
  <2>2. << >> \in T /\ "bind" \in Pcs
    BY <2>1 DEF Pcs
  <2> QED
    BY <1>2, <1>4, <2>1, <2>2 DEF Chatters
<1>6. /\ chat' \in [Chats -> Chatters \cup {Idle}] /\ chat'[q] = x
      /\ \A r \in Chats : r # q => chat'[r] = chat[r]
  BY <1>1, <1>3, <1>4, <1>5 DEF ChatTypes
<1>7. chat[q].pc = "idle"
  BY <1>1 DEF Under
<1>8. ChatTypes'
  BY <1>1, <1>6 DEF ChatTypes
<1>9. LocksOK'
  <2>1. \A r \in Chats : /\ chat'[r].pc \in Locked <=> chat[r].pc \in Locked
                         /\ chat'[r].pc \in {"read", "open", "write", "recall"}
                              <=> chat[r].pc \in {"read", "open", "write", "recall"}
    BY <1>5, <1>6, <1>7 DEF Locked
  <2> QED
    BY <1>1, <2>1 DEF LocksOK
<1>10. MemOK'
  <2>1. (\A r \in Chats : chat'[r].pc # "write") => \A r \in Chats : chat[r].pc # "write"
    BY <1>6, <1>7
  <2>2. \A r \in Chats : chat'[r].pc \in {"open", "write"} => chat'[r] = chat[r]
    BY <1>5, <1>6
  <2> QED
    BY <1>1, <2>1, <2>2 DEF MemOK
<1>11. HistOK'
  <2>1. \A r \in Chats : Waiting(chat'[r]) => Waiting(chat[r]) /\ chat'[r].session = chat[r].session
    BY <1>5, <1>6 DEF Waiting
  <2> QED
    BY <1>1, <2>1, HistKept
<1>12. PICK others : others = {p \in Chats \ {q} : Under(p) /\ ProcOf[p] = ProcOf[q]}
  OBVIOUS
<1>13. met' = IF others = {} THEN met \ {q} ELSE met \cup others \cup {q, ProcOf[q]}
  BY <1>12 DEF Begin
<1>14. \A r \in Chats : Under(r)' <=> Under(r) \/ r = q
  BY <1>5, <1>6 DEF Under
<1>15. \A p \in Procs : p # q
  BY ChatAssumption
<1>16. ScopeOK'
  <2>1. ASSUME NEW r \in Chats, NEW t \in Chats, r # t, ProcOf[r] = ProcOf[t], Under(r)', Under(t)'
        PROVE  r \in met' /\ ProcOf[r] \in met'
    <3>1. ProcOf[r] \in Procs
      BY ChatAssumption
    <3>2. CASE r # q /\ t # q
      <4>1. r \in met /\ ProcOf[r] \in met
        BY <1>1, <1>14, <2>1, <3>2 DEF ScopeOK
      <4> QED
        BY <1>13, <1>15, <3>1, <3>2, <4>1
    <3>3. CASE r = q
      <4>1. t \in others
        BY <1>12, <1>14, <2>1, <3>3
      <4> QED
        BY <1>13, <3>3, <4>1
    <3>4. CASE t = q
      <4>1. r \in others
        BY <1>12, <1>14, <2>1, <3>4
      <4> QED
        BY <1>13, <2>1, <3>4, <4>1
    <3> QED
      BY <3>2, <3>3, <3>4
  <2>2. ASSUME NEW r \in Chats, r \notin met', Under(r)'
        PROVE  /\ chat'[r].ran \subseteq ScopeOf[r] /\ chat'[r].refused \cap ScopeOf[r] = {}
               /\ chat'[r].pc # "bind" => gate'[ProcOf[r]] = r
    <3>1. CASE r = q
      BY <1>5, <1>6, <3>1
    <3>2. CASE r # q
      <4>1. r \notin met /\ Under(r)
        BY <1>13, <1>14, <2>2, <3>2
      <4> QED
        BY <1>1, <1>6, <3>2, <4>1 DEF ScopeOK
    <3> QED
      BY <3>1, <3>2
  <2>3. ASSUME NEW r \in Chats, Under(r)', ProcOf[r] \notin met' PROVE chat'[r].old = Nobody
    <3>1. ProcOf[r] \in Procs
      BY ChatAssumption
    <3>2. ProcOf[r] \notin met
      BY <1>13, <1>15, <2>3, <3>1
    <3>3. CASE r = q
      <4>1. others = {}
        BY <1>13, <2>3, <3>3
      <4>2. \A t \in Chats : ProcOf[t] = ProcOf[q] => ~Under(t)
        BY <1>1, <1>12, <4>1
      <4>3. gate[ProcOf[q]] = Nobody
        BY <1>1, <3>1, <3>2, <3>3, <4>2 DEF ScopeOK
      <4> QED
        BY <1>5, <1>6, <3>3, <4>3
    <3>4. CASE r # q
      BY <1>1, <1>6, <1>14, <2>3, <3>2, <3>4 DEF ScopeOK
    <3> QED
      BY <3>3, <3>4
  <2>4. ASSUME NEW p \in Procs, p \notin met', \A r \in Chats : ProcOf[r] = p => ~Under(r)'
        PROVE  gate'[p] = Nobody
    <3>1. p \notin met
      BY <1>13, <1>15, <2>4
    <3>2. \A r \in Chats : ProcOf[r] = p => ~Under(r)
      BY <1>14, <2>4
    <3> QED
      BY <1>1, <3>1, <3>2 DEF ScopeOK
  <2> QED
    BY <2>1, <2>2, <2>3, <2>4 DEF ScopeOK
<1> QED
  BY <1>8, <1>9, <1>10, <1>11, <1>16 DEF ChatIInv

\* A chat gets its gate.
LEMMA BindInv == ASSUME ChatIInv, NEW q \in Chats, Bind(q) PROVE ChatIInv'
<1>1. /\ chat[q].pc = "bind" /\ Go(q, "turn") /\ gate' = [gate EXCEPT ![ProcOf[q]] = q]
      /\ UNCHANGED <<sessions, mutex, flock, file, told, met>>
      /\ ChatTypes /\ LocksOK /\ MemOK /\ ScopeOK /\ HistOK
  BY DEF Bind, memory, ChatIInv
<1>2. PICK x : Moves(q, x) /\ x.pc = "turn" /\ x.ran = chat[q].ran /\ x.refused = chat[q].refused
  <2>1. Under(q) /\ "turn" \in Pcs
    BY <1>1 DEF Under, Pcs
  <2> QED
    BY <1>1, <2>1, GoLaw
<1>3. ChatTypes'
  <2>1. gate' \in [Procs -> Chats \cup {Nobody}]
    BY <1>1 DEF ChatTypes
  <2> QED
    BY <1>1, <1>2, <2>1, MovesLaw DEF ChatTypes
<1>4. /\ chat[q].pc \notin {"read", "open", "write", "recall"} /\ chat[q].pc \notin Locked
      /\ x.pc \notin {"read", "open", "write", "recall"} /\ x.pc \notin Locked /\ x.pc # "bind"
  BY <1>1, <1>2 DEF Locked
<1>5. LocksOK' /\ MemOK'
  BY <1>1, <1>2, <1>4, LocksKept, MemKept
<1>6. ScopeOK'
  BY <1>1, <1>2, <1>4, ScopeKept
<1>7. HistOK'
  <2>1. \A r \in Chats : Waiting(chat'[r]) => Waiting(chat[r]) /\ chat'[r].session = chat[r].session
    BY <1>1, <1>2, MovesLaw DEF Moves, Waiting
  <2> QED
    BY <1>1, <2>1, HistKept
<1> QED
  BY <1>3, <1>5, <1>6, <1>7 DEF ChatIInv

\* A chat ends and puts back what it found.
LEMMA RestoreInv == ASSUME ChatIInv, NEW q \in Chats, Restore(q) PROVE ChatIInv'
<1>1. /\ chat[q].pc = "restore" /\ gate' = [gate EXCEPT ![ProcOf[q]] = chat[q].old]
      /\ chat' = [chat EXCEPT ![q] = Idle] /\ UNCHANGED <<sessions, mutex, flock, file, told, met>>
      /\ ChatTypes /\ LocksOK /\ MemOK /\ ScopeOK /\ HistOK
  BY DEF Restore, memory, ChatIInv
<1>2. /\ Under(q) /\ ProcOf[q] \in Procs /\ chat[q] \in Chatters
  BY <1>1, ChatAssumption, ChatterLaw DEF Under
<1>3. chat[q].old \in Chats \cup {Nobody}
  BY <1>2 DEF Chatters
<1>4. /\ chat' \in [Chats -> Chatters \cup {Idle}] /\ chat'[q] = Idle /\ Idle.pc = "idle"
      /\ \A r \in Chats : r # q => chat'[r] = chat[r]
  BY <1>1, ChatterLaw DEF ChatTypes
<1>5. /\ gate' \in [Procs -> Chats \cup {Nobody}] /\ gate'[ProcOf[q]] = chat[q].old
      /\ \A p \in Procs : p # ProcOf[q] => gate'[p] = gate[p]
  BY <1>1, <1>2, <1>3 DEF ChatTypes
<1>6. ChatTypes'
  BY <1>1, <1>4, <1>5 DEF ChatTypes
<1>7. LocksOK'
  <2>1. \A r \in Chats : /\ chat'[r].pc \in Locked <=> chat[r].pc \in Locked
                         /\ chat'[r].pc \in {"read", "open", "write", "recall"}
                              <=> chat[r].pc \in {"read", "open", "write", "recall"}
    BY <1>1, <1>4 DEF Locked
  <2> QED
    BY <1>1, <2>1 DEF LocksOK
<1>8. MemOK'
  <2>1. (\A r \in Chats : chat'[r].pc # "write") => \A r \in Chats : chat[r].pc # "write"
    BY <1>1, <1>4
  <2>2. \A r \in Chats : chat'[r].pc \in {"open", "write"} => chat'[r] = chat[r]
    BY <1>4
  <2> QED
    BY <1>1, <2>1, <2>2 DEF MemOK
<1>9. HistOK'
  <2>1. \A r \in Chats : Waiting(chat'[r]) => Waiting(chat[r]) /\ chat'[r].session = chat[r].session
    BY <1>4 DEF Waiting
  <2> QED
    BY <1>1, <2>1, HistKept
<1>10. \A r \in Chats : Under(r)' <=> Under(r) /\ r # q
  BY <1>4 DEF Under
<1>11. ScopeOK'
  <2>1. ASSUME NEW r \in Chats, NEW t \in Chats, r # t, ProcOf[r] = ProcOf[t], Under(r)', Under(t)'
        PROVE  r \in met' /\ ProcOf[r] \in met'
    BY <1>1, <1>10, <2>1 DEF ScopeOK
  <2>2. ASSUME NEW r \in Chats, r \notin met', Under(r)'
        PROVE  /\ chat'[r].ran \subseteq ScopeOf[r] /\ chat'[r].refused \cap ScopeOf[r] = {}
               /\ chat'[r].pc # "bind" => gate'[ProcOf[r]] = r
    <3>1. r # q /\ Under(r) /\ r \notin met
      BY <1>1, <1>10, <2>2
    <3>2. ProcOf[r] # ProcOf[q] /\ ProcOf[r] \in Procs
      BY <1>1, <1>2, <3>1, ChatAssumption DEF ScopeOK
    <3> QED
      BY <1>1, <1>4, <1>5, <3>1, <3>2 DEF ScopeOK
  <2>3. ASSUME NEW r \in Chats, Under(r)', ProcOf[r] \notin met' PROVE chat'[r].old = Nobody
    BY <1>1, <1>4, <1>10, <2>3 DEF ScopeOK
  <2>4. ASSUME NEW p \in Procs, p \notin met', \A r \in Chats : ProcOf[r] = p => ~Under(r)'
        PROVE  gate'[p] = Nobody
    <3>1. CASE p = ProcOf[q]
      BY <1>1, <1>2, <1>5, <2>4, <3>1 DEF ScopeOK
    <3>2. CASE p # ProcOf[q]
      <4>1. \A r \in Chats : ProcOf[r] = p => ~Under(r)
        BY <1>10, <2>4, <3>2
      <4> QED
        BY <1>1, <1>5, <2>4, <3>2, <4>1 DEF ScopeOK
    <3> QED
      BY <3>1, <3>2
  <2> QED
    BY <2>1, <2>2, <2>3, <2>4 DEF ScopeOK
<1> QED
  BY <1>6, <1>7, <1>8, <1>9, <1>11 DEF ChatIInv

\* One history changes: the others are as they were.
LEMMA HistStep ==
    ASSUME ChatTypes, HistOK, NEW q \in Chats, NEW x, Moves(q, x), NEW h,
           NEW s0, s0 = chat[q].session, sessions' = [sessions EXCEPT ![ProcOf[q]][s0] = h],
           \A i \in Asked(h) : i <= MaxHistory,
           Asked(h) # {} => Len(h) + Cardinality(Pending(ProcOf[q], s0)')
                              <= MaxHistory + Cardinality(Served(ProcOf[q]))
    PROVE  HistOK'
<1> DEFINE p0 == ProcOf[q]
           Good(g, P, p) == /\ \A i \in Asked(g) : i <= MaxHistory
                            /\ Asked(g) # {} => Len(g) + Cardinality(P) <= MaxHistory + Cardinality(Served(p))
<1>1. /\ chat'[q] = x /\ \A r \in Chats : r # q => chat'[r] = chat[r]
      /\ p0 \in Procs /\ s0 \in Sessions /\ x.session = s0
  BY MovesLaw, ChatterLaw DEF Moves, Chatters
<1>2. sessions' = [sessions EXCEPT ![p0] = [sessions[p0] EXCEPT ![s0] = h]]
  BY <1>1 DEF ChatTypes
<1>3. /\ sessions'[p0][s0] = h
      /\ \A p \in Procs : \A s \in Sessions : p # p0 \/ s # s0 => sessions'[p][s] = sessions[p][s]
  BY <1>1, <1>2 DEF ChatTypes
<1>4. ASSUME NEW p \in Procs, NEW s \in Sessions, p # p0 \/ s # s0
      PROVE  Pending(p, s)' = Pending(p, s)
  BY <1>1, <1>4 DEF Pending
<1>5. \A p \in Procs : \A s \in Sessions : Good(sessions[p][s], Pending(p, s), p)
  BY DEF HistOK
<1>6. Good(h, Pending(p0, s0)', p0)
  OBVIOUS
<1>7. ASSUME NEW p \in Procs, NEW s \in Sessions PROVE Good(sessions'[p][s], Pending(p, s)', p)
  <2>1. CASE p = p0 /\ s = s0
    BY <1>3, <1>6, <2>1
  <2>2. CASE p # p0 \/ s # s0
    <3>1. Good(sessions[p][s], Pending(p, s), p)
      BY <1>5
    <3>2. sessions'[p][s] = sessions[p][s] /\ Pending(p, s)' = Pending(p, s)
      BY <1>3, <1>4, <2>2
    <3> HIDE DEF Good
    <3> QED
      BY <3>1, <3>2
  <2> QED
    BY <2>1, <2>2
<1> QED
  BY <1>7 DEF HistOK, Served, Asked

\* The histories have their type after one changes.
LEMMA SessionsTyped ==
    ASSUME ChatTypes, NEW q \in Chats, Under(q), NEW h \in Seq(Turns),
           sessions' = [sessions EXCEPT ![ProcOf[q]][chat[q].session] = h]
    PROVE  sessions' \in [Procs -> [Sessions -> Seq(Turns)]]
<1>1. PICK W : W = Seq(Turns)
  OBVIOUS
<1>2. ProcOf[q] \in Procs /\ chat[q].session \in Sessions
  BY ChatAssumption, ChatterLaw DEF Chatters
<1>3. sessions \in [Procs -> [Sessions -> W]] /\ h \in W
  BY <1>1 DEF ChatTypes
<1>4. PICK t : t = [sessions[ProcOf[q]] EXCEPT ![chat[q].session] = h]
  OBVIOUS
<1>5. t \in [Sessions -> W]
  BY <1>2, <1>3, <1>4
<1>6. sessions' = [sessions EXCEPT ![ProcOf[q]] = t]
  BY <1>2, <1>3, <1>4
<1>7. sessions' \in [Procs -> [Sessions -> W]]
  BY <1>2, <1>3, <1>5, <1>6
<1> QED
  BY <1>1, <1>7

\* What a chat that keeps its locks and writes nothing leaves alone.
LEMMA TurnKeeps ==
    ASSUME ChatIInv, NEW q \in Chats, NEW pc, Go(q, pc), UNCHANGED <<gate, memory, met>>,
           sessions' \in [Procs -> [Sessions -> Seq(Turns)]], HistOK',
           chat[q].pc \in {"turn", "answer"}, pc \in {"mutex", "restore"}
    PROVE  ChatIInv'
<1>1. /\ ChatTypes /\ LocksOK /\ MemOK /\ ScopeOK /\ UNCHANGED <<gate, mutex, flock, file, told, met>>
  BY DEF ChatIInv, memory
<1>2. PICK x : Moves(q, x) /\ x.pc = pc /\ x.ran = chat[q].ran /\ x.refused = chat[q].refused
  <2>1. Under(q) /\ pc \in Pcs
    BY DEF Under, Pcs
  <2> QED
    BY <1>1, <2>1, GoLaw
<1>3. ChatTypes'
  BY <1>1, <1>2, MovesLaw DEF ChatTypes
<1>4. /\ chat[q].pc \notin {"read", "open", "write", "recall", "bind"} /\ chat[q].pc \notin Locked
      /\ x.pc \notin {"read", "open", "write", "recall", "bind"} /\ x.pc \notin Locked
  BY <1>2 DEF Locked
<1>5. LocksOK' /\ MemOK'
  BY <1>1, <1>2, <1>4, LocksKept, MemKept
<1>6. ScopeOK'
  BY <1>1, <1>2, <1>4, ScopeKept
<1> QED
  BY <1>3, <1>5, <1>6 DEF ChatIInv

\* Half of a full history and one more is no more than the history.
LEMMA Halved == MaxHistory \div 2 \in Nat /\ MaxHistory \div 2 + 1 <= MaxHistory /\ MaxHistory \in Nat
<1>1. MaxHistory \in Nat /\ MaxHistory >= 1
  BY ChatAssumption
<1> QED
  BY <1>1

\* A question shortens a full history before it is added.
LEMMA UserTurnInv == ASSUME ChatIInv, NEW q \in Chats, UserTurn(q) PROVE ChatIInv'
<1>1. /\ chat[q].pc = "turn" /\ Go(q, "mutex") /\ UNCHANGED <<gate, memory, met>>
      /\ ChatTypes /\ HistOK
  BY DEF UserTurn, ChatIInv
<1>2. Under(q) /\ ProcOf[q] \in Procs /\ chat[q].session \in Sessions
  BY <1>1, ChatterLaw, ChatAssumption DEF Under, Chatters
<1>3. PICK h, s : h = sessions[ProcOf[q]][s] /\ s = chat[q].session
  OBVIOUS
<1>4. h \in Seq(Turns)
  BY <1>1, <1>2, <1>3 DEF ChatTypes
<1>5. PICK g : g = IF Len(h) >= MaxHistory THEN LastOf(h, MaxHistory \div 2) ELSE h
  OBVIOUS
<1>6. g \in Seq(Turns) /\ Len(g) + 1 <= MaxHistory
  <2>1. Len(h) \in Nat
    BY <1>4
  <2>2. LastOf(h, MaxHistory \div 2) \in Seq(Turns) /\ Len(LastOf(h, MaxHistory \div 2)) <= MaxHistory \div 2
    BY <1>4, Halved, LastOfLaw
  <2>3. PICK n : n = MaxHistory \div 2
    OBVIOUS
  <2>4. PICK l : l = LastOf(h, n)
    OBVIOUS
  <2>5. n \in Nat /\ n + 1 <= MaxHistory /\ MaxHistory \in Nat /\ l \in Seq(Turns) /\ Len(l) <= n
    BY <2>2, <2>3, <2>4, Halved
  <2>6. PICK m \in Nat : m = Len(l)
    BY <2>5
  <2>7. CASE Len(h) >= MaxHistory
    <3>1. g = l
      BY <1>5, <2>3, <2>4, <2>7
    <3> QED
      BY <2>5, <2>6, <3>1
  <2>8. CASE ~(Len(h) >= MaxHistory)
    BY <1>4, <1>5, <2>1, <2>5, <2>8
  <2> QED
    BY <2>7, <2>8
<1>7. PICK t : t = <<"user", q>>
  OBVIOUS
<1>8. t \in Turns
  BY <1>7 DEF Turns
<1>9. PICK k : k = Append(g, t)
  OBVIOUS
<1>10. k \in Seq(Turns) /\ Len(k) \in Nat /\ Len(k) <= MaxHistory
  BY <1>6, <1>8, <1>9
<1>11. sessions' = [sessions EXCEPT ![ProcOf[q]][s] = k]
  <2>1. sessions' = [sessions EXCEPT ![ProcOf[q]][chat[q].session] =
             Append(IF Len(@) >= MaxHistory THEN LastOf(@, MaxHistory \div 2) ELSE @, <<"user", q>>)]
    BY DEF UserTurn
  <2>2. sessions \in [Procs -> [Sessions -> Seq(Turns)]]
    BY <1>1 DEF ChatTypes
  <2> QED
    BY <1>2, <1>3, <1>5, <1>7, <1>9, <2>1, <2>2
<1>12. PICK x : Moves(q, x) /\ x.pc = "mutex"
  <2>1. "mutex" \in Pcs
    BY DEF Pcs
  <2> QED
    BY <1>1, <1>2, <2>1, GoLaw
<1>13. \A i \in Asked(k) : i <= MaxHistory
  <2>1. SUFFICES ASSUME NEW i \in 1..Len(k) PROVE i <= MaxHistory
    BY DEF Asked
  <2> QED
    BY <1>10, Halved
<1>14. Len(k) + Cardinality(Pending(ProcOf[q], s)')
         <= MaxHistory + Cardinality(Served(ProcOf[q]))
  <2>1. PICK P : P = Pending(ProcOf[q], s)'
    OBVIOUS
  <2>2. P \subseteq Served(ProcOf[q])
    BY <2>1 DEF Pending, Served
  <2>3. PICK c : c = Cardinality(P)
    OBVIOUS
  <2>4. PICK d : d = Cardinality(Served(ProcOf[q]))
    OBVIOUS
  <2>5. c \in Nat /\ d \in Nat /\ c <= d
    BY <2>2, <2>3, <2>4, Counted, FS_Subset, FS_CardinalityType
  <2> QED
    BY <1>10, <2>1, <2>3, <2>4, <2>5, Halved
<1>15. HistOK'
  BY <1>1, <1>3, <1>11, <1>12, <1>13, <1>14, HistStep
<1>16. sessions' \in [Procs -> [Sessions -> Seq(Turns)]]
  BY <1>1, <1>2, <1>3, <1>10, <1>11, SessionsTyped
<1> QED
  BY <1>1, <1>15, <1>16, TurnKeeps

\* An answer is added by a chat that was counted as waiting, and is not any more.
LEMMA AssistantTurnInv == ASSUME ChatIInv, NEW q \in Chats, AssistantTurn(q) PROVE ChatIInv'
<1>1. /\ chat[q].pc = "answer" /\ Go(q, "restore") /\ UNCHANGED <<gate, memory, met>>
      /\ ChatTypes /\ HistOK
  BY DEF AssistantTurn, ChatIInv
<1>2. Under(q) /\ ProcOf[q] \in Procs /\ chat[q].session \in Sessions
  BY <1>1, ChatterLaw, ChatAssumption DEF Under, Chatters
<1>3. PICK h, s : h = sessions[ProcOf[q]][s] /\ s = chat[q].session
  OBVIOUS
<1>4. h \in Seq(Turns)
  BY <1>1, <1>2, <1>3 DEF ChatTypes
<1>5. PICK t : t = <<"assistant", q>>
  OBVIOUS
<1>6. t \in Turns /\ t[1] # "user"
  BY <1>5 DEF Turns
<1>7. PICK k : k = Append(h, t)
  OBVIOUS
<1>8. /\ k \in Seq(Turns) /\ Len(k) = Len(h) + 1 /\ Len(h) \in Nat
      /\ k[Len(h) + 1] = t /\ \A i \in 1..Len(h) : k[i] = h[i]
  BY <1>4, <1>6, <1>7
<1>9. sessions' = [sessions EXCEPT ![ProcOf[q]][s] = k]
  <2>1. sessions \in [Procs -> [Sessions -> Seq(Turns)]]
    BY <1>1 DEF ChatTypes
  <2> QED
    BY <1>2, <1>3, <1>5, <1>7, <2>1 DEF AssistantTurn
<1>10. PICK x : Moves(q, x) /\ x.pc = "restore"
  <2>1. "restore" \in Pcs
    BY DEF Pcs
  <2> QED
    BY <1>1, <1>2, <2>1, GoLaw
<1>11. Asked(k) = Asked(h)
  <2>1. ASSUME NEW i \in Asked(k) PROVE i \in Asked(h)
    <3>1. i \in 1..(Len(h) + 1) /\ k[i][1] = "user"
      BY <1>8, <2>1 DEF Asked
    <3>2. i # Len(h) + 1
      BY <1>6, <1>8, <3>1
    <3>3. i \in 1..Len(h)
      BY <1>8, <3>1, <3>2
    <3> QED
      BY <1>8, <3>1, <3>3 DEF Asked
  <2>2. ASSUME NEW i \in Asked(h) PROVE i \in Asked(k)
    <3>1. i \in 1..Len(h) /\ h[i][1] = "user"
      BY <2>2 DEF Asked
    <3>2. i \in 1..Len(k)
      BY <1>8, <3>1
    <3> QED
      BY <1>8, <3>1, <3>2 DEF Asked
  <2> QED
    BY <2>1, <2>2
<1>12. PICK P, Q : P = Pending(ProcOf[q], s) /\ Q = Pending(ProcOf[q], s)'
  OBVIOUS
<1>13. q \in P /\ Q \subseteq P \ {q}
  <2>1. q \in P
    BY <1>1, <1>3, <1>12 DEF Pending, Waiting
  <2>2. ASSUME NEW r \in Q PROVE r \in P /\ r # q
    <3>1. chat'[q].pc = "restore" /\ \A u \in Chats : u # q => chat'[u] = chat[u]
      BY <1>1, <1>10, MovesLaw
    <3> QED
      BY <1>12, <2>2, <3>1 DEF Pending, Waiting
  <2> QED
    BY <2>1, <2>2
<1>14. PICK c, d : c = Cardinality(P) /\ d = Cardinality(Q)
  OBVIOUS
<1>15. c \in Nat /\ d \in Nat /\ d + 1 <= c
  <2>1. IsFiniteSet(P) /\ c \in Nat
    BY <1>12, <1>14, Counted
  <2>2. IsFiniteSet(P \ {q}) /\ Cardinality(P \ {q}) = c - 1
    BY <1>13, <1>14, <2>1, FS_RemoveElement
  <2>3. PICK e : e = Cardinality(P \ {q})
    OBVIOUS
  <2>4. d <= e /\ d \in Nat /\ e \in Nat
    BY <1>13, <1>14, <2>2, <2>3, FS_Subset, FS_CardinalityType
  <2> QED
    BY <2>1, <2>2, <2>3, <2>4
<1>16. PICK m : m = Cardinality(Served(ProcOf[q]))
  OBVIOUS
<1>17. m \in Nat /\ MaxHistory \in Nat
  BY <1>16, Counted, Halved
<1>18. /\ \A i \in Asked(h) : i <= MaxHistory
       /\ Asked(h) # {} => Len(h) + c <= MaxHistory + m
  BY <1>1, <1>2, <1>3, <1>12, <1>14, <1>16 DEF HistOK
<1>19. Asked(k) # {} => Len(k) + d <= MaxHistory + m
  BY <1>8, <1>11, <1>15, <1>17, <1>18
<1>20. HistOK'
  BY <1>1, <1>3, <1>9, <1>10, <1>11, <1>12, <1>14, <1>16, <1>18, <1>19, HistStep
<1>21. sessions' \in [Procs -> [Sessions -> Seq(Turns)]]
  BY <1>1, <1>2, <1>3, <1>8, <1>9, SessionsTyped
<1> QED
  BY <1>1, <1>20, <1>21, TurnKeeps

\* A step of Remember or ContextPrompt leaves the gates and the histories.
LEMMA MemoryStep ==
    ASSUME ChatIInv, NEW q \in Chats, NEW x, Moves(q, x), UNCHANGED <<gate, sessions, met>>,
           x.ran = chat[q].ran, x.refused = chat[q].refused, x.pc # "bind", chat[q].pc # "bind",
           Waiting(chat[q]),
           mutex' \in [Procs -> Chats \cup {Nobody}], flock' \in Chats \cup {Nobody},
           file' = Torn \/ file' \in Seq(Chats), told' \in Seq(Chats),
           LocksOK', MemOK'
    PROVE  ChatIInv'
<1>1. ChatTypes /\ ScopeOK /\ HistOK
  BY DEF ChatIInv
<1>2. ChatTypes'
  BY <1>1, MovesLaw DEF ChatTypes
<1>3. ScopeOK'
  BY <1>1, ScopeKept
<1>4. HistOK'
  <2>1. \A r \in Chats : Waiting(chat'[r]) => Waiting(chat[r]) /\ chat'[r].session = chat[r].session
    BY <1>1, MovesLaw DEF Moves
  <2> QED
    BY <1>1, <2>1, HistKept
<1> QED
  BY <1>2, <1>3, <1>4 DEF ChatIInv

\* Who holds the lock of the file is the only one that reads or writes it.
LEMMA OneWriter ==
    ASSUME ChatIInv, NEW q \in Chats, chat[q].pc \in {"read", "open", "write", "recall"}
    PROVE  /\ flock = q /\ mutex[ProcOf[q]] = q
           /\ \A r \in Chats : r # q => chat[r].pc \notin {"read", "open", "write", "recall"}
BY DEF ChatIInv, LocksOK, Locked

\* The mutex is taken.
LEMMA MutexInv == ASSUME ChatIInv, NEW q \in Chats, Mutex(q) PROVE ChatIInv'
<1>1. /\ chat[q].pc \in {"mutex", "mutex2"} /\ mutex[ProcOf[q]] = Nobody
      /\ mutex' = [mutex EXCEPT ![ProcOf[q]] = q] /\ UNCHANGED <<gate, sessions, flock, file, told, met>>
      /\ ChatTypes /\ LocksOK /\ MemOK
  BY DEF Mutex, ChatIInv
<1>2. PICK x : /\ Moves(q, x) /\ x.pc \in {"flock", "flock2"}
               /\ x.ran = chat[q].ran /\ x.refused = chat[q].refused
  <2>1. PICK pc : pc = IF chat[q].pc = "mutex" THEN "flock" ELSE "flock2"
    OBVIOUS
  <2>2. Go(q, pc) /\ pc \in Pcs /\ Under(q) /\ pc \in {"flock", "flock2"}
    BY <1>1, <2>1 DEF Mutex, Under, Pcs, Locked
  <2> QED
    BY <1>1, <2>2, GoLaw
<1>3. /\ chat'[q] = x /\ \A r \in Chats : r # q => chat'[r] = chat[r]
      /\ ProcOf[q] \in Procs
  BY <1>1, <1>2, MovesLaw
<1>4. /\ mutex' \in [Procs -> Chats \cup {Nobody}] /\ mutex'[ProcOf[q]] = q
      /\ \A p \in Procs : p # ProcOf[q] => mutex'[p] = mutex[p]
  BY <1>1, <1>3 DEF ChatTypes
<1>5. x.pc \in Locked /\ chat[q].pc \notin Locked
  BY <1>1, <1>2 DEF Locked
<1>6. LocksOK'
  <2> SUFFICES ASSUME NEW r \in Chats
               PROVE  /\ mutex'[ProcOf[r]] = r <=> chat'[r].pc \in Locked
                      /\ flock' = r <=> chat'[r].pc \in {"read", "open", "write", "recall"}
    BY DEF LocksOK
  <2>1. /\ mutex[ProcOf[r]] = r <=> chat[r].pc \in Locked
        /\ flock = r <=> chat[r].pc \in {"read", "open", "write", "recall"}
    BY <1>1 DEF LocksOK
  <2>2. CASE r = q
    BY <1>1, <1>2, <1>3, <1>4, <1>5, <2>1, <2>2
  <2>3. CASE r # q
    <3>1. Nobody # r /\ ProcOf[r] \in Procs
      BY ChatAssumption DEF Nobody
    <3> QED
      BY <1>1, <1>3, <1>4, <2>1, <2>3, <3>1
  <2> QED
    BY <2>2, <2>3
<1>7. MemOK'
  BY <1>1, <1>2, MemKept
<1>8. Waiting(chat[q]) /\ chat[q].pc # "bind" /\ x.pc # "bind"
  BY <1>1, <1>2 DEF Waiting
<1>9. flock' \in Chats \cup {Nobody} /\ (file' = Torn \/ file' \in Seq(Chats)) /\ told' \in Seq(Chats)
  BY <1>1 DEF ChatTypes
<1> QED
  BY <1>1, <1>2, <1>4, <1>6, <1>7, <1>8, <1>9, MemoryStep

\* The lock of the file is taken.
LEMMA FlockInv == ASSUME ChatIInv, NEW q \in Chats, Flock(q) PROVE ChatIInv'
<1>1. /\ chat[q].pc \in {"flock", "flock2"} /\ flock = Nobody /\ flock' = q
      /\ UNCHANGED <<gate, sessions, mutex, file, told, met>>
      /\ ChatTypes /\ LocksOK /\ MemOK
  BY DEF Flock, ChatIInv
<1>2. PICK x : /\ Moves(q, x) /\ x.pc \in {"read", "recall"}
               /\ x.ran = chat[q].ran /\ x.refused = chat[q].refused
  <2>1. PICK pc : pc = IF chat[q].pc = "flock" THEN "read" ELSE "recall"
    OBVIOUS
  <2>2. Go(q, pc) /\ pc \in Pcs /\ Under(q) /\ pc \in {"read", "recall"}
    BY <1>1, <2>1 DEF Flock, Under, Pcs, Locked
  <2> QED
    BY <1>1, <2>2, GoLaw
<1>3. chat'[q] = x /\ \A r \in Chats : r # q => chat'[r] = chat[r]
  BY <1>1, <1>2, MovesLaw
<1>4. x.pc \in Locked /\ chat[q].pc \in Locked
  BY <1>1, <1>2 DEF Locked
<1>5. LocksOK'
  <2> SUFFICES ASSUME NEW r \in Chats
               PROVE  /\ mutex'[ProcOf[r]] = r <=> chat'[r].pc \in Locked
                      /\ flock' = r <=> chat'[r].pc \in {"read", "open", "write", "recall"}
    BY DEF LocksOK
  <2>1. /\ mutex[ProcOf[r]] = r <=> chat[r].pc \in Locked
        /\ flock = r <=> chat[r].pc \in {"read", "open", "write", "recall"}
    BY <1>1 DEF LocksOK
  <2>2. CASE r = q
    BY <1>1, <1>2, <1>3, <1>4, <2>1, <2>2
  <2>3. CASE r # q
    <3>1. Nobody # r
      BY ChatAssumption DEF Nobody
    <3> QED
      BY <1>1, <1>3, <2>1, <2>3, <3>1
  <2> QED
    BY <2>2, <2>3
<1>6. MemOK'
  BY <1>1, <1>2, MemKept
<1>7. Waiting(chat[q]) /\ chat[q].pc # "bind" /\ x.pc # "bind"
  BY <1>1, <1>2 DEF Waiting
<1>8. /\ mutex' \in [Procs -> Chats \cup {Nobody}] /\ flock' \in Chats \cup {Nobody}
      /\ (file' = Torn \/ file' \in Seq(Chats)) /\ told' \in Seq(Chats)
  BY <1>1 DEF ChatTypes
<1> QED
  BY <1>1, <1>2, <1>5, <1>6, <1>7, <1>8, MemoryStep

\* Nobody is called torn.
LEMMA NotTorn == ASSUME NEW s \in Seq(Chats) PROVE s # Torn
<1> SUFFICES ASSUME s = Torn PROVE FALSE
  OBVIOUS
<1>1. Len(s) = 1 /\ s[1] = "torn"
  BY DEF Torn
<1>2. s[1] \in Chats
  BY <1>1
<1> QED
  BY <1>1, <1>2, ChatAssumption

\* What will be written is what was told and the new entry.
LEMMA LoadInv == ASSUME ChatIInv, NEW q \in Chats, Load(q) PROVE ChatIInv'
<1>1. /\ chat[q].pc = "read" /\ UNCHANGED <<gate, sessions, mutex, flock, file, told, met>>
      /\ ChatTypes /\ LocksOK /\ MemOK
  BY DEF Load, ChatIInv, memory
<1>2. Under(q) /\ chat[q] \in Chatters
  BY <1>1, ChatterLaw DEF Under
<1>3. PICK e : e = IF file = Torn THEN <<>> ELSE file
  OBVIOUS
<1>4. e = told
  <2>1. \A r \in Chats : chat[r].pc # "write"
    BY <1>1, OneWriter
  <2>2. file = told \/ (file = Torn /\ told = << >>)
    BY <1>1, <2>1 DEF MemOK
  <2>3. told # Torn
    BY <1>1, NotTorn DEF ChatTypes
  <2> QED
    BY <1>3, <2>2, <2>3
<1>5. PICK l : l = LastOf(Append(told, q), MaxMemory)
  OBVIOUS
<1>6. l \in Seq(Chats)
  <2>1. Append(told, q) \in Seq(Chats) /\ MaxMemory \in Nat
    BY <1>1, ChatAssumption DEF ChatTypes
  <2> QED
    BY <1>5, <2>1, LastOfLaw
<1>7. PICK x : x = [chat[q] EXCEPT !.pc = "open", !.load = l]
  OBVIOUS
<1>8. /\ x \in Chatters /\ x.pc = "open" /\ x.load = l /\ x.session = chat[q].session
      /\ x.old = chat[q].old /\ x.ran = chat[q].ran /\ x.refused = chat[q].refused
  <2>1. PICK W : W = Seq(Chats)
    OBVIOUS
  <2>2. "open" \in Pcs /\ l \in W
    BY <1>6, <2>1 DEF Pcs, Locked
  <2> QED
    BY <1>2, <1>7, <2>1, <2>2 DEF Chatters
<1>9. chat' = [chat EXCEPT ![q] = x]
  <2>1. chat' = [chat EXCEPT ![q].pc = "open", ![q].load = l]
    BY <1>3, <1>4, <1>5 DEF Load
  <2> QED
    BY <1>1, <1>2, <1>7, <2>1 DEF ChatTypes
<1>10. Moves(q, x)
  BY <1>2, <1>8, <1>9 DEF Moves
<1>11. chat'[q] = x /\ \A r \in Chats : r # q => chat'[r] = chat[r]
  BY <1>1, <1>10, MovesLaw
<1>12. x.pc \in Locked /\ chat[q].pc \in Locked
  BY <1>1, <1>8 DEF Locked
<1>13. LocksOK'
  BY <1>1, <1>8, <1>10, <1>12, LocksKept
<1>14. MemOK'
  <2>1. \A r \in Chats : r # q => chat'[r].pc \notin {"open", "write"}
    BY <1>1, <1>11, OneWriter
  <2>2. \A r \in Chats : chat[r].pc # "write"
    BY <1>1, OneWriter
  <2> QED
    BY <1>1, <1>5, <1>8, <1>11, <2>1, <2>2 DEF MemOK
<1>15. Waiting(chat[q])
  BY <1>1 DEF Waiting
<1>16. /\ mutex' \in [Procs -> Chats \cup {Nobody}] /\ flock' \in Chats \cup {Nobody}
       /\ (file' = Torn \/ file' \in Seq(Chats)) /\ told' \in Seq(Chats)
  BY <1>1 DEF ChatTypes
<1> QED
  BY <1>1, <1>8, <1>10, <1>13, <1>14, <1>15, <1>16, MemoryStep

\* The file is torn while it is written.
LEMMA TruncateInv == ASSUME ChatIInv, NEW q \in Chats, Truncate(q) PROVE ChatIInv'
<1>1. /\ chat[q].pc = "open" /\ file' = Torn /\ UNCHANGED <<gate, sessions, mutex, flock, told, met>>
      /\ ChatTypes /\ LocksOK /\ MemOK
  BY DEF Truncate, ChatIInv
<1>2. PICK x : /\ Moves(q, x) /\ x.pc = "write" /\ x.load = chat[q].load
               /\ x.ran = chat[q].ran /\ x.refused = chat[q].refused
  <2>1. Go(q, "write") /\ "write" \in Pcs /\ Under(q)
    BY <1>1 DEF Truncate, Under, Pcs, Locked
  <2> QED
    BY <1>1, <2>1, GoLaw
<1>3. chat'[q] = x /\ \A r \in Chats : r # q => chat'[r] = chat[r]
  BY <1>1, <1>2, MovesLaw
<1>4. x.pc \in Locked /\ chat[q].pc \in Locked
  BY <1>1, <1>2 DEF Locked
<1>5. LocksOK'
  BY <1>1, <1>2, <1>4, LocksKept
<1>6. MemOK'
  <2>1. \A r \in Chats : r # q => chat'[r].pc \notin {"open", "write"}
    BY <1>1, <1>3, OneWriter
  <2>2. chat[q].load = LastOf(Append(told, q), MaxMemory)
    BY <1>1 DEF MemOK
  <2> QED
    BY <1>1, <1>2, <1>3, <2>1, <2>2 DEF MemOK
<1>7. Waiting(chat[q])
  BY <1>1 DEF Waiting
<1>8. /\ mutex' \in [Procs -> Chats \cup {Nobody}] /\ flock' \in Chats \cup {Nobody}
      /\ told' \in Seq(Chats)
  BY <1>1 DEF ChatTypes
<1> QED
  BY <1>1, <1>2, <1>5, <1>6, <1>7, <1>8, MemoryStep

\* Both locks are given back by who has them.
LEMMA ReleaseLaw ==
    ASSUME ChatIInv, NEW q \in Chats, chat[q].pc \in {"write", "recall"}, Release(q),
           NEW pc, pc \in {"mutex2", "decide"}, Go(q, pc)
    PROVE  /\ mutex' \in [Procs -> Chats \cup {Nobody}] /\ flock' \in Chats \cup {Nobody} /\ LocksOK'
           /\ \A r \in Chats : r # q => chat'[r] = chat[r]
           /\ \E x : Moves(q, x) /\ chat'[q] = x /\ x.pc = pc
                     /\ x.ran = chat[q].ran /\ x.refused = chat[q].refused
<1>1. /\ flock = q /\ mutex[ProcOf[q]] = q /\ ChatTypes /\ LocksOK
      /\ \A r \in Chats : r # q => chat[r].pc \notin {"read", "open", "write", "recall"}
  BY OneWriter DEF ChatIInv
<1>2. flock' = Nobody /\ mutex' = [mutex EXCEPT ![ProcOf[q]] = Nobody] /\ ProcOf[q] \in Procs
  BY <1>1, ChatAssumption DEF Release
<1>3. /\ mutex' \in [Procs -> Chats \cup {Nobody}] /\ mutex'[ProcOf[q]] = Nobody
      /\ \A p \in Procs : p # ProcOf[q] => mutex'[p] = mutex[p]
  BY <1>1, <1>2 DEF ChatTypes
<1>4. PICK x : Moves(q, x) /\ x.pc = pc /\ x.ran = chat[q].ran /\ x.refused = chat[q].refused
  <2>1. pc \in Pcs /\ Under(q)
    BY DEF Under, Pcs, Locked
  <2> QED
    BY <1>1, <2>1, GoLaw
<1>5. chat'[q] = x /\ \A r \in Chats : r # q => chat'[r] = chat[r]
  BY <1>1, <1>4, MovesLaw
<1>6. x.pc \notin Locked /\ x.pc \notin {"read", "open", "write", "recall"}
  BY <1>4 DEF Locked
<1>7. LocksOK'
  <2> SUFFICES ASSUME NEW r \in Chats
               PROVE  /\ mutex'[ProcOf[r]] = r <=> chat'[r].pc \in Locked
                      /\ flock' = r <=> chat'[r].pc \in {"read", "open", "write", "recall"}
    BY DEF LocksOK
  <2>1. /\ mutex[ProcOf[r]] = r <=> chat[r].pc \in Locked
        /\ flock = r <=> chat[r].pc \in {"read", "open", "write", "recall"}
    BY <1>1 DEF LocksOK
  <2>2. Nobody # r /\ ProcOf[r] \in Procs
    BY ChatAssumption DEF Nobody
  <2>3. CASE r = q
    BY <1>2, <1>3, <1>5, <1>6, <2>2, <2>3
  <2>4. CASE r # q
    <3>1. CASE ProcOf[r] = ProcOf[q]
      BY <1>1, <1>2, <1>3, <1>5, <2>1, <2>2, <2>4, <3>1
    <3>2. CASE ProcOf[r] # ProcOf[q]
      BY <1>1, <1>2, <1>3, <1>5, <2>1, <2>2, <2>4, <3>2
    <3> QED
      BY <3>1, <3>2
  <2> QED
    BY <2>3, <2>4
<1> QED
  BY <1>2, <1>3, <1>4, <1>5, <1>7

\* The file is what was told once more.
LEMMA WrittenInv == ASSUME ChatIInv, NEW q \in Chats, Written(q) PROVE ChatIInv'
<1>1. /\ chat[q].pc = "write" /\ file' = chat[q].load /\ told' = LastOf(Append(told, q), MaxMemory)
      /\ Release(q) /\ Go(q, "mutex2") /\ UNCHANGED <<gate, sessions, met>>
      /\ ChatTypes /\ MemOK
  BY DEF Written, ChatIInv
<1>2. PICK x : /\ Moves(q, x) /\ chat'[q] = x /\ x.pc = "mutex2"
               /\ x.ran = chat[q].ran /\ x.refused = chat[q].refused
  BY <1>1, ReleaseLaw
<1>3. /\ mutex' \in [Procs -> Chats \cup {Nobody}] /\ flock' \in Chats \cup {Nobody} /\ LocksOK'
      /\ \A r \in Chats : r # q => chat'[r] = chat[r]
  BY <1>1, ReleaseLaw
<1>4. file' = told' /\ told' \in Seq(Chats)
  <2>1. chat[q].load = told'
    BY <1>1 DEF MemOK
  <2>2. Append(told, q) \in Seq(Chats) /\ MaxMemory \in Nat
    BY <1>1, ChatAssumption DEF ChatTypes
  <2> QED
    BY <1>1, <2>1, <2>2, LastOfLaw
<1>5. MemOK'
  <2>1. \A r \in Chats : chat'[r].pc \notin {"open", "write"}
    BY <1>1, <1>2, <1>3, OneWriter
  <2> QED
    BY <1>4, <2>1 DEF MemOK
<1>6. Waiting(chat[q])
  BY <1>1 DEF Waiting
<1> QED
  BY <1>1, <1>2, <1>3, <1>4, <1>5, <1>6, MemoryStep

\* A write that is cut short leaves a file that counts as no entries.
LEMMA WriteFailsInv == ASSUME ChatIInv, NEW q \in Chats, WriteFails(q) PROVE ChatIInv'
<1>1. /\ chat[q].pc = "write" /\ file' = file /\ told' = << >>
      /\ Release(q) /\ Go(q, "mutex2") /\ UNCHANGED <<gate, sessions, met>>
      /\ ChatTypes /\ MemOK
  BY DEF WriteFails, ChatIInv
<1>2. PICK x : /\ Moves(q, x) /\ chat'[q] = x /\ x.pc = "mutex2"
               /\ x.ran = chat[q].ran /\ x.refused = chat[q].refused
  BY <1>1, ReleaseLaw
<1>3. /\ mutex' \in [Procs -> Chats \cup {Nobody}] /\ flock' \in Chats \cup {Nobody} /\ LocksOK'
      /\ \A r \in Chats : r # q => chat'[r] = chat[r]
  BY <1>1, ReleaseLaw
<1>4. file' = Torn /\ told' \in Seq(Chats)
  BY <1>1 DEF MemOK
<1>5. MemOK'
  <2>1. \A r \in Chats : chat'[r].pc \notin {"open", "write"}
    BY <1>1, <1>2, <1>3, OneWriter
  <2> QED
    BY <1>1, <1>4, <2>1 DEF MemOK
<1>6. Waiting(chat[q])
  BY <1>1 DEF Waiting
<1> QED
  BY <1>1, <1>2, <1>3, <1>4, <1>5, <1>6, MemoryStep

\* The prompt is built from the file, and the locks are given back.
LEMMA RecallInv == ASSUME ChatIInv, NEW q \in Chats, Recall(q) PROVE ChatIInv'
<1>1. /\ chat[q].pc = "recall" /\ UNCHANGED <<file, told>>
      /\ Release(q) /\ Go(q, "decide") /\ UNCHANGED <<gate, sessions, met>>
      /\ ChatTypes /\ MemOK
  BY DEF Recall, ChatIInv
<1>2. PICK x : /\ Moves(q, x) /\ chat'[q] = x /\ x.pc = "decide"
               /\ x.ran = chat[q].ran /\ x.refused = chat[q].refused
  BY <1>1, ReleaseLaw
<1>3. /\ mutex' \in [Procs -> Chats \cup {Nobody}] /\ flock' \in Chats \cup {Nobody} /\ LocksOK'
  BY <1>1, ReleaseLaw
<1>4. MemOK'
  BY <1>1, <1>2, MemKept
<1>5. Waiting(chat[q])
  BY <1>1 DEF Waiting
<1>6. (file' = Torn \/ file' \in Seq(Chats)) /\ told' \in Seq(Chats)
  BY <1>1 DEF ChatTypes
<1> QED
  BY <1>1, <1>2, <1>3, <1>4, <1>5, <1>6, MemoryStep

\* The loop drops the sessions of a process.
LEMMA WipeInv == ASSUME ChatIInv, NEW p0 \in Procs, Wipe(p0) PROVE ChatIInv'
<1>1. /\ sessions' = [sessions EXCEPT ![p0] = NoTurns]
      /\ UNCHANGED <<gate, mutex, flock, file, told, chat, met>>
      /\ ChatTypes /\ LocksOK /\ MemOK /\ ScopeOK /\ HistOK
  BY DEF Wipe, ChatIInv, memory
<1>2. PICK W : W = Seq(Turns)
  OBVIOUS
<1>3. NoTurns \in [Sessions -> W] /\ \A s \in Sessions : NoTurns[s] = << >>
  BY <1>2 DEF NoTurns
<1>4. /\ sessions' \in [Procs -> [Sessions -> W]] /\ sessions'[p0] = NoTurns
      /\ \A p \in Procs : p # p0 => sessions'[p] = sessions[p]
  BY <1>1, <1>2, <1>3 DEF ChatTypes
<1>5. ChatTypes'
  BY <1>1, <1>2, <1>4 DEF ChatTypes
<1>6. LocksOK' /\ MemOK'
  BY <1>1 DEF LocksOK, MemOK
<1>7. ScopeOK'
  BY <1>1 DEF ScopeOK, Under
<1>8. HistOK'
  <2>1. Asked(<< >>) = {}
    BY DEF Asked
  <2>2. \A p, s : Pending(p, s)' = Pending(p, s)
    BY <1>1 DEF Pending
  <2>3. ASSUME NEW p \in Procs, NEW s \in Sessions
        PROVE  \/ sessions'[p][s] = sessions[p][s]
               \/ Asked(sessions'[p][s]) = {}
    BY <1>3, <1>4, <2>1
  <2>4. ASSUME NEW p \in Procs, NEW s \in Sessions
        PROVE  /\ \A i \in Asked(sessions'[p][s]) : i <= MaxHistory
               /\ Asked(sessions'[p][s]) # {} =>
                    Len(sessions'[p][s]) + Cardinality(Pending(p, s)') <= MaxHistory + Cardinality(Served(p))
    BY <1>1, <2>2, <2>3 DEF HistOK
  <2> QED
    BY <2>4 DEF HistOK, Served, Asked
<1> QED
  BY <1>5, <1>6, <1>7, <1>8 DEF ChatIInv

\* A process starts again: its chats are gone, and so is what they held.
LEMMA CrashInv == ASSUME ChatIInv, NEW p0 \in Procs, Crash(p0) PROVE ChatIInv'
<1>1. /\ gate' = [gate EXCEPT ![p0] = Nobody] /\ sessions' = [sessions EXCEPT ![p0] = NoTurns]
      /\ mutex' = [mutex EXCEPT ![p0] = Nobody]
      /\ flock' = IF flock # Nobody /\ ProcOf[flock] = p0 THEN Nobody ELSE flock
      /\ chat' = [q \in Chats |-> IF ProcOf[q] = p0 THEN Idle ELSE chat[q]]
      /\ met' = met \ {p0} /\ file' = file
      /\ told' = IF \E q \in Chats : ProcOf[q] = p0 /\ chat[q].pc = "write" THEN <<>> ELSE told
      /\ ChatTypes /\ LocksOK /\ MemOK /\ ScopeOK /\ HistOK
  BY DEF Crash, ChatIInv
<1>2. PICK W : W = Seq(Turns)
  OBVIOUS
<1>3. NoTurns \in [Sessions -> W] /\ \A s \in Sessions : NoTurns[s] = << >>
  BY <1>2 DEF NoTurns
<1>4. /\ sessions' \in [Procs -> [Sessions -> W]] /\ sessions'[p0] = NoTurns
      /\ \A p \in Procs : p # p0 => sessions'[p] = sessions[p]
  BY <1>1, <1>2, <1>3 DEF ChatTypes
<1>5. /\ gate' \in [Procs -> Chats \cup {Nobody}] /\ mutex' \in [Procs -> Chats \cup {Nobody}]
      /\ gate'[p0] = Nobody /\ mutex'[p0] = Nobody
      /\ \A p \in Procs : p # p0 => gate'[p] = gate[p] /\ mutex'[p] = mutex[p]
  BY <1>1 DEF ChatTypes
<1>6. /\ \A r \in Chats : chat'[r] = IF ProcOf[r] = p0 THEN Idle ELSE chat[r]
      /\ chat' \in [Chats -> Chatters \cup {Idle}] /\ Idle.pc = "idle"
  BY <1>1 DEF ChatTypes, Idle
<1>7. ChatTypes'
  <2>1. flock' \in Chats \cup {Nobody} /\ told' \in Seq(Chats)
    BY <1>1 DEF ChatTypes
  <2> QED
    BY <1>1, <1>2, <1>4, <1>5, <1>6, <2>1 DEF ChatTypes
<1>8. LocksOK'
  <2> SUFFICES ASSUME NEW r \in Chats
               PROVE  /\ mutex'[ProcOf[r]] = r <=> chat'[r].pc \in Locked
                      /\ flock' = r <=> chat'[r].pc \in {"read", "open", "write", "recall"}
    BY DEF LocksOK
  <2>1. /\ mutex[ProcOf[r]] = r <=> chat[r].pc \in Locked
        /\ flock = r <=> chat[r].pc \in {"read", "open", "write", "recall"}
    BY <1>1 DEF LocksOK
  <2>2. Nobody # r /\ ProcOf[r] \in Procs
    BY ChatAssumption DEF Nobody
  <2>3. "idle" \notin Locked
    BY DEF Locked
  <2>4. CASE ProcOf[r] = p0
    BY <1>1, <1>5, <1>6, <2>2, <2>3, <2>4
  <2>5. CASE ProcOf[r] # p0
    BY <1>1, <1>5, <1>6, <2>1, <2>2, <2>5
  <2> QED
    BY <2>4, <2>5
<1>9. MemOK'
  <2>1. ASSUME NEW w \in Chats, ProcOf[w] = p0, chat[w].pc = "write" PROVE MemOK'
    <3>1. file' = Torn /\ told' = << >>
      BY <1>1, <2>1 DEF MemOK
    <3>2. \A r \in Chats : chat'[r].pc \notin {"open", "write"}
      BY <1>6, <2>1, OneWriter
    <3> QED
      BY <3>1, <3>2 DEF MemOK
  <2>2. ASSUME \A w \in Chats : ~(ProcOf[w] = p0 /\ chat[w].pc = "write") PROVE MemOK'
    <3>1. told' = told
      BY <1>1, <2>2
    <3>2. (\A r \in Chats : chat'[r].pc # "write") => \A r \in Chats : chat[r].pc # "write"
      BY <1>6, <2>2
    <3>3. \A r \in Chats : chat'[r].pc \in {"open", "write"} => chat'[r] = chat[r]
      BY <1>6
    <3> QED
      BY <1>1, <3>1, <3>2, <3>3 DEF MemOK
  <2> QED
    BY <2>1, <2>2
<1>10. \A r \in Chats : Under(r)' <=> Under(r) /\ ProcOf[r] # p0
  BY <1>6 DEF Under
<1>11. \A r \in Chats : ProcOf[r] \in Procs /\ r # p0
  BY ChatAssumption
<1>12. ScopeOK'
  <2>1. ASSUME NEW r \in Chats, NEW t \in Chats, r # t, ProcOf[r] = ProcOf[t], Under(r)', Under(t)'
        PROVE  r \in met' /\ ProcOf[r] \in met'
    BY <1>1, <1>10, <1>11, <2>1 DEF ScopeOK
  <2>2. ASSUME NEW r \in Chats, r \notin met', Under(r)'
        PROVE  /\ chat'[r].ran \subseteq ScopeOf[r] /\ chat'[r].refused \cap ScopeOf[r] = {}
               /\ chat'[r].pc # "bind" => gate'[ProcOf[r]] = r
    <3>1. ProcOf[r] # p0 /\ Under(r) /\ r \notin met /\ ProcOf[r] \in Procs
      BY <1>1, <1>10, <1>11, <2>2
    <3> QED
      BY <1>1, <1>5, <1>6, <3>1 DEF ScopeOK
  <2>3. ASSUME NEW r \in Chats, Under(r)', ProcOf[r] \notin met' PROVE chat'[r].old = Nobody
    <3>1. ProcOf[r] # p0 /\ Under(r) /\ ProcOf[r] \notin met
      BY <1>1, <1>10, <2>3
    <3> QED
      BY <1>1, <1>6, <3>1 DEF ScopeOK
  <2>4. ASSUME NEW p \in Procs, p \notin met', \A r \in Chats : ProcOf[r] = p => ~Under(r)'
        PROVE  gate'[p] = Nobody
    <3>1. CASE p = p0
      BY <1>5, <3>1
    <3>2. CASE p # p0
      BY <1>1, <1>5, <1>10, <2>4, <3>2 DEF ScopeOK
    <3> QED
      BY <3>1, <3>2
  <2> QED
    BY <2>1, <2>2, <2>3, <2>4 DEF ScopeOK
<1>13. HistOK'
  <2>1. Asked(<< >>) = {}
    BY DEF Asked
  <2>2. ASSUME NEW p \in Procs, NEW s \in Sessions, p # p0 PROVE Pending(p, s)' = Pending(p, s)
    BY <1>6, <2>2 DEF Pending
  <2>3. ASSUME NEW p \in Procs, NEW s \in Sessions
        PROVE  \/ sessions'[p][s] = sessions[p][s] /\ Pending(p, s)' = Pending(p, s)
               \/ Asked(sessions'[p][s]) = {}
    <3>1. CASE p = p0
      BY <1>3, <1>4, <2>1, <3>1
    <3>2. CASE p # p0
      BY <1>4, <2>2, <3>2
    <3> QED
      BY <3>1, <3>2
  <2>4. ASSUME NEW p \in Procs, NEW s \in Sessions
        PROVE  /\ \A i \in Asked(sessions'[p][s]) : i <= MaxHistory
               /\ Asked(sessions'[p][s]) # {} =>
                    Len(sessions'[p][s]) + Cardinality(Pending(p, s)') <= MaxHistory + Cardinality(Served(p))
    BY <1>1, <2>3 DEF HistOK
  <2> QED
    BY <2>4 DEF HistOK, Served, Asked
<1> QED
  BY <1>7, <1>8, <1>9, <1>12, <1>13 DEF ChatIInv

\* The invariant holds before the first chat.
LEMMA ChatStart == Init => ChatIInv
<1> SUFFICES ASSUME Init PROVE ChatIInv
  OBVIOUS
<1>1. /\ gate = [p \in Procs |-> Nobody] /\ sessions = [p \in Procs |-> NoTurns]
      /\ mutex = [p \in Procs |-> Nobody] /\ flock = Nobody /\ file = <<>> /\ told = <<>>
      /\ chat = [q \in Chats |-> Idle] /\ met = {}
  BY DEF Init
<1>2. \A q \in Chats : chat[q] = Idle /\ chat[q].pc = "idle" /\ ~Under(q) /\ Nobody # q
  BY <1>1, ChatAssumption DEF Idle, Under, Nobody
<1>3. ChatTypes
  <2>1. PICK W : W = Seq(Turns)
    OBVIOUS
  <2>2. NoTurns \in [Sessions -> W]
    BY <2>1 DEF NoTurns
  <2>3. sessions \in [Procs -> [Sessions -> W]]
    BY <1>1, <2>2
  <2>4. gate \in [Procs -> Chats \cup {Nobody}] /\ mutex \in [Procs -> Chats \cup {Nobody}]
    BY <1>1
  <2>5. chat \in [Chats -> Chatters \cup {Idle}]
    BY <1>1
  <2> QED
    BY <1>1, <2>1, <2>3, <2>4, <2>5 DEF ChatTypes
<1>4. LocksOK
  <2>1. \A q \in Chats : ProcOf[q] \in Procs /\ mutex[ProcOf[q]] # q /\ flock # q
    BY <1>1, <1>2, ChatAssumption
  <2> QED
    BY <1>2, <2>1 DEF LocksOK, Locked
<1>5. MemOK
  BY <1>1, <1>2 DEF MemOK
<1>6. ScopeOK
  BY <1>1, <1>2 DEF ScopeOK
<1>7. HistOK
  <2>1. \A p \in Procs : \A s \in Sessions : Asked(sessions[p][s]) = {}
    <3>1. \A p \in Procs : \A s \in Sessions : sessions[p][s] = << >>
      BY <1>1 DEF NoTurns
    <3> QED
      BY <3>1 DEF Asked
  <2> QED
    BY <2>1 DEF HistOK
<1> QED
  BY <1>3, <1>4, <1>5, <1>6, <1>7 DEF ChatIInv

\* Every step keeps the invariant.
LEMMA ChatStep == ChatIInv /\ [Next]_vars => ChatIInv'
<1> SUFFICES ASSUME ChatIInv, [Next]_vars PROVE ChatIInv'
  OBVIOUS
<1>1. CASE UNCHANGED vars
  <2>1. UNCHANGED <<gate, sessions, mutex, flock, file, chat, told, met>>
    BY <1>1 DEF vars
  <2>2. ChatTypes' /\ LocksOK' /\ MemOK' /\ ScopeOK'
    BY <2>1 DEF ChatIInv, ChatTypes, LocksOK, MemOK, ScopeOK, Under
  <2>3. HistOK'
    BY <2>1, HistKept DEF ChatIInv
  <2> QED
    BY <2>2, <2>3 DEF ChatIInv
<1>2. ASSUME NEW q \in Chats, Begin(q) PROVE ChatIInv'
  BY <1>2, BeginInv
<1>3. ASSUME NEW q \in Chats, Chatting(q) PROVE ChatIInv'
  BY <1>3, BindInv, UserTurnInv, MutexInv, FlockInv, LoadInv, TruncateInv, WrittenInv, WriteFailsInv,
     RecallInv, ToolsInv, AssistantTurnInv, RestoreInv DEF Chatting
<1>4. ASSUME NEW p \in Procs, Wipe(p) \/ Crash(p) PROVE ChatIInv'
  BY <1>4, WipeInv, CrashInv
<1> QED
  BY <1>1, <1>2, <1>3, <1>4 DEF Next

\* The invariant says what the run checks.
LEMMA ChatEnough == ChatIInv => ChatInv
<1> SUFFICES ASSUME ChatIInv PROVE ChatInv
  OBVIOUS
<1>1. ChatTypes /\ LocksOK /\ MemOK /\ ScopeOK /\ HistOK
  BY DEF ChatIInv
<1>2. TypeOK
  <2>1. \A p \in Procs : \A s \in Sessions : sessions[p][s] \in Seq({"user", "assistant"} \X Chats)
    BY <1>1 DEF ChatTypes, Turns
  <2>2. /\ gate \in [Procs -> Chats \cup {Nobody}]
        /\ file = Torn \/ file \in Seq(Chats)
    BY <1>1 DEF ChatTypes
  <2> QED
    BY <1>1, <2>1, <2>2 DEF TypeOK, LocksOK, Locked
<1>3. AloneOwnScope
  BY <1>1 DEF ScopeOK, AloneOwnScope
<1>4. MemoryKept
  <2> SUFFICES ASSUME flock = Nobody, told # << >> PROVE file = told
    BY DEF MemoryKept
  <2>1. \A q \in Chats : flock # q
    BY ChatAssumption DEF Nobody
  <2>2. \A q \in Chats : chat[q].pc # "write"
    BY <1>1, <2>1 DEF LocksOK
  <2> QED
    BY <1>1, <2>2 DEF MemOK
<1>5. HistoriesHold
  <2> SUFFICES ASSUME NEW p \in Procs, NEW s \in Sessions
               PROVE  /\ \A i \in Asked(sessions[p][s]) : i <= MaxHistory
                      /\ Asked(sessions[p][s]) # {} =>
                           Len(sessions[p][s]) <= MaxHistory + Cardinality(Served(p))
    BY DEF HistoriesHold, Asked, Served
  <2>1. /\ \A i \in Asked(sessions[p][s]) : i <= MaxHistory
        /\ Asked(sessions[p][s]) # {} =>
             Len(sessions[p][s]) + Cardinality(Pending(p, s)) <= MaxHistory + Cardinality(Served(p))
    BY <1>1 DEF HistOK
  <2>2. PICK l \in Nat : l = Len(sessions[p][s])
    <3>1. sessions[p][s] \in Seq(Turns)
      BY <1>1 DEF ChatTypes
    <3> QED
      BY <3>1
  <2>3. PICK c, d : c = Cardinality(Pending(p, s)) /\ d = Cardinality(Served(p))
    OBVIOUS
  <2>4. c \in Nat /\ d \in Nat /\ MaxHistory \in Nat
    BY <2>3, Counted, Halved
  <2> QED
    BY <2>1, <2>2, <2>3, <2>4
<1> QED
  BY <1>2, <1>3, <1>4, <1>5 DEF ChatInv

\* Whatever chats run, meet, crash and are cut short: whoever was alone kept to
\* its scope, the memory keeps what it was told, and the histories hold.
THEOREM ChatInvariance == Spec => []ChatInv
<1>1. Init => ChatIInv
  BY ChatStart
<1>2. ChatIInv /\ [Next]_vars => ChatIInv'
  BY ChatStep
<1>3. ChatIInv => ChatInv
  BY ChatEnough
<1> QED
  BY <1>1, <1>2, <1>3, PTL DEF Spec

-----------------------------------------------------------------------------
(* Requests of MCP clients.                                                  *)

Gates == (McpReqs \X {"caller", "header"}) \cup {NoGate}
Handlers == [pc : {"header", "serve", "wait", "restore", "answer"}, outer : Gates, inner : Gates]
            \cup {McpIdle}
Calls == [pc : {"none", "check", "list", "nl2sql", "nameless", "call", "done"},
          ran : SUBSET McpConns, refused : SUBSET McpConns]

McpTypes == requestGate \in Gates /\ mcp \in [McpReqs -> Handlers] /\ tool \in [McpReqs -> Calls]

\* Two at a time are known to have been together.
Apart == \A r, q \in McpReqs : r # q /\ Busy(r) /\ Busy(q) => {r, q, "server"} \subseteq together

\* The gate g is the one that r's handler h set last, and its tool t has seen no other.
OwnGate(r, h, t, g) ==
    /\ h.pc = "header" => g = <<r, "caller">> /\ t = NoTool
    /\ h.pc = "serve" => g = <<r, "header">> /\ t = NoTool
    /\ h.pc = "wait" =>
         /\ g = <<r, "header">> /\ t.refused \cap HeaderOf[r] = {}
         /\ t.ran \subseteq HeaderOf[r]

\* The gates that r's handler h will put back lead to none.
PutsBack(r, h, t, g) ==
    /\ t.ran \subseteq HeaderOf[r] \cup CallerOf[r]
    /\ h.pc # "idle" => h.outer = NoGate
    /\ h.pc \in {"header", "answer"} => g = <<r, "caller">>
    /\ h.pc \in {"serve", "wait", "restore"} => g = <<r, "header">> /\ h.inner = <<r, "caller">>

AloneServed == \A r \in McpReqs \ together : OwnGate(r, mcp[r], tool[r], requestGate)

ServerAlone ==
    "server" \notin together =>
        /\ (\A r \in McpReqs : mcp[r].pc = "idle") => requestGate = NoGate
        /\ \A r \in McpReqs : PutsBack(r, mcp[r], tool[r], requestGate)

McpIInv == McpTypes /\ Apart /\ AloneServed /\ ServerAlone

\* A step of a request that is busy: only its own part can be disturbed.
LEMMA McpMove ==
    ASSUME McpIInv, NEW r \in McpReqs, Busy(r),
           NEW x \in Handlers, mcp' = [mcp EXCEPT ![r] = x],
           NEW y \in Calls, tool' = [tool EXCEPT ![r] = y],
           together' = together, requestGate' \in Gates,
           r \notin together => OwnGate(r, x, y, requestGate'),
           "server" \notin together => /\ PutsBack(r, x, y, requestGate')
                                       /\ x.pc = "idle" => requestGate' = NoGate
    PROVE  McpIInv'
<1>1. McpTypes /\ Apart /\ AloneServed /\ ServerAlone
  BY DEF McpIInv
<1>2. /\ mcp' \in [McpReqs -> Handlers] /\ tool' \in [McpReqs -> Calls]
      /\ mcp'[r] = x /\ tool'[r] = y
      /\ \A q \in McpReqs : q # r => mcp'[q] = mcp[q] /\ tool'[q] = tool[q]
  BY <1>1 DEF McpTypes
<1>3. McpTypes'
  BY <1>2 DEF McpTypes
<1>4. \A q \in McpReqs : Busy(q)' => Busy(q)
  BY <1>2 DEF Busy
<1>5. Apart'
  BY <1>1, <1>4 DEF Apart
<1>6. AloneServed'
  <2>1. ASSUME NEW q \in McpReqs, q \notin together PROVE OwnGate(q, mcp'[q], tool'[q], requestGate')
    <3>1. CASE q = r
      BY <1>2, <2>1, <3>1
    <3>2. CASE q # r
      <4>1. mcp'[q].pc = "idle"
        BY <1>1, <1>2, <2>1, <3>2 DEF Apart, Busy
      <4> QED
        BY <4>1 DEF OwnGate
    <3> QED
      BY <3>1, <3>2
  <2> QED
    BY <2>1 DEF AloneServed, OwnGate
<1>7. ServerAlone'
  <2> SUFFICES ASSUME "server" \notin together
               PROVE  /\ (\A q \in McpReqs : mcp'[q].pc = "idle") => requestGate' = NoGate
                      /\ \A q \in McpReqs : PutsBack(q, mcp'[q], tool'[q], requestGate')
    BY DEF ServerAlone, PutsBack, NoGate
  <2>1. (\A q \in McpReqs : mcp'[q].pc = "idle") => requestGate' = NoGate
    BY <1>2
  <2>2. ASSUME NEW q \in McpReqs PROVE PutsBack(q, mcp'[q], tool'[q], requestGate')
    <3>1. CASE q = r
      BY <1>2, <3>1
    <3>2. CASE q # r
      <4>1. mcp'[q].pc = "idle"
        BY <1>1, <1>2, <3>2 DEF Apart, Busy
      <4>2. tool'[q].ran \subseteq HeaderOf[q] \cup CallerOf[q]
        BY <1>1, <1>2, <3>2 DEF ServerAlone, PutsBack
      <4> QED
        BY <4>1, <4>2 DEF PutsBack
    <3> QED
      BY <3>1, <3>2
  <2> QED
    BY <2>1, <2>2
<1> QED
  BY <1>3, <1>5, <1>6, <1>7 DEF McpIInv

\* A handler under way is a record with all its fields.
LEMMA HandlerLaw ==
    ASSUME McpTypes, NEW r \in McpReqs
    PROVE  /\ tool[r] \in Calls
           /\ mcp[r].pc # "idle" => mcp[r] \in [pc : {"header", "serve", "wait", "restore", "answer"},
                                                outer : Gates, inner : Gates]
           /\ McpIdle.pc = "idle" /\ McpIdle \in Handlers
<1>1. mcp[r] \in Handlers /\ tool[r] \in Calls
  BY DEF McpTypes
<1>2. McpIdle.pc = "idle"
  BY DEF McpIdle
<1> QED
  BY <1>1, <1>2 DEF Handlers

\* A step of the handler alone.
LEMMA HandlerMove ==
    ASSUME McpIInv, NEW r \in McpReqs, mcp[r].pc # "idle",
           NEW x \in Handlers, mcp' = [mcp EXCEPT ![r] = x],
           UNCHANGED <<tool, together>>, requestGate' \in Gates,
           r \notin together => OwnGate(r, x, tool[r], requestGate'),
           "server" \notin together => /\ PutsBack(r, x, tool[r], requestGate')
                                       /\ x.pc = "idle" => requestGate' = NoGate
    PROVE  McpIInv'
<1>1. Busy(r) /\ tool[r] \in Calls /\ tool' = [tool EXCEPT ![r] = tool[r]]
  BY DEF McpIInv, McpTypes, Busy
<1> QED
  BY <1>1, McpMove

\* Where a handler goes by itself.
LEMMA McpGoLaw ==
    ASSUME McpTypes, NEW r \in McpReqs, mcp[r].pc # "idle", NEW pc,
           pc \in {"header", "serve", "wait", "restore", "answer"}, McpGo(r, pc)
    PROVE  \E x \in Handlers : /\ mcp' = [mcp EXCEPT ![r] = x]
                               /\ x.pc = pc /\ x.outer = mcp[r].outer /\ x.inner = mcp[r].inner
<1>1. mcp[r] \in [pc : {"header", "serve", "wait", "restore", "answer"}, outer : Gates, inner : Gates]
  BY HandlerLaw
<1>2. PICK x : x = [mcp[r] EXCEPT !.pc = pc]
  OBVIOUS
<1>3. x \in Handlers /\ x.pc = pc /\ x.outer = mcp[r].outer /\ x.inner = mcp[r].inner
  BY <1>1, <1>2 DEF Handlers
<1> QED
  BY <1>2, <1>3 DEF McpGo

\* What the invariant says of one request.
LEMMA Told ==
    ASSUME McpIInv, NEW r \in McpReqs
    PROVE  /\ r \notin together => OwnGate(r, mcp[r], tool[r], requestGate)
           /\ "server" \notin together => PutsBack(r, mcp[r], tool[r], requestGate)
           /\ McpTypes /\ requestGate \in Gates
           /\ r # "server"
BY McpScopes DEF McpIInv, AloneServed, ServerAlone, McpTypes

\* The gate of the headers is set over the gate of the token.
LEMMA SetHeaderInv == ASSUME McpIInv, NEW r \in McpReqs, SetHeaderGate(r) PROVE McpIInv'
<1>1. /\ mcp[r].pc = "header" /\ mcp' = [mcp EXCEPT ![r].pc = "serve", ![r].inner = requestGate]
      /\ requestGate' = <<r, "header">> /\ UNCHANGED <<tool, together>>
  BY DEF SetHeaderGate
<1>2. mcp[r] \in [pc : {"header", "serve", "wait", "restore", "answer"}, outer : Gates, inner : Gates]
  BY <1>1, Told, HandlerLaw
<1>3. PICK x : x = [mcp[r] EXCEPT !.pc = "serve", !.inner = requestGate]
  OBVIOUS
<1>4. x \in Handlers /\ x.pc = "serve" /\ x.outer = mcp[r].outer /\ x.inner = requestGate
  BY <1>2, <1>3, Told DEF Handlers
<1>5. mcp' = [mcp EXCEPT ![r] = x]
  BY <1>1, <1>3, Told DEF McpTypes
<1>6. requestGate' \in Gates
  BY <1>1 DEF Gates
<1>7. r \notin together => OwnGate(r, x, tool[r], requestGate')
  BY <1>1, <1>4, Told DEF OwnGate
<1>8. "server" \notin together => PutsBack(r, x, tool[r], requestGate')
  BY <1>1, <1>4, Told DEF PutsBack
<1> QED
  BY <1>1, <1>4, <1>5, <1>6, <1>7, <1>8, HandlerMove

\* The handler gives up, or has its tool's answer.
LEMMA EndServeInv ==
    ASSUME McpIInv, NEW r \in McpReqs, RefuseRequest(r) \/ ToolDone(r) \/ Timeout(r) PROVE McpIInv'
<1>1. /\ mcp[r].pc \in {"serve", "wait"} /\ McpGo(r, "restore") /\ UNCHANGED <<requestGate, tool, together>>
  BY DEF RefuseRequest, ToolDone, Timeout
<1>2. PICK x \in Handlers : /\ mcp' = [mcp EXCEPT ![r] = x]
                            /\ x.pc = "restore" /\ x.outer = mcp[r].outer /\ x.inner = mcp[r].inner
  BY <1>1, Told, McpGoLaw
<1>3. OwnGate(r, x, tool[r], requestGate')
  BY <1>2 DEF OwnGate
<1>4. "server" \notin together => PutsBack(r, x, tool[r], requestGate')
  BY <1>1, <1>2, Told DEF PutsBack
<1> QED
  BY <1>1, <1>2, <1>3, <1>4, Told, HandlerMove

\* The tool is called.
LEMMA CallToolInv == ASSUME McpIInv, NEW r \in McpReqs, CallTool(r) PROVE McpIInv'
<1>1. /\ mcp[r].pc = "serve" /\ McpGo(r, "wait") /\ UNCHANGED <<requestGate, together>>
  BY DEF CallTool
<1>2. PICK pc : /\ pc \in {"check", "list", "nl2sql", "nameless"}
                /\ tool' = [tool EXCEPT ![r].pc = pc]
  BY DEF CallTool
<1>3. PICK x \in Handlers : /\ mcp' = [mcp EXCEPT ![r] = x]
                            /\ x.pc = "wait" /\ x.outer = mcp[r].outer /\ x.inner = mcp[r].inner
  BY <1>1, Told, McpGoLaw
<1>4. PICK y : y = [tool[r] EXCEPT !.pc = pc]
  OBVIOUS
<1>5. y \in Calls /\ y.pc = pc /\ y.ran = tool[r].ran /\ y.refused = tool[r].refused
  BY <1>2, <1>4, Told, HandlerLaw DEF Calls
<1>6. tool' = [tool EXCEPT ![r] = y]
  BY <1>2, <1>4
<1>7. r \notin together => OwnGate(r, x, y, requestGate')
  <2>1. NoTool.refused = {} /\ NoTool.ran = {}
    BY DEF NoTool
  <2> QED
    BY <1>1, <1>2, <1>3, <1>5, <2>1, Told DEF OwnGate
<1>8. "server" \notin together => PutsBack(r, x, y, requestGate')
  BY <1>1, <1>3, <1>5, Told DEF PutsBack
<1>9. Busy(r)
  BY <1>1 DEF Busy
<1> QED
  BY <1>1, <1>3, <1>5, <1>6, <1>7, <1>8, <1>9, Told, McpMove

\* The inner deferred call, then the outer one.
LEMMA RestoringInv ==
    ASSUME McpIInv, NEW r \in McpReqs, RestoreInner(r) \/ RestoreOuter(r) PROVE McpIInv'
<1>1. CASE RestoreInner(r)
  <2>1. /\ mcp[r].pc = "restore" /\ McpGo(r, "answer") /\ requestGate' = mcp[r].inner
        /\ UNCHANGED <<tool, together>>
    BY <1>1 DEF RestoreInner
  <2>2. PICK x \in Handlers : /\ mcp' = [mcp EXCEPT ![r] = x]
                              /\ x.pc = "answer" /\ x.outer = mcp[r].outer /\ x.inner = mcp[r].inner
    BY <2>1, Told, McpGoLaw
  <2>3. OwnGate(r, x, tool[r], requestGate')
    BY <2>2 DEF OwnGate
  <2>4. "server" \notin together => PutsBack(r, x, tool[r], requestGate')
    BY <2>1, <2>2, Told DEF PutsBack
  <2>5. requestGate' \in Gates
    BY <2>1, Told, HandlerLaw
  <2> QED
    BY <2>1, <2>2, <2>3, <2>4, <2>5, HandlerMove
<1>2. CASE RestoreOuter(r)
  <2>1. /\ mcp[r].pc = "answer" /\ mcp' = [mcp EXCEPT ![r] = McpIdle] /\ requestGate' = mcp[r].outer
        /\ UNCHANGED <<tool, together>>
    BY <1>2 DEF RestoreOuter
  <2>2. McpIdle \in Handlers /\ McpIdle.pc = "idle"
    BY Told, HandlerLaw
  <2>3. OwnGate(r, McpIdle, tool[r], requestGate')
    BY <2>2 DEF OwnGate
  <2>4. "server" \notin together => PutsBack(r, McpIdle, tool[r], requestGate') /\ requestGate' = NoGate
    BY <2>1, <2>2, Told DEF PutsBack
  <2>5. requestGate' \in Gates
    BY <2>1, Told, HandlerLaw
  <2> QED
    BY <2>1, <2>2, <2>3, <2>4, <2>5, HandlerMove
<1> QED
  BY <1>1, <1>2

\* The gate a tool meets: its own request's, or none.
LEMMA GateMet ==
    ASSUME McpIInv, NEW r \in McpReqs, Busy(r)
    PROVE  /\ r \notin together /\ mcp[r].pc = "wait" => getGate = HeaderOf[r]
           /\ "server" \notin together => getGate \subseteq HeaderOf[r] \cup CallerOf[r]
<1>1. requestGate = <<r, "header">> => getGate = HeaderOf[r]
  BY DEF getGate
<1>2. requestGate = <<r, "caller">> => getGate = CallerOf[r]
  BY DEF getGate
<1>3. requestGate = NoGate => getGate = {}
  BY DEF getGate, NoGate
<1>4. r \notin together /\ mcp[r].pc = "wait" => requestGate = <<r, "header">>
  BY Told DEF OwnGate
<1>5. ASSUME "server" \notin together
      PROVE  requestGate = <<r, "header">> \/ requestGate = <<r, "caller">> \/ requestGate = NoGate
  <2>1. CASE mcp[r].pc = "idle"
    <3>1. \A q \in McpReqs : mcp[q].pc = "idle"
      BY <1>5, <2>1 DEF McpIInv, Apart, Busy
    <3> QED
      BY <1>5, <3>1 DEF McpIInv, ServerAlone
  <2>2. CASE mcp[r].pc # "idle"
    <3>1. mcp[r].pc \in {"header", "serve", "wait", "restore", "answer"}
      BY <2>2, Told, HandlerLaw
    <3> QED
      BY <1>5, <3>1, Told DEF PutsBack
  <2> QED
    BY <2>1, <2>2
<1> QED
  BY <1>1, <1>2, <1>3, <1>4, <1>5

\* A step of the tool.
LEMMA ToolMove ==
    ASSUME McpIInv, NEW r \in McpReqs, Busy(r),
           NEW y \in Calls, tool' = [tool EXCEPT ![r] = y],
           UNCHANGED <<requestGate, mcp, together>>,
           tool[r].pc # "none",
           r \notin together /\ mcp[r].pc = "wait" =>
             /\ y.refused \cap HeaderOf[r] = {}
             /\ y.ran \subseteq HeaderOf[r],
           "server" \notin together => y.ran \subseteq HeaderOf[r] \cup CallerOf[r]
    PROVE  McpIInv'
<1>1. mcp[r] \in Handlers /\ mcp' = [mcp EXCEPT ![r] = mcp[r]]
  BY Told DEF McpTypes
<1>2. tool[r] # NoTool
  BY DEF NoTool
<1>3. r \notin together => OwnGate(r, mcp[r], y, requestGate')
  BY <1>2, Told DEF OwnGate
<1>4. "server" \notin together => PutsBack(r, mcp[r], y, requestGate')
  BY Told DEF PutsBack
<1>5. "server" \notin together /\ mcp[r].pc = "idle" => requestGate' = NoGate
  <2> SUFFICES ASSUME "server" \notin together, mcp[r].pc = "idle" PROVE requestGate = NoGate
    OBVIOUS
  <2>1. \A q \in McpReqs : mcp[q].pc = "idle"
    BY DEF McpIInv, Apart, Busy
  <2> QED
    BY <2>1 DEF McpIInv, ServerAlone
<1> QED
  BY <1>1, <1>3, <1>4, <1>5, Told, McpMove

\* The tool checks a connection, calls through the gate, or lists.
LEMMA McpToolInv == ASSUME McpIInv, NEW r \in McpReqs, McpTool(r) PROVE McpIInv'
<1>1. tool[r] \in Calls
  BY Told, HandlerLaw
<1>2. CASE ToolChecks(r)
  <2>1. tool[r].pc = "check" /\ UNCHANGED <<requestGate, mcp, together>>
    BY <1>2 DEF ToolChecks
  <2>2. PICK c \in McpConns :
          tool' = [tool EXCEPT ![r] = IF c \in getGate THEN [tool[r] EXCEPT !.pc = "call", !.ran = {c}]
                                      ELSE [tool[r] EXCEPT !.pc = "done", !.refused = {c}]]
    BY <1>2, Told DEF ToolChecks, McpTypes
  <2>3. Busy(r)
    BY <2>1 DEF Busy
  <2>4. PICK y : y = IF c \in getGate THEN [tool[r] EXCEPT !.pc = "call", !.ran = {c}]
                     ELSE [tool[r] EXCEPT !.pc = "done", !.refused = {c}]
    OBVIOUS
  <2>5. y \in Calls
    BY <1>1, <2>4 DEF Calls
  <2>6. tool' = [tool EXCEPT ![r] = y]
    BY <2>2, <2>4
  <2>7. IF c \in getGate THEN y.pc = "call" /\ y.ran = {c} /\ y.refused = tool[r].refused
        ELSE y.pc = "done" /\ y.refused = {c} /\ y.ran = tool[r].ran
    BY <1>1, <2>4 DEF Calls
  <2> QED
    <3>1. r \notin together /\ mcp[r].pc = "wait" =>
             /\ y.refused \cap HeaderOf[r] = {}
             /\ y.ran \subseteq HeaderOf[r]
      BY <2>1, <2>3, <2>7, Told, GateMet DEF OwnGate
    <3>2. "server" \notin together => y.ran \subseteq HeaderOf[r] \cup CallerOf[r]
      BY <2>3, <2>7, Told, GateMet DEF PutsBack
    <3> QED
      BY <2>1, <2>3, <2>5, <2>6, <3>1, <3>2, ToolMove
<1>3. CASE ToolCalls(r)
  <2>1. tool[r].pc = "call" /\ UNCHANGED <<requestGate, mcp, together>>
    BY <1>3 DEF ToolCalls
  <2>2. PICK y : y = IF tool[r].ran \subseteq getGate THEN [tool[r] EXCEPT !.pc = "done"]
                     ELSE [tool[r] EXCEPT !.pc = "done", !.ran = {}, !.refused = tool[r].ran]
    OBVIOUS
  <2>3. tool' = [tool EXCEPT ![r] = y]
    BY <1>3, <2>2, Told DEF ToolCalls, McpTypes
  <2>4. Busy(r)
    BY <2>1 DEF Busy
  <2>5. y \in Calls
    BY <1>1, <2>2 DEF Calls
  <2>6. /\ y.pc = "done"
        /\ IF tool[r].ran \subseteq getGate THEN y.ran = tool[r].ran /\ y.refused = tool[r].refused
           ELSE y.ran = {} /\ y.refused = tool[r].ran
    BY <1>1, <2>2 DEF Calls
  <2>7. r \notin together /\ mcp[r].pc = "wait" =>
             /\ y.refused \cap HeaderOf[r] = {}
             /\ y.ran \subseteq HeaderOf[r]
    BY <2>1, <2>4, <2>6, Told, GateMet DEF OwnGate
  <2>8. "server" \notin together => y.ran \subseteq HeaderOf[r] \cup CallerOf[r]
    BY <2>6, Told DEF PutsBack
  <2> QED
    BY <2>1, <2>3, <2>4, <2>5, <2>7, <2>8, ToolMove
<1>4. CASE ToolLists(r)
  <2>1. tool[r].pc \in {"list", "nl2sql", "nameless"} /\ UNCHANGED <<requestGate, mcp, together>>
    BY <1>4 DEF ToolLists
  <2>2. PICK n : n = IF tool[r].pc = "list" THEN getGate ELSE {}
    OBVIOUS
  <2>3. Busy(r)
    BY <2>1 DEF Busy
  <2>4. n \in SUBSET McpConns
    <3>1. getGate \in SUBSET McpConns
      <4>1. CASE requestGate = NoGate
        BY <4>1 DEF getGate, NoGate
      <4>2. CASE requestGate \in McpReqs \X {"caller", "header"}
        BY <4>2, McpScopes DEF getGate
      <4> QED
        BY <4>1, <4>2, Told DEF Gates
    <3> QED
      BY <2>2, <3>1
  <2>5. PICK y : y = [tool[r] EXCEPT !.ran = n, !.pc = "done"]
    OBVIOUS
  <2>6. y \in Calls /\ y.pc = "done" /\ y.ran = n /\ y.refused = tool[r].refused
    BY <1>1, <2>4, <2>5 DEF Calls
  <2>7. tool' = [tool EXCEPT ![r] = y]
    BY <1>4, <2>2, <2>5, Told DEF ToolLists, McpTypes
  <2>8. r \notin together /\ mcp[r].pc = "wait" =>
             y.refused \cap HeaderOf[r] = {} /\ y.ran \subseteq HeaderOf[r]
    BY <2>2, <2>3, <2>6, Told, GateMet DEF OwnGate
  <2>9. "server" \notin together => y.ran \subseteq HeaderOf[r] \cup CallerOf[r]
    BY <2>2, <2>3, <2>6, GateMet
  <2> QED
    BY <2>1, <2>3, <2>6, <2>7, <2>8, <2>9, ToolMove
<1> QED
  BY <1>2, <1>3, <1>4 DEF McpTool

\* A request begins, and whoever is under way is no longer alone.
LEMMA SetCallerInv == ASSUME McpIInv, NEW r \in McpReqs, SetCallerGate(r) PROVE McpIInv'
<1>1. /\ ~Busy(r) /\ requestGate' = <<r, "caller">> /\ tool' = [tool EXCEPT ![r] = NoTool]
      /\ mcp' = [mcp EXCEPT ![r] = [pc |-> "header", outer |-> requestGate, inner |-> NoGate]]
      /\ McpTypes /\ Apart /\ AloneServed /\ ServerAlone
  BY DEF SetCallerGate, McpIInv
<1>2. PICK x : x = [pc |-> "header", outer |-> requestGate, inner |-> NoGate]
  OBVIOUS
<1>3. x \in Handlers /\ x.pc = "header" /\ x.outer = requestGate
  BY <1>1, <1>2 DEF Handlers, McpTypes, Gates, NoGate
<1>4. NoTool \in Calls /\ NoTool.ran = {} /\ NoTool.refused = {} /\ NoTool.pc = "none"
  BY DEF NoTool, Calls
<1>5. /\ mcp' \in [McpReqs -> Handlers] /\ tool' \in [McpReqs -> Calls]
      /\ mcp'[r] = x /\ tool'[r] = NoTool
      /\ \A q \in McpReqs : q # r => mcp'[q] = mcp[q] /\ tool'[q] = tool[q]
  BY <1>1, <1>2, <1>3, <1>4 DEF McpTypes
<1>6. McpTypes'
  BY <1>1, <1>5 DEF McpTypes, Gates
<1>7. PICK others : others = {q \in McpReqs \ {r} : Busy(q)}
  OBVIOUS
<1>8. together' = IF others = {} THEN together \ {r} ELSE together \cup others \cup {r, "server"}
  BY <1>7 DEF SetCallerGate
<1>9. \A q \in McpReqs : Busy(q)' <=> Busy(q) \/ q = r
  BY <1>3, <1>5 DEF Busy
<1>10. Apart'
  <2>1. ASSUME NEW s \in McpReqs, NEW q \in McpReqs, s # q, Busy(s)', Busy(q)'
        PROVE  {s, q, "server"} \subseteq together'
    <3>1. CASE s = r
      BY <1>7, <1>8, <1>9, <2>1, <3>1
    <3>2. CASE q = r
      BY <1>7, <1>8, <1>9, <2>1, <3>2
    <3>3. CASE s # r /\ q # r
      <4>1. {s, q, "server"} \subseteq together
        BY <1>1, <1>9, <2>1, <3>3 DEF Apart
      <4> QED
        BY <1>8, <3>3, <4>1, Told
    <3> QED
      BY <3>1, <3>2, <3>3
  <2> QED
    BY <2>1 DEF Apart
<1>11. AloneServed'
  <2>1. ASSUME NEW q \in McpReqs, q \notin together' PROVE OwnGate(q, mcp'[q], tool'[q], requestGate')
    <3>1. CASE q = r
      BY <1>1, <1>3, <1>5, <3>1 DEF OwnGate
    <3>2. CASE q # r
      <4>1. ~Busy(q)
        BY <1>7, <1>8, <2>1, <3>2
      <4>2. mcp'[q].pc = "idle"
        BY <1>5, <3>2, <4>1 DEF Busy
      <4> QED
        BY <4>2 DEF OwnGate
    <3> QED
      BY <3>1, <3>2
  <2> QED
    BY <2>1 DEF AloneServed, OwnGate
<1>12. ServerAlone'
  <2> SUFFICES ASSUME "server" \notin together'
               PROVE  /\ (\A q \in McpReqs : mcp'[q].pc = "idle") => requestGate' = NoGate
                      /\ \A q \in McpReqs : PutsBack(q, mcp'[q], tool'[q], requestGate')
    BY DEF ServerAlone, PutsBack, NoGate
  <2>1. others = {} /\ "server" \notin together
    BY <1>8, Told
  <2>2. \A q \in McpReqs : mcp[q].pc = "idle"
    BY <1>1, <1>7, <2>1 DEF Busy
  <2>3. requestGate = NoGate
    BY <1>1, <2>1, <2>2 DEF ServerAlone
  <2>4. ASSUME NEW q \in McpReqs PROVE PutsBack(q, mcp'[q], tool'[q], requestGate')
    <3>1. CASE q = r
      BY <1>1, <1>3, <1>4, <1>5, <2>3, <3>1 DEF PutsBack
    <3>2. CASE q # r
      BY <1>1, <1>5, <2>1, <2>2, <3>2 DEF PutsBack, ServerAlone
    <3> QED
      BY <3>1, <3>2
  <2> QED
    BY <1>3, <1>5, <2>4
<1> QED
  BY <1>6, <1>10, <1>11, <1>12 DEF McpIInv

\* Requests that were alone, and a server whose requests were, kept to the
\* scopes they set, and left no gate behind.
THEOREM McpInvariance == McpSpec => []McpAloneOwnScope
<1>1. McpInit => McpIInv
  <2> SUFFICES ASSUME McpInit PROVE McpIInv
    OBVIOUS
  <2>1. /\ requestGate = NoGate /\ together = {} /\ mcp = [r \in McpReqs |-> McpIdle]
        /\ tool = [r \in McpReqs |-> NoTool]
    BY DEF McpInit
  <2>2. /\ McpIdle.pc = "idle" /\ McpIdle \in Handlers /\ NoGate \in Gates
        /\ NoTool \in Calls /\ NoTool.ran = {} /\ NoTool.pc = "none"
    BY DEF McpIdle, Handlers, NoTool, Calls, NoGate, Gates
  <2>3. \A r \in McpReqs : mcp[r] = McpIdle /\ tool[r] = NoTool /\ ~Busy(r)
    BY <2>1, <2>2 DEF Busy
  <2>4. McpTypes
    BY <2>1, <2>2 DEF McpTypes
  <2> QED
    BY <2>1, <2>2, <2>3, <2>4 DEF McpIInv, Apart, AloneServed, ServerAlone, OwnGate, PutsBack
<1>2. McpIInv /\ [McpNext]_mcpVars => McpIInv'
  <2> SUFFICES ASSUME McpIInv, [McpNext]_mcpVars PROVE McpIInv'
    OBVIOUS
  <2>1. CASE UNCHANGED mcpVars
    BY <2>1 DEF mcpVars, McpIInv, McpTypes, Apart, AloneServed, ServerAlone, Busy, OwnGate, PutsBack
  <2>2. ASSUME NEW r \in McpReqs, SetCallerGate(r) \/ McpServing(r) \/ McpTool(r) PROVE McpIInv'
    BY <2>2, SetCallerInv, SetHeaderInv, EndServeInv, CallToolInv, RestoringInv, McpToolInv DEF McpServing
  <2> QED
    BY <2>1, <2>2 DEF McpNext
<1>3. McpIInv => McpAloneOwnScope
  BY DEF McpIInv, AloneServed, ServerAlone, OwnGate, PutsBack, McpAloneOwnScope
<1> QED
  BY <1>1, <1>2, <1>3, PTL DEF McpSpec

-----------------------------------------------------------------------------
(* Language models.                                                          *)

\* Only the first of a list may be local, and only the last may come twice.
Listed(a) ==
    /\ \A k \in 2..Len(a) : a[k] # "local"
    /\ \A j, k \in 1..Len(a) : j < k /\ k < Len(a) => a[j] # a[k]

\* Every model of list a is still to come in l, has failed, or came too late.
Covers(a, l, f, late) ==
    \A i \in 1..Len(a) : a[i] \in f \/ a[i] \in late \/ \E k \in 1..Len(l) : l[k] = a[i]

\* Nothing came too late before the deadline, or before two failures on the cloud.
Accounted(a, l, f, late, now) ==
    /\ now <= Deadline
    /\ late # {} => now = Deadline
    /\ Covers(a, l, f, late)
    /\ late # {} /\ a # <<"local">> => Cardinality(f \ {"local"}) >= 2

\* What has failed is not asked again, but for the last; a local model is asked
\* first; and with one failure or none there is time left.
Underway(a, l, f, late, now) ==
    /\ Listed(l)
    /\ l # << >> /\ l[1] = "local" => a = l /\ f = {} /\ late = {} /\ now = 0
    /\ \A k \in 1..Len(l) : k < Len(l) => l[k] \notin f
    /\ late = {} /\ l # << >> /\ a # <<"local">> =>
         /\ Cardinality(f \ {"local"}) = 0 => now <= LocalTry
         /\ Cardinality(f \ {"local"}) = 1 => now <= LocalTry + ClientTimeout

Models == {FreeModels[i] : i \in 1..Len(FreeModels)} \cup {Paid, "m", "free", "local"}
Completions == [pc : {"try", "answer", "error"}, all : Seq(Models), left : Seq(Models),
                late : SUBSET Models, failed : SUBSET Models]

TriesOK ==
    /\ llm \in Completions /\ IsFiniteSet(llm.failed) /\ clock \in Nat
    /\ Accounted(llm.all, llm.left, llm.failed, llm.late, clock)
    /\ llm.pc = "try" => Underway(llm.all, llm.left, llm.failed, llm.late, clock)
    /\ llm.pc = "error" => llm.left = << >>

\* The tokens, from the first written to the last to come.
StreamOK ==
    stream.pc # "none" =>
        /\ stream \in [pc : {"send", "closing", "ended"}, coming : Seq(Nat), ch : Seq(Nat), closed : BOOLEAN,
                       written : Seq(Nat), over : BOOLEAN, done : BOOLEAN]
        /\ \E n \in Nat : stream.written \o (stream.ch \o stream.coming) = [i \in 1..n |-> i]

LlmIInv == TriesOK /\ (stream = NoStream \/ stream.pc # "none") /\ StreamOK

\* The times of the attempts.
LEMMA Times == /\ Deadline \in Nat /\ LocalTry \in Nat /\ ClientTimeout \in Nat
               /\ LocalTry + ClientTimeout < Deadline
BY LlmAssumption

\* One more failure that was not among the failures counts.
LEMMA OneMore ==
    ASSUME NEW f, IsFiniteSet(f), NEW m, m \notin f
    PROVE  /\ IsFiniteSet(f \cup {m}) /\ Cardinality(f \ {"local"}) \in Nat
           /\ m # "local" => Cardinality((f \cup {m}) \ {"local"}) = Cardinality(f \ {"local"}) + 1
           /\ m = "local" => Cardinality((f \cup {m}) \ {"local"}) = Cardinality(f \ {"local"})
<1>1. PICK g : g = f \ {"local"}
  OBVIOUS
<1>2. IsFiniteSet(g) /\ Cardinality(g) \in Nat /\ m \notin g
  BY <1>1, FS_Subset, FS_CardinalityType
<1>3. IsFiniteSet(f \cup {m})
  BY FS_AddElement
<1>4. ASSUME m # "local" PROVE Cardinality((f \cup {m}) \ {"local"}) = Cardinality(g) + 1
  <2>1. (f \cup {m}) \ {"local"} = g \cup {m}
    BY <1>1, <1>4
  <2> QED
    BY <1>2, <2>1, FS_AddElement
<1>5. ASSUME m = "local" PROVE (f \cup {m}) \ {"local"} = g
  BY <1>1, <1>5
<1> QED
  BY <1>1, <1>2, <1>3, <1>4, <1>5

\* What is left after the first of a list.
LEMMA TailOf ==
    ASSUME NEW S, NEW l \in Seq(S), l # << >>
    PROVE  /\ Tail(l) \in Seq(S) /\ Len(l) \in Nat /\ Len(l) >= 1 /\ Len(Tail(l)) = Len(l) - 1
           /\ Head(l) = l[1] /\ l[1] \in S
           /\ \A k \in 1..Len(Tail(l)) : k + 1 \in 2..Len(l) /\ Tail(l)[k] = l[k + 1]
           /\ \A k \in 2..Len(l) : k - 1 \in 1..Len(Tail(l)) /\ Tail(l)[k - 1] = l[k]
<1>1. Tail(l) \in Seq(S) /\ Len(l) \in Nat /\ Len(l) >= 1 /\ Len(Tail(l)) = Len(l) - 1
      /\ Head(l) = l[1] /\ l[1] \in S
  OBVIOUS
<1>2. \A k \in 1..Len(Tail(l)) : Tail(l)[k] = l[k + 1]
  BY HeadTailProperties
<1>3. \A k \in 1..Len(Tail(l)) : k + 1 \in 2..Len(l)
  BY <1>1
<1>4. ASSUME NEW k \in 2..Len(l) PROVE k - 1 \in 1..Len(Tail(l)) /\ Tail(l)[k - 1] = l[k]
  <2>1. k - 1 \in 1..Len(Tail(l)) /\ (k - 1) + 1 = k
    BY <1>1
  <2>2. Tail(l)[k - 1] = l[(k - 1) + 1]
    BY <1>2, <2>1
  <2> QED
    BY <2>1, <2>2
<1> QED
  BY <1>1, <1>2, <1>3, <1>4

\* The tail of such a list is one, without a local model.
LEMMA ListedTail ==
    ASSUME NEW S, NEW l \in Seq(S), l # << >>, Listed(l)
    PROVE  /\ Listed(Tail(l))
           /\ \A k \in 1..Len(Tail(l)) : Tail(l)[k] # "local"
           /\ \A k \in 1..Len(Tail(l)) : k < Len(Tail(l)) => Tail(l)[k] # l[1]
<1>1. PICK t : t = Tail(l)
  OBVIOUS
<1>2. /\ t \in Seq(S) /\ Len(l) \in Nat /\ Len(l) >= 1 /\ Len(t) = Len(l) - 1
      /\ \A k \in 1..Len(t) : k + 1 \in 2..Len(l) /\ t[k] = l[k + 1]
  BY <1>1, TailOf
<1>3. \A k \in 1..Len(t) : t[k] # "local"
  BY <1>2 DEF Listed
<1>4. \A j, k \in 1..Len(l) : j < k /\ k < Len(l) => l[j] # l[k]
  BY DEF Listed
<1>5. ASSUME NEW j \in 1..Len(t), NEW k \in 1..Len(t), j < k, k < Len(t) PROVE t[j] # t[k]
  <2>1. /\ j + 1 \in 1..Len(l) /\ k + 1 \in 1..Len(l) /\ j + 1 < k + 1 /\ k + 1 < Len(l)
        /\ t[j] = l[j + 1] /\ t[k] = l[k + 1]
    BY <1>2, <1>5
  <2> QED
    BY <1>4, <2>1
<1>6. ASSUME NEW k \in 1..Len(t), k < Len(t) PROVE t[k] # l[1]
  <2>1. 1 \in 1..Len(l) /\ k + 1 \in 1..Len(l) /\ 1 < k + 1 /\ k + 1 < Len(l) /\ t[k] = l[k + 1]
    BY <1>2, <1>6
  <2> QED
    BY <1>4, <2>1
<1>7. \A k \in 2..Len(t) : t[k] # "local"
  <2>1. \A k \in 2..Len(t) : k \in 1..Len(t)
    BY <1>2
  <2> QED
    BY <1>3, <2>1
<1> QED
  BY <1>1, <1>3, <1>5, <1>6, <1>7 DEF Listed

\* A model that fails, or comes too late, is still accounted for.
LEMMA AccountMoves ==
    ASSUME NEW S, NEW a \in Seq(S), NEW l \in Seq(S), l # << >>, NEW f, NEW late,
           NEW f2, NEW late2, l[1] \in f2 \/ l[1] \in late2, f \subseteq f2, late \subseteq late2,
           Covers(a, l, f, late)
    PROVE  Covers(a, Tail(l), f2, late2)
<1> SUFFICES ASSUME NEW i \in 1..Len(a), a[i] \notin f2, a[i] \notin late2
             PROVE  \E k \in 1..Len(Tail(l)) : Tail(l)[k] = a[i]
  BY DEF Covers
<1>1. PICK k \in 1..Len(l) : l[k] = a[i]
  BY DEF Covers
<1>2. k # 1
  BY <1>1
<1>3. k \in 2..Len(l)
  BY <1>2, TailOf
<1>4. k - 1 \in 1..Len(Tail(l)) /\ Tail(l)[k - 1] = l[k]
  BY <1>3, TailOf
<1>5. PICK j : j = k - 1
  OBVIOUS
<1> QED
  BY <1>1, <1>4, <1>5

\* An attempt that fails before the deadline.
LEMMA FailsInTime ==
    ASSUME NEW S, NEW a \in Seq(S), NEW l \in Seq(S), l # << >>,
           NEW f, IsFiniteSet(f), NEW late, NEW now \in Nat, now < Deadline,
           Accounted(a, l, f, late, now), Underway(a, l, f, late, now),
           NEW t \in Nat, t <= Deadline - now,
           l[1] # "local" => t <= ClientTimeout,
           l[1] = "local" /\ Len(a) > 1 => t <= LocalTry
    PROVE  /\ Accounted(a, Tail(l), f \cup {l[1]}, late, now + t)
           /\ Underway(a, Tail(l), f \cup {l[1]}, late, now + t)
           /\ IsFiniteSet(f \cup {l[1]})
<1>1. late = {}
  BY Times DEF Accounted
<1>2. now + t <= Deadline /\ now + t \in Nat
  BY Times
<1>3. Accounted(a, Tail(l), f \cup {l[1]}, late, now + t)
  <2>1. Covers(a, l, f, late)
    BY DEF Accounted
  <2>2. PICK f2 : f2 = f \cup {l[1]}
    OBVIOUS
  <2>3. l[1] \in f2 /\ f \subseteq f2
    BY <2>2
  <2>4. Covers(a, Tail(l), f2, late)
    BY <2>1, <2>3, AccountMoves
  <2> QED
    BY <1>1, <1>2, <2>2, <2>4 DEF Accounted
<1>4. IsFiniteSet(f \cup {l[1]})
  BY FS_AddElement
<1>5. /\ Listed(Tail(l))
      /\ \A k \in 1..Len(Tail(l)) : Tail(l)[k] # "local"
      /\ \A k \in 1..Len(Tail(l)) : k < Len(Tail(l)) => Tail(l)[k] # l[1]
  BY ListedTail DEF Underway
<1>6. Tail(l) # << >> => Tail(l)[1] # "local"
  BY <1>5
<1>7. \A k \in 1..Len(Tail(l)) : k < Len(Tail(l)) => Tail(l)[k] \notin f \cup {l[1]}
  <2> SUFFICES ASSUME NEW k \in 1..Len(Tail(l)), k < Len(Tail(l)) PROVE Tail(l)[k] \notin f
    BY <1>5
  <2>1. k + 1 \in 1..Len(l) /\ k + 1 < Len(l) /\ Tail(l)[k] = l[k + 1]
    BY TailOf
  <2> QED
    BY <2>1 DEF Underway
<1>8. ASSUME Tail(l) # << >>, a # <<"local">>
      PROVE  /\ Cardinality((f \cup {l[1]}) \ {"local"}) = 0 => now + t <= LocalTry
             /\ Cardinality((f \cup {l[1]}) \ {"local"}) = 1 => now + t <= LocalTry + ClientTimeout
  <2>1. 1 \in 1..Len(l) /\ 1 < Len(l)
    <3>1. Tail(l) \in Seq(S) /\ Len(l) \in Nat /\ Len(Tail(l)) = Len(l) - 1
      BY TailOf
    <3>2. Len(Tail(l)) # 0
      BY <1>8, <3>1
    <3> QED
      BY <3>1, <3>2
  <2>2. l[1] \notin f
    BY <2>1 DEF Underway
  <2>3. PICK c, d : c = Cardinality(f \ {"local"}) /\ d = Cardinality((f \cup {l[1]}) \ {"local"})
    OBVIOUS
  <2>4. /\ c \in Nat
        /\ l[1] # "local" => d = c + 1
        /\ l[1] = "local" => d = c
    BY <2>2, <2>3, OneMore
  <2>5. (c = 0 => now <= LocalTry) /\ (c = 1 => now <= LocalTry + ClientTimeout)
    BY <1>1, <1>8, <2>3 DEF Underway
  <2>6. CASE l[1] # "local"
    BY <2>3, <2>4, <2>5, <2>6, Times
  <2>7. CASE l[1] = "local"
    <3>1. a = l /\ now = 0 /\ f = {}
      BY <2>7 DEF Underway
    <3>2. Len(a) > 1
      BY <2>1, <3>1
    <3>3. t <= LocalTry
      BY <2>7, <3>2
    <3> QED
      BY <2>3, <3>1, <3>3, Times
  <2> QED
    BY <2>6, <2>7
<1>9. Underway(a, Tail(l), f \cup {l[1]}, late, now + t)
  BY <1>5, <1>6, <1>7, <1>8 DEF Underway
<1> QED
  BY <1>3, <1>4, <1>9

\* An attempt begun at the deadline.
LEMMA FailsLate ==
    ASSUME NEW S, NEW a \in Seq(S), NEW l \in Seq(S), l # << >>,
           NEW f, IsFiniteSet(f), NEW late,
           Accounted(a, l, f, late, Deadline), Underway(a, l, f, late, Deadline)
    PROVE  /\ Accounted(a, Tail(l), f, late \cup {l[1]}, Deadline)
           /\ Underway(a, Tail(l), f, late \cup {l[1]}, Deadline)
<1>1. Covers(a, Tail(l), f, late \cup {l[1]})
  <2>1. Covers(a, l, f, late)
    BY DEF Accounted
  <2> QED
    BY <2>1, AccountMoves
<1>2. a # <<"local">> => Cardinality(f \ {"local"}) >= 2
  <2> SUFFICES ASSUME a # <<"local">>, late = {} PROVE Cardinality(f \ {"local"}) >= 2
    BY DEF Accounted
  <2>1. PICK c : c = Cardinality(f \ {"local"})
    OBVIOUS
  <2>2. c \in Nat
    BY <2>1, FS_Subset, FS_CardinalityType
  <2>3. (c = 0 => Deadline <= LocalTry) /\ (c = 1 => Deadline <= LocalTry + ClientTimeout)
    BY <2>1 DEF Underway
  <2> QED
    BY <2>1, <2>2, <2>3, Times
<1>3. Accounted(a, Tail(l), f, late \cup {l[1]}, Deadline)
  BY <1>1, <1>2, Times DEF Accounted
<1>4. /\ Listed(Tail(l))
      /\ \A k \in 1..Len(Tail(l)) : Tail(l)[k] # "local"
  BY ListedTail DEF Underway
<1>5. Tail(l) # << >> => Tail(l)[1] # "local"
  <2>1. Tail(l) \in Seq(S)
    BY TailOf
  <2>2. Tail(l) # << >> => 1 \in 1..Len(Tail(l))
    BY <2>1
  <2> QED
    BY <1>4, <2>2
<1>6. \A k \in 1..Len(Tail(l)) : k < Len(Tail(l)) => Tail(l)[k] \notin f
  <2> SUFFICES ASSUME NEW k \in 1..Len(Tail(l)), k < Len(Tail(l)) PROVE Tail(l)[k] \notin f
    OBVIOUS
  <2>1. k + 1 \in 1..Len(l) /\ k + 1 < Len(l) /\ Tail(l)[k] = l[k + 1]
    BY TailOf
  <2> QED
    BY <2>1 DEF Underway
<1>7. Underway(a, Tail(l), f, late \cup {l[1]}, Deadline)
  BY <1>4, <1>5, <1>6 DEF Underway
<1> QED
  BY <1>3, <1>7

\* An attempt that succeeds leaves the account as it is.
LEMMA Succeeds ==
    ASSUME NEW a, NEW l, NEW f, NEW late, NEW now \in Nat, now < Deadline,
           Accounted(a, l, f, late, now), NEW t \in Nat, t <= Deadline - now
    PROVE  Accounted(a, l, f, late, now + t)
<1>1. late = {} /\ now + t <= Deadline
  BY Times DEF Accounted
<1> QED
  BY <1>1 DEF Accounted

\* The free models are models.
LEMMA FreeLaw == FreeModels \in Seq(Models)
<1>1. FreeModels \in Seq(STRING)
  BY LlmAssumption
<1>2. \A i \in 1..Len(FreeModels) : FreeModels[i] \in Models
  BY DEF Models
<1> QED
  BY <1>1, <1>2

\* The lists that resolveModels makes.
LEMMA ResolveLaw ==
    ASSUME NEW W, W = Models, NEW model \in W, model # "local", NEW allowPaid \in BOOLEAN
    PROVE  /\ resolveModels(model, allowPaid) \in Seq(W)
           /\ \A k \in 1..Len(resolveModels(model, allowPaid)) : resolveModels(model, allowPaid)[k] # "local"
           /\ Listed(resolveModels(model, allowPaid))
           /\ allowPaid => Len(resolveModels(model, allowPaid)) >= 1
<1>1. PICK u : u = IF model = "free" THEN FreeModels ELSE <<model>>
  OBVIOUS
<1>2. /\ FreeModels \in Seq(W) /\ Paid \in W /\ Paid # "local"
      /\ \A i \in 1..Len(FreeModels) : FreeModels[i] # "local"
      /\ \A i, j \in 1..Len(FreeModels) : FreeModels[i] = FreeModels[j] => i = j
  <2>1. Paid \in W
    BY DEF Models
  <2> QED
    BY <2>1, FreeLaw, LlmAssumption
<1>3. /\ u \in Seq(W) /\ \A i \in 1..Len(u) : u[i] # "local"
      /\ \A i, j \in 1..Len(u) : u[i] = u[j] => i = j
  <2>1. CASE model = "free"
    BY <1>1, <1>2, <2>1
  <2>2. CASE model # "free"
    <3>1. u = <<model>>
      BY <1>1, <2>2
    <3>2. u \in Seq(W) /\ Len(u) = 1 /\ u[1] = model
      BY <3>1
    <3> QED
      BY <3>2
  <2> QED
    BY <2>1, <2>2
<1>4. PICK r : r = resolveModels(model, allowPaid)
  OBVIOUS
<1>5. CASE allowPaid
  <2>1. r = u \o <<Paid>>
    BY <1>1, <1>4, <1>5 DEF resolveModels
  <2>2. /\ r \in Seq(W) /\ Len(u) \in Nat /\ Len(r) = Len(u) + 1
        /\ \A i \in 1..Len(u) : r[i] = u[i]
        /\ r[Len(u) + 1] = Paid
    BY <1>2, <1>3, <2>1
  <2>3. ASSUME NEW k \in 1..Len(r) PROVE r[k] # "local"
    <3>1. k \in 1..Len(u) \/ k = Len(u) + 1
      BY <2>2
    <3> QED
      BY <1>2, <1>3, <2>2, <3>1
  <2>4. ASSUME NEW j \in 1..Len(r), NEW k \in 1..Len(r), j < k, k < Len(r) PROVE r[j] # r[k]
    <3>1. j \in 1..Len(u) /\ k \in 1..Len(u) /\ j # k
      BY <2>2, <2>4
    <3> QED
      BY <1>3, <2>2, <3>1
  <2>5. \A k \in 2..Len(r) : k \in 1..Len(r)
    BY <2>2
  <2>6. Len(r) >= 1
    BY <2>2
  <2> QED
    BY <1>4, <2>2, <2>3, <2>4, <2>5, <2>6 DEF Listed
<1>6. CASE ~allowPaid
  <2>1. r = u
    BY <1>1, <1>3, <1>4, <1>6 DEF resolveModels
  <2>2. Len(u) \in Nat
    BY <1>3
  <2>3. \A k \in 2..Len(u) : k \in 1..Len(u)
    BY <2>2
  <2>4. \A j, k \in 1..Len(u) : j < k /\ k < Len(u) => u[j] # u[k]
    BY <1>3
  <2> QED
    BY <1>3, <1>4, <1>6, <2>1, <2>3, <2>4 DEF Listed
<1> QED
  BY <1>5, <1>6

\* A local model in front of such a list.
LEMMA LocalFirst ==
    ASSUME NEW W, "local" \in W, NEW r \in Seq(W), Len(r) >= 1,
           \A k \in 1..Len(r) : r[k] # "local", Listed(r)
    PROVE  /\ <<"local">> \o r \in Seq(W) /\ Listed(<<"local">> \o r)
<1>1. PICK a, m : a = <<m>> \o r /\ m = "local"
  OBVIOUS
<1>2. /\ a \in Seq(W) /\ Len(r) \in Nat /\ Len(a) = Len(r) + 1 /\ a[1] = m
      /\ \A k \in 1..Len(r) : a[k + 1] = r[k]
  BY <1>1
<1>3. ASSUME NEW k \in 2..Len(a) PROVE a[k] # m
  <2>1. PICK j : j = k - 1
    OBVIOUS
  <2>2. j \in 1..Len(r) /\ j + 1 = k
    BY <1>2, <2>1
  <2>3. a[k] = r[j]
    BY <1>2, <2>2
  <2> QED
    BY <1>1, <2>2, <2>3
<1>4. ASSUME NEW j \in 1..Len(a), NEW k \in 1..Len(a), j < k, k < Len(a) PROVE a[j] # a[k]
  <2>1. k \in 2..Len(a)
    BY <1>2, <1>4
  <2>2. CASE j = 1
    BY <1>2, <1>3, <2>1, <2>2
  <2>3. CASE j # 1
    <3>1. PICK i, n : i = j - 1 /\ n = k - 1
      OBVIOUS
    <3>2. i \in 1..Len(r) /\ n \in 1..Len(r) /\ i + 1 = j /\ n + 1 = k /\ i < n /\ n < Len(r)
      BY <1>2, <1>4, <2>3, <3>1
    <3>3. a[j] = r[i] /\ a[k] = r[n]
      BY <1>2, <3>2
    <3> QED
      BY <3>2, <3>3 DEF Listed
  <2> QED
    BY <2>2, <2>3
<1> QED
  BY <1>1, <1>2, <1>3, <1>4 DEF Listed

\* What Attempts returns is such a list.
LEMMA AttemptsLaw ==
    ASSUME NEW W, W = Models, NEW provider, provider \in Providers, NEW model,
           model \in {"free", "m", Paid}, NEW allowPaid \in BOOLEAN, NEW key \in BOOLEAN
    PROVE  /\ Attempts(provider, model, allowPaid, key) \in Seq(W)
           /\ Listed(Attempts(provider, model, allowPaid, key))
<1>1. model \in W /\ model # "local" /\ "local" \in W
  <2>1. model \in W /\ "local" \in W
    BY DEF Models
  <2>2. Paid # "local"
    BY LlmAssumption
  <2> QED
    BY <2>1, <2>2
<1>2. PICK r : r = resolveModels(model, allowPaid)
  OBVIOUS
<1>3. /\ r \in Seq(W) /\ \A k \in 1..Len(r) : r[k] # "local"
      /\ Listed(r) /\ (allowPaid => Len(r) >= 1)
  BY <1>1, <1>2, ResolveLaw
<1>4. <<"local">> \in Seq(W) /\ Listed(<<"local">>)
  <2>1. PICK m : m = "local"
    OBVIOUS
  <2>2. <<m>> \in Seq(W) /\ Len(<<m>>) = 1
    BY <1>1, <2>1
  <2>3. Listed(<<m>>)
    BY <2>2 DEF Listed
  <2> QED
    BY <2>1, <2>2, <2>3
<1>5. PICK a : a = Attempts(provider, model, allowPaid, key)
  OBVIOUS
<1>6. \/ a = <<"local">>
      \/ a = r
      \/ allowPaid /\ a = <<"local">> \o r
  BY <1>2, <1>5 DEF Attempts, Providers
<1>7. CASE a = <<"local">>
  BY <1>4, <1>5, <1>7
<1>8. CASE a = r
  BY <1>3, <1>5, <1>8
<1>9. CASE allowPaid /\ a = <<"local">> \o r
  BY <1>1, <1>3, <1>5, <1>9, LocalFirst
<1> QED
  BY <1>6, <1>7, <1>8, <1>9

\* A list before its first attempt.
LEMMA FirstTry ==
    ASSUME NEW W, NEW a \in Seq(W), Listed(a)
    PROVE  Accounted(a, a, {}, {}, 0) /\ Underway(a, a, {}, {}, 0)
<1>1. Covers(a, a, {}, {})
  BY DEF Covers
<1>2. Accounted(a, a, {}, {}, 0)
  BY <1>1, Times DEF Accounted
<1>3. 0 <= LocalTry /\ 0 <= LocalTry + ClientTimeout
  BY Times
<1> QED
  BY <1>2, <1>3 DEF Underway

\* The first attempts of a completion.
LEMMA TriesStart == LlmInit => TriesOK
<1> SUFFICES ASSUME LlmInit PROVE TriesOK
  OBVIOUS
<1>1. PICK W : W = Models
  OBVIOUS
<1>2. clock = 0
  BY DEF LlmInit
<1>3. PICK provider, model, allowPaid, key, a :
        /\ provider \in Providers /\ model \in {"free", "m", Paid}
        /\ allowPaid \in BOOLEAN /\ key \in BOOLEAN
        /\ a = Attempts(provider, model, allowPaid, key)
        /\ llm = [pc |-> "try", all |-> a, left |-> a, late |-> {}, failed |-> {}]
  BY DEF LlmInit
<1>4. a \in Seq(W) /\ Listed(a)
  BY <1>1, <1>3, AttemptsLaw
<1>5. Accounted(a, a, {}, {}, 0) /\ Underway(a, a, {}, {}, 0)
  BY <1>4, FirstTry
<1>6. /\ llm.pc = "try" /\ llm.all = a /\ llm.left = a /\ llm.late = {} /\ llm.failed = {}
  BY <1>3
<1>7. llm \in Completions
  <2>1. PICK Q : Q = Seq(W)
    OBVIOUS
  <2>2. a \in Q
    BY <1>4, <2>1
  <2> QED
    BY <1>1, <1>3, <2>1, <2>2 DEF Completions
<1>8. IsFiniteSet({})
  BY FS_EmptySet
<1> QED
  BY <1>2, <1>5, <1>6, <1>7, <1>8 DEF TriesOK

\* The fields of a completion.
LEMMA LlmFields ==
    ASSUME TriesOK
    PROVE  /\ llm.all \in Seq(Models) /\ llm.left \in Seq(Models)
           /\ llm.late \in SUBSET Models /\ llm.failed \in SUBSET Models
<1>1. PICK Q : Q = Seq(Models)
  OBVIOUS
<1>2. llm \in [pc : {"try", "answer", "error"}, all : Q, left : Q, late : SUBSET Models, failed : SUBSET Models]
  BY <1>1 DEF TriesOK, Completions
<1> QED
  BY <1>1, <1>2

\* An attempt that fails keeps the account.
LEMMA TryFailsInv == ASSUME TriesOK, NEW t \in Nat, TryFails(t) PROVE TriesOK'
<1>1. /\ llm.pc = "try" /\ llm.left # << >> /\ t <= Limit(Head(llm.left)) /\ clock' = clock + t
      /\ llm' = [llm EXCEPT !.left = Tail(llm.left),
                            !.late = IF clock = Deadline THEN llm.late \cup {Head(llm.left)} ELSE llm.late,
                            !.failed = IF clock < Deadline THEN llm.failed \cup {Head(llm.left)} ELSE llm.failed]
  BY DEF TryFails
<1>2. PICK a, l, f, late, now : /\ a = llm.all /\ l = llm.left /\ f = llm.failed /\ late = llm.late
                                /\ now = clock
  OBVIOUS
<1>3. /\ a \in Seq(Models) /\ l \in Seq(Models) /\ l # << >> /\ late \in SUBSET Models /\ f \in SUBSET Models
      /\ IsFiniteSet(f) /\ now \in Nat /\ Accounted(a, l, f, late, now) /\ Underway(a, l, f, late, now)
  BY <1>1, <1>2, LlmFields DEF TriesOK
<1>4. Head(l) = l[1] /\ l[1] \in Models /\ Tail(l) \in Seq(Models)
  BY <1>3, TailOf
<1>5. PICK m, l2, f2, late2 : /\ m = l[1] /\ l2 = Tail(l)
                              /\ f2 = IF now < Deadline THEN f \cup {m} ELSE f
                              /\ late2 = IF now = Deadline THEN late \cup {m} ELSE late
  OBVIOUS
<1>6. llm' = [llm EXCEPT !.left = l2, !.late = late2, !.failed = f2]
  BY <1>1, <1>2, <1>4, <1>5
<1>7. /\ llm' \in Completions /\ llm'.pc = "try" /\ llm'.all = a /\ llm'.left = l2
      /\ llm'.late = late2 /\ llm'.failed = f2
  <2>1. PICK Q : Q = Seq(Models)
    OBVIOUS
  <2>2. llm \in [pc : {"try", "answer", "error"}, all : Q, left : Q, late : SUBSET Models, failed : SUBSET Models]
    BY <2>1 DEF TriesOK, Completions
  <2>3. l2 \in Q /\ late2 \in SUBSET Models /\ f2 \in SUBSET Models
    BY <1>3, <1>4, <1>5, <2>1
  <2>4. llm' \in [pc : {"try", "answer", "error"}, all : Q, left : Q, late : SUBSET Models, failed : SUBSET Models]
    BY <1>6, <2>2, <2>3
  <2> QED
    BY <1>1, <1>2, <1>6, <2>1, <2>2, <2>4 DEF Completions
<1>8. now <= Deadline
  BY <1>3 DEF Accounted
<1>9. PICK n : n = Len(a)
  OBVIOUS
<1>10. n \in Nat
  BY <1>3, <1>9
<1>11. PICK own : own = IF m # "local" THEN ClientTimeout ELSE IF n > 1 THEN LocalTry ELSE Deadline
  OBVIOUS
<1>12. t <= own /\ t <= Deadline - now
  <2>1. own \in Nat
    BY <1>11, Times
  <2>2. t <= IF own < Deadline - now THEN own ELSE Deadline - now
    BY <1>1, <1>2, <1>4, <1>5, <1>9, <1>11 DEF Limit
  <2> QED
    BY <1>3, <2>1, <2>2, Times
<1>13. CASE now < Deadline
  <2>1. f2 = f \cup {m} /\ late2 = late
    BY <1>3, <1>5, <1>13, Times
  <2>2. (m # "local" => t <= ClientTimeout) /\ (m = "local" /\ n > 1 => t <= LocalTry)
    BY <1>11, <1>12
  <2>3. Accounted(a, l2, f2, late2, now + t) /\ Underway(a, l2, f2, late2, now + t) /\ IsFiniteSet(f2)
    <3>1. (l[1] # "local" => t <= ClientTimeout) /\ (l[1] = "local" /\ Len(a) > 1 => t <= LocalTry)
      BY <1>5, <1>9, <2>2
    <3>2. /\ Accounted(a, Tail(l), f \cup {l[1]}, late, now + t)
          /\ Underway(a, Tail(l), f \cup {l[1]}, late, now + t)
          /\ IsFiniteSet(f \cup {l[1]})
      BY <1>3, <1>12, <1>13, <3>1, FailsInTime
    <3> QED
      BY <1>5, <2>1, <3>2
  <2>4. now + t \in Nat
    BY <1>3
  <2>5. clock' = now + t /\ llm'.pc # "error"
    BY <1>1, <1>2, <1>7
  <2> QED
    BY <1>7, <2>3, <2>4, <2>5 DEF TriesOK
<1>14. CASE now = Deadline
  <2>1. f2 = f /\ late2 = late \cup {m} /\ now + t = Deadline
    BY <1>3, <1>5, <1>12, <1>14, Times
  <2>2. Accounted(a, l2, f2, late2, Deadline) /\ Underway(a, l2, f2, late2, Deadline)
    BY <1>3, <1>5, <1>14, <2>1, FailsLate
  <2>3. clock' = Deadline /\ llm'.pc # "error"
    BY <1>1, <1>2, <1>7, <2>1
  <2> QED
    BY <1>3, <1>7, <2>1, <2>2, <2>3, Times DEF TriesOK
<1> QED
  BY <1>3, <1>8, <1>13, <1>14, Times

\* So does one that succeeds, and the error at the end of the list.
LEMMA TryEndsInv == ASSUME TriesOK, (\E t \in Nat : TrySucceeds(t)) \/ AllFailed PROVE TriesOK'
<1>1. ASSUME NEW t \in Nat, TrySucceeds(t) PROVE TriesOK'
  <2>1. /\ llm.left # << >> /\ t <= Limit(Head(llm.left)) /\ clock < Deadline /\ clock' = clock + t
        /\ llm' = [llm EXCEPT !.pc = "answer"]
    BY <1>1 DEF TrySucceeds
  <2>2. /\ llm' \in Completions /\ llm'.pc = "answer" /\ llm'.all = llm.all /\ llm'.left = llm.left
        /\ llm'.late = llm.late /\ llm'.failed = llm.failed
    BY <2>1 DEF TriesOK, Completions
  <2>3. clock \in Nat
    BY DEF TriesOK
  <2>4. t <= Deadline - clock
    <3>1. PICK own, m : /\ m = Head(llm.left)
                        /\ own = IF m # "local" THEN ClientTimeout
                                 ELSE IF Len(llm.all) > 1 THEN LocalTry ELSE Deadline
      OBVIOUS
    <3>2. own \in Nat
      BY <3>1, Times
    <3>3. t <= IF own < Deadline - clock THEN own ELSE Deadline - clock
      BY <2>1, <3>1 DEF Limit
    <3> QED
      BY <2>3, <3>2, <3>3, Times
  <2>5. Accounted(llm.all, llm.left, llm.failed, llm.late, clock + t)
    BY <2>1, <2>3, <2>4, Succeeds DEF TriesOK
  <2>6. clock + t \in Nat
    BY <2>3
  <2>7. llm'.pc # "try" /\ llm'.pc # "error"
    BY <2>2
  <2> QED
    BY <2>1, <2>2, <2>5, <2>6, <2>7 DEF TriesOK
<1>2. CASE AllFailed
  <2>1. llm.left = << >> /\ llm' = [llm EXCEPT !.pc = "error"] /\ clock' = clock
    BY <1>2 DEF AllFailed
  <2>2. /\ llm' \in Completions /\ llm'.pc = "error" /\ llm'.all = llm.all /\ llm'.left = llm.left
        /\ llm'.late = llm.late /\ llm'.failed = llm.failed
    BY <2>1 DEF TriesOK, Completions
  <2> QED
    BY <2>1, <2>2 DEF TriesOK
<1> QED
  BY <1>1, <1>2

\* The tokens of a stream, in a number of them.
Ordered(w, ch, coming) == \E n \in Nat : w \o (ch \o coming) = [i \in 1..n |-> i]

\* A token goes from one place to the next.
LEMMA TokenMoves ==
    ASSUME NEW S, NEW u \in Seq(S), NEW v \in Seq(S), v # << >>
    PROVE  /\ Append(u, Head(v)) \in Seq(S) /\ Tail(v) \in Seq(S)
           /\ Append(u, Head(v)) \o Tail(v) = u \o v
<1>1. /\ Tail(v) \in Seq(S) /\ Len(v) \in Nat /\ Len(v) >= 1 /\ Len(Tail(v)) = Len(v) - 1
      /\ Head(v) = v[1] /\ v[1] \in S
      /\ \A k \in 2..Len(v) : k - 1 \in 1..Len(Tail(v)) /\ Tail(v)[k - 1] = v[k]
  BY TailOf
<1>2. PICK h, w, x, y, z : /\ h = v[1] /\ w = Tail(v) /\ x = Append(u, h)
                           /\ y = x \o w /\ z = u \o v
  OBVIOUS
<1>3. /\ x \in Seq(S) /\ Len(u) \in Nat /\ Len(x) = Len(u) + 1 /\ x[Len(u) + 1] = h
      /\ \A i \in 1..Len(u) : x[i] = u[i]
  BY <1>1, <1>2
<1>4. /\ y \in Seq(S) /\ Len(y) = Len(x) + Len(w)
      /\ \A i \in 1..(Len(x) + Len(w)) : y[i] = IF i <= Len(x) THEN x[i] ELSE w[i - Len(x)]
  BY <1>1, <1>2, <1>3, ConcatProperties
<1>5. /\ z \in Seq(S) /\ Len(z) = Len(u) + Len(v)
      /\ \A i \in 1..(Len(u) + Len(v)) : z[i] = IF i <= Len(u) THEN u[i] ELSE v[i - Len(u)]
  BY <1>1, <1>2, ConcatProperties
<1>6. Len(y) = Len(z)
  BY <1>1, <1>2, <1>3, <1>4, <1>5
<1>7. ASSUME NEW i \in 1..Len(y) PROVE y[i] = z[i]
  <2>1. /\ y[i] = IF i <= Len(x) THEN x[i] ELSE w[i - Len(x)]
        /\ z[i] = IF i <= Len(u) THEN u[i] ELSE v[i - Len(u)]
    BY <1>4, <1>5, <1>6
  <2>2. CASE i <= Len(u)
    BY <1>3, <2>1, <2>2
  <2>3. CASE i = Len(u) + 1
    BY <1>2, <1>3, <2>1, <2>3
  <2>4. CASE i > Len(u) + 1
    <3>1. PICK k : k = i - Len(u)
      OBVIOUS
    <3>2. k \in 2..Len(v) /\ k - 1 = i - Len(x)
      BY <1>1, <1>2, <1>3, <1>4, <2>4, <3>1
    <3>3. w[k - 1] = v[k]
      BY <1>1, <1>2, <3>2
    <3> QED
      BY <1>3, <2>1, <2>4, <3>1, <3>2, <3>3
  <2> QED
    BY <1>3, <2>2, <2>3, <2>4
<1>8. y = z
  BY <1>4, <1>5, <1>6, <1>7, SeqEqual
<1> QED
  BY <1>1, <1>2, <1>3, <1>8

\* What comes after may stay where it is.
LEMMA Regrouped ==
    ASSUME NEW S, NEW w \in Seq(S), NEW ch \in Seq(S), NEW w2 \in Seq(S), NEW ch2 \in Seq(S),
           NEW coming \in Seq(S)
    PROVE  w2 \o ch2 = w \o ch /\ Ordered(w, ch, coming) => Ordered(w2, ch2, coming)
<1>1. (w2 \o ch2) \o coming = w2 \o (ch2 \o coming)
  BY SMTT(30), ConcatAssociative
<1>2. (w \o ch) \o coming = w \o (ch \o coming)
  BY SMTT(30), ConcatAssociative
<1> QED
  BY <1>1, <1>2 DEF Ordered

\* The two ways a token goes.
LEMMA OrderedMoves ==
    ASSUME NEW S, NEW w \in Seq(S), NEW ch \in Seq(S), NEW coming \in Seq(S), Ordered(w, ch, coming)
    PROVE  /\ coming # << >> => /\ Append(ch, Head(coming)) \in Seq(S) /\ Tail(coming) \in Seq(S)
                                /\ Ordered(w, Append(ch, Head(coming)), Tail(coming))
           /\ ch # << >> => /\ Append(w, Head(ch)) \in Seq(S) /\ Tail(ch) \in Seq(S)
                            /\ Ordered(Append(w, Head(ch)), Tail(ch), coming)
<1>1. ASSUME coming # << >>
      PROVE  /\ Append(ch, Head(coming)) \in Seq(S) /\ Tail(coming) \in Seq(S)
             /\ Ordered(w, Append(ch, Head(coming)), Tail(coming))
  <2>1. Append(ch, Head(coming)) \o Tail(coming) = ch \o coming
    BY <1>1, TokenMoves
  <2> QED
    BY <1>1, <2>1, TokenMoves DEF Ordered
<1>2. ASSUME ch # << >>
      PROVE  /\ Append(w, Head(ch)) \in Seq(S) /\ Tail(ch) \in Seq(S)
             /\ Ordered(Append(w, Head(ch)), Tail(ch), coming)
  <2>1. PICK w2, ch2 : w2 = Append(w, Head(ch)) /\ ch2 = Tail(ch)
    OBVIOUS
  <2>2. w2 \in Seq(S) /\ ch2 \in Seq(S)
    BY <1>2, <2>1, TokenMoves
  <2>5. w2 \o ch2 = w \o ch
    BY <1>2, <2>1, TokenMoves
  <2>3. Ordered(w2, ch2, coming)
    BY <2>2, <2>5, Regrouped
  <2> QED
    BY <2>1, <2>2, <2>3
<1> QED
  BY <1>1, <1>2

Streams == [pc : {"send", "closing", "ended"}, coming : Seq(Nat), ch : Seq(Nat), closed : BOOLEAN,
            written : Seq(Nat), over : BOOLEAN, done : BOOLEAN]

\* The fields of a stream.
LEMMA StreamFields ==
    ASSUME LlmIInv, stream.pc # "none"
    PROVE  /\ stream \in Streams /\ stream.coming \in Seq(Nat) /\ stream.ch \in Seq(Nat)
           /\ stream.written \in Seq(Nat)
           /\ Ordered(stream.written, stream.ch, stream.coming)
<1>1. PICK Q : Q = Seq(Nat)
  OBVIOUS
<1>2. stream \in [pc : {"send", "closing", "ended"}, coming : Q, ch : Q, closed : BOOLEAN,
                  written : Q, over : BOOLEAN, done : BOOLEAN]
  BY <1>1 DEF LlmIInv, StreamOK
<1>3. Ordered(stream.written, stream.ch, stream.coming)
  BY DEF LlmIInv, StreamOK, Ordered
<1> QED
  BY <1>1, <1>2, <1>3 DEF Streams

\* A step of the stream that leaves its tokens where they are, or in order.
LEMMA StreamMove ==
    ASSUME LlmIInv, stream' \in Streams, UNCHANGED <<llm, clock>>,
           Ordered(stream'.written, stream'.ch, stream'.coming)
    PROVE  LlmIInv'
<1>1. TriesOK'
  BY DEF LlmIInv, TriesOK
<1>2. stream'.pc # "none"
  <2>1. PICK Q : Q = Seq(Nat)
    OBVIOUS
  <2> QED
    BY <2>1 DEF Streams
<1>3. StreamOK'
  BY DEF StreamOK, Streams, Ordered
<1> QED
  BY <1>1, <1>2, <1>3 DEF LlmIInv

\* A step that only marks the stream.
LEMMA MarkInv ==
    ASSUME LlmIInv, StreamCancelled \/ StopSending \/ CloseChannel \/ WriteResult PROVE LlmIInv'
<1>1. stream.pc # "none" /\ UNCHANGED <<llm, clock>>
  BY DEF StreamCancelled, StopSending, CloseChannel, WriteResult
<1>2. PICK Q : Q = Seq(Nat)
  OBVIOUS
<1>3. stream \in [pc : {"send", "closing", "ended"}, coming : Q, ch : Q, closed : BOOLEAN,
                  written : Q, over : BOOLEAN, done : BOOLEAN]
  BY <1>1, <1>2, StreamFields DEF Streams
<1>4. /\ stream' \in [pc : {"send", "closing", "ended"}, coming : Q, ch : Q, closed : BOOLEAN,
                      written : Q, over : BOOLEAN, done : BOOLEAN]
      /\ stream'.written = stream.written /\ stream'.ch = stream.ch /\ stream'.coming = stream.coming
  <2>1. CASE StreamCancelled
    BY <1>3, <2>1 DEF StreamCancelled
  <2>2. CASE StopSending
    BY <1>3, <2>2 DEF StopSending
  <2>3. CASE CloseChannel
    BY <1>3, <2>3 DEF CloseChannel
  <2>4. CASE WriteResult
    BY <1>3, <2>4 DEF WriteResult
  <2> QED
    BY <2>1, <2>2, <2>3, <2>4
<1>5. stream' \in Streams
  BY <1>2, <1>4 DEF Streams
<1>6. Ordered(stream'.written, stream'.ch, stream'.coming)
  BY <1>1, <1>4, StreamFields
<1> QED
  BY <1>1, <1>5, <1>6, StreamMove

\* The goroutine sends a token, or the handler writes one.
LEMMA TokenInv == ASSUME LlmIInv, Send \/ WriteToken PROVE LlmIInv'
<1>1. stream.pc # "none" /\ UNCHANGED <<llm, clock>>
  BY DEF Send, WriteToken
<1>2. PICK S, Q : S = Nat /\ Q = Seq(S)
  OBVIOUS
<1>3. PICK w, ch, c : w = stream.written /\ ch = stream.ch /\ c = stream.coming
  OBVIOUS
<1>4. /\ stream \in [pc : {"send", "closing", "ended"}, coming : Q, ch : Q, closed : BOOLEAN,
                     written : Q, over : BOOLEAN, done : BOOLEAN]
      /\ w \in Seq(S) /\ ch \in Seq(S) /\ c \in Seq(S) /\ Ordered(w, ch, c)
  BY <1>1, <1>2, <1>3, StreamFields DEF Streams
<1>5. ASSUME NEW w2 \in Seq(S), NEW ch2 \in Seq(S), NEW c2 \in Seq(S), Ordered(w2, ch2, c2),
             stream' = [stream EXCEPT !.written = w2, !.ch = ch2, !.coming = c2]
      PROVE  LlmIInv'
  <2>1. w2 \in Q /\ ch2 \in Q /\ c2 \in Q
    BY <1>2
  <2>2. /\ stream' \in [pc : {"send", "closing", "ended"}, coming : Q, ch : Q, closed : BOOLEAN,
                        written : Q, over : BOOLEAN, done : BOOLEAN]
        /\ stream'.written = w2 /\ stream'.ch = ch2 /\ stream'.coming = c2
    BY <1>4, <1>5, <2>1
  <2>3. stream' \in Streams
    BY <1>2, <2>2 DEF Streams
  <2> QED
    BY <1>1, <1>5, <2>2, <2>3, StreamMove
<1>6. CASE Send
  <2>1. c # << >> /\ stream' = [stream EXCEPT !.coming = Tail(c), !.ch = Append(ch, Head(c))]
    BY <1>3, <1>6 DEF Send
  <2>2. PICK c2, ch2 : c2 = Tail(c) /\ ch2 = Append(ch, Head(c))
    OBVIOUS
  <2>3. c2 \in Seq(S) /\ ch2 \in Seq(S) /\ Ordered(w, ch2, c2)
    BY <1>4, <2>1, <2>2, OrderedMoves
  <2>4. stream' = [stream EXCEPT !.written = w, !.ch = ch2, !.coming = c2]
    BY <1>3, <1>4, <2>1, <2>2
  <2> QED
    BY <1>4, <1>5, <2>3, <2>4
<1>7. CASE WriteToken
  <2>1. ch # << >> /\ stream' = [stream EXCEPT !.ch = Tail(ch), !.written = Append(w, Head(ch))]
    BY <1>3, <1>7 DEF WriteToken
  <2>2. PICK w2, ch2 : w2 = Append(w, Head(ch)) /\ ch2 = Tail(ch)
    OBVIOUS
  <2>3. w2 \in Seq(S) /\ ch2 \in Seq(S) /\ Ordered(w2, ch2, c)
    BY <1>4, <2>1, <2>2, OrderedMoves
  <2>4. stream' = [stream EXCEPT !.written = w2, !.ch = ch2, !.coming = c]
    BY <1>3, <1>4, <2>1, <2>2
  <2> QED
    BY <1>4, <1>5, <2>3, <2>4
<1> QED
  BY <1>6, <1>7

\* A stream begins with the tokens in their order.
LEMMA StreamStartsInv == ASSUME LlmIInv, StreamStarts PROVE LlmIInv'
<1>1. PICK n \in 0..MaxTokens :
          stream' = [pc |-> "send", coming |-> [i \in 1..n |-> i], ch |-> <<>>, closed |-> FALSE,
                     written |-> <<>>, over |-> FALSE, done |-> FALSE]
  BY DEF StreamStarts
<1>2. PICK c : c = [i \in 1..n |-> i]
  OBVIOUS
<1>3. n \in Nat
  BY <1>1
<1>4. c \in Seq(Nat) /\ << >> \in Seq(Nat)
  BY <1>2, <1>3
<1>5. << >> \o (<< >> \o c) = c
  BY <1>4
<1>6. stream' = [pc |-> "send", coming |-> c, ch |-> <<>>, closed |-> FALSE,
                 written |-> <<>>, over |-> FALSE, done |-> FALSE]
  BY <1>1, <1>2
<1>7. stream' \in Streams /\ stream'.coming = c /\ stream'.ch = << >> /\ stream'.written = << >>
  <2>1. PICK Q : Q = Seq(Nat)
    OBVIOUS
  <2>2. c \in Q /\ << >> \in Q
    BY <1>4, <2>1
  <2> QED
    BY <1>6, <2>1, <2>2 DEF Streams
<1>8. Ordered(stream'.written, stream'.ch, stream'.coming)
  BY <1>2, <1>3, <1>5, <1>7 DEF Ordered
<1>9. UNCHANGED <<llm, clock>>
  BY DEF StreamStarts
<1> QED
  BY <1>7, <1>8, <1>9, StreamMove

\* The invariant says what the run checks.
LEMMA LlmEnough == LlmIInv => LlmInv
<1> SUFFICES ASSUME LlmIInv PROVE LlmInv
  OBVIOUS
<1>1. /\ TriesOK /\ llm.left \in Seq(Models) /\ Accounted(llm.all, llm.left, llm.failed, llm.late, clock)
  BY LlmFields DEF LlmIInv, TriesOK
<1>2. TriedInTime
  <2>1. clock <= Deadline
    BY <1>1 DEF Accounted
  <2>2. ASSUME llm.pc = "error", NEW i \in 1..Len(llm.all)
        PROVE  llm.all[i] \in llm.failed \/ (llm.all[i] \in llm.late /\ clock = Deadline)
    <3>1. llm.left = << >>
      BY <1>1, <2>2 DEF TriesOK
    <3>2. \A k \in 1..Len(llm.left) : FALSE
      BY <3>1
    <3> QED
      BY <1>1, <2>2, <3>2 DEF Accounted, Covers
  <2> QED
    BY <2>1, <2>2 DEF TriedInTime
<1>3. CloudHasTime
  BY <1>1 DEF CloudHasTime, Accounted
<1>4. TokensInOrder
  <2> SUFFICES ASSUME stream.pc # "none"
               PROVE  stream.written \o stream.ch \o stream.coming =
                        [i \in 1..Len(stream.written \o stream.ch \o stream.coming) |-> i]
    BY DEF TokensInOrder
  <2>1. PICK S : S = Nat
    OBVIOUS
  <2>2. PICK w, ch, c : w = stream.written /\ ch = stream.ch /\ c = stream.coming
    OBVIOUS
  <2>3. w \in Seq(S) /\ ch \in Seq(S) /\ c \in Seq(S) /\ Ordered(w, ch, c)
    BY <2>1, <2>2, StreamFields
  <2>4. PICK n \in Nat : w \o (ch \o c) = [i \in 1..n |-> i]
    BY <2>3 DEF Ordered
  <2>5. (w \o ch) \o c = w \o (ch \o c)
    BY <2>3, ConcatAssociative
  <2>6. Len([i \in 1..n |-> i]) = n
    BY <2>4
  <2> QED
    BY <2>2, <2>4, <2>5, <2>6
<1> QED
  BY <1>2, <1>3, <1>4 DEF LlmInv

\* Whatever the models and the clients do, a completion gives up only when every
\* model failed or time ran out, a hung local server leaves the cloud its time,
\* and tokens arrive in order.
THEOREM LlmInvariance == LlmSpec => []LlmInv
<1>1. LlmInit => LlmIInv
  <2> SUFFICES ASSUME LlmInit PROVE LlmIInv
    OBVIOUS
  <2>1. stream = NoStream /\ NoStream.pc = "none"
    BY DEF LlmInit, NoStream
  <2> QED
    BY <2>1, TriesStart DEF LlmIInv, StreamOK
<1>2. LlmIInv /\ [LlmNext]_llmVars => LlmIInv'
  <2> SUFFICES ASSUME LlmIInv, [LlmNext]_llmVars PROVE LlmIInv'
    OBVIOUS
  <2>1. CASE UNCHANGED llmVars
    BY <2>1 DEF llmVars, LlmIInv, TriesOK, StreamOK
  <2>2. CASE Completing
    <3>1. stream' = stream
      BY <2>2 DEF Completing, AllFailed, TryFails, TrySucceeds
    <3>2. \A t \in 0..Deadline : t \in Nat
      BY Times
    <3>3. TriesOK'
      BY <2>2, <3>2, TryFailsInv, TryEndsInv DEF Completing, LlmIInv
    <3> QED
      BY <3>1, <3>3 DEF LlmIInv, StreamOK
  <2>3. CASE StreamStarts \/ StreamCancelled \/ Streaming
    BY <2>3, StreamStartsInv, MarkInv, TokenInv DEF Streaming
  <2> QED
    BY <2>1, <2>2, <2>3 DEF LlmNext
<1>3. LlmIInv => LlmInv
  BY LlmEnough
<1> QED
  BY <1>1, <1>2, <1>3, PTL DEF LlmSpec
=============================================================================
