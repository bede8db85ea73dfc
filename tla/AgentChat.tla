------------------------------ MODULE AgentChat ------------------------------
(***************************************************************************)
(* The assistant behind /agent/chat and /agent/stream (internal/agent/     *)
(* handler.go, memory.go): one agent a process, whose gate every chat      *)
(* replaces by one with its caller's scope and puts back at its end, with  *)
(* no lock around it; the histories of sessions, which a loop drops every  *)
(* thirty minutes; and the memory, a file that processes sharing a volume  *)
(* rewrite in place under a mutex of the process and an flock of the file. *)
(*                                                                         *)
(* A gate is told by the chat whose scope it carries; the gate InitAgent   *)
(* installs carries none and lets nobody but an administrator through.     *)
(* The language model and the databases answer anything (module LlmClient, *)
(* ConnectionManager).                                                     *)
(***************************************************************************)
EXTENDS Naturals, Sequences, FiniteSets

CONSTANTS
    Procs, Chats,
    ProcOf,         \* the process that serves a chat
    Conns,
    ScopeOf,        \* the connections a caller may touch
    Sessions,
    MaxHistory,     \* maxHistory
    MaxMemory,      \* entries Remember keeps
    MaxChats, MaxWipes, MaxCrashes, MaxFaults   \* bounds on what happens

ASSUME ChatAssumption ==
    /\ ProcOf \in [Chats -> Procs] /\ ScopeOf \in [Chats -> SUBSET Conns]
    /\ IsFiniteSet(Chats) /\ {"nobody", "torn"} \cap Chats = {} /\ Chats \cap Procs = {}
    /\ MaxHistory \in Nat \ {0} /\ MaxMemory \in Nat

VARIABLES
    gate,           \* agent.gate of each process
    sessions,       \* agent.sessions of each process
    mutex,          \* MemoryStore.mu of each process
    flock,          \* the lock of the file
    file,           \* the memory's entries, or Torn
    chat,           \* the chats
    told,           \* history: entries written since the file was last damaged
    met,            \* history: chats that were not alone in their process, and the process
    begun, wipes, crashes, faults

vars == <<gate, sessions, mutex, flock, file, chat, told, met, begun, wipes, crashes, faults>>
memory == <<mutex, flock, file, told>>
bounds == <<begun, wipes, crashes, faults>>

Nobody == "nobody"
Torn == <<"torn">>
NoTurns == [s \in Sessions |-> <<>>]
Idle == [pc |-> "idle"]

Under(q) == chat[q].pc # "idle"
LastOf(s, n) == SubSeq(s, IF Len(s) > n THEN Len(s) - n + 1 ELSE 1, Len(s))
Go(q, pc) == chat' = [chat EXCEPT ![q].pc = pc]
Scope(g) == IF g = Nobody THEN {} ELSE ScopeOf[g]

Init ==
    /\ gate = [p \in Procs |-> Nobody]
    /\ sessions = [p \in Procs |-> NoTurns]
    /\ mutex = [p \in Procs |-> Nobody] /\ flock = Nobody
    /\ file = <<>> /\ told = <<>>
    /\ chat = [q \in Chats |-> Idle] /\ met = {}
    /\ begun = 0 /\ wipes = 0 /\ crashes = 0 /\ faults = 0

-----------------------------------------------------------------------------
(* HandleChat. *)

\* agent.gate is read for the gate to put back ...
Begin(q) ==
    /\ ~Under(q) /\ begun < MaxChats
    /\ begun' = begun + 1
    /\ \E s \in Sessions :
          chat' = [chat EXCEPT ![q] = [pc |-> "bind", session |-> s, old |-> gate[ProcOf[q]],
                                       load |-> <<>>, ran |-> {}, refused |-> {}]]
    /\ LET others == {p \in Chats \ {q} : Under(p) /\ ProcOf[p] = ProcOf[q]} IN
       met' = IF others = {} THEN met \ {q} ELSE met \cup others \cup {q, ProcOf[q]}
    /\ UNCHANGED <<gate, sessions, memory, wipes, crashes, faults>>

\* ... and replaced by one with the caller's scope.
Bind(q) ==
    /\ chat[q].pc = "bind"
    /\ gate' = [gate EXCEPT ![ProcOf[q]] = q]
    /\ Go(q, "turn")
    /\ UNCHANGED <<sessions, memory, met, bounds>>

UserTurn(q) ==
    /\ chat[q].pc = "turn"
    /\ sessions' = [sessions EXCEPT ![ProcOf[q]][chat[q].session] =
           Append(IF Len(@) >= MaxHistory THEN LastOf(@, MaxHistory \div 2) ELSE @, <<"user", q>>)]
    /\ Go(q, "mutex")
    /\ UNCHANGED <<gate, memory, met, bounds>>

AssistantTurn(q) ==
    /\ chat[q].pc = "answer"
    /\ sessions' = [sessions EXCEPT ![ProcOf[q]][chat[q].session] = Append(@, <<"assistant", q>>)]
    /\ Go(q, "restore")
    /\ UNCHANGED <<gate, memory, met, bounds>>

\* Mutation: an error returns before the gate is put back.
RestoreOnSuccess(q) ==
    /\ chat[q].pc = "restore"
    /\ gate' = IF chat[q].refused = {} THEN [gate EXCEPT ![ProcOf[q]] = chat[q].old] ELSE gate
    /\ chat' = [chat EXCEPT ![q] = Idle]
    /\ UNCHANGED <<sessions, memory, met, bounds>>

\* The deferred function, on every way out.
Restore(q) ==
    /\ chat[q].pc = "restore"
    /\ gate' = [gate EXCEPT ![ProcOf[q]] = chat[q].old]
    /\ chat' = [chat EXCEPT ![q] = Idle]
    /\ UNCHANGED <<sessions, memory, met, bounds>>

-----------------------------------------------------------------------------
(* The memory: Remember, then ContextPrompt while the prompt is built. *)

Mutex(q) ==
    /\ chat[q].pc \in {"mutex", "mutex2"} /\ mutex[ProcOf[q]] = Nobody
    /\ mutex' = [mutex EXCEPT ![ProcOf[q]] = q]
    /\ Go(q, IF chat[q].pc = "mutex" THEN "flock" ELSE "flock2")
    /\ UNCHANGED <<gate, sessions, flock, file, told, met, bounds>>

Flock(q) ==
    /\ chat[q].pc \in {"flock", "flock2"} /\ flock = Nobody
    /\ flock' = q
    /\ Go(q, IF chat[q].pc = "flock" THEN "read" ELSE "recall")
    /\ UNCHANGED <<gate, sessions, mutex, file, told, met, bounds>>

\* A file that does not parse is read as no entries.
Load(q) ==
    /\ chat[q].pc = "read"
    /\ chat' = [chat EXCEPT ![q].pc = "open",
                            ![q].load = LastOf(Append(IF file = Torn THEN <<>> ELSE file, q), MaxMemory)]
    /\ UNCHANGED <<gate, sessions, memory, met, bounds>>

Truncate(q) ==
    /\ chat[q].pc = "open"
    /\ file' = Torn
    /\ Go(q, "write")
    /\ UNCHANGED <<gate, sessions, mutex, flock, told, met, bounds>>

Release(q) ==
    /\ mutex' = [mutex EXCEPT ![ProcOf[q]] = Nobody]
    /\ flock' = IF flock = q THEN Nobody ELSE flock

Written(q) ==
    /\ chat[q].pc = "write"
    /\ file' = chat[q].load
    /\ told' = LastOf(Append(told, q), MaxMemory)
    /\ Release(q) /\ Go(q, "mutex2")
    /\ UNCHANGED <<gate, sessions, met, bounds>>

\* The error is dropped; the chat goes on.
WriteFails(q) ==
    /\ chat[q].pc = "write" /\ faults < MaxFaults
    /\ faults' = faults + 1
    /\ told' = <<>>
    /\ Release(q) /\ Go(q, "mutex2")
    /\ UNCHANGED <<gate, sessions, file, met, begun, wipes, crashes>>

Recall(q) ==
    /\ chat[q].pc = "recall"
    /\ Release(q) /\ Go(q, "decide")
    /\ UNCHANGED <<gate, sessions, file, told, met, bounds>>

-----------------------------------------------------------------------------
(* decideTool and executeTool. *)

\* The model names a tool, or fails: then no turn is added.
Decide(q) ==
    /\ chat[q].pc = "decide"
    /\ \E pc \in {"tool", "schema", "restore"} : Go(q, pc)
    /\ UNCHANGED <<gate, sessions, memory, met, bounds>>

\* One call through whatever gate the agent has now; nl2sql makes two of them
\* on one connection, with the model between.
Through(q, c, then) ==
    LET g == gate[ProcOf[q]] IN
    /\ chat' = [chat EXCEPT ![q] =
           IF c \in Scope(g) THEN [chat[q] EXCEPT !.pc = then, !.ran = chat[q].ran \cup {c}]
           ELSE [chat[q] EXCEPT !.pc = "restore", !.refused = chat[q].refused \cup {c}]]
    /\ UNCHANGED <<gate, sessions, memory, met, bounds>>

Tool(q) == chat[q].pc = "tool" /\ \E c \in Conns : Through(q, c, "answer")
Schema(q) == chat[q].pc = "schema" /\ \E c \in Conns : Through(q, c, "sql")
WriteSql(q) ==
    /\ chat[q].pc = "sql"
    /\ \E pc \in {"query", "restore"} : Go(q, pc)
    /\ UNCHANGED <<gate, sessions, memory, met, bounds>>
Query(q) == chat[q].pc = "query" /\ \E c \in chat[q].ran : Through(q, c, "answer")

\* list_connections, and a call the database answers with an error.
ToolAnswers(q) ==
    /\ chat[q].pc = "tool"
    /\ \E pc \in {"answer", "restore"} : Go(q, pc)
    /\ UNCHANGED <<gate, sessions, memory, met, bounds>>

Chatting(q) ==
    \/ Bind(q) \/ UserTurn(q)
    \/ Mutex(q) \/ Flock(q) \/ Load(q) \/ Truncate(q) \/ Written(q) \/ WriteFails(q) \/ Recall(q)
    \/ Decide(q) \/ Tool(q) \/ Schema(q) \/ WriteSql(q) \/ Query(q) \/ ToolAnswers(q)
    \/ AssistantTurn(q) \/ Restore(q)

-----------------------------------------------------------------------------
\* cleanupLoop: all sessions of the process, also those with a chat under way.
Wipe(p) ==
    /\ wipes < MaxWipes
    /\ wipes' = wipes + 1
    /\ sessions' = [sessions EXCEPT ![p] = NoTurns]
    /\ UNCHANGED <<gate, memory, chat, met, begun, crashes, faults>>

\* The process ends and starts again; the kernel releases its flock.
Crash(p) ==
    /\ crashes < MaxCrashes
    /\ crashes' = crashes + 1
    /\ gate' = [gate EXCEPT ![p] = Nobody]
    /\ sessions' = [sessions EXCEPT ![p] = NoTurns]
    /\ mutex' = [mutex EXCEPT ![p] = Nobody]
    /\ flock' = IF flock # Nobody /\ ProcOf[flock] = p THEN Nobody ELSE flock
    /\ told' = IF \E q \in Chats : ProcOf[q] = p /\ chat[q].pc = "write" THEN <<>> ELSE told
    /\ chat' = [q \in Chats |-> IF ProcOf[q] = p THEN Idle ELSE chat[q]]
    /\ met' = met \ {p}
    /\ UNCHANGED <<file, begun, wipes, faults>>

Next ==
    \/ \E q \in Chats : Begin(q) \/ Chatting(q)
    \/ \E p \in Procs : Wipe(p) \/ Crash(p)

Fairness == \A q \in Chats : SF_vars(Chatting(q))
Spec == Init /\ [][Next]_vars /\ Fairness

-----------------------------------------------------------------------------
TypeOK ==
    /\ gate \in [Procs -> Chats \cup {Nobody}]
    /\ \A p \in Procs : \A s \in Sessions : sessions[p][s] \in Seq({"user", "assistant"} \X Chats)
    /\ file = Torn \/ file \in Seq(Chats)
    /\ \A q \in Chats : mutex[ProcOf[q]] = q <=> chat[q].pc \in
           {"flock", "read", "open", "write", "flock2", "recall"}
    /\ \A q \in Chats : flock = q <=> chat[q].pc \in {"read", "open", "write", "recall"}

\* A chat that was alone in its process from its beginning to its end reached
\* no connection outside its caller's scope and was refused none inside it;
\* and a process whose chats were always alone is left with the gate InitAgent
\* gave it.
AloneOwnScope ==
    /\ \A q \in Chats \ met :
          Under(q) => chat[q].ran \subseteq ScopeOf[q] /\ chat[q].refused \cap ScopeOf[q] = {}
    /\ \A p \in Procs \ met :
          (\A q \in Chats : ProcOf[q] = p => ~Under(q)) => gate[p] = Nobody

\* What was remembered stays remembered, up to the number of entries kept: two
\* chats of one process or of two never write over each other's entry, as long
\* as no write is cut short.
MemoryKept == flock = Nobody /\ told # <<>> => file = told

\* A history grows past maxHistory by answers only, and by no more of them
\* than there can be chats under way: each question shortens it first.
HistoriesHold ==
    \A p \in Procs : \A s \in Sessions :
        LET h == sessions[p][s]
            asked == {i \in 1..Len(h) : h[i][1] = "user"}
        IN  /\ \A i \in asked : i <= MaxHistory
            /\ asked # {} =>
                 Len(h) <= MaxHistory + Cardinality({q \in Chats : ProcOf[q] = p})

\* Whose scope a chat runs in, the locks, the memory and the histories.
ChatInv == TypeOK /\ AloneOwnScope /\ MemoryKept /\ HistoriesHold

\* Every chat ends, whatever waits for the locks of the memory.
ChatsEnd == <>[](\A q \in Chats : ~Under(q))
=============================================================================
