----------------------------- MODULE MCAssistant -----------------------------
\* Instance for TLC of the assistant's three parts.  They share no state, so
\* each is run by itself: "bench" says which.
EXTENDS AgentChat, McpGate, LlmClient, TLC

CONSTANTS p1, p2, q1, q2, q3, c1, c2, r1, r2

VARIABLE bench

MCProcOf == q1 :> p1 @@ q2 :> p1 @@ q3 :> p2
MCScopeOf == q1 :> {c1} @@ q2 :> {c2} @@ q3 :> {c1}
MCCallerOf == r1 :> {c1} @@ r2 :> {c1, c2}
MCHeaderOf == r1 :> {} @@ r2 :> {c2}
MCFreeModels == <<"f1", "f2", "f3">>

MCInit ==
    /\ Init /\ McpInit /\ LlmInit
    /\ \/ bench = "chat" /\ llm.all = <<"local">>
       \/ bench = "mcp" /\ llm.all = <<"local">>
       \/ bench = "llm"
MCNext ==
    /\ UNCHANGED bench
    /\ \/ bench = "chat" /\ Next /\ UNCHANGED <<mcpVars, llmVars>>
       \/ bench = "mcp" /\ McpNext /\ UNCHANGED <<vars, llmVars>>
       \/ bench = "llm" /\ LlmNext /\ UNCHANGED <<vars, mcpVars>>

\* Every chat, and the goroutines of a stream, are scheduled again and again.
MCSpec == MCInit /\ [][MCNext]_<<vars, mcpVars, llmVars, bench>> /\ Fairness /\ WF_llmVars(Streaming)

\* Every chat ends, and so does every stream.
WorkEnds == ChatsEnd /\ StreamEnds

=============================================================================
