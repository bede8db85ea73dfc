-------------------------------- MODULE McpGate --------------------------------
(***************************************************************************)
(* The MCP endpoint (internal/mcp/httphandler.go, server.go, HandleMCP in  *)
(* internal/api/handler/agent.go): one gate for the requests under way,    *)
(* requestGate, which HandleMCP sets to the caller's scope and             *)
(* HTTPHandlerWithScope sets again, from headers, for the same request;    *)
(* each puts back what it found.  The tool runs on a session of its own    *)
(* and asks for the gate twice, once to check and once to call.  After     *)
(* thirty seconds the handler gives up while the tool may go on: what the  *)
(* SDK does with a handler whose session closes is not this code's to say. *)
(*                                                                         *)
(* A gate is told by the request and the handler that set it.              *)
(***************************************************************************)
EXTENDS Naturals, FiniteSets

CONSTANTS
    McpReqs, McpConns,
    CallerOf,       \* db_access of a request's caller, from its token
    HeaderOf,       \* the scope its X-Effective-DBAccess names; nothing in front
                    \* of this route sets the header, so mostly none
    MaxMcp          \* bound on requests

ASSUME McpScopes ==
    /\ CallerOf \in [McpReqs -> SUBSET McpConns] /\ HeaderOf \in [McpReqs -> SUBSET McpConns]
    /\ "server" \notin McpReqs

VARIABLES
    requestGate, mcp, tool,
    together,       \* history: requests whose handler or tool was not alone
    asked

mcpVars == <<requestGate, mcp, tool, together, asked>>

NoGate == <<"none", "none">>
McpIdle == [pc |-> "idle"]
NoTool == [pc |-> "none", ran |-> {}, refused |-> {}]

\* connectionManager, without a scope, when no request has set a gate.
getGate ==
    CASE requestGate[2] = "caller" -> CallerOf[requestGate[1]]
      [] requestGate[2] = "header" -> HeaderOf[requestGate[1]]
      [] OTHER -> {}

Busy(r) == mcp[r].pc # "idle" \/ tool[r].pc \notin {"none", "done"}
McpGo(r, pc) == mcp' = [mcp EXCEPT ![r].pc = pc]

McpInit ==
    /\ requestGate = NoGate
    /\ mcp = [r \in McpReqs |-> McpIdle] /\ tool = [r \in McpReqs |-> NoTool]
    /\ together = {} /\ asked = 0

\* HandleMCP.
SetCallerGate(r) ==
    /\ ~Busy(r) /\ asked < MaxMcp
    /\ asked' = asked + 1
    /\ mcp' = [mcp EXCEPT ![r] = [pc |-> "header", outer |-> requestGate, inner |-> NoGate]]
    /\ requestGate' = <<r, "caller">>
    /\ tool' = [tool EXCEPT ![r] = NoTool]
    /\ LET others == {q \in McpReqs \ {r} : Busy(q)} IN
       together' = IF others = {} THEN together \ {r} ELSE together \cup others \cup {r, "server"}

\* HTTPHandlerWithScope.
SetHeaderGate(r) ==
    /\ mcp[r].pc = "header"
    /\ mcp' = [mcp EXCEPT ![r].pc = "serve", ![r].inner = requestGate]
    /\ requestGate' = <<r, "header">>
    /\ UNCHANGED <<tool, together, asked>>

\* HTTPHandler: a wrong method, key or body ends the request ...
RefuseRequest(r) ==
    /\ mcp[r].pc = "serve"
    /\ McpGo(r, "restore")
    /\ UNCHANGED <<requestGate, tool, together, asked>>

\* ... and otherwise the tool is called and waited for.
CallTool(r) ==
    /\ mcp[r].pc = "serve"
    /\ McpGo(r, "wait")
    /\ \E pc \in {"check", "list", "nl2sql", "nameless"} : tool' = [tool EXCEPT ![r].pc = pc]
    /\ UNCHANGED <<requestGate, together, asked>>

ToolChecks(r) ==
    /\ tool[r].pc = "check"
    /\ \E c \in McpConns :
          tool' = [tool EXCEPT ![r] = IF c \in getGate THEN [@ EXCEPT !.pc = "call", !.ran = {c}]
                                      ELSE [@ EXCEPT !.pc = "done", !.refused = {c}]]
    /\ UNCHANGED <<requestGate, mcp, together, asked>>

\* The gate checks the connection again (GuardGate).
ToolCalls(r) ==
    /\ tool[r].pc = "call"
    /\ tool' = [tool EXCEPT ![r] = IF @.ran \subseteq getGate THEN [@ EXCEPT !.pc = "done"]
                                   ELSE [@ EXCEPT !.pc = "done", !.ran = {}, !.refused = tool[r].ran]]
    /\ UNCHANGED <<requestGate, mcp, together, asked>>

\* list_connections shows what the gate lets through; nl2sql asks no gate; the
\* tools that list tables, schemas and databases look for "ConnectionID" where
\* they ask for "connection_id", so they reach no connection at all.
ToolLists(r) ==
    /\ tool[r].pc \in {"list", "nl2sql", "nameless"}
    /\ tool' = [tool EXCEPT ![r].ran = IF tool[r].pc = "list" THEN getGate ELSE {}, ![r].pc = "done"]
    /\ UNCHANGED <<requestGate, mcp, together, asked>>

ToolDone(r) ==
    /\ mcp[r].pc = "wait" /\ tool[r].pc = "done"
    /\ McpGo(r, "restore")
    /\ UNCHANGED <<requestGate, tool, together, asked>>

Timeout(r) ==
    /\ mcp[r].pc = "wait" /\ tool[r].pc # "done"
    /\ McpGo(r, "restore")
    /\ UNCHANGED <<requestGate, tool, together, asked>>

\* The two deferred calls, the inner one first.
RestoreInner(r) ==
    /\ mcp[r].pc = "restore"
    /\ requestGate' = mcp[r].inner
    /\ McpGo(r, "answer")
    /\ UNCHANGED <<tool, together, asked>>

\* Mutation: only the inner call puts back what it found.
ForgetOuter(r) ==
    /\ mcp[r].pc = "answer"
    /\ mcp' = [mcp EXCEPT ![r] = McpIdle]
    /\ UNCHANGED <<requestGate, tool, together, asked>>

RestoreOuter(r) ==
    /\ mcp[r].pc = "answer"
    /\ requestGate' = mcp[r].outer
    /\ mcp' = [mcp EXCEPT ![r] = McpIdle]
    /\ UNCHANGED <<tool, together, asked>>

McpServing(r) ==
    \/ SetHeaderGate(r) \/ RefuseRequest(r) \/ CallTool(r) \/ ToolDone(r) \/ Timeout(r)
    \/ RestoreInner(r) \/ RestoreOuter(r)
McpTool(r) == ToolChecks(r) \/ ToolCalls(r) \/ ToolLists(r)

McpNext == \E r \in McpReqs : SetCallerGate(r) \/ McpServing(r) \/ McpTool(r)
McpSpec == McpInit /\ [][McpNext]_mcpVars

-----------------------------------------------------------------------------
\* A request that was alone reached, while it waited for its tool, what its
\* headers name and was refused nothing they name.  On a server whose requests
\* were always alone a tool that outlives the wait reaches at most its caller's
\* scope besides, and no request's gate is left behind.
McpAloneOwnScope ==
    /\ \A r \in McpReqs \ together :
          /\ mcp[r].pc = "wait" =>
               /\ tool[r].refused \cap HeaderOf[r] = {}
               /\ tool[r].pc = "done" => tool[r].ran \subseteq HeaderOf[r]
    /\ "server" \notin together =>
          /\ \A r \in McpReqs : tool[r].ran \subseteq HeaderOf[r] \cup CallerOf[r]
          /\ (\A r \in McpReqs : mcp[r].pc = "idle") => requestGate = NoGate
=============================================================================
