-------------------------------- MODULE WsHub --------------------------------
(***************************************************************************)
(* The query WebSockets of internal/api/handler/ws.go: one handler for     *)
(* each client, a goroutine for each query, and the hub, which sends every *)
(* answer to all clients of the connection.  broadcast holds the read lock *)
(* while it writes, without a deadline; join and leave take the write      *)
(* lock, which waits for readers and keeps new ones out.                   *)
(*                                                                         *)
(* A socket supports one writer at a time; broadcasts share the read lock, *)
(* so two may write to it at once.  The library looks at a flag that it    *)
(* guards with nothing: either writer may panic, or the frames get mixed.  *)
(***************************************************************************)
EXTENDS Naturals, FiniteSets

CONSTANTS Clients,      \* clients, each with its WebSocket and its handler
          Workers,      \* goroutines for queries and statements
          ConnOf,       \* the connection of each client, from the path
          Budgets,      \* bounds: clients that come, what they ask, how often one goes or stalls
          Nobody        \* no client

ASSUME HubAssumption ==
    /\ Clients \cap Workers = {}
    /\ Nobody \notin Clients
    /\ DOMAIN ConnOf = Clients
    /\ Budgets \subseteq [clients : SUBSET Clients, requests : Nat, troubles : Nat]

VARIABLES
    net,        \* each client's side: it reads, it does not and the buffers are full, it has gone
    at,         \* where each handler stands
    joined,     \* hub.clients
    announced,  \* hub.mu: the handler whose Lock waits for the readers to leave
    cast,       \* the broadcast of each handler and goroutine
    left,       \* what of the budget has not been used
    torn,       \* the sockets that two goroutines have written to at once
    panicked     \* the process has died of a panic

hubVars == <<net, at, joined, announced, cast, left, torn, panicked>>

Actors == Clients \cup Workers

\* met: another write to the same socket has begun before this one ended.
\* got is history: the clients this broadcast has reached.
Cast(p, k) == [phase |-> p, on |-> k, todo |-> {}, to |-> Nobody, met |-> FALSE, got |-> {}]
Idle == Cast("idle", Nobody)

Members(k) == {c \in joined : ConnOf[c] = k}
Readers == {a \in Actors : cast[a].phase = "send"}

HubTypeOK ==
    /\ net \in [Clients -> {"reads", "stalled", "gone"}]
    /\ at \in [Clients -> {"new", "cast", "loop", "leave", "ended"}]
    /\ joined \subseteq Clients
    /\ announced \in Clients \cup {Nobody}
    /\ cast \in [Actors -> [phase : {"idle", "work", "wait", "send"},
                            on : {ConnOf[c] : c \in Clients} \cup {Nobody}, todo : SUBSET Clients,
                            to : Clients \cup {Nobody}, met : BOOLEAN, got : SUBSET Clients]]
    /\ torn \subseteq Clients
    /\ panicked \in BOOLEAN

HubInit ==
    /\ net = [c \in Clients |-> "reads"]
    /\ joined = {}
    /\ announced = Nobody
    /\ cast = [a \in Actors |-> Idle]
    /\ left \in Budgets
    /\ at = [c \in Clients |-> IF c \in left.clients THEN "new" ELSE "ended"]
    /\ torn = {}
    /\ panicked = FALSE

MoveTo(c, l) == at' = [at EXCEPT ![c] = l]

-----------------------------------------------------------------------------
(* The clients.                                                              *)

Stall(c) ==
    /\ net[c] = "reads" /\ c \in joined /\ left.troubles > 0
    /\ net' = [net EXCEPT ![c] = "stalled"]
    /\ left' = [left EXCEPT !.troubles = @ - 1]
    /\ UNCHANGED <<at, joined, announced, cast, torn, panicked>>

Resume(c) ==
    /\ net[c] = "stalled"
    /\ net' = [net EXCEPT ![c] = "reads"]
    /\ UNCHANGED <<at, joined, announced, cast, left, torn, panicked>>

GoAway(c) ==
    /\ net[c] # "gone" /\ c \in joined /\ left.troubles > 0
    /\ net' = [net EXCEPT ![c] = "gone"]
    /\ left' = [left EXCEPT !.troubles = @ - 1]
    /\ UNCHANGED <<at, joined, announced, cast, torn, panicked>>

-----------------------------------------------------------------------------
(* The lock for writing; join and leave.                                     *)

\* mu.Lock: new readers are kept out from here on.
Announce(c) ==
    /\ at[c] \in {"new", "leave"}
    /\ announced = Nobody
    /\ announced' = c
    /\ UNCHANGED <<net, at, joined, cast, left, torn, panicked>>

\* hub.join, and the welcome that every client of the connection gets.
Join(c) ==
    /\ announced = c /\ at[c] = "new" /\ Readers = {}
    /\ joined' = joined \cup {c}
    /\ announced' = Nobody
    /\ MoveTo(c, "cast")
    /\ cast' = [cast EXCEPT ![c] = Cast("wait", ConnOf[c])]
    /\ UNCHANGED <<net, left, torn, panicked>>

\* Mutation: the lock for writing does not wait for the readers.
LeaveAtOnce(c) ==
    /\ announced = c /\ at[c] = "leave"
    /\ joined' = joined \ {c}
    /\ announced' = Nobody
    /\ MoveTo(c, "ended")
    /\ UNCHANGED <<net, cast, left, torn, panicked>>

\* The deferred hub.leave, then ws.Close.
Leave(c) ==
    /\ announced = c /\ at[c] = "leave" /\ Readers = {}
    /\ joined' = joined \ {c}
    /\ announced' = Nobody
    /\ MoveTo(c, "ended")
    /\ UNCHANGED <<net, cast, left, torn, panicked>>

-----------------------------------------------------------------------------
(* The loop of the handler, and the goroutines it starts.                    *)

\* A ping, an unknown type or text that is not JSON: the handler answers.
RequestAnswered(c) ==
    /\ at[c] = "loop" /\ net[c] # "gone" /\ left.requests > 0
    /\ left' = [left EXCEPT !.requests = @ - 1]
    /\ MoveTo(c, "cast")
    /\ cast' = [cast EXCEPT ![c] = Cast("wait", ConnOf[c])]
    /\ UNCHANGED <<net, joined, announced, torn, panicked>>

\* A query or a statement: go func(r wsQueryMsg)
RequestStarted(c, g) ==
    /\ at[c] = "loop" /\ net[c] # "gone" /\ left.requests > 0
    /\ cast[g].phase = "idle"
    /\ left' = [left EXCEPT !.requests = @ - 1]
    /\ cast' = [cast EXCEPT ![g] = Cast("work", ConnOf[c])]
    /\ UNCHANGED <<net, at, joined, announced, torn, panicked>>

\* The manager has answered, or failed; either way there is a result to send.
QueryReturns(g) ==
    /\ cast[g].phase = "work"
    /\ cast' = [cast EXCEPT ![g].phase = "wait"]
    /\ UNCHANGED <<net, at, joined, announced, left, torn, panicked>>

\* ReadMessage fails.
ReadFails(c) ==
    /\ at[c] = "loop" /\ net[c] = "gone"
    /\ MoveTo(c, "leave")
    /\ UNCHANGED <<net, joined, announced, cast, left, torn, panicked>>

-----------------------------------------------------------------------------
(* broadcast.                                                                *)

\* mu.RLock waits while a writer waits.
EnterBroadcast(a) ==
    /\ cast[a].phase = "wait" /\ announced = Nobody
    /\ cast' = [cast EXCEPT ![a].phase = "send", ![a].todo = Members(cast[a].on)]
    /\ UNCHANGED <<net, at, joined, announced, left, torn, panicked>>

BeginWrite(a, c) ==
    /\ cast[a].to = Nobody /\ c \in cast[a].todo
    /\ LET others == {b \in Actors : cast[b].to = c} IN
       /\ torn' = IF others = {} THEN torn ELSE torn \cup {c}
       /\ cast' = [b \in Actors |->
                     IF b = a THEN [cast[b] EXCEPT !.to = c, !.met = others # {}]
                     ELSE IF b \in others THEN [cast[b] EXCEPT !.met = TRUE] ELSE cast[b]]
    /\ UNCHANGED <<net, at, joined, announced, left, panicked>>

\* The error of WriteMessage is dropped.  Of writes that met, one may get lost.
EndWrite(a) ==
    LET c == cast[a].to IN
    /\ c # Nobody /\ net[c] # "stalled"
    /\ \E reached \in IF net[c] = "gone" THEN {{}} ELSE IF cast[a].met THEN {{}, {c}} ELSE {{c}} :
         cast' = [cast EXCEPT ![a].todo = @ \ {c}, ![a].to = Nobody, ![a].met = FALSE,
                              ![a].got = @ \cup reached]
    /\ UNCHANGED <<net, at, joined, announced, left, torn, panicked>>

\* "concurrent write to websocket connection": a panic of a goroutine ends the
\* process; one of a handler is recovered, and its deferred calls run.
WritePanics(a) ==
    /\ cast[a].to # Nobody /\ cast[a].met
    /\ panicked' = (a \in Workers)
    /\ cast' = [cast EXCEPT ![a] = Idle]
    /\ at' = [c \in Clients |-> IF c = a THEN "leave" ELSE at[c]]
    /\ UNCHANGED <<net, joined, announced, left, torn>>

Sent(a) == cast[a].phase = "send" /\ cast[a].todo = {} /\ cast[a].to = Nobody

LeaveBroadcast(a) ==
    /\ Sent(a)
    /\ cast' = [cast EXCEPT ![a] = Idle]
    /\ at' = [c \in Clients |-> IF c = a THEN "loop" ELSE at[c]]
    /\ UNCHANGED <<net, joined, announced, left, torn, panicked>>

-----------------------------------------------------------------------------

BroadcastStep(a) ==
    \/ EnterBroadcast(a) \/ \E c \in Clients : BeginWrite(a, c)
    \/ EndWrite(a) \/ WritePanics(a) \/ LeaveBroadcast(a)

SocketStep(c) ==
    \/ Stall(c) \/ Resume(c) \/ GoAway(c) \/ (at[c] = "new" /\ Announce(c))
    \/ RequestAnswered(c) \/ \E g \in Workers : RequestStarted(c, g)

\* What goroutines do of themselves.
ServerStep ==
    \/ \E c \in Clients : ReadFails(c) \/ Join(c) \/ Leave(c) \/ (at[c] = "leave" /\ Announce(c))
    \/ \E g \in Workers : QueryReturns(g)
    \/ \E a \in Actors : BroadcastStep(a)

HubNext == ~panicked /\ (ServerStep \/ \E c \in Clients : SocketStep(c))

HubSpec == HubInit /\ [][HubNext]_hubVars

\* Goroutines go on; no client owes anything.  With the bounds, nothing can
\* happen for ever, so that nobody who can take a step is passed over for ever.
HubFairness == WF_hubVars(~panicked /\ ServerStep)

-----------------------------------------------------------------------------
(* Properties.                                                               *)

\* hub.clients holds the handlers from join to leave, also those that a panic
\* has ended, and nobody writes to a socket that its handler has closed.
ClientsExact ==
    /\ joined = {c \in Clients : at[c] \in {"cast", "loop", "leave"}}
    /\ \A a \in Actors : cast[a].to # Nobody => cast[a].to \in joined

\* A broadcast has reached, when it ends, every client that is listed then,
\* unless the client has gone or two have written to its socket at once, and
\* no client of another connection.
CastWhole ==
    \A a \in Actors :
        /\ Sent(a) => {c \in Members(cast[a].on) \ torn : net[c] # "gone"} \subseteq cast[a].got
        /\ \A c \in cast[a].got : ConnOf[c] = cast[a].on

\* The hub's list and what goes through it.
HubInv == HubTypeOK /\ ClientsExact /\ CastWhole

\* In the end every query is answered, every broadcast is over, and the
\* handlers of clients that have gone have left the hub, unless a listed
\* client, of whatever connection, does not read and never goes.
HubQuiet ==
    <>[](\/ panicked
         \/ \E c \in joined : net[c] = "stalled"
         \/ /\ \A a \in Actors : cast[a].phase = "idle"
            /\ \A c \in joined : net[c] # "gone")

=============================================================================
