--------------------------- MODULE MCProgressFanout ---------------------------
\* The two WebSocket services for TLC: the progress of a job and the hub of
\* query sockets.  They share no state, so each is run by itself: "bench" says
\* which.
EXTENDS ProgressFanout, WsHub, TLC

CONSTANTS c1, c2, c3

VARIABLE bench

\* Two clients share a connection, a third has its own.
MCConnOf == c1 :> "A" @@ c2 :> "A" @@ c3 :> "B"
MCBudgets == {[clients |-> {c1, c2, c3}, requests |-> 1, troubles |-> 1],
              [clients |-> {c1, c2}, requests |-> 1, troubles |-> 2]}

On(x) == bench = x

MCInit ==
    /\ Init
    /\ \/ On("fanout") /\ HubInit /\ left = [clients |-> {c1, c2}, requests |-> 1, troubles |-> 2]
       \/ On("hub") /\ HubInit
MCNext ==
    /\ UNCHANGED bench
    /\ \/ On("fanout") /\ Next /\ UNCHANGED hubVars
       \/ On("hub") /\ HubNext /\ UNCHANGED vars
MCSpec == MCInit /\ [][MCNext]_<<vars, hubVars, bench>>
          /\ WF_vars(On("fanout") /\ JobStep) /\ HubFairness

\* Watchers hold no job up (JobNotHeldUp), and clients of the hub nobody else,
\* unless one does not read (HubQuiet).
NobodyHeldUp == (On("fanout") => JobNotHeldUp) /\ HubQuiet

=============================================================================
