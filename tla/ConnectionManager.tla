-------------------------- MODULE ConnectionManager --------------------------
(***************************************************************************)
(* The connection manager: internal/connection/manager.go.                 *)
(*                                                                         *)
(* m.conns maps an identifier to a *managedConn.  generateID never hands   *)
(* out an identifier twice, so an identifier of the model also names the   *)
(* object: `conns' is the set of keys of the map, and state[i] and plug[i] *)
(* are fields of the object, which stays reachable from a goroutine that   *)
(* looked it up even after the entry is deleted.  mc.Error is left out: no *)
(* step depends on it.                                                     *)
(*                                                                         *)
(* m.mu is a sync.RWMutex.  A critical section that makes no blocking call *)
(* is one step, enabled when nobody holds the lock for writing; Add and    *)
(* Remove hold it across plugin.Connect and plugin.Close, so these are two *)
(* steps with `writer' set between them.  The reads of mc.State in Ping    *)
(* and getActive happen outside the lock and are steps of their own.       *)
(***************************************************************************)
EXTENDS Naturals, FiniteSets

CONSTANTS Ids,        \* the identifiers generateID may return
          Requests,   \* the goroutines that serve API requests
          Checker,    \* the goroutine of StartHealthChecker
          None        \* "nobody" and "nothing"

ASSUME ConnectionAssumption ==
    /\ Checker \notin Requests
    /\ None \notin Requests \cup {Checker}
    /\ None \notin Ids

VARIABLES conns,      \* keys of m.conns
          state,      \* mc.State; "new" before Add made the object
          plug,       \* what the plugin of the object holds
          writer,     \* who holds m.mu for writing across a blocking call
          pc,         \* where each goroutine stands
          cur,        \* the identifier each goroutine works on
          todo        \* checkAll: identifiers of the snapshot still to visit

vars == <<conns, state, plug, writer, pc, cur, todo>>

Procs == Requests \cup {Checker}

States == {"new", "connecting", "connected", "error"}

PlugStates == {"unused", "open", "failed", "closed"}

RequestPCs == {"idle", "connecting", "closing", "pingCheck", "pinging",
               "pingOk", "pingErr", "useCheck", "using"}

CheckerPCs == {"idle", "visit", "pingCheck", "pinging", "pingOk", "pingErr",
               "applyOk", "applyErr"}

TypeOK ==
    /\ conns \subseteq Ids
    /\ state \in [Ids -> States]
    /\ plug \in [Ids -> PlugStates]
    /\ writer \in Requests \cup {None}
    /\ pc \in [Procs -> RequestPCs \cup CheckerPCs]
    /\ \A r \in Requests : pc[r] \in RequestPCs
    /\ pc[Checker] \in CheckerPCs
    /\ cur \in [Procs -> Ids \cup {None}]
    /\ todo \subseteq Ids

Init ==
    /\ conns = {}
    /\ state = [i \in Ids |-> "new"]
    /\ plug = [i \in Ids |-> "unused"]
    /\ writer = None
    /\ pc = [p \in Procs |-> "idle"]
    /\ cur = [p \in Procs |-> None]
    /\ todo = {}

Goto(p, l, i) ==
    /\ pc' = [pc EXCEPT ![p] = l]
    /\ cur' = [cur EXCEPT ![p] = i]

-----------------------------------------------------------------------------
(* Add: take the lock, make the object, connect, publish, unlock.            *)

AddLock(r, i) ==
    /\ pc[r] = "idle"
    /\ writer = None
    /\ state[i] = "new"
    /\ writer' = r
    /\ state' = [state EXCEPT ![i] = "connecting"]
    /\ Goto(r, "connecting", i)
    /\ UNCHANGED <<conns, plug, todo>>

\* p.Connect returned nil.
AddConnected(r) ==
    /\ pc[r] = "connecting"
    /\ state' = [state EXCEPT ![cur[r]] = "connected"]
    /\ plug' = [plug EXCEPT ![cur[r]] = "open"]
    /\ conns' = conns \cup {cur[r]}
    /\ writer' = None
    /\ Goto(r, "idle", None)
    /\ UNCHANGED todo

\* Mutation: a failed Connect is published in the connecting state.
AddFailedStillConnecting(r) ==
    /\ pc[r] = "connecting"
    /\ plug' = [plug EXCEPT ![cur[r]] = "failed"]
    /\ conns' = conns \cup {cur[r]}
    /\ writer' = None
    /\ Goto(r, "idle", None)
    /\ UNCHANGED <<state, todo>>

\* p.Connect failed or ran into the ten second timeout.  The object is
\* registered all the same, in the error state.
AddFailed(r) ==
    /\ pc[r] = "connecting"
    /\ state' = [state EXCEPT ![cur[r]] = "error"]
    /\ plug' = [plug EXCEPT ![cur[r]] = "failed"]
    /\ conns' = conns \cup {cur[r]}
    /\ writer' = None
    /\ Goto(r, "idle", None)
    /\ UNCHANGED todo

-----------------------------------------------------------------------------
(* Remove: take the lock, close the plugin, delete the entry, unlock.        *)

RemoveLock(r, i) ==
    /\ pc[r] = "idle"
    /\ writer = None
    /\ i \in conns
    /\ writer' = r
    /\ Goto(r, "closing", i)
    /\ UNCHANGED <<conns, state, plug, todo>>

\* A plugin that never connected has nothing to close; an error of Close is
\* logged and the entry is deleted all the same.
RemoveClose(r) ==
    /\ pc[r] = "closing"
    /\ plug' = [plug EXCEPT ![cur[r]] = IF @ = "open" THEN "closed" ELSE @]
    /\ conns' = conns \ {cur[r]}
    /\ writer' = None
    /\ Goto(r, "idle", None)
    /\ UNCHANGED <<state, todo>>

-----------------------------------------------------------------------------
(* Ping.  For the checker the return goes to the rest of the loop body of    *)
(* checkAll instead of to the caller.                                        *)

AfterPing(p, good) ==
    IF p = Checker THEN Goto(p, IF good THEN "applyOk" ELSE "applyErr", cur[p])
                   ELSE Goto(p, "idle", None)

\* m.Get under the read lock.  An identifier that is not registered is an
\* error and changes nothing, so a request for one is not a step.
PingGet(r, i) ==
    /\ pc[r] = "idle"
    /\ writer = None
    /\ i \in conns
    /\ Goto(r, "pingCheck", i)
    /\ UNCHANGED <<conns, state, plug, writer, todo>>

\* The test of mc.State, outside the lock: an object in the error state is
\* not pinged.
PingCheck(p) ==
    /\ pc[p] = "pingCheck"
    /\ IF state[cur[p]] = "error" THEN AfterPing(p, FALSE)
                                  ELSE Goto(p, "pinging", cur[p])
    /\ UNCHANGED <<conns, state, plug, writer, todo>>

\* Mutation: a ping that fails is repeated until one succeeds.
PingAnswerRetries(p) ==
    /\ pc[p] = "pinging"
    /\ \/ Goto(p, "pingOk", cur[p])
       \/ Goto(p, "pingCheck", cur[p])
    /\ UNCHANGED <<conns, state, plug, writer, todo>>

\* mc.plugin.Ping returns.
PingAnswer(p) ==
    /\ pc[p] = "pinging"
    /\ \/ Goto(p, "pingOk", cur[p])
       \/ Goto(p, "pingErr", cur[p])
    /\ UNCHANGED <<conns, state, plug, writer, todo>>

PingApplyOk(p) ==
    /\ pc[p] = "pingOk"
    /\ writer = None
    /\ state' = [state EXCEPT ![cur[p]] = "connected"]
    /\ AfterPing(p, TRUE)
    /\ UNCHANGED <<conns, plug, writer, todo>>

PingApplyErr(p) ==
    /\ pc[p] = "pingErr"
    /\ writer = None
    /\ state' = [state EXCEPT ![cur[p]] = "error"]
    /\ AfterPing(p, FALSE)
    /\ UNCHANGED <<conns, plug, writer, todo>>

-----------------------------------------------------------------------------
(* Query, Execute, Tables, Schema, Databases, CreateDatabase, DropDatabase:  *)
(* getActive, then one call of the plugin.                                   *)

UseGet(r, i) ==
    /\ pc[r] = "idle"
    /\ writer = None
    /\ i \in conns
    /\ Goto(r, "useCheck", i)
    /\ UNCHANGED <<conns, state, plug, writer, todo>>

UseCheck(r) ==
    /\ pc[r] = "useCheck"
    /\ IF state[cur[r]] = "error" THEN Goto(r, "idle", None)
                                  ELSE Goto(r, "using", cur[r])
    /\ UNCHANGED <<conns, state, plug, writer, todo>>

UseReturn(r) ==
    /\ pc[r] = "using"
    /\ Goto(r, "idle", None)
    /\ UNCHANGED <<conns, state, plug, writer, todo>>

-----------------------------------------------------------------------------
(* checkAll: copy the keys, then for each of them Ping and, under the lock   *)
(* and after a second look-up, write the outcome once more.                  *)

CheckTick ==
    /\ pc[Checker] = "idle"
    /\ writer = None
    /\ todo' = conns
    /\ Goto(Checker, "visit", None)
    /\ UNCHANGED <<conns, state, plug, writer>>

\* m.Get of the next identifier; one removed since the snapshot is an error.
CheckVisit ==
    /\ pc[Checker] = "visit"
    /\ writer = None
    /\ \E i \in todo :
         /\ todo' = todo \ {i}
         /\ Goto(Checker, IF i \in conns THEN "pingCheck" ELSE "applyErr", i)
    /\ UNCHANGED <<conns, state, plug, writer>>

CheckRoundDone ==
    /\ pc[Checker] = "visit"
    /\ todo = {}
    /\ Goto(Checker, "idle", None)
    /\ UNCHANGED <<conns, state, plug, writer, todo>>

\* Mutation: the outcome is stored with the object, m.conns[id] = mc.
CheckApplyRegisters ==
    /\ pc[Checker] \in {"applyOk", "applyErr"}
    /\ writer = None
    /\ state' = [state EXCEPT ![cur[Checker]] =
                    IF pc[Checker] = "applyOk" THEN "connected" ELSE "error"]
    /\ conns' = conns \cup {cur[Checker]}
    /\ Goto(Checker, "visit", None)
    /\ UNCHANGED <<plug, writer, todo>>

\* Mutation: the first entry that fails ends the round.
CheckApplyGivesUp ==
    /\ pc[Checker] \in {"applyOk", "applyErr"}
    /\ writer = None
    /\ IF cur[Checker] \in conns
         THEN state' = [state EXCEPT ![cur[Checker]] =
                          IF pc[Checker] = "applyOk" THEN "connected" ELSE "error"]
         ELSE UNCHANGED state
    /\ Goto(Checker, "visit", None)
    /\ todo' = IF pc[Checker] = "applyOk" THEN todo ELSE {}
    /\ UNCHANGED <<conns, plug, writer>>

\* mc.Error is left as it is.
CheckApply ==
    /\ pc[Checker] \in {"applyOk", "applyErr"}
    /\ writer = None
    /\ IF cur[Checker] \in conns
         THEN state' = [state EXCEPT ![cur[Checker]] =
                          IF pc[Checker] = "applyOk" THEN "connected" ELSE "error"]
         ELSE UNCHANGED state
    /\ Goto(Checker, "visit", None)
    /\ UNCHANGED <<conns, plug, writer, todo>>

-----------------------------------------------------------------------------

RequestStep(r) ==
    \/ \E i \in Ids : AddLock(r, i) \/ RemoveLock(r, i) \/ PingGet(r, i) \/ UseGet(r, i)
    \/ AddConnected(r) \/ AddFailed(r) \/ RemoveClose(r)
    \/ UseCheck(r) \/ UseReturn(r)

PingStep(p) ==
    PingCheck(p) \/ PingAnswer(p) \/ PingApplyOk(p) \/ PingApplyErr(p)

CheckerStep == CheckTick \/ CheckVisit \/ CheckRoundDone \/ CheckApply

Next ==
    \/ \E r \in Requests : RequestStep(r)
    \/ \E p \in Procs : PingStep(p)
    \/ CheckerStep

Spec == Init /\ [][Next]_vars

\* What a request does once it has arrived.
GoOn(r) ==
    \/ AddConnected(r) \/ AddFailed(r) \/ RemoveClose(r)
    \/ UseCheck(r) \/ UseReturn(r)
    \/ PingStep(r)

(***************************************************************************)
(* Fairness.  Connect runs under a ten second context, Ping of the checker *)
(* under five, a request under the deadlines of the HTTP server, and Close *)
(* returns: a goroutine inside a call gets out of it.  A goroutine that    *)
(* waits for m.mu gets it although others keep taking it: sync.RWMutex     *)
(* admits waiters in turn, hence strong fairness, which asks no more than  *)
(* weak fairness of the steps that do not need the lock.  No request is    *)
(* ever obliged to arrive.                                                 *)
(***************************************************************************)
Fairness ==
    /\ \A r \in Requests : SF_vars(GoOn(r))
    /\ SF_vars(CheckerStep \/ PingStep(Checker))

FairSpec == Spec /\ Fairness

-----------------------------------------------------------------------------
(* Properties.                                                               *)

\* The goroutine that sits in Connect or Close is the one that holds m.mu for
\* writing, so no two of them run at once and no snapshot, look-up or state
\* update happens between the start and the end of an Add or a Remove.
LockHeldAcrossCalls ==
    \A r \in Requests : pc[r] \in {"connecting", "closing"} <=> writer = r

\* Every open pool belongs to a registered entry and no registered entry has a
\* closed one: Remove never leaks a pool and never leaves a dead entry behind,
\* whatever pings and queries overlap it.
PoolsAccounted ==
    \A i \in Ids : /\ plug[i] = "open" => i \in conns
                   /\ i \in conns => plug[i] \in {"open", "failed"}

\* A plugin whose Connect failed (or has not returned) is never called: the
\* tests of mc.State in Ping and getActive happen outside the lock and the
\* checker writes the state twice, yet nobody gets past them for such an entry.
NeverConnectedNeverCalled ==
    \A p \in Procs :
        pc[p] \in {"pinging", "using"} => plug[cur[p]] \in {"open", "closed"}

\* The error state of an entry whose Connect failed is final.
FailedIsFinal ==
    \A i \in Ids : plug[i] = "failed" => state[i] = "error"

\* A removed entry never comes back: a late answer to a ping, or the second
\* write of checkAll, updates the orphaned object but does not register it.
NoResurrection ==
    [][\A i \in conns' \ conns : plug[i] = "unused"]_vars

\* Every request returns, although Add and Remove hold the lock while they
\* wait for a database.
RequestsReturn ==
    \A r \in Requests : pc[r] # "idle" ~> pc[r] = "idle"

\* The checker gets round to every entry that is not in the error state.
HealthyArePinged ==
    \A i \in Ids :
        i \in conns ~> \/ i \notin conns
                       \/ state[i] = "error"
                       \/ pc[Checker] = "pinging" /\ cur[Checker] = i

-----------------------------------------------------------------------------
(* The inductive invariant.                                                  *)

\* A goroutine between a look-up and its return works on an object that was
\* registered once.
WorkOnRegistered ==
    \A p \in Procs :
        pc[p] \in {"closing", "pingCheck", "pinging", "pingOk", "pingErr",
                   "useCheck", "using", "applyOk"}
        => cur[p] \in Ids /\ plug[cur[p]] # "unused"

\* The life of an object until Add publishes it.
FreshUntilPublished ==
    /\ \A i \in Ids : state[i] = "new" => plug[i] = "unused"
    /\ \A r \in Requests :
         pc[r] = "connecting" => /\ cur[r] \in Ids
                                 /\ plug[cur[r]] = "unused"

\* Remove closes what is still registered.
CloseRegistered ==
    \A r \in Requests : pc[r] = "closing" => cur[r] \in conns

\* No goroutine holds a good answer of an entry whose Connect failed.
FailedUntouched ==
    \A i \in Ids : plug[i] = "failed" =>
        \A p \in Procs : cur[p] = i =>
            pc[p] \notin {"pinging", "pingOk", "pingErr", "using", "applyOk"}

IInv ==
    /\ TypeOK
    /\ LockHeldAcrossCalls
    /\ PoolsAccounted
    /\ FailedIsFinal
    /\ WorkOnRegistered
    /\ FreshUntilPublished
    /\ CloseRegistered
    /\ FailedUntouched

=============================================================================
