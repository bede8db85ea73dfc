---------------------------- MODULE ProgressFanout ----------------------------
(***************************************************************************)
(* Progress events of one transfer job: Subscribe, Unsubscribe and emit of *)
(* internal/transfer/engine.go and the WebSocket handler of                *)
(* internal/api/handler/transfer_ws.go, one for each client that watches.  *)
(*                                                                         *)
(* js.subs is a Go slice.  append grows it into a new array of capacity 1, *)
(* 2, 4, ..., so an array is named by its capacity here, and a slice is a  *)
(* capacity and a length.  emit copies the slice, not the array, and walks *)
(* it without the lock; Unsubscribe shifts the elements of the array in    *)
(* place.  That is a data race: the walk may find in a slot any value the  *)
(* slot has had since the copy.  Only the goroutine of the job emits.      *)
(***************************************************************************)
EXTENDS Naturals, FiniteSets

CONSTANTS Watchers,   \* the WebSocket handlers; a handler stands for its channel
          Buffer,     \* capacity of a channel, 128 in the code
          MaxEvents,  \* bound: events the job emits
          None        \* no channel

ASSUME FanoutAssumption ==
    /\ Buffer \in Nat \ {0}
    /\ MaxEvents \in Nat
    /\ None \notin Watchers
    /\ IsFiniteSet(Watchers)

VARIABLES
    arrays,    \* the backing arrays, by capacity
    subs,      \* js.subs
    closed,    \* the channels Unsubscribe has closed
    queued,    \* the number of events buffered in each channel
    gone,      \* the clients that have closed their WebSocket
    handler,   \* where each handler stands
    job,       \* where the goroutine of the job stands
    events,    \* the number of events emitted so far
    snap,      \* emit: the copy of js.subs
    seen,      \* emit: the values each slot of the copy has had since
    next,      \* emit: position of the walk
    held,      \* emit: the channel read from the slot before
    crashed,   \* the process has died of a panic
    audience,  \* history: the watchers listed when this emit began
    got,       \* history: how often this event was put into each channel
    full,      \* history: the watchers whose buffer had no room for this event
    shifted    \* history: an Unsubscribe fell into this emit

sliceVars == <<arrays, subs, closed>>
walkVars  == <<events, snap, next, held>>
histVars  == <<audience, got, full, shifted>>
vars      == <<sliceVars, walkVars, histVars, seen, queued, gone, handler, job, crashed>>

N == Cardinality(Watchers)

\* The capacities append may come to with N elements: it doubles a full array.
Capacities == 1..(2 * N)

Slices == [cap : Capacities \cup {0}, len : 0..N]

TypeOK ==
    /\ DOMAIN arrays = Capacities
    /\ \A c \in Capacities : arrays[c] \in [1..c -> Watchers \cup {None}]
    /\ subs \in Slices
    /\ closed \subseteq Watchers
    /\ queued \in [Watchers -> 0..Buffer]
    /\ gone \subseteq Watchers
    /\ handler \in [Watchers -> {"idle", "range", "write", "leave", "returned"}]
    /\ job \in {"work", "walk", "send", "ended"}
    /\ events \in 0..MaxEvents
    /\ snap \in Slices
    /\ seen \in [1..N -> SUBSET Watchers]
    /\ next \in 1..(N + 1)
    /\ held \in Watchers \cup {None}
    /\ crashed \in BOOLEAN
    /\ audience \subseteq Watchers
    /\ got \in [Watchers -> Nat]
    /\ full \subseteq Watchers
    /\ shifted \in BOOLEAN

Init ==
    /\ arrays = [c \in Capacities |-> [k \in 1..c |-> None]]
    /\ subs = [cap |-> 0, len |-> 0]
    /\ closed = {}
    /\ queued = [w \in Watchers |-> 0]
    /\ gone = {}
    /\ handler = [w \in Watchers |-> "idle"]
    /\ job = "work"
    /\ events = 0
    /\ snap = subs
    /\ seen = [k \in 1..N |-> {}]
    /\ next = 1
    /\ held = None
    /\ crashed = FALSE
    /\ audience = {}
    /\ got = [w \in Watchers |-> 0]
    /\ full = {}
    /\ shifted = FALSE

Goto(w, l) == handler' = [handler EXCEPT ![w] = l]

Emitting == job \in {"walk", "send"}

\* The channels of js.subs.
Listed == {arrays[subs.cap][k] : k \in 1..subs.len}

\* The array of js.subs is overwritten; a walk over the same array may see it.
Overwrite(a) ==
    /\ arrays' = [arrays EXCEPT ![subs.cap] = a]
    /\ seen' = [k \in 1..N |-> IF Emitting /\ snap.cap = subs.cap /\ k <= snap.len
                               THEN seen[k] \cup {a[k]} ELSE seen[k]]

-----------------------------------------------------------------------------
(* WSTransferProgress.                                                       *)

\* js.subs = append(js.subs, ch)
Subscribe(w) ==
    /\ handler[w] = "idle"
    /\ IF subs.len < subs.cap
         THEN /\ Overwrite([arrays[subs.cap] EXCEPT ![subs.len + 1] = w])
              /\ subs' = [subs EXCEPT !.len = @ + 1]
         ELSE LET c == IF subs.cap = 0 THEN 1 ELSE 2 * subs.cap IN
              /\ arrays' = [arrays EXCEPT ![c] =
                   [k \in 1..c |-> IF k <= subs.len THEN arrays[subs.cap][k]
                                   ELSE IF k = subs.len + 1 THEN w ELSE None]]
              /\ subs' = [cap |-> c, len |-> subs.len + 1]
              /\ UNCHANGED seen
    /\ Goto(w, "range")
    /\ UNCHANGED <<walkVars, histVars, closed, queued, gone, job, crashed>>

\* The client goes away; the read loop of the handler ends and tells nobody.
Disconnect(w) ==
    /\ handler[w] \in {"range", "write"}
    /\ w \notin gone
    /\ gone' = gone \cup {w}
    /\ UNCHANGED <<sliceVars, walkVars, histVars, seen, queued, handler, job, crashed>>

\* The next event of range ch.
Receive(w) ==
    /\ handler[w] = "range"
    /\ queued[w] > 0
    /\ queued' = [queued EXCEPT ![w] = @ - 1]
    /\ Goto(w, "write")
    /\ UNCHANGED <<sliceVars, walkVars, histVars, seen, gone, job, crashed>>

\* WriteJSON; it fails when the client has gone.
Write(w) ==
    /\ handler[w] = "write"
    /\ Goto(w, IF w \in gone THEN "leave" ELSE "range")
    /\ UNCHANGED <<sliceVars, walkVars, histVars, seen, queued, gone, job, crashed>>

\* The deferred Unsubscribe: js.subs = append(js.subs[:i], js.subs[i+1:]...)
Unsubscribe(w) ==
    /\ handler[w] = "leave"
    /\ \E i \in 1..subs.len :
         /\ arrays[subs.cap][i] = w
         /\ Overwrite([k \in 1..subs.cap |->
              arrays[subs.cap][IF i <= k /\ k < subs.len THEN k + 1 ELSE k]])
    /\ subs' = [subs EXCEPT !.len = @ - 1]
    /\ closed' = closed \cup {w}
    /\ shifted' = (shifted \/ Emitting)
    /\ Goto(w, "returned")
    /\ UNCHANGED <<walkVars, audience, got, full, queued, gone, job, crashed>>

-----------------------------------------------------------------------------
(* emit, called by the goroutine of the job.                                 *)

\* The slice is copied under the lock.
EmitStart ==
    /\ job = "work"
    /\ events < MaxEvents
    /\ job' = "walk"
    /\ events' = events + 1
    /\ snap' = subs
    /\ seen' = [k \in 1..N |-> IF k <= subs.len THEN {arrays[subs.cap][k]} ELSE {}]
    /\ next' = 1
    /\ audience' = Listed
    /\ got' = [w \in Watchers |-> 0]
    /\ full' = {}
    /\ shifted' = FALSE
    /\ UNCHANGED <<sliceVars, held, queued, gone, handler, crashed>>

\* range reads the next slot.
ReadSlot ==
    /\ job = "walk"
    /\ next <= snap.len
    /\ held' \in seen[next]
    /\ job' = "send"
    /\ UNCHANGED <<sliceVars, events, snap, next, histVars, seen, queued, gone, handler, crashed>>

\* Sending on a closed channel panics, in a select too; nothing recovers.
SendPanics ==
    /\ job = "send"
    /\ held \in closed
    /\ crashed' = TRUE
    /\ UNCHANGED <<sliceVars, walkVars, histVars, seen, queued, gone, handler, job>>

Advance ==
    /\ job' = "walk"
    /\ next' = next + 1
    /\ held' = None

Send ==
    /\ job = "send"
    /\ held \notin closed
    /\ queued[held] < Buffer
    /\ queued' = [queued EXCEPT ![held] = @ + 1]
    /\ got' = [got EXCEPT ![held] = @ + 1]
    /\ Advance
    /\ UNCHANGED <<sliceVars, events, snap, audience, full, shifted, seen, gone, handler, crashed>>

\* Mutation: the default case leaves the loop.
SendFullReturns ==
    /\ job = "send"
    /\ held \notin closed
    /\ queued[held] >= Buffer
    /\ full' = full \cup {held}
    /\ job' = "walk"
    /\ next' = snap.len + 1
    /\ held' = None
    /\ UNCHANGED <<sliceVars, events, snap, audience, got, shifted, seen, queued, gone, handler,
                   crashed>>

\* Mutation: there is no default case, the send waits for the reader.
SendFullWaits ==
    /\ job = "send"
    /\ held \notin closed
    /\ queued[held] >= Buffer
    /\ UNCHANGED vars

\* The default case of the select: the event is dropped for this watcher.
SendFull ==
    /\ job = "send"
    /\ held \notin closed
    /\ queued[held] >= Buffer
    /\ full' = full \cup {held}
    /\ Advance
    /\ UNCHANGED <<sliceVars, events, snap, audience, got, shifted, seen, queued, gone, handler,
                   crashed>>

EmitEnd ==
    /\ job = "walk"
    /\ next > snap.len
    /\ job' = "work"
    /\ UNCHANGED <<sliceVars, walkVars, histVars, seen, queued, gone, handler, crashed>>

\* run returns; no channel is closed and no watcher is told.
JobEnds ==
    /\ job = "work"
    /\ job' = "ended"
    /\ UNCHANGED <<sliceVars, walkVars, histVars, seen, queued, gone, handler, crashed>>

JobStep ==
    /\ ~crashed
    /\ EmitStart \/ ReadSlot \/ SendPanics \/ Send \/ SendFull \/ EmitEnd \/ JobEnds

HandlerStep(w) ==
    /\ ~crashed
    /\ Receive(w) \/ Write(w) \/ Unsubscribe(w)

ClientStep(w) ==
    /\ ~crashed
    /\ Subscribe(w) \/ Disconnect(w)

\* A panic of the goroutine of the job ends the process.
Next == JobStep \/ \E w \in Watchers : HandlerStep(w) \/ ClientStep(w)

Spec == Init /\ [][Next]_vars

\* The goroutine of the job is scheduled.
FairSpec == Spec /\ WF_vars(JobStep)

-----------------------------------------------------------------------------
(* Properties.                                                               *)

\* js.subs lists exactly the handlers that have subscribed and not yet
\* unsubscribed, once each and with open channels, however the array is
\* shared, shifted and reused; so no channel is closed twice.
SubsExact ==
    /\ Listed = {w \in Watchers : handler[w] \in {"range", "write", "leave"}}
    /\ Cardinality(Listed) = subs.len
    /\ Listed \cap closed = {}

EmitComplete == job = "walk" /\ next > snap.len

\* When no Unsubscribe falls into an emit, the event has gone once to every
\* watcher that was listed at its start, unless the watcher's buffer was full,
\* and to nobody else.
DeliveredWhenQuiet ==
    EmitComplete /\ ~shifted =>
        \A w \in Watchers : got[w] = IF w \in audience \ full THEN 1 ELSE 0

\* The list of channels and what went through them.
FanoutInv == TypeOK /\ SubsExact /\ DeliveredWhenQuiet

\* Slow, stuck or departed watchers never hold the job up.
JobNotHeldUp == <>(job = "ended" \/ crashed)

=============================================================================
