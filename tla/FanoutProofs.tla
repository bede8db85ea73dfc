------------------------------ MODULE FanoutProofs ------------------------------
(***************************************************************************)
(* Proofs about the two WebSocket services, each by itself: the progress   *)
(* events of a job, for any number of watchers and events and any buffer,  *)
(* and the hub of the query sockets, for any number of clients, goroutines *)
(* and connections and any budget.                                         *)
(***************************************************************************)
EXTENDS ProgressFanout, WsHub, FiniteSetTheorems, TLAPS

-----------------------------------------------------------------------------
(* The hub.                                                                  *)

\* A client that writes to sockets is between join and the next message, and a
\* write is one of a broadcast under way to a client still to be reached; what
\* a broadcast has before it is on its connection and listed; two writes that
\* met have left their mark on the socket.
CastOK(a) ==
    /\ a \in Clients /\ cast[a].phase # "idle" => at[a] = "cast"
    /\ cast[a].phase # "send" => cast[a].todo = {} /\ cast[a].to = Nobody
    /\ cast[a].to # Nobody => cast[a].to \in cast[a].todo
    /\ cast[a].todo \subseteq Members(cast[a].on)
    /\ cast[a].met => cast[a].to \in torn

CastsInOrder == \A a \in Actors : CastOK(a)

\* CastWhole while the broadcast is still under way.
Reached(a) ==
    /\ cast[a].phase = "send" =>
          {c \in Members(cast[a].on) \ torn : net[c] # "gone"} \subseteq cast[a].got \cup cast[a].todo
    /\ \A c \in cast[a].got : ConnOf[c] = cast[a].on

ReachedSoFar == \A a \in Actors : Reached(a)

\* The records of HubTypeOK.
CastSet ==
    [phase : {"idle", "work", "wait", "send"}, on : {ConnOf[c] : c \in Clients} \cup {Nobody},
     todo : SUBSET Clients, to : Clients \cup {Nobody}, met : BOOLEAN, got : SUBSET Clients]

\* The inductive invariant: HubInv and what makes it one.
HubIInv == HubTypeOK /\ ClientsExact /\ CastsInOrder /\ ReachedSoFar

\* At the start nobody is listed and nobody broadcasts.
LEMMA HubInitInv == HubInit => HubIInv
<1> SUFFICES ASSUME HubInit PROVE HubIInv
  OBVIOUS
<1> USE HubAssumption DEF HubInit, Actors, Cast, Idle, Members
<1>1. HubTypeOK
  BY DEF HubTypeOK
<1>2. ClientsExact
  <2>1. \A c \in Clients : at[c] \in {"new", "ended"}
    OBVIOUS
  <2> QED
    BY <2>1 DEF ClientsExact
<1>3. CastsInOrder
  BY DEF CastsInOrder, CastOK
<1>4. ReachedSoFar
  BY DEF ReachedSoFar, Reached
<1> QED
  BY <1>1, <1>2, <1>3, <1>4 DEF HubIInv

\* A broadcast begins with those who are listed.
LEMMA EnterBroadcastInv ==
    ASSUME HubIInv, NEW a \in Actors, EnterBroadcast(a)
    PROVE  HubIInv'
<1> DEFINE listed == Members(cast[a].on)
<1>1. listed \subseteq Clients /\ listed \subseteq joined
  BY DEF Members, HubIInv, HubTypeOK
<1>2. cast \in [Actors -> CastSet]
  BY DEF HubIInv, HubTypeOK, CastSet
<1>3. /\ cast' = [cast EXCEPT ![a].phase = "send", ![a].todo = listed]
      /\ cast[a].phase = "wait"
      /\ UNCHANGED <<net, at, joined, announced, left, torn, panicked>>
  BY DEF EnterBroadcast
<1> HIDE DEF listed
<1>4. [cast[a] EXCEPT !.phase = "send", !.todo = listed] \in CastSet
  BY <1>1, <1>2 DEF CastSet
<1>5. cast' \in [Actors -> CastSet]
  BY <1>2, <1>3, <1>4
<1>6. \A b \in Actors :
        /\ cast'[b].phase = IF b = a THEN "send" ELSE cast[b].phase
        /\ cast'[b].todo = IF b = a THEN listed ELSE cast[b].todo
        /\ cast'[b].on = cast[b].on /\ cast'[b].to = cast[b].to
        /\ cast'[b].met = cast[b].met /\ cast'[b].got = cast[b].got
  BY <1>2, <1>3 DEF CastSet
<1>7. HubTypeOK'
  BY <1>3, <1>5 DEF HubTypeOK, CastSet, HubIInv
<1>8. ClientsExact'
  BY <1>3, <1>6 DEF ClientsExact, HubIInv
<1>9. CastsInOrder'
  <2> SUFFICES ASSUME NEW b \in Actors PROVE CastOK(b)'
    BY DEF CastsInOrder
  <2>1. CastOK(b)
    BY DEF HubIInv, CastsInOrder
  <2>2. at' = at /\ joined' = joined /\ torn' = torn
    BY <1>3
  <2>3. CASE b = a
    <3>1. cast[a].to = Nobody /\ (a \in Clients => at[a] = "cast") /\ (cast[a].met => Nobody \in torn)
      BY <1>3, <2>1, <2>3 DEF CastOK
    <3>2. cast'[a].phase = "send" /\ cast'[a].todo = listed /\ cast'[a].on = cast[a].on
          /\ cast'[a].to = Nobody /\ cast'[a].met = cast[a].met
      BY <1>6, <3>1
    <3>3. listed = {c \in joined' : ConnOf[c] = cast'[a].on}
      BY <1>3, <3>2 DEF listed, Members
    <3> QED
      BY <2>3, <2>2, <3>1, <3>2, <3>3 DEF CastOK, Members
  <2>4. CASE b # a
    <3>1. cast'[b] = cast[b]
      BY <1>2, <1>3, <2>4
    <3> QED
      BY <2>1, <2>2, <3>1 DEF CastOK, Members
  <2> QED
    BY <2>3, <2>4
<1>10. ReachedSoFar'
  <2> SUFFICES ASSUME NEW b \in Actors PROVE Reached(b)'
    BY DEF ReachedSoFar
  <2>1. Reached(b)
    BY DEF HubIInv, ReachedSoFar
  <2>2. Members(cast[b].on)' = Members(cast[b].on)
    BY <1>3, <1>6 DEF Members
  <2>3. CASE b = a
    BY ZenonT(40), <1>3, <1>6, <2>1, <2>2, <2>3 DEF Reached, listed
  <2>4. CASE b # a
    BY <1>3, <1>6, <2>1, <2>2, <2>4 DEF Reached
  <2> QED
    BY <2>3, <2>4
<1> QED
  BY <1>7, <1>8, <1>9, <1>10 DEF HubIInv

\* Writes that meet leave their mark.
LEMMA BeginWriteInv ==
    ASSUME HubIInv, NEW a \in Actors, NEW c \in Clients, BeginWrite(a, c)
    PROVE  HubIInv'
<1> DEFINE others == {b \in Actors : cast[b].to = c}
<1>1. cast \in [Actors -> CastSet]
  BY DEF HubIInv, HubTypeOK, CastSet
<1>2. /\ cast[a].to = Nobody /\ c \in cast[a].todo
      /\ torn' = IF others = {} THEN torn ELSE torn \cup {c}
      /\ UNCHANGED <<net, at, joined, announced, left, panicked>>
      /\ cast' = [b \in Actors |-> IF b = a THEN [cast[b] EXCEPT !.to = c, !.met = others # {}]
                                   ELSE IF b \in others THEN [cast[b] EXCEPT !.met = TRUE] ELSE cast[b]]
  BY DEF BeginWrite
<1>3. \A b \in Actors : b \in others <=> cast[b].to = c
  OBVIOUS
<1> HIDE DEF others
<1>4. \A b \in Actors : cast'[b] \in CastSet
  BY ZenonT(40), <1>1, <1>2 DEF CastSet
<1>5. cast' \in [Actors -> CastSet]
  BY <1>2, <1>4
<1>6. \A b \in Actors :
        /\ cast'[b].phase = cast[b].phase /\ cast'[b].on = cast[b].on
        /\ cast'[b].todo = cast[b].todo /\ cast'[b].got = cast[b].got
        /\ cast'[b].to = IF b = a THEN c ELSE cast[b].to
        /\ cast'[b].met => cast[b].met \/ (others # {} /\ cast'[b].to = c)
  BY ZenonT(40), <1>1, <1>2, <1>3 DEF CastSet
<1>7. torn' \subseteq Clients /\ torn \subseteq torn' /\ (others # {} => c \in torn')
  BY <1>2 DEF HubIInv, HubTypeOK
<1>8. HubTypeOK'
  BY <1>2, <1>5, <1>7 DEF HubTypeOK, CastSet, HubIInv
<1>9. c \in joined
  BY <1>2 DEF HubIInv, CastsInOrder, CastOK, Members
<1>10. ClientsExact'
  <2> SUFFICES ASSUME NEW b \in Actors, cast'[b].to # Nobody PROVE cast'[b].to \in joined
    BY <1>2 DEF ClientsExact, HubIInv
  <2>1. CASE b = a
    BY <1>6, <1>9, <2>1
  <2>2. CASE b # a
    BY <1>6, <2>2 DEF ClientsExact, HubIInv
  <2> QED
    BY <2>1, <2>2
<1>11. CastsInOrder'
  <2> SUFFICES ASSUME NEW b \in Actors PROVE CastOK(b)'
    BY DEF CastsInOrder
  <2>1. CastOK(b)
    BY DEF HubIInv, CastsInOrder
  <2>2. Members(cast[b].on)' = Members(cast[b].on)
    BY <1>2, <1>6 DEF Members
  <2>3. CASE b = a
    <3>1. ~cast[a].met
      BY HubAssumption, <1>2, <2>1, <2>3 DEF CastOK, HubIInv, HubTypeOK
    <3> QED
      BY ZenonT(40), <1>2, <1>6, <1>7, <2>1, <2>2, <2>3, <3>1 DEF CastOK
  <2>4. CASE b # a
    BY ZenonT(40), <1>2, <1>6, <1>7, <2>1, <2>2, <2>4 DEF CastOK
  <2> QED
    BY <2>3, <2>4
<1>12. ReachedSoFar'
  <2> SUFFICES ASSUME NEW b \in Actors PROVE Reached(b)'
    BY DEF ReachedSoFar
  <2>1. Reached(b)
    BY DEF HubIInv, ReachedSoFar
  <2> QED
    BY <1>2, <1>6, <1>7, <2>1 DEF Reached, Members
<1> QED
  BY <1>8, <1>10, <1>11, <1>12 DEF HubIInv

\* No client, handler or goroutine breaks it.
LEMMA HubNextInv == HubIInv /\ [HubNext]_hubVars => HubIInv'
<1> SUFFICES ASSUME HubIInv, [HubNext]_hubVars PROVE HubIInv'
  OBVIOUS
<1>1. ASSUME NEW a \in Actors, EnterBroadcast(a) PROVE HubIInv'
  BY <1>1, EnterBroadcastInv
<1>2. ASSUME NEW a \in Actors, NEW c \in Clients, BeginWrite(a, c) PROVE HubIInv'
  BY <1>2, BeginWriteInv
<1> USE HubAssumption DEF HubIInv, HubTypeOK, ClientsExact, CastsInOrder, CastOK,
            ReachedSoFar, Reached, Actors, Cast, Idle, Members, MoveTo
<1>3. ASSUME NEW c \in Clients, Stall(c) PROVE HubIInv'
  BY <1>3 DEF Stall
<1>4. ASSUME NEW c \in Clients, Resume(c) PROVE HubIInv'
  BY <1>4 DEF Resume
<1>5. ASSUME NEW c \in Clients, GoAway(c) PROVE HubIInv'
  BY <1>5 DEF GoAway
<1>6. ASSUME NEW c \in Clients, Announce(c) PROVE HubIInv'
  BY <1>6 DEF Announce
<1>7. ASSUME NEW c \in Clients, Join(c) PROVE HubIInv'
  BY <1>7 DEF Join, Readers
<1>8. ASSUME NEW c \in Clients, Leave(c) PROVE HubIInv'
  BY <1>8 DEF Leave, Readers
<1>9. ASSUME NEW c \in Clients, RequestAnswered(c) PROVE HubIInv'
  BY <1>9 DEF RequestAnswered
<1>10. ASSUME NEW c \in Clients, NEW g \in Workers, RequestStarted(c, g) PROVE HubIInv'
  BY <1>10 DEF RequestStarted
<1>11. ASSUME NEW g \in Workers, QueryReturns(g) PROVE HubIInv'
  BY <1>11 DEF QueryReturns
<1>12. ASSUME NEW c \in Clients, ReadFails(c) PROVE HubIInv'
  BY <1>12 DEF ReadFails
<1>13. ASSUME NEW a \in Actors, EndWrite(a) PROVE HubIInv'
  <2> USE <1>13 DEF EndWrite
  <2>1. HubTypeOK'
    OBVIOUS
  <2>2. ClientsExact'
    OBVIOUS
  <2>3. CastsInOrder'
    OBVIOUS
  <2>4. ReachedSoFar'
    OBVIOUS
  <2> QED
    BY <2>1, <2>2, <2>3, <2>4
<1>14. ASSUME NEW a \in Actors, WritePanics(a) PROVE HubIInv'
  <2> USE <1>14 DEF WritePanics
  <2>1. HubTypeOK'
    OBVIOUS
  <2>2. ClientsExact'
    OBVIOUS
  <2>3. CastsInOrder'
    OBVIOUS
  <2>4. ReachedSoFar'
    OBVIOUS
  <2> QED
    BY <2>1, <2>2, <2>3, <2>4
<1>15. ASSUME NEW a \in Actors, LeaveBroadcast(a) PROVE HubIInv'
  BY <1>15 DEF LeaveBroadcast, Sent
<1>16. CASE UNCHANGED hubVars
  BY <1>16 DEF hubVars
<1> HIDE DEF HubIInv, HubTypeOK, ClientsExact, CastsInOrder, ReachedSoFar, Actors
<1> QED
  BY <1>1, <1>2, <1>3, <1>4, <1>5, <1>6, <1>7, <1>8, <1>9, <1>10, <1>11, <1>12, <1>13, <1>14, <1>15, <1>16
     DEF HubNext, ServerStep, SocketStep, BroadcastStep

\* What a broadcast has reached when nothing is left before it is everybody.
LEMMA HubIInvImplies == HubIInv => HubInv
  BY DEF HubIInv, HubInv, CastWhole, ReachedSoFar, Reached, Sent

\* The hub's list is exact, nobody writes to a closed socket, and a broadcast
\* reaches the clients of its connection and no others (ws.go), for any number
\* of clients and queries.
THEOREM HubInvariance == HubSpec => []HubInv
<1>1. HubInit => HubIInv
  BY HubInitInv
<1>2. HubIInv /\ [HubNext]_hubVars => HubIInv'
  BY HubNextInv
<1> QED
  BY <1>1, <1>2, HubIInvImplies, PTL DEF HubSpec

-----------------------------------------------------------------------------
(* Progress events.                                                          *)

\* js.subs holds every handler from Subscribe to Unsubscribe in a slot of its
\* own; a channel is closed when its handler has unsubscribed.
ListOK ==
    /\ subs.len <= subs.cap
    /\ \A k \in 1..subs.len : arrays[subs.cap][k] \in Watchers
    /\ \A k, l \in 1..subs.len : arrays[subs.cap][k] = arrays[subs.cap][l] => k = l
    /\ \A w \in Watchers :
         handler[w] \in {"range", "write", "leave"}
           <=> \E k \in 1..subs.len : arrays[subs.cap][k] = w
    /\ closed = {w \in Watchers : handler[w] = "returned"}

\* The slots a walk reads hold channels, whatever Unsubscribe moves, for the
\* array of the copy is never taken back into use for a longer one.
WalkOK ==
    Emitting =>
      /\ snap.len <= snap.cap /\ snap.cap <= subs.cap
      /\ \A k \in 1..snap.len : arrays[snap.cap][k] \in Watchers
      /\ job = "send" => next <= snap.len /\ held \in Watchers

\* Where slot k of the copy stands: sent or dropped once, or still ahead.
SlotOK(k) ==
    LET w == arrays[snap.cap][k] IN
    /\ seen[k] = {w}
    /\ k < next => got[w] = IF w \in full THEN 0 ELSE 1
    /\ k >= next => got[w] = 0 /\ w \notin full

\* While no Unsubscribe falls into the emit, the walk reads what was copied.
QuietOK ==
    Emitting /\ ~shifted =>
      /\ snap.cap = subs.cap => snap.len <= subs.len
      /\ \A k, l \in 1..snap.len : arrays[snap.cap][k] = arrays[snap.cap][l] => k = l
      /\ audience = {arrays[snap.cap][k] : k \in 1..snap.len}
      /\ \A k \in 1..snap.len : SlotOK(k)
      /\ \A w \in Watchers \ audience : got[w] = 0
      /\ job = "send" => held = arrays[snap.cap][next]

\* The inductive invariant: TypeOK, the list, and the walk in either case.
FanIInv == TypeOK /\ ListOK /\ WalkOK /\ QuietOK

\* N is a number, and no watcher stands for "no channel".
LEMMA FanoutNumbers == N \in Nat /\ IsFiniteSet(Watchers) /\ Capacities = 1..(2 * N)
  BY FanoutAssumption, FS_CardinalityType DEF N, Capacities

\* A list without repetitions has as many members as slots.
LEMMA SlotCount == ASSUME NEW n \in Nat, NEW f, \A k, l \in 1..n : f[k] = f[l] => k = l
                   PROVE  /\ IsFiniteSet({f[k] : k \in 1..n})
                          /\ Cardinality({f[k] : k \in 1..n}) = n
<1> DEFINE g == [k \in 1..n |-> f[k]]
           T == {f[k] : k \in 1..n}
<1>1. g \in Surjection(1..n, T)
  BY DEF Surjection
<1>2. g \in Injection(1..n, T)
  BY DEF Injection, IsInjective
<1>3. IsFiniteSet(1..n) /\ Cardinality(1..n) = n
  BY FS_Interval
<1> HIDE DEF g, T
<1>4. IsFiniteSet(T) /\ Cardinality(T) = n
  BY <1>1, <1>2, <1>3, FS_Surjection
<1> QED
  BY <1>4 DEF T

\* The fields of the two slices and the types of the arrays.
LEMMA SliceTypes == ASSUME TypeOK
                    PROVE  /\ subs.cap \in Nat /\ subs.len \in 0..N
                           /\ snap.cap \in Nat /\ snap.len \in 0..N
                           /\ subs.cap # 0 => subs.cap \in Capacities
                           /\ snap.cap # 0 => snap.cap \in Capacities
                           /\ subs = [cap |-> subs.cap, len |-> subs.len]
  BY FanoutNumbers DEF TypeOK, Slices

\* A watcher that is not listed finds fewer than N listed.
LEMMA RoomToGrow == ASSUME FanIInv, NEW w \in Watchers, handler[w] = "idle"
                    PROVE  subs.len < N
<1>1. subs.len \in Nat /\ N \in Nat /\ IsFiniteSet(Watchers)
  BY SliceTypes, FanoutNumbers DEF FanIInv
<1> DEFINE T == {arrays[subs.cap][k] : k \in 1..subs.len}
<1>2. IsFiniteSet(T) /\ Cardinality(T) = subs.len
  BY <1>1, SlotCount DEF FanIInv, ListOK
<1>3. T \subseteq Watchers /\ w \notin T
  BY DEF FanIInv, ListOK
<1> HIDE DEF T
<1>4. /\ IsFiniteSet(T \cup {w}) /\ Cardinality(T \cup {w}) = subs.len + 1
  BY <1>2, <1>3, FS_AddElement
<1>5. T \cup {w} \in SUBSET Watchers
  BY <1>3
<1>6. Cardinality(T \cup {w}) <= Cardinality(Watchers)
  BY <1>1, <1>5, FS_Subset
<1> QED
  BY <1>1, <1>4, <1>6 DEF N

\* At the start nobody is listed.
LEMMA FanInit == Init => FanIInv
<1> SUFFICES ASSUME Init PROVE FanIInv
  OBVIOUS
<1> USE FanoutNumbers DEF Init
<1>1. TypeOK
  <2>1. \A c \in Capacities : arrays[c] \in [1..c -> Watchers \cup {None}]
    OBVIOUS
  <2>2. DOMAIN arrays = Capacities
    OBVIOUS
  <2>3. subs \in Slices /\ snap \in Slices
    BY DEF Slices
  <2>4. /\ closed \subseteq Watchers
        /\ queued \in [Watchers -> 0..Buffer]
        /\ gone \subseteq Watchers
        /\ handler \in [Watchers -> {"idle", "range", "write", "leave", "returned"}]
        /\ job \in {"work", "walk", "send", "ended"}
        /\ events \in 0..MaxEvents
    BY FanoutAssumption
  <2>5. /\ seen \in [1..N -> SUBSET Watchers]
        /\ held \in Watchers \cup {None}
        /\ crashed \in BOOLEAN
        /\ audience \subseteq Watchers
        /\ got \in [Watchers -> Nat]
        /\ full \subseteq Watchers
        /\ shifted \in BOOLEAN
    OBVIOUS
  <2>6. next \in 1..(N + 1)
    OBVIOUS
  <2> QED
    BY <2>1, <2>2, <2>3, <2>4, <2>5, <2>6 DEF TypeOK
<1>2. ListOK
  BY DEF ListOK
<1>3. WalkOK /\ QuietOK
  BY DEF WalkOK, QuietOK, Emitting
<1> QED
  BY <1>1, <1>2, <1>3 DEF FanIInv

\* A step that leaves the list alone, but for handlers that stay listed or
\* unlisted.
LEMMA SameList == ASSUME FanIInv, UNCHANGED sliceVars,
                         \A w \in Watchers :
                           /\ handler'[w] \in {"range", "write", "leave"}
                                <=> handler[w] \in {"range", "write", "leave"}
                           /\ handler'[w] = "returned" <=> handler[w] = "returned"
                  PROVE  ListOK'
  BY DEF FanIInv, ListOK, sliceVars

\* A step that leaves the walk alone.
LEMMA SameWalk == ASSUME FanIInv, UNCHANGED <<sliceVars, walkVars, histVars, seen, job>>
                  PROVE  WalkOK' /\ QuietOK'
  BY DEF FanIInv, WalkOK, QuietOK, SlotOK, Emitting, sliceVars, walkVars, histVars

\* A step of a client or a handler that moves no channel.
LEMMA HandlerMoves == ASSUME FanIInv, NEW w \in Watchers, Disconnect(w) \/ Receive(w) \/ Write(w)
                      PROVE  FanIInv'
<1>1. UNCHANGED <<sliceVars, walkVars, histVars, seen, job>>
  BY DEF Disconnect, Receive, Write
<1>2. TypeOK'
  <2>1. TypeOK /\ Buffer \in Nat
    BY FanoutAssumption DEF FanIInv
  <2>2. gone' \subseteq Watchers /\ UNCHANGED crashed
    BY <2>1 DEF TypeOK, Disconnect, Receive, Write
  <2>3. handler' \in [Watchers -> {"idle", "range", "write", "leave", "returned"}]
    BY <2>1 DEF TypeOK, Disconnect, Receive, Write, Goto
  <2>4. queued' \in [Watchers -> 0..Buffer]
    BY <2>1 DEF TypeOK, Disconnect, Receive, Write
  <2> QED
    BY <1>1, <2>1, <2>2, <2>3, <2>4 DEF TypeOK, sliceVars, walkVars, histVars
<1>3. ListOK'
  BY <1>1, SameList DEF FanIInv, TypeOK, Disconnect, Receive, Write, Goto
<1> QED
  BY <1>1, <1>2, <1>3, SameWalk DEF FanIInv

\* The array of js.subs is overwritten in place.
LEMMA Overwritten == ASSUME FanIInv, subs.cap # 0, NEW a \in [1..subs.cap -> Watchers \cup {None}],
                            Overwrite(a),
                            Emitting /\ snap.cap = subs.cap =>
                              \A k \in 1..snap.len : a[k] \in Watchers
                     PROVE  /\ DOMAIN arrays' = Capacities
                            /\ arrays'[subs.cap] = a
                            /\ \A c \in Capacities : c # subs.cap => arrays'[c] = arrays[c]
                            /\ \A c \in Capacities : arrays'[c] \in [1..c -> Watchers \cup {None}]
                            /\ seen' \in [1..N -> SUBSET Watchers]
<1>1. subs.cap \in Capacities /\ DOMAIN arrays = Capacities
      /\ \A c \in Capacities : arrays[c] \in [1..c -> Watchers \cup {None}]
  BY SliceTypes DEF FanIInv, TypeOK
<1>2. /\ DOMAIN arrays' = Capacities /\ arrays'[subs.cap] = a
      /\ \A c \in Capacities : c # subs.cap => arrays'[c] = arrays[c]
  BY <1>1 DEF Overwrite
<1>3. \A c \in Capacities : arrays'[c] \in [1..c -> Watchers \cup {None}]
  BY <1>1, <1>2
<1>4. seen' \in [1..N -> SUBSET Watchers]
  <2>1. seen \in [1..N -> SUBSET Watchers] /\ snap.len \in Nat
    BY SliceTypes DEF FanIInv, TypeOK
  <2>2. ASSUME NEW k \in 1..N, Emitting, snap.cap = subs.cap, k <= snap.len
        PROVE  a[k] \in Watchers
    BY <2>1, <2>2, FanoutNumbers
  <2> QED
    BY <2>1, <2>2 DEF Overwrite
<1> QED
  BY <1>2, <1>3, <1>4

\* While the slots and the flags of a walk stay, so does what is known of it.
LEMMA QuietFrame == ASSUME FanIInv, UNCHANGED <<walkVars, histVars, job>>,
                           subs.cap <= subs'.cap, subs'.cap \in Nat,
                           Emitting /\ ~shifted /\ snap.cap = subs'.cap => snap.len <= subs'.len,
                           Emitting => \A k \in 1..snap.len : arrays'[snap.cap][k] \in Watchers,
                           Emitting /\ ~shifted => \A k \in 1..snap.len :
                             /\ arrays'[snap.cap][k] = arrays[snap.cap][k]
                             /\ seen'[k] = seen[k]
                    PROVE  WalkOK' /\ QuietOK'
<1>1. UNCHANGED <<snap, next, held, audience, got, full, shifted, job>>
  BY DEF walkVars, histVars
<1>2. snap.cap \in Nat /\ subs.cap \in Nat
  BY SliceTypes DEF FanIInv
<1>3. WalkOK'
  BY <1>1, <1>2 DEF FanIInv, WalkOK, Emitting
<1>4. QuietOK'
  <2> SUFFICES ASSUME Emitting, ~shifted
               PROVE  /\ snap.cap = subs'.cap => snap.len <= subs'.len
                      /\ \A k, l \in 1..snap.len :
                           arrays'[snap.cap][k] = arrays'[snap.cap][l] => k = l
                      /\ audience = {arrays'[snap.cap][k] : k \in 1..snap.len}
                      /\ \A k \in 1..snap.len : SlotOK(k)'
                      /\ \A w \in Watchers \ audience : got[w] = 0
                      /\ job = "send" => held = arrays'[snap.cap][next]
    BY <1>1 DEF QuietOK, Emitting
  <2>1. /\ \A k, l \in 1..snap.len : arrays[snap.cap][k] = arrays[snap.cap][l] => k = l
        /\ audience = {arrays[snap.cap][k] : k \in 1..snap.len}
        /\ \A k \in 1..snap.len : SlotOK(k)
        /\ \A w \in Watchers \ audience : got[w] = 0
        /\ job = "send" => held = arrays[snap.cap][next]
    BY DEF FanIInv, QuietOK
  <2>2. ASSUME NEW k \in 1..snap.len PROVE SlotOK(k)'
    <3>1. SlotOK(k)
      BY <2>1
    <3> QED
      BY <1>1, <3>1 DEF SlotOK
  <2>3. job = "send" => next \in 1..snap.len
    <3>1. snap.len \in Nat /\ next \in Nat /\ next >= 1
      BY SliceTypes, FanoutNumbers DEF FanIInv, TypeOK
    <3> QED
      BY <3>1 DEF FanIInv, WalkOK
  <2> QED
    BY <2>1, <2>2, <2>3
<1> QED
  BY <1>3, <1>4

\* Subscribe puts the channel into the next slot of the array.
LEMMA SubscribeInPlace == ASSUME FanIInv, NEW w \in Watchers, Subscribe(w), subs.len < subs.cap
                          PROVE  FanIInv'
<1> DEFINE a == [arrays[subs.cap] EXCEPT ![subs.len + 1] = w]
<1>1. /\ subs.cap \in Capacities /\ subs.cap \in Nat /\ subs.len \in 0..N
      /\ subs.len \in Nat /\ N \in Nat /\ snap.len \in Nat /\ snap.cap \in Nat
      /\ subs.cap # 0 /\ subs.len + 1 \in 1..subs.cap /\ subs.len < N
  BY SliceTypes, FanoutNumbers, RoomToGrow DEF FanIInv, Subscribe
<1>2. arrays[subs.cap] \in [1..subs.cap -> Watchers \cup {None}]
  BY <1>1 DEF FanIInv, TypeOK
<1>3. /\ a \in [1..subs.cap -> Watchers \cup {None}]
      /\ \A k \in 1..subs.cap : a[k] = IF k = subs.len + 1 THEN w ELSE arrays[subs.cap][k]
  BY <1>1, <1>2
<1>4. /\ Overwrite(a) /\ subs' = [subs EXCEPT !.len = @ + 1]
      /\ handler' = [handler EXCEPT ![w] = "range"] /\ handler[w] = "idle"
      /\ UNCHANGED <<walkVars, histVars, closed, queued, gone, job, crashed>>
  BY DEF Subscribe, Goto
<1> HIDE DEF a
<1>5. subs'.cap = subs.cap /\ subs'.len = subs.len + 1 /\ subs' \in Slices
  <2>1. subs = [cap |-> subs.cap, len |-> subs.len]
    BY SliceTypes DEF FanIInv
  <2>2. subs' = [cap |-> subs.cap, len |-> subs.len + 1]
    BY <1>4, <2>1
  <2>3. subs.len + 1 \in 0..N
    BY <1>1
  <2> QED
    BY <1>1, <2>2, <2>3 DEF Slices
<1>6. Emitting /\ snap.cap = subs.cap => \A k \in 1..snap.len : k \in 1..subs.cap /\ a[k] \in Watchers
  BY <1>1, <1>3 DEF FanIInv, WalkOK
<1>7. /\ DOMAIN arrays' = Capacities
      /\ arrays'[subs.cap] = a
      /\ \A c \in Capacities : c # subs.cap => arrays'[c] = arrays[c]
      /\ \A c \in Capacities : arrays'[c] \in [1..c -> Watchers \cup {None}]
      /\ seen' \in [1..N -> SUBSET Watchers]
  BY <1>1, <1>3, <1>4, <1>6, Overwritten
<1>8. TypeOK'
  BY <1>4, <1>5, <1>7 DEF FanIInv, TypeOK, walkVars, histVars
<1>9. ListOK'
  <2>1. \A k \in 1..subs.len : a[k] = arrays[subs.cap][k]
    BY <1>1, <1>3
  <2>2. a[subs.len + 1] = w
    BY <1>1, <1>3
  <2>3. \A k \in 1..(subs.len + 1) : k \in 1..subs.len \/ k = subs.len + 1
    BY <1>1
  <2>4. \A k \in 1..subs.len : arrays[subs.cap][k] # w /\ k # subs.len + 1 /\ k \in 1..(subs.len + 1)
    BY <1>1, <1>4 DEF FanIInv, ListOK
  <2>5. \A v \in Watchers : handler'[v] = IF v = w THEN "range" ELSE handler[v]
    BY <1>4 DEF FanIInv, TypeOK
  <2>6. subs.len + 1 <= subs.cap /\ subs.len + 1 \in 1..(subs.len + 1)
    BY <1>1
  <2>7. \A k \in 1..(subs.len + 1) : a[k] \in Watchers
    BY <2>1, <2>2, <2>3 DEF FanIInv, ListOK
  <2>8. \A k, l \in 1..(subs.len + 1) : a[k] = a[l] => k = l
    BY <2>1, <2>2, <2>3, <2>4 DEF FanIInv, ListOK
  <2>9. ASSUME NEW v \in Watchers
        PROVE  handler'[v] \in {"range", "write", "leave"} <=> \E k \in 1..(subs.len + 1) : a[k] = v
    BY <2>1, <2>2, <2>3, <2>4, <2>5, <2>6 DEF FanIInv, ListOK
  <2>10. closed' = {v \in Watchers : handler'[v] = "returned"}
    BY <1>4, <2>5 DEF FanIInv, ListOK
  <2> QED
    BY <1>5, <1>7, <2>6, <2>7, <2>8, <2>9, <2>10 DEF ListOK
<1>10. WalkOK' /\ QuietOK'
  <2>1. UNCHANGED <<walkVars, histVars, job>> /\ subs.cap <= subs'.cap /\ subs'.cap \in Nat
    BY <1>1, <1>4, <1>5
  <2>2. Emitting => \A k \in 1..snap.len : /\ arrays[snap.cap][k] \in Watchers
                                          /\ k \in 1..snap.cap /\ snap.cap \in Capacities
    BY <1>1, SliceTypes DEF FanIInv, WalkOK
  <2>3. Emitting => \A k \in 1..snap.len : arrays'[snap.cap][k] \in Watchers
    BY <1>6, <1>7, <2>2
  <2>4. Emitting /\ ~shifted /\ snap.cap = subs.cap => snap.len <= subs.len
    BY DEF FanIInv, QuietOK
  <2>5. ASSUME Emitting, ~shifted, NEW k \in 1..snap.len
        PROVE  arrays'[snap.cap][k] = arrays[snap.cap][k] /\ seen'[k] = seen[k]
    <3>1. CASE snap.cap = subs.cap
      <4>1. k \in 1..subs.cap /\ k # subs.len + 1
        BY <1>1, <2>2, <2>4, <2>5, <3>1
      <4>2. a[k] = arrays[snap.cap][k]
        BY <1>3, <3>1, <4>1
      <4>3. seen[k] = {arrays[snap.cap][k]}
        BY <2>5 DEF FanIInv, QuietOK, SlotOK
      <4>4. k \in 1..N /\ k <= snap.len
        BY <1>1, SliceTypes DEF FanIInv
      <4>5. seen'[k] = seen[k] \cup {a[k]}
        BY <1>4, <2>5, <3>1, <4>4 DEF Overwrite
      <4> QED
        BY <1>7, <3>1, <4>2, <4>3, <4>5
    <3>2. CASE snap.cap # subs.cap
      <4>1. k \in 1..N
        BY <1>1, SliceTypes DEF FanIInv
      <4> QED
        BY <1>4, <1>7, <2>2, <2>5, <3>2, <4>1 DEF Overwrite
    <3> QED
      BY <3>1, <3>2
  <2>6. Emitting /\ ~shifted /\ snap.cap = subs'.cap => snap.len <= subs'.len
    BY <1>1, <1>5, <2>4
  <2> QED
    BY <2>1, <2>3, <2>5, <2>6, QuietFrame
<1> QED
  BY <1>8, <1>9, <1>10 DEF FanIInv

\* Subscribe copies a full array into a new one of twice its size.
LEMMA SubscribeInNew == ASSUME FanIInv, NEW w \in Watchers, Subscribe(w), ~(subs.len < subs.cap)
                        PROVE  FanIInv'
<1> DEFINE c == IF subs.cap = 0 THEN 1 ELSE 2 * subs.cap
           a == [k \in 1..c |-> IF k <= subs.len THEN arrays[subs.cap][k]
                                ELSE IF k = subs.len + 1 THEN w ELSE None]
<1>1. /\ subs.cap \in Nat /\ subs.len \in Nat /\ N \in Nat /\ subs.len = subs.cap
      /\ snap.len \in Nat /\ snap.cap \in Nat
      /\ subs.len < N /\ Capacities = 1..(2 * N)
  BY SliceTypes, FanoutNumbers, RoomToGrow DEF FanIInv, ListOK, Subscribe
<1>2. c \in Capacities /\ c \in Nat /\ subs.cap < c /\ subs.len + 1 \in 1..c
  BY <1>1
<1>3. /\ arrays' = [arrays EXCEPT ![c] = a]
      /\ subs' = [cap |-> c, len |-> subs.len + 1] /\ UNCHANGED seen
      /\ handler' = [handler EXCEPT ![w] = "range"] /\ handler[w] = "idle"
      /\ UNCHANGED <<walkVars, histVars, closed, queued, gone, job, crashed>>
  BY DEF Subscribe, Goto
<1>4. \A k \in 1..subs.len : arrays[subs.cap][k] \in Watchers
  BY DEF FanIInv, ListOK
<1>5. /\ a \in [1..c -> Watchers \cup {None}]
      /\ \A k \in 1..c : a[k] = IF k <= subs.len THEN arrays[subs.cap][k]
                                ELSE IF k = subs.len + 1 THEN w ELSE None
  <2>1. \A k \in 1..c : k <= subs.len => k \in 1..subs.len
    BY <1>1
  <2> QED
    BY <1>4, <2>1
<1> HIDE DEF a, c
<1>6. subs'.cap = c /\ subs'.len = subs.len + 1 /\ subs' \in Slices
  <2>1. subs.len + 1 \in 0..N
    BY <1>1
  <2> QED
    BY <1>2, <1>3, <2>1 DEF Slices
<1>7. DOMAIN arrays = Capacities /\ \A d \in Capacities : arrays[d] \in [1..d -> Watchers \cup {None}]
  BY DEF FanIInv, TypeOK
<1>8. /\ DOMAIN arrays' = Capacities /\ arrays'[c] = a
      /\ \A d \in Capacities : d # c => arrays'[d] = arrays[d]
  BY <1>2, <1>3, <1>7
<1>9. \A d \in Capacities : arrays'[d] \in [1..d -> Watchers \cup {None}]
  BY <1>5, <1>7, <1>8
<1>10. TypeOK'
  BY <1>3, <1>6, <1>8, <1>9 DEF FanIInv, TypeOK, walkVars, histVars
<1>11. ListOK'
  <2>1. \A k \in 1..subs.len : k \in 1..c /\ k <= subs.len /\ a[k] = arrays[subs.cap][k]
    BY <1>1, <1>2, <1>5
  <2>2. a[subs.len + 1] = w
    BY <1>1, <1>2, <1>5
  <2>3. \A k \in 1..(subs.len + 1) : k \in 1..subs.len \/ k = subs.len + 1
    BY <1>1
  <2>4. \A k \in 1..subs.len : arrays[subs.cap][k] # w /\ k # subs.len + 1 /\ k \in 1..(subs.len + 1)
    BY <1>1, <1>3 DEF FanIInv, ListOK
  <2>5. \A v \in Watchers : handler'[v] = IF v = w THEN "range" ELSE handler[v]
    BY <1>3 DEF FanIInv, TypeOK
  <2>6. subs.len + 1 <= c /\ subs.len + 1 \in 1..(subs.len + 1)
    BY <1>1, <1>2
  <2>7. \A k \in 1..(subs.len + 1) : a[k] \in Watchers
    BY <1>4, <2>1, <2>2, <2>3
  <2>8. \A k, l \in 1..(subs.len + 1) : a[k] = a[l] => k = l
    BY <2>1, <2>2, <2>3, <2>4 DEF FanIInv, ListOK
  <2>9. ASSUME NEW v \in Watchers
        PROVE  handler'[v] \in {"range", "write", "leave"} <=> \E k \in 1..(subs.len + 1) : a[k] = v
    BY <2>1, <2>2, <2>3, <2>4, <2>5, <2>6 DEF FanIInv, ListOK
  <2>10. closed' = {v \in Watchers : handler'[v] = "returned"}
    BY <1>3, <2>5 DEF FanIInv, ListOK
  <2> QED
    BY <1>6, <1>8, <2>6, <2>7, <2>8, <2>9, <2>10 DEF ListOK
<1>12. WalkOK' /\ QuietOK'
  <2>1. UNCHANGED <<walkVars, histVars, job>> /\ subs.cap <= subs'.cap /\ subs'.cap \in Nat
    BY <1>1, <1>2, <1>3, <1>6
  <2>2. Emitting => snap.cap <= subs.cap /\ snap.cap # c
    BY <1>1, <1>2 DEF FanIInv, WalkOK
  <2>3. Emitting => \A k \in 1..snap.len : /\ arrays[snap.cap][k] \in Watchers
                                           /\ snap.cap \in Capacities
    BY <1>1, SliceTypes DEF FanIInv, WalkOK
  <2>4. Emitting => \A k \in 1..snap.len : /\ arrays'[snap.cap][k] = arrays[snap.cap][k]
                                           /\ arrays'[snap.cap][k] \in Watchers
                                           /\ seen'[k] = seen[k]
    BY <1>3, <1>8, <2>2, <2>3
  <2>5. Emitting => snap.cap # subs'.cap
    BY <1>6, <2>2
  <2> QED
    BY <2>1, <2>4, <2>5, QuietFrame
<1> QED
  BY <1>10, <1>11, <1>12 DEF FanIInv

\* Unsubscribe moves the channels behind its own down by one slot.
LEMMA UnsubscribeInv == ASSUME FanIInv, NEW w \in Watchers, Unsubscribe(w)
                        PROVE  FanIInv'
<1>1. PICK i \in 1..subs.len :
        /\ arrays[subs.cap][i] = w
        /\ Overwrite([k \in 1..subs.cap |->
             arrays[subs.cap][IF i <= k /\ k < subs.len THEN k + 1 ELSE k]])
  BY DEF Unsubscribe
<1> DEFINE a == [k \in 1..subs.cap |->
                   arrays[subs.cap][IF i <= k /\ k < subs.len THEN k + 1 ELSE k]]
<1>2. /\ subs.cap \in Capacities /\ subs.cap \in Nat /\ subs.len \in 0..N
      /\ subs.len \in Nat /\ N \in Nat /\ snap.len \in Nat /\ snap.cap \in Nat
      /\ subs.cap # 0 /\ subs.len <= subs.cap /\ i \in Nat /\ i >= 1 /\ i <= subs.len
  BY SliceTypes, FanoutNumbers DEF FanIInv, ListOK
<1>3. arrays[subs.cap] \in [1..subs.cap -> Watchers \cup {None}]
  BY <1>2 DEF FanIInv, TypeOK
<1>4. /\ a \in [1..subs.cap -> Watchers \cup {None}]
      /\ \A k \in 1..subs.cap :
           a[k] = IF i <= k /\ k < subs.len THEN arrays[subs.cap][k + 1] ELSE arrays[subs.cap][k]
  <2>1. \A k \in 1..subs.cap : i <= k /\ k < subs.len => k + 1 \in 1..subs.cap
    BY <1>2
  <2> QED
    BY <1>3, <2>1
<1>5. /\ Overwrite(a) /\ subs' = [subs EXCEPT !.len = @ - 1]
      /\ handler' = [handler EXCEPT ![w] = "returned"] /\ handler[w] = "leave"
      /\ closed' = closed \cup {w} /\ shifted' = (shifted \/ Emitting)
      /\ UNCHANGED <<walkVars, audience, got, full, queued, gone, job, crashed>>
  BY <1>1 DEF Unsubscribe, Goto
<1> HIDE DEF a
<1>6. subs'.cap = subs.cap /\ subs'.len = subs.len - 1 /\ subs' \in Slices
  <2>1. subs = [cap |-> subs.cap, len |-> subs.len]
    BY SliceTypes DEF FanIInv
  <2>2. subs' = [cap |-> subs.cap, len |-> subs.len - 1]
    BY <1>5, <2>1
  <2>3. subs.len - 1 \in 0..N
    BY <1>2
  <2> QED
    BY <1>2, <2>2, <2>3 DEF Slices
<1>7. \A k \in 1..subs.len : arrays[subs.cap][k] \in Watchers /\ k \in 1..subs.cap
  BY <1>2 DEF FanIInv, ListOK
<1>8. Emitting /\ snap.cap = subs.cap => \A k \in 1..snap.len : a[k] \in Watchers
  <2> SUFFICES ASSUME Emitting, snap.cap = subs.cap, NEW k \in 1..snap.len
               PROVE  a[k] \in Watchers
    OBVIOUS
  <2>1. k \in 1..subs.cap /\ arrays[subs.cap][k] \in Watchers
    BY <1>2 DEF FanIInv, WalkOK
  <2>2. CASE i <= k /\ k < subs.len
    <3>1. k + 1 \in 1..subs.len
      BY <1>2, <2>2
    <3> QED
      BY <1>4, <1>7, <2>1, <2>2, <3>1
  <2>3. CASE ~(i <= k /\ k < subs.len)
    BY <1>4, <2>1, <2>3
  <2> QED
    BY <2>2, <2>3
<1>9. /\ DOMAIN arrays' = Capacities
      /\ arrays'[subs.cap] = a
      /\ \A c \in Capacities : c # subs.cap => arrays'[c] = arrays[c]
      /\ \A c \in Capacities : arrays'[c] \in [1..c -> Watchers \cup {None}]
      /\ seen' \in [1..N -> SUBSET Watchers]
  BY <1>2, <1>4, <1>5, <1>8, Overwritten
<1>10. TypeOK'
  <2>1. shifted' \in BOOLEAN /\ closed' \subseteq Watchers
    BY <1>5 DEF FanIInv, TypeOK, Emitting
  <2>2. handler' \in [Watchers -> {"idle", "range", "write", "leave", "returned"}]
    BY <1>5 DEF FanIInv, TypeOK
  <2> QED
    BY <1>5, <1>6, <1>9, <2>1, <2>2 DEF FanIInv, TypeOK, walkVars
<1>11. ListOK'
  <2>1. /\ \A k \in 1..(subs.len - 1) : k \in 1..subs.len /\ k + 1 \in 1..subs.len
        /\ \A k \in 1..(subs.len - 1) :
             a[k] = IF k < i THEN arrays[subs.cap][k] ELSE arrays[subs.cap][k + 1]
    <3> SUFFICES ASSUME NEW k \in 1..(subs.len - 1)
                 PROVE  /\ k \in 1..subs.len /\ k + 1 \in 1..subs.len
                        /\ a[k] = IF k < i THEN arrays[subs.cap][k] ELSE arrays[subs.cap][k + 1]
      OBVIOUS
    <3>1. k \in Nat /\ k \in 1..subs.cap /\ k < subs.len
      BY <1>2
    <3> QED
      BY <1>2, <1>4, <3>1
  <2>2. \A k, l \in 1..subs.len : arrays[subs.cap][k] = arrays[subs.cap][l] => k = l
    BY DEF FanIInv, ListOK
  <2>3. \A k \in 1..(subs.len - 1) : a[k] \in Watchers
    BY <1>7, <2>1
  <2>4. \A k, l \in 1..(subs.len - 1) : a[k] = a[l] => k = l
    <3> SUFFICES ASSUME NEW k \in 1..(subs.len - 1), NEW l \in 1..(subs.len - 1), a[k] = a[l]
                 PROVE  k = l
      OBVIOUS
    <3>1. k \in Nat /\ l \in Nat
      OBVIOUS
    <3>2. (IF k < i THEN k ELSE k + 1) = (IF l < i THEN l ELSE l + 1)
      BY <1>2, <2>1, <2>2, <3>1
    <3> QED
      BY <1>2, <3>1, <3>2
  <2>5. \A v \in Watchers : handler'[v] = IF v = w THEN "returned" ELSE handler[v]
    BY <1>5 DEF FanIInv, TypeOK
  <2>6. ASSUME NEW v \in Watchers
        PROVE  handler'[v] \in {"range", "write", "leave"}
                 <=> \E k \in 1..(subs.len - 1) : a[k] = v
    <3>1. CASE v = w
      <4> SUFFICES ASSUME NEW k \in 1..(subs.len - 1), a[k] = w PROVE FALSE
        BY <2>5, <3>1
      <4>1. k \in Nat
        OBVIOUS
      <4>2. (IF k < i THEN k ELSE k + 1) = i
        BY <1>1, <1>2, <2>1, <2>2, <4>1
      <4> QED
        BY <1>2, <4>1, <4>2
    <3>2. CASE v # w
      <4>1. handler[v] \in {"range", "write", "leave"}
              <=> \E k \in 1..subs.len : arrays[subs.cap][k] = v
        BY DEF FanIInv, ListOK
      <4>2. ASSUME NEW k \in 1..subs.len, arrays[subs.cap][k] = v
            PROVE  \E l \in 1..(subs.len - 1) : a[l] = v
        <5>1. k # i /\ k \in Nat
          BY <1>1, <3>2, <4>2
        <5>2. CASE k < i
          <6>1. k \in 1..(subs.len - 1)
            BY <1>2, <5>1, <5>2
          <6> QED
            BY <2>1, <4>2, <5>2, <6>1
        <5>3. CASE k > i
          <6>1. k - 1 \in 1..(subs.len - 1) /\ ~(k - 1 < i) /\ (k - 1) + 1 = k
            BY <1>2, <5>1, <5>3
          <6>2. a[k - 1] = arrays[subs.cap][(k - 1) + 1]
            BY <2>1, <6>1
          <6> QED
            BY <4>2, <6>1, <6>2
        <5> QED
          BY <1>2, <5>1, <5>2, <5>3
      <4>3. ASSUME NEW l \in 1..(subs.len - 1), a[l] = v
            PROVE  \E k \in 1..subs.len : arrays[subs.cap][k] = v
        BY <2>1, <4>3
      <4>4. handler'[v] = handler[v]
        BY <2>5, <3>2
      <4> QED
        BY <4>1, <4>2, <4>3, <4>4
    <3> QED
      BY <3>1, <3>2
  <2>7. closed' = {v \in Watchers : handler'[v] = "returned"}
    BY <1>5, <2>5 DEF FanIInv, ListOK
  <2>8. subs.len - 1 <= subs.cap
    BY <1>2
  <2> QED
    BY <1>6, <1>9, <2>3, <2>4, <2>6, <2>7, <2>8 DEF ListOK
<1>12. WalkOK'
  <2>1. UNCHANGED <<snap, next, held, job>>
    BY <1>5 DEF walkVars
  <2>2. Emitting => \A k \in 1..snap.len : /\ arrays[snap.cap][k] \in Watchers
                                           /\ snap.cap \in Capacities
    BY <1>2, SliceTypes DEF FanIInv, WalkOK
  <2>3. Emitting => \A k \in 1..snap.len : arrays'[snap.cap][k] \in Watchers
    BY <1>8, <1>9, <2>2
  <2> QED
    BY <1>6, <2>1, <2>3 DEF FanIInv, WalkOK, Emitting
<1>13. QuietOK'
  BY <1>5 DEF QuietOK, Emitting
<1> QED
  BY <1>10, <1>11, <1>12, <1>13 DEF FanIInv

\* emit copies the slice and has not read a slot yet.
LEMMA EmitStartInv == ASSUME FanIInv, EmitStart PROVE FanIInv'
<1>1. /\ subs.len \in Nat /\ subs.cap \in Nat /\ subs.len <= subs.cap /\ N \in Nat
      /\ subs.len \in 0..N /\ subs \in Slices /\ events \in Nat /\ MaxEvents \in Nat
  BY SliceTypes, FanoutNumbers, FanoutAssumption DEF FanIInv, ListOK, TypeOK
<1>2. /\ job' = "walk" /\ events' = events + 1 /\ snap' = subs /\ next' = 1
      /\ seen' = [k \in 1..N |-> IF k <= subs.len THEN {arrays[subs.cap][k]} ELSE {}]
      /\ audience' = Listed /\ got' = [w \in Watchers |-> 0] /\ full' = {} /\ shifted' = FALSE
      /\ events < MaxEvents
      /\ UNCHANGED <<sliceVars, held, queued, gone, handler, crashed>>
  BY DEF EmitStart
<1>3. \A k \in 1..subs.len : arrays[subs.cap][k] \in Watchers
  BY DEF FanIInv, ListOK
<1>4. \A k \in 1..N : k <= subs.len => k \in 1..subs.len
  BY <1>1
<1>5. TypeOK'
  <2>1. seen' \in [1..N -> SUBSET Watchers]
    BY <1>2, <1>3, <1>4
  <2>2. events' \in 0..MaxEvents /\ next' \in 1..(N + 1)
    BY <1>1, <1>2
  <2>3. audience' \subseteq Watchers /\ got' \in [Watchers -> Nat] /\ full' \subseteq Watchers
    BY <1>2, <1>3 DEF Listed
  <2> QED
    BY <1>1, <1>2, <2>1, <2>2, <2>3 DEF FanIInv, TypeOK, sliceVars
<1>6. ListOK'
  BY <1>2, SameList
<1>7. WalkOK'
  BY <1>1, <1>2, <1>3 DEF WalkOK, sliceVars
<1>8. QuietOK'
  <2>1. \A k, l \in 1..subs.len : arrays[subs.cap][k] = arrays[subs.cap][l] => k = l
    BY DEF FanIInv, ListOK
  <2>2. audience' = {arrays[subs.cap][k] : k \in 1..subs.len}
    BY <1>2 DEF Listed
  <2>3. ASSUME NEW k \in 1..subs.len PROVE SlotOK(k)'
    <3>1. k \in 1..N /\ k <= subs.len /\ k >= 1 /\ k \in Nat
      BY <1>1
    <3>2. seen'[k] = {arrays[subs.cap][k]}
      BY <1>2, <3>1
    <3>3. got'[arrays[subs.cap][k]] = 0 /\ arrays[subs.cap][k] \notin full'
      BY <1>2, <1>3
    <3>4. ~(k < next')
      BY <1>2, <3>1
    <3>5. snap' = subs /\ arrays' = arrays
      BY <1>2 DEF sliceVars
    <3> QED
      BY <3>2, <3>3, <3>4, <3>5 DEF SlotOK
  <2>4. \A w \in Watchers \ audience' : got'[w] = 0
    BY <1>2
  <2> QED
    BY <1>1, <1>2, <2>1, <2>2, <2>3, <2>4 DEF QuietOK, sliceVars
<1> QED
  BY <1>5, <1>6, <1>7, <1>8 DEF FanIInv

\* The walk reads one of the values the slot has had.
LEMMA ReadSlotInv == ASSUME FanIInv, ReadSlot PROVE FanIInv'
<1>1. next \in Nat /\ next >= 1 /\ next <= snap.len /\ snap.len \in Nat /\ next \in 1..N
      /\ next \in 1..snap.len
  BY SliceTypes, FanoutNumbers DEF FanIInv, TypeOK, ReadSlot
<1>2. /\ held' \in seen[next] /\ job' = "send" /\ job = "walk"
      /\ UNCHANGED <<sliceVars, events, snap, next, histVars, seen, queued, gone, handler, crashed>>
  BY DEF ReadSlot
<1>3. held' \in Watchers
  BY <1>1, <1>2 DEF FanIInv, TypeOK
<1>4. TypeOK'
  BY <1>2, <1>3 DEF FanIInv, TypeOK, sliceVars, histVars
<1>5. ListOK'
  BY <1>2, SameList
<1>6. WalkOK'
  BY <1>1, <1>2, <1>3 DEF FanIInv, WalkOK, Emitting, sliceVars
<1>7. QuietOK'
  <2> SUFFICES ASSUME ~shifted PROVE QuietOK'
    BY <1>2 DEF QuietOK, histVars
  <2>1. /\ snap.cap = subs.cap => snap.len <= subs.len
        /\ \A k, l \in 1..snap.len : arrays[snap.cap][k] = arrays[snap.cap][l] => k = l
        /\ audience = {arrays[snap.cap][k] : k \in 1..snap.len}
        /\ \A k \in 1..snap.len : SlotOK(k)
        /\ \A w \in Watchers \ audience : got[w] = 0
    BY <1>2 DEF FanIInv, QuietOK, Emitting
  <2>2. held' = arrays[snap.cap][next]
    BY <1>1, <1>2, <2>1 DEF SlotOK
  <2>3. ASSUME NEW k \in 1..snap.len PROVE SlotOK(k)'
    <3>1. SlotOK(k)
      BY <2>1
    <3> QED
      BY <1>2, <3>1 DEF SlotOK, sliceVars, histVars
  <2> QED
    BY <1>2, <2>1, <2>2, <2>3 DEF QuietOK, sliceVars, histVars
<1> QED
  BY <1>4, <1>5, <1>6, <1>7 DEF FanIInv

\* The event goes into the channel that was read, or is dropped there.
LEMMA SendInv == ASSUME FanIInv, Send \/ SendFull PROVE FanIInv'
<1>1. /\ job = "send" /\ job' = "walk" /\ next' = next + 1 /\ held' = None
      /\ UNCHANGED <<sliceVars, events, snap, audience, shifted, seen, gone, handler, crashed>>
  BY DEF Send, SendFull, Advance
<1>2. /\ held \in Watchers /\ next \in Nat /\ next >= 1 /\ next <= snap.len /\ snap.len \in Nat
      /\ next + 1 \in 1..(N + 1) /\ N \in Nat /\ next \in 1..snap.len
  BY <1>1, SliceTypes, FanoutNumbers DEF FanIInv, TypeOK, WalkOK, Emitting
<1>3. got \in [Watchers -> Nat] /\ full \subseteq Watchers /\ queued \in [Watchers -> 0..Buffer]
      /\ Buffer \in Nat
  BY FanoutAssumption DEF FanIInv, TypeOK
<1>4. /\ got' \in [Watchers -> Nat] /\ full' \subseteq Watchers
      /\ queued' \in [Watchers -> 0..Buffer]
      /\ \A w \in Watchers : w # held => got'[w] = got[w] /\ (w \in full' <=> w \in full)
      /\ \/ got'[held] = got[held] + 1 /\ full' = full
         \/ got'[held] = got[held] /\ held \in full'
  <2>1. CASE Send
    <3>1. /\ got' = [got EXCEPT ![held] = @ + 1] /\ full' = full
          /\ queued' = [queued EXCEPT ![held] = @ + 1] /\ queued[held] < Buffer
      BY <2>1 DEF Send
    <3>2. queued[held] + 1 \in 0..Buffer /\ got[held] + 1 \in Nat
      BY <1>2, <1>3, <3>1
    <3> QED
      BY <1>2, <1>3, <3>1, <3>2
  <2>2. CASE SendFull
    BY <1>2, <1>3, <2>2 DEF SendFull
  <2> QED
    BY <2>1, <2>2
<1>5. TypeOK'
  BY <1>1, <1>2, <1>4 DEF FanIInv, TypeOK, sliceVars
<1>6. ListOK'
  BY <1>1, SameList
<1>7. WalkOK'
  BY <1>1 DEF FanIInv, WalkOK, Emitting, sliceVars
<1>8. QuietOK'
  <2> SUFFICES ASSUME ~shifted PROVE QuietOK'
    BY <1>1 DEF QuietOK
  <2>1. /\ snap.cap = subs.cap => snap.len <= subs.len
        /\ \A k, l \in 1..snap.len : arrays[snap.cap][k] = arrays[snap.cap][l] => k = l
        /\ audience = {arrays[snap.cap][k] : k \in 1..snap.len}
        /\ \A k \in 1..snap.len : SlotOK(k)
        /\ \A w \in Watchers \ audience : got[w] = 0
        /\ held = arrays[snap.cap][next]
    BY <1>1 DEF FanIInv, QuietOK, Emitting
  <2>2. \A k \in 1..snap.len : arrays[snap.cap][k] \in Watchers
    BY <1>1 DEF FanIInv, WalkOK, Emitting
  <2>3. ASSUME NEW k \in 1..snap.len PROVE SlotOK(k)'
    <3> DEFINE w == arrays[snap.cap][k]
    <3>1. /\ seen[k] = {w}
          /\ k < next => got[w] = IF w \in full THEN 0 ELSE 1
          /\ k >= next => got[w] = 0 /\ w \notin full
      BY <2>1 DEF SlotOK
    <3>2. w \in Watchers /\ k \in Nat /\ (w = held <=> k = next)
      BY <1>2, <2>1, <2>2
    <3> HIDE DEF w
    <3>3. k < next + 1 => got'[w] = IF w \in full' THEN 0 ELSE 1
      <4>1. CASE k = next
        BY <1>2, <1>4, <3>1, <3>2, <4>1
      <4>2. CASE k # next
        BY <1>2, <1>4, <3>1, <3>2, <4>2
      <4> QED
        BY <4>1, <4>2
    <3>4. k >= next + 1 => got'[w] = 0 /\ w \notin full'
      BY <1>2, <1>4, <3>1, <3>2
    <3> QED
      BY <1>1, <3>1, <3>3, <3>4 DEF SlotOK, sliceVars, w
  <2>4. \A w \in Watchers \ audience : got'[w] = 0
    BY <1>2, <1>4, <2>1
  <2> QED
    BY <1>1, <2>1, <2>3, <2>4 DEF QuietOK, sliceVars
<1> QED
  BY <1>5, <1>6, <1>7, <1>8 DEF FanIInv

\* The end of a walk or of the job, and the panic, send nothing.
LEMMA JobStops == ASSUME FanIInv, SendPanics \/ EmitEnd \/ JobEnds PROVE FanIInv'
<1>1. /\ UNCHANGED <<sliceVars, walkVars, histVars, seen, queued, gone, handler>>
      /\ crashed' \in BOOLEAN /\ job' \in {"work", "send", "ended"}
      /\ job' = "send" => job = "send"
  BY DEF FanIInv, TypeOK, SendPanics, EmitEnd, JobEnds
<1>2. TypeOK'
  BY <1>1 DEF FanIInv, TypeOK, sliceVars, walkVars, histVars
<1>3. ListOK'
  BY <1>1, SameList
<1>4. CASE job' = "send"
  BY <1>1, <1>2, <1>3, <1>4, SameWalk DEF FanIInv
<1>5. CASE job' # "send"
  BY <1>1, <1>2, <1>3, <1>5 DEF FanIInv, WalkOK, QuietOK, Emitting
<1> QED
  BY <1>4, <1>5

\* Every step keeps the inductive invariant.
LEMMA FanNext == FanIInv /\ [Next]_vars => FanIInv'
<1> SUFFICES ASSUME FanIInv, [Next]_vars PROVE FanIInv'
  OBVIOUS
<1>1. CASE JobStep
  BY <1>1, EmitStartInv, ReadSlotInv, SendInv, JobStops DEF JobStep
<1>2. ASSUME NEW w \in Watchers, HandlerStep(w) \/ ClientStep(w) PROVE FanIInv'
  BY <1>2, HandlerMoves, UnsubscribeInv, SubscribeInPlace, SubscribeInNew
     DEF HandlerStep, ClientStep
<1>3. CASE UNCHANGED vars
  <2>1. UNCHANGED <<sliceVars, walkVars, histVars, seen, queued, gone, handler, job, crashed>>
    BY <1>3 DEF vars
  <2>2. TypeOK'
    BY <2>1 DEF FanIInv, TypeOK, sliceVars, walkVars, histVars
  <2> QED
    BY <2>1, <2>2, SameList, SameWalk DEF FanIInv
<1> QED
  BY <1>1, <1>2, <1>3 DEF Next

\* The inductive invariant says what the list and the deliveries promise.
LEMMA FanIInvImplies == FanIInv => FanoutInv
<1> SUFFICES ASSUME FanIInv PROVE FanoutInv
  OBVIOUS
<1>1. SubsExact
  <2>1. Listed = {w \in Watchers : handler[w] \in {"range", "write", "leave"}}
    BY DEF FanIInv, ListOK, Listed
  <2>2. Cardinality(Listed) = subs.len
    <3>1. subs.len \in Nat
      BY SliceTypes, FanoutNumbers DEF FanIInv
    <3>2. \A k, l \in 1..subs.len : arrays[subs.cap][k] = arrays[subs.cap][l] => k = l
      BY DEF FanIInv, ListOK
    <3> DEFINE T == {arrays[subs.cap][k] : k \in 1..subs.len}
    <3>3. IsFiniteSet(T) /\ Cardinality(T) = subs.len
      BY <3>1, <3>2, SlotCount
    <3> QED
      BY <3>3 DEF Listed
  <2>3. Listed \cap closed = {}
    BY <2>1 DEF FanIInv, ListOK
  <2> QED
    BY <2>1, <2>2, <2>3 DEF SubsExact
<1>2. DeliveredWhenQuiet
  <2> SUFFICES ASSUME job = "walk", next > snap.len, ~shifted, NEW w \in Watchers
               PROVE  got[w] = IF w \in audience \ full THEN 1 ELSE 0
    BY DEF DeliveredWhenQuiet, EmitComplete
  <2>1. /\ audience = {arrays[snap.cap][k] : k \in 1..snap.len}
        /\ \A k \in 1..snap.len : SlotOK(k)
        /\ \A v \in Watchers \ audience : got[v] = 0
    BY DEF FanIInv, QuietOK, Emitting
  <2>2. CASE w \in audience
    <3>1. PICK k \in 1..snap.len : arrays[snap.cap][k] = w
      BY <2>1, <2>2
    <3>2. k < next
      BY SliceTypes, FanoutNumbers DEF FanIInv, TypeOK
    <3>3. got[w] = IF w \in full THEN 0 ELSE 1
      BY <2>1, <3>1, <3>2 DEF SlotOK
    <3> QED
      BY <2>2, <3>3
  <2>3. CASE w \notin audience
    BY <2>1, <2>3
  <2> QED
    BY <2>2, <2>3
<1> QED
  BY <1>1, <1>2 DEF FanIInv, FanoutInv

\* Engine.Subscribe, Unsubscribe and emit: the list is exact however the array
\* of the slice is shared, shifted and reused, and an event reaches every
\* watcher once when no Unsubscribe falls into its emit.
THEOREM FanoutInvariance == Spec => []FanoutInv
<1>1. Init => FanIInv
  BY FanInit
<1>2. FanIInv /\ [Next]_vars => FanIInv'
  BY FanNext
<1> QED
  BY <1>1, <1>2, FanIInvImplies, PTL DEF Spec

=============================================================================
