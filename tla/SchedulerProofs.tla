---------------------------- MODULE SchedulerProofs ----------------------------
(***************************************************************************)
(* Proofs about the scheduler, for any number of schedules, requests and   *)
(* expressions, and for any bounds, and about the search of nextTime.      *)
(***************************************************************************)
EXTENDS Scheduler, Cron, FiniteSetTheorems, WellFoundedInduction, TLAPS

USE SchedulerAssumption

\* Whoever edits or saves holds a copy, and whoever edits holds one of a
\* schedule that was there.
CopiesHeld ==
    /\ copy \in [Procs -> Copies \cup {None}]
    /\ \A p \in Procs : pc[p] \in {"edit", "save", "write"} => copy[p] \in Copies
    /\ \A p \in Procs : pc[p] = "edit" => copy[p].job \in Schedules \ {None}

\* A job of the engine is under way only while the loop waits for it, and it
\* shows "done" or "failed" only once it has ended.
RunKnown ==
    /\ pc[Loop] \in {"poll", "record"} => cur \in Ids
    /\ \A i \in Ids : phase[i] \in {"queued", "open"} => pc[Loop] = "poll" /\ cur = i
    /\ \A i \in Ids : status[i] \in {"done", "failed"} => phase[i] = "closed"

\* The inductive invariant.
SchedIInv == TypeOK /\ CopiesHeld /\ FileFollowsStore /\ RunKnown

\* What nextTime finds is a time within reach.
LEMMA NextTimeInReach ==
    ASSUME NEW e \in Exprs, clock \in 0..MaxTime
    PROVE  NextTime(e, clock) \subseteq Times
  BY DEF NextTime, Times

\* The time is one of the times of schedules.
LEMMA ClockIsTime == clock \in 0..MaxTime => clock \in Times
<1>1. MaxTime \in Nat /\ Horizon \in Nat
  OBVIOUS
<1> QED
  BY <1>1 DEF Times

\* A schedule that CreateSchedule saves first is one.
LEMMA FirstSavedIsSchedule ==
    ASSUME NEW e \in Exprs, NEW on \in BOOLEAN, clock \in 0..MaxTime
    PROVE  FirstSaved(e, on) \subseteq Schedules
<1>1. NextTime(e, clock) \subseteq Times
  BY NextTimeInReach
<1>2. \A u \in Times : [enabled |-> on, expr |-> e, next |-> u, last |-> ""] \in Schedules
  BY DEF Schedules
<1> QED
  BY <1>1, <1>2 DEF FirstSaved

\* EnsureJob makes a schedule of a schedule.
LEMMA EnsuredIsSchedule ==
    ASSUME NEW job \in Schedules, clock \in 0..MaxTime
    PROVE  Ensured(job) \subseteq Schedules
<1>1. job.expr \in Exprs
  BY DEF Schedules
<1>2. NextTime(job.expr, clock) \subseteq Times
  BY <1>1, NextTimeInReach
<1> QED
  BY ZenonT(40), <1>2 DEF Ensured, Schedules

\* So does recordRun.
LEMMA RecordedIsSchedule ==
    ASSUME NEW job \in Schedules, clock \in 0..MaxTime
    PROVE  Recorded(job) \subseteq Schedules
<1> DEFINE ended == [job EXCEPT !.last = IF status[cur] = "done" THEN "success" ELSE "failed"]
<1>1. job.expr \in Exprs
  BY DEF Schedules
<1>2. NextTime(job.expr, clock) \subseteq Times
  BY <1>1, NextTimeInReach
<1>3. ended \in Schedules
  BY DEF Schedules
<1>4. \A u \in Times : [ended EXCEPT !.next = u] \in Schedules
  BY <1>3 DEF Schedules
<1> QED
  BY <1>2, <1>3, <1>4 DEF Recorded

\* Prepare leaves p with a copy to save, whatever it prepares.
LEMMA PreparedIsHeld ==
    ASSUME TypeOK, CopiesHeld,
           NEW p \in Procs, NEW i \in Ids, NEW job \in Schedules \cup {None}, Prepare(p, i, job)
    PROVE  CopiesHeld' /\ pc' \in [Procs -> {"idle", "edit", "save", "write", "scan", "poll", "record"}]
<1> DEFINE new == [id |-> i, job |-> job, at |-> clock]
<1>1. clock \in Times
  BY ClockIsTime DEF TypeOK
<1>2. new \in Copies
  BY <1>1 DEF Copies
<1>3. copy' = [copy EXCEPT ![p] = new] /\ pc' = [pc EXCEPT ![p] = "save"]
  BY DEF Prepare, Goto
<1> HIDE DEF new
<1> QED
  BY <1>2, <1>3 DEF TypeOK, CopiesHeld

\* The process starts with its file read, everyone idle and no job.
LEMMA SchedInitInv == Init => SchedIInv
<1> SUFFICES ASSUME Init PROVE SchedIInv
  OBVIOUS
<1>0. MaxTime \in Nat /\ Horizon \in Nat
  OBVIOUS
<1>1. clock \in 0..MaxTime /\ 0 \in Times
  BY <1>0 DEF Init, Times
<1>2. jobs \in [Ids -> Schedules \cup {None}]
  <2>1. \A e \in Exprs : FirstSaved(e, TRUE) \subseteq Schedules
    BY <1>1, FirstSavedIsSchedule
  <2>2. jobs \in [Ids -> {None} \cup UNION {FirstSaved(e, TRUE) : e \in Exprs}]
    BY DEF Init
  <2>3. {None} \cup UNION {FirstSaved(e, TRUE) : e \in Exprs} \subseteq Schedules \cup {None}
    BY <2>1
  <2> QED
    BY <2>2, <2>3
<1>3. TypeOK
  BY <1>1, <1>2 DEF TypeOK, Init, Engine!Init
<1>4. CopiesHeld
  BY DEF CopiesHeld, Init
<1>5. FileFollowsStore
  BY DEF FileFollowsStore, Init
<1>6. RunKnown
  BY DEF RunKnown, Init, Engine!Init, Procs
<1> QED
  BY <1>3, <1>4, <1>5, <1>6 DEF SchedIInv

\* No handler, nor the loop, the engine or a crash breaks it.
LEMMA SchedNextInv == SchedIInv /\ [Next]_vars => SchedIInv'
<1> SUFFICES ASSUME SchedIInv, [Next]_vars PROVE SchedIInv'
  OBVIOUS
<1>0. TypeOK /\ CopiesHeld /\ FileFollowsStore /\ RunKnown
  BY DEF SchedIInv
<1> USE DEF Goto, Procs, storeVars, loopVars, engineVars, countVars
<1>1. ASSUME NEW p \in Procs, SaveBegin(p) PROVE SchedIInv'
  <2> USE <1>0, <1>1 DEF SaveBegin, Put
  <2>1. TypeOK' /\ CopiesHeld'
    BY DEF TypeOK, CopiesHeld, Copies, RunKnown
  <2>2. FileFollowsStore'
    BY DEF FileFollowsStore, Free, TypeOK, CopiesHeld
  <2>3. RunKnown'
    BY DEF RunKnown, TypeOK
  <2> QED
    BY <2>1, <2>2, <2>3 DEF SchedIInv
<1>2. ASSUME NEW p \in Procs, SaveRefused(p) PROVE SchedIInv'
  <2> USE <1>0, <1>2 DEF SaveRefused, Put, Return
  <2>1. TypeOK' /\ CopiesHeld'
    BY DEF TypeOK, CopiesHeld, Copies, RunKnown
  <2>2. FileFollowsStore'
    BY DEF FileFollowsStore, Free, TypeOK, CopiesHeld
  <2>3. RunKnown'
    BY DEF RunKnown, TypeOK
  <2> QED
    BY <2>1, <2>2, <2>3 DEF SchedIInv
<1>3. ASSUME NEW p \in Procs, SaveEnd(p) PROVE SchedIInv'
  <2> USE <1>0, <1>3 DEF SaveEnd, Return
  <2>1. TypeOK' /\ CopiesHeld'
    BY DEF TypeOK, CopiesHeld, Copies, RunKnown
  <2>2. FileFollowsStore'
    BY DEF FileFollowsStore, Free, TypeOK, CopiesHeld
  <2>3. RunKnown'
    BY DEF RunKnown, TypeOK
  <2> QED
    BY <2>1, <2>2, <2>3 DEF SchedIInv
<1>4. ASSUME NEW p \in Procs, SaveFails(p) PROVE SchedIInv'
  <2> USE <1>0, <1>4 DEF SaveFails, Return
  <2>1. TypeOK' /\ CopiesHeld'
    BY DEF TypeOK, CopiesHeld, Copies, RunKnown
  <2>2. FileFollowsStore'
    BY DEF FileFollowsStore, Free, TypeOK, CopiesHeld
  <2>3. RunKnown'
    BY DEF RunKnown, TypeOK
  <2> QED
    BY <2>1, <2>2, <2>3 DEF SchedIInv
<1>5. ASSUME NEW q \in Clients, Create(q) PROVE SchedIInv'
  <2> USE <1>0, <1>5
  <2>0. PICK i \in Ids \ used, e \in Exprs, on \in BOOLEAN :
          /\ used' = used \cup {i}
          /\ \E job \in FirstSaved(e, on) : Prepare(q, i, job)
    BY DEF Create
  <2>a. PICK job \in Schedules : Prepare(q, i, job)
    BY <2>0, FirstSavedIsSchedule DEF TypeOK
  <2>b. CopiesHeld' /\ pc' \in [Procs -> {"idle", "edit", "save", "write", "scan", "poll", "record"}]
    BY <2>a, PreparedIsHeld
  <2>1. TypeOK' /\ CopiesHeld'
    BY <2>0, <2>b DEF TypeOK, CopiesHeld, Create, Request
  <2>2. FileFollowsStore'
    BY DEF FileFollowsStore, Free, TypeOK, CopiesHeld, Create, Request, Prepare
  <2>3. RunKnown'
    BY DEF RunKnown, TypeOK, Create, Request, Prepare
  <2> QED
    BY <2>1, <2>2, <2>3 DEF SchedIInv
<1>6. ASSUME NEW q \in Clients, UpdateGet(q) PROVE SchedIInv'
  <2> USE <1>0, <1>6
  <2>0. PICK i \in Ids :
          /\ jobs[i] # None
          /\ copy' = [copy EXCEPT ![q] = [id |-> i, job |-> jobs[i], at |-> clock]]
    BY DEF UpdateGet
  <2> DEFINE new == [id |-> i, job |-> jobs[i], at |-> clock]
  <2>a. new \in Copies /\ new.job \in Schedules \ {None}
    BY <2>0, ClockIsTime DEF TypeOK, Copies
  <2>b. copy' = [copy EXCEPT ![q] = new]
    BY <2>0
  <2>c. pc' = [pc EXCEPT ![q] = "edit"]
    BY DEF UpdateGet
  <2>d. UNCHANGED <<clock, mode, storeVars, loopVars, engineVars, used, lost>>
    BY DEF UpdateGet
  <2> HIDE DEF new
  <2>1. TypeOK' /\ CopiesHeld'
    BY <2>a, <2>b, <2>c, <2>d DEF TypeOK, CopiesHeld
  <2>2. FileFollowsStore'
    BY DEF FileFollowsStore, Free, TypeOK, CopiesHeld, UpdateGet, Request
  <2>3. RunKnown'
    BY DEF RunKnown, TypeOK, UpdateGet, Request
  <2> QED
    BY <2>1, <2>2, <2>3 DEF SchedIInv
<1>7. ASSUME NEW q \in Clients, UpdateEdit(q) PROVE SchedIInv'
  <2> USE <1>0, <1>7
  <2>0. PICK e \in Exprs, on \in BOOLEAN :
          \E job \in Ensured([copy[q].job EXCEPT !.expr = e, !.enabled = on]) :
            Prepare(q, copy[q].id, job)
    BY DEF UpdateEdit
  <2> DEFINE edited == [copy[q].job EXCEPT !.expr = e, !.enabled = on]
  <2>a. copy[q].job \in Schedules /\ copy[q].id \in Ids
    BY DEF CopiesHeld, Copies, UpdateEdit
  <2>b. edited \in Schedules
    BY <2>a DEF Schedules
  <2>c. PICK job \in Schedules : Prepare(q, copy[q].id, job)
    BY <2>0, <2>b, EnsuredIsSchedule DEF TypeOK
  <2>d. CopiesHeld' /\ pc' \in [Procs -> {"idle", "edit", "save", "write", "scan", "poll", "record"}]
    BY <2>a, <2>c, PreparedIsHeld
  <2>1. TypeOK' /\ CopiesHeld'
    BY <2>d DEF TypeOK, CopiesHeld, UpdateEdit
  <2>2. FileFollowsStore'
    BY DEF FileFollowsStore, Free, TypeOK, CopiesHeld, UpdateEdit, Prepare
  <2>3. RunKnown'
    BY DEF RunKnown, TypeOK, UpdateEdit, Prepare
  <2> QED
    BY <2>1, <2>2, <2>3 DEF SchedIInv
<1>8. ASSUME NEW q \in Clients, UpdateRefused(q) PROVE SchedIInv'
  <2> USE <1>0, <1>8 DEF UpdateRefused, Return
  <2>1. TypeOK' /\ CopiesHeld'
    BY DEF TypeOK, CopiesHeld, Copies, RunKnown
  <2>2. FileFollowsStore'
    BY DEF FileFollowsStore, Free, TypeOK, CopiesHeld
  <2>3. RunKnown'
    BY DEF RunKnown, TypeOK
  <2> QED
    BY <2>1, <2>2, <2>3 DEF SchedIInv
<1>9. ASSUME NEW q \in Clients, Delete(q) PROVE SchedIInv'
  <2> USE <1>0, <1>9
  <2>0. PICK i \in used : Prepare(q, i, None)
    BY DEF Delete
  <2>a. CopiesHeld' /\ pc' \in [Procs -> {"idle", "edit", "save", "write", "scan", "poll", "record"}]
    BY <2>0, PreparedIsHeld DEF TypeOK
  <2>1. TypeOK' /\ CopiesHeld'
    BY <2>a DEF TypeOK, CopiesHeld, Delete, Request
  <2>2. FileFollowsStore'
    BY DEF FileFollowsStore, Free, TypeOK, CopiesHeld, Delete, Request, Prepare
  <2>3. RunKnown'
    BY DEF RunKnown, TypeOK, Delete, Request, Prepare
  <2> QED
    BY <2>1, <2>2, <2>3 DEF SchedIInv
<1>10. CASE Check
  <2> USE <1>0, <1>10 DEF Check
  <2>1. TypeOK' /\ CopiesHeld'
    BY DEF TypeOK, CopiesHeld, Copies, RunKnown
  <2>2. FileFollowsStore'
    BY DEF FileFollowsStore, Free, TypeOK, CopiesHeld
  <2>3. RunKnown'
    BY DEF RunKnown, TypeOK
  <2> QED
    BY <2>1, <2>2, <2>3 DEF SchedIInv
<1>11. CASE Fire
  <2> USE <1>0, <1>11 DEF Fire
  <2>1. TypeOK' /\ CopiesHeld'
    BY DEF TypeOK, CopiesHeld, Copies, RunKnown
  <2>2. FileFollowsStore'
    BY DEF FileFollowsStore, Free, TypeOK, CopiesHeld
  <2>3. RunKnown'
    BY DEF RunKnown, TypeOK
  <2> QED
    BY <2>1, <2>2, <2>3 DEF SchedIInv
<1>12. CASE ScanEnds
  <2> USE <1>0, <1>12 DEF ScanEnds
  <2>1. TypeOK' /\ CopiesHeld'
    BY DEF TypeOK, CopiesHeld, Copies, RunKnown
  <2>2. FileFollowsStore'
    BY DEF FileFollowsStore, Free, TypeOK, CopiesHeld
  <2>3. RunKnown'
    BY DEF RunKnown, TypeOK
  <2> QED
    BY <2>1, <2>2, <2>3 DEF SchedIInv
<1>13. CASE Poll
  <2> USE <1>0, <1>13 DEF Poll
  <2>1. TypeOK' /\ CopiesHeld'
    BY DEF TypeOK, CopiesHeld, Copies, RunKnown
  <2>2. FileFollowsStore'
    BY DEF FileFollowsStore, Free, TypeOK, CopiesHeld
  <2>3. RunKnown'
    BY DEF RunKnown, TypeOK
  <2> QED
    BY <2>1, <2>2, <2>3 DEF SchedIInv
<1>14. CASE Record
  <2> USE <1>0, <1>14
  <2>a. cur \in Ids /\ jobs[cur] \in Schedules
    BY DEF RunKnown, TypeOK, Record
  <2>b. PICK job \in Schedules : Prepare(Loop, cur, job)
    BY <2>a, RecordedIsSchedule DEF TypeOK, Record
  <2>c. CopiesHeld' /\ pc' \in [Procs -> {"idle", "edit", "save", "write", "scan", "poll", "record"}]
    BY <2>a, <2>b, PreparedIsHeld
  <2>1. TypeOK' /\ CopiesHeld'
    BY <2>c DEF TypeOK, CopiesHeld, Record
  <2>2. FileFollowsStore'
    BY DEF FileFollowsStore, Free, TypeOK, CopiesHeld, Record, Prepare
  <2>3. RunKnown'
    BY DEF RunKnown, TypeOK, Record, Prepare
  <2> QED
    BY <2>1, <2>2, <2>3 DEF SchedIInv
<1>15. CASE RecordMissing
  <2> USE <1>0, <1>15 DEF RecordMissing
  <2>1. TypeOK' /\ CopiesHeld'
    BY DEF TypeOK, CopiesHeld, Copies, RunKnown
  <2>2. FileFollowsStore'
    BY DEF FileFollowsStore, Free, TypeOK, CopiesHeld
  <2>3. RunKnown'
    BY DEF RunKnown, TypeOK
  <2> QED
    BY <2>1, <2>2, <2>3 DEF SchedIInv
<1>16. CASE EngineStep
  <2> USE <1>0, <1>16 DEF EngineStep, Engine!Advance, Engine!Open, Engine!Handle, Engine!Complete, Engine!Abort,
            Engine!Show, Engine!Enter
  <2>1. TypeOK' /\ CopiesHeld'
    BY DEF TypeOK, CopiesHeld, Copies, RunKnown
  <2>2. FileFollowsStore'
    BY DEF FileFollowsStore, Free, TypeOK, CopiesHeld
  <2>3. RunKnown'
    BY DEF RunKnown, TypeOK
  <2> QED
    BY <2>1, <2>2, <2>3 DEF SchedIInv
<1>17. CASE Cancel
  <2> USE <1>0, <1>17 DEF Cancel, Engine!Stop, Engine!Show, Engine!Enter
  <2>1. TypeOK' /\ CopiesHeld'
    BY DEF TypeOK, CopiesHeld, Copies, RunKnown
  <2>2. FileFollowsStore'
    BY DEF FileFollowsStore, Free, TypeOK, CopiesHeld
  <2>3. RunKnown'
    BY DEF RunKnown, TypeOK
  <2> QED
    BY <2>1, <2>2, <2>3 DEF SchedIInv
<1>18. CASE Tick
  <2> USE <1>0, <1>18 DEF Tick
  <2>1. TypeOK' /\ CopiesHeld'
    BY DEF TypeOK, CopiesHeld, Copies, RunKnown
  <2>2. FileFollowsStore'
    BY DEF FileFollowsStore, Free, TypeOK, CopiesHeld
  <2>3. RunKnown'
    BY DEF RunKnown, TypeOK
  <2> QED
    BY <2>1, <2>2, <2>3 DEF SchedIInv
<1>19. CASE Crash
  <2> USE <1>0, <1>19 DEF Crash
  <2>1. TypeOK' /\ CopiesHeld'
    BY DEF TypeOK, CopiesHeld, Copies, RunKnown
  <2>2. FileFollowsStore'
    BY DEF FileFollowsStore, Free, TypeOK, CopiesHeld
  <2>3. RunKnown'
    BY DEF RunKnown, TypeOK
  <2> QED
    BY <2>1, <2>2, <2>3 DEF SchedIInv
<1>20. CASE Restart
  <2> USE <1>0, <1>20 DEF Restart
  <2>1. TypeOK' /\ CopiesHeld'
    BY DEF TypeOK, CopiesHeld, Copies, RunKnown
  <2>2. FileFollowsStore'
    BY DEF FileFollowsStore, Free, TypeOK, CopiesHeld
  <2>3. RunKnown'
    BY DEF RunKnown, TypeOK
  <2> QED
    BY <2>1, <2>2, <2>3 DEF SchedIInv
<1>21. CASE RestartPanics
  <2> USE <1>0, <1>21 DEF RestartPanics
  <2>1. TypeOK' /\ CopiesHeld'
    BY DEF TypeOK, CopiesHeld, Copies, RunKnown
  <2>2. FileFollowsStore'
    BY DEF FileFollowsStore, Free, TypeOK, CopiesHeld
  <2>3. RunKnown'
    BY DEF RunKnown, TypeOK
  <2> QED
    BY <2>1, <2>2, <2>3 DEF SchedIInv
<1>22. CASE UNCHANGED vars
  <2> USE <1>0, <1>22 DEF vars
  <2>1. TypeOK' /\ CopiesHeld'
    BY DEF TypeOK, CopiesHeld, Copies, RunKnown
  <2>2. FileFollowsStore'
    BY DEF FileFollowsStore, Free, TypeOK, CopiesHeld
  <2>3. RunKnown'
    BY DEF RunKnown, TypeOK
  <2> QED
    BY <2>1, <2>2, <2>3 DEF SchedIInv
<1> QED
  BY <1>1, <1>2, <1>3, <1>4, <1>5, <1>6, <1>7, <1>8, <1>9, <1>10, <1>11, <1>12, <1>13, <1>14,
     <1>15, <1>16, <1>17, <1>18, <1>19, <1>20, <1>21, <1>22
     DEF Next, Running, LoopStep, HandlerStep, RequestStep, SaveStep

\* Two jobs under way would both be the one the loop waits for.
LEMMA SchedIInvImplies == SchedIInv => SchedulerInv
<1> SUFFICES ASSUME SchedIInv PROVE NoOverlap
  BY DEF SchedIInv, SchedulerInv
<1> DEFINE active == {i \in Ids : phase[i] \in {"queued", "open"}}
<1>1. active = {} \/ active = {cur}
  BY DEF SchedIInv, RunKnown
<1>2. Cardinality(active) \in {0, 1}
  BY <1>1, FS_EmptySet, FS_Singleton
<1> QED
  BY <1>2 DEF NoOverlap

\* Types; the file holds what the store holds when nobody writes; runs do not
\* overlap (scheduler.go, store.go).
THEOREM SchedulerInvariance == Spec => []SchedulerInv
<1>1. Init => SchedIInv
  BY SchedInitInv
<1>2. SchedIInv /\ [Next]_vars => SchedIInv'
  BY SchedNextInv
<1> QED
  BY <1>1, <1>2, SchedIInvImplies, PTL DEF Spec

\* A process that prepares a copy of another schedule, or a deletion, has not
\* taken schedule i in hand.
LEMMA PrepareSparesOthers ==
    ASSUME CopiesHeld, NEW i \in Ids, ~InHand(i),
           NEW p \in Procs, NEW k \in Ids, NEW job, Prepare(p, k, job), k # i \/ job = None
    PROVE  ~InHand(i)'
<1> DEFINE new == [id |-> k, job |-> job, at |-> clock]
<1>1. copy' = [copy EXCEPT ![p] = new]
  BY DEF Prepare
<1>2. new.id = k /\ new.job = job
  OBVIOUS
<1> HIDE DEF new
<1> QED
  BY <1>1, <1>2 DEF InHand, CopiesHeld

\* No step brings a deleted schedule back unless somebody holds a copy of it.
LEMMA DeletedStep ==
    ASSUME SchedIInv, Next, NEW i \in used, mode = "up", jobs[i] = None, ~InHand(i)
    PROVE  jobs'[i] = None /\ ~InHand(i)'
<1>0. TypeOK /\ CopiesHeld /\ RunKnown /\ i \in Ids
  BY DEF SchedIInv, TypeOK
<1> USE <1>0
<1>1. ASSUME UNCHANGED <<jobs, copy>> PROVE jobs'[i] = None /\ ~InHand(i)'
  BY <1>1 DEF InHand
<1>2. ASSUME NEW p \in Procs, Return(p) PROVE ~InHand(i)'
  BY <1>2 DEF InHand, Return, CopiesHeld
<1>3. ASSUME NEW p \in Procs, Put(p) PROVE jobs'[i] = None
  <2>1. copy[p] \in Copies
    BY <1>3 DEF Put, CopiesHeld
  <2>2. CASE copy[p].id = i
    <3>1. copy[p].job = None
      BY <2>1, <2>2, NoneAssumption DEF InHand
    <3> QED
      BY <1>3, <2>2, <3>1 DEF Put, TypeOK
  <2>3. CASE copy[p].id # i
    BY <1>3, <2>1, <2>3 DEF Put, TypeOK, Copies
  <2> QED
    BY <2>2, <2>3
<1>4. ASSUME NEW p \in Procs, SaveStep(p) PROVE jobs'[i] = None /\ ~InHand(i)'
  <2>1. CASE SaveBegin(p)
    BY <1>3, <2>1 DEF SaveBegin, InHand
  <2>2. CASE SaveRefused(p)
    BY <1>2, <1>3, <2>2 DEF SaveRefused
  <2>3. CASE SaveEnd(p)
    BY <1>2, <2>3 DEF SaveEnd
  <2>4. CASE SaveFails(p)
    BY <1>2, <2>4 DEF SaveFails
  <2> QED
    BY <1>4, <2>1, <2>2, <2>3, <2>4 DEF SaveStep
<1>5. ASSUME NEW q \in Clients, RequestStep(q) PROVE jobs'[i] = None /\ ~InHand(i)'
  <2>0. q \in Procs
    BY DEF Procs
  <2>1. CASE Create(q)
    <3>0. PICK k \in Ids \ used : \E job : Prepare(q, k, job)
      BY <2>1 DEF Create
    <3>1. PICK job : Prepare(q, k, job)
      BY <3>0
    <3>2. ~InHand(i)'
      BY <2>0, <3>1, PrepareSparesOthers
    <3> QED
      BY <2>1, <3>2 DEF Create, storeVars
  <2>2. CASE UpdateGet(q)
    <3>1. PICK k \in Ids :
            /\ jobs[k] # None
            /\ copy' = [copy EXCEPT ![q] = [id |-> k, job |-> jobs[k], at |-> clock]]
      BY <2>2 DEF UpdateGet
    <3>2. k # i
      BY <3>1
    <3> DEFINE new == [id |-> k, job |-> jobs[k], at |-> clock]
    <3>3. copy' = [copy EXCEPT ![q] = new] /\ new.id = k
      BY <3>1
    <3> HIDE DEF new
    <3>4. ~InHand(i)'
      BY <2>0, <3>2, <3>3 DEF InHand, CopiesHeld
    <3> QED
      BY <2>2, <3>4 DEF UpdateGet, storeVars
  <2>3. CASE Delete(q)
    <3>1. PICK k \in used : Prepare(q, k, None)
      BY <2>3 DEF Delete
    <3>2. ~InHand(i)'
      BY <2>0, <3>1, PrepareSparesOthers DEF TypeOK
    <3> QED
      BY <2>3, <3>2 DEF Delete, storeVars
  <2> QED
    BY <1>5, <2>1, <2>2, <2>3 DEF RequestStep
<1>6. ASSUME NEW q \in Clients, HandlerStep(q) PROVE jobs'[i] = None /\ ~InHand(i)'
  <2>0. q \in Procs
    BY DEF Procs
  <2>1. CASE UpdateEdit(q)
    <3>1. PICK job : Prepare(q, copy[q].id, job)
      BY <2>1 DEF UpdateEdit
    <3>2. copy[q] \in Copies /\ copy[q].job # None
      BY <2>0, <2>1 DEF UpdateEdit, CopiesHeld
    <3>3. copy[q].id \in Ids /\ copy[q].id # i
      BY <2>0, <3>2, NoneAssumption DEF Copies, InHand
    <3>4. ~InHand(i)'
      BY <2>0, <3>1, <3>3, PrepareSparesOthers
    <3> QED
      BY <2>1, <3>4 DEF UpdateEdit, storeVars
  <2>2. CASE UpdateRefused(q)
    BY <1>2, <2>0, <2>2 DEF UpdateRefused, storeVars
  <2> QED
    BY <1>4, <1>6, <2>0, <2>1, <2>2 DEF HandlerStep
<1>7. CASE LoopStep
  <2>0. Loop \in Procs
    BY DEF Procs
  <2>1. CASE Record
    <3>1. PICK job : Prepare(Loop, cur, job)
      BY <2>1 DEF Record
    <3>2. cur \in Ids /\ cur # i
      BY <2>1 DEF Record, RunKnown
    <3>3. ~InHand(i)'
      BY <2>0, <3>1, <3>2, PrepareSparesOthers
    <3> QED
      BY <2>1, <3>3 DEF Record, storeVars
  <2>2. CASE Check \/ Fire \/ ScanEnds \/ Poll \/ RecordMissing
    BY <1>1, <2>2 DEF Check, Fire, ScanEnds, Poll, RecordMissing, storeVars
  <2> QED
    BY <1>4, <1>7, <2>0, <2>1, <2>2 DEF LoopStep
<1>8. CASE EngineStep \/ Cancel \/ Tick
  BY <1>1, <1>8 DEF EngineStep, Cancel, Tick, storeVars
<1>9. CASE Crash
  BY <1>9 DEF Crash, InHand
<1>10. CASE RestartPanics
  BY <1>1, <1>10 DEF RestartPanics, storeVars
<1>11. CASE Restart
  BY <1>11 DEF Restart
<1> QED
  BY <1>4, <1>5, <1>6, <1>7, <1>8, <1>9, <1>10, <1>11 DEF Next, Running

\* A deleted schedule comes back only through a read-modify-write that was under
\* way at the time (schedule.go UpdateSchedule, scheduler.go recordRun).
THEOREM DeletedStaysDeleted == Spec => StaysDeleted
<1>1. Init => SchedIInv
  BY SchedInitInv
<1>2. SchedIInv /\ [Next]_vars => SchedIInv'
  BY SchedNextInv
<1>3. SchedIInv /\ [Next]_vars
      => [\A i \in used : mode = "up" /\ jobs[i] = None /\ ~InHand(i)
                          => jobs'[i] = None /\ ~InHand(i)']_vars
  BY DeletedStep
<1> QED
  BY <1>1, <1>2, <1>3, PTL DEF Spec, StaysDeleted

-----------------------------------------------------------------------------
(* One run for each time that matches.                                       *)

\* A schedule is due at the first time it matches after its last run.
OnTime(job, last) ==
    job # None /\ NextTime(job.expr, last) # {} => job.next \in NextTime(job.expr, last)

\* One process writes the file, which is cut short meanwhile; without edits no
\* handler is at work; and a process that died left a file that was up to date.
Undisturbed ==
    /\ edits \in Nat /\ lost \in BOOLEAN
    /\ \A p, q \in Procs : pc[p] = "write" /\ pc[q] = "write" => p = q
    /\ ~Free => file = Torn
    /\ edits = 0 => \A q \in Clients : pc[q] = "idle"
    /\ ~lost /\ mode # "up" => ~stale
    /\ mode # "up" => due = {} /\ \A p \in Procs : pc[p] = "idle"

\* What the loop has listed and not yet run is due, and what it saves is the
\* schedule that it ran.
ListDue ==
    /\ \A i \in due : jobs[i] # None /\ jobs[i].next < clock
    /\ pc[Loop] \in {"poll", "record", "save", "write"} => cur \notin due
    /\ pc[Loop] \in {"save", "write"} => copy[Loop].id = cur
    /\ pc[Loop] = "save" => OnTime(copy[Loop].job, copy[Loop].at)

\* The store agrees with the runs that were recorded, and so does the file it
\* will be read from.
RunsOnTime ==
    /\ mode = "up" => \A i \in Ids : OnTime(jobs[i], served[i])
    /\ mode # "up" /\ file # Torn => \A i \in Ids : OnTime(file[i], served[i])

RunsInv == edits = 0 /\ ~lost => ListDue /\ RunsOnTime

\* What Create makes of an expression is due when it matches next.
LEMMA FirstSavedOnTime ==
    ASSUME NEW e, NEW on, NEW job \in FirstSaved(e, on)
    PROVE  OnTime(job, clock)
<1>1. PICK u \in NextTime(e, clock) : job = [enabled |-> on, expr |-> e, next |-> u, last |-> ""]
  BY DEF FirstSaved
<1>2. job.expr = e /\ job.next = u
  BY <1>1
<1> QED
  BY <1>2 DEF OnTime

\* Both hold at the start.
LEMMA RunsStart == Init => Undisturbed /\ RunsInv
<1> SUFFICES ASSUME Init PROVE Undisturbed /\ RunsInv
  OBVIOUS
<1>1. Undisturbed
  BY DEF Init, Undisturbed, Free, Procs
<1>2. ListDue
  BY DEF Init, ListDue, Procs
<1>3. ASSUME NEW i \in Ids PROVE OnTime(jobs[i], served[i])
  <2>1. jobs[i] = None \/ \E e \in Exprs : jobs[i] \in FirstSaved(e, TRUE)
    <3>1. jobs \in [Ids -> {None} \cup UNION {FirstSaved(e, TRUE) : e \in Exprs}]
      BY DEF Init
    <3>2. jobs[i] \in {None} \cup UNION {FirstSaved(e, TRUE) : e \in Exprs}
      BY <3>1
    <3> QED
      BY <3>2, ZenonT(40)
  <2>2. ASSUME NEW e \in Exprs, jobs[i] \in FirstSaved(e, TRUE)
        PROVE  OnTime(jobs[i], served[i])
    <3>1. OnTime(jobs[i], clock)
      BY <2>2, FirstSavedOnTime
    <3>2. served[i] = clock
      BY DEF Init
    <3> QED
      BY <3>1, <3>2
  <2> QED
    BY <2>1, <2>2 DEF OnTime
<1>4. RunsOnTime
  BY <1>3 DEF RunsOnTime, Init
<1> QED
  BY <1>1, <1>2, <1>4 DEF RunsInv

\* The process that saves.
LEMMA UndisturbedSave ==
    ASSUME TypeOK, Undisturbed, mode = "up", NEW p \in Procs, SaveStep(p)
    PROVE  Undisturbed'
<1>1. pc[p] \in {"save", "write"} /\ UNCHANGED <<mode, edits, lost>>
  BY DEF SaveStep, SaveBegin, SaveRefused, SaveEnd, SaveFails, Put, countVars
<1>2. \A o \in Procs : o # p => pc'[o] = pc[o]
  BY DEF SaveStep, SaveBegin, SaveRefused, SaveEnd, SaveFails, Return, Goto, TypeOK
<1>3. (pc'[p] = "write" /\ Free /\ file' = Torn) \/ pc'[p] \in {"scan", "idle"}
  BY DEF SaveStep, SaveBegin, SaveRefused, SaveEnd, SaveFails, Put, Return, Goto, TypeOK
<1>4. pc[p] = "write" \/ Free
  BY DEF SaveStep, SaveBegin, SaveRefused, SaveEnd, SaveFails, Put
<1>5. \A o \in Procs : o # p => pc'[o] # "write"
  BY <1>2, <1>4 DEF Undisturbed, Free
<1>6. /\ \A o, q \in Procs : pc'[o] = "write" /\ pc'[q] = "write" => o = q
      /\ ~Free' => file' = Torn
  BY <1>3, <1>5 DEF Free
<1>7. edits' = 0 => \A q \in Clients : pc'[q] = "idle"
  <2> SUFFICES ASSUME edits = 0, NEW q \in Clients PROVE pc'[q] = "idle"
    BY <1>1
  <2>1. q \in Procs /\ pc[q] = "idle"
    BY DEF Undisturbed, Procs
  <2> QED
    BY <1>1, <1>2, <2>1
<1> QED
  BY <1>1, <1>6, <1>7 DEF Undisturbed

\* A step that writes no file and moves one process, a handler only after an edit.
LEMMA UndisturbedMove ==
    ASSUME TypeOK, Undisturbed, UNCHANGED <<mode, file, lost>>,
           NEW p \in Procs, NEW l, l # "write", Goto(p, l), pc[p] # "write",
           mode = "up", (edits' = edits /\ (p = Loop \/ pc[p] # "idle")) \/ edits' = edits + 1
    PROVE  Undisturbed'
<1>1. /\ pc'[p] = l /\ \A o \in Procs : o # p => pc'[o] = pc[o]
  BY DEF Goto, TypeOK
<1>2. edits' \in Nat /\ (edits' = 0 => edits = 0 /\ (p = Loop \/ pc[p] # "idle"))
  BY DEF Undisturbed
<1>3. /\ \A o, q \in Procs : pc'[o] = "write" /\ pc'[q] = "write" => o = q
      /\ Free => Free'
  BY <1>1 DEF Undisturbed, Free
<1>4. edits' = 0 => \A q \in Clients : pc'[q] = "idle"
  <2> SUFFICES ASSUME edits' = 0, NEW q \in Clients PROVE pc'[q] = "idle"
    OBVIOUS
  <2>1. q \in Procs /\ pc[q] = "idle"
    BY <1>2 DEF Undisturbed, Procs
  <2>2. p # q
    BY <1>2, <2>1
  <2> QED
    BY <1>1, <2>1, <2>2
<1> QED
  BY <1>2, <1>3, <1>4 DEF Undisturbed

\* No step disturbs it.
LEMMA UndisturbedStep ==
    ASSUME TypeOK, Undisturbed, [Next]_vars
    PROVE  Undisturbed'
<1>1. ASSUME NEW p \in Procs, SaveStep(p), mode = "up" PROVE Undisturbed'
  BY <1>1, UndisturbedSave
<1>2. ASSUME NEW q \in Clients, RequestStep(q), mode = "up" PROVE Undisturbed'
  <2>1. q \in Procs /\ pc[q] # "write" /\ edits' = edits + 1 /\ UNCHANGED <<mode, file, lost>>
    BY <1>2 DEF RequestStep, Create, UpdateGet, Delete, Request, storeVars, Procs
  <2>2. \E l : l # "write" /\ Goto(q, l)
    BY <1>2, ZenonT(40) DEF RequestStep, Create, UpdateGet, Delete, Prepare
  <2> QED
    BY <1>2, <2>1, <2>2, UndisturbedMove
<1>3. ASSUME NEW q \in Clients, UpdateEdit(q) \/ UpdateRefused(q), mode = "up" PROVE Undisturbed'
  <2>1. /\ q \in Procs /\ pc[q] # "write" /\ pc[q] # "idle" /\ edits' = edits
        /\ UNCHANGED <<mode, file, lost>>
    BY <1>3 DEF UpdateEdit, UpdateRefused, storeVars, countVars, Procs
  <2>2. q # Loop
    BY DEF Procs
  <2>3. \E l : l # "write" /\ Goto(q, l)
    BY <1>3, <2>2, ZenonT(40) DEF UpdateEdit, UpdateRefused, Prepare, Return
  <2> QED
    BY <1>3, <2>1, <2>3, UndisturbedMove
<1>4. CASE mode = "up" /\ (Check \/ Fire \/ ScanEnds \/ Poll \/ Record \/ RecordMissing)
  <2>1. /\ Loop \in Procs /\ pc[Loop] # "write" /\ edits' = edits
        /\ UNCHANGED <<mode, file, lost>>
    BY <1>4 DEF Check, Fire, ScanEnds, Poll, Record, RecordMissing, storeVars, countVars, Procs
  <2>2. \E l : l # "write" /\ Goto(Loop, l)
    BY <1>4, ZenonT(40) DEF Check, Fire, ScanEnds, Poll, Record, RecordMissing, Prepare
  <2> QED
    BY <1>4, <2>1, <2>2, UndisturbedMove
<1>5. CASE EngineStep \/ Cancel \/ Tick \/ UNCHANGED vars
  <2>1. UNCHANGED <<mode, file, lost, stale, pc, edits, due>>
    BY <1>5 DEF EngineStep, Cancel, Tick, vars, storeVars, countVars, loopVars
  <2> QED
    BY <2>1 DEF Undisturbed, Free
<1>6. CASE Crash
  BY <1>6 DEF Crash, Undisturbed, Free, Procs
<1>7. CASE mode # "up" /\ (Restart \/ RestartPanics)
  <2>1. UNCHANGED <<file, lost, stale, pc, edits, due>>
    BY <1>7 DEF Restart, RestartPanics, storeVars, countVars, loopVars
  <2> QED
    BY <1>7, <2>1 DEF Undisturbed, Free
<1>8. Restart \/ RestartPanics => mode # "up"
  BY DEF Restart, RestartPanics
<1>9. Loop \in Procs /\ Clients \subseteq Procs
  BY DEF Procs
<1> QED
  BY <1>1, <1>2, <1>3, <1>4, <1>5, <1>6, <1>7, <1>8, <1>9 DEF Next, Running, LoopStep, HandlerStep

\* A step that leaves the store and the loop alone, while time may go on.
LEMMA RunsStay ==
    ASSUME TypeOK, ListDue, RunsOnTime, UNCHANGED <<jobs, file, served, mode, pc, copy, due, cur>>,
           clock' \in Nat, clock' >= clock
    PROVE  ListDue' /\ RunsOnTime'
<1>1. \A i \in due : jobs[i] # None => jobs[i].next \in Nat
  <2>1. \A i \in due : jobs[i] \in Schedules \cup {None}
    BY DEF TypeOK
  <2>2. \A job \in Schedules : job.next \in Times
    BY DEF Schedules
  <2>3. Times \subseteq Nat
    BY DEF Times
  <2> QED
    BY <2>1, <2>2, <2>3
<1>2. clock \in Nat
  BY DEF TypeOK
<1>3. \A i \in due : jobs[i].next < clock'
  BY <1>1, <1>2 DEF ListDue
<1> QED
  BY <1>3 DEF ListDue, RunsOnTime

\* The loop lists, runs and waits.
LEMMA RunsLoop ==
    ASSUME TypeOK, CopiesHeld, RunKnown, ListDue, RunsOnTime, mode = "up",
           Check \/ Fire \/ ScanEnds \/ Poll \/ RecordMissing
    PROVE  ListDue' /\ RunsOnTime'
<1>1. UNCHANGED <<clock, mode, jobs, file, served, copy>>
  BY DEF Check, Fire, ScanEnds, Poll, RecordMissing, storeVars
<1>2. RunsOnTime'
  BY <1>1 DEF RunsOnTime
<1>3. Loop \in Procs
  BY DEF Procs
<1> DEFINE Listed == \A i \in due' : jobs[i] # None /\ jobs[i].next < clock
           Run == pc'[Loop] \in {"poll", "record"} => cur' \notin due'
<1>9. Listed /\ Run /\ pc'[Loop] \notin {"save", "write"} => ListDue'
  BY <1>1 DEF ListDue
<1>4. CASE Check
  <2>1. pc'[Loop] = "scan"
    BY <1>3, <1>4 DEF Check, Goto, TypeOK
  <2>2. \A i \in due' : jobs[i] # None /\ jobs[i].next < clock
    BY <1>4 DEF Check, TypeOK
  <2>3. Listed
    BY <2>2 DEF ListDue
  <2>4. Run
    BY <2>1, <2>2 DEF ListDue
  <2> QED
    BY <1>2, <1>9, <2>1, <2>3, <2>4
<1>5. CASE Fire
  <2>1. pc'[Loop] = "poll"
    BY <1>3, <1>5 DEF Fire, Goto, TypeOK
  <2>2. due' \subseteq due /\ cur' \notin due'
    BY <1>5 DEF Fire, TypeOK
  <2>3. Listed
    BY <2>2 DEF ListDue
  <2>4. Run
    BY <2>1, <2>2 DEF ListDue
  <2> QED
    BY <1>2, <1>9, <2>1, <2>3, <2>4
<1>6. CASE ScanEnds
  <2>1. pc'[Loop] = "idle"
    BY <1>3, <1>6 DEF ScanEnds, Goto, TypeOK
  <2>2. due' = due
    BY <1>6 DEF ScanEnds, TypeOK
  <2>3. Listed
    BY <2>2 DEF ListDue
  <2>4. Run
    BY <2>1, <2>2 DEF ListDue
  <2> QED
    BY <1>2, <1>9, <2>1, <2>3, <2>4
<1>7. CASE Poll
  <2>1. pc'[Loop] = "record"
    BY <1>3, <1>7 DEF Poll, Goto, TypeOK
  <2>2. due' = due /\ cur' = cur /\ pc[Loop] = "poll"
    BY <1>7 DEF Poll, TypeOK, loopVars
  <2>3. Listed
    BY <2>2 DEF ListDue
  <2>4. Run
    BY <2>1, <2>2 DEF ListDue
  <2> QED
    BY <1>2, <1>9, <2>1, <2>3, <2>4
<1>8. CASE RecordMissing
  <2>1. pc'[Loop] = "scan"
    BY <1>3, <1>8 DEF RecordMissing, Goto, TypeOK
  <2>2. due' = due
    BY <1>8 DEF RecordMissing, TypeOK, loopVars
  <2>3. Listed
    BY <2>2 DEF ListDue
  <2>4. Run
    BY <2>1, <2>2 DEF ListDue
  <2> QED
    BY <1>2, <1>9, <2>1, <2>3, <2>4
<1> QED
  BY <1>2, <1>4, <1>5, <1>6, <1>7, <1>8

\* What recordRun makes of a schedule is due when it matches next.
LEMMA RecordedOnTime ==
    ASSUME NEW job \in Schedules, NEW new \in Recorded(job), clock \in 0..MaxTime
    PROVE  OnTime(new, clock)
<1> DEFINE ended == [job EXCEPT !.last = IF status[cur] = "done" THEN "success" ELSE "failed"]
<1>1. ended.expr = job.expr /\ ended \in Schedules
  BY DEF Schedules
<1>2. CASE NextTime(job.expr, clock) = {}
  <2>1. new = ended
    BY <1>2 DEF Recorded
  <2> QED
    BY <1>1, <1>2, <2>1 DEF OnTime
<1>3. CASE NextTime(job.expr, clock) # {}
  <2>1. PICK u \in NextTime(job.expr, clock) : new = [ended EXCEPT !.next = u]
    BY <1>3 DEF Recorded
  <2>2. new.expr = job.expr /\ new.next = u
    BY <1>1, <2>1 DEF Schedules
  <2> QED
    BY <2>2 DEF OnTime
<1> QED
  BY <1>2, <1>3

\* recordRun takes its copy.
LEMMA RunsRecord ==
    ASSUME TypeOK, CopiesHeld, RunKnown, ListDue, RunsOnTime, Record
    PROVE  ListDue' /\ RunsOnTime'
<1>1. cur \in Ids /\ jobs[cur] \in Schedules /\ Loop \in Procs /\ pc[Loop] = "record"
  BY DEF RunKnown, TypeOK, Record, Procs
<1>2. PICK new \in Recorded(jobs[cur]) : Prepare(Loop, cur, new)
  BY DEF Record
<1>3. OnTime(new, clock)
  BY <1>1, RecordedOnTime DEF TypeOK
<1>4. PICK c : c = [id |-> cur, job |-> new, at |-> clock]
  OBVIOUS
<1>5. c.id = cur /\ c.job = new /\ c.at = clock
  BY <1>4
<1>6. copy' = [copy EXCEPT ![Loop] = c] /\ pc' = [pc EXCEPT ![Loop] = "save"]
  BY <1>2, <1>4 DEF Prepare, Goto
<1>7. copy'[Loop] = c /\ pc'[Loop] = "save"
  BY <1>1, <1>6 DEF CopiesHeld, TypeOK
<1>8. UNCHANGED <<clock, mode, jobs, file, served, due, cur>>
  BY DEF Record, storeVars, loopVars
<1>9. ListDue'
  BY <1>1, <1>3, <1>5, <1>7, <1>8 DEF ListDue
<1> QED
  BY <1>8, <1>9 DEF RunsOnTime

\* The loop saves what it ran.
LEMMA RunsSave ==
    ASSUME TypeOK, CopiesHeld, RunKnown, ListDue, RunsOnTime, mode = "up", SaveStep(Loop)
    PROVE  ListDue' /\ RunsOnTime'
<1>1. Loop \in Procs /\ UNCHANGED <<clock, mode, due, cur>>
  BY DEF SaveStep, SaveBegin, SaveRefused, SaveEnd, SaveFails, Procs, loopVars
<1>2. CASE Put(Loop) /\ copy[Loop].id \in Ids
  <2>1. PICK c : c = copy[Loop]
    OBVIOUS
  <2>2. /\ c.id = cur /\ OnTime(c.job, c.at) /\ c.id \in Ids
        /\ jobs' = [jobs EXCEPT ![c.id] = c.job] /\ served' = [served EXCEPT ![c.id] = c.at]
    BY <1>2, <2>1 DEF ListDue, Put
  <2>3. \A i \in Ids : OnTime(jobs'[i], served'[i])
    <3> SUFFICES ASSUME NEW i \in Ids PROVE OnTime(jobs'[i], served'[i])
      OBVIOUS
    <3>1. CASE i = c.id
      BY <2>2, <3>1 DEF TypeOK
    <3>2. CASE i # c.id
      BY <2>2, <3>2 DEF TypeOK, RunsOnTime
    <3> QED
      BY <3>1, <3>2
  <2>4. c.id \notin due /\ \A i \in due : jobs'[i] = jobs[i]
    BY <1>2, <2>2 DEF ListDue, Put, TypeOK
  <2>5. (pc'[Loop] = "write" /\ copy' = copy) \/ pc'[Loop] = "scan"
    BY <1>1, <1>2 DEF SaveStep, SaveBegin, SaveRefused, SaveEnd, SaveFails, Put, Return, Goto, TypeOK
  <2>6. ListDue'
    BY <1>1, <2>1, <2>2, <2>4, <2>5 DEF ListDue
  <2> QED
    BY <1>1, <2>3, <2>6 DEF RunsOnTime
<1>3. CASE SaveEnd(Loop) \/ SaveFails(Loop)
  <2>1. UNCHANGED <<jobs, served>> /\ pc'[Loop] = "scan"
    BY <1>1, <1>3 DEF SaveEnd, SaveFails, Return, Goto, TypeOK
  <2> QED
    BY <1>1, <2>1 DEF ListDue, RunsOnTime
<1>4. pc[Loop] = "save" => copy[Loop].id \in Ids
  BY <1>1 DEF CopiesHeld, Copies
<1> QED
  BY <1>2, <1>3, <1>4 DEF SaveStep, SaveBegin, SaveRefused, Put

\* The process dies with its file up to date, or cut short for good.
LEMMA RunsCrash ==
    ASSUME TypeOK, FileFollowsStore, Undisturbed, ListDue, RunsOnTime, mode = "up", Crash, ~lost'
    PROVE  ListDue' /\ RunsOnTime'
<1>1. ~stale /\ UNCHANGED <<file, served>> /\ mode' = "down"
  BY DEF Crash, TypeOK
<1>2. file # Torn => file = jobs
  BY <1>1 DEF Undisturbed, FileFollowsStore
<1>3. RunsOnTime'
  BY <1>1, <1>2 DEF RunsOnTime
<1>4. ListDue'
  BY DEF Crash, ListDue, Procs
<1> QED
  BY <1>3, <1>4

\* Without edits and lost writes every step keeps it.
LEMMA RunsStep ==
    ASSUME SchedIInv, Undisturbed, RunsInv, [Next]_vars
    PROVE  RunsInv'
<1> SUFFICES ASSUME edits' = 0, ~lost' PROVE ListDue' /\ RunsOnTime'
  BY DEF RunsInv
<1>0. TypeOK /\ CopiesHeld /\ FileFollowsStore /\ RunKnown
  BY DEF SchedIInv
<1>1. edits = 0 /\ ~lost
  <2>1. edits' = edits \/ edits' = edits + 1
    BY DEF Next, Running, LoopStep, HandlerStep, RequestStep, SaveStep, SaveBegin, SaveRefused, SaveEnd, SaveFails,
           Create, UpdateGet, UpdateEdit, UpdateRefused, Delete, Request, Check, Fire, ScanEnds, Poll, Record,
           RecordMissing, EngineStep, Cancel, Tick, Crash, Restart, RestartPanics, vars, countVars
  <2>2. lost' = lost \/ lost' = (lost \/ stale)
    BY DEF Next, Running, LoopStep, HandlerStep, RequestStep, SaveStep, SaveBegin, SaveRefused, SaveEnd, SaveFails,
           Create, UpdateGet, UpdateEdit, UpdateRefused, Delete, Request, Check, Fire, ScanEnds, Poll, Record,
           RecordMissing, EngineStep, Cancel, Tick, Crash, Restart, RestartPanics, vars, countVars
  <2>3. edits = 0
    BY <2>1 DEF Undisturbed
  <2>4. ~lost
    BY <2>2 DEF Undisturbed
  <2> QED
    BY <2>3, <2>4
<1>2. ListDue /\ RunsOnTime
  BY <1>1 DEF RunsInv
<1>3. ASSUME NEW q \in Clients, RequestStep(q) PROVE FALSE
  BY <1>1, <1>3 DEF RequestStep, Create, UpdateGet, Delete, Request
<1>4. ASSUME NEW q \in Clients, HandlerStep(q) PROVE FALSE
  <2>1. pc[q] = "idle"
    BY <1>1 DEF Undisturbed
  <2> QED
    BY <1>4, <2>1 DEF HandlerStep, SaveStep, SaveBegin, SaveRefused, SaveEnd, SaveFails, Put, UpdateEdit, UpdateRefused
<1>5. CASE mode = "up" /\ LoopStep
  BY <1>0, <1>2, <1>5, RunsLoop, RunsRecord, RunsSave DEF LoopStep
<1>6. CASE EngineStep \/ Cancel \/ Tick \/ UNCHANGED vars
  <2>1. UNCHANGED <<jobs, file, served, mode, pc, copy, due, cur>>
    BY <1>6 DEF EngineStep, Cancel, Tick, vars, storeVars, loopVars
  <2>2. clock' = clock \/ clock' = clock + 1
    BY <1>6 DEF EngineStep, Cancel, Tick, vars
  <2>3. clock' \in Nat /\ clock' >= clock
    BY <1>0, <2>2 DEF TypeOK
  <2> QED
    BY <1>0, <1>2, <2>1, <2>3, RunsStay
<1>7. CASE mode = "up" /\ Crash
  BY <1>0, <1>2, <1>7, RunsCrash
<1>8. CASE Restart
  <2>1. /\ file # Torn /\ mode # "up" /\ jobs' = file /\ mode' = "up"
        /\ UNCHANGED <<clock, file, served, pc, copy, due, cur>>
    BY <1>8 DEF Restart, loopVars
  <2>2. due = {} /\ pc[Loop] = "idle"
    BY <2>1 DEF Undisturbed, Procs
  <2>3. ListDue'
    BY <2>1, <2>2 DEF ListDue
  <2>4. RunsOnTime'
    BY <1>2, <2>1 DEF RunsOnTime
  <2> QED
    BY <2>3, <2>4
<1>9. CASE RestartPanics
  <2>1. UNCHANGED <<clock, jobs, file, served, pc, copy, due, cur>> /\ mode # "up" /\ mode' # "up"
    BY <1>9 DEF RestartPanics, storeVars, loopVars
  <2> QED
    BY <1>2, <2>1 DEF ListDue, RunsOnTime
<1> QED
  BY <1>3, <1>4, <1>5, <1>6, <1>7, <1>8, <1>9 DEF Next, Running

\* Only Fire sends the loop from the list to a run.
LEMMA OnlyFireStarts ==
    ASSUME TypeOK, Next, NEW i, Starts(i)
    PROVE  Fire /\ mode = "up"
<1>1. pc[Loop] = "scan" /\ pc'[Loop] = "poll" /\ Loop \in Procs
  BY DEF Starts, Procs
<1>2. ASSUME NEW q \in Clients, HandlerStep(q) \/ RequestStep(q) PROVE pc'[Loop] = pc[Loop]
  BY <1>1, <1>2 DEF HandlerStep, RequestStep, SaveStep, SaveBegin, SaveRefused, SaveEnd, SaveFails, Put, Return, Goto,
     Create, UpdateGet, UpdateEdit, UpdateRefused, Delete, Prepare, TypeOK
<1>3. ASSUME SaveStep(Loop) PROVE FALSE
  BY <1>1, <1>3 DEF SaveStep, SaveBegin, SaveRefused, SaveEnd, SaveFails, Put
<1>4. ASSUME Check \/ ScanEnds \/ Poll \/ Record \/ RecordMissing PROVE FALSE
  BY <1>1, <1>4 DEF Check, ScanEnds, Poll, Record, RecordMissing, Goto, TypeOK
<1>5. ASSUME EngineStep \/ Cancel \/ Tick \/ Restart \/ RestartPanics \/ Crash PROVE FALSE
  BY <1>1, <1>5 DEF EngineStep, Cancel, Tick, Restart, RestartPanics, Crash
<1> QED
  BY <1>1, <1>2, <1>3, <1>4, <1>5 DEF Next, Running, LoopStep

\* Of the schedules a check lists, each is due at a time it matches after its
\* last recorded run (scheduler.go check and recordRun).
THEOREM FiresOnce == Spec => FiresOncePerMatch
<1>1. Init => SchedIInv /\ Undisturbed /\ RunsInv
  BY SchedInitInv, RunsStart
<1>2. SchedIInv /\ Undisturbed /\ RunsInv /\ [Next]_vars => (SchedIInv /\ Undisturbed /\ RunsInv)'
  BY SchedNextInv, UndisturbedStep, RunsStep DEF SchedIInv
<1>3. SchedIInv /\ RunsInv /\ [Next]_vars
      => [\A i \in Ids : edits = 0 /\ ~lost /\ Starts(i)
                         /\ NextTime(jobs[i].expr, served[i]) # {} => Matched(i)]_vars
  <2> SUFFICES ASSUME SchedIInv, RunsInv, Next, NEW i \in Ids, edits = 0, ~lost, Starts(i),
                      NextTime(jobs[i].expr, served[i]) # {}
               PROVE  Matched(i)
    OBVIOUS
  <2>0. TypeOK /\ CopiesHeld /\ RunKnown /\ ListDue /\ RunsOnTime
    BY DEF SchedIInv, RunsInv
  <2>1. mode = "up" /\ i \in due
    <3>1. Fire /\ mode = "up"
      BY <2>0, OnlyFireStarts
    <3> QED
      BY <3>1 DEF Fire, Starts
  <2>2. jobs[i] # None /\ jobs[i].next < clock /\ OnTime(jobs[i], served[i])
    BY <2>0, <2>1 DEF ListDue, RunsOnTime
  <2>3. PICK u : u = jobs[i].next
    OBVIOUS
  <2>4. u \in NextTime(jobs[i].expr, served[i])
    BY <2>2, <2>3 DEF OnTime
  <2>5. u \in Matches[jobs[i].expr] /\ served[i] < u
    BY <2>4 DEF NextTime
  <2> QED
    BY <2>2, <2>3, <2>5 DEF Matched
<1> QED
  BY <1>1, <1>2, <1>3, PTL DEF Spec, FiresOncePerMatch

-----------------------------------------------------------------------------
(* The search for the next time, for any calendar, expression and instant.   *)

HIDE SchedulerAssumption

\* A year has its leap day.
LEMMA LeapStep ==
    ASSUME NEW y \in Nat \ {0}
    PROVE  LeapDays(y + 1) = LeapDays(y) + (IF IsLeap(y) THEN 1 ELSE 0)
  BY DEF LeapDays, IsLeap

\* The lengths of months, month by month.
LEMMA LengthsOfMonths ==
    ASSUME NEW y \in Nat, NEW m \in Nat
    PROVE  /\ m = 12 * y + 1 => MonthLength(m) = IF IsLeap(Year0 + y) THEN 29 ELSE 28
           /\ \A k \in {3, 5, 8, 10} : m = 12 * y + k => MonthLength(m) = 30
           /\ \A k \in {0, 2, 4, 6, 7, 9, 11} : m = 12 * y + k => MonthLength(m) = 31
<1>1. ASSUME m = 12 * y + 1 PROVE MonthLength(m) = IF IsLeap(Year0 + y) THEN 29 ELSE 28
  <2>1. m % 12 = 1 /\ m \div 12 = y
    BY <1>1
  <2> QED
    BY <2>1 DEF MonthLength, IsLeap
<1>2. ASSUME NEW k \in {3, 5, 8, 10}, m = 12 * y + k PROVE MonthLength(m) = 30
  <2>1. m % 12 = k /\ m % 12 # 1
    BY <1>2
  <2> QED
    BY <2>1 DEF MonthLength
<1>3. ASSUME NEW k \in {0, 2, 4, 6, 7, 9, 11}, m = 12 * y + k PROVE MonthLength(m) = 31
  <2>1. m % 12 # 1 /\ m % 12 \notin {3, 5, 8, 10}
    BY <1>3
  <2> QED
    BY <2>1 DEF MonthLength
<1> QED
  BY <1>1, <1>2, <1>3

\* The first days of months, month by month.
LEMMA FirstDays ==
    ASSUME NEW y \in Nat, NEW k \in 0..11
    PROVE  FirstDay(12 * y + k) = 365 * y + LeapDays(Year0 + y) - LeapDays(Year0) + DaysBefore[k + 1]
             + (IF IsLeap(Year0 + y) /\ k >= 2 THEN 1 ELSE 0)
<1>1. (12 * y + k) \div 12 = y /\ (12 * y + k) % 12 = k
  OBVIOUS
<1> QED
  BY <1>1 DEF FirstDay

\* The days of a common year before each month.
LEMMA DaysOfMonths ==
    /\ DaysBefore[1] = 0 /\ DaysBefore[2] = 31 /\ DaysBefore[3] = 59 /\ DaysBefore[4] = 90
    /\ DaysBefore[5] = 120 /\ DaysBefore[6] = 151 /\ DaysBefore[7] = 181 /\ DaysBefore[8] = 212
    /\ DaysBefore[9] = 243 /\ DaysBefore[10] = 273 /\ DaysBefore[11] = 304 /\ DaysBefore[12] = 334
  BY DEF DaysBefore

\* The leap days before a year are a number.
LEMMA LeapDaysInt == ASSUME NEW y \in Nat \ {0} PROVE LeapDays(y) \in Int
  BY DEF LeapDays

\* The closed form of FirstDay agrees with the lengths of the months.
LEMMA FirstDayNext ==
    ASSUME NEW m \in Nat
    PROVE  FirstDay(m + 1) = FirstDay(m) + MonthLength(m)
<1>1. PICK y \in Nat, k \in 0..11 : m = 12 * y + k
  <2>1. m \div 12 \in Nat /\ m % 12 \in 0..11 /\ m = 12 * (m \div 12) + (m % 12)
    OBVIOUS
  <2> QED
    BY <2>1
<1>2. Year0 + y \in Nat \ {0} /\ Year0 \in Nat \ {0}
  BY CronAssumption
<1>3. PICK a \in Int : a = LeapDays(Year0 + y) - LeapDays(Year0)
  BY <1>2, LeapDaysInt
<1>4. PICK leap \in {0, 1} : leap = IF IsLeap(Year0 + y) THEN 1 ELSE 0
  OBVIOUS
<1>5. FirstDay(m) = 365 * y + a + DaysBefore[k + 1] + (IF k >= 2 THEN leap ELSE 0)
  BY <1>1, <1>2, <1>3, <1>4, FirstDays
<1>6. Year0 + (y + 1) = (Year0 + y) + 1
  BY <1>2
<1>7. LeapDays(Year0 + (y + 1)) - LeapDays(Year0) = a + leap
  <2>1. LeapDays(Year0 + (y + 1)) = LeapDays(Year0 + y) + leap
    BY <1>2, <1>4, <1>6, LeapStep
  <2>2. LeapDays(Year0 + y) \in Int /\ LeapDays(Year0) \in Int
    BY <1>2, LeapDaysInt
  <2> QED
    BY <1>3, <1>4, <2>1, <2>2
<1>8. CASE k = 11
  <2>1. m + 1 = 12 * (y + 1) + 0
    BY <1>1, <1>8
  <2>2. FirstDay(m + 1) = 365 * (y + 1) + (a + leap) + DaysBefore[1]
    <3>1. FirstDay(12 * (y + 1) + 0) = 365 * (y + 1) + LeapDays(Year0 + (y + 1)) - LeapDays(Year0) + DaysBefore[0 + 1]
             + (IF IsLeap(Year0 + (y + 1)) /\ 0 >= 2 THEN 1 ELSE 0)
      BY FirstDays
    <3>2. LeapDays(Year0 + (y + 1)) \in Int /\ LeapDays(Year0) \in Int
      BY <1>2, LeapDaysInt
    <3> QED
      BY <1>3, <1>4, <1>7, <2>1, <3>1, <3>2, DaysOfMonths
  <2>3. MonthLength(m) = 31
    BY <1>1, <1>8, LengthsOfMonths
  <2> QED
    BY <1>3, <1>4, <1>5, <1>8, <2>2, <2>3, DaysOfMonths
<1>9. CASE k < 11
  <2>1. m + 1 = 12 * y + (k + 1) /\ k + 1 \in 0..11
    BY <1>1, <1>9
  <2>2. FirstDay(m + 1) = 365 * y + a + DaysBefore[k + 2] + (IF k + 1 >= 2 THEN leap ELSE 0)
    BY <1>2, <1>3, <1>4, <2>1, FirstDays
  <2>3. /\ k = 1 => MonthLength(m) = 28 + leap
        /\ k \in {3, 5, 8, 10} => MonthLength(m) = 30
        /\ k \in {0, 2, 4, 6, 7, 9} => MonthLength(m) = 31
    BY <1>1, <1>4, LengthsOfMonths
  <2> QED
    BY <1>3, <1>4, <1>5, <1>9, <2>2, <2>3, DaysOfMonths
<1> QED
  BY <1>8, <1>9

\* A set of numbers has a least one.
LEMMA LeastNumber ==
    ASSUME NEW T, T \subseteq Nat, T # {}
    PROVE  \E x \in T : \A y \in T : x <= y
<1>1. PICK x \in T : \A y \in T : ~ (<<y, x>> \in OpToRel(<, Nat))
  BY NatLessThanWellFounded, WFMin, Zenon
<1>2. \A y \in T : ~ (y < x)
  BY <1>1 DEF OpToRel
<1> QED
  BY <1>2

\* A month has 28 to 31 days.
LEMMA MonthLengths == ASSUME NEW m \in Nat PROVE MonthLength(m) \in 28..31
<1>1. PICK y \in Nat, k \in 0..11 : m = 12 * y + k
  <2>1. m \div 12 \in Nat /\ m % 12 \in 0..11 /\ m = 12 * (m \div 12) + (m % 12)
    OBVIOUS
  <2> QED
    BY <2>1
<1>2. CASE k = 1
  <2>1. MonthLength(m) = IF IsLeap(Year0 + y) THEN 29 ELSE 28
    BY <1>1, <1>2, LengthsOfMonths
  <2> QED
    BY <2>1
<1>3. CASE k # 1
  <2>1. k \in {3, 5, 8, 10} => MonthLength(m) = 30
    BY <1>1, LengthsOfMonths
  <2>2. k \in {0, 2, 4, 6, 7, 9, 11} => MonthLength(m) = 31
    BY <1>1, LengthsOfMonths
  <2> QED
    BY <1>3, <2>1, <2>2
<1> QED
  BY <1>2, <1>3

\* Months begin where that many days have passed.
LEMMA FirstDayBounds ==
    ASSUME NEW m \in Nat
    PROVE  FirstDay(m) \in Nat /\ 28 * m <= FirstDay(m) /\ FirstDay(m) <= 31 * m
<1> DEFINE Wrong == {n \in Nat : ~(FirstDay(n) \in Nat /\ 28 * n <= FirstDay(n) /\ FirstDay(n) <= 31 * n)}
<1>1. 0 \notin Wrong
  <2>1. Year0 + 0 \in Nat \ {0} /\ Year0 + 0 = Year0 /\ LeapDays(Year0) \in Int
    BY CronAssumption, LeapDaysInt
  <2>2. FirstDay(12 * 0 + 0) = 365 * 0 + LeapDays(Year0 + 0) - LeapDays(Year0) + DaysBefore[0 + 1]
             + (IF IsLeap(Year0 + 0) /\ 0 >= 2 THEN 1 ELSE 0)
    BY FirstDays
  <2>3. FirstDay(0) = 0
    BY <2>1, <2>2, DaysOfMonths
  <2> QED
    BY <2>3
<1>2. ASSUME Wrong # {} PROVE FALSE
  <2>1. PICK n \in Wrong : \A x \in Wrong : n <= x
    BY <1>2, LeastNumber
  <2>2. n \in Nat /\ n # 0
    BY <1>1
  <2>3. n - 1 \in Nat /\ n - 1 \notin Wrong /\ (n - 1) + 1 = n
    BY <2>1, <2>2
  <2>4. FirstDay(n) = FirstDay(n - 1) + MonthLength(n - 1) /\ MonthLength(n - 1) \in 28..31
    BY <2>3, FirstDayNext, MonthLengths
  <2>5. FirstDay(n - 1) \in Nat /\ 28 * (n - 1) <= FirstDay(n - 1) /\ FirstDay(n - 1) <= 31 * (n - 1)
    BY <2>3
  <2>6. n \notin Wrong
    BY <2>2, <2>4, <2>5
  <2> QED
    BY <2>6
<1> QED
  BY <1>2

\* Later months begin later.
LEMMA FirstDayGrows ==
    ASSUME NEW a \in Nat, NEW b \in Nat, a <= b
    PROVE  FirstDay(a) <= FirstDay(b)
<1> DEFINE Wrong == {n \in Nat : a <= n /\ ~(FirstDay(a) <= FirstDay(n))}
<1>1. FirstDay(a) \in Nat /\ FirstDay(b) \in Nat
  BY FirstDayBounds
<1>2. ASSUME Wrong # {} PROVE FALSE
  <2>1. PICK n \in Wrong : \A x \in Wrong : n <= x
    BY <1>2, LeastNumber
  <2>2. n \in Nat /\ a <= n /\ ~(FirstDay(a) <= FirstDay(n))
    OBVIOUS
  <2>3. n # a
    BY <1>1, <2>2
  <2>4. n - 1 \in Nat /\ a <= n - 1 /\ n - 1 \notin Wrong /\ (n - 1) + 1 = n
    BY <2>1, <2>2, <2>3
  <2>5. FirstDay(n) = FirstDay(n - 1) + MonthLength(n - 1) /\ MonthLength(n - 1) \in 28..31
    BY <2>4, FirstDayNext, MonthLengths
  <2>6. FirstDay(a) <= FirstDay(n - 1) /\ FirstDay(n - 1) \in Nat
    BY <2>4, FirstDayBounds
  <2> QED
    BY <1>1, <2>2, <2>5, <2>6
<1> QED
  BY <1>2

\* The month of a day is the one it lies in.
LEMMA MonthOf ==
    ASSUME NEW u, Day(u) \in Nat
    PROVE  Month(u) \in Nat /\ FirstDay(Month(u)) <= Day(u) /\ Day(u) < FirstDay(Month(u) + 1)
<1>1. PICK d \in Nat : d = Day(u)
  OBVIOUS
<1> DEFINE Ends == {m \in Nat : d < FirstDay(m + 1)}
<1>2. d \in Ends
  BY FirstDayBounds
<1>3. PICK m \in Ends : \A x \in Ends : m <= x
  BY <1>2, LeastNumber
<1>4. m \in Nat /\ d < FirstDay(m + 1)
  OBVIOUS
<1>5. FirstDay(m) <= d
  <2>1. CASE m = 0
    BY <2>1, FirstDayBounds
  <2>2. CASE m # 0
    <3>1. m - 1 \in Nat /\ ~(m <= m - 1) /\ (m - 1) + 1 = m
      BY <1>4, <2>2
    <3>2. ~(d < FirstDay(m))
      BY <1>3, <3>1
    <3> QED
      BY <1>4, <3>2, FirstDayBounds
  <2> QED
    BY <2>1, <2>2
<1>6. m \in (d \div 31)..(d \div 28)
  <2>1. 28 * m <= FirstDay(m) /\ FirstDay(m + 1) <= 31 * (m + 1) /\ FirstDay(m) \in Nat /\ FirstDay(m + 1) \in Nat
    BY <1>4, FirstDayBounds
  <2>2. 28 * m <= d /\ d < 31 * (m + 1)
    BY <1>4, <1>5, <2>1
  <2> QED
    BY <1>4, <2>2
<1>7. Month(u) = CHOOSE x \in (d \div 31)..(d \div 28) : FirstDay(x) <= d /\ d < FirstDay(x + 1)
  BY <1>1 DEF Month
<1>8. /\ Month(u) \in (d \div 31)..(d \div 28)
      /\ FirstDay(Month(u)) <= d /\ d < FirstDay(Month(u) + 1)
  BY <1>4, <1>5, <1>6, <1>7, Zenon
<1> QED
  BY <1>1, <1>8

\* Of two months only one has a day.
LEMMA MonthIs ==
    ASSUME NEW u, Day(u) \in Nat, NEW m \in Nat, FirstDay(m) <= Day(u), Day(u) < FirstDay(m + 1)
    PROVE  Month(u) = m
<1>1. PICK k \in Nat, d \in Nat : k = Month(u) /\ d = Day(u) /\ FirstDay(k) <= d /\ d < FirstDay(k + 1)
  BY MonthOf
<1>2. /\ FirstDay(k) \in Nat /\ FirstDay(m) \in Nat
      /\ FirstDay(k + 1) \in Nat /\ FirstDay(m + 1) \in Nat
  BY FirstDayBounds
<1>3. k < m => FirstDay(k + 1) <= FirstDay(m)
  BY FirstDayGrows
<1>4. m < k => FirstDay(m + 1) <= FirstDay(k)
  BY FirstDayGrows
<1> QED
  BY <1>1, <1>2, <1>3, <1>4

\* Multiplication keeps the order.
LEMMA TimesGrows ==
    ASSUME NEW a \in Nat, NEW b \in Nat, NEW n \in Nat, a <= b
    PROVE  a * n <= b * n
<1>1. PICK c \in Nat : b = a + c
  <2>1. b - a \in Nat /\ b = a + (b - a)
    OBVIOUS
  <2> QED
    BY <2>1
<1>2. b * n = a * n + c * n /\ c * n \in Nat /\ a * n \in Nat
  BY <1>1
<1> QED
  BY <1>2

\* A quotient by the two products it lies between.
LEMMA Quotient ==
    ASSUME NEW u \in Nat, NEW n \in Nat \ {0}
    PROVE  /\ u \div n \in Nat /\ u % n \in 0..(n - 1)
           /\ u = (u \div n) * n + (u % n)
           /\ \A q \in Nat : q * n <= u <=> q <= u \div n
<1>1. u \div n \in Nat /\ u % n \in 0..(n - 1)
  OBVIOUS
<1>2. u = (u \div n) * n + (u % n)
  OBVIOUS
<1>3. ASSUME NEW q \in Nat PROVE q * n <= u <=> q <= u \div n
  <2>1. CASE q <= u \div n
    BY <1>1, <1>2, <2>1, TimesGrows
  <2>2. CASE ~(q <= u \div n)
    <3>1. (u \div n) + 1 \in Nat /\ (u \div n) + 1 <= q
      BY <1>1, <2>2
    <3>2. ((u \div n) + 1) * n <= q * n
      BY <3>1, TimesGrows
    <3>3. ((u \div n) + 1) * n = (u \div n) * n + n /\ (u \div n) * n \in Nat /\ q * n \in Nat
      BY <1>1
    <3> QED
      BY <1>1, <1>2, <2>2, <3>2, <3>3
  <2> QED
    BY <2>1, <2>2
<1> QED
  BY <1>1, <1>2, <1>3

\* A day has a number of minutes.
LEMMA DayHasMinutes == HoursPerDay * MinutesPerHour \in Nat \ {0}
<1>1. HoursPerDay \in Nat \ {0} /\ MinutesPerHour \in Nat \ {0}
  BY CronAssumption
<1> QED
  BY <1>1

\* A day begins at its midnight.
LEMMA MidnightDay ==
    ASSUME NEW u \in Nat
    PROVE  /\ Day(u) \in Nat
           /\ \A d \in Nat : Midnight(d) \in Nat /\ (Midnight(d) <= u <=> d <= Day(u))
<1>1. PICK n \in Nat \ {0} : n = HoursPerDay * MinutesPerHour
  BY DayHasMinutes
<1>2. Day(u) = u \div n
  BY <1>1 DEF Day
<1>3. ASSUME NEW d \in Nat PROVE Midnight(d) = d * n
  <2>1. HoursPerDay \in Nat \ {0} /\ MinutesPerHour \in Nat \ {0}
    BY CronAssumption
  <2> QED
    BY <1>1, <2>1 DEF Midnight
<1>4. u \div n \in Nat /\ \A d \in Nat : d * n <= u <=> d <= u \div n
  BY Quotient
<1>5. \A d \in Nat : d * n \in Nat
  OBVIOUS
<1> QED
  BY <1>2, <1>3, <1>4, <1>5

\* A time of day keeps the day.
LEMMA TimeOfDay ==
    ASSUME NEW v \in Nat, NEW d \in Nat, NEW u, u = Midnight(d) + (v % (HoursPerDay * MinutesPerHour))
    PROVE  u \in Nat /\ Day(u) = d
<1>1. PICK n \in Nat \ {0} : n = HoursPerDay * MinutesPerHour
  BY DayHasMinutes
<1>2. PICK r \in 0..(n - 1) : r = v % n
  BY Quotient
<1>3. Midnight(d) = d * n /\ Midnight(d + 1) = d * n + n /\ d * n \in Nat
  <2>1. HoursPerDay \in Nat \ {0} /\ MinutesPerHour \in Nat \ {0}
    BY CronAssumption
  <2> QED
    BY <1>1, <2>1 DEF Midnight
<1>4. u \in Nat /\ Midnight(d) <= u /\ ~(Midnight(d + 1) <= u)
  BY <1>1, <1>2, <1>3
<1>5. Day(u) \in Nat /\ d <= Day(u) /\ ~(d + 1 <= Day(u))
  BY <1>4, MidnightDay
<1> QED
  BY <1>4, <1>5

\* Instants of one day share its date.
LEMMA SameDay ==
    ASSUME NEW u \in Nat, NEW v \in Nat, Day(u) = Day(v)
    PROVE  Month(u) = Month(v) /\ DayOfMonth(u) = DayOfMonth(v) /\ Weekday(u) = Weekday(v)
<1>1. Month(u) = Month(v)
  BY MidnightDay, MonthOf, MonthIs
<1> QED
  BY <1>1 DEF DayOfMonth, Weekday

\* Instants of one hour share it and the day.
LEMMA SameHour ==
    ASSUME NEW u \in Nat, NEW v \in Nat, u \div MinutesPerHour = v \div MinutesPerHour
    PROVE  Hour(u) = Hour(v) /\ Day(u) = Day(v)
<1>1. PICK h \in Nat \ {0}, m \in Nat \ {0} : h = HoursPerDay /\ m = MinutesPerHour
  BY CronAssumption
<1>2. ASSUME NEW x \in Nat PROVE Day(x) = (x \div m) \div h
  <2>1. PICK q \in Nat : q = x \div m
    BY Quotient
  <2>2. Day(x) \in Nat /\ q \div h \in Nat
    BY <2>1, MidnightDay, Quotient
  <2>3. ASSUME NEW d \in Nat PROVE d <= Day(x) <=> d <= q \div h
    <3>1. d <= Day(x) <=> (d * h) * m <= x
      <4>1. Midnight(d) = (d * h) * m
        BY <1>1 DEF Midnight
      <4> QED
        BY <4>1, MidnightDay
    <3>2. d * h \in Nat
      OBVIOUS
    <3>3. (d * h) * m <= x <=> d * h <= q
      BY <2>1, <3>2, Quotient
    <3>4. d * h <= q <=> d <= q \div h
      BY Quotient
    <3> QED
      BY <3>1, <3>3, <3>4
  <2> QED
    BY <2>1, <2>2, <2>3
<1>3. Day(u) = Day(v)
  BY <1>1, <1>2
<1> QED
  BY <1>1, <1>3 DEF Hour

\* The day of the month counts from 1 to the length of the month.
LEMMA DayOfMonthIs ==
    ASSUME NEW u \in Nat
    PROVE  /\ DayOfMonth(u) \in 1..MonthLength(Month(u))
           /\ Day(u) = FirstDay(Month(u)) + DayOfMonth(u) - 1
<1>1. PICK d \in Nat, m \in Nat : d = Day(u) /\ m = Month(u) /\ FirstDay(m) <= d /\ d < FirstDay(m + 1)
  BY MidnightDay, MonthOf
<1>2. FirstDay(m) \in Nat /\ FirstDay(m + 1) = FirstDay(m) + MonthLength(m) /\ MonthLength(m) \in 28..31
  BY FirstDayBounds, FirstDayNext, MonthLengths
<1>3. DayOfMonth(u) = d - FirstDay(m) + 1
  BY <1>1 DEF DayOfMonth
<1> QED
  BY <1>1, <1>2, <1>3

\* AddDate(0, 1, 0), back to the first: the next month, or the one after it,
\* when the next one has not the day.
LEMMA MonthAfter ==
    ASSUME NEW v \in Nat, NEW k, k = Month(AddMonths(v, 1)), NEW m \in Nat, m = Month(v)
    PROVE  \/ k = m + 1
           \/ k = m + 2 /\ MonthLength(m + 1) < DayOfMonth(v)
<1>1. PICK a \in 1..31 : a = DayOfMonth(v)
  <2>1. DayOfMonth(v) \in 1..MonthLength(m) /\ MonthLength(m) \in 28..31
    BY DayOfMonthIs, MonthLengths
  <2> QED
    BY <2>1
<1>2. PICK d \in Nat : d = FirstDay(m + 1) + a - 1
  <2>1. FirstDay(m + 1) \in Nat
    BY FirstDayBounds
  <2>2. FirstDay(m + 1) + a - 1 \in Nat
    BY <1>1, <2>1
  <2> QED
    BY <2>2
<1>3. PICK u : u = AddMonths(v, 1)
  OBVIOUS
<1>4. Day(u) = d
  <2>1. u = Midnight(d) + (v % (HoursPerDay * MinutesPerHour))
    BY <1>1, <1>2, <1>3 DEF AddMonths
  <2> QED
    BY <2>1, TimeOfDay
<1>5. /\ FirstDay(m + 1) \in Nat /\ MonthLength(m + 1) \in 28..31 /\ MonthLength(m + 2) \in 28..31
      /\ FirstDay(m + 2) = FirstDay(m + 1) + MonthLength(m + 1)
      /\ FirstDay(m + 3) = FirstDay(m + 2) + MonthLength(m + 2)
  <2>1. m + 1 \in Nat /\ m + 2 \in Nat /\ (m + 1) + 1 = m + 2 /\ (m + 2) + 1 = m + 3
    OBVIOUS
  <2> QED
    BY <2>1, FirstDayBounds, FirstDayNext, MonthLengths
<1>6. CASE a <= MonthLength(m + 1)
  <2>1. FirstDay(m + 1) <= d /\ d < FirstDay(m + 2) /\ m + 1 \in Nat /\ (m + 1) + 1 = m + 2
    BY <1>1, <1>2, <1>5, <1>6
  <2>2. Month(u) = m + 1
    BY <1>4, <2>1, MonthIs
  <2> QED
    BY <1>3, <2>2
<1>7. CASE MonthLength(m + 1) < a
  <2>1. FirstDay(m + 2) <= d /\ d < FirstDay(m + 3) /\ m + 2 \in Nat /\ (m + 2) + 1 = m + 3
    BY <1>1, <1>2, <1>5, <1>7
  <2>2. Month(u) = m + 2
    BY <1>4, <2>1, MonthIs
  <2> QED
    BY <1>1, <1>3, <1>7, <2>2
<1> QED
  BY <1>1, <1>5, <1>6, <1>7


\* What the step to another month passes over.
LEMMA MonthPassed ==
    ASSUME NEW v \in Nat, NEW w, w = Midnight(FirstDay(Month(AddMonths(v, 1))))
    PROVE  /\ w \in Nat /\ v < w
           /\ \A u \in v..(w - 1) : Month(u) = Month(v) \/ MonthLength(Month(u)) < DayOfMonth(v)
<1>1. PICK m \in Nat, d \in Nat : m = Month(v) /\ d = Day(v) /\ FirstDay(m) <= d /\ d < FirstDay(m + 1)
  BY MidnightDay, MonthOf
<1>2. PICK k : k = Month(AddMonths(v, 1))
  OBVIOUS
<1>3. k = m + 1 \/ (k = m + 2 /\ MonthLength(m + 1) < DayOfMonth(v))
  BY <1>1, <1>2, MonthAfter
<1>4. k \in Nat /\ m + 1 <= k
  BY <1>3
<1>5. FirstDay(m + 1) <= FirstDay(k) /\ FirstDay(m + 1) \in Nat /\ FirstDay(k) \in Nat
  <2>1. m + 1 \in Nat
    OBVIOUS
  <2> QED
    BY <1>4, <2>1, FirstDayGrows, FirstDayBounds
<1>6. w \in Nat /\ \A u \in Nat : w <= u <=> FirstDay(k) <= Day(u)
  BY <1>2, <1>5, MidnightDay
<1>7. v < w
  BY <1>1, <1>5, <1>6
<1>8. ASSUME NEW u \in v..(w - 1)
      PROVE  Month(u) = m \/ MonthLength(Month(u)) < DayOfMonth(v)
  <2>1. u \in Nat /\ v <= u /\ ~(w <= u)
    BY <1>6
  <2>2. PICK e \in Nat : e = Day(u)
    BY <2>1, MidnightDay
  <2>3. FirstDay(m) <= e /\ e < FirstDay(k)
    <3>1. Midnight(d) <= v /\ Midnight(d) \in Nat
      BY <1>1, MidnightDay
    <3>2. Midnight(d) <= u
      BY <2>1, <3>1
    <3>3. d <= e
      BY <2>1, <2>2, <3>2, MidnightDay
    <3>4. ~(FirstDay(k) <= e)
      BY <1>6, <2>1, <2>2
    <3> QED
      BY <1>1, <1>5, <3>3, <3>4, FirstDayBounds
  <2>4. CASE e < FirstDay(m + 1)
    BY <2>1, <2>2, <2>3, <2>4, MonthIs
  <2>5. CASE FirstDay(m + 1) <= e
    <3>1. k = m + 2 /\ MonthLength(m + 1) < DayOfMonth(v)
      BY <1>3, <1>5, <2>3, <2>5
    <3>2. m + 1 \in Nat /\ (m + 1) + 1 = m + 2
      OBVIOUS
    <3>3. Month(u) = m + 1
      BY <2>1, <2>2, <2>3, <2>5, <3>1, <3>2, MonthIs
    <3> QED
      BY <3>1, <3>3
  <2> QED
    BY <1>5, <2>3, <2>4, <2>5
<1> QED
  BY <1>1, <1>6, <1>7, <1>8

\* What the step to the next midnight passes over is of one day.
LEMMA DayPassed ==
    ASSUME NEW v \in Nat, NEW w, w = Midnight(Day(v) + 1)
    PROVE  /\ w \in Nat /\ v < w
           /\ \A u \in v..(w - 1) : u \in Nat /\ Day(u) = Day(v)
<1>1. PICK d \in Nat : d = Day(v)
  BY MidnightDay
<1>2. d + 1 \in Nat /\ w \in Nat /\ Midnight(d) \in Nat /\ Midnight(d) <= v /\ ~(w <= v)
  BY <1>1, MidnightDay
<1>3. ASSUME NEW u \in v..(w - 1) PROVE u \in Nat /\ Day(u) = d
  <2>1. u \in Nat /\ Midnight(d) <= u /\ ~(w <= u)
    BY <1>2
  <2>2. Day(u) \in Nat /\ d <= Day(u) /\ ~(d + 1 <= Day(u))
    BY <1>1, <1>2, <2>1, MidnightDay
  <2> QED
    BY <2>1, <2>2
<1> QED
  BY <1>1, <1>2, <1>3

\* What the step to the next hour passes over is of one hour.
LEMMA HourPassed ==
    ASSUME NEW v \in Nat, NEW w, w = (v \div MinutesPerHour + 1) * MinutesPerHour
    PROVE  /\ w \in Nat /\ v < w
           /\ \A u \in v..(w - 1) : u \in Nat /\ u \div MinutesPerHour = v \div MinutesPerHour
<1>1. PICK n \in Nat \ {0} : n = MinutesPerHour
  BY CronAssumption
<1>2. PICK q \in Nat : q = v \div n
  BY Quotient
<1>3. w = (q + 1) * n /\ q + 1 \in Nat /\ w \in Nat /\ q * n \in Nat
  BY <1>1, <1>2
<1>4. q * n <= v /\ ~(w <= v)
  <2>1. q * n <= v <=> q <= q
    BY <1>2, Quotient
  <2>2. (q + 1) * n <= v <=> q + 1 <= q
    BY <1>2, <1>3, Quotient
  <2> QED
    BY <1>3, <2>1, <2>2
<1>5. ASSUME NEW u \in v..(w - 1) PROVE u \in Nat /\ u \div n = q
  <2>1. u \in Nat /\ q * n <= u /\ ~((q + 1) * n <= u)
    BY <1>3, <1>4
  <2>2. u \div n \in Nat /\ q <= u \div n /\ ~(q + 1 <= u \div n)
    BY <1>3, <2>1, Quotient
  <2> QED
    BY <2>1, <2>2
<1> QED
  BY <1>1, <1>2, <1>3, <1>4, <1>5

\* The inductive invariant: the search is past the instant asked about.
CronIInv == CronInv /\ after < t

\* The limits of the fields are numbers.
LEMMA Limits ==
    ASSUME NEW f \in Fields
    PROVE  Lowest[f] \in Int /\ Highest[f] \in Int
<1>1. HoursPerDay \in Nat \ {0} /\ MinutesPerHour \in Nat \ {0}
  BY CronAssumption
<1>2. f \in {"minute", "hour", "day", "month", "dow"}
  BY DEF Fields, Highest
<1> QED
  BY <1>1, <1>2 DEF Lowest, Highest

\* Fields hold numbers up to their limits.
LEMMA ParsedFits ==
    ASSUME NEW e \in Expressions, NEW f \in Fields, ~Rejected(e[f], Lowest[f], Highest[f]),
           NEW v \in Parsed(e)[f]
    PROVE  v \in Int /\ v <= Highest[f]
<1>1. PICK lo \in Int, hi \in Int : lo = Lowest[f] /\ hi = Highest[f]
  BY Limits
<1>2. PICK parts \in Seq(Parts) : parts = e[f]
  BY FieldsAssumption
<1>3. v \in UNION {Values(parts[k], lo, hi) : k \in Read(parts)}
  BY <1>1, <1>2 DEF Parsed, ParseField
<1>4. PICK k \in Read(parts) : v \in Values(parts[k], lo, hi)
  BY <1>3
<1>5. PICK part \in Parts : part = parts[k]
  BY <1>2 DEF Read
<1>6. part.kind = "num" => part.value \in lo..hi
  BY <1>1, <1>2, <1>4, <1>5 DEF Rejected
<1>7. CASE part.kind = "star"
  BY <1>1, <1>4, <1>5, <1>7 DEF Values
<1>8. CASE part.kind = "num"
  BY <1>1, <1>4, <1>5, <1>6, <1>8 DEF Values
<1>9. CASE part.kind = "step"
  <2>1. v \in part.base..hi /\ part.base \in Int
    BY <1>4, <1>5, <1>9 DEF Values, Parts
  <2> QED
    BY <1>1, <2>1
<1> QED
  BY <1>5, <1>7, <1>8, <1>9 DEF Parts

\* A search begins past the instant asked about.
LEMMA CronStart == CronInit => CronIInv
<1> SUFFICES ASSUME CronInit PROVE CronIInv
  OBVIOUS
<1>1. after \in Nat /\ after \in Asked
  BY CronAssumption DEF CronInit
<1>2. t \in Nat /\ after < t /\ result = "search"
  BY <1>1 DEF CronInit
<1>3. \A f \in Fields : \A v \in expr[f] : v \in Int /\ v <= Highest[f]
  BY ParsedFits DEF CronInit
<1> QED
  BY <1>1, <1>2, <1>3 DEF CronIInv, CronInv, CronTypeOK, FoundMatches

\* A move goes on, and passes over what does not match, or over a month that
\* has not the day the search is at.
LEMMA CronMoves ==
    ASSUME t \in Nat, NextMonth \/ NextDay \/ NextHour \/ NextMinute
    PROVE  /\ t' \in Nat /\ t < t'
           /\ \A u \in t..(t' - 1) : Allows(u) => MonthLength(Month(u)) < DayOfMonth(t)
<1>0. PICK v \in Nat : v = t
  OBVIOUS
<1>1. PICK w : v = t /\ w = t'
  BY <1>0
<1>2. CASE NextMonth
  <2>1. w = Midnight(FirstDay(Month(AddMonths(v, 1))))
    BY <1>1, <1>2 DEF NextMonth, MoveTo
  <2>2. ~(MonthOfYear(v) \in expr.month)
    BY <1>1, <1>2 DEF NextMonth, MonthFits
  <2>3. \A u : Month(u) = Month(v) => ~Allows(u)
    BY <2>2 DEF MonthOfYear, Allows
  <2> QED
    BY <1>1, <2>1, <2>3, MonthPassed
<1>3. CASE NextDay
  <2>1. w = Midnight(Day(v) + 1)
    BY <1>1, <1>3 DEF NextDay, MoveTo
  <2>2. ~Allows(v) /\ ~(MonthOfYear(v) \in expr.month /\ DayOfMonth(v) \in expr.day /\ Weekday(v) \in expr.dow)
    BY <1>1, <1>3 DEF NextDay, DateFits, DayFits, MonthFits, Allows
  <2>3. ASSUME NEW u \in Nat, Day(u) = Day(v) PROVE ~Allows(u)
    BY <2>2, <2>3, SameDay DEF MonthOfYear, Allows
  <2> QED
    BY <1>1, <2>1, <2>3, DayPassed
<1>4. CASE NextHour
  <2>1. w = (v \div MinutesPerHour + 1) * MinutesPerHour
    BY <1>1, <1>4 DEF NextHour, MoveTo
  <2>2. ~(Hour(v) \in expr.hour)
    BY <1>1, <1>4 DEF NextHour, HourFits
  <2>3. ASSUME NEW u \in Nat, u \div MinutesPerHour = v \div MinutesPerHour PROVE ~Allows(u)
    BY <2>2, <2>3, SameHour DEF Allows
  <2> QED
    BY <1>1, <2>1, <2>3, HourPassed
<1>5. CASE NextMinute
  <2>1. w = v + 1
    BY <1>1, <1>5 DEF NextMinute, MoveTo
  <2>2. ~Allows(v)
    BY <1>1, <1>5 DEF NextMinute, MinuteFits, Allows
  <2>3. \A u \in v..(w - 1) : u = v
    BY <2>1
  <2> QED
    BY <1>1, <2>1, <2>2, <2>3
<1> QED
  BY <1>2, <1>3, <1>4, <1>5

\* Each step keeps it.
LEMMA CronKept == CronIInv /\ [CronNext]_cronVars => CronIInv'
<1> SUFFICES ASSUME CronIInv, [CronNext]_cronVars PROVE CronIInv'
  OBVIOUS
<1>1. /\ \A f \in Fields : \A v \in expr[f] : v \in Int /\ v <= Highest[f]
      /\ after \in Asked /\ after \in Nat /\ t \in Nat /\ after < t
      /\ result \in {"search", "found", "none"} /\ FoundMatches
  BY CronAssumption DEF CronIInv, CronInv, CronTypeOK
<1>2. CASE NextMonth \/ NextDay \/ NextHour \/ NextMinute
  <2>1. UNCHANGED <<expr, after, result>> /\ result = "search"
    BY <1>2 DEF NextMonth, NextDay, NextHour, NextMinute, MoveTo, Searching
  <2>2. t' \in Nat /\ t < t'
    BY <1>1, <1>2, CronMoves
  <2> QED
    BY <1>1, <2>1, <2>2 DEF CronIInv, CronInv, CronTypeOK, FoundMatches
<1>3. CASE Found
  <2>1. UNCHANGED <<expr, after, t>> /\ result' = "found" /\ t < End /\ Allows(t)
    BY <1>3 DEF Found, Searching, MinuteFits, HourFits, DateFits, DayFits, MonthFits, Allows
  <2>2. t' < End' /\ Allows(t)'
    BY <2>1 DEF End, Allows
  <2> QED
    BY <1>1, <2>1, <2>2 DEF CronIInv, CronInv, CronTypeOK, FoundMatches
<1>4. CASE GiveUp
  BY <1>1, <1>4 DEF GiveUp, CronIInv, CronInv, CronTypeOK, FoundMatches
<1>5. CASE UNCHANGED cronVars
  <2>1. UNCHANGED <<expr, after, t, result>>
    BY <1>5 DEF cronVars
  <2>2. FoundMatches'
    BY <1>1, <2>1 DEF FoundMatches, End, Allows
  <2> QED
    BY <1>1, <2>1, <2>2 DEF CronIInv, CronInv, CronTypeOK
<1> QED
  BY <1>2, <1>3, <1>4, <1>5 DEF CronNext

\* What nextTime returns matches, and comes after the instant asked about and
\* before the end of the search.
THEOREM CronInvariance == CronSpec => []CronInv
<1>1. CronIInv => CronInv
  BY DEF CronIInv
<1> QED
  BY <1>1, CronStart, CronKept, PTL DEF CronSpec

\* The search passes over no time that matches, but in months that have not
\* the day it set out from.
THEOREM SkipsOnlyShortMonths == CronSpec => SkipsShortMonthsOnly
<1>1. CronIInv /\ [CronNext]_cronVars
      => [\A u \in Passed : u < End /\ Allows(u) => MonthLength(Month(u)) < DayOfMonth(t)]_cronVars
  <2> SUFFICES ASSUME CronIInv, CronNext, NEW u \in Passed, Allows(u)
               PROVE  MonthLength(Month(u)) < DayOfMonth(t)
    OBVIOUS
  <2>1. t \in Nat /\ u \in t..(t' - 1)
    BY DEF CronIInv, CronInv, CronTypeOK, Passed
  <2>2. CASE NextMonth \/ NextDay \/ NextHour \/ NextMinute
    BY <2>1, <2>2, CronMoves
  <2>3. CASE Found \/ GiveUp
    <3>1. t' = t
      BY <2>3 DEF Found, GiveUp
    <3> QED
      BY <2>1, <3>1
  <2> QED
    BY <2>2, <2>3 DEF CronNext
<1> QED
  BY <1>1, CronStart, CronKept, PTL DEF CronSpec, SkipsShortMonthsOnly

=============================================================================
