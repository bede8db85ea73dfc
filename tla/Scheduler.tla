------------------------------- MODULE Scheduler -------------------------------
(***************************************************************************)
(* Recurring transfers: internal/scheduler (scheduler.go, store.go), the   *)
(* handlers of internal/api/handler/schedule.go and the start-up code of   *)
(* cmd/server/main.go that loads the schedules.                            *)
(*                                                                         *)
(* One loop lists the schedules, runs the due ones one after the other,    *)
(* waits for each run and writes the result back.  The HTTP handlers edit  *)
(* the same FileStore at the same time, and the process may crash.  The    *)
(* FileStore holds its lock while it rewrites scheduled_jobs.json in place.*)
(*                                                                         *)
(* The transfer engine is the one TransferPromise describes: the run of    *)
(* schedule i is the engine job i, without tables, as the loop looks at    *)
(* nothing but the status.  engine.Start, engine.Status of a known job and *)
(* FileStore.List return no errors, so the branches for them never run.    *)
(* A cron expression is the set of the times it matches; Cron has nextTime.*)
(***************************************************************************)
EXTENDS Naturals, FiniteSets

CONSTANTS Ids,        \* the identifiers of schedules
          Clients,    \* HTTP requests that may be under way at once
          Loop,       \* the goroutine of the scheduler
          Exprs,      \* the cron expressions clients use
          Matches,    \* the times each expression matches
          Empty,      \* the expression "", which UpdateSchedule alone accepts
          Horizon,    \* nextTime looks this far ahead, 2 years in the code
          DiskFails,  \* writing the file may fail
          MaxTime,    \* bound: the time at which the clock stops
          MaxEdits,   \* bound: requests that create, update or delete
          MaxCancels, \* bound: cancellations of engine jobs
          MaxCrashes, \* bound: crashes of the process
          None,       \* no schedule
          Torn        \* a file that is not JSON: empty, or cut short

Procs == Clients \cup {Loop}
Times == 0..(MaxTime + Horizon)

ASSUME SchedulerAssumption ==
    /\ Matches \in [Exprs -> SUBSET Nat]
    /\ Empty \in Exprs => Matches[Empty] = {}
    /\ Loop \notin Clients
    /\ {MaxTime, MaxEdits, MaxCancels, MaxCrashes, Horizon} \subseteq Nat
    /\ DiskFails \in BOOLEAN

Schedules == [enabled : BOOLEAN, expr : Exprs, next : Times,
              last : {"", "success", "failed"}]

VARIABLES
    clock,    \* the time
    mode,     \* the process: "up", "down", or "dead" when it cannot start
    jobs,     \* FileStore.jobs
    file,     \* scheduled_jobs.json
    pc,       \* where the loop and the handlers stand
    copy,     \* the copy of a schedule a process works on
    due,      \* check: the schedules of the listing left to execute
    cur,      \* execute: the schedule that runs
    status,   \* the status of the engine jobs
    phase,    \* the phase of the engine jobs (TransferPromise)
    used,     \* identifiers handed out by GenID
    edits, cancels, crashes,  \* counters for the bounds
    stale,    \* history: the last write of the file failed
    served,   \* history: when the last recorded run of a schedule ended
    lost      \* history: the process died after a write that had failed

engineVars == <<status, phase>>
storeVars  == <<jobs, file, stale, served>>
loopVars   == <<due, cur>>
countVars  == <<used, edits, cancels, crashes, lost>>
vars == <<clock, mode, storeVars, pc, copy, loopVars, engineVars, countVars>>

Engine == INSTANCE TransferPromise WITH
            Jobs <- Ids, Tables <- {},
            wanted <- [i \in Ids |-> {}], handled <- [i \in Ids |-> {}]

Copies == [id : Ids, job : Schedules \cup {None}, at : Times]

ASSUME NoneAssumption == None \notin Copies

TypeOK ==
    /\ clock \in 0..MaxTime
    /\ mode \in {"up", "down", "dead"}
    /\ jobs \in [Ids -> Schedules \cup {None}]
    /\ file = Torn \/ file \in [Ids -> Schedules \cup {None}]
    /\ pc \in [Procs -> {"idle", "edit", "save", "write", "scan", "poll", "record"}]
    /\ \A p \in Procs : copy[p] = None \/ copy[p] \in Copies
    /\ due \subseteq Ids
    /\ cur \in Ids \cup {None}
    /\ status \in [Ids -> {"absent", "pending", "running", "done", "failed", "cancelled"}]
    /\ phase \in [Ids -> {"none", "queued", "open", "closed"}]
    /\ used \subseteq Ids
    /\ {stale, lost} \subseteq BOOLEAN
    /\ served \in [Ids -> Times]

\* nextTime: the first time after t that e matches, if there is one in reach.
NextTime(e, t) ==
    LET reach == {u \in Matches[e] : t < u /\ u <= t + Horizon}
    IN  {u \in reach : \A v \in reach : u <= v}

\* EnsureJob: NextRunAt recomputed; no outcome when nextTime has none.
Ensured(job) ==
    IF job.expr = Empty THEN {job}
    ELSE {[job EXCEPT !.next = u] : u \in NextTime(job.expr, clock)}

\* What CreateSchedule saves first, if it accepts the expression.
FirstSaved(e, on) ==
    {[enabled |-> on, expr |-> e, next |-> u, last |-> ""] : u \in NextTime(e, clock)}

\* Schedules made before, all enabled, are there when the process starts.
Init ==
    /\ clock = 0
    /\ mode = "up"
    /\ \E old \in SUBSET Ids :
         /\ used = old
         /\ jobs \in [Ids -> {None} \cup UNION {FirstSaved(e, TRUE) : e \in Exprs}]
         /\ \A i \in Ids : jobs[i] # None <=> i \in old
    /\ file = jobs
    /\ pc = [p \in Procs |-> "idle"]
    /\ copy = [p \in Procs |-> None]
    /\ due = {}
    /\ cur = None
    /\ Engine!Init
    /\ edits = 0 /\ cancels = 0 /\ crashes = 0
    /\ stale = FALSE /\ lost = FALSE
    /\ served = [i \in Ids |-> 0]

Goto(p, l) == pc' = [pc EXCEPT ![p] = l]

\* p works on a copy of schedule i, to be saved; None stands for its deletion.
Prepare(p, i, job) ==
    /\ copy' = [copy EXCEPT ![p] = [id |-> i, job |-> job, at |-> clock]]
    /\ Goto(p, "save")

\* The lock of the FileStore is free: nobody is writing the file.
Free == \A p \in Procs : pc[p] # "write"

-----------------------------------------------------------------------------
(* FileStore.Save and Delete: the map, then persist, under the lock.         *)

Return(p) ==
    /\ Goto(p, IF p = Loop THEN "scan" ELSE "idle")
    /\ copy' = [copy EXCEPT ![p] = None]

Put(p) ==
    /\ pc[p] = "save"
    /\ Free
    /\ jobs' = [jobs EXCEPT ![copy[p].id] = copy[p].job]
    /\ served' = IF p = Loop THEN [served EXCEPT ![copy[p].id] = copy[p].at] ELSE served

\* os.WriteFile truncates the file.
SaveBegin(p) ==
    /\ Put(p)
    /\ file' = Torn
    /\ Goto(p, "write")
    /\ UNCHANGED <<clock, mode, stale, copy, loopVars, engineVars, countVars>>

\* The file cannot be opened: the map keeps the change.
SaveRefused(p) ==
    /\ DiskFails
    /\ Put(p)
    /\ Return(p)
    /\ stale' = TRUE
    /\ UNCHANGED <<clock, mode, file, loopVars, engineVars, countVars>>

SaveEnd(p) ==
    /\ pc[p] = "write"
    /\ file' = jobs
    /\ stale' = FALSE
    /\ Return(p)
    /\ UNCHANGED <<clock, mode, jobs, served, loopVars, engineVars, countVars>>

\* The write fails half way.
SaveFails(p) ==
    /\ DiskFails
    /\ pc[p] = "write"
    /\ stale' = TRUE
    /\ Return(p)
    /\ UNCHANGED <<clock, mode, jobs, file, served, loopVars, engineVars, countVars>>

SaveStep(p) ==
    \/ SaveBegin(p) \/ SaveRefused(p)
    \/ SaveEnd(p) \/ SaveFails(p)

-----------------------------------------------------------------------------
(* The handlers.                                                             *)

Request(q) ==
    /\ pc[q] = "idle"
    /\ edits < MaxEdits
    /\ edits' = edits + 1

\* CreateSchedule; an expression without a next time is refused.
Create(q) ==
    /\ Request(q)
    /\ \E i \in Ids \ used, e \in Exprs, on \in BOOLEAN :
         /\ used' = used \cup {i}
         /\ \E job \in FirstSaved(e, on) : Prepare(q, i, job)
    /\ UNCHANGED <<clock, mode, storeVars, loopVars, engineVars, cancels, crashes, lost>>

\* UpdateSchedule takes a copy with Get ...
UpdateGet(q) ==
    /\ Request(q)
    /\ Free
    /\ \E i \in Ids :
         /\ jobs[i] # None
         /\ copy' = [copy EXCEPT ![q] = [id |-> i, job |-> jobs[i], at |-> clock]]
    /\ Goto(q, "edit")
    /\ UNCHANGED <<clock, mode, storeVars, loopVars, engineVars, used, cancels, crashes, lost>>

\* ... changes it, and calls EnsureJob.
UpdateEdit(q) ==
    /\ pc[q] = "edit"
    /\ \E e \in Exprs, on \in BOOLEAN :
         \E job \in Ensured([copy[q].job EXCEPT !.expr = e, !.enabled = on]) :
           Prepare(q, copy[q].id, job)
    /\ UNCHANGED <<clock, mode, storeVars, loopVars, engineVars, countVars>>

\* EnsureJob finds no next time: 400.
UpdateRefused(q) ==
    /\ pc[q] = "edit"
    /\ \E e \in Exprs : Ensured([copy[q].job EXCEPT !.expr = e]) = {}
    /\ Return(q)
    /\ UNCHANGED <<clock, mode, storeVars, loopVars, engineVars, countVars>>

\* DeleteSchedule; whether there is such a schedule is not asked.
Delete(q) ==
    /\ Request(q)
    /\ \E i \in used : Prepare(q, i, None)
    /\ UNCHANGED <<clock, mode, storeVars, loopVars, engineVars, used, cancels, crashes, lost>>

HandlerStep(q) == SaveStep(q) \/ UpdateEdit(q) \/ UpdateRefused(q)

RequestStep(q) == Create(q) \/ UpdateGet(q) \/ Delete(q)

-----------------------------------------------------------------------------
(* The loop.                                                                 *)

\* check lists the schedules; which of them are due is decided by this listing.
Check ==
    /\ pc[Loop] = "idle"
    /\ Free
    /\ due' = {i \in Ids : jobs[i] # None /\ jobs[i].enabled /\ jobs[i].next < clock}
    /\ Goto(Loop, "scan")
    /\ UNCHANGED <<clock, mode, storeVars, copy, cur, engineVars, countVars>>

\* Mutation: check executes the first due schedule only.
FireFirst ==
    /\ pc[Loop] = "scan"
    /\ \E i \in due :
         /\ due' = {}
         /\ cur' = i
         /\ status' = [status EXCEPT ![i] = "pending"]
         /\ phase' = [phase EXCEPT ![i] = "queued"]
    /\ Goto(Loop, "poll")
    /\ UNCHANGED <<clock, mode, storeVars, copy, countVars>>

\* execute starts an engine job.
Fire ==
    /\ pc[Loop] = "scan"
    /\ \E i \in due :
         /\ due' = due \ {i}
         /\ cur' = i
         /\ status' = [status EXCEPT ![i] = "pending"]
         /\ phase' = [phase EXCEPT ![i] = "queued"]
    /\ Goto(Loop, "poll")
    /\ UNCHANGED <<clock, mode, storeVars, copy, countVars>>

ScanEnds ==
    /\ pc[Loop] = "scan"
    /\ due = {}
    /\ cur' = None
    /\ Goto(Loop, "idle")
    /\ UNCHANGED <<clock, mode, storeVars, copy, due, engineVars, countVars>>

\* Mutation: a cancelled job counts as ended.
PollCancelled ==
    /\ pc[Loop] = "poll"
    /\ status[cur] \in {"done", "failed", "cancelled"}
    /\ Goto(Loop, "record")
    /\ UNCHANGED <<clock, mode, storeVars, copy, loopVars, engineVars, countVars>>

\* execute waits for "done" or "failed", however long that takes.
Poll ==
    /\ pc[Loop] = "poll"
    /\ status[cur] \in {"done", "failed"}
    /\ Goto(Loop, "record")
    /\ UNCHANGED <<clock, mode, storeVars, copy, loopVars, engineVars, countVars>>

\* Mutation: recordRun does not recompute NextRunAt.
RecordedSameTime(job) ==
    {[job EXCEPT !.last = IF status[cur] = "done" THEN "success" ELSE "failed"]}

\* What recordRun makes of a schedule whose run has ended; NextRunAt stays as it
\* is when nextTime finds no time.
Recorded(job) ==
    LET ended == [job EXCEPT !.last = IF status[cur] = "done" THEN "success" ELSE "failed"]
    IN  IF NextTime(job.expr, clock) = {} THEN {ended}
        ELSE {[ended EXCEPT !.next = u] : u \in NextTime(job.expr, clock)}

\* recordRun takes a copy with Get.
Record ==
    /\ pc[Loop] = "record"
    /\ Free
    /\ jobs[cur] # None
    /\ \E job \in Recorded(jobs[cur]) : Prepare(Loop, cur, job)
    /\ UNCHANGED <<clock, mode, storeVars, loopVars, engineVars, countVars>>

\* Mutation: the schedule is written back as check listed it.
RecordMissingSaves ==
    /\ pc[Loop] = "record"
    /\ Free
    /\ jobs[cur] = None
    /\ \E e \in Exprs :
         Prepare(Loop, cur, [enabled |-> TRUE, expr |-> e, next |-> clock, last |-> ""])
    /\ UNCHANGED <<clock, mode, storeVars, loopVars, engineVars, countVars>>

\* The schedule has been deleted meanwhile.
RecordMissing ==
    /\ pc[Loop] = "record"
    /\ Free
    /\ jobs[cur] = None
    /\ Goto(Loop, "scan")
    /\ UNCHANGED <<clock, mode, storeVars, copy, loopVars, engineVars, countVars>>

LoopStep ==
    \/ Check \/ Fire \/ ScanEnds \/ Poll \/ Record \/ RecordMissing \/ SaveStep(Loop)

-----------------------------------------------------------------------------
(* The engine, the clock, and the process.                                   *)

EngineStep ==
    /\ \E i \in Ids : Engine!Advance(i)
    /\ UNCHANGED <<clock, mode, storeVars, pc, copy, loopVars, countVars>>

\* A client cancels the engine job of the schedule that runs.
Cancel ==
    /\ pc[Loop] = "poll"
    /\ cancels < MaxCancels
    /\ cancels' = cancels + 1
    /\ Engine!Stop(cur)
    /\ UNCHANGED <<clock, mode, storeVars, pc, copy, loopVars, used, edits, crashes, lost>>

Tick ==
    /\ clock < MaxTime
    /\ clock' = clock + 1
    /\ UNCHANGED <<mode, storeVars, pc, copy, loopVars, engineVars, countVars>>

Crash ==
    /\ crashes < MaxCrashes
    /\ crashes' = crashes + 1
    /\ mode' = "down"
    /\ jobs' = [i \in Ids |-> None]
    /\ pc' = [p \in Procs |-> "idle"]
    /\ copy' = [p \in Procs |-> None]
    /\ due' = {}
    /\ cur' = None
    /\ status' = [i \in Ids |-> "absent"]
    /\ phase' = [i \in Ids |-> "none"]
    /\ lost' = (lost \/ stale)
    /\ UNCHANGED <<clock, file, stale, served, used, edits, cancels>>

\* NewFileStore reads the file.
Restart ==
    /\ mode = "down"
    /\ file # Torn
    /\ jobs' = file
    /\ mode' = "up"
    /\ UNCHANGED <<clock, file, stale, served, pc, copy, loopVars, engineVars, countVars>>

\* NewFileStore returns nil and an error; main drops the error, and the loop
\* dies of the nil store in its first check, at every start.
RestartPanics ==
    /\ mode = "down"
    /\ file = Torn
    /\ mode' = "dead"
    /\ UNCHANGED <<clock, storeVars, pc, copy, loopVars, engineVars, countVars>>

Running ==
    /\ mode = "up"
    /\ \/ LoopStep \/ EngineStep \/ Cancel \/ Tick \/ Crash
       \/ \E q \in Clients : HandlerStep(q) \/ RequestStep(q)

Next == Running \/ Restart \/ RestartPanics

Spec == Init /\ [][Next]_vars

\* The goroutines of the loop, of the handlers and of the engine jobs are
\* scheduled, the calls of the engine jobs return, and time goes on.
Fairness ==
    /\ WF_vars(mode = "up" /\ LoopStep)
    /\ WF_vars(mode = "up" /\ EngineStep)
    /\ \A q \in Clients : WF_vars(mode = "up" /\ HandlerStep(q))

FairSpec == Spec /\ Fairness

-----------------------------------------------------------------------------
(* Properties.                                                               *)

\* Whatever handlers and the loop save at the same time, the file holds what the
\* store holds whenever nobody is writing it and the last write went well.
FileFollowsStore == mode = "up" /\ Free /\ ~stale => file = jobs

\* The runs of the schedules do not overlap: the goroutine of one has ended
\* before the loop starts the next, even if the engine job is cancelled.
NoOverlap == Cardinality({i \in Ids : phase[i] \in {"queued", "open"}}) <= 1

\* The store, its file and the jobs.
SchedulerInv == TypeOK /\ FileFollowsStore /\ NoOverlap

\* Some process is about to save schedule i.
InHand(i) == \E p \in Procs : copy[p] # None /\ copy[p].id = i /\ copy[p].job # None

\* A schedule that has been deleted comes back only through a read-modify-write
\* that was under way at the time, never from the listing of a check or from a
\* run that ends later.
StaysDeleted ==
    [][\A i \in used : mode = "up" /\ jobs[i] = None /\ ~InHand(i)
                       => jobs'[i] = None /\ ~InHand(i)']_vars

\* The loop starts a run of schedule i.
Starts(i) == pc[Loop] = "scan" /\ pc'[Loop] = "poll" /\ cur' = i

\* A time i matches has passed since its last recorded run.
Matched(i) == \E u \in Matches[jobs[i].expr] : served[i] < u /\ u < clock

\* As long as nobody edits the schedules, one time that matches gives one
\* recorded run, also across restarts and writes that fail (unless the process
\* dies before one goes well), provided that nextTime finds another time.
FiresOncePerMatch ==
    [][\A i \in Ids : edits = 0 /\ ~lost /\ Starts(i)
                      /\ NextTime(jobs[i].expr, served[i]) # {} => Matched(i)]_vars

Due(i) == jobs[i] # None /\ jobs[i].enabled /\ jobs[i].next < clock

\* scheduler.go: "manages recurring transfer jobs"; a schedule that is due is
\* run to its end, unless it is edited first.
DueIsRun == \A i \in Ids : Due(i) ~> (cur = i /\ pc[Loop] = "record") \/ ~Due(i)

=============================================================================
