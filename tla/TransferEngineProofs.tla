------------------------- MODULE TransferEngineProofs -------------------------
(***************************************************************************)
(* Proofs about the transfer engine, for any jobs, tables and contents.    *)
(***************************************************************************)
EXTENDS TransferEngine, FiniteSetTheorems, SequenceTheorems, TLAPS

USE TransferAssumption

\* NewEngine knows no job.
LEMMA InitControl == Init => ControlInv
  BY DEF Init, ControlInv, ControlTypeOK, JobInv, HonestAbout, LoopInv, LateInv,
         Options, Statuses, PCs, Wanted

\* A step that leaves a job alone.
Untouched(k) ==
    /\ status'[k] = status[k] /\ opt'[k] = opt[k] /\ cancelled'[k] = cancelled[k]
    /\ pc'[k] = pc[k] /\ todo'[k] = todo[k] /\ cur'[k] = cur[k]
    /\ handled'[k] = handled[k] /\ late'[k] = late[k]

\* What holds of a job that a step leaves alone still holds.
LEMMA Frame == ASSUME NEW k \in Jobs, Untouched(k), JobInv(k) PROVE JobInv(k)'
  BY DEF Untouched, JobInv, HonestAbout, LoopInv, LateInv, Wanted

\* A step of one job need only be looked at for that job.
LEMMA OneJob == ASSUME ControlInv, NEW j \in Jobs, ControlTypeOK', JobInv(j)',
                       \A k \in Jobs \ {j} : Untouched(k)
                PROVE  ControlInv'
  BY Frame DEF ControlInv

\* Leaving a table moves it from cur to handled.
LEMMA TableFinished == ASSUME ControlInv, NEW j \in Jobs, pc[j] \in {"conflict", "read"},
                              FinishTable(j), UNCHANGED <<opt, todo>>
                       PROVE  LoopInv(j)'
<1>1. /\ pc'[j] = "next" /\ cur'[j] = {} /\ todo'[j] = todo[j] /\ opt'[j] = opt[j]
      /\ handled'[j] = handled[j] \cup cur[j]
  BY DEF FinishTable, Goto, ControlInv, ControlTypeOK
<1>2. Wanted(j)' = Wanted(j)
  BY <1>1 DEF Wanted
<1>3. /\ todo[j] \cup cur[j] \cup handled[j] = Wanted(j)
      /\ todo[j] \cap handled[j] = {} /\ todo[j] \cap cur[j] = {} /\ ~opt[j].dry
  BY DEF ControlInv, JobInv, LoopInv
<1> QED
  BY <1>1, <1>2, <1>3 DEF LoopInv

\* A statement on the target leaves the control state alone but for late.
LEMMA LateStep == ASSUME ControlTypeOK, NEW j \in Jobs, NEW db, Lands(j, db) \/ Refused
                  PROVE  /\ late' \in [Jobs -> Nat]
                         /\ late'[j] = late[j] \/ (cancelled[j] /\ late'[j] = late[j] + 1)
                         /\ \A k \in Jobs \ {j} : late'[k] = late[k]
  BY DEF ControlTypeOK, Lands, Refused

\* No step of a client, of run or of another client breaks the invariant.
LEMMA NextControl == ControlInv /\ [Next]_vars => ControlInv'
<1> SUFFICES ASSUME ControlInv, [Next]_vars PROVE ControlInv'
  OBVIOUS
<1> USE DEF Goto, SetStatus, Fail, FinishTable, EnterTransfer, loopVars, pageVars, dbVars
<1>1. ASSUME NEW j \in Jobs, NEW o \in Requested, Start(j, o) PROVE ControlInv'
  <2> USE <1>1 DEF Start, Requested, Options
  <2>1. ControlTypeOK'
    BY DEF ControlInv, ControlTypeOK, Statuses, PCs, Lands, Refused
  <2>2. \A k \in Jobs \ {j} : Untouched(k)
    BY DEF ControlInv, ControlTypeOK, Untouched, Lands, Refused
  <2>3. HonestAbout(j)'
    BY DEF ControlInv, ControlTypeOK, JobInv, HonestAbout, LoopInv, Wanted
  <2>4. LoopInv(j)'
    BY DEF ControlInv, ControlTypeOK, JobInv, LoopInv, Wanted
  <2>5. LateInv(j)'
    BY DEF ControlInv, ControlTypeOK, JobInv, LateInv, Lands, Refused
  <2> QED
    BY <2>1, <2>2, <2>3, <2>4, <2>5, OneJob DEF JobInv
<1>2. ASSUME NEW j \in Jobs, Cancel(j) PROVE ControlInv'
  <2> USE <1>2 DEF Cancel
  <2>1. ControlTypeOK'
    BY DEF ControlInv, ControlTypeOK, Statuses, PCs, Lands, Refused
  <2>2. \A k \in Jobs \ {j} : Untouched(k)
    BY DEF ControlInv, ControlTypeOK, Untouched, Lands, Refused
  <2>3. HonestAbout(j)'
    BY DEF ControlInv, ControlTypeOK, JobInv, HonestAbout, LoopInv, Wanted
  <2>4. LoopInv(j)'
    BY DEF ControlInv, ControlTypeOK, JobInv, LoopInv, Wanted
  <2>5. LateInv(j)'
    BY DEF ControlInv, ControlTypeOK, JobInv, LateInv, Lands, Refused
  <2> QED
    BY <2>1, <2>2, <2>3, <2>4, <2>5, OneJob DEF JobInv
<1>3. ASSUME NEW j \in Jobs, Begin(j) PROVE ControlInv'
  <2> USE <1>3 DEF Begin
  <2>1. ControlTypeOK'
    BY DEF ControlInv, ControlTypeOK, Statuses, PCs, Lands, Refused
  <2>2. \A k \in Jobs \ {j} : Untouched(k)
    BY DEF ControlInv, ControlTypeOK, Untouched, Lands, Refused
  <2>3. HonestAbout(j)'
    BY DEF ControlInv, ControlTypeOK, JobInv, HonestAbout, LoopInv, Wanted
  <2>4. LoopInv(j)'
    BY DEF ControlInv, ControlTypeOK, JobInv, LoopInv, Wanted
  <2>5. LateInv(j)'
    BY DEF ControlInv, ControlTypeOK, JobInv, LateInv, Lands, Refused
  <2> QED
    BY <2>1, <2>2, <2>3, <2>4, <2>5, OneJob DEF JobInv
<1>4. ASSUME NEW j \in Jobs, FetchSchema(j) PROVE ControlInv'
  <2> USE <1>4 DEF FetchSchema
  <2>0. FilterTables(opt[j].want) \in SUBSET Tables
    BY DEF ControlInv, ControlTypeOK, FilterTables, Options
  <2>1. ControlTypeOK'
    BY <2>0 DEF ControlInv, ControlTypeOK, Statuses, PCs, Lands, Refused
  <2>2. \A k \in Jobs \ {j} : Untouched(k)
    BY DEF ControlInv, ControlTypeOK, Untouched, Lands, Refused
  <2>3. HonestAbout(j)'
    BY DEF ControlInv, ControlTypeOK, JobInv, HonestAbout, LoopInv, Wanted
  <2>4. LoopInv(j)'
    BY DEF ControlInv, ControlTypeOK, JobInv, LoopInv, Wanted
  <2>5. LateInv(j)'
    BY DEF ControlInv, ControlTypeOK, JobInv, LateInv, Lands, Refused
  <2> QED
    BY <2>1, <2>2, <2>3, <2>4, <2>5, OneJob DEF JobInv
<1>5. ASSUME NEW j \in Jobs, FinishDryRun(j) PROVE ControlInv'
  <2> USE <1>5 DEF FinishDryRun
  <2>1. ControlTypeOK'
    BY DEF ControlInv, ControlTypeOK, Statuses, PCs, Lands, Refused
  <2>2. \A k \in Jobs \ {j} : Untouched(k)
    BY DEF ControlInv, ControlTypeOK, Untouched, Lands, Refused
  <2>3. HonestAbout(j)'
    BY DEF ControlInv, ControlTypeOK, JobInv, HonestAbout, LoopInv, Wanted
  <2>4. LoopInv(j)'
    BY DEF ControlInv, ControlTypeOK, JobInv, LoopInv, Wanted
  <2>5. LateInv(j)'
    BY DEF ControlInv, ControlTypeOK, JobInv, LateInv, Lands, Refused
  <2> QED
    BY <2>1, <2>2, <2>3, <2>4, <2>5, OneJob DEF JobInv
<1>6. ASSUME NEW j \in Jobs, SchemaFails(j) PROVE ControlInv'
  <2> USE <1>6 DEF SchemaFails
  <2>1. ControlTypeOK'
    BY DEF ControlInv, ControlTypeOK, Statuses, PCs, Lands, Refused
  <2>2. \A k \in Jobs \ {j} : Untouched(k)
    BY DEF ControlInv, ControlTypeOK, Untouched, Lands, Refused
  <2>3. HonestAbout(j)'
    BY DEF ControlInv, ControlTypeOK, JobInv, HonestAbout, LoopInv, Wanted
  <2>4. LoopInv(j)'
    BY DEF ControlInv, ControlTypeOK, JobInv, LoopInv, Wanted
  <2>5. LateInv(j)'
    BY DEF ControlInv, ControlTypeOK, JobInv, LateInv, Lands, Refused
  <2> QED
    BY <2>1, <2>2, <2>3, <2>4, <2>5, OneJob DEF JobInv
<1>7. ASSUME NEW j \in Jobs, NextTable(j) PROVE ControlInv'
  <2> USE <1>7 DEF NextTable
  <2>1. ControlTypeOK'
    BY DEF ControlInv, ControlTypeOK, Statuses, PCs, Lands, Refused
  <2>2. \A k \in Jobs \ {j} : Untouched(k)
    BY DEF ControlInv, ControlTypeOK, Untouched, Lands, Refused
  <2>3. HonestAbout(j)'
    BY DEF ControlInv, ControlTypeOK, JobInv, HonestAbout, LoopInv, Wanted
  <2>4. LoopInv(j)'
    BY DEF ControlInv, ControlTypeOK, JobInv, LoopInv, Wanted
  <2>5. LateInv(j)'
    BY DEF ControlInv, ControlTypeOK, JobInv, LateInv, Lands, Refused
  <2> QED
    BY <2>1, <2>2, <2>3, <2>4, <2>5, OneJob DEF JobInv
<1>8. ASSUME NEW j \in Jobs, TableCancelled(j) PROVE ControlInv'
  <2> USE <1>8 DEF TableCancelled
  <2>1. ControlTypeOK'
    BY DEF ControlInv, ControlTypeOK, Statuses, PCs, Lands, Refused
  <2>2. \A k \in Jobs \ {j} : Untouched(k)
    BY DEF ControlInv, ControlTypeOK, Untouched, Lands, Refused
  <2>3. HonestAbout(j)'
    BY DEF ControlInv, ControlTypeOK, JobInv, HonestAbout, LoopInv, Wanted
  <2>4. LoopInv(j)'
    BY DEF ControlInv, ControlTypeOK, JobInv, LoopInv, Wanted
  <2>5. LateInv(j)'
    BY DEF ControlInv, ControlTypeOK, JobInv, LateInv, Lands, Refused
  <2> QED
    BY <2>1, <2>2, <2>3, <2>4, <2>5, OneJob DEF JobInv
<1>9. ASSUME NEW j \in Jobs, Finish(j) PROVE ControlInv'
  <2> USE <1>9 DEF Finish
  <2>1. ControlTypeOK'
    BY DEF ControlInv, ControlTypeOK, Statuses, PCs, Lands, Refused
  <2>2. \A k \in Jobs \ {j} : Untouched(k)
    BY DEF ControlInv, ControlTypeOK, Untouched, Lands, Refused
  <2>3. HonestAbout(j)'
    BY DEF ControlInv, ControlTypeOK, JobInv, HonestAbout, LoopInv, Wanted
  <2>4. LoopInv(j)'
    BY DEF ControlInv, ControlTypeOK, JobInv, LoopInv, Wanted
  <2>5. LateInv(j)'
    BY DEF ControlInv, ControlTypeOK, JobInv, LateInv, Lands, Refused
  <2> QED
    BY <2>1, <2>2, <2>3, <2>4, <2>5, OneJob DEF JobInv
<1>10. ASSUME NEW j \in Jobs, CreateTable(j) PROVE ControlInv'
  <2> USE <1>10 DEF CreateTable
  <2>1. ControlTypeOK'
    BY DEF ControlInv, ControlTypeOK, Statuses, PCs, Lands, Refused
  <2>2. \A k \in Jobs \ {j} : Untouched(k)
    BY DEF ControlInv, ControlTypeOK, Untouched, Lands, Refused
  <2>3. HonestAbout(j)'
    BY DEF ControlInv, ControlTypeOK, JobInv, HonestAbout, LoopInv, Wanted
  <2>4. LoopInv(j)'
    BY DEF ControlInv, ControlTypeOK, JobInv, LoopInv, Wanted
  <2>5. LateInv(j)'
    BY DEF ControlInv, ControlTypeOK, JobInv, LateInv, Lands, Refused
  <2> QED
    BY <2>1, <2>2, <2>3, <2>4, <2>5, OneJob DEF JobInv
<1>11. ASSUME NEW j \in Jobs, Truncate(j) PROVE ControlInv'
  <2>0. /\ late' \in [Jobs -> Nat]
        /\ late'[j] = late[j] \/ (cancelled[j] /\ late'[j] = late[j] + 1)
        /\ \A k \in Jobs \ {j} : late'[k] = late[k]
    BY <1>11, LateStep DEF Truncate, ControlInv
  <2>1. /\ pc[j] = "conflict" /\ pc' = [pc EXCEPT ![j] = "read"]
        /\ UNCHANGED <<status, opt, cancelled, todo, cur, handled>>
    BY <1>11 DEF Truncate
  <2>2. ControlTypeOK'
    BY <2>0, <2>1 DEF ControlInv, ControlTypeOK, PCs
  <2>3. \A k \in Jobs \ {j} : Untouched(k)
    BY <2>0, <2>1 DEF ControlInv, ControlTypeOK, Untouched
  <2>4. HonestAbout(j)'
    BY <2>1 DEF ControlInv, ControlTypeOK, JobInv, HonestAbout, Wanted
  <2>5. LoopInv(j)'
    BY <2>1 DEF ControlInv, ControlTypeOK, JobInv, LoopInv, Wanted
  <2>6. LateInv(j)'
    BY <2>0, <2>1 DEF ControlInv, ControlTypeOK, JobInv, LateInv
  <2> QED
    BY <2>2, <2>3, <2>4, <2>5, <2>6, OneJob DEF JobInv
<1>12. ASSUME NEW j \in Jobs, SkipTable(j) PROVE ControlInv'
  <2> USE <1>12 DEF SkipTable
  <2>1. ControlTypeOK'
    BY DEF ControlInv, ControlTypeOK, Statuses, PCs, Lands, Refused
  <2>2. \A k \in Jobs \ {j} : Untouched(k)
    BY DEF ControlInv, ControlTypeOK, Untouched, Lands, Refused
  <2>3. HonestAbout(j)'
    BY DEF ControlInv, ControlTypeOK, JobInv, HonestAbout, LoopInv, Wanted
  <2>4. LoopInv(j)'
    BY TableFinished
  <2>5. LateInv(j)'
    BY DEF ControlInv, ControlTypeOK, JobInv, LateInv, Lands, Refused
  <2> QED
    BY <2>1, <2>2, <2>3, <2>4, <2>5, OneJob DEF JobInv
<1>13. ASSUME NEW j \in Jobs, CountedZero(j) PROVE ControlInv'
  <2> USE <1>13 DEF CountedZero
  <2>1. ControlTypeOK'
    BY DEF ControlInv, ControlTypeOK, Statuses, PCs, Lands, Refused
  <2>2. \A k \in Jobs \ {j} : Untouched(k)
    BY DEF ControlInv, ControlTypeOK, Untouched, Lands, Refused
  <2>3. HonestAbout(j)'
    BY DEF ControlInv, ControlTypeOK, JobInv, HonestAbout, LoopInv, Wanted
  <2>4. LoopInv(j)'
    BY DEF ControlInv, ControlTypeOK, JobInv, LoopInv, Wanted
  <2>5. LateInv(j)'
    BY DEF ControlInv, ControlTypeOK, JobInv, LateInv, Lands, Refused
  <2> QED
    BY <2>1, <2>2, <2>3, <2>4, <2>5, OneJob DEF JobInv
<1>14. ASSUME NEW j \in Jobs, NoConflictCheck(j) PROVE ControlInv'
  <2> USE <1>14 DEF NoConflictCheck
  <2>1. ControlTypeOK'
    BY DEF ControlInv, ControlTypeOK, Statuses, PCs, Lands, Refused
  <2>2. \A k \in Jobs \ {j} : Untouched(k)
    BY DEF ControlInv, ControlTypeOK, Untouched, Lands, Refused
  <2>3. HonestAbout(j)'
    BY DEF ControlInv, ControlTypeOK, JobInv, HonestAbout, LoopInv, Wanted
  <2>4. LoopInv(j)'
    BY DEF ControlInv, ControlTypeOK, JobInv, LoopInv, Wanted
  <2>5. LateInv(j)'
    BY DEF ControlInv, ControlTypeOK, JobInv, LateInv, Lands, Refused
  <2> QED
    BY <2>1, <2>2, <2>3, <2>4, <2>5, OneJob DEF JobInv
<1>15. ASSUME NEW j \in Jobs, ReadPage(j) PROVE ControlInv'
  <2> USE <1>15 DEF ReadPage
  <2>1. ControlTypeOK'
    BY DEF ControlInv, ControlTypeOK, Statuses, PCs, Lands, Refused
  <2>2. \A k \in Jobs \ {j} : Untouched(k)
    BY DEF ControlInv, ControlTypeOK, Untouched, Lands, Refused
  <2>3. HonestAbout(j)'
    BY DEF ControlInv, ControlTypeOK, JobInv, HonestAbout, LoopInv, Wanted
  <2>4. LoopInv(j)'
    BY DEF ControlInv, ControlTypeOK, JobInv, LoopInv, Wanted
  <2>5. LateInv(j)'
    BY DEF ControlInv, ControlTypeOK, JobInv, LateInv, Lands, Refused
  <2> QED
    BY <2>1, <2>2, <2>3, <2>4, <2>5, OneJob DEF JobInv
<1>16. ASSUME NEW j \in Jobs, LastPage(j) PROVE ControlInv'
  <2> USE <1>16 DEF LastPage
  <2>1. ControlTypeOK'
    BY DEF ControlInv, ControlTypeOK, Statuses, PCs, Lands, Refused
  <2>2. \A k \in Jobs \ {j} : Untouched(k)
    BY DEF ControlInv, ControlTypeOK, Untouched, Lands, Refused
  <2>3. HonestAbout(j)'
    BY DEF ControlInv, ControlTypeOK, JobInv, HonestAbout, LoopInv, Wanted
  <2>4. LoopInv(j)'
    BY TableFinished
  <2>5. LateInv(j)'
    BY DEF ControlInv, ControlTypeOK, JobInv, LateInv, Lands, Refused
  <2> QED
    BY <2>1, <2>2, <2>3, <2>4, <2>5, OneJob DEF JobInv
<1>17. ASSUME NEW j \in Jobs, ReadFails(j) PROVE ControlInv'
  <2> USE <1>17 DEF ReadFails
  <2>1. ControlTypeOK'
    BY DEF ControlInv, ControlTypeOK, Statuses, PCs, Lands, Refused
  <2>2. \A k \in Jobs \ {j} : Untouched(k)
    BY DEF ControlInv, ControlTypeOK, Untouched, Lands, Refused
  <2>3. HonestAbout(j)'
    BY DEF ControlInv, ControlTypeOK, JobInv, HonestAbout, LoopInv, Wanted
  <2>4. LoopInv(j)'
    BY DEF ControlInv, ControlTypeOK, JobInv, LoopInv, Wanted
  <2>5. LateInv(j)'
    BY DEF ControlInv, ControlTypeOK, JobInv, LateInv, Lands, Refused
  <2> QED
    BY <2>1, <2>2, <2>3, <2>4, <2>5, OneJob DEF JobInv
<1>18. ASSUME NEW j \in Jobs, InsertBatch(j) PROVE ControlInv'
  <2>0. /\ late' \in [Jobs -> Nat]
        /\ late'[j] = late[j] \/ (cancelled[j] /\ late'[j] = late[j] + 1)
        /\ \A k \in Jobs \ {j} : late'[k] = late[k]
    BY <1>18, LateStep DEF InsertBatch, InsertLands, ControlInv
  <2>1. /\ pc[j] = "insert" /\ pc' = [pc EXCEPT ![j] = "read"]
        /\ UNCHANGED <<opt, cancelled, todo, cur, handled>>
        /\ UNCHANGED status
    BY <1>18 DEF InsertBatch
  <2>2. ControlTypeOK'
    BY <2>0, <2>1 DEF ControlInv, ControlTypeOK, PCs, Statuses
  <2>3. \A k \in Jobs \ {j} : Untouched(k)
    BY <2>0, <2>1 DEF ControlInv, ControlTypeOK, Untouched
  <2>4. HonestAbout(j)'
    BY <2>1 DEF ControlInv, ControlTypeOK, JobInv, HonestAbout, Wanted
  <2>5. LoopInv(j)'
    BY <2>1 DEF ControlInv, ControlTypeOK, JobInv, LoopInv, Wanted
  <2>6. LateInv(j)'
    BY <2>0, <2>1 DEF ControlInv, ControlTypeOK, JobInv, LateInv
  <2> QED
    BY <2>2, <2>3, <2>4, <2>5, <2>6, OneJob DEF JobInv
<1>19. ASSUME NEW j \in Jobs, InsertFails(j) PROVE ControlInv'
  <2>0. /\ late' \in [Jobs -> Nat]
        /\ late'[j] = late[j] \/ (cancelled[j] /\ late'[j] = late[j] + 1)
        /\ \A k \in Jobs \ {j} : late'[k] = late[k]
    BY <1>19, LateStep DEF InsertFails, InsertLands, ControlInv
  <2>1. /\ pc[j] = "insert" /\ pc' = [pc EXCEPT ![j] = "ended"]
        /\ UNCHANGED <<opt, cancelled, todo, cur, handled>>
        /\ status' = [status EXCEPT ![j] = "failed"]
    BY <1>19 DEF InsertFails
  <2>2. ControlTypeOK'
    BY <2>0, <2>1 DEF ControlInv, ControlTypeOK, PCs, Statuses
  <2>3. \A k \in Jobs \ {j} : Untouched(k)
    BY <2>0, <2>1 DEF ControlInv, ControlTypeOK, Untouched
  <2>4. HonestAbout(j)'
    BY <2>1 DEF ControlInv, ControlTypeOK, JobInv, HonestAbout, Wanted
  <2>5. LoopInv(j)'
    BY <2>1 DEF ControlInv, ControlTypeOK, JobInv, LoopInv, Wanted
  <2>6. LateInv(j)'
    BY <2>0, <2>1 DEF ControlInv, ControlTypeOK, JobInv, LateInv
  <2> QED
    BY <2>2, <2>3, <2>4, <2>5, <2>6, OneJob DEF JobInv
<1>20. CASE UNCHANGED vars \/ \E t \in Tables : SourceDelete(t)
  <2>1. ControlTypeOK' /\ \A k \in Jobs : Untouched(k)
    BY <1>20 DEF SourceDelete, vars, ControlInv, ControlTypeOK, Untouched
  <2> QED
    BY <2>1, Frame DEF ControlInv
<1> QED
  BY <1>1, <1>2, <1>3, <1>4, <1>5, <1>6, <1>7, <1>8, <1>9, <1>10, <1>11, <1>12,
     <1>13, <1>14, <1>15, <1>16, <1>17, <1>18, <1>19, <1>20
     DEF Next, Work

\* The invariant of the control state holds in every reachable state.
THEOREM ControlInvariance == Spec => []ControlInv
<1>1. Init => ControlInv
  BY InitControl
<1>2. ControlInv /\ [Next]_vars => ControlInv'
  BY NextControl
<1> QED
  BY <1>1, <1>2, PTL DEF Spec

\* "done" means that every wanted table was dealt with, and no status is shown
\* without its cause.
THEOREM StatusIsHonest == Spec => []StatusHonest
<1>1. ControlInv => StatusHonest
  BY DEF ControlInv, JobInv, StatusHonest
<1> QED
  BY <1>1, ControlInvariance, PTL

\* At most two statements of a job reach the target after Cancel.
THEOREM LateIsBounded == Spec => []LateBounded
<1>1. ControlInv => LateBounded
  BY DEF ControlInv, JobInv, LateInv, LateBounded
<1> QED
  BY <1>1, ControlInvariance, PTL

-----------------------------------------------------------------------------
(* The refinement.                                                           *)

\* What an action does to the job a client sees.
Seen(j, s, p) ==
    /\ status' = [status EXCEPT ![j] = s]
    /\ [k \in Jobs |-> Phase(k)]' = [[k \in Jobs |-> Phase(k)] EXCEPT ![j] = p]

\* A job that is left alone looks the same.
LEMMA SameView == ASSUME NEW k \in Jobs, pc'[k] = pc[k], opt'[k] = opt[k]
                  PROVE  Wanted(k)' = Wanted(k) /\ Phase(k)' = Phase(k)
  BY DEF Wanted, Phase

\* A step that moves the program counter of one job changes its phase only.
LEMMA PhaseStep == ASSUME ControlTypeOK, NEW j \in Jobs, NEW l \in PCs, Goto(j, l),
                          UNCHANGED opt, pc[j] # "absent", l # "absent"
                   PROVE  /\ [k \in Jobs |-> Phase(k)]'
                               = [[k \in Jobs |-> Phase(k)] EXCEPT ![j] = Phase(j)']
                          /\ [k \in Jobs |-> Wanted(k)]' = [k \in Jobs |-> Wanted(k)]
                          /\ pc'[j] = l
<1>1. pc'[j] = l /\ \A k \in Jobs \ {j} : pc'[k] = pc[k]
  BY DEF ControlTypeOK, Goto
<1>2. \A k \in Jobs \ {j} : Phase(k)' = Phase(k)
  BY <1>1 DEF Phase
<1>3. \A k \in Jobs : Wanted(k)' = Wanted(k)
  BY <1>1 DEF Wanted
<1> QED
  BY <1>1, <1>2, <1>3

\* Every step of the engine is one of the promise, or a client cannot see it.
LEMMA StepKeepsPromise == ControlInv /\ [Next]_vars => [Promise!Next]_(Promise!pvars)
<1> SUFFICES ASSUME ControlInv, [Next]_vars PROVE [Promise!Next]_(Promise!pvars)
  OBVIOUS
<1> DEFINE phase == [k \in Jobs |-> Phase(k)]
           wanted == [k \in Jobs |-> Wanted(k)]
<1> USE DEF SetStatus, Fail, loopVars, pageVars, dbVars, ControlInv, PCs,
            Promise!Show, Promise!Enter
<1>1. ASSUME NEW j \in Jobs, NEW o \in Requested, Start(j, o) PROVE Promise!Submit(j)
  <2>1. pc[j] = "absent" /\ pc'[j] = "begin" /\ opt'[j].want \in SUBSET Tables
    BY <1>1 DEF Start, Goto, ControlTypeOK, Requested
  <2>2. \A k \in Jobs \ {j} : Phase(k)' = Phase(k) /\ Wanted(k)' = Wanted(k)
    BY <1>1 DEF Start, Goto, ControlTypeOK, Phase, Wanted
  <2>3. Phase(j) = "none" /\ Phase(j)' = "queued" /\ Wanted(j)' \in SUBSET Tables
    BY <2>1 DEF Phase, Wanted, FilterTables
  <2>4. phase' = [phase EXCEPT ![j] = "queued"] /\ wanted' = [wanted EXCEPT ![j] = Wanted(j)']
    BY <2>2, <2>3
  <2> QED
    BY <1>1, <2>3, <2>4 DEF Start, Promise!Submit
<1>2. ASSUME NEW j \in Jobs, Cancel(j) PROVE Promise!Stop(j)
  <2>1. Phase(j) # "none" /\ UNCHANGED <<phase, wanted>>
    BY <1>2 DEF Cancel, Phase, Wanted, ControlTypeOK
  <2> QED
    BY <1>2, <2>1 DEF Cancel, Promise!Stop
<1>3. ASSUME NEW j \in Jobs, Begin(j) PROVE Promise!Open(j)
  <2>1. /\ phase' = [phase EXCEPT ![j] = Phase(j)'] /\ UNCHANGED wanted
        /\ pc'[j] = "schema"
    BY <1>3, PhaseStep DEF Begin
  <2>2. Phase(j) = "queued" /\ Phase(j)' = "open"
    BY <1>3, <2>1 DEF Begin, Phase
  <2> QED
    BY <1>3, <2>1, <2>2 DEF Begin, Promise!Open
<1>4. ASSUME NEW j \in Jobs, FinishDryRun(j) \/ Finish(j) PROVE Promise!Complete(j)
  <2>1. /\ phase' = [phase EXCEPT ![j] = Phase(j)'] /\ UNCHANGED wanted
        /\ pc'[j] = "ended"
    BY <1>4, PhaseStep DEF FinishDryRun, Finish
  <2>2. Phase(j) = "open" /\ Phase(j)' = "closed"
    BY <1>4, <2>1 DEF FinishDryRun, Finish, Phase
  <2>3. handled[j] = Wanted(j)
    BY <1>4 DEF FinishDryRun, Finish, JobInv, LoopInv, Wanted
  <2> QED
    BY <1>4, <2>1, <2>2, <2>3 DEF FinishDryRun, Finish, Promise!Complete
<1>5. ASSUME NEW j \in Jobs,
             SchemaFails(j) \/ TableCancelled(j) \/ ReadFails(j) \/ InsertFails(j)
      PROVE  Promise!Abort(j)
  <2>1. /\ phase' = [phase EXCEPT ![j] = Phase(j)'] /\ UNCHANGED wanted
        /\ pc'[j] = "ended"
    BY <1>5, PhaseStep DEF SchemaFails, TableCancelled, ReadFails, InsertFails
  <2>2. Phase(j) = "open" /\ Phase(j)' = "closed"
    BY <1>5, <2>1 DEF SchemaFails, TableCancelled, ReadFails, InsertFails, Phase
  <2> QED
    BY <1>5, <2>1, <2>2
       DEF SchemaFails, TableCancelled, ReadFails, InsertFails, Promise!Abort
<1>6. ASSUME NEW j \in Jobs, SkipTable(j) \/ LastPage(j) PROVE Promise!Handle(j)
  <2>1. /\ phase' = [phase EXCEPT ![j] = Phase(j)'] /\ UNCHANGED wanted
        /\ pc'[j] = "next"
    BY <1>6, PhaseStep DEF SkipTable, LastPage, FinishTable
  <2>2. Phase(j) = "open" /\ Phase(j)' = "open"
    BY <1>6, <2>1 DEF SkipTable, LastPage, Phase
  <2>3. PICK t \in Wanted(j) : t \notin handled[j] /\ cur[j] = {t}
    BY <1>6 DEF SkipTable, LastPage, JobInv, LoopInv
  <2>4. handled' = [handled EXCEPT ![j] = @ \cup {t}]
    BY <1>6, <2>3 DEF SkipTable, LastPage, FinishTable
  <2>5. UNCHANGED phase
    BY <2>1, <2>2
  <2> QED
    BY <1>6, <2>1, <2>2, <2>3, <2>4, <2>5 DEF SkipTable, LastPage, Promise!Handle
<1>7. ASSUME NEW j \in Jobs,
             \/ FetchSchema(j) \/ NextTable(j) \/ CreateTable(j) \/ Truncate(j)
             \/ CountedZero(j) \/ NoConflictCheck(j) \/ ReadPage(j) \/ InsertBatch(j)
      PROVE  UNCHANGED <<status, phase, wanted, handled>>
  <2> DEFINE inside == {"schema", "next", "create", "conflict", "read", "insert"}
  <2>1. /\ pc[j] \in inside
        /\ \E l \in inside : Goto(j, l)
        /\ UNCHANGED <<status, opt, handled>>
    BY <1>7 DEF FetchSchema, NextTable, CreateTable, Truncate, CountedZero,
                NoConflictCheck, ReadPage, InsertBatch, EnterTransfer
  <2>2. PICK l \in inside : Goto(j, l)
    BY <2>1
  <2>3. phase' = [phase EXCEPT ![j] = Phase(j)'] /\ UNCHANGED wanted /\ pc'[j] = l
    BY <2>1, <2>2, PhaseStep
  <2>4. Phase(j)' = Phase(j)
    BY <2>1, <2>3 DEF Phase
  <2> QED
    BY <2>1, <2>3, <2>4
<1>8. CASE UNCHANGED vars \/ \E t \in Tables : SourceDelete(t)
  <2>1. UNCHANGED <<status, pc, opt, handled>>
    BY <1>8 DEF vars, SourceDelete
  <2>2. UNCHANGED <<phase, wanted>>
    BY <2>1 DEF Phase, Wanted
  <2> QED
    BY <2>1, <2>2 DEF Promise!pvars
<1> QED
  BY <1>1, <1>2, <1>3, <1>4, <1>5, <1>6, <1>7, <1>8
     DEF Next, Work, Promise!Next, Promise!Advance, Promise!pvars

\* The engine implements the promise of its interface.
THEOREM EngineKeepsPromise == Spec => KeepsPromise
<1>1. Init => Promise!Init
  BY DEF Init, Promise!Init, Wanted, Phase
<1>2. ControlInv /\ [Next]_vars => [Promise!Next]_(Promise!pvars)
  BY StepKeepsPromise
<1> QED
  BY <1>1, <1>2, ControlInvariance, PTL DEF Spec, KeepsPromise, Promise!Spec

-----------------------------------------------------------------------------
(* The content of the databases.                                             *)

\* A list without repetitions has as many members as places.
LEMMA InjectiveSize == ASSUME NEW S, NEW s \in Seq(S), IsInjective(s)
                       PROVE  IsFiniteSet(ToSet(s)) /\ Cardinality(ToSet(s)) = Len(s)
<1>1. s \in Surjection(1..Len(s), ToSet(s))
  BY DEF Surjection, ToSet
<1>2. s \in Injection(1..Len(s), ToSet(s))
  BY DEF Injection, IsInjective, ToSet
<1> QED
  BY <1>1, <1>2, FS_Surjection, FS_Interval

\* Taking one place out of a list moves those after it up by one.
LEMMA Removed == ASSUME NEW S, NEW s \in Seq(S), NEW k \in DOMAIN s
                 PROVE  /\ RemoveAt(s, k) \in Seq(S)
                        /\ Len(RemoveAt(s, k)) = Len(s) - 1
                        /\ \A i \in 1..(Len(s) - 1) :
                             RemoveAt(s, k)[i] = IF i < k THEN s[i] ELSE s[i + 1]
<1> DEFINE a == SubSeq(s, 1, k - 1)
           b == SubSeq(s, k + 1, Len(s))
<1>1. /\ a \in Seq(S) /\ Len(a) = k - 1
      /\ \A i \in 1..(k - 1) : a[i] = s[i]
  <2>1. \A i \in 1..(k - 1) : s[i] \in S
    OBVIOUS
  <2> QED
    BY <2>1, SubSeqProperties
<1>2. /\ b \in Seq(S) /\ Len(b) = Len(s) - k
      /\ \A i \in 1..(Len(s) - k) : b[i] = s[k + i]
  <2>1. \A i \in (k + 1)..Len(s) : s[i] \in S
    OBVIOUS
  <2> QED
    BY <2>1, SubSeqProperties
<1> HIDE DEF a, b
<1>3. /\ a \o b \in Seq(S) /\ Len(a \o b) = Len(s) - 1
      /\ \A i \in 1..(Len(s) - 1) :
           (a \o b)[i] = IF i < k THEN a[i] ELSE b[i - (k - 1)]
  BY <1>1, <1>2, ConcatProperties
<1>4. \A i \in 1..(Len(s) - 1) : i >= k => b[i - (k - 1)] = s[i + 1]
  <2> SUFFICES ASSUME NEW i \in 1..(Len(s) - 1), i >= k PROVE b[i - (k - 1)] = s[i + 1]
    OBVIOUS
  <2>1. i - (k - 1) \in 1..(Len(s) - k) /\ k + (i - (k - 1)) = i + 1
    OBVIOUS
  <2> QED
    BY <1>2, <2>1
<1>5. \A i \in 1..(Len(s) - 1) : i < k => a[i] = s[i]
  BY <1>1
<1>6. RemoveAt(s, k) = a \o b
  BY DEF RemoveAt, a, b
<1> QED
  BY <1>3, <1>4, <1>5, <1>6

\* The places m + 1 to e of a list.
LEMMA Slice == ASSUME NEW s \in Seq(Nat), NEW m \in Nat, NEW e \in Nat, e <= Len(s)
               PROVE  /\ SubSeq(s, m + 1, e) \in Seq(Nat)
                      /\ Len(SubSeq(s, m + 1, e)) = IF m < e THEN e - m ELSE 0
                      /\ \A i \in 1..(e - m) : SubSeq(s, m + 1, e)[i] = s[m + i]
<1>1. \A i \in (m + 1)..e : s[i] \in Nat
  OBVIOUS
<1>2. m + 1 \in Int /\ e \in Int
  OBVIOUS
<1> QED
  BY <1>1, <1>2, SubSeqProperties

\* A page lists the places after the offset, and is empty only past the end.
LEMMA Listed == ASSUME NEW s \in Seq(Nat), NEW m \in Nat, NEW n \in Nat \ {0}
                PROVE  \E e \in Nat :
                         /\ e <= Len(s) /\ (e <= m => Len(s) <= m)
                         /\ SubSeq(s, m + 1, IF m + n < Len(s) THEN m + n ELSE Len(s))
                              = SubSeq(s, m + 1, e)
<1>1. CASE m + n < Len(s)
  <2>1. m + n \in Nat
    OBVIOUS
  <2> QED
    BY <1>1, <2>1
<1>2. CASE ~(m + n < Len(s))
  <2>1. Len(s) \in Nat
    OBVIOUS
  <2> QED
    BY <1>2, <2>1
<1> QED
  BY <1>1, <1>2

\* A slice lists what stands in its places, and is empty when it has none.
LEMMA SliceOf == ASSUME NEW s \in Seq(Nat), NEW m \in Nat, NEW e \in Nat, e <= Len(s),
                        e <= m => Len(s) <= m
                 PROVE  /\ SubSeq(s, m + 1, e) \in Seq(Nat)
                        /\ \A i \in DOMAIN SubSeq(s, m + 1, e) :
                             m + i \in DOMAIN s /\ SubSeq(s, m + 1, e)[i] = s[m + i]
                        /\ SubSeq(s, m + 1, e) = <<>> => Len(s) <= m
<1> DEFINE p == SubSeq(s, m + 1, e)
<1>1. /\ p \in Seq(Nat) /\ Len(p) = IF m < e THEN e - m ELSE 0
      /\ \A i \in 1..(e - m) : p[i] = s[m + i]
  BY Slice
<1> HIDE DEF p
<1>2. \A i \in DOMAIN p : i \in 1..(e - m) /\ m + i \in DOMAIN s
  BY <1>1
<1>3. p = <<>> => Len(s) <= m
  BY <1>1
<1> QED
  BY <1>1, <1>2, <1>3 DEF p

\* The rows of a table are finitely many, and its list in the source has no
\* row twice.
LEMMA Rows == ASSUME NEW t \in Tables
              PROVE  /\ RowsOf(t) \subseteq Nat
                     /\ IsFiniteSet(RowsOf(t)) /\ Cardinality(RowsOf(t)) = Len(Content[t])
<1>1. Content[t] \in Seq(Nat) /\ IsInjective(Content[t])
  OBVIOUS
<1>2. ToSet(Content[t]) \subseteq Nat
  BY <1>1 DEF ToSet
<1> QED
  BY <1>1, <1>2, InjectiveSize DEF RowsOf

\* What the page query of an offset lists.
LEMMA PageOf == ASSUME DataTypeOK, NEW t \in Tables, NEW m \in Nat, NEW n \in Nat \ {0}
                PROVE  /\ Page(t, m, n) \in Seq(Nat)
                       /\ \A i \in DOMAIN Page(t, m, n) :
                            m + i \in DOMAIN source[t] /\ Page(t, m, n)[i] = source[t][m + i]
                       /\ Page(t, m, n) = <<>> => Len(source[t]) <= m
<1>1. PICK s \in Seq(Nat) : s = source[t]
  BY DEF DataTypeOK
<1>2. PICK e \in Nat : /\ e <= Len(s) /\ (e <= m => Len(s) <= m)
                       /\ SubSeq(s, m + 1, IF m + n < Len(s) THEN m + n ELSE Len(s))
                            = SubSeq(s, m + 1, e)
  BY Listed
<1>3. Page(t, m, n) = SubSeq(s, m + 1, e)
  BY <1>1, <1>2 DEF Page
<1>4. /\ SubSeq(s, m + 1, e) \in Seq(Nat)
      /\ \A i \in DOMAIN SubSeq(s, m + 1, e) :
           m + i \in DOMAIN s /\ SubSeq(s, m + 1, e)[i] = s[m + i]
      /\ SubSeq(s, m + 1, e) = <<>> => Len(s) <= m
  BY <1>2, SliceOf
<1> QED
  BY <1>1, <1>3, <1>4

\* The rows a job has sent are sent by finitely many jobs.
SendersFinite ==
    \A t \in Tables : \A r \in RowsOf(t) : IsFiniteSet({j \in Jobs : r \in sent[j][t]})

EngineInv == ControlInv /\ ContentInv /\ SendersFinite

\* A new engine has sent nothing, and the source is as it was.
LEMMA InitContent == Init => EngineInv
<1> SUFFICES ASSUME Init PROVE EngineInv
  OBVIOUS
<1> USE DEF Init
<1>1. ControlInv
  BY InitControl
<1>2. DataTypeOK
  <2>1. <<>> \in Seq(Nat) /\ {} \in SUBSET Nat
    OBVIOUS
  <2>2. /\ off \in [Jobs -> Nat] /\ page \in [Jobs -> Seq(Nat)]
        /\ sent \in [Jobs -> [Tables -> SUBSET Nat]] /\ source \in [Tables -> Seq(Nat)]
    BY <2>1
  <2>3. PICK used \in SUBSET Tables :
          target = [t \in Tables |-> [present |-> t \in used, old |-> t \in used,
                                      rows |-> [r \in RowsOf(t) |-> 0]]]
    OBVIOUS
  <2>4. \A t \in Tables : [r \in RowsOf(t) |-> 0] \in [RowsOf(t) -> Nat]
    OBVIOUS
  <2>5. ASSUME NEW t \in Tables
        PROVE  target[t] \in [present : BOOLEAN, old : BOOLEAN, rows : [RowsOf(t) -> Nat]]
    BY <2>3, <2>4
  <2> QED
    BY <2>2, <2>3, <2>5 DEF DataTypeOK
<1>3. StatusHonest
  BY <1>1 DEF ControlInv, JobInv, StatusHonest
<1>4. LossBounded
  BY DEF LossBounded
<1>5. ASSUME NEW t \in Tables, NEW r \in RowsOf(t)
      PROVE  /\ {j \in Jobs : r \in sent[j][t]} = {}
             /\ target[t].rows[r] = 0
  OBVIOUS
<1>6. CopiesAccounted /\ SendersFinite
  <2>1. IsFiniteSet({}) /\ Cardinality({}) = 0
    BY FS_EmptySet
  <2>2. ASSUME NEW t \in Tables, NEW r \in RowsOf(t)
        PROVE  /\ target[t].rows[r] <= Cardinality({j \in Jobs : r \in sent[j][t]})
               /\ IsFiniteSet({j \in Jobs : r \in sent[j][t]})
    <3>1. target[t].rows[r] <= 0
      BY <1>5
    <3> QED
      BY <1>5, <2>1, <3>1
  <2> QED
    BY <2>2 DEF CopiesAccounted, SendersFinite
<1>7. SourceShrinks
  <2>1. \A t \in Tables : Content[t] \in Seq(Nat) /\ Len(Content[t]) \in Nat
    OBVIOUS
  <2> QED
    BY <2>1 DEF SourceShrinks, RowsOf
<1>8. \A j \in Jobs : OffsetCounts(j)
  BY DEF OffsetCounts
<1> QED
  BY <1>1, <1>2, <1>3, <1>4, <1>6, <1>7, <1>8
     DEF EngineInv, ContentInv, TypeOK, ControlInv

-----------------------------------------------------------------------------
(* The steps and the types of the data.                                      *)

\* What the target may hold of each table.
TargetOK ==
    /\ DOMAIN target = Tables
    /\ \A t \in Tables :
         target[t] \in [present : BOOLEAN, old : BOOLEAN, rows : [RowsOf(t) -> Nat]]

\* CREATE TABLE leaves the rows of every table alone.
LEMMA Created == ASSUME TargetOK, NEW t \in Tables, target' = [target EXCEPT ![t].present = TRUE]
                 PROVE  TargetOK' /\ \A u \in Tables : target'[u].rows = target[u].rows
<1>1. target[t] \in [present : BOOLEAN, old : BOOLEAN, rows : [RowsOf(t) -> Nat]]
  BY DEF TargetOK
<1>2. /\ DOMAIN target' = Tables /\ \A u \in Tables \ {t} : target'[u] = target[u]
      /\ target'[t] = [target[t] EXCEPT !.present = TRUE]
  BY DEF TargetOK
<1>3. /\ target'[t] \in [present : BOOLEAN, old : BOOLEAN, rows : [RowsOf(t) -> Nat]]
      /\ target'[t].rows = target[t].rows
  BY <1>1, <1>2
<1> QED
  BY <1>2, <1>3 DEF TargetOK, RowsOf

\* TRUNCATE leaves no row in one table and the other tables alone.
LEMMA Truncated == ASSUME TargetOK, NEW t \in Tables,
                          target' = [target EXCEPT ![t].old = FALSE,
                                                   ![t].rows = [r \in RowsOf(t) |-> 0]]
                   PROVE  /\ TargetOK'
                          /\ \A r \in RowsOf(t) : target'[t].rows[r] = 0
                          /\ \A u \in Tables \ {t} : target'[u] = target[u]
<1>1. target[t] \in [present : BOOLEAN, old : BOOLEAN, rows : [RowsOf(t) -> Nat]]
  BY DEF TargetOK
<1> DEFINE R == [r \in RowsOf(t) |-> 0]
<1>2. /\ DOMAIN target' = Tables /\ \A u \in Tables \ {t} : target'[u] = target[u]
      /\ target'[t] = [target[t] EXCEPT !.old = FALSE, !.rows = R]
  BY DEF TargetOK
<1>3. R \in [RowsOf(t) -> Nat] /\ \A r \in RowsOf(t) : R[r] = 0
  OBVIOUS
<1> HIDE DEF R
<1>4. /\ target'[t] \in [present : BOOLEAN, old : BOOLEAN, rows : [RowsOf(t) -> Nat]]
      /\ target'[t].rows = R
  BY <1>1, <1>2, <1>3
<1> QED
  BY <1>2, <1>3, <1>4 DEF TargetOK, RowsOf

\* An insert adds at most one to the copies of the rows of its page.
LEMMA Added == ASSUME TargetOK, NEW t \in Tables, NEW p, target' = Inserted(t, p)
               PROVE  /\ TargetOK'
                      /\ \A r \in RowsOf(t) :
                           target'[t].rows[r]
                             <= IF r \in ToSet(p) THEN target[t].rows[r] + 1
                                                  ELSE target[t].rows[r]
                      /\ \A u \in Tables \ {t} : target'[u] = target[u]
<1>1. target[t] \in [present : BOOLEAN, old : BOOLEAN, rows : [RowsOf(t) -> Nat]]
  BY DEF TargetOK
<1> DEFINE R == [r \in RowsOf(t) |->
                   IF r \in ToSet(p) /\ (t \in Keyed => target[t].rows[r] = 0)
                   THEN target[t].rows[r] + 1 ELSE target[t].rows[r]]
<1>2. /\ DOMAIN target' = Tables /\ \A u \in Tables \ {t} : target'[u] = target[u]
      /\ target'[t] = [target[t] EXCEPT !.rows = R]
  BY DEF TargetOK, Inserted
<1>3. \A r \in RowsOf(t) : target[t].rows[r] \in Nat
  BY <1>1
<1>4. /\ R \in [RowsOf(t) -> Nat]
      /\ \A r \in RowsOf(t) :
           R[r] <= IF r \in ToSet(p) THEN target[t].rows[r] + 1 ELSE target[t].rows[r]
  BY <1>3
<1> HIDE DEF R
<1>5. /\ target'[t] \in [present : BOOLEAN, old : BOOLEAN, rows : [RowsOf(t) -> Nat]]
      /\ target'[t].rows = R
  BY <1>1, <1>2, <1>4
<1> QED
  BY <1>2, <1>4, <1>5 DEF TargetOK, RowsOf

\* The parts of the invariant that the steps use.
LEMMA Parts == ASSUME EngineInv
               PROVE  /\ ControlInv /\ ControlTypeOK /\ DataTypeOK /\ TargetOK
                      /\ LossBounded /\ CopiesAccounted /\ SendersFinite /\ SourceShrinks
                      /\ \A j \in Jobs : JobInv(j) /\ LoopInv(j) /\ OffsetCounts(j)
  BY DEF EngineInv, ContentInv, TypeOK, ControlInv, DataTypeOK, TargetOK, JobInv

\* From the CREATE TABLE to the last page the loop is at one table, not yet handled.
LEMMA AtOneTable == ASSUME EngineInv, NEW j \in Jobs,
                           pc[j] \in {"create", "conflict", "read", "insert"}
                    PROVE  \E t \in Tables : cur[j] = {t} /\ t \notin handled[j]
<1>1. PICK t \in Wanted(j) : t \notin handled[j] /\ cur[j] = {t}
  BY Parts DEF LoopInv
<1>2. cur[j] \in SUBSET Tables
  BY Parts DEF ControlTypeOK
<1> QED
  BY <1>1, <1>2

\* An insert that takes effect adds the page to what the job has sent of its
\* table, which had none of these rows.
LEMMA PageSent == ASSUME EngineInv, NEW j \in Jobs, pc[j] = "insert", InsertLands(j)
                  PROVE  \E t \in Tables :
                           /\ cur[j] = {t} /\ t \notin handled[j]
                           /\ target' = Inserted(t, page[j])
                           /\ ToSet(page[j]) \subseteq RowsOf(t)
                           /\ sent[j][t] \cap ToSet(page[j]) = {}
                           /\ sent' \in [Jobs -> [Tables -> SUBSET Nat]]
                           /\ sent'[j][t] = sent[j][t] \cup ToSet(page[j])
                           /\ \A k \in Jobs : \A u \in Tables :
                                k # j \/ u # t => sent'[k][u] = sent[k][u]
<1>1. PICK t \in Tables : cur[j] = {t} /\ t \notin handled[j]
  BY AtOneTable
<1>2. /\ target' = Inserted(t, page[j])
      /\ sent' = [sent EXCEPT ![j][t] = @ \cup ToSet(page[j])]
  BY <1>1 DEF InsertLands, Lands
<1>3. ToSet(page[j]) \subseteq RowsOf(t) /\ sent[j][t] \cap ToSet(page[j]) = {}
  BY <1>1, Parts DEF OffsetCounts
<1>4. sent \in [Jobs -> [Tables -> SUBSET Nat]] /\ ToSet(page[j]) \subseteq Nat
  BY <1>3, Parts, Rows DEF DataTypeOK
<1>5. /\ sent' \in [Jobs -> [Tables -> SUBSET Nat]]
      /\ sent'[j][t] = sent[j][t] \cup ToSet(page[j])
      /\ \A u \in Tables : u # t => sent'[j][u] = sent[j][u]
      /\ \A k \in Jobs : k # j => sent'[k] = sent[k]
  BY <1>2, <1>4
<1>6. \A k \in Jobs : \A u \in Tables : k # j \/ u # t => sent'[k][u] = sent[k][u]
  BY <1>5
<1> QED
  BY <1>1, <1>2, <1>3, <1>5, <1>6

\* Pages, offsets and the source keep their types.
LEMMA NextPageTypes == ASSUME EngineInv, [Next]_vars
                       PROVE  /\ off' \in [Jobs -> Nat]
                              /\ page' \in [Jobs -> Seq(Nat)]
                              /\ sent' \in [Jobs -> [Tables -> SUBSET Nat]]
                              /\ source' \in [Tables -> Seq(Nat)]
<1> DEFINE Goal == /\ off' \in [Jobs -> Nat]
                   /\ page' \in [Jobs -> Seq(Nat)]
                   /\ sent' \in [Jobs -> [Tables -> SUBSET Nat]]
                   /\ source' \in [Tables -> Seq(Nat)]
<1>0. /\ off \in [Jobs -> Nat] /\ page \in [Jobs -> Seq(Nat)]
      /\ sent \in [Jobs -> [Tables -> SUBSET Nat]] /\ source \in [Tables -> Seq(Nat)]
      /\ opt \in [Jobs -> Options]
  BY Parts DEF DataTypeOK, ControlTypeOK
<1>1. CASE UNCHANGED <<off, page, sent, source>>
  BY <1>0, <1>1
<1>2. ASSUME NEW j \in Jobs, EnterTransfer(j), UNCHANGED <<page, sent, source>> PROVE Goal
  BY <1>0, <1>2 DEF EnterTransfer
<1>3. ASSUME NEW j \in Jobs, ReadPage(j) PROVE Goal
  <2>1. PICK t \in Tables : page' = [page EXCEPT ![j] = Page(t, off[j], opt[j].batch)]
    BY <1>3, Parts DEF ReadPage, ControlTypeOK
  <2>2. off[j] \in Nat /\ opt[j].batch \in Nat \ {0}
    BY <1>0 DEF Options
  <2>3. Page(t, off[j], opt[j].batch) \in Seq(Nat)
    BY <2>2, Parts, PageOf
  <2> QED
    BY <1>0, <1>3, <2>1, <2>3 DEF ReadPage, dbVars
<1>4. ASSUME NEW j \in Jobs, InsertBatch(j) \/ InsertFails(j) PROVE Goal
  <2>1. sent' \in [Jobs -> [Tables -> SUBSET Nat]]
    BY <1>0, <1>4, PageSent DEF InsertBatch, InsertFails
  <2>2. <<>> \in Seq(Nat) /\ Len(page[j]) \in Nat
    BY <1>0
  <2>3. page' = [page EXCEPT ![j] = <<>>] /\ UNCHANGED source
    BY <1>4 DEF InsertBatch, InsertFails
  <2>4. \A n \in Nat : [off EXCEPT ![j] = @ + n] \in [Jobs -> Nat]
    BY <1>0
  <2>5. off' \in [Jobs -> Nat]
    BY <1>0, <1>4, <2>2, <2>4 DEF InsertBatch, InsertFails
  <2> QED
    BY <1>0, <2>1, <2>2, <2>3, <2>5
<1>5. ASSUME NEW t \in Tables, SourceDelete(t) PROVE Goal
  <2>1. PICK k \in DOMAIN source[t] : source' = [source EXCEPT ![t] = RemoveAt(source[t], k)]
    BY <1>5 DEF SourceDelete
  <2>2. RemoveAt(source[t], k) \in Seq(Nat)
    BY <1>0, Removed
  <2> QED
    BY <1>0, <1>5, <2>1, <2>2 DEF SourceDelete, pageVars
<1> HIDE DEF Goal
<1> QED
  <2>1. ASSUME NEW j \in Jobs, (\E o \in Requested : Start(j, o)) \/ Cancel(j) \/ Work(j)
        PROVE  Goal
    <3>1. CASE Truncate(j) \/ CountedZero(j) \/ NoConflictCheck(j)
      BY <1>2, <3>1 DEF Truncate, CountedZero, NoConflictCheck, dbVars
    <3>2. CASE ReadPage(j)
      BY <1>3, <3>2
    <3>3. CASE InsertBatch(j) \/ InsertFails(j)
      BY <1>4, <3>3
    <3>4. CASE UNCHANGED <<off, page, sent, source>>
      BY <1>1, <3>4 DEF Goal
    <3>5. CASE \/ \E o \in Requested : Start(j, o)
               \/ Cancel(j) \/ Begin(j) \/ FetchSchema(j) \/ FinishDryRun(j)
               \/ SchemaFails(j) \/ NextTable(j) \/ TableCancelled(j) \/ Finish(j)
               \/ CreateTable(j) \/ SkipTable(j) \/ LastPage(j) \/ ReadFails(j)
      BY <3>4, <3>5 DEF Start, Cancel, Begin, FetchSchema, FinishDryRun, SchemaFails,
           NextTable, TableCancelled, Finish, CreateTable, SkipTable, LastPage, ReadFails,
           pageVars, dbVars
    <3> QED
      BY <2>1, <3>1, <3>2, <3>3, <3>5 DEF Work
  <2>2. CASE UNCHANGED vars
    BY <1>1, <2>2 DEF vars, pageVars, dbVars, Goal
  <2>3. CASE Next
    BY <1>5, <2>1, <2>3 DEF Next, Goal
  <2> QED
    BY <2>2, <2>3 DEF Goal

\* The jobs that have sent a row of a table.
Senders(t, r) == {k \in Jobs : r \in sent[k][t]}

CopyInv ==
    /\ TargetOK
    /\ \A t \in Tables : \A r \in RowsOf(t) :
         /\ IsFiniteSet(Senders(t, r))
         /\ target[t].rows[r] <= Cardinality(Senders(t, r))

\* The account of the copies, in the words of the invariant.
LEMMA CopyParts == EngineInv => CopyInv
  BY Parts DEF CopyInv, Senders, CopiesAccounted, SendersFinite

\* The numbers of the account are natural numbers.
LEMMA CopyNumbers == ASSUME CopyInv, NEW t \in Tables, NEW r \in RowsOf(t)
                     PROVE  /\ target[t].rows[r] \in Nat
                            /\ Cardinality(Senders(t, r)) \in Nat
                            /\ IsFiniteSet(Senders(t, r))
                            /\ target[t].rows[r] <= Cardinality(Senders(t, r))
<1>1. IsFiniteSet(Senders(t, r)) /\ target[t].rows[r] <= Cardinality(Senders(t, r))
  BY DEF CopyInv
<1>2. Cardinality(Senders(t, r)) \in Nat
  BY <1>1, FS_CardinalityType
<1>3. target[t].rows[r] \in Nat
  BY DEF CopyInv, TargetOK
<1> QED
  BY <1>1, <1>2, <1>3

\* A step that sends no row and adds no copy.
LEMMA NoCopyMore == ASSUME CopyInv, UNCHANGED sent, TargetOK',
                           \A t \in Tables : \A r \in RowsOf(t) :
                             target'[t].rows[r] <= target[t].rows[r]
                    PROVE  CopyInv'
<1> SUFFICES ASSUME NEW t \in Tables, NEW r \in RowsOf(t)
             PROVE  /\ IsFiniteSet(Senders(t, r))'
                    /\ target'[t].rows[r] <= Cardinality(Senders(t, r))'
  BY DEF CopyInv, RowsOf
<1>1. Senders(t, r)' = Senders(t, r)
  BY DEF Senders
<1>2. target'[t].rows[r] \in Nat
  BY DEF TargetOK, RowsOf
<1>3. target'[t].rows[r] <= Cardinality(Senders(t, r))
  BY <1>2, CopyNumbers
<1> QED
  BY <1>1, <1>3, CopyNumbers

\* A step that leaves the target alone and sends nothing.
LEMMA SameCopies == ASSUME CopyInv, UNCHANGED <<sent, target>> PROVE CopyInv'
<1>1. TargetOK'
  BY DEF CopyInv, TargetOK, RowsOf
<1>2. \A t \in Tables : \A r \in RowsOf(t) : target'[t].rows[r] <= target[t].rows[r]
  BY CopyNumbers
<1> QED
  BY <1>1, <1>2, NoCopyMore

\* An insert adds a copy of the rows of its page and the job to their senders.
LEMMA InsertCopies == ASSUME EngineInv, NEW j \in Jobs, pc[j] = "insert", InsertLands(j)
                      PROVE  CopyInv'
<1>1. PICK t \in Tables :
        /\ target' = Inserted(t, page[j])
        /\ ToSet(page[j]) \subseteq RowsOf(t)
        /\ sent[j][t] \cap ToSet(page[j]) = {}
        /\ sent'[j][t] = sent[j][t] \cup ToSet(page[j])
        /\ \A k \in Jobs : \A u \in Tables : k # j \/ u # t => sent'[k][u] = sent[k][u]
  <2>1. \E t \in Tables :
          /\ cur[j] = {t} /\ t \notin handled[j]
          /\ target' = Inserted(t, page[j])
          /\ ToSet(page[j]) \subseteq RowsOf(t)
          /\ sent[j][t] \cap ToSet(page[j]) = {}
          /\ sent' \in [Jobs -> [Tables -> SUBSET Nat]]
          /\ sent'[j][t] = sent[j][t] \cup ToSet(page[j])
          /\ \A k \in Jobs : \A u \in Tables : k # j \/ u # t => sent'[k][u] = sent[k][u]
    BY PageSent
  <2> QED
    BY <2>1
<1>2. CopyInv /\ TargetOK
  BY Parts, CopyParts
<1>3. /\ TargetOK'
      /\ \A r \in RowsOf(t) :
           target'[t].rows[r] <= IF r \in ToSet(page[j]) THEN target[t].rows[r] + 1
                                                         ELSE target[t].rows[r]
      /\ \A u \in Tables \ {t} : target'[u] = target[u]
  BY <1>1, <1>2, Added
<1> SUFFICES ASSUME NEW u \in Tables, NEW r \in RowsOf(u)
             PROVE  /\ IsFiniteSet(Senders(u, r))'
                    /\ target'[u].rows[r] <= Cardinality(Senders(u, r))'
  BY <1>3 DEF CopyInv, RowsOf
<1>4. target'[u].rows[r] \in Nat
  BY <1>3 DEF TargetOK, RowsOf
<1>5. /\ target[u].rows[r] \in Nat /\ Cardinality(Senders(u, r)) \in Nat
      /\ IsFiniteSet(Senders(u, r)) /\ target[u].rows[r] <= Cardinality(Senders(u, r))
  BY <1>2, CopyNumbers
<1>6. CASE u = t /\ r \in ToSet(page[j])
  <2>1. Senders(u, r)' = Senders(u, r) \cup {j} /\ j \notin Senders(u, r)
    BY <1>1, <1>6 DEF Senders
  <2>2. /\ IsFiniteSet(Senders(u, r) \cup {j})
        /\ Cardinality(Senders(u, r) \cup {j})
             = IF j \in Senders(u, r) THEN Cardinality(Senders(u, r))
                                      ELSE Cardinality(Senders(u, r)) + 1
    BY <1>5, FS_AddElement
  <2>3. target'[u].rows[r] <= target[u].rows[r] + 1
    BY <1>3, <1>6
  <2> QED
    BY <1>4, <1>5, <2>1, <2>2, <2>3
<1>7. CASE ~(u = t /\ r \in ToSet(page[j]))
  <2>1. Senders(u, r)' = Senders(u, r)
    BY SMTT(30), <1>1, <1>7 DEF Senders
  <2>2. target'[u].rows[r] <= target[u].rows[r]
    BY <1>3, <1>5, <1>7
  <2> QED
    BY <1>4, <1>5, <2>1, <2>2
<1> QED
  BY <1>6, <1>7

\* No step breaks the account of the copies in the target.
LEMMA NextCopies == ASSUME EngineInv, [Next]_vars PROVE CopyInv'
<1>0. CopyInv /\ TargetOK
  BY CopyParts, Parts
<1>1. ASSUME UNCHANGED <<sent, target>> PROVE CopyInv'
  BY <1>0, <1>1, SameCopies
<1>2. ASSUME NEW j \in Jobs, CreateTable(j) PROVE CopyInv'
  <2>1. cur[j] \subseteq Tables /\ UNCHANGED sent
    BY <1>2, Parts DEF ControlTypeOK, CreateTable, pageVars
  <2>2. ASSUME NEW t \in Tables, target' = [target EXCEPT ![t].present = TRUE] PROVE CopyInv'
    <3>1. TargetOK' /\ \A u \in Tables : target'[u].rows = target[u].rows
      BY <1>0, <2>2, Created
    <3>2. \A u \in Tables : \A r \in RowsOf(u) : target'[u].rows[r] <= target[u].rows[r]
      BY <1>0, <3>1, CopyNumbers
    <3> QED
      BY <1>0, <2>1, <3>1, <3>2, NoCopyMore
  <2> QED
    BY <1>1, <1>2, <2>1, <2>2 DEF CreateTable, Lands, Refused
<1>3. ASSUME NEW j \in Jobs, Truncate(j) PROVE CopyInv'
  <2>1. cur[j] \subseteq Tables /\ UNCHANGED sent
    BY <1>3, Parts DEF ControlTypeOK, Truncate
  <2>2. ASSUME NEW t \in Tables,
               target' = [target EXCEPT ![t].old = FALSE,
                                        ![t].rows = [r \in RowsOf(t) |-> 0]]
        PROVE  CopyInv'
    <3>1. /\ TargetOK' /\ \A r \in RowsOf(t) : target'[t].rows[r] = 0
          /\ \A u \in Tables \ {t} : target'[u] = target[u]
      BY <1>0, <2>2, Truncated
    <3>2. \A u \in Tables : \A r \in RowsOf(u) : target'[u].rows[r] <= target[u].rows[r]
      BY <1>0, <3>1, CopyNumbers
    <3> QED
      BY <1>0, <2>1, <3>1, <3>2, NoCopyMore
  <2> QED
    BY <1>1, <1>3, <2>1, <2>2 DEF Truncate, Lands, Refused
<1>4. ASSUME NEW j \in Jobs, InsertBatch(j) \/ InsertFails(j) PROVE CopyInv'
  BY <1>1, <1>4, InsertCopies DEF InsertBatch, InsertFails, Refused
<1>5. ASSUME NEW j \in Jobs,
             \/ \E o \in Requested : Start(j, o)
             \/ Cancel(j) \/ Begin(j) \/ FetchSchema(j) \/ FinishDryRun(j)
             \/ SchemaFails(j) \/ NextTable(j) \/ TableCancelled(j) \/ Finish(j)
             \/ SkipTable(j) \/ CountedZero(j) \/ NoConflictCheck(j) \/ ReadPage(j)
             \/ LastPage(j) \/ ReadFails(j)
      PROVE  UNCHANGED <<sent, target>>
  BY <1>5 DEF Start, Cancel, Begin, FetchSchema, FinishDryRun, SchemaFails,
       NextTable, TableCancelled, Finish, SkipTable, CountedZero, NoConflictCheck,
       ReadPage, LastPage, ReadFails, pageVars, dbVars
<1>6. CASE UNCHANGED vars \/ \E t \in Tables : SourceDelete(t)
  BY <1>1, <1>6 DEF vars, SourceDelete, pageVars, dbVars
<1>7. ASSUME NEW j \in Jobs, (\E o \in Requested : Start(j, o)) \/ Cancel(j) \/ Work(j)
      PROVE  CopyInv'
  BY <1>1, <1>2, <1>3, <1>4, <1>5, <1>7 DEF Work
<1> QED
  BY <1>6, <1>7 DEF Next

-----------------------------------------------------------------------------
(* The source and the pages.                                                 *)

\* Taking a row out of the source keeps the order of the others.
LEMMA DeleteStep == ASSUME EngineInv, NEW t \in Tables, NEW k \in DOMAIN source[t],
                           source' = [source EXCEPT ![t] = RemoveAt(@, k)]
                    PROVE  /\ \A u \in Tables \ {t} : source'[u] = source[u]
                           /\ source[t] \in Seq(Nat) /\ source'[t] \in Seq(Nat)
                           /\ Len(source'[t]) = Len(source[t]) - 1
                           /\ \A i \in DOMAIN source'[t] :
                                /\ i \in DOMAIN source[t] /\ i + 1 \in DOMAIN source[t]
                                /\ source'[t][i] = IF i < k THEN source[t][i]
                                                            ELSE source[t][i + 1]
<1>1. source \in [Tables -> Seq(Nat)]
  BY Parts DEF DataTypeOK
<1>2. /\ source'[t] = RemoveAt(source[t], k)
      /\ \A u \in Tables \ {t} : source'[u] = source[u]
  BY <1>1
<1>3. PICK s \in Seq(Nat) : s = source[t]
  BY <1>1
<1>4. /\ RemoveAt(s, k) \in Seq(Nat) /\ Len(RemoveAt(s, k)) = Len(s) - 1
      /\ \A i \in 1..(Len(s) - 1) :
           RemoveAt(s, k)[i] = IF i < k THEN s[i] ELSE s[i + 1]
  BY <1>3, Removed
<1>5. \A i \in DOMAIN RemoveAt(s, k) : i \in 1..(Len(s) - 1)
  BY <1>4
<1>6. \A i \in 1..(Len(s) - 1) : i \in DOMAIN s /\ i + 1 \in DOMAIN s
  OBVIOUS
<1> QED
  BY <1>2, <1>3, <1>4, <1>5, <1>6

\* Nobody adds to the source.
LEMMA NextShrinks == ASSUME EngineInv, [Next]_vars PROVE SourceShrinks'
<1>1. SourceShrinks
  BY Parts
<1>2. CASE UNCHANGED source
  BY <1>1, <1>2 DEF SourceShrinks, RowsOf
<1>3. ASSUME NEW t \in Tables, SourceDelete(t) PROVE SourceShrinks'
  <2>1. PICK k \in DOMAIN source[t] : source' = [source EXCEPT ![t] = RemoveAt(@, k)]
    BY <1>3 DEF SourceDelete
  <2>2. /\ \A u \in Tables \ {t} : source'[u] = source[u]
        /\ source[t] \in Seq(Nat) /\ source'[t] \in Seq(Nat)
        /\ Len(source'[t]) = Len(source[t]) - 1
        /\ \A i \in DOMAIN source'[t] :
             /\ i \in DOMAIN source[t] /\ i + 1 \in DOMAIN source[t]
             /\ source'[t][i] = IF i < k THEN source[t][i] ELSE source[t][i + 1]
    BY <2>1, DeleteStep
  <2>3. IsInjective(source[t]) /\ ToSet(source[t]) \subseteq RowsOf(t)
        /\ Len(source[t]) <= Len(Content[t]) /\ Len(Content[t]) \in Nat
    BY <1>1 DEF SourceShrinks
  <2>4. IsInjective(source'[t])
    <3> SUFFICES ASSUME NEW a \in DOMAIN source'[t], NEW b \in DOMAIN source'[t],
                        source'[t][a] = source'[t][b]
                 PROVE  a = b
      BY DEF IsInjective
    <3>1. a \in Nat /\ b \in Nat /\ k \in Nat
      <4>0. source[t] \in Seq(Nat)
        BY <2>2
      <4>1. DOMAIN source[t] \subseteq Nat
        BY <4>0
      <4>2. a \in DOMAIN source[t] /\ b \in DOMAIN source[t]
        BY <2>2
      <4> QED
        BY <2>1, <4>1, <4>2
    <3>2. PICK x \in {a, a + 1}, y \in {b, b + 1} :
            /\ x = (IF a < k THEN a ELSE a + 1) /\ y = (IF b < k THEN b ELSE b + 1)
      OBVIOUS
    <3>3. x \in DOMAIN source[t] /\ y \in DOMAIN source[t] /\ source[t][x] = source[t][y]
      BY <2>2, <3>2
    <3>4. x = y
      BY <2>3, <3>3 DEF IsInjective
    <3> QED
      BY <3>1, <3>2, <3>4
  <2>5. ToSet(source'[t]) \subseteq ToSet(source[t])
    BY <2>2 DEF ToSet
  <2>6. Len(source'[t]) <= Len(Content[t])
    BY <2>2, <2>3
  <2> QED
    BY <1>1, <2>2, <2>3, <2>4, <2>5, <2>6 DEF SourceShrinks, RowsOf
<1>4. ASSUME NEW j \in Jobs, (\E o \in Requested : Start(j, o)) \/ Cancel(j) \/ Work(j)
      PROVE  UNCHANGED source
  BY <1>4 DEF Work, Start, Cancel, Begin, FetchSchema, FinishDryRun, SchemaFails,
       NextTable, TableCancelled, Finish, CreateTable, Truncate, SkipTable, CountedZero,
       NoConflictCheck, ReadPage, LastPage, ReadFails, InsertBatch, InsertFails, dbVars
<1>5. CASE UNCHANGED vars
  BY <1>2, <1>5 DEF vars, dbVars
<1> QED
  BY <1>2, <1>3, <1>4, <1>5 DEF Next

\* What a job has sent of the tables it has handled stays, and so does the loss.
LEMMA SameLoss == ASSUME EngineInv, UNCHANGED <<source, opt>>,
                         \A k \in Jobs : handled'[k] = handled[k],
                         \A k \in Jobs : \A u \in handled[k] : sent'[k][u] = sent[k][u]
                  PROVE  LossBounded'
  BY Parts DEF LossBounded

\* A page query that lists nothing has come to the end: what is left out are
\* the rows the others have moved up past the offset.
LEMMA LossAtEnd == ASSUME EngineInv, NEW j \in Jobs, LastPage(j)
                   PROVE  LossBounded'
<1>1. PICK t \in Tables : cur[j] = {t} /\ t \notin handled[j]
  BY AtOneTable DEF LastPage
<1>2. /\ off[j] \in Nat /\ opt[j].batch \in Nat \ {0} /\ source[t] \in Seq(Nat)
  BY Parts DEF DataTypeOK, ControlTypeOK, Options
<1>3. Len(source[t]) <= off[j]
  <2>1. Page(t, off[j], opt[j].batch) = <<>>
    BY <1>1 DEF LastPage
  <2> QED
    BY <1>2, <2>1, Parts, PageOf
<1>4. /\ Cardinality(sent[j][t]) = off[j] /\ sent[j][t] \subseteq RowsOf(t)
      /\ ToSet(source[t]) \subseteq RowsOf(t)
      /\ IsFiniteSet(RowsOf(t)) /\ Cardinality(RowsOf(t)) = Len(Content[t])
  BY <1>1, Parts, Rows DEF OffsetCounts, SourceShrinks, LastPage
<1>5. /\ IsFiniteSet(RowsOf(t) \ sent[j][t])
      /\ Cardinality(RowsOf(t) \ sent[j][t]) = Len(Content[t]) - off[j]
  <2>1. RowsOf(t) \cap sent[j][t] = sent[j][t]
    BY <1>4
  <2>2. /\ IsFiniteSet(RowsOf(t) \ sent[j][t])
        /\ Cardinality(RowsOf(t) \ sent[j][t])
             = Cardinality(RowsOf(t)) - Cardinality(RowsOf(t) \cap sent[j][t])
    <3>1. IsFiniteSet(RowsOf(t))
      BY <1>4
    <3> QED
      BY <3>1, FS_Difference
  <2> QED
    BY <1>4, <2>1, <2>2
<1>6. /\ IsFiniteSet(ToSet(source[t]) \ sent[j][t])
      /\ Cardinality(ToSet(source[t]) \ sent[j][t]) <= Cardinality(RowsOf(t) \ sent[j][t])
  <2>1. ToSet(source[t]) \ sent[j][t] \in SUBSET (RowsOf(t) \ sent[j][t])
    BY <1>4
  <2> QED
    BY <1>5, <2>1, FS_Subset
<1>7. Cardinality(ToSet(source[t]) \ sent[j][t]) <= Len(Content[t]) - Len(source[t])
  <2>1. Len(Content[t]) \in Nat /\ Len(source[t]) \in Nat
    BY <1>2
  <2>2. Cardinality(ToSet(source[t]) \ sent[j][t]) \in Nat
    BY <1>6, FS_CardinalityType
  <2> QED
    BY <1>2, <1>3, <1>5, <1>6, <2>1, <2>2
<1>8. /\ handled'[j] = handled[j] \cup {t} /\ \A k \in Jobs \ {j} : handled'[k] = handled[k]
      /\ UNCHANGED <<source, opt, sent>>
  BY <1>1, Parts DEF LastPage, FinishTable, ControlTypeOK, pageVars, dbVars
<1> QED
  BY <1>7, <1>8, Parts DEF LossBounded

\* A deletion takes a row from what is left out or adds one to the loss allowed.
LEMMA LossAfterDelete == ASSUME EngineInv, NEW t \in Tables, SourceDelete(t)
                         PROVE  LossBounded'
<1>1. PICK k \in DOMAIN source[t] : source' = [source EXCEPT ![t] = RemoveAt(@, k)]
  BY DEF SourceDelete
<1>2. /\ \A u \in Tables \ {t} : source'[u] = source[u]
      /\ source[t] \in Seq(Nat) /\ source'[t] \in Seq(Nat)
      /\ Len(source'[t]) = Len(source[t]) - 1
      /\ \A i \in DOMAIN source'[t] :
           /\ i \in DOMAIN source[t] /\ i + 1 \in DOMAIN source[t]
           /\ source'[t][i] = IF i < k THEN source[t][i] ELSE source[t][i + 1]
  BY <1>1, DeleteStep
<1>3. ToSet(source'[t]) \subseteq ToSet(source[t]) /\ ToSet(source[t]) \subseteq RowsOf(t)
  <2>1. PICK o, n : o = source[t] /\ n = source'[t]
    OBVIOUS
  <2>2. \A i \in DOMAIN n : \E l \in DOMAIN o : n[i] = o[l]
    BY <1>2, <2>1
  <2>3. ToSet(n) \subseteq ToSet(o)
    BY <2>2 DEF ToSet
  <2>4. ToSet(o) \subseteq RowsOf(t)
    BY <2>1, Parts DEF SourceShrinks
  <2> QED
    BY <2>1, <2>3, <2>4
<1>4. UNCHANGED <<opt, handled, sent>>
  BY DEF SourceDelete, loopVars, pageVars
<1>5. ASSUME NEW j \in Jobs, opt[j].mode # "skip", t \in handled[j]
      PROVE  Cardinality(ToSet(source'[t]) \ sent[j][t]) <= Len(Content[t]) - Len(source'[t])
  <2>1. IsFiniteSet(ToSet(source[t]) \ sent[j][t])
    <3>1. ToSet(source[t]) \ sent[j][t] \in SUBSET RowsOf(t)
      BY <1>3
    <3> QED
      BY <3>1, Rows, FS_Subset
  <2>2. ToSet(source'[t]) \ sent[j][t] \in SUBSET (ToSet(source[t]) \ sent[j][t])
    BY <1>3
  <2>3. /\ Cardinality(ToSet(source'[t]) \ sent[j][t])
             <= Cardinality(ToSet(source[t]) \ sent[j][t])
        /\ Cardinality(ToSet(source'[t]) \ sent[j][t]) \in Nat
        /\ Cardinality(ToSet(source[t]) \ sent[j][t]) \in Nat
    BY <2>1, <2>2, FS_Subset, FS_CardinalityType
  <2>4. Cardinality(ToSet(source[t]) \ sent[j][t]) <= Len(Content[t]) - Len(source[t])
    BY <1>5, Parts DEF LossBounded
  <2>5. /\ Len(Content[t]) \in Nat /\ Len(source[t]) \in Nat
        /\ Len(source'[t]) = Len(source[t]) - 1
    BY <1>2
  <2> DEFINE left == Cardinality(ToSet(source'[t]) \ sent[j][t])
             was == Cardinality(ToSet(source[t]) \ sent[j][t])
  <2>6. left <= was /\ left \in Nat /\ was \in Nat /\ was <= Len(Content[t]) - Len(source[t])
    BY <2>3, <2>4
  <2> HIDE DEF left, was
  <2>7. left <= Len(Content[t]) - Len(source'[t])
    BY <2>5, <2>6
  <2> QED
    BY <2>7 DEF left
<1>6. ASSUME NEW j \in Jobs, opt[j].mode # "skip", NEW u \in handled[j], u # t
      PROVE  Cardinality(ToSet(source'[u]) \ sent[j][u]) <= Len(Content[u]) - Len(source'[u])
  <2>1. u \in Tables
    BY Parts DEF ControlTypeOK
  <2> QED
    BY <1>2, <1>6, <2>1, Parts DEF LossBounded
<1> QED
  BY <1>4, <1>5, <1>6 DEF LossBounded

\* No step loses more rows of a table than others have deleted.
LEMMA NextLoss == ASSUME EngineInv, [Next]_vars PROVE LossBounded'
<1>1. ASSUME UNCHANGED <<source, opt, handled, sent>> PROVE LossBounded'
  BY <1>1, SameLoss
<1>2. ASSUME NEW j \in Jobs, NEW o \in Requested, Start(j, o) PROVE LossBounded'
  <2>1. /\ handled[j] = {} /\ UNCHANGED <<source, sent, handled>>
        /\ \A k \in Jobs \ {j} : opt'[k] = opt[k]
    BY <1>2, Parts DEF Start, LoopInv, ControlTypeOK, loopVars, pageVars, dbVars
  <2> QED
    BY <2>1, Parts DEF LossBounded
<1>3. ASSUME NEW j \in Jobs, SkipTable(j) PROVE LossBounded'
  <2>1. /\ opt[j].mode = "skip" /\ UNCHANGED <<source, sent, opt>>
        /\ \A k \in Jobs \ {j} : handled'[k] = handled[k]
    BY <1>3, Parts DEF SkipTable, FinishTable, ControlTypeOK, pageVars, dbVars
  <2> QED
    BY <2>1, Parts DEF LossBounded
<1>4. ASSUME NEW j \in Jobs, InsertBatch(j) \/ InsertFails(j) PROVE LossBounded'
  <2>1. pc[j] = "insert" /\ UNCHANGED <<source, opt, handled>>
    BY <1>4 DEF InsertBatch, InsertFails, loopVars
  <2>2. CASE InsertLands(j)
    <3>1. PICK t \in Tables :
            /\ t \notin handled[j]
            /\ \A k \in Jobs : \A u \in Tables : k # j \/ u # t => sent'[k][u] = sent[k][u]
      BY <2>1, <2>2, PageSent
    <3>2. \A k \in Jobs : handled[k] \subseteq Tables
      BY Parts DEF ControlTypeOK
    <3> QED
      BY <2>1, <3>1, <3>2, SameLoss
  <2>3. CASE UNCHANGED sent
    BY <1>1, <2>1, <2>3
  <2> QED
    BY <1>4, <2>2, <2>3 DEF InsertBatch, InsertFails
<1>5. ASSUME NEW j \in Jobs,
             \/ Cancel(j) \/ Begin(j) \/ FetchSchema(j) \/ FinishDryRun(j)
             \/ SchemaFails(j) \/ NextTable(j) \/ TableCancelled(j) \/ Finish(j)
             \/ CreateTable(j) \/ Truncate(j) \/ CountedZero(j) \/ NoConflictCheck(j)
             \/ ReadPage(j) \/ ReadFails(j)
      PROVE  UNCHANGED <<source, opt, handled, sent>>
  BY <1>5 DEF Cancel, Begin, FetchSchema, FinishDryRun, SchemaFails, NextTable,
       TableCancelled, Finish, CreateTable, Truncate, CountedZero, NoConflictCheck,
       ReadPage, ReadFails, loopVars, pageVars, dbVars
<1>6. ASSUME NEW j \in Jobs, (\E o \in Requested : Start(j, o)) \/ Cancel(j) \/ Work(j)
      PROVE  LossBounded'
  BY <1>1, <1>2, <1>3, <1>4, <1>5, <1>6, LossAtEnd DEF Work
<1>7. CASE UNCHANGED vars
  BY <1>1, <1>7 DEF vars, loopVars, pageVars, dbVars
<1> QED
  BY <1>6, <1>7, LossAfterDelete DEF Next

\* A job that a step leaves alone, as far as its pages go.
Calm(k) ==
    /\ off'[k] = off[k] /\ page'[k] = page[k] /\ sent'[k] = sent[k]
    /\ pc'[k] = pc[k] /\ cur'[k] = cur[k] /\ handled'[k] = handled[k]

\* The account of such a job stays.
LEMMA CalmOffset == ASSUME EngineInv, NEW k \in Jobs, Calm(k), UNCHANGED source
                    PROVE  OffsetCounts(k)'
<1>1. OffsetCounts(k)
  BY Parts
<1>2. /\ pc'[k] # "insert" => page'[k] = <<>>
      /\ \A t \in Tables : /\ sent'[k][t] \subseteq RowsOf(t)
                           /\ sent'[k][t] # {} => t \in handled'[k] \cup cur'[k]
  BY <1>1 DEF OffsetCounts, Calm
<1>3. ASSUME NEW t \in cur[k]
      PROVE  /\ pc'[k] \in {"create", "conflict"} => sent'[k][t] = {}
             /\ pc'[k] \in {"read", "insert"} =>
                  /\ Cardinality(sent'[k][t]) = off'[k]
                  /\ IsInjective(page'[k]) /\ ToSet(page'[k]) \subseteq RowsOf(t)
                  /\ sent'[k][t] \cap ToSet(page'[k]) = {}
  BY <1>1 DEF OffsetCounts, Calm
<1>4. ASSUME NEW t \in cur[k], pc[k] \in {"read", "insert"}
      PROVE  {source'[t][i] : i \in {m \in DOMAIN source'[t] : m > off'[k] + Len(page'[k])}}
               \cap (sent'[k][t] \cup ToSet(page'[k])) = {}
  <2>1. Ahead(k, t, Len(page[k])) \cap (sent[k][t] \cup ToSet(page[k])) = {}
    BY <1>1, <1>4 DEF OffsetCounts
  <2> QED
    BY <2>1 DEF Ahead, Calm
<1>5. cur'[k] = cur[k] /\ pc'[k] = pc[k]
  BY DEF Calm
<1> QED
  BY <1>2, <1>3, <1>4, <1>5 DEF OffsetCounts, RowsOf, Ahead

\* A job that is not at a table has its account closed.
LEMMA ClosedOffset == ASSUME EngineInv, NEW j \in Jobs, page'[j] = <<>>, sent'[j] = sent[j],
                             pc'[j] \notin {"create", "conflict", "read", "insert"},
                             handled[j] \cup cur[j] \subseteq handled'[j] \cup cur'[j]
                      PROVE  OffsetCounts(j)'
<1>1. \A t \in Tables : /\ sent[j][t] \subseteq RowsOf(t)
                        /\ sent[j][t] # {} => t \in handled[j] \cup cur[j]
  BY Parts DEF OffsetCounts
<1> QED
  BY <1>1 DEF OffsetCounts, RowsOf

\* A job turns to a table it has sent nothing of.
LEMMA OpenedOffset == ASSUME EngineInv, NEW j \in Jobs, NextTable(j)
                      PROVE  OffsetCounts(j)'
<1>1. PICK t \in todo[j] : cur' = [cur EXCEPT ![j] = {t}]
  BY DEF NextTable
<1>2. /\ cur'[j] = {t} /\ pc'[j] = "create" /\ pc[j] = "next"
      /\ UNCHANGED <<handled, page, sent>>
  BY <1>1, Parts DEF NextTable, Goto, ControlTypeOK, pageVars
<1>3. t \in Tables /\ t \notin handled[j] /\ cur[j] = {} /\ page[j] = <<>>
  BY <1>2, Parts DEF ControlTypeOK, LoopInv, OffsetCounts
<1>4. /\ sent[j][t] = {}
      /\ \A u \in Tables : /\ sent[j][u] \subseteq RowsOf(u)
                           /\ sent[j][u] # {} => u \in handled[j] \cup cur[j]
  BY <1>3, Parts DEF OffsetCounts
<1> QED
  BY <1>2, <1>3, <1>4 DEF OffsetCounts, RowsOf

\* transferTable begins to count at zero.
LEMMA EnteredOffset == ASSUME EngineInv, NEW j \in Jobs, pc[j] = "conflict", EnterTransfer(j),
                              UNCHANGED <<loopVars, page, sent>>
                       PROVE  OffsetCounts(j)'
<1>1. /\ pc'[j] = "read" /\ off'[j] = 0 /\ UNCHANGED <<cur, handled, page, sent>>
  BY Parts DEF EnterTransfer, Goto, ControlTypeOK, DataTypeOK, loopVars
<1>2. /\ page[j] = <<>> /\ \A t \in cur[j] : sent[j][t] = {}
      /\ \A t \in Tables : /\ sent[j][t] \subseteq RowsOf(t)
                           /\ sent[j][t] # {} => t \in handled[j] \cup cur[j]
  BY Parts DEF OffsetCounts
<1>3. IsInjective(<<>>) /\ ToSet(<<>>) = {} /\ Cardinality({}) = 0
  BY FS_EmptySet DEF IsInjective, ToSet
<1> QED
  BY <1>1, <1>2, <1>3 DEF OffsetCounts, RowsOf

\* A page lists rows that come after those sent, and none twice.
LEMMA ReadOffset == ASSUME EngineInv, NEW j \in Jobs, ReadPage(j)
                    PROVE  OffsetCounts(j)'
<1>1. PICK t \in Tables : cur[j] = {t} /\ t \notin handled[j]
  BY AtOneTable DEF ReadPage
<1> DEFINE p == Page(t, off[j], opt[j].batch)
<1>2. /\ pc[j] = "read" /\ pc'[j] = "insert" /\ page'[j] = p
      /\ UNCHANGED <<off, cur, handled, sent, source>>
  BY <1>1, Parts DEF ReadPage, Goto, ControlTypeOK, DataTypeOK, loopVars, dbVars
<1>3. off[j] \in Nat /\ opt[j].batch \in Nat \ {0} /\ source[t] \in Seq(Nat)
  BY Parts DEF DataTypeOK, ControlTypeOK, Options
<1>4. /\ p \in Seq(Nat)
      /\ \A i \in DOMAIN p : off[j] + i \in DOMAIN source[t] /\ p[i] = source[t][off[j] + i]
  BY <1>3, Parts, PageOf
<1> HIDE DEF p
<1>5. /\ Cardinality(sent[j][t]) = off[j]
      /\ Ahead(j, t, 0) \cap sent[j][t] = {}
      /\ IsInjective(source[t]) /\ ToSet(source[t]) \subseteq RowsOf(t)
  <2>1. page[j] = <<>> /\ Ahead(j, t, Len(page[j])) \cap sent[j][t] = {}
    BY <1>1, <1>2, Parts DEF OffsetCounts
  <2>2. Len(page[j]) = 0
    BY <2>1
  <2> QED
    BY <1>1, <1>2, <2>1, <2>2, Parts DEF OffsetCounts, SourceShrinks
<1>6. \A i \in DOMAIN p : i \in 1..Len(p)
  BY <1>4
<1>7. IsInjective(p)
  <2> SUFFICES ASSUME NEW a \in DOMAIN p, NEW b \in DOMAIN p, p[a] = p[b] PROVE a = b
    BY DEF IsInjective
  <2>1. off[j] + a = off[j] + b
    BY <1>4, <1>5 DEF IsInjective
  <2> QED
    BY <1>3, <1>6, <2>1
<1>8. ToSet(p) \subseteq Ahead(j, t, 0) /\ ToSet(p) \subseteq RowsOf(t)
  <2>1. ASSUME NEW i \in DOMAIN p PROVE p[i] \in Ahead(j, t, 0) /\ p[i] \in ToSet(source[t])
    <3>1. off[j] + i > off[j] + 0
      BY <1>3, <1>6
    <3> QED
      BY <1>4, <3>1 DEF Ahead, ToSet
  <2> QED
    BY <1>5, <2>1 DEF ToSet
<1>9. Ahead(j, t, Len(p)) \cap ToSet(p) = {}
  <2> SUFFICES ASSUME NEW k \in DOMAIN source[t], k > off[j] + Len(p), NEW i \in DOMAIN p,
                      source[t][k] = p[i]
               PROVE  FALSE
    BY DEF Ahead, ToSet
  <2>1. k = off[j] + i
    BY <1>4, <1>5 DEF IsInjective
  <2> QED
    BY <1>3, <1>4, <1>6, <2>1
<1>10. Ahead(j, t, Len(p)) \subseteq Ahead(j, t, 0)
  <2> SUFFICES ASSUME NEW k \in DOMAIN source[t], k > off[j] + Len(p)
               PROVE  k > off[j] + 0
    BY DEF Ahead
  <2>1. Len(p) \in Nat
    BY <1>4
  <2>2. k \in Nat
    BY <1>3
  <2> QED
    BY <1>3, <2>1, <2>2
<1>11. {source'[t][i] : i \in {k \in DOMAIN source'[t] : k > off'[j] + Len(page'[j])}}
         \cap (sent'[j][t] \cup ToSet(page'[j])) = {}
  BY <1>2, <1>5, <1>9, <1>10 DEF Ahead
<1>12. sent[j][t] \cap ToSet(p) = {}
  BY <1>5, <1>8
<1>13. \A u \in Tables : /\ sent[j][u] \subseteq RowsOf(u)
                         /\ sent[j][u] # {} => u \in handled[j] \cup cur[j]
  BY Parts DEF OffsetCounts
<1>14. /\ Cardinality(sent'[j][t]) = off'[j]
       /\ IsInjective(page'[j]) /\ ToSet(page'[j]) \subseteq RowsOf(t)
       /\ sent'[j][t] \cap ToSet(page'[j]) = {}
  BY <1>2, <1>5, <1>7, <1>8, <1>12
<1> QED
  BY <1>1, <1>2, <1>11, <1>13, <1>14 DEF OffsetCounts, RowsOf, Ahead

\* An insert that takes effect moves the page to what is sent.
LEMMA InsertedOffset == ASSUME EngineInv, NEW j \in Jobs, pc[j] = "insert", InsertLands(j),
                               page'[j] = <<>>, UNCHANGED <<source, cur, handled>>,
                               \/ pc'[j] = "read" /\ off'[j] = off[j] + Len(page[j])
                               \/ pc'[j] = "ended"
                        PROVE  OffsetCounts(j)'
<1>1. PICK t \in Tables :
        /\ cur[j] = {t}
        /\ ToSet(page[j]) \subseteq RowsOf(t)
        /\ sent[j][t] \cap ToSet(page[j]) = {}
        /\ sent'[j][t] = sent[j][t] \cup ToSet(page[j])
        /\ \A k \in Jobs : \A u \in Tables : k # j \/ u # t => sent'[k][u] = sent[k][u]
  <2>1. \E t \in Tables :
          /\ cur[j] = {t} /\ t \notin handled[j]
          /\ target' = Inserted(t, page[j])
          /\ ToSet(page[j]) \subseteq RowsOf(t)
          /\ sent[j][t] \cap ToSet(page[j]) = {}
          /\ sent' \in [Jobs -> [Tables -> SUBSET Nat]]
          /\ sent'[j][t] = sent[j][t] \cup ToSet(page[j])
          /\ \A k \in Jobs : \A u \in Tables : k # j \/ u # t => sent'[k][u] = sent[k][u]
    BY PageSent
  <2> QED
    BY <2>1
<1>2. /\ page[j] \in Seq(Nat) /\ off[j] \in Nat /\ IsInjective(page[j])
      /\ Cardinality(sent[j][t]) = off[j]
      /\ Ahead(j, t, Len(page[j])) \cap (sent[j][t] \cup ToSet(page[j])) = {}
      /\ \A u \in Tables : /\ sent[j][u] \subseteq RowsOf(u)
                           /\ sent[j][u] # {} => u \in handled[j] \cup cur[j]
  <2>1. page[j] \in Seq(Nat) /\ off[j] \in Nat
    BY Parts DEF DataTypeOK
  <2>2. OffsetCounts(j) /\ t \in cur[j]
    BY <1>1, Parts
  <2> QED
    BY <2>1, <2>2 DEF OffsetCounts
<1>3. \A u \in Tables : /\ sent'[j][u] \subseteq RowsOf(u)
                        /\ sent'[j][u] # {} => u \in handled'[j] \cup cur'[j]
  BY <1>1, <1>2
<1>4. Cardinality(sent'[j][t]) = off[j] + Len(page[j])
  <2>1. IsFiniteSet(ToSet(page[j])) /\ Cardinality(ToSet(page[j])) = Len(page[j])
    BY <1>2, InjectiveSize
  <2>2. IsFiniteSet(sent[j][t])
    <3>1. sent[j][t] \in SUBSET RowsOf(t)
      BY <1>2
    <3> QED
      BY <3>1, Rows, FS_Subset
  <2>3. Cardinality(sent[j][t] \cup ToSet(page[j]))
          = Cardinality(sent[j][t]) + Cardinality(ToSet(page[j]))
              - Cardinality(sent[j][t] \cap ToSet(page[j]))
    BY <2>1, <2>2, FS_Union
  <2>4. Cardinality(sent[j][t] \cap ToSet(page[j])) = 0
    BY <1>1, FS_EmptySet
  <2>5. Len(page[j]) \in Nat
    BY <1>2
  <2> QED
    BY <1>1, <1>2, <2>1, <2>3, <2>4, <2>5
<1>5. CASE pc'[j] = "ended"
  BY <1>3, <1>5 DEF OffsetCounts, RowsOf
<1>6. CASE pc'[j] = "read" /\ off'[j] = off[j] + Len(page[j])
  <2>1. IsInjective(<<>>) /\ ToSet(<<>>) = {} /\ Len(<<>>) = 0
    BY DEF IsInjective, ToSet
  <2>2. Len(page[j]) \in Nat
    BY <1>2
  <2>3. off'[j] + Len(page'[j]) = off[j] + Len(page[j])
    BY <1>2, <1>6, <2>1, <2>2
  <2>4. {source'[t][i] : i \in {k \in DOMAIN source'[t] : k > off'[j] + Len(page'[j])}}
          \cap (sent'[j][t] \cup ToSet(page'[j])) = {}
    BY <1>1, <1>2, <2>1, <2>3 DEF Ahead
  <2>5. /\ Cardinality(sent'[j][t]) = off'[j]
        /\ IsInjective(page'[j]) /\ ToSet(page'[j]) \subseteq RowsOf(t)
        /\ sent'[j][t] \cap ToSet(page'[j]) = {}
    BY <1>4, <1>6, <2>1
  <2>6. cur'[j] = {t} /\ pc'[j] = "read" /\ page'[j] = <<>>
    BY <1>1, <1>6
  <2> QED
    BY <1>3, <2>4, <2>5, <2>6 DEF OffsetCounts, RowsOf, Ahead
<1> QED
  BY <1>5, <1>6

\* A deletion moves rows up: those ahead of the page stay a part of those ahead.
LEMMA DeletedOffset == ASSUME EngineInv, NEW t \in Tables, SourceDelete(t), NEW j \in Jobs
                       PROVE  OffsetCounts(j)'
<1>1. PICK k \in DOMAIN source[t] : source' = [source EXCEPT ![t] = RemoveAt(@, k)]
  BY DEF SourceDelete
<1>2. /\ \A u \in Tables \ {t} : source'[u] = source[u]
      /\ source[t] \in Seq(Nat) /\ source'[t] \in Seq(Nat)
      /\ Len(source'[t]) = Len(source[t]) - 1
      /\ \A i \in DOMAIN source'[t] :
           /\ i \in DOMAIN source[t] /\ i + 1 \in DOMAIN source[t]
           /\ source'[t][i] = IF i < k THEN source[t][i] ELSE source[t][i + 1]
  BY <1>1, DeleteStep
<1>3. UNCHANGED <<pc, off, page, sent, cur, handled>>
  BY DEF SourceDelete, loopVars, pageVars
<1>4. OffsetCounts(j) /\ off[j] \in Nat /\ page[j] \in Seq(Nat) /\ cur[j] \subseteq Tables
  BY Parts DEF DataTypeOK, ControlTypeOK
<1>5. ASSUME NEW u \in Tables, NEW n \in Nat
      PROVE  {source'[u][i] : i \in {m \in DOMAIN source'[u] : m > n}}
               \subseteq {source[u][i] : i \in {m \in DOMAIN source[u] : m > n}}
  <2>1. CASE u # t
    BY <1>2, <2>1
  <2>2. CASE u = t
    <3> SUFFICES ASSUME NEW i \in DOMAIN source'[t], i > n
                 PROVE  \E m \in DOMAIN source[t] : m > n /\ source[t][m] = source'[t][i]
      BY <2>2
    <3>1. i \in Nat
      BY SMTT(30), <1>2
    <3>2. i + 1 > n
      BY <3>1
    <3> QED
      BY <1>2, <3>2
  <2> QED
    BY <2>1, <2>2
<1>6. off[j] + Len(page[j]) \in Nat
  BY <1>4
<1>7. ASSUME NEW u \in cur[j], pc[j] \in {"read", "insert"}
      PROVE  {source'[u][i] : i \in {m \in DOMAIN source'[u] : m > off[j] + Len(page[j])}}
               \cap (sent[j][u] \cup ToSet(page[j])) = {}
  <2>1. Ahead(j, u, Len(page[j])) \cap (sent[j][u] \cup ToSet(page[j])) = {}
    BY <1>4, <1>7 DEF OffsetCounts
  <2>2. u \in Tables
    BY <1>4
  <2> QED
    BY <1>5, <1>6, <2>1, <2>2 DEF Ahead
<1>8. /\ pc[j] # "insert" => page[j] = <<>>
      /\ \A u \in Tables : /\ sent[j][u] \subseteq RowsOf(u)
                           /\ sent[j][u] # {} => u \in handled[j] \cup cur[j]
      /\ \A u \in cur[j] :
           /\ pc[j] \in {"create", "conflict"} => sent[j][u] = {}
           /\ pc[j] \in {"read", "insert"} =>
                /\ Cardinality(sent[j][u]) = off[j]
                /\ IsInjective(page[j]) /\ ToSet(page[j]) \subseteq RowsOf(u)
                /\ sent[j][u] \cap ToSet(page[j]) = {}
  BY <1>4 DEF OffsetCounts
<1> QED
  BY <1>3, <1>7, <1>8 DEF OffsetCounts, RowsOf, Ahead

\* No step breaks the account of the rows a job has sent.
LEMMA NextOffset == ASSUME EngineInv, [Next]_vars, NEW k \in Jobs PROVE OffsetCounts(k)'
<1>1. ASSUME UNCHANGED vars PROVE OffsetCounts(k)'
  <2>1. Calm(k) /\ UNCHANGED source
    BY <1>1 DEF vars, loopVars, pageVars, dbVars, Calm
  <2> QED
    BY <2>1, CalmOffset
<1>2. ASSUME NEW j \in Jobs, (\E o \in Requested : Start(j, o)) \/ Cancel(j) \/ Work(j)
      PROVE  OffsetCounts(k)'
  <2>0. /\ pc \in [Jobs -> PCs] /\ cur \in [Jobs -> SUBSET Tables]
        /\ handled \in [Jobs -> SUBSET Tables] /\ off \in [Jobs -> Nat]
        /\ page \in [Jobs -> Seq(Nat)] /\ sent \in [Jobs -> [Tables -> SUBSET Nat]]
        /\ page[j] # <<>> => pc[j] = "insert"
    BY Parts DEF ControlTypeOK, DataTypeOK, OffsetCounts
  <2>1. CASE k # j \/ Cancel(j)
    <3>1. UNCHANGED source
      BY <1>2 DEF Work, Start, Cancel, Begin, FetchSchema, FinishDryRun, SchemaFails,
           NextTable, TableCancelled, Finish, CreateTable, Truncate, SkipTable, CountedZero,
           NoConflictCheck, ReadPage, LastPage, ReadFails, InsertBatch, InsertFails, dbVars
    <3>2. CASE (\E o \in Requested : Start(j, o)) \/ Cancel(j)
      <4>1. Calm(k)
        BY <2>0, <2>1, <3>2 DEF Calm, Start, Cancel, Goto, loopVars, pageVars
      <4> QED
        BY <3>1, <4>1, CalmOffset
    <3>3. CASE k # j /\ (InsertBatch(j) \/ InsertFails(j))
      <4>1. /\ \/ off' = [off EXCEPT ![j] = @ + Len(page[j])] \/ UNCHANGED off
            /\ page' = [page EXCEPT ![j] = <<>>]
            /\ \E l \in PCs : pc' = [pc EXCEPT ![j] = l]
            /\ UNCHANGED <<cur, handled>>
        BY <3>3 DEF InsertBatch, InsertFails, Goto, Fail, loopVars, PCs
      <4>2. sent'[k] = sent[k]
        BY <2>0, <3>3 DEF InsertBatch, InsertFails, InsertLands
      <4>3. Calm(k)
        BY <2>0, <3>3, <4>1, <4>2 DEF Calm
      <4> QED
        BY <3>1, <4>3, CalmOffset
    <3>4. CASE k # j /\ Work(j) /\ ~(InsertBatch(j) \/ InsertFails(j))
      <4>1. UNCHANGED sent
        BY <3>4 DEF Work, Begin, FetchSchema, FinishDryRun, SchemaFails, NextTable,
             TableCancelled, Finish, CreateTable, Truncate, SkipTable, CountedZero,
             NoConflictCheck, ReadPage, LastPage, ReadFails, pageVars
      <4>2. off'[k] = off[k] /\ page'[k] = page[k]
        BY <2>0, <3>4 DEF Work, Begin, FetchSchema, FinishDryRun, SchemaFails, NextTable,
             TableCancelled, Finish, CreateTable, Truncate, SkipTable, CountedZero,
             NoConflictCheck, ReadPage, LastPage, ReadFails, EnterTransfer, pageVars
      <4>3. pc'[k] = pc[k]
        BY <2>0, <3>4 DEF Work, Begin, FetchSchema, FinishDryRun, SchemaFails, NextTable,
             TableCancelled, Finish, CreateTable, Truncate, SkipTable, CountedZero,
             NoConflictCheck, ReadPage, LastPage, ReadFails, EnterTransfer, FinishTable,
             Goto, Fail
      <4>4. cur'[k] = cur[k] /\ handled'[k] = handled[k]
        BY <2>0, <3>4 DEF Work, Begin, FetchSchema, FinishDryRun, SchemaFails, NextTable,
             TableCancelled, Finish, CreateTable, Truncate, SkipTable, CountedZero,
             NoConflictCheck, ReadPage, LastPage, ReadFails, FinishTable, loopVars
      <4>5. Calm(k)
        BY <4>1, <4>2, <4>3, <4>4 DEF Calm
      <4> QED
        BY <3>1, <4>5, CalmOffset
    <3> QED
      BY <1>2, <2>1, <3>2, <3>3, <3>4
  <2>2. ASSUME k = j, \/ \E o \in Requested : Start(j, o)
                      \/ Begin(j) \/ FetchSchema(j) \/ FinishDryRun(j) \/ SchemaFails(j)
                      \/ TableCancelled(j) \/ Finish(j) \/ SkipTable(j) \/ LastPage(j)
                      \/ ReadFails(j)
        PROVE  OffsetCounts(k)'
    <3>1. /\ pc[j] # "insert" /\ page[j] = <<>>
          /\ pc'[j] \in {"begin", "schema", "next", "ended"}
          /\ UNCHANGED <<page, sent>>
      BY <2>0, <2>2 DEF Start, Begin, FetchSchema, FinishDryRun, SchemaFails, TableCancelled,
           Finish, SkipTable, LastPage, ReadFails, FinishTable, Goto, Fail, pageVars
    <3>2. handled[j] \cup cur[j] \subseteq handled'[j] \cup cur'[j]
      BY <2>0, <2>2 DEF Start, Begin, FetchSchema, FinishDryRun, SchemaFails, TableCancelled,
           Finish, SkipTable, LastPage, ReadFails, FinishTable, loopVars
    <3> QED
      BY <2>2, <3>1, <3>2, ClosedOffset
  <2>3. ASSUME k = j, CreateTable(j) PROVE OffsetCounts(k)'
    <3>1. /\ pc[j] = "create" /\ pc'[j] = "conflict"
          /\ UNCHANGED <<page, sent, off, cur, handled>>
      BY <2>0, <2>3 DEF CreateTable, Goto, loopVars, pageVars
    <3> QED
      BY <2>3, <3>1, Parts DEF OffsetCounts, RowsOf
  <2>4. ASSUME k = j, Truncate(j) \/ CountedZero(j) \/ NoConflictCheck(j)
        PROVE  OffsetCounts(k)'
    <3>1. pc[j] = "conflict" /\ EnterTransfer(j) /\ UNCHANGED <<loopVars, page, sent>>
      BY <2>4 DEF Truncate, CountedZero, NoConflictCheck
    <3> QED
      BY <2>4, <3>1, EnteredOffset
  <2>5. ASSUME k = j, InsertBatch(j) \/ InsertFails(j) PROVE OffsetCounts(k)'
    <3>1. /\ pc[j] = "insert" /\ page'[j] = <<>> /\ UNCHANGED <<source, cur, handled>>
          /\ \/ pc'[j] = "read" /\ off'[j] = off[j] + Len(page[j]) /\ InsertLands(j)
             \/ pc'[j] = "ended"
      BY <2>0, <2>5 DEF InsertBatch, InsertFails, Goto, Fail, loopVars
    <3>2. CASE InsertLands(j)
      BY <2>5, <3>1, <3>2, InsertedOffset
    <3>3. CASE ~InsertLands(j)
      <4>1. UNCHANGED sent /\ pc'[j] = "ended"
        BY <2>5, <3>1, <3>3 DEF InsertBatch, InsertFails
      <4> QED
        BY <2>5, <3>1, <4>1, ClosedOffset
    <3> QED
      BY <3>2, <3>3
  <2> QED
    BY <1>2, <2>1, <2>2, <2>3, <2>4, <2>5, OpenedOffset, ReadOffset DEF Work
<1> QED
  BY <1>1, <1>2, DeletedOffset DEF Next

\* The content of the databases, by induction.
THEOREM ContentInvariance == Spec => []ContentInv
<1>1. Init => EngineInv
  BY InitContent
<1>2. EngineInv /\ [Next]_vars => EngineInv'
  <2> SUFFICES ASSUME EngineInv, [Next]_vars PROVE EngineInv'
    OBVIOUS
  <2>1. ControlInv'
    BY Parts, NextControl
  <2>2. DataTypeOK'
    BY NextPageTypes, NextCopies DEF DataTypeOK, CopyInv, TargetOK
  <2>3. StatusHonest' /\ ControlTypeOK'
    BY <2>1 DEF ControlInv, JobInv, StatusHonest
  <2>4. CopiesAccounted' /\ SendersFinite'
    BY NextCopies DEF CopyInv, CopiesAccounted, SendersFinite, Senders
  <2>5. LossBounded' /\ SourceShrinks' /\ \A j \in Jobs : OffsetCounts(j)'
    BY NextLoss, NextShrinks, NextOffset
  <2> QED
    BY <2>1, <2>2, <2>3, <2>4, <2>5 DEF EngineInv, ContentInv, TypeOK
<1>3. EngineInv => ContentInv
  BY DEF EngineInv
<1> QED
  BY <1>1, <1>2, <1>3, PTL DEF Spec

=============================================================================
