--------------------------- MODULE TransferPromise ---------------------------
(***************************************************************************)
(* What the interface TransferEngine (internal/transfer/interface.go)      *)
(* promises its clients, without pages, statements and databases: a job is *)
(* queued, works through the tables it was asked for, and closes once, with*)
(* "done" only when it has dealt with all of them.  Cancel may show        *)
(* "cancelled" at any time.                                                *)
(***************************************************************************)
CONSTANTS Jobs, Tables

VARIABLES status,   \* what Status shows
          phase,    \* "none", "queued", "open" or "closed"
          wanted,   \* the tables the job was asked to write
          handled   \* the tables it has dealt with

pvars == <<status, phase, wanted, handled>>

Init ==
    /\ status = [j \in Jobs |-> "absent"]
    /\ phase = [j \in Jobs |-> "none"]
    /\ wanted = [j \in Jobs |-> {}]
    /\ handled = [j \in Jobs |-> {}]

Show(j, s) == status' = [status EXCEPT ![j] = s]

Enter(j, p) == phase' = [phase EXCEPT ![j] = p]

Submit(j) ==
    /\ phase[j] = "none"
    /\ Show(j, "pending")
    /\ Enter(j, "queued")
    /\ \E w \in SUBSET Tables : wanted' = [wanted EXCEPT ![j] = w]
    /\ UNCHANGED handled

Open(j) ==
    /\ phase[j] = "queued"
    /\ Show(j, "running")
    /\ Enter(j, "open")
    /\ UNCHANGED <<wanted, handled>>

Handle(j) ==
    /\ phase[j] = "open"
    /\ \E t \in wanted[j] \ handled[j] :
         handled' = [handled EXCEPT ![j] = @ \cup {t}]
    /\ UNCHANGED <<status, phase, wanted>>

Complete(j) ==
    /\ phase[j] = "open"
    /\ handled[j] = wanted[j]
    /\ Show(j, "done")
    /\ Enter(j, "closed")
    /\ UNCHANGED <<wanted, handled>>

Abort(j) ==
    /\ phase[j] = "open"
    /\ Show(j, "failed")
    /\ Enter(j, "closed")
    /\ UNCHANGED <<wanted, handled>>

Stop(j) ==
    /\ phase[j] # "none"
    /\ Show(j, "cancelled")
    /\ UNCHANGED <<phase, wanted, handled>>

Advance(j) == Open(j) \/ Handle(j) \/ Complete(j) \/ Abort(j)

Next == \E j \in Jobs : Submit(j) \/ Stop(j) \/ Advance(j)

Spec == Init /\ [][Next]_pvars

=============================================================================
