------------------------------ MODULE MCScheduler ------------------------------
(* Instances of the scheduler for TLC.                                       *)
EXTENDS Scheduler, TLC

CONSTANTS often, seldom, rare, empty

\* "often" matches every second time, "seldom" every third, "rare" once in a long while.
Calendar ==
    [e \in Exprs |-> CASE e = often  -> {1, 3, 5, 7, 9}
                       [] e = seldom -> {1, 4, 7, 10}
                       [] e = rare   -> {1, 20}
                       [] e = empty  -> {}]

\* The schedules are interchangeable (safety runs only).
Symmetry == Permutations(Ids)

=============================================================================
