----------------------------- MODULE MCUserStore -----------------------------
\* Instances of UserStore and of Login for TLC: two requests at a time.  The
\* two are run side by side; Login reads the accounts, and what of them it
\* reads, UserStore's handlers change.
EXTENDS UserStore, Login, TLC

VARIABLE bench    \* which of the two this behaviour is about

Symmetry == Permutations(Reqs)

\* Five logins, so that two more follow a block; a challenge and an edit of a
\* role; two challenges; and two crashes with a file that is not read or not written.
Budget(l, c, e, k, f) == [logins |-> l, challenges |-> c, edits |-> e, crashes |-> k, faults |-> f]
MCBudgets == {Budget(5, 0, 0, 0, 0), Budget(2, 1, 1, 0, 0), Budget(1, 2, 0, 0, 0),
              Budget(2, 1, 0, 2, 1)}

NoLogin ==
    /\ LoginInit
    /\ secret /\ left = Budget(5, 0, 0, 0, 0)
    /\ \A u \in Users : account[u] = [role |-> "user", default |-> FALSE]

MCInit ==
    /\ Init
    /\ \/ bench = "accounts" /\ NoLogin
       \/ bench = "login" /\ LoginInit
MCNext ==
    /\ UNCHANGED bench
    /\ \/ bench = "accounts" /\ Next /\ UNCHANGED loginVars
       \/ bench = "login" /\ LoginNext /\ UNCHANGED vars
MCSpec == MCInit /\ [][MCNext]_<<vars, loginVars, bench>>

=============================================================================
