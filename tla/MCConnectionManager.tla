------------------------- MODULE MCConnectionManager -------------------------
(* The connection manager for TLC, two connections, two requests and the     *)
(* health checker, without symmetry, which is not sound for liveness; and    *)
(* the provisioner, which gives it its first connections.  Of each other     *)
(* they see only calls, so each is run by itself: "bench" says which.        *)
EXTENDS ConnectionManager, Provisioner, TLC

CONSTANTS pg, my, redis

VARIABLE bench

MCKindOf == pg :> "postgres" @@ my :> "mysql" @@ redis :> "plain"

World(ds, k, boxes) ==
    [dbs |-> ds, docker |-> k, boxes |-> boxes @@ [d \in Dbs |-> "none"],
     deaths |-> 1, mishaps |-> 1, guests |-> IF k THEN 0 ELSE 1]

\* With docker, two databases, whose containers may be there; without, a
\* PostgreSQL and a MySQL, or a foreign PostgreSQL that runs.
MCWorlds ==
    {World({pg, redis}, TRUE, pg :> "none" @@ redis :> "running"),
     World({pg, redis}, TRUE, pg :> "exited"),
     World({pg, redis}, TRUE, pg :> "paused"),
     World({pg, my}, FALSE, pg :> "none"),
     World({pg, redis}, FALSE, pg :> "running")}

On(x) == bench = x

NoProvisioner == ProvInit /\ left = CHOOSE w \in Worlds : TRUE

MCInit ==
    /\ Init
    /\ \/ On("manager") /\ NoProvisioner
       \/ On("provisioner") /\ ProvInit
MCNext ==
    /\ UNCHANGED bench
    /\ \/ On("manager") /\ Next /\ UNCHANGED provVars
       \/ On("provisioner") /\ ProvNext /\ UNCHANGED vars

MCSpec ==
    /\ MCInit /\ [][MCNext]_<<vars, provVars, bench>>
    /\ \A r \in Requests : SF_vars(On("manager") /\ GoOn(r))
    /\ SF_vars(On("manager") /\ (CheckerStep \/ PingStep(Checker)))
    /\ ProvFairness

\* Requests return, and the provisioner's start and stop end.
EveryoneReturns == RequestsReturn /\ StartsAndStops

=============================================================================
