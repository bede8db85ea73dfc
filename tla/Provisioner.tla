------------------------------ MODULE Provisioner ------------------------------
(***************************************************************************)
(* Databases that the server starts for itself: internal/provisioner, New  *)
(* at the start of cmd/server/main.go and Shutdown at its end.             *)
(*                                                                         *)
(* One goroutine for each database, under one mutex and one context of two *)
(* minutes, brings a container up (or, without docker, a PostgreSQL as a   *)
(* child process or a MySQL inside this one), registers a connection and   *)
(* seeds a sample table.  Containers and the child outlive the process,    *)
(* so that a start finds what an earlier one left.  Signals are listened   *)
(* to only after New: before that they kill the process, as a crash does.  *)
(* Shutdown has fifteen seconds for all containers together.               *)
(*                                                                         *)
(* Docker, the servers and the manager's Add and Remove are seen from      *)
(* here: what a call does outside, and whether its answer comes.  provision *)
(* is called once for each database, so started is empty when it begins.   *)
(***************************************************************************)
EXTENDS Naturals, FiniteSets

CONSTANTS
    Dbs,          \* defaultDBs
    KindOf,       \* "postgres", "mysql" (and MariaDB), "plain" (Redis, MongoDB)
    Nobody,       \* no goroutine
    Worlds        \* what is found and what may happen: docker available, the containers
                  \* before the first start; bounds: the databases looked at, the
                  \* deaths, mishaps and guests

ASSUME ProvisionerAssumption ==
    /\ KindOf \in [Dbs -> {"postgres", "mysql", "plain"}]
    /\ Nobody \notin Dbs
    /\ Worlds \subseteq [docker : BOOLEAN, dbs : SUBSET Dbs,
                         boxes : [Dbs -> {"none", "running", "exited", "paused"}],
                         deaths : Nat, mishaps : Nat, guests : Nat]

VARIABLES
    phase,        \* of the process
    mu,           \* p.mu
    at,           \* where each goroutine of New stands; in Shutdown, each database
    expired,      \* the context of New, or of Shutdown, is done
    started,      \* d.started, embeddedPG.instance, embeddedMY.instances
    conn,         \* the connection added to the manager
    provisioned,
    box,          \* the container of each database
    server,       \* an embedded server: none, a child process, inside this process
    data,         \* tables of each database, and how often the sample rows are there
    guest,        \* databases to which a connection of a user is open
    left,         \* what of the world has not happened yet
    ours,         \* history: running because some process of the server started it
    abandoned,    \* ... and that process has ended
    faulted       \* a command of this process for the database has failed

proc == <<started, conn, provisioned>>
world == <<box, server, data, guest>>
hist == <<ours, abandoned, faulted>>
provVars == <<phase, mu, at, expired, proc, world, left, hist>>

Docker == left.docker
Sql(d) == KindOf[d] # "plain"
Serves(d) == box[d] = "running" \/ server[d] # "none"
Nothing == [tables |-> {}, samples |-> 0]

ProvTypeOK ==
    /\ phase \in {"down", "starting", "serving", "stopping", "ended"}
    /\ mu \in Dbs \cup {Nobody}
    /\ at \in [Dbs -> {"off", "lock", "image", "status", "start", "run", "ready", "find", "launch",
                       "add", "schema", "create", "insert", "note", "failed", "done",
                       "stop", "drain"}]
    /\ started \subseteq Dbs /\ provisioned \subseteq Dbs
    /\ conn \in [Dbs -> {"none", "failed", "open"}]
    /\ box \in [Dbs -> {"none", "created", "running", "exited", "paused"}]
    /\ server \in [Dbs -> {"none", "child", "inside"}]
    /\ \A d \in Dbs : data[d].tables \subseteq {"own", "sample"}
    /\ \A d \in Dbs : at[d] \notin {"off", "lock", "failed", "done", "stop", "drain"} <=> mu = d

ProvInit ==
    /\ phase = "down" /\ mu = Nobody /\ expired = FALSE
    /\ at = [d \in Dbs |-> "off"]
    /\ conn = [d \in Dbs |-> "none"]
    /\ started = {} /\ provisioned = {} /\ guest = {}
    /\ left \in Worlds
    /\ box = left.boxes
    /\ data = [d \in Dbs |-> Nothing]
    /\ server = [d \in Dbs |-> "none"]
    /\ ours = {} /\ abandoned = {} /\ faulted = {}

Go(d, l) == at' = [at EXCEPT ![d] = l]
Leave(d, l) == Go(d, l) /\ mu' = Nobody
Failed(d) == faulted' = faulted \cup {d}

\* A call fails: for nothing once the context is done, else by a mishap.
Trouble ==
    IF expired THEN UNCHANGED left
    ELSE left.mishaps > 0 /\ left' = [left EXCEPT !.mishaps = @ - 1]

Brought(d) == box' = [box EXCEPT ![d] = "running"] /\ ours' = ours \cup {d}

-----------------------------------------------------------------------------
(* New.                                                                      *)

\* A process starts.  Whether checkDocker finds docker is the same each time.
New ==
    /\ phase = "down"
    /\ phase' = "starting"
    /\ at' = [d \in Dbs |-> IF d \in left.dbs THEN "lock" ELSE "failed"]
    /\ expired' = FALSE /\ faulted' = {}
    /\ UNCHANGED <<mu, proc, world, left, ours, abandoned>>

\* With docker there is no way back to the embedded servers.
Lock(d) ==
    /\ at[d] = "lock" /\ mu = Nobody
    /\ IF ~Docker /\ KindOf[d] = "plain" THEN Leave(d, "failed")
       ELSE Go(d, IF Docker THEN "image" ELSE IF KindOf[d] = "postgres" THEN "find" ELSE "launch")
            /\ mu' = d
    /\ UNCHANGED <<phase, expired, proc, world, left, hist>>

\* ensureImage.
ImageThere(d) ==
    /\ at[d] = "image" /\ ~expired
    /\ Go(d, "status")
    /\ UNCHANGED <<phase, mu, expired, proc, world, left, hist>>

ImageFails(d) ==
    /\ at[d] = "image" /\ Trouble
    /\ Leave(d, "failed") /\ Failed(d)
    /\ UNCHANGED <<phase, expired, proc, world, ours, abandoned>>

\* Mutation: a container that runs already is used and not noted.
ReadStatusForgets(d) ==
    /\ at[d] = "status" /\ ~expired
    /\ Go(d, CASE box[d] = "running" -> "add"
               [] box[d] \in {"exited", "paused"} -> "start"
               [] OTHER -> "run")
    /\ UNCHANGED <<phase, mu, expired, proc, world, left, hist>>

\* A container that runs already, whoever started it, counts as started.
ReadStatus(d) ==
    /\ at[d] = "status" /\ ~expired
    /\ Go(d, CASE box[d] = "running" -> "add"
               [] box[d] \in {"exited", "paused"} -> "start"
               [] OTHER -> "run")
    /\ started' = IF box[d] = "running" THEN started \cup {d} ELSE started
    /\ UNCHANGED <<phase, mu, expired, conn, provisioned, world, left, hist>>

StatusFails(d) ==
    /\ at[d] = "status" /\ Trouble
    /\ Go(d, "run") /\ Failed(d)
    /\ UNCHANGED <<phase, mu, expired, proc, world, ours, abandoned>>

\* docker start does nothing for a container that is paused.  Neither its
\* error nor that of waitForPort is looked at.
DockerStart(d) ==
    /\ at[d] = "start" /\ ~expired
    /\ IF box[d] = "exited" THEN Brought(d) ELSE UNCHANGED <<box, ours>>
    /\ started' = started \cup {d}
    /\ Go(d, "add")
    /\ UNCHANGED <<phase, mu, expired, conn, provisioned, server, data, guest, left, abandoned, faulted>>

DockerStartFails(d) ==
    /\ at[d] = "start" /\ Trouble
    /\ \/ box[d] = "exited" /\ Brought(d)
       \/ UNCHANGED <<box, ours>>
    /\ started' = started \cup {d}
    /\ Go(d, "add") /\ Failed(d)
    /\ UNCHANGED <<phase, mu, expired, conn, provisioned, server, data, guest, abandoned>>

DockerRun(d) ==
    /\ at[d] = "run" /\ box[d] = "none" /\ ~expired
    /\ Brought(d)
    /\ started' = started \cup {d}
    /\ Go(d, "ready")
    /\ UNCHANGED <<phase, mu, expired, conn, provisioned, server, data, guest, left, abandoned, faulted>>

\* The name is taken; or a container is created and does not run; or it runs
\* and the answer is lost with the context.  None of them counts as started.
DockerRunFails(d) ==
    /\ at[d] = "run"
    /\ IF box[d] # "none" THEN UNCHANGED <<box, ours, left>>
       ELSE /\ Trouble
            /\ \/ Brought(d)
               \/ box' \in {[box EXCEPT ![d] = b] : b \in {"none", "created"}} /\ UNCHANGED ours
    /\ Leave(d, "failed") /\ Failed(d)
    /\ UNCHANGED <<phase, expired, proc, server, data, guest, abandoned>>

\* waitForPort asks docker whether the container runs, not whether the port answers.
WaitReady(d) ==
    /\ at[d] = "ready" /\ box[d] = "running" /\ ~expired
    /\ Go(d, "add")
    /\ UNCHANGED <<phase, mu, expired, proc, world, left, hist>>

ReadyFails(d) ==
    /\ at[d] = "ready"
    /\ IF box[d] # "running" THEN UNCHANGED left ELSE Trouble
    /\ Leave(d, "failed")
    /\ UNCHANGED <<phase, expired, proc, world, hist>>

\* tryExistingPG: a server that lets one of three passwords in is used, and no
\* instance is noted.
FindPostgres(d) ==
    /\ at[d] = "find"
    /\ \/ Serves(d) /\ ~expired /\ Go(d, "add") /\ UNCHANGED left
       \/ Serves(d) /\ Trouble /\ Go(d, "launch")
       \/ ~Serves(d) /\ Go(d, "launch") /\ UNCHANGED left
    /\ UNCHANGED <<phase, mu, expired, proc, world, hist>>

\* The child's start has a limit of its own.  What an earlier child had in its
\* files may be there or not; a MySQL begins empty.
Launch(d) ==
    /\ at[d] = "launch" /\ ~Serves(d)
    /\ IF KindOf[d] = "postgres"
       THEN /\ server' = [server EXCEPT ![d] = "child"]
            /\ \E t \in {data[d], Nothing} : data' = [data EXCEPT ![d] = t]
            /\ ours' = ours \cup {d}
       ELSE /\ ~expired
            /\ server' = [server EXCEPT ![d] = "inside"]
            /\ data' = [data EXCEPT ![d] = Nothing]
            /\ UNCHANGED ours
    /\ started' = started \cup {d}
    /\ Go(d, "add")
    /\ UNCHANGED <<phase, mu, expired, conn, provisioned, box, guest, left, abandoned, faulted>>

\* The port is taken, the download failed, the port does not answer in time.
LaunchFails(d) ==
    /\ at[d] = "launch"
    /\ IF Serves(d) THEN UNCHANGED left ELSE Trouble
    /\ Leave(d, "failed")
    /\ UNCHANGED <<phase, expired, proc, world, hist>>

\* mgr.Add.  A connection that failed stays in the manager.
AddOpens(d) ==
    /\ at[d] = "add" /\ Serves(d) /\ ~expired
    /\ conn' = [conn EXCEPT ![d] = "open"]
    /\ Go(d, IF Sql(d) THEN "schema" ELSE "note")
    /\ UNCHANGED <<phase, mu, expired, started, provisioned, world, left, hist>>

AddFails(d) ==
    /\ at[d] = "add"
    /\ IF Serves(d) THEN Trouble ELSE UNCHANGED left
    /\ conn' = [conn EXCEPT ![d] = "failed"]
    /\ Leave(d, "failed")
    /\ UNCHANGED <<phase, expired, started, provisioned, world, hist>>

-----------------------------------------------------------------------------
(* seedSampleTable: the tables, CREATE TABLE IF NOT EXISTS, INSERT.          *)

ReadSchema(d) ==
    /\ at[d] = "schema" /\ Serves(d) /\ ~expired
    /\ Go(d, IF data[d].tables = {} THEN "create" ELSE "note")
    /\ UNCHANGED <<phase, mu, expired, proc, world, left, hist>>

Created(d) == [data EXCEPT ![d].tables = @ \cup {"sample"}]
Inserted(d) == [data EXCEPT ![d].samples = @ + 1]

CreateSample(d) ==
    /\ at[d] = "create" /\ Serves(d) /\ ~expired
    /\ data' = Created(d)
    /\ Go(d, "insert")
    /\ UNCHANGED <<phase, mu, expired, proc, box, server, guest, left, hist>>

InsertSample(d) ==
    /\ at[d] = "insert" /\ Serves(d) /\ ~expired
    /\ data' = Inserted(d)
    /\ Go(d, "note")
    /\ UNCHANGED <<phase, mu, expired, proc, box, server, guest, left, hist>>

\* A statement that fails ends the seeding, and may have done its work.
SeedFails(d) ==
    /\ at[d] \in {"schema", "create", "insert"}
    /\ IF Serves(d) THEN Trouble ELSE UNCHANGED left
    /\ \/ UNCHANGED data
       \/ Serves(d) /\ at[d] = "create" /\ data' = Created(d)
       \/ Serves(d) /\ at[d] = "insert" /\ data' = Inserted(d)
    /\ Go(d, "note")
    /\ UNCHANGED <<phase, mu, expired, proc, box, server, guest, hist>>

Note(d) ==
    /\ at[d] = "note"
    /\ provisioned' = provisioned \cup {d}
    /\ Leave(d, "done")
    /\ UNCHANGED <<phase, expired, started, conn, world, left, hist>>

Expire ==
    /\ phase \in {"starting", "stopping"} /\ ~expired /\ Trouble
    /\ expired' = TRUE
    /\ UNCHANGED <<phase, mu, at, proc, world, hist>>

\* wg.Wait; the rest of main, up to signal.Notify and the HTTP server.
Serve ==
    /\ phase = "starting" /\ \A d \in Dbs : at[d] \in {"failed", "done"}
    /\ phase' = "serving"
    /\ UNCHANGED <<mu, at, expired, proc, world, left, hist>>

-----------------------------------------------------------------------------
(* What others do.  Requests are served until Shutdown is over.              *)

\* DELETE /connections/:id
UserRemoves(d) ==
    /\ phase = "serving" /\ conn[d] = "open"
    /\ conn' = [conn EXCEPT ![d] = "none"]
    /\ UNCHANGED <<phase, mu, at, expired, started, provisioned, world, left, hist>>

UserCreates(d) ==
    /\ phase = "serving" /\ conn[d] = "open" /\ Serves(d) /\ Sql(d) /\ "own" \notin data[d].tables
    /\ data' = [data EXCEPT ![d].tables = @ \cup {"own"}]
    /\ UNCHANGED <<phase, mu, at, expired, proc, box, server, guest, left, hist>>

\* A connection of its own to an embedded server, through the manager or not.
GuestComes(d) ==
    /\ phase \in {"serving", "stopping"} /\ left.guests > 0
    /\ server[d] = "inside" /\ at[d] # "drain" /\ d \notin guest
    /\ guest' = guest \cup {d}
    /\ left' = [left EXCEPT !.guests = @ - 1]
    /\ UNCHANGED <<phase, mu, at, expired, proc, box, server, data, hist>>

GuestGoes(d) ==
    /\ d \in guest
    /\ guest' = guest \ {d}
    /\ UNCHANGED <<phase, mu, at, expired, proc, box, server, data, left, hist>>

ContainerExits(d) ==
    /\ box[d] = "running" /\ left.mishaps > 0
    /\ left' = [left EXCEPT !.mishaps = @ - 1]
    /\ box' = [box EXCEPT ![d] = "exited"]
    /\ ours' = ours \ {d} /\ abandoned' = abandoned \ {d}
    /\ UNCHANGED <<phase, mu, at, expired, proc, server, data, guest, faulted>>

-----------------------------------------------------------------------------
(* Shutdown, and the end of the process.                                     *)

Signal ==
    /\ phase = "serving"
    /\ phase' = "stopping"
    /\ expired' = FALSE
    /\ at' = [d \in Dbs |-> IF d \in started THEN "stop" ELSE "off"]
    /\ UNCHANGED <<mu, proc, world, left, hist>>

\* An error of Remove (a user has removed it) is logged.  provisioned holds
\* what is left of the loop.
RemoveConn(d) ==
    /\ phase = "stopping" /\ d \in provisioned
    /\ conn' = [conn EXCEPT ![d] = "none"]
    /\ provisioned' = provisioned \ {d}
    /\ UNCHANGED <<phase, mu, at, expired, started, world, left, hist>>

ToStop(d) == phase = "stopping" /\ provisioned = {} /\ at[d] = "stop"
Stopped(d) == ours' = ours \ {d} /\ abandoned' = abandoned \ {d}

StopContainer(d) ==
    /\ ToStop(d) /\ Docker /\ ~expired
    /\ box' = [box EXCEPT ![d] = IF @ \in {"running", "paused"} THEN "exited" ELSE @]
    /\ Stopped(d)
    /\ Go(d, "off")
    /\ UNCHANGED <<phase, mu, expired, proc, server, data, guest, left, faulted>>

\* Its error is not looked at either.
StopFails(d) ==
    /\ ToStop(d) /\ Docker /\ Trouble
    /\ Go(d, "off") /\ Failed(d)
    /\ UNCHANGED <<phase, mu, expired, proc, world, ours, abandoned>>

StopPostgres(d) ==
    /\ ToStop(d) /\ server[d] = "child"
    /\ server' = [server EXCEPT ![d] = "none"]
    /\ Stopped(d)
    /\ Go(d, "off")
    /\ UNCHANGED <<phase, mu, expired, proc, box, data, guest, left, faulted>>

StopPostgresFails(d) ==
    /\ ToStop(d) /\ server[d] = "child"
    /\ left.mishaps > 0 /\ left' = [left EXCEPT !.mishaps = @ - 1]
    /\ Go(d, "off") /\ Failed(d)
    /\ UNCHANGED <<phase, mu, expired, proc, world, ours, abandoned>>

\* The MySQL servers, one after the other, after PostgreSQL: no one new is let in ...
CloseMySQL(d) ==
    /\ ToStop(d) /\ server[d] = "inside"
    /\ \A e \in Dbs : at[e] # "drain" /\ (at[e] = "stop" => server[e] = "inside")
    /\ Go(d, "drain")
    /\ UNCHANGED <<phase, mu, expired, proc, world, left, hist>>

\* ... and those inside are waited for, without a limit.
Drained(d) ==
    /\ at[d] = "drain" /\ d \notin guest /\ conn[d] # "open"
    /\ server' = [server EXCEPT ![d] = "none"]
    /\ Go(d, "off")
    /\ UNCHANGED <<phase, mu, expired, proc, box, data, guest, left, hist>>

ShutdownEnds ==
    /\ phase = "stopping" /\ provisioned = {} /\ \A d \in Dbs : at[d] = "off"
    /\ phase' = "ended"
    /\ UNCHANGED <<mu, at, expired, proc, world, left, hist>>

\* What is left of a process.
Gone ==
    /\ phase' = "down" /\ mu' = Nobody
    /\ at' = [d \in Dbs |-> "off"]
    /\ started' = {} /\ provisioned' = {}
    /\ conn' = [d \in Dbs |-> "none"]
    /\ server' = [d \in Dbs |-> IF server[d] = "inside" THEN "none" ELSE server[d]]
    /\ guest' = {}
    /\ UNCHANGED <<expired, box, data, ours, faulted>>

Exit ==
    /\ phase = "ended"
    /\ abandoned' = abandoned \cup ours
    /\ Gone /\ UNCHANGED left

\* A crash, a signal before signal.Notify, or a port that is taken (os.Exit).
Die ==
    /\ phase \in {"starting", "serving", "stopping"} /\ left.deaths > 0
    /\ left' = [left EXCEPT !.deaths = @ - 1]
    /\ abandoned' = abandoned \cup ours
    /\ Gone

-----------------------------------------------------------------------------

DockerStep(d) ==
    \/ ImageThere(d) \/ ImageFails(d) \/ ReadStatus(d) \/ StatusFails(d)
    \/ DockerStart(d) \/ DockerStartFails(d) \/ DockerRun(d) \/ DockerRunFails(d)
    \/ WaitReady(d) \/ ReadyFails(d)

Provision(d) ==
    \/ Lock(d) \/ DockerStep(d) \/ FindPostgres(d) \/ Launch(d) \/ LaunchFails(d)
    \/ AddOpens(d) \/ AddFails(d)
    \/ ReadSchema(d) \/ CreateSample(d) \/ InsertSample(d) \/ SeedFails(d) \/ Note(d)

Shutdown(d) ==
    \/ RemoveConn(d) \/ StopContainer(d) \/ StopFails(d)
    \/ StopPostgres(d) \/ StopPostgresFails(d) \/ CloseMySQL(d) \/ Drained(d)

ProcessStep == Serve \/ ShutdownEnds \/ \E d \in Dbs : Provision(d) \/ Shutdown(d)

Others(d) == UserRemoves(d) \/ UserCreates(d) \/ GuestComes(d) \/ GuestGoes(d) \/ ContainerExits(d)

ProvNext == ProcessStep \/ New \/ Expire \/ Signal \/ Exit \/ Die \/ \E d \in Dbs : Others(d)

\* The steps of New and of Shutdown come to an end one by one; between two of
\* them the others have a bounded number of steps.
ProvFairness == WF_provVars(ProcessStep)

-----------------------------------------------------------------------------
(* Properties.                                                               *)

\* After a Shutdown nothing runs that a process of the server has started,
\* be it this one or one that died, unless a command for it has failed or been
\* cut off in this process; or it is the child of an earlier one, which later
\* ones use and never stop.
NothingLeft ==
    phase = "ended" =>
        \A d \in ours : d \in faulted \/ (server[d] = "child" /\ d \in abandoned)

\* However often the server starts, dies and starts again: the sample rows get
\* into no database twice.
SampleOnce == \A d \in Dbs : data[d].samples <= 1

\* Shutdown waits for the connections to a MySQL inside this process when the
\* manager has none to it any more: it never waits for itself.
WaitsForOthersOnly ==
    /\ \A d \in Dbs : at[d] = "drain" => conn[d] # "open"
    /\ phase = "ended" => \A d \in Dbs : conn[d] # "open" /\ server[d] # "inside"

\* What the provisioner leaves behind.
ProvisionerInv == ProvTypeOK /\ NothingLeft /\ SampleOnce /\ WaitsForOthersOnly

\* Every start comes to an end, and every Shutdown, but for one that a guest of
\* a MySQL inside this process holds up.
StartsAndStops ==
    []<>(phase \notin {"starting", "stopping"} \/ \E d \in guest : at[d] = "drain")

=============================================================================
