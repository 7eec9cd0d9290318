---------------------------- MODULE Supervisor -----------------------------
(***************************************************************************)
(* The container supervisor (docker/service.py) and the two processes it   *)
(* runs: the model host (functional_model/runtime/service.py and           *)
(* ipc/server.py) and the EtherCAT slave (ethercat_slave/main.cc).         *)
(*                                                                         *)
(* Containers share the host's network interface and, when StateOf maps    *)
(* them to the same directory, the parameter store. Each has a fresh       *)
(* /run/simulator of its own (a tmpfs, compose.yaml), hence its own        *)
(* socket, fixture and status file. A container starts once (restart: no). *)
(*                                                                         *)
(* The children may crash, hang or ignore SIGTERM at any point; SIGTERM    *)
(* may reach the supervisor at any point; the supervisor itself may be     *)
(* killed, and then the container's init kills the rest of the container.  *)
(* A deadline may expire at any moment of the wait it bounds.              *)
(***************************************************************************)
EXTENDS Naturals, FiniteSets

CONSTANTS
  Containers,  \* containers started during the behaviour
  StateDirs,   \* directories mounted as /state
  StateOf,     \* the directory each container mounts
  None         \* no holder of a lock

ASSUME SupervisorAssumption ==
  /\ StateOf \in [Containers -> StateDirs]
  /\ None \notin Containers

\* States of the two children. "killed": SIGKILL, or SIGTERM with the default
\* action, was sent and the kernel has not yet ended the process.
Children  == {"model", "slave"}
HostLive  == {"starting", "loaded", "fixture", "bound", "listening", "serving"}
SlaveLive == {"starting", "connected", "described", "opened", "running"}
Live      == [model |-> HostLive, slave |-> SlaveLive]
Exits     == {"exit0", "exit1"}

\* Where stop_process is: about to signal p, in its first or its second wait.
Stopping == [model |-> "stopModel", slave |-> "stopSlave"]
Waiting  == [model |-> "waitModel", slave |-> "waitSlave"]
Reaping  == [model |-> "reapModel", slave |-> "reapSlave"]

\* A container:
\*   sup       where main() of the supervisor is
\*   validate  args.validate_only
\*   stopping  set by SIGTERM or SIGINT
\*   expired   the configured session timeout has passed
\*   error     what the exception that set result = 1 was about
\*   status    event of status.json
\*   sock      RUN/model.sock exists
\*   fixture   RUN/fixture was generated
\*   linked    the slave has connected to the socket
\*   term      SIGTERM was sent to the slave (running = 0)
\*   model     the model host
\*   slave     the EtherCAT slave
Container ==
  [sup : {"off", "acquire", "awaitSocket", "awaitNic", "ready", "stopSlave", "waitSlave",
          "reapSlave", "stopModel", "waitModel", "reapModel", "finish", "done", "gone"},
   validate : BOOLEAN, stopping : BOOLEAN, expired : BOOLEAN,
   error : {"none", "startup", "slave", "session"},
   status : {"none", "validated", "ready", "model-failed", "failed", "stopped"},
   sock : BOOLEAN, fixture : BOOLEAN, linked : BOOLEAN, term : BOOLEAN,
   model : HostLive \cup Exits \cup {"none", "killed"},
   slave : SlaveLive \cup Exits \cup {"none", "killed"}]

VARIABLES
  con,          \* con[c]: the container c
  serviceLock,  \* container that holds STATE/.service.lock
  storeLock,    \* container whose model host holds the store's .lock
  nic           \* containers with an EtherCAT packet socket on the interface

vars == <<con, serviceLock, storeLock, nic>>
locks == <<serviceLock, storeLock, nic>>

\* Every variable has its type.
TypeOK ==
  /\ con \in [Containers -> Container]
  /\ serviceLock \in [StateDirs -> Containers \cup {None}]
  /\ storeLock \in [StateDirs -> Containers \cup {None}]
  /\ nic \subseteq Containers

Fresh(v) ==
  [sup |-> "off", validate |-> v, stopping |-> FALSE, expired |-> FALSE, error |-> "none",
   status |-> "none", sock |-> FALSE, fixture |-> FALSE, linked |-> FALSE, term |-> FALSE,
   model |-> "none", slave |-> "none"]

Init ==
  /\ con \in [Containers -> {Fresh(v) : v \in BOOLEAN}]
  /\ serviceLock = [d \in StateDirs |-> None]
  /\ storeLock = [d \in StateDirs |-> None]
  /\ nic = {}

Exited(c, p) == con[c][p] \in Exits

Drop(lock, c) == IF lock[StateOf[c]] = c THEN [lock EXCEPT ![StateOf[c]] = None] ELSE lock

(***************************************************************************)
(* The supervisor. An exception in the try block writes 'failed' and runs  *)
(* finally.                                                                *)
(***************************************************************************)
Fails(c, cause) ==
  [con EXCEPT ![c].sup = "stopSlave", ![c].error = cause, ![c].status = "failed"]

Start(c) ==
  /\ con[c].sup = "off"
  /\ con' = [con EXCEPT ![c].sup = "acquire"]
  /\ UNCHANGED locks

\* Mutant of Acquire: the lock is taken without looking who holds it.
AcquireUnlocked(c) ==
  /\ con[c].sup = "acquire"
  /\ \/ con' = Fails(c, "startup") /\ UNCHANGED serviceLock
     \/ /\ serviceLock' = [serviceLock EXCEPT ![StateOf[c]] = c]
        /\ con' = IF con[c].validate \/ nic = {}
                    THEN [con EXCEPT ![c].sup = "awaitSocket", ![c].model = "starting"]
                    ELSE Fails(c, "startup")
  /\ UNCHANGED <<storeLock, nic>>

\* settings, flock without waiting, load_environment and check_nic, then the
\* model host is started. The settings may be refused before the lock is taken,
\* the configuration or the interface (route, carrier, owners) after it.
Acquire(c) ==
  /\ con[c].sup = "acquire"
  /\ \/ con' = Fails(c, "startup") /\ UNCHANGED serviceLock
     \/ /\ serviceLock[StateOf[c]] = None
        /\ serviceLock' = [serviceLock EXCEPT ![StateOf[c]] = c]
        /\ \/ con' = Fails(c, "startup")
           \/ /\ con[c].validate \/ nic = {}
              /\ con' = [con EXCEPT ![c].sup = "awaitSocket", ![c].model = "starting"]
  /\ UNCHANGED <<storeLock, nic>>

\* One pass of the loop that waits for the socket file, or for the host's exit
\* when validating; its deadline is 20 s.
AwaitSocket(c) ==
  /\ con[c].sup = "awaitSocket"
  /\ \/ /\ con[c].stopping
        /\ con' = [con EXCEPT ![c].sup = "stopSlave"]
     \/ /\ ~con[c].stopping /\ con[c].validate /\ con[c].model = "exit0"
        /\ con' = [con EXCEPT ![c].sup = "stopSlave", ![c].status = "validated"]
     \/ /\ ~con[c].stopping /\ ~con[c].validate /\ ~Exited(c, "model") /\ con[c].sock
        /\ con' = [con EXCEPT ![c].sup = "awaitNic", ![c].slave = "starting"]
     \/ /\ ~con[c].stopping
        /\ IF con[c].validate THEN con[c].model # "exit0"
                              ELSE Exited(c, "model") \/ ~con[c].sock
        /\ con' = Fails(c, "startup")
  /\ UNCHANGED locks

\* One pass of the loop that waits for a packet socket on the interface,
\* anyone's; a child's exit or the deadline of 10 s ends it.
AwaitNic(c) ==
  /\ con[c].sup = "awaitNic"
  /\ \/ /\ con[c].stopping \/ nic # {}
        /\ con' = [con EXCEPT ![c].sup = "ready"]
     \/ /\ ~con[c].stopping /\ nic = {}
        /\ con' = Fails(c, "startup")
  /\ UNCHANGED locks

\* The event the ready loop writes.
Report(c) == IF Exited(c, "model") THEN "model-failed" ELSE "ready"

\* Mutant of Monitor: the stop request is looked at only in the startup loops.
MonitorForever(c) ==
  /\ con[c].sup = "ready"
  /\ con' = IF Exited(c, "slave") THEN Fails(c, "slave")
            ELSE IF con[c].expired THEN Fails(c, "session")
            ELSE [con EXCEPT ![c].status = Report(c)]
  /\ UNCHANGED locks

\* Mutant of Monitor: the death of either child is a failure.
MonitorEither(c) ==
  /\ con[c].sup = "ready"
  /\ con' = IF con[c].stopping THEN [con EXCEPT ![c].sup = "stopSlave"]
            ELSE IF Exited(c, "slave") \/ Exited(c, "model") THEN Fails(c, "slave")
            ELSE IF con[c].expired THEN Fails(c, "session")
            ELSE [con EXCEPT ![c].status = Report(c)]
  /\ UNCHANGED locks

\* One pass of the ready loop: the death of the host is reported and the slave
\* left running; the death of the slave, or the session timeout, is a failure.
Monitor(c) ==
  /\ con[c].sup = "ready"
  /\ con' = IF con[c].stopping THEN [con EXCEPT ![c].sup = "stopSlave"]
            ELSE IF Exited(c, "slave") THEN Fails(c, "slave")
            ELSE IF con[c].expired THEN Fails(c, "session")
            ELSE [con EXCEPT ![c].status = Report(c)]
  /\ UNCHANGED locks

(***************************************************************************)
(* finally: stop_process on the slave, then on the model host, then the    *)
(* rest. SIGTERM only sets a flag in the slave and kills the host.         *)
(***************************************************************************)
AfterStop(p) == IF p = "slave" THEN "stopModel" ELSE "finish"

StopProcess(c, p) ==
  /\ con[c].sup = Stopping[p]
  /\ con' = IF con[c][p] \notin Live[p] THEN [con EXCEPT ![c].sup = AfterStop(p)]
            ELSE IF p = "slave" THEN [con EXCEPT ![c].sup = Waiting[p], ![c].term = TRUE]
            ELSE [con EXCEPT ![c].sup = Waiting[p], ![c].model = "killed"]
  /\ UNCHANGED locks

\* wait() returns.
WaitReturns(c, p) ==
  /\ con[c].sup \in {Waiting[p], Reaping[p]} /\ Exited(c, p)
  /\ con' = [con EXCEPT ![c].sup = AfterStop(p)]
  /\ UNCHANGED locks

\* Mutant of WaitExpires: a process that ignores SIGTERM is given up.
WaitExpiresGivesUp(c, p) ==
  /\ con[c].sup = Waiting[p] /\ ~Exited(c, p)
  /\ con' = [con EXCEPT ![c].sup = AfterStop(p)]
  /\ UNCHANGED locks

\* TimeoutExpired after 3 s: SIGKILL, and wait again.
WaitExpires(c, p) ==
  /\ con[c].sup = Waiting[p] /\ ~Exited(c, p)
  /\ con' = [con EXCEPT ![c].sup = Reaping[p], ![c][p] = "killed"]
  /\ UNCHANGED locks

\* What is left of a container whose supervisor has ended: its processes and
\* the socket; the variables of main() are gone and the files are of no use.
Remains(c, end) ==
  [Fresh(FALSE) EXCEPT !.sup = end, !.sock = con[c].sock,
                       !.model = con[c].model, !.slave = con[c].slave]

\* model.sock is unlinked, the lock closed and the last status written.
Finish(c) ==
  /\ con[c].sup = "finish"
  /\ con' = [con EXCEPT ![c] =
                [Remains(c, "done") EXCEPT !.sock = FALSE,
                   !.status = IF con[c].error # "none" THEN "failed"
                              ELSE IF con[c].validate THEN con[c].status ELSE "stopped"]]
  /\ serviceLock' = Drop(serviceLock, c)
  /\ UNCHANGED <<storeLock, nic>>

Supervise(c) ==
  \/ Acquire(c) \/ AwaitSocket(c) \/ AwaitNic(c) \/ Monitor(c)
  \/ \E p \in Children : StopProcess(c, p) \/ WaitReturns(c, p) \/ WaitExpires(c, p)
  \/ Finish(c)

Running(c) == con[c].sup \notin {"off", "done", "gone"}

\* SIGTERM or SIGINT (docker stop).
Sigterm(c) ==
  /\ Running(c) /\ ~con[c].stopping
  /\ con' = [con EXCEPT ![c].stopping = TRUE]
  /\ UNCHANGED locks

SessionExpires(c) ==
  /\ con[c].sup = "ready" /\ ~con[c].expired
  /\ con' = [con EXCEPT ![c].expired = TRUE]
  /\ UNCHANGED locks

\* The supervisor dies without finally (SIGKILL), or leaves it by the second
\* TimeoutExpired of stop_process: its lock goes, and the container's init
\* kills what is left.
SupervisorDies(c) ==
  /\ Running(c)
  /\ con' = [con EXCEPT ![c] =
                [Remains(c, "gone") EXCEPT !.sock = FALSE,
                   !.model = IF @ \in HostLive THEN "killed" ELSE @,
                   !.slave = IF @ \in SlaveLive THEN "killed" ELSE @]]
  /\ serviceLock' = Drop(serviceLock, c)
  /\ UNCHANGED <<storeLock, nic>>

(***************************************************************************)
(* The model host. When a process ends the kernel drops its lock on the    *)
(* store and closes its packet socket.                                     *)
(***************************************************************************)
Ends(c, p) ==
  /\ storeLock' = IF p = "model" THEN Drop(storeLock, c) ELSE storeLock
  /\ nic' = IF p = "slave" THEN nic \ {c} ELSE nic
  /\ UNCHANGED serviceLock

KernelReaps(c, p) ==
  /\ con[c][p] = "killed"
  /\ con' = [con EXCEPT ![c][p] = "exit1"]
  /\ Ends(c, p)

\* ParameterStore.__enter__ and ModelFleet: flock without waiting.
HostLoad(c) ==
  /\ con[c].model = "starting" /\ storeLock[StateOf[c]] = None
  /\ con' = [con EXCEPT ![c].model = "loaded"]
  /\ storeLock' = [storeLock EXCEPT ![StateOf[c]] = c]
  /\ UNCHANGED <<serviceLock, nic>>

\* generate_fixture; a validation has no socket and ends here.
HostFixture(c) ==
  /\ con[c].model = "loaded"
  /\ \/ /\ ~con[c].validate
        /\ con' = [con EXCEPT ![c].model = "fixture", ![c].fixture = TRUE]
        /\ UNCHANGED locks
     \/ /\ con[c].validate
        /\ con' = [con EXCEPT ![c].model = "exit0", ![c].fixture = TRUE]
        /\ Ends(c, "model")

\* serve(): bind creates the socket file; listen comes after it.
HostBind(c) ==
  /\ con[c].model = "fixture" /\ ~con[c].sock
  /\ con' = [con EXCEPT ![c].model = "bound", ![c].sock = TRUE]
  /\ UNCHANGED locks

HostListen(c) ==
  /\ con[c].model = "bound"
  /\ con' = [con EXCEPT ![c].model = "listening"]
  /\ UNCHANGED locks

HostAccept(c) ==
  /\ con[c].model = "listening" /\ con[c].linked
  /\ con' = [con EXCEPT ![c].model = "serving"]
  /\ UNCHANGED locks

\* readline() returns nothing once the slave is gone; the socket is unlinked.
HostEof(c) ==
  /\ con[c].model = "serving" /\ Exited(c, "slave")
  /\ con' = [con EXCEPT ![c].model = "exit0", ![c].sock = FALSE]
  /\ Ends(c, "model")

\* An exception (a store that is locked or cannot be loaded, no connection
\* within 30 s, a failed request) or a fatal signal. Only an exception inside
\* serve()'s try block unlinks the socket.
HostFails(c) ==
  /\ con[c].model \in HostLive
  /\ \/ con' = [con EXCEPT ![c].model = "exit1"]
     \/ /\ con[c].model \in {"listening", "serving"}
        /\ con' = [con EXCEPT ![c].model = "exit1", ![c].sock = FALSE]
  /\ Ends(c, "model")

Host(c) ==
  \/ HostLoad(c) \/ HostFixture(c) \/ HostBind(c) \/ HostListen(c) \/ HostAccept(c)
  \/ HostEof(c) \/ HostFails(c)

(***************************************************************************)
(* The EtherCAT slave. The connection is refused unless the host listens:  *)
(* the first request then throws and the process ends.                     *)
(***************************************************************************)
SlaveConnect(c) ==
  /\ con[c].slave = "starting"
  /\ con' = IF con[c].model = "listening"
              THEN [con EXCEPT ![c].slave = "connected", ![c].linked = TRUE]
              ELSE [con EXCEPT ![c].slave = "exit1"]
  /\ UNCHANGED locks

\* describe is answered and equals contract.json.
SlaveDescribe(c) ==
  /\ con[c].slave = "connected" /\ con[c].model = "serving" /\ con[c].fixture
  /\ con' = [con EXCEPT ![c].slave = "described"]
  /\ UNCHANGED locks

\* createSockets
SlaveOpenNic(c) ==
  /\ con[c].slave = "described"
  /\ con' = [con EXCEPT ![c].slave = "opened"]
  /\ nic' = nic \cup {c}
  /\ UNCHANGED <<serviceLock, storeLock>>

\* The idle request of every axis is answered.
SlaveIdle(c) ==
  /\ con[c].slave = "opened" /\ con[c].model = "serving"
  /\ con' = [con EXCEPT ![c].slave = "running"]
  /\ UNCHANGED locks

\* while(running) ends after SIGTERM.
SlaveStops(c) ==
  /\ con[c].slave = "running" /\ con[c].term
  /\ con' = [con EXCEPT ![c].slave = "exit0"]
  /\ Ends(c, "slave")

\* A request not answered in time during startup, a contract that does not
\* match, an interface that cannot be opened, a frame that cannot be written.
SlaveFails(c) ==
  /\ con[c].slave \in SlaveLive
  /\ con' = [con EXCEPT ![c].slave = "exit1"]
  /\ Ends(c, "slave")

Slave(c) ==
  \/ SlaveConnect(c) \/ SlaveDescribe(c) \/ SlaveOpenNic(c) \/ SlaveIdle(c)
  \/ SlaveStops(c) \/ SlaveFails(c)

Next ==
  \E c \in Containers :
    \/ Start(c) \/ Supervise(c) \/ Sigterm(c) \/ SessionExpires(c) \/ SupervisorDies(c)
    \/ Host(c) \/ Slave(c)
    \/ \E p \in Children : KernelReaps(c, p)

\* The supervisor polls in bounded loops and every wait of it has a deadline;
\* the kernel ends what it kills. Nothing is assumed of the children.
Fairness ==
  \A c \in Containers :
    /\ WF_vars(Supervise(c))
    /\ \A p \in Children : WF_vars(KernelReaps(c, p))

Spec == Init /\ [][Next]_vars /\ Fairness

(***************************************************************************)
(* Properties.                                                             *)
(***************************************************************************)

\* Two slaves never answer on the interface at the same time, whatever the
\* order in which containers start, stop and die (flock in main() plus
\* check_nic, which looks long before the slave opens its socket).
NicExclusive == Cardinality(nic) <= 1

\* When the supervisor has ended in order, its children are dead, whatever
\* they did with SIGTERM, and the socket is gone, even when the host died
\* without unlinking it (finally of main()).
NoOrphans ==
  \A c \in Containers :
    con[c].sup = "done" => /\ \A p \in Children : con[c][p] \in Exits \cup {"none"}
                           /\ ~con[c].sock

\* The socket file is the supervisor's only sign that the host is ready; the
\* slave is never started before the fixture it reads exists.
FixtureBeforeSlave == \A c \in Containers : con[c].slave \in SlaveLive => con[c].fixture

\* The processes of a container: well typed, started in order, and none left
\* behind by a supervisor that ended in order.
SupervisorInv == TypeOK /\ NoOrphans /\ FixtureBeforeSlave

\* A slave that serves the bus is told to stop only by a stop request, the
\* session timeout or a failed startup, never because the host died: it then
\* holds the axes in Fault ("Do not terminate a surviving Slave just because
\* the Host died").
HostDeathKeepsSlave ==
  [][\A c \in Containers :
       (con'[c].term /\ ~con[c].term /\ con[c].slave = "running")
         => con[c].stopping \/ con[c].expired \/ con[c].error = "startup"]_vars

\* healthcheck(): the status is 'ready' and not older than 10 s, which a
\* supervisor that is gone no longer sees to. Its test of the pids can only
\* make the answer worse.
Healthy(c) == con[c].status = "ready" /\ con[c].sup # "gone"

\* A container whose host is dead does not stay healthy.
HostFailureShown ==
  \A c \in Containers : Exited(c, "model") ~> ~Healthy(c)

\* The death of the host is shown and is not a reason to stop the slave.
HostDeathHandled == HostDeathKeepsSlave /\ HostFailureShown

Ended(c) ==
  /\ con[c].sup \in {"done", "gone"}
  /\ \A p \in Children : con[c][p] \in Exits \cup {"none"}

\* A stop request at any point of the startup or the service, and the death of
\* the slave, end the container and both children, even children that hang or
\* ignore SIGTERM.
StopCompletes ==
  \A c \in Containers :
    (con[c].stopping \/ (con[c].sup = "ready" /\ Exited(c, "slave"))) ~> Ended(c)

\* Startup never hangs: it reaches the ready loop or the container ends.
StartupSettles ==
  \A c \in Containers : (con[c].sup = "acquire") ~> (con[c].sup = "ready" \/ Ended(c))

\* No phase of the supervisor but the service itself goes on for ever.
PhasesEnd == StartupSettles /\ StopCompletes
=============================================================================
