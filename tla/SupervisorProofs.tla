-------------------------- MODULE SupervisorProofs --------------------------
(***************************************************************************)
(* Proofs about the container supervisor, for every number of containers   *)
(* and every assignment of state directories.                              *)
(***************************************************************************)
EXTENDS Supervisor, FiniteSetTheorems, TLAPS

(***************************************************************************)
(* The inductive invariant. What holds of one container, whatever the      *)
(* others do:                                                              *)
(***************************************************************************)

\* Where the supervisor is says which children exist. Before the host is
\* started there is none; before the slave is started there is no slave; from
\* stop_process of a child on it is dead or being waited for.
Phases(c) ==
  /\ con[c].sup \in {"off", "acquire"} => con[c].model = "none"
  /\ con[c].sup \in {"off", "acquire", "awaitSocket"} => con[c].slave = "none"
  /\ con[c].slave \in SlaveLive => con[c].sup \in {"awaitNic", "ready", "stopSlave", "waitSlave"}
  /\ con[c].slave = "killed" => con[c].sup \in {"reapSlave", "gone"}
  /\ con[c].model \in HostLive =>
       con[c].sup \in {"awaitSocket", "awaitNic", "ready", "stopSlave", "waitSlave", "reapSlave",
                       "stopModel"}
  /\ con[c].model = "killed" => con[c].sup \in {"waitModel", "reapModel", "gone"}
  /\ con[c].sup = "done" => ~con[c].sock

\* The socket exists only once the fixture does, and so does a slave.
FixtureFirst(c) ==
  /\ con[c].model \in {"fixture", "bound", "listening", "serving"} => con[c].fixture
  /\ con[c].sock \/ con[c].slave \in SlaveLive => con[c].fixture

\* A supervisor that may still start a slave, or has one that runs, holds the
\* lock of its state directory and does not only validate.
Holds(c) ==
  /\ con[c].sup = "awaitSocket" => serviceLock[StateOf[c]] = c
  /\ con[c].slave \in SlaveLive => serviceLock[StateOf[c]] = c /\ ~con[c].validate

\* A packet socket belongs to a slave that opened it and has not ended.
NicOwned == \A c \in nic : con[c].slave \in {"opened", "running", "killed"}

\* What check_nic saw stays true for the containers of the same directory until
\* the slave opens its socket: whoever else could open one holds no lock.
MayOpen(c) == con[c].slave \in SlaveLive \/ (con[c].sup = "awaitSocket" /\ ~con[c].validate)
NicFree ==
  \A c \in Containers : MayOpen(c) => \A d \in nic : StateOf[d] = StateOf[c] => d = c

\* A slave is stopped for a reason other than the host's death.
StopReason(c) ==
  con[c].sup = "stopSlave" /\ con[c].slave \in SlaveLive
    => con[c].stopping \/ con[c].expired \/ con[c].error = "startup"

\* Of the containers that share a state directory at most one has a packet
\* socket on the interface.
NicPerDirectory == \A c, d \in nic : StateOf[c] = StateOf[d] => c = d

OwnState(c) == Phases(c) /\ FixtureFirst(c) /\ Holds(c) /\ StopReason(c)

SupervisorIInv ==
  /\ TypeOK
  /\ \A c \in Containers : OwnState(c)
  /\ NicOwned /\ NicFree /\ NicPerDirectory

(***************************************************************************)
(* What a step of one container has to establish, and that it is enough.   *)
(***************************************************************************)
\* Only c changes, to a well typed container.
ConStep(c) == con' = [con EXCEPT ![c] = con'[c]] /\ con'[c] \in Container

\* No lock is taken away from another container.
LockStep(c) ==
  /\ serviceLock' \in [StateDirs -> Containers \cup {None}]
  /\ storeLock' \in [StateDirs -> Containers \cup {None}]
  /\ \A d \in Containers \ {c} : serviceLock[StateOf[d]] = d => serviceLock'[StateOf[d]] = d

\* A socket is opened only by a slave that may, and the right to open one is
\* gained only while nobody has one.
NicStep(c) ==
  /\ nic' \subseteq nic \cup {c}
  /\ c \in nic' => con'[c].slave \in {"opened", "running", "killed"} /\ (c \in nic \/ MayOpen(c))
  /\ MayOpen(c)' => MayOpen(c) \/ nic' = {}

\* A step of c that keeps its own part of the invariant keeps all of it: two
\* containers of the same directory cannot both be able to open a socket,
\* because each would hold the directory's lock.
LEMMA Frame ==
  ASSUME SupervisorIInv, NEW c \in Containers,
         ConStep(c), OwnState(c)', LockStep(c), NicStep(c)
  PROVE  SupervisorIInv'
  <1>1. /\ con' \in [Containers -> Container]
        /\ \A d \in Containers \ {c} : con'[d] = con[d]
    BY DEF SupervisorIInv, TypeOK, ConStep
  <1>2. TypeOK'
    BY <1>1 DEF SupervisorIInv, TypeOK, LockStep, NicStep
  <1>3. ASSUME NEW d \in Containers
        PROVE  OwnState(d)'
    <2>1. CASE d = c
      BY <2>1
    <2>2. CASE d # c
      <3>1. con'[d] = con[d] /\ (serviceLock[StateOf[d]] = d => serviceLock'[StateOf[d]] = d)
        BY <1>1, <2>2 DEF LockStep
      <3>2. OwnState(d)
        BY DEF SupervisorIInv
      <3> QED
        BY <3>1, <3>2 DEF OwnState, Phases, FixtureFirst, Holds, StopReason
    <2> QED
      BY <2>1, <2>2
  <1>4. NicOwned'
    BY <1>1 DEF SupervisorIInv, NicOwned, TypeOK, NicStep
  <1>5. \A d \in Containers : MayOpen(d) => serviceLock[StateOf[d]] = d
    BY DEF SupervisorIInv, OwnState, MayOpen, Holds
  <1>6. \A d \in Containers \ {c} : MayOpen(d)' <=> MayOpen(d)
    BY <1>1 DEF MayOpen
  <1>7. \A d, e \in Containers : MayOpen(d) /\ MayOpen(e) /\ StateOf[d] = StateOf[e] => d = e
    BY <1>5
  <1>8. nic \subseteq Containers /\ NicFree /\ NicPerDirectory
    BY DEF SupervisorIInv, TypeOK
  <1>9. NicFree'
    BY <1>6, <1>7, <1>8 DEF NicFree, NicStep
  <1>10. NicPerDirectory'
    BY <1>7, <1>8 DEF NicFree, NicPerDirectory, NicStep
  <1> QED
    BY <1>2, <1>3, <1>4, <1>9, <1>10 DEF SupervisorIInv

\* A field that is given a value of its type leaves a container a container.
LEMMA FieldTyped ==
  ASSUME NEW r \in Container
  PROVE  /\ \A b \in BOOLEAN : [r EXCEPT !.sock = b] \in Container
         /\ \A s \in {"stopSlave", "done", "gone"} : [r EXCEPT !.sup = s] \in Container
         /\ \A s \in {"none", "validated", "ready", "model-failed", "failed", "stopped"} :
              [r EXCEPT !.status = s] \in Container
         /\ \A m \in HostLive \cup Exits \cup {"none", "killed"} :
              [r EXCEPT !.model = m] \in Container
         /\ \A s \in SlaveLive \cup Exits \cup {"none", "killed"} :
              [r EXCEPT !.slave = s] \in Container
  <1>1. ASSUME NEW b \in BOOLEAN
        PROVE  [r EXCEPT !.sock = b] \in Container
    BY DEF Container
  <1>2. ASSUME NEW s \in {"stopSlave", "done", "gone"}
        PROVE  [r EXCEPT !.sup = s] \in Container
    BY DEF Container
  <1>3. ASSUME NEW s \in {"none", "validated", "ready", "model-failed", "failed", "stopped"}
        PROVE  [r EXCEPT !.status = s] \in Container
    BY DEF Container
  <1>4. ASSUME NEW m \in HostLive \cup Exits \cup {"none", "killed"}
        PROVE  [r EXCEPT !.model = m] \in Container
    BY DEF Container
  <1>5. ASSUME NEW s \in SlaveLive \cup Exits \cup {"none", "killed"}
        PROVE  [r EXCEPT !.slave = s] \in Container
    BY DEF Container
  <1> QED
    BY <1>1, <1>2, <1>3, <1>4, <1>5

\* What is left of a container whose supervisor has ended is a container.
LEMMA RemainsTyped ==
  ASSUME NEW c \in Containers, con[c] \in Container, NEW end \in {"done", "gone"}
  PROVE  Remains(c, end) \in Container
  <1>1. Fresh(FALSE) \in Container
    BY DEF Fresh, Container
  <1>2. /\ con[c].sock \in BOOLEAN
        /\ con[c].model \in HostLive \cup Exits \cup {"none", "killed"}
        /\ con[c].slave \in SlaveLive \cup Exits \cup {"none", "killed"}
    BY DEF Container
  <1>3. [Fresh(FALSE) EXCEPT !.sup = end] \in Container
    BY <1>1, FieldTyped, Zenon
  <1>4. [[Fresh(FALSE) EXCEPT !.sup = end] EXCEPT !.sock = con[c].sock] \in Container
    BY <1>2, <1>3, FieldTyped, Zenon
  <1>5. [[[Fresh(FALSE) EXCEPT !.sup = end] EXCEPT !.sock = con[c].sock]
           EXCEPT !.model = con[c].model] \in Container
    BY <1>2, <1>4, FieldTyped, Zenon
  <1> QED
    BY <1>2, <1>5, FieldTyped, Zenon DEF Remains

LEMMA FinishTyped ==
  ASSUME NEW r \in Container,
         NEW s \in {"none", "validated", "ready", "model-failed", "failed", "stopped"}
  PROVE  [r EXCEPT !.sock = FALSE, !.status = s] \in Container
  <1>1. [r EXCEPT !.sock = FALSE] \in Container
    BY FieldTyped, Zenon
  <1> QED
    BY <1>1, FieldTyped, Zenon

LEMMA DeathTyped ==
  ASSUME NEW r \in Container, NEW m \in HostLive \cup Exits \cup {"none", "killed"},
         NEW s \in SlaveLive \cup Exits \cup {"none", "killed"}
  PROVE  [r EXCEPT !.sock = FALSE, !.model = m, !.slave = s] \in Container
  <1>1. [r EXCEPT !.sock = FALSE] \in Container
    BY FieldTyped, Zenon
  <1>2. [[r EXCEPT !.sock = FALSE] EXCEPT !.model = m] \in Container
    BY <1>1, FieldTyped, Zenon
  <1> QED
    BY <1>2, FieldTyped, Zenon

\* Every step of the supervisor, and of what happens to it, keeps the invariant.
LEMMA SupervisorKeeps ==
  ASSUME SupervisorIInv, NEW c \in Containers,
         Start(c) \/ Acquire(c) \/ AwaitSocket(c) \/ AwaitNic(c) \/ Monitor(c)
         \/ Finish(c) \/ Sigterm(c) \/ SessionExpires(c) \/ SupervisorDies(c)
  PROVE  SupervisorIInv'
  <1>0. /\ TypeOK /\ OwnState(c) /\ con[c] \in Container
        /\ c \in nic => con[c].slave \in {"opened", "running", "killed"}
    BY DEF SupervisorIInv, TypeOK, NicOwned
  <1>1. CASE Start(c)
    <2>1. ConStep(c)
      BY <1>1, <1>0 DEF TypeOK, ConStep, Container, Start, HostLive, SlaveLive, Exits
    <2>2. OwnState(c)'
      BY <1>1, <1>0, SupervisorAssumption DEF TypeOK, OwnState, Container, Phases,
         FixtureFirst, Holds, StopReason, Start, locks, HostLive, SlaveLive, Exits
    <2>3. LockStep(c)
      BY <1>1, <1>0, SupervisorAssumption DEF TypeOK, LockStep, Start, locks
    <2>4. NicStep(c)
      BY <1>1, <1>0 DEF TypeOK, OwnState, Phases, Container, MayOpen, NicStep, Start, locks,
         HostLive, SlaveLive, Exits
    <2> QED
      BY <2>1, <2>2, <2>3, <2>4, Frame
  <1>2. CASE Acquire(c)
    <2>1. ConStep(c)
      BY <1>2, <1>0 DEF TypeOK, ConStep, Container, Acquire, Fails, HostLive, SlaveLive,
         Exits
    <2>2. OwnState(c)'
      BY <1>2, <1>0, SupervisorAssumption DEF TypeOK, OwnState, Container, Phases,
         FixtureFirst, Holds, StopReason, Acquire, Fails, HostLive, SlaveLive, Exits
    <2>3. LockStep(c)
      BY <1>2, <1>0, SupervisorAssumption DEF TypeOK, LockStep, Acquire, Fails
    <2>4. NicStep(c)
      BY <1>2, <1>0 DEF TypeOK, OwnState, Phases, Container, MayOpen, NicStep, Acquire,
         Fails, HostLive, SlaveLive, Exits
    <2> QED
      BY <2>1, <2>2, <2>3, <2>4, Frame
  <1>3. CASE AwaitSocket(c)
    <2>1. ConStep(c)
      BY <1>3, <1>0 DEF TypeOK, ConStep, Container, AwaitSocket, Fails, Exited, HostLive,
         SlaveLive, Exits
    <2>2. OwnState(c)'
      BY <1>3, <1>0, SupervisorAssumption DEF TypeOK, OwnState, Container, Phases,
         FixtureFirst, Holds, StopReason, AwaitSocket, Fails, Exited, locks, HostLive,
         SlaveLive, Exits
    <2>3. LockStep(c)
      BY <1>3, <1>0, SupervisorAssumption DEF TypeOK, LockStep, AwaitSocket, Fails, Exited,
         locks
    <2>4. NicStep(c)
      BY <1>3, <1>0 DEF TypeOK, OwnState, Phases, Container, MayOpen, NicStep, AwaitSocket,
         Fails, Exited, locks, HostLive, SlaveLive, Exits
    <2> QED
      BY <2>1, <2>2, <2>3, <2>4, Frame
  <1>4. CASE AwaitNic(c)
    <2>1. ConStep(c)
      BY <1>4, <1>0 DEF TypeOK, ConStep, Container, AwaitNic, Fails, HostLive, SlaveLive,
         Exits
    <2>2. OwnState(c)'
      BY <1>4, <1>0, SupervisorAssumption DEF TypeOK, OwnState, Container, Phases,
         FixtureFirst, Holds, StopReason, AwaitNic, Fails, locks, HostLive, SlaveLive, Exits
    <2>3. LockStep(c)
      BY <1>4, <1>0, SupervisorAssumption DEF TypeOK, LockStep, AwaitNic, Fails, locks
    <2>4. NicStep(c)
      BY <1>4, <1>0 DEF TypeOK, OwnState, Phases, Container, MayOpen, NicStep, AwaitNic,
         Fails, locks, HostLive, SlaveLive, Exits
    <2> QED
      BY <2>1, <2>2, <2>3, <2>4, Frame
  <1>5. CASE Monitor(c)
    <2>1. ConStep(c)
      <3>1. Report(c) \in {"ready", "model-failed"}
        BY DEF Report
      <3>2. CASE con' = [con EXCEPT ![c].sup = "stopSlave"]
        BY <1>0, <3>2, FieldTyped DEF TypeOK, ConStep
      <3>3. CASE con' = Fails(c, "slave") \/ con' = Fails(c, "session")
        BY <1>0, <3>3 DEF TypeOK, ConStep, Container, Fails
      <3>4. CASE con' = [con EXCEPT ![c].status = Report(c)]
        BY <1>0, <3>1, <3>4, FieldTyped DEF TypeOK, ConStep
      <3> QED
        BY <1>5, <3>2, <3>3, <3>4 DEF Monitor
    <2>2. OwnState(c)'
      BY <1>5, <1>0, SupervisorAssumption DEF TypeOK, OwnState, Container, Phases,
         FixtureFirst, Holds, StopReason, Monitor, Fails, Exited, Report, locks, HostLive,
         SlaveLive, Exits
    <2>3. LockStep(c)
      BY <1>5, <1>0, SupervisorAssumption DEF TypeOK, LockStep, Monitor, Fails, Exited,
         Report, locks
    <2>4. NicStep(c)
      BY <1>5, <1>0 DEF TypeOK, OwnState, Phases, Container, MayOpen, NicStep, Monitor,
         Fails, Exited, Report, locks, HostLive, SlaveLive, Exits
    <2> QED
      BY <2>1, <2>2, <2>3, <2>4, Frame
  <1>6. CASE Finish(c)
    <2>1. ConStep(c)
      <3> DEFINE s == IF con[c].error # "none" THEN "failed"
                      ELSE IF con[c].validate THEN con[c].status ELSE "stopped"
      <3>1. s \in {"none", "validated", "ready", "model-failed", "failed", "stopped"}
        BY <1>0 DEF Container
      <3>2. con' = [con EXCEPT ![c] = [Remains(c, "done") EXCEPT !.sock = FALSE, !.status = s]]
        BY <1>6 DEF Finish
      <3> HIDE DEF s
      <3>3. [Remains(c, "done") EXCEPT !.sock = FALSE, !.status = s] \in Container
        BY <1>0, <3>1, RemainsTyped, FinishTyped
      <3> QED
        BY <1>0, <3>2, <3>3 DEF ConStep, TypeOK
    <2>2. OwnState(c)'
      BY <1>6, <1>0, SupervisorAssumption DEF TypeOK, OwnState, Container, Phases,
         FixtureFirst, Holds, StopReason, Finish, Remains, Fresh, Drop, HostLive, SlaveLive,
         Exits
    <2>3. LockStep(c)
      BY <1>6, <1>0, SupervisorAssumption DEF TypeOK, LockStep, Finish, Remains, Fresh, Drop
    <2>4. NicStep(c)
      BY <1>6, <1>0 DEF TypeOK, OwnState, Phases, Container, MayOpen, NicStep, Finish,
         Remains, Fresh, Drop, HostLive, SlaveLive, Exits
    <2> QED
      BY <2>1, <2>2, <2>3, <2>4, Frame
  <1>7. CASE Sigterm(c)
    <2>1. ConStep(c)
      BY <1>7, <1>0 DEF TypeOK, ConStep, Container, Sigterm, Running, HostLive, SlaveLive,
         Exits
    <2>2. OwnState(c)'
      BY <1>7, <1>0, SupervisorAssumption DEF TypeOK, OwnState, Container, Phases,
         FixtureFirst, Holds, StopReason, Sigterm, Running, locks, HostLive, SlaveLive,
         Exits
    <2>3. LockStep(c)
      BY <1>7, <1>0, SupervisorAssumption DEF TypeOK, LockStep, Sigterm, Running, locks
    <2>4. NicStep(c)
      BY <1>7, <1>0 DEF TypeOK, OwnState, Phases, Container, MayOpen, NicStep, Sigterm,
         Running, locks, HostLive, SlaveLive, Exits
    <2> QED
      BY <2>1, <2>2, <2>3, <2>4, Frame
  <1>8. CASE SessionExpires(c)
    <2>1. ConStep(c)
      BY <1>8, <1>0 DEF TypeOK, ConStep, Container, SessionExpires, HostLive, SlaveLive,
         Exits
    <2>2. OwnState(c)'
      BY <1>8, <1>0, SupervisorAssumption DEF TypeOK, OwnState, Container, Phases,
         FixtureFirst, Holds, StopReason, SessionExpires, locks, HostLive, SlaveLive, Exits
    <2>3. LockStep(c)
      BY <1>8, <1>0, SupervisorAssumption DEF TypeOK, LockStep, SessionExpires, locks
    <2>4. NicStep(c)
      BY <1>8, <1>0 DEF TypeOK, OwnState, Phases, Container, MayOpen, NicStep,
         SessionExpires, locks, HostLive, SlaveLive, Exits
    <2> QED
      BY <2>1, <2>2, <2>3, <2>4, Frame
  <1>9. CASE SupervisorDies(c)
    <2>1. ConStep(c)
      <3> DEFINE r == Remains(c, "gone")
                 m == IF r.model \in HostLive THEN "killed" ELSE r.model
                 s == IF r.slave \in SlaveLive THEN "killed" ELSE r.slave
                 q == [r EXCEPT !.sock = FALSE, !.model = m, !.slave = s]
      <3>1. r \in Container
        BY <1>0, RemainsTyped
      <3>2. con' = [con EXCEPT ![c] =
                      [r EXCEPT !.sock = FALSE,
                                !.model = IF @ \in HostLive THEN "killed" ELSE @,
                                !.slave = IF @ \in SlaveLive THEN "killed" ELSE @]]
        BY <1>9 DEF SupervisorDies
      <3> HIDE DEF r
      <3>3. con' = [con EXCEPT ![c] = q]
        BY <3>1, <3>2 DEF Container
      <3>4. /\ m \in HostLive \cup Exits \cup {"none", "killed"}
            /\ s \in SlaveLive \cup Exits \cup {"none", "killed"}
        BY <3>1 DEF Container
      <3> HIDE DEF m, s
      <3>5. q \in Container
        BY <3>1, <3>4, DeathTyped
      <3> HIDE DEF q
      <3> QED
        BY <1>0, <3>3, <3>5 DEF ConStep, TypeOK
    <2>2. OwnState(c)'
      BY <1>9, <1>0, SupervisorAssumption DEF TypeOK, OwnState, Container, Phases,
         FixtureFirst, Holds, StopReason, SupervisorDies, Running, Remains, Fresh, Drop,
         HostLive, SlaveLive, Exits
    <2>3. LockStep(c)
      BY <1>9, <1>0, SupervisorAssumption DEF TypeOK, LockStep, SupervisorDies, Running,
         Remains, Fresh, Drop
    <2>4. NicStep(c)
      BY <1>9, <1>0 DEF TypeOK, OwnState, Phases, Container, MayOpen, NicStep,
         SupervisorDies, Running, Remains, Fresh, Drop, HostLive, SlaveLive, Exits
    <2> QED
      BY <2>1, <2>2, <2>3, <2>4, Frame
  <1> QED
    BY <1>1, <1>2, <1>3, <1>4, <1>5, <1>6, <1>7, <1>8, <1>9

\* So does every step of the model host.
LEMMA HostKeeps ==
  ASSUME SupervisorIInv, NEW c \in Containers,
         HostLoad(c) \/ HostFixture(c) \/ HostBind(c) \/ HostListen(c) \/ HostAccept(c)
         \/ HostEof(c) \/ HostFails(c)
  PROVE  SupervisorIInv'
  <1>0. /\ TypeOK /\ OwnState(c) /\ con[c] \in Container
        /\ c \in nic => con[c].slave \in {"opened", "running", "killed"}
    BY DEF SupervisorIInv, TypeOK, NicOwned
  <1>1. CASE HostLoad(c)
    <2>1. ConStep(c)
      BY <1>1, <1>0 DEF TypeOK, ConStep, Container, HostLoad, HostLive, SlaveLive, Exits
    <2>2. OwnState(c)'
      BY <1>1, <1>0, SupervisorAssumption DEF TypeOK, OwnState, Container, Phases,
         FixtureFirst, Holds, StopReason, HostLoad, HostLive, SlaveLive, Exits
    <2>3. LockStep(c)
      BY <1>1, <1>0, SupervisorAssumption DEF TypeOK, LockStep, HostLoad
    <2>4. NicStep(c)
      BY <1>1, <1>0 DEF TypeOK, OwnState, Phases, Container, MayOpen, NicStep, HostLoad,
         HostLive, SlaveLive, Exits
    <2> QED
      BY <2>1, <2>2, <2>3, <2>4, Frame
  <1>2. CASE HostFixture(c)
    <2>1. ConStep(c)
      BY <1>2, <1>0 DEF TypeOK, ConStep, Container, HostFixture, Ends, Drop, HostLive,
         SlaveLive, Exits
    <2>2. OwnState(c)'
      BY <1>2, <1>0, SupervisorAssumption DEF TypeOK, OwnState, Container, Phases,
         FixtureFirst, Holds, StopReason, HostFixture, Ends, Drop, locks, HostLive,
         SlaveLive, Exits
    <2>3. LockStep(c)
      BY <1>2, <1>0, SupervisorAssumption DEF TypeOK, LockStep, HostFixture, Ends, Drop,
         locks
    <2>4. NicStep(c)
      BY <1>2, <1>0 DEF TypeOK, OwnState, Phases, Container, MayOpen, NicStep, HostFixture,
         Ends, Drop, locks, HostLive, SlaveLive, Exits
    <2> QED
      BY <2>1, <2>2, <2>3, <2>4, Frame
  <1>3. CASE HostBind(c)
    <2>1. ConStep(c)
      BY <1>3, <1>0 DEF TypeOK, ConStep, Container, HostBind, HostLive, SlaveLive, Exits
    <2>2. OwnState(c)'
      BY <1>3, <1>0, SupervisorAssumption DEF TypeOK, OwnState, Container, Phases,
         FixtureFirst, Holds, StopReason, HostBind, locks, HostLive, SlaveLive, Exits
    <2>3. LockStep(c)
      BY <1>3, <1>0, SupervisorAssumption DEF TypeOK, LockStep, HostBind, locks
    <2>4. NicStep(c)
      BY <1>3, <1>0 DEF TypeOK, OwnState, Phases, Container, MayOpen, NicStep, HostBind,
         locks, HostLive, SlaveLive, Exits
    <2> QED
      BY <2>1, <2>2, <2>3, <2>4, Frame
  <1>4. CASE HostListen(c)
    <2>1. ConStep(c)
      BY <1>4, <1>0 DEF TypeOK, ConStep, Container, HostListen, HostLive, SlaveLive, Exits
    <2>2. OwnState(c)'
      BY <1>4, <1>0, SupervisorAssumption DEF TypeOK, OwnState, Container, Phases,
         FixtureFirst, Holds, StopReason, HostListen, locks, HostLive, SlaveLive, Exits
    <2>3. LockStep(c)
      BY <1>4, <1>0, SupervisorAssumption DEF TypeOK, LockStep, HostListen, locks
    <2>4. NicStep(c)
      BY <1>4, <1>0 DEF TypeOK, OwnState, Phases, Container, MayOpen, NicStep, HostListen,
         locks, HostLive, SlaveLive, Exits
    <2> QED
      BY <2>1, <2>2, <2>3, <2>4, Frame
  <1>5. CASE HostAccept(c)
    <2>1. ConStep(c)
      BY <1>5, <1>0 DEF TypeOK, ConStep, Container, HostAccept, HostLive, SlaveLive, Exits
    <2>2. OwnState(c)'
      BY <1>5, <1>0, SupervisorAssumption DEF TypeOK, OwnState, Container, Phases,
         FixtureFirst, Holds, StopReason, HostAccept, locks, HostLive, SlaveLive, Exits
    <2>3. LockStep(c)
      BY <1>5, <1>0, SupervisorAssumption DEF TypeOK, LockStep, HostAccept, locks
    <2>4. NicStep(c)
      BY <1>5, <1>0 DEF TypeOK, OwnState, Phases, Container, MayOpen, NicStep, HostAccept,
         locks, HostLive, SlaveLive, Exits
    <2> QED
      BY <2>1, <2>2, <2>3, <2>4, Frame
  <1>6. CASE HostEof(c)
    <2>1. ConStep(c)
      BY <1>6, <1>0 DEF TypeOK, ConStep, Container, HostEof, Exited, Ends, Drop, HostLive,
         SlaveLive, Exits
    <2>2. OwnState(c)'
      BY <1>6, <1>0, SupervisorAssumption DEF TypeOK, OwnState, Container, Phases,
         FixtureFirst, Holds, StopReason, HostEof, Exited, Ends, Drop, HostLive, SlaveLive,
         Exits
    <2>3. LockStep(c)
      BY <1>6, <1>0, SupervisorAssumption DEF TypeOK, LockStep, HostEof, Exited, Ends, Drop
    <2>4. NicStep(c)
      BY <1>6, <1>0 DEF TypeOK, OwnState, Phases, Container, MayOpen, NicStep, HostEof,
         Exited, Ends, Drop, HostLive, SlaveLive, Exits
    <2> QED
      BY <2>1, <2>2, <2>3, <2>4, Frame
  <1>7. CASE HostFails(c)
    <2>1. ConStep(c)
      BY <1>7, <1>0 DEF TypeOK, ConStep, Container, HostFails, Ends, Drop, HostLive,
         SlaveLive, Exits
    <2>2. OwnState(c)'
      BY <1>7, <1>0, SupervisorAssumption DEF TypeOK, OwnState, Container, Phases,
         FixtureFirst, Holds, StopReason, HostFails, Ends, Drop, HostLive, SlaveLive, Exits
    <2>3. LockStep(c)
      BY <1>7, <1>0, SupervisorAssumption DEF TypeOK, LockStep, HostFails, Ends, Drop
    <2>4. NicStep(c)
      BY <1>7, <1>0 DEF TypeOK, OwnState, Phases, Container, MayOpen, NicStep, HostFails,
         Ends, Drop, HostLive, SlaveLive, Exits
    <2> QED
      BY <2>1, <2>2, <2>3, <2>4, Frame
  <1> QED
    BY <1>1, <1>2, <1>3, <1>4, <1>5, <1>6, <1>7

\* So does every step of the EtherCAT slave.
LEMMA SlaveKeeps ==
  ASSUME SupervisorIInv, NEW c \in Containers,
         SlaveConnect(c) \/ SlaveDescribe(c) \/ SlaveOpenNic(c) \/ SlaveIdle(c) \/ SlaveStops(c)
         \/ SlaveFails(c)
  PROVE  SupervisorIInv'
  <1>0. /\ TypeOK /\ OwnState(c) /\ con[c] \in Container
        /\ c \in nic => con[c].slave \in {"opened", "running", "killed"}
    BY DEF SupervisorIInv, TypeOK, NicOwned
  <1>1. CASE SlaveConnect(c)
    <2>1. ConStep(c)
      BY <1>1, <1>0 DEF TypeOK, ConStep, Container, SlaveConnect, HostLive, SlaveLive, Exits
    <2>2. OwnState(c)'
      BY <1>1, <1>0, SupervisorAssumption DEF TypeOK, OwnState, Container, Phases,
         FixtureFirst, Holds, StopReason, SlaveConnect, locks, HostLive, SlaveLive, Exits
    <2>3. LockStep(c)
      BY <1>1, <1>0, SupervisorAssumption DEF TypeOK, LockStep, SlaveConnect, locks
    <2>4. NicStep(c)
      BY <1>1, <1>0 DEF TypeOK, OwnState, Phases, Container, MayOpen, NicStep, SlaveConnect,
         locks, HostLive, SlaveLive, Exits
    <2> QED
      BY <2>1, <2>2, <2>3, <2>4, Frame
  <1>2. CASE SlaveDescribe(c)
    <2>1. ConStep(c)
      BY <1>2, <1>0 DEF TypeOK, ConStep, Container, SlaveDescribe, HostLive, SlaveLive,
         Exits
    <2>2. OwnState(c)'
      BY <1>2, <1>0, SupervisorAssumption DEF TypeOK, OwnState, Container, Phases,
         FixtureFirst, Holds, StopReason, SlaveDescribe, locks, HostLive, SlaveLive, Exits
    <2>3. LockStep(c)
      BY <1>2, <1>0, SupervisorAssumption DEF TypeOK, LockStep, SlaveDescribe, locks
    <2>4. NicStep(c)
      BY <1>2, <1>0 DEF TypeOK, OwnState, Phases, Container, MayOpen, NicStep,
         SlaveDescribe, locks, HostLive, SlaveLive, Exits
    <2> QED
      BY <2>1, <2>2, <2>3, <2>4, Frame
  <1>3. CASE SlaveOpenNic(c)
    <2>1. ConStep(c)
      BY <1>3, <1>0 DEF TypeOK, ConStep, Container, SlaveOpenNic, HostLive, SlaveLive, Exits
    <2>2. OwnState(c)'
      BY <1>3, <1>0, SupervisorAssumption DEF TypeOK, OwnState, Container, Phases,
         FixtureFirst, Holds, StopReason, SlaveOpenNic, HostLive, SlaveLive, Exits
    <2>3. LockStep(c)
      BY <1>3, <1>0, SupervisorAssumption DEF TypeOK, LockStep, SlaveOpenNic
    <2>4. NicStep(c)
      BY <1>3, <1>0 DEF TypeOK, OwnState, Phases, Container, MayOpen, NicStep, SlaveOpenNic,
         HostLive, SlaveLive, Exits
    <2> QED
      BY <2>1, <2>2, <2>3, <2>4, Frame
  <1>4. CASE SlaveIdle(c)
    <2>1. ConStep(c)
      BY <1>4, <1>0 DEF TypeOK, ConStep, Container, SlaveIdle, HostLive, SlaveLive, Exits
    <2>2. OwnState(c)'
      BY <1>4, <1>0, SupervisorAssumption DEF TypeOK, OwnState, Container, Phases,
         FixtureFirst, Holds, StopReason, SlaveIdle, locks, HostLive, SlaveLive, Exits
    <2>3. LockStep(c)
      BY <1>4, <1>0, SupervisorAssumption DEF TypeOK, LockStep, SlaveIdle, locks
    <2>4. NicStep(c)
      BY <1>4, <1>0 DEF TypeOK, OwnState, Phases, Container, MayOpen, NicStep, SlaveIdle,
         locks, HostLive, SlaveLive, Exits
    <2> QED
      BY <2>1, <2>2, <2>3, <2>4, Frame
  <1>5. CASE SlaveStops(c)
    <2>1. ConStep(c)
      BY <1>5, <1>0 DEF TypeOK, ConStep, Container, SlaveStops, Ends, Drop, HostLive,
         SlaveLive, Exits
    <2>2. OwnState(c)'
      BY <1>5, <1>0, SupervisorAssumption DEF TypeOK, OwnState, Container, Phases,
         FixtureFirst, Holds, StopReason, SlaveStops, Ends, Drop, HostLive, SlaveLive, Exits
    <2>3. LockStep(c)
      BY <1>5, <1>0, SupervisorAssumption DEF TypeOK, LockStep, SlaveStops, Ends, Drop
    <2>4. NicStep(c)
      BY <1>5, <1>0 DEF TypeOK, OwnState, Phases, Container, MayOpen, NicStep, SlaveStops,
         Ends, Drop, HostLive, SlaveLive, Exits
    <2> QED
      BY <2>1, <2>2, <2>3, <2>4, Frame
  <1>6. CASE SlaveFails(c)
    <2>1. ConStep(c)
      BY <1>6, <1>0 DEF TypeOK, ConStep, Container, SlaveFails, Ends, Drop, HostLive,
         SlaveLive, Exits
    <2>2. OwnState(c)'
      BY <1>6, <1>0, SupervisorAssumption DEF TypeOK, OwnState, Container, Phases,
         FixtureFirst, Holds, StopReason, SlaveFails, Ends, Drop, HostLive, SlaveLive, Exits
    <2>3. LockStep(c)
      BY <1>6, <1>0, SupervisorAssumption DEF TypeOK, LockStep, SlaveFails, Ends, Drop
    <2>4. NicStep(c)
      BY <1>6, <1>0 DEF TypeOK, OwnState, Phases, Container, MayOpen, NicStep, SlaveFails,
         Ends, Drop, HostLive, SlaveLive, Exits
    <2> QED
      BY <2>1, <2>2, <2>3, <2>4, Frame
  <1> QED
    BY <1>1, <1>2, <1>3, <1>4, <1>5, <1>6

\* So does stop_process on either child, and the kernel ending it.
LEMMA StopKeeps ==
  ASSUME SupervisorIInv, NEW c \in Containers, NEW p \in Children,
         StopProcess(c, p) \/ WaitReturns(c, p) \/ WaitExpires(c, p) \/ KernelReaps(c, p)
  PROVE  SupervisorIInv'
  <1>0. /\ TypeOK /\ OwnState(c) /\ con[c] \in Container
        /\ c \in nic => con[c].slave \in {"opened", "running", "killed"}
    BY DEF SupervisorIInv, TypeOK, NicOwned
  <1>p. p = "model" \/ p = "slave"
    BY DEF Children
  <1>1. CASE StopProcess(c, p)
    <2>1. ConStep(c)
      <3>1. CASE p = "slave"
        BY <1>1, <1>0, <3>1 DEF TypeOK, ConStep, Container, StopProcess, Stopping,
           Waiting, Live, AfterStop
      <3>2. CASE p = "model"
        BY <1>1, <1>0, <3>2 DEF TypeOK, ConStep, Container, StopProcess, Stopping,
           Waiting, Live, AfterStop
      <3> QED
        BY <1>p, <3>1, <3>2
    <2>2. OwnState(c)'
      <3>1. CASE p = "slave"
        BY <1>1, <1>0, <3>1, SupervisorAssumption DEF TypeOK, OwnState, Container, Phases,
           FixtureFirst, Holds, StopReason, StopProcess, Stopping, Waiting, Live, AfterStop,
           locks, HostLive, SlaveLive, Exits
      <3>2. CASE p = "model"
        BY <1>1, <1>0, <3>2, SupervisorAssumption DEF TypeOK, OwnState, Container, Phases,
           FixtureFirst, Holds, StopReason, StopProcess, Stopping, Waiting, Live, AfterStop,
           locks, HostLive, SlaveLive, Exits
      <3> QED
        BY <1>p, <3>1, <3>2
    <2>3. LockStep(c)
      BY <1>1, <1>0, <1>p, SupervisorAssumption DEF TypeOK, LockStep, StopProcess, Stopping,
         Waiting, Live, AfterStop, locks
    <2>4. NicStep(c)
      BY <1>1, <1>0, <1>p DEF TypeOK, OwnState, Phases, Container, MayOpen, NicStep,
         StopProcess, Stopping, Waiting, Live, AfterStop, locks, HostLive, SlaveLive, Exits
    <2> QED
      BY <2>1, <2>2, <2>3, <2>4, Frame
  <1>2. CASE WaitReturns(c, p)
    <2>1. ConStep(c)
      BY <1>2, <1>0, <1>p DEF TypeOK, ConStep, Container, WaitReturns, Waiting, Reaping,
         Exited, AfterStop, HostLive, SlaveLive, Exits
    <2>2. OwnState(c)'
      BY <1>2, <1>0, <1>p, SupervisorAssumption DEF TypeOK, OwnState, Container, Phases,
         FixtureFirst, Holds, StopReason, WaitReturns, Waiting, Reaping, Exited, AfterStop,
         locks, HostLive, SlaveLive, Exits
    <2>3. LockStep(c)
      BY <1>2, <1>0, <1>p, SupervisorAssumption DEF TypeOK, LockStep, WaitReturns, Waiting,
         Reaping, Exited, AfterStop, locks
    <2>4. NicStep(c)
      BY <1>2, <1>0, <1>p DEF TypeOK, OwnState, Phases, Container, MayOpen, NicStep,
         WaitReturns, Waiting, Reaping, Exited, AfterStop, locks, HostLive, SlaveLive, Exits
    <2> QED
      BY <2>1, <2>2, <2>3, <2>4, Frame
  <1>3. CASE WaitExpires(c, p)
    <2>1. ConStep(c)
      <3>1. CASE p = "slave"
        BY <1>3, <1>0, <3>1 DEF TypeOK, ConStep, Container, WaitExpires, Waiting, Reaping
      <3>2. CASE p = "model"
        BY <1>3, <1>0, <3>2 DEF TypeOK, ConStep, Container, WaitExpires, Waiting, Reaping
      <3> QED
        BY <1>p, <3>1, <3>2
    <2>2. OwnState(c)'
      BY <1>3, <1>0, <1>p, SupervisorAssumption DEF TypeOK, OwnState, Container, Phases,
         FixtureFirst, Holds, StopReason, WaitExpires, Waiting, Reaping, Exited, locks,
         HostLive, SlaveLive, Exits
    <2>3. LockStep(c)
      BY <1>3, <1>0, <1>p, SupervisorAssumption DEF TypeOK, LockStep, WaitExpires, Waiting,
         Reaping, Exited, locks
    <2>4. NicStep(c)
      BY <1>3, <1>0, <1>p DEF TypeOK, OwnState, Phases, Container, MayOpen, NicStep,
         WaitExpires, Waiting, Reaping, Exited, locks, HostLive, SlaveLive, Exits
    <2> QED
      BY <2>1, <2>2, <2>3, <2>4, Frame
  <1>4. CASE KernelReaps(c, p)
    <2>1. ConStep(c)
      BY <1>4, <1>0, <1>p DEF TypeOK, ConStep, Container, KernelReaps, Ends, Drop, HostLive,
         SlaveLive, Exits
    <2>2. OwnState(c)'
      BY <1>4, <1>0, <1>p, SupervisorAssumption DEF TypeOK, OwnState, Container, Phases,
         FixtureFirst, Holds, StopReason, KernelReaps, Ends, Drop, HostLive, SlaveLive,
         Exits
    <2>3. LockStep(c)
      BY <1>4, <1>0, <1>p, SupervisorAssumption DEF TypeOK, LockStep, KernelReaps, Ends,
         Drop
    <2>4. NicStep(c)
      BY <1>4, <1>0, <1>p DEF TypeOK, OwnState, Phases, Container, MayOpen, NicStep,
         KernelReaps, Ends, Drop, HostLive, SlaveLive, Exits
    <2> QED
      BY <2>1, <2>2, <2>3, <2>4, Frame
  <1> QED
    BY <1>1, <1>2, <1>3, <1>4

(***************************************************************************)
(* The theorems.                                                           *)
(***************************************************************************)

LEMMA NextKeeps ==
  ASSUME SupervisorIInv, [Next]_vars
  PROVE  SupervisorIInv'
  <1>1. CASE Next
    <2>1. PICK c \in Containers :
             \/ Start(c) \/ Supervise(c) \/ Sigterm(c) \/ SessionExpires(c) \/ SupervisorDies(c)
             \/ Host(c) \/ Slave(c)
             \/ \E p \in Children : KernelReaps(c, p)
      BY <1>1 DEF Next
    <2>2. CASE \/ Start(c) \/ Acquire(c) \/ AwaitSocket(c) \/ AwaitNic(c) \/ Monitor(c)
               \/ Finish(c) \/ Sigterm(c) \/ SessionExpires(c) \/ SupervisorDies(c)
      BY <2>2, SupervisorKeeps
    <2>3. CASE \E p \in Children : \/ StopProcess(c, p) \/ WaitReturns(c, p) \/ WaitExpires(c, p)
                                   \/ KernelReaps(c, p)
      BY <2>3, StopKeeps
    <2>4. CASE Host(c)
      BY <2>4, HostKeeps DEF Host
    <2>5. CASE Slave(c)
      BY <2>5, SlaveKeeps DEF Slave
    <2> QED
      BY <2>1, <2>2, <2>3, <2>4, <2>5 DEF Supervise
  <1>2. CASE UNCHANGED vars
    <2>1. /\ con' = con /\ serviceLock' = serviceLock
          /\ storeLock' = storeLock /\ nic' = nic
      BY <1>2 DEF vars
    <2> QED
      BY <2>1 DEF SupervisorIInv, TypeOK, OwnState, Phases, FixtureFirst, Holds, StopReason,
         NicOwned, NicFree, MayOpen, NicPerDirectory
  <1> QED
    BY <1>1, <1>2

\* The inductive invariant holds, for any number of containers and any
\* assignment of state directories to them (main() of docker/service.py with
\* both children).
THEOREM SupervisorInvariant == Spec => []SupervisorIInv
  <1>1. Init => SupervisorIInv
    <2> SUFFICES ASSUME Init PROVE SupervisorIInv
      OBVIOUS
    <2>1. \A v \in BOOLEAN : Fresh(v) \in Container
      BY DEF Fresh, Container
    <2>2. con \in [Containers -> Container]
      BY <2>1 DEF Init
    <2>3. ASSUME NEW c \in Containers
          PROVE  /\ con[c].sup = "off" /\ con[c].model = "none" /\ con[c].slave = "none"
                 /\ con[c].sock = FALSE
      BY DEF Init, Fresh
    <2>4. \A c \in Containers : OwnState(c)
      BY <2>3 DEF OwnState, Phases, FixtureFirst, Holds, StopReason, HostLive, SlaveLive
    <2>5. TypeOK
      BY <2>2, SupervisorAssumption DEF Init, TypeOK
    <2>6. NicOwned /\ NicFree /\ NicPerDirectory
      BY DEF Init, NicOwned, NicFree, NicPerDirectory
    <2> QED
      BY <2>4, <2>5, <2>6 DEF SupervisorIInv
  <1>2. SupervisorIInv /\ [Next]_vars => SupervisorIInv'
    BY NextKeeps
  <1> QED
    BY <1>1, <1>2, PTL DEF Spec

\* A supervisor that ended in order has left no child and no socket behind,
\* and no slave runs without the fixture it reads.
THEOREM SupervisorCorrect == Spec => []SupervisorInv
  <1>1. SupervisorIInv => SupervisorInv
    <2> SUFFICES ASSUME SupervisorIInv PROVE SupervisorInv
      OBVIOUS
    <2>1. NoOrphans
      <3> SUFFICES ASSUME NEW c \in Containers, con[c].sup = "done"
                   PROVE  /\ \A p \in Children : con[c][p] \in Exits \cup {"none"}
                          /\ ~con[c].sock
        BY DEF NoOrphans
      <3>1. OwnState(c) /\ con[c] \in Container
        BY DEF SupervisorIInv, TypeOK
      <3>2. ~con[c].sock
        BY <3>1 DEF OwnState, Phases
      <3>3. con[c].model \in Exits \cup {"none"}
        BY <3>1 DEF OwnState, Phases, Container
      <3>4. con[c].slave \in Exits \cup {"none"}
        BY <3>1 DEF OwnState, Phases, Container
      <3> QED
        BY <3>2, <3>3, <3>4 DEF Children
    <2>2. FixtureBeforeSlave
      BY DEF FixtureBeforeSlave, SupervisorIInv, OwnState, FixtureFirst
    <2> QED
      BY <2>1, <2>2 DEF SupervisorInv, SupervisorIInv
  <1> QED
    BY <1>1, SupervisorInvariant, PTL

\* The lock of a state directory keeps its containers' slaves apart on the
\* interface: flock in main() plus check_nic, which looks long before the slave
\* opens its socket.
THEOREM NicOncePerDirectory == Spec => []NicPerDirectory
  <1>1. SupervisorIInv => NicPerDirectory
    BY DEF SupervisorIInv
  <1> QED
    BY <1>1, SupervisorInvariant, PTL

\* When all containers mount the same state directory (one Compose project),
\* two slaves never answer on the interface at the same time. Without that
\* hypothesis the code does not ensure it: check_nic is not atomic with the
\* socket the slave opens later.
THEOREM NicExclusiveInOneProject ==
  ASSUME \A c, d \in Containers : StateOf[c] = StateOf[d]
  PROVE  Spec => []NicExclusive
  <1>1. SupervisorIInv => NicExclusive
    <2> SUFFICES ASSUME SupervisorIInv PROVE Cardinality(nic) <= 1
      BY DEF NicExclusive
    <2>1. nic \subseteq Containers /\ \A c, d \in nic : c = d
      BY DEF SupervisorIInv, TypeOK, NicPerDirectory
    <2>2. CASE nic = {}
      BY <2>2, FS_EmptySet
    <2>3. CASE nic # {}
      <3>1. PICK c : c \in nic
        BY <2>3
      <3>2. nic = {c}
        BY <2>1, <3>1
      <3>3. Cardinality(nic) = 1
        BY <3>2, FS_Singleton, Zenon
      <3> QED
        BY <3>3
    <2> QED
      BY <2>2, <2>3
  <1> QED
    BY <1>1, SupervisorInvariant, PTL

\* Only stop_process on a slave that still runs sends it SIGTERM.
LEMMA TermOnlyByStop ==
  ASSUME TypeOK, NEW c \in Containers, NEW d \in Containers,
         con'[c].term, ~con[c].term,
         \/ Start(d) \/ Supervise(d) \/ Sigterm(d) \/ SessionExpires(d) \/ SupervisorDies(d)
         \/ Host(d) \/ Slave(d) \/ \E p \in Children : KernelReaps(d, p)
  PROVE  con[c].sup = "stopSlave" /\ con[c].slave \in SlaveLive
  <1>0. con \in [Containers -> Container] /\ con[c] \in Container /\ con[d] \in Container
    BY DEF TypeOK
  <1>1. CASE Finish(d) \/ SupervisorDies(d)
    <2>1. PICK r : con' = [con EXCEPT ![d] = r] /\ r.term = FALSE
      <3>1. CASE Finish(d)
        BY <1>0, <3>1 DEF Finish, Remains, Fresh
      <3>2. CASE SupervisorDies(d)
        BY <1>0, <3>2 DEF SupervisorDies, Remains, Fresh
      <3> QED
        BY <1>1, <3>1, <3>2
    <2> QED
      BY <1>0, <2>1
  <1>2. CASE \E p \in Children : StopProcess(d, p)
    <2>1. PICK p \in Children : StopProcess(d, p)
      BY <1>2
    <2>2. CASE p = "slave"
      BY <1>0, <2>1, <2>2 DEF StopProcess, Stopping, Waiting, Live, AfterStop, Container
    <2>3. CASE p = "model"
      BY <1>0, <2>1, <2>3 DEF StopProcess, Stopping, Waiting, Live, AfterStop, Container
    <2> QED
      BY <2>2, <2>3 DEF Children
  <1>3. CASE \E p \in Children : WaitReturns(d, p) \/ WaitExpires(d, p) \/ KernelReaps(d, p)
    BY <1>0, <1>3 DEF Children, WaitReturns, WaitExpires, KernelReaps, Container
  <1>4. CASE \/ Start(d) \/ Acquire(d) \/ AwaitSocket(d) \/ AwaitNic(d) \/ Monitor(d)
             \/ Sigterm(d) \/ SessionExpires(d)
    <2>1. CASE \/ Start(d) \/ Acquire(d) \/ Sigterm(d) \/ SessionExpires(d)
      BY <1>0, <2>1 DEF Start, Acquire, Sigterm, SessionExpires, Fails, Container
    <2>2. CASE AwaitSocket(d) \/ AwaitNic(d)
      BY <1>0, <2>2 DEF AwaitSocket, AwaitNic, Fails, Container
    <2>3. CASE Monitor(d)
      BY <1>0, <2>3 DEF Monitor, Fails, Container
    <2> QED
      BY <1>4, <2>1, <2>2, <2>3
  <1>5. CASE Host(d)
    BY <1>0, <1>5 DEF Host, HostLoad, HostFixture, HostBind, HostListen, HostAccept, HostEof,
       HostFails, Container
  <1>6. CASE Slave(d)
    BY <1>0, <1>6 DEF Slave, SlaveConnect, SlaveDescribe, SlaveOpenNic, SlaveIdle, SlaveStops,
       SlaveFails, Container
  <1> QED
    BY <1>1, <1>2, <1>3, <1>4, <1>5, <1>6 DEF Supervise

\* The ready loop never stops a slave because its host died: when a serving
\* slave is told to stop there was a stop request, a session timeout or a
\* failed startup.
THEOREM HostDeathStopsNoSlave == Spec => HostDeathKeepsSlave
  <1>1. ASSUME SupervisorIInv, Next, NEW c \in Containers,
               con'[c].term /\ ~con[c].term /\ con[c].slave = "running"
        PROVE  con[c].stopping \/ con[c].expired \/ con[c].error = "startup"
    <2>1. con[c].sup = "stopSlave" /\ con[c].slave \in SlaveLive
      BY <1>1, TermOnlyByStop DEF Next, SupervisorIInv
    <2> QED
      BY <1>1, <2>1 DEF SupervisorIInv, OwnState, StopReason
  <1>2. SupervisorIInv /\ [Next]_vars =>
          [\A c \in Containers :
             (con'[c].term /\ ~con[c].term /\ con[c].slave = "running")
               => con[c].stopping \/ con[c].expired \/ con[c].error = "startup"]_vars
    BY <1>1
  <1> QED
    BY <1>2, SupervisorInvariant, PTL DEF Spec, HostDeathKeepsSlave
=============================================================================
