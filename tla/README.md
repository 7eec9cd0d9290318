# TLA+ specifications of the EtherCAT device simulator

The simulator makes a PC look like a line of CMMT servo drives to an EtherCAT
master. This directory holds TLA+ modules that model its control logic, TLC
configurations that check them on small instances, and TLAPS proofs about every
modelled component. `PROJECT.json` is the index: components, runs,
mutants, the map from definitions to source lines, findings, hazards, theorems.

Paths below are relative to the repository; `fm/` stands for
`src/functional_model/` and `es/` for `src/ethercat_slave/`.

## 1. The system

Two processes run in one container, started by `docker/service.py`:

    master --EtherCAT--> slave process (C++, es/) --Unix socket, JSON--> model host (Python, fm/)
                           EtherCAT thread                                 one request at a time
                           RPC worker thread                               fleet of axes, parameter store

| Component | State it keeps | Operations |
|---|---|---|
| Axis fault guard, `fm/diagnostics/fault.py` | phase, latched diagnostic, restart flag, last controlword and TxPDO | detect, prepare, accept, response |
| Axis request handler, `fm/runtime/axis.py` | guard, adapter, time of the last cycle, save diagnostic | dispatch: cycle, idle, read, write, describe |
| CiA 402 power state machine, `fm/.../state_machine.py` | one of five states | process, get_statusword |
| F-KR servo, `fm/.../servo_model.py` | position, velocity, mode, PP move, homing run, limit warnings, object dictionary | model_update in the modes PP, PV, homing, CSP, jog |
| F-KR adapter and bridge, `fm/.../adapter/f_kr_cmmt.py`, `profile/bridge.py` | the servo | apply_outputs, step, read_inputs, read_sdo, write_sdo |
| Copley adapter and FMI runner, `fm/.../adapter/copley.py`, `fm/runtime/fmi/runner.py` | object dictionary, FMU instance, accumulated time | the same calls, in front of a foreign binary |
| Object dictionary, `fm/.../profile/object_dictionary.py`, `configured_od.py` | definition and value per address | define, overlay, read, write, lookups by role, resets |
| Role index, `fm/.../f_kr_cmmt/od_role_index.py` | map from role to definitions | rebuild, forget |
| Parameter store, `fm/storage/parameter_store.py` | one file per parameter set, a lock | enter, load, save |
| Migration tool, `fm/storage/migrate.py` | backup files | migrate_profile_velocity |
| Model host, `fm/runtime/service.py`, `fm/runtime/fleet.py`, `fm/ipc/server.py` | the axes, one connection | startup, serve, close |
| Configuration, `fm/configuration.py` | none | load_environment, validate_config |
| RPC client, `es/ipc/async_model_client.h`, `es/ipc/model_client.h` | job queue, futures, failure text, socket | submit, worker loop, request with a deadline |
| SDO gateway, `es/ipc/sdo_gateway.cc` | one pending future per message, local dictionary | create, process, correction of KickCAT's replies |
| Slave main loop, `es/main.cc` | process image, pending futures, host_failed | pump, route, routine, submit |
| Fixed PDO mapping, `es/process_data/` | written mapping objects | write, complete, targetsOutput |
| Supervisor, `docker/service.py` | child processes, lock, status file | start, wait for readiness, watch, stop, healthcheck |

### What is hard in it

- **A guard and a drive with a life of its own.** The guard filters commands
  after a fault; the drive behind it may be enabled, moving, faulted, or may
  reject the very step that should stop it. Both must agree again at the end of
  the recovery procedure, after any history.
- **Discrete motion.** Trapezoids are computed per cycle with a varying cycle
  time; reversal, overshoot and limits decide whether a move ever ends.
- **Two threads and a second process.** Futures become ready between any two
  lines of the EtherCAT thread; the worker fails in two steps; a late reply is
  still in the socket when its request has been given up.
- **Processes that come and go.** The supervisor sees its children only through
  a socket file, polls and deadlines, and two containers may want one interface.
- **Foreign state machines.** An FMU forbids most calls after an error, a
  KickCAT message queues its success before its hook refuses, and an AL state
  change may come between any two mapping writes.
- **Durability.** A save is five file operations, and the process or the power
  may stop between any of them; a second program writes the same files.

The hazards, each at its line, are in `PROJECT.json`; section 4 says which run
looks at which.

### What makes each component correct

- guard: a fault is latched, shown and kept until the verified reset; a required
  restart is final; nothing but zero or a bare reset reaches a faulted drive;
- guard with drive: after a reset the drive is disabled and at rest until
  Enable; no motion resumes by itself; the recovery procedure always ends;
- servo: no motion outside Operation Enabled, no stray PP move, PP moves start
  inside the limits and end, jogging stops at the limits, an interrupted homing
  run leaves the axis unreferenced and can be finished;
- object dictionary: the index never answers from an outdated map, a reset
  restores what construction gave;
- FMU runner and fleet: only legal native calls, one communication point, no
  instance left open;
- gateway and process data: one true reply per SDO, a refused access changes none
  of the model's objects, an axis is ticked only with a whole image and operates only with its
  fixture's mapping;
- supervisor: one slave per interface, no orphans, startup and stop end, a dead
  host is shown and does not stop the slave;
- configuration: what is accepted can be served and means the same in any order;
- link: each request gets its own reply or an exception, none is lost; after a
  host failure the process image stays frozen in Fault; SDOs are answered;
- store: a file is never torn, a successful save is durable, a migration loses
  nothing, a refused startup changes nothing.

## 2. Modules

| Module | Models | EXTENDS / INSTANCE |
|---|---|---|
| `CiA402` | power state machine, statuswords as sets of bits | |
| `AxisFault` | class AxisFault as operators on a record | CiA402 |
| `AxisRuntime` | Model.dispatch for any adapter | AxisFault |
| `CopleyDrive` | Copley adapter and FMU contract | CiA402 |
| `CopleyAxis`, `MCAxis` | axis with a Copley drive, or with an adapter that may do anything | AxisRuntime, CopleyDrive |
| `AxisRuntimeProofs` | theorems of AxisRuntime and CopleyAxis | CopleyAxis |
| `FkrServo` | F-KR servo as operators on a record | CiA402 |
| `FkrAdapter` | F-KR adapter, RxPDO and TxPDO | FkrServo |
| `FkrDrive`, `MCFkrDrive` | servo and adapter under any master | FkrAdapter |
| `FkrAxis`, `MCFkrAxis` | axis with an F-KR drive and a recovering master | INSTANCE AxisRuntime |
| `FkrProofs` | theorems of FkrDrive and FkrAxis | FkrAxis, FkrDrive |
| `ModelLink`, `MCModelLink` | slave process, RPC worker, model host | |
| `ModelLinkProofs` | its theorems | ModelLink |
| `SnapshotRegister` | what the store promises (abstract) | |
| `ParameterStore`, `MCParameterStore` | service and migration tool on one store | INSTANCE SnapshotRegister |
| `ParameterStoreProofs` | its theorems | ParameterStore |
| `SdoGateway`, `MCSdoGateway` | the CoE mailbox of one slave | |
| `ProcessData`, `MCProcessData` | FMMUs, frames, AL states, fixed mapping | |
| `SlaveProofs` | theorems of SdoGateway and ProcessData | SdoGateway, ProcessData |
| `OdModel` | object dictionary with linear search (abstract) | |
| `OdRoleIndex`, `MCOdRoleIndex` | the same with the role index | OdModel |
| `OdProofs` | its theorems | OdRoleIndex |
| `Configuration` | environment to device list | |
| `FmiFleet`, `MCFmiFleet` | life of the model host: configuration, FMU instances, closing | Configuration |
| `FleetProofs` | theorems of FmiFleet and Configuration | FmiFleet |
| `Supervisor`, `MCSupervisor` | containers, supervisor, host and slave as processes | |
| `SupervisorProofs` | its theorems | Supervisor |

**Words** are sets of bit numbers: `cw & 0x80` is `7 \in cw`. **Payloads** are
records of the controlword, the mode and the remaining fields.

**AxisRuntime.** One action per operation of `dispatch`; a request is atomic
since the host serves one at a time. The adapter is a parameter (`Exec`,
`Inputs`, `SdoRead`, `SdoWrite` over a set `Drives`): a call returns a set of
outcomes, each ending normally, with a rejection, or with an unexpected
exception, in any drive state. `sent` and `reply` record what the last request
gave to the drive and to the master. The time since the last cycle is the
Boolean `late` (more than 100 ms).

**CopleyDrive.** The FMU is foreign; `FmuStep` is what the comment in
`AxisFault.prepare` says of it: it may drop Fault while the reset bit is high
although the cause persists. Motion is not modelled; of the object dictionary
only the pair 0x6083/0x6084 matters to what is accepted.

**FkrServo.** Every mode, in integer units with all scale factors 1, one
operator per method. Real positions are floats; the order of tests and
assignments is the code's, the rounding of floats is not modelled.
`window_counter` saturates at `WindowCap`, above which no comparison changes.
`FkrDrive` puts it on benches: the RxPDOs, configurations and cycle times of one
use, chosen at the start. They keep apart what one instance could not hold.

**ModelLink.** The EtherCAT thread takes one step per axis of `pump`, one per
frame, and one each for the routine and the submission of an axis; the worker
and the host interleave between any two. A reply is reduced to the request it
answers. The deadline may pass at any moment while the worker waits, and the
host may die at any moment. The mailbox protocol is KickCAT's and external: a
mailbox holds one SDO message at a time, arriving with a frame. Which axes a
frame writes and whether an axis is Operational are choices. The bus (axes, used
mailboxes, queue limit) is chosen at the start.

**ParameterStore.** One action per file operation. `dir` is what processes see,
`possible` what a power loss may leave: directory updates become durable in the
order they were made, at the latest at the fsync of the directory, and a file
that was not synced may be torn. A snapshot is a schema and a value; a file is
loadable when it is whole and of its model's schema. Which snapshots a file may
hold (`known`), and the original of a migration (`legacy`), are history
variables; so are `unsynced` and `reused`.

`SnapshotRegister` is the same store as an abstract register, and
`AtomicRegister` says that `ParameterStore` implements it: readers see `dir`, a
power loss may bring back what is in `known`, and the save in progress is that of
the program between "write" and "dirsync".

**SdoGateway.** ModelLink follows one good SDO to the model; SdoGateway has every
decision before and after: each test of the header and of the dictionary in the
code's order, the delegate's reply or exception, the corrected command byte and
the emptied queue. `od` is the dictionary of all objects: the gateway writes the
model's own after the model accepted, KickCAT (`Stored`) the others before it
replies and before a hook may reject, and nothing takes that back. A call of `process()` is one step. What the master may send,
and how many requests it keeps in flight, is chosen at the start. Header fields are numbers of
bytes, so that `BytesRead` is what the copies touch.

**ProcessData.** Computes what ModelLink leaves as choices. An FMMU and a
datagram are intervals of logical addresses; `cycle` remembers which datagrams
wrote the bytes of the image an axis was ticked with. `current` is the map in
FixedMapping and `dict` the dictionary's copy, written before the hook runs.

**OdModel, OdRoleIndex.** A definition keeps address, role, default and PDO
flag. `built` and `redefined` are history variables for the reset. OdRoleIndex
adds the map as `index`; a define or overlay that raises is an action of its own
that forgets the map and changes nothing else.

**FmiFleet.** `native` is the FMI 3.0 state of each instance, `runner` the Python
object. `calls` holds the native calls of the last step with the state they met.
Every call may fail, and so may the Python code between `create_adapter` and the
end of the Model constructor. The axes are those of the device list that
`Configuration` made of the environment, so every fleet is one the program can
get; the environment is forgotten once the list is made.

**Supervisor.** `main()` is one record per container with a position, the two
children as process states, and the files the three exchange. The host binds and
listens in two steps, the slave connects, checks the description and opens the
packet socket in three. A child may crash or hang in each of them, the supervisor
may be signalled or killed in each of its own; a deadline may expire at any
moment of the wait it bounds. The container's init ends what is left when the
supervisor is gone.

**Configuration.** A list is a sequence of entries; an entry is an index and a
value, or malformed. The two functions are operators; `FmiFleet` takes the step
that calls them. `sorted(devices, key=...)` is `Sorted`: the device at a place is
the one with as many smaller slave indices before it (`Ranked`), which is what
sorting does once the indices are known to differ.

Definitions marked "Mutant of X" are X with a plausible mistake. They belong to
no specification: `PROJECT.json` pairs every property with a mutant that breaks
it, which shows that the property depends on the code it is about.

## 3. Bounds, symmetry, fairness

| Run | Instance | Why it is enough |
|---|---|---|
| axis | 8 controlwords, 2 modes; an adapter with 6 outputs, and the Copley adapter | every mask the guard tests has a word that passes and one that fails; the FMU state is finite; the theorems remove the bound |
| fkr_servo, bench move | limits -2..2, targets -2, 2 and 4 (outside), velocity up to 2, two configurations, positions up to 4 | moves accelerate, cruise, brake, reverse in mid-move and overshoot; PV leaves the encodable range |
| fkr_servo, bench jog | limits -2..2, cycle times 1 and 2, two accelerations | overshoot depends on cycle time and velocity; both vary between cycles |
| fkr_servo, bench homing | cycle times 1 and 3 with a run of 2, modes PP, homing, CSP | a cycle is shorter or longer than the whole run; the theorem removes the bound |
| fkr_limits | as bench move, with limits that narrow to -1..1 | the limits change between two uses of a target |
| fkr_axis | stroke 0..2, one unsupported mode, a homing run of 2 cycles, all requests | guard and servo states are crossed in full; a fault meets a homing run half done; the theorems remove the bound |
| link_safety | 2 axes, 1 mailbox, queue of 3 | 3 clients with one request each, so the queue never refuses |
| link_liveness | 2 axes, or 1 axis with its mailbox; queue of 1 | the queue refuses |
| sdo_gateway | one request of every header shape (6 objects, 5 claimed lengths), or 4 requests with 2 in flight | each comparison has a case on both sides and on its edge; a rejection meets the reply of another request in the queue; the theorems remove the bound |
| process_data | 2 slaves, addresses 0..3, up to 2 datagrams; a count and one mapping entry | partial, exact and joint coverage, at both ends of the address range; cleared, half restored and foreign mappings |
| od_role_index | 2 keys, 2 roles, 2 values, 3 profiles | a role has no, one or two matches; the theorems remove the bound |
| fleet | up to 2 bus and list entries, and all orders of 3 axes, 2 of them with an FMU; 3 steps | repeated, missing, surplus and malformed entries meet in pairs; sorting needs three; the failing axis is first, last, before or after an open one |
| supervisor | 2 containers, one state directory | the second starts in every state of the first |
| parameter_store | one Copley set, then one F-KR set, 2 values | the sets interact only through the startup order; the first may be missing when the second is refused |

The position bound `PositionMax` stands for the 32-bit field of the TxPDO: the
code fails there and the model does too, it is not a cut. In `ModelLink` the
queue bound 64 is part of the bus; a queue that cannot fill, and one that does,
are checked in different runs. `RestBound`, `JogBound` and the six cycles of
`RecoveryCompletes` are bounds the properties promise, found tight enough by TLC
to fail under the mutants.

Symmetry is used in link_safety, over the values of an SDO object, which are only
compared and copied. fkr_axis runs with a view that leaves out `sent`
and `reply`, which record the last request: no action reads them and the
properties of `FkrAxis` do not either.

The number of requests of a master (SdoGateway), `FrameMax` (ProcessData) and `MaxTime` (FmiFleet) cut
unbounded inputs; the runs that have them, and those of systems that end
(containers, a closed fleet), do not check deadlock.

No action property, invariant or deadlock check relies on fairness. The
liveness properties of `ModelLink` assume `WF_vars(Worker)` and
`WF_vars(Slave)`: both threads keep running, the worker because its wait for a
reply ends at the latest with its deadline, the EtherCAT thread because its
socket read times out after 10 ms and it never waits for an RPC. Nothing is
assumed of the host (it may hang or die) nor of the master (frames may stop);
`SdoAnswered` has continuing frames as its premise since only a frame runs the
mailboxes. The liveness properties of `Supervisor` assume
`WF_vars(Supervise(c))` and `WF_vars(KernelReaps(c, p))`: the supervisor polls
every 50 or 100 ms and each of its waits has a deadline, and the kernel ends a
process that was killed. Nothing is assumed of the host and the slave. "Ends
within n" properties of the servo and of the recovery are
safety properties over explicit cycle counts.

## 4. Runs

Some checked properties are conjunctions of named parts, each stated and commented
in its module; the parts are given in brackets.

- **axis** (TypeOK, GuardCoherent, RestartIsFinal, NoCommandWhileFaulted,
  FaultHeldUntilVerified, FaultVisible): the guard against every adapter behaviour,
  including one that fails during the reset itself. (ResolvedMeansCauseGone,
  RecoveringDriveIsDisabled): with the Copley adapter, a diagnostic is resolved only
  when its cause is gone, which needs the verification cycle; the disabling step
  before the pulse is what keeps a recovering drive from being enabled.
- **fkr_servo** (ServoInv [TypeOK, StoppedUnlessEnabled, PpMoveIsLegitimate,
  HomingIsUnreferenced], PpComesToRest, JogStopsAtLimit, HomingCompletes): any
  sequence of PDOs and SDO writes. PpComesToRest unfolds 16 further cycles from
  every reachable enabled PP state. The overshoot of a jog past a limit is at most
  one cycle of travel and the braking distance. homing_active survives disables,
  mode changes and device resets; the axis is then unreferenced and has no PP move,
  and the run ends once the drive is held enabled in mode 6.
- **fkr_limits** (violation of PpStartsWithinLimits): the finding below.
- **fkr_axis** (NoUnattendedMotion, with RecoveringServoIsStopped, OverflowLatched
  and HomingEndsInRecovery; RecoveryCompletes): guard and servo together, with a master
  that may start the documented recovery procedure in any recoverable fault. The
  position changes only after a command given since the last fault, or where a
  homing run ends and calls the place it is at 0. In PV it runs out of the range
  of the TxPDO, which always latches the restart.
- **link_safety** (LinkInv [TypeOK, FuturesBacked], RepliesMatch, LocalOdMatches,
  FrozenAfterFailure, with AtMostOneMixedFrame; SdoAbortsAfterHostFailure).
- **link_liveness** (HostLossShown, RequestsAnswered [FutureResolved, SdoAnswered]).
- **sdo_gateway** (ReadsInside, RepliesAreTrue [TypeOK, OneTrueReply, AbortFormat,
  and MayWrite: what may change the dictionary]). At an index of the model only an
  access the model accepted does, at its own object. At the other indexes a
  download does, a refused one included: a rejected mapping write stays in the
  dictionary (see the RF-004 item below). It also empties the reply queue; only a
  master with two requests in flight, which CoE does not have, loses a reply by it.
- **process_data** (WholeImage: the address test against what the bytes say;
  MappingInv [TypeOK, MappingRestored]: FixedMapping and the AL states).
- **od_role_index** (IndexFresh, ResetRestores, LinearSearch): also a refinement, of
  OdModel.
- **fleet** (ConfigurationSound [AcceptedIsServable, NothingDropped,
  OrderIrrelevant], NativeLegal [TypeOK, CommunicationPoint, legal calls],
  LeaksExplained): every environment of the bound, and every native call of the
  fleets they give fails somewhere.
- **supervisor** (NicExclusive, SupervisorInv [TypeOK, NoOrphans,
  FixtureBeforeSlave], HostDeathHandled [HostDeathKeepsSlave, HostFailureShown],
  PhasesEnd [StartupSettles, StopCompletes]): two containers. A supervisor that ends
  in order holds its lock until its slave is dead; when it is killed, init kills the
  slave, and check_nic keeps the next container out while the packet socket is still
  open.
- **parameter_store** (StoreInv [TypeOK, NothingCreatedUnlessAllLoad],
  SnapshotDurable, OriginalKept, AtomicRegister, FailedSaveKeepsFile): service,
  migration, failing operations, kills and power losses in any order.

### Finding

`Doc/RF/RF-011-device-configuration.md` says PP refuses targets outside 0x607D. A
target is checked when it changes; if an SDO write narrows 0x607D afterwards, a new
setpoint edge starts a move to the old target.

### Other deviations from the documents

They show as exceptions that the properties need to hold, or as limits of an
instance.

- `Doc/RF/RF-018-diagnostic-fault.md` says SDOs that need the model are aborted
  after a host failure. When the failure is a full queue the worker keeps running,
  so they are still served. With the limit of 64 this takes a fleet with more than
  65 requests outstanding at once. SdoAbortsAfterHostFailure is therefore checked
  with a queue that cannot fill; `Bus(2, {1}, 1)` violates it.
- The same document says a failed save preserves the existing file. When the fsync
  of the directory fails the file has already been replaced: the exception
  "dirsync" of FailedSaveKeepsFile.
- `Doc/RF/RF-004-motion-server-axis-panel.md` says other mapping values are not
  accepted, and that the master verifies the mapping by readback. The hook that
  refuses a value runs after KickCAT stored it, and nothing takes it back: the
  slave operates with a complete FixedMapping and a readback shows the refused
  value: the second conjunct of MappingRestored, and the downloads that MayWrite of
  SdoGateway admits although they are refused.
- `Doc/RF/RF-017-copley-fmu.md` says open FMU instances are released at termination
  and after a failed initialisation. `ModelFleet.close` ends at the first axis whose
  close raises, and a Model whose constructor raises after its adapter was made is
  in no list: the two cases of LeaksExplained, which says that there is no third.

- `Doc/RF/RF-018-diagnostic-fault.md` forbids that an earlier motion is carried out
  again after a reset or recovery. Enable in PP mode ends a homing run that the fault interrupted,
  unless the device reset 0x2000:1 acts in that very cycle: it sets the last mode
  command too, so `set_mode` sees no change of mode, and the run goes on when the
  master next selects mode 6, without a new start bit. This is the exception
  `ResetPending` of HomingEndsInRecovery.

## 5. Proofs

The bounds of section 3 are those of TLC. The theorems below hold for every
value of the constants that meets the named assumption of the module; TLC
evaluates that assumption on the instance of the run. Each module `XProofs`
names its inductive invariant and its parts before the first lemma; each part is
there because the property alone is not inductive. Every such invariant was
checked by TLC on the instance of its run before it was proved (the fleet's
without the conjunct that the environment read is one of the inputs, which Init
says and no step changes before it is forgotten).

### Request handler and Copley drive (`AxisRuntimeProofs`)

For **every** adapter, set of controlwords, modes and payloads: TypeOK,
GuardCoherent, RestartIsFinal, NoCommandWhileFaulted, FaultHeldUntilVerified and
FaultVisible of the run axis. The assumptions are `ControlwordsAssumption`
(controlwords are 16-bit words; zero and the bare reset are among them) and
`DriveAssumption` (the adapter's calls return drive states and one of the
endings the Python call can have; a TxPDO has a statusword).

1. *Types.* Each operator of the guard maps guards to guards (DetectType,
   PrepareType, AcceptType, JudgeType). CycleOutcome describes what a cycle can
   be: a hold, or a judged outcome of at most two drive steps with known
   controlwords. TypeOK is inductive.
2. *Coherence.* GuardCoherent is inductive relative to TypeOK, but prepare leaves
   it for a moment only: a recovering guard changes phase before the drive's
   answer is judged. PrepareCoherent and JudgeCoherent show that it holds between
   the two as well, also when judging escalates to a restart.
3. *Steps.* CycleKeeps and NextKeeps collect what one request may do to a faulted
   or a restart-requiring guard; the action properties follow from them and the
   two invariants. That `verify_reset` implies an acknowledgement, a conjunct of
   GuardCoherent, is what FaultHeldUntilVerified needs.
4. *Visibility.* FaultProjection removes every enabling bit and sets Fault
   (Projected); NextVisible goes through every request that answers a statusword.
5. *Copley.* RecoveringDriveIsDisabled and ResolvedMeansCauseGone, where an axis
   that has a Copley drive has the adapter of `CopleyDrive` and keeps it
   (`CopleyAssumption`). The invariant `Agree` adds to the first property why the
   disabling step may be left out for a drive's own fault (the FMU is then not
   enabled), and that a fault which is neither the drive's nor the adapter's
   needs a restart, so that no reset is ever tried for it.

### F-KR servo and axis (`FkrProofs`)

ServoInv and HomingCompletes for every configuration, set of cycle times, homing
time, gain and bench; NoUnattendedMotion and RecoveryCompletes for an axis with that
servo under every master. `ServoAssumption`, `AdapterAssumption`, `BenchAssumption`
and `MasterAssumption` type the constants, make a cycle take time and put the
default configuration among the possible ones.

1. *One cycle.* Each mode has a lemma about what it keeps (types, power state and
   mode, the moves, the reference) and when it moves; UpdateKeeps and StepKeeps put
   them together along `model_update`.
2. *Servo.* ServoInv is not inductive: an RxPDO may have written a mode that is not
   applied yet. `ServoOk` therefore ties moves and homing runs to the mode applied
   last (a device reset can leave a homing run in CSP, no other mode can have one),
   and `Settled` says that between two cycles the two modes are equal.
3. *Contract.* FkrMeetsContract shows that the adapter meets ControlwordsAssumption
   and DriveAssumption of `AxisRuntime`, so the theorems above hold for the F-KR
   axis too.
4. *Axis.* `GuardOk` relates the guard to the servo: its faults are rejected RxPDOs,
   which a reset may clear, and failures that need a restart; a position that cannot
   be encoded has been latched; from the pulse to Enable the servo is not enabled.
   `AxisOk` adds that without a command since the last fault the servo is at rest.
   FaultCycle and ClearCycle say what a cycle does with and without a latched fault,
   the disabling step before the pulse included. `ProcedureOk` follows the recovery
   procedure: at each of its cycles guard and servo wait for the same command, and no
   device reset is due after the pulse.
5. *Homing.* `Counted` bounds the counter of an unfinished run; the cycles of the
   property are a recursive function, so RepeatedExists shows that it exists and
   RepeatedCountsDown that after n of them the run is over or has n fewer to go.
   Both are inductions over the number of cycles, from the least element of a set of
   naturals (WFMin of the library).

### Object dictionary (`OdProofs`)

IndexTypeOK, IndexFresh, LinearSearch and ResetRestores for **every** profile and
all sets of keys, roles and values, from `OdAssumption` and `NoneIsNoDefinition`
(None and KeyError are no definitions, a profile maps addresses to roles and
values).

1. *Freshness.* IndexFresh alone is not inductive: a map must also be a function
   on Roles to be compared with a rebuilt one, so the invariant is IndexInv, the
   conjunction of IndexTypeOK and IndexFresh. Matches depends on definitions only
   (SameDefinitions), and writes and resets change values only; define and overlay
   forget the map whether they raise or not.
2. *Refinement.* With a fresh map an indexed lookup is a linear search, so
   each step of IndexNext is one of Next or leaves `vars` alone.
3. *Reset.* What construction writes and what the two reset passes write are the
   same function of definition and profile for every key that is configured or
   mapped. The invariant AsBuilt says that a key never redefined still has the
   definition of its construction.

### Supervisor (`SupervisorProofs`)

SupervisorInv and HostDeathKeepsSlave for any number of containers and any
assignment of state directories; NicExclusive when all containers have the same
one. Without that hypothesis the code does not promise it (see section 6), and
what it does promise is NicPerDirectory: one socket per state directory.
`SupervisorAssumption` types the constants.

The difficulty is that check_nic looks long before the slave opens its socket.
`NicFree` bridges the gap: whoever *may still open* a socket (`MayOpen`) has no
other socket of its directory beside it. It is inductive because a container
that may open one holds the lock of its directory (`Holds`), so a second one
cannot come to be. `Phases` says which children exist at which place of main(),
`NicOwned` that a socket belongs to a slave that has not ended. `Frame` reduces
each action of one container to what it does to that container, the lock and the
socket.

### SDO gateway and process data (`SlaveProofs`)

ReadsInside and RepliesAreTrue for every dictionary, mailbox size, master and
number of requests. `GatewayAssumption` says that sizes are naturals, the room of
the mailbox holds an SDO header, and a request has the fields of the headers.
`Processing` says that a request has one message and that only a permitted access
waits for the model; `QueueTrue`, `SentTrue` and `Decided` that a decided request
has one reply, in the queue or sent, and that it is true, or was dropped;
`Pipelining` that replies are dropped only where the master keeps two requests in
flight, by counting them. `StoredFacts` bounds what KickCAT may write to the index
of the request, so that the objects of the model change through `Answer` only.

WholeImage and MappingInv for any number of slaves, any image size and mapping,
and all frames of disjoint datagrams. WholeImage rests on `OneFmmu` (a slave has
one output FMMU) and on arithmetic about intervals: two datagrams never write the
same address (OneWriter), so one that covers the FMMU wrote all of it.
MappingInv rests on `DictFollows`: dictionary and FixedMapping differ by refused
values only.

### Parameter store (`ParameterStoreProofs`)

StoreInv, SnapshotDurable, OriginalKept, FailedSaveKeepsFile and the refinement
AtomicRegister, for any number of sets, values and schemas (`StoreAssumption`).
`Exclusive` is the lock: an active program holds it, so at most one is inside
save. `SaveState` follows the save through its file operations, `FilesKnown` says
that whatever a process or a power loss finds is whole and known, `Checked` how
far startup has loaded. For the migration, `LegacyOnly` says that a snapshot of an
old schema is the original, `LegacySafe` and `Migrating` that it is in its backup,
synced, before it is replaced. In the refinement os.replace is the step that
writes the register, the fsync of the directory the one that reports it, and a
power loss one that may bring back a known value.

### Link (`ModelLinkProofs`)

LinkInv, RepliesMatch, LocalOdMatches and FrozenAfterFailure for every number of
axes and queue limit (`LinkAssumption`), and SdoAbortsAfterHostFailure for every
bus whose queue has room for one job of each axis and of each mailbox in use: with
the code's limit of 64, up to 32 axes. That hypothesis is the deviation named in
section 4; a pigeonhole argument over the clients shows that such a queue never
refuses.

`Queue` ties each job to the one future that waits for it, `Wire` says that the
socket holds the worker's request or its reply and nothing else while the link is
up, `Owned` and `MailboxFuture` that a future is its holder's. `ModelAhead` is
what LocalOdMatches needs in between: the model is ahead of the local dictionary
by exactly the reply under way. `Sweep` follows the pass that sets every axis to
Fault. `GivenUp`, under the hypothesis, says that every failure the EtherCAT thread
has seen is a worker that has given up.

### Configuration and fleet (`FleetProofs`)

ConfigurationSound, NativeLegal and LeaksExplained for every environment, any
number of axes and any number of steps, from `ConfigurationAssumption` (lists are
sequences of entries that are malformed or have an index and a value) and
`FleetAssumption`. The configuration part shows that sorting distinct indices
keeps every device, puts index i at place i when they are 0..n-1, and, with the
mappings made of the lists, does not depend on the order of writing (LoadTurned,
ValidateTurned). In the fleet part `Healthy` relates each runner to the native
state of its instance, `Order` says where the axis under construction is and that
the later ones are untouched, and `Leaks` that while close runs downwards an open
instance is below its position or abandoned.

### Only model-checked

- Liveness (HostLossShown, RequestsAnswered, PhasesEnd, and the part of
  HostDeathHandled that must eventually happen): fairness is out of the prover's
  reach.
- PpComesToRest and JogStopsAtLimit: within how many cycles a move or a jog ends
  depends on the velocities, accelerations and distances of the configuration. The
  bounds 16 and 20 are those of the instance, so the properties are not true of
  every value of the constants, and without acceleration a move does not end at all.
- PpStartsWithinLimits, which the code violates.

## 6. Not modelled

- Conversions (codec, metadata, catalogue, fixture XML): pure functions of
  strings, bytes and XML without state.
- The dotenv syntax of `read_env`: text processing.
- Timing diagnostics: nothing depends on them. Log lines and time stamps.
- The construction of the KickCAT slaves from the fixture, and contract hashes.
- What the FMU computes, and an FMU that ends the process (fmi3Fatal is a crash
  of the host, which `Supervisor` and `ModelLink` have).
- Two Compose projects with different state directories on one interface:
  `RF-012-docker-deployment.md` says the interface is not reserved host-wide.
- KickCAT (ESC, mailbox, AL states), the operating system and the file system are
  external and appear as choices. `third_party/` is another vendor's SDK that no
  code here uses.

## 7. State of the project

Every component with state of its own is modelled, and every safety property of the
passing runs is a theorem but PpComesToRest and JogStopsAtLimit. Worth adding when
the code changes: bounds for these two as functions of the configuration (distance,
velocity, acceleration and cycle time), which could then be proved like
HomingCompletes; and the rounding of positions to floats, which the integer units
leave out.

## 8. Running

    tlc -workers 2 -config MCAxis.cfg MCAxis      # and the other pairs of PROJECT.json
    tlapm AxisRuntimeProofs.tla                   # and the other modules *Proofs.tla
