------------------------------ MODULE FkrAxis -------------------------------
(***************************************************************************)
(* One axis of the fleet with the F-KR servo: the request handler          *)
(* (AxisRuntime) in front of the adapter (FkrAdapter), under a master that *)
(* sends anything and, once a fault is latched, may decide to carry out    *)
(* the recovery procedure.                                                 *)
(***************************************************************************)
EXTENDS FkrAdapter

CONSTANTS
  Controlwords,   \* controlwords the master may send
  Modes           \* values of 0x6060 the master may send

ASSUME MasterAssumption ==
  /\ Controlwords \subseteq Word /\ {} \in Controlwords /\ FaultReset \in Controlwords
  /\ Modes \subseteq Int

VARIABLES
  guard, drive, last_cycle, sent, reply,  \* the axis (AxisRuntime)
  commanded,    \* the master commanded motion since the last fault
  attempt       \* cycles of the recovery procedure the master has carried out

Axis == INSTANCE AxisRuntime WITH
  Rest <- FkrRest, Drives <- Servos, InitDrives <- FkrInit,
  Exec <- FkrExec, Inputs <- FkrInputs, SdoRead <- FkrRead,
  SdoWrite <- FkrWrite

axis == <<guard, drive, last_cycle, sent, reply>>
vars == <<axis, commanded, attempt>>

Init == Axis!Init /\ commanded = FALSE /\ attempt = 0

\* A command to move: a payload passed on in the normal phase that starts a
\* PP move or a homing run, or selects a mode that moves without a start bit.
MotionCommand == /\ guard.phase = "normal"
                 /\ sent' # <<>>
                 /\ drive'.mode \in {PV, CSP, JOG} \/ 4 \in drive'.cw

Remember == commanded' = (MotionCommand \/ (commanded /\ guard.fault = Axis!NoFault))

\* Any request of the master while it is not in the procedure.
Request == attempt = 0 /\ Axis!Next /\ Remember /\ UNCHANGED attempt

\* The controlword the procedure asks for in the guard's phase: a rising edge
\* of the reset bit, its fall, then Shutdown, Switch On, Enable.
Expected == CASE guard.phase = "fault" /\ 7 \notin guard.previous_cw -> FaultReset
              [] guard.phase = "shutdown"  -> Shutdown
              [] guard.phase = "switch_on" -> SwitchOn
              [] guard.phase = "enable"    -> Enable
              [] OTHER                     -> {}

\* A cycle of the procedure, in time and in PP mode: it may begin whenever a
\* reset can clear the fault, and is then carried through.
RecoveryCycle ==
  /\ attempt > 0 \/ (guard.fault # Axis!NoFault /\ ~guard.restart_required)
  /\ \E r \in FkrRest : Axis!Cycle([cw |-> Expected, mode |-> PP, rest |-> r], FALSE)
  /\ Remember
  /\ attempt' = IF guard'.phase = "normal" THEN 0 ELSE attempt + 1

Next == Request \/ RecoveryCycle

Spec == Init /\ [][Next]_vars

-----------------------------------------------------------------------------
\* From the accepted reset until Enable passes, the servo is disabled and at
\* rest, whatever it was doing when a rejected PDO latched the fault.
RecoveringServoIsStopped ==
  guard.phase \in {"verify_reset", "shutdown", "switch_on", "enable"} =>
    drive.sm # OE /\ drive.vel = 0 /\ ~drive.pp_active

\* Recovery carries an unfinished homing run into normal operation only where
\* a device reset, written by an SDO, acts in its last cycle: the reset takes
\* the mode as already applied, so set_mode does not end the run.
HomingEndsInRecovery ==
  guard.phase # "normal" /\ guard'.phase = "normal" /\ drive'.homing_active =>
    ResetPending(drive)

\* The last cycle of a homing run makes the place the axis is at position 0.
HomingFinishes == /\ drive.homing_active /\ ~drive'.homing_active
                  /\ drive'.referenced /\ drive'.pos = 0

\* A position the TxPDO cannot hold is latched as a fault that only a restart
\* ends, by whichever request meets it: no later one steps the servo further.
OverflowLatched == ~Encodable(drive) => guard.restart_required

\* After a fault the axis never resumes an old motion by itself: it is stopped
\* while it recovers, and its position changes only if the master commanded
\* motion, in the normal phase, after the last fault was detected, or at the
\* end of a homing run, which a recovery ends unless a device reset intervenes.
\* An axis that left the range of its TxPDO is latched there.
NoUnattendedMotion ==
  [][/\ (RecoveringServoIsStopped /\ OverflowLatched)'
     /\ HomingEndsInRecovery
     /\ drive'.pos # drive.pos => commanded' \/ HomingFinishes]_vars

\* The recovery procedure gets the axis back to normal operation, enabled,
\* within six cycles: no fault that a reset may clear leaves guard and servo in
\* states that wait for different commands.
RecoveryCompletes ==
  [][attempt' <= 5 /\ (attempt > 0 /\ attempt' = 0 => drive'.sm = OE)]_vars
=============================================================================
