----------------------------- MODULE CopleyAxis -----------------------------
(***************************************************************************)
(* The axes of a host: the request handler (AxisRuntime) in front of the   *)
(* Copley adapter (CopleyDrive), or of any other adapter. The properties   *)
(* are what the guard promises for a Copley drive.                         *)
(***************************************************************************)
EXTENDS AxisRuntime, CopleyDrive

IsCopley(d) == d \in CopleyDrives

\* An axis keeps the adapter it was created with, and a Copley axis has that of
\* CopleyDrive.
ASSUME CopleyAssumption ==
  \A d \in Drives :
    /\ IsCopley(d) =>
         /\ d \in InitDrives => d \in CopleyInit
         /\ Inputs(d) = CopleyInputs(d) /\ SdoRead(d) = CopleyRead(d)
         /\ SdoWrite(d) = CopleyWrite(d)
         /\ \A p \in Payloads, first \in BOOLEAN : Exec(d, p, first) = CopleyExec(d, p, first)
    /\ ~IsCopley(d) =>
         /\ \A o \in SdoWrite(d) : ~IsCopley(o.drive)
         /\ \A p \in Payloads, first \in BOOLEAN : \A o \in Exec(d, p, first) : ~IsCopley(o.drive)

\* A fault is resolved only when its cause is gone: an FMU that drops Fault
\* while the reset bit is high, with the cause still asserted, does not get
\* the axis out of its fault (verify_reset in prepare and accept).
ResolvedMeansCauseGone ==
  [][IsCopley(drive) /\ guard.fault # NoFault /\ guard'.fault = NoFault =>
       ~drive'.cause /\ ~drive'.inject]_vars

\* From the accepted reset until the last command of Shutdown, Switch On,
\* Enable the drive is not enabled, whatever it was doing when a rejected PDO
\* or its own fault stopped it: the reset disabled it first.
RecoveringDriveIsDisabled ==
  IsCopley(drive) /\ guard.phase \in {"verify_reset"} \cup RecoveryPhases =>
    drive.fmu # OE
=============================================================================
