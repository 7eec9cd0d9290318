---------------------------- MODULE CopleyDrive -----------------------------
(***************************************************************************)
(* adapter/copley.py with runtime/fmi/runner.py: the adapter of the Copley *)
(* FMU, as the calls AxisRuntime is parameterised by.                      *)
(*                                                                         *)
(* The FMU itself is a foreign binary; FmuStep is what the adapter and the *)
(* guard rely on: a CiA 402 drive that enters Fault while a fault cause is *)
(* present, and may leave it while the reset bit is high although the      *)
(* cause persists. The Profile Position values are abstracted to the two   *)
(* facts the adapter tests: whether 0x6083 equals 0x6084 (`paired') and    *)
(* whether the RxPDO asks for something PP does not support.               *)
(***************************************************************************)
EXTENDS CiA402

CONSTANT PayloadRest     \* RxPDO fields after 0x6060: "pp" or "unsupported"

ASSUME PayloadRestAssumption == PayloadRest \subseteq {"pp", "unsupported"}

\* _refresh: StatusWord with the CMMT referenced bit.
Refresh(fmu) == Statusword(fmu) \cup {15}

CopleyDrives ==
  [fmu    : DriveStates,   \* power state inside the FMU
   cause  : BOOLEAN,       \* an internal fault cause is present
   inject : BOOLEAN,       \* _fault, set by the test hook inject_fault
   paired : BOOLEAN,       \* OD 0x6083 = OD 0x6084
   sw     : {Refresh(f) : f \in DriveStates}]   \* OD 0x6041

\* CopleyAdapter.__init__: equal, positive profile parameters.
CopleyInit == {[fmu |-> SOD, cause |-> FALSE, inject |-> FALSE, paired |-> TRUE,
                sw |-> Refresh(SOD)]}

\* doStep with controlword cw (external): the states the FMU may be in after.
FmuStep(fmu, cw, faulty) ==
  CASE faulty /\ 7 \in cw                   -> {FLT, SOD}
    [] faulty /\ 7 \notin cw                -> {FLT}
    [] ~faulty /\ fmu = FLT                 -> {IF 7 \in cw THEN SOD ELSE FLT}
    [] OTHER                                -> {Process(fmu, cw)}

\* apply_outputs: only PP (0 selects no mode) with zero velocity, torque and
\* offsets passes; nothing is written otherwise.
AppliesOutputs(p) == p.mode \in {0, 1} /\ p.rest = "pp"

\* step with the fault cause and the test hook as they are at that moment:
\* refused while the injected fault is being reset or the acceleration pair is
\* unequal. A dt below the FMU step only accumulates; a native call may fail.
CopleyStep(d, cw, first) ==
  IF (d.inject /\ 7 \in cw) \/ ~d.paired
  THEN {[st |-> "rejected", drive |-> d]}
  ELSE {[st |-> "ok", drive |-> [d EXCEPT !.fmu = f, !.sw = Refresh(f)]] :
          f \in FmuStep(d.fmu, cw, d.cause \/ d.inject)
                \cup (IF first THEN {} ELSE {d.fmu})}
       \cup {[st |-> "failed", drive |-> d]}

\* Between two requests the cause and the hook may change.
CopleyExec(d, p, first) ==
  IF ~AppliesOutputs(p) THEN {[st |-> "rejected", drive |-> d]}
  ELSE UNION {CopleyStep([d EXCEPT !.cause = e[1], !.inject = e[2]], p.cw, first) :
                e \in BOOLEAN \X BOOLEAN}

\* read_inputs, read_sdo: the object dictionary as the last step left it.
CopleyInputs(d) == [st |-> "ok", sw |-> d.sw]
CopleyRead(d)   == {"ok", "rejected"}

\* write_sdo: outside WRITABLE, or an unsupported value, is refused; a write
\* of one of 0x6083 and 0x6084 can make them unequal or equal again.
CopleyWrite(d) == {[st |-> "rejected", drive |-> d]}
                  \cup {[st |-> "ok", drive |-> [d EXCEPT !.paired = b]] : b \in BOOLEAN}
=============================================================================
