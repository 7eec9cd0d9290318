----------------------------- MODULE AxisFault ------------------------------
(***************************************************************************)
(* diagnostics/fault.py: the guard of one axis. It decides which RxPDO     *)
(* reaches the drive (Prepare), judges what the drive answers (Accept),    *)
(* latches faults (Detect) and builds the TxPDO the master sees (Response).*)
(*                                                                         *)
(* A guard is a record of the fields of class AxisFault; `fault' is the    *)
(* code of the latched Diagnostic, NoFault for None, and `acked' says that *)
(* it was acknowledged. A TxPDO is reduced to its statusword, an RxPDO to  *)
(* a record with its controlword `cw' and the other fields of the mapping. *)
(*                                                                         *)
(* Here and in the other modules a definition marked "Mutant of X" is X    *)
(* with a mistake; it stands for a regression that a property must notice  *)
(* and is not part of the specification.                                   *)
(***************************************************************************)
EXTENDS CiA402

NoFault       == "none"
DriveFault    == "AXIS_DRIVE_FAULT"
AdapterFault  == "AXIS_ADAPTER_FAULT"
OutputInvalid == "AXIS_MODEL_OUTPUT_INVALID"
ExecFailed    == "AXIS_MODEL_EXECUTION_FAILED"
FaultCodes    == {DriveFault, AdapterFault, OutputInvalid, ExecFailed}

RecoveryPhases == {"shutdown", "switch_on", "enable"}
Phases == {"normal", "fault", "verify_reset"} \cup RecoveryPhases

Guards == [phase : Phases, fault : FaultCodes \cup {NoFault}, acked : BOOLEAN,
           restart_required : BOOLEAN, previous_cw : Word, last : Word,
           feedback_valid : BOOLEAN, warning : BOOLEAN]

\* AxisFault.__init__ with the TxPDO the adapter reads at start.
NewGuard(sw) ==
  [phase |-> "normal", fault |-> NoFault, acked |-> FALSE,
   restart_required |-> FALSE, previous_cw |-> {}, last |-> sw,
   feedback_valid |-> TRUE, warning |-> FALSE]

\* Mutant of Detect: a second occurrence does not return to phase fault.
DetectOnce(g, code, restart) ==
  [g EXCEPT !.feedback_valid = @ /\ code = DriveFault /\ ~restart,
            !.fault = IF @ = NoFault THEN code ELSE @,
            !.acked = IF g.fault = NoFault THEN FALSE ELSE @,
            !.restart_required = @ \/ restart,
            !.phase = IF g.fault = NoFault THEN "fault" ELSE @]

\* detect: the first occurrence is kept, a later one can only escalate it.
Detect(g, code, restart) ==
  [g EXCEPT !.feedback_valid = @ /\ code = DriveFault /\ ~restart,
            !.fault = IF @ = NoFault THEN code ELSE @,
            !.acked = IF g.fault = NoFault THEN FALSE ELSE @,
            !.restart_required = @ \/ restart,
            !.phase = "fault"]

\* b'\x00\x00' + payload[2:] and b'\x80\x00' + payload[2:].
Disabled(p)   == [p EXCEPT !.cw = {}]

\* Mutant of ResetPulse: the bits sent along with the reset are kept.
ResetPulseWithBits(p) == [p EXCEPT !.cw = @ \cup FaultReset]

ResetPulse(p) == [p EXCEPT !.cw = FaultReset]

\* Mutant of NextRecoveryPhase: a phase no other line knows.
NextRecoveryPhaseUnknown(phase, p) ==
  IF phase = "shutdown" /\ Mask8F(p.cw) = Shutdown THEN "switched_on" ELSE phase

\* Mutant of NextRecoveryPhase: Switch On is not asked for.
NextRecoveryPhaseSkips(phase, p) ==
  CASE phase = "shutdown" /\ Mask8F(p.cw) = Shutdown -> "enable"
    [] phase = "enable" /\ Mask8F(p.cw) = Enable /\ 4 \notin p.cw /\ p.mode = 1 -> "normal"
    [] OTHER -> phase

\* The phase a recovering guard enters on payload p, its own phase when p is
\* not the command it waits for.
NextRecoveryPhase(phase, p) ==
  CASE phase = "shutdown" /\ Mask8F(p.cw) = Shutdown  -> "switch_on"
    [] phase = "switch_on" /\ Mask8F(p.cw) = SwitchOn -> "enable"
    [] phase = "enable" /\ Mask8F(p.cw) = Enable
         /\ 4 \notin p.cw /\ p.mode = 1               -> "normal"
    [] OTHER                                          -> phase

\* Mutant of Resettable: the required restart is forgotten.
ResettableAlways(g) == TRUE

\* A reset or a disabled step may still be tried.
Resettable(g) == ~g.restart_required

\* prepare: the guard after it saw payload p, whether a payload goes to the
\* drive, which one, and whether it is part of a reset.
Prepare(g, p) ==
  LET edge == 7 \in p.cw /\ 7 \notin g.previous_cw
      seen == [g EXCEPT !.previous_cw = p.cw]
      Pass(gg, q)  == [guard |-> gg, go |-> TRUE, payload |-> q, resetting |-> FALSE]
      Reset(gg, q) == [guard |-> gg, go |-> TRUE, payload |-> q, resetting |-> TRUE]
      Block        == [guard |-> seen, go |-> FALSE, payload |-> p, resetting |-> FALSE]
      next == NextRecoveryPhase(g.phase, p)
  IN  CASE g.phase = "normal" -> Pass(seen, p)
        [] g.phase = "verify_reset" ->
             IF 7 \in p.cw THEN Block ELSE Reset(seen, Disabled(p))
        [] g.phase = "fault" ->
             CASE Resettable(g) /\ edge ->
                    Reset([seen EXCEPT !.acked = TRUE], ResetPulse(p))
               [] Resettable(g) /\ ~edge /\ g.fault = DriveFault ->
                    Pass(seen, Disabled(p))
               [] OTHER -> Block
        [] g.phase \in RecoveryPhases ->
             IF next = g.phase THEN Block
             ELSE Pass([seen EXCEPT !.phase = next], p)

\* Mutant of ResetVerified: the pulse itself is taken as the proof.
ResetVerifiedAtOnce(g) == TRUE

\* The cycle after the pulse decides whether the reset worked.
ResetVerified(g) == g.phase = "verify_reset"

\* accept: a TxPDO of the right size with statusword sw.
Accept(g, sw, resetting) ==
  LET valid == [g EXCEPT !.last = sw, !.feedback_valid = TRUE]
      judged == CASE 3 \in sw -> Detect(valid, DriveFault, FALSE)
                  [] 3 \notin sw /\ resetting /\ g.fault # NoFault ->
                       IF ResetVerified(g)
                       THEN [valid EXCEPT !.fault = NoFault, !.acked = FALSE,
                                          !.phase = "shutdown"]
                       ELSE [valid EXCEPT !.phase = "verify_reset"]
                  [] OTHER -> valid
  IN  [judged EXCEPT !.warning = 7 \in sw]

\* Mutant of Response: the last TxPDO is sent as it was.
ResponseUnprojected(g) == g.last

\* response: the statusword of the TxPDO sent while the guard is not normal.
Response(g) == IF g.fault # NoFault THEN FaultProjection(g.last) ELSE g.last
=============================================================================
