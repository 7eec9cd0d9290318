------------------------------- MODULE CiA402 -------------------------------
(***************************************************************************)
(* The CiA 402 power state machine of the F-KR behaviour model             *)
(* (behaviour_model/f_kr_cmmt/state_machine.py).                           *)
(*                                                                         *)
(* A 16-bit controlword or statusword is the set of its bits that are 1,   *)
(* so that "word & mask" is an intersection: 0x0087 is {0, 1, 2, 7}.       *)
(***************************************************************************)
EXTENDS Naturals

Bits == 0 .. 15
Word == SUBSET Bits

SOD  == "SWITCH_ON_DISABLED"
RTSO == "READY_TO_SWITCH_ON"
SO   == "SWITCHED_ON"
OE   == "OPERATION_ENABLED"
FLT  == "FAULT"

DriveStates == {SOD, RTSO, SO, OE, FLT}

\* controlword & 0x0087 and controlword & 0x008F.
Mask87(cw) == cw \cap {0, 1, 2, 7}
Mask8F(cw) == cw \cap {0, 1, 2, 3, 7}

FaultReset == {7}                   \* 0x0080
Shutdown   == {1, 2}                \* 0x0006
SwitchOn   == {0, 1, 2}             \* 0x0007
Enable     == {0, 1, 2, 3}          \* 0x000F

\* CiA402StateMachine.process: the state after controlword cw. The reset bit
\* leaves every state but Fault alone; no other command bit disables at once.
Process(st, cw) ==
  CASE 7 \in cw -> IF st = FLT THEN SOD ELSE st
    [] 7 \notin cw /\ Mask87(cw) = {} -> SOD
    [] OTHER ->
         CASE st = SOD /\ Mask87(cw) = Shutdown        -> RTSO
           [] st = RTSO /\ Mask8F(cw) = SwitchOn       -> SO
           [] st = SO /\ Mask8F(cw) = Enable           -> OE
           [] st = OE /\ Mask8F(cw) = SwitchOn         -> SO
           [] st \in {SO, OE} /\ Mask87(cw) = Shutdown -> RTSO
           [] OTHER                                    -> st

\* CiA402StateMachine.get_statusword.
Statusword(st) ==
  CASE st = SOD  -> {6}             \* 0x0040
    [] st = RTSO -> {0, 5}          \* 0x0021
    [] st = SO   -> {0, 1, 5}       \* 0x0023
    [] st = OE   -> {0, 1, 2, 5}    \* 0x0027
    [] OTHER     -> {3}             \* 0x0008

\* (sw & ~0x106f) | 8: the drive-state bits and the PP acknowledge bit are
\* removed and Fault is set; both hosts project a fault with this expression.
FaultProjection(sw) == (sw \ {0, 1, 2, 3, 5, 6, 12}) \cup {3}
=============================================================================
