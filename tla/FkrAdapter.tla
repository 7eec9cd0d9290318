----------------------------- MODULE FkrAdapter -----------------------------
(***************************************************************************)
(* adapter/f_kr_cmmt.py with profile/bridge.py: the adapter of the F-KR    *)
(* servo, as the calls AxisRuntime is parameterised by.                    *)
(***************************************************************************)
EXTENDS FkrServo

CONSTANTS
  Targets,           \* values of 0x607A the master sends
  TargetVelocities,  \* values of 0x60FF
  ProfileVelocities, \* values of 0x6081
  PositionMax        \* the largest position the 32-bit TxPDO field can hold

ASSUME AdapterAssumption ==
  /\ Targets \subseteq Int /\ TargetVelocities \subseteq Int
  /\ ProfileVelocities \subseteq Nat /\ PositionMax \in Nat

FkrRest == [target : Targets, velocity : TargetVelocities, profile : ProfileVelocities]

\* FKrCmmtAdapter.__init__, then the stored parameters: any configuration.
FkrInit == {NewServo(c) : c \in Configs}

\* rxpdo_payload_to_od.
ApplyRxPdo(s, p) == [s EXCEPT !.cw = p.cw, !.mode = p.mode,
                              !.target = p.rest.target,
                              !.target_velocity = p.rest.velocity,
                              !.profile_velocity = p.rest.profile]

\* apply_outputs and step(dt): an unsupported mode is refused before anything
\* is written; mode 0 selects none.
FkrCycle(s, p, dt) ==
  IF p.mode \in Supported \cup {0}
  THEN [st |-> "ok", drive |-> ModelUpdate([ApplyRxPdo(s, p) EXCEPT !.cycle_time = dt])]
  ELSE [st |-> "rejected", drive |-> s]

FkrExec(s, p, first) == {FkrCycle(s, p, dt) : dt \in Periods}

\* od_to_txpdo_payload: struct.pack raises when the position does not fit.
Encodable(s) == Abs(s.pos) <= PositionMax
FkrInputs(s) == [st |-> IF Encodable(s) THEN "ok" ELSE "failed", sw |-> s.sw]
FkrRead(s)   == {"ok", "rejected"} \cup (IF Encodable(s) THEN {} ELSE {"failed"})

\* write_sdo: refused, a new configuration, or the device reset command
\* 0x2000:1. An object of the RxPDO is overwritten by the next RxPDO before the
\* servo reads it.
FkrWrite(s) == {[st |-> "rejected", drive |-> s]} \cup
  {[st |-> "ok", drive |-> [s EXCEPT !.cfg = c]] : c \in Configs} \cup
  {[st |-> "ok", drive |-> [s EXCEPT !.reset_command = b]] : b \in BOOLEAN}
=============================================================================
