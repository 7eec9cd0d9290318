------------------------------ MODULE FkrDrive ------------------------------
(***************************************************************************)
(* The F-KR servo under its adapter and a master that sends any sequence   *)
(* of RxPDOs and SDO writes.                                               *)
(*                                                                         *)
(* What the master sends comes from a bench, chosen once: its RxPDOs, the  *)
(* configurations it writes and the cycle times it keeps. The benches      *)
(* divide one large instance into those each mode needs.                   *)
(***************************************************************************)
EXTENDS FkrAdapter

CONSTANT Bench   \* the benches, a function from their names

ASSUME BenchAssumption ==
  \A b \in DOMAIN Bench :
    /\ Bench[b].payloads \subseteq [cw : SUBSET (0 .. 15), mode : Int, rest : FkrRest]
    /\ Bench[b].configs \subseteq Configs /\ DefaultConfig \in Bench[b].configs
    /\ Bench[b].periods \subseteq Periods

VARIABLES servo, bench

servoVars == <<servo, bench>>

Payloads == Bench[bench].payloads

ServoInit == /\ bench \in DOMAIN Bench
             /\ servo \in {s \in FkrInit : s.cfg \in Bench[bench].configs}

\* One PDO cycle; the runtime latches the axis once its position cannot be
\* encoded, so no cycle follows that.
Cycle == /\ Encodable(servo)
         /\ \E p \in Payloads, dt \in Bench[bench].periods :
              servo' = FkrCycle(servo, p, dt).drive
         /\ UNCHANGED bench

\* SDO writes between two cycles.
Write == /\ \E o \in FkrWrite(servo) :
              o.drive.cfg \in Bench[bench].configs /\ servo' = o.drive
         /\ UNCHANGED bench

ServoNext == Cycle \/ Write

ServoSpec == ServoInit /\ [][ServoNext]_servoVars

-----------------------------------------------------------------------------
\* Every field of the servo has its type.
TypeOK == servo \in Servos

\* Outside Operation Enabled nothing is in motion and no PP move is pending:
\* every way out of it runs stop_at_current_position, and no mode moves the
\* axis without it.
StoppedUnlessEnabled == servo.sm # OE => servo.vel = 0 /\ ~servo.pp_active

\* A PP move is only ever active in PP mode, enabled and referenced: a mode
\* change, a device reset or a new homing run cancels it.
PpMoveIsLegitimate ==
  servo.pp_active => servo.sm = OE /\ servo.mode = PP /\ servo.referenced

\* A PP move starts only towards a target inside the software limits as they
\* are when it starts (set_target_position, process_pp; RF-011 states that PP
\* refuses targets outside 0x607D).
PpStartsWithinLimits ==
  [][servo'.pp_active /\ (~servo.pp_active \/ servo'.pp_target # servo.pp_target)
       => WithinLimits(servo'.cfg, servo'.pp_target)]_servoVars

\* One more cycle with RxPDO p, at the cycle time of the last one.
Again(s, p) == ModelUpdate(ApplyRxPdo(s, p))

\* Once the master keeps the drive enabled in PP and its RxPDO constant, the
\* axis is at rest with no move pending after at most RestBound cycles, from
\* any state it can be in, moving the wrong way included: the profile of
\* process_pp neither stalls nor oscillates around its target as long as the
\* profile velocity and the deceleration are not 0.
RestBound == 16
PpComesToRest ==
  servo.sm = OE /\ servo.mode = PP =>
    \A p \in {q \in Payloads : Enable \subseteq q.cw /\ q.mode = PP} :
      LET held[n \in 0 .. RestBound] ==
            IF n = 0 THEN servo ELSE Again(held[n - 1], p)
      IN  held[RestBound].vel = 0 /\ ~held[RestBound].pp_active

\* An axis with an unfinished homing run is not referenced and has no PP move,
\* also when the run was interrupted by a disable, a fault or a device reset,
\* none of which ends it (process_homing, set_mode).
HomingIsUnreferenced == servo.homing_active => ~servo.referenced /\ ~servo.pp_active

\* The servo's state is always one the modes agree on: typed, at rest unless
\* enabled, moving in PP only with the right to, unreferenced while homing.
ServoInv == /\ TypeOK
            /\ StoppedUnlessEnabled
            /\ PpMoveIsLegitimate
            /\ HomingIsUnreferenced

\* An unfinished homing run ends: once the master keeps the drive enabled in
\* homing mode, the axis is referenced at position 0 after at most HomingBound
\* cycles, whatever interrupted the run and even if a cycle is longer than the
\* whole run, unless a device reset is due.
HomingBound == HomingTime + 2
Homing(s) == s.sm = OE /\ s.mode = HM /\ s.homing_active
HomingCompletes ==
  Homing(servo) /\ ~ResetPending(servo) =>
    \A p \in {q \in Payloads : Enable \subseteq q.cw /\ q.mode = HM} :
      LET held[n \in 0 .. HomingBound] ==
            IF n = 0 THEN servo ELSE Again(held[n - 1], p)
      IN  /\ ~held[HomingBound].homing_active /\ held[HomingBound].referenced
          /\ held[HomingBound].pos = 0

\* Jogging into a software limit stops the axis there: while a jog bit is held
\* it reaches the limit, is at rest after at most JogBound cycles, and ends no
\* further beyond the place where it is first stopped than the distance it
\* needs to brake from the fastest velocity it may have, unless a device reset
\* intervenes (process_jog, _limit_jog_velocity_at_software_limit).
JogBound == 20
Fastest(s, p) == Most(JogVelocity(ApplyRxPdo(s, p)), Abs(s.vel))
JogStopsAtLimit ==
  servo.sm = OE /\ servo.mode = JOG /\ Encodable(servo) /\ ~ResetPending(servo) =>
    \A p \in {q \in Payloads : q.mode = JOG /\ 8 \notin q.cw /\ Enable \subseteq q.cw
                               /\ (4 \in q.cw) # (5 \in q.cw)} :
      LET held[n \in 0 .. JogBound] ==
            IF n = 0 THEN servo ELSE Again(held[n - 1], p)
          v == Fastest(servo, p)
          overshoot == v * servo.cycle_time + (v * v) \div (2 * servo.cfg.decel)
          rest == held[JogBound]
      IN  /\ rest.vel = 0
          /\ 4 \in p.cw => /\ rest.pos >= PosLimit(servo.cfg)
                           /\ rest.pos <= Most(servo.pos, PosLimit(servo.cfg)) + overshoot
          /\ 5 \in p.cw => /\ rest.pos <= NegLimit(servo.cfg)
                           /\ rest.pos >= Least(servo.pos, NegLimit(servo.cfg)) - overshoot
=============================================================================
