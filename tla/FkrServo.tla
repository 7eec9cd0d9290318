------------------------------ MODULE FkrServo ------------------------------
(***************************************************************************)
(* behaviour_model/f_kr_cmmt/servo_model.py: the F-KR CMMT servo, with     *)
(* every mode it executes, as operators on a record.                       *)
(*                                                                         *)
(* Units are chosen so that all scale factors are 1; positions, velocities *)
(* and times are integers. OD 0x6064 and 0x606C are written whenever       *)
(* actual_position and actual_velocity change, so `pos' and `vel' stand    *)
(* for both; 0x6061 is assigned together with _last_mode_command           *)
(* (`last_mode'). homing_error is never set in the code and is left out.   *)
(* window_counter is only compared with required counts and saturates at   *)
(* WindowCap, which none of them exceeds.                                  *)
(***************************************************************************)
EXTENDS CiA402, Integers

CONSTANTS
  Configs,        \* values the configuration objects can take
  DefaultConfig,  \* the preset a device reset restores
  Periods,        \* cycle times, in time units
  HomingTime,     \* the 0.1 s a homing run takes
  Kp,             \* position loop gain
  WindowCap       \* bound of window_counter

\* The objects a servo reads and only SDO writes (or a device reset) change.
Config ==
  [max_velocity : Nat,     \* 0x607F, 0 for none
   neg_velocity : Nat,     \* |0x2183:0C|, 0 for none
   accel : Nat,            \* 0x6083
   decel : Nat,            \* 0x6084
   window : Nat,           \* 0x6067
   window_time : Nat,      \* 0x6068
   limit_a : Int,          \* 0x607D:1
   limit_b : Int]          \* 0x607D:2

ASSUME ServoAssumption ==
  /\ Configs \subseteq Config /\ DefaultConfig \in Configs
  /\ Periods \subseteq Nat \ {0} /\ Periods # {}
  /\ HomingTime \in Nat /\ Kp \in Nat /\ WindowCap \in Nat \ {0}
  /\ \A c \in Configs : c.window_time <= WindowCap

PP  == 1
PV  == 3
HM  == 6
CSP == 8
JOG == -3
Supported == {PP, PV, HM, CSP, JOG}     \* FKrCmmtAdapter.capabilities

Servos ==
  [cfg : Configs, cycle_time : Periods,
   sm : DriveStates, cw : Word, mode : Int, last_mode : Int,
   target : Int, last_target : Int, target_velocity : Int,
   profile_velocity : Nat,
   pos : Int, vel : Int, target_reached : BOOLEAN, window_counter : Nat,
   previous_bit4 : BOOLEAN, pp_active : BOOLEAN, pp_target : Int,
   pp_ack : BOOLEAN, homing_active : BOOLEAN, homing_counter : Int,
   referenced : BOOLEAN, limit_warning : BOOLEAN, target_rejected : BOOLEAN,
   reset_command : BOOLEAN, last_reset_command : BOOLEAN, sw : Word]

\* VirtualCiA402Servo.__init__ on the RxPDO defaults (mode CSP, all else 0)
\* with configuration c.
NewServo(c) ==
  [cfg |-> c, cycle_time |-> CHOOSE dt \in Periods : TRUE,
   sm |-> SOD, cw |-> {}, mode |-> CSP, last_mode |-> CSP,
   target |-> 0, last_target |-> 0, target_velocity |-> 0,
   profile_velocity |-> 0,
   pos |-> 0, vel |-> 0, target_reached |-> FALSE, window_counter |-> 0,
   previous_bit4 |-> FALSE, pp_active |-> FALSE, pp_target |-> 0,
   pp_ack |-> FALSE, homing_active |-> FALSE, homing_counter |-> 0,
   referenced |-> FALSE, limit_warning |-> FALSE, target_rejected |-> FALSE,
   reset_command |-> FALSE, last_reset_command |-> FALSE, sw |-> {6}]

-----------------------------------------------------------------------------
Abs(x) == IF x < 0 THEN -x ELSE x
Least(x, y) == IF x < y THEN x ELSE y
Most(x, y)  == IF x > y THEN x ELSE y
Clamp(x, m) == Most(Least(x, m), -m)

\* _move_towards.
MoveTowards(current, target, delta) ==
  IF delta <= 0 THEN current ELSE current + Clamp(target - current, delta)

\* _software_position_limits: ordered whichever way they were configured.
NegLimit(c) == Least(c.limit_a, c.limit_b)
PosLimit(c) == Most(c.limit_a, c.limit_b)
WithinLimits(c, x) == NegLimit(c) <= x /\ x <= PosLimit(c)

\* The velocity ceiling of a move towards target (process_pp, process_csp).
VelocityCeiling(s, target) ==
  LET limit == IF target < s.pos /\ s.cfg.neg_velocity > 0
               THEN s.cfg.neg_velocity ELSE s.cfg.max_velocity
  IN  IF limit > 0 THEN Least(s.profile_velocity, limit) ELSE s.profile_velocity

\* _acceleration_to_velocity_delta of 0x6083 and 0x6084 over one cycle.
AccelDelta(s) == s.cfg.accel * s.cycle_time
DecelDelta(s) == s.cfg.decel * s.cycle_time

\* The velocity becomes v and moves the axis for one cycle.
Travel(s, v) == [s EXCEPT !.vel = v, !.pos = @ + v * s.cycle_time]

-----------------------------------------------------------------------------
(* Object dictionary commands, applied at the start of a cycle. *)

StopAtCurrentPosition(s) ==
  [s EXCEPT !.vel = 0, !.pp_active = FALSE, !.pp_target = s.pos,
            !.target = s.pos, !.last_target = s.pos,
            !.window_counter = 0, !.target_reached = TRUE]

\* Mutant of SetMode: the running move is not stopped.
SetModeKeepsMove(s, mode) ==
  [s EXCEPT !.mode = mode, !.last_mode = mode, !.homing_active = @ /\ mode = HM]

\* set_mode for a mode that differs from the last one.
SetMode(s, mode) ==
  [StopAtCurrentPosition(s) EXCEPT !.mode = mode, !.last_mode = mode,
                                   !.homing_active = @ /\ mode = HM]

\* set_target_position for a target that differs from the last one: ignored
\* while a referenced mode has no reference, refused outside the limits.
SetTargetPosition(s, x) ==
  CASE s.mode \in {PP, CSP} /\ ~s.referenced ->
         [s EXCEPT !.target = s.last_target]
    [] ~(s.mode \in {PP, CSP} /\ ~s.referenced) /\ ~WithinLimits(s.cfg, x) ->
         [StopAtCurrentPosition(s) EXCEPT !.limit_warning = TRUE,
            !.target_rejected = TRUE, !.target_reached = FALSE]
    [] OTHER ->
         [s EXCEPT !.target_rejected = FALSE,
                   !.limit_warning = @ /\ ~WithinLimits(s.cfg, s.pos),
                   !.target_reached = FALSE, !.window_counter = 0,
                   !.target = x, !.last_target = x]

\* _apply_device_reset_response: configuration and PDO values return to their
\* defaults; the mode and target are taken as already applied.
DeviceReset(s) ==
  [s EXCEPT !.cfg = DefaultConfig, !.cw = {}, !.mode = CSP, !.last_mode = CSP,
            !.target_velocity = 0, !.profile_velocity = 0,
            !.target = s.pos, !.last_target = s.pos]

\* A device reset was commanded by an SDO and acts in the next cycle.
ResetPending(s) == s.reset_command /\ ~s.last_reset_command

\* _apply_od_commands. The requested target is read before set_mode replaces
\* it by the current position, and compared with the last one after.
ApplyOdCommands(s) ==
  LET r == [IF ResetPending(s) THEN DeviceReset(s) ELSE s
              EXCEPT !.last_reset_command = s.reset_command]
      m == IF r.mode # r.last_mode THEN SetMode(r, r.mode) ELSE r
  IN  IF r.target # m.last_target THEN SetTargetPosition(m, r.target) ELSE m

-----------------------------------------------------------------------------
(* One cycle of each mode, run only in Operation Enabled. *)

Halt(s) == 8 \in s.cw
StartEdge(s) == 4 \in s.cw /\ ~s.previous_bit4

DecelerateToStop(s) == Travel(s, MoveTowards(s.vel, 0, DecelDelta(s)))

\* is_in_position, update_target_reached.
UpdateTargetReached(s) ==
  LET in == Abs(s.target - s.pos) <= s.cfg.window
      count == IF in THEN Least(s.window_counter + 1, WindowCap) ELSE 0
      required == Most(1, s.cfg.window_time \div s.cycle_time)
  IN  [s EXCEPT !.window_counter = count,
                !.target_reached = count >= required \/ (in /\ @)]

\* Mutant of Arrive: the move stays active.
ArriveStaysActive(s) == [s EXCEPT !.pos = s.pp_target, !.vel = 0]

Arrive(s) == [s EXCEPT !.pos = s.pp_target, !.vel = 0, !.pp_active = FALSE]

\* The trapezoidal move of process_pp towards pp_target.
PpMove(s) ==
  LET error == s.pp_target - s.pos
      dir == IF error >= 0 THEN 1 ELSE -1
      towards == s.vel * dir
      speed == Most(towards, 0)
      stopping == IF s.cfg.decel > 0
                  THEN Abs(error) * 2 * s.cfg.decel <= speed * speed
                  ELSE error = 0
      braking == towards < 0 \/ stopping
      v == IF braking THEN MoveTowards(s.vel, 0, DecelDelta(s))
           ELSE MoveTowards(s.vel, dir * VelocityCeiling(s, s.pp_target), AccelDelta(s))
  IN  IF \/ Abs(error) <= s.cfg.window /\ Abs(s.vel) <= DecelDelta(s)
         \/ error * (error - v * s.cycle_time) <= 0
      THEN Arrive(s) ELSE Travel(s, v)

ProcessPp(s) ==
  LET stopped == [DecelerateToStop(s) EXCEPT !.pp_active = FALSE, !.pp_ack = FALSE]
      started == IF StartEdge(s)
                 THEN [s EXCEPT !.pp_target = s.target, !.pp_active = TRUE,
                                !.target_reached = FALSE, !.window_counter = 0]
                 ELSE s
      acked == [started EXCEPT !.pp_ack = 4 \in s.cw]
  IN  CASE Halt(s) -> [stopped EXCEPT !.target_reached = stopped.vel = 0]
        [] ~Halt(s) /\ ~s.referenced -> [stopped EXCEPT !.target_reached = FALSE]
        [] ~Halt(s) /\ s.referenced /\ StartEdge(s) /\ s.target_rejected -> stopped
        [] OTHER -> UpdateTargetReached(IF acked.pp_active THEN PpMove(acked)
                                        ELSE DecelerateToStop(acked))

\* The change of velocity one cycle allows towards wanted (process_pv,
\* process_jog, process_csp).
VelocityDelta(s, wanted) ==
  IF Abs(wanted) > Abs(s.vel) THEN AccelDelta(s) ELSE DecelDelta(s)

\* process_pv: no software limit applies.
ProcessPv(s) ==
  LET wanted == IF Halt(s) THEN 0 ELSE s.target_velocity
      tv == CASE wanted >= 0 /\ s.cfg.max_velocity > 0 -> Least(wanted, s.cfg.max_velocity)
              [] wanted < 0 /\ s.cfg.neg_velocity > 0 -> Most(wanted, -s.cfg.neg_velocity)
              [] OTHER -> wanted
      limit == VelocityDelta(s, tv)
      v == MoveTowards(s.vel, tv, limit)
  IN  [Travel(s, v) EXCEPT !.target_reached = Abs(v - tv) <= limit]

\* _jog_velocity_limit: half speed, full with bit 12, a quarter with bit 11.
JogVelocity(s) ==
  LET set == {x \in {s.profile_velocity, s.cfg.max_velocity, s.cfg.neg_velocity} : x > 0}
      top == IF set = {} THEN 0 ELSE CHOOSE x \in set : \A y \in set : x <= y
  IN  CASE 12 \in s.cw -> top
        [] 12 \notin s.cw /\ 11 \in s.cw -> top \div 4
        [] OTHER -> top \div 2

\* Mutant of LimitJog: the software limits are ignored.
LimitJogNot(s, asked) == asked

\* _limit_jog_velocity_at_software_limit: no velocity outwards at a limit.
LimitJog(s, asked) == IF \/ asked > 0 /\ s.pos >= PosLimit(s.cfg)
                         \/ asked < 0 /\ s.pos <= NegLimit(s.cfg)
                      THEN 0 ELSE asked

\* process_jog.
ProcessJog(s) ==
  LET positive == 4 \in s.cw  negative == 5 \in s.cw
      asked == CASE positive = negative \/ Halt(s) -> 0
                 [] positive /\ ~negative /\ ~Halt(s) -> JogVelocity(s)
                 [] OTHER -> -JogVelocity(s)
      tv == LimitJog(s, asked)
      v == MoveTowards(s.vel, tv, VelocityDelta(s, tv))
  IN  [Travel(s, v) EXCEPT !.target_reached = v = 0]

\* process_csp.
ProcessCsp(s) ==
  LET slowed == DecelerateToStop(s)
      wanted == Clamp(Kp * (s.target - s.pos), VelocityCeiling(s, s.target))
      v == s.vel + Clamp(wanted - s.vel, VelocityDelta(s, wanted))
  IN  CASE Halt(s) -> [slowed EXCEPT !.target_reached = slowed.vel = 0]
        [] ~Halt(s) /\ ~s.referenced -> [slowed EXCEPT !.target_reached = FALSE]
        [] OTHER -> UpdateTargetReached(Travel(s, v))

\* Mutant of ProcessHoming: a run ends only when its counter is exactly 0.
ProcessHomingExact(s) ==
  LET begun == IF StartEdge(s)
               THEN [s EXCEPT !.homing_active = TRUE,
                              !.homing_counter = HomingTime \div s.cycle_time,
                              !.referenced = FALSE, !.vel = 0, !.target_reached = FALSE]
               ELSE s
      left == begun.homing_counter - 1
  IN  CASE ~begun.homing_active -> begun
        [] begun.homing_active /\ left # 0 -> [begun EXCEPT !.homing_counter = left]
        [] OTHER -> [begun EXCEPT !.homing_counter = left, !.pos = 0, !.vel = 0,
                                  !.target = 0, !.target_reached = TRUE,
                                  !.homing_active = FALSE, !.referenced = TRUE]

\* process_homing: HomingTime after the start edge the position is 0.
ProcessHoming(s) ==
  LET begun == IF StartEdge(s)
               THEN [s EXCEPT !.homing_active = TRUE,
                              !.homing_counter = Most(1, HomingTime \div s.cycle_time),
                              !.referenced = FALSE, !.vel = 0, !.target_reached = FALSE]
               ELSE s
      left == begun.homing_counter - 1
  IN  CASE ~begun.homing_active -> begun
        [] begun.homing_active /\ left > 0 -> [begun EXCEPT !.homing_counter = left]
        [] OTHER -> [begun EXCEPT !.homing_counter = left, !.pos = 0, !.vel = 0,
                                  !.target = 0, !.target_reached = TRUE,
                                  !.homing_active = FALSE, !.referenced = TRUE]

\* The statusword written at the end of process_cycle.
ServoStatusword(s) ==
  Statusword(s.sm)
    \cup (IF s.target_reached THEN {10} ELSE {})
    \cup (IF s.pp_ack THEN {12} ELSE {})
    \cup (IF s.vel # 0 \/ s.pp_active \/ s.homing_active THEN {8} ELSE {})
    \cup (IF s.limit_warning \/ ~WithinLimits(s.cfg, s.pos) THEN {7, 11} ELSE {})
    \cup (IF s.referenced THEN {15} ELSE {})

\* Leaving Operation Enabled stops the axis where it is.
PowerStep(s) ==
  LET next == Process(s.sm, s.cw)
  IN  [IF s.sm = OE /\ next # OE THEN StopAtCurrentPosition(s) ELSE s
         EXCEPT !.sm = next]

MotionStep(s) ==
  CASE s.sm # OE                    -> s
    [] s.sm = OE /\ s.mode = PP     -> ProcessPp(s)
    [] s.sm = OE /\ s.mode = PV     -> ProcessPv(s)
    [] s.sm = OE /\ s.mode = CSP    -> ProcessCsp(s)
    [] s.sm = OE /\ s.mode = HM     -> ProcessHoming(s)
    [] s.sm = OE /\ s.mode = JOG    -> ProcessJog(s)
    [] OTHER                        -> s

ProcessCycle(s) ==
  LET m == MotionStep(PowerStep(s))
  IN  [m EXCEPT !.sw = ServoStatusword(m), !.previous_bit4 = 4 \in s.cw]

ModelUpdate(s) == ProcessCycle(ApplyOdCommands(s))
=============================================================================
