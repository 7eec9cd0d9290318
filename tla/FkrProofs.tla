----------------------------- MODULE FkrProofs ------------------------------
(***************************************************************************)
(* Proofs about the F-KR servo under its adapter, for every configuration, *)
(* cycle time, homing time and bench, and about an F-KR axis, for every    *)
(* master.                                                                 *)
(***************************************************************************)
EXTENDS FkrAxis, FkrDrive, Sequences, WellFoundedInduction, TLAPS

-----------------------------------------------------------------------------
(* Arithmetic. *)

LEMMA HelperTypes ==
  ASSUME NEW x \in Int, NEW y \in Int
  PROVE  /\ Abs(x) \in Nat /\ Least(x, y) \in Int /\ Most(x, y) \in Int
         /\ Clamp(x, y) \in Int
BY DEF Abs, Least, Most, Clamp

\* _move_towards stays at its target.
LEMMA MoveTowardsType ==
  ASSUME NEW v \in Int, NEW t \in Int, NEW d \in Int
  PROVE  /\ MoveTowards(v, t, d) \in Int
         /\ MoveTowards(0, 0, d) = 0
<1>1. Clamp(t - v, d) \in Int
  BY HelperTypes
<1>2. d > 0 => Clamp(0 - 0, d) = 0
  BY DEF Clamp, Most, Least
<1> QED
  BY <1>1, <1>2 DEF MoveTowards

LEMMA Product ==
  ASSUME NEW x \in Int, NEW y \in Int
  PROVE  /\ x * y \in Int /\ 0 * y = 0
         /\ x \in Nat /\ y \in Nat => x * y \in Nat
OBVIOUS

LEMMA Zero == 0 \in Int /\ 0 \in Nat /\ 1 \in Nat
OBVIOUS

-----------------------------------------------------------------------------
(* The fields of a servo. *)

LEMMA Fields ==
  ASSUME NEW s \in Servos
  PROVE  /\ s.cfg \in Config /\ s.cycle_time \in Nat \ {0}
         /\ s.sm \in DriveStates /\ s.cw \in Word /\ s.mode \in Int
         /\ s.last_mode \in Int /\ s.target \in Int /\ s.last_target \in Int
         /\ s.target_velocity \in Int /\ s.profile_velocity \in Nat
         /\ s.pos \in Int /\ s.vel \in Int /\ s.pp_target \in Int
         /\ s.window_counter \in Nat /\ s.homing_counter \in Int
BY ServoAssumption DEF Servos

LEMMA ConfigFields ==
  ASSUME NEW c \in Config
  PROVE  /\ c.max_velocity \in Nat /\ c.neg_velocity \in Nat /\ c.accel \in Nat
         /\ c.decel \in Nat /\ c.window \in Nat /\ c.window_time \in Nat
         /\ c.limit_a \in Int /\ c.limit_b \in Int
BY DEF Config

LEMMA DeltaTypes ==
  ASSUME NEW s \in Servos, NEW w \in Int
  PROVE  /\ AccelDelta(s) \in Nat /\ DecelDelta(s) \in Nat
         /\ VelocityDelta(s, w) \in Nat /\ VelocityCeiling(s, w) \in Nat
<1>1. /\ s.cfg \in Config /\ s.cycle_time \in Nat /\ s.vel \in Int
      /\ s.profile_velocity \in Nat /\ s.pos \in Int
  BY Fields
<1>2. /\ s.cfg.accel \in Nat /\ s.cfg.decel \in Nat
      /\ s.cfg.max_velocity \in Nat /\ s.cfg.neg_velocity \in Nat
  BY <1>1, ConfigFields
<1>3. AccelDelta(s) \in Nat /\ DecelDelta(s) \in Nat
  BY <1>1, <1>2, Product DEF AccelDelta, DecelDelta
<1>4. VelocityCeiling(s, w) \in Nat
  BY <1>1, <1>2 DEF VelocityCeiling, Least
<1> QED
  BY <1>3, <1>4 DEF VelocityDelta

\* A step that leaves the power state, the mode, the controlword and the reset
\* flags as they are.
SameControl(s, t) ==
  /\ t.sm = s.sm /\ t.cw = s.cw /\ t.mode = s.mode /\ t.last_mode = s.last_mode
  /\ t.reset_command = s.reset_command
  /\ t.last_reset_command = s.last_reset_command

\* A step that leaves the moves and the reference as they are, too.
SameMoves(s, t) ==
  /\ t.pp_active = s.pp_active /\ t.homing_active = s.homing_active
  /\ t.referenced = s.referenced

SameReference(s, t) ==
  t.homing_active = s.homing_active /\ t.referenced = s.referenced

LEMMA TravelStep ==
  ASSUME NEW s \in Servos, NEW v \in Int
  PROVE  /\ Travel(s, v) \in Servos
         /\ SameControl(s, Travel(s, v)) /\ SameMoves(s, Travel(s, v))
         /\ Travel(s, v).vel = v
         /\ v = 0 => Travel(s, v).pos = s.pos
<1>1. s.cycle_time \in Nat /\ s.pos \in Int
  BY Fields
<1>2. s.pos + v * s.cycle_time \in Int
  BY <1>1, Product
<1>3. v = 0 => s.pos + v * s.cycle_time = s.pos
  BY <1>1, Product
<1> DEFINE p == s.pos + v * s.cycle_time
<1>4. Travel(s, v) = [s EXCEPT !.vel = v, !.pos = p]
  BY DEF Travel
<1>5. p \in Int /\ (v = 0 => p = s.pos)
  BY <1>2, <1>3
<1> HIDE DEF p
<1> QED
  BY <1>4, <1>5, ZenonT(40) DEF Servos, SameControl, SameMoves

-----------------------------------------------------------------------------
(* Object dictionary commands. *)

\* At rest with no PP move.
Quiet(s) == s.vel = 0 /\ ~s.pp_active

LEMMA StopStep ==
  ASSUME NEW s \in Servos
  PROVE  LET t == StopAtCurrentPosition(s)
         IN  /\ t \in Servos /\ SameControl(s, t) /\ Quiet(t) /\ t.pos = s.pos
             /\ t.homing_active = s.homing_active /\ t.referenced = s.referenced
<1> DEFINE t == StopAtCurrentPosition(s)
<1>1. s.pos \in Int
  BY Fields
<1>2. t \in Servos
  BY <1>1, Zero, Zenon DEF StopAtCurrentPosition, Servos
<1>3. SameControl(s, t) /\ t.pos = s.pos
  BY Zenon DEF StopAtCurrentPosition, SameControl, Servos
<1>4. /\ t.homing_active = s.homing_active /\ t.referenced = s.referenced /\ Quiet(t)
  BY Zenon DEF StopAtCurrentPosition, Quiet, Servos
<1> QED
  BY <1>2, <1>3, <1>4

LEMMA SetModeStep ==
  ASSUME NEW s \in Servos, NEW mode \in Int
  PROVE  LET t == SetMode(s, mode)
         IN  /\ t \in Servos /\ Quiet(t) /\ t.pos = s.pos
             /\ t.sm = s.sm /\ t.cw = s.cw /\ t.mode = mode /\ t.last_mode = mode
             /\ t.reset_command = s.reset_command
             /\ t.last_reset_command = s.last_reset_command
             /\ t.referenced = s.referenced
             /\ t.homing_active = (s.homing_active /\ mode = HM)
<1> DEFINE u == StopAtCurrentPosition(s)
<1>1. /\ u \in Servos /\ SameControl(s, u) /\ Quiet(u) /\ u.pos = s.pos
      /\ u.homing_active = s.homing_active /\ u.referenced = s.referenced
  BY StopStep
<1> HIDE DEF u
<1> DEFINE h == u.homing_active /\ mode = HM
<1>2. h \in BOOLEAN
  OBVIOUS
<1>3. SetMode(s, mode) = [u EXCEPT !.mode = mode, !.last_mode = mode, !.homing_active = h]
  BY DEF SetMode, u
<1>4. h = (s.homing_active /\ mode = HM)
  BY <1>1
<1> HIDE DEF h
<1>5. SetMode(s, mode) \in Servos
  BY <1>1, <1>2, <1>3, ZenonT(40) DEF Servos
<1>6. SetMode(s, mode).homing_active = h
  BY <1>1, <1>3 DEF Servos
<1> QED
  BY <1>1, <1>3, <1>4, <1>5, <1>6 DEF Servos, SameControl, Quiet

\* Setting a target moves nothing; refusing one stops the axis.
LEMMA SetTargetStep ==
  ASSUME NEW s \in Servos, NEW x \in Int
  PROVE  LET t == SetTargetPosition(s, x)
         IN  /\ t \in Servos /\ SameControl(s, t) /\ t.pos = s.pos
             /\ t.vel \in {0, s.vel} /\ (t.pp_active => s.pp_active)
             /\ t.homing_active = s.homing_active /\ t.referenced = s.referenced
<1> DEFINE u == StopAtCurrentPosition(s)
           w == s.limit_warning /\ ~WithinLimits(s.cfg, s.pos)
           refused == [u EXCEPT !.limit_warning = TRUE,
                                !.target_rejected = TRUE, !.target_reached = FALSE]
           taken == [s EXCEPT !.target_rejected = FALSE, !.limit_warning = w,
                   !.target_reached = FALSE, !.window_counter = 0,
                   !.target = x, !.last_target = x]
           ignored == [s EXCEPT !.target = s.last_target]
           Ok(t) == /\ t \in Servos /\ SameControl(s, t) /\ t.pos = s.pos
                    /\ t.vel \in {0, s.vel} /\ (t.pp_active => s.pp_active)
                    /\ t.homing_active = s.homing_active /\ t.referenced = s.referenced
<1>1. /\ u \in Servos /\ SameControl(s, u) /\ Quiet(u) /\ u.pos = s.pos
      /\ u.homing_active = s.homing_active /\ u.referenced = s.referenced
  BY StopStep
<1>2. w \in BOOLEAN
  OBVIOUS
<1>3. SetTargetPosition(s, x) \in {ignored, refused, taken}
  <2>1. CASE s.mode \in {PP, CSP} /\ ~s.referenced
    BY <2>1 DEF SetTargetPosition
  <2>2. CASE ~(s.mode \in {PP, CSP} /\ ~s.referenced) /\ ~WithinLimits(s.cfg, x)
    BY <2>2 DEF SetTargetPosition
  <2>3. CASE ~(s.mode \in {PP, CSP} /\ ~s.referenced) /\ WithinLimits(s.cfg, x)
    BY <2>3 DEF SetTargetPosition
  <2> QED
    BY <2>1, <2>2, <2>3
<1> HIDE DEF u, w
<1>4. Ok(ignored)
  BY DEF Servos, SameControl
<1>5. Ok(refused)
  BY <1>1 DEF Servos, SameControl, Quiet
<1>6. Ok(taken)
  BY <1>2, ZenonT(40) DEF Servos, SameControl
<1> HIDE DEF ignored, refused, taken
<1> QED
  BY <1>3, <1>4, <1>5, <1>6

LEMMA DeviceResetStep ==
  ASSUME NEW s \in Servos
  PROVE  LET t == DeviceReset(s)
         IN  /\ t \in Servos /\ SameMoves(s, t) /\ t.pos = s.pos /\ t.vel = s.vel
             /\ t.sm = s.sm /\ t.cw = {} /\ t.mode = CSP /\ t.last_mode = CSP
             /\ t.reset_command = s.reset_command
             /\ t.last_reset_command = s.last_reset_command
<1> DEFINE t == DeviceReset(s)
<1>1. DefaultConfig \in Configs /\ {} \in Word /\ CSP \in Int /\ s.pos \in Int
  BY ServoAssumption, Fields DEF Word, CSP
<1>2. t \in Servos
  BY <1>1, Zero, Zenon DEF DeviceReset, Servos
<1>3. /\ SameMoves(s, t) /\ t.pos = s.pos /\ t.vel = s.vel
      /\ t.sm = s.sm /\ t.cw = {} /\ t.mode = CSP /\ t.last_mode = CSP
      /\ t.reset_command = s.reset_command
      /\ t.last_reset_command = s.last_reset_command
  BY Zenon DEF DeviceReset, SameMoves, Servos
<1> QED
  BY <1>2, <1>3

\* What _apply_od_commands does: nothing moves; a pending device reset selects
\* CSP and clears the controlword; a change of mode stops the axis and ends a
\* homing run unless homing is selected.
OdApplied(s, t) ==
  /\ t \in Servos /\ t.pos = s.pos /\ t.sm = s.sm /\ t.mode = t.last_mode
  /\ t.referenced = s.referenced
  /\ t.vel \in {0, s.vel} /\ (t.pp_active => s.pp_active)
  /\ t.reset_command = s.reset_command /\ ~ResetPending(t)
  /\ ResetPending(s) =>
       t.cw = {} /\ t.mode = CSP /\ t.homing_active = s.homing_active
  /\ ~ResetPending(s) =>
       /\ t.cw = s.cw /\ t.mode = s.mode
       /\ s.mode = s.last_mode => t.homing_active = s.homing_active
       /\ s.mode # s.last_mode =>
            Quiet(t) /\ t.homing_active = (s.homing_active /\ s.mode = HM)

LEMMA OdStep ==
  ASSUME NEW s \in Servos
  PROVE  OdApplied(s, ApplyOdCommands(s))
<1> DEFINE d == IF ResetPending(s) THEN DeviceReset(s) ELSE s
           r == [d EXCEPT !.last_reset_command = s.reset_command]
           m == IF r.mode # r.last_mode THEN SetMode(r, r.mode) ELSE r
           t == IF r.target # m.last_target THEN SetTargetPosition(m, r.target) ELSE m
<1>1. ApplyOdCommands(s) = t
  BY DEF ApplyOdCommands
<1>2. /\ d \in Servos /\ SameMoves(s, d) /\ d.pos = s.pos /\ d.vel = s.vel /\ d.sm = s.sm
      /\ d.reset_command = s.reset_command
      /\ ResetPending(s) => d.cw = {} /\ d.mode = CSP /\ d.last_mode = CSP
      /\ ~ResetPending(s) => d.cw = s.cw /\ d.mode = s.mode /\ d.last_mode = s.last_mode
  BY DeviceResetStep DEF SameMoves
<1> HIDE DEF d
<1>3. /\ r \in Servos /\ SameMoves(s, r) /\ r.pos = s.pos /\ r.vel = s.vel /\ r.sm = s.sm
      /\ r.reset_command = s.reset_command /\ r.last_reset_command = s.reset_command
      /\ ResetPending(s) => r.cw = {} /\ r.mode = CSP /\ r.last_mode = CSP
      /\ ~ResetPending(s) => r.cw = s.cw /\ r.mode = s.mode /\ r.last_mode = s.last_mode
  BY <1>2 DEF Servos, SameMoves
<1> HIDE DEF r
<1>4. r.mode \in Int /\ r.target \in Int
  BY <1>3, Fields
<1>5. /\ m \in Servos /\ m.pos = s.pos /\ m.sm = s.sm /\ m.mode = m.last_mode
      /\ m.referenced = s.referenced /\ m.cw = r.cw /\ m.mode = r.mode
      /\ m.reset_command = r.reset_command
      /\ m.last_reset_command = r.last_reset_command
      /\ r.mode # r.last_mode =>
           Quiet(m) /\ m.homing_active = (r.homing_active /\ r.mode = HM)
      /\ r.mode = r.last_mode => m = r
  <2>1. CASE r.mode = r.last_mode
    BY <1>3, <2>1 DEF SameMoves
  <2>2. CASE r.mode # r.last_mode
    <3>1. m = SetMode(r, r.mode)
      BY <2>2
    <3> HIDE DEF m
    <3> QED
      BY <1>3, <1>4, <2>2, <3>1, SetModeStep DEF SameMoves
  <2> QED
    BY <2>1, <2>2
<1> HIDE DEF m
<1>6. /\ t \in Servos /\ SameControl(m, t) /\ t.pos = m.pos
      /\ t.vel \in {0, m.vel} /\ (t.pp_active => m.pp_active)
      /\ t.homing_active = m.homing_active /\ t.referenced = m.referenced
  <2>1. SetTargetPosition(m, r.target) \in Servos /\ SameControl(m, m)
    BY <1>4, <1>5, SetTargetStep DEF SameControl
  <2>2. CASE r.target = m.last_target
    BY <1>5, <2>1, <2>2
  <2>3. CASE r.target # m.last_target
    <3>1. t = SetTargetPosition(m, r.target)
      BY <2>3
    <3> HIDE DEF t
    <3> QED
      BY <1>4, <1>5, <3>1, SetTargetStep
  <2> QED
    BY <2>2, <2>3
<1> HIDE DEF t
<1>7. OdApplied(s, t)
  <2>1. /\ t.mode = m.mode /\ t.last_mode = m.last_mode /\ t.cw = m.cw /\ t.sm = m.sm
        /\ t.reset_command = m.reset_command
        /\ t.last_reset_command = m.last_reset_command
    BY <1>6 DEF SameControl
  <2>2. t.vel \in {0, s.vel} /\ (t.pp_active => s.pp_active)
    BY <1>3, <1>5, <1>6 DEF Quiet, SameMoves
  <2>3. t.reset_command = s.reset_command /\ ~ResetPending(t)
    BY <1>3, <1>5, <2>1 DEF ResetPending
  <2>4. ResetPending(s) => t.cw = {} /\ t.mode = CSP /\ t.homing_active = s.homing_active
    BY <1>3, <1>5, <1>6, <2>1 DEF SameMoves
  <2>5. ~ResetPending(s) =>
       /\ t.cw = s.cw /\ t.mode = s.mode
       /\ s.mode = s.last_mode => t.homing_active = s.homing_active
       /\ s.mode # s.last_mode =>
            Quiet(t) /\ t.homing_active = (s.homing_active /\ s.mode = HM)
    <3>1. ASSUME ~ResetPending(s)
          PROVE  r.mode = s.mode /\ r.last_mode = s.last_mode /\ r.cw = s.cw
                 /\ r.homing_active = s.homing_active
      BY <1>3, <3>1 DEF SameMoves
    <3>2. Quiet(m) => Quiet(t)
      BY <1>6 DEF Quiet
    <3> QED
      BY <1>5, <1>6, <2>1, <3>1, <3>2
  <2> QED
    BY <1>5, <1>6, <2>1, <2>2, <2>3, <2>4, <2>5 DEF OdApplied
<1> QED
  BY <1>1, <1>7

-----------------------------------------------------------------------------
(* The modes. *)

LEMMA DecelerateStep ==
  ASSUME NEW s \in Servos
  PROVE  LET t == DecelerateToStop(s)
         IN  /\ t \in Servos /\ SameControl(s, t) /\ SameMoves(s, t)
             /\ s.vel = 0 => t.vel = 0 /\ t.pos = s.pos
<1> DEFINE v == MoveTowards(s.vel, 0, DecelDelta(s))
<1>1. s.vel \in Int /\ DecelDelta(s) \in Int
  BY Fields, DeltaTypes, Zero
<1>2. v \in Int /\ (s.vel = 0 => v = 0)
  BY <1>1, Zero, MoveTowardsType
<1>3. DecelerateToStop(s) = Travel(s, v)
  BY DEF DecelerateToStop
<1> HIDE DEF v
<1> QED
  BY <1>2, <1>3, TravelStep

LEMMA TargetReachedStep ==
  ASSUME NEW s \in Servos
  PROVE  LET t == UpdateTargetReached(s)
         IN  /\ t \in Servos /\ SameControl(s, t) /\ SameMoves(s, t)
             /\ t.vel = s.vel /\ t.pos = s.pos
<1> DEFINE in == Abs(s.target - s.pos) <= s.cfg.window
           count == IF in THEN Least(s.window_counter + 1, WindowCap) ELSE 0
           required == Most(1, s.cfg.window_time \div s.cycle_time)
           b == count >= required \/ (in /\ s.target_reached)
           t == UpdateTargetReached(s)
<1>1. b \in BOOLEAN
  OBVIOUS
<1>2. count \in Nat
  <2>1. s.window_counter \in Nat /\ WindowCap \in Nat
    BY Fields, ServoAssumption
  <2> QED
    BY <2>1 DEF Least
<1>3. t = [s EXCEPT !.window_counter = count, !.target_reached = b]
  BY DEF UpdateTargetReached
<1> HIDE DEF b, count, t
<1>4. t \in Servos
  BY <1>1, <1>2, <1>3, Zenon DEF Servos
<1>5. SameControl(s, t) /\ SameMoves(s, t) /\ t.vel = s.vel /\ t.pos = s.pos
  BY <1>3, Zenon DEF SameControl, SameMoves, Servos
<1> QED
  BY <1>4, <1>5 DEF t

\* A move in PP goes on or arrives, and starts nothing.
LEMMA PpMoveStep ==
  ASSUME NEW s \in Servos
  PROVE  LET t == PpMove(s)
         IN  /\ t \in Servos /\ SameControl(s, t)
             /\ (t.pp_active => s.pp_active)
             /\ t.homing_active = s.homing_active /\ t.referenced = s.referenced
<1> DEFINE error == s.pp_target - s.pos
           dir == IF error >= 0 THEN 1 ELSE -1
           towards == s.vel * dir
           speed == Most(towards, 0)
           stopping == IF s.cfg.decel > 0
                       THEN Abs(error) * 2 * s.cfg.decel <= speed * speed
                       ELSE error = 0
           braking == towards < 0 \/ stopping
           v == IF braking THEN MoveTowards(s.vel, 0, DecelDelta(s))
                ELSE MoveTowards(s.vel, dir * VelocityCeiling(s, s.pp_target), AccelDelta(s))
           t == PpMove(s)
           Ok(u) == /\ u \in Servos /\ SameControl(s, u)
                    /\ (u.pp_active => s.pp_active)
                    /\ u.homing_active = s.homing_active /\ u.referenced = s.referenced
<1>1. t \in {Arrive(s), Travel(s, v)}
  BY DEF PpMove
<1>2. v \in Int
  <2>1. /\ s.vel \in Int /\ DecelDelta(s) \in Int /\ AccelDelta(s) \in Int
        /\ VelocityCeiling(s, s.pp_target) \in Int /\ dir \in Int /\ s.pp_target \in Int
    BY Fields, DeltaTypes
  <2>2. dir * VelocityCeiling(s, s.pp_target) \in Int
    BY <2>1, Product
  <2>3. /\ MoveTowards(s.vel, 0, DecelDelta(s)) \in Int
        /\ MoveTowards(s.vel, dir * VelocityCeiling(s, s.pp_target), AccelDelta(s)) \in Int
    BY <2>1, <2>2, Zero, MoveTowardsType
  <2> HIDE DEF braking, dir
  <2> QED
    BY <2>3
<1>3. Ok(Arrive(s))
  <2>1. s.pp_target \in Int
    BY Fields
  <2>2. Arrive(s) \in Servos
    BY <2>1, Zero, Zenon DEF Arrive, Servos
  <2>3. SameControl(s, Arrive(s))
    BY Zenon DEF Arrive, SameControl, Servos
  <2>4. ~Arrive(s).pp_active /\ Arrive(s).homing_active = s.homing_active
        /\ Arrive(s).referenced = s.referenced
    BY Zenon DEF Arrive, Servos
  <2> QED
    BY <2>2, <2>3, <2>4
<1> HIDE DEF v, t
<1>4. Ok(Travel(s, v))
  BY <1>2, TravelStep DEF SameMoves
<1> QED
  BY <1>1, <1>3, <1>4 DEF t

\* PP starts and keeps a move only on a referenced axis, and moves an axis at
\* rest only with the start bit.
LEMMA PpStep ==
  ASSUME NEW s \in Servos
  PROVE  LET t == ProcessPp(s)
         IN  /\ t \in Servos /\ SameControl(s, t)
             /\ (t.pp_active => s.referenced)
             /\ t.homing_active = s.homing_active /\ t.referenced = s.referenced
             /\ Quiet(s) /\ 4 \notin s.cw => Quiet(t) /\ t.pos = s.pos
<1> DEFINE stopped == [DecelerateToStop(s) EXCEPT !.pp_active = FALSE, !.pp_ack = FALSE]
           started == IF StartEdge(s)
                      THEN [s EXCEPT !.pp_target = s.target, !.pp_active = TRUE,
                                     !.target_reached = FALSE, !.window_counter = 0]
                      ELSE s
           acked == [started EXCEPT !.pp_ack = 4 \in s.cw]
           moved == IF acked.pp_active THEN PpMove(acked) ELSE DecelerateToStop(acked)
           Ok(u) == /\ u \in Servos /\ SameControl(s, u)
                    /\ (u.pp_active => s.referenced)
                    /\ u.homing_active = s.homing_active /\ u.referenced = s.referenced
                    /\ Quiet(s) /\ 4 \notin s.cw => Quiet(u) /\ u.pos = s.pos
<1>1. Ok(stopped)
  <2> DEFINE d == DecelerateToStop(s)
  <2>1. /\ d \in Servos /\ SameControl(s, d) /\ SameMoves(s, d)
        /\ s.vel = 0 => d.vel = 0 /\ d.pos = s.pos
    BY DecelerateStep
  <2> HIDE DEF d
  <2>2. stopped \in Servos
    BY <2>1, Zenon DEF Servos, d
  <2>3. /\ SameControl(d, stopped) /\ ~stopped.pp_active /\ stopped.vel = d.vel
        /\ stopped.pos = d.pos /\ stopped.homing_active = d.homing_active
        /\ stopped.referenced = d.referenced
    BY <2>1, Zenon DEF Servos, d, SameControl
  <2> HIDE DEF stopped
  <2> QED
    BY <2>1, <2>2, <2>3 DEF SameControl, SameMoves, Quiet
<1>2. /\ started \in Servos /\ SameControl(s, started)
      /\ started.homing_active = s.homing_active /\ started.referenced = s.referenced
      /\ started.vel = s.vel /\ started.pos = s.pos
      /\ 4 \notin s.cw => started.pp_active = s.pp_active
  <2> DEFINE e == [s EXCEPT !.pp_target = s.target, !.pp_active = TRUE,
                            !.target_reached = FALSE, !.window_counter = 0]
  <2>1. s.target \in Int
    BY Fields
  <2>2. e \in Servos
    BY <2>1, Zero, Zenon DEF Servos
  <2>3. /\ SameControl(s, e) /\ e.homing_active = s.homing_active
        /\ e.referenced = s.referenced /\ e.vel = s.vel /\ e.pos = s.pos
    BY Zenon DEF Servos, SameControl
  <2>4. SameControl(s, s)
    BY DEF SameControl
  <2> HIDE DEF e
  <2>5. started = IF StartEdge(s) THEN e ELSE s
    BY DEF e
  <2> HIDE DEF started
  <2>6. CASE StartEdge(s)
    BY <2>2, <2>3, <2>5, <2>6 DEF StartEdge
  <2>7. CASE ~StartEdge(s)
    BY <2>4, <2>5, <2>7
  <2> QED
    BY <2>6, <2>7
<1> HIDE DEF started
<1>3. /\ acked \in Servos /\ SameControl(s, acked)
      /\ acked.homing_active = s.homing_active /\ acked.referenced = s.referenced
      /\ acked.vel = s.vel /\ acked.pos = s.pos
      /\ 4 \notin s.cw => acked.pp_active = s.pp_active
  <2> DEFINE b == 4 \in s.cw
  <2>1. b \in BOOLEAN
    OBVIOUS
  <2>2. acked = [started EXCEPT !.pp_ack = b]
    OBVIOUS
  <2> HIDE DEF b, acked
  <2>3. acked \in Servos
    BY <1>2, <2>1, <2>2, Zenon DEF Servos
  <2>4. /\ SameControl(started, acked) /\ SameMoves(started, acked)
        /\ acked.vel = started.vel /\ acked.pos = started.pos
    BY <1>2, <2>2, Zenon DEF Servos, SameControl, SameMoves
  <2> QED
    BY <1>2, <2>3, <2>4 DEF SameControl, SameMoves
<1> HIDE DEF acked
<1>4. /\ moved \in Servos /\ SameControl(s, moved)
      /\ moved.homing_active = s.homing_active /\ moved.referenced = s.referenced
      /\ Quiet(s) /\ 4 \notin s.cw => Quiet(moved) /\ moved.pos = s.pos
  <2>1. CASE acked.pp_active
    BY <1>3, <2>1, PpMoveStep, ZenonT(40) DEF SameControl, Quiet
  <2>2. CASE ~acked.pp_active
    BY <1>3, <2>2, DecelerateStep DEF SameControl, SameMoves, Quiet
  <2> QED
    BY <2>1, <2>2
<1> HIDE DEF moved
<1>5. s.referenced => Ok(UpdateTargetReached(moved))
  BY <1>4, TargetReachedStep DEF SameControl, SameMoves, Quiet
<1>6. ASSUME NEW b \in BOOLEAN PROVE Ok([stopped EXCEPT !.target_reached = b])
  <2> DEFINE u == [stopped EXCEPT !.target_reached = b]
  <2> HIDE DEF stopped
  <2>1. u \in Servos
    BY <1>1, Zenon DEF Servos
  <2>2. /\ SameControl(stopped, u) /\ SameMoves(stopped, u)
        /\ u.vel = stopped.vel /\ u.pos = stopped.pos
    BY <1>1, Zenon DEF Servos, SameControl, SameMoves
  <2> HIDE DEF u
  <2>3. Ok(u)
    BY <1>1, <2>1, <2>2 DEF SameControl, SameMoves, Quiet
  <2> QED
    BY <2>3 DEF u
<1>7. CASE Halt(s)
  <2> DEFINE b == stopped.vel = 0
  <2>1. b \in BOOLEAN
    OBVIOUS
  <2>2. ProcessPp(s) = [stopped EXCEPT !.target_reached = b]
    BY <1>7 DEF ProcessPp
  <2> HIDE DEF b, stopped, Ok
  <2>3. Ok(ProcessPp(s))
    BY <1>6, <2>1, <2>2
  <2> QED
    BY <2>3 DEF Ok
<1>8. CASE ~Halt(s) /\ ~s.referenced
  <2>1. ProcessPp(s) = [stopped EXCEPT !.target_reached = FALSE]
    BY <1>8 DEF ProcessPp
  <2> HIDE DEF stopped, Ok
  <2>2. Ok(ProcessPp(s))
    BY <1>6, <2>1
  <2> QED
    BY <2>2 DEF Ok
<1>9. CASE ~Halt(s) /\ s.referenced /\ StartEdge(s) /\ s.target_rejected
  <2>1. ProcessPp(s) = stopped
    BY <1>9 DEF ProcessPp
  <2> QED
    BY <1>1, <2>1
<1>10. CASE ~Halt(s) /\ s.referenced /\ ~(StartEdge(s) /\ s.target_rejected)
  <2>1. ProcessPp(s) = UpdateTargetReached(moved)
    BY <1>10 DEF ProcessPp, moved, acked, started
  <2> QED
    BY <1>5, <1>10, <2>1
<1> QED
  BY <1>7, <1>8, <1>9, <1>10

\* A velocity reached and whether it is the wanted one.
LEMMA VelocityStep ==
  ASSUME NEW s \in Servos, NEW v \in Int, NEW b \in BOOLEAN
  PROVE  LET t == [Travel(s, v) EXCEPT !.target_reached = b]
         IN  t \in Servos /\ SameControl(s, t) /\ SameMoves(s, t)
<1> DEFINE u == Travel(s, v)
<1>1. u \in Servos /\ SameControl(s, u) /\ SameMoves(s, u)
  BY TravelStep
<1> HIDE DEF u
<1> DEFINE t == [u EXCEPT !.target_reached = b]
<1>2. t \in Servos
  BY <1>1, Zenon DEF Servos
<1>3. SameControl(u, t) /\ SameMoves(u, t)
  BY <1>1, Zenon DEF Servos, SameControl, SameMoves
<1> HIDE DEF t
<1>4. t \in Servos /\ SameControl(s, t) /\ SameMoves(s, t)
  BY <1>1, <1>2, <1>3 DEF SameControl, SameMoves
<1> QED
  BY <1>4 DEF t, u

LEMMA PvStep ==
  ASSUME NEW s \in Servos
  PROVE  LET t == ProcessPv(s)
         IN  t \in Servos /\ SameControl(s, t) /\ SameMoves(s, t)
<1> DEFINE wanted == IF Halt(s) THEN 0 ELSE s.target_velocity
           tv == CASE wanted >= 0 /\ s.cfg.max_velocity > 0 -> Least(wanted, s.cfg.max_velocity)
                   [] wanted < 0 /\ s.cfg.neg_velocity > 0 -> Most(wanted, -s.cfg.neg_velocity)
                   [] OTHER -> wanted
           limit == VelocityDelta(s, tv)
           v == MoveTowards(s.vel, tv, limit)
           b == Abs(v - tv) <= limit
<1>1. ProcessPv(s) = [Travel(s, v) EXCEPT !.target_reached = b]
  BY DEF ProcessPv
<1>2. /\ s.target_velocity \in Int /\ s.vel \in Int
      /\ s.cfg.max_velocity \in Nat /\ s.cfg.neg_velocity \in Nat
  BY Fields, ConfigFields
<1>3. wanted \in Int
  BY <1>2
<1> HIDE DEF wanted
<1>4. tv \in Int
  BY <1>2, <1>3 DEF Least, Most
<1> HIDE DEF tv
<1>5. v \in Int
  <2>1. VelocityDelta(s, tv) \in Int
    BY <1>4, DeltaTypes
  <2> QED
    BY <1>2, <1>4, <2>1, MoveTowardsType
<1>6. b \in BOOLEAN
  OBVIOUS
<1> HIDE DEF v, b
<1> QED
  BY <1>1, <1>5, <1>6, VelocityStep

\* The smallest positive velocity exists.
LEMMA SmallestOfThree ==
  ASSUME NEW a \in Nat, NEW b \in Nat, NEW c \in Nat
  PROVE  LET set == {x \in {a, b, c} : x > 0}
         IN  set # {} => (CHOOSE x \in set : \A y \in set : x <= y) \in Nat
<1> DEFINE set == {x \in {a, b, c} : x > 0}
<1>1. SUFFICES ASSUME set # {} PROVE (CHOOSE x \in set : \A y \in set : x <= y) \in Nat
  OBVIOUS
<1>2. \E x \in set : \A y \in set : x <= y
  BY <1>1
<1>3. set \subseteq Nat
  OBVIOUS
<1> HIDE DEF set
<1> QED
  BY <1>2, <1>3

LEMMA JogVelocityType ==
  ASSUME NEW s \in Servos
  PROVE  JogVelocity(s) \in Int
<1> DEFINE set == {x \in {s.profile_velocity, s.cfg.max_velocity, s.cfg.neg_velocity} : x > 0}
           least == CHOOSE x \in set : \A y \in set : x <= y
           top == IF set = {} THEN 0 ELSE least
<1>1. /\ s.profile_velocity \in Nat
      /\ s.cfg.max_velocity \in Nat /\ s.cfg.neg_velocity \in Nat
  BY Fields, ConfigFields
<1>2. set # {} => least \in Nat
  BY <1>1, SmallestOfThree
<1>3. JogVelocity(s) \in {top, top \div 4, top \div 2}
  BY DEF JogVelocity
<1> HIDE DEF set, least
<1>4. top \in Nat
  BY <1>2
<1> HIDE DEF top
<1> QED
  BY <1>3, <1>4

LEMMA JogStep ==
  ASSUME NEW s \in Servos
  PROVE  LET t == ProcessJog(s)
         IN  t \in Servos /\ SameControl(s, t) /\ SameMoves(s, t)
<1> DEFINE positive == 4 \in s.cw
           negative == 5 \in s.cw
           asked == CASE positive = negative \/ Halt(s) -> 0
                      [] positive /\ ~negative /\ ~Halt(s) -> JogVelocity(s)
                      [] OTHER -> -JogVelocity(s)
           tv == LimitJog(s, asked)
           v == MoveTowards(s.vel, tv, VelocityDelta(s, tv))
           b == v = 0
<1>1. ProcessJog(s) = [Travel(s, v) EXCEPT !.target_reached = b]
  BY DEF ProcessJog
<1>2. JogVelocity(s) \in Int /\ s.vel \in Int
  BY JogVelocityType, Fields
<1>3. asked \in {0, JogVelocity(s), -JogVelocity(s)}
  <2> HIDE DEF positive, negative
  <2> QED
    OBVIOUS
<1> HIDE DEF asked
<1>4. tv \in Int
  BY <1>2, <1>3 DEF LimitJog
<1> HIDE DEF tv
<1>5. v \in Int
  <2>1. VelocityDelta(s, tv) \in Int
    BY <1>4, DeltaTypes
  <2> QED
    BY <1>2, <1>4, <2>1, MoveTowardsType
<1>6. b \in BOOLEAN
  OBVIOUS
<1> HIDE DEF v, b
<1> QED
  BY <1>1, <1>5, <1>6, VelocityStep

LEMMA CspStep ==
  ASSUME NEW s \in Servos
  PROVE  LET t == ProcessCsp(s)
         IN  t \in Servos /\ SameControl(s, t) /\ SameMoves(s, t)
<1> DEFINE slowed == DecelerateToStop(s)
           wanted == Clamp(Kp * (s.target - s.pos), VelocityCeiling(s, s.target))
           v == s.vel + Clamp(wanted - s.vel, VelocityDelta(s, wanted))
           Ok(t) == t \in Servos /\ SameControl(s, t) /\ SameMoves(s, t)
<1>1. s.target \in Int /\ s.pos \in Int /\ s.vel \in Int /\ Kp \in Int
  BY Fields, ServoAssumption
<1>2. wanted \in Int
  <2>1. Kp * (s.target - s.pos) \in Int /\ VelocityCeiling(s, s.target) \in Int
    BY <1>1, Product, DeltaTypes
  <2> QED
    BY <2>1, HelperTypes
<1> HIDE DEF wanted
<1>3. v \in Int
  <2>1. wanted - s.vel \in Int /\ VelocityDelta(s, wanted) \in Int
    BY <1>1, <1>2, DeltaTypes
  <2>2. Clamp(wanted - s.vel, VelocityDelta(s, wanted)) \in Int
    BY <2>1, HelperTypes
  <2> QED
    BY <1>1, <2>2
<1> HIDE DEF v
<1>4. Ok(UpdateTargetReached(Travel(s, v)))
  BY <1>3, TravelStep, TargetReachedStep DEF SameControl, SameMoves
<1>5. Ok(slowed)
  BY DecelerateStep
<1> HIDE DEF slowed
<1>6. ASSUME NEW b \in BOOLEAN PROVE Ok([slowed EXCEPT !.target_reached = b])
  <2> DEFINE u == [slowed EXCEPT !.target_reached = b]
  <2>1. u \in Servos
    BY <1>5, Zenon DEF Servos
  <2>2. SameControl(slowed, u) /\ SameMoves(slowed, u)
    BY <1>5, Zenon DEF Servos, SameControl, SameMoves
  <2> HIDE DEF u
  <2>3. Ok(u)
    BY <1>5, <2>1, <2>2 DEF SameControl, SameMoves
  <2> QED
    BY <2>3 DEF u
<1> DEFINE b == slowed.vel = 0
<1>7. /\ b \in BOOLEAN
      /\ \/ ProcessCsp(s) = [slowed EXCEPT !.target_reached = b]
         \/ ProcessCsp(s) = [slowed EXCEPT !.target_reached = FALSE]
         \/ ProcessCsp(s) = UpdateTargetReached(Travel(s, v))
  BY DEF ProcessCsp, slowed, v, wanted
<1> HIDE DEF b, Ok
<1>8. Ok(ProcessCsp(s))
  BY <1>4, <1>6, <1>7
<1> QED
  BY <1>8 DEF Ok

\* A homing run takes the reference away, and gives it back at position 0.
Unfinished(s) == s.homing_active => ~s.referenced
RunEnds(s, t) == s.homing_active /\ ~t.homing_active /\ t.referenced /\ t.pos = 0

LEMMA HomingStep ==
  ASSUME NEW s \in Servos
  PROVE  LET t == ProcessHoming(s)
         IN  /\ t \in Servos /\ SameControl(s, t) /\ t.pp_active = s.pp_active
             /\ Unfinished(s) => Unfinished(t)
             /\ Quiet(s) /\ 4 \notin s.cw =>
                  Quiet(t) /\ (t.pos = s.pos \/ RunEnds(s, t))
<1> DEFINE c == Most(1, HomingTime \div s.cycle_time)
           begin == [s EXCEPT !.homing_active = TRUE, !.homing_counter = c,
                              !.referenced = FALSE, !.vel = 0, !.target_reached = FALSE]
           begun == IF StartEdge(s) THEN begin ELSE s
           left == begun.homing_counter - 1
           on == [begun EXCEPT !.homing_counter = left]
           end == [begun EXCEPT !.homing_counter = left, !.pos = 0, !.vel = 0,
                                !.target = 0, !.target_reached = TRUE,
                                !.homing_active = FALSE, !.referenced = TRUE]
           Ok(t) == /\ t \in Servos /\ SameControl(s, t) /\ t.pp_active = s.pp_active
                    /\ Unfinished(s) => Unfinished(t)
                    /\ Quiet(s) /\ 4 \notin s.cw =>
                         Quiet(t) /\ (t.pos = s.pos \/ RunEnds(s, t))
<1>1. ProcessHoming(s) = CASE ~begun.homing_active -> begun
                           [] begun.homing_active /\ left > 0 -> on
                           [] OTHER -> end
  BY DEF ProcessHoming
<1>2. c \in Int
  <2>1. s.cycle_time \in Nat \ {0} /\ HomingTime \in Nat
    BY Fields, ServoAssumption
  <2>2. HomingTime \div s.cycle_time \in Int
    BY <2>1
  <2> QED
    BY <2>2, HelperTypes, Zero
<1> HIDE DEF c
<1>3. /\ begin \in Servos /\ SameControl(s, begin) /\ begin.pp_active = s.pp_active
      /\ ~begin.referenced /\ begin.vel = 0 /\ begin.pos = s.pos
  <2>1. begin \in Servos
    BY <1>2, Zero, Zenon DEF Servos
  <2>2. SameControl(s, begin) /\ begin.vel = 0 /\ begin.pos = s.pos
    BY Zenon DEF Servos, SameControl
  <2>3. begin.pp_active = s.pp_active /\ ~begin.referenced
    BY Zenon DEF Servos
  <2> QED
    BY <2>1, <2>2, <2>3
<1> HIDE DEF begin
<1>4. /\ begun \in Servos /\ SameControl(s, begun) /\ begun.pp_active = s.pp_active
      /\ Unfinished(s) => Unfinished(begun)
      /\ begun.pos = s.pos /\ begun.vel \in {0, s.vel}
      /\ 4 \notin s.cw => begun = s
  <2>1. SameControl(s, s)
    BY DEF SameControl
  <2>2. CASE StartEdge(s)
    BY <1>3, <2>2 DEF StartEdge, Unfinished
  <2>3. CASE ~StartEdge(s)
    BY <2>1, <2>3
  <2> QED
    BY <2>2, <2>3
<1> HIDE DEF begun
<1>5. left \in Int
  BY <1>4, Fields
<1> HIDE DEF left
<1>6. Ok(begun)
  BY <1>4 DEF Quiet
<1>7. Ok(on)
  <2>1. on \in Servos
    BY <1>4, <1>5, Zenon DEF Servos
  <2>2. SameControl(begun, on) /\ SameMoves(begun, on) /\ on.pos = begun.pos
        /\ on.vel = begun.vel
    BY <1>4, Zenon DEF Servos, SameControl, SameMoves
  <2> HIDE DEF on
  <2> QED
    BY <1>4, <2>1, <2>2 DEF SameControl, SameMoves, Quiet, Unfinished
<1>8. begun.homing_active => Ok(end)
  <2>1. end \in Servos
    BY <1>4, <1>5, Zero, Zenon DEF Servos
  <2>2. SameControl(begun, end) /\ end.vel = 0 /\ end.pos = 0
    BY <1>4, Zenon DEF Servos, SameControl
  <2>3. end.pp_active = begun.pp_active /\ ~end.homing_active /\ end.referenced
    BY <1>4, Zenon DEF Servos
  <2> HIDE DEF end
  <2> QED
    BY <1>4, <2>1, <2>2, <2>3 DEF SameControl, Quiet, RunEnds, Unfinished
<1> HIDE DEF on, end, Ok
<1>9. Ok(ProcessHoming(s))
  BY <1>1, <1>6, <1>7, <1>8
<1> QED
  BY <1>9 DEF Ok

-----------------------------------------------------------------------------
(* One cycle. *)

\* The power state machine never enters Fault by itself, and a zero controlword
\* disables.
LEMMA ProcessStates ==
  ASSUME NEW st \in DriveStates, NEW cw \in Word
  PROVE  /\ Process(st, cw) \in DriveStates
         /\ st # FLT => Process(st, cw) # FLT
         /\ Process(st, {}) = SOD
<1>1. Process(st, cw) \in DriveStates /\ (st # FLT => Process(st, cw) # FLT)
  BY DEF Process, DriveStates, SOD, RTSO, SO, OE, FLT
<1>2. Mask87({}) = {}
  BY DEF Mask87
<1>3. Process(st, {}) = SOD
  BY <1>2 DEF Process
<1> QED
  BY <1>1, <1>3

LEMMA PowerStepKeeps ==
  ASSUME NEW s \in Servos
  PROVE  LET t == PowerStep(s)
         IN  /\ t \in Servos /\ t.sm = Process(s.sm, s.cw)
             /\ t.pos = s.pos /\ t.vel \in {0, s.vel} /\ (t.pp_active => s.pp_active)
             /\ s.sm = OE /\ t.sm # OE => Quiet(t)
             /\ t.cw = s.cw /\ t.mode = s.mode /\ t.last_mode = s.last_mode
             /\ t.homing_active = s.homing_active /\ t.referenced = s.referenced
             /\ t.reset_command = s.reset_command
             /\ t.last_reset_command = s.last_reset_command
<1> DEFINE next == Process(s.sm, s.cw)
           u == IF s.sm = OE /\ next # OE THEN StopAtCurrentPosition(s) ELSE s
           t == [u EXCEPT !.sm = next]
<1>1. PowerStep(s) = t
  BY DEF PowerStep
<1>2. next \in DriveStates
  BY Fields, ProcessStates
<1> HIDE DEF next
<1>3. /\ u \in Servos /\ SameControl(s, u)
      /\ u.pos = s.pos /\ u.vel \in {0, s.vel} /\ (u.pp_active => s.pp_active)
      /\ s.sm = OE /\ next # OE => Quiet(u)
      /\ u.homing_active = s.homing_active /\ u.referenced = s.referenced
  <2>1. CASE s.sm = OE /\ next # OE
    BY <2>1, StopStep DEF Quiet
  <2>2. CASE ~(s.sm = OE /\ next # OE)
    BY <2>2 DEF SameControl
  <2> QED
    BY <2>1, <2>2
<1> HIDE DEF u
<1>4. t \in Servos
  BY <1>2, <1>3, Zenon DEF Servos
<1>5. /\ t.sm = next /\ t.pos = u.pos /\ t.vel = u.vel /\ t.pp_active = u.pp_active
      /\ t.cw = u.cw /\ t.mode = u.mode /\ t.last_mode = u.last_mode
      /\ t.homing_active = u.homing_active /\ t.referenced = u.referenced
      /\ t.reset_command = u.reset_command
      /\ t.last_reset_command = u.last_reset_command
  BY <1>3, Zenon DEF Servos
<1> HIDE DEF t
<1>6. t.sm = Process(s.sm, s.cw)
  BY <1>5 DEF next
<1> QED
  BY <1>1, <1>3, <1>4, <1>5, <1>6 DEF SameControl, Quiet

\* What the mode of the servo may do in one cycle.
MotionApplied(s, t) ==
  /\ t \in Servos /\ SameControl(s, t)
  /\ t.pp_active => s.pp_active \/ (s.sm = OE /\ s.mode = PP)
  /\ t.pp_active /\ s.mode = PP /\ s.sm = OE => t.referenced
  /\ s.mode # HM => SameReference(s, t)
  /\ Unfinished(s) => Unfinished(t)
  /\ s.sm # OE => t = s
  /\ s.mode \notin {PV, CSP, JOG} /\ 4 \notin s.cw /\ Quiet(s) =>
       Quiet(t) /\ (t.pos = s.pos \/ RunEnds(s, t))

LEMMA MotionStepKeeps ==
  ASSUME NEW s \in Servos
  PROVE  MotionApplied(s, MotionStep(s))
<1>1. CASE s.sm # OE
  BY <1>1 DEF MotionStep, MotionApplied, SameControl, SameReference, Unfinished
<1>2. CASE s.sm = OE /\ s.mode = PP
  <2>1. MotionStep(s) = ProcessPp(s)
    BY <1>2 DEF MotionStep, PP, PV, CSP, JOG, HM
  <2>2. s.mode \notin {PV, CSP, JOG, HM}
    BY <1>2 DEF PP, PV, CSP, JOG, HM
  <2> QED
    BY <1>2, <2>1, <2>2, PpStep DEF MotionApplied, SameReference, Unfinished
<1>3. CASE s.sm = OE /\ s.mode \in {PV, CSP, JOG}
  <2>1. MotionStep(s) \in {ProcessPv(s), ProcessCsp(s), ProcessJog(s)}
    BY <1>3 DEF MotionStep, PP, PV, CSP, JOG, HM
  <2>2. /\ MotionStep(s) \in Servos /\ SameControl(s, MotionStep(s))
        /\ SameMoves(s, MotionStep(s))
    BY <2>1, PvStep, CspStep, JogStep
  <2>3. s.mode # PP /\ s.mode # HM
    BY <1>3 DEF PP, PV, CSP, JOG, HM
  <2> QED
    BY <1>3, <2>2, <2>3 DEF MotionApplied, SameMoves, SameReference, Unfinished
<1>4. CASE s.sm = OE /\ s.mode = HM
  <2>1. MotionStep(s) = ProcessHoming(s)
    BY <1>4 DEF MotionStep, PP, PV, CSP, JOG, HM
  <2>2. s.mode \notin {PV, CSP, JOG, PP}
    BY <1>4 DEF PP, PV, CSP, JOG, HM
  <2> QED
    BY <1>4, <2>1, <2>2, HomingStep DEF MotionApplied
<1>5. CASE s.sm = OE /\ s.mode \notin {PP, PV, CSP, HM, JOG}
  <2>1. MotionStep(s) = s
    BY <1>5 DEF MotionStep
  <2> QED
    BY <1>5, <2>1 DEF MotionApplied, SameControl, SameReference, Unfinished
<1> QED
  BY <1>1, <1>2, <1>3, <1>4, <1>5

\* The statusword has the fault bit only in Fault.
LEMMA StatuswordType ==
  ASSUME NEW s \in Servos
  PROVE  /\ ServoStatusword(s) \in Word
         /\ s.sm # FLT => 3 \notin ServoStatusword(s)
<1>1. Statusword(s.sm) \in Word /\ (s.sm # FLT => 3 \notin Statusword(s.sm))
  BY DEF Statusword, Word, Bits, Servos, DriveStates
<1> HIDE DEF Statusword
<1> QED
  BY <1>1 DEF ServoStatusword, Word, Bits

\* The inductive invariant of the servo, in terms of the mode that was applied
\* last: the master may already have written another one.
ServoOk(s) ==
  /\ s \in Servos
  /\ s.sm # OE => Quiet(s)
  /\ s.pp_active => s.sm = OE /\ s.last_mode = PP /\ s.referenced
  /\ s.homing_active => ~s.referenced /\ s.last_mode \in {HM, CSP}
  /\ s.sm # FLT /\ 3 \notin s.sw

\* What a cycle does to a servo that has received its RxPDO.
Cycled(s, t) ==
  /\ t.mode = t.last_mode /\ ~ResetPending(t)
  /\ t.sm = Process(s.sm, t.cw)
  /\ ResetPending(s) => t.cw = {} /\ t.mode = CSP
  /\ ~ResetPending(s) => t.cw = s.cw /\ t.mode = s.mode
  /\ t.sm # OE => t.pos = s.pos
  /\ Quiet(s) /\ t.mode \notin {PV, CSP, JOG} /\ 4 \notin t.cw =>
       Quiet(t) /\ (t.pos = s.pos \/ RunEnds(s, t))

LEMMA UpdateType ==
  ASSUME NEW s \in Servos
  PROVE  ModelUpdate(s) \in Servos
<1> DEFINE a == ApplyOdCommands(s)
           m == MotionStep(PowerStep(a))
           b == 4 \in a.cw
<1>1. m \in Servos
  BY OdStep, PowerStepKeeps, MotionStepKeeps DEF OdApplied, MotionApplied
<1>2. ModelUpdate(s) = [m EXCEPT !.sw = ServoStatusword(m), !.previous_bit4 = b]
  BY DEF ModelUpdate, ProcessCycle
<1>3. b \in BOOLEAN
  OBVIOUS
<1> HIDE DEF a, m, b
<1>4. ServoStatusword(m) \in Word
  BY <1>1, StatuswordType
<1> QED
  BY <1>1, <1>2, <1>3, <1>4, ZenonT(60) DEF Servos

LEMMA UpdateKeeps ==
  ASSUME NEW s, ServoOk(s)
  PROVE  ServoOk(ModelUpdate(s)) /\ Cycled(s, ModelUpdate(s))
<1> DEFINE a == ApplyOdCommands(s)
           w == PowerStep(a)
           m == MotionStep(w)
           b == 4 \in a.cw
           t == [m EXCEPT !.sw = ServoStatusword(m), !.previous_bit4 = b]
<1>0. ModelUpdate(s) = t
  BY DEF ModelUpdate, ProcessCycle
<1>1. s \in Servos
  BY DEF ServoOk
<1>2. OdApplied(s, a)
  BY <1>1, OdStep
<1> HIDE DEF a
<1>3. /\ a \in Servos /\ a.pos = s.pos /\ a.sm = s.sm /\ a.mode = a.last_mode
      /\ a.referenced = s.referenced /\ (Quiet(s) => Quiet(a))
      /\ (a.homing_active => s.homing_active) /\ ~ResetPending(a)
      /\ ResetPending(s) => a.cw = {} /\ a.mode = CSP
      /\ ~ResetPending(s) => a.cw = s.cw /\ a.mode = s.mode
  BY <1>2 DEF OdApplied, Quiet
<1>4. a.pp_active => s.sm = OE /\ s.referenced /\ (ResetPending(s) \/ a.mode = PP)
  BY <1>2 DEF OdApplied, ServoOk, Quiet
<1>5. a.homing_active => ~a.referenced /\ a.mode \in {HM, CSP}
  BY <1>2 DEF OdApplied, ServoOk
<1>6. /\ w \in Servos /\ w.sm = Process(a.sm, a.cw)
      /\ w.pos = a.pos /\ w.vel \in {0, a.vel} /\ (w.pp_active => a.pp_active)
      /\ a.sm = OE /\ w.sm # OE => Quiet(w)
      /\ w.cw = a.cw /\ w.mode = a.mode /\ w.last_mode = a.last_mode
      /\ w.homing_active = a.homing_active /\ w.referenced = a.referenced
      /\ w.reset_command = a.reset_command
      /\ w.last_reset_command = a.last_reset_command
  BY <1>3, PowerStepKeeps
<1> HIDE DEF w
<1>7. w.sm # FLT /\ (ResetPending(s) => w.sm = SOD)
  <2>1. a.sm \in DriveStates /\ a.cw \in Word /\ a.sm # FLT
    BY <1>3, Fields DEF ServoOk
  <2> QED
    BY <1>3, <1>6, <2>1, ProcessStates
<1>8. w.sm # OE => Quiet(w)
  BY <1>3, <1>6 DEF ServoOk, Quiet
<1>9. w.pp_active => w.sm = OE /\ w.mode = PP /\ w.referenced
  BY <1>3, <1>4, <1>6, <1>7, <1>8 DEF Quiet, SOD, OE
<1>10. MotionApplied(w, m) /\ Unfinished(w)
  BY <1>5, <1>6, MotionStepKeeps DEF Unfinished
<1> HIDE DEF m
<1>11. m \in Servos /\ SameControl(w, m) /\ (w.sm # OE => m = w)
  BY <1>10 DEF MotionApplied
<1>12. ServoStatusword(m) \in Word /\ 3 \notin ServoStatusword(m)
  BY <1>7, <1>11, StatuswordType DEF SameControl
<1>13. b \in BOOLEAN
  OBVIOUS
<1> HIDE DEF b
<1>14. t \in Servos
  BY <1>11, <1>12, <1>13, Zenon DEF Servos
<1>15. /\ SameControl(m, t) /\ SameMoves(m, t) /\ t.vel = m.vel /\ t.pos = m.pos
       /\ t.sw = ServoStatusword(m)
  BY <1>11, Zenon DEF Servos, SameControl, SameMoves
<1> HIDE DEF t
<1>16. /\ t.sm = w.sm /\ t.mode = w.mode /\ t.last_mode = w.last_mode /\ t.cw = w.cw
       /\ t.reset_command = w.reset_command
       /\ t.last_reset_command = w.last_reset_command
  BY <1>11, <1>15 DEF SameControl
<1>17. t.sm # OE => Quiet(t) /\ t.pos = s.pos
  BY <1>3, <1>6, <1>8, <1>11, <1>15, <1>16 DEF SameMoves, Quiet
<1>18. t.pp_active => t.sm = OE /\ t.last_mode = PP /\ t.referenced
  <2>1. m.pp_active => w.sm = OE /\ w.mode = PP
    BY <1>9, <1>10 DEF MotionApplied
  <2>2. m.pp_active => m.referenced
    BY <1>10, <2>1 DEF MotionApplied
  <2> QED
    BY <1>3, <1>6, <1>15, <1>16, <2>1, <2>2 DEF SameMoves
<1>19. t.homing_active => ~t.referenced /\ t.last_mode \in {HM, CSP}
  BY <1>3, <1>5, <1>6, <1>10, <1>15, <1>16 DEF MotionApplied, SameMoves, SameReference, Unfinished
<1>20. ServoOk(t)
  BY <1>7, <1>12, <1>14, <1>15, <1>16, <1>17, <1>18, <1>19 DEF ServoOk
<1>21. /\ t.mode = t.last_mode /\ ~ResetPending(t) /\ t.sm = Process(s.sm, t.cw)
       /\ ResetPending(s) => t.cw = {} /\ t.mode = CSP
       /\ ~ResetPending(s) => t.cw = s.cw /\ t.mode = s.mode
  BY <1>3, <1>6, <1>16 DEF ResetPending
<1>22. Quiet(s) /\ t.mode \notin {PV, CSP, JOG} /\ 4 \notin t.cw =>
         Quiet(t) /\ (t.pos = s.pos \/ RunEnds(s, t))
  <2>1. Quiet(s) => Quiet(w)
    BY <1>3, <1>6 DEF Quiet
  <2>2. Quiet(w) /\ w.mode \notin {PV, CSP, JOG} /\ 4 \notin w.cw =>
          Quiet(m) /\ (m.pos = w.pos \/ RunEnds(w, m))
    BY <1>10 DEF MotionApplied
  <2>3. Quiet(m) => Quiet(t)
    BY <1>15 DEF SameMoves, Quiet
  <2>4. RunEnds(w, m) => RunEnds(s, t)
    BY <1>3, <1>6, <1>15 DEF RunEnds, SameMoves
  <2> QED
    BY <1>3, <1>6, <1>15, <1>16, <2>1, <2>2, <2>3, <2>4
<1> QED
  BY <1>0, <1>17, <1>20, <1>21, <1>22 DEF Cycled

-----------------------------------------------------------------------------
(* The adapter. *)

FkrPayloads == [cw : Word, mode : Int, rest : FkrRest]

\* Between two cycles the mode written last is the one applied last.
Settled(s) == ServoOk(s) /\ s.mode = s.last_mode

\* The servo after payload p was written and a cycle of dt run.
Stepped(s, p, dt) == ModelUpdate([ApplyRxPdo(s, p) EXCEPT !.cycle_time = dt])

\* What a cycle with payload p does to the servo.
StepFacts(s, p, t) ==
  /\ Settled(t) /\ ~ResetPending(t)
  /\ t.sm = Process(s.sm, t.cw)
  /\ ResetPending(s) => t.cw = {} /\ t.mode = CSP
  /\ ~ResetPending(s) => t.cw = p.cw /\ t.mode = p.mode
  /\ t.sm # OE => t.pos = s.pos
  /\ Quiet(s) /\ t.mode \notin {PV, CSP, JOG} /\ 4 \notin t.cw =>
       Quiet(t) /\ (t.pos = s.pos \/ RunEnds(s, t))

LEMMA StepKeeps ==
  ASSUME NEW s, ServoOk(s), NEW p \in FkrPayloads, NEW dt \in Periods
  PROVE  StepFacts(s, p, Stepped(s, p, dt))
<1> DEFINE r == [ApplyRxPdo(s, p) EXCEPT !.cycle_time = dt]
<1>1. s \in Servos
  BY DEF ServoOk
<1>2. /\ p.cw \in Word /\ p.mode \in Int /\ p.rest.target \in Int
      /\ p.rest.velocity \in Int /\ p.rest.profile \in Nat
  BY AdapterAssumption DEF FkrPayloads, FkrRest
<1>3. r \in Servos
  BY <1>1, <1>2, Zenon DEF ApplyRxPdo, Servos
<1>4. /\ r.sm = s.sm /\ r.last_mode = s.last_mode /\ r.pos = s.pos /\ r.vel = s.vel
      /\ r.reset_command = s.reset_command /\ r.sw = s.sw
      /\ r.last_reset_command = s.last_reset_command
      /\ r.cw = p.cw /\ r.mode = p.mode
  BY <1>1, Zenon DEF ApplyRxPdo, Servos
<1>5. SameMoves(s, r)
  BY <1>1, Zenon DEF ApplyRxPdo, Servos, SameMoves
<1>6. Stepped(s, p, dt) = ModelUpdate(r)
  BY DEF Stepped
<1> HIDE DEF r
<1>7. ServoOk(r)
  BY <1>3, <1>4, <1>5 DEF ServoOk, SameMoves, Quiet
<1> DEFINE t == ModelUpdate(r)
<1>8. ServoOk(t) /\ Cycled(r, t)
  BY <1>7, UpdateKeeps
<1> HIDE DEF t
<1>9. (ResetPending(r) <=> ResetPending(s)) /\ (Quiet(s) => Quiet(r))
  BY <1>4, <1>5 DEF ResetPending, Quiet, SameMoves
<1>10. RunEnds(r, t) => RunEnds(s, t)
  BY <1>5 DEF RunEnds, SameMoves
<1>11. StepFacts(s, p, t)
  BY <1>4, <1>8, <1>9, <1>10 DEF StepFacts, Settled, Cycled
<1> QED
  BY <1>6, <1>11 DEF t

LEMMA StepType ==
  ASSUME NEW s \in Servos, NEW p \in FkrPayloads, NEW dt \in Periods
  PROVE  Stepped(s, p, dt) \in Servos
<1> DEFINE r == [ApplyRxPdo(s, p) EXCEPT !.cycle_time = dt]
<1>1. /\ p.cw \in Word /\ p.mode \in Int /\ p.rest.target \in Int
      /\ p.rest.velocity \in Int /\ p.rest.profile \in Nat
  BY AdapterAssumption DEF FkrPayloads, FkrRest
<1>2. r \in Servos
  BY <1>1, Zenon DEF ApplyRxPdo, Servos
<1> HIDE DEF r
<1> QED
  BY <1>2, UpdateType DEF Stepped, r

\* A cycle is refused and changes nothing, exactly for an unsupported mode, or
\* steps the servo.
LEMMA ExecCases ==
  ASSUME NEW s, NEW p \in FkrPayloads, NEW first \in BOOLEAN, NEW o \in FkrExec(s, p, first)
  PROVE  \/ /\ p.mode \in Supported \cup {0}
            /\ \E dt \in Periods : o = [st |-> "ok", drive |-> Stepped(s, p, dt)]
         \/ p.mode \notin Supported \cup {0} /\ o = [st |-> "rejected", drive |-> s]
<1>1. PICK dt \in Periods : o = FkrCycle(s, p, dt)
  BY DEF FkrExec
<1> QED
  BY <1>1 DEF FkrCycle, Stepped

\* A new servo is settled, at rest at position 0 and without a fault.
LEMMA NewServoOk ==
  ASSUME NEW s \in FkrInit
  PROVE  Settled(s) /\ Quiet(s) /\ s.pos = 0 /\ s.sw = {6} /\ ~s.homing_active
<1>1. PICK c \in Configs : s = NewServo(c)
  BY DEF FkrInit
<1>2. (CHOOSE dt \in Periods : TRUE) \in Periods
  BY ServoAssumption
<1>3. {} \in Word /\ {6} \in Word /\ CSP \in Int /\ SOD \in DriveStates
  BY DEF Word, Bits, CSP, DriveStates
<1>4. s \in Servos
  BY <1>1, <1>2, <1>3, Zero, Zenon DEF NewServo, Servos
<1>5. /\ s.sm = SOD /\ s.mode = CSP /\ s.last_mode = CSP /\ s.pos = 0 /\ s.vel = 0
      /\ s.sw = {6}
  BY <1>1 DEF NewServo
<1>6. ~s.pp_active /\ ~s.homing_active
  BY <1>1 DEF NewServo
<1> QED
  BY <1>4, <1>5, <1>6 DEF Settled, ServoOk, Quiet, SOD, FLT

\* An SDO write moves nothing and changes neither mode nor power state.
LEMMA WriteKeeps ==
  ASSUME NEW s, Settled(s), NEW o \in FkrWrite(s)
  PROVE  /\ o.st \in {"ok", "rejected"} /\ Settled(o.drive)
         /\ o.drive.sm = s.sm /\ o.drive.pos = s.pos /\ o.drive.vel = s.vel
         /\ o.drive.mode = s.mode /\ o.drive.sw = s.sw /\ SameMoves(s, o.drive)
<1>1. s \in Servos
  BY DEF Settled, ServoOk
<1>2. \/ o.st = "rejected" /\ o.drive = s
      \/ o.st = "ok" /\ \E c \in Configs : o.drive = [s EXCEPT !.cfg = c]
      \/ o.st = "ok" /\ \E b \in BOOLEAN : o.drive = [s EXCEPT !.reset_command = b]
  BY DEF FkrWrite
<1> DEFINE Same(t) == /\ t \in Servos /\ t.sm = s.sm /\ t.pos = s.pos /\ t.vel = s.vel
                      /\ t.mode = s.mode /\ t.last_mode = s.last_mode /\ t.sw = s.sw
                      /\ SameMoves(s, t)
<1>3. Same(s)
  BY <1>1 DEF SameMoves
<1>4. ASSUME NEW c \in Configs PROVE Same([s EXCEPT !.cfg = c])
  BY <1>1, Zenon DEF Servos, SameMoves
<1>5. ASSUME NEW b \in BOOLEAN PROVE Same([s EXCEPT !.reset_command = b])
  BY <1>1, Zenon DEF Servos, SameMoves
<1> HIDE DEF Same
<1>6. Same(o.drive) /\ o.st \in {"ok", "rejected"}
  BY <1>2, <1>3, <1>4, <1>5
<1> QED
  BY <1>6 DEF Same, Settled, ServoOk, SameMoves, Quiet

-----------------------------------------------------------------------------
(* The servo and a master that sends anything. *)

ServoIInv == bench \in DOMAIN Bench /\ Settled(servo)

LEMMA SettledIsServoInv == ServoIInv => ServoInv
BY DEF ServoIInv, Settled, ServoOk, ServoInv, TypeOK, StoppedUnlessEnabled,
       PpMoveIsLegitimate, HomingIsUnreferenced, Quiet

LEMMA CycleKeepsServo == ServoIInv /\ Cycle => ServoIInv'
<1> SUFFICES ASSUME ServoIInv, Cycle PROVE ServoIInv'
  OBVIOUS
<1>1. PICK p \in Payloads, dt \in Bench[bench].periods :
        servo' = FkrCycle(servo, p, dt).drive
  BY DEF Cycle
<1>2. p \in FkrPayloads /\ dt \in Periods
  BY BenchAssumption DEF ServoIInv, Payloads, FkrPayloads, Word, Bits
<1>3. servo' = servo \/ servo' = Stepped(servo, p, dt)
  BY <1>1 DEF FkrCycle, Stepped
<1>4. Settled(Stepped(servo, p, dt))
  BY <1>2, StepKeeps DEF ServoIInv, Settled, StepFacts
<1>5. Settled(servo')
  BY <1>3, <1>4 DEF ServoIInv
<1> QED
  BY <1>5 DEF ServoIInv, Cycle

LEMMA WriteKeepsServo == ServoIInv /\ Write => ServoIInv'
<1> SUFFICES ASSUME ServoIInv, Write PROVE ServoIInv'
  OBVIOUS
<1>1. PICK o \in FkrWrite(servo) : servo' = o.drive
  BY DEF Write
<1>2. Settled(servo')
  BY <1>1, WriteKeeps DEF ServoIInv
<1> QED
  BY <1>2 DEF ServoIInv, Write

\* Whatever a master sends, in whatever order and with whatever configuration,
\* cycle times and homing time, the servo stays well typed, at rest unless
\* enabled, has a PP move only in PP, enabled and referenced, and is not
\* referenced while a homing run is unfinished.
THEOREM ServoAlwaysLegitimate == ServoSpec => []ServoInv
<1>1. ServoInit => ServoIInv
  BY NewServoOk DEF ServoInit, ServoIInv
<1>2. ServoIInv /\ [ServoNext]_servoVars => ServoIInv'
  <2>1. ServoIInv /\ UNCHANGED servoVars => ServoIInv'
    BY DEF ServoIInv, servoVars
  <2> QED
    BY <2>1, CycleKeepsServo, WriteKeepsServo DEF ServoNext
<1> QED
  BY <1>1, <1>2, SettledIsServoInv, PTL DEF ServoSpec

-----------------------------------------------------------------------------
(* The adapter keeps to the contract AxisRuntime is proved for. *)

\* The F-KR adapter keeps to the contract that the theorems about AxisRuntime
\* assume: whatever state the servo is in, every call of adapter/contract.py
\* ends in one of the ways the request handler expects and leaves a servo.
THEOREM FkrMeetsContract == Axis!ControlwordsAssumption /\ Axis!DriveAssumption
<1>1. Axis!ControlwordsAssumption
  BY MasterAssumption DEF Axis!ControlwordsAssumption, Axis!Word, Axis!Bits, Word, Bits,
                          Axis!FaultReset, FaultReset
<1>2. FkrInit \subseteq Servos
  BY NewServoOk DEF Settled, ServoOk
<1>3. ASSUME NEW d \in Servos
      PROVE  /\ FkrInputs(d) \in [st : {"ok", "failed", "invalid"}, sw : Axis!Word]
             /\ FkrRead(d) \subseteq Axis!Endings
             /\ FkrWrite(d) \subseteq Axis!Outcomes
             /\ \A p \in Axis!Payloads, first \in BOOLEAN :
                  FkrExec(d, p, first) \subseteq Axis!Outcomes
  <2>1. FkrInputs(d) \in [st : {"ok", "failed", "invalid"}, sw : Axis!Word]
    BY DEF FkrInputs, Servos, Word, Bits, Axis!Word, Axis!Bits
  <2>2. FkrRead(d) \subseteq Axis!Endings
    BY DEF FkrRead, Axis!Endings
  <2>3. FkrWrite(d) \subseteq Axis!Outcomes
    <3>1. \A c \in Configs : [d EXCEPT !.cfg = c] \in Servos
      BY Zenon DEF Servos
    <3>2. \A b \in BOOLEAN : [d EXCEPT !.reset_command = b] \in Servos
      BY Zenon DEF Servos
    <3> QED
      BY <3>1, <3>2 DEF FkrWrite, Axis!Outcomes, Axis!Endings
  <2>4. ASSUME NEW p \in Axis!Payloads, NEW first \in BOOLEAN, NEW o \in FkrExec(d, p, first)
        PROVE  o \in Axis!Outcomes
    <3>1. p \in FkrPayloads
      BY MasterAssumption DEF Axis!Payloads, FkrPayloads
    <3>2. PICK dt \in Periods : o = FkrCycle(d, p, dt)
      BY DEF FkrExec
    <3>3. o = [st |-> "ok", drive |-> Stepped(d, p, dt)] \/ o = [st |-> "rejected", drive |-> d]
      BY <3>2 DEF FkrCycle, Stepped
    <3>4. Stepped(d, p, dt) \in Servos
      BY <3>1, StepType
    <3> QED
      BY <3>3, <3>4 DEF Axis!Outcomes, Axis!Endings
  <2> QED
    BY <2>1, <2>2, <2>3, <2>4
<1>4. Axis!DriveAssumption
  BY <1>2, <1>3 DEF Axis!DriveAssumption
<1> QED
  BY <1>1, <1>4

-----------------------------------------------------------------------------
(* The axis: its guard and its servo. *)

Recovering == {"shutdown", "switch_on", "enable"}

\* The guard in front of servo d: a fault of this servo is always a rejected
\* request, which a reset may clear, or a failed one, which it may not; a
\* position that cannot be encoded is latched at once; from the accepted reset
\* on the servo is disabled.
GuardOk(g, d) ==
  /\ g \in Axis!Guards
  /\ g.fault # Axis!NoFault <=> g.phase \in {"fault", "verify_reset"}
  /\ g.fault \in {Axis!NoFault, Axis!AdapterFault, Axis!ExecFailed}
  /\ g.fault = Axis!ExecFailed => g.restart_required
  /\ g.restart_required => g.phase = "fault"
  /\ ~g.restart_required => Encodable(d)
  /\ g.phase \in {"verify_reset"} \cup Recovering => d.sm # OE

\* The inductive invariant of the axis: without a command since the last fault
\* the servo is at rest.
AxisOk ==
  /\ GuardOk(guard, drive) /\ Settled(drive)
  /\ last_cycle \in BOOLEAN /\ commanded \in BOOLEAN
  /\ guard.fault = Axis!NoFault /\ ~commanded => Quiet(drive)

\* How far the recovery procedure has come: guard and servo wait for the same
\* command.
ProcedureOk ==
  /\ attempt \in Nat
  /\ attempt > 0 =>
       /\ ~guard.restart_required
       /\ \/ guard.phase = "fault" /\ attempt = 1 /\ 7 \notin guard.previous_cw
          \/ guard.phase = "verify_reset" /\ attempt <= 2 /\ ~ResetPending(drive)
          \/ /\ guard.phase = "shutdown" /\ attempt <= 3
             /\ drive.sm = SOD /\ ~ResetPending(drive)
          \/ /\ guard.phase = "switch_on" /\ attempt <= 4
             /\ drive.sm = RTSO /\ ~ResetPending(drive)
          \/ /\ guard.phase = "enable" /\ attempt <= 5
             /\ drive.sm = SO /\ ~ResetPending(drive)

\* A guard that differs from g only in what it saw last.
SameGuard(g, h) ==
  /\ h \in Axis!Guards /\ h.phase = g.phase /\ h.fault = g.fault
  /\ h.restart_required = g.restart_required

\* prepare, phase by phase.
LEMMA PrepareCases ==
  ASSUME NEW g \in Axis!Guards, NEW p \in FkrPayloads, g.fault # Axis!DriveFault
  PROVE  LET pr == Axis!Prepare(g, p)
             next == Axis!NextRecoveryPhase(g.phase, p)
         IN  /\ pr.go \in BOOLEAN /\ pr.resetting \in BOOLEAN
             /\ pr.guard.previous_cw = p.cw
             /\ ~pr.go => SameGuard(g, pr.guard)
             /\ pr.resetting => g.phase \in {"fault", "verify_reset"}
             /\ pr.go /\ g.phase \in {"fault", "verify_reset"} =>
                  /\ pr.resetting /\ SameGuard(g, pr.guard)
                  /\ g.phase = "fault" => ~g.restart_required /\ pr.payload = Axis!ResetPulse(p)
                  /\ g.phase = "verify_reset" => pr.payload = Axis!Disabled(p)
             /\ g.phase = "normal" => pr.go /\ pr.payload = p /\ SameGuard(g, pr.guard)
             /\ pr.go /\ g.phase \in Recovering =>
                  /\ next # g.phase /\ pr.payload = p
                  /\ pr.guard \in Axis!Guards /\ pr.guard.phase = next
                  /\ pr.guard.fault = g.fault
                  /\ pr.guard.restart_required = g.restart_required
             /\ g.phase = "verify_reset" /\ 7 \notin p.cw => pr.go
             /\ g.phase = "fault" /\ ~g.restart_required /\ 7 \in p.cw
                  /\ 7 \notin g.previous_cw => pr.go
             /\ g.phase \in Recovering /\ next # g.phase => pr.go
<1> DEFINE pr == Axis!Prepare(g, p)
           next == Axis!NextRecoveryPhase(g.phase, p)
           seen == [g EXCEPT !.previous_cw = p.cw]
           edge == 7 \in p.cw /\ 7 \notin g.previous_cw
           Pass(gg, q)  == [guard |-> gg, go |-> TRUE, payload |-> q, resetting |-> FALSE]
           Reset(gg, q) == [guard |-> gg, go |-> TRUE, payload |-> q, resetting |-> TRUE]
           Block        == [guard |-> seen, go |-> FALSE, payload |-> p, resetting |-> FALSE]
<1>1. p.cw \in Axis!Word
  BY DEF FkrPayloads, Word, Bits, Axis!Word, Axis!Bits
<1>2. SameGuard(g, seen) /\ seen.previous_cw = p.cw
  BY <1>1, Zenon DEF SameGuard, Axis!Guards
<1>3. SameGuard(g, [seen EXCEPT !.acked = TRUE]) /\ [seen EXCEPT !.acked = TRUE].previous_cw = p.cw
  BY <1>1, Zenon DEF SameGuard, Axis!Guards
<1>4. CASE g.phase = "normal"
  <2>1. pr = Pass(seen, p)
    BY <1>4 DEF Axis!Prepare, Axis!RecoveryPhases
  <2> HIDE DEF pr, seen
  <2> QED
    BY <1>2, <1>4, <2>1 DEF Recovering, pr
<1>5. CASE g.phase = "verify_reset"
  <2>1. pr = IF 7 \in p.cw THEN Block ELSE Reset(seen, Axis!Disabled(p))
    BY <1>5 DEF Axis!Prepare, Axis!RecoveryPhases
  <2> HIDE DEF pr, seen
  <2> QED
    BY <1>2, <1>5, <2>1 DEF Recovering, pr
<1>6. CASE g.phase = "fault"
  <2>1. pr = IF ~g.restart_required /\ edge
             THEN Reset([seen EXCEPT !.acked = TRUE], Axis!ResetPulse(p)) ELSE Block
    BY <1>6 DEF Axis!Prepare, Axis!RecoveryPhases, Axis!Resettable
  <2> DEFINE acked == [seen EXCEPT !.acked = TRUE]
  <2> HIDE DEF pr, seen, acked
  <2>2. pr = IF ~g.restart_required /\ edge THEN Reset(acked, Axis!ResetPulse(p)) ELSE Block
    BY <2>1 DEF acked
  <2> QED
    BY <1>2, <1>3, <1>6, <2>2 DEF Recovering, pr, acked
<1>7. CASE g.phase \in Recovering
  <2>1. pr = IF next = g.phase THEN Block ELSE Pass([seen EXCEPT !.phase = next], p)
    BY <1>7 DEF Axis!Prepare, Axis!RecoveryPhases, Recovering
  <2>2. next \in Axis!Phases
    BY <1>7 DEF Axis!NextRecoveryPhase, Axis!Phases, Axis!RecoveryPhases, Recovering
  <2> DEFINE moved == [seen EXCEPT !.phase = next]
  <2> HIDE DEF next
  <2>3. /\ moved \in Axis!Guards /\ moved.phase = next /\ moved.fault = g.fault
        /\ moved.restart_required = g.restart_required /\ moved.previous_cw = p.cw
    BY <1>1, <2>2, Zenon DEF Axis!Guards
  <2> HIDE DEF pr, seen, moved
  <2>4. pr = IF next = g.phase THEN Block ELSE Pass(moved, p)
    BY <2>1 DEF moved
  <2> QED
    BY <1>2, <1>7, <2>3, <2>4 DEF Recovering, pr, next
<1> QED
  BY <1>4, <1>5, <1>6, <1>7 DEF Axis!Guards, Axis!Phases, Axis!RecoveryPhases, Recovering

\* detect returns the guard to phase fault and keeps the first fault.
LEMMA DetectFacts ==
  ASSUME NEW g \in Axis!Guards, NEW code \in Axis!FaultCodes, NEW restart \in BOOLEAN
  PROVE  LET h == Axis!Detect(g, code, restart)
         IN  /\ h \in Axis!Guards /\ h.phase = "fault"
             /\ h.fault = (IF g.fault = Axis!NoFault THEN code ELSE g.fault)
             /\ restart => h.restart_required
             /\ ~restart => h.restart_required = g.restart_required
             /\ h.previous_cw = g.previous_cw
<1> DEFINE v == g.feedback_valid /\ code = Axis!DriveFault /\ ~restart
           f == IF g.fault = Axis!NoFault THEN code ELSE g.fault
           a == IF g.fault = Axis!NoFault THEN FALSE ELSE g.acked
           r == g.restart_required \/ restart
           h == Axis!Detect(g, code, restart)
<1>1. h = [g EXCEPT !.feedback_valid = v, !.fault = f, !.acked = a,
                    !.restart_required = r, !.phase = "fault"]
  BY DEF Axis!Detect
<1>2. /\ v \in BOOLEAN /\ f \in Axis!FaultCodes \cup {Axis!NoFault} /\ a \in BOOLEAN
      /\ r \in BOOLEAN /\ "fault" \in Axis!Phases
  BY DEF Axis!Guards, Axis!Phases
<1> HIDE DEF v, f, a, r, h
<1>3. h \in Axis!Guards
  BY <1>1, <1>2, Zenon DEF Axis!Guards
<1>4. h.phase = "fault" /\ h.fault = f /\ h.restart_required = r
      /\ h.previous_cw = g.previous_cw
  BY <1>1, Zenon DEF Axis!Guards
<1>5. (restart => r) /\ (~restart => r = g.restart_required)
  BY DEF r, Axis!Guards
<1> QED
  BY <1>3, <1>4, <1>5 DEF h, f

\* accept of a statusword without the fault bit.
LEMMA AcceptFacts ==
  ASSUME NEW g \in Axis!Guards, NEW sw \in Word, 3 \notin sw, NEW resetting \in BOOLEAN
  PROVE  LET h == Axis!Accept(g, sw, resetting)
         IN  /\ h \in Axis!Guards /\ h.previous_cw = g.previous_cw
             /\ h.restart_required = g.restart_required
             /\ ~resetting \/ g.fault = Axis!NoFault =>
                  h.phase = g.phase /\ h.fault = g.fault
             /\ resetting /\ g.fault # Axis!NoFault =>
                  IF g.phase = "verify_reset"
                  THEN h.phase = "shutdown" /\ h.fault = Axis!NoFault
                  ELSE h.phase = "verify_reset" /\ h.fault = g.fault
<1> DEFINE valid == [g EXCEPT !.last = sw, !.feedback_valid = TRUE]
           done == [valid EXCEPT !.fault = Axis!NoFault, !.acked = FALSE, !.phase = "shutdown"]
           waiting == [valid EXCEPT !.phase = "verify_reset"]
           judged == IF resetting /\ g.fault # Axis!NoFault
                     THEN IF g.phase = "verify_reset" THEN done ELSE waiting
                     ELSE valid
           b == 7 \in sw
<1>1. sw \in Axis!Word
  BY DEF Word, Bits, Axis!Word, Axis!Bits
<1>2. Axis!Accept(g, sw, resetting) = [judged EXCEPT !.warning = b]
  BY DEF Axis!Accept, Axis!ResetVerified
<1>3. /\ valid \in Axis!Guards /\ valid.previous_cw = g.previous_cw
      /\ valid.restart_required = g.restart_required
      /\ valid.phase = g.phase /\ valid.fault = g.fault
  BY <1>1, Zenon DEF Axis!Guards
<1> HIDE DEF valid
<1>4. "shutdown" \in Axis!Phases /\ "verify_reset" \in Axis!Phases
  BY DEF Axis!Phases, Axis!RecoveryPhases
<1>5. /\ done \in Axis!Guards /\ done.previous_cw = g.previous_cw
      /\ done.restart_required = g.restart_required
      /\ done.phase = "shutdown" /\ done.fault = Axis!NoFault
  BY <1>3, <1>4, Zenon DEF Axis!Guards
<1>6. /\ waiting \in Axis!Guards /\ waiting.previous_cw = g.previous_cw
      /\ waiting.restart_required = g.restart_required
      /\ waiting.phase = "verify_reset" /\ waiting.fault = g.fault
  BY <1>3, <1>4, Zenon DEF Axis!Guards
<1> HIDE DEF done, waiting
<1>7. judged \in Axis!Guards
  BY <1>3, <1>5, <1>6
<1>8. b \in BOOLEAN
  OBVIOUS
<1> DEFINE h == [judged EXCEPT !.warning = b]
<1>9. /\ h \in Axis!Guards /\ h.previous_cw = judged.previous_cw
      /\ h.restart_required = judged.restart_required
      /\ h.phase = judged.phase /\ h.fault = judged.fault
  <2> HIDE DEF judged, b
  <2> QED
    BY <1>7, <1>8, Zenon DEF Axis!Guards
<1> HIDE DEF h
<1>10. /\ h \in Axis!Guards /\ h.previous_cw = g.previous_cw
       /\ h.restart_required = g.restart_required
       /\ ~resetting \/ g.fault = Axis!NoFault =>
            h.phase = g.phase /\ h.fault = g.fault
       /\ resetting /\ g.fault # Axis!NoFault =>
            IF g.phase = "verify_reset"
            THEN h.phase = "shutdown" /\ h.fault = Axis!NoFault
            ELSE h.phase = "verify_reset" /\ h.fault = g.fault
  BY <1>3, <1>5, <1>6, <1>9
<1> QED
  BY <1>2, <1>10 DEF h

\* The verdict on outcome o, for a servo that is not in Fault.
LEMMA JudgeFacts ==
  ASSUME NEW g \in Axis!Guards, NEW o, ServoOk(o.drive), NEW resetting \in BOOLEAN,
         o.st \in {"ok", "rejected", "failed"}
  PROVE  LET h == Axis!Judge(g, o, resetting)
         IN  /\ h \in Axis!Guards /\ h.previous_cw = g.previous_cw
             /\ o.st = "rejected" =>
                  /\ h.phase = "fault" /\ h.restart_required = g.restart_required
                  /\ h.fault = (IF g.fault = Axis!NoFault THEN Axis!AdapterFault ELSE g.fault)
             /\ o.st = "failed" \/ (o.st = "ok" /\ ~Encodable(o.drive)) =>
                  /\ h.phase = "fault" /\ h.restart_required
                  /\ h.fault = (IF g.fault = Axis!NoFault THEN Axis!ExecFailed ELSE g.fault)
             /\ o.st = "ok" /\ Encodable(o.drive) =>
                  /\ h.restart_required = g.restart_required
                  /\ ~resetting \/ g.fault = Axis!NoFault =>
                       h.phase = g.phase /\ h.fault = g.fault
                  /\ resetting /\ g.fault # Axis!NoFault =>
                       IF g.phase = "verify_reset"
                       THEN h.phase = "shutdown" /\ h.fault = Axis!NoFault
                       ELSE h.phase = "verify_reset" /\ h.fault = g.fault
<1> DEFINE h == Axis!Judge(g, o, resetting)
<1>1. /\ o.drive.sw \in Word /\ 3 \notin o.drive.sw
      /\ Axis!AdapterFault \in Axis!FaultCodes /\ Axis!ExecFailed \in Axis!FaultCodes
  BY DEF ServoOk, Servos, Axis!FaultCodes
<1>2. CASE o.st = "rejected"
  <2>1. h = Axis!Detect(g, Axis!AdapterFault, FALSE)
    BY <1>2 DEF Axis!Judge
  <2> HIDE DEF h
  <2>2. ASSUME NEW b \in BOOLEAN, ~b, h = Axis!Detect(g, Axis!AdapterFault, b)
        PROVE  /\ h \in Axis!Guards /\ h.previous_cw = g.previous_cw
               /\ h.phase = "fault" /\ h.restart_required = g.restart_required
               /\ h.fault = (IF g.fault = Axis!NoFault THEN Axis!AdapterFault ELSE g.fault)
    BY <1>1, <2>2, DetectFacts
  <2> QED
    BY <1>2, <2>1, <2>2 DEF h
<1>3. CASE o.st = "failed" \/ (o.st = "ok" /\ ~Encodable(o.drive))
  <2>1. h = Axis!Detect(g, Axis!ExecFailed, TRUE)
    BY <1>3 DEF Axis!Judge, FkrInputs
  <2> HIDE DEF h
  <2>2. ASSUME NEW b \in BOOLEAN, b, h = Axis!Detect(g, Axis!ExecFailed, b)
        PROVE  /\ h \in Axis!Guards /\ h.previous_cw = g.previous_cw
               /\ h.phase = "fault" /\ h.restart_required
               /\ h.fault = (IF g.fault = Axis!NoFault THEN Axis!ExecFailed ELSE g.fault)
    BY <1>1, <2>2, DetectFacts
  <2> QED
    BY <1>3, <2>1, <2>2 DEF h
<1>4. CASE o.st = "ok" /\ Encodable(o.drive)
  <2>1. h = Axis!Accept(g, o.drive.sw, resetting)
    BY <1>4 DEF Axis!Judge, FkrInputs
  <2> QED
    BY <1>1, <1>4, <2>1, AcceptFacts
<1> QED
  BY <1>2, <1>3, <1>4

\* The payloads prepare passes on keep the mode of the master's.
LEMMA MaskedPayloads ==
  ASSUME NEW p \in FkrPayloads
  PROVE  /\ Axis!Disabled(p) \in FkrPayloads /\ Axis!Disabled(p).mode = p.mode
         /\ Axis!Disabled(p).cw = {}
         /\ Axis!ResetPulse(p) \in FkrPayloads /\ Axis!ResetPulse(p).mode = p.mode
         /\ Axis!ResetPulse(p).cw = {7}
BY DEF Axis!Disabled, Axis!ResetPulse, Axis!FaultReset, FkrPayloads, Word, Bits

LEMMA PreparedPayload ==
  ASSUME NEW g \in Axis!Guards, NEW p \in FkrPayloads, g.fault # Axis!DriveFault,
         Axis!Prepare(g, p).go
  PROVE  LET q == Axis!Prepare(g, p).payload
         IN  q \in FkrPayloads /\ q.mode = p.mode
<1> DEFINE q == Axis!Prepare(g, p).payload
<1>1. g.phase \in {"normal", "fault", "verify_reset"} \cup Recovering
  BY DEF Axis!Guards, Axis!Phases, Axis!RecoveryPhases, Recovering
<1>2. q \in {p, Axis!Disabled(p), Axis!ResetPulse(p)}
  BY <1>1, PrepareCases
<1> HIDE DEF q
<1>3. q \in FkrPayloads /\ q.mode = p.mode
  BY <1>2, MaskedPayloads
<1> QED
  BY <1>3 DEF q

\* What a cycle request may do: nothing, the servo refuses it or it comes too
\* late, or the servo is stepped, after a disabling step when a reset of a
\* rejected PDO is tried.
Held(pr) == ~pr.go /\ guard' = pr.guard /\ drive' = drive /\ sent' = <<>>

Refused(pr, p, late) ==
  /\ pr.go /\ drive' = drive
  /\ \E st \in {"rejected", "failed"}, r \in BOOLEAN :
       /\ guard' = Axis!Judge(pr.guard, [st |-> st, drive |-> drive], r)
       /\ st = "rejected" => p.mode \notin Supported \cup {0}
       /\ st = "failed" => late /\ ~pr.resetting

Ran(pr) ==
  /\ pr.go /\ sent' # <<>>
  /\ guard' = Axis!Judge(pr.guard, [st |-> "ok", drive |-> drive'], pr.resetting)
  /\ \E dt \in Periods :
       /\ ~Axis!DisableFirst(pr) => drive' = Stepped(drive, pr.payload, dt)
       /\ Axis!DisableFirst(pr) =>
            \E first \in Periods :
              drive' = Stepped(Stepped(drive, Axis!Disabled(pr.payload), first), pr.payload, dt)

LEMMA CycleCases ==
  ASSUME guard \in Axis!Guards, guard.fault # Axis!DriveFault, last_cycle \in BOOLEAN,
         NEW p \in FkrPayloads, NEW late \in BOOLEAN, Axis!Cycle(p, late)
  PROVE  LET pr == Axis!Prepare(guard, p)
         IN  /\ last_cycle' \in BOOLEAN
             /\ Held(pr) \/ Refused(pr, p, late) \/ Ran(pr)
<1> DEFINE pr == Axis!Prepare(guard, p)
           first == pr.resetting \/ ~last_cycle
           prefix == IF Axis!DisableFirst(pr) THEN <<{}>> ELSE <<>>
<1>1. /\ pr.go \in BOOLEAN /\ pr.resetting \in BOOLEAN
  BY PrepareCases
<1>2. pr.go => /\ pr.payload \in FkrPayloads /\ pr.payload.mode = p.mode
               /\ Axis!Disabled(pr.payload) \in FkrPayloads
               /\ Axis!Disabled(pr.payload).mode = p.mode
  BY PreparedPayload, MaskedPayloads
<1>3. \/ ~pr.go /\ Axis!Hold(pr.guard)
      \/ /\ pr.go
         /\ \E a \in IF Axis!DisableFirst(pr)
                     THEN FkrExec(drive, Axis!Disabled(pr.payload), TRUE)
                     ELSE {Axis!Unchanged(drive)} :
              \/ /\ a.st # "ok"
                 /\ Axis!Finish(pr.guard, a, pr.resetting, FALSE, prefix)
              \/ /\ a.st = "ok" /\ ~first /\ late
                 /\ Axis!Finish(pr.guard, [a EXCEPT !.st = "failed"], FALSE, FALSE, prefix)
              \/ /\ a.st = "ok" /\ (first \/ ~late)
                 /\ \E b \in FkrExec(a.drive, pr.payload, first) :
                      Axis!Finish(pr.guard, b, pr.resetting, TRUE,
                                  Append(prefix, pr.payload.cw))
  BY DEF Axis!Cycle
<1>4. ASSUME NEW g, NEW o, NEW r, NEW c \in BOOLEAN, NEW words, Axis!Finish(g, o, r, c, words)
      PROVE  /\ last_cycle' \in BOOLEAN /\ guard' = Axis!Judge(g, o, r)
             /\ drive' = o.drive /\ sent' = words
  BY <1>4 DEF Axis!Finish
<1>5. CASE ~pr.go
  <2>1. Held(pr) /\ last_cycle' = FALSE
    BY <1>3, <1>5 DEF Held, Axis!Hold
  <2> QED
    BY <2>1
<1>6. CASE pr.go
  <2>1. PICK a \in IF Axis!DisableFirst(pr)
                   THEN FkrExec(drive, Axis!Disabled(pr.payload), TRUE)
                   ELSE {Axis!Unchanged(drive)} :
              \/ /\ a.st # "ok"
                 /\ Axis!Finish(pr.guard, a, pr.resetting, FALSE, prefix)
              \/ /\ a.st = "ok" /\ ~first /\ late
                 /\ Axis!Finish(pr.guard, [a EXCEPT !.st = "failed"], FALSE, FALSE, prefix)
              \/ /\ a.st = "ok" /\ (first \/ ~late)
                 /\ \E b \in FkrExec(a.drive, pr.payload, first) :
                      Axis!Finish(pr.guard, b, pr.resetting, TRUE,
                                  Append(prefix, pr.payload.cw))
    BY <1>3, <1>6
  <2>2. \/ ~Axis!DisableFirst(pr) /\ a = [st |-> "ok", drive |-> drive]
        \/ /\ Axis!DisableFirst(pr) /\ p.mode \in Supported \cup {0}
           /\ \E dt \in Periods :
                a = [st |-> "ok", drive |-> Stepped(drive, Axis!Disabled(pr.payload), dt)]
        \/ /\ Axis!DisableFirst(pr) /\ p.mode \notin Supported \cup {0}
           /\ a = [st |-> "rejected", drive |-> drive]
    <3>1. CASE ~Axis!DisableFirst(pr)
      BY <2>1, <3>1 DEF Axis!Unchanged
    <3>2. CASE Axis!DisableFirst(pr)
      <4>1. a \in FkrExec(drive, Axis!Disabled(pr.payload), TRUE)
        BY <2>1, <3>2
      <4>2. ASSUME NEW f \in BOOLEAN, a \in FkrExec(drive, Axis!Disabled(pr.payload), f)
            PROVE  \/ /\ p.mode \in Supported \cup {0}
                      /\ \E dt \in Periods :
                           a = [st |-> "ok", drive |-> Stepped(drive, Axis!Disabled(pr.payload), dt)]
                   \/ /\ p.mode \notin Supported \cup {0}
                      /\ a = [st |-> "rejected", drive |-> drive]
        BY <1>2, <1>6, <4>2, ExecCases
      <4> QED
        BY <3>2, <4>1, <4>2
    <3> QED
      BY <3>1, <3>2
  <2> HIDE DEF pr, prefix
  <2>3. CASE a.st # "ok"
    <3>1. Axis!DisableFirst(pr) /\ p.mode \notin Supported \cup {0}
          /\ a = [st |-> "rejected", drive |-> drive]
      BY <2>2, <2>3
    <3>2. Axis!Finish(pr.guard, a, pr.resetting, FALSE, prefix)
      BY <2>1, <2>3
    <3>3. /\ last_cycle' \in BOOLEAN /\ drive' = drive
          /\ guard' = Axis!Judge(pr.guard, a, pr.resetting)
      <4>1. drive' = a.drive
        BY <3>2 DEF Axis!Finish
      <4>2. guard' = Axis!Judge(pr.guard, a, pr.resetting)
        BY <3>2 DEF Axis!Finish
      <4>3. last_cycle' \in BOOLEAN
        BY <3>2 DEF Axis!Finish
      <4> QED
        BY <3>1, <4>1, <4>2, <4>3
    <3>4. Refused(pr, p, late)
      BY <1>1, <1>6, <3>1, <3>3 DEF Refused
    <3> QED
      BY <3>3, <3>4 DEF pr
  <2>4. CASE a.st = "ok" /\ ~first /\ late
    <3>1. Axis!Finish(pr.guard, [a EXCEPT !.st = "failed"], FALSE, FALSE, prefix)
      BY <2>1, <2>4
    <3>2. ~Axis!DisableFirst(pr)
      BY <2>4 DEF Axis!DisableFirst
    <3>3. [a EXCEPT !.st = "failed"] = [st |-> "failed", drive |-> drive]
      BY <2>2, <3>2
    <3>4. /\ last_cycle' \in BOOLEAN /\ drive' = drive
          /\ guard' = Axis!Judge(pr.guard, [st |-> "failed", drive |-> drive], FALSE)
      BY <1>4, <3>1, <3>3
    <3>5. Refused(pr, p, late)
      BY <1>6, <2>4, <3>4 DEF Refused
    <3> QED
      BY <3>4, <3>5 DEF pr
  <2>5. CASE a.st = "ok" /\ (first \/ ~late)
    <3>1. PICK b \in FkrExec(a.drive, pr.payload, first) :
            Axis!Finish(pr.guard, b, pr.resetting, TRUE, Append(prefix, pr.payload.cw))
      BY <2>1, <2>5
    <3>2. /\ last_cycle' \in BOOLEAN /\ drive' = b.drive
          /\ guard' = Axis!Judge(pr.guard, b, pr.resetting)
          /\ sent' = Append(prefix, pr.payload.cw)
      BY <1>4, <3>1
    <3>3. \/ /\ p.mode \in Supported \cup {0}
             /\ \E dt \in Periods :
                  b = [st |-> "ok", drive |-> Stepped(a.drive, pr.payload, dt)]
          \/ p.mode \notin Supported \cup {0} /\ b = [st |-> "rejected", drive |-> a.drive]
      <4> DEFINE f == first
      <4>1. f \in BOOLEAN
        OBVIOUS
      <4> HIDE DEF f
      <4>2. b \in FkrExec(a.drive, pr.payload, f)
        BY <3>1 DEF f
      <4> HIDE DEF first
      <4> QED
        BY <1>2, <1>6, <4>1, <4>2, ExecCases
    <3>4. CASE p.mode \notin Supported \cup {0}
      <4>1. ~Axis!DisableFirst(pr) /\ a.drive = drive
        BY <2>2, <2>5, <3>4
      <4>2. b = [st |-> "rejected", drive |-> drive]
        BY <3>3, <3>4, <4>1
      <4>3. Refused(pr, p, late)
        BY <1>1, <1>6, <3>2, <3>4, <4>2 DEF Refused
      <4> QED
        BY <3>2, <4>3 DEF pr
    <3>5. CASE p.mode \in Supported \cup {0}
      <4>1. PICK dt \in Periods : b = [st |-> "ok", drive |-> Stepped(a.drive, pr.payload, dt)]
        BY <3>3, <3>5
      <4>2. drive' = Stepped(a.drive, pr.payload, dt)
        BY <3>2, <4>1
      <4>3. guard' = Axis!Judge(pr.guard, [st |-> "ok", drive |-> drive'], pr.resetting)
        BY <3>2, <4>1, <4>2
      <4>4. sent' # <<>>
        BY <3>2 DEF prefix
      <4>5. /\ ~Axis!DisableFirst(pr) => a.drive = drive
            /\ Axis!DisableFirst(pr) =>
                 \E d \in Periods : a.drive = Stepped(drive, Axis!Disabled(pr.payload), d)
        BY <2>2, <2>5
      <4>6. Ran(pr)
        BY <1>6, <4>2, <4>3, <4>4, <4>5 DEF Ran
      <4> QED
        BY <3>2, <4>6 DEF pr
    <3> QED
      BY <3>4, <3>5
  <2> QED
    BY <2>1, <2>3, <2>4, <2>5
<1> QED
  BY <1>1, <1>5, <1>6

\* A fault is latched in g, for a reset to clear or for a restart.
Latched(g) ==
  /\ g \in Axis!Guards /\ g.phase = "fault"
  /\ \/ g.fault = Axis!AdapterFault /\ ~g.restart_required
     \/ g.fault = Axis!ExecFailed /\ g.restart_required

\* No fault is latched in g.
Clear(g) == /\ g \in Axis!Guards /\ g.phase \in {"normal"} \cup Recovering
            /\ g.fault = Axis!NoFault /\ ~g.restart_required

LEMMA Codes ==
  /\ Axis!NoFault # Axis!AdapterFault /\ Axis!NoFault # Axis!ExecFailed
  /\ Axis!AdapterFault # Axis!ExecFailed /\ Axis!NoFault # Axis!DriveFault
  /\ Axis!AdapterFault # Axis!DriveFault /\ Axis!ExecFailed # Axis!DriveFault
BY DEF Axis!NoFault, Axis!AdapterFault, Axis!ExecFailed, Axis!DriveFault

LEMMA ClearGuard ==
  ASSUME NEW d, NEW g, GuardOk(g, d), g.fault = Axis!NoFault
  PROVE  Clear(g) /\ g.fault # Axis!DriveFault
BY Codes DEF GuardOk, Clear, Axis!Guards, Axis!Phases, Axis!RecoveryPhases, Recovering

\* A disabling step leaves the servo in Switch On Disabled where it was.
LEMMA DisablingStep ==
  ASSUME NEW s, ServoOk(s), NEW p \in FkrPayloads, p.cw = {}, NEW t, StepFacts(s, p, t)
  PROVE  t.sm = SOD /\ t.pos = s.pos /\ Settled(t) /\ ~ResetPending(t)
<1>1. t.cw = {}
  BY DEF StepFacts
<1>2. s.sm \in DriveStates /\ {} \in Word
  BY Fields DEF ServoOk, Word
<1>3. t.sm = SOD
  BY <1>1, <1>2, ProcessStates DEF StepFacts
<1> QED
  BY <1>3 DEF StepFacts, SOD, OE

\* A reset bit or a zero controlword leaves a disabled servo disabled.
LEMMA PulseStep ==
  ASSUME NEW s, ServoOk(s), s.sm = SOD, ~ResetPending(s), NEW p \in FkrPayloads,
         p.cw = {} \/ p.cw = {7}, NEW t, StepFacts(s, p, t)
  PROVE  t.sm = SOD /\ t.pos = s.pos /\ Settled(t) /\ ~ResetPending(t)
<1>1. t.cw = p.cw
  BY DEF StepFacts
<1>2. Process(SOD, {7}) = SOD
  BY DEF Process, SOD, FLT
<1>3. SOD \in DriveStates /\ {} \in Word
  BY DEF DriveStates, Word
<1>4. t.sm = SOD
  BY <1>1, <1>2, <1>3, ProcessStates DEF StepFacts
<1> QED
  BY <1>4 DEF StepFacts, SOD, OE

\* A cycle while a fault is latched.
LEMMA FaultCycle ==
  ASSUME AxisOk, guard.fault # Axis!NoFault,
         NEW p \in FkrPayloads, NEW late \in BOOLEAN, Axis!Cycle(p, late)
  PROVE  /\ last_cycle' \in BOOLEAN /\ guard' \in Axis!Guards /\ guard'.previous_cw = p.cw
         /\ guard'.restart_required = guard.restart_required
         /\ \/ /\ ~Axis!Prepare(guard, p).go /\ drive' = drive
               /\ guard'.phase = guard.phase /\ guard'.fault = guard.fault
            \/ /\ p.mode \notin Supported \cup {0} /\ drive' = drive
               /\ guard'.phase = "fault" /\ guard'.fault = guard.fault
            \/ /\ Axis!Prepare(guard, p).go /\ ~guard.restart_required
               /\ drive'.sm = SOD /\ drive'.pos = drive.pos
               /\ Settled(drive') /\ ~ResetPending(drive')
               /\ IF guard.phase = "verify_reset"
                  THEN guard'.phase = "shutdown" /\ guard'.fault = Axis!NoFault
                  ELSE guard'.phase = "verify_reset" /\ guard'.fault = guard.fault
<1> DEFINE pr == Axis!Prepare(guard, p)
<1>1. /\ guard \in Axis!Guards /\ guard.fault # Axis!DriveFault /\ last_cycle \in BOOLEAN
      /\ guard.phase \in {"fault", "verify_reset"} /\ Settled(drive)
      /\ ServoOk(drive)
  BY Codes DEF AxisOk, GuardOk, Settled
<1>2. last_cycle' \in BOOLEAN /\ (Held(pr) \/ Refused(pr, p, late) \/ Ran(pr))
  BY <1>1, CycleCases
<1>3. /\ pr.guard.previous_cw = p.cw /\ SameGuard(guard, pr.guard)
      /\ pr.go => pr.resetting /\ pr.payload \in {Axis!ResetPulse(p), Axis!Disabled(p)}
      /\ pr.go /\ guard.phase = "fault" => ~guard.restart_required
      /\ pr.go \in BOOLEAN /\ pr.resetting \in BOOLEAN
  BY <1>1, PrepareCases
<1> HIDE DEF pr
<1>4. CASE Held(pr)
  BY <1>2, <1>3, <1>4 DEF Held, SameGuard, pr
<1>5. CASE Refused(pr, p, late)
  <2>1. PICK st \in {"rejected", "failed"}, r \in BOOLEAN :
       /\ guard' = Axis!Judge(pr.guard, [st |-> st, drive |-> drive], r)
       /\ st = "rejected" => p.mode \notin Supported \cup {0}
       /\ st = "failed" => late /\ ~pr.resetting
    BY <1>5 DEF Refused
  <2>2. pr.go /\ drive' = drive /\ st = "rejected"
    BY <1>3, <1>5, <2>1 DEF Refused
  <2> DEFINE o == [st |-> st, drive |-> drive]
  <2>3. /\ o.st = "rejected" /\ ServoOk(o.drive)
        /\ guard' = Axis!Judge(pr.guard, o, r) /\ pr.guard \in Axis!Guards
    BY <1>1, <1>3, <2>1, <2>2 DEF SameGuard
  <2> HIDE DEF o
  <2>4. /\ guard' \in Axis!Guards /\ guard'.previous_cw = pr.guard.previous_cw
        /\ guard'.phase = "fault" /\ guard'.restart_required = pr.guard.restart_required
        /\ guard'.fault = (IF pr.guard.fault = Axis!NoFault THEN Axis!AdapterFault ELSE pr.guard.fault)
    BY <2>3, JudgeFacts
  <2> QED
    BY <1>2, <1>3, <2>1, <2>2, <2>4 DEF SameGuard
<1>6. CASE Ran(pr)
  <2>1. pr.go /\ ~guard.restart_required /\ guard.fault = Axis!AdapterFault
    BY <1>1, <1>3, <1>6 DEF Ran, AxisOk, GuardOk
  <2>2. Axis!DisableFirst(pr)
    BY <1>3, <2>1 DEF Axis!DisableFirst, SameGuard
  <2>3. PICK dt \in Periods, first \in Periods :
          drive' = Stepped(Stepped(drive, Axis!Disabled(pr.payload), first), pr.payload, dt)
    BY <1>6, <2>2 DEF Ran
  <2>4. /\ pr.payload \in FkrPayloads /\ (pr.payload.cw = {} \/ pr.payload.cw = {7})
        /\ Axis!Disabled(pr.payload) \in FkrPayloads /\ Axis!Disabled(pr.payload).cw = {}
    BY <1>3, <2>1, MaskedPayloads
  <2> DEFINE u == Stepped(drive, Axis!Disabled(pr.payload), first)
  <2>5. u.sm = SOD /\ u.pos = drive.pos /\ Settled(u) /\ ~ResetPending(u)
    BY <1>1, <2>4, StepKeeps, DisablingStep
  <2>6. drive' = Stepped(u, pr.payload, dt)
    BY <2>3
  <2> HIDE DEF u
  <2>7. drive'.sm = SOD /\ drive'.pos = u.pos /\ Settled(drive') /\ ~ResetPending(drive')
    BY <2>4, <2>5, <2>6, StepKeeps, PulseStep DEF Settled
  <2>8. Encodable(drive')
    BY <2>1, <2>5, <2>7 DEF AxisOk, GuardOk, Encodable
  <2> DEFINE o == [st |-> "ok", drive |-> drive']
  <2>9. /\ o.st = "ok" /\ o.drive = drive' /\ guard' = Axis!Judge(pr.guard, o, pr.resetting)
    BY <1>6 DEF Ran
  <2> HIDE DEF o
  <2>10. /\ guard' \in Axis!Guards /\ guard'.previous_cw = pr.guard.previous_cw
         /\ guard'.restart_required = pr.guard.restart_required
         /\ IF pr.guard.phase = "verify_reset"
            THEN guard'.phase = "shutdown" /\ guard'.fault = Axis!NoFault
            ELSE guard'.phase = "verify_reset" /\ guard'.fault = pr.guard.fault
    BY <1>3, <2>1, <2>7, <2>8, <2>9, JudgeFacts DEF SameGuard, Settled
  <2> QED
    BY <1>2, <1>3, <2>1, <2>5, <2>7, <2>10 DEF SameGuard, pr
<1> QED
  BY <1>2, <1>4, <1>5, <1>6

\* The phase a cycle without a latched fault asks for.
NextPhase(p) == IF guard.phase = "normal" THEN "normal"
                ELSE Axis!NextRecoveryPhase(guard.phase, p)

\* A cycle while no fault is latched.
LEMMA ClearCycle ==
  ASSUME AxisOk, guard.fault = Axis!NoFault,
         NEW p \in FkrPayloads, NEW late \in BOOLEAN, Axis!Cycle(p, late)
  PROVE  /\ last_cycle' \in BOOLEAN
         /\ \/ /\ guard.phase \in Recovering /\ NextPhase(p) = guard.phase
               /\ drive' = drive /\ SameGuard(guard, guard')
            \/ /\ p.mode \notin Supported \cup {0} \/ late
               /\ drive' = drive /\ Latched(guard')
            \/ /\ sent' # <<>> /\ StepFacts(drive, p, drive')
               /\ guard.phase \in Recovering => NextPhase(p) # guard.phase
               /\ Encodable(drive') => Clear(guard') /\ guard'.phase = NextPhase(p)
               /\ ~Encodable(drive') => Latched(guard') /\ guard'.restart_required
<1> DEFINE pr == Axis!Prepare(guard, p)
<1>1. /\ Clear(guard) /\ guard.fault # Axis!DriveFault /\ last_cycle \in BOOLEAN
      /\ guard \in Axis!Guards /\ ServoOk(drive)
  BY ClearGuard DEF AxisOk, Clear, Settled
<1>2. last_cycle' \in BOOLEAN /\ (Held(pr) \/ Refused(pr, p, late) \/ Ran(pr))
  BY <1>1, CycleCases
<1>3. /\ ~pr.go => SameGuard(guard, pr.guard) /\ guard.phase \in Recovering
                   /\ NextPhase(p) = guard.phase
      /\ pr.go => /\ pr.payload = p /\ pr.guard \in Axis!Guards
                  /\ pr.guard.phase = NextPhase(p) /\ pr.guard.fault = Axis!NoFault
                  /\ ~pr.guard.restart_required
                  /\ guard.phase \in Recovering => NextPhase(p) # guard.phase
      /\ ~pr.resetting /\ pr.resetting \in BOOLEAN
  <2>1. CASE guard.phase = "normal"
    BY <1>1, <2>1, PrepareCases DEF Clear, SameGuard, NextPhase, Recovering
  <2>2. CASE guard.phase \in Recovering
    BY <1>1, <2>2, PrepareCases DEF Clear, SameGuard, NextPhase, Recovering
  <2> QED
    BY <1>1, <2>1, <2>2 DEF Clear
<1> HIDE DEF pr
<1>4. CASE Held(pr)
  BY <1>2, <1>3, <1>4 DEF Held
<1>5. CASE Refused(pr, p, late)
  <2>1. PICK st \in {"rejected", "failed"}, r \in BOOLEAN :
       /\ guard' = Axis!Judge(pr.guard, [st |-> st, drive |-> drive], r)
       /\ st = "rejected" => p.mode \notin Supported \cup {0}
       /\ st = "failed" => late /\ ~pr.resetting
    BY <1>5 DEF Refused
  <2> DEFINE o == [st |-> st, drive |-> drive]
  <2>2. /\ o.st = st /\ ServoOk(o.drive) /\ guard' = Axis!Judge(pr.guard, o, r)
        /\ pr.guard \in Axis!Guards /\ pr.guard.fault = Axis!NoFault
        /\ ~pr.guard.restart_required
    BY <1>1, <1>3, <1>5, <2>1 DEF Refused
  <2> HIDE DEF o
  <2>3. Latched(guard')
    <3>1. CASE st = "rejected"
      BY <2>2, <3>1, JudgeFacts DEF Latched
    <3>2. CASE st = "failed"
      BY <2>2, <3>2, JudgeFacts DEF Latched
    <3> QED
      BY <3>1, <3>2
  <2> QED
    BY <1>2, <1>5, <2>1, <2>3 DEF Refused
<1>6. CASE Ran(pr)
  <2>1. PICK dt \in Periods : drive' = Stepped(drive, p, dt)
    BY <1>3, <1>6 DEF Ran, Axis!DisableFirst
  <2>2. StepFacts(drive, p, drive')
    BY <1>1, <2>1, StepKeeps
  <2> DEFINE o == [st |-> "ok", drive |-> drive']
  <2>3. /\ o.st = "ok" /\ o.drive = drive' /\ guard' = Axis!Judge(pr.guard, o, pr.resetting)
        /\ pr.go
    BY <1>6 DEF Ran
  <2> HIDE DEF o
  <2>4. ServoOk(drive')
    BY <2>2 DEF StepFacts, Settled
  <2>5. /\ Encodable(drive') => /\ guard' \in Axis!Guards /\ guard'.phase = pr.guard.phase
                                /\ guard'.fault = Axis!NoFault /\ ~guard'.restart_required
        /\ ~Encodable(drive') => Latched(guard') /\ guard'.restart_required
    BY <1>3, <2>3, <2>4, JudgeFacts DEF Latched
  <2>6. NextPhase(p) \in {"normal"} \cup Recovering
    BY <1>1 DEF NextPhase, Clear, Axis!NextRecoveryPhase, Recovering
  <2> QED
    BY <1>2, <1>3, <1>6, <2>2, <2>3, <2>5, <2>6 DEF Ran, Clear
<1> QED
  BY <1>2, <1>4, <1>5, <1>6

-----------------------------------------------------------------------------
(* Every request keeps the invariant and moves the axis only on command. *)

SafeStep ==
  /\ AxisOk' /\ HomingEndsInRecovery
  /\ drive'.pos # drive.pos => commanded' \/ HomingFinishes

LEMMA GuardOkSame ==
  ASSUME NEW g, NEW d, GuardOk(g, d), NEW h, SameGuard(g, h), NEW e,
         e.sm = d.sm, e.pos = d.pos
  PROVE  GuardOk(h, e)
BY DEF GuardOk, SameGuard, Encodable

LEMMA GuardOkLatched ==
  ASSUME NEW h, Latched(h), NEW e, ~h.restart_required => Encodable(e)
  PROVE  GuardOk(h, e) /\ h.fault # Axis!NoFault
BY Codes DEF GuardOk, Latched, Recovering

LEMMA GuardOkClear ==
  ASSUME NEW h, Clear(h), NEW e, Encodable(e), h.phase \in Recovering => e.sm # OE
  PROVE  GuardOk(h, e)
BY Codes DEF GuardOk, Clear, Recovering

LEMMA CommandedType == Remember => commanded' \in BOOLEAN
<1> DEFINE c == MotionCommand \/ (commanded /\ guard.fault = Axis!NoFault)
<1>1. c \in BOOLEAN
  OBVIOUS
<1>2. Remember => commanded' = c
  BY DEF Remember
<1> HIDE DEF c
<1> QED
  BY <1>1, <1>2

\* A request that leaves the servo where it is, as it is.
LEMMA StillStep ==
  ASSUME AxisOk, Remember, Settled(drive'), GuardOk(guard', drive'), last_cycle' \in BOOLEAN,
         drive'.pos = drive.pos, drive'.vel = drive.vel, SameMoves(drive, drive'),
         guard'.phase = "normal" => guard.phase = "normal",
         guard'.fault = Axis!NoFault => guard.fault = Axis!NoFault
  PROVE  SafeStep
<1>1. HomingEndsInRecovery
  BY DEF HomingEndsInRecovery
<1>2. commanded' \in BOOLEAN
  BY CommandedType
<1>3. guard'.fault = Axis!NoFault /\ ~commanded' => Quiet(drive')
  <2>1. SUFFICES ASSUME guard'.fault = Axis!NoFault, ~commanded' PROVE Quiet(drive')
    OBVIOUS
  <2>2. guard.fault = Axis!NoFault /\ ~commanded
    BY <2>1 DEF Remember
  <2> QED
    BY <2>2 DEF AxisOk, Quiet, SameMoves
<1>4. AxisOk'
  BY <1>2, <1>3 DEF AxisOk
<1> QED
  BY <1>1, <1>4 DEF SafeStep

LEMMA SameServo ==
  ASSUME AxisOk, drive' = drive
  PROVE  /\ Settled(drive') /\ drive'.pos = drive.pos /\ drive'.vel = drive.vel
         /\ SameMoves(drive, drive') /\ drive'.sm = drive.sm
BY DEF AxisOk, SameMoves

\* Only Enable on a switched on servo enables it.
LEMMA EnabledBy ==
  ASSUME NEW st \in DriveStates, NEW cw \in Word, st # OE, Process(st, cw) = OE
  PROVE  st = SO /\ Mask8F(cw) = Enable
BY DEF Process, DriveStates, SOD, RTSO, SO, OE, FLT

\* The commands of the recovery.
LEMMA PhaseCommands ==
  ASSUME NEW phase \in Recovering, NEW p \in FkrPayloads,
         Axis!NextRecoveryPhase(phase, p) # phase
  PROVE  /\ Mask8F(p.cw) = Enable \/ Axis!NextRecoveryPhase(phase, p) = "normal" =>
              phase = "enable"
         /\ phase = "enable" => /\ Axis!NextRecoveryPhase(phase, p) = "normal"
                                /\ p.mode = PP /\ 4 \notin p.cw
<1>1. /\ Axis!Mask8F(p.cw) = Mask8F(p.cw)
      /\ Axis!Enable = Enable /\ Axis!Shutdown = Shutdown /\ Axis!SwitchOn = SwitchOn
  BY DEF Axis!Mask8F, Mask8F, Axis!Enable, Enable, Axis!Shutdown, Shutdown,
         Axis!SwitchOn, SwitchOn
<1>2. Enable # Shutdown /\ Enable # SwitchOn
  BY DEF Enable, Shutdown, SwitchOn
<1> QED
  BY <1>1, <1>2 DEF Axis!NextRecoveryPhase, Recovering, PP

\* A cycle while a fault is latched.
LEMMA FaultCycleSafe ==
  ASSUME AxisOk, guard.fault # Axis!NoFault, Remember,
         NEW p \in FkrPayloads, NEW late \in BOOLEAN, Axis!Cycle(p, late)
  PROVE  SafeStep
<1>1. /\ last_cycle' \in BOOLEAN /\ guard' \in Axis!Guards
      /\ guard'.restart_required = guard.restart_required
  BY FaultCycle
<1>2. /\ guard.phase \in {"fault", "verify_reset"} /\ GuardOk(guard, drive)
  BY DEF AxisOk, GuardOk
<1>3. CASE /\ ~Axis!Prepare(guard, p).go /\ drive' = drive
           /\ guard'.phase = guard.phase /\ guard'.fault = guard.fault
  <2>1. GuardOk(guard', drive')
    BY <1>1, <1>2, <1>3, SameServo, GuardOkSame DEF SameGuard
  <2> QED
    BY <1>1, <1>2, <1>3, <2>1, SameServo, StillStep
<1>4. CASE /\ p.mode \notin Supported \cup {0} /\ drive' = drive
           /\ guard'.phase = "fault" /\ guard'.fault = guard.fault
  <2>1. GuardOk(guard', drive')
    BY <1>1, <1>2, <1>4 DEF GuardOk, Recovering
  <2> QED
    BY <1>1, <1>2, <1>4, <2>1, SameServo, StillStep
<1>5. CASE /\ Axis!Prepare(guard, p).go /\ ~guard.restart_required
           /\ drive'.sm = SOD /\ drive'.pos = drive.pos
           /\ Settled(drive') /\ ~ResetPending(drive')
           /\ IF guard.phase = "verify_reset"
              THEN guard'.phase = "shutdown" /\ guard'.fault = Axis!NoFault
              ELSE guard'.phase = "verify_reset" /\ guard'.fault = guard.fault
  <2>1. drive'.sm # OE /\ Encodable(drive') /\ Quiet(drive')
    BY <1>2, <1>5 DEF GuardOk, Encodable, Settled, ServoOk, SOD, OE
  <2>2. GuardOk(guard', drive')
    <3>1. CASE guard.phase = "verify_reset"
      BY <1>1, <1>5, <2>1, <3>1, GuardOkClear DEF Clear, Recovering
    <3>2. CASE guard.phase = "fault"
      BY <1>1, <1>2, <1>5, <2>1, <3>2 DEF GuardOk, Recovering
    <3> QED
      BY <1>2, <3>1, <3>2
  <2>3. AxisOk'
    BY <1>1, <1>5, <2>1, <2>2, CommandedType DEF AxisOk
  <2>4. guard'.phase # "normal"
    BY <1>5
  <2> QED
    BY <1>5, <2>3, <2>4 DEF SafeStep, HomingEndsInRecovery
<1> QED
  BY <1>3, <1>4, <1>5, FaultCycle

\* A cycle while no fault is latched.
LEMMA ClearCycleSafe ==
  ASSUME AxisOk, guard.fault = Axis!NoFault, Remember,
         NEW p \in FkrPayloads, NEW late \in BOOLEAN, Axis!Cycle(p, late)
  PROVE  SafeStep
<1>1. last_cycle' \in BOOLEAN
  BY ClearCycle
<1>2. /\ Clear(guard) /\ GuardOk(guard, drive) /\ Encodable(drive) /\ ServoOk(drive)
  BY ClearGuard DEF AxisOk, GuardOk, Clear, Settled
<1>3. CASE /\ guard.phase \in Recovering /\ NextPhase(p) = guard.phase
           /\ drive' = drive /\ SameGuard(guard, guard')
  <2>1. GuardOk(guard', drive')
    BY <1>2, <1>3, SameServo, GuardOkSame
  <2> QED
    BY <1>1, <1>3, <2>1, SameServo, StillStep DEF SameGuard
<1>4. CASE /\ p.mode \notin Supported \cup {0} \/ late
           /\ drive' = drive /\ Latched(guard')
  <2>1. GuardOk(guard', drive') /\ guard'.fault # Axis!NoFault /\ guard'.phase = "fault"
    BY <1>2, <1>4, GuardOkLatched DEF Latched
  <2> QED
    BY <1>1, <1>4, <2>1, SameServo, StillStep
<1>5. CASE /\ sent' # <<>> /\ StepFacts(drive, p, drive')
           /\ guard.phase \in Recovering => NextPhase(p) # guard.phase
           /\ Encodable(drive') => Clear(guard') /\ guard'.phase = NextPhase(p)
           /\ ~Encodable(drive') => Latched(guard') /\ guard'.restart_required
  <2>1. Settled(drive') /\ ServoOk(drive')
    BY <1>5 DEF StepFacts, Settled
  <2>2. CASE guard.phase = "normal"
    <3>1. commanded' \/ (Quiet(drive') /\ (drive'.pos = drive.pos \/ HomingFinishes))
      <4>1. SUFFICES ASSUME ~commanded'
                     PROVE  Quiet(drive') /\ (drive'.pos = drive.pos \/ HomingFinishes)
        OBVIOUS
      <4>2. ~commanded /\ drive'.mode \notin {PV, CSP, JOG} /\ 4 \notin drive'.cw
        BY <1>5, <2>2, <4>1 DEF Remember, MotionCommand
      <4>3. Quiet(drive)
        BY <4>2 DEF AxisOk
      <4> QED
        BY <1>5, <4>2, <4>3 DEF StepFacts, RunEnds, HomingFinishes
    <3>2. HomingEndsInRecovery
      BY <2>2 DEF HomingEndsInRecovery
    <3>3. GuardOk(guard', drive')
      <4>1. CASE Encodable(drive')
        BY <1>5, <2>2, <4>1, GuardOkClear DEF NextPhase, Recovering
      <4>2. CASE ~Encodable(drive')
        BY <1>5, <4>2, GuardOkLatched
      <4> QED
        BY <4>1, <4>2
    <3> QED
      BY <1>1, <2>1, <3>1, <3>2, <3>3, CommandedType DEF SafeStep, AxisOk
  <2>3. CASE guard.phase \in Recovering
    <3> DEFINE next == Axis!NextRecoveryPhase(guard.phase, p)
    <3>1. next # guard.phase /\ NextPhase(p) = next
      BY <1>5, <2>3 DEF NextPhase, Recovering
    <3>2. drive.sm # OE /\ Quiet(drive) /\ drive.sm \in DriveStates /\ drive'.cw \in Word
      BY <1>2, <2>1, <2>3, Fields DEF GuardOk, ServoOk
    <3>3. ResetPending(drive) => drive'.sm # OE
      BY <1>5, <3>2, ProcessStates DEF StepFacts, SOD, OE
    <3>4. drive'.sm = OE => guard.phase = "enable"
      BY <1>5, <2>3, <3>1, <3>2, <3>3, EnabledBy, PhaseCommands DEF StepFacts
    <3>5. guard.phase = "enable" => next = "normal" /\ p.mode = PP /\ 4 \notin p.cw
      BY <2>3, <3>1, PhaseCommands
    <3>6. next = "normal" => guard.phase = "enable"
      BY <2>3, <3>1, PhaseCommands
    <3>7. Quiet(drive') /\ (drive'.pos = drive.pos \/ HomingFinishes)
      <4>1. CASE drive'.sm # OE
        BY <1>5, <2>1, <4>1 DEF StepFacts, ServoOk
      <4>2. CASE drive'.sm = OE
        <5>1. drive'.mode = PP /\ 4 \notin drive'.cw
          BY <1>5, <3>3, <3>4, <3>5, <4>2 DEF StepFacts
        <5>2. PP \notin {PV, CSP, JOG}
          BY DEF PP, PV, CSP, JOG
        <5> QED
          BY <1>5, <3>2, <5>1, <5>2 DEF StepFacts, RunEnds, HomingFinishes
      <4> QED
        BY <4>1, <4>2
    <3>8. HomingEndsInRecovery
      <4>1. SUFFICES ASSUME guard'.phase = "normal", drive'.homing_active, ~ResetPending(drive)
                     PROVE  FALSE
        BY DEF HomingEndsInRecovery
      <4>2. Encodable(drive')
        BY <1>5, <4>1 DEF Latched
      <4>3. guard.phase = "enable"
        BY <1>5, <3>1, <3>6, <4>1, <4>2
      <4>4. drive'.mode = PP
        BY <1>5, <3>5, <4>1, <4>3 DEF StepFacts
      <4> QED
        BY <2>1, <4>1, <4>4 DEF Settled, ServoOk, PP, HM, CSP
    <3>9. GuardOk(guard', drive')
      <4>1. CASE Encodable(drive')
        <5>1. guard'.phase \in Recovering => drive'.sm # OE
          BY <1>5, <3>1, <3>4, <3>5, <4>1 DEF Recovering
        <5> QED
          BY <1>5, <4>1, <5>1, GuardOkClear
      <4>2. CASE ~Encodable(drive')
        BY <1>5, <4>2, GuardOkLatched
      <4> QED
        BY <4>1, <4>2
    <3> QED
      BY <1>1, <2>1, <3>7, <3>8, <3>9, CommandedType DEF SafeStep, AxisOk
  <2> QED
    BY <1>2, <2>2, <2>3 DEF Clear
<1> QED
  BY <1>3, <1>4, <1>5, ClearCycle

LEMMA CycleSafe ==
  ASSUME AxisOk, Remember, NEW p \in FkrPayloads, NEW late \in BOOLEAN, Axis!Cycle(p, late)
  PROVE  SafeStep
BY FaultCycleSafe, ClearCycleSafe

\* A request that changes at most the reply.
LEMMA AnswerSafe ==
  ASSUME AxisOk, Remember, NEW r, Axis!Answer(r)
  PROVE  SafeStep
<1>1. guard' = guard /\ drive' = drive /\ last_cycle' = last_cycle
  BY DEF Axis!Answer
<1>2. GuardOk(guard', drive') /\ last_cycle' \in BOOLEAN
  BY <1>1 DEF AxisOk
<1> QED
  BY <1>1, <1>2, SameServo, StillStep

\* An unexpected failure of an SDO access.
LEMMA FailureSafe ==
  ASSUME AxisOk, Remember, Axis!SdoFailure(drive)
  PROVE  SafeStep
<1>1. drive' = drive /\ last_cycle' \in BOOLEAN
  BY DEF Axis!SdoFailure, AxisOk
<1>2. ASSUME NEW b \in BOOLEAN, b, guard' = Axis!Detect(guard, Axis!ExecFailed, b)
      PROVE  /\ guard' \in Axis!Guards /\ guard'.phase = "fault" /\ guard'.restart_required
             /\ guard'.fault = (IF guard.fault = Axis!NoFault THEN Axis!ExecFailed ELSE guard.fault)
  <2>1. guard \in Axis!Guards /\ Axis!ExecFailed \in Axis!FaultCodes
    BY DEF AxisOk, GuardOk, Axis!FaultCodes
  <2> QED
    BY <1>2, <2>1, DetectFacts
<1>3. /\ guard' \in Axis!Guards /\ guard'.phase = "fault" /\ guard'.restart_required
      /\ guard'.fault = (IF guard.fault = Axis!NoFault THEN Axis!ExecFailed ELSE guard.fault)
  BY <1>2 DEF Axis!SdoFailure
<1>4. GuardOk(guard', drive') /\ guard'.fault # Axis!NoFault
  BY <1>1, <1>3, Codes DEF AxisOk, GuardOk, Recovering
<1> QED
  BY <1>1, <1>3, <1>4, SameServo, StillStep

\* A verdict without a step of the servo: a PDO of the wrong length, or idle.
LEMMA VerdictSafe ==
  ASSUME AxisOk, Remember, NEW st \in {"ok", "rejected"},
         st = "ok" => guard.fault = Axis!NoFault,
         Axis!Finish(guard, [st |-> st, drive |-> drive], FALSE, FALSE, <<>>)
  PROVE  SafeStep
<1> DEFINE o == [st |-> st, drive |-> drive]
<1>1. drive' = drive /\ last_cycle' \in BOOLEAN
  BY DEF Axis!Finish
<1>2. o.st = st /\ o.drive = drive /\ guard' = Axis!Judge(guard, o, FALSE)
  BY DEF Axis!Finish
<1> HIDE DEF o
<1>3. /\ guard \in Axis!Guards /\ ServoOk(o.drive) /\ GuardOk(guard, drive)
  BY <1>2 DEF AxisOk, GuardOk, Settled
<1>4. ASSUME NEW b \in BOOLEAN, ~b, guard' = Axis!Judge(guard, o, b)
      PROVE  /\ guard' \in Axis!Guards
             /\ \/ SameGuard(guard, guard')
                \/ /\ guard'.phase = "fault" /\ guard'.restart_required = guard.restart_required
                   /\ guard'.fault = (IF guard.fault = Axis!NoFault THEN Axis!AdapterFault
                                      ELSE guard.fault)
                \/ Latched(guard') /\ guard'.restart_required
  <2>1. CASE o.st = "rejected"
    <3>1. /\ guard' \in Axis!Guards
          /\ guard'.phase = "fault" /\ guard'.restart_required = guard.restart_required
          /\ guard'.fault = (IF guard.fault = Axis!NoFault THEN Axis!AdapterFault
                             ELSE guard.fault)
      BY <1>3, <1>4, <2>1, JudgeFacts
    <3> QED
      BY <3>1
  <2>2. CASE o.st = "ok" /\ Encodable(o.drive)
    <3>1. /\ guard' \in Axis!Guards /\ guard'.phase = guard.phase
          /\ guard'.restart_required = guard.restart_required /\ guard'.fault = guard.fault
      BY <1>3, <1>4, <2>2, JudgeFacts
    <3> QED
      BY <3>1 DEF SameGuard
  <2>3. CASE o.st = "ok" /\ ~Encodable(o.drive)
    <3>1. /\ guard' \in Axis!Guards /\ guard'.phase = "fault" /\ guard'.restart_required
          /\ guard'.fault = (IF guard.fault = Axis!NoFault THEN Axis!ExecFailed ELSE guard.fault)
      BY <1>3, <1>4, <2>3, JudgeFacts
    <3>2. guard.fault = Axis!NoFault
      BY <1>2, <2>3
    <3> QED
      BY <3>1, <3>2 DEF Latched
  <2> QED
    BY <1>2, <2>1, <2>2, <2>3
<1>5. /\ guard' \in Axis!Guards
      /\ \/ SameGuard(guard, guard')
         \/ /\ guard'.phase = "fault" /\ guard'.restart_required = guard.restart_required
            /\ guard'.fault = (IF guard.fault = Axis!NoFault THEN Axis!AdapterFault
                               ELSE guard.fault)
         \/ Latched(guard') /\ guard'.restart_required
  BY <1>2, <1>4
<1>6. CASE SameGuard(guard, guard')
  <2>1. GuardOk(guard', drive')
    BY <1>1, <1>3, <1>6, GuardOkSame
  <2> QED
    BY <1>1, <1>6, <2>1, SameServo, StillStep DEF SameGuard
<1>7. CASE /\ guard'.phase = "fault" /\ guard'.restart_required = guard.restart_required
           /\ guard'.fault = (IF guard.fault = Axis!NoFault THEN Axis!AdapterFault
                              ELSE guard.fault)
  <2>1. GuardOk(guard', drive') /\ guard'.fault # Axis!NoFault
    BY <1>1, <1>3, <1>5, <1>7, Codes DEF GuardOk, Recovering
  <2> QED
    BY <1>1, <1>7, <2>1, SameServo, StillStep
<1>8. CASE Latched(guard') /\ guard'.restart_required
  <2>1. GuardOk(guard', drive') /\ guard'.fault # Axis!NoFault /\ guard'.phase = "fault"
    BY <1>8, GuardOkLatched DEF Latched
  <2> QED
    BY <1>1, <2>1, SameServo, StillStep
<1> QED
  BY <1>5, <1>6, <1>7, <1>8

LEMMA HoldSafe ==
  ASSUME AxisOk, Remember, Axis!Hold(guard)
  PROVE  SafeStep
<1>1. guard' = guard /\ drive' = drive /\ last_cycle' = FALSE
  BY DEF Axis!Hold
<1>2. GuardOk(guard', drive') /\ last_cycle' \in BOOLEAN
  BY <1>1 DEF AxisOk
<1> QED
  BY <1>1, <1>2, SameServo, StillStep

LEMMA WriteSafe ==
  ASSUME AxisOk, Remember, Axis!SdoWriteRequest
  PROVE  SafeStep
<1>1. PICK o \in FkrWrite(drive) :
        \/ /\ o.st = "ok"
           /\ reply' = Axis!Value /\ sent' = <<>> /\ drive' = o.drive
           /\ UNCHANGED <<guard, last_cycle>>
        \/ o.st = "rejected" /\ Axis!Answer(Axis!Abort)
        \/ o.st = "failed" /\ Axis!SdoFailure(o.drive)
  BY DEF Axis!SdoWriteRequest
<1>2. /\ o.st \in {"ok", "rejected"} /\ Settled(o.drive)
      /\ o.drive.sm = drive.sm /\ o.drive.pos = drive.pos /\ o.drive.vel = drive.vel
      /\ SameMoves(drive, o.drive)
  BY WriteKeeps DEF AxisOk
<1>3. CASE o.st = "rejected"
  BY <1>1, <1>3, AnswerSafe
<1>4. CASE o.st = "ok"
  <2>1. drive' = o.drive /\ guard' = guard /\ last_cycle' = last_cycle
    BY <1>1, <1>4
  <2>2. GuardOk(guard', drive') /\ last_cycle' \in BOOLEAN
    BY <1>2, <2>1 DEF AxisOk, GuardOk, Encodable
  <2> QED
    BY <1>2, <2>1, <2>2, StillStep
<1> QED
  BY <1>2, <1>3, <1>4

\* Whatever the master asks.
LEMMA RequestSafe ==
  ASSUME AxisOk, Remember, Axis!Next
  PROVE  SafeStep
<1>1. CASE \E p \in Axis!Payloads, late \in BOOLEAN : Axis!Cycle(p, late)
  <2>1. Axis!Payloads \subseteq FkrPayloads
    BY MasterAssumption DEF Axis!Payloads, FkrPayloads
  <2> QED
    BY <1>1, <2>1, CycleSafe
<1>2. CASE Axis!CycleBadLength
  <2>1. Axis!Finish(guard, [st |-> "rejected", drive |-> drive], FALSE, FALSE, <<>>)
    BY <1>2 DEF Axis!CycleBadLength
  <2> QED
    BY <2>1, VerdictSafe
<1>3. CASE Axis!Idle
  <2>1. CASE Axis!Hold(guard)
    BY <2>1, HoldSafe
  <2>2. CASE /\ guard.phase = "normal"
             /\ Axis!Finish(guard, Axis!Unchanged(drive), FALSE, FALSE, <<>>)
    <3>1. guard.fault = Axis!NoFault
      BY <2>2 DEF AxisOk, GuardOk
    <3>2. Axis!Finish(guard, [st |-> "ok", drive |-> drive], FALSE, FALSE, <<>>)
      BY <2>2 DEF Axis!Unchanged
    <3> QED
      BY <3>1, <3>2, VerdictSafe
  <2> QED
    BY <1>3, <2>1, <2>2 DEF Axis!Idle
<1>4. CASE Axis!ReadStatusword
  BY <1>4, AnswerSafe DEF Axis!ReadStatusword
<1>5. CASE Axis!SdoAfterRestartRequired
  BY <1>5, AnswerSafe DEF Axis!SdoAfterRestartRequired
<1>6. CASE Axis!SdoReadRequest
  BY <1>6, AnswerSafe, FailureSafe DEF Axis!SdoReadRequest
<1>7. CASE Axis!SdoWriteRequest
  BY <1>7, WriteSafe
<1>8. CASE Axis!SdoSave
  BY <1>8, AnswerSafe DEF Axis!SdoSave
<1> QED
  BY <1>1, <1>2, <1>3, <1>4, <1>5, <1>6, <1>7, <1>8 DEF Axis!Next

\* The command the procedure sends is a payload like any other.
LEMMA ProcedurePayload ==
  ASSUME NEW r \in FkrRest
  PROVE  LET p == [cw |-> Expected, mode |-> PP, rest |-> r]
         IN  /\ p \in FkrPayloads /\ p.cw = Expected /\ p.mode = PP
             /\ p.mode \in Supported \cup {0}
<1>1. Expected \in {FaultReset, Shutdown, SwitchOn, Enable, {}}
  BY DEF Expected
<1>2. {FaultReset, Shutdown, SwitchOn, Enable, {}} \subseteq Word
  BY DEF FaultReset, Shutdown, SwitchOn, Enable, Word, Bits
<1>3. Expected \in Word /\ PP \in Int /\ PP \in Supported
  BY <1>1, <1>2 DEF PP, Supported
<1> QED
  BY <1>3 DEF FkrPayloads

LEMMA RecoverySafe ==
  ASSUME AxisOk, RecoveryCycle
  PROVE  SafeStep
<1>1. PICK r \in FkrRest : Axis!Cycle([cw |-> Expected, mode |-> PP, rest |-> r], FALSE)
  BY DEF RecoveryCycle
<1> DEFINE p == [cw |-> Expected, mode |-> PP, rest |-> r]
<1>2. p \in FkrPayloads /\ Axis!Cycle(p, FALSE) /\ Remember
  BY <1>1, ProcedurePayload DEF RecoveryCycle
<1> HIDE DEF p
<1>3. ASSUME NEW b \in BOOLEAN, Axis!Cycle(p, b)
      PROVE  SafeStep
  BY <1>2, <1>3, CycleSafe
<1> QED
  BY <1>2, <1>3

-----------------------------------------------------------------------------
(* The recovery procedure. *)

ProcedureStep ==
  ProcedureOk' /\ attempt' <= 5 /\ (attempt' = 0 => drive'.sm = OE)

\* A cycle of the procedure while the fault is latched.
LEMMA FaultProcedure ==
  ASSUME AxisOk, ProcedureOk, guard.fault # Axis!NoFault,
         attempt > 0 \/ ~guard.restart_required,
         attempt' = IF guard'.phase = "normal" THEN 0 ELSE attempt + 1,
         NEW p \in FkrPayloads, p.cw = Expected, p.mode \in Supported \cup {0},
         NEW late \in BOOLEAN, Axis!Cycle(p, late)
  PROVE  ProcedureStep
<1> DEFINE go == Axis!Prepare(guard, p).go
<1>1. /\ ~guard.restart_required /\ guard.phase \in {"fault", "verify_reset"}
      /\ guard \in Axis!Guards /\ guard.fault # Axis!DriveFault /\ attempt \in Nat
  BY Codes DEF ProcedureOk, AxisOk, GuardOk
<1>2. /\ guard'.previous_cw = p.cw /\ guard'.restart_required = guard.restart_required
      /\ \/ ~go /\ drive' = drive /\ guard'.phase = guard.phase
         \/ /\ go /\ drive'.sm = SOD /\ ~ResetPending(drive')
            /\ IF guard.phase = "verify_reset"
               THEN guard'.phase = "shutdown" ELSE guard'.phase = "verify_reset"
  BY FaultCycle
<1>3. /\ guard.phase = "verify_reset" /\ 7 \notin p.cw => go
      /\ guard.phase = "fault" /\ 7 \in p.cw /\ 7 \notin guard.previous_cw => go
  BY <1>1, PrepareCases
<1> HIDE DEF go
<1>4. CASE guard.phase = "verify_reset"
  <2>1. p.cw = {}
    BY <1>4 DEF Expected
  <2>2. attempt <= 2
    BY <1>4, <1>1 DEF ProcedureOk
  <2>3. guard'.phase = "shutdown" /\ drive'.sm = SOD /\ ~ResetPending(drive')
    BY <1>2, <1>3, <1>4, <2>1
  <2> QED
    BY <1>1, <1>2, <2>2, <2>3 DEF ProcedureStep, ProcedureOk
<1>5. CASE guard.phase = "fault" /\ 7 \notin guard.previous_cw
  <2>1. 7 \in p.cw
    BY <1>5 DEF Expected, FaultReset
  <2>2. attempt <= 1
    BY <1>5, <1>1 DEF ProcedureOk
  <2>3. guard'.phase = "verify_reset" /\ ~ResetPending(drive')
    BY <1>2, <1>3, <1>5, <2>1
  <2> QED
    BY <1>1, <1>2, <2>2, <2>3 DEF ProcedureStep, ProcedureOk
<1>6. CASE guard.phase = "fault" /\ 7 \in guard.previous_cw
  <2>1. p.cw = {}
    BY <1>6 DEF Expected
  <2>2. attempt = 0
    BY <1>6, <1>1 DEF ProcedureOk
  <2>3. \/ guard'.phase = "verify_reset" /\ ~ResetPending(drive')
        \/ guard'.phase = "fault" /\ 7 \notin guard'.previous_cw
    BY <1>2, <1>6, <2>1
  <2> QED
    BY <1>1, <1>2, <2>2, <2>3 DEF ProcedureStep, ProcedureOk
<1> QED
  BY <1>1, <1>4, <1>5, <1>6

\* The power states the commands of the recovery lead through.
LEMMA CommandedStates ==
  /\ Process(SOD, Shutdown) = RTSO /\ Process(RTSO, SwitchOn) = SO
  /\ Process(SO, Enable) = OE
  /\ Mask8F(Shutdown) = Shutdown /\ Mask8F(SwitchOn) = SwitchOn /\ Mask8F(Enable) = Enable
  /\ 4 \notin Enable
<1>1. /\ Mask8F(Shutdown) = Shutdown /\ Mask8F(SwitchOn) = SwitchOn /\ Mask8F(Enable) = Enable
      /\ Mask87(Shutdown) = Shutdown /\ Mask87(SwitchOn) = SwitchOn /\ Mask87(Enable) = SwitchOn
      /\ 7 \notin Shutdown /\ 7 \notin SwitchOn /\ 7 \notin Enable /\ 4 \notin Enable
      /\ Shutdown # {} /\ SwitchOn # {} /\ SwitchOn # Shutdown /\ Enable # SwitchOn
  BY DEF Mask8F, Mask87, Shutdown, SwitchOn, Enable
<1>2. SOD # RTSO /\ SOD # SO /\ RTSO # SO /\ SO # OE /\ RTSO # OE /\ SOD # OE
  BY DEF SOD, RTSO, SO, OE
<1>3. Process(SOD, Shutdown) = RTSO
  BY <1>1, <1>2 DEF Process
<1>4. Process(RTSO, SwitchOn) = SO
  BY <1>1, <1>2 DEF Process
<1>5. Process(SO, Enable) = OE
  BY <1>1, <1>2 DEF Process
<1> QED
  BY <1>1, <1>3, <1>4, <1>5

\* A cycle of the procedure once the fault is cleared.
LEMMA ClearProcedure ==
  ASSUME AxisOk, ProcedureOk, guard.fault = Axis!NoFault, attempt > 0,
         attempt' = IF guard'.phase = "normal" THEN 0 ELSE attempt + 1,
         NEW p \in FkrPayloads, p.cw = Expected, p.mode = PP, p.mode \in Supported \cup {0},
         NEW late \in BOOLEAN, ~late, Axis!Cycle(p, late)
  PROVE  ProcedureStep
<1>1. /\ ~guard.restart_required /\ attempt \in Nat /\ ~ResetPending(drive)
      /\ \/ guard.phase = "shutdown" /\ attempt <= 3 /\ drive.sm = SOD
         \/ guard.phase = "switch_on" /\ attempt <= 4 /\ drive.sm = RTSO
         \/ guard.phase = "enable" /\ attempt <= 5 /\ drive.sm = SO
  <2>1. guard.phase \notin {"fault", "verify_reset"}
    BY DEF AxisOk, GuardOk
  <2> QED
    BY <2>1 DEF ProcedureOk
<1>2. /\ guard.phase \in Recovering /\ Encodable(drive) /\ Quiet(drive)
      /\ NextPhase(p) = Axis!NextRecoveryPhase(guard.phase, p)
  <2>1. drive.sm # OE
    BY <1>1 DEF SOD, RTSO, SO, OE
  <2>2. guard.phase \in Recovering /\ guard.phase # "normal"
    BY <1>1 DEF Recovering
  <2> QED
    BY <1>1, <2>1, <2>2 DEF AxisOk, GuardOk, Settled, ServoOk, NextPhase
<1>3. /\ Axis!Mask8F(p.cw) = Mask8F(p.cw)
      /\ Axis!Enable = Enable /\ Axis!Shutdown = Shutdown /\ Axis!SwitchOn = SwitchOn
  BY DEF Axis!Mask8F, Mask8F, Axis!Enable, Enable, Axis!Shutdown, Shutdown,
         Axis!SwitchOn, SwitchOn
<1>4. /\ guard.phase = "shutdown" => p.cw = Shutdown /\ NextPhase(p) = "switch_on"
      /\ guard.phase = "switch_on" => p.cw = SwitchOn /\ NextPhase(p) = "enable"
      /\ guard.phase = "enable" => p.cw = Enable /\ NextPhase(p) = "normal"
  <2>1. CASE guard.phase = "shutdown"
    <3>1. p.cw = Shutdown
      BY <2>1 DEF Expected
    <3> QED
      BY <1>2, <1>3, <2>1, <3>1, CommandedStates DEF Axis!NextRecoveryPhase
  <2>2. CASE guard.phase = "switch_on"
    <3>1. p.cw = SwitchOn
      BY <2>2 DEF Expected
    <3> QED
      BY <1>2, <1>3, <2>2, <3>1, CommandedStates DEF Axis!NextRecoveryPhase
  <2>3. CASE guard.phase = "enable"
    <3>1. p.cw = Enable
      BY <2>3 DEF Expected
    <3> QED
      BY <1>2, <1>3, <2>3, <3>1, CommandedStates DEF Axis!NextRecoveryPhase, PP
  <2> QED
    BY <1>1, <2>1, <2>2, <2>3
<1>5. /\ StepFacts(drive, p, drive')
      /\ Encodable(drive') => Clear(guard') /\ guard'.phase = NextPhase(p)
  <2>1. NextPhase(p) # guard.phase
    BY <1>1, <1>4
  <2> QED
    BY <2>1, ClearCycle
<1>6. /\ drive'.cw = p.cw /\ drive'.mode = PP /\ drive'.sm = Process(drive.sm, p.cw)
      /\ ~ResetPending(drive') /\ (drive'.sm # OE => drive'.pos = drive.pos)
  BY <1>1, <1>5 DEF StepFacts
<1>7. /\ guard.phase = "shutdown" => drive'.sm = RTSO
      /\ guard.phase = "switch_on" => drive'.sm = SO
      /\ guard.phase = "enable" => drive'.sm = OE
  BY <1>1, <1>4, <1>6, CommandedStates
<1>8. Encodable(drive')
  <2>1. CASE drive'.sm # OE
    BY <1>2, <1>6, <2>1 DEF Encodable
  <2>2. CASE drive'.sm = OE
    <3>1. guard.phase = "enable"
      BY <1>1, <1>7, <2>2 DEF OE, RTSO, SO
    <3>2. 4 \notin drive'.cw /\ drive'.mode \notin {PV, CSP, JOG}
      BY <1>4, <1>6, <3>1, CommandedStates DEF PP, PV, CSP, JOG
    <3>3. drive'.pos = drive.pos \/ drive'.pos = 0
      BY <1>2, <1>5, <3>2 DEF StepFacts, RunEnds
    <3>4. Abs(0) <= PositionMax
      BY AdapterAssumption DEF Abs
    <3> QED
      BY <1>2, <3>3, <3>4 DEF Encodable
  <2> QED
    BY <2>1, <2>2
<1>9. guard'.phase = NextPhase(p) /\ ~guard'.restart_required
  BY <1>5, <1>8 DEF Clear
<1>10. CASE guard.phase = "shutdown"
  <2>1. guard'.phase = "switch_on" /\ drive'.sm = RTSO /\ attempt <= 3
    BY <1>1, <1>4, <1>7, <1>9, <1>10
  <2> QED
    BY <1>1, <1>6, <1>9, <2>1 DEF ProcedureStep, ProcedureOk
<1>11. CASE guard.phase = "switch_on"
  <2>1. guard'.phase = "enable" /\ drive'.sm = SO /\ attempt <= 4
    BY <1>1, <1>4, <1>7, <1>9, <1>11
  <2> QED
    BY <1>1, <1>6, <1>9, <2>1 DEF ProcedureStep, ProcedureOk
<1>12. CASE guard.phase = "enable"
  <2>1. guard'.phase = "normal" /\ drive'.sm = OE
    BY <1>4, <1>7, <1>9, <1>12
  <2> QED
    BY <2>1 DEF ProcedureStep, ProcedureOk
<1> QED
  BY <1>1, <1>10, <1>11, <1>12

LEMMA RecoveryStep ==
  ASSUME AxisOk, ProcedureOk, RecoveryCycle
  PROVE  ProcedureStep
<1>1. PICK r \in FkrRest : Axis!Cycle([cw |-> Expected, mode |-> PP, rest |-> r], FALSE)
  BY DEF RecoveryCycle
<1> DEFINE p == [cw |-> Expected, mode |-> PP, rest |-> r]
<1>2. /\ p \in FkrPayloads /\ p.cw = Expected /\ p.mode = PP /\ p.mode \in Supported \cup {0}
      /\ Axis!Cycle(p, FALSE)
  BY <1>1, ProcedurePayload
<1>3. /\ attempt' = IF guard'.phase = "normal" THEN 0 ELSE attempt + 1
      /\ attempt > 0 \/ (guard.fault # Axis!NoFault /\ ~guard.restart_required)
  BY DEF RecoveryCycle
<1> HIDE DEF p
<1>4. ASSUME NEW b \in BOOLEAN, ~b, Axis!Cycle(p, b)
      PROVE  ProcedureStep
  <2>1. CASE guard.fault # Axis!NoFault
    BY <1>2, <1>3, <1>4, <2>1, FaultProcedure
  <2>2. CASE guard.fault = Axis!NoFault
    BY <1>2, <1>3, <1>4, <2>2, ClearProcedure
  <2> QED
    BY <2>1, <2>2
<1> QED
  BY <1>2, <1>4

-----------------------------------------------------------------------------
(* The theorems about the axis. *)

LEMMA InitAxis == Init => AxisOk /\ ProcedureOk
<1> SUFFICES ASSUME Init PROVE AxisOk /\ ProcedureOk
  OBVIOUS
<1>1. /\ drive \in FkrInit /\ guard = Axis!NewGuard(drive.sw)
      /\ last_cycle = FALSE /\ commanded = FALSE /\ attempt = 0
  BY DEF Init, Axis!Init, FkrInputs
<1>2. Settled(drive) /\ Quiet(drive) /\ drive.pos = 0 /\ drive.sw = {6}
  BY <1>1, NewServoOk
<1>3. Encodable(drive)
  BY <1>2, AdapterAssumption DEF Encodable, Abs
<1>4. {} \in Axis!Word /\ {6} \in Axis!Word
  BY DEF Axis!Word, Axis!Bits
<1>5. Axis!NewGuard(drive.sw) \in Axis!Guards
  BY <1>2, <1>4, Zenon DEF Axis!NewGuard, Axis!Guards, Axis!Phases
<1>6. guard.phase = "normal" /\ guard.fault = Axis!NoFault /\ ~guard.restart_required
  BY <1>1 DEF Axis!NewGuard
<1>7. Clear(guard)
  BY <1>1, <1>5, <1>6 DEF Clear
<1>8. GuardOk(guard, drive)
  BY <1>3, <1>6, <1>7, GuardOkClear DEF Recovering
<1>9. AxisOk
  BY <1>1, <1>2, <1>8 DEF AxisOk
<1>10. ProcedureOk
  BY <1>1 DEF ProcedureOk
<1> QED
  BY <1>9, <1>10

\* What one step of the specification does.
LEMMA AxisStep ==
  ASSUME AxisOk, ProcedureOk, Next
  PROVE  SafeStep /\ ProcedureOk' /\ attempt' <= 5 /\ (attempt > 0 /\ attempt' = 0 => drive'.sm = OE)
<1>1. CASE Request
  <2>1. SafeStep
    BY <1>1, RequestSafe DEF Request
  <2>2. attempt = 0 /\ attempt' = 0
    BY <1>1 DEF Request
  <2> QED
    BY <2>1, <2>2 DEF ProcedureOk
<1>2. CASE RecoveryCycle
  BY <1>2, RecoverySafe, RecoveryStep DEF ProcedureStep
<1> QED
  BY <1>1, <1>2 DEF Next

LEMMA AxisUnchanged ==
  ASSUME AxisOk, ProcedureOk, UNCHANGED vars
  PROVE  AxisOk' /\ ProcedureOk'
<1>1. guard' = guard /\ drive' = drive /\ last_cycle' = last_cycle /\ commanded' = commanded
      /\ attempt' = attempt
  BY DEF vars, axis
<1> QED
  BY <1>1 DEF AxisOk, ProcedureOk

\* The inductive invariant holds in every reachable state: guard and servo agree
\* on who has stopped, and a procedure under way finds both waiting for the
\* same command.
THEOREM AxisAlwaysOk == Spec => [](AxisOk /\ ProcedureOk)
<1>1. Init => AxisOk /\ ProcedureOk
  BY InitAxis
<1>2. AxisOk /\ ProcedureOk /\ [Next]_vars => (AxisOk /\ ProcedureOk)'
  BY AxisStep, AxisUnchanged DEF SafeStep
<1> QED
  BY <1>1, <1>2, PTL DEF Spec

\* A recovering servo is disabled, hence at rest.
LEMMA RecoveringIsStopped == AxisOk => RecoveringServoIsStopped /\ OverflowLatched
BY DEF AxisOk, GuardOk, Settled, ServoOk, Quiet, Recovering, RecoveringServoIsStopped,
       OverflowLatched

\* For every configuration, homing time, period and master: after a fault the
\* axis never resumes an old motion by itself (AxisFault.prepare, its recovery
\* phases, and the servo's set_mode and enable handling together).
THEOREM MotionOnlyOnCommand == Spec => NoUnattendedMotion
<1>1. AxisOk /\ ProcedureOk /\ [Next]_vars =>
        [/\ (RecoveringServoIsStopped /\ OverflowLatched)'
         /\ HomingEndsInRecovery
         /\ drive'.pos # drive.pos => commanded' \/ HomingFinishes]_vars
  <2>1. AxisOk /\ ProcedureOk /\ Next =>
          /\ (RecoveringServoIsStopped /\ OverflowLatched)'
          /\ HomingEndsInRecovery
          /\ drive'.pos # drive.pos => commanded' \/ HomingFinishes
    <3> SUFFICES ASSUME AxisOk, ProcedureOk, Next
                 PROVE  /\ (RecoveringServoIsStopped /\ OverflowLatched)'
                        /\ HomingEndsInRecovery
                        /\ drive'.pos # drive.pos => commanded' \/ HomingFinishes
      OBVIOUS
    <3>1. SafeStep
      BY AxisStep
    <3>2. AxisOk' => (RecoveringServoIsStopped /\ OverflowLatched)'
      BY RecoveringIsStopped, PTL
    <3> QED
      BY <3>1, <3>2 DEF SafeStep
  <2> QED
    BY <2>1
<1> QED
  BY <1>1, AxisAlwaysOk, PTL DEF Spec, NoUnattendedMotion

\* For every configuration: the recovery procedure, begun at any fault a reset
\* may clear, has the axis enabled and in normal operation within six cycles
\* (prepare and accept of AxisFault in step with CiA402StateMachine.process).
THEOREM RecoveryAlwaysCompletes == Spec => RecoveryCompletes
<1>1. AxisOk /\ ProcedureOk /\ [Next]_vars =>
        [attempt' <= 5 /\ (attempt > 0 /\ attempt' = 0 => drive'.sm = OE)]_vars
  BY AxisStep
<1> QED
  BY <1>1, AxisAlwaysOk, PTL DEF Spec, RecoveryCompletes
-----------------------------------------------------------------------------
(* A homing run ends. *)

LEMMA LeastNatural ==
  ASSUME NEW T, T \subseteq Nat, T # {}
  PROVE  \E n \in T : \A m \in T : n <= m
<1> DEFINE R == OpToRel(<, Nat)
<1>1. IsWellFoundedOn(R, Nat)
  BY NatLessThanWellFounded
<1>2. \A x, y \in Nat : x < y => <<x, y>> \in R
  BY DEF OpToRel
<1> HIDE DEF R
<1>3. PICK n \in T : \A m \in T : ~(<<m, n>> \in R)
  BY <1>1, WFMin
<1>4. ASSUME NEW m \in T PROVE n <= m
  <2>1. m \in Nat /\ n \in Nat /\ ~(m < n)
    BY <1>2, <1>3
  <2> QED
    BY <2>1
<1> QED
  BY <1>4

\* Induction, for a set of numbers.
LEMMA Induction ==
  ASSUME NEW T, 0 \in T, \A n \in Nat : n \in T => n + 1 \in T
  PROVE  Nat \subseteq T
<1>1. SUFFICES ASSUME Nat \ T # {} PROVE FALSE
  OBVIOUS
<1>2. PICK n \in Nat \ T : \A m \in Nat \ T : n <= m
  BY <1>1, LeastNatural
<1>3. n # 0 /\ n - 1 \in Nat /\ n - 1 \in T
  BY <1>2
<1> QED
  BY <1>2, <1>3

\* The cycles of a servo that receives the same RxPDO over and over.
Repeated(s, p, bound, f) ==
  f = [n \in 0 .. bound |-> IF n = 0 THEN s ELSE Again(f[n - 1], p)]

LEMMA RepeatedExists ==
  ASSUME NEW s, NEW p, NEW bound \in Nat
  PROVE  \E f : Repeated(s, p, bound, f)
<1> DEFINE T == {m \in Nat : \E f : Repeated(s, p, m, f)}
<1>1. 0 \in T
  <2>1. Repeated(s, p, 0, [n \in 0 .. 0 |-> s])
    BY DEF Repeated
  <2> QED
    BY <2>1
<1>2. ASSUME NEW m \in Nat, m \in T PROVE m + 1 \in T
  <2>1. PICK f : Repeated(s, p, m, f)
    BY <1>2
  <2> DEFINE g == [n \in 0 .. m + 1 |-> IF n = m + 1 THEN Again(f[m], p) ELSE f[n]]
  <2>2. Repeated(s, p, m + 1, g)
    BY <2>1 DEF Repeated
  <2> QED
    BY <2>2
<1> HIDE DEF T
<1>3. Nat \subseteq T
  BY <1>1, <1>2, Induction
<1> QED
  BY <1>3 DEF T

-----------------------------------------------------------------------------
Longest == Most(1, HomingTime)

\* An unfinished run has no more cycles to go than a new one.
Counted(s) == s.homing_active => s.homing_counter <= Longest

\* What only process_homing and the end of a cycle change.
Kept(s, t) == /\ DOMAIN t = DOMAIN s
              /\ t.homing_counter = s.homing_counter
              /\ t.previous_bit4 = s.previous_bit4

Named(s) == "homing_counter" \in DOMAIN s /\ "previous_bit4" \in DOMAIN s

LEMMA ServoNamed == ASSUME NEW s \in Servos PROVE Named(s)
BY DEF Servos, Named

LEMMA KeptChain ==
  ASSUME NEW s, NEW t, NEW u, Kept(s, t), Kept(t, u)
  PROVE  Kept(s, u)
BY DEF Kept

LEMMA TravelKeeps ==
  ASSUME NEW s, Named(s), NEW v
  PROVE  Kept(s, Travel(s, v))
BY Zenon DEF Named, Kept, Travel

LEMMA StopKeeps ==
  ASSUME NEW s, Named(s)
  PROVE  Kept(s, StopAtCurrentPosition(s))
BY Zenon DEF Named, Kept, StopAtCurrentPosition

LEMMA SetModeKeeps ==
  ASSUME NEW s, Named(s), NEW mode
  PROVE  Kept(s, SetMode(s, mode))
<1> DEFINE u == StopAtCurrentPosition(s)
           h == u.homing_active /\ mode = HM
<1>1. Kept(s, u) /\ Named(u)
  BY StopKeeps DEF Kept, Named
<1>2. SetMode(s, mode) = [u EXCEPT !.mode = mode, !.last_mode = mode, !.homing_active = h]
  BY DEF SetMode
<1> HIDE DEF u, h
<1>3. Kept(u, [u EXCEPT !.mode = mode, !.last_mode = mode, !.homing_active = h])
  BY <1>1, Zenon DEF Named, Kept
<1> QED
  BY <1>1, <1>2, <1>3, KeptChain

LEMMA SetTargetKeeps ==
  ASSUME NEW s, Named(s), NEW x
  PROVE  Kept(s, SetTargetPosition(s, x))
<1> DEFINE u == StopAtCurrentPosition(s)
           ignored == [s EXCEPT !.target = s.last_target]
           refused == [u EXCEPT !.limit_warning = TRUE, !.target_rejected = TRUE,
                                !.target_reached = FALSE]
           w == s.limit_warning /\ ~WithinLimits(s.cfg, s.pos)
           taken == [s EXCEPT !.target_rejected = FALSE, !.limit_warning = w,
                              !.target_reached = FALSE, !.window_counter = 0,
                              !.target = x, !.last_target = x]
<1>1. Kept(s, u) /\ Named(u)
  BY StopKeeps DEF Kept, Named
<1>2. SetTargetPosition(s, x) \in {ignored, refused, taken}
  BY DEF SetTargetPosition
<1> HIDE DEF u, w
<1>3. Kept(s, ignored)
  BY Zenon DEF Named, Kept
<1>4. Kept(u, refused)
  BY <1>1, Zenon DEF Named, Kept
<1>5. Kept(s, taken)
  BY Zenon DEF Named, Kept
<1> QED
  BY <1>1, <1>2, <1>3, <1>4, <1>5, KeptChain

LEMMA OdKeeps ==
  ASSUME NEW s, Named(s)
  PROVE  Kept(s, ApplyOdCommands(s))
<1> DEFINE d == IF ResetPending(s) THEN DeviceReset(s) ELSE s
           r == [d EXCEPT !.last_reset_command = s.reset_command]
           m == IF r.mode # r.last_mode THEN SetMode(r, r.mode) ELSE r
           t == IF r.target # m.last_target THEN SetTargetPosition(m, r.target) ELSE m
<1>1. ApplyOdCommands(s) = t
  BY DEF ApplyOdCommands
<1>2. Kept(s, d)
  <2>1. Kept(s, DeviceReset(s))
    BY Zenon DEF Named, Kept, DeviceReset
  <2>2. Kept(s, s)
    BY DEF Kept
  <2> QED
    BY <2>1, <2>2
<1>3. Named(d)
  BY <1>2 DEF Kept, Named
<1> HIDE DEF d
<1>4. Kept(d, r)
  BY <1>3, Zenon DEF Named, Kept
<1>5. Named(r)
  BY <1>3, <1>4 DEF Kept, Named
<1> HIDE DEF r
<1>6. Kept(r, m)
  BY <1>5, SetModeKeeps DEF Kept
<1>7. Named(m)
  BY <1>5, <1>6 DEF Kept, Named
<1> HIDE DEF m
<1>8. Kept(m, t)
  BY <1>7, SetTargetKeeps DEF Kept
<1> HIDE DEF t
<1> QED
  BY <1>1, <1>2, <1>4, <1>6, <1>8, KeptChain

LEMMA PowerKeeps ==
  ASSUME NEW s, Named(s)
  PROVE  Kept(s, PowerStep(s))
<1> DEFINE next == Process(s.sm, s.cw)
           u == IF s.sm = OE /\ next # OE THEN StopAtCurrentPosition(s) ELSE s
<1>1. PowerStep(s) = [u EXCEPT !.sm = next]
  BY DEF PowerStep
<1>2. Kept(s, u)
  BY StopKeeps DEF Kept
<1>3. Named(u)
  BY <1>2 DEF Kept, Named
<1> HIDE DEF u, next
<1>4. Kept(u, [u EXCEPT !.sm = next])
  BY <1>3, Zenon DEF Named, Kept
<1> QED
  BY <1>1, <1>2, <1>4, KeptChain

LEMMA DecelerateKeeps ==
  ASSUME NEW s, Named(s)
  PROVE  Kept(s, DecelerateToStop(s))
BY TravelKeeps DEF DecelerateToStop

LEMMA ReachedKeeps ==
  ASSUME NEW s, Named(s)
  PROVE  Kept(s, UpdateTargetReached(s))
<1> DEFINE in == Abs(s.target - s.pos) <= s.cfg.window
           count == IF in THEN Least(s.window_counter + 1, WindowCap) ELSE 0
           reached == count >= Most(1, s.cfg.window_time \div s.cycle_time)
                        \/ (in /\ s.target_reached)
<1>1. UpdateTargetReached(s) = [s EXCEPT !.window_counter = count, !.target_reached = reached]
  BY Zenon DEF UpdateTargetReached
<1> HIDE DEF count, reached
<1>2. Kept(s, [s EXCEPT !.window_counter = count, !.target_reached = reached])
  BY Zenon DEF Named, Kept
<1> QED
  BY <1>1, <1>2

LEMMA FlagKeeps ==
  ASSUME NEW s, Named(s), NEW b
  PROVE  /\ Kept(s, [s EXCEPT !.target_reached = b])
         /\ Kept(s, [s EXCEPT !.pp_ack = b])
         /\ Kept(s, [s EXCEPT !.pp_active = FALSE, !.pp_ack = FALSE])
BY Zenon DEF Named, Kept

LEMMA PpMoveKeeps ==
  ASSUME NEW s, Named(s)
  PROVE  Kept(s, PpMove(s))
<1>1. \E v : PpMove(s) \in {Arrive(s), Travel(s, v)}
  BY DEF PpMove
<1>2. Kept(s, Arrive(s))
  BY Zenon DEF Named, Kept, Arrive
<1> QED
  BY <1>1, <1>2, TravelKeeps

LEMMA PpKeeps ==
  ASSUME NEW s, Named(s)
  PROVE  Kept(s, ProcessPp(s))
<1> DEFINE d == DecelerateToStop(s)
           stopped == [d EXCEPT !.pp_active = FALSE, !.pp_ack = FALSE]
           begun == [s EXCEPT !.pp_target = s.target, !.pp_active = TRUE,
                              !.target_reached = FALSE, !.window_counter = 0]
           started == IF StartEdge(s) THEN begun ELSE s
           b == 4 \in s.cw
           acked == [started EXCEPT !.pp_ack = b]
           moved == IF acked.pp_active THEN PpMove(acked) ELSE DecelerateToStop(acked)
<1>1. \/ \E e : ProcessPp(s) = [stopped EXCEPT !.target_reached = e]
      \/ ProcessPp(s) = stopped
      \/ ProcessPp(s) = UpdateTargetReached(moved)
  BY DEF ProcessPp
<1>2. Kept(s, d)
  BY DecelerateKeeps
<1>3. Named(d)
  BY <1>2 DEF Kept, Named
<1> HIDE DEF d
<1>4. Kept(d, stopped)
  BY <1>3, FlagKeeps
<1>5. Named(stopped)
  BY <1>3, <1>4 DEF Kept, Named
<1> HIDE DEF stopped
<1>6. Kept(s, begun)
  BY Zenon DEF Named, Kept
<1>7. Kept(s, started)
  BY <1>6 DEF Kept
<1>8. Named(started)
  BY <1>7 DEF Kept, Named
<1> HIDE DEF started, b
<1>9. Kept(started, acked)
  BY <1>8, FlagKeeps
<1>10. Named(acked)
  BY <1>8, <1>9 DEF Kept, Named
<1> HIDE DEF acked
<1>11. Kept(acked, moved)
  BY <1>10, PpMoveKeeps, DecelerateKeeps
<1>12. Named(moved)
  BY <1>10, <1>11 DEF Kept, Named
<1> HIDE DEF moved
<1>13. Kept(moved, UpdateTargetReached(moved))
  BY <1>12, ReachedKeeps
<1>14. CASE ProcessPp(s) = UpdateTargetReached(moved)
  BY <1>7, <1>9, <1>11, <1>13, <1>14, KeptChain
<1>15. CASE ProcessPp(s) = stopped
  BY <1>2, <1>4, <1>15, KeptChain
<1>16. ASSUME NEW e, ProcessPp(s) = [stopped EXCEPT !.target_reached = e]
       PROVE  Kept(s, ProcessPp(s))
  <2>1. Kept(stopped, [stopped EXCEPT !.target_reached = e])
    BY <1>5, FlagKeeps
  <2> QED
    BY <1>2, <1>4, <1>16, <2>1, KeptChain
<1> QED
  BY <1>1, <1>14, <1>15, <1>16

\* PV and jogging set the velocity; CSP also slows down.
LEMMA VelocityKeeps ==
  ASSUME NEW s, Named(s)
  PROVE  Kept(s, ProcessPv(s)) /\ Kept(s, ProcessJog(s)) /\ Kept(s, ProcessCsp(s))
<1>1. ASSUME NEW v, NEW e
      PROVE  /\ Kept(s, Travel(s, v)) /\ Kept(s, [Travel(s, v) EXCEPT !.target_reached = e])
             /\ Kept(s, UpdateTargetReached(Travel(s, v)))
  <2> DEFINE u == Travel(s, v)
  <2>1. Kept(s, u)
    BY TravelKeeps
  <2>2. Named(u)
    BY <2>1 DEF Kept, Named
  <2> HIDE DEF u
  <2>3. Kept(u, [u EXCEPT !.target_reached = e]) /\ Kept(u, UpdateTargetReached(u))
    BY <2>2, FlagKeeps, ReachedKeeps
  <2>4. Kept(s, [u EXCEPT !.target_reached = e]) /\ Kept(s, UpdateTargetReached(u))
    BY <2>1, <2>3, KeptChain
  <2> QED
    BY <2>1, <2>4 DEF u
<1>2. Kept(s, ProcessPv(s))
  <2>1. PICK v, e : ProcessPv(s) = [Travel(s, v) EXCEPT !.target_reached = e]
    BY DEF ProcessPv
  <2> QED
    BY <1>1, <2>1
<1>3. Kept(s, ProcessJog(s))
  <2>1. PICK v, e : ProcessJog(s) = [Travel(s, v) EXCEPT !.target_reached = e]
    BY DEF ProcessJog
  <2> QED
    BY <1>1, <2>1
<1>4. Kept(s, ProcessCsp(s))
  <2>1. PICK v, e : \/ ProcessCsp(s) = [Travel(s, v) EXCEPT !.target_reached = e]
                    \/ ProcessCsp(s) = UpdateTargetReached(Travel(s, v))
    BY DEF ProcessCsp, DecelerateToStop
  <2> QED
    BY <1>1, <2>1
<1> QED
  BY <1>2, <1>3, <1>4

\* The cycles a run has still to go, that of a new run k.
Left(s, t, k) == IF 4 \in t.cw /\ ~s.previous_bit4 THEN k ELSE s.homing_counter

\* A cycle enabled in homing mode: a run that is under way or begins counts down,
\* or ends.
Counts(s, t, k) ==
  LET on == (4 \in t.cw /\ ~s.previous_bit4) \/ s.homing_active
  IN  /\ ~on => t.homing_active = s.homing_active /\ t.pos = s.pos
                /\ t.referenced = s.referenced
      /\ on /\ Left(s, t, k) > 1 =>
           t.homing_active /\ t.homing_counter = Left(s, t, k) - 1
      /\ on /\ Left(s, t, k) <= 1 => ~t.homing_active /\ t.referenced /\ t.pos = 0

LEMMA HomingCounts ==
  ASSUME NEW s \in Servos
  PROVE  \E k \in Int : k <= Longest /\ Counts(s, ProcessHoming(s), k)
<1> DEFINE k == Most(1, HomingTime \div s.cycle_time)
           begin == [s EXCEPT !.homing_active = TRUE, !.homing_counter = k,
                              !.referenced = FALSE, !.vel = 0, !.target_reached = FALSE]
           begun == IF StartEdge(s) THEN begin ELSE s
           left == begun.homing_counter - 1
           on == [begun EXCEPT !.homing_counter = left]
           end == [begun EXCEPT !.homing_counter = left, !.pos = 0, !.vel = 0,
                                !.target = 0, !.target_reached = TRUE,
                                !.homing_active = FALSE, !.referenced = TRUE]
           t == ProcessHoming(s)
<1>1. t = CASE ~begun.homing_active -> begun
            [] begun.homing_active /\ left > 0 -> on
            [] OTHER -> end
  BY DEF ProcessHoming
<1>2. k \in Int /\ k <= Longest
  <2>1. s.cycle_time \in Nat \ {0} /\ HomingTime \in Nat
    BY Fields, ServoAssumption
  <2>2. HomingTime \div s.cycle_time \in Int /\ HomingTime \div s.cycle_time <= HomingTime
    BY <2>1
  <2> QED
    BY <2>1, <2>2 DEF Most, Longest
<1> HIDE DEF k
<1>3. begin.homing_active /\ begin.homing_counter = k
  BY Zenon DEF Servos
<1>4. /\ DOMAIN begin = DOMAIN s
      /\ "homing_counter" \in DOMAIN s /\ "homing_active" \in DOMAIN s
      /\ "referenced" \in DOMAIN s /\ "pos" \in DOMAIN s
  BY DEF Servos
<1>5. s.homing_counter \in Int /\ t.cw = s.cw
  BY Fields, HomingStep DEF SameControl
<1> HIDE DEF begin
<1>6. DOMAIN begun = DOMAIN s
  BY <1>4
<1>7. /\ begun.homing_active = (StartEdge(s) \/ s.homing_active)
      /\ begun.homing_counter = IF StartEdge(s) THEN k ELSE s.homing_counter
      /\ ~StartEdge(s) => begun = s
  <2>1. s.homing_active \in BOOLEAN
    BY DEF Servos
  <2> QED
    BY <1>3, <2>1
<1>8. StartEdge(s) <=> 4 \in t.cw /\ ~s.previous_bit4
  BY <1>5 DEF StartEdge
<1> HIDE DEF begun
<1>9. left \in Int /\ left = Left(s, t, k) - 1
  BY <1>2, <1>5, <1>7, <1>8 DEF Left
<1> HIDE DEF left
<1>10. on.homing_active = begun.homing_active /\ on.homing_counter = left
  BY <1>4, <1>6, Zenon
<1>11. ~end.homing_active /\ end.referenced /\ end.pos = 0
  BY <1>4, <1>6, Zenon
<1> HIDE DEF on, end, t
<1>12. CASE ~begun.homing_active
  <2>1. t = s /\ ~StartEdge(s) /\ ~s.homing_active
    BY <1>1, <1>7, <1>12
  <2> QED
    BY <1>2, <1>8, <2>1 DEF Counts, t
<1>13. CASE begun.homing_active
  <2>1. /\ left > 0 => t.homing_active /\ t.homing_counter = left
        /\ ~(left > 0) => ~t.homing_active /\ t.referenced /\ t.pos = 0
    BY <1>1, <1>10, <1>11, <1>13
  <2>2. Left(s, t, k) \in Int /\ (left > 0 <=> Left(s, t, k) > 1)
    BY <1>2, <1>5, <1>9 DEF Left
  <2>3. Counts(s, t, k)
    BY <1>7, <1>8, <1>9, <1>13, <2>1, <2>2 DEF Counts
  <2> QED
    BY <1>2, <2>3 DEF t
<1> QED
  BY <1>12, <1>13

\* One cycle: outside homing the counter stands still.
CycleCounts(s, t) ==
  /\ t.previous_bit4 = (4 \in t.cw)
  /\ t.sm # OE \/ t.mode # HM =>
       t.homing_counter = s.homing_counter /\ (t.homing_active => s.homing_active)
  /\ t.sm = OE /\ t.mode = HM => \E k \in Int : k <= Longest /\ Counts(s, t, k)

LEMMA UpdateCounts ==
  ASSUME NEW s \in Servos
  PROVE  CycleCounts(s, ModelUpdate(s))
<1> DEFINE a == ApplyOdCommands(s)
           w == PowerStep(a)
           m == MotionStep(w)
           b == 4 \in a.cw
           t == [m EXCEPT !.sw = ServoStatusword(m), !.previous_bit4 = b]
<1>1. ModelUpdate(s) = t
  BY DEF ModelUpdate, ProcessCycle
<1>2. OdApplied(s, a) /\ Kept(s, a)
  BY OdStep, ServoNamed, OdKeeps
<1> HIDE DEF a
<1>3. /\ w \in Servos /\ w.pos = a.pos /\ w.cw = a.cw /\ w.mode = a.mode
      /\ w.homing_active = a.homing_active /\ w.referenced = a.referenced
  BY <1>2, PowerStepKeeps DEF OdApplied
<1>4. Kept(a, w)
  BY <1>2, ServoNamed, PowerKeeps DEF OdApplied
<1> HIDE DEF w
<1>5. MotionApplied(w, m)
  BY <1>3, MotionStepKeeps
<1>6. /\ w.sm # OE \/ w.mode # HM => Kept(w, m)
      /\ w.sm = OE /\ w.mode = HM => m = ProcessHoming(w)
  <2>1. m \in {w, ProcessPp(w), ProcessPv(w), ProcessCsp(w), ProcessJog(w)}
          \/ (w.sm = OE /\ w.mode = HM)
    BY DEF MotionStep
  <2>2. w.sm = OE /\ w.mode = HM => m = ProcessHoming(w)
    BY DEF MotionStep, PP, PV, CSP, HM, JOG
  <2>3. Kept(w, w)
    BY DEF Kept
  <2> QED
    BY <1>3, <2>1, <2>2, <2>3, ServoNamed, PpKeeps, VelocityKeeps
<1> HIDE DEF m
<1>7. m \in Servos /\ SameControl(w, m)
  BY <1>5 DEF MotionApplied
<1> HIDE DEF b
<1>8. /\ t.previous_bit4 = b /\ t.homing_counter = m.homing_counter
      /\ t.homing_active = m.homing_active /\ t.referenced = m.referenced /\ t.pos = m.pos
      /\ t.cw = m.cw /\ t.sm = m.sm /\ t.mode = m.mode
  BY <1>7, Zenon DEF Servos
<1> HIDE DEF t
<1>9. /\ t.cw = w.cw /\ t.sm = w.sm /\ t.mode = w.mode /\ b = (4 \in t.cw)
  BY <1>3, <1>7, <1>8 DEF SameControl, b
<1>10. /\ w.homing_counter = s.homing_counter /\ w.previous_bit4 = s.previous_bit4
       /\ w.pos = s.pos /\ w.referenced = s.referenced
       /\ w.homing_active => s.homing_active
  BY <1>2, <1>3, <1>4 DEF Kept, OdApplied
<1>11. CASE w.sm # OE \/ w.mode # HM
  <2>1. m.homing_counter = w.homing_counter
    BY <1>6, <1>11 DEF Kept
  <2>2. m.homing_active = w.homing_active
    BY <1>5, <1>11 DEF MotionApplied, SameReference
  <2> QED
    BY <1>1, <1>8, <1>9, <1>10, <1>11, <2>1, <2>2 DEF CycleCounts
<1>12. CASE w.sm = OE /\ w.mode = HM
  <2>1. w.homing_active = s.homing_active
    <3>1. ~ResetPending(s) /\ s.mode = HM
      BY <1>2, <1>3, <1>12 DEF OdApplied, HM, CSP
    <3>2. s.homing_active \in BOOLEAN
      BY DEF Servos
    <3>3. a.homing_active = s.homing_active
      BY <1>2, <3>1, <3>2 DEF OdApplied
    <3> QED
      BY <1>3, <3>3
  <2>2. PICK k \in Int : k <= Longest /\ Counts(w, m, k)
    BY <1>3, <1>6, <1>12, HomingCounts
  <2>3. Left(s, t, k) = Left(w, m, k)
    BY <1>8, <1>10 DEF Left
  <2>4. Counts(s, t, k)
    BY <1>8, <1>10, <2>1, <2>2, <2>3 DEF Counts
  <2> QED
    BY <1>1, <1>8, <1>9, <1>12, <2>2, <2>4 DEF CycleCounts
<1> QED
  BY <1>11, <1>12

LEMMA StepCounts ==
  ASSUME NEW s \in Servos, NEW p \in FkrPayloads, NEW dt \in Periods
  PROVE  CycleCounts(s, Stepped(s, p, dt))
<1> DEFINE r == [ApplyRxPdo(s, p) EXCEPT !.cycle_time = dt]
<1>1. /\ p.cw \in Word /\ p.mode \in Int /\ p.rest.target \in Int
      /\ p.rest.velocity \in Int /\ p.rest.profile \in Nat
  BY AdapterAssumption DEF FkrPayloads, FkrRest
<1>2. r \in Servos
  BY <1>1, Zenon DEF ApplyRxPdo, Servos
<1>3. /\ r.pos = s.pos /\ r.homing_active = s.homing_active /\ r.referenced = s.referenced
      /\ r.homing_counter = s.homing_counter /\ r.previous_bit4 = s.previous_bit4
  BY Zenon DEF ApplyRxPdo, Servos
<1>4. Stepped(s, p, dt) = ModelUpdate(r)
  BY DEF Stepped
<1> HIDE DEF r
<1> DEFINE t == ModelUpdate(r)
<1>5. CycleCounts(r, t)
  BY <1>2, UpdateCounts
<1> HIDE DEF t
<1>6. ASSUME NEW k, Counts(r, t, k) PROVE Counts(s, t, k)
  <2>1. Left(s, t, k) = Left(r, t, k)
    BY <1>3 DEF Left
  <2> QED
    BY <1>3, <1>6, <2>1 DEF Counts
<1>7. CycleCounts(s, t)
  BY <1>3, <1>5, <1>6 DEF CycleCounts
<1> QED
  BY <1>4, <1>7 DEF t

LEMMA CountedStep ==
  ASSUME NEW s \in Servos, Counted(s), NEW t, CycleCounts(s, t)
  PROVE  Counted(t)
<1>1. Longest \in Nat /\ s.homing_counter \in Int
  BY ServoAssumption, Fields DEF Longest, Most
<1>2. CASE t.sm # OE \/ t.mode # HM
  BY <1>2 DEF CycleCounts, Counted
<1>3. CASE t.sm = OE /\ t.mode = HM
  <2>1. PICK k \in Int : k <= Longest /\ Counts(s, t, k)
    BY <1>3 DEF CycleCounts
  <2>2. Left(s, t, k) \in Int
    BY <1>1, <2>1 DEF Left
  <2>3. SUFFICES ASSUME t.homing_active PROVE t.homing_counter <= Longest
    BY DEF Counted
  <2>4. /\ (4 \in t.cw /\ ~s.previous_bit4) \/ s.homing_active
        /\ t.homing_counter = Left(s, t, k) - 1
    <3> DEFINE on == (4 \in t.cw /\ ~s.previous_bit4) \/ s.homing_active
               l == Left(s, t, k)
    <3>1. ~on => t.homing_active = s.homing_active
      BY <2>1 DEF Counts
    <3>2. on
      BY <2>3, <3>1, Zenon
    <3>3. /\ l > 1 => t.homing_counter = l - 1
          /\ l <= 1 => ~t.homing_active
      BY <2>1, <3>2 DEF Counts
    <3>4. l > 1 \/ l <= 1
      BY <2>2
    <3> QED
      BY <2>3, <3>2, <3>3, <3>4
  <2>5. Left(s, t, k) <= Longest
    BY <1>1, <2>1, <2>4 DEF Left, Counted
  <2> QED
    BY <1>1, <2>2, <2>4, <2>5
<1> QED
  BY <1>2, <1>3

-----------------------------------------------------------------------------
\* The servo while the master keeps it enabled in homing mode, n cycles after
\* an unfinished run was found: it has counted down n times, or the run is over.
CountedDown(t, p, n) ==
  /\ Settled(t) /\ ~ResetPending(t) /\ t.sm = OE /\ t.mode = HM
  /\ t.previous_bit4 = (4 \in p.cw)
  /\ \/ t.homing_active /\ 1 <= t.homing_counter /\ t.homing_counter <= Longest - n
     \/ ~t.homing_active /\ t.referenced /\ t.pos = 0

LEMMA EnableStays ==
  ASSUME NEW cw, Enable \subseteq cw
  PROVE  Process(OE, cw) = OE
<1>1. CASE 7 \in cw
  BY <1>1 DEF Process, OE, FLT
<1>2. CASE 7 \notin cw
  <2>1. /\ Mask87(cw) # {} /\ Mask87(cw) # Shutdown /\ Mask8F(cw) # SwitchOn
    BY DEF Enable, Mask87, Mask8F, Shutdown, SwitchOn
  <2> QED
    BY <1>2, <2>1 DEF Process, OE, SOD, RTSO, SO
<1> QED
  BY <1>1, <1>2

LEMMA AgainIsStep ==
  ASSUME NEW s \in Servos, NEW p
  PROVE  s.cycle_time \in Periods /\ Again(s, p) = Stepped(s, p, s.cycle_time)
<1> DEFINE r == ApplyRxPdo(s, p)
<1>1. s.cycle_time \in Periods
  BY DEF Servos
<1>2. r.cycle_time = s.cycle_time /\ DOMAIN r = DOMAIN s /\ "cycle_time" \in DOMAIN s
  BY Zenon DEF ApplyRxPdo, Servos
<1>3. r = [r EXCEPT !.cycle_time = r.cycle_time]
  BY DEF ApplyRxPdo, Servos
<1> HIDE DEF r
<1>4. [r EXCEPT !.cycle_time = s.cycle_time] = r
  BY <1>2, <1>3
<1> QED
  BY <1>1, <1>4 DEF Again, Stepped, r

\* What one more cycle does to an enabled servo in homing mode.
LEMMA HomingAgain ==
  ASSUME NEW s, Settled(s), ~ResetPending(s), s.sm = OE,
         NEW p \in FkrPayloads, Enable \subseteq p.cw, p.mode = HM
  PROVE  LET t == Again(s, p)
         IN  /\ Settled(t) /\ ~ResetPending(t) /\ t.sm = OE /\ t.mode = HM /\ t.cw = p.cw
             /\ t.previous_bit4 = (4 \in p.cw)
             /\ \E k \in Int : k <= Longest /\ Counts(s, t, k)
<1>1. s \in Servos /\ ServoOk(s)
  BY DEF Settled, ServoOk
<1> DEFINE t == Again(s, p)
<1>2. StepFacts(s, p, t) /\ CycleCounts(s, t)
  BY <1>1, AgainIsStep, StepKeeps, StepCounts
<1> HIDE DEF t
<1>3. /\ Settled(t) /\ ~ResetPending(t) /\ t.cw = p.cw /\ t.mode = HM
      /\ t.sm = Process(OE, p.cw)
  BY <1>2 DEF StepFacts
<1>4. t.sm = OE
  BY <1>3, EnableStays
<1> QED
  BY <1>2, <1>3, <1>4 DEF CycleCounts, t

LEMMA FirstCycle ==
  ASSUME NEW s, Settled(s), Counted(s), ~ResetPending(s), s.sm = OE, s.homing_active,
         NEW p \in FkrPayloads, Enable \subseteq p.cw, p.mode = HM
  PROVE  CountedDown(Again(s, p), p, 1)
<1> DEFINE t == Again(s, p)
<1>1. /\ Settled(t) /\ ~ResetPending(t) /\ t.sm = OE /\ t.mode = HM /\ t.cw = p.cw
      /\ t.previous_bit4 = (4 \in p.cw)
      /\ \E k \in Int : k <= Longest /\ Counts(s, t, k)
  BY HomingAgain
<1> HIDE DEF t
<1>2. PICK k \in Int : k <= Longest /\ Counts(s, t, k)
  BY <1>1
<1> DEFINE l == Left(s, t, k)
<1>3. s.homing_counter \in Int /\ Longest \in Nat /\ s.homing_counter <= Longest
  BY ServoAssumption, Fields DEF Settled, ServoOk, Counted, Longest, Most
<1>4. l \in Int /\ l <= Longest
  BY <1>2, <1>3 DEF Left
<1>5. /\ l > 1 => t.homing_active /\ t.homing_counter = l - 1
      /\ l <= 1 => ~t.homing_active /\ t.referenced /\ t.pos = 0
  BY <1>2 DEF Counts
<1> HIDE DEF l
<1>6. CASE l > 1
  <2>1. 1 <= t.homing_counter /\ t.homing_counter <= Longest - 1 /\ t.homing_active
    BY <1>3, <1>4, <1>5, <1>6
  <2> QED
    BY <1>1, <2>1 DEF CountedDown, t
<1>7. CASE l <= 1
  BY <1>1, <1>5, <1>7 DEF CountedDown, t
<1> QED
  BY <1>4, <1>6, <1>7

LEMMA LaterCycle ==
  ASSUME NEW s, NEW p \in FkrPayloads, Enable \subseteq p.cw, p.mode = HM,
         NEW n \in Nat, CountedDown(s, p, n)
  PROVE  CountedDown(Again(s, p), p, n + 1)
<1> DEFINE t == Again(s, p)
<1>1. /\ Settled(t) /\ ~ResetPending(t) /\ t.sm = OE /\ t.mode = HM /\ t.cw = p.cw
      /\ t.previous_bit4 = (4 \in p.cw)
      /\ \E k \in Int : k <= Longest /\ Counts(s, t, k)
  BY HomingAgain DEF CountedDown
<1> HIDE DEF t
<1>2. PICK k \in Int : k <= Longest /\ Counts(s, t, k)
  BY <1>1
<1>3. ~(4 \in t.cw /\ ~s.previous_bit4)
  BY <1>1 DEF CountedDown
<1>4. Left(s, t, k) = s.homing_counter
  BY <1>3 DEF Left
<1>5. s.homing_counter \in Int /\ Longest \in Nat
  BY ServoAssumption, Fields DEF CountedDown, Settled, ServoOk, Longest, Most
<1>6. CASE s.homing_active
  <2>1. 1 <= s.homing_counter /\ s.homing_counter <= Longest - n
    BY <1>6 DEF CountedDown
  <2>2. /\ s.homing_counter > 1 => t.homing_active /\ t.homing_counter = s.homing_counter - 1
        /\ s.homing_counter <= 1 => ~t.homing_active /\ t.referenced /\ t.pos = 0
    BY <1>2, <1>4, <1>6 DEF Counts
  <2>3. CASE s.homing_counter > 1
    <3>1. /\ t.homing_active /\ 1 <= t.homing_counter
          /\ t.homing_counter <= Longest - (n + 1)
      BY <1>5, <2>1, <2>2, <2>3
    <3> QED
      BY <1>1, <3>1 DEF CountedDown, t
  <2>4. CASE s.homing_counter <= 1
    BY <1>1, <2>2, <2>4 DEF CountedDown, t
  <2> QED
    BY <1>5, <2>3, <2>4
<1>7. CASE ~s.homing_active
  <2>1. s.referenced /\ s.pos = 0
    BY <1>7 DEF CountedDown
  <2>2. /\ t.homing_active = s.homing_active /\ t.pos = s.pos
        /\ t.referenced = s.referenced
    BY <1>2, <1>3, <1>7 DEF Counts
  <2>3. ~t.homing_active /\ t.referenced /\ t.pos = 0
    BY <1>7, <2>1, <2>2
  <2> QED
    BY <1>1, <2>3 DEF CountedDown, t
<1> QED
  BY <1>6, <1>7

LEMMA RepeatedCountsDown ==
  ASSUME NEW s, Settled(s), Counted(s), ~ResetPending(s), s.sm = OE, s.homing_active,
         NEW p \in FkrPayloads, Enable \subseteq p.cw, p.mode = HM,
         NEW bound \in Nat, NEW f, Repeated(s, p, bound, f)
  PROVE  \A n \in 1 .. bound : CountedDown(f[n], p, n)
<1> DEFINE T == {m \in Nat : m + 1 \in 1 .. bound => CountedDown(f[m + 1], p, m + 1)}
<1>1. /\ f[0] = s
      /\ \A n \in 1 .. bound : f[n] = Again(f[n - 1], p)
  BY DEF Repeated
<1>2. 0 \in T
  <2>1. 1 \in 1 .. bound => f[1] = Again(s, p)
    BY <1>1
  <2>2. CountedDown(Again(s, p), p, 1)
    BY FirstCycle
  <2> QED
    BY <2>1, <2>2
<1>3. ASSUME NEW m \in Nat, m \in T PROVE m + 1 \in T
  <2>1. SUFFICES ASSUME m + 2 \in 1 .. bound
                 PROVE  CountedDown(f[m + 2], p, m + 2)
    OBVIOUS
  <2>2. m + 1 \in 1 .. bound /\ f[m + 2] = Again(f[m + 1], p)
    BY <1>1, <2>1
  <2>3. CountedDown(f[m + 1], p, m + 1)
    BY <1>3, <2>2
  <2>4. CountedDown(Again(f[m + 1], p), p, (m + 1) + 1)
    BY <2>3, LaterCycle
  <2> QED
    BY <2>2, <2>4
<1> HIDE DEF T
<1>4. Nat \subseteq T
  BY <1>2, <1>3, Induction
<1>5. ASSUME NEW n \in 1 .. bound PROVE CountedDown(f[n], p, n)
  <2>1. n - 1 \in Nat /\ (n - 1) + 1 = n
    OBVIOUS
  <2>2. n - 1 \in T
    BY <1>4, <2>1
  <2> QED
    BY <2>1, <2>2 DEF T
<1> QED
  BY <1>5

HomingIInv == ServoIInv /\ Counted(servo)

LEMMA CountedCompletes == HomingIInv => HomingCompletes
<1> SUFFICES ASSUME HomingIInv, Homing(servo), ~ResetPending(servo),
                    NEW p \in Payloads, Enable \subseteq p.cw, p.mode = HM
             PROVE  LET held[n \in 0 .. HomingBound] ==
                          IF n = 0 THEN servo ELSE Again(held[n - 1], p)
                    IN  /\ ~held[HomingBound].homing_active
                        /\ held[HomingBound].referenced /\ held[HomingBound].pos = 0
  BY DEF HomingCompletes
<1> DEFINE held[n \in 0 .. HomingBound] == IF n = 0 THEN servo ELSE Again(held[n - 1], p)
<1>1. HomingBound \in Nat /\ HomingTime \in Nat /\ HomingBound = HomingTime + 2
  BY ServoAssumption DEF HomingBound
<1>2. Repeated(servo, p, HomingBound, held)
  <2>1. \E f : f = [n \in 0 .. HomingBound |-> IF n = 0 THEN servo ELSE Again(f[n - 1], p)]
    <3>1. \E f : Repeated(servo, p, HomingBound, f)
      BY <1>1, RepeatedExists
    <3> QED
      BY <3>1, Zenon DEF Repeated
  <2>2. held = [n \in 0 .. HomingBound |-> IF n = 0 THEN servo ELSE Again(held[n - 1], p)]
    BY <2>1, Zenon
  <2> QED
    BY <2>2, Zenon DEF Repeated
<1> HIDE DEF held
<1>3. p \in FkrPayloads
  BY BenchAssumption DEF HomingIInv, ServoIInv, Payloads, FkrPayloads, Word, Bits
<1>4. CountedDown(held[HomingBound], p, HomingBound)
  BY <1>1, <1>2, <1>3, RepeatedCountsDown DEF HomingIInv, ServoIInv, Homing
<1>5. Longest - HomingBound < 1
  BY <1>1 DEF Longest, Most
<1>6. Settled(held[HomingBound])
  BY <1>4 DEF CountedDown
<1>7. held[HomingBound].homing_counter \in Int
  BY <1>6, Fields DEF Settled, ServoOk
<1>8. /\ ~held[HomingBound].homing_active /\ held[HomingBound].referenced
      /\ held[HomingBound].pos = 0
  <2>1. Longest \in Nat
    BY ServoAssumption DEF Longest, Most
  <2> QED
    BY <1>1, <1>4, <1>5, <1>7, <2>1 DEF CountedDown
<1> QED
  BY <1>8 DEF held

LEMMA WriteKeepsCount ==
  ASSUME HomingIInv, Write
  PROVE  Counted(servo')
<1>1. servo \in Servos
  BY DEF HomingIInv, ServoIInv, Settled, ServoOk
<1>2. \/ servo' = servo
      \/ \E c \in Configs : servo' = [servo EXCEPT !.cfg = c]
      \/ \E b \in BOOLEAN : servo' = [servo EXCEPT !.reset_command = b]
  BY DEF Write, FkrWrite
<1>3. servo'.homing_active = servo.homing_active /\ servo'.homing_counter = servo.homing_counter
  BY <1>1, <1>2 DEF Servos
<1> QED
  BY <1>3 DEF HomingIInv, Counted

LEMMA CycleKeepsCount ==
  ASSUME HomingIInv, Cycle
  PROVE  Counted(servo')
<1>1. PICK p \in Payloads, dt \in Bench[bench].periods :
        servo' = FkrCycle(servo, p, dt).drive
  BY DEF Cycle
<1>2. p \in FkrPayloads /\ dt \in Periods
  BY BenchAssumption DEF HomingIInv, ServoIInv, Payloads, FkrPayloads, Word, Bits
<1>3. servo' = servo \/ servo' = Stepped(servo, p, dt)
  BY <1>1 DEF FkrCycle, Stepped
<1>4. servo \in Servos /\ Counted(servo)
  BY DEF HomingIInv, ServoIInv, Settled, ServoOk
<1>5. Counted(Stepped(servo, p, dt))
  BY <1>2, <1>4, StepCounts, CountedStep
<1> QED
  BY <1>3, <1>4, <1>5

\* A homing run always ends: whatever interrupted it, once the master keeps the
\* drive enabled in homing mode, the axis is referenced at position 0 after
\* HomingTime + 2 cycles, for every homing time, cycle time and configuration
\* (process_homing with _apply_od_commands and the power state machine).
THEOREM HomingAlwaysCompletes == ServoSpec => []HomingCompletes
<1>1. ServoInit => HomingIInv
  BY NewServoOk DEF ServoInit, HomingIInv, ServoIInv, Counted
<1>2. HomingIInv /\ [ServoNext]_servoVars => HomingIInv'
  <2>1. HomingIInv /\ UNCHANGED servoVars => HomingIInv'
    BY DEF HomingIInv, ServoIInv, Counted, servoVars
  <2>2. HomingIInv /\ ServoNext => Counted(servo')
    BY CycleKeepsCount, WriteKeepsCount DEF ServoNext
  <2>3. HomingIInv /\ ServoNext => ServoIInv'
    BY CycleKeepsServo, WriteKeepsServo DEF ServoNext, HomingIInv
  <2> QED
    BY <2>1, <2>2, <2>3 DEF HomingIInv, Counted
<1> QED
  BY <1>1, <1>2, CountedCompletes, PTL DEF ServoSpec
=============================================================================
