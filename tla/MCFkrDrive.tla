----------------------------- MODULE MCFkrDrive -----------------------------
(* The F-KR servo on four benches: PP, PV, homing and CSP with fixed software  *)
(* limits and two accelerations; jogging over two cycle times; interrupted     *)
(* homing over two cycle times; and software limits that SDO writes narrow.    *)
EXTENDS FkrDrive

MoveWords == {{}, FaultReset, Shutdown, SwitchOn, Enable,
              Enable \cup {4}, Enable \cup {4, 8}}
HomeWords == MoveWords \ {FaultReset, Enable \cup {4, 8}}
JogWords  == {{}, Shutdown, SwitchOn, Enable, Enable \cup {5},
              Enable \cup {4, 5}, Enable \cup {4, 11}, Enable \cup {5, 12},
              Enable \cup {4, 8}}

Cfg(a, d, v, lo, hi) ==
  [max_velocity |-> 4, neg_velocity |-> v, accel |-> a, decel |-> d,
   window |-> 0, window_time |-> 2, limit_a |-> hi, limit_b |-> lo]
MCDefault == Cfg(1, 1, 4, -2, 2)
Steep     == Cfg(2, 1, 4, -2, 2)
Slow      == Cfg(2, 1, 1, -2, 2)
Narrow    == Cfg(1, 1, 4, -1, 1)
MCConfigs == {MCDefault, Steep, Slow, Narrow}

MCTargets == {-2, -1, 0, 1, 2, 4}

RxPdos(words, modes, targets, profile) ==
  [cw : words, mode : modes,
   rest : [target : targets, velocity : {2}, profile : {profile}]]

Moves == RxPdos(MoveWords, {PP, PV, HM, CSP}, {-2, 2, 4}, 2)

MCBench ==
  [move   |-> [payloads |-> Moves, configs |-> {MCDefault, Slow}, periods |-> {1}],
   jog    |-> [payloads |-> RxPdos(JogWords, {JOG, 0}, {0}, 4),
               configs |-> {MCDefault, Steep}, periods |-> {1, 2}],
   homing |-> [payloads |-> RxPdos(HomeWords, {PP, HM, CSP}, {-1, 1}, 2),
               configs |-> {MCDefault}, periods |-> {1, 3}]]

LimitBench ==
  [limits |-> [payloads |-> Moves, configs |-> {MCDefault, Narrow}, periods |-> {1}]]
=============================================================================
