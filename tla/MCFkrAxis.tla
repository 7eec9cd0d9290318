----------------------------- MODULE MCFkrAxis ------------------------------
(* An F-KR axis with a short stroke; mode 7 is not supported by the servo. *)
EXTENDS FkrAxis

MCControlwords == {{}, FaultReset, Shutdown, SwitchOn, Enable,
                   Enable \cup {4}, Enable \cup {4, 7}}
MCDefault ==
  [max_velocity |-> 2, neg_velocity |-> 0, accel |-> 1, decel |-> 1,
   window |-> 0, window_time |-> 1, limit_a |-> 0, limit_b |-> 2]
MCConfigs == {MCDefault}

\* sent and reply only record what the last request did: no action and none of
\* the properties of FkrAxis reads their unprimed values.
MCView == <<guard, drive, last_cycle, commanded, attempt>>
=============================================================================
