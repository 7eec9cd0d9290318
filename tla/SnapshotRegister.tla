-------------------------- MODULE SnapshotRegister --------------------------
(***************************************************************************)
(* What the parameter store promises: one register per parameter set,      *)
(* written by one save at a time. A save takes effect at once or not at    *)
(* all. When it reports success its snapshot is in the register for good;  *)
(* when it fails, or its program is killed, it may or may not have taken   *)
(* effect. A power loss brings each register back to its last successful   *)
(* save or to an attempt made after it, never to anything else.            *)
(***************************************************************************)
CONSTANTS
  Names,     \* parameter sets
  Contents   \* what a register may hold: a snapshot, or none

VARIABLES
  reg,     \* reg[a]: what a reader finds
  may,     \* may[a]: what a power loss may leave
  saving   \* the save in progress, as a set of at most one [set, data]

vars == <<reg, may, saving>>

Saves == [set : Names, data : Contents]

Init == /\ reg \in [Names -> Contents]
        /\ may = [a \in Names |-> {reg[a]}]
        /\ saving = {}

Begin(s) == /\ saving = {}
            /\ saving' = {s}
            /\ may' = [may EXCEPT ![s.set] = @ \cup {s.data}]
            /\ UNCHANGED reg

TakeEffect(s) == /\ saving = {s}
                 /\ reg' = [reg EXCEPT ![s.set] = s.data]
                 /\ UNCHANGED <<may, saving>>

Succeed(s) == /\ saving = {s}
              /\ reg[s.set] = s.data
              /\ may' = [may EXCEPT ![s.set] = {s.data}]
              /\ saving' = {}
              /\ UNCHANGED reg

GiveUp == saving # {} /\ saving' = {} /\ UNCHANGED <<reg, may>>

PowerLoss == /\ reg' \in [Names -> Contents]
             /\ \A a \in Names : reg'[a] \in may[a]
             /\ saving' = {}
             /\ UNCHANGED may

Next == \/ \E s \in Saves : Begin(s) \/ TakeEffect(s) \/ Succeed(s)
        \/ GiveUp
        \/ PowerLoss

Spec == Init /\ [][Next]_vars
=============================================================================
