---------------------------- MODULE MCSupervisor ----------------------------
(* Instance of Supervisor for TLC: two containers that mount the same state  *)
(* directory.                                                                *)
EXTENDS Supervisor

CONSTANTS c1, c2, d1

MCOneProject == [c \in {c1, c2} |-> d1]
=============================================================================
