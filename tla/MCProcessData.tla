--------------------------- MODULE MCProcessData ----------------------------
(* Two slaves; the master writes the mapping of one, a count and one entry. *)
EXTENDS ProcessData, TLC

MCExpected == <<1, 0>> :> 1 @@ <<1, 1>> :> 2
=============================================================================
