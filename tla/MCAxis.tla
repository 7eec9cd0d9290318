------------------------------- MODULE MCAxis -------------------------------
(***************************************************************************)
(* The axis runtime in front of the Copley adapter, or of an adapter that  *)
(* may do anything its contract allows: answer any statusword, reject,     *)
(* fail, or produce an output of the wrong size, in any order.             *)
(***************************************************************************)
EXTENDS CopleyAxis

MCControlwords == {{}, FaultReset, Shutdown, SwitchOn, Enable,
                   Enable \cup {4}, Enable \cup {7}, Enable \cup {4, 7}}
MCModes == {1, 6}
MCRest  == {"pp", "unsupported"}

\* Disabled, enabled with the PP acknowledge, fault, warning; and an output
\* that cannot be read or has the wrong size.
AnyInit == [st : {"ok"}, sw : {Statusword(SOD), Statusword(OE) \cup {12},
                               Statusword(FLT), Statusword(SOD) \cup {7}}]
AnyDrives == AnyInit \cup [st : {"failed", "invalid"}, sw : {Statusword(SOD)}]

MCDrives     == CopleyDrives \cup AnyDrives
MCInitDrives == CopleyInit \cup AnyInit

MCExec(d, p, first) == IF IsCopley(d) THEN CopleyExec(d, p, first)
                       ELSE [st : Endings, drive : AnyDrives]
MCInputs(d)   == IF IsCopley(d) THEN CopleyInputs(d) ELSE d
MCSdoRead(d)  == IF IsCopley(d) THEN CopleyRead(d) ELSE Endings
MCSdoWrite(d) == IF IsCopley(d) THEN CopleyWrite(d)
                 ELSE [st : Endings, drive : {d}]
=============================================================================
