---------------------------- MODULE MCFmiFleet -----------------------------
(***************************************************************************)
(* Every environment with up to MaxBus bus entries and up to MaxList       *)
(* entries per list: missing, repeated, surplus and malformed entries, and *)
(* indices with gaps; and three axes, two with an FMU around one without,  *)
(* listed in every order. The host then lives with the devices. The code   *)
(* treats PARAMETER_SETS like IDS and MODES like MODELS, so one list of    *)
(* each sort is enough.                                                    *)
(***************************************************************************)
EXTENDS FmiFleet

CONSTANTS MaxBus, MaxList, BadName

MCValid == [IDS |-> {"a", "b", "c"}, MODELS |-> {"f_kr_cmmt", CopleyName}]

SeqUpTo(S, n) == UNION {[1..k -> S] : k \in 0..n}

Entries(values) == [index : Indices, value : values] \cup {Malformed}

\* Orders in which three axes may be listed.
Orders == {f \in [1..3 -> 0..2] : \A a, b \in 1..3 : a # b => f[a] # f[b]}

Model3 == <<CopleyName, "f_kr_cmmt", CopleyName>>

MCInputs ==
  [bus : SeqUpTo(Indices \cup {Malformed}, MaxBus),
   lists : {[IDS |-> ids, MODELS |-> kinds] :
              ids \in SeqUpTo(Entries({"a", "b", "c", BadName}), MaxList),
              kinds \in SeqUpTo(Entries({"f_kr_cmmt", CopleyName}), MaxList)},
   fmuDir : BOOLEAN, rest : {TRUE}]
  \cup
  [bus : Orders,
   lists : {[IDS |-> [n \in 1..3 |-> [index |-> o[n], value |-> <<"c", "a", "b">>[p[n] + 1]]],
             MODELS |-> [n \in 1..3 |-> [index |-> q[n], value |-> Model3[q[n] + 1]]]] :
              o \in Orders, p \in Orders, q \in Orders},
   fmuDir : {TRUE}, rest : {TRUE}]
  \cup
  [bus : {<<0>>}, lists : {[IDS |-> <<[index |-> 0, value |-> "a"]>>,
                            MODELS |-> <<[index |-> 0, value |-> "f_kr_cmmt"]>>]},
   fmuDir : BOOLEAN, rest : BOOLEAN]
=============================================================================
