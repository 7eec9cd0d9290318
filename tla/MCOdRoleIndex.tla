--------------------------- MODULE MCOdRoleIndex ---------------------------
(***************************************************************************)
(* Profiles as the device description makes them: the objects with a       *)
(* required role, the configured ones among them, and the PDO objects are  *)
(* disjoint, and no two objects of a profile have the same role.           *)
(***************************************************************************)
EXTENDS OdRoleIndex

CONSTANTS k1, k2, target, mode

ProfileOf(kind, role) ==
  [catalog |-> {k \in Keys : kind[k] # "absent"},
   role |-> [k \in Keys |-> IF kind[k] \in {"role", "configured"} THEN role[k] ELSE None],
   config |-> [k \in Keys |-> IF kind[k] = "configured" THEN 1 ELSE None],
   pdo |-> [k \in Keys |-> IF kind[k] = "pdo" THEN [role |-> role[k], default |-> 1] ELSE None]]

Kind(a, b) == [k \in Keys |-> IF k = k1 THEN a ELSE b]

MCProfiles ==
  {ProfileOf(kind, Kind(target, mode)) :
     kind \in {Kind("pdo", "configured"), Kind("role", "absent"), Kind("plain", "pdo")}}
=============================================================================
