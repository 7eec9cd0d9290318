---------------------------- MODULE OdRoleIndex ----------------------------
(***************************************************************************)
(* The role index the F-KR adapter installs over an object dictionary      *)
(* (behaviour_model/f_kr_cmmt/od_role_index.py): definition_by_role        *)
(* answers from a map built lazily, define and overlay forget the map in   *)
(* their finally clause, and writes of values leave it alone. The          *)
(* operations it does not replace are those of OdModel.                    *)
(***************************************************************************)
EXTENDS OdModel

VARIABLE index  \* role -> definitions found when the map was built, or None

indexVars == <<vars, index>>

Rebuilt == [r \in Roles |-> Matches(r)]

\* The map definition_by_role answers from: built now if there is none.
Current == IF index = None THEN Rebuilt ELSE index

IndexTypeOK ==
  /\ TypeOK
  /\ index \in [Roles -> SUBSET Definitions] \cup {None}

\* install_role_index builds the map before the first cycle.
IndexInit == Init /\ index = Rebuilt

InvalidatingDefine(k, ch) == Define(k, ch) /\ index' = None

\* Mutant of InvalidatingOverlay: it forgets the map only when it defines.
OverlayKeepsIndex(k, ch) ==
  Overlay(k, ch) /\ index' = IF k \in Defined(od) THEN index ELSE None

InvalidatingOverlay(k, ch) == Overlay(k, ch) /\ index' = None

\* define or overlay raised: the entries are as they were, the map is forgotten.
FailedUpdate == index' = None /\ UNCHANGED vars

\* Mutant of IndexedLookup: the first of several matches is returned.
IndexedLookupFirst(r) ==
  /\ index' = Current
  /\ answer' = IF Current[r] = {} THEN KeyError ELSE CHOOSE d \in Current[r] : TRUE
  /\ UNCHANGED <<od, profile, built, redefined>>

IndexedLookup(r) == index' = Current /\ LookupAmong(Current[r])

IndexedWriteRole(r, v) == index' = Current /\ WriteAmong(Current[r], v)

\* Operations the index does not wrap.
Plain ==
  /\ \/ \E k \in Keys, v \in Values : Write(k, v)
     \/ ResetNonPdoConfiguration
     \/ ResetPdoValues
  /\ UNCHANGED index

IndexNext ==
  \/ \E k \in Keys, ch \in Changes : InvalidatingDefine(k, ch) \/ InvalidatingOverlay(k, ch)
  \/ FailedUpdate
  \/ \E r \in Roles : IndexedLookup(r) \/ \E v \in Values : IndexedWriteRole(r, v)
  \/ Plain

IndexSpec == IndexInit /\ [][IndexNext]_indexVars

\* A map that is there says what a linear search of the entries would find,
\* whatever definitions were added, replaced or refused since it was built
\* ("Even a failed definition update must not leave stale entries").
IndexFresh == index # None => index = Rebuilt

\* The dictionary with the index behaves as the one with the linear search:
\* every lookup and every write by role has the same result or KeyError.
LinearSearch == Spec

\* However values were written, the device reset's reset_non_pdo_configuration
\* and reset_pdo_values, in the order of servo_model.py, give every configured
\* and every PDO object the value it had after construction, unless the object
\* was redefined since.
ResetRestores ==
  LET r == PdoReset(ApplyConfiguration(od, profile)) IN
  \A k \in Keys \ redefined :
    profile.config[k] # None \/ profile.pdo[k] # None => r.value[k] = built[k]
=============================================================================
