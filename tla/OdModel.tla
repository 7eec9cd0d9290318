------------------------------ MODULE OdModel ------------------------------
(***************************************************************************)
(* The object dictionary of one axis: VirtualOdModel                       *)
(* (profile/object_dictionary.py) filled by ConfiguredObjectDictionary     *)
(* (profile/configured_od.py) from a device profile.                       *)
(*                                                                         *)
(* A definition keeps the attributes its readers tell apart: the address,  *)
(* the role, the default and whether the object is mapped in a PDO. The    *)
(* lookup by role is the linear search of the base class; OdRoleIndex      *)
(* replaces it and is shown to implement this specification.               *)
(***************************************************************************)
EXTENDS Naturals

CONSTANTS
  Keys,      \* addresses (index, subindex), normalised by _storage_key
  Roles,     \* role names
  Values,    \* values of objects
  Zero,      \* default_value of the catalog's data types
  None,      \* Python's None, and an argument or an entry that is absent
  KeyError,  \* what a lookup without exactly one match raises
  Profiles   \* device profiles

ASSUME OdAssumption ==
  /\ Zero \in Values
  /\ None \notin Roles \cup Values \cup Keys
  /\ \A p \in Profiles :
       /\ p.catalog \subseteq Keys
       /\ p.role \in [Keys -> Roles \cup {None}]
       /\ p.config \in [Keys -> Values \cup {None}]
       /\ p.pdo \in [Keys -> [role : Roles \cup {None}, default : Values] \cup {None}]

Definitions == [key : Keys, role : Roles \cup {None}, default : Values, pdo : BOOLEAN]

ASSUME NoneIsNoDefinition == None \notin Definitions /\ KeyError \notin Definitions

\* Keyword arguments of overlay; None for one that is not given.
Changes == [role : Roles \cup {None}, default : Values \cup {None}, pdo : BOOLEAN]

VARIABLES
  od,        \* definition and value of every key; definition None: no entry
  profile,   \* the device profile
  built,     \* history: the values after construction
  redefined, \* history: keys defined or overlaid after construction
  answer     \* what the lookup by role of the last step returned or raised

vars == <<od, profile, built, redefined, answer>>

Dictionaries ==
  [definition : [Keys -> Definitions \cup {None}], value : [Keys -> Values]]

\* Every variable has its type.
TypeOK ==
  /\ od \in Dictionaries
  /\ profile \in Profiles
  /\ built \in [Keys -> Values]
  /\ redefined \subseteq Keys
  /\ answer \in Definitions \cup {KeyError, None}

Defined(o) == {k \in Keys : o.definition[k] # None}

(***************************************************************************)
(* define and overlay, for one key and for the loops of the constructor    *)
(* (the keys of one loop are distinct, so their order does not matter).    *)
(***************************************************************************)
Put(o, k, d, v) ==
  [definition |-> [o.definition EXCEPT ![k] = d], value |-> [o.value EXCEPT ![k] = v]]

\* The definition a new entry gets, and the one replace() makes of an entry.
NewDefinition(k, ch) ==
  [key |-> k, role |-> ch.role,
   default |-> IF ch.default = None THEN Zero ELSE ch.default, pdo |-> ch.pdo]

Replaced(d, ch) ==
  [key |-> d.key,
   role |-> IF ch.role = None THEN d.role ELSE ch.role,
   default |-> IF ch.default = None THEN d.default ELSE ch.default,
   pdo |-> d.pdo \/ ch.pdo]

OverlaidDefinition(o, k, ch) ==
  IF o.definition[k] = None THEN NewDefinition(k, ch) ELSE Replaced(o.definition[k], ch)

\* A default that is given is also the new value; otherwise the value stays.
OverlaidValue(o, k, ch) ==
  CASE ch.default # None -> ch.default
    [] ch.default = None /\ o.definition[k] = None -> Zero
    [] OTHER -> o.value[k]

OverlaidAll(o, ch) ==
  [definition |-> [k \in Keys |-> IF k \in DOMAIN ch THEN OverlaidDefinition(o, k, ch[k])
                                                     ELSE o.definition[k]],
   value |-> [k \in Keys |-> IF k \in DOMAIN ch THEN OverlaidValue(o, k, ch[k])
                                                ELSE o.value[k]]]

(***************************************************************************)
(* Construction and the two resets.                                        *)
(***************************************************************************)
LoadCatalog(p) ==
  [definition |-> [k \in Keys |->
     IF k \in p.catalog THEN [key |-> k, role |-> None, default |-> Zero, pdo |-> FALSE] ELSE None],
   value |-> [k \in Keys |-> Zero]]

OverlayRoles(o, p) ==
  OverlaidAll(o, [k \in {i \in Keys : p.role[i] # None} |->
                    [role |-> p.role[k], default |-> None, pdo |-> FALSE]])

ApplyConfiguration(o, p) ==
  [o EXCEPT !.value = [k \in Keys |-> IF p.config[k] = None THEN o.value[k] ELSE p.config[k]]]

OverlayPdo(o, p) ==
  OverlaidAll(o, [k \in {i \in Keys : p.pdo[i] # None} |->
                    [role |-> p.pdo[k].role, default |-> p.pdo[k].default, pdo |-> TRUE]])

\* Mutant of PdoReset: it writes 0 instead of the definition's default.
PdoResetZero(o) ==
  [o EXCEPT !.value = [k \in Keys |-> IF o.definition[k] # None /\ o.definition[k].pdo
                                        THEN Zero ELSE o.value[k]]]

PdoReset(o) ==
  [o EXCEPT !.value = [k \in Keys |-> IF o.definition[k] # None /\ o.definition[k].pdo
                                        THEN o.definition[k].default ELSE o.value[k]]]

Constructed(p) == OverlayPdo(ApplyConfiguration(OverlayRoles(LoadCatalog(p), p), p), p)

\* The constructor raises for a role or a PDO object that is not in the catalog
\* (validate_catalog_support) and for a configured object without an entry.
Supported(p) ==
  \A k \in Keys :
    /\ p.role[k] # None \/ p.pdo[k] # None => k \in p.catalog
    /\ p.config[k] # None => k \in Defined(OverlayRoles(LoadCatalog(p), p))

Init ==
  /\ profile \in {p \in Profiles : Supported(p)}
  /\ od = Constructed(profile)
  /\ built = od.value
  /\ redefined = {}
  /\ answer = None

(***************************************************************************)
(* Operations. One that raises KeyError for a missing entry changes        *)
(* nothing and is no action.                                               *)
(***************************************************************************)
Define(k, ch) ==
  /\ od' = Put(od, k, NewDefinition(k, ch), NewDefinition(k, ch).default)
  /\ redefined' = redefined \cup {k}
  /\ answer' = None
  /\ UNCHANGED <<profile, built>>

Overlay(k, ch) ==
  /\ od' = Put(od, k, OverlaidDefinition(od, k, ch), OverlaidValue(od, k, ch))
  /\ redefined' = redefined \cup {k}
  /\ answer' = None
  /\ UNCHANGED <<profile, built>>

\* The definitions a linear search for a role finds, and the exactly-one rule.
Matches(r) == {od.definition[k] : k \in {i \in Defined(od) : od.definition[i].role = r}}

Answer(matches) ==
  IF \E d \in matches : matches = {d} THEN CHOOSE d \in matches : matches = {d} ELSE KeyError

\* definition_by_role and read_role, given what the search for the role found.
LookupAmong(matches) ==
  /\ answer' = Answer(matches)
  /\ UNCHANGED <<od, profile, built, redefined>>

WriteAmong(matches, v) ==
  /\ answer' = Answer(matches)
  /\ IF answer' = KeyError
       THEN UNCHANGED od
       ELSE od' = [od EXCEPT !.value[answer'.key] = v]
  /\ UNCHANGED <<profile, built, redefined>>

Lookup(r)       == LookupAmong(Matches(r))
WriteRole(r, v) == WriteAmong(Matches(r), v)

\* write and write_internal differ only in last_write_key and write_generation,
\* which nothing reads.
Write(k, v) ==
  /\ k \in Defined(od)
  /\ od' = [od EXCEPT !.value[k] = v]
  /\ answer' = None
  /\ UNCHANGED <<profile, built, redefined>>

ResetNonPdoConfiguration ==
  /\ od' = ApplyConfiguration(od, profile)
  /\ answer' = None
  /\ UNCHANGED <<profile, built, redefined>>

ResetPdoValues ==
  /\ od' = PdoReset(od)
  /\ answer' = None
  /\ UNCHANGED <<profile, built, redefined>>

Next ==
  \/ \E k \in Keys, ch \in Changes : Define(k, ch) \/ Overlay(k, ch)
  \/ \E r \in Roles : Lookup(r) \/ \E v \in Values : WriteRole(r, v)
  \/ \E k \in Keys, v \in Values : Write(k, v)
  \/ ResetNonPdoConfiguration
  \/ ResetPdoValues

Spec == Init /\ [][Next]_vars
=============================================================================
