------------------------------ MODULE OdProofs ------------------------------
(***************************************************************************)
(* Proofs about the object dictionary and its role index, for every set of *)
(* keys, roles, values and profiles.                                       *)
(***************************************************************************)
EXTENDS OdRoleIndex, TLAPS

(***************************************************************************)
(* Types.                                                                  *)
(***************************************************************************)

\* What define and overlay put into an entry is a definition and a value.
LEMMA OverlaidTyped ==
  ASSUME NEW o \in Dictionaries, NEW k \in Keys, NEW ch \in Changes
  PROVE  /\ NewDefinition(k, ch) \in Definitions
         /\ OverlaidDefinition(o, k, ch) \in Definitions
         /\ OverlaidValue(o, k, ch) \in Values
  <1>1. NewDefinition(k, ch) \in Definitions
    BY OdAssumption DEF NewDefinition, Definitions, Changes
  <1>2. ASSUME o.definition[k] # None
        PROVE  Replaced(o.definition[k], ch) \in Definitions
    <2>1. o.definition[k] \in Definitions
      BY <1>2 DEF Dictionaries
    <2> QED
      BY <2>1 DEF Replaced, Definitions, Changes
  <1>3. OverlaidValue(o, k, ch) \in Values
    BY OdAssumption DEF OverlaidValue, Changes, Dictionaries
  <1> QED
    BY <1>1, <1>2, <1>3 DEF OverlaidDefinition

\* An overlay for a PDO marks the definition.
LEMMA OverlaidPdo ==
  ASSUME NEW o \in Dictionaries, NEW k \in Keys, NEW ch \in Changes, ch.pdo
  PROVE  OverlaidDefinition(o, k, ch).pdo
  <1>1. CASE o.definition[k] = None
    BY <1>1 DEF OverlaidDefinition, NewDefinition, Changes
  <1>2. CASE o.definition[k] # None
    <2>1. o.definition[k] \in Definitions
      BY <1>2 DEF Dictionaries
    <2> QED
      BY <1>2, <2>1 DEF OverlaidDefinition, Replaced, Definitions, Changes
  <1> QED
    BY <1>1, <1>2

\* Replacing one entry keeps the dictionary well formed.
LEMMA PutTyped ==
  ASSUME NEW o \in Dictionaries, NEW k \in Keys, NEW d \in Definitions, NEW v \in Values
  PROVE  Put(o, k, d, v) \in Dictionaries
  BY DEF Put, Dictionaries

\* So does a loop of overlays.
LEMMA OverlaidAllTyped ==
  ASSUME NEW o \in Dictionaries, NEW S \in SUBSET Keys, NEW ch \in [S -> Changes]
  PROVE  OverlaidAll(o, ch) \in Dictionaries
  <1>1. \A k \in S : ch[k] \in Changes
    OBVIOUS
  <1>2. \A k \in S : /\ OverlaidDefinition(o, k, ch[k]) \in Definitions
                     /\ OverlaidValue(o, k, ch[k]) \in Values
    BY <1>1, OverlaidTyped
  <1>3. DOMAIN ch = S
    OBVIOUS
  <1> QED
    BY <1>2, <1>3 DEF OverlaidAll, Dictionaries

\* So do the writes of a reset.
LEMMA ResetsTyped ==
  ASSUME NEW o \in Dictionaries, NEW p \in Profiles
  PROVE  /\ ApplyConfiguration(o, p) \in Dictionaries
         /\ PdoReset(o) \in Dictionaries
  <1>1. \A k \in Keys : p.config[k] # None => p.config[k] \in Values
    BY OdAssumption
  <1>2. \A k \in Keys : o.definition[k] # None => o.definition[k].default \in Values
    BY DEF Dictionaries, Definitions
  <1>3. ApplyConfiguration(o, p) \in Dictionaries
    BY <1>1 DEF ApplyConfiguration, Dictionaries
  <1>4. PdoReset(o) \in Dictionaries
    BY <1>2 DEF PdoReset, Dictionaries
  <1> QED
    BY <1>3, <1>4

\* The constructor makes a well-formed dictionary of every profile, before the
\* loops over the PDO objects and after them.
LEMMA ConfiguredTyped ==
  ASSUME NEW p \in Profiles
  PROVE  ApplyConfiguration(OverlayRoles(LoadCatalog(p), p), p) \in Dictionaries
  <1> DEFINE a == LoadCatalog(p)
             b == OverlayRoles(a, p)
  <1>1. a \in Dictionaries
    BY OdAssumption DEF LoadCatalog, Dictionaries, Definitions
  <1>2. b \in Dictionaries
    <2> DEFINE S == {i \in Keys : p.role[i] # None}
               ch == [k \in S |-> [role |-> p.role[k], default |-> None, pdo |-> FALSE]]
    <2>1. ch \in [S -> Changes]
      BY OdAssumption DEF Changes
    <2>2. b = OverlaidAll(a, ch)
      BY DEF OverlayRoles
    <2> HIDE DEF ch, a, b
    <2> QED
      BY <1>1, <2>1, <2>2, OverlaidAllTyped
  <1> HIDE DEF b
  <1>3. ApplyConfiguration(b, p) \in Dictionaries
    BY <1>2, ResetsTyped
  <1> QED
    BY <1>3 DEF b

LEMMA ConstructedTyped ==
  ASSUME NEW p \in Profiles
  PROVE  Constructed(p) \in Dictionaries
  <1> DEFINE c == ApplyConfiguration(OverlayRoles(LoadCatalog(p), p), p)
             S == {i \in Keys : p.pdo[i] # None}
             ch == [k \in S |-> [role |-> p.pdo[k].role, default |-> p.pdo[k].default,
                                 pdo |-> TRUE]]
  <1>1. \A k \in S : p.pdo[k] \in [role : Roles \cup {None}, default : Values]
    BY OdAssumption
  <1>2. ch \in [S -> Changes]
    BY <1>1 DEF Changes
  <1>3. Constructed(p) = OverlaidAll(c, ch)
    BY DEF OverlayPdo, Constructed
  <1>4. c \in Dictionaries
    BY ConfiguredTyped
  <1> HIDE DEF ch, c
  <1> QED
    BY <1>2, <1>3, <1>4, OverlaidAllTyped

\* A search by role finds definitions, and its answer is one of them or KeyError.
LEMMA MatchesTyped ==
  ASSUME TypeOK, NEW r
  PROVE  Matches(r) \subseteq Definitions
  BY DEF Matches, Defined, TypeOK, Dictionaries

LEMMA AnswerTyped ==
  ASSUME NEW M \in SUBSET Definitions
  PROVE  Answer(M) \in Definitions \cup {KeyError}
  BY DEF Answer

(***************************************************************************)
(* The index.                                                              *)
(***************************************************************************)
IndexInv == IndexTypeOK /\ IndexFresh

\* Whether the map is kept or built now, a lookup searches what the linear
\* search would find.
LEMMA CurrentIsSearch ==
  ASSUME IndexInv
  PROVE  Current = Rebuilt
  BY DEF IndexInv, IndexFresh, Current

\* A map that is built has a definition set for every role.
LEMMA RebuiltTyped ==
  ASSUME TypeOK
  PROVE  /\ Rebuilt \in [Roles -> SUBSET Definitions]
         /\ \A r \in Roles : Rebuilt[r] = Matches(r)
  BY MatchesTyped DEF Rebuilt

\* A step that leaves every definition as it is leaves the search as it is.
LEMMA SameDefinitions ==
  ASSUME od'.definition = od.definition
  PROVE  Rebuilt' = Rebuilt
  BY DEF Rebuilt, Matches, Defined

\* A write by role changes one value and no definition.
LEMMA WriteAmongKeeps ==
  ASSUME TypeOK, NEW M \in SUBSET Definitions, NEW v \in Values, WriteAmong(M, v)
  PROVE  TypeOK' /\ od'.definition = od.definition
  <1>1. answer' \in Definitions \cup {KeyError}
    BY AnswerTyped DEF WriteAmong
  <1>2. CASE answer' = KeyError
    BY <1>1, <1>2 DEF WriteAmong, TypeOK
  <1>3. CASE answer' # KeyError
    <2>1. answer'.key \in Keys
      BY <1>1, <1>3 DEF Definitions
    <2>2. od' = [od EXCEPT !.value[answer'.key] = v]
      BY <1>3 DEF WriteAmong
    <2>3. od' \in Dictionaries /\ od'.definition = od.definition
      BY <2>1, <2>2 DEF TypeOK, Dictionaries
    <2> QED
      BY <1>1, <2>3 DEF WriteAmong, TypeOK
  <1> QED
    BY <1>2, <1>3

\* A lookup changes nothing but the answer.
LEMMA LookupAmongKeeps ==
  ASSUME TypeOK, NEW M \in SUBSET Definitions, LookupAmong(M)
  PROVE  TypeOK' /\ od' = od
  BY AnswerTyped DEF LookupAmong, TypeOK

\* define and overlay keep the dictionary well formed.
LEMMA UpdatesTyped ==
  ASSUME TypeOK, NEW k \in Keys, NEW ch \in Changes, Define(k, ch) \/ Overlay(k, ch)
  PROVE  TypeOK'
  <1>1. /\ NewDefinition(k, ch) \in Definitions
        /\ OverlaidDefinition(od, k, ch) \in Definitions
        /\ OverlaidValue(od, k, ch) \in Values
    BY OverlaidTyped DEF TypeOK
  <1>2. NewDefinition(k, ch).default \in Values
    BY <1>1 DEF Definitions
  <1>3. od' \in Dictionaries
    BY <1>1, <1>2, PutTyped DEF Define, Overlay, TypeOK
  <1> QED
    BY <1>3 DEF Define, Overlay, TypeOK

\* The operations the index does not wrap change values only.
LEMMA PlainKeeps ==
  ASSUME TypeOK, Plain
  PROVE  TypeOK' /\ od'.definition = od.definition
  <1>1. CASE \E k \in Keys, v \in Values : Write(k, v)
    BY <1>1 DEF Write, TypeOK, Dictionaries
  <1>2. CASE ResetNonPdoConfiguration
    <2>1. od' \in Dictionaries
      BY <1>2, ResetsTyped DEF ResetNonPdoConfiguration, TypeOK
    <2>2. od'.definition = od.definition
      BY <1>2 DEF ResetNonPdoConfiguration, ApplyConfiguration, TypeOK, Dictionaries
    <2> QED
      BY <1>2, <2>1, <2>2 DEF ResetNonPdoConfiguration, TypeOK
  <1>3. CASE ResetPdoValues
    <2>1. od' \in Dictionaries
      BY <1>3, ResetsTyped DEF ResetPdoValues, TypeOK
    <2>2. od'.definition = od.definition
      BY <1>3 DEF ResetPdoValues, PdoReset, TypeOK, Dictionaries
    <2> QED
      BY <1>3, <2>1, <2>2 DEF ResetPdoValues, TypeOK
  <1> QED
    BY <1>1, <1>2, <1>3 DEF Plain

\* The constructor and install_role_index establish the invariant.
LEMMA IndexInvInit ==
  ASSUME IndexInit
  PROVE  IndexInv
  <1>1. od \in Dictionaries
    BY ConstructedTyped DEF IndexInit, Init
  <1>2. TypeOK
    BY <1>1 DEF IndexInit, Init, TypeOK, Dictionaries
  <1> QED
    BY <1>2, RebuiltTyped DEF IndexInit, IndexInv, IndexTypeOK, IndexFresh

\* Every operation preserves it.
LEMMA IndexInvNext ==
  ASSUME IndexInv, [IndexNext]_indexVars
  PROVE  IndexInv'
  <1> USE DEF IndexInv
  <1>0. TypeOK
    BY DEF IndexTypeOK
  <1>1. ASSUME NEW k \in Keys, NEW ch \in Changes,
               InvalidatingDefine(k, ch) \/ InvalidatingOverlay(k, ch)
        PROVE  IndexInv'
    BY <1>0, <1>1, UpdatesTyped
       DEF InvalidatingDefine, InvalidatingOverlay, IndexTypeOK, IndexFresh
  <1>2. CASE FailedUpdate
    BY <1>0, <1>2 DEF FailedUpdate, vars, IndexTypeOK, IndexFresh, TypeOK
  <1>3. ASSUME NEW r \in Roles, IndexedLookup(r)
        PROVE  IndexInv'
    <2>1. Current = Rebuilt /\ Rebuilt \in [Roles -> SUBSET Definitions]
      BY <1>0, CurrentIsSearch, RebuiltTyped
    <2>2. TypeOK' /\ od' = od
      BY <1>0, <1>3, <2>1, LookupAmongKeeps DEF IndexedLookup
    <2>3. Rebuilt' = Rebuilt
      BY <2>2, SameDefinitions
    <2> QED
      BY <1>3, <2>1, <2>2, <2>3 DEF IndexedLookup, IndexTypeOK, IndexFresh
  <1>4. ASSUME NEW r \in Roles, NEW v \in Values, IndexedWriteRole(r, v)
        PROVE  IndexInv'
    <2>1. Current = Rebuilt /\ Rebuilt \in [Roles -> SUBSET Definitions]
      BY <1>0, CurrentIsSearch, RebuiltTyped
    <2>2. TypeOK' /\ od'.definition = od.definition
      BY <1>0, <1>4, <2>1, WriteAmongKeeps DEF IndexedWriteRole
    <2>3. Rebuilt' = Rebuilt
      BY <2>2, SameDefinitions
    <2> QED
      BY <1>4, <2>1, <2>2, <2>3 DEF IndexedWriteRole, IndexTypeOK, IndexFresh
  <1>5. CASE Plain
    <2>1. TypeOK' /\ od'.definition = od.definition
      BY <1>0, <1>5, PlainKeeps
    <2>2. Rebuilt' = Rebuilt
      BY <2>1, SameDefinitions
    <2> QED
      BY <1>5, <2>1, <2>2 DEF Plain, IndexTypeOK, IndexFresh
  <1>6. CASE UNCHANGED indexVars
    <2>1. Rebuilt' = Rebuilt
      BY <1>6, SameDefinitions DEF indexVars, vars
    <2> QED
      BY <1>0, <1>6, <2>1 DEF indexVars, vars, IndexTypeOK, IndexFresh, TypeOK
  <1> QED
    BY <1>1, <1>2, <1>3, <1>4, <1>5, <1>6 DEF IndexNext

\* The types of the dictionary and of the map hold in every reachable state.
THEOREM IndexTypeCorrect == IndexSpec => []IndexTypeOK
  BY IndexInvInit, IndexInvNext, PTL DEF IndexSpec, IndexInv

\* A map that is there is never stale: define and overlay, refused or not,
\* forget it, and nothing else changes a definition.
THEOREM IndexAlwaysFresh == IndexSpec => []IndexFresh
  BY IndexInvInit, IndexInvNext, PTL DEF IndexSpec, IndexInv

(***************************************************************************)
(* The index implements the linear search.                                 *)
(***************************************************************************)

\* A step of the indexed dictionary is a step of the plain one or changes
\* nothing a caller can see.
LEMMA IndexedStep ==
  ASSUME IndexInv, [IndexNext]_indexVars
  PROVE  [Next]_vars
  <1>0. Current = Rebuilt /\ \A r \in Roles : Rebuilt[r] = Matches(r)
    BY CurrentIsSearch, RebuiltTyped DEF IndexInv, IndexTypeOK
  <1>1. ASSUME NEW k \in Keys, NEW ch \in Changes,
               InvalidatingDefine(k, ch) \/ InvalidatingOverlay(k, ch)
        PROVE  Next
    BY <1>1 DEF InvalidatingDefine, InvalidatingOverlay, Next
  <1>2. CASE FailedUpdate
    BY <1>2 DEF FailedUpdate
  <1>3. ASSUME NEW r \in Roles, IndexedLookup(r)
        PROVE  Next
    BY <1>0, <1>3 DEF IndexedLookup, Lookup, Next
  <1>4. ASSUME NEW r \in Roles, NEW v \in Values, IndexedWriteRole(r, v)
        PROVE  Next
    BY <1>0, <1>4 DEF IndexedWriteRole, WriteRole, Next
  <1>5. CASE Plain
    BY <1>5 DEF Plain, Next
  <1>6. CASE UNCHANGED indexVars
    BY <1>6 DEF indexVars
  <1> QED
    BY <1>1, <1>2, <1>3, <1>4, <1>5, <1>6 DEF IndexNext

\* Installing the role index changes no result: the dictionary with the index
\* implements the dictionary whose definition_by_role searches the entries.
THEOREM IndexImplementsSearch == IndexSpec => LinearSearch
  <1>1. IndexInit => Init
    BY DEF IndexInit
  <1>2. IndexSpec => []IndexInv
    BY IndexInvInit, IndexInvNext, PTL DEF IndexSpec
  <1>3. IndexInv /\ [IndexNext]_indexVars => [Next]_vars
    BY IndexedStep
  <1> QED
    BY <1>1, <1>2, <1>3, PTL DEF IndexSpec, LinearSearch, Spec

(***************************************************************************)
(* The device reset. An object that was not redefined keeps the definition *)
(* the constructor gave it, and built is what the constructor gave it.     *)
(***************************************************************************)
AsBuilt ==
  /\ built = Constructed(profile).value
  /\ \A k \in Keys \ redefined : od.definition[k] = Constructed(profile).definition[k]

\* The constructor's last loop decides what an object's definition says about
\* the PDO, and what its value is.
LEMMA ConstructedEntry ==
  ASSUME NEW p \in Profiles, NEW k \in Keys
  PROVE  /\ p.pdo[k] # None =>
              /\ Constructed(p).definition[k] # None
              /\ Constructed(p).definition[k].pdo
              /\ Constructed(p).definition[k].default = p.pdo[k].default
              /\ Constructed(p).value[k] = p.pdo[k].default
         /\ p.pdo[k] = None /\ p.config[k] # None =>
              /\ Constructed(p).definition[k] # None => ~Constructed(p).definition[k].pdo
              /\ Constructed(p).value[k] = p.config[k]
  <1> DEFINE a == LoadCatalog(p)
             b == OverlayRoles(a, p)
             c == ApplyConfiguration(b, p)
  <1>1. a.definition[k] # None => a.definition[k].pdo = FALSE
    BY DEF LoadCatalog
  <1>2. b.definition[k] # None => b.definition[k].pdo = FALSE
    BY <1>1 DEF OverlayRoles, OverlaidAll, OverlaidDefinition, NewDefinition, Replaced
  <1>3. c.definition = b.definition /\ (p.config[k] # None => c.value[k] = p.config[k])
    BY DEF ApplyConfiguration, OverlayRoles, OverlaidAll
  <1>4. p.pdo[k] # None => p.pdo[k].default \in Values /\ p.pdo[k].default # None
    BY OdAssumption
  <1> HIDE DEF a, b, c
  <1>5. CASE p.pdo[k] # None
    <2> DEFINE ch == [role |-> p.pdo[k].role, default |-> p.pdo[k].default, pdo |-> TRUE]
    <2>1. Constructed(p).definition[k] = OverlaidDefinition(c, k, ch)
      BY <1>5 DEF Constructed, OverlayPdo, OverlaidAll, a, b, c
    <2>2. Constructed(p).value[k] = OverlaidValue(c, k, ch)
      BY <1>5 DEF Constructed, OverlayPdo, OverlaidAll, a, b, c
    <2>3. Constructed(p).value[k] = p.pdo[k].default
      BY <1>4, <1>5, <2>2 DEF OverlaidValue
    <2>4. Constructed(p).definition[k].default = p.pdo[k].default
      BY <1>4, <1>5, <2>1 DEF OverlaidDefinition, NewDefinition, Replaced
    <2>5. ch \in Changes /\ ch.pdo /\ c \in Dictionaries
      BY <1>5, OdAssumption, ConfiguredTyped DEF Changes, a, b, c
    <2> HIDE DEF ch
    <2>6. /\ Constructed(p).definition[k] # None
          /\ Constructed(p).definition[k].pdo
      BY <2>1, <2>5, NoneIsNoDefinition, OverlaidTyped, OverlaidPdo
    <2> QED
      BY <1>5, <2>3, <2>4, <2>6
  <1>6. CASE p.pdo[k] = None
    <2>1. /\ Constructed(p).definition[k] = c.definition[k]
          /\ Constructed(p).value[k] = c.value[k]
      BY <1>6 DEF Constructed, OverlayPdo, OverlaidAll, a, b, c
    <2> QED
      BY <1>2, <1>3, <1>6, <2>1
  <1> QED
    BY <1>5, <1>6

\* Operations other than define and overlay keep every definition, and those
\* two record the key they change.
LEMMA AsBuiltNext ==
  ASSUME IndexInv, AsBuilt, [IndexNext]_indexVars
  PROVE  AsBuilt'
  <1>0. TypeOK /\ Current \in [Roles -> SUBSET Definitions]
    BY CurrentIsSearch, RebuiltTyped DEF IndexInv, IndexTypeOK
  <1>1. ASSUME NEW k \in Keys, NEW ch \in Changes,
               InvalidatingDefine(k, ch) \/ InvalidatingOverlay(k, ch)
        PROVE  AsBuilt'
    <2>1. /\ redefined' = redefined \cup {k} /\ profile' = profile /\ built' = built
          /\ \E d, v : od' = Put(od, k, d, v)
      BY <1>1 DEF InvalidatingDefine, InvalidatingOverlay, Define, Overlay
    <2>2. \A i \in Keys \ redefined' : od'.definition[i] = od.definition[i]
      BY <1>0, <2>1 DEF Put, TypeOK, Dictionaries
    <2> QED
      BY <2>1, <2>2 DEF AsBuilt
  <1>2. CASE FailedUpdate
    BY <1>2 DEF FailedUpdate, vars, AsBuilt
  <1>3. ASSUME NEW r \in Roles, IndexedLookup(r)
        PROVE  AsBuilt'
    BY <1>3 DEF IndexedLookup, LookupAmong, AsBuilt
  <1>4. ASSUME NEW r \in Roles, NEW v \in Values, IndexedWriteRole(r, v)
        PROVE  AsBuilt'
    <2>1. od'.definition = od.definition
      BY <1>0, <1>4, WriteAmongKeeps DEF IndexedWriteRole
    <2> QED
      BY <1>4, <2>1 DEF IndexedWriteRole, WriteAmong, AsBuilt
  <1>5. CASE Plain
    <2>1. od'.definition = od.definition
      BY <1>0, <1>5, PlainKeeps
    <2> QED
      BY <1>5, <2>1 DEF Plain, Write, ResetNonPdoConfiguration, ResetPdoValues, AsBuilt
  <1>6. CASE UNCHANGED indexVars
    BY <1>6 DEF indexVars, vars, AsBuilt
  <1> QED
    BY <1>1, <1>2, <1>3, <1>4, <1>5, <1>6 DEF IndexNext

\* In a state where the definitions are as built, the two resets restore.
LEMMA AsBuiltRestores ==
  ASSUME IndexInv, AsBuilt
  PROVE  ResetRestores
  <1>1. profile \in Profiles /\ od \in Dictionaries
    BY DEF IndexInv, IndexTypeOK, TypeOK
  <1>2. SUFFICES ASSUME NEW k \in Keys \ redefined,
                        profile.config[k] # None \/ profile.pdo[k] # None
                 PROVE  PdoReset(ApplyConfiguration(od, profile)).value[k] = built[k]
    BY DEF ResetRestores
  <1> DEFINE o == ApplyConfiguration(od, profile)
  <1>3. /\ o \in Dictionaries /\ o.definition = od.definition
        /\ profile.config[k] # None => o.value[k] = profile.config[k]
    <2>1. o \in Dictionaries
      BY <1>1, ResetsTyped
    <2>2. o = [definition |-> od.definition,
               value |-> [i \in Keys |-> IF profile.config[i] = None THEN od.value[i]
                                                                     ELSE profile.config[i]]]
      BY <1>1 DEF ApplyConfiguration, Dictionaries
    <2> QED
      BY <2>1, <2>2
  <1> HIDE DEF o
  <1>4. PdoReset(o).value[k] = IF o.definition[k] # None /\ o.definition[k].pdo
                                 THEN o.definition[k].default ELSE o.value[k]
    BY <1>3 DEF PdoReset, Dictionaries
  <1>5. /\ o.definition[k] = Constructed(profile).definition[k]
        /\ built[k] = Constructed(profile).value[k]
    BY <1>3 DEF AsBuilt
  <1>6. PdoReset(o).value[k] = built[k]
    BY <1>1, <1>2, <1>3, <1>4, <1>5, ConstructedEntry
  <1> QED
    BY <1>6 DEF o

\* After any sequence of SDO and PDO writes, the calls of the device reset give
\* every configured and every PDO object the value the constructor gave it.
THEOREM ResetAlwaysRestores == IndexSpec => []ResetRestores
  <1>1. IndexInit => AsBuilt
    BY DEF IndexInit, Init, AsBuilt
  <1>2. IndexSpec => [](IndexInv /\ AsBuilt)
    BY <1>1, IndexInvInit, IndexInvNext, AsBuiltNext, PTL DEF IndexSpec
  <1> QED
    BY <1>2, AsBuiltRestores, PTL
=============================================================================
