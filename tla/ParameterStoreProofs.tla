------------------------ MODULE ParameterStoreProofs ------------------------
(***************************************************************************)
(* Proofs about the parameter store, for every number of parameter sets,   *)
(* all values and all assignments of schemas.                              *)
(***************************************************************************)
EXTENDS ParameterStore, TLAPS

(***************************************************************************)
(* The inductive invariant.                                                *)
(***************************************************************************)
SaveSteps == {"write", "sync", "replace", "dirsync"}
InSave(p) == proc[p].at \in SaveSteps

\* Only the holder of the lock is active, and where it may be.
Exclusive ==
  /\ \A p \in Programs : proc[p].at # "down" => lock = p
  /\ proc["service"].at \in {"down", "load", "create", "run"} \cup SaveSteps
  /\ proc["migrate"].at \in {"down", "backup", "baksync", "done"} \cup SaveSteps
  /\ InSave("service") => proc["service"].back \in {"create", "run"}
  /\ InSave("migrate") => proc["migrate"].back = "done"

\* What a save works with: a snapshot of the model's schema that the file may
\* hold from now on; a synced temporary file when it is renamed; and the file
\* as it was found, until os.replace puts the new one in its place.
SaveState(p) ==
  LET c == proc[p]
  IN  InSave(p) =>
        /\ c.data \in Snapshots /\ c.data \in known[c.a] /\ c.data.schema = Schema[c.a]
        /\ c.at = "replace" => c.temp = c.data
        /\ dir.file[c.a] = IF c.at = "dirsync" THEN c.data ELSE c.old

\* A file that some process or a power loss may find is one of those known,
\* none of which is torn.
FilesKnown ==
  /\ \A d \in possible \cup {dir} : \A a \in A : d.file[a] \in known[a]
  /\ \A a \in A : known[a] \subseteq Snapshots \cup {Absent}

\* The sets that the service has looked at can be loaded, or are missing.
Accepted(a) == dir.file[a] = Absent \/ Loadable(a, dir.file[a])
Checked ==
  /\ proc["service"].at = "load" => \A a \in A : a < proc["service"].a => Accepted(a)
  /\ proc["service"].at \in {"create", "run"} \cup SaveSteps => \A a \in A : Accepted(a)

\* A snapshot of an older schema is the one the set started with.
LegacyOnly ==
  \A a \in A :
    /\ legacy[a] # Absent =>
         legacy[a] \in Snapshots /\ legacy[a].schema = 1 /\ Schema[a] = 2
    /\ \A s \in known[a] : s.kind = "good" /\ s.schema # Schema[a] => s = legacy[a]

\* Once the file of a migrated set has been replaced, its backup is the legacy
\* snapshot and synced.
BackupSafe(a) == dir.bak[a] = legacy[a] /\ a \notin unsynced
LegacySafe ==
  \A a \in A \ reused : legacy[a] # Absent =>
    /\ \A d \in possible \cup {dir} : legacy[a] \in {d.file[a], d.bak[a]}
    /\ dir.file[a] # legacy[a] => BackupSafe(a)

\* Where the migration is: its snapshot is still in place, and it does not
\* start to replace it before the backup is safe.
Migrating ==
  LET c == proc["migrate"]
  IN  /\ c.at \in {"backup", "baksync"} =>
           c.data \in Snapshots /\ c.data = legacy[c.a] /\ c.data = dir.file[c.a]
      /\ c.at = "baksync" => dir.bak[c.a] = c.data
      /\ InSave("migrate") => c.a \in reused \/ BackupSafe(c.a)

StoreIInv ==
  /\ TypeOK /\ Exclusive /\ FilesKnown /\ Checked
  /\ \A p \in Programs : SaveState(p)
  /\ LegacyOnly /\ LegacySafe /\ Migrating

(***************************************************************************)
(* Lemmas about snapshots, directories and programs.                       *)
(***************************************************************************)
LEMMA ContentsFacts ==
  /\ Absent \in Contents /\ Torn \in Contents /\ Torn # Absent
  /\ Absent \notin Snapshots /\ Torn \notin Snapshots /\ Absent.kind # "good"
  /\ Snapshots \subseteq Contents
  /\ \A s \in {1, 2}, v \in Values :
       /\ Good(s, v) \in Snapshots
       /\ Good(s, v).schema = s /\ Good(s, v).val = v
  /\ \A c \in Snapshots : c.kind = "good" /\ c.schema \in {1, 2} /\ c.val \in Values
  /\ \A c \in Contents : c.kind = "good" => c \in Snapshots
  <1>1. \A s \in {1, 2}, v \in Values :
          /\ Good(s, v) \in Snapshots /\ Good(s, v).kind = "good"
          /\ Good(s, v).schema = s /\ Good(s, v).val = v
    BY DEF Snapshots, Good
  <1>2. \A c \in Snapshots : \E s \in {1, 2}, v \in Values : c = Good(s, v)
    BY DEF Snapshots
  <1>3. \A c \in Snapshots : c.kind = "good" /\ c.schema \in {1, 2} /\ c.val \in Values
    BY <1>1, <1>2
  <1>4. Absent.kind = "absent" /\ Torn.kind = "torn"
    BY DEF Absent, Torn
  <1>5. "absent" # "good" /\ "torn" # "good" /\ "absent" # "torn"
    OBVIOUS
  <1>6. Absent \notin Snapshots /\ Torn \notin Snapshots /\ Torn # Absent
    BY <1>3, <1>4, <1>5
  <1> QED
    BY <1>1, <1>3, <1>4, <1>5, <1>6 DEF Contents

\* Replacing a file, or a backup, in a directory.
LEMMA FileReplaced ==
  ASSUME NEW d \in Directories, NEW a \in A, NEW x \in Contents
  PROVE  /\ [d EXCEPT !.file[a] = x] \in Directories
         /\ [d EXCEPT !.file[a] = x].bak = d.bak
         /\ [d EXCEPT !.file[a] = x].file = [d.file EXCEPT ![a] = x]
  BY DEF Directories

LEMMA BackupReplaced ==
  ASSUME NEW d \in Directories, NEW a \in A, NEW x \in Contents
  PROVE  /\ [d EXCEPT !.bak[a] = x] \in Directories
         /\ [d EXCEPT !.bak[a] = x].file = d.file
         /\ [d EXCEPT !.bak[a] = x].bak = [d.bak EXCEPT ![a] = x]
  BY DEF Directories

\* A power loss tears at most the backups that were never synced.
LEMMA SurvivorsKeep ==
  ASSUME NEW d \in Directories, NEW e \in Survivors(d)
  PROVE  /\ e \in Directories /\ e.file = d.file
         /\ \A a \in A : e.bak[a] = d.bak[a] \/ a \in unsynced
  <1>1. PICK t \in SUBSET unsynced :
           e = [d EXCEPT !.bak = [a \in A |-> IF a \in t THEN Torn ELSE d.bak[a]]]
    BY DEF Survivors
  <1>2. [a \in A |-> IF a \in t THEN Torn ELSE d.bak[a]] \in [A -> Contents]
    BY ContentsFacts DEF Directories
  <1> QED
    BY <1>1, <1>2 DEF Directories

\* A program that is not running.
LEMMA DownTyped ==
  /\ Down \in Procs /\ Down.at = "down"
  /\ \A s \in Steps : [Down EXCEPT !.at = s] \in Procs /\ [Down EXCEPT !.at = s].at = s
  /\ \A s \in Steps, a \in A : /\ [Down EXCEPT !.at = s, !.a = a] \in Procs
                               /\ [Down EXCEPT !.at = s, !.a = a].at = s
                               /\ [Down EXCEPT !.at = s, !.a = a].a = a
  <1>1. 1 \in A
    BY StoreAssumption DEF A
  <1> QED
    BY <1>1, ContentsFacts DEF Down, Procs, Steps

\* While one program is active the other is not.
LEMMA OthersDown ==
  ASSUME StoreIInv, NEW p \in Programs, proc[p].at # "down", NEW q \in Programs, q # p
  PROVE  proc[q].at = "down"
  BY DEF StoreIInv, Exclusive

\* When no file and nothing known of them changes, the parts of the invariant
\* about files hold on.
LEMMA FilesUnchanged ==
  ASSUME StoreIInv, UNCHANGED <<dir, possible, known, bakVars>>
  PROVE  FilesKnown' /\ LegacyOnly' /\ LegacySafe'
  BY DEF StoreIInv, FilesKnown, LegacyOnly, LegacySafe, BackupSafe, bakVars

(***************************************************************************)
(* ParameterStore.save.                                                    *)
(***************************************************************************)

\* What a save step of p leaves of the invariant to be shown: the other program
\* is down and stays so.
LEMMA SaveFrame ==
  ASSUME StoreIInv, NEW p \in Programs, InSave(p), NEW x \in Procs,
         proc' = [proc EXCEPT ![p] = x]
  PROVE  /\ proc' \in [Programs -> Procs] /\ proc'[p] = x /\ lock = p /\ proc[p] \in Procs
         /\ \A q \in Programs \ {p} : proc'[q] = proc[q] /\ proc[q].at = "down"
  <1>1. proc[p].at # "down"
    BY DEF InSave, SaveSteps
  <1> QED
    BY <1>1, OthersDown DEF StoreIInv, TypeOK, Exclusive

LEMMA SaveWriteKeeps ==
  ASSUME StoreIInv, NEW p \in Programs, SaveWrite(p) \/ SaveSync(p)
  PROVE  StoreIInv'
  <1> DEFINE x == IF proc[p].at = "write" THEN [proc[p] EXCEPT !.at = "sync", !.temp = Torn]
                  ELSE [proc[p] EXCEPT !.at = "replace", !.temp = proc[p].data]
  <1>1. /\ InSave(p) /\ proc[p].at \in {"write", "sync"} /\ proc[p] \in Procs
        /\ UNCHANGED <<dir, possible, lock, params, alarm, known, bakVars>>
        /\ answer' = "none"
    BY DEF SaveWrite, SaveSync, InSave, SaveSteps, StoreIInv, TypeOK
  <1>2. /\ x \in Procs /\ x.at \in {"sync", "replace"} /\ x.a = proc[p].a /\ x.data = proc[p].data
        /\ x.old = proc[p].old /\ x.back = proc[p].back /\ (x.at = "replace" => x.temp = x.data)
    BY <1>1, ContentsFacts DEF Procs, Steps
  <1>3. proc' = [proc EXCEPT ![p] = x]
    BY <1>1 DEF SaveWrite, SaveSync, StoreIInv, TypeOK
  <1> HIDE DEF x
  <1>4. /\ proc' \in [Programs -> Procs] /\ proc'[p] = x /\ lock = p
        /\ \A q \in Programs \ {p} : proc'[q] = proc[q] /\ proc[q].at = "down"
    BY <1>1, <1>2, <1>3, SaveFrame
  <1>5. TypeOK'
    BY <1>1, <1>4 DEF StoreIInv, TypeOK, bakVars
  <1>6. Exclusive'
    BY <1>1, <1>2, <1>4 DEF StoreIInv, Exclusive, InSave, SaveSteps, Programs
  <1>7. \A q \in Programs : SaveState(q)'
    BY <1>1, <1>2, <1>4 DEF StoreIInv, SaveState, InSave, SaveSteps
  <1>8. Checked'
    BY <1>1, <1>2, <1>4 DEF StoreIInv, Checked, Accepted, Loadable, InSave, SaveSteps, Programs
  <1>9. Migrating'
    BY <1>1, <1>2, <1>4 DEF StoreIInv, Migrating, BackupSafe, InSave, SaveSteps, Programs, bakVars
  <1> QED
    BY <1>1, <1>5, <1>6, <1>7, <1>8, <1>9, FilesUnchanged DEF StoreIInv

LEMMA SaveReplaceKeeps ==
  ASSUME StoreIInv, NEW p \in Programs, SaveReplace(p)
  PROVE  StoreIInv'
  <1> DEFINE a == proc[p].a
             s == proc[p].data
             x == [proc[p] EXCEPT !.at = "dirsync"]
             new == [dir EXCEPT !.file[a] = s]
  <1>1. /\ InSave(p) /\ proc[p].at = "replace" /\ proc[p] \in Procs /\ a \in A
        /\ UNCHANGED <<lock, params, alarm, known, bakVars>>
        /\ answer' = "none"
    BY DEF SaveReplace, InSave, SaveSteps, StoreIInv, TypeOK, Procs
  <1>2. /\ x \in Procs /\ x.at = "dirsync" /\ x.a = a /\ x.data = s /\ x.back = proc[p].back
    BY <1>1 DEF Procs, Steps
  <1>3. proc' = [proc EXCEPT ![p] = x]
    BY <1>1 DEF SaveReplace, Goto, StoreIInv, TypeOK
  <1>4. /\ s \in Snapshots /\ s \in known[a] /\ s.schema = Schema[a] /\ proc[p].temp = s
        /\ s \in Contents
    BY <1>1, ContentsFacts DEF StoreIInv, SaveState
  <1>5. dir' = new /\ possible' = possible \cup Survivors(new)
    BY <1>4 DEF SaveReplace, Update
  <1>6. new \in Directories /\ new.bak = dir.bak /\ new.file = [dir.file EXCEPT ![a] = s]
    BY <1>1, <1>4, FileReplaced DEF StoreIInv, TypeOK
  <1>7. \A e \in Survivors(new) :
          /\ e \in Directories /\ e.file = new.file
          /\ \A b \in A : e.bak[b] = new.bak[b] \/ b \in unsynced
    BY <1>6, SurvivorsKeep
  <1> HIDE DEF x, new, s, a
  <1>8. /\ proc' \in [Programs -> Procs] /\ proc'[p] = x /\ lock = p
        /\ \A q \in Programs \ {p} : proc'[q] = proc[q] /\ proc[q].at = "down"
    BY <1>1, <1>2, <1>3, SaveFrame
  <1>9. \A b \in A : new.file[b] = IF b = a THEN s ELSE dir.file[b]
    BY <1>1, <1>6 DEF StoreIInv, TypeOK, Directories
  <1>10. TypeOK'
    BY <1>1, <1>5, <1>6, <1>7, <1>8 DEF StoreIInv, TypeOK, bakVars
  <1>11. Exclusive'
    BY <1>1, <1>2, <1>8 DEF StoreIInv, Exclusive, InSave, SaveSteps, Programs
  <1>12. FilesKnown'
    BY <1>1, <1>4, <1>5, <1>7, <1>9 DEF StoreIInv, FilesKnown
  <1>13. \A q \in Programs : SaveState(q)'
    BY <1>1, <1>2, <1>4, <1>5, <1>8, <1>9 DEF SaveState, InSave, SaveSteps
  <1>14. Checked'
    <2>1. Loadable(a, s)
      BY <1>4, ContentsFacts DEF Loadable
    <2>2. CASE p = "service"
      <3>1. \A b \in A : Accepted(b)
        BY <1>1, <2>2 DEF StoreIInv, Checked, SaveSteps
      <3> QED
        BY <1>2, <1>5, <1>8, <1>9, <2>1, <2>2, <3>1 DEF Checked, Accepted, Loadable
    <2>3. CASE p # "service"
      BY <1>8, <2>3 DEF Checked, Programs, SaveSteps
    <2> QED
      BY <2>2, <2>3
  <1>15. LegacyOnly'
    BY <1>1 DEF StoreIInv, LegacyOnly, bakVars
  <1>16. a \in reused \/ legacy[a] = Absent \/ BackupSafe(a)
    <2>1. CASE p = "service"
      <3>1. Accepted(a)
        BY <1>1, <2>1 DEF StoreIInv, Checked, SaveSteps
      <3>2. legacy[a] # Absent => dir.file[a] # legacy[a]
        BY <1>1, <3>1, ContentsFacts DEF StoreIInv, LegacyOnly, Accepted, Loadable
      <3> QED
        BY <1>1, <3>2 DEF StoreIInv, LegacySafe
    <2>2. CASE p = "migrate"
      BY <1>1, <2>2 DEF StoreIInv, Migrating, a
    <2> QED
      BY <2>1, <2>2 DEF Programs
  <1>17. LegacySafe'
    <2> SUFFICES ASSUME NEW b \in A \ reused, legacy[b] # Absent
                 PROVE  /\ \A d \in possible' \cup {dir'} : legacy[b] \in {d.file[b], d.bak[b]}
                        /\ dir'.file[b] # legacy[b] => BackupSafe(b)'
      BY <1>1 DEF LegacySafe, bakVars
    <2>1. /\ \A d \in possible \cup {dir} : legacy[b] \in {d.file[b], d.bak[b]}
          /\ dir.file[b] # legacy[b] => BackupSafe(b)
      BY DEF StoreIInv, LegacySafe
    <2>2. new.file[b] = legacy[b] \/ BackupSafe(b)
      BY <1>9, <1>16, <2>1
    <2>3. \A d \in Survivors(new) \cup {new} : legacy[b] \in {d.file[b], d.bak[b]}
      BY <1>6, <1>7, <2>2 DEF BackupSafe
    <2> QED
      BY <1>1, <1>5, <1>6, <2>1, <2>2, <2>3 DEF BackupSafe, bakVars
  <1>18. Migrating'
    BY <1>1, <1>2, <1>5, <1>6, <1>8 DEF StoreIInv, Migrating, BackupSafe, InSave, SaveSteps,
       Programs, bakVars, a
  <1> QED
    BY <1>10, <1>11, <1>12, <1>13, <1>14, <1>15, <1>17, <1>18 DEF StoreIInv

LEMMA SaveDirectoryKeeps ==
  ASSUME StoreIInv, NEW p \in Programs, SaveDirectory(p)
  PROVE  StoreIInv'
  <1> DEFINE a == proc[p].a
             s == proc[p].data
             x == [Down EXCEPT !.at = proc[p].back]
  <1>1. /\ InSave(p) /\ proc[p].at = "dirsync" /\ proc[p] \in Procs /\ a \in A
        /\ UNCHANGED <<dir, lock, params, bakVars>>
        /\ possible' = Survivors(dir) /\ known' = [known EXCEPT ![a] = {s}]
    BY DEF SaveDirectory, InSave, SaveSteps, StoreIInv, TypeOK, Procs
  <1>2. /\ p = "service" => proc[p].back \in {"create", "run"}
        /\ p = "migrate" => proc[p].back = "done"
    BY <1>1 DEF StoreIInv, Exclusive
  <1>3. proc[p].back \in {"create", "run", "done"} /\ proc[p].back \in Steps
    BY <1>2 DEF Programs, Steps
  <1>4. x \in Procs /\ x.at = proc[p].back
    BY <1>3, DownTyped, Zenon
  <1>5. proc' = [proc EXCEPT ![p] = x]
    BY DEF SaveDirectory
  <1>6. s \in Snapshots /\ s.schema = Schema[a] /\ s = dir.file[a] /\ s \in Contents
    BY <1>1, ContentsFacts DEF StoreIInv, SaveState
  <1>7. \A e \in Survivors(dir) :
          /\ e \in Directories /\ e.file = dir.file
          /\ \A b \in A : e.bak[b] = dir.bak[b] \/ b \in unsynced
    BY SurvivorsKeep DEF StoreIInv, TypeOK
  <1>8. alarm' \in [A -> BOOLEAN] /\ answer' \in {"none", "ok", "abort"}
    BY DEF SaveDirectory, StoreIInv, TypeOK
  <1> HIDE DEF x, s, a
  <1>9. /\ proc' \in [Programs -> Procs] /\ proc'[p] = x /\ lock = p
        /\ \A q \in Programs \ {p} : proc'[q] = proc[q] /\ proc[q].at = "down"
    BY <1>1, <1>4, <1>5, SaveFrame
  <1>10. \A b \in A : known'[b] = IF b = a THEN {s} ELSE known[b]
    BY <1>1 DEF StoreIInv, TypeOK
  <1>11. TypeOK'
    <2>1. known' \in [A -> SUBSET Contents]
      BY <1>1, <1>6 DEF StoreIInv, TypeOK
    <2> QED
      BY <1>1, <1>7, <1>8, <1>9, <2>1 DEF StoreIInv, TypeOK, bakVars
  <1>12. Exclusive'
    BY <1>1, <1>2, <1>3, <1>4, <1>9 DEF StoreIInv, Exclusive, InSave, SaveSteps, Programs
  <1>13. FilesKnown'
    BY <1>1, <1>6, <1>7, <1>10 DEF StoreIInv, FilesKnown
  <1>14. \A q \in Programs : SaveState(q)'
    BY <1>3, <1>4, <1>9 DEF SaveState, InSave, SaveSteps
  <1>15. Checked'
    BY <1>1, <1>2, <1>4, <1>9 DEF StoreIInv, Checked, Accepted, Loadable, InSave, SaveSteps,
       Programs
  <1>16. LegacyOnly'
    BY <1>1, <1>6, <1>10 DEF StoreIInv, LegacyOnly, bakVars
  <1>17. LegacySafe'
    BY <1>1, <1>7 DEF StoreIInv, LegacySafe, BackupSafe, bakVars
  <1>18. Migrating'
    BY <1>2, <1>4, <1>9 DEF Migrating, InSave, SaveSteps, Programs
  <1> QED
    BY <1>11, <1>12, <1>13, <1>14, <1>15, <1>16, <1>17, <1>18 DEF StoreIInv

\* A program ends, or a save command fails: the files stay as they are.
LEMMA EndKeeps ==
  ASSUME StoreIInv, NEW p \in Programs, proc[p].at # "down", NEW x \in Procs,
         proc' = [proc EXCEPT ![p] = x],
         \/ x.at = "down" /\ lock' = "none"
         \/ p = "service" /\ x.at = "run" /\ lock' = lock /\ InSave("service"),
         UNCHANGED <<dir, possible, params, known, bakVars>>,
         alarm' \in [A -> BOOLEAN], answer' \in {"none", "ok", "abort"}
  PROVE  StoreIInv'
  <1>1. /\ proc' \in [Programs -> Procs] /\ proc'[p] = x /\ lock = p
        /\ \A q \in Programs \ {p} : proc'[q] = proc[q] /\ proc[q].at = "down"
    BY OthersDown DEF StoreIInv, TypeOK, Exclusive
  <1>2. TypeOK'
    BY <1>1 DEF StoreIInv, TypeOK, bakVars
  <1>3. Exclusive'
    BY <1>1 DEF Exclusive, InSave, SaveSteps, Programs
  <1>4. \A q \in Programs : SaveState(q)'
    BY <1>1 DEF SaveState, InSave, SaveSteps
  <1>5. Checked'
    BY <1>1 DEF StoreIInv, Checked, Accepted, Loadable, InSave, SaveSteps, Programs
  <1>6. Migrating'
    BY <1>1 DEF Migrating, InSave, SaveSteps, Programs
  <1> QED
    BY <1>2, <1>3, <1>4, <1>5, <1>6, FilesUnchanged DEF StoreIInv

LEMMA SaveFailsKeeps ==
  ASSUME StoreIInv, NEW p \in Programs, SaveFails(p)
  PROVE  StoreIInv'
  <1>1. /\ InSave(p) /\ proc[p].at # "down" /\ proc[p].a \in A
        /\ UNCHANGED <<dir, possible, params, known, bakVars>>
    BY DEF SaveFails, InSave, SaveSteps, StoreIInv, TypeOK, Procs
  <1>2. lock = p /\ (proc[p].back = "run" => p = "service")
    BY <1>1 DEF StoreIInv, Exclusive, Programs
  <1>3. CASE proc[p].back = "run"
    <2> DEFINE x == [Down EXCEPT !.at = "run"]
    <2>1. x \in Procs /\ x.at = "run"
      BY DownTyped DEF Steps
    <2>2. proc' = [proc EXCEPT ![p] = x] /\ lock' = lock
      BY <1>3 DEF SaveFails
    <2>3. alarm' \in [A -> BOOLEAN] /\ answer' \in {"none", "ok", "abort"}
      BY <1>1, <1>3 DEF SaveFails, StoreIInv, TypeOK
    <2> HIDE DEF x
    <2> QED
      BY <1>1, <1>2, <1>3, <2>1, <2>2, <2>3, EndKeeps
  <1>4. CASE proc[p].back # "run"
    <2>1. proc' = [proc EXCEPT ![p] = Down] /\ lock' = "none"
      BY <1>2, <1>4 DEF SaveFails, End
    <2>2. alarm' \in [A -> BOOLEAN] /\ answer' \in {"none", "ok", "abort"}
      BY <1>4 DEF SaveFails, StoreIInv, TypeOK
    <2> QED
      BY <1>1, <2>1, <2>2, DownTyped, EndKeeps
  <1> QED
    BY <1>3, <1>4

LEMMA ExitKeeps ==
  ASSUME StoreIInv, NEW p \in Programs, Exit(p)
  PROVE  StoreIInv'
  <1>1. /\ proc[p].at # "down" /\ proc' = [proc EXCEPT ![p] = Down] /\ lock' = "none"
        /\ UNCHANGED <<dir, possible, params, known, bakVars>>
    BY DEF Exit, End, StoreIInv, Exclusive
  <1>2. alarm' \in [A -> BOOLEAN] /\ answer' \in {"none", "ok", "abort"}
    BY DEF Exit, StoreIInv, TypeOK
  <1> QED
    BY <1>1, <1>2, DownTyped, EndKeeps

LEMMA PowerLossKeeps ==
  ASSUME StoreIInv, PowerLoss
  PROVE  StoreIInv'
  <1>1. PICK d \in possible : dir' = d /\ possible' = {d}
    BY DEF PowerLoss
  <1>2. /\ \A p \in Programs : proc'[p] = Down /\ proc'[p].at = "down"
        /\ proc' \in [Programs -> Procs]
        /\ lock' = "none" /\ unsynced' = {} /\ answer' = "none"
        /\ UNCHANGED <<params, alarm, known, reused, legacy>>
    BY DownTyped DEF PowerLoss
  <1>3. TypeOK'
    BY <1>1, <1>2 DEF StoreIInv, TypeOK
  <1>4. Exclusive' /\ Checked' /\ Migrating' /\ \A p \in Programs : SaveState(p)'
    BY <1>2 DEF Exclusive, Checked, Migrating, SaveState, InSave, SaveSteps, Programs
  <1>5. FilesKnown' /\ LegacyOnly'
    BY <1>1, <1>2 DEF StoreIInv, FilesKnown, LegacyOnly
  <1>6. LegacySafe'
    BY <1>1, <1>2 DEF StoreIInv, LegacySafe, BackupSafe
  <1> QED
    BY <1>3, <1>4, <1>5, <1>6 DEF StoreIInv

(***************************************************************************)
(* The service.                                                            *)
(***************************************************************************)

LEMMA StartKeeps ==
  ASSUME StoreIInv, Start
  PROVE  StoreIInv'
  <1> DEFINE x == [proc["service"] EXCEPT !.at = "load", !.a = 1]
  <1>1. /\ proc["service"] \in Procs /\ lock = "none" /\ lock' = "service"
        /\ UNCHANGED <<dir, possible, known, bakVars>>
        /\ params' \in [A -> Values] /\ alarm' \in [A -> BOOLEAN] /\ answer' = "none"
    BY StoreAssumption DEF Start, Lock, StoreIInv, TypeOK, Programs
  <1>2. 1 \in A /\ A \subseteq Nat /\ \A a \in A : ~(a < 1)
    BY StoreAssumption DEF A
  <1>3. x \in Procs /\ x.at = "load" /\ x.a = 1
    BY <1>1, <1>2 DEF Procs, Steps
  <1>4. proc' = [proc EXCEPT !["service"] = x]
    BY DEF Start, StoreIInv, TypeOK
  <1> HIDE DEF x
  <1>5. /\ proc' \in [Programs -> Procs] /\ proc'["service"] = x
        /\ proc'["migrate"] = proc["migrate"] /\ proc["migrate"].at = "down"
    BY <1>1, <1>3, <1>4 DEF StoreIInv, TypeOK, Exclusive, Programs
  <1>6. TypeOK'
    BY <1>1, <1>5 DEF StoreIInv, TypeOK, Programs, bakVars
  <1>7. /\ Exclusive' /\ Checked' /\ Migrating' /\ \A p \in Programs : SaveState(p)'
    BY <1>1, <1>2, <1>3, <1>5 DEF Exclusive, Checked, Migrating, SaveState, InSave, SaveSteps,
       Programs
  <1> QED
    BY <1>1, <1>6, <1>7, FilesUnchanged DEF StoreIInv

LEMMA LoadKeeps ==
  ASSUME StoreIInv, Load
  PROVE  StoreIInv'
  <1> DEFINE a == proc["service"].a
             c == dir.file[a]
             x == AfterLoad(a)
  <1>1. /\ proc["service"].at = "load" /\ a \in A /\ c \in Contents
        /\ UNCHANGED <<dir, possible, alarm, known, bakVars>> /\ answer' = "none"
    BY DEF Load, StoreIInv, TypeOK, Programs, Procs, Directories
  <1>2. CASE c # Absent /\ ~Loadable(a, c)
    <2>1. proc' = [proc EXCEPT !["service"] = Down] /\ lock' = "none" /\ params' = params
      BY <1>1, <1>2 DEF Load, End, StoreIInv, Exclusive, Programs
    <2> QED
      BY <1>1, <2>1, DownTyped, EndKeeps DEF StoreIInv, TypeOK, Programs
  <1>3. CASE c = Absent \/ Loadable(a, c)
    <2>1. /\ proc' = [proc EXCEPT !["service"] = x] /\ lock' = lock
          /\ params' = IF c = Absent THEN params ELSE [params EXCEPT ![a] = c.val]
      BY <1>3 DEF Load
    <2>2. params' \in [A -> Values]
      BY <1>1, <1>3, <2>1, ContentsFacts DEF Loadable, StoreIInv, TypeOK
    <2>3. \A d \in A : /\ d # Sets => d + 1 \in A
                       /\ \A b \in A : d = Sets \/ b < d + 1 => b < d \/ b = d
      BY StoreAssumption DEF A
    <2>4. /\ x \in Procs
          /\ \/ x.at = "create" /\ a = Sets
             \/ x.at = "load" /\ x.a = a + 1
      <3>1. CASE a = Sets
        BY <3>1, DownTyped DEF AfterLoad, Steps
      <3>2. CASE a # Sets
        <4>1. a + 1 \in A /\ "load" \in Steps
          BY <1>1, <2>3, <3>2, Zenon DEF Steps
        <4>2. x = [Down EXCEPT !.at = "load", !.a = a + 1]
          BY <3>2 DEF AfterLoad
        <4> HIDE DEF x, a
        <4> QED
          BY <4>1, <4>2, DownTyped, Zenon
      <3> QED
        BY <3>1, <3>2
    <2>5. Accepted(a)
      BY <1>3 DEF Accepted
    <2> HIDE DEF x
    <2>6. /\ proc' \in [Programs -> Procs] /\ proc'["service"] = x
          /\ lock = "service"
          /\ proc'["migrate"] = proc["migrate"] /\ proc["migrate"].at = "down"
      BY <1>1, <2>1, <2>4 DEF StoreIInv, TypeOK, Exclusive, Programs
    <2>7. TypeOK'
      BY <1>1, <2>1, <2>2, <2>6 DEF StoreIInv, TypeOK, bakVars
    <2>8. Exclusive' /\ Migrating' /\ \A p \in Programs : SaveState(p)'
      BY <2>1, <2>4, <2>6 DEF Exclusive, Migrating, SaveState, InSave, SaveSteps, Programs
    <2>9. Checked'
      <3>1. \A b \in A : b < a => Accepted(b)
        BY <1>1 DEF StoreIInv, Checked
      <3>2. \A b \in A : (a = Sets \/ b < a + 1) => Accepted(b)
        BY <1>1, <2>3, <2>5, <3>1, Zenon
      <3>3. \A b \in A : Accepted(b)' <=> Accepted(b)
        BY <1>1 DEF Accepted, Loadable
      <3> QED
        BY <2>4, <2>6, <3>2, <3>3 DEF Checked, SaveSteps
    <2> QED
      BY <1>1, <2>7, <2>8, <2>9, FilesUnchanged DEF StoreIInv
  <1> QED
    BY <1>2, <1>3

\* Entering save: the program, and the snapshot that is known from now on.
LEMMA BeginProgram ==
  ASSUME StoreIInv, NEW p \in Programs, NEW a \in A, NEW s \in Snapshots, s.schema = Schema[a],
         NEW back, \/ p = "service" /\ back \in {"create", "run"}
                   \/ p = "migrate" /\ back = "done",
         BeginSave(p, a, s, back), dir' = dir, lock' = p,
         proc[p].at # "down" \/ lock = "none"
  PROVE  /\ proc' \in [Programs -> Procs] /\ known' \in [A -> SUBSET Contents]
         /\ proc'[p].at = "write" /\ proc'[p].a = a
         /\ \A q \in Programs \ {p} : proc'[q].at = "down"
         /\ known' = [known EXCEPT ![a] = @ \cup {s}]
         /\ Exclusive' /\ \A q \in Programs : SaveState(q)'
  <1> DEFINE x == [at |-> "write", a |-> a, data |-> s, temp |-> Absent,
                   old |-> dir.file[a], back |-> back]
  <1>1. proc' = [proc EXCEPT ![p] = x] /\ known' = [known EXCEPT ![a] = @ \cup {s}]
    BY DEF BeginSave
  <1>2. /\ x \in Procs /\ x.at = "write" /\ x.a = a /\ x.data = s /\ x.back = back
        /\ x.old = dir.file[a]
    BY ContentsFacts DEF Procs, Steps, StoreIInv, TypeOK, Directories
  <1> HIDE DEF x
  <1>3. \A q \in Programs \ {p} : proc[q].at = "down"
    BY OthersDown DEF StoreIInv, Exclusive, Programs
  <1>4. /\ proc' \in [Programs -> Procs] /\ proc'[p] = x
        /\ \A q \in Programs \ {p} : proc'[q].at = "down"
    BY <1>1, <1>2, <1>3 DEF StoreIInv, TypeOK
  <1>5. known' \in [A -> SUBSET Contents] /\ s \in known'[a]
    BY <1>1, ContentsFacts DEF StoreIInv, TypeOK
  <1>6. Exclusive'
    BY <1>2, <1>4 DEF Exclusive, InSave, SaveSteps, Programs
  <1>7. \A q \in Programs : SaveState(q)'
    BY <1>2, <1>4, <1>5 DEF SaveState, InSave, SaveSteps
  <1> QED
    BY <1>1, <1>2, <1>4, <1>5, <1>6, <1>7

LEMMA BeginFiles ==
  ASSUME StoreIInv, NEW a \in A, NEW s \in Snapshots, s.schema = Schema[a],
         known' = [known EXCEPT ![a] = @ \cup {s}], legacy' = legacy
  PROVE  /\ \A b \in A : known[b] \subseteq known'[b]
         /\ \A b \in A : known'[b] \subseteq Snapshots \cup {Absent}
         /\ LegacyOnly'
  <1>1. \A b \in A : known'[b] = known[b] \/ (b = a /\ known'[b] = known[b] \cup {s})
    BY DEF StoreIInv, TypeOK
  <1> QED
    BY <1>1 DEF StoreIInv, FilesKnown, LegacyOnly

\* The service begins a save, at startup or for a save command.
LEMMA ServiceSaveKeeps ==
  ASSUME StoreIInv, NEW a \in A, NEW back \in {"create", "run"},
         proc["service"].at \in {"create", "run"},
         BeginSave("service", a, Good(Schema[a], params[a]), back), answer' = "none",
         UNCHANGED <<dir, possible, lock, params, alarm, bakVars>>
  PROVE  StoreIInv'
  <1> DEFINE s == Good(Schema[a], params[a])
  <1>1. s \in Snapshots /\ s.schema = Schema[a]
    BY ContentsFacts, StoreAssumption DEF StoreIInv, TypeOK, A
  <1>2. lock = "service" /\ "service" \in Programs
    BY DEF StoreIInv, Exclusive, Programs
  <1> HIDE DEF s
  <1>3. BeginSave("service", a, s, back)
    BY DEF s
  <1>4. /\ proc' \in [Programs -> Procs] /\ known' \in [A -> SUBSET Contents]
        /\ proc'["service"].at = "write"
        /\ \A q \in Programs \ {"service"} : proc'[q].at = "down"
        /\ known' = [known EXCEPT ![a] = @ \cup {s}]
        /\ Exclusive' /\ \A q \in Programs : SaveState(q)'
    BY <1>1, <1>2, <1>3, BeginProgram
  <1>5. /\ \A b \in A : known[b] \subseteq known'[b]
        /\ \A b \in A : known'[b] \subseteq Snapshots \cup {Absent}
        /\ LegacyOnly'
    BY <1>1, <1>4, BeginFiles DEF bakVars
  <1>6. TypeOK'
    BY <1>4 DEF StoreIInv, TypeOK, bakVars
  <1>7. FilesKnown'
    BY <1>5 DEF StoreIInv, FilesKnown
  <1>8. Checked'
    BY <1>4 DEF StoreIInv, Checked, Accepted, Loadable, SaveSteps
  <1>9. LegacySafe'
    BY DEF StoreIInv, LegacySafe, BackupSafe, bakVars
  <1>10. Migrating'
    BY <1>4 DEF Migrating, InSave, SaveSteps, Programs
  <1> QED
    BY <1>4, <1>5, <1>6, <1>7, <1>8, <1>9, <1>10 DEF StoreIInv

LEMMA ServiceKeeps ==
  ASSUME StoreIInv, Service
  PROVE  StoreIInv'
  <1>1. CASE Start
    BY <1>1, StartKeeps
  <1>2. CASE Load
    BY <1>2, LoadKeeps
  <1>3. CASE Create
    <2>1. CASE \E a \in A : BeginSave("service", a, Good(Schema[a], params[a]), "create")
      BY <1>3, <2>1, ServiceSaveKeeps DEF Create
    <2>2. CASE Goto("service", "run") /\ UNCHANGED known
      <3> DEFINE x == [proc["service"] EXCEPT !.at = "run"]
      <3>1. /\ proc["service"].at = "create" /\ proc["service"] \in Procs /\ lock = "service"
            /\ UNCHANGED <<dir, possible, lock, params, alarm, known, bakVars>>
            /\ answer' = "none"
        BY <1>3, <2>2 DEF Create, StoreIInv, TypeOK, Exclusive, Programs
      <3>2. x \in Procs /\ x.at = "run"
        BY <3>1 DEF Procs, Steps
      <3>3. proc' = [proc EXCEPT !["service"] = x]
        BY <2>2 DEF Goto, StoreIInv, TypeOK
      <3> HIDE DEF x
      <3>4. /\ proc' \in [Programs -> Procs] /\ proc'["service"] = x
            /\ proc'["migrate"] = proc["migrate"] /\ proc["migrate"].at = "down"
        BY <3>1, <3>2, <3>3 DEF StoreIInv, TypeOK, Exclusive, Programs
      <3>5. TypeOK'
        BY <3>1, <3>4 DEF StoreIInv, TypeOK, bakVars
      <3>6. Exclusive' /\ Migrating' /\ \A p \in Programs : SaveState(p)'
        BY <3>1, <3>2, <3>4 DEF Exclusive, Migrating, SaveState, InSave, SaveSteps, Programs
      <3>7. Checked'
        BY <3>1, <3>2, <3>4 DEF StoreIInv, Checked, Accepted, Loadable
      <3> QED
        BY <3>1, <3>5, <3>6, <3>7, FilesUnchanged DEF StoreIInv
    <2> QED
      BY <1>3, <2>1, <2>2 DEF Create
  <1>4. CASE SaveRefused \/ \E a \in A, v \in Values : WriteParameter(a, v)
    <2>1. /\ UNCHANGED <<dir, possible, lock, proc, alarm, known, bakVars>>
          /\ params' \in [A -> Values] /\ answer' \in {"none", "ok", "abort"}
      BY <1>4 DEF SaveRefused, WriteParameter, StoreIInv, TypeOK
    <2>2. TypeOK'
      BY <2>1 DEF StoreIInv, TypeOK, bakVars
    <2>3. Exclusive' /\ Checked' /\ Migrating' /\ \A p \in Programs : SaveState(p)'
      BY <2>1 DEF StoreIInv, Exclusive, Checked, Migrating, SaveState, InSave, Accepted, Loadable,
         BackupSafe, bakVars
    <2> QED
      BY <2>1, <2>2, <2>3, FilesUnchanged DEF StoreIInv
  <1>5. CASE \E a \in A : SaveCommand(a)
    BY <1>5, ServiceSaveKeeps DEF SaveCommand
  <1> QED
    BY <1>1, <1>2, <1>3, <1>4, <1>5 DEF Service

(***************************************************************************)
(* The migration.                                                          *)
(***************************************************************************)

LEMMA MigrateStartKeeps ==
  ASSUME StoreIInv, NEW a \in A, MigrateStart(a)
  PROVE  StoreIInv'
  <1> DEFINE c == dir.file[a]
             b == dir.bak[a]
  <1>1. /\ "migrate" \in Programs /\ proc["migrate"].at = "down" /\ proc["migrate"] \in Procs
        /\ lock = "none" /\ lock' = "migrate"
        /\ Schema[a] = 2 /\ c.kind = "good" /\ c.schema = 1 /\ b \in {Absent, c}
        /\ reused' = IF b = Absent THEN reused ELSE reused \cup (unsynced \cap {a})
        /\ answer' = "none"
        /\ UNCHANGED <<dir, possible, params, alarm, unsynced, legacy>>
    BY DEF MigrateStart, Lock, StoreIInv, TypeOK, Programs
  <1>2. c \in Contents /\ c \in known[a]
    BY DEF StoreIInv, TypeOK, Directories, FilesKnown
  <1>3. c \in Snapshots /\ c = legacy[a]
    BY <1>1, <1>2, ContentsFacts DEF StoreIInv, LegacyOnly
  <1>4. reused \subseteq reused' /\ reused' \subseteq A
    BY <1>1 DEF StoreIInv, TypeOK
  <1>5. LegacySafe'
    BY <1>1, <1>4 DEF StoreIInv, LegacySafe, BackupSafe
  <1>6. proc["service"].at = "down"
    BY <1>1 DEF StoreIInv, Exclusive, Programs
  <1>7. CASE b = Absent
    <2> DEFINE x == [proc["migrate"] EXCEPT !.at = "backup", !.a = a, !.data = c]
    <2>1. known' = known /\ proc' = [proc EXCEPT !["migrate"] = x]
      BY <1>7 DEF MigrateStart, StoreIInv, TypeOK
    <2>2. x \in Procs /\ x.at = "backup" /\ x.a = a /\ x.data = c
      BY <1>1, <1>2 DEF Procs, Steps
    <2> HIDE DEF x
    <2>3. /\ proc' \in [Programs -> Procs] /\ proc'["migrate"] = x
          /\ proc'["service"].at = "down"
      BY <1>1, <1>6, <2>1, <2>2 DEF StoreIInv, TypeOK, Programs
    <2>4. TypeOK'
      BY <1>1, <1>4, <2>1, <2>3 DEF StoreIInv, TypeOK
    <2>5. Exclusive' /\ Checked' /\ \A p \in Programs : SaveState(p)'
      BY <1>1, <2>2, <2>3 DEF Exclusive, Checked, SaveState, InSave, SaveSteps, Programs
    <2>6. FilesKnown' /\ LegacyOnly'
      BY <1>1, <2>1 DEF StoreIInv, FilesKnown, LegacyOnly
    <2>7. Migrating'
      BY <1>1, <1>3, <2>2, <2>3 DEF Migrating, InSave, SaveSteps
    <2> QED
      BY <1>5, <2>4, <2>5, <2>6, <2>7 DEF StoreIInv
  <1>8. CASE b # Absent
    <2> DEFINE s == Good(2, c.val)
    <2>1. s \in Snapshots /\ s.schema = Schema[a]
      BY <1>1, <1>3, ContentsFacts
    <2>2. BeginSave("migrate", a, s, "done")
      BY <1>8 DEF MigrateStart
    <2> HIDE DEF s
    <2>3. /\ proc' \in [Programs -> Procs] /\ known' \in [A -> SUBSET Contents]
          /\ proc'["migrate"].at = "write" /\ proc'["migrate"].a = a
          /\ \A q \in Programs \ {"migrate"} : proc'[q].at = "down"
          /\ known' = [known EXCEPT ![a] = @ \cup {s}]
          /\ Exclusive' /\ \A q \in Programs : SaveState(q)'
      BY <1>1, <2>1, <2>2, BeginProgram
    <2>4. /\ \A e \in A : known[e] \subseteq known'[e]
          /\ \A e \in A : known'[e] \subseteq Snapshots \cup {Absent}
          /\ LegacyOnly'
      BY <1>1, <2>1, <2>3, BeginFiles
    <2>5. TypeOK'
      BY <1>1, <1>4, <2>3 DEF StoreIInv, TypeOK
    <2>6. FilesKnown'
      BY <1>1, <2>4 DEF StoreIInv, FilesKnown
    <2>7. Checked'
      BY <2>3 DEF Checked, SaveSteps, Programs
    <2>8. Migrating'
      <3>1. dir.bak[a] = legacy[a] /\ (a \in unsynced => a \in reused')
        BY <1>1, <1>3, <1>8
      <3> QED
        BY <1>1, <2>3, <3>1 DEF Migrating, BackupSafe, InSave, SaveSteps
    <2> QED
      BY <1>5, <2>3, <2>4, <2>5, <2>6, <2>7, <2>8 DEF StoreIInv
  <1> QED
    BY <1>7, <1>8

LEMMA MigrateBackupKeeps ==
  ASSUME StoreIInv, MigrateBackup
  PROVE  StoreIInv'
  <1> DEFINE a == proc["migrate"].a
             c == proc["migrate"].data
             torn == [dir EXCEPT !.bak[a] = Torn]
             full == [dir EXCEPT !.bak[a] = c]
             x == IF dir' = full THEN [proc["migrate"] EXCEPT !.at = "baksync"] ELSE Down
  <1>1. /\ "migrate" \in Programs /\ proc["migrate"].at = "backup" /\ proc["migrate"] \in Procs
        /\ lock = "migrate" /\ a \in A
        /\ unsynced' = unsynced \cup {a} /\ answer' = "none"
        /\ UNCHANGED <<params, alarm, known, reused, legacy>>
    BY DEF MigrateBackup, StoreIInv, TypeOK, Exclusive, Programs, Procs
  <1>2. c \in Snapshots /\ c \in Contents /\ c = legacy[a] /\ c = dir.file[a]
    BY <1>1, ContentsFacts DEF StoreIInv, Migrating
  <1>3. /\ torn \in Directories /\ torn.file = dir.file /\ torn.bak = [dir.bak EXCEPT ![a] = Torn]
        /\ full \in Directories /\ full.file = dir.file /\ full.bak = [dir.bak EXCEPT ![a] = c]
    BY <1>1, <1>2, ContentsFacts, BackupReplaced DEF StoreIInv, TypeOK
  <1>4. /\ dir' \in {torn, full}
        /\ possible' = possible \cup Survivors(torn) \cup Survivors(full)
        /\ IF dir' = full THEN Goto("migrate", "baksync") /\ UNCHANGED lock ELSE End("migrate")
    BY DEF MigrateBackup, Update
  <1>5. /\ proc' = [proc EXCEPT !["migrate"] = x]
        /\ IF dir' = full THEN lock' = "migrate" ELSE lock' = "none"
    BY <1>1, <1>4 DEF Goto, End, StoreIInv, TypeOK
  <1> HIDE DEF torn, full
  <1>6. /\ x \in Procs
        /\ IF dir' = full THEN x.at = "baksync" /\ x.a = a /\ x.data = c ELSE x.at = "down"
    <2>1. CASE dir' = full
      BY <1>1, <2>1 DEF Procs, Steps
    <2>2. CASE dir' # full
      BY <2>2, DownTyped
    <2> QED
      BY <2>1, <2>2
  <1> HIDE DEF x, c
  <1>7. /\ \A b \in A \ {a} : torn.bak[b] = dir.bak[b] /\ full.bak[b] = dir.bak[b]
        /\ full.bak[a] = c
    BY <1>1, <1>3 DEF StoreIInv, TypeOK, Directories
  <1>8. /\ dir' \in Directories /\ dir'.file = dir.file
        /\ \A b \in A \ {a} : dir'.bak[b] = dir.bak[b]
        /\ dir' = full => dir'.bak[a] = c
        /\ \A e \in Survivors(torn) \cup Survivors(full) :
             /\ e \in Directories /\ e.file = dir.file
             /\ \A b \in A \ {a} : e.bak[b] = dir.bak[b] \/ b \in unsynced
    BY <1>3, <1>4, <1>7, SurvivorsKeep
  <1>9. /\ proc' \in [Programs -> Procs] /\ proc'["migrate"] = x
        /\ proc'["service"] = proc["service"] /\ proc["service"].at = "down"
    BY <1>1, <1>5, <1>6 DEF StoreIInv, TypeOK, Exclusive, Programs
  <1>10. TypeOK'
    BY <1>1, <1>4, <1>5, <1>8, <1>9 DEF StoreIInv, TypeOK, Programs
  <1>11. Exclusive' /\ Checked' /\ \A p \in Programs : SaveState(p)'
    BY <1>5, <1>6, <1>9 DEF Exclusive, Checked, SaveState, InSave, SaveSteps, Programs
  <1>12. FilesKnown' /\ LegacyOnly'
    BY <1>1, <1>4, <1>8 DEF StoreIInv, FilesKnown, LegacyOnly
  <1>13. LegacySafe'
    <2> SUFFICES ASSUME NEW b \in A \ reused, legacy[b] # Absent
                 PROVE  /\ \A d \in possible' \cup {dir'} : legacy[b] \in {d.file[b], d.bak[b]}
                        /\ dir'.file[b] # legacy[b] => BackupSafe(b)'
      BY <1>1 DEF LegacySafe
    <2>1. /\ \A d \in possible \cup {dir} : legacy[b] \in {d.file[b], d.bak[b]}
          /\ dir.file[b] # legacy[b] => BackupSafe(b)
      BY DEF StoreIInv, LegacySafe
    <2>2. \A d \in Survivors(torn) \cup Survivors(full) \cup {dir'} :
            legacy[b] \in {d.file[b], d.bak[b]}
      BY <1>2, <1>8, <2>1 DEF BackupSafe
    <2>3. dir'.file[b] # legacy[b] => BackupSafe(b)'
      BY <1>1, <1>2, <1>8, <2>1 DEF BackupSafe
    <2> QED
      BY <1>4, <2>1, <2>2, <2>3
  <1>14. Migrating'
    BY <1>1, <1>2, <1>6, <1>8, <1>9 DEF Migrating, InSave, SaveSteps
  <1> QED
    BY <1>10, <1>11, <1>12, <1>13, <1>14 DEF StoreIInv

LEMMA MigrateSyncKeeps ==
  ASSUME StoreIInv, MigrateSync
  PROVE  StoreIInv'
  <1> DEFINE a == proc["migrate"].a
             c == proc["migrate"].data
             s == Good(2, c.val)
             synced(d) == [d EXCEPT !.bak[a] = IF @ = Torn THEN c ELSE @]
  <1>1. /\ "migrate" \in Programs /\ proc["migrate"].at = "baksync" /\ a \in A
        /\ lock = "migrate" /\ lock' = "migrate"
        /\ possible' = {synced(d) : d \in possible}
        /\ unsynced' = unsynced \ {a} /\ answer' = "none"
        /\ BeginSave("migrate", a, s, "done")
        /\ UNCHANGED <<dir, params, alarm, reused, legacy>>
    BY DEF MigrateSync, StoreIInv, TypeOK, Exclusive, Programs, Procs
  <1>2. /\ c \in Snapshots /\ c \in Contents /\ c = legacy[a] /\ c = dir.file[a]
        /\ dir.bak[a] = c
    BY <1>1, ContentsFacts DEF StoreIInv, Migrating
  <1>3. Schema[a] = 2
    <2>1. legacy[a] # Absent
      BY <1>2, ContentsFacts
    <2> QED
      BY <1>1, <2>1 DEF StoreIInv, LegacyOnly
  <1>4. s \in Snapshots /\ s.schema = Schema[a]
    BY <1>2, <1>3, ContentsFacts
  <1>5. ASSUME NEW d \in Directories
        PROVE  /\ synced(d) \in Directories /\ synced(d).file = d.file
               /\ \A b \in A : synced(d).bak[b] = d.bak[b] \/ (b = a /\ synced(d).bak[b] = c)
    BY <1>1, <1>2 DEF Directories
  <1> HIDE DEF s, synced
  <1>6. /\ proc' \in [Programs -> Procs] /\ known' \in [A -> SUBSET Contents]
        /\ proc'["migrate"].at = "write" /\ proc'["migrate"].a = a
        /\ \A q \in Programs \ {"migrate"} : proc'[q].at = "down"
        /\ known' = [known EXCEPT ![a] = @ \cup {s}]
        /\ Exclusive' /\ \A q \in Programs : SaveState(q)'
    BY <1>1, <1>4, BeginProgram
  <1>7. /\ \A e \in A : known[e] \subseteq known'[e]
        /\ \A e \in A : known'[e] \subseteq Snapshots \cup {Absent}
        /\ LegacyOnly'
    BY <1>1, <1>4, <1>6, BeginFiles
  <1>8. \A d \in possible : d \in Directories
    BY DEF StoreIInv, TypeOK
  <1>9. \A e \in possible' : \E d \in possible :
          /\ e \in Directories /\ e.file = d.file
          /\ \A b \in A : e.bak[b] = d.bak[b] \/ (b = a /\ e.bak[b] = c)
    BY <1>1, <1>5, <1>8
  <1>10. TypeOK'
    BY <1>1, <1>6, <1>9 DEF StoreIInv, TypeOK
  <1>11. FilesKnown'
    BY <1>1, <1>7, <1>9 DEF StoreIInv, FilesKnown
  <1>12. Checked'
    BY <1>6 DEF Checked, SaveSteps, Programs
  <1>13. LegacySafe'
    <2> SUFFICES ASSUME NEW b \in A \ reused, legacy[b] # Absent
                 PROVE  /\ \A d \in possible' \cup {dir'} : legacy[b] \in {d.file[b], d.bak[b]}
                        /\ dir'.file[b] # legacy[b] => BackupSafe(b)'
      BY <1>1 DEF LegacySafe
    <2>1. /\ \A d \in possible \cup {dir} : legacy[b] \in {d.file[b], d.bak[b]}
          /\ dir.file[b] # legacy[b] => BackupSafe(b)
      BY DEF StoreIInv, LegacySafe
    <2>2. \A e \in possible' : legacy[b] \in {e.file[b], e.bak[b]}
      BY <1>2, <1>9, <2>1
    <2> QED
      BY <1>1, <2>1, <2>2 DEF BackupSafe
  <1>14. Migrating'
    BY <1>1, <1>2, <1>6 DEF Migrating, BackupSafe, InSave, SaveSteps
  <1> QED
    BY <1>6, <1>7, <1>10, <1>11, <1>12, <1>13, <1>14 DEF StoreIInv

(***************************************************************************)
(* The theorems.                                                           *)
(***************************************************************************)

LEMMA NextKeeps ==
  ASSUME StoreIInv, [Next]_vars
  PROVE  StoreIInv'
  <1>1. CASE Save
    BY <1>1, SaveWriteKeeps, SaveReplaceKeeps, SaveDirectoryKeeps, SaveFailsKeeps DEF Save
  <1>2. CASE Service
    BY <1>2, ServiceKeeps
  <1>3. CASE Migrate
    BY <1>3, MigrateStartKeeps, MigrateBackupKeeps, MigrateSyncKeeps DEF Migrate
  <1>4. CASE (\E p \in Programs : Exit(p)) \/ PowerLoss
    BY <1>4, ExitKeeps, PowerLossKeeps
  <1>5. CASE UNCHANGED vars
    <2>1. /\ UNCHANGED <<dir, possible, known, bakVars>>
          /\ UNCHANGED <<lock, proc, params, alarm, answer>>
      BY <1>5 DEF vars
    <2>2. TypeOK'
      BY <2>1 DEF StoreIInv, TypeOK, bakVars
    <2>3. Exclusive' /\ Checked' /\ Migrating' /\ \A p \in Programs : SaveState(p)'
      BY <2>1 DEF StoreIInv, Exclusive, Checked, Migrating, SaveState, InSave, Accepted, Loadable,
         BackupSafe, bakVars
    <2> QED
      BY <2>1, <2>2, <2>3, FilesUnchanged DEF StoreIInv
  <1> QED
    BY <1>1, <1>2, <1>3, <1>4, <1>5 DEF Next

\* The inductive invariant holds.
THEOREM StoreInvariant == Spec => []StoreIInv
  <1>1. Init => StoreIInv
    <2> SUFFICES ASSUME Init PROVE StoreIInv
      OBVIOUS
    <2>1. PICK f \in [A -> Snapshots \cup {Absent}] :
             /\ \A a \in A : f[a] # Absent => f[a].schema <= Schema[a]
             /\ dir = [file |-> f, bak |-> [a \in A |-> Absent]]
             /\ possible = {dir}
             /\ known = [a \in A |-> {f[a]}]
             /\ legacy = [a \in A |-> IF f[a] # Absent /\ f[a].schema < Schema[a]
                                      THEN f[a] ELSE Absent]
      BY DEF Init
    <2>2. /\ lock = "none" /\ params = [a \in A |-> Default] /\ alarm = [a \in A |-> FALSE]
          /\ answer = "none" /\ unsynced = {} /\ reused = {}
          /\ proc \in [Programs -> Procs] /\ \A p \in Programs : proc[p].at = "down"
      BY DownTyped DEF Init
    <2>3. /\ dir \in Directories /\ dir.file = f
          /\ known \in [A -> SUBSET Contents] /\ legacy \in [A -> Contents]
      BY <2>1, ContentsFacts DEF Directories
    <2>4. TypeOK
      BY <2>1, <2>2, <2>3, StoreAssumption DEF TypeOK
    <2>5. Exclusive /\ Checked /\ Migrating /\ \A p \in Programs : SaveState(p)
      BY <2>2 DEF Exclusive, Checked, Migrating, SaveState, InSave, SaveSteps, Programs
    <2>6. FilesKnown
      BY <2>1, <2>3 DEF FilesKnown
    <2>7. ASSUME NEW a \in A
          PROVE  /\ legacy[a] # Absent =>
                      legacy[a] \in Snapshots /\ legacy[a].schema = 1 /\ Schema[a] = 2
                 /\ \A s \in known[a] : s.kind = "good" /\ s.schema # Schema[a] => s = legacy[a]
                 /\ legacy[a] # Absent => legacy[a] = f[a]
      <3>1. Schema[a] \in {1, 2} /\ f[a] \in Snapshots \cup {Absent} /\ known[a] = {f[a]}
        BY <2>1, StoreAssumption DEF A
      <3>2. f[a] # Absent => f[a].schema \in {1, 2} /\ f[a].schema <= Schema[a]
        BY <2>1, <3>1, ContentsFacts
      <3>3. legacy[a] = IF f[a] # Absent /\ f[a].schema < Schema[a] THEN f[a] ELSE Absent
        BY <2>1
      <3> QED
        BY <3>1, <3>2, <3>3, ContentsFacts
    <2>8. LegacyOnly /\ LegacySafe
      BY <2>1, <2>3, <2>7 DEF LegacyOnly, LegacySafe
    <2> QED
      BY <2>4, <2>5, <2>6, <2>8 DEF StoreIInv
  <1>2. StoreIInv /\ [Next]_vars => StoreIInv'
    BY NextKeeps
  <1> QED
    BY <1>1, <1>2, PTL DEF Spec

\* Whatever file operation fails, and at whatever point a program is killed or
\* the power is lost, a parameter file is whole and holds the last successful
\* save or an attempt after it (ParameterStore.save).
THEOREM SnapshotsSurvive == Spec => []SnapshotDurable
  <1>1. StoreIInv => SnapshotDurable
    BY ContentsFacts DEF StoreIInv, FilesKnown, SnapshotDurable
  <1> QED
    BY <1>1, StoreInvariant, PTL

\* Startup creates no missing snapshot unless every other one can be loaded
\* (ModelFleet: "Validate all snapshots before creating any missing snapshot.").
THEOREM StoreCorrect == Spec => []StoreInv
  <1>1. StoreIInv => StoreInv
    BY DEF StoreIInv, StoreInv, NothingCreatedUnlessAllLoad, Checked, Accepted, SaveSteps
  <1> QED
    BY <1>1, StoreInvariant, PTL

\* The snapshot that a migration replaces survives it, in place or in the
\* backup (migrate_profile_velocity), except where an unsynced backup of a
\* killed attempt was taken as it was.
THEOREM LegacyNeverLost == Spec => []OriginalKept
  <1>1. StoreIInv => OriginalKept
    BY DEF StoreIInv, LegacySafe, OriginalKept
  <1> QED
    BY <1>1, StoreInvariant, PTL

\* A save command that is answered with an abort has kept the file it found,
\* unless only the sync of the directory failed.
THEOREM AbortKeepsFile == Spec => FailedSaveKeepsFile
  <1>1. ASSUME StoreIInv, Next, answer' = "abort", proc["service"].at # "run"
        PROVE  dir'.file[proc["service"].a] =
                 IF proc["service"].at = "dirsync" THEN proc["service"].data
                                                   ELSE proc["service"].old
    <2>1. PICK p \in Programs : SaveFails(p) /\ proc[p].back = "run"
      BY <1>1 DEF Next, Save, SaveWrite, SaveSync, SaveReplace, SaveDirectory, SaveFails, Service,
         Start, Load, Create, WriteParameter, SaveCommand, SaveRefused, Migrate, MigrateStart,
         MigrateBackup, MigrateSync, Exit, PowerLoss
    <2>2. InSave(p) /\ p = "service" /\ dir' = dir
      BY <1>1, <2>1 DEF SaveFails, InSave, SaveSteps, StoreIInv, Exclusive, Programs
    <2> QED
      BY <1>1, <2>2 DEF StoreIInv, SaveState
  <1>2. StoreIInv /\ [Next]_vars =>
          [LET c == proc["service"]
           IN  answer' = "abort" /\ c.at # "run" =>
                 dir'.file[c.a] = IF c.at = "dirsync" THEN c.data ELSE c.old]_vars
    BY <1>1
  <1> QED
    BY <1>2, StoreInvariant, PTL DEF Spec, FailedSaveKeepsFile

(***************************************************************************)
(* The store implements a register of snapshots.                           *)
(***************************************************************************)

\* The saves of programs in the states f.
SavesOf(f) ==
  {[set |-> f[p].a, data |-> f[p].data] : p \in {q \in Programs : f[q].at \in SaveSteps}}

LEMMA SavesNone ==
  ASSUME NEW f, \A q \in Programs : f[q].at \notin SaveSteps
  PROVE  SavesOf(f) = {}
  BY DEF SavesOf

LEMMA SavesOne ==
  ASSUME NEW f, NEW p \in Programs, f[p].at \in SaveSteps,
         \A q \in Programs \ {p} : f[q].at \notin SaveSteps
  PROVE  SavesOf(f) = {[set |-> f[p].a, data |-> f[p].data]}
  BY DEF SavesOf

LEMMA SavingIs == Saving = SavesOf(proc) /\ Saving' = SavesOf(proc')
  BY DEF Saving, SavesOf, SaveSteps

\* A save in progress is the only one, and one of the register's.
LEMMA SavingOne ==
  ASSUME StoreIInv, NEW p \in Programs, InSave(p)
  PROVE  /\ Saving = {[set |-> proc[p].a, data |-> proc[p].data]}
         /\ [set |-> proc[p].a, data |-> proc[p].data] \in Register!Saves
  <1>1. \A q \in Programs \ {p} : proc[q].at \notin SaveSteps
    BY OthersDown DEF InSave, SaveSteps
  <1>2. Saving = {[set |-> proc[p].a, data |-> proc[p].data]}
    BY <1>1, SavesOne, SavingIs DEF InSave
  <1>3. proc[p].a \in A /\ proc[p].data \in Snapshots
    BY DEF StoreIInv, TypeOK, Procs, SaveState
  <1> QED
    BY <1>2, <1>3 DEF Register!Saves

\* A step that starts or goes on with no save, and leaves the files alone, is a
\* stutter of the register or gives up a save.
LEMMA QuietRefines ==
  ASSUME StoreIInv, \A q \in Programs : proc'[q].at \notin SaveSteps,
         dir'.file = dir.file, known' = known
  PROVE  [Register!Next]_(Register!vars)
  <1>1. Saving' = {}
    BY SavesNone, SavingIs
  <1>2. CASE Saving = {}
    BY <1>1, <1>2 DEF Register!vars
  <1>3. CASE Saving # {}
    BY <1>1, <1>3 DEF Register!Next, Register!GiveUp
  <1> QED
    BY <1>2, <1>3

\* Entering save starts a write of the register.
LEMMA BeginRefines ==
  ASSUME StoreIInv, NEW p \in Programs, NEW a \in A, NEW s \in Snapshots, NEW back,
         BeginSave(p, a, s, back), ~InSave(p), proc[p].at # "down" \/ lock = "none", dir' = dir
  PROVE  Register!Next
  <1> DEFINE r == [set |-> a, data |-> s]
  <1>1. \A q \in Programs : proc[q].at \notin SaveSteps
    BY OthersDown DEF InSave, SaveSteps, StoreIInv, Exclusive, Programs
  <1>2. Saving = {}
    BY <1>1, SavesNone, SavingIs
  <1>3. /\ proc'[p].at = "write" /\ proc'[p].a = a /\ proc'[p].data = s
        /\ \A q \in Programs \ {p} : proc'[q] = proc[q]
    BY DEF BeginSave, StoreIInv, TypeOK
  <1>4. proc'[p].at \in SaveSteps /\ \A q \in Programs \ {p} : proc'[q].at \notin SaveSteps
    BY <1>1, <1>3 DEF SaveSteps
  <1>5. Saving' = {r}
    BY <1>3, <1>4, SavesOne, SavingIs
  <1>6. r \in Register!Saves /\ r.set = a /\ r.data = s
    BY DEF Register!Saves
  <1>7. known' = [known EXCEPT ![a] = @ \cup {s}] /\ dir'.file = dir.file
    BY DEF BeginSave
  <1> HIDE DEF r
  <1>8. Register!Begin(r)
    BY <1>2, <1>5, <1>6, <1>7 DEF Register!Begin
  <1> QED
    BY <1>6, <1>8 DEF Register!Next

\* The file operations of save: only os.replace changes what a reader finds,
\* only the sync of the directory what a power loss may leave.
LEMMA SaveRefines ==
  ASSUME StoreIInv, NEW p \in Programs,
         SaveWrite(p) \/ SaveSync(p) \/ SaveReplace(p) \/ SaveDirectory(p) \/ SaveFails(p)
  PROVE  [Register!Next]_(Register!vars)
  <1> DEFINE r == [set |-> proc[p].a, data |-> proc[p].data]
  <1>1. InSave(p)
    BY DEF SaveWrite, SaveSync, SaveReplace, SaveDirectory, SaveFails, InSave, SaveSteps
  <1>2. Saving = {r} /\ r \in Register!Saves /\ proc[p].a \in A
    BY <1>1, SavingOne DEF StoreIInv, TypeOK, Procs
  <1>3. \A q \in Programs \ {p} : proc[q].at \notin SaveSteps
    BY <1>1, OthersDown DEF InSave, SaveSteps
  <1>4. r.set = proc[p].a /\ r.data = proc[p].data
    OBVIOUS
  <1>5. ASSUME proc'[p].at \in SaveSteps, proc'[p].a = proc[p].a, proc'[p].data = proc[p].data,
               \A q \in Programs \ {p} : proc'[q] = proc[q]
        PROVE  Saving' = {r}
    BY <1>3, <1>5, SavesOne, SavingIs
  <1> HIDE DEF r
  <1>6. CASE SaveWrite(p) \/ SaveSync(p)
    <2>1. /\ proc'[p].at \in SaveSteps /\ proc'[p].a = proc[p].a /\ proc'[p].data = proc[p].data
          /\ \A q \in Programs \ {p} : proc'[q] = proc[q]
      BY <1>6 DEF SaveWrite, SaveSync, StoreIInv, TypeOK, Procs, SaveSteps
    <2> QED
      BY <1>2, <1>5, <1>6, <2>1 DEF SaveWrite, SaveSync, Register!vars
  <1>7. CASE SaveReplace(p)
    <2>1. /\ proc'[p].at \in SaveSteps /\ proc'[p].a = proc[p].a /\ proc'[p].data = proc[p].data
          /\ \A q \in Programs \ {p} : proc'[q] = proc[q]
      BY <1>7 DEF SaveReplace, Goto, StoreIInv, TypeOK, Procs, SaveSteps
    <2>2. dir'.file = [dir.file EXCEPT ![proc[p].a] = proc[p].data] /\ known' = known
      BY <1>7 DEF SaveReplace, Update, StoreIInv, TypeOK, Directories
    <2>3. Register!TakeEffect(r)
      BY <1>2, <1>4, <1>5, <2>1, <2>2 DEF Register!TakeEffect
    <2> QED
      BY <1>2, <2>3 DEF Register!Next
  <1>8. CASE SaveDirectory(p)
    <2>1. proc'[p].at \notin SaveSteps /\ \A q \in Programs \ {p} : proc'[q] = proc[q]
      <3>1. proc[p].back \in {"create", "run", "done"}
        BY <1>1 DEF StoreIInv, Exclusive, Programs
      <3>2. proc'[p] = [Down EXCEPT !.at = proc[p].back]
        BY <1>8 DEF SaveDirectory, StoreIInv, TypeOK
      <3>3. proc'[p].at = proc[p].back
        BY <3>2 DEF Down
      <3> QED
        BY <1>8, <3>1, <3>3 DEF SaveDirectory, StoreIInv, TypeOK, SaveSteps
    <2>2. Saving' = {}
      BY <1>3, <2>1, SavesNone, SavingIs
    <2>3. /\ dir.file[proc[p].a] = proc[p].data /\ dir' = dir
          /\ known' = [known EXCEPT ![proc[p].a] = {proc[p].data}]
      BY <1>1, <1>8 DEF SaveDirectory, StoreIInv, SaveState
    <2>4. Register!Succeed(r)
      BY <1>2, <1>4, <2>2, <2>3 DEF Register!Succeed
    <2> QED
      BY <1>2, <2>4 DEF Register!Next
  <1>9. CASE SaveFails(p)
    <2>1. proc'[p].at \in {"run", "down"} /\ \A q \in Programs \ {p} : proc'[q] = proc[q]
      BY <1>9 DEF SaveFails, End, Down, StoreIInv, TypeOK
    <2> QED
      BY <1>3, <1>9, <2>1, QuietRefines DEF SaveFails, SaveSteps
  <1> QED
    BY <1>6, <1>7, <1>8, <1>9

LEMMA ServiceRefines ==
  ASSUME StoreIInv, Service
  PROVE  [Register!Next]_(Register!vars)
  <1>1. \A a \in A : Good(Schema[a], params[a]) \in Snapshots
    BY ContentsFacts, StoreAssumption DEF StoreIInv, TypeOK, A
  <1>2. /\ "service" \in Programs
        /\ proc["service"].at \in {"create", "run"} =>
             ~InSave("service") /\ proc["service"].at # "down"
    BY DEF Programs, InSave, SaveSteps
  <1>3. CASE \E a \in A, back \in {"create", "run"} :
               /\ BeginSave("service", a, Good(Schema[a], params[a]), back)
               /\ proc["service"].at \in {"create", "run"} /\ dir' = dir
    BY <1>1, <1>2, <1>3, BeginRefines
  <1>4. CASE /\ Start \/ Load \/ SaveRefused \/ (\E a \in A, v \in Values : WriteParameter(a, v))
                \/ (Create /\ Goto("service", "run") /\ UNCHANGED known)
    <2>1. dir' = dir /\ known' = known
      BY <1>4 DEF Start, Load, SaveRefused, WriteParameter, Create
    <2>2. /\ proc["service"].at \notin SaveSteps /\ proc["migrate"].at \notin SaveSteps
          /\ proc'["service"].at \notin SaveSteps /\ proc'["migrate"] = proc["migrate"]
      <3>1. CASE Start
        BY <3>1 DEF Start, Lock, StoreIInv, TypeOK, Exclusive, Programs, SaveSteps
      <3>2. CASE Load
        <4>1. AfterLoad(proc["service"].a).at \in {"create", "load"} /\ Down.at = "down"
          BY DEF AfterLoad, Down
        <4>2. proc'["service"] \in {AfterLoad(proc["service"].a), Down}
          BY <3>2 DEF Load, End, StoreIInv, TypeOK, Programs
        <4>3. proc'["migrate"] = proc["migrate"]
          BY <3>2 DEF Load, End, StoreIInv, TypeOK, Programs
        <4>4. proc["service"].at = "load" /\ proc["migrate"].at = "down"
          BY <3>2 DEF Load, StoreIInv, Exclusive, Programs
        <4> QED
          BY <4>1, <4>2, <4>3, <4>4 DEF SaveSteps
      <3>3. CASE SaveRefused \/ (\E a \in A, v \in Values : WriteParameter(a, v))
        BY <3>3 DEF SaveRefused, WriteParameter, StoreIInv, Exclusive, Programs, SaveSteps
      <3>4. CASE Create /\ Goto("service", "run")
        BY <3>4 DEF Create, Goto, StoreIInv, TypeOK, Procs, Exclusive, Programs, SaveSteps
      <3> QED
        BY <1>4, <3>1, <3>2, <3>3, <3>4
    <2> QED
      BY <2>1, <2>2, QuietRefines DEF Programs
  <1> QED
    BY <1>3, <1>4 DEF Service, Create, SaveCommand

LEMMA MigrateRefines ==
  ASSUME StoreIInv, Migrate
  PROVE  [Register!Next]_(Register!vars)
  <1>1. ASSUME NEW a \in A, MigrateStart(a)
        PROVE  [Register!Next]_(Register!vars)
    <2>1. /\ "migrate" \in Programs /\ lock = "none" /\ ~InSave("migrate") /\ dir' = dir
          /\ dir.file[a].kind = "good" /\ dir.file[a] \in Contents
      BY <1>1 DEF MigrateStart, Lock, InSave, SaveSteps, Programs, StoreIInv, TypeOK, Directories
    <2>2. CASE dir.bak[a] = Absent
      <3>1. /\ proc'["migrate"].at = "backup" /\ proc'["service"] = proc["service"]
            /\ proc["service"].at = "down" /\ known' = known
        BY <1>1, <2>1, <2>2 DEF MigrateStart, StoreIInv, TypeOK, Procs, Exclusive, Programs
      <3> QED
        BY <2>1, <3>1, QuietRefines DEF Programs, SaveSteps
    <2>3. CASE dir.bak[a] # Absent
      <3>1. Good(2, dir.file[a].val) \in Snapshots
        BY <2>1, ContentsFacts
      <3>2. BeginSave("migrate", a, Good(2, dir.file[a].val), "done")
        BY <1>1, <2>3 DEF MigrateStart
      <3> QED
        BY <2>1, <3>1, <3>2, BeginRefines
    <2> QED
      BY <2>2, <2>3
  <1>2. CASE MigrateBackup
    <2>1. /\ proc["migrate"].at = "backup" /\ proc["service"].at = "down"
          /\ proc["migrate"].a \in A /\ known' = known
          /\ proc["migrate"].data \in Contents
      BY <1>2, ContentsFacts DEF MigrateBackup, StoreIInv, TypeOK, Procs, Exclusive, Programs
    <2>2. dir'.file = dir.file
      <3>1. ASSUME NEW x \in Contents
            PROVE  [dir EXCEPT !.bak[proc["migrate"].a] = x].file = dir.file
        BY <2>1, BackupReplaced DEF StoreIInv, TypeOK
      <3>2. \E x \in {Torn, proc["migrate"].data} :
              dir' = [dir EXCEPT !.bak[proc["migrate"].a] = x]
        BY <1>2 DEF MigrateBackup, Update
      <3> QED
        BY <2>1, <3>1, <3>2, ContentsFacts
    <2>3. proc'["service"] = proc["service"] /\ proc'["migrate"].at \in {"baksync", "down"}
      <3>1. Goto("migrate", "baksync") \/ End("migrate")
        BY <1>2 DEF MigrateBackup
      <3>2. CASE Goto("migrate", "baksync")
        BY <3>2 DEF Goto, StoreIInv, TypeOK, Procs, Programs
      <3>3. CASE End("migrate")
        BY <3>3, DownTyped DEF End, StoreIInv, TypeOK, Programs
      <3> QED
        BY <3>1, <3>2, <3>3
    <2> QED
      BY <2>1, <2>2, <2>3, QuietRefines DEF Programs, SaveSteps
  <1>3. CASE MigrateSync
    <2>1. /\ "migrate" \in Programs /\ ~InSave("migrate") /\ proc["migrate"].at # "down"
          /\ dir' = dir /\ proc["migrate"].a \in A /\ proc["migrate"].data \in Snapshots
      BY <1>3 DEF MigrateSync, InSave, SaveSteps, Programs, StoreIInv, TypeOK, Procs, Migrating
    <2>2. Good(2, proc["migrate"].data.val) \in Snapshots
      BY <2>1, ContentsFacts
    <2> QED
      BY <1>3, <2>1, <2>2, BeginRefines DEF MigrateSync
  <1> QED
    BY <1>1, <1>2, <1>3 DEF Migrate

LEMMA ExitRefines ==
  ASSUME StoreIInv, NEW p \in Programs, Exit(p)
  PROVE  [Register!Next]_(Register!vars)
  <1>1. /\ proc'[p].at = "down" /\ \A q \in Programs \ {p} : proc'[q] = proc[q]
        /\ \A q \in Programs \ {p} : proc[q].at = "down"
        /\ dir' = dir /\ known' = known
    <2>1. proc' = [proc EXCEPT ![p] = Down] /\ proc[p].at # "down" /\ dir' = dir /\ known' = known
      BY DEF Exit, End
    <2>2. \A q \in Programs \ {p} : proc[q].at = "down"
      BY <2>1, OthersDown
    <2>3. DOMAIN proc = Programs
      BY DEF StoreIInv, TypeOK
    <2> QED
      BY <2>1, <2>2, <2>3, DownTyped
  <1> QED
    BY <1>1, QuietRefines DEF SaveSteps

LEMMA PowerLossRefines ==
  ASSUME StoreIInv, PowerLoss
  PROVE  [Register!Next]_(Register!vars)
  <1>1. PICK d \in possible : dir' = d
    BY DEF PowerLoss
  <1>2. \A q \in Programs : proc'[q].at \notin SaveSteps
    BY DownTyped DEF PowerLoss, SaveSteps
  <1>3. Saving' = {} /\ known' = known
    BY <1>2, SavesNone, SavingIs DEF PowerLoss
  <1>4. /\ d \in Directories
        /\ \A a \in A : d.file[a] \in known[a] /\ known[a] \subseteq Snapshots \cup {Absent}
    BY <1>1 DEF StoreIInv, TypeOK, FilesKnown
  <1>5. d.file \in [A -> Snapshots \cup {Absent}]
    BY <1>4 DEF Directories
  <1>6. Register!PowerLoss
    BY <1>1, <1>3, <1>4, <1>5 DEF Register!PowerLoss
  <1> QED
    BY <1>6 DEF Register!Next

\* The five file operations of save() take effect in one step, one program at a
\* time; a reported success means that this save's snapshot is in the file for
\* good, through every later failure and power loss: the store implements the
\* register of SnapshotRegister.
THEOREM StoreImplementsRegister == Spec => AtomicRegister
  <1>1. Init => Register!Init
    <2> SUFFICES ASSUME Init PROVE Register!Init
      OBVIOUS
    <2>1. PICK f \in [A -> Snapshots \cup {Absent}] :
             /\ dir = [file |-> f, bak |-> [a \in A |-> Absent]]
             /\ known = [a \in A |-> {f[a]}]
      BY DEF Init
    <2>2. \A q \in Programs : proc[q].at \notin SaveSteps
      BY DownTyped DEF Init, SaveSteps
    <2>3. Saving = {}
      BY <2>2, SavesNone, SavingIs
    <2>4. dir.file = f
      BY <2>1
    <2> QED
      BY <2>1, <2>3, <2>4 DEF Register!Init
  <1>2. ASSUME StoreIInv, [Next]_vars
        PROVE  [Register!Next]_(Register!vars)
    <2>1. CASE Save
      BY <1>2, <2>1, SaveRefines DEF Save
    <2>2. CASE Service
      BY <1>2, <2>2, ServiceRefines
    <2>3. CASE Migrate
      BY <1>2, <2>3, MigrateRefines
    <2>4. CASE (\E p \in Programs : Exit(p)) \/ PowerLoss
      BY <1>2, <2>4, ExitRefines, PowerLossRefines
    <2>5. CASE UNCHANGED vars
      <3>1. dir' = dir /\ known' = known /\ proc' = proc
        BY <2>5 DEF vars
      <3>2. Saving' = Saving
        BY <3>1, SavingIs
      <3> QED
        BY <3>1, <3>2 DEF Register!vars
    <2> QED
      BY <1>2, <2>1, <2>2, <2>3, <2>4, <2>5 DEF Next
  <1> QED
    BY <1>1, <1>2, StoreInvariant, PTL DEF Spec, AtomicRegister, Register!Spec
=============================================================================
