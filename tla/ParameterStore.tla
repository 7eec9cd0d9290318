--------------------------- MODULE ParameterStore ---------------------------
(***************************************************************************)
(* Parameter snapshots: storage/parameter_store.py, storage/migrate.py and *)
(* their use by runtime/fleet.py (startup) and runtime/axis.py (the save   *)
(* command 0x2005:1).                                                      *)
(*                                                                         *)
(* Two programs use a store, the service and the offline migration tool,   *)
(* each owning its lock while it runs. Every file operation may fail, a    *)
(* process may be killed between any two of them, and the power may fail.  *)
(*                                                                         *)
(* The file system is external: a process sees dir; possible holds the     *)
(* directories that may be found after a power loss. Directory updates     *)
(* become durable in order, at the latest at the fsync of the directory;   *)
(* the contents of a file that was not synced may be torn.                 *)
(***************************************************************************)
EXTENDS Integers, FiniteSets

CONSTANTS
  Sets,    \* number of parameter sets, one per axis, loaded in order 1..Sets
  Values,  \* parameter values
  Default, \* their value in a new model
  Schema   \* schema_version(model) of each set: 2 for F-KR, 1 for Copley

ASSUME StoreAssumption ==
  Sets \in Nat \ {0} /\ Default \in Values /\ Schema \in [1..Sets -> {1, 2}]

A == 1..Sets
Programs == {"service", "migrate"}

Absent == [kind |-> "absent"]
Torn   == [kind |-> "torn"]
Good(s, v) == [kind |-> "good", schema |-> s, val |-> v]
Snapshots == {Good(s, v) : s \in {1, 2}, v \in Values}
Contents  == Snapshots \cup {Absent, Torn}
Directories == [file : [A -> Contents], bak : [A -> Contents]]

VARIABLES
  dir,       \* the store's directory as processes see it
  possible,  \* what a power loss may leave of it
  lock,      \* the program holding the flock, or "none"
  proc,      \* proc[p]: [at, a, data, temp, old, back] of each
             \* program
  params,    \* parameter values in the service's models
  alarm,     \* save_diagnostic of each axis is set
  answer,    \* how the last step answered a save command, if it did
  known,     \* snapshots each file may hold: the one of the last successful
             \* save, and those of the attempts since then
  unsynced,  \* sets whose backup was written and never synced
  reused,    \* sets migrated over such a backup
  legacy     \* the schema 1 snapshot each F-KR set started with, or Absent

bakVars == <<unsynced, reused, legacy>>
vars == <<dir, possible, lock, proc, params, alarm, answer, known, bakVars>>

Down == [at |-> "down", a |-> 1, data |-> Absent, temp |-> Absent, old |-> Absent,
         back |-> "down"]

\* A store holds whole snapshots or none, some of the older schema.
Init == /\ \E f \in [A -> Snapshots \cup {Absent}] :
             /\ \A a \in A : f[a] # Absent => f[a].schema <= Schema[a]
             /\ dir = [file |-> f, bak |-> [a \in A |-> Absent]]
             /\ possible = {dir}
             /\ known = [a \in A |-> {f[a]}]
             /\ legacy = [a \in A |-> IF f[a] # Absent /\ f[a].schema < Schema[a]
                                      THEN f[a] ELSE Absent]
        /\ lock = "none"
        /\ proc = [p \in Programs |-> Down]
        /\ params = [a \in A |-> Default]
        /\ alarm = [a \in A |-> FALSE]
        /\ answer = "none"
        /\ unsynced = {} /\ reused = {}

-----------------------------------------------------------------------------
(* File operations. *)

\* What a power loss may leave of directory d: its backups that were never
\* synced may be torn.
Survivors(d) == {[d EXCEPT !.bak = [a \in A |-> IF a \in t THEN Torn ELSE d.bak[a]]] :
                   t \in SUBSET unsynced}

\* The visible directory becomes d, and each of ds may survive a power loss.
Update(d, ds) == /\ dir' = d
                 /\ possible' = possible \cup UNION {Survivors(e) : e \in ds}

Goto(p, step) == proc' = [proc EXCEPT ![p].at = step]

\* A program ends, by itself or killed: its lock goes with it.
End(p) == /\ proc' = [proc EXCEPT ![p] = Down]
          /\ lock' = IF lock = p THEN "none" ELSE lock

-----------------------------------------------------------------------------
(* ParameterStore.save, one file operation at a time. It is entered at        *)
(* "write" with the snapshot in data and returns to back.                     *)

\* Mutant of SaveWrite: the snapshot file itself is written.
SaveWriteInPlace(p) ==
  /\ proc[p].at = "write"
  /\ Goto(p, "sync")
  /\ Update([dir EXCEPT !.file[proc[p].a] = Torn], {[dir EXCEPT !.file[proc[p].a] = Torn]})
  /\ answer' = "none"
  /\ UNCHANGED <<lock, params, alarm, known, bakVars>>

\* mkstemp, dump and flush: a temporary file that is not yet synced.
SaveWrite(p) == /\ proc[p].at = "write"
                /\ proc' = [proc EXCEPT ![p].at = "sync", ![p].temp = Torn]
                /\ answer' = "none"
                /\ UNCHANGED <<dir, possible, lock, params, alarm, known, bakVars>>

\* Mutant of SaveSync: the temporary file is not synced.
SaveSyncSkipped(p) == /\ proc[p].at = "sync"
                      /\ Goto(p, "replace")
                      /\ answer' = "none"
                      /\ UNCHANGED <<dir, possible, lock, params, alarm, known, bakVars>>

SaveSync(p) == /\ proc[p].at = "sync"
               /\ proc' = [proc EXCEPT ![p].at = "replace", ![p].temp = proc[p].data]
               /\ answer' = "none"
               /\ UNCHANGED <<dir, possible, lock, params, alarm, known, bakVars>>

\* os.replace: what is durable of the new file is what was synced of it.
SaveReplace(p) ==
  LET a == proc[p].a
  IN  /\ proc[p].at = "replace"
      /\ Update([dir EXCEPT !.file[a] = proc[p].data],
                {[dir EXCEPT !.file[a] = proc[p].data], [dir EXCEPT !.file[a] = proc[p].temp]})
      /\ Goto(p, "dirsync")
      /\ answer' = "none"
      /\ UNCHANGED <<lock, params, alarm, known, bakVars>>

\* fsync of the directory ends a successful save. It makes the names durable,
\* not the contents of a backup that was never synced.
SaveDirectory(p) ==
  LET a == proc[p].a
  IN  /\ proc[p].at = "dirsync"
      /\ possible' = Survivors(dir)
      /\ known' = [known EXCEPT ![a] = {proc[p].data}]
      /\ proc' = [proc EXCEPT ![p] = [Down EXCEPT !.at = proc[p].back]]
      /\ alarm' = [alarm EXCEPT ![a] = @ /\ proc[p].back # "run"]
      /\ answer' = IF proc[p].back = "run" THEN "ok" ELSE "none"
      /\ UNCHANGED <<dir, lock, params, bakVars>>

\* Any of these operations may fail: the temporary file is removed. A failed
\* save command raises the alarm and is answered with an abort; a failed save
\* at startup or of the migration ends the program.
SaveFails(p) ==
  /\ proc[p].at \in {"write", "sync", "replace", "dirsync"}
  /\ IF proc[p].back = "run"
     THEN /\ proc' = [proc EXCEPT ![p] = [Down EXCEPT !.at = "run"]]
          /\ alarm' = [alarm EXCEPT ![proc[p].a] = TRUE]
          /\ answer' = "abort"
          /\ UNCHANGED lock
     ELSE End(p) /\ answer' = "none" /\ UNCHANGED alarm
  /\ UNCHANGED <<dir, possible, params, known, bakVars>>

\* Entering save(model) of axis a with snapshot s.
BeginSave(p, a, s, back) ==
  /\ proc' = [proc EXCEPT ![p] = [at |-> "write", a |-> a, data |-> s, temp |-> Absent,
                                  old |-> dir.file[a], back |-> back]]
  /\ known' = [known EXCEPT ![a] = @ \cup {s}]

Save == \E p \in Programs :
          SaveWrite(p) \/ SaveSync(p) \/ SaveReplace(p) \/ SaveDirectory(p) \/ SaveFails(p)

-----------------------------------------------------------------------------
(* The service: startup, then parameter writes and save commands. *)

\* Mutant of Lock: the migration does not take the service's lock.
LockNotShared(p) == /\ proc[p].at = "down" /\ (lock = "none" \/ p = "migrate")
                    /\ lock' = IF p = "migrate" THEN lock ELSE p

\* ParameterStore.__enter__: a program that does not get the lock ends.
Lock(p) == /\ proc[p].at = "down" /\ lock = "none"
           /\ lock' = p

\* The models are new and take their parameters from the snapshots.
Start == /\ Lock("service")
         /\ proc' = [proc EXCEPT !["service"].at = "load", !["service"].a = 1]
         /\ params' = [a \in A |-> Default]
         /\ alarm' = [a \in A |-> FALSE]
         /\ answer' = "none"
         /\ UNCHANGED <<dir, possible, known, bakVars>>

Loadable(a, c) == c.kind = "good" /\ c.schema = Schema[a]

\* Mutant of AfterLoad: the last set is not looked at.
AfterLoadTooEarly(a) == IF a + 1 >= Sets THEN [Down EXCEPT !.at = "create"]
                        ELSE [Down EXCEPT !.at = "load", !.a = a + 1]

\* The loop over the models: load every one, then create the missing ones.
AfterLoad(a) == IF a = Sets THEN [Down EXCEPT !.at = "create"]
                ELSE [Down EXCEPT !.at = "load", !.a = a + 1]

\* load of the next set: its values are taken, it is missing, or it is
\* refused, which ends the service.
Load ==
  LET a == proc["service"].a
      c == dir.file[a]
  IN  /\ proc["service"].at = "load"
      /\ answer' = "none"
      /\ \/ /\ c = Absent \/ Loadable(a, c)
            /\ proc' = [proc EXCEPT !["service"] = AfterLoad(a)]
            /\ params' = IF c = Absent THEN params ELSE [params EXCEPT ![a] = c.val]
            /\ UNCHANGED lock
         \/ /\ c # Absent /\ ~Loadable(a, c)
            /\ End("service")
            /\ UNCHANGED params
      /\ UNCHANGED <<dir, possible, alarm, known, bakVars>>

\* Every set is known to be loadable: the missing snapshots are created.
Create ==
  /\ proc["service"].at = "create"
  /\ answer' = "none"
  /\ \/ \E a \in A :
          /\ dir.file[a] = Absent
          /\ \A b \in 1..(a - 1) : dir.file[b] # Absent
          /\ BeginSave("service", a, Good(Schema[a], params[a]), "create")
     \/ /\ \A a \in A : dir.file[a] # Absent
        /\ Goto("service", "run")
        /\ UNCHANGED known
  /\ UNCHANGED <<dir, possible, lock, params, alarm, bakVars>>

\* An SDO changes a parameter in memory only.
WriteParameter(a, v) == /\ proc["service"].at = "run"
                        /\ params' = [params EXCEPT ![a] = v]
                        /\ answer' = "none"
                        /\ UNCHANGED <<dir, possible, lock, proc, alarm, known, bakVars>>

\* The save command 0x2005:1 with selection 1.
SaveCommand(a) == /\ proc["service"].at = "run"
                  /\ BeginSave("service", a, Good(Schema[a], params[a]), "run")
                  /\ answer' = "none"
                  /\ UNCHANGED <<dir, possible, lock, params, alarm, bakVars>>

\* With another selection the command is refused without an alarm.
SaveRefused == /\ proc["service"].at = "run"
               /\ answer' = "abort"
               /\ UNCHANGED <<dir, possible, lock, proc, params, alarm, known, bakVars>>

Service == \/ Start \/ Load \/ Create \/ SaveRefused
           \/ \E a \in A : SaveCommand(a) \/ \E v \in Values : WriteParameter(a, v)

-----------------------------------------------------------------------------
(* The migration of an F-KR snapshot from schema 1 to 2. *)

\* It reads the snapshot, refuses one that is not schema 1, validates the new
\* one offline, and looks at the backup of an earlier attempt.
MigrateStart(a) ==
  LET c == dir.file[a]
      b == dir.bak[a]
  IN  /\ Lock("migrate")
      /\ Schema[a] = 2 /\ c.kind = "good" /\ c.schema = 1
      /\ b \in {Absent, c}
      /\ IF b = Absent
         THEN /\ proc' = [proc EXCEPT !["migrate"].at = "backup", !["migrate"].a = a,
                                      !["migrate"].data = c]
              /\ UNCHANGED known
         ELSE BeginSave("migrate", a, Good(2, c.val), "done")
      /\ reused' = IF b = Absent THEN reused ELSE reused \cup (unsynced \cap {a})
      /\ answer' = "none"
      /\ UNCHANGED <<dir, possible, params, alarm, unsynced, legacy>>

\* open('xb') and write: the backup exists, its contents not yet durable.
MigrateBackup ==
  LET a == proc["migrate"].a
      torn == [dir EXCEPT !.bak[a] = Torn]
      full == [dir EXCEPT !.bak[a] = proc["migrate"].data]
  IN  /\ proc["migrate"].at = "backup"
      /\ \E d \in {torn, full} :
           /\ Update(d, {torn, full})
           /\ IF d = full THEN Goto("migrate", "baksync") /\ UNCHANGED lock
                          ELSE End("migrate")
      /\ unsynced' = unsynced \cup {a}
      /\ answer' = "none"
      /\ UNCHANGED <<params, alarm, known, reused, legacy>>

\* Mutant of MigrateSync: the new backup is not synced.
MigrateSyncSkipped ==
  LET a == proc["migrate"].a
  IN  /\ proc["migrate"].at = "baksync"
      /\ BeginSave("migrate", a, Good(2, proc["migrate"].data.val), "done")
      /\ answer' = "none"
      /\ UNCHANGED <<dir, possible, lock, params, alarm, bakVars>>

\* fsync of the backup, then the save of the migrated snapshot.
MigrateSync ==
  LET a == proc["migrate"].a
      c == proc["migrate"].data
      synced(d) == [d EXCEPT !.bak[a] = IF @ = Torn THEN c ELSE @]
  IN  /\ proc["migrate"].at = "baksync"
      /\ possible' = {synced(d) : d \in possible}
      /\ BeginSave("migrate", a, Good(2, c.val), "done")
      /\ unsynced' = unsynced \ {a}
      /\ answer' = "none"
      /\ UNCHANGED <<dir, lock, params, alarm, reused, legacy>>

Migrate == (\E a \in A : MigrateStart(a)) \/ MigrateBackup \/ MigrateSync

-----------------------------------------------------------------------------

\* A program ends normally, is killed, or an operation of the migration fails.
Exit(p) == /\ proc[p].at # "down"
           /\ End(p)
           /\ answer' = "none"
           /\ UNCHANGED <<dir, possible, params, alarm, known, bakVars>>

PowerLoss == /\ \E d \in possible : dir' = d /\ possible' = {d}
             /\ proc' = [p \in Programs |-> Down]
             /\ lock' = "none"
             /\ unsynced' = {}
             /\ answer' = "none"
             /\ UNCHANGED <<params, alarm, known, reused, legacy>>

Next == Save \/ Service \/ Migrate \/ (\E p \in Programs : Exit(p)) \/ PowerLoss

Spec == Init /\ [][Next]_vars

-----------------------------------------------------------------------------
(* Properties. *)

Steps == {"down", "load", "create", "run", "write", "sync", "replace", "dirsync",
          "backup", "baksync", "done"}
Procs == [at : Steps, a : A, data : Contents, temp : Contents,
          old : Contents, back : {"down", "create", "run", "done"}]

\* Every variable has its type.
TypeOK == /\ dir \in Directories
          /\ possible \subseteq Directories
          /\ lock \in Programs \cup {"none"}
          /\ proc \in [Programs -> Procs]
          /\ params \in [A -> Values]
          /\ alarm \in [A -> BOOLEAN]
          /\ answer \in {"none", "ok", "abort"}
          /\ known \in [A -> SUBSET Contents]
          /\ legacy \in [A -> Contents]
          /\ reused \subseteq A /\ unsynced \subseteq A

\* Whatever happens, and at whatever point the power fails, a parameter file
\* is never torn and holds the snapshot of the last successful save or of an
\* attempt made after it. In particular a save answered with success is
\* durable, and nobody else writes the file meanwhile.
SnapshotDurable ==
  \A d \in possible \cup {dir} : \A a \in A : d.file[a] \in known[a] \ {Torn}

\* The save a program is in the middle of.
Saving == {[set |-> proc[p].a, data |-> proc[p].data] :
             p \in {q \in Programs : proc[q].at \in {"write", "sync", "replace", "dirsync"}}}

Register ==
  INSTANCE SnapshotRegister WITH Names <- A, Contents <- Snapshots \cup {Absent},
    reg <- dir.file, may <- known, saving <- Saving

\* The store is a register of snapshots: the five file operations of save()
\* take effect in one step, one program at a time, and a reported success means
\* that this save's snapshot, and no other program's, is in the file for good.
AtomicRegister == Register!Spec

\* The schema 1 snapshot survives its migration, in place or in the backup,
\* unless the migration was repeated over a backup that a killed attempt had
\* written and not synced (migrate_profile_velocity compares such a backup and
\* takes it as it is).
OriginalKept ==
  \A d \in possible \cup {dir} : \A a \in A \ reused :
    legacy[a] # Absent => legacy[a] \in {d.file[a], d.bak[a]}

\* No missing snapshot is created by a startup that would refuse another one.
\* (fleet.py: "Validate all snapshots before creating any missing snapshot.")
NothingCreatedUnlessAllLoad ==
  \A a \in A : proc["service"].at \in {"create", "write", "run"} =>
                 dir.file[a] = Absent \/ Loadable(a, dir.file[a])

\* Well typed, and a startup that is refused leaves no new snapshot behind.
StoreInv == TypeOK /\ NothingCreatedUnlessAllLoad

\* A save command that is answered with an abort has kept the existing file,
\* except when only the sync of the directory failed: os.replace has then put
\* the whole new snapshot in its place (save).
FailedSaveKeepsFile ==
  [][LET c == proc["service"]
     IN  answer' = "abort" /\ c.at # "run" =>
           dir'.file[c.a] = IF c.at = "dirsync" THEN c.data ELSE c.old]_vars

=============================================================================
