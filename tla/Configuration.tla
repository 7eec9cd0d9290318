--------------------------- MODULE Configuration ---------------------------
(***************************************************************************)
(* Reading the simulator's environment (functional_model/configuration.py):*)
(* load_environment turns the bus list and the per-axis lists              *)
(*   DEVICE_SIMULATOR_BUS = 0:axis:cia402-drive,1:axis:...                 *)
(*   DEVICE_SIMULATOR_AXIS_IDS = 0:name,1:name   (also MODELS, MODES,      *)
(*   PARAMETER_SETS)                                                       *)
(* into the device list, which validate_config checks and sorts. The host  *)
(* relies on the result: ModelFleet takes slave_index as a position in the *)
(* list and ParameterStore names a file after parameter_set.               *)
(*                                                                         *)
(* A list is a sequence of entries; an entry is an index with a value, or  *)
(* Malformed where the code's regular expression does not match.           *)
(***************************************************************************)
EXTENDS Naturals, Sequences, FiniteSets, SequencesExt

CONSTANTS
  Indices,    \* slave indices that occur in entries
  Lists,      \* per-axis lists
  Unique,     \* lists whose values must differ between axes: IDS, PARAMETER_SETS
  Models,     \* the list that names the model, one of Lists
  Valid,      \* Valid[s]: values validate_config accepts in list s
  CopleyName, \* the model that needs an FMU directory
  Malformed,  \* an entry the regular expression refuses
  Error,      \* ValueError
  Forgotten,  \* an environment that is no longer needed
  Inputs      \* environments to read

ASSUME ConfigurationAssumption ==
  /\ Unique \subseteq Lists /\ Models \in Lists
  /\ DOMAIN Valid = Lists
  /\ \A e \in Inputs : /\ DOMAIN e = {"bus", "lists", "fmuDir", "rest"}
                        /\ e.bus \in Seq(Indices \cup {Malformed}) /\ DOMAIN e.lists = Lists
                        /\ \A s \in Lists :
                             /\ e.lists[s] \in Seq(ToSet(e.lists[s]))
                             /\ \A x \in ToSet(e.lists[s]) :
                                  x = Malformed \/ x = [index |-> x.index, value |-> x.value]

VARIABLES
  env,    \* bus: sequence of indices; lists[s]: sequence of [index, value];
          \* fmuDir: the FMU directory is unset or not empty; rest: the settings
          \* that are not per axis are present, known and well formed
  result  \* None before the call, then Error or the device list

(***************************************************************************)
(* load_environment                                                        *)
(***************************************************************************)
Repeats(s) == \E a, b \in DOMAIN s : a # b /\ s[a] = s[b]

ValueAt(entries, i) == (CHOOSE e \in entries : e.index = i).value

\* One per-axis list as a dict, or Error: empty, malformed or repeated index.
Mapping(list) ==
  IF \/ list = <<>>
     \/ \E n \in DOMAIN list : list[n] = Malformed
     \/ Repeats([n \in DOMAIN list |-> list[n].index])
    THEN Error
    ELSE [i \in {list[n].index : n \in DOMAIN list} |-> ValueAt(ToSet(list), i)]

BusBad(bus) ==
  bus = <<>> \/ (\E n \in DOMAIN bus : bus[n] = Malformed) \/ Repeats(bus)

Device(i, mappings) == [slave_index |-> i, attr |-> [s \in Lists |-> mappings[s][i]]]

(***************************************************************************)
(* validate_config                                                         *)
(***************************************************************************)
DeviceBad(d) == \E s \in Lists : d.attr[s] \notin Valid[s]

\* The list in the order of slave_index, which no two devices share: a device
\* comes after as many as have a smaller one.
Ranked(devices, n) ==
  CHOOSE d \in devices : Cardinality({e \in devices : e.slave_index < d.slave_index}) = n

Sorted(devices) == [i \in 1..Len(devices) |-> Ranked(ToSet(devices), i - 1)]

\* Mutant of ValidateConfig: the list stays in the order of the bus setting.
ValidateConfigUnsorted(devices) ==
  IF \/ \E n \in DOMAIN devices : DeviceBad(devices[n])
     \/ \E s \in Unique : Repeats([n \in DOMAIN devices |-> devices[n].attr[s]])
     \/ {devices[n].slave_index : n \in DOMAIN devices} # 0..(Len(devices) - 1)
    THEN Error
    ELSE devices

ValidateConfig(devices) ==
  IF \/ \E n \in DOMAIN devices : DeviceBad(devices[n])
     \/ \E s \in Unique : Repeats([n \in DOMAIN devices |-> devices[n].attr[s]])
     \/ {devices[n].slave_index : n \in DOMAIN devices} # 0..(Len(devices) - 1)
    THEN Error
    ELSE Sorted(devices)

LoadEnvironment(e) ==
  LET m == [s \in Lists |-> Mapping(e.lists[s])]
      onBus == {e.bus[n] : n \in DOMAIN e.bus}
      devices == [n \in DOMAIN e.bus |-> Device(e.bus[n], m)]
  IN  IF \/ ~e.rest
         \/ \E s \in Lists : m[s] = Error
         \/ BusBad(e.bus)
         \/ \E s \in Lists : DOMAIN m[s] # onBus
         \/ ~e.fmuDir /\ \E n \in DOMAIN e.bus : devices[n].attr[Models] = CopleyName
        THEN Error
        ELSE ValidateConfig(devices)

ConfigInit == env \in Inputs /\ result = <<>>

Load == /\ result = <<>>
        /\ result' = LoadEnvironment(env)
        /\ UNCHANGED env

\* Nothing looks at the environment once the device list is made.
Forget == env' = Forgotten /\ UNCHANGED result

(***************************************************************************)
(* Properties                                                              *)
(***************************************************************************)
Accepted == result # <<>> /\ result # Error

\* A configuration that is accepted can be served: the device at position i has
\* slave_index i (ModelFleet.dispatch indexes models with it), no two axes
\* share an id or a snapshot file, and every axis has a known model and mode.
AcceptedIsServable ==
  Accepted =>
    \A i \in 1..Len(result) :
      /\ result[i].slave_index = i - 1
      /\ \A s \in Lists : result[i].attr[s] \in Valid[s]
      /\ \A s \in Unique, j \in 1..(i - 1) : result[i].attr[s] # result[j].attr[s]

\* Each axis gets, from every list, the value given for its own index, and every
\* entry of every list is used: nothing that was configured is dropped.
NothingDropped ==
  Accepted /\ env # Forgotten =>
    \A s \in Lists :
      ToSet(env.lists[s]) =
        {[index |-> result[i].slave_index, value |-> result[i].attr[s]] : i \in 1..Len(result)}

\* The order in which entries are written changes neither the verdict nor the
\* devices.
OrderIrrelevant ==
  LET turned == [env EXCEPT !.bus = Reverse(env.bus),
                            !.lists = [s \in Lists |-> Reverse(env.lists[s])]]
  IN  result # <<>> /\ env # Forgotten => result = LoadEnvironment(turned)

\* The three together: what is accepted is what was written, and can be served.
ConfigurationSound == AcceptedIsServable /\ NothingDropped /\ OrderIrrelevant
=============================================================================
