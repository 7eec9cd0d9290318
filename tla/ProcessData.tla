---------------------------- MODULE ProcessData -----------------------------
(***************************************************************************)
(* Process data of the simulated slaves: the guard of the fixed PDO        *)
(* mapping (process_data/fixed_mapping.h), the test that a datagram        *)
(* carries a slave's outputs (process_data/pdo_target.h), and the part of  *)
(* the main loop that uses them (ethercat_slave/main.cc).                  *)
(*                                                                         *)
(* ModelLink takes as a choice which axes a frame ticks and in which AL    *)
(* state a slave is; here both are computed. KickCAT (external) routes the *)
(* bytes of logical writes through the FMMUs, keeps the object dictionary  *)
(* and runs the AL state machine.                                          *)
(***************************************************************************)
EXTENDS Naturals, Sequences

CONSTANTS
  Slaves,     \* the simulated slaves
  RxSize,     \* bytes of the output image
  LogicalMax, \* logical addresses are 0..LogicalMax (2^32 - 1 in the code)
  LenMax,     \* longest datagram or FMMU
  FrameMax,   \* most logical writes in one frame
  Expected,   \* Expected[k]: value of the mapping entry k = <<index, subindex>>
  Others,     \* values that a master may write instead
  Configured  \* slaves whose mapping the master writes

ASSUME ProcessDataAssumption ==
  /\ RxSize \in Nat \ {0} /\ LogicalMax \in Nat /\ FrameMax \in Nat
  /\ LenMax \in Nat /\ RxSize <= LenMax
  /\ \A k \in DOMAIN Expected : Expected[k] # 0
  /\ Configured \subseteq Slaves

Keys    == DOMAIN Expected
Offsets == 0..(RxSize - 1)
States  == {"INIT", "PRE_OP", "SAFE_OP", "OP"}

\* An active output FMMU (type 2, physical address 0x1800) or a logical write
\* (LRW or LWR): a range of logical addresses.
Ranges == [addr : 0..LogicalMax, len : 1..LenMax]
\* The master sends no logical address twice in a frame.
Disjoint(f) ==
  \A m, n \in DOMAIN f : m < n => f[m].addr + f[m].len <= f[n].addr
Frames == {f \in UNION {[1..n -> Ranges] : n \in 0..FrameMax} : Disjoint(f)}

VARIABLES
  al,        \* AL state of each slave
  fmmu,      \* output FMMU of each slave, if the master has configured one
  current,   \* current_ of each FixedMapping
  dict,      \* the mapping objects in each slave's dictionary
  pending,   \* pending[i] is valid
  cycle,     \* the datagrams of the last frame whose bytes make up the image
             \* submitted for each slave, 0 for a byte of an older frame; empty
             \* if no cycle was submitted
  alive      \* the process has not been ended by an exception

processVars == <<al, fmmu, current, dict, pending, cycle, alive>>

\* Every variable has its type; a mapping entry holds only a value that was
\* accepted for it.
ProcessTypeOK ==
  /\ al \in [Slaves -> States]
  /\ \A i \in Slaves : fmmu[i] \subseteq Ranges
  /\ \A i \in Slaves, k \in Keys :
        current[i][k] \in {0, Expected[k]} /\ dict[i][k] \in Others \cup {0, Expected[k]}
  /\ pending \in [Slaves -> BOOLEAN]
  /\ cycle \in [Slaves -> SUBSET (0..FrameMax)]
  /\ alive \in BOOLEAN

NoCycle == [i \in Slaves |-> {}]

ProcessInit ==
  /\ al = [i \in Slaves |-> "INIT"]
  /\ fmmu = [i \in Slaves |-> {}]
  /\ current = [i \in Slaves |-> Expected]
  /\ dict = [i \in Slaves |-> Expected]
  /\ pending = [i \in Slaves |-> FALSE]
  /\ cycle = NoCycle
  /\ alive = TRUE

(***************************************************************************)
(* KickCAT.                                                                *)
(***************************************************************************)

\* Byte o of slave i's outputs lies at a logical address that d writes.
Writes(d, m, o) == m.addr + o >= d.addr /\ m.addr + o < d.addr + d.len /\ o < m.len

\* The datagrams that slave i's output image comes from after frame f is
\* routed; the last one that writes a byte wins.
Sources(i, f) ==
  LET ds(o) == {n \in DOMAIN f : \E m \in fmmu[i] : Writes(f[n], m, o)}
  IN {IF ds(o) = {} THEN 0 ELSE CHOOSE n \in ds(o) : \A k \in ds(o) : k <= n : o \in Offsets}

\* The working counter of a logical write: some slave took a byte of it.
Acknowledged(d) == \E i \in Slaves, o \in 0..(LenMax - 1) : \E m \in fmmu[i] : Writes(d, m, o)

\* The steps of the AL state machine in routine(): up one state, or down.
AlSteps(s) ==
  CASE s = "INIT"    -> {"INIT", "PRE_OP"}
    [] s = "PRE_OP"  -> {"INIT", "PRE_OP", "SAFE_OP"}
    [] s = "SAFE_OP" -> States
    [] s = "OP"      -> States

\* The master configures the output FMMU of a slave.
ConfigureFmmu(i) ==
  /\ alive
  /\ \E m \in Ranges : fmmu' = [fmmu EXCEPT ![i] = {m}]
  /\ cycle' = NoCycle
  /\ UNCHANGED <<al, current, dict, pending, alive>>

(***************************************************************************)
(* FixedMapping.                                                           *)
(***************************************************************************)

\* The values FixedMapping.write takes: the one of the fixture, or a count of
\* zero.
Allowed(k, v) == v = Expected[k] \/ (k[2] = 0 /\ v = 0)

\* An SDO write to a mapping entry. Its access is limited to PRE-OP. The hook
\* runs after KickCAT has stored the value: an exception turns the answer into
\* an abort and leaves the stored value.
MappingWrite(i) ==
  /\ alive /\ al[i] = "PRE_OP"
  /\ \E k \in Keys : \E v \in Others \cup {0, Expected[k]} :
       /\ dict' = [dict EXCEPT ![i][k] = v]
       /\ current' = IF Allowed(k, v) THEN [current EXCEPT ![i][k] = v] ELSE current
  /\ cycle' = NoCycle
  /\ UNCHANGED <<al, fmmu, pending, alive>>

\* Mutant of Complete: the counts are not compared.
CompleteEntries(c) == \A k \in Keys : k[2] # 0 => c[k] = Expected[k]

\* FixedMapping.complete
Complete(c) == c = Expected

(***************************************************************************)
(* targetsOutput: an FMMU of another length ends the process.              *)
(***************************************************************************)
Unsupported(i) == \E m \in fmmu[i] : m.len # RxSize

\* Mutant of TargetsOutput: any overlap counts.
TargetsOutputPartly(i, d) ==
  \E m \in fmmu[i] : d.addr < m.addr + m.len /\ m.addr < d.addr + d.len

TargetsOutput(i, d) ==
  \E m \in fmmu[i] : d.addr <= m.addr /\ d.addr + d.len >= m.addr + m.len

(***************************************************************************)
(* One frame of the main loop: it is routed and answered, then for every   *)
(* slave the routine runs, the mapping is checked and a request submitted. *)
(***************************************************************************)
Targeted(i, f) == \E n \in DOMAIN f : Acknowledged(f[n]) /\ TargetsOutput(i, f[n])

Throws(f, states) ==
  \/ \E n \in DOMAIN f, i \in Slaves : Acknowledged(f[n]) /\ Unsupported(i)
  \/ \E i \in Slaves : states[i] \in {"SAFE_OP", "OP"} /\ ~Complete(current[i])

Request(i, f, state) ==
  IF pending[i] THEN "none"
  ELSE IF state # "OP" THEN "idle"
  ELSE IF Targeted(i, f) THEN "cycle" ELSE "none"

\* One slave at a time is asked to change its AL state.
Frame(f, i, state) ==
  LET states == [al EXCEPT ![i] = state]
  IN /\ alive /\ state \in AlSteps(al[i])
     /\ IF Throws(f, states)
          THEN alive' = FALSE /\ cycle' = NoCycle /\ UNCHANGED <<al, pending>>
          ELSE /\ al' = states
               /\ cycle' = [k \in Slaves |->
                              IF Request(k, f, states[k]) = "cycle" THEN Sources(k, f) ELSE {}]
               /\ pending' = [k \in Slaves |-> pending[k] \/ Request(k, f, states[k]) # "none"]
               /\ UNCHANGED alive
     /\ UNCHANGED <<fmmu, current, dict>>

\* pump takes a reply.
TakeReply(i) ==
  /\ alive /\ pending[i]
  /\ pending' = [pending EXCEPT ![i] = FALSE]
  /\ cycle' = NoCycle
  /\ UNCHANGED <<al, fmmu, current, dict, alive>>

ProcessNext ==
  \/ \E i \in Slaves : ConfigureFmmu(i) \/ TakeReply(i)
  \/ \E i \in Configured : MappingWrite(i)
  \/ \E f \in Frames, i \in Slaves, state \in States : Frame(f, i, state)

ProcessSpec == ProcessInit /\ [][ProcessNext]_processVars

(***************************************************************************)
(* Properties.                                                             *)
(***************************************************************************)

\* A cycle is submitted only with an output image that one datagram of the
\* frame just received wrote completely: never a torn or an old image, and
\* never because of another slave's outputs (targetsOutput: "only tick slaves
\* whose output FMMU is completely covered").
WholeImage == \A i \in Slaves : cycle[i] # {} => \E n \in 1..FrameMax : cycle[i] = {n}

\* No slave is in SAFE-OP or OP while its mapping is cleared or half restored,
\* whatever the order of mapping writes and state requests. A readback then
\* shows the mapping of the fixture, but for an entry whose write was refused:
\* the abort comes after KickCAT has stored the value (main.cc's hook).
MappingRestored ==
  \A i \in Slaves : alive /\ al[i] \in {"SAFE_OP", "OP"} =>
    /\ current[i] = Expected
    /\ \A k \in Keys : dict[i][k] = Expected[k] \/ ~Allowed(k, dict[i][k])

\* Well typed, and the mapping restored wherever process data are exchanged.
MappingInv == ProcessTypeOK /\ MappingRestored
=============================================================================
