----------------------------- MODULE FmiFleet ------------------------------
(***************************************************************************)
(* Life of the model host (runtime/service.py): it reads its environment   *)
(* (Configuration), opens the parameter store and builds the ModelFleet    *)
(* (runtime/fleet.py), which opens the axes of the device list in order    *)
(* and closes them in reverse; for a Copley axis the adapter and Model     *)
(* constructors open an Fmi3Runner (runtime/fmi/runner.py).                *)
(*                                                                         *)
(* The FMU is external: native[i] is where the instance of axis i is in    *)
(* the FMI 3.0 co-simulation state machine. Every native call may fail,    *)
(* and so may the Python code around it. The host is one thread, so a step *)
(* of this module is a stretch of it that ends with at most one failure.   *)
(***************************************************************************)
EXTENDS Configuration

CONSTANT MaxTime  \* bound on the communication steps of an FMU

ASSUME FleetAssumption == MaxTime \in Nat

\* The axes of the device list; those with an FMU, the others being F-KR axes
\* without a runner.
N      == IF Accepted THEN Len(result) ELSE 0
Axes   == 1..N
Copley == {i \in Axes : result[i].attr[Models] = CopleyName}

NativeStates ==
  {"none", "created", "instantiated", "init", "step", "error", "terminated", "freed"}

Ops == {"instantiate", "enterInit", "exitInit", "get", "set", "doStep", "terminate", "free"}

\* Where FMI 3.0 allows each call: after an error only freeInstance.
Allowed(op) ==
  CASE op = "instantiate" -> {"created"}
    [] op = "enterInit" -> {"instantiated"}
    [] op = "exitInit" -> {"init"}
    [] op = "free" -> {"instantiated", "init", "step", "error", "terminated"}
    [] OTHER -> {"step"}

\* Fields of Fmi3Runner: fmu is self._fmu # None, folder the temporary directory.
Runners ==
  [fmu : BOOLEAN, initialized : BOOLEAN, failed : BOOLEAN, folder : BOOLEAN, time : 0..MaxTime]

VARIABLES
  host,      \* where the host is: [at |-> phase, axis |-> axis it works on]
  models,    \* length of ModelFleet.models
  runner,    \* runner[i]: the Fmi3Runner of axis i
  native,    \* native[i]: state of its FMU instance (external)
  reached,   \* reached[i]: communication point of the FMU instance (external)
  calls,     \* native calls of the last step, with the state each one met
  abandoned, \* history: axes whose Model constructor raised with the runner open
  skipped    \* history: axes the closing loop did not reach because a close raised

vars == <<env, result, host, models, runner, native, reached, calls, abandoned, skipped>>

Phases == {"read", "store", "prepare", "instantiate", "enterInit", "exitInit", "adapter", "model",
           "load", "running", "close", "ended"}

\* Every variable has its type; there is a runner for each axis of the fleet.
TypeOK ==
  /\ host \in [at : Phases, axis : 0..(N + 1)]
  /\ models \in 0..N
  /\ host.at \in {"read", "store"} => runner = <<>>
  /\ \A i \in DOMAIN runner : runner[i] \in Runners
  /\ native \in [DOMAIN runner -> NativeStates]
  /\ reached \in [DOMAIN runner -> 0..MaxTime]
  /\ \A n \in 1..Len(calls) : calls[n] \in [op : Ops, met : NativeStates]
  /\ abandoned \subseteq Axes /\ skipped \subseteq Axes

NoRunner == [fmu |-> FALSE, initialized |-> FALSE, failed |-> FALSE, folder |-> FALSE, time |-> 0]

At(phase, i) == [at |-> phase, axis |-> i]

\* The next axis of the constructor's loop, or store.load and store.save.
Opening(i) ==
  IF i > N THEN At("load", 0) ELSE At(IF i \in Copley THEN "prepare" ELSE "model", i)

Init ==
  /\ ConfigInit
  /\ host = At("read", 0)
  /\ models = 0
  /\ runner = <<>> /\ native = <<>> /\ reached = <<>>
  /\ calls = <<>>
  /\ abandoned = {} /\ skipped = {}

\* A bad environment ends the host before anything is opened.
ReadEnvironment ==
  /\ host.at = "read"
  /\ Load
  /\ host' = IF result' = Error THEN At("ended", 0) ELSE At("store", 0)
  /\ UNCHANGED <<models, runner, native, reached, calls, abandoned, skipped>>

\* The store's lock may be taken; else ModelFleet begins with its first axis.
OpenStore ==
  /\ host.at = "store"
  /\ Forget
  /\ host' \in {At("ended", 0), Opening(1)}
  /\ runner' = [i \in Axes |-> NoRunner]
  /\ native' = [i \in Axes |-> "none"]
  /\ reached' = [i \in Axes |-> 0]
  /\ UNCHANGED <<models, calls, abandoned, skipped>>

(***************************************************************************)
(* Fmi3Runner.close: terminate a healthy instance, free one that was       *)
(* instantiated, remove the folder. terminate and the removal may raise;   *)
(* what follows in the finally clauses is done nevertheless. freeInstance  *)
(* returns no status; a raise of it would end close() as that of the       *)
(* removal does. An outcome is the instance's new state, the calls made    *)
(* and whether an exception left.                                          *)
(***************************************************************************)
Call(op, met) == [op |-> op, met |-> met]

\* Mutant of Terminations: a failed instance is terminated as well.
TerminationsAlways(r, n) ==
  IF r.fmu /\ r.initialized
    THEN {[native |-> "terminated", calls |-> <<Call("terminate", n)>>, raised |-> FALSE],
          [native |-> "error", calls |-> <<Call("terminate", n)>>, raised |-> TRUE]}
    ELSE {[native |-> n, calls |-> <<>>, raised |-> FALSE]}

Terminations(r, n) ==
  IF r.fmu /\ r.initialized /\ ~r.failed
    THEN {[native |-> "terminated", calls |-> <<Call("terminate", n)>>, raised |-> FALSE],
          [native |-> "error", calls |-> <<Call("terminate", n)>>, raised |-> TRUE]}
    ELSE {[native |-> n, calls |-> <<>>, raised |-> FALSE]}

\* Mutant of Released: an instance whose terminate raised is not freed.
ReleasedIfTerminated(r, t) ==
  IF r.fmu /\ t.native # "created" /\ ~t.raised
    THEN [t EXCEPT !.native = "freed", !.calls = Append(t.calls, Call("free", t.native))]
    ELSE t

Released(r, t) ==
  IF r.fmu /\ t.native # "created"
    THEN [t EXCEPT !.native = "freed", !.calls = Append(t.calls, Call("free", t.native))]
    ELSE t

\* Removing the folder may raise and leave it behind.
Closings(r, n) ==
  {[native |-> Released(r, t).native, calls |-> Released(r, t).calls,
    raised |-> t.raised \/ left, folder |-> left] :
     t \in Terminations(r, n), left \in {b \in BOOLEAN : b => r.folder}}

Closed(r, c) == [r EXCEPT !.fmu = FALSE, !.initialized = FALSE, !.folder = c.folder]

(***************************************************************************)
(* Construction. A step that raises closes the runner and leaves the       *)
(* fleet's constructor, whose except clause closes the models made so far. *)
(***************************************************************************)
\* The runner of axis i, now r with its instance at n after the calls made, is
\* closed and the exception goes on.
OpenFails(i, r, n, made) ==
  /\ \E c \in Closings(r, n) :
       /\ runner' = [runner EXCEPT ![i] = Closed(r, c)]
       /\ native' = [native EXCEPT ![i] = c.native]
       /\ calls' = made \o c.calls
  /\ host' = At("close", models)
  /\ UNCHANGED <<env, result, models, reached, abandoned, skipped>>

\* The folder, the model description, the variable contract and extract; then
\* FMU3Slave loads the library.
Prepare ==
  /\ host.at = "prepare"
  /\ LET i == host.axis
         r == [NoRunner EXCEPT !.folder = TRUE]
     IN  \/ OpenFails(i, r, "none", <<>>)
         \/ /\ runner' = [runner EXCEPT ![i] = [r EXCEPT !.fmu = TRUE]]
            /\ native' = [native EXCEPT ![i] = "created"]
            /\ calls' = <<>>
            /\ host' = At("instantiate", i)
            /\ UNCHANGED <<env, result, models, reached, abandoned, skipped>>

\* A native call of the constructor: to state good and phase next, or it fails
\* and the instance is in state bad.
Initialising(op, good, bad, next) ==
  /\ host.at = op
  /\ LET i == host.axis
         done == <<Call(op, native[i])>>
     IN  \/ OpenFails(i, runner[i], bad, done)
         \/ /\ native' = [native EXCEPT ![i] = good]
            /\ calls' = done
            /\ runner' = [runner EXCEPT ![i].initialized = (op = "exitInit")]
            /\ host' = At(next, i)
            /\ UNCHANGED <<env, result, models, reached, abandoned, skipped>>

Instantiate == Initialising("instantiate", "instantiated", "created", "enterInit")
EnterInit   == Initialising("enterInit", "init", "error", "exitInit")
ExitInit    == Initialising("exitInit", "step", "error", "adapter")

\* CopleyAdapter.__init__ reads the FMU. A get that fails marks the runner; the
\* conversion of what it returned may raise too. open() closes the runner.
AdapterInit ==
  /\ host.at = "adapter"
  /\ LET i == host.axis
         done == <<Call("get", native[i])>>
     IN  \/ OpenFails(i, [runner[i] EXCEPT !.failed = TRUE], "error", done)
         \/ OpenFails(i, runner[i], native[i], done)
         \/ /\ calls' = done
            /\ host' = At("model", i)
            /\ UNCHANGED <<env, result, models, runner, native, reached, abandoned, skipped>>

\* The rest of Model.__init__. What raises here is caught by ModelFleet, which
\* does not have the model yet.
ModelInit ==
  /\ host.at = "model"
  /\ LET i == host.axis
     IN  \/ /\ host' = At("close", models)
            /\ abandoned' = abandoned \cup ({i} \cap Copley)
            /\ UNCHANGED models
         \/ /\ models' = i
            /\ host' = Opening(i + 1)
            /\ UNCHANGED abandoned
  /\ calls' = <<>>
  /\ UNCHANGED <<env, result, runner, native, reached, skipped>>

\* Every snapshot is loaded and the missing ones saved, or one raises.
LoadStore ==
  /\ host.at = "load"
  /\ host' \in {At("close", models), At("running", 0)}
  /\ calls' = <<>>
  /\ UNCHANGED <<env, result, models, runner, native, reached, abandoned, skipped>>

(***************************************************************************)
(* Cycles. _check refuses a closed or failed runner before any native call.*)
(***************************************************************************)
Usable(i) == host.at = "running" /\ i \in Copley /\ runner[i].initialized /\ ~runner[i].failed

\* set and get; a value that is out of range raises before the call.
Transfer(i, op) ==
  /\ Usable(i)
  /\ calls' = <<Call(op, native[i])>>
  /\ \/ UNCHANGED <<runner, native>>
     \/ /\ runner' = [runner EXCEPT ![i].failed = TRUE]
        /\ native' = [native EXCEPT ![i] = "error"]
  /\ UNCHANGED <<env, result, host, models, reached, abandoned, skipped>>

\* doStep completes, returns an event, a termination or an early return (the
\* FMU may have advanced, the runner's time has not), or fails.
DoStep(i) ==
  /\ Usable(i) /\ reached[i] < MaxTime
  /\ calls' = <<Call("doStep", native[i])>>
  /\ \/ /\ runner' = [runner EXCEPT ![i].time = @ + 1]
        /\ reached' = [reached EXCEPT ![i] = @ + 1]
        /\ UNCHANGED native
     \/ /\ runner' = [runner EXCEPT ![i].failed = TRUE]
        /\ reached' \in {[reached EXCEPT ![i] = @ + 1], reached}
        /\ UNCHANGED native
     \/ /\ runner' = [runner EXCEPT ![i].failed = TRUE]
        /\ native' = [native EXCEPT ![i] = "error"]
        /\ UNCHANGED reached
  /\ UNCHANGED <<env, result, host, models, abandoned, skipped>>

\* The connection ends, serve raises, or only the fixture was asked for.
Stop ==
  /\ host.at = "running"
  /\ host' = At("close", models)
  /\ calls' = <<>>
  /\ UNCHANGED <<env, result, models, runner, native, reached, abandoned, skipped>>

\* ModelFleet.close: one pass of the loop over the models in reverse.
CloseModel ==
  /\ host.at = "close" /\ host.axis > 0
  /\ LET i == host.axis
     IN  \E c \in Closings(runner[i], native[i]) :
           /\ runner' = [runner EXCEPT ![i] = Closed(runner[i], c)]
           /\ native' = [native EXCEPT ![i] = c.native]
           /\ calls' = c.calls
           /\ host' = IF c.raised THEN At("ended", 0) ELSE At("close", i - 1)
           /\ skipped' = IF c.raised THEN 1..(i - 1) ELSE skipped
  /\ UNCHANGED <<env, result, models, reached, abandoned>>

CloseDone ==
  /\ host = At("close", 0)
  /\ host' = At("ended", 0)
  /\ calls' = <<>>
  /\ UNCHANGED <<env, result, models, runner, native, reached, abandoned, skipped>>

Next ==
  \/ ReadEnvironment \/ OpenStore
  \/ Prepare \/ Instantiate \/ EnterInit \/ ExitInit \/ AdapterInit \/ ModelInit
  \/ LoadStore
  \/ \E i \in Axes : Transfer(i, "set") \/ Transfer(i, "get") \/ DoStep(i)
  \/ Stop \/ CloseModel \/ CloseDone

Spec == Init /\ [][Next]_vars

(***************************************************************************)
(* Properties                                                              *)
(***************************************************************************)
\* A runner that may still be used is at the FMU's communication point, so
\* doStep is never called with another time than the one the FMU is at.
CommunicationPoint ==
  \A i \in DOMAIN runner : runner[i].initialized /\ ~runner[i].failed => runner[i].time = reached[i]

\* No path through failures and closings calls an FMU where FMI 3.0 forbids
\* it: nothing but freeInstance after an error, nothing after freeInstance, no
\* terminate before initialisation ended, no step from another time than the
\* FMU's own (_check, and close's conditions).
NativeLegal ==
  /\ TypeOK
  /\ \A n \in 1..Len(calls) : calls[n].met \in Allowed(calls[n].op)
  /\ CommunicationPoint

Open(i) == native[i] \notin {"none", "created", "freed"}

\* When the host is done, an instance is still open only where the Model
\* constructor raised after opening it or an earlier close raised; a close that
\* raises still frees its own instance.
LeaksExplained ==
  host.at = "ended" => \A i \in DOMAIN native : Open(i) => i \in abandoned \cup skipped
=============================================================================
