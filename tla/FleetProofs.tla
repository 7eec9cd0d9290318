---------------------------- MODULE FleetProofs -----------------------------
(***************************************************************************)
(* Proofs about the life of the model host, for every environment, any     *)
(* number of axes and any number of communication steps.                   *)
(***************************************************************************)
EXTENDS FmiFleet, FiniteSetTheorems, TLAPS

(***************************************************************************)
(* The inductive invariant.                                                *)
(***************************************************************************)

\* The native calls FMI 3.0 allows.
LegalCalls == {c \in [op : Ops, met : NativeStates] : c.met \in Allowed(c.op)}

Started == host.at \notin {"read", "store"}

\* Phases that construct an axis; in the first ones it has an FMU, and in three
\* of them an instance that is not initialised yet.
InitPhases    == {"instantiate", "enterInit", "exitInit"}
FmuPhases     == {"prepare", "adapter"} \cup InitPhases
OpeningPhases == {"model"} \cup FmuPhases

Place ==
  /\ N \in Nat
  /\ host \in [at : Phases, axis : 0..(N + 1)]
  /\ models \in 0..N
  /\ calls \in Seq(LegalCalls)
  /\ abandoned \subseteq Axes /\ skipped \subseteq Axes
  /\ ~Started => /\ runner = <<>> /\ native = <<>> /\ reached = <<>>
                 /\ models = 0 /\ abandoned = {} /\ skipped = {}
  /\ host.at = "read" => result = <<>> /\ env \in Inputs

Slots ==
  Started => /\ runner \in [Axes -> Runners] /\ native \in [Axes -> NativeStates]
             /\ reached \in [Axes -> 0..MaxTime]

Fresh(i) == ~runner[i].fmu /\ ~runner[i].initialized /\ native[i] = "none" /\ reached[i] = 0

\* The runner of an axis knows the state of its instance: without one nothing
\* is open, and one that may be used is in step mode at the runner's time.
Healthy(i) ==
  /\ ~runner[i].fmu => ~runner[i].initialized /\ ~Open(i)
  /\ runner[i].initialized /\ ~runner[i].failed =>
       native[i] = "step" /\ runner[i].time = reached[i]
  /\ runner[i].initialized /\ runner[i].failed => native[i] \in {"step", "error"}
  /\ runner[i].fmu /\ ~runner[i].initialized => host.at \in InitPhases /\ host.axis = i
  /\ i \notin Copley => Fresh(i)

\* Where the instance is in each phase of the constructor.
Met(phase) == CASE phase = "instantiate" -> "created"
                [] phase = "enterInit" -> "instantiated"
                [] OTHER -> "init"

\* Axes are opened in order, and the one at work is where its phase says.
Order ==
  /\ host.at \in OpeningPhases =>
       host.axis \in Axes /\ models = host.axis - 1 /\ \A i \in Axes : i > host.axis => Fresh(i)
  /\ host.at \in FmuPhases => host.axis \in Copley
  /\ host.at = "prepare" => Fresh(host.axis)
  /\ host.at \in InitPhases =>
       /\ runner[host.axis].fmu /\ ~runner[host.axis].initialized /\ ~runner[host.axis].failed
       /\ runner[host.axis].time = 0 /\ reached[host.axis] = 0
       /\ native[host.axis] = Met(host.at)
  /\ host.at = "adapter" => runner[host.axis].initialized /\ ~runner[host.axis].failed
  /\ host.at \in {"load", "running"} => models = N
  /\ host.at = "close" => host.axis <= models

\* What is still open will be closed, or is known to be left.
Leaks ==
  /\ host.at = "close" => \A i \in Axes : Open(i) => i <= host.axis \/ i \in abandoned
  /\ host.at = "ended" => \A i \in Axes : Open(i) => i \in abandoned \cup skipped

FleetIInv == Place /\ Slots /\ (Started => \A i \in Axes : Healthy(i)) /\ Order /\ Leaks

-----------------------------------------------------------------------------
(***************************************************************************)
(* Lemmas about the data of the model.                                     *)
(***************************************************************************)

\* Every call of the code is legal where it meets the state it expects.
LEMMA CallFacts ==
  /\ \A op \in {"get", "set", "doStep", "terminate"} : Call(op, "step") \in LegalCalls
  /\ \A n \in {"instantiated", "init", "step", "error", "terminated"} :
       Call("free", n) \in LegalCalls
  /\ \A op \in InitPhases : Call(op, Met(op)) \in LegalCalls
<1>1. \A op \in Ops, n \in NativeStates : n \in Allowed(op) => Call(op, n) \in LegalCalls
  BY DEF LegalCalls, Call
<1>2. \A op \in {"get", "set", "doStep", "terminate"} :
        op \in Ops /\ "step" \in NativeStates /\ "step" \in Allowed(op)
  BY DEF Ops, NativeStates, Allowed
<1>3. \A n \in {"instantiated", "init", "step", "error", "terminated"} :
        "free" \in Ops /\ n \in NativeStates /\ n \in Allowed("free")
  BY DEF Ops, NativeStates, Allowed
<1>4. \A op \in InitPhases : op \in Ops /\ Met(op) \in NativeStates /\ Met(op) \in Allowed(op)
  BY DEF InitPhases, Ops, NativeStates, Allowed, Met
<1> QED BY <1>1, <1>2, <1>3, <1>4

\* A list of one call, and two lists of calls one after the other.
LEMMA CallLists ==
  ASSUME NEW c \in LegalCalls, NEW a \in Seq(LegalCalls), NEW b \in Seq(LegalCalls)
  PROVE  <<c>> \in Seq(LegalCalls) /\ Append(a, c) \in Seq(LegalCalls)
         /\ a \o b \in Seq(LegalCalls) /\ <<>> \in Seq(LegalCalls)
OBVIOUS

\* The states in which the code closes a runner.
Closable(r, n) ==
  /\ ~r.fmu => ~r.initialized /\ n \in {"none", "created", "freed"}
  /\ r.fmu => n \in {"created", "instantiated", "init", "step", "error"}
  /\ r.initialized /\ ~r.failed => n = "step"

Outcome(n, cs, raised) == [native |-> n, calls |-> cs, raised |-> raised]

\* terminate is called on an instance in step mode only; what it leaves can be
\* freed.
LEMMA TerminationFacts ==
  ASSUME NEW r, NEW n, Closable(r, n), NEW t \in Terminations(r, n)
  PROVE  \E m \in NativeStates, cs \in Seq(LegalCalls), raised \in BOOLEAN :
           /\ t = Outcome(m, cs, raised)
           /\ r.fmu => m \in {"created", "instantiated", "init", "step", "error", "terminated"}
           /\ ~r.fmu => m \in {"none", "created", "freed"}
<1>1. CASE r.fmu /\ r.initialized /\ ~r.failed
  <2>1. <<Call("terminate", n)>> \in Seq(LegalCalls)
    BY <1>1, CallFacts, CallLists DEF Closable
  <2>2. \/ t = Outcome("terminated", <<Call("terminate", n)>>, FALSE)
        \/ t = Outcome("error", <<Call("terminate", n)>>, TRUE)
    BY <1>1 DEF Terminations, Outcome
  <2>3. "terminated" \in NativeStates /\ "error" \in NativeStates
    BY DEF NativeStates
  <2> QED BY <1>1, <2>1, <2>2, <2>3, Zenon
<1>2. CASE ~(r.fmu /\ r.initialized /\ ~r.failed)
  <2>1. t = Outcome(n, <<>>, FALSE) /\ <<>> \in Seq(LegalCalls)
    BY <1>2 DEF Terminations, Outcome
  <2>2. n \in NativeStates
    BY DEF Closable, NativeStates
  <2>3. /\ r.fmu => n \in {"created", "instantiated", "init", "step", "error", "terminated"}
        /\ ~r.fmu => n \in {"none", "created", "freed"}
    BY DEF Closable
  <2> QED BY <2>1, <2>2, <2>3, Zenon
<1> QED BY <1>1, <1>2

\* Whatever raises in close, the instance is freed if it was instantiated, and
\* all calls are legal.
LEMMA ClosingFacts ==
  ASSUME NEW r \in Runners, NEW n, Closable(r, n), NEW c \in Closings(r, n)
  PROVE  /\ c.native \in {"none", "created", "freed"} /\ c.calls \in Seq(LegalCalls)
         /\ Closed(r, c) \in Runners
         /\ ~Closed(r, c).fmu /\ ~Closed(r, c).initialized
         /\ ~r.fmu => c.native = n
<1>1. PICK t \in Terminations(r, n) : \E left \in BOOLEAN :
        c = [native |-> Released(r, t).native, calls |-> Released(r, t).calls,
             raised |-> t.raised \/ left, folder |-> left]
  BY DEF Closings
<1>2. c.native = Released(r, t).native /\ c.calls = Released(r, t).calls /\ c.folder \in BOOLEAN
  BY <1>1
<1>3. Closed(r, c) \in Runners /\ ~Closed(r, c).fmu /\ ~Closed(r, c).initialized
  BY <1>2 DEF Closed, Runners
<1>4. PICK m \in NativeStates, cs \in Seq(LegalCalls), raised \in BOOLEAN :
           /\ t = Outcome(m, cs, raised)
           /\ r.fmu => m \in {"created", "instantiated", "init", "step", "error", "terminated"}
           /\ ~r.fmu => m \in {"none", "created", "freed"}
  BY TerminationFacts
<1>5. t.native = m /\ t.calls = cs
  BY <1>4 DEF Outcome
<1>6. CASE r.fmu /\ m # "created"
  <2>1. /\ Released(r, t).native = "freed"
        /\ Released(r, t).calls = Append(cs, Call("free", m))
    BY <1>4, <1>5, <1>6 DEF Released, Outcome
  <2>2. Append(cs, Call("free", m)) \in Seq(LegalCalls)
    BY <1>4, <1>6, CallFacts, CallLists
  <2> QED BY <1>2, <1>3, <1>6, <2>1, <2>2
<1>7. CASE ~(r.fmu /\ m # "created")
  <2>1. Released(r, t) = t
    BY <1>5, <1>7 DEF Released
  <2>2. ~r.fmu => m = n
    BY <1>5 DEF Terminations
  <2> QED BY <1>2, <1>3, <1>4, <1>5, <1>7, <2>1, <2>2
<1> QED BY <1>6, <1>7

\* One entry of a function changes.
LEMMA OneEntry ==
  ASSUME NEW D, NEW S, NEW f \in [D -> S], NEW i \in D, NEW x \in S
  PROVE  /\ [f EXCEPT ![i] = x] \in [D -> S] /\ [f EXCEPT ![i] = x][i] = x
         /\ \A j \in D : j # i => [f EXCEPT ![i] = x][j] = f[j]
OBVIOUS

\* With the device list the axes stay.
LEMMA AxesFixed ==
  ASSUME result' = result
  PROVE  N' = N /\ Axes' = Axes /\ Copley' = Copley
BY DEF N, Axes, Copley, Accepted

\* The invariant once the fleet exists.
LEMMA StartedFacts ==
  ASSUME FleetIInv, Started
  PROVE  /\ N \in Nat /\ Axes = 1..N /\ Copley \subseteq Axes
         /\ runner \in [Axes -> Runners] /\ native \in [Axes -> NativeStates]
         /\ reached \in [Axes -> 0..MaxTime]
         /\ \A i \in Axes : /\ Healthy(i) /\ runner[i] \in Runners
                             /\ native[i] \in NativeStates /\ reached[i] \in 0..MaxTime
         /\ models \in 0..N /\ host \in [at : Phases, axis : 0..(N + 1)]
         /\ abandoned \subseteq Axes /\ skipped \subseteq Axes
<1>1. /\ runner \in [Axes -> Runners] /\ native \in [Axes -> NativeStates]
      /\ reached \in [Axes -> 0..MaxTime] /\ \A i \in Axes : Healthy(i)
  BY DEF FleetIInv, Slots
<1>2. /\ N \in Nat /\ models \in 0..N /\ host \in [at : Phases, axis : 0..(N + 1)]
      /\ abandoned \subseteq Axes /\ skipped \subseteq Axes
  BY DEF FleetIInv, Place
<1>3. Axes = 1..N /\ Copley \subseteq Axes
  BY DEF Axes, Copley
<1> QED BY <1>1, <1>2, <1>3

\* A state record of the host.
LEMMA AtFacts ==
  ASSUME NEW p, NEW i
  PROVE  At(p, i).at = p /\ At(p, i).axis = i
BY DEF At

\* A step that changes the runner and the instance of axis i alone.
LEMMA SlotStep ==
  ASSUME FleetIInv, Started, result' = result, NEW i \in Axes,
         host.at \in InitPhases => host.axis = i,
         NEW r \in Runners, NEW n \in NativeStates, NEW t \in 0..MaxTime,
         runner' = [runner EXCEPT ![i] = r], native' = [native EXCEPT ![i] = n],
         reached' = [reached EXCEPT ![i] = t],
         ~r.fmu => ~r.initialized /\ n \in {"none", "created", "freed"},
         r.initialized /\ ~r.failed => n = "step" /\ r.time = t,
         r.initialized /\ r.failed => n \in {"step", "error"},
         r.fmu /\ ~r.initialized => host'.at \in InitPhases /\ host'.axis = i,
         i \notin Copley => ~r.fmu /\ ~r.initialized /\ n = "none" /\ t = 0
  PROVE  /\ runner' \in [Axes -> Runners] /\ native' \in [Axes -> NativeStates]
         /\ reached' \in [Axes -> 0..MaxTime]
         /\ \A j \in Axes : Healthy(j)'
         /\ runner'[i] = r /\ native'[i] = n /\ reached'[i] = t
         /\ \A j \in Axes : j # i => /\ runner'[j] = runner[j] /\ native'[j] = native[j]
                                     /\ reached'[j] = reached[j]
<1>1. /\ runner \in [Axes -> Runners] /\ native \in [Axes -> NativeStates]
      /\ reached \in [Axes -> 0..MaxTime] /\ \A j \in Axes : Healthy(j)
  BY StartedFacts
<1>2. /\ runner' \in [Axes -> Runners] /\ runner'[i] = r
      /\ \A j \in Axes : j # i => runner'[j] = runner[j]
  BY <1>1, OneEntry
<1>3. /\ native' \in [Axes -> NativeStates] /\ native'[i] = n
      /\ \A j \in Axes : j # i => native'[j] = native[j]
  BY <1>1, OneEntry
<1>4. /\ reached' \in [Axes -> 0..MaxTime] /\ reached'[i] = t
      /\ \A j \in Axes : j # i => reached'[j] = reached[j]
  BY <1>1, OneEntry
<1>5. Copley' = Copley
  BY AxesFixed
<1>6. Healthy(i)'
  BY <1>2, <1>3, <1>4, <1>5 DEF Healthy, Open, Fresh
<1>7. ASSUME NEW j \in Axes, j # i PROVE Healthy(j)'
  <2>1. Healthy(j) /\ ~(runner[j].fmu /\ ~runner[j].initialized)
    BY <1>1, <1>7 DEF Healthy
  <2>2. runner'[j] = runner[j] /\ native'[j] = native[j] /\ reached'[j] = reached[j]
    BY <1>2, <1>3, <1>4, <1>7
  <2> QED BY <1>5, <2>1, <2>2 DEF Healthy, Open, Fresh
<1> QED BY <1>2, <1>3, <1>4, <1>6, <1>7

\* A step that changes no runner and no instance.
LEMMA SlotsStay ==
  ASSUME FleetIInv, Started, host.at \notin InitPhases,
         UNCHANGED <<result, runner, native, reached>>
  PROVE  /\ runner' \in [Axes -> Runners] /\ native' \in [Axes -> NativeStates]
         /\ reached' \in [Axes -> 0..MaxTime]
         /\ \A j \in Axes : Healthy(j)'
<1>1. Copley' = Copley
  BY AxesFixed
<1>2. /\ runner \in [Axes -> Runners] /\ native \in [Axes -> NativeStates]
      /\ reached \in [Axes -> 0..MaxTime] /\ \A j \in Axes : Healthy(j)
  BY StartedFacts
<1>3. ASSUME NEW j \in Axes PROVE Healthy(j)'
  BY <1>1, <1>2 DEF Healthy, Open, Fresh
<1> QED BY <1>2, <1>3

\* The parts of the invariant together, after a step of the fleet.
LEMMA Together ==
  ASSUME N \in Nat, result' = result,
         runner' \in [Axes -> Runners], native' \in [Axes -> NativeStates],
         reached' \in [Axes -> 0..MaxTime], \A j \in Axes : Healthy(j)',
         NEW p \in Phases \ {"read", "store"}, NEW a \in 0..(N + 1), host' = At(p, a),
         models' \in 0..N, calls' \in Seq(LegalCalls),
         abandoned' \subseteq Axes, skipped' \subseteq Axes, Order', Leaks'
  PROVE  FleetIInv'
<1>1. N' = N /\ Axes' = Axes
  BY AxesFixed
<1>2. host' \in [at : Phases, axis : 0..(N + 1)] /\ host'.at = p
  BY DEF At
<1>3. Started' /\ host'.at # "read"
  BY <1>2 DEF Started
<1>4. LegalCalls' = LegalCalls
  BY DEF LegalCalls, Allowed
<1>5. Place'
  BY <1>1, <1>2, <1>3, <1>4 DEF Place
<1>6. Slots' /\ (Started => \A i \in Axes : Healthy(i))'
  BY <1>1, <1>3 DEF Slots
<1> QED BY <1>5, <1>6 DEF FleetIInv

\* A construction that raises closes its own runner.
LEMMA OpenFailsStep ==
  ASSUME FleetIInv, host.at \in FmuPhases, NEW r \in Runners, NEW n, Closable(r, n),
         NEW made \in Seq(LegalCalls), OpenFails(host.axis, r, n, made)
  PROVE  FleetIInv'
<1> DEFINE i == host.axis
<1>0. Started /\ host.at \in OpeningPhases
  BY DEF Started, FmuPhases, InitPhases, OpeningPhases
<1>1. i \in Axes /\ i \in Copley /\ models = i - 1 /\ \A j \in Axes : j > i => Fresh(j)
  BY <1>0 DEF FleetIInv, Order
<1>2. PICK c \in Closings(r, n) :
        /\ runner' = [runner EXCEPT ![i] = Closed(r, c)]
        /\ native' = [native EXCEPT ![i] = c.native]
        /\ calls' = made \o c.calls
  BY DEF OpenFails
<1>3. host' = At("close", models) /\ UNCHANGED <<env, result, models, reached, abandoned, skipped>>
  BY DEF OpenFails
<1>4. /\ c.native \in {"none", "created", "freed"} /\ c.calls \in Seq(LegalCalls)
      /\ Closed(r, c) \in Runners /\ ~Closed(r, c).fmu /\ ~Closed(r, c).initialized
  BY ClosingFacts
<1> HIDE DEF i
<1>5. reached' = [reached EXCEPT ![i] = reached[i]] /\ reached[i] \in 0..MaxTime
  BY <1>0, <1>1, <1>3, StartedFacts
<1>6. c.native \in NativeStates
  BY <1>4 DEF NativeStates
<1>7. /\ runner' \in [Axes -> Runners] /\ native' \in [Axes -> NativeStates]
      /\ reached' \in [Axes -> 0..MaxTime] /\ \A j \in Axes : Healthy(j)'
      /\ native'[i] = c.native /\ \A j \in Axes : j # i => native'[j] = native[j]
  BY <1>0, <1>1, <1>2, <1>3, <1>4, <1>5, <1>6, SlotStep DEF i
<1>8. N \in Nat /\ Axes = 1..N /\ models \in 0..N /\ abandoned \subseteq Axes /\ skipped \subseteq Axes
  BY <1>0, StartedFacts
<1>9. Axes' = Axes /\ N' = N /\ host'.at = "close" /\ host'.axis = models /\ models' = models
  BY <1>3, AxesFixed, AtFacts
<1>10. Order'
  BY <1>8, <1>9 DEF Order, OpeningPhases, FmuPhases, InitPhases
<1>11. Leaks'
  <2>1. ASSUME NEW j \in Axes, Open(j)' PROVE j <= models
    <3>1. j # i
      BY <1>4, <1>7, <2>1 DEF Open
    <3>2. Open(j)
      BY <1>7, <2>1, <3>1 DEF Open
    <3>3. ~(j > i)
      BY <1>1, <3>2 DEF Open, Fresh
    <3> QED BY <1>1, <1>8, <3>1, <3>3
  <2> QED BY <1>9, <2>1 DEF Leaks
<1>12. calls' \in Seq(LegalCalls)
  BY <1>2, <1>4
<1>13. models \in 0..(N + 1) /\ "close" \in Phases \ {"read", "store"}
  BY <1>8 DEF Phases
<1> QED BY <1>0, <1>3, <1>7, <1>8, <1>10, <1>11, <1>12, <1>13, Together

\* The steps of the constructor that go on: axis i stays the one at work.
LEMMA OpeningGoesOn ==
  ASSUME FleetIInv, host.at \in FmuPhases, NEW p \in FmuPhases \ {"prepare"},
         host' = At(p, host.axis), calls' \in Seq(LegalCalls),
         NEW r \in Runners, NEW n \in NativeStates, r.fmu, ~r.failed,
         r.time = reached[host.axis],
         p \in InitPhases => ~r.initialized /\ n = Met(p) /\ r.time = 0,
         p = "adapter" => r.initialized /\ n = "step",
         runner' = [runner EXCEPT ![host.axis] = r], native' = [native EXCEPT ![host.axis] = n],
         UNCHANGED <<env, result, models, reached, abandoned, skipped>>
  PROVE  FleetIInv'
<1> DEFINE i == host.axis
<1>0. Started /\ host.at \in OpeningPhases
  BY DEF Started, FmuPhases, InitPhases, OpeningPhases
<1>1. i \in Axes /\ i \in Copley /\ models = i - 1 /\ \A j \in Axes : j > i => Fresh(j)
  BY <1>0 DEF FleetIInv, Order
<1>2. reached' = [reached EXCEPT ![i] = reached[i]] /\ reached[i] \in 0..MaxTime
  BY <1>0, <1>1, StartedFacts
<1>3. host'.at = p /\ host'.axis = i
  BY AtFacts
<1>4. p \in InitPhases \/ p = "adapter"
  BY DEF FmuPhases
<1> HIDE DEF i
<1>5. /\ runner' \in [Axes -> Runners] /\ native' \in [Axes -> NativeStates]
      /\ reached' \in [Axes -> 0..MaxTime] /\ \A j \in Axes : Healthy(j)'
      /\ runner'[i] = r /\ native'[i] = n /\ reached'[i] = reached[i]
      /\ \A j \in Axes : j # i => /\ runner'[j] = runner[j] /\ native'[j] = native[j]
                                  /\ reached'[j] = reached[j]
  BY <1>0, <1>1, <1>2, <1>3, <1>4, SlotStep DEF i
<1>6. N \in Nat /\ Axes = 1..N /\ models \in 0..N /\ abandoned \subseteq Axes /\ skipped \subseteq Axes
  BY <1>0, StartedFacts
<1>7. Axes' = Axes /\ N' = N /\ Copley' = Copley
  BY AxesFixed
<1>8. \A j \in Axes : j > i => Fresh(j)'
  <2> TAKE j \in Axes
  <2> HAVE j > i
  <2>1. j # i /\ Fresh(j)
    BY <1>1, <1>6
  <2> QED BY <1>5, <2>1 DEF Fresh
<1>9. Order'
  <2>1. p # "prepare" /\ p # "load" /\ p # "running" /\ p # "close"
    BY DEF FmuPhases, InitPhases
  <2>2. Met(p)' = Met(p)
    BY DEF Met
  <2>3. r.time = 0 /\ p \in InitPhases => reached'[i] = 0
    BY <1>5 DEF i
  <2>4. p = "adapter" => p \notin InitPhases
    BY DEF InitPhases
  <2> QED BY <1>1, <1>3, <1>4, <1>5, <1>7, <1>8, <2>1, <2>3, <2>4 DEF Order, Met
<1>10. Leaks'
  BY <1>3 DEF Leaks, FmuPhases, InitPhases
<1>11. p \in Phases \ {"read", "store"} /\ i \in 0..(N + 1)
  BY <1>1, <1>6 DEF Phases, FmuPhases, InitPhases
<1> QED BY <1>0, <1>5, <1>6, <1>9, <1>10, <1>11, Together DEF i

\* The FMU is unpacked and its library loaded.
LEMMA PrepareStep ==
  ASSUME FleetIInv, Prepare
  PROVE  FleetIInv'
<1> DEFINE r == [NoRunner EXCEPT !.folder = TRUE]
           q == [r EXCEPT !.fmu = TRUE]
<1>1. host.at = "prepare" /\ host.at \in FmuPhases /\ Fresh(host.axis)
  BY DEF Prepare, FleetIInv, Order, FmuPhases
<1>0. 0 \in 0..MaxTime
  BY FleetAssumption
<1>2. /\ r \in Runners /\ ~r.fmu /\ ~r.initialized /\ ~r.failed /\ r.time = 0
      /\ Closable(r, "none") /\ <<>> \in Seq(LegalCalls)
  <2>1. /\ NoRunner \in Runners /\ ~NoRunner.fmu /\ ~NoRunner.initialized /\ ~NoRunner.failed
        /\ NoRunner.time = 0
    BY <1>0 DEF Runners, NoRunner
  <2>2. r \in Runners /\ ~r.fmu /\ ~r.initialized /\ ~r.failed /\ r.time = 0
    BY <2>1 DEF Runners
  <2> QED BY <2>2 DEF Closable
<1> HIDE DEF r
<1>3. /\ q \in Runners /\ q.fmu /\ ~q.failed /\ ~q.initialized /\ q.time = 0
  BY <1>2 DEF Runners
<1>4. \/ OpenFails(host.axis, r, "none", <<>>)
      \/ /\ runner' = [runner EXCEPT ![host.axis] = q]
         /\ native' = [native EXCEPT ![host.axis] = "created"]
         /\ calls' = <<>> /\ host' = At("instantiate", host.axis)
         /\ UNCHANGED <<env, result, models, reached, abandoned, skipped>>
  BY DEF Prepare, r
<1> HIDE DEF q
<1>5. /\ "instantiate" \in FmuPhases \ {"prepare"} /\ "created" \in NativeStates
      /\ "created" = Met("instantiate") /\ reached[host.axis] = 0
  BY <1>1 DEF FmuPhases, InitPhases, NativeStates, Met, Fresh
<1>6. CASE OpenFails(host.axis, r, "none", <<>>)
  BY <1>1, <1>2, <1>6, OpenFailsStep
<1>7. CASE /\ runner' = [runner EXCEPT ![host.axis] = q]
           /\ native' = [native EXCEPT ![host.axis] = "created"]
           /\ calls' = <<>> /\ host' = At("instantiate", host.axis)
           /\ UNCHANGED <<env, result, models, reached, abandoned, skipped>>
  BY <1>1, <1>2, <1>3, <1>5, <1>7, OpeningGoesOn
<1> QED BY <1>4, <1>6, <1>7

\* A native call of the constructor.
LEMMA InitialisingStep ==
  ASSUME FleetIInv, NEW op \in InitPhases, NEW good \in NativeStates, NEW bad, NEW next,
         bad \in {"created", "error"}, next \in FmuPhases \ {"prepare"},
         op # "exitInit" => next \in InitPhases /\ good = Met(next),
         op = "exitInit" => next = "adapter" /\ good = "step",
         Initialising(op, good, bad, next)
  PROVE  FleetIInv'
<1> DEFINE i == host.axis
           r == runner[i]
           q == [r EXCEPT !.initialized = (op = "exitInit")]
           done == <<Call(op, native[i])>>
<1>1. host.at = op /\ host.at \in FmuPhases /\ host.at \in OpeningPhases /\ Started
  BY DEF Initialising, FmuPhases, InitPhases, OpeningPhases, Started
<1>2. /\ i \in Axes /\ r.fmu /\ ~r.initialized /\ ~r.failed /\ r.time = 0 /\ reached[i] = 0
      /\ native[i] = Met(op)
  BY <1>1 DEF FleetIInv, Order
<1>3. r \in Runners /\ runner \in [Axes -> Runners]
  BY <1>1, <1>2, StartedFacts
<1>4. /\ q \in Runners /\ q.fmu /\ ~q.failed /\ q.time = 0
      /\ q.initialized <=> op = "exitInit"
  BY <1>2, <1>3 DEF Runners
<1>5. Closable(r, bad)
  BY <1>2 DEF Closable
<1>6. done \in Seq(LegalCalls)
  BY <1>2, CallFacts, CallLists
<1>7. [runner EXCEPT ![i].initialized = (op = "exitInit")] = [runner EXCEPT ![i] = q]
  BY <1>2, <1>3
<1>8. \/ OpenFails(i, r, bad, done)
      \/ /\ native' = [native EXCEPT ![i] = good]
         /\ calls' = done
         /\ runner' = [runner EXCEPT ![i] = q]
         /\ host' = At(next, i)
         /\ UNCHANGED <<env, result, models, reached, abandoned, skipped>>
  BY <1>7 DEF Initialising
<1>9. op = "exitInit" => next \notin InitPhases
  BY DEF InitPhases
<1>10. op # "exitInit" => next # "adapter"
  BY DEF InitPhases
<1> HIDE DEF i, r, q, done
<1>11. CASE OpenFails(i, r, bad, done)
  BY <1>1, <1>3, <1>5, <1>6, <1>11, OpenFailsStep DEF i
<1>12. CASE /\ native' = [native EXCEPT ![i] = good]
            /\ calls' = done
            /\ runner' = [runner EXCEPT ![i] = q]
            /\ host' = At(next, i)
            /\ UNCHANGED <<env, result, models, reached, abandoned, skipped>>
  BY <1>1, <1>2, <1>4, <1>6, <1>9, <1>10, <1>12, OpeningGoesOn DEF i
<1> QED BY <1>8, <1>11, <1>12

\* The adapter reads the FMU.
LEMMA AdapterInitStep ==
  ASSUME FleetIInv, AdapterInit
  PROVE  FleetIInv'
<1> DEFINE i == host.axis
           r == runner[i]
           f == [r EXCEPT !.failed = TRUE]
           done == <<Call("get", native[i])>>
<1>1. /\ host.at = "adapter" /\ host.at \in FmuPhases /\ host.at \in OpeningPhases /\ Started
      /\ host.at \notin InitPhases
  BY DEF AdapterInit, FmuPhases, InitPhases, OpeningPhases, Started
<1>2. /\ i \in Axes /\ r.initialized /\ ~r.failed /\ models = i - 1
      /\ \A j \in Axes : j > i => Fresh(j)
  BY <1>1 DEF FleetIInv, Order
<1>3. r \in Runners /\ Healthy(i)
  BY <1>1, <1>2, StartedFacts
<1>4. native[i] = "step" /\ r.fmu
  BY <1>2, <1>3 DEF Healthy
<1>5. f \in Runners /\ f.fmu /\ f.failed /\ Closable(f, "error") /\ Closable(r, native[i])
  BY <1>2, <1>3, <1>4 DEF Runners, Closable
<1>6. done \in Seq(LegalCalls)
  BY <1>4, CallFacts, CallLists
<1>7. \/ OpenFails(i, f, "error", done)
      \/ OpenFails(i, r, native[i], done)
      \/ /\ calls' = done
         /\ host' = At("model", i)
         /\ UNCHANGED <<env, result, models, runner, native, reached, abandoned, skipped>>
  BY DEF AdapterInit
<1> HIDE DEF i, r, f, done
<1>8. CASE OpenFails(i, f, "error", done)
  BY <1>1, <1>5, <1>6, <1>8, OpenFailsStep DEF i
<1>9. CASE OpenFails(i, r, native[i], done)
  BY <1>1, <1>3, <1>5, <1>6, <1>9, OpenFailsStep DEF i
<1>10. CASE /\ calls' = done
            /\ host' = At("model", i)
            /\ UNCHANGED <<env, result, models, runner, native, reached, abandoned, skipped>>
  <2>1. /\ runner' \in [Axes -> Runners] /\ native' \in [Axes -> NativeStates]
        /\ reached' \in [Axes -> 0..MaxTime] /\ \A j \in Axes : Healthy(j)'
    BY <1>1, <1>10, SlotsStay
  <2>2. N \in Nat /\ Axes = 1..N /\ models \in 0..N /\ abandoned \subseteq Axes
        /\ skipped \subseteq Axes
    BY <1>1, StartedFacts
  <2>3. Axes' = Axes /\ N' = N /\ host'.at = "model" /\ host'.axis = i
    BY <1>10, AxesFixed, AtFacts
  <2>4. \A j \in Axes : j > i => Fresh(j)'
    BY <1>2, <1>10 DEF Fresh
  <2>5. Order'
    BY <1>2, <1>10, <2>3, <2>4 DEF Order, FmuPhases, InitPhases
  <2>6. Leaks'
    BY <2>3 DEF Leaks
  <2>7. "model" \in Phases \ {"read", "store"} /\ i \in 0..(N + 1)
    BY <1>2, <2>2 DEF Phases
  <2> QED BY <1>1, <1>6, <1>10, <2>1, <2>2, <2>5, <2>6, <2>7, Together
<1> QED BY <1>7, <1>8, <1>9, <1>10

\* The loop of the fleet's constructor goes to axis k.
LEMMA OpensNext ==
  ASSUME N \in Nat, result' = result, NEW k \in 1..(N + 1),
         host' = Opening(k), models' = k - 1, \A j \in Axes : j >= k => Fresh(j)',
         runner' \in [Axes -> Runners], native' \in [Axes -> NativeStates],
         reached' \in [Axes -> 0..MaxTime], \A j \in Axes : Healthy(j)',
         calls' \in Seq(LegalCalls), abandoned' \subseteq Axes, skipped' \subseteq Axes
  PROVE  FleetIInv'
<1>1. Axes' = Axes /\ N' = N /\ Copley' = Copley /\ Axes = 1..N
  BY AxesFixed DEF Axes
<1>2. CASE k = N + 1
  <2>1. host' = At("load", 0)
    BY <1>2 DEF Opening
  <2>2. host'.at = "load" /\ models' = N
    BY <1>2, <2>1, AtFacts
  <2>3. Order' /\ Leaks'
    BY <1>1, <2>2 DEF Order, Leaks, OpeningPhases, FmuPhases, InitPhases
  <2>4. "load" \in Phases \ {"read", "store"} /\ 0 \in 0..(N + 1) /\ models' \in 0..N
    BY <2>2 DEF Phases
  <2> QED BY <2>1, <2>3, <2>4, Together
<1>3. CASE k \in Axes
  <2>1. PICK p \in {"prepare", "model"} : host' = At(p, k) /\ (p = "prepare" => k \in Copley)
    BY <1>1, <1>3 DEF Opening
  <2>2. host'.at = p /\ host'.axis = k
    BY <2>1, AtFacts
  <2>3. Fresh(k)' /\ \A j \in Axes : j > k => Fresh(j)'
    BY <1>1, <1>3
  <2>4. Order'
    <3>1. p \notin InitPhases /\ p # "adapter" /\ p \notin {"load", "running"} /\ p # "close"
      BY DEF InitPhases
    <3>2. p \in FmuPhases => k \in Copley
      BY <2>1 DEF FmuPhases, InitPhases
    <3> QED BY <1>1, <1>3, <2>2, <2>3, <3>1, <3>2 DEF Order
  <2>5. Leaks'
    BY <2>2 DEF Leaks
  <2>6. p \in Phases \ {"read", "store"} /\ k \in 0..(N + 1) /\ models' \in 0..N
    BY <1>1, <1>3 DEF Phases
  <2> QED BY <2>1, <2>4, <2>5, <2>6, Together
<1>4. k = N + 1 \/ k \in Axes
  BY <1>1
<1> QED BY <1>2, <1>3, <1>4

\* The model of an axis is made, or its constructor raises.
LEMMA ModelInitStep ==
  ASSUME FleetIInv, ModelInit
  PROVE  FleetIInv'
<1> DEFINE i == host.axis
<1>1. host.at = "model" /\ host.at \in OpeningPhases /\ Started /\ host.at \notin InitPhases
  BY DEF ModelInit, FmuPhases, InitPhases, OpeningPhases, Started
<1>2. i \in Axes /\ models = i - 1 /\ \A j \in Axes : j > i => Fresh(j)
  BY <1>1 DEF FleetIInv, Order
<1>3. /\ calls' = <<>> /\ UNCHANGED <<env, result, runner, native, reached, skipped>>
      /\ \/ /\ host' = At("close", models) /\ models' = models
            /\ abandoned' = abandoned \cup ({i} \cap Copley)
         \/ models' = i /\ host' = Opening(i + 1) /\ abandoned' = abandoned
  BY DEF ModelInit
<1> HIDE DEF i
<1>4. /\ runner' \in [Axes -> Runners] /\ native' \in [Axes -> NativeStates]
      /\ reached' \in [Axes -> 0..MaxTime] /\ \A j \in Axes : Healthy(j)'
  BY <1>1, <1>3, SlotsStay
<1>5. /\ N \in Nat /\ Axes = 1..N /\ models \in 0..N /\ abandoned \subseteq Axes
      /\ skipped \subseteq Axes /\ \A j \in Axes : Healthy(j)
  BY <1>1, StartedFacts
<1>6. calls' \in Seq(LegalCalls)
  BY <1>3
<1>7. CASE /\ host' = At("close", models) /\ models' = models
           /\ abandoned' = abandoned \cup ({i} \cap Copley)
  <2>1. Axes' = Axes /\ N' = N /\ host'.at = "close" /\ host'.axis = models
    BY <1>3, <1>7, AxesFixed, AtFacts
  <2>2. Order'
    BY <1>5, <1>7, <2>1 DEF Order, OpeningPhases, FmuPhases, InitPhases
  <2>3. Leaks'
    <3>1. ASSUME NEW j \in Axes, Open(j)' PROVE j <= models \/ j \in abandoned'
      <4>1. Open(j)
        BY <1>3, <3>1 DEF Open
      <4>2. ~(j > i)
        BY <1>2, <4>1 DEF Open, Fresh
      <4>3. j = i => j \in abandoned'
        BY <1>5, <1>7, <4>1 DEF Healthy, Fresh, Open
      <4> QED BY <1>2, <1>5, <4>2, <4>3
    <3> QED BY <2>1, <3>1 DEF Leaks
  <2>4. abandoned' \subseteq Axes /\ skipped' \subseteq Axes /\ models' \in 0..N
    BY <1>2, <1>3, <1>5, <1>7
  <2>5. "close" \in Phases \ {"read", "store"} /\ models \in 0..(N + 1)
    BY <1>5 DEF Phases
  <2> QED BY <1>3, <1>4, <1>5, <1>6, <1>7, <2>2, <2>3, <2>4, <2>5, Together
<1>8. CASE models' = i /\ host' = Opening(i + 1) /\ abandoned' = abandoned
  <2>1. i + 1 \in 1..(N + 1) /\ models' = (i + 1) - 1
    BY <1>2, <1>5, <1>8
  <2>2. \A j \in Axes : j >= i + 1 => Fresh(j)'
    <3> TAKE j \in Axes
    <3> HAVE j >= i + 1
    <3>1. Fresh(j)
      BY <1>2, <1>5
    <3> QED BY <1>3, <3>1 DEF Fresh
  <2>3. abandoned' \subseteq Axes /\ skipped' \subseteq Axes
    BY <1>3, <1>5, <1>8
  <2> QED BY <1>3, <1>4, <1>5, <1>6, <1>8, <2>1, <2>2, <2>3, OpensNext
<1> QED BY <1>3, <1>7, <1>8

\* A step between the phases that touches no runner: the snapshots are loaded,
\* the host stops, or it has closed everything.
LEMMA QuietStep ==
  ASSUME FleetIInv, LoadStore \/ Stop \/ CloseDone
  PROVE  FleetIInv'
<1>1. Started /\ host.at \notin InitPhases
  BY AtFacts DEF LoadStore, Stop, CloseDone, InitPhases, Started
<1>2. /\ calls' = <<>> /\ UNCHANGED <<result, models, runner, native, reached, abandoned, skipped>>
  BY DEF LoadStore, Stop, CloseDone
<1>3. /\ runner' \in [Axes -> Runners] /\ native' \in [Axes -> NativeStates]
      /\ reached' \in [Axes -> 0..MaxTime] /\ \A j \in Axes : Healthy(j)'
  BY <1>1, <1>2, SlotsStay
<1>4. /\ N \in Nat /\ Axes = 1..N /\ models \in 0..N /\ abandoned \subseteq Axes
      /\ skipped \subseteq Axes
  BY <1>1, StartedFacts
<1>5. Axes' = Axes /\ N' = N
  BY <1>2, AxesFixed
<1>6. calls' \in Seq(LegalCalls)
  BY <1>2
<1>7. \A j \in Axes : Open(j)' <=> Open(j)
  BY <1>2 DEF Open
<1>8. CASE host' = At("close", models) /\ host.at \in {"load", "running"}
  <2>1. host'.at = "close" /\ host'.axis = models /\ models = N
    BY <1>8, AtFacts DEF FleetIInv, Order
  <2>2. Order'
    BY <1>2, <1>4, <2>1 DEF Order, OpeningPhases, FmuPhases, InitPhases
  <2>3. Leaks'
    BY <1>4, <1>5, <2>1 DEF Leaks
  <2>4. "close" \in Phases \ {"read", "store"} /\ models \in 0..(N + 1)
    BY <1>4 DEF Phases
  <2> QED BY <1>2, <1>3, <1>4, <1>6, <1>8, <2>2, <2>3, <2>4, Together
<1>9. CASE host' = At("running", 0) /\ host.at = "load"
  <2>1. host'.at = "running" /\ models = N
    BY <1>9, AtFacts DEF FleetIInv, Order
  <2>2. Order' /\ Leaks'
    BY <1>2, <1>5, <2>1 DEF Order, Leaks, OpeningPhases, FmuPhases, InitPhases
  <2>3. "running" \in Phases \ {"read", "store"} /\ 0 \in 0..(N + 1)
    BY <1>4 DEF Phases
  <2> QED BY <1>2, <1>3, <1>4, <1>6, <1>9, <2>2, <2>3, Together
<1>10. CASE host' = At("ended", 0) /\ host = At("close", 0)
  <2>1. host'.at = "ended" /\ host.at = "close" /\ host.axis = 0
    BY <1>10, AtFacts
  <2>2. Order'
    BY <2>1 DEF Order, OpeningPhases, FmuPhases, InitPhases
  <2>3. Leaks'
    <3>1. \A j \in Axes : Open(j) => j \in abandoned
      BY <1>4, <2>1 DEF FleetIInv, Leaks
    <3> QED BY <1>2, <1>5, <1>7, <2>1, <3>1 DEF Leaks
  <2>4. "ended" \in Phases \ {"read", "store"} /\ 0 \in 0..(N + 1)
    BY <1>4 DEF Phases
  <2> QED BY <1>2, <1>3, <1>4, <1>6, <1>10, <2>2, <2>3, <2>4, Together
<1> QED BY <1>8, <1>9, <1>10 DEF LoadStore, Stop, CloseDone

\* A call on a runner that may be used.
LEMMA RunningStep ==
  ASSUME FleetIInv, NEW i \in Axes, Usable(i),
         NEW r \in Runners, NEW n \in {"step", "error"}, NEW t \in 0..MaxTime,
         r.fmu, r.initialized, ~r.failed => n = "step" /\ r.time = t,
         NEW op \in {"get", "set", "doStep"}, calls' = <<Call(op, native[i])>>,
         runner' = [runner EXCEPT ![i] = r], native' = [native EXCEPT ![i] = n],
         reached' = [reached EXCEPT ![i] = t],
         UNCHANGED <<env, result, host, models, abandoned, skipped>>
  PROVE  FleetIInv'
<1>1. /\ host.at = "running" /\ Started /\ host.at \notin InitPhases /\ i \in Copley
      /\ runner[i].initialized /\ ~runner[i].failed
  BY DEF Usable, Started, InitPhases
<1>2. /\ N \in Nat /\ models \in 0..N /\ abandoned \subseteq Axes /\ skipped \subseteq Axes
      /\ host \in [at : Phases, axis : 0..(N + 1)] /\ Healthy(i)
  BY <1>1, StartedFacts
<1>3. native[i] = "step" /\ n \in NativeStates
  BY <1>1, <1>2 DEF Healthy, NativeStates
<1>4. calls' \in Seq(LegalCalls)
  BY <1>3, CallFacts, CallLists
<1>5. /\ runner' \in [Axes -> Runners] /\ native' \in [Axes -> NativeStates]
      /\ reached' \in [Axes -> 0..MaxTime] /\ \A j \in Axes : Healthy(j)'
  BY <1>1, <1>3, SlotStep
<1>6. host' = At("running", host.axis) /\ host.axis \in 0..(N + 1)
  BY <1>1, <1>2 DEF At
<1>7. models = N /\ N' = N
  BY <1>1, AxesFixed DEF FleetIInv, Order
<1>8. Order' /\ Leaks'
  BY <1>1, <1>7 DEF Order, Leaks, OpeningPhases, FmuPhases, InitPhases
<1>9. "running" \in Phases \ {"read", "store"}
  BY DEF Phases
<1> QED BY <1>2, <1>4, <1>5, <1>6, <1>8, <1>9, Together

\* set and get.
LEMMA TransferStep ==
  ASSUME FleetIInv, NEW i \in Axes, NEW op \in {"set", "get"}, Transfer(i, op)
  PROVE  FleetIInv'
<1> DEFINE f == [runner[i] EXCEPT !.failed = TRUE]
<1>1. /\ Usable(i) /\ calls' = <<Call(op, native[i])>>
      /\ UNCHANGED <<env, result, host, models, reached, abandoned, skipped>>
      /\ \/ UNCHANGED <<runner, native>>
         \/ /\ runner' = [runner EXCEPT ![i].failed = TRUE]
            /\ native' = [native EXCEPT ![i] = "error"]
  BY DEF Transfer
<1>2. Started /\ runner[i].initialized /\ ~runner[i].failed
  BY <1>1 DEF Usable, Started
<1>3. /\ Healthy(i) /\ runner[i] \in Runners /\ runner \in [Axes -> Runners]
      /\ native \in [Axes -> NativeStates] /\ reached \in [Axes -> 0..MaxTime]
      /\ reached[i] \in 0..MaxTime
  BY <1>2, StartedFacts
<1>4. runner[i].fmu /\ native[i] = "step" /\ runner[i].time = reached[i]
  BY <1>2, <1>3 DEF Healthy
<1>5. reached' = [reached EXCEPT ![i] = reached[i]]
  BY <1>1, <1>3
<1>6. CASE UNCHANGED <<runner, native>>
  <2>1. runner' = [runner EXCEPT ![i] = runner[i]] /\ native' = [native EXCEPT ![i] = "step"]
    BY <1>3, <1>4, <1>6
  <2> QED BY <1>1, <1>2, <1>3, <1>4, <1>5, <2>1, RunningStep
<1>7. CASE /\ runner' = [runner EXCEPT ![i].failed = TRUE]
           /\ native' = [native EXCEPT ![i] = "error"]
  <2>1. f \in Runners /\ f.fmu /\ f.initialized /\ f.failed
    BY <1>2, <1>3, <1>4 DEF Runners
  <2>2. runner' = [runner EXCEPT ![i] = f]
    BY <1>3, <1>7
  <2> HIDE DEF f
  <2>3. op \in {"get", "set", "doStep"} /\ (~f.failed => "error" = "step" /\ f.time = reached[i])
    BY <2>1
  <2>4. calls' = <<Call(op, native[i])>> /\ native' = [native EXCEPT ![i] = "error"]
    BY <1>1, <1>7
  <2> QED BY <1>1, <1>3, <1>5, <2>1, <2>2, <2>3, <2>4, RunningStep
<1> QED BY <1>1, <1>6, <1>7

\* doStep.
LEMMA DoStepStep ==
  ASSUME FleetIInv, NEW i \in Axes, DoStep(i)
  PROVE  FleetIInv'
<1> DEFINE f == [runner[i] EXCEPT !.failed = TRUE]
           g == [runner[i] EXCEPT !.time = @ + 1]
           u == reached[i] + 1
<1>1. /\ Usable(i) /\ reached[i] < MaxTime /\ calls' = <<Call("doStep", native[i])>>
      /\ UNCHANGED <<env, result, host, models, abandoned, skipped>>
  BY DEF DoStep
<1>2. Started /\ runner[i].initialized /\ ~runner[i].failed
  BY <1>1 DEF Usable, Started
<1>3. /\ Healthy(i) /\ runner[i] \in Runners /\ runner \in [Axes -> Runners]
      /\ native \in [Axes -> NativeStates] /\ reached \in [Axes -> 0..MaxTime]
      /\ reached[i] \in 0..MaxTime
  BY <1>2, StartedFacts
<1>4. runner[i].fmu /\ native[i] = "step" /\ runner[i].time = reached[i]
  BY <1>2, <1>3 DEF Healthy
<1>5. u \in 0..MaxTime
  BY <1>1, <1>3, FleetAssumption
<1>6. f \in Runners /\ f.fmu /\ f.initialized /\ f.failed
  BY <1>2, <1>3, <1>4 DEF Runners
<1>7. g \in Runners /\ g.fmu /\ g.initialized /\ ~g.failed /\ g.time = u
  <2>1. g = [runner[i] EXCEPT !.time = u]
    BY <1>3, <1>4 DEF Runners
  <2> HIDE DEF g, u
  <2> QED BY <1>2, <1>3, <1>4, <1>5, <2>1 DEF Runners
<1>8. /\ native = [native EXCEPT ![i] = "step"] /\ reached = [reached EXCEPT ![i] = reached[i]]
      /\ [runner EXCEPT ![i].failed = TRUE] = [runner EXCEPT ![i] = f]
      /\ [runner EXCEPT ![i].time = @ + 1] = [runner EXCEPT ![i] = g]
      /\ [reached EXCEPT ![i] = @ + 1] = [reached EXCEPT ![i] = u]
  BY <1>3, <1>4
<1>9. \/ /\ runner' = [runner EXCEPT ![i] = g] /\ reached' = [reached EXCEPT ![i] = u]
         /\ native' = [native EXCEPT ![i] = "step"]
      \/ /\ runner' = [runner EXCEPT ![i] = f] /\ native' = [native EXCEPT ![i] = "step"]
         /\ \E t \in {u, reached[i]} : reached' = [reached EXCEPT ![i] = t]
      \/ /\ runner' = [runner EXCEPT ![i] = f] /\ native' = [native EXCEPT ![i] = "error"]
         /\ reached' = [reached EXCEPT ![i] = reached[i]]
  BY <1>8 DEF DoStep
<1> HIDE DEF f, g, u
<1>10. CASE /\ runner' = [runner EXCEPT ![i] = g] /\ reached' = [reached EXCEPT ![i] = u]
            /\ native' = [native EXCEPT ![i] = "step"]
  BY <1>1, <1>5, <1>7, <1>10, RunningStep
<1>11. CASE /\ runner' = [runner EXCEPT ![i] = f]
            /\ \E n \in {"step", "error"} : native' = [native EXCEPT ![i] = n]
            /\ \E t \in {u, reached[i]} : reached' = [reached EXCEPT ![i] = t]
  <2>1. PICK n \in {"step", "error"} : native' = [native EXCEPT ![i] = n]
    BY <1>11
  <2>2. PICK t \in 0..MaxTime : reached' = [reached EXCEPT ![i] = t]
    BY <1>3, <1>5, <1>11
  <2> QED BY <1>1, <1>6, <1>11, <2>1, <2>2, RunningStep
<1> QED BY <1>9, <1>10, <1>11

\* One pass of the closing loop.
LEMMA CloseModelStep ==
  ASSUME FleetIInv, CloseModel
  PROVE  FleetIInv'
<1> DEFINE i == host.axis
           r == runner[i]
           n == native[i]
<1>1. host.at = "close" /\ i > 0 /\ i <= models /\ Started /\ host.at \notin InitPhases
  BY DEF CloseModel, FleetIInv, Order, Started, InitPhases
<1>2. PICK c \in Closings(r, n) :
        /\ runner' = [runner EXCEPT ![i] = Closed(r, c)]
        /\ native' = [native EXCEPT ![i] = c.native]
        /\ calls' = c.calls
        /\ host' = IF c.raised THEN At("ended", 0) ELSE At("close", i - 1)
        /\ skipped' = IF c.raised THEN 1..(i - 1) ELSE skipped
  BY DEF CloseModel
<1>3. UNCHANGED <<env, result, models, reached, abandoned>>
  BY DEF CloseModel
<1>4. /\ N \in Nat /\ Axes = 1..N /\ models \in 0..N /\ abandoned \subseteq Axes
      /\ skipped \subseteq Axes /\ i \in 0..(N + 1)
      /\ native \in [Axes -> NativeStates] /\ reached \in [Axes -> 0..MaxTime]
  BY <1>1, StartedFacts
<1>5. i \in Axes
  BY <1>1, <1>4
<1>6. Healthy(i) /\ r \in Runners /\ n \in NativeStates /\ reached[i] \in 0..MaxTime
  BY <1>1, <1>5, StartedFacts
<1>7. Closable(r, n)
  BY <1>1, <1>6 DEF Closable, Healthy, Open, NativeStates
<1>8. /\ c.native \in {"none", "created", "freed"} /\ c.calls \in Seq(LegalCalls)
      /\ Closed(r, c) \in Runners /\ ~Closed(r, c).fmu /\ ~Closed(r, c).initialized
      /\ ~r.fmu => c.native = n
  BY <1>6, <1>7, ClosingFacts
<1>9. /\ i \notin Copley => c.native = "none" /\ reached[i] = 0
      /\ c.native \in NativeStates
      /\ reached' = [reached EXCEPT ![i] = reached[i]]
  BY <1>3, <1>4, <1>6, <1>8 DEF Healthy, Fresh, NativeStates
<1> HIDE DEF i, r, n
<1>10. /\ runner' \in [Axes -> Runners] /\ native' \in [Axes -> NativeStates]
       /\ reached' \in [Axes -> 0..MaxTime] /\ \A j \in Axes : Healthy(j)'
       /\ native'[i] = c.native /\ \A j \in Axes : j # i => native'[j] = native[j]
  <2> DEFINE q == Closed(r, c)
  <2>1. q \in Runners /\ ~q.fmu /\ ~q.initialized /\ runner' = [runner EXCEPT ![i] = q]
    BY <1>2, <1>8
  <2> HIDE DEF q
  <2>2. native' = [native EXCEPT ![i] = c.native] /\ result' = result
    BY <1>2, <1>3
  <2>3. Started /\ (host.at \in InitPhases => host.axis = i) /\ reached[i] \in 0..MaxTime
    BY <1>1, <1>6
  <2>4. /\ c.native \in NativeStates /\ c.native \in {"none", "created", "freed"}
        /\ i \notin Copley => c.native = "none" /\ reached[i] = 0
        /\ reached' = [reached EXCEPT ![i] = reached[i]]
    BY <1>8, <1>9
  <2> QED BY <1>5, <2>1, <2>2, <2>3, <2>4, SlotStep
<1>11. \A j \in Axes : Open(j)' => Open(j) /\ j # i
  BY <1>8, <1>10 DEF Open
<1>12. \A j \in Axes : Open(j) => j <= i \/ j \in abandoned
  BY <1>1 DEF FleetIInv, Leaks, i
<1>13. \A j \in Axes : Open(j)' => j \in 1..(i - 1) \/ j \in abandoned
  BY <1>4, <1>11, <1>12
<1>14. Axes' = Axes /\ N' = N
  BY <1>3, AxesFixed
<1>15. CASE c.raised
  <2>1. host' = At("ended", 0) /\ host'.at = "ended" /\ skipped' = 1..(i - 1)
    BY <1>2, <1>15, AtFacts
  <2>2. Order'
    BY <2>1 DEF Order, OpeningPhases, FmuPhases, InitPhases
  <2>3. Leaks'
    BY <1>3, <1>13, <1>14, <2>1 DEF Leaks
  <2>4. /\ "ended" \in Phases \ {"read", "store"} /\ 0 \in 0..(N + 1) /\ skipped' \subseteq Axes
        /\ calls' \in Seq(LegalCalls)
    BY <1>2, <1>4, <1>5, <1>8, <2>1 DEF Phases
  <2> QED BY <1>3, <1>4, <1>10, <2>1, <2>2, <2>3, <2>4, Together
<1>16. CASE ~c.raised
  <2>1. /\ host' = At("close", i - 1) /\ host'.at = "close" /\ host'.axis = i - 1
        /\ skipped' = skipped
    BY <1>2, <1>16, AtFacts
  <2>2. Order'
    BY <1>1, <1>3, <1>4, <1>5, <2>1 DEF Order, OpeningPhases, FmuPhases, InitPhases, i
  <2>3. Leaks'
    <3>1. \A j \in 1..(i - 1) : j <= i - 1
      BY <1>4, <1>5
    <3> QED BY <1>3, <1>13, <1>14, <2>1, <3>1 DEF Leaks
  <2>4. /\ "close" \in Phases \ {"read", "store"} /\ i - 1 \in 0..(N + 1)
        /\ calls' \in Seq(LegalCalls)
    BY <1>2, <1>4, <1>5, <1>8 DEF Phases
  <2> QED BY <1>3, <1>4, <1>10, <2>1, <2>2, <2>3, <2>4, Together
<1> QED BY <1>15, <1>16

\* The parameter store is opened, or its lock is taken.
LEMMA OpenStoreStep ==
  ASSUME FleetIInv, OpenStore
  PROVE  FleetIInv'
<1>1. /\ host.at = "store" /\ ~Started /\ result' = result
      /\ host' = At("ended", 0) \/ host' = Opening(1)
      /\ runner' = [i \in Axes |-> NoRunner] /\ native' = [i \in Axes |-> "none"]
      /\ reached' = [i \in Axes |-> 0] /\ UNCHANGED <<models, calls, abandoned, skipped>>
  BY DEF OpenStore, Forget, Started
<1>2. /\ N \in Nat /\ models = 0 /\ calls \in Seq(LegalCalls) /\ abandoned \subseteq Axes
      /\ skipped \subseteq Axes
  BY <1>1 DEF FleetIInv, Place
<1>3. NoRunner \in Runners /\ ~NoRunner.fmu /\ ~NoRunner.initialized
  <2>1. 0 \in 0..MaxTime
    BY FleetAssumption
  <2> QED BY <2>1 DEF NoRunner, Runners
<1>4. 0 \in 0..MaxTime /\ "none" \in NativeStates
  BY FleetAssumption DEF NativeStates
<1>5. /\ runner' \in [Axes -> Runners] /\ native' \in [Axes -> NativeStates]
      /\ reached' \in [Axes -> 0..MaxTime]
  BY <1>1, <1>3, <1>4
<1>6. ASSUME NEW i \in Axes
      PROVE  runner'[i] = NoRunner /\ native'[i] = "none" /\ reached'[i] = 0
  BY <1>1
<1>7. \A i \in Axes : Fresh(i)' /\ Healthy(i)' /\ ~Open(i)'
  BY <1>3, <1>6 DEF Fresh, Healthy, Open
<1>8. CASE host' = Opening(1)
  <2>1. 1 \in 1..(N + 1) /\ models' = 1 - 1
    BY <1>1, <1>2
  <2> QED BY <1>1, <1>2, <1>5, <1>7, <1>8, <2>1, OpensNext
<1>9. CASE host' = At("ended", 0)
  <2>1. host'.at = "ended" /\ Axes' = Axes
    BY <1>1, <1>9, AtFacts, AxesFixed
  <2>2. Order' /\ Leaks'
    BY <1>7, <2>1 DEF Order, Leaks, OpeningPhases, FmuPhases, InitPhases
  <2>3. "ended" \in Phases \ {"read", "store"} /\ 0 \in 0..(N + 1) /\ models' \in 0..N
    BY <1>1, <1>2 DEF Phases
  <2> QED BY <1>1, <1>2, <1>5, <1>7, <1>9, <2>2, <2>3, Together
<1> QED BY <1>1, <1>8, <1>9

\* The device list that is accepted is a list.
LEMMA LoadedLength ==
  ASSUME NEW e \in Inputs, LoadEnvironment(e) # Error
  PROVE  Len(LoadEnvironment(e)) \in Nat
<1> DEFINE m == [s \in Lists |-> Mapping(e.lists[s])]
           devices == [n \in DOMAIN e.bus |-> Device(e.bus[n], m)]
<1>1. e.bus \in Seq(Indices \cup {Malformed})
  BY ConfigurationAssumption
<1>2. DOMAIN e.bus = 1..Len(e.bus) /\ Len(e.bus) \in Nat
  BY <1>1
<1>3. LoadEnvironment(e) = ValidateConfig(devices)
  BY DEF LoadEnvironment
<1> HIDE DEF m
<1>4. Len(devices) = Len(e.bus)
  BY <1>2
<1> HIDE DEF devices
<1>5. ValidateConfig(devices) = Sorted(devices)
  BY <1>3 DEF ValidateConfig
<1>6. Len(Sorted(devices)) = Len(devices)
  <2>1. \A n \in Nat : \A f : f = [i \in 1..n |-> f[i]] => Len(f) = n
    OBVIOUS
  <2> QED BY <1>2, <1>4, <2>1 DEF Sorted
<1> QED BY <1>2, <1>3, <1>4, <1>5, <1>6

\* The environment is read.
LEMMA ReadEnvironmentStep ==
  ASSUME FleetIInv, ReadEnvironment
  PROVE  FleetIInv'
<1>1. /\ host.at = "read" /\ ~Started /\ result' = LoadEnvironment(env)
      /\ host' = IF result' = Error THEN At("ended", 0) ELSE At("store", 0)
      /\ UNCHANGED <<models, runner, native, reached, calls, abandoned, skipped>>
  BY DEF ReadEnvironment, Load, Started
<1>2. /\ runner' = <<>> /\ native' = <<>> /\ reached' = <<>> /\ models' = 0
      /\ abandoned' = {} /\ skipped' = {} /\ calls' \in Seq(LegalCalls) /\ env \in Inputs
  BY <1>1 DEF FleetIInv, Place
<1>3. LegalCalls' = LegalCalls
  BY DEF LegalCalls, Allowed
<1>4. CASE result' = Error
  <2>1. host' = At("ended", 0) /\ host'.at = "ended" /\ host'.axis = 0
    BY <1>1, <1>4, AtFacts
  <2>2. N' = 0 /\ Axes' = {}
    BY <1>4 DEF N, Axes, Accepted
  <2>3. Place'
    <3>1. host' \in [at : Phases, axis : 0..1]
      BY <2>1 DEF At, Phases
    <3> QED BY <1>2, <1>3, <2>1, <2>2, <3>1 DEF Place, Started
  <2>4. Slots'
    BY <1>2, <2>2 DEF Slots
  <2>5. Order' /\ Leaks'
    BY <2>1, <2>2 DEF Order, Leaks, OpeningPhases, FmuPhases, InitPhases
  <2> QED BY <2>2, <2>3, <2>4, <2>5 DEF FleetIInv
<1>5. CASE result' # Error
  <2>1. host' = At("store", 0) /\ host'.at = "store" /\ host'.axis = 0
    BY <1>1, <1>5, AtFacts
  <2>2. N' \in Nat
    BY <1>1, <1>2, <1>5, LoadedLength DEF N
  <2>3. ~Started'
    BY <2>1 DEF Started
  <2>4. Place'
    <3>1. host' \in [at : Phases, axis : 0..(N' + 1)] /\ models' \in 0..N'
      <4>1. \A k \in Nat : 0 \in 0..(k + 1) /\ 0 \in 0..k
        OBVIOUS
      <4>2. 0 \in 0..(N' + 1) /\ 0 \in 0..N'
        BY <2>2, <4>1, Zenon
      <4>3. "store" \in Phases
        BY DEF Phases
      <4> QED BY <1>2, <2>1, <4>2, <4>3 DEF At
    <3> QED BY <1>2, <1>3, <2>1, <2>2, <3>1 DEF Place, Started
  <2>5. Order' /\ Leaks'
    BY <2>1 DEF Order, Leaks, OpeningPhases, FmuPhases, InitPhases
  <2> QED BY <2>3, <2>4, <2>5 DEF FleetIInv, Slots
<1> QED BY <1>4, <1>5

\* The invariant holds at the start.
LEMMA StartOk ==
  ASSUME Init
  PROVE  FleetIInv
<1>1. /\ host = At("read", 0) /\ host.at = "read" /\ host.axis = 0 /\ models = 0 /\ runner = <<>>
      /\ native = <<>> /\ reached = <<>> /\ calls = <<>> /\ abandoned = {} /\ skipped = {}
      /\ env \in Inputs /\ result = <<>>
  BY AtFacts DEF Init, ConfigInit
<1>2. N = 0
  BY <1>1 DEF N, Accepted
<1>3. ~Started
  BY <1>1 DEF Started
<1>4. host \in [at : Phases, axis : 0..(N + 1)] /\ <<>> \in Seq(LegalCalls)
  BY <1>1, <1>2 DEF At, Phases
<1>5. Place
  BY <1>1, <1>2, <1>4 DEF Place
<1>6. Order /\ Leaks
  BY <1>1 DEF Order, Leaks, OpeningPhases, FmuPhases, InitPhases
<1> QED BY <1>3, <1>5, <1>6 DEF FleetIInv, Slots

\* Every step preserves the invariant.
LEMMA StepOk ==
  ASSUME FleetIInv, [Next]_vars
  PROVE  FleetIInv'
<1>1. CASE ReadEnvironment
  BY <1>1, ReadEnvironmentStep
<1>2. CASE OpenStore
  BY <1>2, OpenStoreStep
<1>3. CASE Prepare
  BY <1>3, PrepareStep
<1>4. CASE Instantiate
  <2>1. /\ "instantiate" \in InitPhases /\ "instantiated" \in NativeStates
        /\ "enterInit" \in FmuPhases \ {"prepare"} /\ "enterInit" \in InitPhases
        /\ "instantiated" = Met("enterInit") /\ "created" \in {"created", "error"}
    BY DEF InitPhases, FmuPhases, NativeStates, Met
  <2> QED BY <1>4, <2>1, InitialisingStep DEF Instantiate
<1>5. CASE EnterInit
  <2>1. /\ "enterInit" \in InitPhases /\ "init" \in NativeStates
        /\ "exitInit" \in FmuPhases \ {"prepare"} /\ "exitInit" \in InitPhases
        /\ "init" = Met("exitInit") /\ "error" \in {"created", "error"}
    BY DEF InitPhases, FmuPhases, NativeStates, Met
  <2> QED BY <1>5, <2>1, InitialisingStep DEF EnterInit
<1>6. CASE ExitInit
  <2>1. /\ "exitInit" \in InitPhases /\ "step" \in NativeStates
        /\ "adapter" \in FmuPhases \ {"prepare"} /\ "error" \in {"created", "error"}
    BY DEF InitPhases, FmuPhases, NativeStates
  <2> QED BY <1>6, <2>1, InitialisingStep DEF ExitInit
<1>7. CASE AdapterInit
  BY <1>7, AdapterInitStep
<1>8. CASE ModelInit
  BY <1>8, ModelInitStep
<1>9. CASE LoadStore \/ Stop \/ CloseDone
  BY <1>9, QuietStep
<1>10. ASSUME NEW i \in Axes, Transfer(i, "set") \/ Transfer(i, "get") PROVE FleetIInv'
  BY <1>10, TransferStep
<1>11. ASSUME NEW i \in Axes, DoStep(i) PROVE FleetIInv'
  BY <1>11, DoStepStep
<1>12. CASE CloseModel
  BY <1>12, CloseModelStep
<1>13. CASE UNCHANGED vars
  <2> USE <1>13 DEF vars
  <2>1. N' = N /\ Axes' = Axes /\ Copley' = Copley
    BY AxesFixed
  <2>2. Started' <=> Started
    BY DEF Started
  <2>3. LegalCalls' = LegalCalls
    BY DEF LegalCalls, Allowed
  <2>4. Place' /\ Slots'
    BY <2>1, <2>2, <2>3 DEF FleetIInv, Place, Slots
  <2>5. \A i \in Axes : (Healthy(i) => Healthy(i)') /\ (Fresh(i) => Fresh(i)')
                        /\ (Open(i)' => Open(i))
    BY <2>1 DEF Healthy, Fresh, Open
  <2>6. Order'
    BY <2>1 DEF FleetIInv, Order, Fresh, Met
  <2>7. Leaks'
    BY <2>1 DEF FleetIInv, Leaks, Open
  <2> QED BY <2>1, <2>2, <2>4, <2>5, <2>6, <2>7 DEF FleetIInv
<1> QED BY <1>1, <1>2, <1>3, <1>4, <1>5, <1>6, <1>7, <1>8, <1>9, <1>10, <1>11, <1>12, <1>13 DEF Next

-----------------------------------------------------------------------------
(***************************************************************************)
(* The theorems.                                                           *)
(***************************************************************************)

\* The inductive invariant.
THEOREM FleetInvariant == Spec => []FleetIInv
<1>1. Init => FleetIInv
  BY StartOk
<1>2. FleetIInv /\ [Next]_vars => FleetIInv'
  BY StepOk
<1> QED BY <1>1, <1>2, PTL DEF Spec

\* Every native call of the host, on whatever path through failures of the FMU
\* and of the code around it, is one FMI 3.0 allows in the state the instance
\* is in, and doStep starts at the instance's own time (runner.py: _check and
\* close).
THEOREM CallsAreLegal == Spec => []NativeLegal
<1>1. FleetIInv => NativeLegal
  <2> SUFFICES ASSUME FleetIInv PROVE NativeLegal
    OBVIOUS
  <2>1. /\ host \in [at : Phases, axis : 0..(N + 1)] /\ models \in 0..N
        /\ calls \in Seq(LegalCalls) /\ abandoned \subseteq Axes /\ skipped \subseteq Axes
        /\ host.at \in {"read", "store"} => runner = <<>> /\ native = <<>> /\ reached = <<>>
    BY DEF FleetIInv, Place, Started
  <2>2. \A n \in 1..Len(calls) : calls[n] \in LegalCalls
    BY <2>1
  <2>3. /\ \A i \in DOMAIN runner : runner[i] \in Runners
        /\ native \in [DOMAIN runner -> NativeStates]
        /\ reached \in [DOMAIN runner -> 0..MaxTime]
        /\ CommunicationPoint
    <3>1. CASE Started
      BY <3>1, StartedFacts DEF CommunicationPoint, Healthy
    <3>2. CASE ~Started
      <4>1. runner = <<>> /\ native = <<>> /\ reached = <<>>
        BY <2>1, <3>2 DEF Started
      <4>2. DOMAIN runner = {}
        BY <4>1
      <4>3. native \in [{} -> NativeStates] /\ reached \in [{} -> 0..MaxTime]
        BY <4>1
      <4> QED BY <4>2, <4>3 DEF CommunicationPoint
    <3> QED BY <3>1, <3>2
  <2>4. TypeOK
    BY <2>1, <2>2, <2>3 DEF TypeOK, LegalCalls
  <2> QED BY <2>2, <2>3, <2>4 DEF NativeLegal, LegalCalls
<1> QED BY <1>1, FleetInvariant, PTL

\* When the host is done, an instance that is still open is one whose Model
\* constructor raised, or one the closing loop did not reach because an earlier
\* close raised (fleet.py: close, and the except clause of the constructor).
THEOREM LeaksAreExplained == Spec => []LeaksExplained
<1>1. FleetIInv => LeaksExplained
  <2> SUFFICES ASSUME FleetIInv, host.at = "ended", NEW i \in DOMAIN native, Open(i)
               PROVE  i \in abandoned \cup skipped
    BY DEF LeaksExplained
  <2>1. Started
    BY DEF Started
  <2>2. i \in Axes
    BY <2>1, StartedFacts
  <2> QED BY <2>2 DEF FleetIInv, Leaks
<1> QED BY <1>1, FleetInvariant, PTL

-----------------------------------------------------------------------------
(***************************************************************************)
(* The device list.                                                        *)
(***************************************************************************)

\* g is f read from its end.
Turned(f, g) ==
  /\ Len(f) \in Nat /\ DOMAIN f = 1..Len(f) /\ DOMAIN g = 1..Len(f)
  /\ \A i \in 1..Len(f) : g[i] = f[(Len(f) - i) + 1]

\* Positions counted from the end.
LEMMA FromTheEnd ==
  ASSUME NEW n \in Nat, NEW i \in 1..n
  PROVE  (n - i) + 1 \in 1..n /\ (n - ((n - i) + 1)) + 1 = i
OBVIOUS

LEMMA ReverseFacts ==
  ASSUME NEW S, NEW s \in Seq(S)
  PROVE  Turned(s, Reverse(s)) /\ Reverse(s) \in Seq(S) /\ Len(Reverse(s)) = Len(s)
<1>1. Len(s) \in Nat /\ DOMAIN s = 1..Len(s) /\ \A i \in 1..Len(s) : s[i] \in S
  OBVIOUS
<1>2. DOMAIN Reverse(s) = 1..Len(s) /\ \A i \in 1..Len(s) : Reverse(s)[i] = s[(Len(s) - i) + 1]
  BY <1>1 DEF Reverse
<1>3. Reverse(s) \in [1..Len(s) -> S]
  <2>1. \A i \in 1..Len(s) : s[(Len(s) - i) + 1] \in S
    BY <1>1, FromTheEnd
  <2> QED BY <2>1 DEF Reverse
<1>4. \A n \in Nat : \A f \in [1..n -> S] : f \in Seq(S) /\ Len(f) = n
  OBVIOUS
<1>5. Reverse(s) \in Seq(S) /\ Len(Reverse(s)) = Len(s)
  BY <1>1, <1>3, <1>4, Zenon
<1> QED BY <1>1, <1>2, <1>5 DEF Turned

\* Turning a list around twice gives the list.
LEMMA TurnedBack ==
  ASSUME NEW f, NEW g, Turned(f, g), Len(g) = Len(f)
  PROVE  Turned(g, f)
<1>1. \A i \in 1..Len(f) : f[i] = g[(Len(f) - i) + 1]
  <2> TAKE i \in 1..Len(f)
  <2>1. (Len(f) - i) + 1 \in 1..Len(f) /\ (Len(f) - ((Len(f) - i) + 1)) + 1 = i
    BY FromTheEnd DEF Turned
  <2>2. g[(Len(f) - i) + 1] = f[(Len(f) - ((Len(f) - i) + 1)) + 1]
    BY <2>1 DEF Turned
  <2> QED BY <2>1, <2>2
<1> QED BY <1>1 DEF Turned

SameElements(f, g) ==
  /\ \A i \in DOMAIN f : \E j \in DOMAIN g : g[j] = f[i]
  /\ \A j \in DOMAIN g : \E i \in DOMAIN f : g[j] = f[i]

\* The same elements occur, and the same repetitions.
LEMMA TurnedSame ==
  ASSUME NEW f, NEW g, Turned(f, g)
  PROVE  SameElements(f, g) /\ (Repeats(f) <=> Repeats(g))
<1> DEFINE n == Len(f)
           k(i) == (n - i) + 1
<1>1. n \in Nat /\ DOMAIN f = 1..n /\ DOMAIN g = 1..n /\ \A i \in 1..n : g[i] = f[k(i)]
  BY DEF Turned
<1>2. \A i \in 1..n : k(i) \in 1..n /\ k(k(i)) = i
  BY <1>1, FromTheEnd
<1> HIDE DEF n, k
<1>3. \A i \in 1..n : f[i] = g[k(i)]
  BY <1>1, <1>2
<1>4. Repeats(f) => Repeats(g)
  <2> SUFFICES ASSUME NEW a \in 1..n, NEW b \in 1..n, a # b, f[a] = f[b]
               PROVE  Repeats(g)
    BY <1>1 DEF Repeats
  <2>1. k(a) \in 1..n /\ k(b) \in 1..n /\ k(a) # k(b) /\ g[k(a)] = g[k(b)]
    BY <1>2, <1>3
  <2> QED BY <1>1, <2>1 DEF Repeats
<1>5. Repeats(g) => Repeats(f)
  <2> SUFFICES ASSUME NEW a \in 1..n, NEW b \in 1..n, a # b, g[a] = g[b]
               PROVE  Repeats(f)
    BY <1>1 DEF Repeats
  <2>1. k(a) \in 1..n /\ k(b) \in 1..n /\ k(a) # k(b) /\ f[k(a)] = f[k(b)]
    BY <1>1, <1>2
  <2> QED BY <1>1, <2>1 DEF Repeats
<1> QED BY <1>1, <1>2, <1>3, <1>4, <1>5 DEF SameElements

\* A per-axis list read from its end gives the same dict.
LEMMA MappingTurned ==
  ASSUME NEW S, NEW l \in Seq(S)
  PROVE  Mapping(Reverse(l)) = Mapping(l)
<1> DEFINE r == Reverse(l)
           li == [n \in DOMAIN l |-> l[n].index]
           ri == [n \in DOMAIN r |-> r[n].index]
<1>1. Turned(l, r) /\ r \in Seq(S) /\ Len(r) = Len(l) /\ Len(l) \in Nat
      /\ DOMAIN l = 1..Len(l) /\ DOMAIN r = 1..Len(l)
  BY ReverseFacts DEF Turned
<1> HIDE DEF r
<1>2. SameElements(l, r)
  BY <1>1, TurnedSame
<1>3. ToSet(r) = ToSet(l)
  BY <1>2 DEF ToSet, SameElements
<1>4. {r[n].index : n \in DOMAIN r} = {l[n].index : n \in DOMAIN l}
  BY <1>2 DEF SameElements
<1>5. Repeats(ri) <=> Repeats(li)
  <2>1. Len(li) = Len(l) /\ DOMAIN li = 1..Len(l) /\ DOMAIN ri = 1..Len(l)
    BY <1>1
  <2>2. \A i \in 1..Len(l) : ri[i] = li[(Len(l) - i) + 1]
    <3> TAKE i \in 1..Len(l)
    <3>1. (Len(l) - i) + 1 \in 1..Len(l)
      BY <1>1, FromTheEnd
    <3>2. r[i] = l[(Len(l) - i) + 1]
      BY <1>1 DEF Turned
    <3> QED BY <1>1, <3>1, <3>2
  <2> HIDE DEF li, ri
  <2>3. Turned(li, ri)
    BY <1>1, <2>1, <2>2 DEF Turned
  <2> QED BY <2>3, TurnedSame
<1>6. r = <<>> <=> l = <<>>
  BY <1>1
<1>7. (\E n \in DOMAIN r : r[n] = Malformed) <=> (\E n \in DOMAIN l : l[n] = Malformed)
  BY <1>2 DEF SameElements
<1> QED BY <1>3, <1>4, <1>5, <1>6, <1>7 DEF Mapping, r

\* The devices of a list read from its end give the same result.
LEMMA ValidateTurned ==
  ASSUME NEW d, NEW t, Turned(d, t), Len(t) = Len(d)
  PROVE  ValidateConfig(t) = ValidateConfig(d)
<1>1. /\ Len(d) \in Nat /\ DOMAIN d = 1..Len(d) /\ DOMAIN t = 1..Len(d)
      /\ \A i \in 1..Len(d) : t[i] = d[(Len(d) - i) + 1]
  BY DEF Turned
<1>2. SameElements(d, t)
  BY TurnedSame
<1>3. ToSet(t) = ToSet(d)
  BY <1>2 DEF ToSet, SameElements
<1>4. {t[n].slave_index : n \in DOMAIN t} = {d[n].slave_index : n \in DOMAIN d}
  BY <1>2 DEF SameElements
<1>5. (\E n \in DOMAIN t : DeviceBad(t[n])) <=> (\E n \in DOMAIN d : DeviceBad(d[n]))
  BY <1>2 DEF SameElements
<1>6. ASSUME NEW s
      PROVE  Repeats([n \in DOMAIN t |-> t[n].attr[s]]) <=> Repeats([n \in DOMAIN d |-> d[n].attr[s]])
  <2> DEFINE da == [n \in DOMAIN d |-> d[n].attr[s]]
             ta == [n \in DOMAIN t |-> t[n].attr[s]]
  <2>1. Len(da) = Len(d) /\ DOMAIN da = 1..Len(d) /\ DOMAIN ta = 1..Len(d)
    BY <1>1
  <2>2. \A i \in 1..Len(d) : ta[i] = da[(Len(d) - i) + 1]
    <3> TAKE i \in 1..Len(d)
    <3>1. (Len(d) - i) + 1 \in 1..Len(d)
      BY <1>1, FromTheEnd
    <3>2. t[i] = d[(Len(d) - i) + 1]
      BY <1>1
    <3> QED BY <1>1, <3>1, <3>2
  <2> HIDE DEF da, ta
  <2>3. Turned(da, ta)
    BY <1>1, <2>1, <2>2 DEF Turned
  <2>4. Repeats(ta) <=> Repeats(da)
    BY <2>3, TurnedSame
  <2> QED BY <2>4 DEF da, ta
<1>7. Sorted(t) = Sorted(d)
  BY <1>3 DEF Sorted
<1> QED BY <1>4, <1>5, <1>6, <1>7 DEF ValidateConfig

\* The order in which entries are written does not matter.
LEMMA LoadTurned ==
  ASSUME NEW e \in Inputs
  PROVE  LoadEnvironment([e EXCEPT !.bus = Reverse(e.bus),
                                   !.lists = [s \in Lists |-> Reverse(e.lists[s])]])
           = LoadEnvironment(e)
<1> DEFINE x == [e EXCEPT !.bus = Reverse(e.bus), !.lists = [s \in Lists |-> Reverse(e.lists[s])]]
           m == [s \in Lists |-> Mapping(e.lists[s])]
           mx == [s \in Lists |-> Mapping(x.lists[s])]
           d == [n \in DOMAIN e.bus |-> Device(e.bus[n], m)]
           t == [n \in DOMAIN x.bus |-> Device(x.bus[n], m)]
<1>1. /\ DOMAIN e = {"bus", "lists", "fmuDir", "rest"}
      /\ e.bus \in Seq(Indices \cup {Malformed})
      /\ \A s \in Lists : e.lists[s] \in Seq(ToSet(e.lists[s]))
  BY ConfigurationAssumption
<1>2. /\ x.bus = Reverse(e.bus) /\ x.lists = [s \in Lists |-> Reverse(e.lists[s])]
      /\ x.fmuDir = e.fmuDir /\ x.rest = e.rest
  BY <1>1
<1> HIDE DEF x
<1>3. mx = m
  <2>1. ASSUME NEW s \in Lists PROVE Mapping(x.lists[s]) = Mapping(e.lists[s])
    <3>1. x.lists[s] = Reverse(e.lists[s])
      BY <1>2
    <3>2. e.lists[s] \in Seq(ToSet(e.lists[s]))
      BY <1>1
    <3> QED BY <3>1, <3>2, MappingTurned
  <2> QED BY <2>1
<1>4. /\ Turned(e.bus, x.bus) /\ Len(x.bus) = Len(e.bus) /\ x.bus \in Seq(Indices \cup {Malformed})
  BY <1>1, <1>2, ReverseFacts
<1>5. /\ Len(e.bus) \in Nat /\ DOMAIN e.bus = 1..Len(e.bus) /\ DOMAIN x.bus = 1..Len(e.bus)
      /\ \A i \in 1..Len(e.bus) : x.bus[i] = e.bus[(Len(e.bus) - i) + 1]
  BY <1>4 DEF Turned
<1>6. SameElements(e.bus, x.bus) /\ (Repeats(x.bus) <=> Repeats(e.bus))
  BY <1>4, TurnedSame
<1>7. BusBad(x.bus) <=> BusBad(e.bus)
  <2>1. x.bus = <<>> <=> e.bus = <<>>
    BY <1>1, <1>4, <1>5
  <2> QED BY <1>6, <2>1 DEF BusBad, SameElements
<1>8. {x.bus[n] : n \in DOMAIN x.bus} = {e.bus[n] : n \in DOMAIN e.bus}
  BY <1>6 DEF SameElements
<1> HIDE DEF m, mx
<1>9. (\E n \in DOMAIN x.bus : t[n].attr[Models] = CopleyName)
        <=> (\E n \in DOMAIN e.bus : d[n].attr[Models] = CopleyName)
  <2>1. /\ \A n \in DOMAIN e.bus : d[n] = Device(e.bus[n], m)
        /\ \A n \in DOMAIN x.bus : t[n] = Device(x.bus[n], m)
    OBVIOUS
  <2> HIDE DEF d, t
  <2>2. ASSUME NEW n \in DOMAIN x.bus PROVE \E k \in DOMAIN e.bus : t[n] = d[k]
    <3>1. PICK k \in DOMAIN e.bus : x.bus[n] = e.bus[k]
      BY <1>6 DEF SameElements
    <3> QED BY <2>1, <3>1
  <2>3. ASSUME NEW k \in DOMAIN e.bus PROVE \E n \in DOMAIN x.bus : t[n] = d[k]
    <3>1. PICK n \in DOMAIN x.bus : x.bus[n] = e.bus[k]
      BY <1>6 DEF SameElements
    <3> QED BY <2>1, <3>1
  <2> QED BY <2>2, <2>3
<1>10. ValidateConfig(t) = ValidateConfig(d)
  <2>1. Len(d) = Len(e.bus) /\ Len(t) = Len(e.bus) /\ DOMAIN d = 1..Len(e.bus)
        /\ DOMAIN t = 1..Len(e.bus)
    BY <1>5
  <2>2. \A i \in 1..Len(e.bus) : t[i] = d[(Len(e.bus) - i) + 1]
    <3> TAKE i \in 1..Len(e.bus)
    <3>1. (Len(e.bus) - i) + 1 \in 1..Len(e.bus)
      BY <1>5, FromTheEnd
    <3>2. x.bus[i] = e.bus[(Len(e.bus) - i) + 1]
      BY <1>5
    <3> QED BY <1>5, <3>1, <3>2
  <2> HIDE DEF d, t
  <2>3. Turned(d, t) /\ Len(t) = Len(d)
    BY <1>5, <2>1, <2>2 DEF Turned
  <2> QED BY <2>3, ValidateTurned
<1> HIDE DEF d, t
<1> DEFINE bad == \/ ~e.rest
                  \/ \E s \in Lists : m[s] = Error
                  \/ BusBad(e.bus)
                  \/ \E s \in Lists : DOMAIN m[s] # {e.bus[n] : n \in DOMAIN e.bus}
                  \/ ~e.fmuDir /\ \E n \in DOMAIN e.bus : d[n].attr[Models] = CopleyName
           badx == \/ ~x.rest
                   \/ \E s \in Lists : mx[s] = Error
                   \/ BusBad(x.bus)
                   \/ \E s \in Lists : DOMAIN mx[s] # {x.bus[n] : n \in DOMAIN x.bus}
                   \/ ~x.fmuDir /\ \E n \in DOMAIN x.bus : t[n].attr[Models] = CopleyName
<1>11. LoadEnvironment(e) = IF bad THEN Error ELSE ValidateConfig(d)
  BY DEF LoadEnvironment, m, d
<1>12. LoadEnvironment(x) = IF badx THEN Error ELSE ValidateConfig(t)
  <2>1. t = [n \in DOMAIN x.bus |-> Device(x.bus[n], mx)]
    BY <1>3 DEF t
  <2> QED BY <2>1 DEF LoadEnvironment, mx
<1>13. badx <=> bad
  BY <1>2, <1>3, <1>7, <1>8, <1>9
<1> HIDE DEF bad, badx
<1>14. LoadEnvironment(x) = LoadEnvironment(e)
  BY <1>10, <1>11, <1>12, <1>13
<1> QED BY <1>14 DEF x

\* What is made of a per-axis list that is well formed: every entry under its
\* own index.
LEMMA MappingFacts ==
  ASSUME NEW l, Mapping(l) # Error
  PROVE  /\ DOMAIN Mapping(l) = {l[n].index : n \in DOMAIN l}
         /\ \A n \in DOMAIN l : l[n] # Malformed /\ Mapping(l)[l[n].index] = l[n].value
<1> DEFINE I == {l[n].index : n \in DOMAIN l}
<1>1. /\ \A n \in DOMAIN l : l[n] # Malformed
      /\ ~Repeats([n \in DOMAIN l |-> l[n].index])
      /\ Mapping(l) = [i \in I |-> ValueAt(ToSet(l), i)]
  BY DEF Mapping
<1>2. \A a, b \in DOMAIN l : l[a].index = l[b].index => a = b
  BY <1>1 DEF Repeats
<1>3. ASSUME NEW n \in DOMAIN l PROVE ValueAt(ToSet(l), l[n].index) = l[n].value
  <2>1. l[n] \in ToSet(l) /\ \A x \in ToSet(l) : \E k \in DOMAIN l : x = l[k]
    BY DEF ToSet
  <2>2. \A x \in ToSet(l) : x.index = l[n].index => x = l[n]
    BY <1>2, <2>1
  <2> HIDE DEF I
  <2>3. (CHOOSE x \in ToSet(l) : x.index = l[n].index) = l[n]
    BY <2>1, <2>2
  <2> QED BY <2>3 DEF ValueAt
<1> QED BY <1>1, <1>3

\* The device with n smaller indices, where the indices are 0, 1 and so on.
LEMMA RankedFacts ==
  ASSUME NEW L \in Nat, NEW m, NEW n \in 0..(L - 1)
  PROVE  Ranked({Device(k, m) : k \in 0..(L - 1)}, n) = Device(n, m)
<1> DEFINE S == {Device(k, m) : k \in 0..(L - 1)}
           Below(k) == {x \in S : x.slave_index < k}
<1>1. \A k : Device(k, m).slave_index = k
  BY DEF Device
<1>2. /\ \A x \in S : \E k \in 0..(L - 1) : x = Device(k, m)
      /\ \A k \in 0..(L - 1) : Device(k, m) \in S
  OBVIOUS
<1> HIDE DEF S
<1>3. ASSUME NEW k \in 0..(L - 1) PROVE Cardinality(Below(k)) = k
  <2> DEFINE f == [j \in 1..k |-> Device(j - 1, m)]
  <2>1. \A j \in 1..k : Device(j - 1, m) \in Below(k)
    <3> TAKE j \in 1..k
    <3>1. j - 1 \in 0..(L - 1) /\ j - 1 < k
      OBVIOUS
    <3> QED BY <1>1, <1>2, <3>1
  <2>2. \A x \in Below(k) : \E j \in 1..k : Device(j - 1, m) = x
    <3> TAKE x \in Below(k)
    <3>1. PICK i \in 0..(L - 1) : x = Device(i, m) /\ i < k
      BY <1>1, <1>2
    <3>2. i + 1 \in 1..k /\ (i + 1) - 1 = i
      BY <3>1
    <3> QED BY <3>1, <3>2
  <2>3. \A i, j \in 1..k : Device(i - 1, m) = Device(j - 1, m) => i = j
    <3> SUFFICES ASSUME NEW i \in 1..k, NEW j \in 1..k, Device(i - 1, m) = Device(j - 1, m)
                 PROVE  i = j
      OBVIOUS
    <3>1. i - 1 = j - 1
      BY <1>1
    <3> QED BY <3>1
  <2> HIDE DEF Below
  <2>4. f \in [1..k -> Below(k)]
    BY <2>1
  <2>5. f \in Injection(1..k, Below(k)) /\ f \in Surjection(1..k, Below(k))
    BY <2>2, <2>3, <2>4 DEF Injection, IsInjective, Surjection
  <2>6. ExistsBijection(1..k, Below(k)) /\ k \in Nat
    BY <2>5 DEF ExistsBijection, Bijection
  <2> QED BY <2>6, FS_CountingElements
<1> DEFINE P(d) == Cardinality({x \in S : x.slave_index < d.slave_index}) = n
<1>4. ASSUME NEW d \in S PROVE P(d) <=> d = Device(n, m)
  <2>1. PICK k \in 0..(L - 1) : d = Device(k, m)
    BY <1>2
  <2>2. d.slave_index = k
    BY <1>1, <2>1
  <2>3. Cardinality({x \in S : x.slave_index < d.slave_index}) = k
    BY <1>3, <2>2
  <2>4. d = Device(n, m) => k = n
    BY <1>1, <2>2
  <2> QED BY <2>1, <2>3, <2>4
<1> HIDE DEF P
<1>5. (CHOOSE d \in S : P(d)) = Device(n, m)
  BY <1>2, <1>4
<1>6. Ranked(S, n) = CHOOSE d \in S : P(d)
  BY DEF Ranked, P
<1> QED BY <1>5, <1>6 DEF S

\* The device list that is made of an accepted environment.
LEMMA Loaded ==
  ASSUME NEW e \in Inputs, LoadEnvironment(e) # Error
  PROVE  LET m == [s \in Lists |-> Mapping(e.lists[s])]
             L == Len(e.bus)
         IN  /\ L \in Nat
             /\ LoadEnvironment(e) = [i \in 1..L |-> Device(i - 1, m)]
             /\ \A s \in Lists : m[s] # Error /\ DOMAIN m[s] = 0..(L - 1)
             /\ \A k \in 0..(L - 1) : \A s \in Lists : m[s][k] \in Valid[s]
             /\ \A s \in Unique : \A k, j \in 0..(L - 1) : m[s][k] = m[s][j] => k = j
<1> DEFINE m == [s \in Lists |-> Mapping(e.lists[s])]
           L == Len(e.bus)
           d == [n \in DOMAIN e.bus |-> Device(e.bus[n], m)]
           onBus == {e.bus[n] : n \in DOMAIN e.bus}
<1>1. L \in Nat /\ DOMAIN e.bus = 1..L
  BY ConfigurationAssumption
<1>2. /\ \A s \in Lists : m[s] # Error /\ DOMAIN m[s] = onBus
      /\ LoadEnvironment(e) = ValidateConfig(d)
  BY DEF LoadEnvironment
<1> HIDE DEF m
<1>3. \A k : Device(k, m).slave_index = k /\ \A s \in Lists : Device(k, m).attr[s] = m[s][k]
  BY DEF Device
<1>4. /\ DOMAIN d = 1..L /\ Len(d) = L
      /\ \A n \in 1..L : d[n] = Device(e.bus[n], m)
  BY <1>1
<1>5. \A n \in 1..L : d[n].slave_index = e.bus[n] /\ \A s \in Lists : d[n].attr[s] = m[s][e.bus[n]]
  BY <1>3, <1>4
<1> HIDE DEF d
<1>6. /\ \A n \in DOMAIN d : ~DeviceBad(d[n])
      /\ \A s \in Unique : ~Repeats([n \in DOMAIN d |-> d[n].attr[s]])
      /\ {d[n].slave_index : n \in DOMAIN d} = 0..(Len(d) - 1)
      /\ ValidateConfig(d) = Sorted(d)
  BY <1>2 DEF ValidateConfig
<1>7. onBus = 0..(L - 1)
  <2>1. {d[n].slave_index : n \in DOMAIN d} = {e.bus[n] : n \in 1..L}
    BY <1>4, <1>5
  <2> QED BY <1>1, <1>4, <1>6, <2>1
<1>8. \A k \in 0..(L - 1) : \E n \in 1..L : e.bus[n] = k
  BY <1>1, <1>7
<1>9. \A n \in 1..L : e.bus[n] \in 0..(L - 1)
  BY <1>1, <1>7
<1> HIDE DEF onBus, L
<1>10. ToSet(d) = {Device(k, m) : k \in 0..(L - 1)}
  <2>1. ASSUME NEW n \in 1..L PROVE d[n] \in {Device(k, m) : k \in 0..(L - 1)}
    BY <1>4, <1>9
  <2>2. ASSUME NEW k \in 0..(L - 1) PROVE \E n \in 1..L : d[n] = Device(k, m)
    <3>1. PICK n \in 1..L : e.bus[n] = k
      BY <1>8
    <3> QED BY <1>4, <3>1
  <2>3. ToSet(d) = {d[n] : n \in 1..L}
    BY <1>4 DEF ToSet
  <2> QED BY <2>1, <2>2, <2>3
<1>11. Sorted(d) = [i \in 1..L |-> Device(i - 1, m)]
  <2>1. \A i \in 1..L : Ranked(ToSet(d), i - 1) = Device(i - 1, m)
    <3> TAKE i \in 1..L
    <3>1. i - 1 \in 0..(L - 1)
      BY <1>1
    <3> QED BY <1>1, <1>10, <3>1, RankedFacts
  <2> QED BY <1>4, <2>1 DEF Sorted
<1>12. ASSUME NEW k \in 0..(L - 1), NEW s \in Lists PROVE m[s][k] \in Valid[s]
  <2>1. PICK n \in 1..L : e.bus[n] = k
    BY <1>8
  <2>2. d[n].attr[s] \in Valid[s]
    BY <1>4, <1>6 DEF DeviceBad
  <2> QED BY <1>5, <2>1, <2>2
<1>13. ASSUME NEW s \in Unique, NEW k \in 0..(L - 1), NEW j \in 0..(L - 1), m[s][k] = m[s][j]
       PROVE  k = j
  <2>1. PICK n \in 1..L : e.bus[n] = k
    BY <1>8
  <2>2. PICK o \in 1..L : e.bus[o] = j
    BY <1>8
  <2>3. s \in Lists
    BY ConfigurationAssumption
  <2>4. d[n].attr[s] = d[o].attr[s]
    BY <1>5, <1>13, <2>1, <2>2, <2>3
  <2>5. n = o
    BY <1>4, <1>6, <2>4 DEF Repeats
  <2> QED BY <2>1, <2>2, <2>5
<1> QED BY <1>1, <1>2, <1>6, <1>7, <1>11, <1>12, <1>13 DEF m, L

\* The device list is what some environment says, the one at hand until it is
\* forgotten.
FromEnvironment ==
  result # <<>> =>
    \E e \in Inputs : result = LoadEnvironment(e) /\ (env = e \/ env = Forgotten)

LEMMA FromEnvironmentKept ==
  ASSUME FleetIInv, FromEnvironment, [Next]_vars
  PROVE  FromEnvironment'
<1>1. CASE ReadEnvironment
  <2>1. env \in Inputs /\ result' = LoadEnvironment(env) /\ env' = env
    BY <1>1 DEF ReadEnvironment, Load, FleetIInv, Place
  <2> QED BY <2>1 DEF FromEnvironment
<1>2. CASE OpenStore
  <2>1. env' = Forgotten /\ result' = result
    BY <1>2 DEF OpenStore, Forget
  <2> QED BY <2>1 DEF FromEnvironment
<1>3. CASE UNCHANGED <<env, result>>
  BY <1>3 DEF FromEnvironment
<1>4. ReadEnvironment \/ OpenStore \/ UNCHANGED <<env, result>>
  BY DEF Next, vars, Prepare, Instantiate, EnterInit, ExitInit, Initialising, OpenFails,
         AdapterInit, ModelInit, LoadStore, Transfer, DoStep, Stop, CloseModel, CloseDone
<1> QED BY <1>1, <1>2, <1>3, <1>4

\* What is accepted can be served.
LEMMA LoadedServable ==
  ASSUME NEW e \in Inputs, result = LoadEnvironment(e)
  PROVE  AcceptedIsServable
<1> SUFFICES ASSUME result # Error, NEW i \in 1..Len(result)
             PROVE  /\ result[i].slave_index = i - 1
                    /\ \A s \in Lists : result[i].attr[s] \in Valid[s]
                    /\ \A s \in Unique, j \in 1..(i - 1) : result[i].attr[s] # result[j].attr[s]
  BY DEF AcceptedIsServable, Accepted
<1> DEFINE m == [s \in Lists |-> Mapping(e.lists[s])]
           L == Len(e.bus)
<1>1. /\ L \in Nat /\ result = [k \in 1..L |-> Device(k - 1, m)]
      /\ \A k \in 0..(L - 1) : \A s \in Lists : m[s][k] \in Valid[s]
      /\ \A s \in Unique : \A k, j \in 0..(L - 1) : m[s][k] = m[s][j] => k = j
  BY Loaded
<1> HIDE DEF m, L
<1>2. \A k : Device(k, m).slave_index = k /\ \A s \in Lists : Device(k, m).attr[s] = m[s][k]
  BY DEF Device
<1>3. Len(result) = L
  BY <1>1
<1>4. \A k \in 1..L : /\ result[k].slave_index = k - 1 /\ k - 1 \in 0..(L - 1)
                      /\ \A s \in Lists : result[k].attr[s] = m[s][k - 1]
  BY <1>1, <1>2
<1>5. \A s \in Lists : result[i].attr[s] \in Valid[s]
  BY <1>1, <1>3, <1>4
<1>6. ASSUME NEW s \in Unique, NEW j \in 1..(i - 1) PROVE result[i].attr[s] # result[j].attr[s]
  <2>1. s \in Lists /\ j \in 1..L /\ i \in 1..L
    BY <1>1, <1>3, ConfigurationAssumption
  <2>2. i - 1 # j - 1
    BY <1>1, <2>1
  <2>3. i - 1 \in 0..(L - 1) /\ j - 1 \in 0..(L - 1)
    BY <1>4, <2>1
  <2>4. m[s][i - 1] # m[s][j - 1]
    BY <1>1, <2>2, <2>3
  <2> QED BY <1>4, <2>1, <2>4
<1> QED BY <1>3, <1>4, <1>5, <1>6

\* All entries of all lists are used, each for its own axis.
LEMMA LoadedComplete ==
  ASSUME NEW e \in Inputs, result = LoadEnvironment(e), env = e \/ env = Forgotten
  PROVE  NothingDropped
<1> SUFFICES ASSUME result # Error, env = e, NEW s \in Lists
             PROVE  ToSet(e.lists[s]) =
                      {[index |-> result[i].slave_index, value |-> result[i].attr[s]] :
                         i \in 1..Len(result)}
  BY DEF NothingDropped, Accepted
<1> DEFINE m == [q \in Lists |-> Mapping(e.lists[q])]
           L == Len(e.bus)
           l == e.lists[s]
           R(i) == [index |-> result[i].slave_index, value |-> result[i].attr[s]]
<1>1. /\ L \in Nat /\ result = [k \in 1..L |-> Device(k - 1, m)]
      /\ m[s] # Error /\ DOMAIN m[s] = 0..(L - 1)
  BY Loaded
<1>2. m[s] = Mapping(l)
  OBVIOUS
<1>3. \A x \in ToSet(l) : x = Malformed \/ x = [index |-> x.index, value |-> x.value]
  BY ConfigurationAssumption
<1> HIDE DEF m, L, l
<1>4. /\ DOMAIN m[s] = {l[n].index : n \in DOMAIN l}
      /\ \A n \in DOMAIN l : l[n] # Malformed /\ m[s][l[n].index] = l[n].value
  <2>1. Mapping(l) # Error
    BY <1>1, <1>2
  <2>2. /\ DOMAIN Mapping(l) = {l[n].index : n \in DOMAIN l}
        /\ \A n \in DOMAIN l : l[n] # Malformed /\ Mapping(l)[l[n].index] = l[n].value
    BY <2>1, MappingFacts, Zenon
  <2> QED BY <1>2, <2>2, Zenon
<1>5. \A k : Device(k, m).slave_index = k /\ Device(k, m).attr[s] = m[s][k]
  BY DEF Device
<1>6. Len(result) = L
  BY <1>1
<1>7. \A k \in 1..L : result[k].slave_index = k - 1 /\ result[k].attr[s] = m[s][k - 1]
  BY <1>1, <1>5
<1>8. \A n \in DOMAIN l : l[n] \in ToSet(l) /\ l[n] = [index |-> l[n].index, value |-> l[n].value]
  BY <1>3, <1>4 DEF ToSet
<1>9. ASSUME NEW n \in DOMAIN l PROVE \E i \in 1..L : l[n] = R(i)
  <2>1. l[n].index \in 0..(L - 1)
    BY <1>1, <1>4
  <2>2. l[n].index + 1 \in 1..L /\ (l[n].index + 1) - 1 = l[n].index
    BY <1>1, <2>1
  <2>3. R(l[n].index + 1) = l[n]
    BY <1>4, <1>7, <1>8, <2>2
  <2> QED BY <2>2, <2>3
<1>10. ASSUME NEW i \in 1..L PROVE \E n \in DOMAIN l : l[n] = R(i)
  <2>1. i - 1 \in 0..(L - 1)
    BY <1>1
  <2>2. PICK n \in DOMAIN l : l[n].index = i - 1
    <3>1. i - 1 \in {l[n].index : n \in DOMAIN l}
      BY <1>1, <1>4, <2>1
    <3> QED BY <3>1
  <2>3. R(i) = l[n]
    BY <1>4, <1>7, <1>8, <2>2
  <2> QED BY <2>3
<1> HIDE DEF R
<1>11. ToSet(l) = {R(i) : i \in 1..L}
  BY <1>9, <1>10 DEF ToSet
<1> QED BY <1>6, <1>11 DEF R, l

\* What load_environment accepts, for every environment: the device at position
\* i of the list has slave_index i, its settings are known and its own, no entry
\* is dropped and the order of writing does not matter (configuration.py). The
\* fleet and the parameter store index their lists and files by it.
THEOREM ConfigurationIsSound == Spec => []ConfigurationSound
<1>1. Init => FromEnvironment
  BY DEF Init, ConfigInit, FromEnvironment
<1>2. FleetIInv /\ FromEnvironment /\ [Next]_vars => FromEnvironment'
  BY FromEnvironmentKept
<1>3. FromEnvironment => ConfigurationSound
  <2> SUFFICES ASSUME FromEnvironment PROVE ConfigurationSound
    OBVIOUS
  <2>1. CASE result = <<>>
    BY <2>1 DEF ConfigurationSound, AcceptedIsServable, NothingDropped, OrderIrrelevant, Accepted
  <2>2. CASE result # <<>>
    <3>1. PICK e \in Inputs : result = LoadEnvironment(e) /\ (env = e \/ env = Forgotten)
      BY <2>2 DEF FromEnvironment
    <3>2. AcceptedIsServable /\ NothingDropped
      BY <3>1, LoadedServable, LoadedComplete
    <3>3. OrderIrrelevant
      BY <3>1, LoadTurned DEF OrderIrrelevant
    <3> QED BY <3>2, <3>3 DEF ConfigurationSound
  <2> QED BY <2>1, <2>2
<1> QED BY <1>1, <1>2, <1>3, FleetInvariant, PTL DEF Spec
=============================================================================
