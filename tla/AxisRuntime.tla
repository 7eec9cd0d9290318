---------------------------- MODULE AxisRuntime -----------------------------
(***************************************************************************)
(* runtime/axis.py: Model.dispatch, the request handler of one axis, with  *)
(* its guard (AxisFault) in front of a drive adapter.                      *)
(*                                                                         *)
(* The adapter and the behaviour model behind it are a parameter: Drives   *)
(* is the set of their states and Exec, Inputs and SdoWrite say what the   *)
(* calls of adapter/contract.py may do to them. CopleyDrive and FkrServo   *)
(* are the two instances; what is proved here holds for every adapter.     *)
(*                                                                         *)
(* A dispatch is atomic: the model host serves one request at a time.      *)
(***************************************************************************)
EXTENDS AxisFault, Integers, Sequences

CONSTANTS
  Controlwords,   \* controlwords the master may send
  Modes,          \* values of 0x6060 the master may send
  Rest,           \* values of the remaining RxPDO fields
  Drives,         \* states of the adapter with its behaviour model
  InitDrives,     \* its states after construction and parameter load
  Exec(_, _, _),  \* apply_outputs(payload); step(dt): a set of outcomes. The
                  \* third argument says that dt is a full first period (no
                  \* previous cycle, or the disabling step of a reset)
  Inputs(_),      \* read_inputs(): the TxPDO or how reading it fails
  SdoRead(_),     \* read_sdo(...) of any object: how it may end
  SdoWrite(_)     \* write_sdo(...) of any object: a set of outcomes

Payloads == [cw : Controlwords, mode : Modes, rest : Rest]

\* How an adapter call ends: normally, with DeviceRejectedException, or with
\* an exception the runtime does not expect.
Endings  == {"ok", "rejected", "failed"}
Outcomes == [st : Endings, drive : Drives]

ASSUME ControlwordsAssumption ==
  Controlwords \subseteq Word /\ {} \in Controlwords /\ FaultReset \in Controlwords

ASSUME DriveAssumption ==
  /\ InitDrives \subseteq Drives
  /\ \A d \in Drives :
       /\ Inputs(d) \in [st : {"ok", "failed", "invalid"}, sw : Word]
       /\ SdoRead(d) \subseteq Endings
       /\ SdoWrite(d) \subseteq Outcomes
       /\ \A p \in Payloads, first \in BOOLEAN : Exec(d, p, first) \subseteq Outcomes

VARIABLES
  guard,       \* fault_state: AxisFault
  drive,       \* adapter
  last_cycle,  \* last_cycle is not None
  sent,        \* controlwords given to the drive by the last request, in order
  reply        \* what the last request was answered

vars == <<guard, drive, last_cycle, sent, reply>>

Replies == [kind : {"none", "status", "value", "abort"}, sw : Word]
NoReply   == [kind |-> "none", sw |-> {}]
Value     == [kind |-> "value", sw |-> {}]
Abort     == [kind |-> "abort", sw |-> {}]
Status(w) == [kind |-> "status", sw |-> w]

\* The TxPDO answered to a cycle or idle request: the drive's own inputs, kept
\* in guard.last, while the guard is normal, else the guard's response.
PdoReply(g) == IF g.phase = "normal" /\ g.fault = NoFault
               THEN Status(g.last) ELSE Status(Response(g))

Init == /\ drive \in InitDrives
        /\ Inputs(drive).st = "ok"
        /\ guard = NewGuard(Inputs(drive).sw)
        /\ last_cycle = FALSE
        /\ sent = <<>>
        /\ reply = NoReply

-----------------------------------------------------------------------------
(* The request handler. *)

\* The guard after the adapter's calls ended in outcome o.
Judge(g, o, resetting) ==
  CASE o.st = "rejected" -> Detect(g, AdapterFault, FALSE)
    [] o.st = "failed" \/ (o.st = "ok" /\ Inputs(o.drive).st = "failed") ->
         Detect(g, ExecFailed, TRUE)
    [] o.st = "ok" /\ Inputs(o.drive).st = "invalid" -> Detect(g, OutputInvalid, TRUE)
    [] OTHER -> Accept(g, Inputs(o.drive).sw, resetting)

\* The outcome is judged and answered. last_cycle survives only a cycle whose
\* output was accepted.
Finish(g, o, resetting, cycled, words) ==
  /\ guard' = Judge(g, o, resetting)
  /\ drive' = o.drive
  /\ last_cycle' = (cycled /\ o.st = "ok" /\ Inputs(o.drive).st = "ok")
  /\ sent' = words
  /\ reply' = PdoReply(guard')

\* No payload may reach the drive: answer from the guard.
Hold(g) == /\ guard' = g
           /\ last_cycle' = FALSE
           /\ sent' = <<>>
           /\ reply' = Status(Response(g))
           /\ UNCHANGED drive

\* Mutant of DisableFirst: the reset is pulsed at once.
NeverDisableFirst(pr) == FALSE

\* A rejected PDO may have left the drive enabled, so a reset of an adapter
\* fault first steps it with a zero controlword.
DisableFirst(pr) == pr.resetting /\ pr.guard.fault = AdapterFault

Unchanged(d) == [st |-> "ok", drive |-> d]

\* op "cycle" with payload p; late says that more than 100 ms passed since the
\* previous cycle, which fails the cycle unless last_cycle was None.
Cycle(p, late) ==
  LET pr == Prepare(guard, p)
      first == pr.resetting \/ ~last_cycle
      prefix == IF DisableFirst(pr) THEN <<{}>> ELSE <<>>
  IN  \/ ~pr.go /\ Hold(pr.guard)
      \/ /\ pr.go
         /\ \E a \in IF DisableFirst(pr)
                   THEN Exec(drive, Disabled(pr.payload), TRUE)
                   ELSE {Unchanged(drive)} :
              \/ /\ a.st # "ok"
                 /\ Finish(pr.guard, a, pr.resetting, FALSE, prefix)
              \/ /\ a.st = "ok" /\ ~first /\ late
                 /\ Finish(pr.guard, [a EXCEPT !.st = "failed"], FALSE, FALSE, prefix)
              \/ /\ a.st = "ok" /\ (first \/ ~late)
                 /\ \E b \in Exec(a.drive, pr.payload, first) :
                      Finish(pr.guard, b, pr.resetting, TRUE,
                             Append(prefix, pr.payload.cw))

\* op "cycle" with a payload of the wrong length: rejected before the guard
\* sees it.
CycleBadLength ==
  Finish(guard, [st |-> "rejected", drive |-> drive], FALSE, FALSE, <<>>)

\* op "idle": outside Operational the drive is read, not stepped.
Idle == \/ guard.phase # "normal" /\ Hold(guard)
        \/ /\ guard.phase = "normal"
           /\ Finish(guard, Unchanged(drive), FALSE, FALSE, <<>>)

\* SDO requests answer without touching the guard, unless the access fails in
\* an unexpected way, which latches.
Answer(r) == reply' = r /\ sent' = <<>> /\ UNCHANGED <<guard, drive, last_cycle>>

\* op "read" of 0x6041: the guard answers while it is not normal.
ReadStatusword ==
  \/ guard.phase # "normal" /\ Answer(Status(Response(guard)))
  \/ guard.phase = "normal" /\ Answer(Status(Inputs(drive).sw))

\* op "read" or "write" once a restart is required.
SdoAfterRestartRequired == guard.restart_required /\ Answer(Abort)

\* The access raised an exception other than the expected ones.
SdoFailure(d) == /\ guard' = Detect(guard, ExecFailed, TRUE)
                 /\ drive' = d
                 /\ sent' = <<>>
                 /\ reply' = Abort
                 /\ UNCHANGED last_cycle

\* op "read" of another object: answered, refused (write-only or unknown
\* object), or failed, as when a value does not fit its type (struct.error).
SdoReadRequest ==
  /\ ~guard.restart_required
  /\ \E st \in SdoRead(drive) :
       \/ st = "ok" /\ Answer(Value)
       \/ st = "rejected" /\ Answer(Abort)
       \/ st = "failed" /\ SdoFailure(drive)

\* op "write": accepted, refused (DeviceRejectedException, KeyError,
\* ValueError become aborts), or failed.
SdoWriteRequest ==
  /\ ~guard.restart_required
  /\ \E o \in SdoWrite(drive) :
       \/ /\ o.st = "ok"
          /\ reply' = Value /\ sent' = <<>> /\ drive' = o.drive
          /\ UNCHANGED <<guard, last_cycle>>
       \/ o.st = "rejected" /\ Answer(Abort)
       \/ o.st = "failed" /\ SdoFailure(o.drive)

\* op "write" of 0x2005:1, parameter save: a storage failure is answered with
\* an abort and leaves the axis running.
SdoSave == ~guard.restart_required /\ (Answer(Value) \/ Answer(Abort))

Next == \/ \E p \in Payloads, late \in BOOLEAN : Cycle(p, late)
        \/ CycleBadLength
        \/ Idle
        \/ ReadStatusword
        \/ SdoAfterRestartRequired
        \/ SdoReadRequest
        \/ SdoWriteRequest
        \/ SdoSave

Spec == Init /\ [][Next]_vars

-----------------------------------------------------------------------------
(* Properties. *)

\* Every variable has its type: a guard of AxisFault's fields, an adapter state,
\* the controlwords of at most two drive steps, one reply.
TypeOK == /\ guard \in Guards
          /\ drive \in Drives
          /\ last_cycle \in BOOLEAN
          /\ sent \in Seq(Word)
          /\ reply \in Replies

\* The guard never holds a phase that contradicts its diagnostic: a fault is
\* latched exactly in the phases fault and verify_reset (prepare dereferences
\* self.fault there), a required restart is always a latched fault in phase
\* fault, and a reset is being verified only after it was acknowledged.
GuardCoherent ==
  /\ guard.fault # NoFault <=> guard.phase \in {"fault", "verify_reset"}
  /\ guard.restart_required => guard.phase = "fault"
  /\ guard.phase = "verify_reset" => guard.acked

\* Once a restart is required no request of any kind touches the drive again
\* or takes the axis out of its fault (detect, prepare, dispatch).
RestartIsFinal ==
  [][guard.restart_required =>
       /\ guard'.restart_required /\ guard'.phase = "fault"
       /\ guard'.fault = guard.fault
       /\ drive' = drive]_vars

\* While a fault is latched the drive is stepped only with a zero controlword
\* or a bare reset: no enable or setpoint bit the master still sends, nor one
\* that accompanies the reset, gets through.
NoCommandWhileFaulted ==
  [][guard.fault # NoFault =>
       \A i \in DOMAIN sent' : sent'[i] \in {{}, FaultReset}]_vars

\* A latched diagnostic is never replaced by another and never dropped: it
\* goes only after its acknowledgement, when the drive was stepped with a zero
\* controlword and reported no fault.
FaultHeldUntilVerified ==
  [][guard.fault # NoFault /\ guard'.fault # guard.fault =>
       /\ guard'.fault = NoFault
       /\ guard.acked /\ ~guard.restart_required
       /\ sent' # <<>> /\ sent'[Len(sent')] = {}
       /\ 3 \notin guard'.last]_vars

\* Whatever the request, an axis whose fault is latched is reported to the
\* master as Fault and not as enabled or acknowledging (PDO, idle, 0x6041).
FaultVisible ==
  [][reply'.kind = "status" /\ guard'.fault # NoFault =>
       3 \in reply'.sw /\ reply'.sw \cap {0, 1, 2, 5, 6, 12} = {}]_vars

=============================================================================
