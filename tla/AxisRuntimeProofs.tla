-------------------------- MODULE AxisRuntimeProofs -------------------------
(***************************************************************************)
(* The properties of AxisRuntime for every adapter that keeps to its       *)
(* contract, every set of controlwords, modes and payloads, and those of   *)
(* CopleyAxis.                                                             *)
(***************************************************************************)
EXTENDS CopleyAxis, TLAPS

Prepared == [guard : Guards, go : BOOLEAN, payload : Payloads, resetting : BOOLEAN]

-----------------------------------------------------------------------------
(* Types of the operators. *)

\* detect keeps the fields of a guard in their types.
LEMMA DetectType ==
  ASSUME NEW g \in Guards, NEW code \in FaultCodes, NEW restart \in BOOLEAN
  PROVE  Detect(g, code, restart) \in Guards
BY DEF Detect, Guards, Phases

\* The payloads prepare makes of the master's are payloads too.
LEMMA MaskedType ==
  ASSUME NEW p \in Payloads
  PROVE  Disabled(p) \in Payloads /\ ResetPulse(p) \in Payloads
BY ControlwordsAssumption DEF Disabled, ResetPulse, Payloads

\* A recovering guard stays in its phase or enters the next one.
LEMMA RecoveryPhaseType ==
  ASSUME NEW phase \in RecoveryPhases, NEW p \in Payloads
  PROVE  NextRecoveryPhase(phase, p) \in RecoveryPhases \cup {"normal"}
BY DEF NextRecoveryPhase, RecoveryPhases

\* prepare keeps the guard in its type and passes on a payload.
LEMMA PrepareType ==
  ASSUME NEW g \in Guards, NEW p \in Payloads
  PROVE  Prepare(g, p) \in Prepared
<1> DEFINE seen == [g EXCEPT !.previous_cw = p.cw]
           next == NextRecoveryPhase(g.phase, p)
<1>1. p.cw \in Word
  BY ControlwordsAssumption DEF Payloads
<1>2. seen \in Guards /\ [seen EXCEPT !.acked = TRUE] \in Guards
  BY <1>1 DEF Guards
<1>3. Disabled(p) \in Payloads /\ ResetPulse(p) \in Payloads
  BY MaskedType
<1>4. CASE g.phase = "normal"
  BY <1>2, <1>4 DEF Prepare, Resettable, Prepared, RecoveryPhases
<1>5. CASE g.phase = "verify_reset"
  BY <1>2, <1>3, <1>5 DEF Prepare, Resettable, Prepared, RecoveryPhases
<1>6. CASE g.phase = "fault"
  BY <1>2, <1>3, <1>6 DEF Prepare, Resettable, Prepared, RecoveryPhases
<1>7. CASE g.phase \in RecoveryPhases
  <2>1. next \in Phases
    BY <1>7, RecoveryPhaseType DEF Phases
  <2>2. [seen EXCEPT !.phase = next] \in Guards
    BY <1>2, <2>1 DEF Guards
  <2> QED
    BY <1>2, <1>7, <2>2 DEF Prepare, Resettable, Prepared, RecoveryPhases
<1> QED
  BY <1>4, <1>5, <1>6, <1>7 DEF Guards, Phases

\* accept keeps the fields of a guard in their types.
LEMMA AcceptType ==
  ASSUME NEW g \in Guards, NEW sw \in Word, NEW resetting \in BOOLEAN
  PROVE  Accept(g, sw, resetting) \in Guards
<1> DEFINE valid == [g EXCEPT !.last = sw, !.feedback_valid = TRUE]
<1>1. valid \in Guards
  BY DEF Guards
<1>2. Detect(valid, DriveFault, FALSE) \in Guards
  BY <1>1, DetectType DEF FaultCodes
<1>3. [valid EXCEPT !.fault = NoFault, !.acked = FALSE, !.phase = "shutdown"] \in Guards
  BY <1>1 DEF Guards, Phases, RecoveryPhases
<1>4. [valid EXCEPT !.phase = "verify_reset"] \in Guards
  BY <1>1 DEF Guards, Phases
<1>5. ASSUME NEW h \in Guards PROVE [h EXCEPT !.warning = 7 \in sw] \in Guards
  <2>1. (7 \in sw) \in BOOLEAN
    OBVIOUS
  <2> QED
    BY <2>1, Zenon DEF Guards
<1> QED
  BY <1>1, <1>2, <1>3, <1>4, <1>5 DEF Accept, ResetVerified

\* response answers a statusword.
LEMMA ResponseType ==
  ASSUME NEW g \in Guards
  PROVE  Response(g) \in Word
BY DEF Response, Guards, FaultProjection, Word, Bits

\* Whatever the adapter's calls ended in, the judged guard is a guard.
LEMMA JudgeType ==
  ASSUME NEW g \in Guards, NEW o \in Outcomes, NEW resetting \in BOOLEAN
  PROVE  Judge(g, o, resetting) \in Guards
<1>1. o.drive \in Drives
  BY DEF Outcomes
<1>2. Inputs(o.drive).sw \in Word
  BY <1>1, DriveAssumption
<1> QED
  BY <1>2, DetectType, AcceptType DEF Judge, FaultCodes

-----------------------------------------------------------------------------
(* What a cycle can do, whichever way the adapter's calls end. *)

Executed(pr, o, r, words) ==
  /\ r => pr.resetting
  /\ \A i \in DOMAIN words : words[i] \in {{}, pr.payload.cw}
  /\ o.st = "ok" => words # <<>> /\ words[Len(words)] = pr.payload.cw

\* A cycle holds the guard, or judges one outcome of the adapter after sending
\* it only zero controlwords and the prepared payload.
LEMMA CycleOutcome ==
  ASSUME guard \in Guards, drive \in Drives, last_cycle \in BOOLEAN,
         NEW p \in Payloads, NEW late \in BOOLEAN, Cycle(p, late)
  PROVE  \/ ~Prepare(guard, p).go /\ Hold(Prepare(guard, p).guard)
         \/ /\ Prepare(guard, p).go
            /\ \E o \in Outcomes, words \in Seq(Word), r \in BOOLEAN, c \in BOOLEAN :
                 /\ Finish(Prepare(guard, p).guard, o, r, c, words)
                 /\ Executed(Prepare(guard, p), o, r, words)
<1> DEFINE pr == Prepare(guard, p)
           first == pr.resetting \/ ~last_cycle
           prefix == IF DisableFirst(pr) THEN <<{}>> ELSE <<>>
<1>1. pr \in Prepared
  BY PrepareType
<1> HIDE DEF pr
<1>2. pr.payload \in Payloads /\ pr.payload.cw \in Word /\ Disabled(pr.payload) \in Payloads
  BY <1>1, MaskedType, ControlwordsAssumption DEF Prepared, Payloads
<1>3. prefix \in Seq(Word) /\ Append(prefix, pr.payload.cw) \in Seq(Word)
  <2>1. {} \in Word
    BY DEF Word
  <2>2. prefix \in Seq(Word)
    BY <2>1
  <2> HIDE DEF prefix
  <2> QED
    BY <1>2, <2>2
<1>4. \A i \in DOMAIN prefix : prefix[i] = {}
  OBVIOUS
<1>5. /\ \A i \in DOMAIN Append(prefix, pr.payload.cw) :
           Append(prefix, pr.payload.cw)[i] \in {{}, pr.payload.cw}
      /\ Append(prefix, pr.payload.cw) # <<>>
      /\ Append(prefix, pr.payload.cw)[Len(Append(prefix, pr.payload.cw))] = pr.payload.cw
  BY <1>2
<1>6. CASE ~pr.go
  BY <1>6 DEF Cycle, pr
<1>7. CASE pr.go
  <2>1. PICK a \in IF DisableFirst(pr) THEN Exec(drive, Disabled(pr.payload), TRUE)
                   ELSE {Unchanged(drive)} :
          \/ a.st # "ok" /\ Finish(pr.guard, a, pr.resetting, FALSE, prefix)
          \/ /\ a.st = "ok" /\ ~first /\ late
             /\ Finish(pr.guard, [a EXCEPT !.st = "failed"], FALSE, FALSE, prefix)
          \/ /\ a.st = "ok"
             /\ \E b \in Exec(a.drive, pr.payload, first) :
                  Finish(pr.guard, b, pr.resetting, TRUE, Append(prefix, pr.payload.cw))
    BY <1>7 DEF Cycle, pr
  <2>2. a \in Outcomes
    <3>1. CASE DisableFirst(pr)
      BY <1>2, <2>1, <3>1, DriveAssumption
    <3>2. CASE ~DisableFirst(pr)
      BY <2>1, <3>2 DEF Unchanged, Outcomes, Endings
    <3> QED
      BY <3>1, <3>2
  <2>3. pr.resetting \in BOOLEAN
    BY <1>1 DEF Prepared
  <2>4. CASE a.st # "ok" /\ Finish(pr.guard, a, pr.resetting, FALSE, prefix)
    <3>1. Executed(pr, a, pr.resetting, prefix)
      BY <1>4, <2>4 DEF Executed
    <3> QED
      BY <1>3, <1>7, <2>2, <2>3, <2>4, <3>1 DEF pr
  <2>5. CASE Finish(pr.guard, [a EXCEPT !.st = "failed"], FALSE, FALSE, prefix)
    <3>1. [a EXCEPT !.st = "failed"] \in Outcomes
      BY <2>2 DEF Outcomes, Endings
    <3>2. Executed(pr, [a EXCEPT !.st = "failed"], FALSE, prefix)
      BY <1>4, <2>2 DEF Executed, Outcomes
    <3> QED
      BY <1>3, <1>7, <2>5, <3>1, <3>2 DEF pr
  <2>6. ASSUME NEW b \in Exec(a.drive, pr.payload, first),
               Finish(pr.guard, b, pr.resetting, TRUE, Append(prefix, pr.payload.cw))
        PROVE  \E o \in Outcomes, words \in Seq(Word), r \in BOOLEAN, c \in BOOLEAN :
                 /\ Finish(pr.guard, o, r, c, words)
                 /\ Executed(pr, o, r, words)
    <3>1. a.drive \in Drives /\ first \in BOOLEAN
      BY <2>2 DEF Outcomes
    <3>2. b \in Outcomes
      BY <1>2, <2>6, <3>1, DriveAssumption
    <3>3. Executed(pr, b, pr.resetting, Append(prefix, pr.payload.cw))
      BY <1>5 DEF Executed
    <3> QED
      BY <1>3, <2>3, <2>6, <3>2, <3>3
  <2> QED
    BY <1>7, <2>1, <2>4, <2>5, <2>6 DEF pr
<1> QED
  BY <1>6, <1>7

-----------------------------------------------------------------------------
(* Type correctness. *)

\* The answers of the request handler are replies.
LEMMA ReplyType ==
  /\ Value \in Replies /\ Abort \in Replies /\ NoReply \in Replies
  /\ \A w \in Word : Status(w) \in Replies
BY DEF Value, Abort, NoReply, Status, Replies, Word

\* Answering from the guard keeps the types.
LEMMA HoldType ==
  ASSUME TypeOK, NEW g \in Guards, Hold(g)
  PROVE  TypeOK'
<1>1. Response(g) \in Word
  BY ResponseType
<1>2. guard' \in Guards /\ drive' \in Drives
  BY DEF TypeOK, Hold
<1>3. last_cycle' \in BOOLEAN
  BY Zenon DEF Hold
<1>4. sent' \in Seq(Word)
  BY DEF Hold
<1>5. reply' \in Replies
  BY <1>1, ReplyType DEF Hold
<1> QED
  BY <1>2, <1>3, <1>4, <1>5 DEF TypeOK

\* Judging an outcome and answering it keeps the types.
LEMMA FinishType ==
  ASSUME TypeOK, NEW g \in Guards, NEW o \in Outcomes, NEW words \in Seq(Word),
         NEW r \in BOOLEAN, NEW c \in BOOLEAN, Finish(g, o, r, c, words)
  PROVE  TypeOK'
<1>1. guard' \in Guards
  BY JudgeType DEF Finish
<1>2. drive' \in Drives /\ sent' \in Seq(Word)
  BY DEF Finish, Outcomes
<1>3. last_cycle' \in BOOLEAN
  BY DEF Finish
<1>4. reply' \in Replies
  BY <1>1, ResponseType DEF Finish, PdoReply, Status, Replies, Guards
<1> QED
  BY <1>1, <1>2, <1>3, <1>4 DEF TypeOK

\* Answering an SDO request keeps the types.
LEMMA AnswerType ==
  ASSUME TypeOK, NEW r \in Replies, Answer(r)
  PROVE  TypeOK'
BY DEF TypeOK, Answer

\* Latching a failed SDO access keeps the types.
LEMMA SdoFailureType ==
  ASSUME TypeOK, NEW d \in Drives, SdoFailure(d)
  PROVE  TypeOK'
<1>1. Detect(guard, ExecFailed, TRUE) \in Guards
  BY DetectType DEF TypeOK, FaultCodes
<1>2. sent' \in Seq(Word)
  BY DEF SdoFailure
<1> QED
  BY <1>1, <1>2, ReplyType DEF TypeOK, SdoFailure

\* Every reachable state is well typed, whatever the adapter does.
THEOREM TypeCorrect == Spec => []TypeOK
<1>1. Init => TypeOK
  <2> SUFFICES ASSUME Init PROVE TypeOK
    OBVIOUS
  <2>1. drive \in Drives /\ Inputs(drive).sw \in Word
    BY DriveAssumption DEF Init
  <2>2. guard \in Guards
    BY <2>1 DEF Init, NewGuard, Guards, Phases, Word
  <2>3. sent \in Seq(Word)
    BY DEF Init
  <2>4. last_cycle \in BOOLEAN
    BY Zenon DEF Init
  <2> QED
    BY <2>1, <2>2, <2>3, <2>4, ReplyType DEF Init, TypeOK
<1>2. TypeOK /\ [Next]_vars => TypeOK'
  <2> SUFFICES ASSUME TypeOK, [Next]_vars PROVE TypeOK'
    OBVIOUS
  <2>0. guard \in Guards /\ drive \in Drives /\ last_cycle \in BOOLEAN
    BY DEF TypeOK
  <2>1. ASSUME NEW p \in Payloads, NEW late \in BOOLEAN, Cycle(p, late)
        PROVE  TypeOK'
    <3>1. Prepare(guard, p).guard \in Guards
      BY <2>0, PrepareType DEF Prepared
    <3> QED
      BY <2>0, <2>1, <3>1, CycleOutcome, HoldType, FinishType
  <2>2. CASE CycleBadLength
    <3>1. [st |-> "rejected", drive |-> drive] \in Outcomes
      BY <2>0 DEF Outcomes, Endings
    <3>2. <<>> \in Seq(Word)
      OBVIOUS
    <3> QED
      BY <2>0, <2>2, <3>1, <3>2, FinishType DEF CycleBadLength
  <2>3. CASE Idle
    <3>1. Unchanged(drive) \in Outcomes
      BY <2>0 DEF Unchanged, Outcomes, Endings
    <3>2. <<>> \in Seq(Word)
      OBVIOUS
    <3> QED
      BY <2>0, <2>3, <3>1, <3>2, HoldType, FinishType DEF Idle
  <2>4. CASE ReadStatusword
    <3>1. Response(guard) \in Word /\ Inputs(drive).sw \in Word
      BY <2>0, ResponseType, DriveAssumption
    <3> QED
      BY <2>4, <3>1, ReplyType, AnswerType DEF ReadStatusword
  <2>5. CASE SdoAfterRestartRequired
    BY <2>5, ReplyType, AnswerType DEF SdoAfterRestartRequired
  <2>6. CASE SdoReadRequest
    BY <2>0, <2>6, ReplyType, AnswerType, SdoFailureType DEF SdoReadRequest
  <2>7. CASE SdoWriteRequest
    <3>1. PICK o \in SdoWrite(drive) :
            \/ /\ reply' = Value /\ sent' = <<>> /\ drive' = o.drive
               /\ UNCHANGED <<guard, last_cycle>>
            \/ Answer(Abort)
            \/ SdoFailure(o.drive)
      BY <2>7 DEF SdoWriteRequest
    <3>2. o.drive \in Drives
      BY <2>0, DriveAssumption DEF Outcomes
    <3>3. CASE /\ reply' = Value /\ sent' = <<>> /\ drive' = o.drive
               /\ UNCHANGED <<guard, last_cycle>>
      BY <3>2, <3>3, ReplyType DEF TypeOK
    <3> QED
      BY <3>1, <3>2, <3>3, ReplyType, AnswerType, SdoFailureType
  <2>8. CASE SdoSave
    BY <2>8, ReplyType, AnswerType DEF SdoSave
  <2>9. CASE UNCHANGED vars
    BY <2>9 DEF TypeOK, vars
  <2> QED
    BY <2>1, <2>2, <2>3, <2>4, <2>5, <2>6, <2>7, <2>8, <2>9 DEF Next
<1> QED
  BY <1>1, <1>2, PTL DEF Spec

-----------------------------------------------------------------------------
(* Coherence of the guard, as a predicate of a guard. *)

Coherent(g) ==
  /\ g.fault # NoFault <=> g.phase \in {"fault", "verify_reset"}
  /\ g.restart_required => g.phase = "fault"
  /\ g.phase = "verify_reset" => g.acked

\* detect makes any guard coherent, keeps a latched fault and a required
\* restart, and latches one where there was none.
LEMMA DetectCoherent ==
  ASSUME NEW g \in Guards, NEW code \in FaultCodes, NEW restart \in BOOLEAN
  PROVE  /\ Coherent(Detect(g, code, restart))
         /\ g.fault # NoFault => Detect(g, code, restart).fault = g.fault
         /\ g.restart_required => Detect(g, code, restart).restart_required
<1>1. NoFault \notin FaultCodes
  BY DEF FaultCodes, NoFault, DriveFault, AdapterFault, OutputInvalid, ExecFailed
<1> QED
  BY <1>1 DEF Detect, Guards, Coherent

\* prepare keeps a guard coherent and its fault and restart flag as they are; a
\* payload that resets goes out only for an acknowledged fault that a reset may
\* clear; while a fault is latched only a zero controlword or a bare reset goes
\* out, and a zero controlword when the reset is being verified.
LEMMA PrepareCoherent ==
  ASSUME NEW g \in Guards, NEW p \in Payloads, Coherent(g)
  PROVE  /\ Coherent(Prepare(g, p).guard)
         /\ Prepare(g, p).guard.fault = g.fault
         /\ Prepare(g, p).guard.restart_required = g.restart_required
         /\ g.restart_required => ~Prepare(g, p).go
         /\ Prepare(g, p).resetting =>
              Prepare(g, p).guard.acked /\ ~g.restart_required /\ g.fault # NoFault
         /\ g.fault # NoFault /\ Prepare(g, p).go =>
              Prepare(g, p).payload.cw \in {{}, FaultReset}
         /\ Prepare(g, p).guard.phase = "verify_reset" /\ Prepare(g, p).go =>
              g.acked /\ Prepare(g, p).payload.cw = {}
<1>1. CASE g.phase = "normal"
  BY <1>1 DEF Prepare, Resettable, Coherent, Guards, RecoveryPhases
<1>2. CASE g.phase = "verify_reset"
  BY <1>2 DEF Prepare, Resettable, Coherent, Guards, RecoveryPhases, Disabled, Payloads
<1>3. CASE g.phase = "fault"
  BY <1>3 DEF Prepare, Resettable, Coherent, Guards, RecoveryPhases, Disabled, ResetPulse, Payloads
<1>4. CASE g.phase \in RecoveryPhases
  <2>1. NextRecoveryPhase(g.phase, p) \in RecoveryPhases \cup {"normal"}
    BY <1>4, RecoveryPhaseType
  <2> QED
    BY <1>4, <2>1 DEF Prepare, Resettable, Coherent, Guards, RecoveryPhases
<1> QED
  BY <1>1, <1>2, <1>3, <1>4 DEF Guards, Phases

\* accept keeps a guard coherent, provided that a payload reset only an
\* acknowledged fault a reset may clear; it drops a fault only when the reset
\* is being verified and the statusword shows none.
LEMMA AcceptCoherent ==
  ASSUME NEW g \in Guards, NEW sw \in Word, NEW r \in BOOLEAN, Coherent(g),
         r => g.acked /\ ~g.restart_required
  PROVE  /\ Coherent(Accept(g, sw, r))
         /\ g.restart_required => Accept(g, sw, r).restart_required
         /\ Accept(g, sw, r).last = sw
         /\ g.fault # NoFault /\ Accept(g, sw, r).fault # g.fault =>
              /\ Accept(g, sw, r).fault = NoFault
              /\ r /\ g.phase = "verify_reset" /\ 3 \notin sw
<1> DEFINE valid == [g EXCEPT !.last = sw, !.feedback_valid = TRUE]
<1>1. valid \in Guards
  BY DEF Guards
<1>2. DriveFault \in FaultCodes /\ FALSE \in BOOLEAN
  BY DEF FaultCodes
<1>3. CASE 3 \in sw
  <2>1. Coherent(Detect(valid, DriveFault, FALSE))
    BY <1>1, <1>2, DetectCoherent
  <2> QED
    BY <1>3, <2>1 DEF Accept, ResetVerified, Detect, Coherent, Guards
<1>4. CASE 3 \notin sw /\ r /\ g.fault # NoFault
  BY <1>4 DEF Accept, ResetVerified, Coherent, Guards
<1>5. CASE 3 \notin sw /\ ~(r /\ g.fault # NoFault)
  BY <1>5 DEF Accept, ResetVerified, Coherent, Guards
<1> QED
  BY <1>3, <1>4, <1>5

\* Judging an outcome keeps the guard coherent; the fault is dropped only by a
\* successful step that verifies the reset.
LEMMA JudgeCoherent ==
  ASSUME NEW g \in Guards, NEW o \in Outcomes, NEW r \in BOOLEAN, Coherent(g),
         r => g.acked /\ ~g.restart_required
  PROVE  /\ Coherent(Judge(g, o, r))
         /\ g.restart_required => Judge(g, o, r).restart_required
         /\ g.fault # NoFault /\ Judge(g, o, r).fault # g.fault =>
              /\ Judge(g, o, r).fault = NoFault
              /\ r /\ g.phase = "verify_reset" /\ o.st = "ok"
              /\ 3 \notin Judge(g, o, r).last
<1>1. Inputs(o.drive).sw \in Word
  BY DriveAssumption DEF Outcomes
<1>2. {AdapterFault, ExecFailed, OutputInvalid} \subseteq FaultCodes
  BY DEF FaultCodes
<1>3. ASSUME NEW code \in FaultCodes, NEW restart \in BOOLEAN
      PROVE  /\ Coherent(Detect(g, code, restart))
             /\ g.restart_required => Detect(g, code, restart).restart_required
             /\ g.fault # NoFault => Detect(g, code, restart).fault = g.fault
  BY DetectCoherent
<1>4. CASE Judge(g, o, r) = Detect(g, AdapterFault, FALSE)
  BY <1>2, <1>3, <1>4
<1>5. CASE \/ Judge(g, o, r) = Detect(g, ExecFailed, TRUE)
           \/ Judge(g, o, r) = Detect(g, OutputInvalid, TRUE)
  BY <1>2, <1>3, <1>5
<1>6. CASE o.st = "ok" /\ Judge(g, o, r) = Accept(g, Inputs(o.drive).sw, r)
  BY <1>1, <1>6, AcceptCoherent
<1> QED
  BY <1>3, <1>4, <1>5, <1>6 DEF Judge, Outcomes, Endings

\* What every step keeps: the guard stays coherent.
GuardInv == TypeOK /\ GuardCoherent

\* A cycle keeps the guard coherent and does to its fault only what the
\* properties allow.
LEMMA CycleKeeps ==
  ASSUME GuardInv, NEW p \in Payloads, NEW late \in BOOLEAN, Cycle(p, late)
  PROVE  /\ Coherent(guard')
         /\ guard.restart_required =>
              guard'.restart_required /\ guard'.fault = guard.fault /\ drive' = drive
         /\ guard.fault # NoFault =>
              \A i \in DOMAIN sent' : sent'[i] \in {{}, FaultReset}
         /\ guard.fault # NoFault /\ guard'.fault # guard.fault =>
              /\ guard'.fault = NoFault
              /\ guard.acked /\ ~guard.restart_required
              /\ sent' # <<>> /\ sent'[Len(sent')] = {}
              /\ 3 \notin guard'.last
<1> DEFINE pr == Prepare(guard, p)
<1>1. guard \in Guards /\ drive \in Drives /\ last_cycle \in BOOLEAN /\ Coherent(guard)
  BY DEF GuardInv, TypeOK, GuardCoherent, Coherent
<1>2. pr \in Prepared
  BY <1>1, PrepareType
<1>3. /\ Coherent(pr.guard) /\ pr.guard.fault = guard.fault
      /\ pr.guard.restart_required = guard.restart_required
      /\ guard.restart_required => ~pr.go
      /\ pr.resetting => pr.guard.acked /\ ~guard.restart_required /\ guard.fault # NoFault
      /\ guard.fault # NoFault /\ pr.go => pr.payload.cw \in {{}, FaultReset}
      /\ pr.guard.phase = "verify_reset" /\ pr.go => guard.acked /\ pr.payload.cw = {}
  BY <1>1, PrepareCoherent
<1>4. \/ ~pr.go /\ Hold(pr.guard)
      \/ /\ pr.go
         /\ \E o \in Outcomes, words \in Seq(Word), r \in BOOLEAN, c \in BOOLEAN :
              Finish(pr.guard, o, r, c, words) /\ Executed(pr, o, r, words)
  BY <1>1, CycleOutcome
<1> HIDE DEF pr
<1>5. CASE ~pr.go /\ Hold(pr.guard)
  BY <1>3, <1>5 DEF Hold
<1>6. ASSUME pr.go, NEW o \in Outcomes, NEW words \in Seq(Word),
             NEW r \in BOOLEAN, NEW c \in BOOLEAN,
             Finish(pr.guard, o, r, c, words), Executed(pr, o, r, words)
      PROVE  /\ Coherent(guard') /\ ~guard.restart_required
             /\ guard.fault # NoFault =>
                  \A i \in DOMAIN sent' : sent'[i] \in {{}, FaultReset}
             /\ guard.fault # NoFault /\ guard'.fault # guard.fault =>
                  /\ guard'.fault = NoFault
                  /\ guard.acked
                  /\ sent' # <<>> /\ sent'[Len(sent')] = {}
                  /\ 3 \notin guard'.last
  <2>1. guard' = Judge(pr.guard, o, r) /\ sent' = words
    BY <1>6 DEF Finish
  <2>2. r => pr.guard.acked /\ ~pr.guard.restart_required
    BY <1>3, <1>6 DEF Executed
  <2>3. pr.guard \in Guards
    BY <1>2 DEF Prepared
  <2>4. /\ Coherent(guard')
        /\ pr.guard.fault # NoFault /\ guard'.fault # pr.guard.fault =>
             /\ guard'.fault = NoFault
             /\ r /\ pr.guard.phase = "verify_reset" /\ o.st = "ok"
             /\ 3 \notin guard'.last
    BY <1>3, <2>1, <2>2, <2>3, JudgeCoherent
  <2>5. guard.fault # NoFault => \A i \in DOMAIN sent' : sent'[i] \in {{}, FaultReset}
    BY <1>3, <1>6, <2>1 DEF Executed
  <2>6. o.st = "ok" => words # <<>> /\ words[Len(words)] = pr.payload.cw
    BY <1>6 DEF Executed
  <2> QED
    BY <1>3, <1>6, <2>1, <2>4, <2>5, <2>6
<1> QED
  BY <1>3, <1>4, <1>5, <1>6

\* What a step may do to the guard, the drive and the controlwords sent.
StepKept ==
  /\ Coherent(guard')
  /\ guard.restart_required =>
       guard'.restart_required /\ guard'.fault = guard.fault /\ drive' = drive
  /\ guard.fault # NoFault => \A i \in DOMAIN sent' : sent'[i] \in {{}, FaultReset}
  /\ guard.fault # NoFault /\ guard'.fault # guard.fault =>
       /\ guard'.fault = NoFault
       /\ guard.acked /\ ~guard.restart_required
       /\ sent' # <<>> /\ sent'[Len(sent')] = {}
       /\ 3 \notin guard'.last

\* A step that leaves guard and drive alone, or latches a fault in a drive that
\* needs no restart, and sends nothing.
LEMMA QuietStep ==
  ASSUME GuardInv, sent' = <<>>, Coherent(guard'),
         guard.restart_required => guard'.restart_required /\ drive' = drive,
         guard.fault # NoFault => guard'.fault = guard.fault
  PROVE  StepKept
<1>1. guard.restart_required => guard.fault # NoFault
  BY DEF GuardInv, GuardCoherent
<1>2. \A i \in DOMAIN sent' : sent'[i] \in {{}, FaultReset}
  OBVIOUS
<1> QED
  BY <1>1, <1>2 DEF StepKept

\* Every request keeps the guard coherent and does to its fault only what the
\* properties allow.
LEMMA NextKeeps ==
  ASSUME GuardInv, Next
  PROVE  StepKept
<1>1. guard \in Guards /\ drive \in Drives /\ Coherent(guard)
  BY DEF GuardInv, TypeOK, GuardCoherent, Coherent
<1>2. guard.restart_required => guard.phase = "fault"
  BY DEF GuardInv, GuardCoherent
<1>3. ASSUME NEW r, Answer(r) PROVE StepKept
  BY <1>1, <1>3, QuietStep DEF Answer
<1>4. ASSUME NEW d \in Drives, SdoFailure(d), ~guard.restart_required PROVE StepKept
  <2>1. ExecFailed \in FaultCodes
    BY DEF FaultCodes
  <2>2. /\ Coherent(Detect(guard, ExecFailed, TRUE))
        /\ guard.fault # NoFault => Detect(guard, ExecFailed, TRUE).fault = guard.fault
    BY <1>1, <2>1, DetectCoherent
  <2> QED
    BY <1>4, <2>2, QuietStep DEF SdoFailure
<1>5. ASSUME NEW p \in Payloads, NEW late \in BOOLEAN, Cycle(p, late) PROVE StepKept
  BY <1>5, CycleKeeps DEF StepKept
<1>6. CASE CycleBadLength
  <2>1. guard' = Detect(guard, AdapterFault, FALSE) /\ drive' = drive /\ sent' = <<>>
    BY <1>6 DEF CycleBadLength, Finish, Judge
  <2>2. AdapterFault \in FaultCodes
    BY DEF FaultCodes
  <2> QED
    BY <1>1, <2>1, <2>2, DetectCoherent, QuietStep
<1>7. CASE Idle
  <2>1. CASE guard.phase # "normal" /\ Hold(guard)
    BY <1>1, <2>1, QuietStep DEF Hold
  <2>2. CASE guard.phase = "normal" /\ Finish(guard, Unchanged(drive), FALSE, FALSE, <<>>)
    <3>1. Unchanged(drive) \in Outcomes
      BY <1>1 DEF Unchanged, Outcomes, Endings
    <3>2. ~guard.restart_required /\ guard.fault = NoFault
      BY <1>1, <1>2, <2>2 DEF Coherent
    <3>3. guard' = Judge(guard, Unchanged(drive), FALSE) /\ sent' = <<>>
      BY <2>2 DEF Finish
    <3>4. Coherent(guard')
      BY <1>1, <3>1, <3>3, JudgeCoherent
    <3> QED
      BY <3>2, <3>3, <3>4, QuietStep
  <2> QED
    BY <1>7, <2>1, <2>2 DEF Idle
<1>8. CASE SdoWriteRequest
  <2>1. PICK o \in SdoWrite(drive) :
          \/ /\ reply' = Value /\ sent' = <<>> /\ drive' = o.drive
             /\ UNCHANGED <<guard, last_cycle>>
          \/ Answer(Abort)
          \/ SdoFailure(o.drive)
    BY <1>8 DEF SdoWriteRequest
  <2>2. o.drive \in Drives /\ ~guard.restart_required
    BY <1>1, <1>8, DriveAssumption DEF Outcomes, SdoWriteRequest
  <2>3. CASE sent' = <<>> /\ guard' = guard
    BY <1>1, <2>2, <2>3, QuietStep
  <2> QED
    BY <1>3, <1>4, <2>1, <2>2, <2>3
<1> QED
  BY <1>1, <1>3, <1>4, <1>5, <1>6, <1>7, <1>8
     DEF Next, ReadStatusword, SdoAfterRestartRequired, SdoReadRequest, SdoSave

\* A latched fault is projected into every statusword answered.
LEMMA Projected ==
  ASSUME NEW g, g.fault # NoFault
  PROVE  3 \in Response(g) /\ Response(g) \cap {0, 1, 2, 5, 6, 12} = {}
BY DEF Response, FaultProjection

\* Every request answers a latched fault as a fault.
LEMMA NextVisible ==
  ASSUME GuardInv, Next, reply'.kind = "status", guard'.fault # NoFault
  PROVE  3 \in reply'.sw /\ reply'.sw \cap {0, 1, 2, 5, 6, 12} = {}
<1> SUFFICES reply' = Status(Response(guard'))
  BY Projected DEF Status
<1>1. guard \in Guards /\ drive \in Drives /\ last_cycle \in BOOLEAN
  BY DEF GuardInv, TypeOK
<1>2. ASSUME NEW g, Hold(g) PROVE reply' = Status(Response(guard'))
  BY <1>2 DEF Hold
<1>3. ASSUME NEW g, NEW o, NEW r, NEW c, NEW w, Finish(g, o, r, c, w)
      PROVE  reply' = Status(Response(guard'))
  BY <1>3 DEF Finish, PdoReply
<1>4. Value.kind # "status" /\ Abort.kind # "status"
  BY DEF Value, Abort
<1>5. ASSUME NEW p \in Payloads, NEW late \in BOOLEAN, Cycle(p, late)
      PROVE  reply' = Status(Response(guard'))
  BY <1>1, <1>2, <1>3, <1>5, CycleOutcome
<1>6. CASE CycleBadLength \/ Idle
  BY <1>2, <1>3, <1>6 DEF CycleBadLength, Idle
<1>7. CASE ReadStatusword
  <2>1. guard' = guard
    BY <1>7 DEF ReadStatusword, Answer
  <2>2. guard.phase # "normal"
    BY <2>1 DEF GuardInv, GuardCoherent
  <2> QED
    BY <1>7, <2>1, <2>2 DEF ReadStatusword, Answer
<1> QED
  BY <1>4, <1>5, <1>6, <1>7
     DEF Next, SdoAfterRestartRequired, SdoReadRequest, SdoWriteRequest, SdoSave,
         SdoFailure, Answer

-----------------------------------------------------------------------------
(* The theorems. *)

\* The phase of the guard never contradicts its diagnostic.
THEOREM Coherence == Spec => []GuardCoherent
<1>1. Init => GuardCoherent
  BY DEF Init, NewGuard, GuardCoherent
<1>2. TypeOK /\ GuardCoherent /\ [Next]_vars => GuardCoherent'
  <2> SUFFICES ASSUME TypeOK, GuardCoherent, [Next]_vars PROVE GuardCoherent'
    OBVIOUS
  <2>1. CASE Next
    BY <2>1, NextKeeps DEF GuardInv, StepKept, Coherent, GuardCoherent
  <2>2. CASE UNCHANGED vars
    BY <2>2 DEF GuardCoherent, vars
  <2> QED
    BY <2>1, <2>2
<1> QED
  BY <1>1, <1>2, TypeCorrect, PTL DEF Spec

\* A required restart is final: no request touches the drive or clears it.
THEOREM RestartFinal == Spec => RestartIsFinal
<1>1. TypeOK /\ GuardCoherent /\ [Next]_vars =>
        [guard.restart_required =>
           /\ guard'.restart_required /\ guard'.phase = "fault"
           /\ guard'.fault = guard.fault
           /\ drive' = drive]_vars
  BY NextKeeps DEF GuardInv, StepKept, Coherent
<1> QED
  BY <1>1, TypeCorrect, Coherence, PTL DEF Spec, RestartIsFinal

\* No enable or setpoint bit reaches the drive of a faulted axis.
THEOREM CommandsBlocked == Spec => NoCommandWhileFaulted
<1>1. TypeOK /\ GuardCoherent /\ [Next]_vars =>
        [guard.fault # NoFault =>
           \A i \in DOMAIN sent' : sent'[i] \in {{}, FaultReset}]_vars
  BY NextKeeps DEF GuardInv, StepKept
<1> QED
  BY <1>1, TypeCorrect, Coherence, PTL DEF Spec, NoCommandWhileFaulted

\* A fault goes only after acknowledgement and a verified reset.
THEOREM FaultHeld == Spec => FaultHeldUntilVerified
<1>1. TypeOK /\ GuardCoherent /\ [Next]_vars =>
        [guard.fault # NoFault /\ guard'.fault # guard.fault =>
           /\ guard'.fault = NoFault
           /\ guard.acked /\ ~guard.restart_required
           /\ sent' # <<>> /\ sent'[Len(sent')] = {}
           /\ 3 \notin guard'.last]_vars
  BY NextKeeps DEF GuardInv, StepKept
<1> QED
  BY <1>1, TypeCorrect, Coherence, PTL DEF Spec, FaultHeldUntilVerified

\* A latched fault shows in every statusword the master is given.
THEOREM FaultShown == Spec => FaultVisible
<1>1. TypeOK /\ GuardCoherent /\ [Next]_vars =>
        [reply'.kind = "status" /\ guard'.fault # NoFault =>
           3 \in reply'.sw /\ reply'.sw \cap {0, 1, 2, 5, 6, 12} = {}]_vars
  BY NextVisible DEF GuardInv
<1> QED
  BY <1>1, TypeCorrect, Coherence, PTL DEF Spec, FaultVisible

-----------------------------------------------------------------------------
(* A Copley drive behind the guard. *)

\* What a guard g and a Copley drive d have in common: the object dictionary
\* shows the FMU's state; a drive that is being reset or recovers, or that
\* reported a fault of its own, is not enabled; and a fault that is neither the
\* drive's nor the adapter's needs a restart. The last two make the disabling
\* step of a reset enough: it is made for exactly the faults in which the drive
\* may be enabled.
Agree(g, d) ==
  /\ d.sw = Refresh(d.fmu)
  /\ g.phase \in {"verify_reset"} \cup RecoveryPhases => d.fmu # OE
  /\ g.fault = DriveFault => d.fmu # OE
  /\ g.fault \in {ExecFailed, OutputInvalid} => g.restart_required

CopleyIInv == IsCopley(drive) => Agree(guard, drive)

\* The statusword shows Fault in the state Fault only.
LEMMA RefreshFacts ==
  ASSUME NEW f \in DriveStates
  PROVE  3 \in Refresh(f) <=> f = FLT
BY DEF DriveStates, Refresh, Statusword, SOD, RTSO, SO, OE, FLT

\* What a step of the FMU may do: no controlword but Enable enables it, a zero
\* controlword disables it, and does not end a fault whose cause is there.
LEMMA FmuFacts ==
  ASSUME NEW fmu \in DriveStates, NEW cw \in Word, NEW faulty \in BOOLEAN,
         NEW f \in FmuStep(fmu, cw, faulty)
  PROVE  /\ f \in DriveStates
         /\ cw = {} => f \in {FLT, SOD}
         /\ fmu # OE /\ Mask8F(cw) # Enable => f # OE
         /\ cw = {} /\ faulty => f = FLT
<1>1. FLT \in DriveStates /\ SOD \in DriveStates /\ FLT # OE /\ SOD # OE
  BY DEF DriveStates, SOD, OE, FLT
<1>2. CASE faulty \/ fmu = FLT
  <2>1. f \in {FLT, SOD}
    BY <1>2 DEF FmuStep
  <2>2. cw = {} => f = FLT
    BY <1>2 DEF FmuStep
  <2> QED BY <1>1, <2>1, <2>2
<1>3. CASE ~faulty /\ fmu # FLT
  <2>1. f = Process(fmu, cw)
    BY <1>3 DEF FmuStep
  <2>2. Process(fmu, cw) \in {fmu, SOD, RTSO, SO, OE}
    BY DEF Process
  <2>3. Process(fmu, cw) = OE => fmu = OE \/ Mask8F(cw) = Enable
    BY <1>1 DEF Process, SOD, RTSO, SO, OE, FLT
  <2>4. cw = {} => Process(fmu, cw) = SOD
    BY DEF Process, Mask87
  <2> QED BY <1>1, <1>3, <2>1, <2>2, <2>3, <2>4 DEF DriveStates
<1> QED BY <1>2, <1>3

\* The adapter's calls leave a Copley drive, whose object dictionary shows the
\* state of the FMU; only a call that succeeds changes that state.
LEMMA CopleyOutcome ==
  ASSUME NEW d \in CopleyDrives, d.sw = Refresh(d.fmu), NEW p \in Payloads,
         NEW first \in BOOLEAN, NEW o \in CopleyExec(d, p, first)
  PROVE  /\ o.drive \in CopleyDrives /\ o.drive.sw = Refresh(o.drive.fmu)
         /\ o.st # "ok" => o.drive.fmu = d.fmu
         /\ p.cw = {} /\ first /\ o.st = "ok" => o.drive.fmu # OE
         /\ d.fmu # OE /\ Mask8F(p.cw) # Enable => o.drive.fmu # OE
         /\ p.cw = {} /\ first /\ o.st = "ok" /\ (o.drive.cause \/ o.drive.inject) =>
              o.drive.fmu = FLT
<1>1. d.fmu \in DriveStates /\ DOMAIN d = {"fmu", "cause", "inject", "paired", "sw"}
      /\ FLT # OE /\ SOD # OE /\ p.cw \in Word
  BY ControlwordsAssumption DEF CopleyDrives, SOD, FLT, OE, Payloads
<1>2. CASE ~AppliesOutputs(p)
  <2>1. o = [st |-> "rejected", drive |-> d]
    BY <1>2 DEF CopleyExec
  <2> QED BY <1>1, <2>1
<1>3. CASE AppliesOutputs(p)
  <2>1. PICK c \in BOOLEAN, i \in BOOLEAN :
          o \in CopleyStep([d EXCEPT !.cause = c, !.inject = i], p.cw, first)
    <3>1. PICK x \in BOOLEAN \X BOOLEAN :
            o \in CopleyStep([d EXCEPT !.cause = x[1], !.inject = x[2]], p.cw, first)
      BY <1>3, Zenon DEF CopleyExec
    <3>2. x[1] \in BOOLEAN /\ x[2] \in BOOLEAN
      OBVIOUS
    <3> QED BY <3>1, <3>2, Zenon
  <2> DEFINE e == [d EXCEPT !.cause = c, !.inject = i]
             faulty == e.cause \/ e.inject
             after == FmuStep(e.fmu, p.cw, faulty) \cup (IF first THEN {} ELSE {e.fmu})
  <2>2. /\ e \in CopleyDrives /\ e.fmu = d.fmu /\ e.sw = d.sw
        /\ e.cause = c /\ e.inject = i
    BY <1>1 DEF CopleyDrives
  <2> HIDE DEF e, faulty, after
  <2>3. CASE o.drive = e /\ o.st # "ok"
    BY <1>1, <2>2, <2>3
  <2>4. ASSUME NEW f \in after,
               o = [st |-> "ok", drive |-> [e EXCEPT !.fmu = f, !.sw = Refresh(f)]]
        PROVE  /\ o.drive \in CopleyDrives /\ o.drive.sw = Refresh(o.drive.fmu)
               /\ o.st = "ok"
               /\ p.cw = {} /\ first => o.drive.fmu # OE
               /\ d.fmu # OE /\ Mask8F(p.cw) # Enable => o.drive.fmu # OE
               /\ p.cw = {} /\ first /\ (o.drive.cause \/ o.drive.inject) => o.drive.fmu = FLT
    <3>1. /\ faulty \in BOOLEAN /\ (faulty <=> e.cause \/ e.inject)
          /\ e.fmu \in DriveStates
      BY <1>1, <2>2 DEF faulty
    <3>2. /\ f \in DriveStates
          /\ p.cw = {} /\ first => f \in {FLT, SOD}
          /\ e.fmu # OE /\ Mask8F(p.cw) # Enable => f # OE
          /\ p.cw = {} /\ first /\ faulty => f = FLT
      <4>1. CASE f \in FmuStep(e.fmu, p.cw, faulty)
        BY <1>1, <3>1, <4>1, FmuFacts
      <4>2. CASE ~first /\ f = e.fmu
        BY <3>1, <4>2
      <4> QED BY <4>1, <4>2 DEF after
    <3>3. /\ o.drive \in CopleyDrives /\ o.drive.sw = Refresh(f) /\ o.drive.fmu = f
          /\ o.drive.cause = e.cause /\ o.drive.inject = e.inject /\ o.st = "ok"
      BY <2>2, <2>4, <3>2 DEF CopleyDrives
    <3> QED BY <1>1, <2>2, <3>1, <3>2, <3>3
  <2>5. o \in CopleyStep(e, p.cw, first)
    BY <2>1 DEF e
  <2>6. \/ o = [st |-> "rejected", drive |-> e] \/ o = [st |-> "failed", drive |-> e]
        \/ \E f \in after :
             o = [st |-> "ok", drive |-> [e EXCEPT !.fmu = f, !.sw = Refresh(f)]]
    BY <2>5, Zenon DEF CopleyStep, faulty, after
  <2>7. CASE o = [st |-> "rejected", drive |-> e] \/ o = [st |-> "failed", drive |-> e]
    BY <2>3, <2>7
  <2> QED BY <2>4, <2>6, <2>7, Zenon
<1> QED BY <1>2, <1>3

\* What prepare passes on is a command of a normal axis, or one that does not
\* enable, to a drive that is not enabled or will be disabled first.
LEMMA PrepareDisables ==
  ASSUME NEW g \in Guards, NEW p \in Payloads, Coherent(g), NEW d, Agree(g, d),
         Prepare(g, p).go
  PROVE  LET pr == Prepare(g, p) IN
         /\ \/ pr.guard.phase = "normal" /\ pr.guard.fault = NoFault /\ ~pr.resetting
            \/ Mask8F(pr.payload.cw) # Enable /\ (DisableFirst(pr) \/ d.fmu # OE)
         /\ DisableFirst(pr) => pr.resetting /\ pr.guard.fault = AdapterFault
         /\ pr.guard.phase = "verify_reset" => pr.payload.cw = {} /\ pr.resetting
<1> DEFINE pr == Prepare(g, p)
<1>1. Mask8F({}) # Enable /\ Mask8F(FaultReset) # Enable /\ Shutdown # Enable /\ SwitchOn # Enable
  BY DEF Mask8F, Enable, FaultReset, Shutdown, SwitchOn
<1>2. Disabled(p).cw = {} /\ ResetPulse(p).cw = FaultReset
  BY DEF Payloads, Disabled, ResetPulse
<1>3. DisableFirst(pr) => pr.resetting /\ pr.guard.fault = AdapterFault
  BY DEF DisableFirst
<1>4. g.fault \in {NoFault, DriveFault, AdapterFault, ExecFailed, OutputInvalid}
  BY DEF Guards, FaultCodes
<1>5. CASE g.phase = "normal"
  <2>1. pr.guard.phase = "normal" /\ pr.guard.fault = g.fault /\ ~pr.resetting
    BY <1>5 DEF Prepare, Guards, RecoveryPhases
  <2>2. g.fault = NoFault
    BY <1>5 DEF Coherent
  <2> QED BY <1>3, <2>1, <2>2
<1>6. CASE g.phase = "verify_reset"
  BY <1>1, <1>2, <1>3, <1>6 DEF Prepare, Agree, Guards, RecoveryPhases
<1>7. CASE g.phase = "fault"
  <2>1. g.fault # NoFault
    BY <1>7 DEF Coherent
  <2>2. /\ pr.payload.cw \in {{}, FaultReset} /\ pr.guard.fault = g.fault
        /\ pr.guard.phase = "fault" /\ ~g.restart_required
        /\ pr.resetting \/ g.fault = DriveFault
    BY <1>2, <1>7 DEF Prepare, Resettable, Guards, RecoveryPhases
  <2>3. g.fault \in {DriveFault, AdapterFault}
    BY <1>4, <2>1, <2>2 DEF Agree
  <2> QED BY <1>1, <1>3, <2>2, <2>3 DEF DisableFirst, Agree
<1>8. CASE g.phase \in RecoveryPhases
  <2> DEFINE next == NextRecoveryPhase(g.phase, p)
  <2>1. /\ next # g.phase /\ pr.guard.phase = next /\ pr.payload = p /\ ~pr.resetting
        /\ pr.guard.fault = g.fault
    BY <1>8 DEF Prepare, Guards, RecoveryPhases
  <2>2. next = "normal" \/ (next \in RecoveryPhases /\ Mask8F(p.cw) \in {Shutdown, SwitchOn})
    BY <1>8, <2>1 DEF NextRecoveryPhase, RecoveryPhases
  <2>3. g.fault = NoFault /\ d.fmu # OE
    BY <1>8 DEF Coherent, Agree, RecoveryPhases
  <2> QED BY <1>1, <1>3, <2>1, <2>2, <2>3 DEF RecoveryPhases
<1> QED BY <1>5, <1>6, <1>7, <1>8 DEF Guards, Phases

\* Judging an outcome of a Copley drive keeps guard and drive in agreement,
\* when the drive is not enabled wherever the guard relies on it.
LEMMA JudgeAgrees ==
  ASSUME NEW g \in Guards, NEW o \in Outcomes, NEW r \in BOOLEAN,
         o.drive \in CopleyDrives, o.drive.sw = Refresh(o.drive.fmu),
         g.fault \in {ExecFailed, OutputInvalid} => g.restart_required,
         g.fault = DriveFault => o.drive.fmu # OE,
         o.st = "ok" /\ (r \/ g.phase \in {"verify_reset"} \cup RecoveryPhases) =>
           o.drive.fmu # OE
  PROVE  /\ Agree(Judge(g, o, r), o.drive)
         /\ g.fault # NoFault /\ Judge(g, o, r).fault = NoFault =>
              o.st = "ok" /\ g.phase = "verify_reset" /\ o.drive.fmu # FLT
<1>1. o.drive \in Drives /\ o.st \in Endings
  BY DEF Outcomes
<1>2. Inputs(o.drive) = [st |-> "ok", sw |-> Refresh(o.drive.fmu)]
  BY <1>1, CopleyAssumption DEF IsCopley, CopleyInputs
<1>3. o.drive.fmu \in DriveStates /\ FLT # OE
  BY DEF CopleyDrives, FLT, OE
<1>4. ASSUME NEW h \in Guards, NEW code \in FaultCodes, NEW restart \in BOOLEAN,
             h.fault = g.fault, h.restart_required = g.restart_required,
             code \in {ExecFailed, OutputInvalid} => restart,
             code = DriveFault => o.drive.fmu # OE
      PROVE  /\ Agree(Detect(h, code, restart), o.drive)
             /\ g.fault # NoFault => Detect(h, code, restart).fault # NoFault
  <2>1. /\ Detect(h, code, restart).phase = "fault"
        /\ Detect(h, code, restart).fault = IF g.fault = NoFault THEN code ELSE g.fault
        /\ Detect(h, code, restart).restart_required = (g.restart_required \/ restart)
    BY <1>4 DEF Detect, Guards
  <2> QED BY <1>4, <2>1 DEF Agree, RecoveryPhases
<1>5. {AdapterFault, ExecFailed, DriveFault} \subseteq FaultCodes
      /\ AdapterFault \notin {ExecFailed, OutputInvalid, DriveFault}
      /\ DriveFault \notin {ExecFailed, OutputInvalid} /\ ExecFailed # DriveFault
  BY DEF FaultCodes, AdapterFault, ExecFailed, OutputInvalid, DriveFault
<1>6. CASE o.st = "rejected"
  <2>1. Judge(g, o, r) = Detect(g, AdapterFault, FALSE)
    BY <1>6 DEF Judge
  <2> QED BY <1>4, <1>5, <2>1
<1>7. CASE o.st = "failed"
  <2>1. Judge(g, o, r) = Detect(g, ExecFailed, TRUE)
    BY <1>7 DEF Judge
  <2> QED BY <1>4, <1>5, <2>1
<1>8. CASE o.st = "ok"
  <2> DEFINE sw == Refresh(o.drive.fmu)
             valid == [g EXCEPT !.last = sw, !.feedback_valid = TRUE]
  <2>1. Judge(g, o, r) = Accept(g, sw, r)
    BY <1>2, <1>8 DEF Judge
  <2>2. 3 \in sw <=> o.drive.fmu = FLT
    BY <1>3, RefreshFacts
  <2>3. sw \in Word
    BY <1>1, <1>2, DriveAssumption
  <2> HIDE DEF sw
  <2>4. valid \in Guards /\ valid.fault = g.fault /\ valid.restart_required = g.restart_required
        /\ valid.phase = g.phase
    BY <2>3 DEF Guards
  <2>5. ASSUME NEW h \in Guards
        PROVE  LET w == [h EXCEPT !.warning = 7 \in sw]
               IN  w.phase = h.phase /\ w.fault = h.fault
                   /\ w.restart_required = h.restart_required
    BY DEF Guards
  <2>6. CASE 3 \in sw
    <3>1. Detect(valid, DriveFault, FALSE) \in Guards
      BY <1>5, <2>4, DetectType
    <3>2. Accept(g, sw, r) = [Detect(valid, DriveFault, FALSE) EXCEPT !.warning = 7 \in sw]
      BY <2>6 DEF Accept
    <3>3. /\ Agree(Detect(valid, DriveFault, FALSE), o.drive)
          /\ g.fault # NoFault => Detect(valid, DriveFault, FALSE).fault # NoFault
      BY <1>3, <1>4, <1>5, <2>2, <2>4, <2>6
    <3> HIDE DEF valid
    <3> QED BY <2>1, <2>5, <3>1, <3>2, <3>3 DEF Agree
  <2>7. CASE 3 \notin sw /\ r /\ g.fault # NoFault
    BY <1>8, <2>1, <2>2, <2>7 DEF Accept, ResetVerified, Agree, Guards, RecoveryPhases, NoFault,
       ExecFailed, OutputInvalid, DriveFault
  <2>8. CASE 3 \notin sw /\ ~(r /\ g.fault # NoFault)
    BY <1>8, <2>1, <2>8 DEF Accept, Agree, Guards
  <2> QED BY <2>6, <2>7, <2>8
<1> QED BY <1>1, <1>6, <1>7, <1>8 DEF Endings

\* A cycle of a Copley drive.
LEMMA CopleyCycle ==
  ASSUME GuardInv, IsCopley(drive), Agree(guard, drive),
         NEW p \in Payloads, NEW late \in BOOLEAN, Cycle(p, late)
  PROVE  /\ Agree(guard', drive')
         /\ guard.fault # NoFault /\ guard'.fault = NoFault => ~drive'.cause /\ ~drive'.inject
<1> DEFINE pr == Prepare(guard, p)
           first == pr.resetting \/ ~last_cycle
           prefix == IF DisableFirst(pr) THEN <<{}>> ELSE <<>>
<1>1. guard \in Guards /\ drive \in Drives /\ last_cycle \in BOOLEAN /\ Coherent(guard)
      /\ drive \in CopleyDrives /\ drive.sw = Refresh(drive.fmu)
  BY DEF GuardInv, TypeOK, GuardCoherent, Coherent, IsCopley, Agree
<1>2. pr \in Prepared /\ pr.guard.fault = guard.fault
      /\ pr.guard.restart_required = guard.restart_required
  BY <1>1, PrepareType, PrepareCoherent
<1>3. pr.go =>
        /\ \/ pr.guard.phase = "normal" /\ pr.guard.fault = NoFault /\ ~pr.resetting
           \/ Mask8F(pr.payload.cw) # Enable /\ (DisableFirst(pr) \/ drive.fmu # OE)
        /\ DisableFirst(pr) => pr.resetting /\ pr.guard.fault = AdapterFault
        /\ pr.guard.phase = "verify_reset" => pr.payload.cw = {} /\ pr.resetting
  BY <1>1, PrepareDisables
<1>4. CASE ~pr.go
  <2>1. guard' = pr.guard /\ drive' = drive
    BY <1>4 DEF Cycle, Hold
  <2>2. pr.guard.phase = guard.phase
    <3>1. CASE guard.phase \in {"normal", "verify_reset", "fault"}
      BY <1>1, <1>4, <3>1 DEF Prepare, Guards, RecoveryPhases
    <3>2. CASE guard.phase \in RecoveryPhases
      BY <1>1, <1>4, <3>2 DEF Prepare, Guards, RecoveryPhases
    <3> QED BY <1>1, <3>1, <3>2 DEF Guards, Phases
  <2> QED BY <1>2, <2>1, <2>2 DEF Agree
<1>5. CASE pr.go
  <2>1. PICK a \in IF DisableFirst(pr) THEN Exec(drive, Disabled(pr.payload), TRUE)
                   ELSE {Unchanged(drive)} :
          \/ a.st # "ok" /\ Finish(pr.guard, a, pr.resetting, FALSE, prefix)
          \/ /\ a.st = "ok" /\ ~first /\ late
             /\ Finish(pr.guard, [a EXCEPT !.st = "failed"], FALSE, FALSE, prefix)
          \/ /\ a.st = "ok"
             /\ \E b \in Exec(a.drive, pr.payload, first) :
                  Finish(pr.guard, b, pr.resetting, TRUE, Append(prefix, pr.payload.cw))
    BY <1>5 DEF Cycle, pr
  <2> HIDE DEF pr
  <2>2. pr.guard \in Guards /\ pr.payload \in Payloads /\ Disabled(pr.payload) \in Payloads
        /\ pr.resetting \in BOOLEAN /\ first \in BOOLEAN /\ pr.payload.cw \in Word
        /\ Disabled(pr.payload).cw = {} /\ {} \in Word
    BY <1>1, <1>2, MaskedType, ControlwordsAssumption DEF Prepared, Payloads, Disabled, Word
  <2> HIDE DEF first
  <2>3. \A d \in Drives \cap CopleyDrives, q \in Payloads, f \in BOOLEAN :
          Exec(d, q, f) = CopleyExec(d, q, f) /\ Exec(d, q, f) \subseteq Outcomes
    BY CopleyAssumption, DriveAssumption DEF IsCopley
  <2>4. /\ a \in Outcomes /\ a.drive \in Drives \cap CopleyDrives
        /\ a.drive.sw = Refresh(a.drive.fmu)
        /\ ~DisableFirst(pr) => a.drive = drive /\ a.st = "ok"
        /\ DisableFirst(pr) /\ a.st = "ok" => a.drive.fmu # OE
    <3>1. CASE DisableFirst(pr)
      <4>1. a \in CopleyExec(drive, Disabled(pr.payload), TRUE) /\ a \in Outcomes
        BY <1>1, <2>1, <2>2, <2>3, <3>1
      <4>2. /\ a.drive \in CopleyDrives /\ a.drive.sw = Refresh(a.drive.fmu)
            /\ a.st = "ok" => a.drive.fmu # OE
        <5> DEFINE q == Disabled(pr.payload)
        <5> HIDE DEF q
        <5>1. ASSUME NEW f \in BOOLEAN, a \in CopleyExec(drive, q, f)
              PROVE  /\ a.drive \in CopleyDrives /\ a.drive.sw = Refresh(a.drive.fmu)
                     /\ f /\ a.st = "ok" => a.drive.fmu # OE
          <6>1. q \in Payloads /\ q.cw = {}
            BY <2>2 DEF q
          <6> QED BY <1>1, <5>1, <6>1, CopleyOutcome
        <5> QED BY <4>1, <5>1 DEF q
      <4> QED BY <3>1, <4>1, <4>2 DEF Outcomes
    <3>2. CASE ~DisableFirst(pr)
      BY <1>1, <2>1, <3>2 DEF Unchanged, Outcomes, Endings
    <3> QED BY <3>1, <3>2
  <2>5. guard.fault \in {ExecFailed, OutputInvalid} => guard.restart_required
    BY DEF Agree
  <2>6. AdapterFault # DriveFault /\ NoFault # DriveFault
    BY DEF AdapterFault, DriveFault, NoFault
  <2>7. CASE a.st # "ok" /\ Finish(pr.guard, a, pr.resetting, FALSE, prefix)
    <3>1. guard' = Judge(pr.guard, a, pr.resetting) /\ drive' = a.drive
      BY <2>7 DEF Finish
    <3>2. pr.guard.fault # DriveFault
      BY <1>3, <1>5, <2>4, <2>6, <2>7
    <3> QED BY <1>2, <2>2, <2>4, <2>5, <2>7, <3>1, <3>2, JudgeAgrees
  <2>8. CASE a.st = "ok" /\ ~first /\ Finish(pr.guard, [a EXCEPT !.st = "failed"], FALSE, FALSE, prefix)
    <3> DEFINE b == [a EXCEPT !.st = "failed"]
    <3>1. b \in Outcomes /\ b.st = "failed" /\ b.drive = a.drive
      BY <2>4 DEF Outcomes, Endings
    <3>2. guard' = Judge(pr.guard, b, FALSE) /\ drive' = b.drive
      BY <2>8 DEF Finish
    <3> HIDE DEF b
    <3>3. pr.guard.fault = DriveFault => b.drive.fmu # OE
      BY <1>2, <1>3, <1>5, <2>4, <2>8, <3>1 DEF Agree
    <3> QED BY <1>2, <2>2, <2>4, <2>5, <3>1, <3>2, <3>3, JudgeAgrees
  <2>9. ASSUME a.st = "ok", NEW b \in Exec(a.drive, pr.payload, first),
               Finish(pr.guard, b, pr.resetting, TRUE, Append(prefix, pr.payload.cw))
        PROVE  /\ Agree(guard', drive')
               /\ guard.fault # NoFault /\ guard'.fault = NoFault =>
                    ~drive'.cause /\ ~drive'.inject
    <3>1. b \in CopleyExec(a.drive, pr.payload, first) /\ b \in Outcomes
      BY <2>2, <2>3, <2>4, <2>9
    <3>2. /\ b.drive \in CopleyDrives /\ b.drive.sw = Refresh(b.drive.fmu)
          /\ a.drive.fmu # OE /\ Mask8F(pr.payload.cw) # Enable => b.drive.fmu # OE
          /\ pr.payload.cw = {} /\ first /\ b.st = "ok" /\ (b.drive.cause \/ b.drive.inject) =>
               b.drive.fmu = FLT
      BY <2>2, <2>4, <3>1, CopleyOutcome
    <3>3. guard' = Judge(pr.guard, b, pr.resetting) /\ drive' = b.drive
      BY <2>9 DEF Finish
    <3>4. \/ pr.guard.phase = "normal" /\ pr.guard.fault = NoFault /\ ~pr.resetting
          \/ b.drive.fmu # OE
      BY <1>3, <1>5, <2>4, <2>9, <3>2
    <3>5. /\ Agree(guard', drive')
          /\ pr.guard.fault # NoFault /\ guard'.fault = NoFault =>
               b.st = "ok" /\ pr.guard.phase = "verify_reset" /\ b.drive.fmu # FLT
      BY <1>2, <2>2, <2>5, <2>6, <3>1, <3>2, <3>3, <3>4, JudgeAgrees DEF RecoveryPhases
    <3>6. pr.resetting => first
      BY DEF first
    <3> QED BY <1>2, <1>3, <1>5, <3>2, <3>3, <3>5, <3>6
  <2> QED BY <2>1, <2>7, <2>8, <2>9
<1> QED BY <1>4, <1>5

\* Every request to an axis with a Copley drive.
LEMMA CopleyNext ==
  ASSUME GuardInv, IsCopley(drive), Agree(guard, drive), Next
  PROVE  /\ Agree(guard', drive')
         /\ guard.fault # NoFault /\ guard'.fault = NoFault => ~drive'.cause /\ ~drive'.inject
<1>1. guard \in Guards /\ drive \in Drives /\ drive \in CopleyDrives
      /\ drive.sw = Refresh(drive.fmu)
      /\ (guard.fault \in {ExecFailed, OutputInvalid} => guard.restart_required)
      /\ (guard.fault = DriveFault => drive.fmu # OE)
  BY DEF GuardInv, TypeOK, IsCopley, Agree
<1>2. CASE guard' = guard /\ drive' = drive
  BY <1>2
<1>3. ASSUME NEW d \in CopleyDrives, d.sw = Refresh(d.fmu), d.fmu = drive.fmu, SdoFailure(d)
      PROVE  Agree(guard', drive') /\ (guard.fault # NoFault => guard'.fault # NoFault)
  <2>1. /\ guard'.phase = "fault" /\ guard'.restart_required /\ drive' = d
        /\ guard'.fault = IF guard.fault = NoFault THEN ExecFailed ELSE guard.fault
    BY <1>1, <1>3 DEF SdoFailure, Detect, Guards
  <2> QED BY <1>1, <1>3, <2>1 DEF Agree, RecoveryPhases, ExecFailed, DriveFault
<1>4. ASSUME NEW p \in Payloads, NEW late \in BOOLEAN, Cycle(p, late)
      PROVE  /\ Agree(guard', drive')
             /\ guard.fault # NoFault /\ guard'.fault = NoFault =>
                  ~drive'.cause /\ ~drive'.inject
  BY <1>4, CopleyCycle
<1>5. CASE CycleBadLength
  <2> DEFINE o == [st |-> "rejected", drive |-> drive]
  <2>1. o \in Outcomes /\ o.st = "rejected" /\ o.drive = drive
    BY <1>1 DEF Outcomes, Endings
  <2>2. guard' = Judge(guard, o, FALSE) /\ drive' = o.drive
    BY <1>5 DEF CycleBadLength, Finish
  <2> HIDE DEF o
  <2> QED BY <1>1, <2>1, <2>2, JudgeAgrees
<1>6. CASE Idle
  <2>1. CASE guard.phase # "normal" /\ Hold(guard)
    BY <1>2, <2>1 DEF Hold
  <2>2. CASE guard.phase = "normal" /\ Finish(guard, Unchanged(drive), FALSE, FALSE, <<>>)
    <3> DEFINE o == Unchanged(drive)
    <3>1. o \in Outcomes /\ o.st = "ok" /\ o.drive = drive
      BY <1>1 DEF Unchanged, Outcomes, Endings
    <3>2. guard' = Judge(guard, o, FALSE) /\ drive' = o.drive
      BY <2>2 DEF Finish
    <3> HIDE DEF o
    <3> QED BY <1>1, <2>2, <3>1, <3>2, JudgeAgrees DEF RecoveryPhases
  <2> QED BY <1>6, <2>1, <2>2 DEF Idle
<1>7. CASE SdoReadRequest
  BY <1>1, <1>2, <1>3, <1>7 DEF SdoReadRequest, Answer
<1>8. CASE SdoWriteRequest
  <2>1. PICK o \in SdoWrite(drive) :
          \/ drive' = o.drive /\ guard' = guard
          \/ Answer(Abort)
          \/ o.st = "failed" /\ SdoFailure(o.drive)
    BY <1>8 DEF SdoWriteRequest
  <2>2. o.st # "failed" /\ o.drive.fmu = drive.fmu /\ o.drive.sw = drive.sw
    <3>1. o \in CopleyWrite(drive)
      BY <1>1, CopleyAssumption DEF IsCopley
    <3> QED BY <1>1, <3>1 DEF CopleyWrite, CopleyDrives
  <2> QED BY <1>2, <2>1, <2>2 DEF Agree, Answer
<1>9. CASE ReadStatusword \/ SdoAfterRestartRequired \/ SdoSave
  BY <1>2, <1>9 DEF ReadStatusword, SdoAfterRestartRequired, SdoSave, Answer
<1> QED BY <1>4, <1>5, <1>6, <1>7, <1>8, <1>9 DEF Next

\* An axis never gets the adapter of another kind of drive.
LEMMA AdapterKept ==
  ASSUME GuardInv, Next, IsCopley(drive')
  PROVE  IsCopley(drive)
<1> SUFFICES ASSUME ~IsCopley(drive) PROVE FALSE
  OBVIOUS
<1>1. guard \in Guards /\ drive \in Drives /\ last_cycle \in BOOLEAN
  BY DEF GuardInv, TypeOK
<1>2. /\ \A o \in SdoWrite(drive) : ~IsCopley(o.drive)
      /\ \A d \in Drives, q \in Payloads, f \in BOOLEAN :
           ~IsCopley(d) => \A o \in Exec(d, q, f) : ~IsCopley(o.drive) /\ o.drive \in Drives
  BY <1>1, CopleyAssumption, DriveAssumption DEF Outcomes
<1>3. ASSUME NEW p \in Payloads, NEW late \in BOOLEAN, Cycle(p, late) PROVE FALSE
  <2> DEFINE pr == Prepare(guard, p)
             first == pr.resetting \/ ~last_cycle
  <2>1. pr \in Prepared
    BY <1>1, PrepareType
  <2>2. pr.payload \in Payloads /\ Disabled(pr.payload) \in Payloads /\ first \in BOOLEAN
    BY <1>1, <2>1, MaskedType DEF Prepared
  <2>3. \/ drive' = drive
        \/ \E a \in IF DisableFirst(pr) THEN Exec(drive, Disabled(pr.payload), TRUE)
                    ELSE {Unchanged(drive)} :
             drive' = a.drive \/ \E b \in Exec(a.drive, pr.payload, first) : drive' = b.drive
    <3>1. \A a \in IF DisableFirst(pr) THEN Exec(drive, Disabled(pr.payload), TRUE)
                   ELSE {Unchanged(drive)} : [a EXCEPT !.st = "failed"].drive = a.drive
      <4>1. \A a \in IF DisableFirst(pr) THEN Exec(drive, Disabled(pr.payload), TRUE)
                     ELSE {Unchanged(drive)} : a \in Outcomes
        <5>1. Unchanged(drive) \in Outcomes
          BY <1>1 DEF Unchanged, Outcomes, Endings
        <5>2. Exec(drive, Disabled(pr.payload), TRUE) \subseteq Outcomes
          BY <1>1, <2>2, DriveAssumption
        <5> QED BY <5>1, <5>2
      <4> QED BY <4>1 DEF Outcomes
    <3> QED BY <1>3, <3>1 DEF Cycle, Hold, Finish
  <2> HIDE DEF pr
  <2>4. \A a \in IF DisableFirst(pr) THEN Exec(drive, Disabled(pr.payload), TRUE)
                 ELSE {Unchanged(drive)} : ~IsCopley(a.drive) /\ a.drive \in Drives
    <3>1. Unchanged(drive).drive = drive
      BY DEF Unchanged
    <3>2. \A o \in Exec(drive, Disabled(pr.payload), TRUE) : ~IsCopley(o.drive) /\ o.drive \in Drives
      BY <1>1, <1>2, <2>2
    <3> QED BY <1>1, <3>1, <3>2
  <2> QED BY <1>2, <2>2, <2>3, <2>4
<1>4. ~CycleBadLength /\ ~Idle
  BY DEF CycleBadLength, Idle, Hold, Finish, Unchanged
<1>5. ~SdoReadRequest /\ ~SdoWriteRequest
  BY <1>2 DEF SdoReadRequest, SdoWriteRequest, Answer, SdoFailure
<1> QED
  BY <1>3, <1>4, <1>5 DEF Next, ReadStatusword, SdoAfterRestartRequired, SdoSave, Answer

\* The guard and a Copley drive agree in every reachable state.
THEOREM CopleyInvariant == Spec => []CopleyIInv
<1>1. Init => CopleyIInv
  <2> SUFFICES ASSUME Init, IsCopley(drive) PROVE Agree(guard, drive)
    BY DEF CopleyIInv
  <2>1. drive \in CopleyInit
    BY CopleyAssumption, DriveAssumption DEF Init
  <2> QED
    BY <2>1 DEF Init, CopleyInit, NewGuard, Agree, RecoveryPhases, NoFault, DriveFault, ExecFailed,
                OutputInvalid
<1>2. TypeOK /\ GuardCoherent /\ CopleyIInv /\ [Next]_vars => CopleyIInv'
  <2> SUFFICES ASSUME TypeOK, GuardCoherent, CopleyIInv, [Next]_vars, IsCopley(drive')
               PROVE  Agree(guard', drive')
    BY DEF CopleyIInv, Agree, IsCopley
  <2>1. CASE Next
    BY <2>1, AdapterKept, CopleyNext DEF GuardInv, CopleyIInv
  <2>2. CASE UNCHANGED vars
    BY <2>2 DEF CopleyIInv, vars
  <2> QED BY <2>1, <2>2
<1> QED
  BY <1>1, <1>2, TypeCorrect, Coherence, PTL DEF Spec

\* While a reset is verified and the master works through Shutdown and Switch
\* On, a Copley drive is not enabled, whatever it did when the fault came: the
\* runtime disables it before the pulse (dispatch in runtime/axis.py).
THEOREM RecoveringIsDisabled == Spec => []RecoveringDriveIsDisabled
<1>1. CopleyIInv => RecoveringDriveIsDisabled
  BY DEF CopleyIInv, Agree, RecoveringDriveIsDisabled
<1> QED
  BY <1>1, CopleyInvariant, PTL

\* The fault of a Copley axis is resolved only when its cause is gone, although
\* the FMU may drop Fault during the pulse (verify_reset in prepare and accept).
THEOREM ResolvedIsGone == Spec => ResolvedMeansCauseGone
<1>1. TypeOK /\ GuardCoherent /\ CopleyIInv /\ [Next]_vars =>
        [IsCopley(drive) /\ guard.fault # NoFault /\ guard'.fault = NoFault =>
           ~drive'.cause /\ ~drive'.inject]_vars
  BY CopleyNext DEF GuardInv, CopleyIInv
<1> QED
  BY <1>1, TypeCorrect, Coherence, CopleyInvariant, PTL DEF Spec, ResolvedMeansCauseGone
=============================================================================
