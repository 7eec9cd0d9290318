----------------------------- MODULE ModelLink ------------------------------
(***************************************************************************)
(* The EtherCAT slave process and its link to the model host.              *)
(*                                                                         *)
(* Three actors interleave:                                                *)
(*   - the EtherCAT thread (ethercat_slave/main.cc), which pumps futures   *)
(*     into the process image, routes frames, runs the mailboxes           *)
(*     (ipc/sdo_gateway.cc) and submits one cycle or idle per axis;        *)
(*   - the worker thread (ipc/async_model_client.h), the only owner of the *)
(*     socket, which sends one request and waits for its one reply under a *)
(*     deadline (ipc/model_client.h), and gives up for good on a failure;  *)
(*   - the model host (functional_model/ipc/server.py), which serves one   *)
(*     request at a time, may be slow, and may die.                        *)
(*                                                                         *)
(* A request is [from, op, arg]. What the axis runtime computes            *)
(* (AxisRuntime) is abstracted to a reply that names its request, so that  *)
(* a reply given to the wrong request is visible.                          *)
(***************************************************************************)
EXTENDS Integers, Sequences, FiniteSets

CONSTANTS
  Buses,      \* the buses a slave process may be started for:
              \*   n axes, the mailboxes the master uses, and the queue bound
              \*   (jobs_.size() >= 64 in the code)
  Outputs,    \* RxPDO images
  OdValues    \* values of the object accessed by SDO

ASSUME LinkAssumption ==
  /\ \A b \in Buses : /\ b.n \in Nat \ {0} /\ b.queue \in Nat \ {0}
                      /\ b.mailboxes \subseteq 1 .. b.n
  /\ Outputs # {} /\ OdValues # {}

VARIABLE bus   \* the bus it was started for

Axes == 1 .. bus.n

\* Holders of a future: pending[i] of an axis, pending_ of its SDO message.
Clients == {"pdo", "sdo"} \X Axes

\* The SDO requests a master may make: 0x6041, or another object.
SdoRequests == [op : {"status", "read"}, arg : {0}] \cup [op : {"write"}, arg : OdValues]

NoMessage == [op |-> "none"]
NoJob     == [op |-> "none"]
NoFuture  == [st |-> "none"]

VARIABLES
  jobs,         \* jobs_
  worker,       \* [pc, job] of the worker thread
  failure,      \* failure_ is not empty
  future,       \* future[c]: NoFuture, pending, value or exception
  host,         \* [alive, od]: the process and the object of each axis
  inbox,        \* requests in the socket
  outbox,       \* replies in the socket
  main,         \* [at, pass, i]: where the EtherCAT thread is
  host_failed,  \* host_failed
  input,        \* sim.input of each axis
  od,           \* the local copy of the SDO object of each axis
  sdo,          \* the SDO message each mailbox processes; late says that it
                \* arrived after host_failed was set
  answer,       \* how an SDO message was answered by the last step, if one was
  mixed         \* frames routed after host_failed with an axis not in Fault

linkVars == <<jobs, worker, failure, inbox, outbox>>
mainVars == <<bus, main, host_failed, input, od, sdo, answer, mixed>>
vars == <<linkVars, mainVars, future, host>>

Pending(j) == [st |-> "pending", asked |-> j]
Ready(j, r) == [st |-> "value", asked |-> j, got |-> r]
Broken(j) == [st |-> "exception", asked |-> j]
IsReady(f) == f.st \in {"value", "exception"}

Init == /\ bus \in Buses
        /\ jobs = <<>>
        /\ worker = [pc |-> "wait", job |-> NoJob]
        /\ failure = FALSE
        /\ future = [c \in Clients |-> NoFuture]
        /\ \E v \in OdValues :
             /\ host = [alive |-> TRUE, od |-> [i \in Axes |-> v]]
             /\ od = [i \in Axes |-> v]
        /\ inbox = <<>> /\ outbox = <<>>
        /\ main = [at |-> "check", pass |-> 1, i |-> 1]
        /\ host_failed = FALSE
        /\ input = [i \in Axes |-> [fault |-> FALSE, of |-> NoJob]]
        /\ sdo = [i \in Axes |-> NoMessage]
        /\ answer = "none"
        /\ mixed = 0

-----------------------------------------------------------------------------
(* The worker thread. *)

\* It takes the oldest job and sends it.
Take == /\ worker.pc = "wait" /\ jobs # <<>>
        /\ worker' = [pc |-> "recv", job |-> Head(jobs)]
        /\ jobs' = Tail(jobs)
        /\ inbox' = Append(inbox, Head(jobs))
        /\ UNCHANGED <<failure, outbox, mainVars, future, host>>

\* A complete reply arrived before the deadline.
Receive == /\ worker.pc = "recv" /\ outbox # <<>>
           /\ future' = [future EXCEPT ![worker.job.from] = Ready(worker.job, Head(outbox))]
           /\ outbox' = Tail(outbox)
           /\ worker' = [pc |-> "wait", job |-> NoJob]
           /\ UNCHANGED <<jobs, failure, inbox, mainVars, host>>

\* Mutant of Fail: the worker goes on with the next job on the same socket.
FailGoesOn ==
  /\ worker.pc = "recv"
  /\ future' = [future EXCEPT ![worker.job.from] = Broken(worker.job)]
  /\ worker' = [pc |-> "wait", job |-> NoJob]
  /\ UNCHANGED <<jobs, failure, inbox, outbox, mainVars, host>>

\* The deadline passed or the connection broke: the exception reaches the
\* promise first, then leaves the loop and closes the socket.
Fail == /\ worker.pc = "recv"
        /\ future' = [future EXCEPT ![worker.job.from] = Broken(worker.job)]
        /\ worker' = [pc |-> "failing", job |-> NoJob]
        /\ UNCHANGED <<jobs, failure, inbox, outbox, mainVars, host>>

\* Mutant of Publish: the waiting jobs are dropped without an exception.
PublishDropsJobs ==
  /\ worker.pc = "failing"
  /\ failure' = TRUE
  /\ jobs' = <<>>
  /\ worker' = [pc |-> "dead", job |-> NoJob]
  /\ UNCHANGED <<future, inbox, outbox, mainVars, host>>

\* Only then is the failure published and every waiting job refused.
Publish == /\ worker.pc = "failing"
           /\ failure' = TRUE
           /\ future' = [c \in Clients |->
                           IF \E k \in DOMAIN jobs : jobs[k].from = c
                           THEN Broken(future[c].asked) ELSE future[c]]
           /\ jobs' = <<>>
           /\ worker' = [pc |-> "dead", job |-> NoJob]
           /\ UNCHANGED <<inbox, outbox, mainVars, host>>

Closed == worker.pc \in {"failing", "dead"}

-----------------------------------------------------------------------------
(* The model host. *)

\* What dispatch_request makes of request j: the new object values and the
\* reply. A write may be refused, which is answered with an abort code.
Dispatch(h, j) ==
  LET i == j.from[2]
      answered(v) == [h |-> h, reply |-> [of |-> j, st |-> "ok", val |-> v]]
  IN  CASE j.op \in {"cycle", "idle", "status"} -> {answered(j.arg)}
        [] j.op = "read" -> {answered(h.od[i])}
        [] j.op = "write" ->
             {[answered(j.arg) EXCEPT !.h.od[i] = j.arg],
              [h |-> h, reply |-> [of |-> j, st |-> "error", val |-> j.arg]]}

\* One request is served. Its effect stays even when the client has closed the
\* socket, in which case writing the reply ends the host.
Serve == /\ host.alive /\ inbox # <<>>
         /\ inbox' = Tail(inbox)
         /\ \E d \in Dispatch(host, Head(inbox)) :
              /\ host' = [d.h EXCEPT !.alive = ~Closed]
              /\ outbox' = IF Closed THEN outbox ELSE Append(outbox, d.reply)
         /\ UNCHANGED <<jobs, worker, failure, mainVars, future>>

\* The host process dies, or reads the end of the stream and leaves.
HostExit == /\ host.alive
            /\ host' = [host EXCEPT !.alive = FALSE]
            /\ UNCHANGED <<linkVars, mainVars, future>>

-----------------------------------------------------------------------------
(* The EtherCAT thread. *)

\* AsyncModelClient.submit of job j: the queue afterwards and the future.
Submit(q, j) ==
  IF failure \/ Len(q) >= bus.queue
  THEN [jobs |-> q, future |-> Broken(j)]
  ELSE [jobs |-> Append(q, j), future |-> Pending(j)]

\* pump() first asks the client for a published failure.
PumpCheck == /\ main.at = "check"
             /\ host_failed' = (host_failed \/ failure)
             /\ main' = [main EXCEPT !.at = "axis", !.i = 1]
             /\ answer' = "none"
             /\ UNCHANGED <<linkVars, input, od, sdo, mixed, future, host, bus>>

\* The loop of an iteration: pump, read the socket, pump, then the frame.
AfterPump == IF main.i < bus.n THEN [main EXCEPT !.i = main.i + 1]
             ELSE IF main.pass = 1 THEN [at |-> "check", pass |-> 2, i |-> 1]
             ELSE [at |-> "route", pass |-> 1, i |-> 1]

\* Mutant of Faulted: the projected statusword is not copied back.
FaultedNot(x) == x

\* Statusword projection: Fault set, the enabled bits cleared.
Faulted(x) == [x EXCEPT !.fault = TRUE]

\* Mutant of Fresh: a reply is copied although the host has failed.
FreshAlways(f, x) == IF f.st = "value" THEN [fault |-> FALSE, of |-> f.got.of] ELSE x

\* The input of an axis after its reply, if there is one, was copied.
Fresh(f, x) == IF f.st = "value" /\ ~host_failed
               THEN [fault |-> FALSE, of |-> f.got.of] ELSE x

\* pump() then visits the axes in order. A reply is copied to the process
\* image unless the host has failed; an exception fails the host. So would a
\* reply without data of the TxPDO's size (at, decode), which this host never
\* sends: Model.dispatch answers every cycle and idle with a whole TxPDO.
PumpAxis ==
  LET c == <<"pdo", main.i>>
      f == future[c]
      fails == host_failed \/ f.st = "exception"
      fresh == Fresh(f, input[main.i])
  IN  /\ main.at = "axis"
      /\ host_failed' = fails
      /\ input' = [input EXCEPT ![main.i] = IF fails THEN Faulted(fresh) ELSE fresh]
      /\ future' = IF IsReady(f) THEN [future EXCEPT ![c] = NoFuture] ELSE future
      /\ main' = AfterPump
      /\ answer' = "none"
      /\ UNCHANGED <<linkVars, od, sdo, mixed, host, bus>>

\* No frame within 10 ms, or one that is not for these slaves.
NoFrame == /\ main.at = "route"
           /\ main' = [main EXCEPT !.at = "check"]
           /\ answer' = "none"
           /\ UNCHANGED <<linkVars, host_failed, input, od, sdo, mixed, future, host, bus>>

\* A frame is routed and written back: the master reads the inputs.
Route == /\ main.at = "route"
         /\ mixed' = IF host_failed /\ mixed < 2 /\ \E i \in Axes : ~input[i].fault
                     THEN mixed + 1 ELSE mixed
         /\ main' = [main EXCEPT !.at = "mailbox"]
         /\ answer' = "none"
         /\ UNCHANGED <<linkVars, host_failed, input, od, sdo, future, host, bus>>

\* The frame carries an SDO request for an axis with a free mailbox.
SdoArrives(i, r) == /\ main.at = "route" /\ sdo[i] = NoMessage
                    /\ sdo' = [sdo EXCEPT ![i] = [op |-> r.op, arg |-> r.arg,
                                                  late |-> host_failed]]
                    /\ UNCHANGED <<linkVars, main, host_failed, input, od, answer,
                                   mixed, future, host, bus>>

\* The submit hook of the gateway: after a host failure 0x6041 is answered
\* from the process image.
SubmitSdo(i) ==
  LET j == [from |-> <<"sdo", i>>, op |-> sdo[i].op, arg |-> sdo[i].arg]
  IN  IF sdo[i].op = "status" /\ host_failed
      THEN [jobs |-> jobs, future |-> Ready(j, [of |-> j, st |-> "ok", val |-> 0])]
      ELSE Submit(jobs, j)

\* The future of a mailbox's message, submitted by the first call of process().
SdoFuture(i) == IF future[<<"sdo", i>>] = NoFuture THEN SubmitSdo(i)
                ELSE [jobs |-> jobs, future |-> future[<<"sdo", i>>]]

\* Mutant of Accepted: the error member of the reply is not looked at.
AcceptedAnyReply(f) == f.st = "value"

\* The model has accepted the access.
Accepted(f) == f.st = "value" /\ f.got.st = "ok"

\* GatewayMessage.process of axis main.i, called by slave->routine(): nothing
\* to do, not yet answered, or answered. The local object is written only once
\* the model has accepted the access.
ProcessMailbox ==
  LET i == main.i
      s == SdoFuture(i)
      accepted == Accepted(s.future)
  IN  /\ main.at = "mailbox"
      /\ main' = [main EXCEPT !.at = "submit"]
      /\ \/ /\ sdo[i] = NoMessage
            /\ answer' = "none"
            /\ UNCHANGED <<jobs, future, od, sdo>>
         \/ /\ sdo[i] # NoMessage /\ s.future.st = "pending"
            /\ answer' = "none"
            /\ jobs' = s.jobs
            /\ future' = [future EXCEPT ![<<"sdo", i>>] = s.future]
            /\ UNCHANGED <<od, sdo>>
         \/ /\ sdo[i] # NoMessage /\ IsReady(s.future)
            /\ answer' = IF accepted THEN "ok" ELSE "abort"
            /\ od' = IF accepted /\ sdo[i].op # "status"
                     THEN [od EXCEPT ![i] = s.future.got.val] ELSE od
            /\ sdo' = [sdo EXCEPT ![i] = NoMessage]
            /\ future' = [future EXCEPT ![<<"sdo", i>>] = NoFuture]
            /\ UNCHANGED jobs
      /\ UNCHANGED <<worker, failure, inbox, outbox, host_failed, input, mixed, host, bus>>

AfterSubmit == IF main.i < bus.n THEN [main EXCEPT !.at = "mailbox", !.i = main.i + 1]
               ELSE [at |-> "check", pass |-> 1, i |-> 1]

MaySubmit(i) == ~host_failed /\ future[<<"pdo", i>>] = NoFuture

\* After the routine a cycle is submitted for an operational axis whose
\* outputs the frame wrote, an idle for an axis that is not operational, and
\* nothing while a request is outstanding or the host has failed.
SubmitPdo ==
  LET i == main.i
      c == <<"pdo", i>>
  IN  /\ main.at = "submit"
      /\ main' = AfterSubmit
      /\ answer' = "none"
      /\ \/ UNCHANGED <<jobs, future>>
         \/ /\ MaySubmit(i)
            /\ \E op \in {"cycle", "idle"}, x \in Outputs :
                 LET s == Submit(jobs, [from |-> c, op |-> op, arg |-> x])
                 IN  jobs' = s.jobs /\ future' = [future EXCEPT ![c] = s.future]
      /\ UNCHANGED <<worker, failure, inbox, outbox, host_failed, input, od, sdo, mixed, host, bus>>

Worker == Take \/ Receive \/ Fail \/ Publish
Slave  == PumpCheck \/ PumpAxis \/ NoFrame \/ Route \/ ProcessMailbox \/ SubmitPdo

Next == \/ Worker \/ Slave
        \/ Serve \/ HostExit
        \/ \E i \in bus.mailboxes, r \in SdoRequests : SdoArrives(i, r)

\* Both threads keep running; the host and the master promise nothing.
Spec == Init /\ [][Next]_vars /\ WF_vars(Worker) /\ WF_vars(Slave)

-----------------------------------------------------------------------------
(* Properties. *)

Jobs == [from : {"pdo"} \X Axes, op : {"cycle", "idle"}, arg : Outputs]
        \cup [from : {"sdo"} \X Axes, op : {"status", "read"}, arg : {0}]
        \cup [from : {"sdo"} \X Axes, op : {"write"}, arg : OdValues]
HostReplies == [of : Jobs, st : {"ok", "error"}, val : Outputs \cup OdValues \cup {0}]
Futures == {NoFuture} \cup [st : {"pending", "exception"}, asked : Jobs]
           \cup [st : {"value"}, asked : Jobs, got : HostReplies]
Messages == {NoMessage} \cup {[op |-> r.op, arg |-> r.arg, late |-> b] :
                                r \in SdoRequests, b \in BOOLEAN}

\* Every variable has its type, the queue within its bound.
TypeOK ==
  /\ jobs \in Seq(Jobs) /\ Len(jobs) <= bus.queue
  /\ worker \in [pc : {"wait", "recv", "failing", "dead"}, job : Jobs \cup {NoJob}]
  /\ failure \in BOOLEAN
  /\ future \in [Clients -> Futures]
  /\ host \in [alive : BOOLEAN, od : [Axes -> OdValues]]
  /\ inbox \in Seq(Jobs) /\ outbox \in Seq(HostReplies)
  /\ main \in [at : {"check", "axis", "route", "mailbox", "submit"},
               pass : {1, 2}, i : Axes]
  /\ host_failed \in BOOLEAN
  /\ input \in [Axes -> [fault : BOOLEAN, of : Jobs \cup {NoJob}]]
  /\ od \in [Axes -> OdValues]
  /\ sdo \in [Axes -> Messages]
  /\ answer \in {"none", "ok", "abort"}
  /\ mixed \in 0..2

\* Where the job of client c is: its positions in the queue, and 0 for the
\* worker's hands.
Held(c) == {k \in DOMAIN jobs : jobs[k].from = c}
           \cup {k \in {0} : worker.pc = "recv" /\ worker.job.from = c}

\* A future waits exactly when one job is there to resolve it: none is lost
\* when the worker fails, whatever was submitted between the exception and the
\* publication of the failure, and no axis has two requests outstanding.
FuturesBacked ==
  \A c \in Clients : /\ Cardinality(Held(c)) <= 1
                     /\ future[c].st = "pending" <=> Held(c) # {}

\* The link's bookkeeping: well typed, and every future backed by one job.
LinkInv == TypeOK /\ FuturesBacked

\* A reply is never given to another request than its own: not to a later
\* request after a deadline passed, not to another axis.
RepliesMatch ==
  /\ \A c \in Clients : future[c].st = "value" => future[c].got.of = future[c].asked
  /\ \A i \in Axes : input[i].of # NoJob => input[i].of.from = <<"pdo", i>>

\* A failure found while pump visits an axis leaves the axes before it as they
\* were; at most one frame shows the master such a mixture.
AtMostOneMixedFrame == mixed <= 1

\* After a host failure the process image is frozen: no reply that was still
\* under way is copied into it, no axis leaves the projected Fault, and at most
\* one frame shows the master some axes in Fault and others not.
FrozenAfterFailure ==
  [][/\ AtMostOneMixedFrame'
     /\ host_failed => /\ host_failed'
                       /\ \A i \in Axes : /\ input'[i].of = input[i].of
                                          /\ input[i].fault => input'[i].fault]_vars

\* An SDO access that needs the model and arrives after the host failed is
\* answered with an abort.
SdoAbortsAfterHostFailure ==
  [][\A i \in Axes :
       sdo[i] # NoMessage /\ sdo'[i] = NoMessage /\ sdo[i].late /\ sdo[i].op # "status"
         => answer' = "abort"]_vars

\* While the link is up, an axis with no SDO in progress has the same value in
\* the local dictionary and in the model, for an object that only SDO accesses
\* change: a success was applied by both, an abort by neither.
LocalOdMatches ==
  \A i \in Axes : sdo[i] = NoMessage /\ ~Closed => od[i] = host.od[i]

AnyAxis == UNION {1 .. b.n : b \in Buses}
Waiting(c) == c \in Clients /\ future[c].st = "pending"
Asked(i)   == i \in Axes /\ sdo[i] # NoMessage

\* Every request is resolved, by its reply, its deadline or the failure of the
\* link, even when the host hangs or dies.
FutureResolved ==
  \A c \in {"pdo", "sdo"} \X AnyAxis : Waiting(c) ~> ~Waiting(c)

\* A published failure reaches the process image of every axis, whether or not
\* frames arrive.
HostLossShown == failure ~> \A i \in Axes : input[i].fault

\* As long as frames keep coming, every SDO message is answered: a mailbox is
\* never blocked by a host that hangs or dies.
SdoAnswered ==
  []<>(main.at = "mailbox") =>
    \A i \in AnyAxis : Asked(i) ~> ~Asked(i)

\* Nothing that was asked stays unanswered: neither a request to the model nor
\* an SDO message, even with a full queue and a host that hangs or dies.
RequestsAnswered == FutureResolved /\ SdoAnswered

=============================================================================
