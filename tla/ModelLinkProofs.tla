-------------------------- MODULE ModelLinkProofs ---------------------------
(***************************************************************************)
(* Proofs about the link between the EtherCAT slave and the model host,    *)
(* for every number of axes, every bound of the queue and all values.      *)
(***************************************************************************)
EXTENDS ModelLink, FiniteSetTheorems, FunctionTheorems, TLAPS

(***************************************************************************)
(* The inductive invariant.                                                *)
(***************************************************************************)

\* A job in the queue or in the worker's hands is the one its client waits for,
\* no client has two, and a client that waits has one.
Queue ==
  /\ \A k \in 1..Len(jobs) : future[jobs[k].from] = Pending(jobs[k])
  /\ \A k, l \in 1..Len(jobs) : jobs[k].from = jobs[l].from => k = l
  /\ worker.pc = "recv" =>
       /\ worker.job \in Jobs /\ future[worker.job.from] = Pending(worker.job)
       /\ \A k \in 1..Len(jobs) : jobs[k].from # worker.job.from
  /\ \A c \in Clients : future[c].st = "pending" =>
       \/ \E k \in 1..Len(jobs) : jobs[k].from = c
       \/ worker.pc = "recv" /\ worker.job.from = c

\* A reply to a read or a write carries a value of the object.
ReplyTyped(r) == r.of.op \in {"read", "write"} => r.val \in OdValues

\* While the link is up, the socket holds the request that the worker waits
\* for, or the reply to it, and nothing else.
Wire ==
  /\ worker.pc = "wait" => Len(inbox) = 0 /\ Len(outbox) = 0
  /\ worker.pc = "recv" =>
       \/ Len(inbox) = 1 /\ inbox[1] = worker.job /\ Len(outbox) = 0
       \/ Len(inbox) = 0 /\ Len(outbox) = 1 /\ outbox[1].of = worker.job
  /\ \A k \in 1..Len(outbox) : ReplyTyped(outbox[k])
  /\ worker.pc = "dead" <=> failure
  /\ failure => Len(jobs) = 0

\* A future belongs to its holder and its reply to its request.
Owned ==
  \A c \in Clients :
    /\ future[c].st # "none" => future[c].asked.from = c
    /\ future[c].st = "value" => /\ future[c].got.of = future[c].asked
                                 /\ ReplyTyped(future[c].got)

\* The future of a mailbox is that of the message it processes.
MailboxFuture ==
  \A i \in Axes : future[<<"sdo", i>>].st # "none" =>
    /\ sdo[i] # NoMessage
    /\ future[<<"sdo", i>>].asked.op = sdo[i].op

\* The local value, now v, once reply r has been processed.
AfterReply(v, r) == IF r.st = "ok" /\ r.of.op # "status" THEN r.val ELSE v

\* The model is ahead of the local dictionary by the reply that is under way.
ModelAhead ==
  ~Closed => \A i \in Axes :
    host.od[i] = IF future[<<"sdo", i>>].st = "value"
                   THEN AfterReply(od[i], future[<<"sdo", i>>].got)
                 ELSE IF Len(outbox) = 1 /\ outbox[1].of.from = <<"sdo", i>>
                   THEN AfterReply(od[i], outbox[1])
                 ELSE od[i]

\* The inputs of an axis come from its own requests.
InputOwned == \A i \in Axes : input[i].of # NoJob => input[i].of.from = <<"pdo", i>>

\* After a frame with a mixed image the next pass over the axes sets them all
\* to Fault.
Sweep ==
  /\ main.at \in {"route", "mailbox", "submit"} => main.pass = 1
  /\ mixed <= 1
  /\ mixed = 1 =>
       /\ host_failed
       /\ main.at = "axis" => \A i \in Axes : i < main.i => input[i].fault
       /\ main.at = "route" \/ main.pass = 2 => \A i \in Axes : input[i].fault

LinkIInv ==
  /\ bus \in Buses /\ TypeOK
  /\ Queue /\ Wire /\ Owned /\ MailboxFuture /\ ModelAhead /\ InputOwned /\ Sweep

\* With room in the queue for every client's job an exception, a failed host and
\* a message that came late all mean that the worker has given up.
Room == bus.queue >= bus.n + Cardinality(bus.mailboxes)
GivenUp ==
  /\ \A c \in Clients : future[c].st = "exception" => Closed
  /\ host_failed => Closed
  /\ \A i \in Axes : sdo[i] # NoMessage /\ sdo[i].late =>
       Closed /\ (sdo[i].op # "status" => future[<<"sdo", i>>].st # "value")
  /\ \A i \in Axes : sdo[i] # NoMessage => i \in bus.mailboxes

-----------------------------------------------------------------------------
(***************************************************************************)
(* Lemmas about the data of the model.                                     *)
(***************************************************************************)

\* What the names of the clients and of their jobs say.
LEMMA BusFacts ==
  ASSUME bus \in Buses
  PROVE  /\ bus.n \in Nat \ {0} /\ bus.queue \in Nat \ {0}
         /\ bus.mailboxes \subseteq Axes
         /\ 1 \in Axes
         /\ \A i \in Axes : <<"pdo", i>> \in Clients /\ <<"sdo", i>> \in Clients
         /\ \A i, k \in Axes : <<"pdo", i>> # <<"sdo", k>>
         /\ \A i, k \in Axes : <<"sdo", i>> = <<"sdo", k>> => i = k
BY LinkAssumption DEF Axes, Clients

\* The bus never changes, and with it the sets that are built on it.
LEMMA BusFixed ==
  ASSUME bus' = bus
  PROVE  /\ Axes' = Axes /\ Clients' = Clients /\ Jobs' = Jobs
         /\ HostReplies' = HostReplies /\ Futures' = Futures
BY DEF Axes, Clients, Jobs, HostReplies, Futures

\* A job names the client that waits for it.
LEMMA JobFacts ==
  /\ \A j \in Jobs : j.from \in Clients /\ j # NoJob
  /\ \A j \in Jobs, i \in Axes : j.from = <<"sdo", i>> =>
        /\ j.op \in {"status", "read", "write"}
        /\ j.op = "write" => j.arg \in OdValues
  /\ \A j \in Jobs : j.op \in {"cycle", "idle", "status", "read", "write"}
  /\ \A j \in Jobs : j.op \in {"read", "write", "status"} =>
        \E i \in Axes : j.from = <<"sdo", i>>
  /\ \A j \in Jobs : j.arg \in Outputs \cup OdValues \cup {0}
<1>1. \A j \in [from : {"pdo"} \X Axes, op : {"cycle", "idle"}, arg : Outputs] :
         /\ j.from \in Clients /\ j # NoJob
         /\ \A i \in Axes : j.from # <<"sdo", i>>
         /\ j.op \in {"cycle", "idle"} /\ j.arg \in Outputs
  <2> TAKE j \in [from : {"pdo"} \X Axes, op : {"cycle", "idle"}, arg : Outputs]
  <2>1. j.from \in {"pdo"} \X Axes /\ j.op \in {"cycle", "idle"} /\ j.arg \in Outputs
    OBVIOUS
  <2>2. j # NoJob
    BY <2>1 DEF NoJob
  <2>3. j.from \in Clients /\ \A i \in Axes : j.from # <<"sdo", i>>
    BY <2>1 DEF Clients
  <2> QED BY <2>1, <2>2, <2>3
<1>2. \A j \in [from : {"sdo"} \X Axes, op : {"status", "read"}, arg : {0}] :
         /\ \E i \in Axes : j.from = <<"sdo", i>>
         /\ j.from \in Clients /\ j # NoJob
         /\ j.op \in {"status", "read"} /\ j.arg \in {0}
  <2> TAKE j \in [from : {"sdo"} \X Axes, op : {"status", "read"}, arg : {0}]
  <2>1. j.from \in {"sdo"} \X Axes /\ j.op \in {"status", "read"} /\ j.arg \in {0}
    OBVIOUS
  <2>2. j # NoJob
    BY <2>1 DEF NoJob
  <2>3. j.from \in Clients /\ \E i \in Axes : j.from = <<"sdo", i>>
    BY <2>1 DEF Clients
  <2> QED BY <2>1, <2>2, <2>3
<1>3. \A j \in [from : {"sdo"} \X Axes, op : {"write"}, arg : OdValues] :
         /\ \E i \in Axes : j.from = <<"sdo", i>>
         /\ j.from \in Clients /\ j # NoJob
         /\ j.op \in {"write"} /\ j.arg \in OdValues
  <2> TAKE j \in [from : {"sdo"} \X Axes, op : {"write"}, arg : OdValues]
  <2>1. j.from \in {"sdo"} \X Axes /\ j.op \in {"write"} /\ j.arg \in OdValues
    OBVIOUS
  <2>2. j # NoJob
    BY <2>1 DEF NoJob
  <2>3. j.from \in Clients /\ \E i \in Axes : j.from = <<"sdo", i>>
    BY <2>1 DEF Clients
  <2> QED BY <2>1, <2>2, <2>3
<1>4. \A j \in Jobs :
         /\ j.from \in Clients /\ j # NoJob
         /\ \A i \in Axes : j.from = <<"sdo", i>> =>
              j.op \in {"status", "read", "write"} /\ (j.op = "write" => j.arg \in OdValues)
         /\ j.op \in {"cycle", "idle", "status", "read", "write"}
         /\ j.op \in {"read", "write", "status"} => \E i \in Axes : j.from = <<"sdo", i>>
         /\ j.arg \in Outputs \cup OdValues \cup {0}
  <2> TAKE j \in Jobs
  <2>1. CASE j \in [from : {"pdo"} \X Axes, op : {"cycle", "idle"}, arg : Outputs]
    BY <2>1, <1>1
  <2>2. CASE j \in [from : {"sdo"} \X Axes, op : {"status", "read"}, arg : {0}]
    BY <2>2, <1>2
  <2>3. CASE j \in [from : {"sdo"} \X Axes, op : {"write"}, arg : OdValues]
    BY <2>3, <1>3
  <2> QED BY <2>1, <2>2, <2>3 DEF Jobs
<1> QED BY <1>4

\* The jobs that the EtherCAT thread submits.
LEMMA JobsBuilt ==
  /\ \A i \in Axes, op \in {"cycle", "idle"}, x \in Outputs :
        [from |-> <<"pdo", i>>, op |-> op, arg |-> x] \in Jobs
  /\ \A i \in Axes, m \in Messages \ {NoMessage} :
        [from |-> <<"sdo", i>>, op |-> m.op, arg |-> m.arg] \in Jobs
<1>1. ASSUME NEW i \in Axes, NEW op \in {"cycle", "idle"}, NEW x \in Outputs
      PROVE  [from |-> <<"pdo", i>>, op |-> op, arg |-> x] \in Jobs
  BY DEF Jobs
<1>2. ASSUME NEW i \in Axes, NEW m \in Messages \ {NoMessage}
      PROVE  [from |-> <<"sdo", i>>, op |-> m.op, arg |-> m.arg] \in Jobs
  <2>1. PICK r \in SdoRequests, b \in BOOLEAN : m = [op |-> r.op, arg |-> r.arg, late |-> b]
    BY DEF Messages
  <2>2. m.op = r.op /\ m.arg = r.arg
    BY <2>1
  <2> QED BY <2>2 DEF Jobs, SdoRequests
<1> QED BY <1>1, <1>2

\* A request is not the empty message.
LEMMA MessageFacts ==
  \A r \in SdoRequests, b \in BOOLEAN :
    LET m == [op |-> r.op, arg |-> r.arg, late |-> b]
    IN  m \in Messages /\ m # NoMessage /\ m.op = r.op /\ m.late = b
<1> SUFFICES ASSUME NEW r \in SdoRequests, NEW b \in BOOLEAN,
                    NEW m, m = [op |-> r.op, arg |-> r.arg, late |-> b]
             PROVE  m \in Messages /\ m # NoMessage /\ m.op = r.op /\ m.late = b
  OBVIOUS
<1>1. m.op = r.op /\ m.late = b
  OBVIOUS
<1>2. r.op # "none"
  BY DEF SdoRequests
<1>3. m # NoMessage
  BY <1>1, <1>2 DEF NoMessage
<1> QED BY <1>1, <1>3 DEF Messages

\* A future that is not in use.
LEMMA NoFutureFacts == NoFuture \in Futures /\ NoFuture.st = "none"
BY DEF Futures, NoFuture

\* The states of a future.
LEMMA FutureCases ==
  ASSUME NEW f \in Futures
  PROVE  /\ f.st \in {"none", "pending", "value", "exception"}
         /\ f.st = "none" <=> f = NoFuture
         /\ f.st # "none" => f.asked \in Jobs
         /\ f.st = "value" => f.got \in HostReplies
         /\ f.st = "pending" => f = Pending(f.asked)
<1>1. CASE f = NoFuture
  BY <1>1 DEF NoFuture
<1>2. CASE f \in [st : {"pending", "exception"}, asked : Jobs]
  <2>1. f.st \in {"pending", "exception"} /\ f.asked \in Jobs
    BY <1>2
  <2>2. f = [st |-> f.st, asked |-> f.asked]
    BY <1>2
  <2> QED BY <2>1, <2>2, NoFutureFacts DEF Pending
<1>3. CASE f \in [st : {"value"}, asked : Jobs, got : HostReplies]
  <2>1. f.st = "value" /\ f.asked \in Jobs /\ f.got \in HostReplies
    BY <1>3
  <2> QED BY <2>1, NoFutureFacts
<1> QED BY <1>1, <1>2, <1>3 DEF Futures

\* The futures that a submit or the worker makes.
LEMMA FutureFacts ==
  /\ \A j \in Jobs : /\ Pending(j) \in Futures /\ Broken(j) \in Futures
                      /\ Pending(j).st = "pending" /\ Pending(j).asked = j
                      /\ Broken(j).st = "exception" /\ Broken(j).asked = j
  /\ \A j \in Jobs, r \in HostReplies :
        /\ Ready(j, r) \in Futures /\ Ready(j, r).st = "value"
        /\ Ready(j, r).asked = j /\ Ready(j, r).got = r
<1>1. ASSUME NEW j \in Jobs
      PROVE  /\ Pending(j) \in Futures /\ Broken(j) \in Futures
             /\ Pending(j).st = "pending" /\ Pending(j).asked = j
             /\ Broken(j).st = "exception" /\ Broken(j).asked = j
  BY DEF Futures, Pending, Broken
<1>2. ASSUME NEW j \in Jobs, NEW r \in HostReplies
      PROVE  /\ Ready(j, r) \in Futures /\ Ready(j, r).st = "value"
             /\ Ready(j, r).asked = j /\ Ready(j, r).got = r
  BY DEF Futures, Ready
<1> QED BY <1>1, <1>2

\* The head and the tail of a queue.
LEMMA TailFacts ==
  ASSUME NEW S, NEW s \in Seq(S), s # <<>>
  PROVE  /\ Len(s) \in Nat \ {0} /\ Head(s) = s[1] /\ s[1] \in S
         /\ Tail(s) \in Seq(S) /\ Len(Tail(s)) = Len(s) - 1
         /\ \A k \in 1..Len(Tail(s)) : Tail(s)[k] = s[k + 1] /\ k + 1 \in 1..Len(s)
OBVIOUS

\* A queue with one more element.
LEMMA AppendFacts ==
  ASSUME NEW S, NEW s \in Seq(S), NEW e \in S
  PROVE  /\ Append(s, e) \in Seq(S) /\ Len(Append(s, e)) = Len(s) + 1
         /\ \A k \in 1..Len(s) : Append(s, e)[k] = s[k]
         /\ Append(s, e)[Len(s) + 1] = e
OBVIOUS

-----------------------------------------------------------------------------
(***************************************************************************)
(* Parts of the invariant that hold on as long as what they are about does *)
(* not change.                                                             *)
(***************************************************************************)

\* The jobs and what waits for them.
LEMMA QueueFixed ==
  ASSUME LinkIInv, UNCHANGED <<bus, jobs, worker, future>>
  PROVE  Queue'
BY BusFixed DEF LinkIInv, Queue

\* The socket.
LEMMA WireFixed ==
  ASSUME LinkIInv, UNCHANGED <<worker, inbox, outbox, failure, jobs>>
  PROVE  Wire'
BY DEF LinkIInv, Wire, ReplyTyped

\* The futures and their messages.
LEMMA OwnedFixed ==
  ASSUME LinkIInv, UNCHANGED <<bus, future, sdo>>
  PROVE  Owned' /\ MailboxFuture'
BY BusFixed DEF LinkIInv, Owned, MailboxFuture, ReplyTyped

\* The two copies of the object.
LEMMA AheadFixed ==
  ASSUME LinkIInv, UNCHANGED <<bus, worker, host, od, future, outbox>>
  PROVE  ModelAhead'
BY BusFixed DEF LinkIInv, ModelAhead, AfterReply, Closed

\* The process image and the frames.
LEMMA ImageFixed ==
  ASSUME LinkIInv, UNCHANGED <<bus, main, mixed, host_failed, input>>
  PROVE  InputOwned' /\ Sweep'
BY BusFixed DEF LinkIInv, InputOwned, Sweep

\* What the invariant says of one job, for the steps of the worker.
LEMMA JobsHeld ==
  ASSUME LinkIInv
  PROVE  /\ \A k \in 1..Len(jobs) : jobs[k] \in Jobs /\ jobs[k].from \in Clients
         /\ worker.pc = "recv" => worker.job \in Jobs /\ worker.job.from \in Clients
         /\ \A c \in Clients : future[c] \in Futures
         /\ Len(jobs) \in Nat
BY JobFacts DEF LinkIInv, TypeOK, Queue

-----------------------------------------------------------------------------
(***************************************************************************)
(* The steps of the worker thread.                                         *)
(***************************************************************************)

\* The worker takes a job.
LEMMA TakeStep ==
  ASSUME LinkIInv, Take
  PROVE  LinkIInv'
<1> USE JobsHeld, BusFixed
<1>0. /\ worker.pc = "wait" /\ jobs # <<>> /\ jobs \in Seq(Jobs) /\ inbox \in Seq(Jobs)
      /\ worker' = [pc |-> "recv", job |-> Head(jobs)]
      /\ jobs' = Tail(jobs) /\ inbox' = Append(inbox, Head(jobs))
      /\ UNCHANGED <<bus, failure, outbox, main, host_failed, input, od, sdo, answer,
                      mixed, future, host>>
  BY DEF Take, mainVars, LinkIInv, TypeOK
<1>1. /\ Len(jobs) \in Nat \ {0} /\ Head(jobs) = jobs[1] /\ jobs[1] \in Jobs
      /\ jobs' \in Seq(Jobs) /\ Len(jobs') = Len(jobs) - 1
      /\ \A k \in 1..Len(jobs') : jobs'[k] = jobs[k + 1] /\ k + 1 \in 1..Len(jobs)
  BY <1>0, TailFacts
<1>2. worker'.pc = "recv" /\ worker'.job = jobs[1]
  BY <1>0, <1>1
<1>3. Len(inbox) = 0 /\ Len(outbox) = 0
  BY <1>0 DEF LinkIInv, Wire
<1>4. inbox' \in Seq(Jobs) /\ Len(inbox') = 1 /\ inbox'[1] = jobs[1]
  BY <1>0, <1>1, <1>3, AppendFacts
<1>5. TypeOK'
  <2>1. Len(jobs') <= bus'.queue
    BY <1>0, <1>1, BusFacts DEF LinkIInv, TypeOK
  <2> QED BY <1>0, <1>1, <1>4, <2>1 DEF LinkIInv, TypeOK
<1>6. Queue'
  <2>1. \A k \in 1..Len(jobs') : future'[jobs'[k].from] = Pending(jobs'[k])
    BY <1>0, <1>1 DEF LinkIInv, Queue
  <2>2. \A k, l \in 1..Len(jobs') : jobs'[k].from = jobs'[l].from => k = l
    BY <1>1 DEF LinkIInv, Queue
  <2>3. /\ worker'.job \in Jobs' /\ future'[worker'.job.from] = Pending(worker'.job)
        /\ \A k \in 1..Len(jobs') : jobs'[k].from # worker'.job.from
    BY <1>0, <1>1, <1>2 DEF LinkIInv, Queue
  <2>4. ASSUME NEW c \in Clients, future[c].st = "pending"
        PROVE  (\E k \in 1..Len(jobs') : jobs'[k].from = c) \/ worker'.job.from = c
    <3>1. PICK k \in 1..Len(jobs) : jobs[k].from = c
      BY <1>0, <2>4 DEF LinkIInv, Queue
    <3>2. CASE k = 1
      BY <3>1, <3>2, <1>2
    <3>3. CASE k # 1
      <4>1. k - 1 \in 1..Len(jobs') /\ jobs'[k - 1] = jobs[k]
        BY <3>3, <1>1
      <4> QED BY <4>1, <3>1
    <3> QED BY <3>2, <3>3
  <2> QED BY <1>0, <1>2, <2>1, <2>2, <2>3, <2>4 DEF Queue, Pending
<1>7. Wire'
  <2>1. ~failure
    BY <1>0 DEF LinkIInv, Wire
  <2> QED BY <2>1, <1>0, <1>2, <1>3, <1>4 DEF Wire, ReplyTyped
<1>8. ModelAhead'
  BY <1>0, <1>2 DEF LinkIInv, ModelAhead, AfterReply, Closed
<1>9. Owned' /\ MailboxFuture' /\ InputOwned' /\ Sweep'
  BY <1>0, OwnedFixed, ImageFixed
<1> QED BY <1>0, <1>5, <1>6, <1>7, <1>8, <1>9 DEF LinkIInv

\* The worker receives the reply to the job in its hands.
LEMMA ReceiveStep ==
  ASSUME LinkIInv, Receive
  PROVE  LinkIInv'
<1> USE JobsHeld, BusFixed
<1> DEFINE j == worker.job
           r == outbox[1]
<1>0. /\ worker.pc = "recv" /\ outbox # <<>> /\ outbox \in Seq(HostReplies)
      /\ future' = [future EXCEPT ![j.from] = Ready(j, Head(outbox))]
      /\ outbox' = Tail(outbox)
      /\ worker' = [pc |-> "wait", job |-> NoJob]
      /\ UNCHANGED <<bus, jobs, failure, inbox, main, host_failed, input, od, sdo, answer,
                      mixed, host>>
  BY DEF Receive, mainVars, LinkIInv, TypeOK
<1>1. /\ Len(outbox) \in Nat \ {0} /\ Head(outbox) = r /\ r \in HostReplies
      /\ outbox' \in Seq(HostReplies) /\ Len(outbox') = Len(outbox) - 1
  BY <1>0, TailFacts
<1>2. worker'.pc = "wait" /\ worker'.job = NoJob
  BY <1>0
<1>3. Len(inbox) = 0 /\ Len(outbox) = 1 /\ r.of = j /\ ReplyTyped(r)
  BY <1>0, <1>1 DEF LinkIInv, Wire
<1>4. j \in Jobs /\ j.from \in Clients /\ future[j.from] = Pending(j)
  BY <1>0 DEF LinkIInv, Queue
<1>5. /\ Ready(j, r) \in Futures /\ Ready(j, r).st = "value"
      /\ Ready(j, r).asked = j /\ Ready(j, r).got = r
      /\ Pending(j).st = "pending" /\ Pending(j).asked = j
  BY <1>1, <1>4, FutureFacts
<1>6. /\ future' \in [Clients -> Futures] /\ future'[j.from] = Ready(j, r)
      /\ \A c \in Clients : c # j.from => future'[c] = future[c]
  BY <1>0, <1>1, <1>4, <1>5 DEF LinkIInv, TypeOK
<1> HIDE DEF j, r
<1>7. TypeOK'
  BY <1>0, <1>1, <1>6 DEF LinkIInv, TypeOK
<1>8. Queue'
  <2>1. \A k \in 1..Len(jobs) : jobs[k].from # j.from
    BY <1>0 DEF LinkIInv, Queue, j
  <2>2. \A k \in 1..Len(jobs) : future'[jobs[k].from] = Pending(jobs[k])
    BY <2>1, <1>6 DEF LinkIInv, Queue
  <2>3. ASSUME NEW c \in Clients, future'[c].st = "pending"
        PROVE  \E k \in 1..Len(jobs) : jobs[k].from = c
    <3>1. c # j.from /\ future[c].st = "pending"
      BY <2>3, <1>5, <1>6
    <3> QED BY <3>1, <1>0 DEF LinkIInv, Queue, j
  <2> QED BY <1>0, <1>2, <2>2, <2>3 DEF LinkIInv, Queue, Pending
<1>9. Wire'
  <2>1. ~failure
    BY <1>0 DEF LinkIInv, Wire
  <2> QED BY <2>1, <1>0, <1>1, <1>2, <1>3 DEF Wire, ReplyTyped
<1>10. Owned'
  BY <1>0, <1>3, <1>5, <1>6 DEF LinkIInv, Owned, ReplyTyped
<1>11. MailboxFuture'
  <2>1. \A c \in Clients : future'[c].st # "none" =>
           future[c].st # "none" /\ future[c].asked = future'[c].asked
    BY <1>4, <1>5, <1>6
  <2> QED BY <2>1, <1>0, BusFacts DEF LinkIInv, MailboxFuture
<1>12. ModelAhead'
  <2>1. \A i \in Axes : <<"sdo", i>> \in Clients
    BY BusFacts DEF LinkIInv
  <2>2. ASSUME NEW i \in Axes
        PROVE  host.od[i] = IF future'[<<"sdo", i>>].st = "value"
                            THEN AfterReply(od[i], future'[<<"sdo", i>>].got) ELSE od[i]
    <3>1. CASE j.from = <<"sdo", i>>
      <4>1. host.od[i] = AfterReply(od[i], r)
        BY <3>1, <1>0, <1>3, <1>4, <1>5 DEF LinkIInv, ModelAhead, Closed, r
      <4> QED BY <4>1, <3>1, <1>5, <1>6
    <3>2. CASE j.from # <<"sdo", i>>
      <4>1. ~(outbox[1].of.from = <<"sdo", i>>)
        BY <3>2, <1>3 DEF r
      <4> QED BY <4>1, <2>1, <3>2, <1>0, <1>6 DEF LinkIInv, ModelAhead, Closed
    <3> QED BY <3>1, <3>2
  <2>3. Len(outbox') # 1
    BY <1>1, <1>3
  <2> QED BY <2>2, <2>3, <1>0 DEF ModelAhead, AfterReply
<1>13. InputOwned' /\ Sweep'
  BY <1>0, ImageFixed
<1> QED BY <1>0, <1>7, <1>8, <1>9, <1>10, <1>11, <1>12, <1>13 DEF LinkIInv
\* The worker gives up: its client gets the exception.
LEMMA FailStep ==
  ASSUME LinkIInv, Fail
  PROVE  LinkIInv'
<1> USE JobsHeld, BusFixed
<1> DEFINE j == worker.job
<1>0. /\ worker.pc = "recv"
      /\ future' = [future EXCEPT ![j.from] = Broken(j)]
      /\ worker' = [pc |-> "failing", job |-> NoJob]
      /\ UNCHANGED <<bus, jobs, failure, inbox, outbox, main, host_failed, input, od, sdo,
                      answer, mixed, host>>
  BY DEF Fail, mainVars
<1>1. worker'.pc = "failing" /\ worker'.job = NoJob
  BY <1>0
<1>2. j \in Jobs /\ j.from \in Clients /\ future[j.from] = Pending(j)
  BY <1>0 DEF LinkIInv, Queue
<1>3. /\ Broken(j) \in Futures /\ Broken(j).st = "exception" /\ Broken(j).asked = j
      /\ Pending(j).st = "pending" /\ Pending(j).asked = j
  BY <1>2, FutureFacts
<1>4. /\ future' \in [Clients -> Futures] /\ future'[j.from] = Broken(j)
      /\ \A c \in Clients : c # j.from => future'[c] = future[c]
  BY <1>0, <1>2, <1>3 DEF LinkIInv, TypeOK
<1> HIDE DEF j
<1>5. TypeOK'
  BY <1>0, <1>4 DEF LinkIInv, TypeOK
<1>6. Queue'
  <2>1. \A k \in 1..Len(jobs) : jobs[k].from # j.from
    BY <1>0 DEF LinkIInv, Queue, j
  <2>2. \A k \in 1..Len(jobs) : future'[jobs[k].from] = Pending(jobs[k])
    BY <2>1, <1>4 DEF LinkIInv, Queue
  <2>3. ASSUME NEW c \in Clients, future'[c].st = "pending"
        PROVE  \E k \in 1..Len(jobs) : jobs[k].from = c
    <3>1. c # j.from /\ future[c].st = "pending"
      BY <2>3, <1>3, <1>4
    <3> QED BY <3>1, <1>0 DEF LinkIInv, Queue, j
  <2> QED BY <1>0, <1>1, <2>2, <2>3 DEF LinkIInv, Queue, Pending
<1>7. Wire'
  BY <1>0, <1>1 DEF LinkIInv, Wire, ReplyTyped
<1>8. \A c \in Clients : future'[c].st # "none" =>
         future[c].st # "none" /\ future[c].asked = future'[c].asked
  BY <1>2, <1>3, <1>4
<1>9. Owned'
  BY <1>0, <1>3, <1>4, <1>8 DEF LinkIInv, Owned, ReplyTyped
<1>10. MailboxFuture'
  BY <1>0, <1>8, BusFacts DEF LinkIInv, MailboxFuture
<1>11. ModelAhead'
  BY <1>1 DEF ModelAhead, Closed
<1>12. InputOwned' /\ Sweep'
  BY <1>0, ImageFixed
<1> QED BY <1>0, <1>5, <1>6, <1>7, <1>9, <1>10, <1>11, <1>12 DEF LinkIInv

\* The worker publishes the failure: the waiting jobs are refused.
LEMMA PublishStep ==
  ASSUME LinkIInv, Publish
  PROVE  LinkIInv'
<1> USE JobsHeld, BusFixed
<1> DEFINE waits(c) == \E k \in 1..Len(jobs) : jobs[k].from = c
<1>0. /\ worker.pc = "failing" /\ failure' = TRUE
      /\ future' = [c \in Clients |-> IF \E k \in DOMAIN jobs : jobs[k].from = c
                                      THEN Broken(future[c].asked) ELSE future[c]]
      /\ jobs' = <<>>
      /\ worker' = [pc |-> "dead", job |-> NoJob]
      /\ UNCHANGED <<bus, inbox, outbox, main, host_failed, input, od, sdo, answer, mixed,
                      host>>
  BY DEF Publish, mainVars
<1>1. worker'.pc = "dead" /\ worker'.job = NoJob /\ jobs' \in Seq(Jobs) /\ Len(jobs') = 0
  BY <1>0
<1>2. DOMAIN jobs = 1..Len(jobs)
  BY DEF LinkIInv, TypeOK
<1>3. \A c \in Clients : waits(c) <=> future[c].st = "pending"
  <2>1. ASSUME NEW k \in 1..Len(jobs) PROVE future[jobs[k].from].st = "pending"
    <3>1. future[jobs[k].from] = Pending(jobs[k])
      BY DEF LinkIInv, Queue
    <3> QED BY <3>1 DEF Pending
  <2> QED BY <2>1, <1>0 DEF LinkIInv, Queue
<1>4. \A c \in Clients : future'[c] = IF waits(c) THEN Broken(future[c].asked) ELSE future[c]
  BY <1>0, <1>2
<1> HIDE DEF waits
<1>5. ASSUME NEW c \in Clients
      PROVE  /\ future'[c] \in Futures /\ future'[c].st # "pending"
             /\ future'[c] = future[c]
                \/ /\ future[c].st = "pending" /\ future'[c].st = "exception"
                   /\ future'[c].asked = future[c].asked
  <2>1. CASE waits(c)
    <3>0. future[c].st = "pending" /\ future[c].st # "none" /\ future[c] \in Futures
      <4>1. future[c].st = "pending"
        BY <2>1, <1>3
      <4> QED BY <4>1
    <3>1. future[c].asked \in Jobs
      BY <3>0, FutureCases
    <3>2. future'[c] = Broken(future[c].asked)
      BY <2>1, <1>4
    <3> QED BY <3>0, <3>1, <3>2, FutureFacts
  <2>2. CASE ~waits(c)
    BY <2>2, <1>3, <1>4
  <2> QED BY <2>1, <2>2
<1>6. future' \in [Clients -> Futures]
  BY <1>0, <1>5
<1>7. TypeOK'
  <2>1. Len(jobs') <= bus'.queue
    BY <1>0, <1>1, BusFacts DEF LinkIInv
  <2> QED BY <1>0, <1>1, <1>6, <2>1 DEF LinkIInv, TypeOK
<1>8. Queue'
  <2>1. 1..Len(jobs') = {}
    BY <1>1
  <2> QED BY <1>0, <1>1, <1>5, <2>1 DEF Queue
<1>9. Wire'
  BY <1>0, <1>1 DEF LinkIInv, Wire, ReplyTyped
<1>10. \A c \in Clients : future'[c].st # "none" =>
         future[c].st # "none" /\ future[c].asked = future'[c].asked
  BY <1>5
<1>11. Owned'
  BY <1>0, <1>5, <1>10 DEF LinkIInv, Owned, ReplyTyped
<1>12. MailboxFuture'
  BY <1>0, <1>10, BusFacts DEF LinkIInv, MailboxFuture
<1>13. ModelAhead'
  BY <1>1 DEF ModelAhead, Closed
<1>14. InputOwned' /\ Sweep'
  BY <1>0, ImageFixed
<1> QED BY <1>0, <1>7, <1>8, <1>9, <1>11, <1>12, <1>13, <1>14 DEF LinkIInv

-----------------------------------------------------------------------------
(***************************************************************************)
(* The steps of the model host.                                            *)
(***************************************************************************)

Hosts == [alive : BOOLEAN, od : [Axes -> OdValues]]

\* The reply names its request, and the object of an axis changes to the value
\* in the reply exactly when an access to it succeeds.
LEMMA DispatchFacts ==
  ASSUME NEW h \in Hosts, NEW j \in Jobs, NEW d \in Dispatch(h, j)
  PROVE  /\ d.h \in Hosts /\ d.reply \in HostReplies
         /\ d.reply.of = j /\ ReplyTyped(d.reply)
         /\ \A i \in Axes :
              d.h.od[i] = IF j.from = <<"sdo", i>> /\ d.reply.st = "ok" /\ j.op # "status"
                          THEN d.reply.val ELSE h.od[i]
<1>1. CASE j.op \in {"cycle", "idle", "status"}
  <2>1. d = [h |-> h, reply |-> [of |-> j, st |-> "ok", val |-> j.arg]]
    BY <1>1 DEF Dispatch
  <2>2. /\ d.h = h /\ d.reply = [of |-> j, st |-> "ok", val |-> j.arg]
        /\ d.reply.of = j /\ d.reply.st = "ok"
    BY <2>1
  <2>3. d.reply \in HostReplies
    BY <2>2, JobFacts DEF HostReplies
  <2>4. ReplyTyped(d.reply)
    BY <2>2, <1>1 DEF ReplyTyped
  <2>5. \A i \in Axes : j.from = <<"sdo", i>> => j.op = "status"
    BY <1>1, JobFacts
  <2> QED BY <2>2, <2>3, <2>4, <2>5
<1>2. CASE j.op = "read"
  <2>0. PICK i \in Axes : j.from = <<"sdo", i>>
    BY <1>2, JobFacts
  <2>1. j.from[2] = i
    BY <2>0
  <2>2. d = [h |-> h, reply |-> [of |-> j, st |-> "ok", val |-> h.od[i]]]
    BY <1>2, <2>1 DEF Dispatch
  <2>3. /\ d.h = h /\ d.reply = [of |-> j, st |-> "ok", val |-> h.od[i]]
        /\ d.reply.of = j /\ d.reply.st = "ok" /\ d.reply.val = h.od[i]
    BY <2>2
  <2>4. h.od[i] \in OdValues
    BY DEF Hosts
  <2>5. d.reply \in HostReplies /\ ReplyTyped(d.reply)
    BY <2>3, <2>4 DEF HostReplies, ReplyTyped
  <2>6. \A k \in Axes : <<"sdo", i>> = <<"sdo", k>> => i = k
    OBVIOUS
  <2> QED BY <2>0, <2>3, <2>5, <2>6
<1>3. CASE j.op = "write"
  <2>0. PICK i \in Axes : j.from = <<"sdo", i>>
    BY <1>3, JobFacts
  <2>1. j.from = <<"sdo", i>> /\ j.from[2] = i /\ j.arg \in OdValues
    BY <2>0, <1>3, JobFacts
  <2>2. \A k \in Axes : <<"sdo", i>> = <<"sdo", k>> => i = k
    OBVIOUS
  <2>3. CASE d = [h |-> h, reply |-> [of |-> j, st |-> "error", val |-> j.arg]]
    <3>1. /\ d.h = h /\ d.reply = [of |-> j, st |-> "error", val |-> j.arg]
          /\ d.reply.of = j /\ d.reply.st = "error" /\ d.reply.val = j.arg
      BY <2>3
    <3>2. d.reply \in HostReplies /\ ReplyTyped(d.reply)
      BY <2>1, <3>1 DEF HostReplies, ReplyTyped
    <3> QED BY <3>1, <3>2
  <2>4. CASE d = [[h |-> h, reply |-> [of |-> j, st |-> "ok", val |-> j.arg]]
                    EXCEPT !.h.od[i] = j.arg]
    <3>1. /\ d.h = [h EXCEPT !.od = [h.od EXCEPT ![i] = j.arg]]
          /\ d.reply = [of |-> j, st |-> "ok", val |-> j.arg]
          /\ d.reply.of = j /\ d.reply.st = "ok" /\ d.reply.val = j.arg
      BY <2>4
    <3>2. d.reply \in HostReplies /\ ReplyTyped(d.reply)
      BY <2>1, <3>1 DEF HostReplies, ReplyTyped
    <3>3. d.h \in Hosts /\ d.h.od = [h.od EXCEPT ![i] = j.arg]
      BY <2>1, <3>1 DEF Hosts
    <3>4. \A k \in Axes : d.h.od[k] = IF k = i THEN j.arg ELSE h.od[k]
      BY <3>3 DEF Hosts
    <3> QED BY <1>3, <2>1, <2>2, <3>1, <3>2, <3>3, <3>4
  <2> QED BY <1>3, <2>1, <2>3, <2>4 DEF Dispatch
<1> QED BY <1>1, <1>2, <1>3, JobFacts
\* The host serves the request in the socket.
LEMMA ServeStep ==
  ASSUME LinkIInv, Serve
  PROVE  LinkIInv'
<1> USE JobsHeld, BusFixed
<1> DEFINE j == inbox[1]
<1>0. /\ inbox # <<>> /\ inbox \in Seq(Jobs) /\ inbox' = Tail(inbox)
      /\ outbox \in Seq(HostReplies) /\ host \in Hosts
      /\ UNCHANGED <<bus, jobs, worker, failure, main, host_failed, input, od, sdo, answer,
                      mixed, future>>
  BY DEF Serve, mainVars, LinkIInv, TypeOK, Hosts
<1>1. /\ Len(inbox) \in Nat \ {0} /\ Head(inbox) = j /\ j \in Jobs
      /\ inbox' \in Seq(Jobs) /\ Len(inbox') = Len(inbox) - 1
  BY <1>0, TailFacts
<1>2. PICK d \in Dispatch(host, j) :
         /\ host' = [d.h EXCEPT !.alive = ~Closed]
         /\ outbox' = IF Closed THEN outbox ELSE Append(outbox, d.reply)
  BY <1>1 DEF Serve
<1> HIDE DEF j
<1>3. /\ d.h \in Hosts /\ d.reply \in HostReplies
      /\ d.reply.of = j /\ ReplyTyped(d.reply)
      /\ \A i \in Axes :
           d.h.od[i] = IF j.from = <<"sdo", i>> /\ d.reply.st = "ok" /\ j.op # "status"
                       THEN d.reply.val ELSE host.od[i]
  BY <1>0, <1>1, DispatchFacts
<1>4. host' \in Hosts /\ host'.od = d.h.od
  BY <1>2, <1>3 DEF Hosts, Closed
<1>5. outbox' \in Seq(HostReplies)
  BY <1>0, <1>2, <1>3, AppendFacts
<1>6. TypeOK'
  BY <1>0, <1>1, <1>4, <1>5 DEF LinkIInv, TypeOK, Hosts
<1>7. ASSUME ~Closed
      PROVE  /\ worker.pc = "recv" /\ j = worker.job /\ Len(inbox) = 1 /\ Len(outbox) = 0
             /\ Len(outbox') = 1 /\ outbox'[1] = d.reply
  <2>1. worker.pc = "recv"
    BY <1>1, <1>7 DEF LinkIInv, TypeOK, Wire, Closed
  <2>2. j = worker.job /\ Len(inbox) = 1 /\ Len(outbox) = 0
    BY <1>1, <2>1 DEF LinkIInv, Wire, j
  <2>3. outbox' = Append(outbox, d.reply)
    BY <1>2, <1>7
  <2> QED BY <1>0, <1>3, <2>1, <2>2, <2>3, AppendFacts
<1>8. Wire'
  <2>1. CASE Closed
    <3>1. outbox' = outbox
      BY <2>1, <1>2
    <3> QED BY <2>1, <3>1, <1>0 DEF LinkIInv, Wire, Closed, ReplyTyped
  <2>2. CASE ~Closed
    <3>0. /\ worker.pc = "recv" /\ j = worker.job /\ Len(inbox) = 1
          /\ Len(outbox') = 1 /\ outbox'[1] = d.reply
      BY <2>2, <1>7
    <3>1. Len(inbox') = 0 /\ outbox'[1].of = worker.job
      BY <3>0, <1>1, <1>3
    <3>2. \A k \in 1..Len(outbox') : k = 1
      BY <3>0
    <3>3. ReplyTyped(outbox'[1])
      BY <3>0, <1>3
    <3> QED BY <3>0, <3>1, <3>2, <3>3, <1>0 DEF LinkIInv, Wire, ReplyTyped
  <2> QED BY <2>1, <2>2
<1>9. ModelAhead'
  <2> SUFFICES ASSUME ~Closed, NEW i \in Axes
               PROVE  host'.od[i] = IF future[<<"sdo", i>>].st = "value"
                                      THEN AfterReply(od[i], future[<<"sdo", i>>].got)
                                    ELSE IF outbox'[1].of.from = <<"sdo", i>>
                                      THEN AfterReply(od[i], outbox'[1])
                                    ELSE od[i]
    BY <1>0, <1>7 DEF ModelAhead, AfterReply, Closed
  <2>1. host.od[i] = IF future[<<"sdo", i>>].st = "value"
                     THEN AfterReply(od[i], future[<<"sdo", i>>].got) ELSE od[i]
    BY <1>7 DEF LinkIInv, ModelAhead
  <2>2. CASE j.from = <<"sdo", i>>
    <3>1. future[<<"sdo", i>>].st = "pending"
      <4>1. future[j.from] = Pending(j)
        BY <1>7 DEF LinkIInv, Queue
      <4> QED BY <4>1, <2>2 DEF Pending
    <3> QED BY <2>1, <2>2, <3>1, <1>3, <1>4, <1>7 DEF AfterReply
  <2>3. CASE j.from # <<"sdo", i>>
    BY <2>1, <2>3, <1>3, <1>4, <1>7
  <2> QED BY <2>2, <2>3
<1>10. Queue' /\ Owned' /\ MailboxFuture' /\ InputOwned' /\ Sweep'
  BY <1>0, QueueFixed, OwnedFixed, ImageFixed
<1> QED BY <1>0, <1>6, <1>8, <1>9, <1>10 DEF LinkIInv

\* The host dies.
LEMMA HostExitStep ==
  ASSUME LinkIInv, HostExit
  PROVE  LinkIInv'
<1> USE BusFixed
<1>0. /\ host' = [host EXCEPT !.alive = FALSE]
      /\ UNCHANGED <<bus, jobs, worker, failure, inbox, outbox, main, host_failed, input, od,
                      sdo, answer, mixed, future>>
  BY DEF HostExit, mainVars, linkVars
<1>1. host' \in [alive : BOOLEAN, od : [Axes -> OdValues]] /\ host'.od = host.od
  BY <1>0 DEF LinkIInv, TypeOK
<1>2. TypeOK'
  BY <1>0, <1>1 DEF LinkIInv, TypeOK
<1>3. ModelAhead'
  BY <1>0, <1>1 DEF LinkIInv, ModelAhead, AfterReply, Closed
<1> QED BY <1>0, <1>2, <1>3, QueueFixed, WireFixed, OwnedFixed, ImageFixed DEF LinkIInv
-----------------------------------------------------------------------------
(***************************************************************************)
(* The steps of the EtherCAT thread.                                       *)
(***************************************************************************)

\* A resolved future is given up by its holder.
LEMMA FutureCleared ==
  ASSUME LinkIInv, NEW c \in Clients, IsReady(future[c]),
         future' = [future EXCEPT ![c] = NoFuture], UNCHANGED <<bus, jobs, worker>>
  PROVE  /\ future' \in [Clients -> Futures] /\ future'[c] = NoFuture
         /\ \A d \in Clients : d # c => future'[d] = future[d]
         /\ Queue' /\ Owned'
<1> USE JobsHeld, BusFixed
<1>1. /\ future' \in [Clients -> Futures] /\ future'[c] = NoFuture
      /\ \A d \in Clients : d # c => future'[d] = future[d]
  BY NoFutureFacts DEF LinkIInv, TypeOK
<1>2. future[c].st # "pending"
  BY DEF IsReady
<1>3. ASSUME NEW j \in Jobs, future[j.from] = Pending(j)
      PROVE  j.from # c
  BY <1>2, <1>3 DEF Pending
<1>4. Queue'
  <2>1. \A k \in 1..Len(jobs) : future'[jobs[k].from] = Pending(jobs[k])
    BY <1>1, <1>3 DEF LinkIInv, Queue
  <2>2. worker.pc = "recv" => future'[worker.job.from] = Pending(worker.job)
    BY <1>1, <1>3 DEF LinkIInv, Queue
  <2>3. \A d \in Clients : future'[d].st = "pending" => future[d].st = "pending"
    BY <1>1, NoFutureFacts
  <2> QED BY <2>1, <2>2, <2>3 DEF LinkIInv, Queue, Pending
<1>5. Owned'
  BY <1>1, NoFutureFacts DEF LinkIInv, Owned, ReplyTyped
<1> QED BY <1>1, <1>4, <1>5

\* A client without a request submits one.
LEMMA SubmitFacts ==
  ASSUME LinkIInv, NEW j \in Jobs, future[j.from] = NoFuture,
         jobs' = Submit(jobs, j).jobs,
         future' = [future EXCEPT ![j.from] = Submit(jobs, j).future],
         UNCHANGED <<bus, worker, failure>>
  PROVE  /\ jobs' \in Seq(Jobs) /\ Len(jobs') <= bus.queue
         /\ failure => Len(jobs') = 0
         /\ future' \in [Clients -> Futures]
         /\ future'[j.from].st \in {"pending", "exception"} /\ future'[j.from].asked = j
         /\ \A d \in Clients : d # j.from => future'[d] = future[d]
         /\ Queue' /\ Owned'
<1> USE JobsHeld, BusFixed
<1>0. j.from \in Clients /\ future \in [Clients -> Futures] /\ jobs \in Seq(Jobs)
  BY JobFacts DEF LinkIInv, TypeOK
<1>1. /\ Pending(j) \in Futures /\ Broken(j) \in Futures
      /\ Pending(j).st = "pending" /\ Pending(j).asked = j
      /\ Broken(j).st = "exception" /\ Broken(j).asked = j
  BY FutureFacts
<1>2. /\ \A k \in 1..Len(jobs) : jobs[k].from # j.from
      /\ worker.pc = "recv" => worker.job.from # j.from
  <2>1. \A i \in Jobs : future[i.from] = Pending(i) => i.from # j.from
    BY NoFutureFacts DEF Pending
  <2> QED BY <2>1 DEF LinkIInv, Queue
<1>3. CASE failure \/ Len(jobs) >= bus.queue
  <2>1. jobs' = jobs /\ future' = [future EXCEPT ![j.from] = Broken(j)]
    BY <1>3 DEF Submit
  <2>2. /\ future' \in [Clients -> Futures] /\ future'[j.from] = Broken(j)
        /\ \A d \in Clients : d # j.from => future'[d] = future[d]
    BY <2>1, <1>0, <1>1
  <2>3. Queue'
    <3>1. \A k \in 1..Len(jobs) : future'[jobs[k].from] = Pending(jobs[k])
      BY <1>2, <2>2 DEF LinkIInv, Queue
    <3>2. worker.pc = "recv" => future'[worker.job.from] = Pending(worker.job)
      BY <1>2, <2>2 DEF LinkIInv, Queue
    <3>3. \A d \in Clients : future'[d].st = "pending" => future[d].st = "pending"
      BY <1>1, <2>2
    <3> QED BY <2>1, <3>1, <3>2, <3>3 DEF LinkIInv, Queue, Pending
  <2>4. Owned'
    BY <1>1, <2>2 DEF LinkIInv, Owned, ReplyTyped
  <2>5. Len(jobs) <= bus.queue /\ (failure => Len(jobs) = 0)
    BY DEF LinkIInv, TypeOK, Wire
  <2> QED BY <1>0, <1>1, <2>1, <2>2, <2>3, <2>4, <2>5
<1>4. CASE ~(failure \/ Len(jobs) >= bus.queue)
  <2>1. jobs' = Append(jobs, j) /\ future' = [future EXCEPT ![j.from] = Pending(j)]
    BY <1>4 DEF Submit
  <2>2. /\ future' \in [Clients -> Futures] /\ future'[j.from] = Pending(j)
        /\ \A d \in Clients : d # j.from => future'[d] = future[d]
    BY <2>1, <1>0, <1>1
  <2>3. /\ jobs' \in Seq(Jobs) /\ Len(jobs') = Len(jobs) + 1
        /\ \A k \in 1..Len(jobs) : jobs'[k] = jobs[k]
        /\ jobs'[Len(jobs) + 1] = j
    BY <2>1, <1>0, AppendFacts
  <2>4. \A k \in 1..Len(jobs') :
           \/ k \in 1..Len(jobs) /\ jobs'[k] = jobs[k] /\ jobs'[k].from # j.from
           \/ k = Len(jobs') /\ jobs'[k] = j
    BY <1>2, <2>3
  <2>5. Queue'
    <3>1. \A k \in 1..Len(jobs') : future'[jobs'[k].from] = Pending(jobs'[k])
      BY <2>2, <2>4 DEF LinkIInv, Queue
    <3>2. \A k, l \in 1..Len(jobs') : jobs'[k].from = jobs'[l].from => k = l
      BY <2>4 DEF LinkIInv, Queue
    <3>3. worker.pc = "recv" => /\ future'[worker.job.from] = Pending(worker.job)
                                /\ \A k \in 1..Len(jobs') : jobs'[k].from # worker.job.from
      BY <1>2, <2>2, <2>4 DEF LinkIInv, Queue
    <3>4. ASSUME NEW d \in Clients, future'[d].st = "pending"
          PROVE  \/ \E k \in 1..Len(jobs') : jobs'[k].from = d
                 \/ worker.pc = "recv" /\ worker.job.from = d
      <4>1. CASE d = j.from
        <5>1. Len(jobs) + 1 \in 1..Len(jobs') /\ jobs'[Len(jobs) + 1].from = d
          BY <2>3, <4>1
        <5> QED BY <5>1, Zenon
      <4>2. CASE d # j.from
        <5>1. future[d].st = "pending"
          BY <3>4, <4>2, <2>2
        <5>2. \A k \in 1..Len(jobs) : k \in 1..Len(jobs') /\ jobs'[k] = jobs[k]
          BY <2>3
        <5>3. \/ \E k \in 1..Len(jobs) : jobs[k].from = d
              \/ worker.pc = "recv" /\ worker.job.from = d
          BY <5>1 DEF LinkIInv, Queue
        <5> QED BY <5>2, <5>3, Zenon
      <4> QED BY <4>1, <4>2
    <3> QED BY <3>1, <3>2, <3>3, <3>4 DEF LinkIInv, Queue, Pending
  <2>6. Owned'
    BY <1>1, <2>2 DEF LinkIInv, Owned, ReplyTyped
  <2>7. Len(jobs') <= bus.queue
    BY <1>4, <2>3, BusFacts DEF LinkIInv
  <2> QED BY <1>1, <1>4, <2>2, <2>3, <2>5, <2>6, <2>7
<1> QED BY <1>3, <1>4
Places == [at : {"check", "axis", "route", "mailbox", "submit"}, pass : {1, 2}, i : Axes]

\* Where the thread goes on.
LEMMA PlaceFacts ==
  ASSUME LinkIInv
  PROVE  /\ main \in Places /\ main.i \in Axes /\ bus.n \in Nat
         /\ \A a \in {"check", "mailbox", "submit"} :
              LET m == [main EXCEPT !.at = a]
              IN  m \in Places /\ m.at = a /\ m.pass = main.pass /\ m.i = main.i
<1>1. main \in Places
  BY DEF LinkIInv, TypeOK, Places
<1>2. bus.n \in Nat
  BY BusFacts DEF LinkIInv
<1>3. ASSUME NEW a \in {"check", "mailbox", "submit"},
             NEW m, m = [main EXCEPT !.at = a]
      PROVE  m \in Places /\ m.at = a /\ m.pass = main.pass /\ m.i = main.i
  BY <1>1, <1>3 DEF Places
<1> QED BY <1>1, <1>2, <1>3 DEF Places

\* A pass of pump over the axes begins.
LEMMA PumpCheckStep ==
  ASSUME LinkIInv, PumpCheck
  PROVE  LinkIInv'
<1> USE BusFixed
<1>0. /\ host_failed' = (host_failed \/ failure)
      /\ main' = [main EXCEPT !.at = "axis", !.i = 1]
      /\ answer' = "none"
      /\ UNCHANGED <<bus, jobs, worker, failure, inbox, outbox, input, od, sdo, mixed, future,
                      host>>
  BY DEF PumpCheck, linkVars
<1>1. main' \in Places /\ main'.at = "axis" /\ main'.i = 1 /\ main'.pass = main.pass
  BY <1>0, PlaceFacts, BusFacts DEF LinkIInv, Places
<1>2. TypeOK'
  BY <1>0, <1>1 DEF LinkIInv, TypeOK, Places
<1>3. Sweep'
  <2>1. \A i \in Axes : ~(i < 1)
    BY DEF Axes
  <2> QED BY <1>0, <1>1, <2>1 DEF LinkIInv, Sweep
<1>4. InputOwned'
  BY <1>0 DEF LinkIInv, InputOwned
<1> QED
  BY <1>0, <1>2, <1>3, <1>4, QueueFixed, WireFixed, OwnedFixed, AheadFixed DEF LinkIInv

\* pump visits an axis.
LEMMA PumpAxisStep ==
  ASSUME LinkIInv, PumpAxis
  PROVE  LinkIInv'
<1> USE BusFixed
<1> DEFINE n == main.i
           c == <<"pdo", main.i>>
           f == future[c]
           fails == host_failed \/ f.st = "exception"
           fresh == Fresh(f, input[n])
           x == IF fails THEN Faulted(fresh) ELSE fresh
<1>0. /\ main.at = "axis"
      /\ host_failed' = fails /\ input' = [input EXCEPT ![n] = x]
      /\ future' = (IF IsReady(f) THEN [future EXCEPT ![c] = NoFuture] ELSE future)
      /\ main' = AfterPump /\ answer' = "none"
      /\ UNCHANGED <<bus, jobs, worker, failure, inbox, outbox, od, sdo, mixed, host>>
  BY DEF PumpAxis, linkVars
<1>1. n \in Axes /\ c \in Clients /\ f \in Futures
  BY PlaceFacts, BusFacts, JobsHeld DEF LinkIInv
<1>2. input[n] \in [fault : BOOLEAN, of : Jobs \cup {NoJob}]
  BY <1>1 DEF LinkIInv, TypeOK
<1>3. /\ fresh \in [fault : BOOLEAN, of : Jobs \cup {NoJob}]
      /\ fresh.of # NoJob => fresh.of.from = c
  <2>1. CASE f.st = "value" /\ ~host_failed
    <3>1. fresh = [fault |-> FALSE, of |-> f.got.of]
      BY <2>1 DEF Fresh
    <3>2. f.got.of = f.asked /\ f.asked.from = c /\ f.asked \in Jobs
      BY <1>1, <2>1, FutureCases DEF LinkIInv, Owned
    <3> QED BY <3>1, <3>2
  <2>2. CASE ~(f.st = "value" /\ ~host_failed)
    <3>1. fresh = input[n]
      BY <2>2 DEF Fresh
    <3> QED BY <3>1, <1>1, <1>2 DEF LinkIInv, InputOwned
  <2> QED BY <2>1, <2>2
<1> HIDE DEF fresh
<1>4. /\ x \in [fault : BOOLEAN, of : Jobs \cup {NoJob}] /\ x.of = fresh.of
      /\ host_failed => x.fault
  BY <1>3 DEF Faulted
<1> HIDE DEF x, fails
<1>5. /\ input' \in [Axes -> [fault : BOOLEAN, of : Jobs \cup {NoJob}]]
      /\ input'[n] = x /\ \A i \in Axes : i # n => input'[i] = input[i]
  BY <1>0, <1>1, <1>4 DEF LinkIInv, TypeOK
<1>6. fails \in BOOLEAN /\ (host_failed => fails)
  BY DEF fails, LinkIInv, TypeOK
<1>7. /\ future' \in [Clients -> Futures] /\ Queue' /\ Owned'
      /\ \A d \in Clients : d # c => future'[d] = future[d]
  <2>1. CASE IsReady(f)
    BY <2>1, <1>0, <1>1, FutureCleared
  <2>2. CASE ~IsReady(f)
    <3>1. future' = future
      BY <2>2, <1>0
    <3> QED BY <3>1, <1>0, QueueFixed, OwnedFixed DEF LinkIInv, TypeOK
  <2> QED BY <2>1, <2>2
<1>8. \A i \in Axes : future'[<<"sdo", i>>] = future[<<"sdo", i>>]
  BY <1>1, <1>7, BusFacts DEF LinkIInv
<1>9. /\ main' \in Places
      /\ \/ n < bus.n /\ main'.at = "axis" /\ main'.i = n + 1 /\ main'.pass = main.pass
         \/ /\ n = bus.n /\ main'.at \in {"check", "route"}
            /\ main'.at = "route" => main'.pass = 1
  <2>1. CASE n < bus.n
    <3>1. main' = [main EXCEPT !.i = n + 1]
      BY <2>1, <1>0 DEF AfterPump
    <3>2. n + 1 \in Axes
      BY <2>1, <1>1, PlaceFacts DEF Axes
    <3> QED BY <2>1, <3>1, <3>2, <1>0, PlaceFacts DEF Places
  <2>2. CASE ~(n < bus.n)
    <3>1. n = bus.n
      BY <2>2, <1>1, PlaceFacts DEF Axes
    <3>2. main' \in {[at |-> "check", pass |-> 2, i |-> 1], [at |-> "route", pass |-> 1, i |-> 1]}
      BY <2>2, <1>0 DEF AfterPump
    <3>3. 1 \in Axes
      BY BusFacts DEF LinkIInv
    <3> QED BY <3>1, <3>2, <3>3 DEF Places
  <2> QED BY <2>1, <2>2
<1> HIDE DEF n, c, f
<1>10. TypeOK'
  BY <1>0, <1>5, <1>6, <1>7, <1>9 DEF LinkIInv, TypeOK, Places
<1>11. MailboxFuture'
  BY <1>0, <1>8 DEF LinkIInv, MailboxFuture
<1>12. ModelAhead'
  BY <1>0, <1>8 DEF LinkIInv, ModelAhead, AfterReply, Closed
<1>13. InputOwned'
  BY <1>0, <1>3, <1>4, <1>5 DEF LinkIInv, InputOwned, c, n
<1>14. Sweep'
  <2>1. ASSUME mixed = 1, NEW i \in Axes, i < n + 1
        PROVE  input'[i].fault
    <3>1. host_failed
      BY <2>1 DEF LinkIInv, Sweep
    <3>2. CASE i = n
      BY <3>1, <3>2, <1>4, <1>5
    <3>3. CASE i # n
      <4>1. i < n
        BY <2>1, <3>3, <1>1 DEF Axes
      <4> QED BY <2>1, <3>3, <4>1, <1>0, <1>5 DEF LinkIInv, Sweep, n
    <3> QED BY <3>2, <3>3
  <2>2. \A i \in Axes : n = bus.n => i < n + 1
    BY <1>1, PlaceFacts DEF Axes
  <2>3. ASSUME mixed = 1, main.pass = 2, NEW i \in Axes
        PROVE  input'[i].fault
    <3>1. host_failed /\ input[i].fault
      BY <2>3 DEF LinkIInv, Sweep
    <3> QED BY <3>1, <1>4, <1>5
  <2> QED BY <1>0, <1>6, <1>9, <2>1, <2>2, <2>3 DEF LinkIInv, Sweep
<1>15. Wire'
  BY <1>0, WireFixed
<1> QED BY <1>0, <1>7, <1>10, <1>11, <1>12, <1>13, <1>14, <1>15 DEF LinkIInv
\* No frame came.
LEMMA NoFrameStep ==
  ASSUME LinkIInv, NoFrame
  PROVE  LinkIInv'
<1> USE BusFixed
<1>0. /\ main.at = "route" /\ main' = [main EXCEPT !.at = "check"] /\ answer' = "none"
      /\ UNCHANGED <<bus, jobs, worker, failure, inbox, outbox, host_failed, input, od, sdo,
                      mixed, future, host>>
  BY DEF NoFrame, linkVars
<1>1. main' \in Places /\ main'.at = "check" /\ main'.pass = main.pass
  BY <1>0, PlaceFacts
<1>2. TypeOK'
  BY <1>0, <1>1 DEF LinkIInv, TypeOK, Places
<1>3. InputOwned' /\ Sweep'
  BY <1>0, <1>1 DEF LinkIInv, InputOwned, Sweep
<1> QED
  BY <1>0, <1>2, <1>3, QueueFixed, WireFixed, OwnedFixed, AheadFixed DEF LinkIInv

\* A frame is routed.
LEMMA RouteStep ==
  ASSUME LinkIInv, Route
  PROVE  LinkIInv'
<1> USE BusFixed
<1>0. /\ main.at = "route" /\ main' = [main EXCEPT !.at = "mailbox"] /\ answer' = "none"
      /\ mixed' = IF host_failed /\ mixed < 2 /\ \E i \in Axes : ~input[i].fault
                  THEN mixed + 1 ELSE mixed
      /\ UNCHANGED <<bus, jobs, worker, failure, inbox, outbox, host_failed, input, od, sdo,
                      future, host>>
  BY DEF Route, linkVars
<1>1. main' \in Places /\ main'.at = "mailbox" /\ main'.pass = main.pass /\ main.pass = 1
  BY <1>0, PlaceFacts DEF LinkIInv, Sweep
<1>2. mixed \in 0..1 /\ mixed' \in 0..1 /\ (mixed' = 1 => host_failed)
  BY <1>0 DEF LinkIInv, TypeOK, Sweep
<1>3. TypeOK'
  BY <1>0, <1>1, <1>2 DEF LinkIInv, TypeOK, Places
<1>4. InputOwned' /\ Sweep'
  BY <1>0, <1>1, <1>2 DEF LinkIInv, InputOwned, Sweep
<1> QED
  BY <1>0, <1>3, <1>4, QueueFixed, WireFixed, OwnedFixed, AheadFixed DEF LinkIInv

\* An SDO request arrives at a free mailbox.
LEMMA SdoArrivesStep ==
  ASSUME LinkIInv, NEW i \in bus.mailboxes, NEW r \in SdoRequests, SdoArrives(i, r)
  PROVE  LinkIInv'
<1> USE BusFixed
<1> DEFINE m == [op |-> r.op, arg |-> r.arg, late |-> host_failed]
<1>0. /\ sdo[i] = NoMessage /\ sdo' = [sdo EXCEPT ![i] = m]
      /\ UNCHANGED <<bus, jobs, worker, failure, inbox, outbox, main, host_failed, input, od,
                      answer, mixed, future, host>>
  BY DEF SdoArrives, linkVars
<1>1. i \in Axes
  BY BusFacts DEF LinkIInv
<1>2. m \in Messages /\ m # NoMessage
  BY MessageFacts DEF LinkIInv, TypeOK
<1> HIDE DEF m
<1>3. sdo' \in [Axes -> Messages] /\ \A k \in Axes : k # i => sdo'[k] = sdo[k]
  BY <1>0, <1>1, <1>2 DEF LinkIInv, TypeOK
<1>4. TypeOK'
  BY <1>0, <1>3 DEF LinkIInv, TypeOK
<1>5. Owned'
  BY <1>0 DEF LinkIInv, Owned, ReplyTyped
<1>6. MailboxFuture'
  BY <1>0, <1>1, <1>3 DEF LinkIInv, MailboxFuture
<1> QED
  BY <1>0, <1>4, <1>5, <1>6, QueueFixed, WireFixed, AheadFixed, ImageFixed DEF LinkIInv

\* While the link is up, a reply in the socket belongs to a client that waits.
LEMMA ReplyAwaited ==
  ASSUME LinkIInv, ~Closed, Len(outbox) = 1
  PROVE  future[outbox[1].of.from].st = "pending"
<1>1. worker.pc = "recv" /\ outbox[1].of = worker.job
  BY DEF LinkIInv, TypeOK, Wire, Closed
<1>2. future[worker.job.from] = Pending(worker.job)
  BY <1>1 DEF LinkIInv, Queue
<1> QED BY <1>1, <1>2 DEF Pending

\* What process() finds: the future of the message, submitted now or before.
LEMMA SdoFutureFacts ==
  ASSUME LinkIInv, NEW i \in Axes, sdo[i] # NoMessage
  PROVE  LET c == <<"sdo", i>>
             j == [from |-> c, op |-> sdo[i].op, arg |-> sdo[i].arg]
             s == SdoFuture(i)
         IN  /\ j \in Jobs /\ c \in Clients
             /\ future[c] # NoFuture => s.jobs = jobs /\ s.future = future[c]
             /\ future[c] = NoFuture /\ sdo[i].op = "status" /\ host_failed =>
                   s.jobs = jobs /\ s.future = Ready(j, [of |-> j, st |-> "ok", val |-> 0])
             /\ future[c] = NoFuture /\ ~(sdo[i].op = "status" /\ host_failed) =>
                   s = Submit(jobs, j)
<1>1. sdo[i] \in Messages \ {NoMessage}
  BY DEF LinkIInv, TypeOK
<1>2. [from |-> <<"sdo", i>>, op |-> sdo[i].op, arg |-> sdo[i].arg] \in Jobs
  BY <1>1, JobsBuilt
<1>3. <<"sdo", i>> \in Clients
  BY DEF Clients
<1> QED BY <1>2, <1>3 DEF SdoFuture, SubmitSdo

\* The mailbox of an axis is processed.
LEMMA ProcessMailboxStep ==
  ASSUME LinkIInv, ProcessMailbox
  PROVE  LinkIInv'
<1> USE BusFixed
<1> DEFINE i == main.i
           c == <<"sdo", main.i>>
           j == [from |-> c, op |-> sdo[i].op, arg |-> sdo[i].arg]
           s == SdoFuture(i)
           accepted == Accepted(s.future)
<1>0. /\ main.at = "mailbox" /\ main' = [main EXCEPT !.at = "submit"]
      /\ UNCHANGED <<bus, worker, failure, inbox, outbox, host_failed, input, mixed, host>>
  BY DEF ProcessMailbox
<1>1. main' \in Places /\ main'.at = "submit" /\ main'.pass = main.pass
  BY <1>0, PlaceFacts
<1>2. i \in Axes /\ c \in Clients /\ future[c] \in Futures
  BY PlaceFacts, BusFacts, JobsHeld DEF LinkIInv
<1>3. InputOwned' /\ Sweep'
  BY <1>0, <1>1 DEF LinkIInv, InputOwned, Sweep
<1>4. SUFFICES ASSUME \/ UNCHANGED <<jobs, future, od, sdo>> /\ answer' = "none"
                      \/ /\ sdo[i] # NoMessage /\ s.future.st = "pending"
                         /\ answer' = "none" /\ jobs' = s.jobs
                         /\ future' = [future EXCEPT ![c] = s.future]
                         /\ UNCHANGED <<od, sdo>>
                      \/ /\ sdo[i] # NoMessage /\ IsReady(s.future)
                         /\ answer' = IF accepted THEN "ok" ELSE "abort"
                         /\ od' = IF accepted /\ sdo[i].op # "status"
                                  THEN [od EXCEPT ![i] = s.future.got.val] ELSE od
                         /\ sdo' = [sdo EXCEPT ![i] = NoMessage]
                         /\ future' = [future EXCEPT ![c] = NoFuture]
                         /\ UNCHANGED jobs
               PROVE  LinkIInv'
  BY DEF ProcessMailbox
<1>5. CASE UNCHANGED <<jobs, future, od, sdo>> /\ answer' = "none"
  <2>1. TypeOK'
    BY <1>0, <1>1, <1>5 DEF LinkIInv, TypeOK, Places
  <2> QED
    BY <1>0, <1>3, <1>5, <2>1, QueueFixed, WireFixed, OwnedFixed, AheadFixed DEF LinkIInv
<1>6. CASE /\ sdo[i] # NoMessage /\ s.future.st = "pending"
           /\ answer' = "none" /\ jobs' = s.jobs
           /\ future' = [future EXCEPT ![c] = s.future]
           /\ UNCHANGED <<od, sdo>>
  <2>1. CASE future[c] # NoFuture
    <3>1. jobs' = jobs /\ future' = future
      BY <2>1, <1>2, <1>6, SdoFutureFacts DEF LinkIInv, TypeOK
    <3>2. TypeOK'
      BY <1>0, <1>1, <1>6, <3>1 DEF LinkIInv, TypeOK, Places
    <3> QED
      BY <1>0, <1>3, <1>6, <3>1, <3>2, QueueFixed, WireFixed, OwnedFixed, AheadFixed
      DEF LinkIInv
  <2>2. CASE future[c] = NoFuture
    <3>1. j \in Jobs /\ j.from = c /\ j.op = sdo[i].op
      BY <1>2, <1>6, SdoFutureFacts
    <3>2. s = Submit(jobs, j)
      <4>1. \A r : Ready(j, r).st # "pending"
        BY DEF Ready
      <4>2. ~(sdo[i].op = "status" /\ host_failed)
        <5> SUFFICES ASSUME sdo[i].op = "status" /\ host_failed PROVE FALSE
          OBVIOUS
        <5>1. s.future = Ready(j, [of |-> j, st |-> "ok", val |-> 0])
          BY <2>2, <1>2, <1>6, SdoFutureFacts
        <5> QED BY <4>1, <5>1, <1>6
      <4> QED BY <4>2, <2>2, <1>2, <1>6, SdoFutureFacts
    <3> HIDE DEF j
    <3>3. /\ jobs' = Submit(jobs, j).jobs
          /\ future' = [future EXCEPT ![j.from] = Submit(jobs, j).future]
      BY <1>6, <3>1, <3>2
    <3>4. /\ jobs' \in Seq(Jobs) /\ Len(jobs') <= bus.queue
          /\ failure => Len(jobs') = 0
          /\ future' \in [Clients -> Futures]
          /\ future'[c].st \in {"pending", "exception"} /\ future'[c].asked = j
          /\ \A d \in Clients : d # c => future'[d] = future[d]
          /\ Queue' /\ Owned'
      BY <1>0, <2>2, <3>1, <3>3, SubmitFacts
    <3>5. TypeOK'
      BY <1>0, <1>1, <1>6, <3>4 DEF LinkIInv, TypeOK, Places
    <3>6. Wire'
      BY <1>0, <3>4 DEF LinkIInv, Wire, ReplyTyped
    <3>7. \A k \in Axes : k # i => future'[<<"sdo", k>>] = future[<<"sdo", k>>]
      BY <3>4, BusFacts DEF LinkIInv
    <3>8. MailboxFuture'
      BY <1>0, <1>6, <3>1, <3>4, <3>7 DEF LinkIInv, MailboxFuture
    <3>9. ModelAhead'
      <4>1. future[c].st # "value" /\ future'[c].st # "value"
        BY <2>2, <3>4, NoFutureFacts
      <4>2. Closed' <=> Closed
        BY <1>0 DEF Closed
      <4>3. \A k \in Axes : \/ future'[<<"sdo", k>>] = future[<<"sdo", k>>]
                            \/ /\ future[<<"sdo", k>>].st # "value"
                               /\ future'[<<"sdo", k>>].st # "value"
        BY <4>1, <3>7
      <4> HIDE DEF i, c, s
      <4> QED BY <4>2, <4>3, <1>0, <1>6 DEF LinkIInv, ModelAhead, AfterReply
    <3> QED BY <1>0, <1>3, <3>4, <3>5, <3>6, <3>8, <3>9 DEF LinkIInv
  <2> QED BY <2>1, <2>2
<1>7. CASE /\ sdo[i] # NoMessage /\ IsReady(s.future)
           /\ answer' = IF accepted THEN "ok" ELSE "abort"
           /\ od' = IF accepted /\ sdo[i].op # "status"
                    THEN [od EXCEPT ![i] = s.future.got.val] ELSE od
           /\ sdo' = [sdo EXCEPT ![i] = NoMessage]
           /\ future' = [future EXCEPT ![c] = NoFuture]
           /\ UNCHANGED jobs
  <2>0. sdo' \in [Axes -> Messages] /\ \A k \in Axes : k # i => sdo'[k] = sdo[k]
    BY <1>2, <1>7 DEF LinkIInv, TypeOK, Messages
  <2>1. answer' \in {"ok", "abort"}
    BY <1>7
  <2>2. Wire'
    BY <1>0, <1>7, WireFixed
  <2>3. CASE future[c] = NoFuture
    <3>1. future' = future
      BY <2>3, <1>2, <1>7 DEF LinkIInv, TypeOK
    <3>2. od' = od
      <4>1. CASE sdo[i].op = "status"
        BY <4>1, <1>7
      <4>2. CASE sdo[i].op # "status"
        <5>1. s = Submit(jobs, j)
          BY <4>2, <2>3, <1>2, <1>7, SdoFutureFacts
        <5>2. s.future.st # "value"
          BY <5>1 DEF Submit, Broken, Pending
        <5> QED BY <5>2, <1>7 DEF Accepted
      <4> QED BY <4>1, <4>2
    <3>3. TypeOK'
      BY <1>0, <1>1, <1>7, <2>0, <2>1, <3>1, <3>2 DEF LinkIInv, TypeOK, Places
    <3>4. Owned'
      BY <1>0, <3>1 DEF LinkIInv, Owned, ReplyTyped
    <3>5. MailboxFuture'
      BY <1>0, <2>0, <2>3, <3>1, NoFutureFacts DEF LinkIInv, MailboxFuture
    <3> QED
      BY <1>0, <1>3, <1>7, <2>2, <3>1, <3>2, <3>3, <3>4, <3>5, QueueFixed, AheadFixed
      DEF LinkIInv
  <2>4. CASE future[c] # NoFuture
    <3>1. s.future = future[c] /\ IsReady(future[c])
      BY <2>4, <1>2, <1>7, SdoFutureFacts
    <3>2. /\ future' \in [Clients -> Futures] /\ future'[c] = NoFuture
          /\ \A d \in Clients : d # c => future'[d] = future[d]
          /\ Queue' /\ Owned'
      BY <1>0, <1>2, <1>7, <3>1, FutureCleared
    <3>3. \A k \in Axes : k # i => future'[<<"sdo", k>>] = future[<<"sdo", k>>]
      BY <3>2, BusFacts DEF LinkIInv
    <3>4. /\ future[c].st \in {"value", "exception"}
          /\ future[c].asked \in Jobs /\ future[c].asked.from = c
          /\ future[c].asked.op = sdo[i].op
      BY <1>2, <3>1, FutureCases DEF LinkIInv, Owned, MailboxFuture, IsReady
    <3>5. future[c].st = "value" =>
            /\ future[c].got.of = future[c].asked
            /\ sdo[i].op # "status" => future[c].got.val \in OdValues
      BY <1>2, <3>4, JobFacts DEF LinkIInv, Owned, ReplyTyped
    <3>6. /\ od' \in [Axes -> OdValues]
          /\ \A k \in Axes : k # i => od'[k] = od[k]
          /\ od'[i] = IF future[c].st = "value" THEN AfterReply(od[i], future[c].got) ELSE od[i]
      BY <1>2, <1>7, <3>1, <3>4, <3>5 DEF LinkIInv, TypeOK, AfterReply, Accepted
    <3>7. TypeOK'
      BY <1>0, <1>1, <1>7, <2>0, <2>1, <3>2, <3>6 DEF LinkIInv, TypeOK, Places
    <3>8. MailboxFuture'
      BY <1>0, <2>0, <3>2, <3>3, NoFutureFacts DEF LinkIInv, MailboxFuture
    <3>9. ModelAhead'
      <4>0. Closed' <=> Closed
        BY <1>0 DEF Closed
      <4> SUFFICES ASSUME ~Closed, NEW k \in Axes
                   PROVE  host.od[k] = IF future'[<<"sdo", k>>].st = "value"
                                         THEN AfterReply(od'[k], future'[<<"sdo", k>>].got)
                                       ELSE IF Len(outbox) = 1 /\ outbox[1].of.from = <<"sdo", k>>
                                         THEN AfterReply(od'[k], outbox[1])
                                       ELSE od'[k]
        BY <1>0, <4>0 DEF ModelAhead, AfterReply
      <4>1. CASE k # i
        <5>1. od'[k] = od[k] /\ future'[<<"sdo", k>>] = future[<<"sdo", k>>]
          BY <4>1, <3>3, <3>6
        <5> QED BY <5>1 DEF LinkIInv, ModelAhead
      <4>2. CASE k = i
        <5>1. future'[c].st # "value"
          BY <3>2, NoFutureFacts
        <5>2. ~(Len(outbox) = 1 /\ outbox[1].of.from = c)
          BY <3>4, ReplyAwaited
        <5>3. host.od[i] = IF future[c].st = "value" THEN AfterReply(od[i], future[c].got)
                           ELSE od[i]
          BY <1>2, <5>2 DEF LinkIInv, ModelAhead
        <5> QED BY <4>2, <5>1, <5>2, <5>3, <3>6
      <4> QED BY <4>1, <4>2
    <3> QED BY <1>0, <1>3, <2>2, <3>2, <3>7, <3>8, <3>9 DEF LinkIInv
  <2> QED BY <2>3, <2>4
<1> QED BY <1>4, <1>5, <1>6, <1>7
\* A cycle or an idle is submitted for an axis, or nothing is.
LEMMA SubmitPdoStep ==
  ASSUME LinkIInv, SubmitPdo
  PROVE  LinkIInv'
<1> USE BusFixed
<1> DEFINE i == main.i
           c == <<"pdo", main.i>>
<1>0. /\ main.at = "submit" /\ main' = AfterSubmit /\ answer' = "none"
      /\ UNCHANGED <<bus, worker, failure, inbox, outbox, host_failed, input, od, sdo, mixed,
                      host>>
  BY DEF SubmitPdo
<1>1. i \in Axes /\ c \in Clients /\ main.pass = 1
  BY <1>0, PlaceFacts, BusFacts DEF LinkIInv, Sweep
<1>2. main' \in Places /\ main'.at \in {"mailbox", "check"} /\ main'.pass = 1
  <2>1. CASE i < bus.n
    <3>1. main' = [main EXCEPT !.at = "mailbox", !.i = i + 1]
      BY <2>1, <1>0 DEF AfterSubmit
    <3>2. i + 1 \in Axes
      BY <2>1, <1>1, PlaceFacts DEF Axes
    <3> QED BY <3>1, <3>2, <1>1, PlaceFacts DEF Places
  <2>2. CASE ~(i < bus.n)
    <3>1. main' = [at |-> "check", pass |-> 1, i |-> 1] /\ 1 \in Axes
      BY <2>2, <1>0, BusFacts DEF AfterSubmit, LinkIInv
    <3> QED BY <3>1 DEF Places
  <2> QED BY <2>1, <2>2
<1>3. InputOwned' /\ Sweep'
  BY <1>0, <1>2 DEF LinkIInv, InputOwned, Sweep
<1>4. CASE UNCHANGED <<jobs, future>>
  <2>1. TypeOK'
    BY <1>0, <1>2, <1>4 DEF LinkIInv, TypeOK, Places
  <2> QED
    BY <1>0, <1>3, <1>4, <2>1, QueueFixed, WireFixed, OwnedFixed, AheadFixed DEF LinkIInv
<1>5. ASSUME NEW op \in {"cycle", "idle"}, NEW x \in Outputs, NEW j,
             j = [from |-> c, op |-> op, arg |-> x], future[c] = NoFuture,
             jobs' = Submit(jobs, j).jobs,
             future' = [future EXCEPT ![c] = Submit(jobs, j).future]
      PROVE  LinkIInv'
  <2>1. j \in Jobs /\ j.from = c
    BY <1>1, <1>5, JobsBuilt
  <2>2. /\ jobs' \in Seq(Jobs) /\ Len(jobs') <= bus.queue
        /\ failure => Len(jobs') = 0
        /\ future' \in [Clients -> Futures]
        /\ \A d \in Clients : d # c => future'[d] = future[d]
        /\ Queue' /\ Owned'
    BY <1>0, <1>5, <2>1, SubmitFacts
  <2>3. TypeOK'
    BY <1>0, <1>2, <2>2 DEF LinkIInv, TypeOK, Places
  <2>4. Wire'
    BY <1>0, <2>2 DEF LinkIInv, Wire, ReplyTyped
  <2>5. \A k \in Axes : future'[<<"sdo", k>>] = future[<<"sdo", k>>]
    BY <1>1, <2>2, BusFacts DEF LinkIInv
  <2>6. MailboxFuture'
    BY <1>0, <2>5 DEF LinkIInv, MailboxFuture
  <2>7. ModelAhead'
    BY <1>0, <2>5 DEF LinkIInv, ModelAhead, AfterReply, Closed
  <2> QED BY <1>0, <1>3, <2>2, <2>3, <2>4, <2>6, <2>7 DEF LinkIInv
<1> QED BY <1>4, <1>5 DEF SubmitPdo, MaySubmit

-----------------------------------------------------------------------------
(***************************************************************************)
(* The theorems.                                                           *)
(***************************************************************************)

\* The process starts with no request under way.
LEMMA LinkInit == Init => LinkIInv
<1> SUFFICES ASSUME Init PROVE LinkIInv
  OBVIOUS
<1> USE DEF Init
<1>1. bus \in Buses /\ bus.queue \in Nat \ {0} /\ 1 \in Axes
  BY BusFacts
<1>2. /\ jobs = <<>> /\ Len(jobs) = 0 /\ Len(inbox) = 0 /\ Len(outbox) = 0
      /\ jobs \in Seq(Jobs) /\ inbox \in Seq(Jobs) /\ outbox \in Seq(HostReplies)
  OBVIOUS
<1>3. PICK v \in OdValues : /\ host = [alive |-> TRUE, od |-> [i \in Axes |-> v]]
                            /\ od = [i \in Axes |-> v]
  OBVIOUS
<1>4. \A c \in Clients : future[c] = NoFuture
  OBVIOUS
<1>5. worker.pc = "wait" /\ worker.job = NoJob
  OBVIOUS
<1>6. TypeOK
  <2>1. worker \in [pc : {"wait", "recv", "failing", "dead"}, job : Jobs \cup {NoJob}]
    OBVIOUS
  <2>2. future \in [Clients -> Futures]
    BY NoFutureFacts
  <2>3. host \in [alive : BOOLEAN, od : [Axes -> OdValues]] /\ od \in [Axes -> OdValues]
    BY <1>3
  <2>4. main \in [at : {"check", "axis", "route", "mailbox", "submit"},
                   pass : {1, 2}, i : Axes]
    BY <1>1
  <2>5. input \in [Axes -> [fault : BOOLEAN, of : Jobs \cup {NoJob}]]
    OBVIOUS
  <2>6. sdo \in [Axes -> Messages]
    BY DEF Messages
  <2>7. failure \in BOOLEAN /\ host_failed \in BOOLEAN /\ answer = "none" /\ mixed = 0
    OBVIOUS
  <2> HIDE DEF Init
  <2> QED BY <1>1, <1>2, <2>7, <2>1, <2>2, <2>3, <2>4, <2>5, <2>6 DEF TypeOK
<1>7. Queue
  <2>1. 1..Len(jobs) = {}
    BY <1>2
  <2> QED BY <1>4, <1>5, <2>1, NoFutureFacts DEF Queue
<1>8. Wire
  <2>1. 1..Len(outbox) = {}
    BY <1>2
  <2> QED BY <1>2, <1>5, <2>1 DEF Wire
<1>9. Owned
  BY <1>4, NoFutureFacts DEF Owned
<1>10. \A i \in Axes : future[<<"sdo", i>>].st = "none"
  BY <1>1, <1>4, BusFacts, NoFutureFacts
<1>11. MailboxFuture
  BY <1>10 DEF MailboxFuture
<1>12. ModelAhead
  <2>1. \A i \in Axes : host.od[i] = od[i]
    BY <1>3
  <2> HIDE DEF Init
  <2>2. \A i \in Axes : future[<<"sdo", i>>].st # "value"
    BY <1>10
  <2>3. Len(outbox) # 1
    BY <1>2
  <2> QED BY <2>1, <2>2, <2>3 DEF ModelAhead
<1>13. InputOwned
  BY DEF InputOwned
<1>14. Sweep
  BY DEF Sweep
<1> QED
  BY <1>1, <1>6, <1>7, <1>8, <1>9, <1>11, <1>12, <1>13, <1>14 DEF LinkIInv

\* Every step keeps the invariant.
LEMMA LinkNext == LinkIInv /\ [Next]_vars => LinkIInv'
<1>1. ASSUME LinkIInv, UNCHANGED vars PROVE LinkIInv'
  <2> USE BusFixed, <1>1 DEF vars, linkVars, mainVars
  <2>1. TypeOK'
    BY DEF LinkIInv, TypeOK
  <2> QED BY <2>1, QueueFixed, WireFixed, OwnedFixed, AheadFixed, ImageFixed DEF LinkIInv
<1> QED
  BY <1>1, TakeStep, ReceiveStep, FailStep, PublishStep, ServeStep, HostExitStep,
     PumpCheckStep, PumpAxisStep, NoFrameStep, RouteStep, SdoArrivesStep,
     ProcessMailboxStep, SubmitPdoStep DEF Next, Worker, Slave

\* The link's inductive invariant holds in every reachable state.
THEOREM LinkInvariant == Spec => []LinkIInv
BY LinkInit, LinkNext, PTL DEF Spec

\* Every future that waits is backed by exactly one job, in the queue or in the
\* worker's hands, and every variable has its type (LinkInv): no interleaving of
\* the EtherCAT thread with the worker's failure loses a request or gives a
\* client two.
THEOREM LinkBacked == Spec => []LinkInv
<1>1. LinkIInv => LinkInv
  <2> SUFFICES ASSUME LinkIInv, NEW c \in Clients
               PROVE  /\ Cardinality(Held(c)) <= 1
                      /\ future[c].st = "pending" <=> Held(c) # {}
    BY DEF LinkInv, FuturesBacked, LinkIInv
  <2>1. DOMAIN jobs = 1..Len(jobs) /\ Len(jobs) \in Nat
    BY DEF LinkIInv, TypeOK
  <2>2. \A k, l \in Held(c) : k = l
    <3>1. \A k \in 1..Len(jobs) : k # 0
      BY <2>1
    <3> QED BY <2>1, <3>1 DEF Held, LinkIInv, Queue
  <2>3. Cardinality(Held(c)) <= 1
    <3>1. CASE Held(c) = {}
      BY <3>1, FS_EmptySet
    <3>2. CASE Held(c) # {}
      <4>1. PICK k : Held(c) = {k}
        BY <2>2, <3>2
      <4> QED BY <4>1, FS_Singleton
    <3> QED BY <3>1, <3>2
  <2>4. ASSUME future[c].st = "pending" PROVE Held(c) # {}
    BY <2>1, <2>4 DEF Held, LinkIInv, Queue
  <2>5. ASSUME NEW k \in Held(c) PROVE future[c].st = "pending"
    <3>1. PICK j : future[c] = Pending(j)
      BY <2>1 DEF Held, LinkIInv, Queue
    <3> QED BY <3>1 DEF Pending
  <2> QED BY <2>3, <2>4, <2>5
<1> QED BY LinkInvariant, <1>1, PTL

\* A reply reaches the request it answers and the axis that asked, whatever
\* the deadlines and the order of the steps (RepliesMatch).
THEOREM RepliesReachTheirRequest == Spec => []RepliesMatch
<1>1. LinkIInv => RepliesMatch
  BY DEF LinkIInv, Owned, InputOwned, RepliesMatch
<1> QED BY LinkInvariant, <1>1, PTL

\* While the link is up, an axis without an SDO in progress has the same value
\* in the local dictionary and in the model (LocalOdMatches).
THEOREM DictionariesAgree == Spec => []LocalOdMatches
<1>1. LinkIInv => LocalOdMatches
  <2> SUFFICES ASSUME LinkIInv, NEW i \in Axes, sdo[i] = NoMessage, ~Closed
               PROVE  od[i] = host.od[i]
    BY DEF LocalOdMatches
  <2>1. future[<<"sdo", i>>].st = "none"
    BY DEF LinkIInv, MailboxFuture
  <2>2. ~(Len(outbox) = 1 /\ outbox[1].of.from = <<"sdo", i>>)
    BY <2>1, ReplyAwaited
  <2> QED BY <2>1, <2>2 DEF LinkIInv, ModelAhead
<1> QED BY LinkInvariant, <1>1, PTL
-----------------------------------------------------------------------------
(***************************************************************************)
(* What a step may never do.                                               *)
(***************************************************************************)

\* Of all steps only the visit of an axis by pump touches the process image.
LEMMA ImageSteps ==
  ASSUME [Next]_vars
  PROVE  \/ PumpAxis
         \/ input' = input /\ (host_failed => host_failed')
BY DEF Next, Worker, Slave, Take, Receive, Fail, Publish, Serve, HostExit, PumpCheck, NoFrame,
       Route, SdoArrives, ProcessMailbox, SubmitPdo, vars, linkVars, mainVars

\* After a host failure pump copies nothing and takes no axis out of Fault.
LEMMA PumpFrozen ==
  ASSUME LinkIInv, PumpAxis, host_failed
  PROVE  /\ host_failed'
         /\ \A i \in Axes : input'[i].of = input[i].of /\ (input[i].fault => input'[i].fault)
<1> DEFINE n == main.i
<1>1. n \in Axes
  BY PlaceFacts
<1>2. host_failed' /\ input' = [input EXCEPT ![n] = Faulted(input[n])]
  BY DEF PumpAxis, Fresh
<1>3. input[n] \in [fault : BOOLEAN, of : Jobs \cup {NoJob}]
  BY <1>1 DEF LinkIInv, TypeOK
<1>4. Faulted(input[n]).of = input[n].of /\ Faulted(input[n]).fault
  BY <1>3 DEF Faulted
<1> HIDE DEF n
<1>5. \A i \in Axes : input'[i] = IF i = n THEN Faulted(input[n]) ELSE input[i]
  BY <1>1, <1>2 DEF LinkIInv, TypeOK
<1> QED BY <1>2, <1>4, <1>5

\* After a host failure the process image is frozen in Fault, and at most one
\* frame shows the master some axes in Fault and others not
\* (FrozenAfterFailure).
THEOREM ImageFrozen == Spec => FrozenAfterFailure
<1>1. ASSUME LinkIInv, LinkIInv', [Next]_vars
      PROVE  /\ AtMostOneMixedFrame'
             /\ host_failed => /\ host_failed'
                               /\ \A i \in Axes : /\ input'[i].of = input[i].of
                                                  /\ input[i].fault => input'[i].fault
  <2>1. AtMostOneMixedFrame'
    BY <1>1 DEF LinkIInv, Sweep, AtMostOneMixedFrame
  <2> QED BY <1>1, <2>1, ImageSteps, PumpFrozen
<1> QED BY LinkInvariant, <1>1, PTL DEF Spec, FrozenAfterFailure

-----------------------------------------------------------------------------
(***************************************************************************)
(* The queue never refuses a job when it has room for one of every client. *)
(***************************************************************************)

\* The clients that submit jobs: the axes, and the mailboxes in use.
Submitters == ({"pdo"} \X Axes) \cup ({"sdo"} \X bus.mailboxes)

\* How many positions a queue has.
LEMMA IntervalCardinality ==
  ASSUME NEW n \in Nat
  PROVE  IsFiniteSet(1..n) /\ Cardinality(1..n) = n
<1>1. 1 \in Int /\ n \in Int
  OBVIOUS
<1>2. IsFiniteSet(1..n) /\ Cardinality(1..n) = IF 1 > n THEN 0 ELSE n - 1 + 1
  BY <1>1, FS_Interval
<1> QED BY <1>2

\* There are as many of them as the queue has room for.
LEMMA SubmittersFinite ==
  ASSUME bus \in Buses
  PROVE  /\ IsFiniteSet(Submitters)
         /\ Cardinality(Submitters) = bus.n + Cardinality(bus.mailboxes)
         /\ Cardinality(bus.mailboxes) \in Nat
<1>1. bus.n \in Nat \ {0} /\ bus.mailboxes \subseteq Axes
  BY BusFacts
<1>2. IsFiniteSet(Axes) /\ Cardinality(Axes) = bus.n
  BY <1>1, IntervalCardinality DEF Axes
<1>3. IsFiniteSet(bus.mailboxes) /\ Cardinality(bus.mailboxes) \in Nat
  BY <1>1, <1>2, FS_Subset, FS_CardinalityType
<1>4. ASSUME NEW a, NEW S, IsFiniteSet(S)
      PROVE  IsFiniteSet({a} \X S) /\ Cardinality({a} \X S) = Cardinality(S)
  <2>1. IsFiniteSet({a}) /\ Cardinality({a}) = 1
    BY FS_Singleton
  <2>2. /\ IsFiniteSet({a} \X S)
        /\ Cardinality({a} \X S) = Cardinality({a}) * Cardinality(S)
    BY <1>4, <2>1, FS_Product
  <2>3. Cardinality(S) \in Nat
    BY <1>4, FS_CardinalityType
  <2> QED BY <2>1, <2>2, <2>3
<1> DEFINE P == {"pdo"} \X Axes
           Q == {"sdo"} \X bus.mailboxes
<1>5. IsFiniteSet(P) /\ Cardinality(P) = bus.n
  BY <1>2, <1>4
<1>6. IsFiniteSet(Q) /\ Cardinality(Q) = Cardinality(bus.mailboxes)
  BY <1>3, <1>4
<1>7. P \cap Q = {}
  OBVIOUS
<1>8. Submitters = P \cup Q
  BY DEF Submitters
<1> HIDE DEF P, Q
<1>9. Cardinality(P \cap Q) = 0
  BY <1>7, FS_EmptySet
<1>10. /\ IsFiniteSet(P \cup Q)
       /\ Cardinality(P \cup Q) = Cardinality(P) + Cardinality(Q) - Cardinality(P \cap Q)
  BY <1>5, <1>6, FS_Union
<1> QED BY <1>1, <1>3, <1>5, <1>6, <1>8, <1>9, <1>10

\* A client that waits for nothing finds room for its job: the jobs in the queue
\* are of other clients, one of each.
LEMMA QueueHasRoom ==
  ASSUME LinkIInv, GivenUp, Room, NEW c \in Submitters, future[c] = NoFuture
  PROVE  Len(jobs) < bus.queue
<1> DEFINE others == Submitters \ {c}
           g == [k \in 1..Len(jobs) |-> jobs[k].from]
<1>1. /\ IsFiniteSet(Submitters) /\ Cardinality(bus.mailboxes) \in Nat
      /\ Cardinality(Submitters) = bus.n + Cardinality(bus.mailboxes)
      /\ bus.n \in Nat /\ bus.queue \in Nat
  BY SubmittersFinite, BusFacts DEF LinkIInv
<1>2. IsFiniteSet(others) /\ Cardinality(others) = bus.n + Cardinality(bus.mailboxes) - 1
  BY <1>1, FS_RemoveElement
<1>3. ASSUME NEW k \in 1..Len(jobs) PROVE jobs[k].from \in others
  <2>1. jobs[k].from \in Clients /\ future[jobs[k].from].st = "pending"
    <3>1. future[jobs[k].from] = Pending(jobs[k])
      BY DEF LinkIInv, Queue
    <3> QED BY <3>1, JobsHeld DEF Pending
  <2>2. jobs[k].from # c
    BY <2>1, NoFutureFacts
  <2>3. \A i \in Axes : jobs[k].from = <<"sdo", i>> => i \in bus.mailboxes
    BY <2>1 DEF LinkIInv, MailboxFuture, GivenUp
  <2> QED BY <2>1, <2>2, <2>3 DEF Clients, Submitters
<1>4. g \in Injection(1..Len(jobs), others)
  <2>1. g \in [1..Len(jobs) -> others]
    BY <1>3
  <2>2. \A k, l \in 1..Len(jobs) : g[k] = g[l] => k = l
    BY DEF LinkIInv, Queue
  <2> QED BY <2>1, <2>2, Fun_IsInj
<1>5. Len(jobs) \in Nat /\ Cardinality(1..Len(jobs)) = Len(jobs)
  <2>1. Len(jobs) \in Nat
    BY JobsHeld
  <2> QED BY <2>1, IntervalCardinality
<1> HIDE DEF others, g
<1>6. Cardinality(1..Len(jobs)) <= Cardinality(others)
  BY <1>2, <1>4, FS_Injection
<1> QED BY <1>1, <1>2, <1>5, <1>6 DEF Room
\* GivenUp is about these variables only, and a future that is dropped or
\* stays does not disturb it.
LEMMA GivenUpFixed ==
  ASSUME LinkIInv, GivenUp, UNCHANGED <<bus, host_failed, sdo>>, Closed => Closed',
         \A c \in Clients : future'[c] \in {future[c], NoFuture}
  PROVE  GivenUp'
<1>1. \A i \in Axes : <<"sdo", i>> \in Clients
  BY BusFacts DEF LinkIInv
<1> QED BY <1>1, BusFixed, NoFutureFacts DEF GivenUp

\* With room in the queue only the worker's failure breaks a future.
LEMMA GivenUpNext ==
  ASSUME LinkIInv, GivenUp, Room, [Next]_vars
  PROVE  GivenUp'
<1> USE BusFixed
<1>0. \A i \in Axes : <<"sdo", i>> \in Clients /\ <<"pdo", i>> \in Clients
  BY BusFacts DEF LinkIInv
<1>1. ASSUME UNCHANGED <<bus, worker, future, host_failed, sdo>> PROVE GivenUp'
  BY <1>1 DEF GivenUp, Closed
<1>2. ASSUME Serve \/ HostExit \/ NoFrame \/ Route \/ UNCHANGED vars PROVE GivenUp'
  BY <1>1, <1>2 DEF Serve, HostExit, NoFrame, Route, vars, linkVars, mainVars
<1>3. ASSUME Take PROVE GivenUp'
  <2>1. ~Closed /\ UNCHANGED <<bus, future, host_failed, sdo>>
    BY <1>3 DEF Take, mainVars, Closed
  <2> QED BY <2>1, GivenUpFixed
<1>4. ASSUME Receive \/ Fail PROVE GivenUp'
  <2>1. ~Closed /\ worker.pc = "recv" /\ UNCHANGED <<bus, host_failed, sdo>>
    BY <1>4 DEF Receive, Fail, mainVars, Closed
  <2>2. /\ ~host_failed /\ \A c \in Clients : future[c].st # "exception"
        /\ \A i \in Axes : sdo[i] # NoMessage => ~sdo[i].late
    BY <2>1 DEF GivenUp
  <2>3. CASE Receive
    <3>1. future' = [future EXCEPT ![worker.job.from] = Ready(worker.job, Head(outbox))]
      BY <2>3 DEF Receive
    <3>2. \A c \in Clients : future'[c].st # "exception"
      BY <2>2, <3>1 DEF LinkIInv, TypeOK, Ready
    <3> QED BY <2>1, <2>2, <3>2 DEF GivenUp
  <2>4. CASE Fail
    <3>1. Closed'
      BY <2>4 DEF Fail, Closed
    <3> QED BY <2>1, <2>2, <3>1 DEF GivenUp
  <2> QED BY <1>4, <2>3, <2>4
<1>5. ASSUME Publish PROVE GivenUp'
  <2>1. Closed' /\ UNCHANGED <<bus, host_failed, sdo>>
    BY <1>5 DEF Publish, mainVars, Closed
  <2>2. \A c \in Clients : future'[c].st = "value" => future[c].st = "value"
    BY <1>5 DEF Publish, Broken
  <2> QED BY <1>0, <2>1, <2>2 DEF GivenUp
<1>6. ASSUME PumpCheck PROVE GivenUp'
  <2>1. /\ host_failed' = (host_failed \/ failure)
        /\ UNCHANGED <<bus, worker, future, sdo>>
    BY <1>6 DEF PumpCheck, linkVars
  <2>2. failure => Closed
    BY DEF LinkIInv, Wire, Closed
  <2> QED BY <2>1, <2>2 DEF GivenUp, Closed
<1>7. ASSUME PumpAxis PROVE GivenUp'
  <2>1. main.i \in Axes
    BY PlaceFacts
  <2>2. /\ host_failed' = (host_failed \/ future[<<"pdo", main.i>>].st = "exception")
        /\ UNCHANGED <<bus, worker, sdo>>
        /\ \/ future' = future
           \/ future' = [future EXCEPT ![<<"pdo", main.i>>] = NoFuture]
    BY <1>7 DEF PumpAxis, linkVars
  <2>3. host_failed' => Closed
    BY <1>0, <2>1, <2>2 DEF GivenUp
  <2>4. \A c \in Clients : future'[c] \in {future[c], NoFuture}
    BY <2>2 DEF LinkIInv, TypeOK
  <2> QED BY <1>0, <2>2, <2>3, <2>4, NoFutureFacts DEF GivenUp, Closed
<1>8. ASSUME NEW i \in bus.mailboxes, NEW r \in SdoRequests, SdoArrives(i, r) PROVE GivenUp'
  <2> DEFINE m == [op |-> r.op, arg |-> r.arg, late |-> host_failed]
  <2>1. /\ sdo[i] = NoMessage /\ sdo' = [sdo EXCEPT ![i] = m]
        /\ UNCHANGED <<bus, worker, future, host_failed>>
    BY <1>8 DEF SdoArrives, linkVars
  <2>2. i \in Axes /\ m.late = host_failed
    BY BusFacts DEF LinkIInv
  <2> HIDE DEF m
  <2>3. sdo'[i] = m /\ \A k \in Axes : k # i => sdo'[k] = sdo[k]
    BY <2>1, <2>2 DEF LinkIInv, TypeOK
  <2>4. future[<<"sdo", i>>].st = "none"
    BY <2>1, <2>2 DEF LinkIInv, MailboxFuture
  <2>5. ASSUME NEW k \in Axes, sdo'[k] # NoMessage
        PROVE  /\ k \in bus.mailboxes
               /\ sdo'[k].late =>
                    Closed /\ (sdo'[k].op # "status" => future[<<"sdo", k>>].st # "value")
    <3>1. CASE k = i
      BY <3>1, <2>2, <2>3, <2>4 DEF GivenUp
    <3>2. CASE k # i
      BY <3>2, <2>3, <2>5 DEF GivenUp
    <3> QED BY <3>1, <3>2
  <2> QED BY <2>1, <2>5 DEF GivenUp, Closed
<1>9. ASSUME ProcessMailbox PROVE GivenUp'
  <2> DEFINE i == main.i
             c == <<"sdo", main.i>>
             s == SdoFuture(i)
  <2>1. i \in Axes /\ c \in Clients
    BY <1>0, PlaceFacts
  <2>2. UNCHANGED <<bus, worker, host_failed>>
    BY <1>9 DEF ProcessMailbox
  <2>3. /\ \A k \in Axes : sdo'[k] \in {sdo[k], NoMessage}
        /\ \/ future' = future
           \/ future' = [future EXCEPT ![c] = s.future] /\ s.future.st = "pending"
           \/ future' = [future EXCEPT ![c] = NoFuture]
    BY <1>9, <2>1 DEF ProcessMailbox, LinkIInv, TypeOK
  <2> HIDE DEF s
  <2>4. \A d \in Clients : \/ future'[d] = future[d]
                           \/ future'[d].st \in {"pending", "none"}
    BY <2>1, <2>3, NoFutureFacts DEF LinkIInv, TypeOK
  <2> QED BY <1>0, <2>2, <2>3, <2>4 DEF GivenUp, Closed
<1>10. ASSUME SubmitPdo PROVE GivenUp'
  <2> DEFINE i == main.i
             c == <<"pdo", main.i>>
  <2>1. i \in Axes /\ c \in Clients /\ c \in Submitters
    BY <1>0, PlaceFacts DEF Submitters
  <2>2. UNCHANGED <<bus, worker, host_failed, sdo>>
    BY <1>10 DEF SubmitPdo
  <2>3. CASE UNCHANGED <<jobs, future>>
    BY <1>1, <2>2, <2>3
  <2>4. ASSUME NEW j, future[c] = NoFuture, future' = [future EXCEPT ![c] = Submit(jobs, j).future]
        PROVE  GivenUp'
    <3>1. Len(jobs) < bus.queue /\ Len(jobs) \in Nat /\ bus.queue \in Nat
      BY <2>1, <2>4, QueueHasRoom, JobsHeld, BusFacts DEF LinkIInv
    <3>2. Submit(jobs, j).future = IF failure THEN Broken(j) ELSE Pending(j)
      BY <3>1 DEF Submit
    <3>3. failure => Closed
      BY DEF LinkIInv, Wire, Closed
    <3>4. /\ Submit(jobs, j).future.st # "value"
          /\ Submit(jobs, j).future.st = "exception" => Closed
      BY <3>2, <3>3 DEF Broken, Pending
    <3>5. \A d \in Clients : future'[d] \in {future[d], Submit(jobs, j).future}
      BY <2>4 DEF LinkIInv, TypeOK
    <3> QED BY <1>0, <2>2, <3>4, <3>5 DEF GivenUp, Closed
  <2> QED BY <1>10, <2>3, <2>4 DEF SubmitPdo, MaySubmit
<1> QED
  BY <1>2, <1>3, <1>4, <1>5, <1>6, <1>7, <1>8, <1>9, <1>10 DEF Next, Worker, Slave

\* An SDO access that needs the model and arrives after the host failed is
\* answered with an abort (SdoAbortsAfterHostFailure), on every bus whose queue
\* has room for one job of each axis and of each mailbox in use. In the code
\* the bound is 64, so this covers every bus of up to 32 axes.
THEOREM LateSdoAborts ==
  ASSUME \A b \in Buses : b.queue >= b.n + Cardinality(b.mailboxes)
  PROVE  Spec => SdoAbortsAfterHostFailure
<1>1. Init => GivenUp
  <2> SUFFICES ASSUME Init PROVE GivenUp
    OBVIOUS
  <2>1. /\ \A c \in Clients : future[c] = NoFuture
        /\ \A i \in Axes : sdo[i] = NoMessage
        /\ ~host_failed
    BY DEF Init
  <2> QED BY <2>1, NoFutureFacts DEF GivenUp
<1>2. LinkIInv => Room
  BY DEF LinkIInv, Room
<1>3. LinkIInv /\ GivenUp /\ [Next]_vars => GivenUp'
  BY <1>2, GivenUpNext
<1>4. Spec => []GivenUp
  BY <1>1, <1>3, LinkInvariant, PTL DEF Spec
<1>5. ASSUME LinkIInv, GivenUp, [Next]_vars, NEW i \in Axes, sdo[i] # NoMessage,
             sdo'[i] = NoMessage, sdo[i].late, sdo[i].op # "status"
      PROVE  answer' = "abort"
  <2>1. Closed /\ future[<<"sdo", i>>].st # "value"
    BY <1>5 DEF GivenUp
  <2>2. ProcessMailbox
    <3>1. ASSUME NEW k \in bus.mailboxes, NEW r \in SdoRequests, SdoArrives(k, r)
          PROVE  FALSE
      <4>1. sdo[k] = NoMessage /\ \A l \in Axes : l # k => sdo'[l] = sdo[l]
        BY <3>1, <1>5 DEF SdoArrives, LinkIInv, TypeOK
      <4> QED
        BY <4>1, <1>5
    <3> QED
      BY <1>5, <3>1 DEF Next, Worker, Slave, Take, Receive, Fail, Publish, Serve, HostExit,
         PumpCheck, PumpAxis, NoFrame, Route, SubmitPdo, vars, linkVars, mainVars
  <2>3. /\ main.i = i
        /\ answer' = IF Accepted(SdoFuture(i).future) THEN "ok" ELSE "abort"
    BY <1>5, <2>2, PlaceFacts DEF ProcessMailbox, LinkIInv, TypeOK
  <2>4. SdoFuture(i).future.st # "value"
    <3>1. CASE future[<<"sdo", i>>] = NoFuture
      BY <3>1, <1>5 DEF SdoFuture, SubmitSdo, Submit, Broken, Pending
    <3>2. CASE future[<<"sdo", i>>] # NoFuture
      BY <3>2, <2>1 DEF SdoFuture
    <3> QED BY <3>1, <3>2
  <2> QED BY <2>3, <2>4 DEF Accepted
<1>6. ASSUME LinkIInv, GivenUp, [Next]_vars
      PROVE  \A i \in Axes : sdo[i] # NoMessage /\ sdo'[i] = NoMessage /\ sdo[i].late
                             /\ sdo[i].op # "status" => answer' = "abort"
  BY <1>5, <1>6
<1> QED BY LinkInvariant, <1>4, <1>6, PTL DEF Spec, SdoAbortsAfterHostFailure
=============================================================================
