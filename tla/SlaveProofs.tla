---------------------------- MODULE SlaveProofs -----------------------------
(***************************************************************************)
(* Proofs about the EtherCAT slave: its SDO gateway, for every dictionary  *)
(* and every set of masters, and its process data, for every number of     *)
(* slaves, every size of the image, every fixed mapping and every frame of *)
(* disjoint logical writes.                                                *)
(***************************************************************************)
EXTENDS SdoGateway, ProcessData, FiniteSetTheorems, TLAPS

(***************************************************************************)
(* The inductive invariant.                                                *)
(***************************************************************************)

\* A request has one message, which is open until it is answered; only an
\* access that passed all checks waits for the model.
Processing ==
  /\ \A m, k \in messages : m.id = k.id => m = k
  /\ \A m \in messages : m.at # "segments" => verdict[m.id] = "open"
  /\ \A m \in messages : m.at = "waiting" => Own(m) /\ Permitted(m)
  /\ \A m \in messages : m.at = "segments" => ~Own(m)

\* A reply in the queue is the only one to its request, true and well formed.
QueueTrue ==
  /\ \A a, b \in 1..Len(queue) : queue[a].id = queue[b].id => a = b
  /\ \A a \in 1..Len(queue) :
       /\ verdict[queue[a].id] # "open" /\ queue[a].id \notin dropped
       /\ Len(sent[queue[a].id]) = 0
       /\ queue[a].kind = "ok" <=> verdict[queue[a].id] = "accepted"
       /\ queue[a].kind = "abort" => ~queue[a].low

\* What the master received is the one true reply to its request.
SentTrue ==
  \A i \in Ids :
    /\ Len(sent[i]) <= 1
    /\ Len(sent[i]) = 1 => /\ verdict[i] # "open" /\ i \notin dropped
                           /\ sent[i][1].kind = "ok" <=> verdict[i] = "accepted"

\* A request that was decided has its reply, or it was dropped.
Decided ==
  \A i \in Ids : verdict[i] # "open" /\ i \notin dropped =>
    Len(sent[i]) = 1 \/ \E a \in 1..Len(queue) : queue[a].id = i

\* A reply is dropped only where the master has two requests in flight.
Pipelining ==
  /\ \A i \in dropped : verdict[i] # "open" /\ Outstanding > 1
  /\ Cardinality(InFlight) <= Outstanding

GatewayIInv == TypeOK /\ Processing /\ QueueTrue /\ SentTrue /\ Decided /\ Pipelining

-----------------------------------------------------------------------------
(***************************************************************************)
(* Lemmas about the data of the model.                                     *)
(***************************************************************************)

ReplyRecords == [id : Ids, kind : {"ok", "abort"}, low : BOOLEAN]
Places == {"new", "waiting", "segments"}
Answers == {"none", "ok", "error", "exception", "garbled"}
MessageRecords == [id : Ids, req : Requests, at : Places, got : Answers]

\* TypeOK with its sets named.
LEMMA TypeFacts ==
  ASSUME TypeOK
  PROVE  /\ Ids = 1..Len(verdict) /\ Len(verdict) \in Nat
         /\ verdict \in [Ids -> {"open", "accepted", "refused"}]
         /\ sent \in [Ids -> Seq(ReplyRecords)]
         /\ queue \in Seq(ReplyRecords) /\ Len(queue) \in Nat
         /\ \A a \in 1..Len(queue) : queue[a] \in ReplyRecords
         /\ \A m \in messages : m \in MessageRecords
         /\ \A i \in Ids : Len(sent[i]) \in Nat
<1>1. verdict \in Seq({"open", "accepted", "refused"})
  BY DEF TypeOK
<1>2. /\ Ids = 1..Len(verdict) /\ Len(verdict) \in Nat
      /\ verdict \in [Ids -> {"open", "accepted", "refused"}]
  BY <1>1 DEF Ids
<1>3. sent \in [Ids -> Seq(ReplyRecords)] /\ queue \in Seq(ReplyRecords)
  BY DEF TypeOK, ReplyRecords
<1>4. Len(queue) \in Nat /\ \A a \in 1..Len(queue) : queue[a] \in ReplyRecords
  BY <1>3
<1>5. \A i \in Ids : Len(sent[i]) \in Nat
  BY <1>3
<1>6. \A m \in messages : m \in MessageRecords
  BY DEF TypeOK, MessageRecords, Places, Answers
<1> QED BY <1>2, <1>3, <1>4, <1>5, <1>6

\* The fields of a message and of a reply.
LEMMA RecordFacts ==
  /\ \A m \in MessageRecords : m.id \in Ids /\ m.req \in Requests /\ m.at \in Places
                               /\ m.got \in Answers
  /\ \A r \in ReplyRecords : r.id \in Ids /\ r.kind \in {"ok", "abort"} /\ r.low \in BOOLEAN
BY DEF MessageRecords, ReplyRecords

\* A message whose place or answer changes.
LEMMA MessageChanged ==
  ASSUME NEW m \in MessageRecords, NEW p \in Places, NEW a \in Answers
  PROVE  /\ [m EXCEPT !.at = p] \in MessageRecords
         /\ [m EXCEPT !.at = p].id = m.id /\ [m EXCEPT !.at = p].req = m.req
         /\ [m EXCEPT !.at = p].at = p
         /\ [m EXCEPT !.got = a] \in MessageRecords
         /\ [m EXCEPT !.got = a].id = m.id /\ [m EXCEPT !.got = a].req = m.req
         /\ [m EXCEPT !.got = a].at = m.at
BY DEF MessageRecords

\* The checks look at the request only.
LEMMA ChecksOfRequest ==
  ASSUME NEW m, NEW k, m.req = k.req
  PROVE  (Own(m) <=> Own(k)) /\ (Permitted(m) <=> Permitted(k))
BY DEF Own, Permitted, Addressed, GoodData, Truncated, Length, Offset, Key, Write

\* The masters as the code's callers allow them.
LEMMA MasterFacts ==
  ASSUME master \in DOMAIN Masters
  PROVE  /\ Outstanding \in Nat \ {0} /\ RequestMax \in Nat
         /\ \A r \in Requests : r.length \in Nat /\ r.claimed \in Nat /\ r.val \in Values
BY GatewayAssumption DEF Outstanding, RequestMax, Requests

\* With the master the bounds and the requests stay.
LEMMA MasterFixed ==
  ASSUME master' = master
  PROVE  Outstanding' = Outstanding /\ RequestMax' = RequestMax /\ Requests' = Requests
BY DEF Outstanding, RequestMax, Requests

\* With one more element a list keeps the others.
LEMMA AppendFacts ==
  ASSUME NEW S, NEW s \in Seq(S), NEW e \in S
  PROVE  /\ Append(s, e) \in Seq(S) /\ Len(Append(s, e)) = Len(s) + 1
         /\ \A k \in 1..Len(s) : Append(s, e)[k] = s[k]
         /\ Append(s, e)[Len(s) + 1] = e
OBVIOUS

\* The head and the tail of a list.
LEMMA TailFacts ==
  ASSUME NEW S, NEW s \in Seq(S), s # <<>>
  PROVE  /\ Len(s) \in Nat \ {0} /\ Head(s) = s[1] /\ s[1] \in S
         /\ Tail(s) \in Seq(S) /\ Len(Tail(s)) = Len(s) - 1
         /\ \A k \in 1..Len(Tail(s)) : Tail(s)[k] = s[k + 1] /\ k + 1 \in 1..Len(s)
OBVIOUS

\* A function on an initial segment is a list.
LEMMA FunctionIsSeq ==
  ASSUME NEW S, NEW n \in Nat, NEW f \in [1..n -> S]
  PROVE  f \in Seq(S) /\ Len(f) = n
OBVIOUS

\* A list is the function of its elements.
LEMMA SeqIsFunction ==
  ASSUME NEW S, NEW s \in Seq(S)
  PROVE  s = [a \in 1..Len(s) |-> s[a]]
OBVIOUS

\* A list of a set is one of a larger set.
LEMMA SeqWidens ==
  ASSUME NEW S, NEW T, S \subseteq T, NEW s \in Seq(S)
  PROVE  s \in Seq(T)
<1>1. s \in [1..Len(s) -> T] /\ Len(s) \in Nat
  OBVIOUS
<1> QED BY <1>1

\* The requests in flight are finitely many, and one more request makes at most
\* one more of them.
LEMMA InFlightFacts ==
  ASSUME TypeOK
  PROVE  /\ IsFiniteSet(InFlight) /\ Cardinality(InFlight) \in Nat
         /\ \A T : T \subseteq InFlight => Cardinality(T) <= Cardinality(InFlight)
         /\ \A T, x : T \subseteq InFlight \cup {x} => Cardinality(T) <= Cardinality(InFlight) + 1
<1>1. IsFiniteSet(1..Len(verdict))
  <2>1. 1 \in Int /\ Len(verdict) \in Int
    BY TypeFacts
  <2> QED BY <2>1, FS_Interval
<1>2. InFlight \in SUBSET (1..Len(verdict))
  BY TypeFacts DEF InFlight
<1>3. IsFiniteSet(InFlight)
  BY <1>1, <1>2, FS_Subset
<1>4. Cardinality(InFlight) \in Nat
  BY <1>3, FS_CardinalityType
<1>5. ASSUME NEW T, T \subseteq InFlight PROVE Cardinality(T) <= Cardinality(InFlight)
  <2>1. T \in SUBSET InFlight
    BY <1>5
  <2> QED BY <2>1, <1>3, FS_Subset
<1>6. ASSUME NEW T, NEW x, T \subseteq InFlight \cup {x}
      PROVE  Cardinality(T) <= Cardinality(InFlight) + 1
  <2>1. /\ IsFiniteSet(InFlight \cup {x})
        /\ Cardinality(InFlight \cup {x}) \in {Cardinality(InFlight), Cardinality(InFlight) + 1}
    BY <1>3, FS_AddElement
  <2>2. T \in SUBSET (InFlight \cup {x})
    BY <1>6
  <2>3. /\ Cardinality(T) <= Cardinality(InFlight \cup {x})
        /\ IsFiniteSet(T)
    BY <2>1, <2>2, FS_Subset
  <2>4. Cardinality(T) \in Nat
    BY <2>3, FS_CardinalityType
  <2> QED BY <1>4, <2>1, <2>3, <2>4
<1> QED BY <1>3, <1>4, <1>5, <1>6
-----------------------------------------------------------------------------
(***************************************************************************)
(* The steps.                                                              *)
(***************************************************************************)

\* TypeOK in terms of the named sets, after a step that makes no request.
LEMMA TypeKept ==
  ASSUME TypeOK, master' = master, Ids' = Ids, Len(verdict') = Len(verdict),
         verdict' \in Seq({"open", "accepted", "refused"}),
         sent' \in [Ids -> Seq(ReplyRecords)], queue' \in Seq(ReplyRecords),
         \A m \in messages' : m \in MessageRecords,
         dropped' \subseteq Ids, od' \in [DOMAIN Entry -> Values]
  PROVE  TypeOK'
<1>1. RequestMax' = RequestMax /\ Requests' = Requests
  BY MasterFixed
<1>2. messages' \subseteq [id : Ids, req : Requests, at : {"new", "waiting", "segments"},
                           got : {"none", "ok", "error", "exception", "garbled"}]
  BY DEF MessageRecords, Places, Answers
<1>3. /\ sent' \in [Ids -> Seq([id : Ids, kind : {"ok", "abort"}, low : BOOLEAN])]
      /\ queue' \in Seq([id : Ids, kind : {"ok", "abort"}, low : BOOLEAN])
  BY DEF ReplyRecords
<1>4. master' \in DOMAIN Masters /\ Len(verdict') <= RequestMax'
  BY <1>1 DEF TypeOK
<1> QED BY <1>1, <1>2, <1>3, <1>4 DEF TypeOK

\* A message moves on without a verdict.
LEMMA MovesOn ==
  ASSUME GatewayIInv, NEW m \in messages, NEW k \in MessageRecords,
         m.at # "segments", k.id = m.id, k.at \in {"new", "waiting"},
         k.at = "waiting" => Own(k) /\ Permitted(k),
         messages' = (messages \ {m}) \cup {k},
         UNCHANGED <<master, queue, sent, verdict, dropped, od>>
  PROVE  GatewayIInv'
<1> USE DEF GatewayIInv
<1>1. Ids' = Ids /\ Outstanding' = Outstanding
  BY MasterFixed DEF Ids
<1>2. TypeOK'
  <2>1. dropped' \subseteq Ids /\ od' \in [DOMAIN Entry -> Values]
    BY DEF TypeOK
  <2>2. verdict' \in Seq({"open", "accepted", "refused"})
    BY DEF TypeOK
  <2> QED BY <1>1, <2>1, <2>2, TypeFacts, TypeKept
<1>3. Processing'
  <2>1. \A x \in messages' : x \in messages \/ x = k
    OBVIOUS
  <2>2. \A x \in messages' : x # k => x \in messages /\ x.id # k.id
    BY DEF Processing
  <2>3. \A x, y \in messages' : x.id = y.id => x = y
    BY <2>1, <2>2 DEF Processing
  <2>4. \A x \in messages' : x.at # "segments" => verdict[x.id] = "open"
    BY <2>1 DEF Processing
  <2>5. \A x \in messages' : x.at = "waiting" => Own(x) /\ Permitted(x)
    BY <2>1 DEF Processing
  <2>6. \A x \in messages' : x.at = "segments" => ~Own(x)
    BY <2>1 DEF Processing
  <2> QED BY <2>3, <2>4, <2>5, <2>6 DEF Processing, Own, Permitted, Addressed, GoodData, Truncated,
                                Length, Offset, Key, Write
<1>4. InFlight' = InFlight
  BY <1>1 DEF InFlight
<1> QED
  BY <1>1, <1>2, <1>3, <1>4 DEF QueueTrue, SentTrue, Decided, Pipelining

\* A request that is being processed has no reply and was not dropped.
LEMMA Undecided ==
  ASSUME GatewayIInv, NEW m \in messages, m.at # "segments"
  PROVE  /\ m.id \in Ids /\ verdict[m.id] = "open"
         /\ Len(sent[m.id]) = 0 /\ m.id \notin dropped
         /\ \A a \in 1..Len(queue) : queue[a].id # m.id
<1> USE DEF GatewayIInv
<1>1. m.id \in Ids /\ verdict[m.id] = "open"
  BY TypeFacts, RecordFacts DEF Processing
<1>2. Len(sent[m.id]) \in Nat
  BY <1>1, TypeFacts
<1>3. Len(sent[m.id]) <= 1 /\ Len(sent[m.id]) # 1
  BY <1>1 DEF SentTrue
<1>4. m.id \notin dropped
  BY <1>1 DEF Pipelining
<1>5. \A a \in 1..Len(queue) : queue[a].id # m.id
  BY <1>1 DEF QueueTrue
<1>6. \A n \in Nat : n <= 1 /\ n # 1 => n = 0
  OBVIOUS
<1> QED BY <1>1, <1>2, <1>3, <1>4, <1>5, <1>6, Zenon

\* A message is decided: its verdict is set and its reply queued.
LEMMA DecideStep ==
  ASSUME GatewayIInv, NEW m \in messages, m.at # "segments",
         NEW v \in {"accepted", "refused"}, NEW r \in ReplyRecords,
         r.id = m.id, r.kind = "ok" <=> v = "accepted", r.kind = "abort" => ~r.low,
         verdict' = [verdict EXCEPT ![m.id] = v],
         queue' = Append(queue, r),
         messages' \subseteq (messages \ {m}) \cup {[m EXCEPT !.at = "segments"]},
         [m EXCEPT !.at = "segments"] \in messages' => ~Own(m),
         od' \in [DOMAIN Entry -> Values],
         UNCHANGED <<master, sent, dropped>>
  PROVE  GatewayIInv'
<1> USE DEF GatewayIInv
<1>0. m \in MessageRecords /\ m.id \in Ids /\ verdict[m.id] = "open"
  BY TypeFacts, RecordFacts DEF Processing
<1>1. /\ Ids' = Ids /\ Outstanding' = Outstanding /\ Len(verdict') = Len(verdict)
      /\ verdict' \in Seq({"open", "accepted", "refused"})
      /\ verdict'[m.id] = v /\ \A i \in Ids : i # m.id => verdict'[i] = verdict[i]
  BY <1>0, MasterFixed DEF Ids, TypeOK
<1>2. /\ queue' \in Seq(ReplyRecords) /\ Len(queue') = Len(queue) + 1 /\ Len(queue) \in Nat
      /\ \A a \in 1..Len(queue) : queue'[a] = queue[a] /\ queue[a].id \in Ids
      /\ queue'[Len(queue) + 1] = r
  BY TypeFacts, AppendFacts, RecordFacts
<1>3. \A a \in 1..Len(queue) : queue[a].id # m.id
  BY Undecided
<1>4. Len(sent[m.id]) = 0 /\ m.id \notin dropped
  BY Undecided
<1> DEFINE k == [m EXCEPT !.at = "segments"]
<1>5. k \in MessageRecords /\ k.id = m.id /\ k.at = "segments" /\ k.req = m.req
  BY <1>0, MessageChanged DEF Places, Answers
<1> HIDE DEF k
<1>6. \A x \in messages' :
         \/ x = k
         \/ x \in messages /\ x # m /\ x.id # m.id /\ x \in MessageRecords
  BY TypeFacts DEF Processing, k
<1>7. TypeOK'
  <2>1. dropped' \subseteq Ids
    BY DEF TypeOK
  <2>2. \A x \in messages' : x \in MessageRecords
    BY <1>5, <1>6
  <2> QED BY <1>1, <1>2, <2>1, <2>2, TypeFacts, TypeKept
<1>8. Processing'
  <2>1. \A x, y \in messages' : x.id = y.id => x = y
    BY <1>5, <1>6 DEF Processing
  <2>2. \A x \in messages' : x.at # "segments" => verdict'[x.id] = "open"
    BY <1>1, <1>5, <1>6, RecordFacts DEF Processing
  <2>3. \A x \in messages' : x.at = "waiting" => Own(x) /\ Permitted(x)
    BY <1>5, <1>6 DEF Processing
  <2>4. \A x \in messages' : x.at = "segments" => ~Own(x)
    BY <1>5, <1>6, ChecksOfRequest DEF Processing, k
  <2> QED BY <2>1, <2>2, <2>3, <2>4 DEF Processing, Own, Permitted, Addressed, GoodData, Truncated,
                                Length, Offset, Key, Write
<1>9. \A a \in 1..Len(queue') : \/ a \in 1..Len(queue) /\ queue'[a] = queue[a]
                                \/ a = Len(queue) + 1 /\ queue'[a] = r
  <2> TAKE a \in 1..Len(queue')
  <2>1. a \in 1..Len(queue) \/ a = Len(queue) + 1
    BY <1>2
  <2> QED BY <2>1, <1>2
<1>10. QueueTrue'
  <2>1. \A a, b \in 1..Len(queue') : queue'[a].id = queue'[b].id => a = b
    BY <1>3, <1>9 DEF QueueTrue
  <2>2. ASSUME NEW a \in 1..Len(queue')
        PROVE  /\ verdict'[queue'[a].id] # "open" /\ queue'[a].id \notin dropped
               /\ Len(sent[queue'[a].id]) = 0
               /\ queue'[a].kind = "ok" <=> verdict'[queue'[a].id] = "accepted"
               /\ queue'[a].kind = "abort" => ~queue'[a].low
    <3>1. CASE a \in 1..Len(queue) /\ queue'[a] = queue[a]
      <4>1. verdict'[queue[a].id] = verdict[queue[a].id]
        BY <3>1, <1>1, <1>2, <1>3
      <4> QED BY <3>1, <4>1 DEF QueueTrue
    <3>2. CASE a = Len(queue) + 1 /\ queue'[a] = r
      BY <3>2, <1>1, <1>4
    <3> QED BY <3>1, <3>2, <1>9
  <2> QED BY <2>1, <2>2 DEF QueueTrue
<1>11. SentTrue'
  BY <1>0, <1>1, <1>4 DEF SentTrue
<1>12. Decided'
  <2> SUFFICES ASSUME NEW i \in Ids, verdict'[i] # "open", i \notin dropped
               PROVE  Len(sent[i]) = 1 \/ \E a \in 1..Len(queue') : queue'[a].id = i
    BY <1>1 DEF Decided
  <2>1. CASE i = m.id
    <3>1. Len(queue) + 1 \in 1..Len(queue') /\ queue'[Len(queue) + 1].id = i
      BY <2>1, <1>2
    <3> QED BY <3>1
  <2>2. CASE i # m.id
    <3>1. Len(sent[i]) = 1 \/ \E a \in 1..Len(queue) : queue[a].id = i
      BY <2>2, <1>1 DEF Decided
    <3>2. \A a \in 1..Len(queue) : a \in 1..Len(queue') /\ queue'[a] = queue[a]
      BY <1>2
    <3> QED BY <3>1, <3>2
  <2> QED BY <2>1, <2>2
<1>13. InFlight' = InFlight
  BY <1>1 DEF InFlight
<1>14. Pipelining'
  BY <1>0, <1>1, <1>4, <1>13 DEF Pipelining, TypeOK
<1> QED BY <1>7, <1>8, <1>10, <1>11, <1>12, <1>14

\* A reply is the record of its fields.
LEMMA ReplyIsRecord ==
  ASSUME NEW I, NEW x \in [id : I, kind : {"ok", "abort"}, low : BOOLEAN]
  PROVE  x = [id |-> x.id, kind |-> x.kind, low |-> x.low]
OBVIOUS

\* The correction of one abort.
LEMMA LowCleared ==
  ASSUME NEW I, NEW x \in [id : I, kind : {"ok", "abort"}, low : BOOLEAN]
  PROVE  LET y == [x EXCEPT !.low = FALSE]
         IN  /\ y \in [id : I, kind : {"ok", "abort"}, low : BOOLEAN]
             /\ y.id = x.id /\ y.kind = x.kind /\ ~y.low
             /\ ~x.low => y = x
<1> DEFINE y == [x EXCEPT !.low = FALSE]
<1>1. /\ y \in [id : I, kind : {"ok", "abort"}, low : BOOLEAN]
      /\ y.id = x.id /\ y.kind = x.kind /\ y.low = FALSE
  OBVIOUS
<1> HIDE DEF y
<1>2. ASSUME ~x.low PROVE y = x
  <2>1. x.low = FALSE
    BY <1>2
  <2>2. /\ x = [id |-> x.id, kind |-> x.kind, low |-> x.low]
        /\ y = [id |-> y.id, kind |-> y.kind, low |-> y.low]
    BY <1>1, ReplyIsRecord
  <2> QED BY <1>1, <2>1, <2>2
<1> QED BY <1>1, <1>2 DEF y

\* Aborts that have their form already are left alone: the correction of all
\* replies is that of the last one.
LEMMA NormalizeLast ==
  ASSUME NEW R, NEW q \in Seq(R), NEW r \in R, NEW s \in R,
         s = IF r.kind = "abort" THEN [r EXCEPT !.low = FALSE] ELSE r,
         \A a \in 1..Len(q) : q[a].kind = "abort" => [q[a] EXCEPT !.low = FALSE] = q[a]
  PROVE  NormalizeReplies(Append(q, r)) = Append(q, s)
<1> DEFINE f(x) == IF x.kind = "abort" THEN [x EXCEPT !.low = FALSE] ELSE x
           p == Append(q, r)
           t == Append(q, s)
<1>1. /\ p \in Seq(R) /\ Len(p) = Len(q) + 1 /\ Len(q) \in Nat
      /\ \A a \in 1..Len(q) : p[a] = q[a]
      /\ p[Len(q) + 1] = r /\ DOMAIN p = 1..Len(p)
  BY AppendFacts
<1>2. /\ t \in Seq(R) /\ Len(t) = Len(q) + 1
      /\ \A a \in 1..Len(q) : t[a] = q[a]
      /\ t[Len(q) + 1] = s
  BY AppendFacts
<1>3. f(r) = s /\ \A a \in 1..Len(q) : f(q[a]) = q[a]
  OBVIOUS
<1>4. NormalizeReplies(p) = [a \in 1..Len(p) |-> f(p[a])]
  BY <1>1 DEF NormalizeReplies
<1> HIDE DEF f, p, t
<1>5. \A a \in 1..Len(p) : f(p[a]) = t[a]
  <2> TAKE a \in 1..Len(p)
  <2>1. CASE a \in 1..Len(q)
    BY <2>1, <1>1, <1>2, <1>3
  <2>2. CASE a = Len(q) + 1
    BY <2>2, <1>1, <1>2, <1>3
  <2> QED BY <2>1, <2>2, <1>1
<1>6. t = [a \in 1..Len(p) |-> t[a]]
  <2>1. t = [a \in 1..Len(t) |-> t[a]]
    BY <1>2, SeqIsFunction
  <2> QED BY <2>1, <1>1, <1>2
<1>7. [a \in 1..Len(p) |-> f(p[a])] = [a \in 1..Len(p) |-> t[a]]
  BY <1>5
<1> QED BY <1>4, <1>6, <1>7 DEF p, t

\* One more request.
LEMMA OneMore ==
  ASSUME GatewayIInv, MayAsk, NEW v \in {"open", "accepted", "refused"},
         verdict' = Append(verdict, v), sent' = Append(sent, <<>>),
         UNCHANGED <<master, dropped>>
  PROVE  LET n == Len(verdict) + 1
         IN  /\ Ids' = Ids \cup {n} /\ n \notin Ids
             /\ verdict' \in Seq({"open", "accepted", "refused"})
             /\ Len(verdict') <= RequestMax'
             /\ verdict'[n] = v /\ Len(sent'[n]) = 0 /\ n \notin dropped
             /\ \A i \in Ids : verdict'[i] = verdict[i] /\ sent'[i] = sent[i]
             /\ sent' \in [Ids' -> Seq(ReplyRecords')]
             /\ ReplyRecords \subseteq ReplyRecords' /\ MessageRecords \subseteq MessageRecords'
             /\ Cardinality(InFlight') <= Outstanding'
<1> USE DEF GatewayIInv
<1> DEFINE n == Len(verdict) + 1
<1>1. /\ Ids = 1..Len(verdict) /\ Len(verdict) \in Nat
      /\ verdict \in Seq({"open", "accepted", "refused"})
  BY TypeFacts DEF TypeOK
<1>2. /\ verdict' \in Seq({"open", "accepted", "refused"}) /\ Len(verdict') = n
      /\ verdict'[n] = v /\ \A i \in 1..Len(verdict) : verdict'[i] = verdict[i]
  BY <1>1, AppendFacts
<1>3. Ids' = Ids \cup {n} /\ n \notin Ids
  <2>1. Ids' = 1..n
    BY <1>2 DEF Ids
  <2> QED BY <1>1, <2>1
<1>4. n \notin dropped
  BY <1>3 DEF TypeOK
<1>5. Len(verdict') <= RequestMax'
  BY <1>1, <1>2, MasterFacts, MasterFixed DEF MayAsk, TypeOK
<1>6. /\ ReplyRecords \subseteq ReplyRecords' /\ MessageRecords \subseteq MessageRecords'
  BY <1>3, MasterFixed DEF ReplyRecords, MessageRecords
<1>7. sent \in Seq(Seq(ReplyRecords)) /\ Len(sent) = Len(verdict)
  <2>1. sent \in [1..Len(verdict) -> Seq(ReplyRecords)]
    BY <1>1, TypeFacts
  <2> QED BY <1>1, <2>1, FunctionIsSeq
<1>8. <<>> \in Seq(ReplyRecords)
  OBVIOUS
<1>9. /\ sent' \in Seq(Seq(ReplyRecords)) /\ Len(sent') = n
      /\ sent'[n] = <<>> /\ \A i \in 1..Len(verdict) : sent'[i] = sent[i]
  BY <1>7, <1>8, AppendFacts
<1>10. sent' \in [Ids' -> Seq(ReplyRecords')]
  <2>1. sent' = [a \in 1..n |-> sent'[a]] /\ Ids' = 1..n
    BY <1>2, <1>9, SeqIsFunction DEF Ids
  <2>2. ASSUME NEW a \in 1..n PROVE sent'[a] \in Seq(ReplyRecords')
    <3>1. sent'[a] \in Seq(ReplyRecords)
      BY <1>9
    <3> QED BY <3>1, <1>6, SeqWidens
  <2> QED BY <2>1, <2>2
<1>11. Cardinality(InFlight') <= Outstanding'
  <2>1. InFlight' \subseteq InFlight \cup {n}
    BY <1>1, <1>3, <1>9 DEF InFlight
  <2>2. Cardinality(InFlight') <= Cardinality(InFlight) + 1 /\ Cardinality(InFlight) \in Nat
    BY <2>1, InFlightFacts
  <2>3. Cardinality(InFlight) < Outstanding /\ Outstanding \in Nat /\ Outstanding' = Outstanding
    BY MasterFacts, MasterFixed DEF MayAsk, TypeOK
  <2>4. IsFiniteSet(InFlight')
    <3>1. IsFiniteSet(InFlight \cup {n})
      BY InFlightFacts, FS_AddElement
    <3>2. InFlight' \in SUBSET (InFlight \cup {n})
      BY <2>1
    <3> QED BY <3>1, <3>2, FS_Subset
  <2>5. Cardinality(InFlight') \in Nat
    BY <2>4, FS_CardinalityType
  <2> QED BY <2>2, <2>3, <2>5
<1> QED BY <1>1, <1>2, <1>3, <1>4, <1>5, <1>6, <1>9, <1>10, <1>11

\* A request arrives.
LEMMA ArrivesStep ==
  ASSUME GatewayIInv, NEW r \in Requests, Arrives(r)
  PROVE  GatewayIInv'
<1> USE DEF GatewayIInv
<1> DEFINE n == Len(verdict) + 1
           k == [id |-> n, req |-> r, at |-> "new", got |-> "none"]
<1>0. /\ MayAsk /\ verdict' = Append(verdict, "open") /\ sent' = Append(sent, <<>>)
      /\ messages' = messages \cup {k} /\ UNCHANGED <<master, queue, dropped, od>>
  BY DEF Arrives
<1>1. /\ Ids' = Ids \cup {n} /\ n \notin Ids
      /\ verdict' \in Seq({"open", "accepted", "refused"})
      /\ Len(verdict') <= RequestMax'
      /\ verdict'[n] = "open" /\ Len(sent'[n]) = 0 /\ n \notin dropped
      /\ \A i \in Ids : verdict'[i] = verdict[i] /\ sent'[i] = sent[i]
      /\ sent' \in [Ids' -> Seq(ReplyRecords')]
      /\ ReplyRecords \subseteq ReplyRecords' /\ MessageRecords \subseteq MessageRecords'
      /\ Cardinality(InFlight') <= Outstanding'
  BY <1>0, OneMore
<1>2. \A a \in 1..Len(queue) : queue[a].id \in Ids
  BY TypeFacts, RecordFacts
<1>3. \A m \in messages : m \in MessageRecords /\ m.id \in Ids
  BY TypeFacts, RecordFacts
<1>4. k \in MessageRecords' /\ k.id = n /\ k.at = "new"
  BY <1>0, <1>1, MasterFixed DEF MessageRecords, Places, Answers
<1> HIDE DEF n, k
<1>5. TypeOK'
  <2>1. queue' \in Seq(ReplyRecords')
    BY <1>0, <1>1, TypeFacts, SeqWidens
  <2>2. messages' \subseteq MessageRecords'
    BY <1>0, <1>1, <1>3, <1>4
  <2>3. master' \in DOMAIN Masters /\ dropped' \subseteq Ids' /\ od' \in [DOMAIN Entry -> Values]
    BY <1>0, <1>1 DEF TypeOK
  <2> QED BY <1>1, <2>1, <2>2, <2>3 DEF TypeOK, ReplyRecords, MessageRecords, Places, Answers
<1>6. Processing'
  <2>1. \A x \in messages' : x = k \/ x \in messages
    BY <1>0
  <2>2. \A x, y \in messages' : x.id = y.id => x = y
    BY <1>1, <1>3, <1>4, <2>1 DEF Processing
  <2>3. \A x \in messages' : x.at # "segments" => verdict'[x.id] = "open"
    BY <1>1, <1>3, <1>4, <2>1 DEF Processing
  <2>4. \A x \in messages' : /\ x.at = "waiting" => Own(x) /\ Permitted(x)
                             /\ x.at = "segments" => ~Own(x)
    BY <1>4, <2>1 DEF Processing
  <2> QED BY <2>2, <2>3, <2>4 DEF Processing, Own, Permitted, Addressed, GoodData, Truncated,
                                Length, Offset, Key, Write
<1>7. QueueTrue'
  <2>1. \A a \in 1..Len(queue) : /\ verdict'[queue[a].id] = verdict[queue[a].id]
                                 /\ sent'[queue[a].id] = sent[queue[a].id]
    BY <1>1, <1>2
  <2> QED BY <1>0, <2>1 DEF QueueTrue
<1>8. SentTrue'
  <2>1. \A i \in Ids' : i = n \/ i \in Ids
    BY <1>1
  <2>2. \A i \in Ids : verdict'[i] = verdict[i] /\ sent'[i] = sent[i]
    BY <1>1
  <2>3. Len(sent'[n]) = 0
    BY <1>1
  <2>4. dropped' = dropped
    BY <1>0
  <2> QED BY <2>1, <2>2, <2>3, <2>4 DEF SentTrue
<1>9. Decided'
  <2> SUFFICES ASSUME NEW i \in Ids', verdict'[i] # "open", i \notin dropped
               PROVE  Len(sent'[i]) = 1 \/ \E a \in 1..Len(queue) : queue[a].id = i
    BY <1>0 DEF Decided
  <2>1. i \in Ids /\ verdict[i] # "open" /\ sent'[i] = sent[i]
    BY <1>1
  <2> QED BY <2>1 DEF Decided
<1>10. Pipelining'
  BY <1>0, <1>1, MasterFixed DEF Pipelining, TypeOK
<1> QED BY <1>5, <1>6, <1>7, <1>8, <1>9, <1>10

\* The next segment of a long upload.
LEMMA SegmentStep ==
  ASSUME GatewayIInv, NEW m \in messages, Segment(m)
  PROVE  GatewayIInv'
<1> USE DEF GatewayIInv
<1> DEFINE n == Len(verdict) + 1
           r == [id |-> n, kind |-> "ok", low |-> FALSE]
<1>0. /\ MayAsk /\ verdict' = Append(verdict, "accepted") /\ sent' = Append(sent, <<>>)
      /\ queue' = NormalizeReplies(Append(queue, r))
      /\ messages' \subseteq messages /\ UNCHANGED <<master, dropped, od>>
  BY DEF Segment
<1>1. /\ Ids' = Ids \cup {n} /\ n \notin Ids
      /\ verdict' \in Seq({"open", "accepted", "refused"})
      /\ Len(verdict') <= RequestMax'
      /\ verdict'[n] = "accepted" /\ Len(sent'[n]) = 0 /\ n \notin dropped
      /\ \A i \in Ids : verdict'[i] = verdict[i] /\ sent'[i] = sent[i]
      /\ sent' \in [Ids' -> Seq(ReplyRecords')]
      /\ ReplyRecords \subseteq ReplyRecords' /\ MessageRecords \subseteq MessageRecords'
      /\ Cardinality(InFlight') <= Outstanding'
  BY <1>0, OneMore
<1>2. \A a \in 1..Len(queue) : queue[a].id \in Ids
  BY TypeFacts, RecordFacts
<1>3. \A x \in messages : x \in MessageRecords /\ x.id \in Ids
  BY TypeFacts, RecordFacts
<1>4. r \in ReplyRecords' /\ r.id = n /\ r.kind = "ok"
  BY <1>1 DEF ReplyRecords
<1>5. queue \in Seq(ReplyRecords') /\ Len(queue) \in Nat
  BY <1>1, TypeFacts, SeqWidens
<1>6. \A a \in 1..Len(queue) : queue[a].kind = "abort" => ~queue[a].low
  BY DEF QueueTrue
<1> HIDE DEF n, r
<1>7. queue' = Append(queue, r)
  <2>1. \A a \in 1..Len(queue) : queue[a].kind = "abort" => [queue[a] EXCEPT !.low = FALSE] = queue[a]
    BY <1>6, TypeFacts, LowCleared DEF ReplyRecords
  <2> DEFINE Final(x) == IF x.kind = "abort" THEN [x EXCEPT !.low = FALSE] ELSE x
  <2>2. \A x, y \in ReplyRecords' :
          y = Final(x) => NormalizeReplies(Append(queue, x)) = Append(queue, y)
    BY <1>5, <2>1, NormalizeLast
  <2>3. r = Final(r)
    BY <1>4
  <2> HIDE DEF Final
  <2> QED BY <1>0, <1>4, <2>2, <2>3
<1>8. /\ queue' \in Seq(ReplyRecords') /\ Len(queue') = Len(queue) + 1
      /\ \A a \in 1..Len(queue) : queue'[a] = queue[a]
      /\ queue'[Len(queue) + 1] = r
  BY <1>4, <1>5, <1>7, AppendFacts
<1>9. \A a \in 1..Len(queue') : \/ a \in 1..Len(queue) /\ queue'[a] = queue[a]
                                \/ a = Len(queue) + 1 /\ queue'[a] = r
  <2> TAKE a \in 1..Len(queue')
  <2>1. a \in 1..Len(queue) \/ a = Len(queue) + 1
    BY <1>5, <1>8
  <2> QED BY <2>1, <1>8
<1>10. TypeOK'
  <2>1. messages' \subseteq MessageRecords'
    BY <1>0, <1>1, <1>3
  <2>2. master' \in DOMAIN Masters /\ dropped' \subseteq Ids' /\ od' \in [DOMAIN Entry -> Values]
    BY <1>0, <1>1 DEF TypeOK
  <2> QED BY <1>1, <1>8, <2>1, <2>2 DEF TypeOK, ReplyRecords, MessageRecords, Places, Answers
<1>11. Processing'
  <2>1. \A x \in messages' : x \in messages /\ verdict'[x.id] = verdict[x.id]
    BY <1>0, <1>1, <1>3
  <2> QED BY <2>1 DEF Processing, Own, Permitted, Addressed, GoodData, Truncated, Length,
                      Offset, Key, Write
<1>12. dropped' = dropped
  BY <1>0
<1>13. QueueTrue'
  <2>0. \A a \in 1..Len(queue) : queue[a].id # n
    BY <1>1, <1>2
  <2>1. \A a, b \in 1..Len(queue') : queue'[a].id = queue'[b].id => a = b
    BY <1>4, <1>9, <2>0 DEF QueueTrue
  <2>2. ASSUME NEW a \in 1..Len(queue')
        PROVE  /\ verdict'[queue'[a].id] # "open" /\ queue'[a].id \notin dropped
               /\ Len(sent'[queue'[a].id]) = 0
               /\ queue'[a].kind = "ok" <=> verdict'[queue'[a].id] = "accepted"
               /\ queue'[a].kind = "abort" => ~queue'[a].low
    <3>1. CASE a \in 1..Len(queue) /\ queue'[a] = queue[a]
      <4>1. /\ verdict'[queue[a].id] = verdict[queue[a].id]
            /\ sent'[queue[a].id] = sent[queue[a].id]
        BY <3>1, <1>1, <1>2
      <4> QED BY <3>1, <4>1 DEF QueueTrue
    <3>2. CASE a = Len(queue) + 1 /\ queue'[a] = r
      BY <3>2, <1>1, <1>4
    <3> QED BY <3>1, <3>2, <1>9
  <2> QED BY <2>1, <2>2, <1>12 DEF QueueTrue
<1>14. SentTrue'
  <2>1. \A i \in Ids' : i = n \/ i \in Ids
    BY <1>1
  <2>2. \A i \in Ids : verdict'[i] = verdict[i] /\ sent'[i] = sent[i]
    BY <1>1
  <2>3. Len(sent'[n]) = 0
    BY <1>1
  <2> QED BY <2>1, <2>2, <2>3, <1>12 DEF SentTrue
<1>15. Decided'
  <2> SUFFICES ASSUME NEW i \in Ids', verdict'[i] # "open", i \notin dropped
               PROVE  Len(sent'[i]) = 1 \/ \E a \in 1..Len(queue') : queue'[a].id = i
    BY <1>12 DEF Decided
  <2>1. CASE i = n
    <3>1. Len(queue) + 1 \in 1..Len(queue') /\ queue'[Len(queue) + 1].id = i
      BY <2>1, <1>4, <1>5, <1>8
    <3> QED BY <3>1, Zenon
  <2>2. CASE i \in Ids
    <3>1. Len(sent'[i]) = 1 \/ \E a \in 1..Len(queue) : queue[a].id = i
      BY <2>2, <1>1 DEF Decided
    <3>2. \A a \in 1..Len(queue) : a \in 1..Len(queue') /\ queue'[a] = queue[a]
      BY <1>5, <1>8
    <3> QED BY <3>1, <3>2, Zenon
  <2> QED BY <2>1, <2>2, <1>1
<1>16. Pipelining'
  BY <1>1, <1>12, MasterFixed, <1>0 DEF Pipelining, TypeOK
<1> QED BY <1>10, <1>11, <1>13, <1>14, <1>15, <1>16

\* A list of one element at the end is that element at the end.
LEMMA ConcatIsAppend ==
  ASSUME NEW S, NEW s \in Seq(S), NEW e \in S
  PROVE  s \o <<e>> = Append(s, e)
OBVIOUS

\* The replies the gateway and KickCAT make for a message.
LEMMA ReplyFacts ==
  ASSUME TypeOK, NEW m \in messages, NEW kind \in {"ok", "abort"}, NEW low \in BOOLEAN
  PROVE  /\ Reply(m, kind, low) \in ReplyRecords /\ Reply(m, kind, low).id = m.id
         /\ Reply(m, kind, low).kind = kind /\ Reply(m, kind, low).low = low
<1>1. m.id \in Ids
  BY TypeFacts, RecordFacts
<1> QED BY <1>1 DEF Reply, ReplyRecords

\* A message for the model is decided with a reply in its final form.
LEMMA FinalizeStep ==
  ASSUME GatewayIInv, NEW m \in messages, m.at # "segments",
         NEW v \in {"accepted", "refused"}, NEW kind \in {"ok", "abort"},
         kind = "ok" <=> v = "accepted",
         Finalize(m, v, <<Reply(m, kind, FALSE)>>),
         od' \in [DOMAIN Entry -> Values], UNCHANGED <<master, sent, dropped>>
  PROVE  GatewayIInv'
<1> DEFINE r == Reply(m, kind, FALSE)
<1>1. TypeOK
  BY DEF GatewayIInv
<1>2. r \in ReplyRecords /\ r.id = m.id /\ r.kind = kind /\ r.low = FALSE
  BY <1>1, ReplyFacts
<1>3. /\ messages' = messages \ {m} /\ verdict' = [verdict EXCEPT ![m.id] = v]
      /\ queue' = queue \o <<r>>
  BY DEF Finalize
<1> HIDE DEF r
<1>4. queue' = Append(queue, r)
  BY <1>1, <1>2, <1>3, TypeFacts, ConcatIsAppend
<1>5. m \in MessageRecords
  BY <1>1, TypeFacts
<1>6. [m EXCEPT !.at = "segments"] \notin messages'
  <2>1. /\ [m EXCEPT !.at = "segments"].id = m.id
        /\ [m EXCEPT !.at = "segments"].at = "segments"
    BY <1>5, MessageChanged DEF Places, Answers
  <2> QED BY <2>1, <1>3 DEF GatewayIInv, Processing
<1>7. messages' \subseteq (messages \ {m}) \cup {[m EXCEPT !.at = "segments"]}
  BY <1>3
<1> QED BY <1>2, <1>3, <1>4, <1>6, <1>7, DecideStep

\* An access that fails a check is refused.
LEMMA RefuseStep ==
  ASSUME GatewayIInv, NEW m \in messages, Refuse(m)
  PROVE  GatewayIInv'
<1>1. m.at # "segments" /\ od' \in [DOMAIN Entry -> Values]
  BY DEF Refuse, GatewayIInv, Processing, TypeOK
<1>2. Finalize(m, "refused", <<Reply(m, "abort", FALSE)>>) /\ UNCHANGED <<master, sent, dropped>>
  BY DEF Refuse
<1> QED BY <1>1, <1>2, FinalizeStep

\* A request is submitted.
LEMMA SubmitStep ==
  ASSUME GatewayIInv, NEW m \in messages, Submit(m)
  PROVE  GatewayIInv'
<1> DEFINE k == [m EXCEPT !.at = "waiting"]
<1>1. m \in MessageRecords
  BY TypeFacts DEF GatewayIInv
<1>2. k \in MessageRecords /\ k.id = m.id /\ k.req = m.req /\ k.at = "waiting"
  BY <1>1, MessageChanged DEF Places, Answers
<1>3. /\ messages' = (messages \ {m}) \cup {k} /\ m.at # "segments" /\ Own(m) /\ Permitted(m)
      /\ UNCHANGED <<master, queue, sent, verdict, dropped, od>>
  BY DEF Submit
<1> HIDE DEF k
<1>4. Own(k) /\ Permitted(k)
  BY <1>2, <1>3, ChecksOfRequest
<1> QED BY <1>2, <1>3, <1>4, MovesOn

\* The model answers.
LEMMA ModelAnswersStep ==
  ASSUME GatewayIInv, NEW m \in messages, ModelAnswers(m)
  PROVE  GatewayIInv'
<1>0. PICK a \in {"ok", "error", "exception", "garbled"} :
        messages' = (messages \ {m}) \cup {[m EXCEPT !.got = a]}
  BY DEF ModelAnswers
<1> DEFINE k == [m EXCEPT !.got = a]
<1>1. m \in MessageRecords
  BY TypeFacts DEF GatewayIInv
<1>2. k \in MessageRecords /\ k.id = m.id /\ k.req = m.req /\ k.at = m.at
  <2>1. a \in Answers /\ "new" \in Places
    BY DEF Answers, Places
  <2> QED BY <1>1, <2>1, MessageChanged
<1>3. messages' = (messages \ {m}) \cup {k}
  BY <1>0
<1>4. m.at = "waiting" /\ UNCHANGED <<master, queue, sent, verdict, dropped, od>>
  BY DEF ModelAnswers
<1> HIDE DEF k
<1>5. Own(m) /\ Permitted(m)
  BY <1>4 DEF GatewayIInv, Processing
<1>6. Own(k) /\ Permitted(k)
  BY <1>2, <1>5, ChecksOfRequest
<1> QED BY <1>2, <1>3, <1>4, <1>6, MovesOn

\* The answer of the model is passed on.
LEMMA AnswerStep ==
  ASSUME GatewayIInv, NEW m \in messages, Answer(m)
  PROVE  GatewayIInv'
<1>1. m.at # "segments" /\ m.at = "waiting" /\ UNCHANGED <<master, sent, dropped>>
  BY DEF Answer
<1>2. od \in [DOMAIN Entry -> Values]
  BY DEF GatewayIInv, TypeOK
<1>3. m.req \in Requests /\ m.req.val \in Values
  BY TypeFacts, RecordFacts, MasterFacts DEF GatewayIInv, TypeOK
<1>4. CASE /\ m.got = "ok"
           /\ \E v \in IF Write(m) THEN {m.req.val} ELSE Values : od' = [od EXCEPT ![Key(m)] = v]
           /\ Finalize(m, "accepted", <<Reply(m, "ok", FALSE)>>)
  <2>1. od' \in [DOMAIN Entry -> Values]
    BY <1>2, <1>3, <1>4
  <2> QED BY <1>1, <1>4, <2>1, FinalizeStep
<1>5. CASE /\ m.got # "ok" /\ Finalize(m, "refused", <<Reply(m, "abort", FALSE)>>)
           /\ UNCHANGED od
  <2>1. od' \in [DOMAIN Entry -> Values]
    BY <1>2, <1>5
  <2> QED BY <1>1, <1>5, <2>1, FinalizeStep
<1> QED BY <1>4, <1>5 DEF Answer

\* What KickCAT stores is a dictionary, and only objects of the index named
\* differ from before.
LEMMA StoredFacts ==
  ASSUME TypeOK, NEW m \in messages, NEW o \in Stored(m)
  PROVE  /\ o \in [DOMAIN Entry -> Values]
         /\ \A k \in DOMAIN Entry : o[k] # od[k] => k[1] = m.req.index
<1>1. od \in [DOMAIN Entry -> Values]
  BY DEF TypeOK
<1>2. m.req \in Requests /\ m.req.val \in Values
  BY TypeFacts, RecordFacts, MasterFacts DEF TypeOK
<1>3. CASE m.req.complete
  BY <1>3 DEF Stored, Named
<1>4. CASE ~m.req.complete
  <2>1. o = [od EXCEPT ![Key(m)] = m.req.val]
    BY <1>4 DEF Stored
  <2>2. Key(m)[1] = m.req.index
    BY DEF Key
  <2>3. \A k \in DOMAIN Entry : o[k] # od[k] => k = Key(m)
    BY <1>1, <2>1
  <2> QED BY <1>1, <1>2, <2>1, <2>2, <2>3
<1> QED BY <1>3, <1>4

\* KickCAT decides a message, and its reply is put into its final form.
LEMMA DelegateStep ==
  ASSUME GatewayIInv, NEW m \in messages, Delegate(m)
  PROVE  GatewayIInv'
<1>0. TypeOK /\ QueueTrue
  BY DEF GatewayIInv
<1>1. /\ ~Own(m) /\ m.at # "segments" /\ UNCHANGED <<master, sent, dropped>>
      /\ messages' \subseteq (messages \ {m}) \cup {[m EXCEPT !.at = "segments"]}
  BY DEF Delegate
<1>2. od' \in [DOMAIN Entry -> Values]
  <2>1. od' \in Stored(m) \/ od' = od
    BY DEF Delegate
  <2> QED BY <1>0, <2>1, StoredFacts DEF TypeOK
<1>3. \A a \in 1..Len(queue) :
        queue[a].kind = "abort" => [queue[a] EXCEPT !.low = FALSE] = queue[a]
  <2>1. \A a \in 1..Len(queue) : queue[a].kind = "abort" => ~queue[a].low
    BY <1>0 DEF QueueTrue
  <2> QED BY <1>0, <2>1, TypeFacts, LowCleared DEF ReplyRecords
<1>4. queue \in Seq(ReplyRecords)
  BY <1>0, TypeFacts
<1>5. CASE /\ queue' = NormalizeReplies(Append(queue, DelegateAbort(m)))
           /\ verdict' = [verdict EXCEPT ![m.id] = "refused"]
  <2> DEFINE d == DelegateAbort(m)
             r == [d EXCEPT !.low = FALSE]
  <2>1. d \in ReplyRecords /\ d.id = m.id /\ d.kind = "abort"
    <3>1. (m.req.expedited \/ m.req.indicated) \in BOOLEAN
      OBVIOUS
    <3> QED BY <1>0, <3>1, ReplyFacts DEF DelegateAbort
  <2> HIDE DEF d
  <2>2. r \in ReplyRecords /\ r.id = m.id /\ r.kind = "abort" /\ ~r.low
    BY <2>1, LowCleared DEF ReplyRecords
  <2>3. r = IF d.kind = "abort" THEN [d EXCEPT !.low = FALSE] ELSE d
    BY <2>1
  <2> HIDE DEF r
  <2>4. queue' = NormalizeReplies(Append(queue, d))
    BY <1>5 DEF d
  <2>5. queue' = Append(queue, r)
    <3> DEFINE Final(x) == IF x.kind = "abort" THEN [x EXCEPT !.low = FALSE] ELSE x
    <3>1. \A x, y \in ReplyRecords :
            y = Final(x) => NormalizeReplies(Append(queue, x)) = Append(queue, y)
      BY <1>3, <1>4, NormalizeLast
    <3>2. r = Final(d)
      BY <2>3
    <3> HIDE DEF Final
    <3> QED BY <2>1, <2>2, <2>4, <3>1, <3>2
  <2>6. (r.kind = "ok" <=> "refused" = "accepted") /\ (r.kind = "abort" => ~r.low)
    BY <2>2
  <2>7. verdict' = [verdict EXCEPT ![m.id] = "refused"]
    BY <1>5
  <2> QED BY <1>1, <1>2, <2>2, <2>5, <2>6, <2>7, DecideStep
<1>6. CASE /\ queue' = NormalizeReplies(Append(queue, Reply(m, "ok", FALSE)))
           /\ verdict' = [verdict EXCEPT ![m.id] = "accepted"]
  <2> DEFINE r == Reply(m, "ok", FALSE)
  <2>1. r \in ReplyRecords /\ r.id = m.id /\ r.kind = "ok"
    BY <1>0, ReplyFacts
  <2>2. queue' = NormalizeReplies(Append(queue, r))
    BY <1>6
  <2> HIDE DEF r
  <2>3. r = IF r.kind = "abort" THEN [r EXCEPT !.low = FALSE] ELSE r
    BY <2>1
  <2>4. queue' = Append(queue, r)
    BY <1>3, <1>4, <2>1, <2>2, <2>3, NormalizeLast
  <2> QED BY <1>1, <1>2, <1>6, <2>1, <2>4, DecideStep
<1> QED BY <1>5, <1>6 DEF Delegate

\* Two requests in flight need a master that has two outstanding.
LEMMA TwoInFlight ==
  ASSUME TypeOK, Pipelining, NEW i \in InFlight, NEW j \in InFlight, i # j
  PROVE  Outstanding > 1
<1>1. IsFiniteSet({i}) /\ Cardinality({i}) = 1
  BY FS_Singleton
<1>2. Cardinality({i} \cup {j}) = Cardinality({i}) + 1
  <2>1. j \notin {i}
    OBVIOUS
  <2> QED BY <1>1, <2>1, FS_AddElement
<1>3. {i} \cup {j} \subseteq InFlight
  OBVIOUS
<1>4. Cardinality({i} \cup {j}) <= Cardinality(InFlight) /\ Cardinality(InFlight) \in Nat
  BY <1>3, InFlightFacts
<1>5. Outstanding \in Nat /\ Cardinality(InFlight) <= Outstanding
  BY MasterFacts DEF TypeOK, Pipelining
<1> QED BY <1>1, <1>2, <1>4, <1>5

\* A hook of the delegate rejects a write: the queue is emptied for its abort.
LEMMA DelegateRejectsStep ==
  ASSUME GatewayIInv, NEW m \in messages, DelegateRejects(m)
  PROVE  GatewayIInv'
<1> USE DEF GatewayIInv
<1> DEFINE r == Reply(m, "abort", FALSE)
           D == {queue[n].id : n \in DOMAIN queue}
<1>0. /\ m.at # "segments" /\ queue' = <<r>> /\ dropped' = dropped \cup D
      /\ verdict' = [verdict EXCEPT ![m.id] = "refused"] /\ messages' = messages \ {m}
      /\ UNCHANGED <<master, sent>> /\ od' \in Stored(m)
  BY DEF DelegateRejects
<1>1. /\ m.id \in Ids /\ verdict[m.id] = "open"
      /\ Len(sent[m.id]) = 0 /\ m.id \notin dropped
      /\ \A a \in 1..Len(queue) : queue[a].id # m.id
  BY <1>0, Undecided
<1>2. /\ Ids' = Ids /\ Outstanding' = Outstanding /\ Len(verdict') = Len(verdict)
      /\ verdict' \in Seq({"open", "accepted", "refused"})
      /\ verdict'[m.id] = "refused" /\ \A i \in Ids : i # m.id => verdict'[i] = verdict[i]
  <2>1. Outstanding' = Outstanding
    BY <1>0, MasterFixed
  <2>2. verdict \in Seq({"open", "accepted", "refused"})
    BY DEF TypeOK
  <2> QED BY <1>0, <1>1, <2>1, <2>2 DEF Ids
<1>3. r \in ReplyRecords /\ r.id = m.id /\ r.kind = "abort" /\ ~r.low
  BY ReplyFacts
<1>4. \A a \in 1..Len(queue) : queue[a].id \in Ids
  BY TypeFacts, RecordFacts
<1>5. DOMAIN queue = 1..Len(queue)
  BY TypeFacts
<1>6. D \subseteq Ids /\ m.id \notin D
  BY <1>1, <1>4, <1>5
<1>7. \A i \in D : \E a \in 1..Len(queue) : queue[a].id = i
  BY <1>5
<1>8. \A a \in 1..Len(queue) : queue[a].id \in D
  BY <1>5
<1> HIDE DEF r, D
<1>9. /\ queue' \in Seq(ReplyRecords) /\ Len(queue') = 1 /\ queue'[1] = r
      /\ \A a \in 1..Len(queue') : a = 1
  BY <1>0, <1>3
<1>10. TypeOK'
  <2>1. dropped' \subseteq Ids /\ od' \in [DOMAIN Entry -> Values]
    BY <1>0, <1>6, StoredFacts DEF TypeOK
  <2>2. sent' \in [Ids -> Seq(ReplyRecords)] /\ \A x \in messages' : x \in MessageRecords
    BY <1>0, TypeFacts
  <2>3. master' = master
    BY <1>0
  <2> QED BY <1>2, <1>9, <2>1, <2>2, <2>3, TypeKept
<1>11. Processing'
  <2>1. \A x \in messages' : x \in messages /\ verdict'[x.id] = verdict[x.id]
    <3> TAKE x \in messages'
    <3>1. x \in messages /\ x # m
      BY <1>0
    <3>2. x.id \in Ids /\ x.id # m.id
      BY <3>1, TypeFacts, RecordFacts DEF Processing
    <3> QED BY <1>2, <3>1, <3>2
  <2> QED BY <2>1 DEF Processing, Own, Permitted, Addressed, GoodData, Truncated, Length,
                      Offset, Key, Write
<1>12. QueueTrue'
  <2>1. \A a \in 1..Len(queue') : queue'[a] = r
    BY <1>9
  <2>2. sent' = sent /\ m.id \notin dropped'
    BY <1>0, <1>1, <1>6
  <2> QED BY <1>1, <1>2, <1>3, <1>9, <2>1, <2>2 DEF QueueTrue
<1>13. SentTrue'
  <2> SUFFICES ASSUME NEW i \in Ids
               PROVE  /\ Len(sent[i]) <= 1
                      /\ Len(sent[i]) = 1 =>
                           /\ verdict'[i] # "open" /\ i \notin dropped'
                           /\ sent[i][1].kind = "ok" <=> verdict'[i] = "accepted"
    BY <1>0, <1>2 DEF SentTrue
  <2>1. CASE i = m.id
    BY <2>1, <1>1
  <2>2. CASE i # m.id
    <3>1. Len(sent[i]) = 1 => i \notin D
      <4>1. \A a \in 1..Len(queue) : Len(sent[queue[a].id]) = 0
        BY DEF QueueTrue
      <4>2. i \in D => Len(sent[i]) = 0
        BY <1>7, <4>1
      <4> QED BY <4>2
    <3> QED BY <2>2, <3>1, <1>0, <1>2 DEF SentTrue
  <2> QED BY <2>1, <2>2
<1>14. Decided'
  <2> SUFFICES ASSUME NEW i \in Ids, verdict'[i] # "open", i \notin dropped'
               PROVE  Len(sent[i]) = 1 \/ \E a \in 1..Len(queue') : queue'[a].id = i
    BY <1>0, <1>2 DEF Decided
  <2>1. CASE i = m.id
    <3>1. 1 \in 1..Len(queue') /\ queue'[1].id = i
      BY <2>1, <1>3, <1>9
    <3> QED BY <3>1, Zenon
  <2>2. CASE i # m.id
    <3>1. i \notin dropped /\ i \notin D
      BY <1>0
    <3> QED BY <2>2, <3>1, <1>2, <1>8 DEF Decided
  <2> QED BY <2>1, <2>2
<1>15. Pipelining'
  <2>1. \A i \in D : verdict'[i] # "open"
    BY <1>1, <1>2, <1>4, <1>7 DEF QueueTrue
  <2>2. \A i \in dropped : verdict'[i] # "open"
    BY <1>1, <1>2 DEF Pipelining, TypeOK
  <2>3. ASSUME NEW i \in D PROVE Outstanding > 1
    <3>1. i \in Ids /\ i # m.id /\ Len(sent[i]) = 0 /\ i \notin dropped
      BY <1>1, <1>4, <1>7 DEF QueueTrue
    <3>2. \A j \in Ids : Len(sent[j]) = 0 => sent[j] = <<>>
      BY TypeFacts
    <3>3. i \in InFlight /\ m.id \in InFlight
      BY <1>1, <3>1, <3>2 DEF InFlight
    <3> QED BY <3>1, <3>3, TwoInFlight
  <2>4. InFlight' \subseteq InFlight
    BY <1>0, <1>2 DEF InFlight
  <2>5. Cardinality(InFlight') <= Cardinality(InFlight)
    BY <2>4, InFlightFacts
  <2>6. Cardinality(InFlight') <= Outstanding
    <3>1. InFlight' \in SUBSET InFlight /\ IsFiniteSet(InFlight)
      BY <2>4, InFlightFacts
    <3>2. IsFiniteSet(InFlight')
      BY <3>1, FS_Subset
    <3>3. Cardinality(InFlight') \in Nat /\ Cardinality(InFlight) \in Nat
      BY <3>1, <3>2, FS_CardinalityType
    <3> QED BY <2>5, <3>3, MasterFacts DEF Pipelining, TypeOK
  <2> QED BY <1>0, <1>2, <2>1, <2>2, <2>3, <2>6 DEF Pipelining
<1> QED BY <1>10, <1>11, <1>12, <1>13, <1>14, <1>15

\* The oldest reply goes to the master.
LEMMA SendStep ==
  ASSUME GatewayIInv, Send
  PROVE  GatewayIInv'
<1> USE DEF GatewayIInv
<1> DEFINE h == queue[1].id
<1>0. /\ queue # <<>> /\ queue' = Tail(queue)
      /\ sent' = [sent EXCEPT ![Head(queue).id] = Append(@, Head(queue))]
      /\ UNCHANGED <<master, messages, verdict, dropped, od>>
  BY DEF Send
<1>1. /\ Len(queue) \in Nat \ {0} /\ Head(queue) = queue[1] /\ queue[1] \in ReplyRecords
      /\ queue' \in Seq(ReplyRecords) /\ Len(queue') = Len(queue) - 1
      /\ \A a \in 1..Len(queue') : queue'[a] = queue[a + 1] /\ a + 1 \in 1..Len(queue)
  BY <1>0, TypeFacts, TailFacts
<1>2. 1 \in 1..Len(queue) /\ h \in Ids
  BY <1>1, RecordFacts
<1>3. /\ verdict[h] # "open" /\ h \notin dropped /\ Len(sent[h]) = 0
      /\ queue[1].kind = "ok" <=> verdict[h] = "accepted"
  BY <1>2 DEF QueueTrue
<1>4. \A a \in 1..Len(queue') : queue'[a].id # h /\ queue'[a].id \in Ids
  <2> TAKE a \in 1..Len(queue')
  <2>1. queue'[a] = queue[a + 1] /\ a + 1 \in 1..Len(queue) /\ a + 1 # 1
    BY <1>1
  <2>2. queue[a + 1].id # h
    BY <1>2, <2>1 DEF QueueTrue
  <2> QED BY <2>1, <2>2, TypeFacts, RecordFacts
<1>5. /\ sent \in [Ids -> Seq(ReplyRecords)]
      /\ sent' = [sent EXCEPT ![h] = Append(sent[h], queue[1])]
  BY <1>0, <1>1, TypeFacts
<1>6. /\ Append(sent[h], queue[1]) \in Seq(ReplyRecords)
      /\ Len(Append(sent[h], queue[1])) = 1 /\ Append(sent[h], queue[1])[1] = queue[1]
  <2>1. sent[h] \in Seq(ReplyRecords)
    BY <1>2, <1>5
  <2> QED BY <1>1, <1>3, <2>1, AppendFacts
<1> HIDE DEF h
<1>7. /\ sent' \in [Ids -> Seq(ReplyRecords)]
      /\ Len(sent'[h]) = 1 /\ sent'[h][1] = queue[1]
      /\ \A i \in Ids : i # h => sent'[i] = sent[i]
  BY <1>2, <1>5, <1>6
<1>8. Ids' = Ids /\ verdict' = verdict /\ dropped' = dropped /\ Outstanding' = Outstanding
  BY <1>0, MasterFixed DEF Ids
<1>9. TypeOK'
  <2>1. dropped' \subseteq Ids /\ od' \in [DOMAIN Entry -> Values]
    BY <1>0 DEF TypeOK
  <2>2. verdict' \in Seq({"open", "accepted", "refused"}) /\ Len(verdict') = Len(verdict)
    BY <1>8 DEF TypeOK
  <2>3. master' = master /\ \A x \in messages' : x \in MessageRecords
    BY <1>0, TypeFacts
  <2> QED BY <1>1, <1>7, <1>8, <2>1, <2>2, <2>3, TypeKept
<1>10. Processing'
  BY <1>0 DEF Processing, Own, Permitted, Addressed, GoodData, Truncated, Length, Offset, Key, Write
<1>11. QueueTrue'
  <2>1. \A a, b \in 1..Len(queue') : queue'[a].id = queue'[b].id => a = b
    <3> SUFFICES ASSUME NEW a \in 1..Len(queue'), NEW b \in 1..Len(queue'),
                        queue'[a].id = queue'[b].id
                 PROVE  a = b
      OBVIOUS
    <3>1. queue[a + 1].id = queue[b + 1].id /\ a + 1 \in 1..Len(queue) /\ b + 1 \in 1..Len(queue)
      BY <1>1
    <3>2. a + 1 = b + 1
      BY <3>1 DEF QueueTrue
    <3> QED BY <3>2
  <2>2. ASSUME NEW a \in 1..Len(queue')
        PROVE  /\ verdict[queue'[a].id] # "open" /\ queue'[a].id \notin dropped
               /\ Len(sent'[queue'[a].id]) = 0
               /\ queue'[a].kind = "ok" <=> verdict[queue'[a].id] = "accepted"
               /\ queue'[a].kind = "abort" => ~queue'[a].low
    <3>1. queue'[a] = queue[a + 1] /\ a + 1 \in 1..Len(queue)
      BY <1>1
    <3>2. sent'[queue'[a].id] = sent[queue'[a].id]
      BY <1>4, <1>7
    <3> QED BY <3>1, <3>2 DEF QueueTrue
  <2> QED BY <1>8, <2>1, <2>2 DEF QueueTrue
<1>12. SentTrue'
  <2> SUFFICES ASSUME NEW i \in Ids
               PROVE  /\ Len(sent'[i]) <= 1
                      /\ Len(sent'[i]) = 1 =>
                           /\ verdict[i] # "open" /\ i \notin dropped
                           /\ sent'[i][1].kind = "ok" <=> verdict[i] = "accepted"
    BY <1>8 DEF SentTrue
  <2>1. CASE i = h
    BY <2>1, <1>3, <1>7
  <2>2. CASE i # h
    BY <2>2, <1>7 DEF SentTrue
  <2> QED BY <2>1, <2>2
<1>13. Decided'
  <2> SUFFICES ASSUME NEW i \in Ids, verdict[i] # "open", i \notin dropped
               PROVE  Len(sent'[i]) = 1 \/ \E a \in 1..Len(queue') : queue'[a].id = i
    BY <1>8 DEF Decided
  <2>1. CASE i = h
    BY <2>1, <1>7
  <2>2. CASE i # h /\ Len(sent[i]) = 1
    BY <2>2, <1>7
  <2>3. CASE i # h /\ Len(sent[i]) # 1
    <3>1. PICK a \in 1..Len(queue) : queue[a].id = i
      BY <2>3 DEF Decided
    <3>2. a # 1
      BY <2>3, <3>1 DEF h
    <3>3. a - 1 \in 1..Len(queue') /\ (a - 1) + 1 = a
      BY <1>1, <3>2
    <3>4. queue'[a - 1].id = i
      BY <1>1, <3>1, <3>3
    <3> QED BY <3>3, <3>4, Zenon
  <2> QED BY <2>1, <2>2, <2>3
<1>14. Pipelining'
  <2>1. \A i \in Ids : sent'[i] = <<>> => i # h
    BY <1>7
  <2>2. InFlight' \subseteq InFlight
    BY <1>7, <1>8, <2>1 DEF InFlight
  <2>3. InFlight' \in SUBSET InFlight /\ IsFiniteSet(InFlight)
    BY <2>2, InFlightFacts
  <2>4. IsFiniteSet(InFlight') /\ Cardinality(InFlight') <= Cardinality(InFlight)
    BY <2>3, FS_Subset
  <2>5. Cardinality(InFlight') \in Nat /\ Cardinality(InFlight) \in Nat
    BY <2>3, <2>4, FS_CardinalityType
  <2>6. Cardinality(InFlight') <= Outstanding
    BY <2>4, <2>5, MasterFacts DEF Pipelining, TypeOK
  <2> QED BY <1>8, <2>6 DEF Pipelining
<1> QED BY <1>9, <1>10, <1>11, <1>12, <1>13, <1>14

\* The invariant holds at the start.
LEMMA StartOk ==
  ASSUME Init
  PROVE  GatewayIInv
<1>1. /\ master \in DOMAIN Masters /\ messages = {} /\ queue = <<>> /\ sent = <<>>
      /\ verdict = <<>> /\ dropped = {} /\ od \in [DOMAIN Entry -> Values]
  BY DEF Init
<1>2. Len(queue) = 0 /\ Len(verdict) = 0 /\ Ids = {}
  BY <1>1 DEF Ids
<1>3. RequestMax \in Nat /\ Outstanding \in Nat
  BY <1>1, MasterFacts
<1>4. TypeOK
  BY <1>1, <1>2, <1>3 DEF TypeOK
<1>5. Cardinality(InFlight) <= Outstanding
  <2>1. InFlight = {}
    BY <1>2 DEF InFlight
  <2>2. Cardinality({}) = 0
    BY FS_EmptySet
  <2> QED BY <1>3, <2>1, <2>2
<1> QED BY <1>1, <1>2, <1>4, <1>5 DEF GatewayIInv, Processing, QueueTrue, SentTrue, Decided, Pipelining

\* Every step preserves the invariant.
LEMMA StepOk ==
  ASSUME GatewayIInv, [Next]_vars
  PROVE  GatewayIInv'
<1>1. ASSUME NEW r \in Requests, Arrives(r) PROVE GatewayIInv'
  BY <1>1, ArrivesStep
<1>2. ASSUME NEW m \in messages, Refuse(m) PROVE GatewayIInv'
  BY <1>2, RefuseStep
<1>3. ASSUME NEW m \in messages, Submit(m) PROVE GatewayIInv'
  BY <1>3, SubmitStep
<1>4. ASSUME NEW m \in messages, ModelAnswers(m) PROVE GatewayIInv'
  BY <1>4, ModelAnswersStep
<1>5. ASSUME NEW m \in messages, Answer(m) PROVE GatewayIInv'
  BY <1>5, AnswerStep
<1>6. ASSUME NEW m \in messages, Delegate(m) PROVE GatewayIInv'
  BY <1>6, DelegateStep
<1>7. ASSUME NEW m \in messages, DelegateRejects(m) PROVE GatewayIInv'
  BY <1>7, DelegateRejectsStep
<1>8. ASSUME NEW m \in messages, Segment(m) PROVE GatewayIInv'
  BY <1>8, SegmentStep
<1>9. CASE Send
  BY <1>9, SendStep
<1>10. CASE UNCHANGED vars
  <2> USE <1>10 DEF vars
  <2>1. Ids' = Ids /\ Requests' = Requests /\ Outstanding' = Outstanding /\ RequestMax' = RequestMax
    BY DEF Ids, Requests, Outstanding, RequestMax
  <2>2. TypeOK'
    BY <2>1 DEF GatewayIInv, TypeOK
  <2>3. Processing'
    BY DEF GatewayIInv, Processing, Own, Permitted, Addressed, GoodData, Truncated, Length,
           Offset, Key, Write
  <2>4. QueueTrue' /\ SentTrue' /\ Decided'
    BY <2>1 DEF GatewayIInv, QueueTrue, SentTrue, Decided
  <2>5. Pipelining'
    BY <2>1 DEF GatewayIInv, Pipelining, InFlight
  <2> QED BY <2>2, <2>3, <2>4, <2>5 DEF GatewayIInv
<1> QED BY <1>1, <1>2, <1>3, <1>4, <1>5, <1>6, <1>7, <1>8, <1>9, <1>10 DEF Next

-----------------------------------------------------------------------------
(***************************************************************************)
(* The theorems.                                                           *)
(***************************************************************************)

\* The inductive invariant.
THEOREM GatewayInvariant == Spec => []GatewayIInv
<1>1. Init => GatewayIInv
  BY StartOk
<1>2. GatewayIInv /\ [Next]_vars => GatewayIInv'
  BY StepOk
<1> QED BY <1>1, <1>2, PTL DEF Spec

\* process() reads no byte beyond the message or beyond the mailbox buffer,
\* whatever sizes the headers of a request claim (sdo_gateway.cc checks them
\* before it reads the data).
THEOREM ReadsStayInside == Spec => []ReadsInside
<1>1. GatewayIInv => ReadsInside
  <2> SUFFICES ASSUME GatewayIInv, NEW m \in messages, NEW b \in BytesRead(m)
               PROVE  b < Room /\ b < m.req.claimed
    BY DEF ReadsInside
  <2>1. m.req \in Requests
    BY TypeFacts, RecordFacts DEF GatewayIInv
  <2>2. m.req.claimed \in Nat /\ m.req.length \in Nat /\ Room \in Nat
    BY <2>1, MasterFacts, GatewayAssumption DEF GatewayIInv, TypeOK
  <2>3. Addressed(m)
    BY DEF BytesRead, Permitted
  <2>4. m.req.claimed >= 4 /\ m.req.claimed <= Room
    BY <2>2, <2>3 DEF Addressed, Truncated
  <2>5. CASE b \in 0..3
    BY <2>2, <2>4, <2>5
  <2>6. CASE Permitted(m) /\ Write(m) /\ b \in Offset(m)..(Offset(m) + Entry[Key(m)].size - 1)
    <3>1. Entry[Key(m)].size \in Nat /\ Offset(m) \in Nat
      BY <2>3, GatewayAssumption DEF Addressed, Offset
    <3>2. Offset(m) + Entry[Key(m)].size <= m.req.claimed
      BY <2>6 DEF Permitted, GoodData
    <3> QED BY <2>2, <2>4, <2>6, <3>1, <3>2
  <2> QED BY <2>5, <2>6 DEF BytesRead
<1> QED BY <1>1, GatewayInvariant, PTL

\* A request whose processing has ended has one reply.
LEMMA InvariantRepliesOnce ==
  ASSUME GatewayIInv
  PROVE  OneTrueReply
<1> USE DEF GatewayIInv
<1>0. DOMAIN queue = 1..Len(queue) /\ \A i \in Ids : DOMAIN sent[i] = 1..Len(sent[i])
  BY TypeFacts
<1> SUFFICES ASSUME NEW i \in Ids
             PROVE  /\ verdict[i] = "open" => Replies(i) = {}
                    /\ verdict[i] # "open" /\ i \notin dropped =>
                         /\ Cardinality(Queued(i)) + Len(sent[i]) = 1
                         /\ \A r \in Replies(i) : r.kind = "ok" <=> verdict[i] = "accepted"
                    /\ i \in dropped => Outstanding > 1 /\ Replies(i) = {}
  BY DEF OneTrueReply
<1>1. /\ Len(sent[i]) \in Nat /\ Len(sent[i]) <= 1
      /\ Len(sent[i]) = 0 \/ Len(sent[i]) = 1
  <2>1. Len(sent[i]) \in Nat
    BY TypeFacts
  <2>2. Len(sent[i]) <= 1
    BY DEF SentTrue
  <2>3. \A n \in Nat : n <= 1 => n = 0 \/ n = 1
    OBVIOUS
  <2> QED BY <2>1, <2>2, <2>3, Zenon
<1>2. \A r \in Replies(i) :
        \/ \E a \in 1..Len(queue) : queue[a].id = i /\ r = queue[a]
        \/ Len(sent[i]) = 1 /\ r = sent[i][1]
  <2> TAKE r \in Replies(i)
  <2>1. CASE \E a \in Queued(i) : r = queue[a]
    BY <2>1, <1>0 DEF Queued
  <2>2. CASE \E a \in DOMAIN sent[i] : r = sent[i][a]
    <3>1. PICK a \in 1..Len(sent[i]) : r = sent[i][a]
      BY <2>2, <1>0
    <3>2. a = 1 /\ Len(sent[i]) = 1
      BY <1>1
    <3> QED BY <3>1, <3>2
  <2> QED BY <2>1, <2>2 DEF Replies
<1>3. \A a \in 1..Len(queue) : queue[a].id = i =>
        /\ verdict[i] # "open" /\ i \notin dropped /\ Len(sent[i]) = 0
        /\ queue[a].kind = "ok" <=> verdict[i] = "accepted"
  BY DEF QueueTrue
<1>4. Len(sent[i]) = 1 => /\ verdict[i] # "open" /\ i \notin dropped
                          /\ sent[i][1].kind = "ok" <=> verdict[i] = "accepted"
  BY DEF SentTrue
<1>5. verdict[i] = "open" \/ i \in dropped => Replies(i) = {}
  BY <1>2, <1>3, <1>4
<1>6. \A r \in Replies(i) : r.kind = "ok" <=> verdict[i] = "accepted"
  BY <1>2, <1>3, <1>4
<1>7. ASSUME verdict[i] # "open", i \notin dropped
      PROVE  Cardinality(Queued(i)) + Len(sent[i]) = 1
  <2>1. CASE Len(sent[i]) = 1
    <3>1. Queued(i) = {}
      BY <2>1, <1>0, <1>3 DEF Queued
    <3>2. Cardinality({}) = 0
      BY FS_EmptySet
    <3> QED BY <2>1, <3>1, <3>2
  <2>2. CASE Len(sent[i]) = 0
    <3>1. PICK a \in 1..Len(queue) : queue[a].id = i
      BY <1>7, <2>2 DEF Decided
    <3>2. Queued(i) = {a}
      BY <1>0, <3>1 DEF Queued, QueueTrue
    <3>3. Cardinality({a}) = 1
      BY FS_Singleton
    <3> QED BY <2>2, <3>2, <3>3
  <2> QED BY <1>1, <2>1, <2>2
<1>8. i \in dropped => Outstanding > 1
  BY DEF Pipelining
<1> QED BY <1>5, <1>6, <1>7, <1>8

\* The local dictionary is written by the access that is decided: at the
\* model's objects once the model has accepted it, elsewhere by a download.
LEMMA OnlyDecidedWrites ==
  ASSUME GatewayIInv, [Next]_vars, NEW k \in DOMAIN Entry, od'[k] # od[k]
  PROVE  \E m \in messages : MayWrite(m, k)
<1>1. od' # od
  OBVIOUS
<1>2. PICK m \in messages : Answer(m) \/ Delegate(m) \/ DelegateRejects(m)
  BY <1>1 DEF Next, Arrives, Refuse, Submit, ModelAnswers, Segment, Send, vars
<1>3. m.id \in Ids /\ verdict \in [Ids -> {"open", "accepted", "refused"}] /\ TypeOK
  BY TypeFacts, RecordFacts DEF GatewayIInv
<1>4. verdict[m.id] = "open"
  BY <1>2 DEF GatewayIInv, Processing, Answer, Delegate, DelegateRejects
<1>5. CASE Answer(m)
  <2>1. /\ verdict' = [verdict EXCEPT ![m.id] = "accepted"]
        /\ \E v \in IF Write(m) THEN {m.req.val} ELSE Values : od' = [od EXCEPT ![Key(m)] = v]
    BY <1>1, <1>5 DEF Answer, Finalize
  <2>2. Key(m) = k
    <3>1. od \in [DOMAIN Entry -> Values]
      BY <1>3 DEF TypeOK
    <3> QED BY <2>1, <3>1
  <2>3. Own(m)
    BY <1>5 DEF GatewayIInv, Processing, Answer
  <2>4. m.req.index = k[1]
    BY <2>2 DEF Key
  <2> QED BY <1>3, <1>4, <2>1, <2>2, <2>3, <2>4 DEF MayWrite
<1>6. CASE Delegate(m) \/ DelegateRejects(m)
  <2>1. ~Own(m) /\ Write(m) /\ od' \in Stored(m)
    BY <1>1, <1>6 DEF Delegate, DelegateRejects
  <2>2. m.req.index = k[1]
    BY <1>3, <2>1, StoredFacts
  <2>3. \/ verdict' = [verdict EXCEPT ![m.id] = "accepted"]
        \/ verdict' = [verdict EXCEPT ![m.id] = "refused"]
    BY <1>6 DEF Delegate, DelegateRejects
  <2>4. verdict'[m.id] # "open"
    BY <1>3, <2>3
  <2> QED BY <1>4, <2>1, <2>2, <2>4 DEF MayWrite
<1> QED BY <1>2, <1>5, <1>6

\* The mailbox answers each request once, truthfully and in the right form, in
\* whatever order it processes them (sdo_gateway.cc: finalize and
\* normalizeReplies run before the mailbox sends anything). A request the model
\* did not accept changes none of the model's objects in the local dictionary;
\* an object KickCAT serves changes by a download of its index, which may be one
\* that a hook refused after it was stored.
THEOREM RepliesTrue == Spec => RepliesAreTrue
<1>1. GatewayIInv => TypeOK /\ OneTrueReply /\ AbortFormat
  <2> SUFFICES ASSUME GatewayIInv PROVE OneTrueReply /\ AbortFormat
    BY DEF GatewayIInv
  <2>1. DOMAIN queue = 1..Len(queue)
    BY TypeFacts DEF GatewayIInv
  <2>2. AbortFormat
    BY <2>1 DEF GatewayIInv, QueueTrue, AbortFormat
  <2> QED BY <2>2, InvariantRepliesOnce
<1>2. GatewayIInv /\ [Next]_vars => GatewayIInv'
  BY StepOk
<1>3. ASSUME GatewayIInv, [Next]_vars, (TypeOK /\ OneTrueReply /\ AbortFormat)'
      PROVE  [/\ (TypeOK /\ OneTrueReply /\ AbortFormat)'
              /\ \A k \in DOMAIN Entry : od'[k] # od[k] =>
                   \E m \in messages : MayWrite(m, k)]_vars
  BY <1>3, OnlyDecidedWrites
<1> QED BY <1>1, <1>2, <1>3, GatewayInvariant, PTL DEF Spec, RepliesAreTrue

(***************************************************************************)
(* The process data.                                                       *)
(***************************************************************************)

(***************************************************************************)
(* The inductive invariant.                                                *)
(***************************************************************************)
Shapes ==
  /\ DOMAIN fmmu = Slaves /\ DOMAIN current = Slaves /\ DOMAIN dict = Slaves
  /\ \A i \in Slaves : DOMAIN current[i] = Keys /\ DOMAIN dict[i] = Keys

\* A slave has at most one output FMMU.
OneFmmu == \A i \in Slaves : \A m, n \in fmmu[i] : m = n

\* What the dictionary holds and FixedMapping would have taken is what
\* FixedMapping has: the two differ only by values it refused.
DictFollows ==
  \A i \in Slaves, k \in Keys : Allowed(k, dict[i][k]) => dict[i][k] = current[i][k]

ProcessIInv == MappingInv /\ Shapes /\ OneFmmu /\ DictFollows /\ WholeImage

(***************************************************************************)
(* The image.                                                              *)
(***************************************************************************)

\* A frame is a sequence of ranges that do not overlap.
LEMMA FrameTyped ==
  ASSUME NEW f \in Frames
  PROVE  /\ DOMAIN f \subseteq 1..FrameMax
         /\ \A n \in DOMAIN f : f[n] \in Ranges
         /\ \A m, n \in DOMAIN f : m < n => f[m].addr + f[m].len <= f[n].addr
  <1>1. PICK k \in 0..FrameMax : f \in [1..k -> Ranges]
    BY DEF Frames
  <1>2. \A n \in 1..k : n \in 1..FrameMax
    BY ProcessDataAssumption
  <1> QED
    BY <1>1, <1>2 DEF Frames, Disjoint

\* Two datagrams of a frame write no address both.
LEMMA OneWriter ==
  ASSUME NEW f \in Frames, NEW m \in Ranges, NEW o \in Nat,
         NEW k \in DOMAIN f, NEW n \in DOMAIN f, Writes(f[k], m, o), Writes(f[n], m, o)
  PROVE  k = n
  <1>1. /\ k \in Nat /\ n \in Nat /\ f[k] \in Ranges /\ f[n] \in Ranges
        /\ k < n => f[k].addr + f[k].len <= f[n].addr
        /\ n < k => f[n].addr + f[n].len <= f[k].addr
    BY FrameTyped
  <1>2. /\ f[k].addr \in Nat /\ f[k].len \in Nat /\ f[n].addr \in Nat /\ f[n].len \in Nat
        /\ m.addr \in Nat /\ m.len \in Nat
    BY <1>1, ProcessDataAssumption DEF Ranges
  <1> QED
    BY <1>1, <1>2 DEF Writes

\* When the FMMU of a slave has the size of the image and a datagram covers it,
\* every byte of the image comes from that datagram.
LEMMA CoveredImage ==
  ASSUME NEW i \in Slaves, NEW f \in Frames, NEW m \in Ranges, fmmu[i] = {m}, m.len = RxSize,
         NEW n \in DOMAIN f, f[n].addr <= m.addr, f[n].addr + f[n].len >= m.addr + m.len
  PROVE  Sources(i, f) = {n}
  <1> DEFINE ds(o) == {k \in DOMAIN f : \E q \in fmmu[i] : Writes(f[k], q, o)}
  <1>1. /\ f[n] \in Ranges /\ m.addr \in Nat /\ RxSize \in Nat \ {0}
        /\ f[n].addr \in Nat /\ f[n].len \in Nat
    BY FrameTyped, ProcessDataAssumption DEF Ranges
  <1>2. ASSUME NEW o \in Offsets
        PROVE  ds(o) = {n}
    <2>1. o \in Nat /\ o < RxSize
      BY <1>2, <1>1 DEF Offsets
    <2>2. Writes(f[n], m, o)
      BY <1>1, <2>1 DEF Writes
    <2>3. \A k \in DOMAIN f : Writes(f[k], m, o) => k = n
      BY <2>1, <2>2, OneWriter
    <2> QED
      BY <2>2, <2>3
  <1>3. n \in Nat
    BY FrameTyped
  <1>4. ASSUME NEW o \in Offsets
        PROVE  (IF ds(o) = {} THEN 0 ELSE CHOOSE k \in ds(o) : \A l \in ds(o) : l <= k) = n
    <2>1. ds(o) = {n} /\ n <= n
      BY <1>2, <1>3
    <2> HIDE DEF ds
    <2>2. \A k : k \in ds(o) /\ (\A l \in ds(o) : l <= k) <=> k = n
      BY <2>1
    <2>3. (CHOOSE k \in ds(o) : \A l \in ds(o) : l <= k) = n
      BY <2>2
    <2> QED
      BY <2>1, <2>3
  <1>5. 0 \in Offsets
    BY <1>1 DEF Offsets
  <1>6. Sources(i, f) =
          {IF ds(o) = {} THEN 0 ELSE CHOOSE k \in ds(o) : \A l \in ds(o) : l <= k : o \in Offsets}
    BY DEF Sources
  <1> HIDE DEF ds
  <1> QED
    BY <1>4, <1>5, <1>6

\* targetsOutput is enough for a whole image of the frame just received.
LEMMA CycleIsWhole ==
  ASSUME ProcessIInv, NEW f \in Frames, NEW states, ~Throws(f, states),
         NEW i \in Slaves, Targeted(i, f)
  PROVE  \E n \in 1..FrameMax : Sources(i, f) = {n}
  <1>1. PICK n \in DOMAIN f : Acknowledged(f[n]) /\ TargetsOutput(i, f[n])
    BY DEF Targeted
  <1>2. PICK m \in fmmu[i] : f[n].addr <= m.addr /\ f[n].addr + f[n].len >= m.addr + m.len
    BY <1>1 DEF TargetsOutput
  <1>3. fmmu[i] = {m} /\ m \in Ranges
    BY <1>2 DEF ProcessIInv, OneFmmu, MappingInv, ProcessTypeOK
  <1>4. m.len = RxSize
    BY <1>1, <1>3 DEF Throws, Unsupported
  <1>5. Sources(i, f) = {n}
    BY <1>2, <1>3, <1>4, CoveredImage
  <1> QED
    BY <1>5, FrameTyped

(***************************************************************************)
(* The steps.                                                              *)
(***************************************************************************)

\* Every step keeps the invariant.
LEMMA FmmuKeeps ==
  ASSUME ProcessIInv, NEW i \in Slaves, ConfigureFmmu(i)
  PROVE  ProcessIInv'
  <1>1. PICK m \in Ranges : fmmu' = [fmmu EXCEPT ![i] = {m}]
    BY DEF ConfigureFmmu
  <1>2. \A k \in Slaves : fmmu'[k] = {m} \/ fmmu'[k] = fmmu[k]
    BY <1>1 DEF ProcessIInv, Shapes
  <1>3. ProcessTypeOK'
    BY <1>1, <1>2 DEF ConfigureFmmu, ProcessIInv, MappingInv, ProcessTypeOK, NoCycle
  <1>4. MappingRestored' /\ DictFollows'
    BY DEF ConfigureFmmu, ProcessIInv, MappingInv, MappingRestored, DictFollows, Allowed
  <1>5. Shapes' /\ OneFmmu'
    BY <1>1, <1>2 DEF ConfigureFmmu, ProcessIInv, Shapes, OneFmmu
  <1>6. WholeImage'
    BY DEF ConfigureFmmu, WholeImage, NoCycle
  <1> QED
    BY <1>3, <1>4, <1>5, <1>6 DEF ProcessIInv, MappingInv

LEMMA WriteKeeps ==
  ASSUME ProcessIInv, NEW i \in Slaves, MappingWrite(i)
  PROVE  ProcessIInv'
  <1>0. PICK k \in Keys :
          \E v \in Others \cup {0, Expected[k]} :
            /\ dict' = [dict EXCEPT ![i][k] = v]
            /\ current' = IF Allowed(k, v) THEN [current EXCEPT ![i][k] = v] ELSE current
    BY DEF MappingWrite
  <1>1. PICK v \in Others \cup {0, Expected[k]} :
           /\ dict' = [dict EXCEPT ![i][k] = v]
           /\ current' = IF Allowed(k, v) THEN [current EXCEPT ![i][k] = v] ELSE current
    BY <1>0
  <1>2. /\ DOMAIN dict' = Slaves /\ DOMAIN current' = Slaves
        /\ \A j \in Slaves : DOMAIN current'[j] = Keys /\ DOMAIN dict'[j] = Keys
    BY <1>1 DEF ProcessIInv, Shapes
  <1>3. \A j \in Slaves, l \in Keys :
          /\ dict'[j][l] = IF j = i /\ l = k THEN v ELSE dict[j][l]
          /\ current'[j][l] = IF j = i /\ l = k /\ Allowed(k, v) THEN v ELSE current[j][l]
    BY <1>1 DEF ProcessIInv, Shapes
  <1>4. Allowed(k, v) => v \in {0, Expected[k]}
    BY DEF Allowed
  <1>5. ProcessTypeOK'
    BY <1>3, <1>4 DEF MappingWrite, ProcessIInv, MappingInv, ProcessTypeOK, NoCycle
  <1>6. DictFollows'
    BY <1>3 DEF ProcessIInv, DictFollows, Allowed
  <1>7. MappingRestored'
    <2> SUFFICES ASSUME NEW j \in Slaves, alive', al'[j] \in {"SAFE_OP", "OP"}
                 PROVE  /\ current'[j] = Expected
                        /\ \A l \in Keys : dict'[j][l] = Expected[l] \/ ~Allowed(l, dict'[j][l])
      BY DEF MappingRestored, Allowed
    <2>1. j # i /\ al[j] \in {"SAFE_OP", "OP"} /\ alive
      BY DEF MappingWrite
    <2>2. current'[j] = current[j] /\ dict'[j] = dict[j]
      BY <1>1, <2>1 DEF ProcessIInv, Shapes
    <2> QED
      BY <2>1, <2>2 DEF ProcessIInv, MappingInv, MappingRestored
  <1>8. Shapes' /\ OneFmmu'
    BY <1>2 DEF MappingWrite, ProcessIInv, Shapes, OneFmmu
  <1>9. WholeImage'
    BY DEF MappingWrite, WholeImage, NoCycle
  <1> QED
    BY <1>5, <1>6, <1>7, <1>8, <1>9 DEF ProcessIInv, MappingInv

LEMMA ReplyKeeps ==
  ASSUME ProcessIInv, NEW i \in Slaves, TakeReply(i)
  PROVE  ProcessIInv'
  <1>1. ProcessTypeOK'
    BY DEF TakeReply, ProcessIInv, MappingInv, ProcessTypeOK, NoCycle
  <1>2. MappingRestored' /\ DictFollows' /\ Shapes' /\ OneFmmu'
    BY DEF TakeReply, ProcessIInv, MappingInv, MappingRestored, DictFollows, Allowed, Shapes, OneFmmu
  <1>3. WholeImage'
    BY DEF TakeReply, WholeImage, NoCycle
  <1> QED
    BY <1>1, <1>2, <1>3 DEF ProcessIInv, MappingInv

LEMMA FrameKeeps ==
  ASSUME ProcessIInv, NEW f \in Frames, NEW i \in Slaves, NEW state \in States,
         Frame(f, i, state)
  PROVE  ProcessIInv'
  <1> DEFINE states == [al EXCEPT ![i] = state]
  <1>0. states \in [Slaves -> States]
    BY DEF ProcessIInv, MappingInv, ProcessTypeOK
  <1>1. fmmu' = fmmu /\ current' = current /\ dict' = dict
    BY DEF Frame
  <1>2. Shapes' /\ OneFmmu' /\ DictFollows'
    BY <1>1 DEF ProcessIInv, Shapes, OneFmmu, DictFollows, Allowed
  <1>3. CASE Throws(f, states)
    <2>1. alive' = FALSE /\ cycle' = NoCycle /\ al' = al /\ pending' = pending
      BY <1>3 DEF Frame
    <2>2. ProcessTypeOK'
      BY <1>1, <2>1 DEF ProcessIInv, MappingInv, ProcessTypeOK, NoCycle
    <2>3. MappingRestored' /\ WholeImage'
      BY <2>1 DEF MappingRestored, WholeImage, NoCycle
    <2> QED
      BY <1>2, <2>2, <2>3 DEF ProcessIInv, MappingInv
  <1>4. CASE ~Throws(f, states)
    <2>1. /\ al' = states /\ alive' = alive
          /\ cycle' = [k \in Slaves |->
                         IF Request(k, f, states[k]) = "cycle" THEN Sources(k, f) ELSE {}]
          /\ pending' = [k \in Slaves |-> pending[k] \/ Request(k, f, states[k]) # "none"]
      BY <1>4 DEF Frame
    <2>2. ASSUME NEW k \in Slaves
          PROVE  cycle'[k] = {} \/ \E n \in 1..FrameMax : cycle'[k] = {n}
      <3>1. CASE Request(k, f, states[k]) = "cycle"
        <4>1. Targeted(k, f)
          BY <3>1 DEF Request
        <4> QED
          BY <1>4, <2>1, <3>1, <4>1, CycleIsWhole
      <3>2. CASE Request(k, f, states[k]) # "cycle"
        BY <2>1, <3>2
      <3> QED
        BY <3>1, <3>2
    <2>3. \A k \in Slaves : cycle'[k] \subseteq 0..FrameMax
      BY <2>2
    <2>4. cycle' \in [Slaves -> SUBSET (0..FrameMax)]
      BY <2>1, <2>3
    <2>5. pending' \in [Slaves -> BOOLEAN]
      BY <2>1
    <2>6. ProcessTypeOK'
      BY <1>0, <1>1, <2>1, <2>4, <2>5 DEF ProcessIInv, MappingInv, ProcessTypeOK
    <2>7. MappingRestored'
      <3> SUFFICES ASSUME NEW j \in Slaves, alive', al'[j] \in {"SAFE_OP", "OP"}
                   PROVE  /\ current'[j] = Expected
                          /\ \A l \in Keys : dict'[j][l] = Expected[l] \/ ~Allowed(l, dict'[j][l])
        BY DEF MappingRestored, Allowed
      <3>1. current[j] = Expected
        BY <1>4, <2>1 DEF Throws, Complete
      <3> QED
        BY <1>1, <3>1 DEF ProcessIInv, DictFollows
    <2>8. WholeImage'
      BY <2>2 DEF WholeImage
    <2> QED
      BY <1>2, <2>6, <2>7, <2>8 DEF ProcessIInv, MappingInv
  <1> QED
    BY <1>3, <1>4

(***************************************************************************)
(* The theorems.                                                           *)
(***************************************************************************)

\* The inductive invariant holds: FixedMapping and the dictionary agree but for
\* refused values, and every slave has at most one output FMMU, which the two
\* properties below rest on.
THEOREM ProcessInvariant == ProcessSpec => []ProcessIInv
  <1>1. ProcessInit => ProcessIInv
    <2> SUFFICES ASSUME ProcessInit PROVE ProcessIInv
      OBVIOUS
    <2>1. ProcessTypeOK
      BY ProcessDataAssumption DEF ProcessInit, ProcessTypeOK, States, NoCycle, Keys
    <2>2. MappingRestored /\ Shapes /\ OneFmmu
      BY DEF ProcessInit, MappingRestored, Shapes, OneFmmu, Keys
    <2>3. DictFollows /\ WholeImage
      BY DEF ProcessInit, DictFollows, WholeImage, NoCycle
    <2> QED
      BY <2>1, <2>2, <2>3 DEF ProcessIInv, MappingInv
  <1>2. ASSUME ProcessIInv, [ProcessNext]_processVars PROVE ProcessIInv'
    <2>1. CASE ProcessNext
      BY <1>2, <2>1, FmmuKeeps, ReplyKeeps, WriteKeeps, FrameKeeps, ProcessDataAssumption DEF ProcessNext
    <2>2. CASE UNCHANGED processVars
      BY <1>2, <2>2 DEF processVars, ProcessIInv, MappingInv, ProcessTypeOK, MappingRestored, Allowed, Shapes,
         OneFmmu, DictFollows, WholeImage
    <2> QED
      BY <1>2, <2>1, <2>2
  <1> QED
    BY <1>1, <1>2, PTL DEF ProcessSpec

\* A cycle is submitted only with an output image that one datagram of the
\* frame just received wrote completely (targetsOutput in
\* process_data/pdo_target.h), for every layout of FMMUs and datagrams.
THEOREM OnlyWholeImages == ProcessSpec => []WholeImage
  <1>1. ProcessIInv => WholeImage
    BY DEF ProcessIInv
  <1> QED
    BY <1>1, ProcessInvariant, PTL

\* No slave is in SAFE-OP or OP with a mapping that differs from the fixture's
\* (FixedMapping in process_data/fixed_mapping.h and the check in the main
\* loop), and a readback shows it but for a refused entry.
THEOREM MappingAlwaysRestored == ProcessSpec => []MappingInv
  <1>1. ProcessIInv => MappingInv
    BY DEF ProcessIInv
  <1> QED
    BY <1>1, ProcessInvariant, PTL
=============================================================================
