----------------------------- MODULE SdoGateway -----------------------------
(***************************************************************************)
(* The CoE mailbox of one slave behind the project's message factory       *)
(* (ethercat_slave/ipc/sdo_gateway.cc).                                    *)
(*                                                                         *)
(* An SDO request for an index the model owns becomes a message that asks  *)
(* the model and answers by itself. Every other request is left to a       *)
(* message of KickCAT (the delegate), whose replies are corrected: its     *)
(* aborts keep the low bits of the request's command byte, and the hooks   *)
(* of the PDO configuration objects reject a write only after its success  *)
(* has been queued. ModelLink models how requests travel to the model and  *)
(* back; here the model answers at any time and in any way.                *)
(*                                                                         *)
(* KickCAT is external: a mailbox with requests being processed, in an     *)
(* order left open, and a queue of replies. Everything runs on the slave   *)
(* thread, so that a call of process() is one step.                        *)
(***************************************************************************)
EXTENDS Integers, Sequences, FiniteSets

CONSTANTS
  Entries,      \* sub-objects the model owns: gateway_->entries
  Entry,        \* the dictionary: [size, access] of each sub-object in it
  Values,       \* values of an object
  Room,         \* bytes of the mailbox buffer after the SDO header
  Masters       \* the masters, a function from their names: the requests each
                \* may make, how many it has outstanding at once, and the bound
                \* max on their number

\* A request: the object; the command; complete access; whether the data are in
\* the SDO header's four bytes (expedited) and their size indicated; the size
\* so indicated; the bytes after the SDO header that the mailbox header claims;
\* the value.
RequestFields == {"index", "sub", "cmd", "complete", "expedited", "indicated",
                  "length", "claimed", "val"}

ASSUME GatewayAssumption ==
  /\ Entries # {} /\ Values # {}
  /\ \A k \in DOMAIN Entry : Entry[k].size \in Nat
                             /\ Entry[k].access \subseteq {"read", "write"}
  /\ Room \in Nat /\ Room >= 4
  /\ \A a \in DOMAIN Masters :
       /\ \A r \in Masters[a].requests : /\ DOMAIN r = RequestFields
                                         /\ r.length \in Nat /\ r.claimed \in Nat
                                         /\ r.val \in Values
       /\ Masters[a].outstanding \in Nat \ {0} /\ Masters[a].max \in Nat

VARIABLES
  master,    \* the master this slave is used by
  messages,  \* messages being processed: [id, req, at, got]
  queue,     \* replies waiting to be sent: [id, kind, low]
  sent,      \* sent[id]: replies the master has received for a request
  verdict,   \* what became of each request: "open", "accepted" or "refused"
  dropped,   \* requests whose queued reply was removed for another's sake
  od         \* the local dictionary

vars == <<master, messages, queue, sent, verdict, dropped, od>>

Requests    == Masters[master].requests
Outstanding == Masters[master].outstanding
RequestMax  == Masters[master].max

Ids == DOMAIN verdict

\* Every variable has its type, and no reply names a request that was not made.
TypeOK ==
  /\ master \in DOMAIN Masters
  /\ verdict \in Seq({"open", "accepted", "refused"}) /\ Len(verdict) <= RequestMax
  /\ sent \in [Ids -> Seq([id : Ids, kind : {"ok", "abort"}, low : BOOLEAN])]
  /\ queue \in Seq([id : Ids, kind : {"ok", "abort"}, low : BOOLEAN])
  /\ messages \subseteq [id : Ids, req : Requests, at : {"new", "waiting", "segments"},
                         got : {"none", "ok", "error", "exception", "garbled"}]
  /\ dropped \subseteq Ids
  /\ od \in [DOMAIN Entry -> Values]

Init ==
  /\ master \in DOMAIN Masters
  /\ messages = {} /\ queue = <<>> /\ sent = <<>> /\ verdict = <<>> /\ dropped = {}
  /\ \E v \in Values : od = [k \in DOMAIN Entry |-> v]

Key(m) == <<m.req.index, m.req.sub>>
Write(m) == m.req.cmd = "download"

-----------------------------------------------------------------------------
(* The factory. *)

InFlight == {i \in Ids : sent[i] = <<>> /\ i \notin dropped}
MayAsk == Cardinality(InFlight) < Outstanding /\ Len(verdict) < RequestMax

\* A request arrives and the factory makes a message of it.
Arrives(r) ==
  /\ MayAsk
  /\ verdict' = Append(verdict, "open") /\ sent' = Append(sent, <<>>)
  /\ messages' = messages \cup {[id |-> Len(verdict) + 1, req |-> r, at |-> "new", got |-> "none"]}
  /\ UNCHANGED <<master, queue, dropped, od>>

\* wrappedFactory: no delegate for an index with a sub-object in entries.
Own(m) == \E k \in Entries : k[1] = m.req.index

-----------------------------------------------------------------------------
(* A message for the model. *)

\* A reply is built in the buffer of its request.
Reply(m, kind, low) == [id |-> m.id, kind |-> kind, low |-> low]

\* The size of the data a download announces.
Length(m) == IF m.req.expedited /\ ~m.req.indicated THEN Entry[Key(m)].size ELSE m.req.length

Offset(m) == IF m.req.expedited THEN 0 ELSE 4

\* The four bytes after the SDO header are there, within the buffer.
Truncated(m) == m.req.claimed < 4 \/ m.req.claimed > Room

\* Mutant of GoodData: data may run past the end of the message.
GoodDataOverrun(m) == (m.req.expedited \/ m.req.indicated) /\ Length(m) = Entry[Key(m)].size

\* A download announces the size of the object, and its data are within the
\* message.
GoodData(m) == /\ m.req.expedited \/ m.req.indicated
               /\ Length(m) = Entry[Key(m)].size
               /\ Offset(m) + Entry[Key(m)].size <= m.req.claimed

\* The access is one the model knows: a whole header, an entry of at most four
\* bytes, a plain upload or download that the entry allows.
Addressed(m) ==
  /\ ~Truncated(m)
  /\ Key(m) \in Entries
  /\ ~m.req.complete
  /\ Key(m) \in DOMAIN Entry
  /\ Entry[Key(m)].size \in 1..4
  /\ m.req.cmd \in {"download", "upload"}
  /\ (IF Write(m) THEN "write" ELSE "read") \in Entry[Key(m)].access

\* The access passes all checks that come before the model is asked.
Permitted(m) == Addressed(m) /\ (Write(m) => GoodData(m))

\* The bytes after the SDO header that process() reads: the announced size of a
\* download that is not expedited, and the data.
BytesRead(m) ==
  (IF Addressed(m) /\ Write(m) /\ ~m.req.expedited /\ m.req.indicated THEN 0..3 ELSE {})
  \cup (IF Permitted(m) /\ Write(m)
        THEN Offset(m)..(Offset(m) + Entry[Key(m)].size - 1) ELSE {})

\* A message ends with replies rs added to the queue.
Finalize(m, outcome, rs) ==
  /\ messages' = messages \ {m}
  /\ verdict' = [verdict EXCEPT ![m.id] = outcome]
  /\ queue' = queue \o rs

Refuse(m) ==
  /\ m \in messages /\ Own(m) /\ ~Permitted(m)
  /\ Finalize(m, "refused", <<Reply(m, "abort", FALSE)>>)
  /\ UNCHANGED <<master, sent, dropped, od>>

\* The first call submits the request; the calls that follow find its future.
Submit(m) ==
  /\ m \in messages /\ Own(m) /\ Permitted(m) /\ m.at = "new"
  /\ messages' = (messages \ {m}) \cup {[m EXCEPT !.at = "waiting"]}
  /\ UNCHANGED <<master, queue, sent, verdict, dropped, od>>

\* The model (external): its reply, a reply whose data are not of the object's
\* size, an error, or an exception in the future, at once or later.
ModelAnswers(m) ==
  /\ m \in messages /\ m.at = "waiting" /\ m.got = "none"
  /\ \E a \in {"ok", "error", "exception"} \cup (IF Write(m) THEN {} ELSE {"garbled"}) :
       messages' = (messages \ {m}) \cup {[m EXCEPT !.got = a]}
  /\ UNCHANGED <<master, queue, sent, verdict, dropped, od>>

\* The call that finds the future ready: the local dictionary is written once
\* the model has accepted the access and its data are good, then the success is
\* queued; anything else is an abort.
Answer(m) ==
  /\ m \in messages /\ m.at = "waiting" /\ m.got # "none"
  /\ \/ /\ m.got = "ok"
        /\ \E v \in IF Write(m) THEN {m.req.val} ELSE Values : od' = [od EXCEPT ![Key(m)] = v]
        /\ Finalize(m, "accepted", <<Reply(m, "ok", FALSE)>>)
     \/ /\ m.got # "ok"
        /\ Finalize(m, "refused", <<Reply(m, "abort", FALSE)>>)
        /\ UNCHANGED od
  /\ UNCHANGED <<master, sent, dropped>>

-----------------------------------------------------------------------------
(* A message with a delegate. *)

\* KickCAT's abort changes the three command bits of the request only.
DelegateAbort(m) == Reply(m, "abort", m.req.expedited \/ m.req.indicated)

\* normalizeReplies: every abort in the queue gets the whole command byte 0x80;
\* the order is kept.
NormalizeReplies(q) ==
  [n \in DOMAIN q |-> IF q[n].kind = "abort" THEN [q[n] EXCEPT !.low = FALSE] ELSE q[n]]

\* The sub-objects a download names: one, or by complete access those of its
\* index.
Named(m) == {k \in DOMAIN Entry : IF m.req.complete THEN k[1] = m.req.index ELSE k = Key(m)}

\* The dictionary once KickCAT (external) has stored the data of a download. The
\* data of a complete access are a value for each sub-object, not all of them
\* reached if one is refused.
Stored(m) ==
  IF m.req.complete
    THEN {o \in [DOMAIN Entry -> Values] : \A k \in DOMAIN Entry \ Named(m) : o[k] = od[k]}
    ELSE {[od EXCEPT ![Key(m)] = m.req.val]}

\* process() of the delegate (external) answers; a long upload goes on. A
\* download is in the dictionary when it is acknowledged, and one with complete
\* access may be there in part when it is aborted.
Delegate(m) ==
  /\ m \in messages /\ ~Own(m) /\ m.at = "new"
  /\ \/ /\ queue' = NormalizeReplies(Append(queue, DelegateAbort(m)))
        /\ verdict' = [verdict EXCEPT ![m.id] = "refused"]
        /\ messages' = messages \ {m}
        /\ od' \in IF Write(m) /\ m.req.complete THEN Stored(m) ELSE {od}
     \/ /\ Write(m) => Named(m) # {}
        /\ od' \in IF Write(m) THEN Stored(m) ELSE {od}
        /\ queue' = NormalizeReplies(Append(queue, Reply(m, "ok", FALSE)))
        /\ verdict' = [verdict EXCEPT ![m.id] = "accepted"]
        /\ \/ messages' = messages \ {m}
           \/ /\ m.req.cmd = "upload"
              /\ messages' = (messages \ {m}) \cup {[m EXCEPT !.at = "segments"]}
  /\ UNCHANGED <<master, sent, dropped>>

\* Mutant of DelegateRejects: the success queued before the hook ran is kept.
DelegateRejectsLate(m) ==
  /\ m \in messages /\ ~Own(m) /\ m.at = "new" /\ Write(m) /\ Named(m) # {}
  /\ od' \in Stored(m)
  /\ queue' = queue \o <<Reply(m, "ok", FALSE), Reply(m, "abort", FALSE)>>
  /\ verdict' = [verdict EXCEPT ![m.id] = "refused"]
  /\ messages' = messages \ {m}
  /\ UNCHANGED <<master, sent, dropped>>

\* The after_access hook of a mapping object reads the value KickCAT has stored
\* and throws, when the success is in the queue already: all that is in the
\* queue is removed and the abort is queued, but nothing restores the value.
DelegateRejects(m) ==
  /\ m \in messages /\ ~Own(m) /\ m.at = "new" /\ Write(m) /\ Named(m) # {}
  /\ od' \in Stored(m)
  /\ queue' = <<Reply(m, "abort", FALSE)>>
  /\ dropped' = dropped \cup {queue[n].id : n \in DOMAIN queue}
  /\ verdict' = [verdict EXCEPT ![m.id] = "refused"]
  /\ messages' = messages \ {m}
  /\ UNCHANGED <<master, sent>>

\* process(raw): the next segment of a long upload is a request of its own to
\* the same message, which may be the last.
Segment(m) ==
  /\ m \in messages /\ m.at = "segments" /\ MayAsk
  /\ verdict' = Append(verdict, "accepted") /\ sent' = Append(sent, <<>>)
  /\ queue' = NormalizeReplies(Append(queue, [id |-> Len(verdict) + 1, kind |-> "ok",
                                              low |-> FALSE]))
  /\ messages' \in {messages, messages \ {m}}
  /\ UNCHANGED <<master, dropped, od>>

\* The mailbox (external) hands the oldest reply to the master.
Send ==
  /\ queue # <<>>
  /\ queue' = Tail(queue)
  /\ sent' = [sent EXCEPT ![Head(queue).id] = Append(@, Head(queue))]
  /\ UNCHANGED <<master, messages, verdict, dropped, od>>

Next ==
  \/ \E r \in Requests : Arrives(r)
  \/ \E m \in messages : Refuse(m)
  \/ \E m \in messages : Submit(m)
  \/ \E m \in messages : ModelAnswers(m)
  \/ \E m \in messages : Answer(m)
  \/ \E m \in messages : Delegate(m)
  \/ \E m \in messages : DelegateRejects(m)
  \/ \E m \in messages : Segment(m)
  \/ Send

Spec == Init /\ [][Next]_vars

-----------------------------------------------------------------------------
(* Properties. *)

Queued(i) == {n \in DOMAIN queue : queue[n].id = i}

\* The replies to request i, in the queue or with the master.
Replies(i) == {queue[n] : n \in Queued(i)} \cup {sent[i][n] : n \in DOMAIN sent[i]}

\* Every request whose processing has ended has exactly one reply, queued or
\* received, a success if it was accepted and an abort if it was not, whatever
\* order the mailbox processes requests in and although KickCAT acknowledges a
\* mapping write before its hook rejects it. The exception: a rejection removes
\* every reply that is still in the queue, which needs a master with two
\* requests in flight.
OneTrueReply ==
  \A i \in Ids :
    /\ verdict[i] = "open" => Replies(i) = {}
    /\ verdict[i] # "open" /\ i \notin dropped =>
         /\ Cardinality(Queued(i)) + Len(sent[i]) = 1
         /\ \A r \in Replies(i) : r.kind = "ok" <=> verdict[i] = "accepted"
    /\ i \in dropped => Outstanding > 1 /\ Replies(i) = {}

\* No abort leaves the mailbox with another command byte than 0x80, whether the
\* gateway or KickCAT made it (TD-001).
AbortFormat == \A n \in DOMAIN queue : queue[n].kind = "abort" => ~queue[n].low

\* process() reads no byte beyond the message: neither beyond the buffer nor
\* beyond what the mailbox header claims, whatever the header says.
ReadsInside ==
  \A m \in messages : Own(m) => \A b \in BytesRead(m) : b < Room /\ b < m.req.claimed

\* Request m, decided in this step, is one that may write object k: an access
\* to k itself that the model accepted, or a download that KickCAT handles at
\* an index of which the model owns nothing.
MayWrite(m, k) ==
  /\ m.req.index = k[1]
  /\ verdict[m.id] = "open" /\ verdict'[m.id] # "open"
  /\ IF Own(m) THEN Key(m) = k /\ verdict'[m.id] = "accepted" ELSE Write(m)

\* The mailbox answers truthfully: each request once, in the right form. At an
\* index of the model only an access the model accepted changes the local
\* dictionary, at its own object; elsewhere only a download of that index does.
\* Such a download may be one that is refused: the hooks of the PDO mapping
\* objects reject it after KickCAT has stored it (main.cc:129), and the gateway
\* takes back the reply only, so that a refused mapping value stays readable.
RepliesAreTrue ==
  [][/\ (TypeOK /\ OneTrueReply /\ AbortFormat)'
     /\ \A k \in DOMAIN Entry : od'[k] # od[k] => \E m \in messages : MayWrite(m, k)]_vars
=============================================================================
