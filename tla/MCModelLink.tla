---------------------------- MODULE MCModelLink -----------------------------
(* Instances of ModelLink for TLC. *)
EXTENDS ModelLink, TLC

Bus(n, mailboxes, queue) == [n |-> n, mailboxes |-> mailboxes, queue |-> queue]

\* Two axes with a mailbox in use, and room for all their jobs.
SafetyBuses == {Bus(2, {1}, 3)}

\* For liveness, two axes without SDO traffic and one with it, where a second
\* job already fills the queue.
LiveBuses == {Bus(2, {}, 1), Bus(1, {1}, 1)}

\* The values of the SDO object are interchangeable.
MCSymmetry == Permutations(OdValues)
=============================================================================
