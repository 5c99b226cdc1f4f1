--------------------------- MODULE MCLogShipping ---------------------------
(* Three invocations of a Node function, the last a retry of the first; the log
   stream is cut into two POSTs at every possible place. *)
EXTENDS LogShipping

CONSTANTS r1, r2, retry

Event(type, id, of) == [type |-> type, id |-> id, of |-> of]

\* A line of a Node function may name its request or not.
Stream ==
  << Event("platform.start", r1, r1), Event("function", r1, r1),
     Event("function", r1, r1), Event("platform.report", r1, r1),
     Event("platform.start", r2, r2), Event("extension", NoId, r2),
     Event("platform.start", r1, retry), Event("function", NoId, retry) >>

Attempts == << r1, r2, retry >>
RequestIds == [i \in Ids |-> IF i = retry THEN r1 ELSE i]

Cuts(n, limit) ==
  {c \in [0..n -> 0..limit] :
     c[0] = 0 /\ c[n] = limit /\ \A i \in 1..n : c[i - 1] < c[i]}
Deliverable ==
  {[h \in Posts |-> SubSeq(Stream, c[h - 1] + 1, c[h])] : c \in Cuts(NumPosts, Len(Stream))}

ASSUME StreamAssumption == SerialDelivery /\ StreamInOrder
=============================================================================
