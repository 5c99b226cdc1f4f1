---------------------------- MODULE MCLogServer ----------------------------
(* Log streams for the runs of LogServer: two invocations, cut into POSTs at
   every possible place. *)
EXTENDS LogServer

CONSTANTS r1, r2

Event(type, id, of) == [type |-> type, id |-> id, of |-> of]

ShortStream ==
  << Event("platform.start", r1, r1), Event("function", NoId, r1),
     Event("platform.report", r1, r1), Event("platform.start", r2, r2),
     Event("platform.logsDropped", NoId, NoId), Event("platform.report", r2, r2) >>

Cuts(n, limit) ==
  {c \in [0..n -> 0..limit] :
     c[0] = 0 /\ c[n] = limit /\ \A i \in 1..n : c[i - 1] <= c[i]}
AllCuts(stream, n) ==
  {[h \in 1..n |-> SubSeq(stream, c[h - 1] + 1, c[h])] : c \in Cuts(n, Len(stream))}

ShortDeliveries == AllCuts(ShortStream, NumPosts)
=============================================================================
