---------------------------- MODULE PayloadSplit ----------------------------
(***************************************************************************)
(* CompressedPayloadsForLogEvents (telemetry/request.go): the log events   *)
(* of a harvest are compressed together, and split in half as long as the  *)
(* result is too large for New Relic.  A slice logsEvents[from:from+len]   *)
(* is <<from, len>>; what compressing a slice leads to is any function of  *)
(* the slices that are tried: a part need not be smaller than the whole.   *)
(***************************************************************************)
EXTENDS Integers, Sequences, Functions

CONSTANT MaxEvents   \* bound: log events of one call

ASSUME EventsAssumption == MaxEvents \in Nat

VARIABLES count,      \* len(logsEvents)
          compress,   \* what becomes of each slice
          returned    \* the result of the call

vars == <<count, compress, returned>>

Slices == {s \in (0..MaxEvents) \X (0..MaxEvents) : s[1] + s[2] <= MaxEvents}
Length(s) == s[2]
Half(s) == Length(s) \div 2
Left(s) == <<s[1], Half(s)>>
\* Mutant: the event in the middle is in neither half.
RightSkips(s) == <<s[1] + Half(s) + 1, Length(s) - Half(s) - 1>>

Right(s) == <<s[1] + Half(s), Length(s) - Half(s)>>

\* "fits": at most maxCompressedPayloadLen; "fails": json or gzip return an error.
Outcomes == {"fits", "large", "fails"}

\* append(leftRet, rightRet...), unless one of them is an error.
Join(left, right) ==
  CASE left.err  -> left
    [] right.err -> right
    [] OTHER     -> [err |-> FALSE, payloads |-> left.payloads \o right.payloads]

CompressedPayloadsForLogEvents ==
  LET split[s \in Slices] ==
        IF compress[s] = "fails" THEN [err |-> TRUE, payloads |-> << >>]
        ELSE IF compress[s] = "large" /\ Length(s) > 1 THEN Join(split[Left(s)], split[Right(s)])
        ELSE [err |-> FALSE, payloads |-> << s >>]
  IN  split[<<0, count>>]

\* The slices halving can lead to.
Tree(n) ==
  LET below[s \in Slices] ==
        IF Length(s) > 1 THEN {s} \cup below[Left(s)] \cup below[Right(s)] ELSE {s}
  IN  below[<<0, n>>]

Pending == [err |-> FALSE, payloads |-> << <<MaxEvents + 1, 0>> >>]

Init ==
  /\ count \in 0..MaxEvents
  /\ compress \in [Tree(count) -> Outcomes]
  /\ returned = Pending

Call ==
  /\ returned = Pending
  /\ returned' = CompressedPayloadsForLogEvents
  /\ UNCHANGED <<count, compress>>

Next == Call
Spec == Init /\ [][Next]_vars

-----------------------------------------------------------------------------
(* The reference: a slice is tried when every slice of the tree it is part *)
(* of was too large.                                                       *)
End(s) == s[1] + s[2]
PartOf(s, t) == t[1] <= s[1] /\ End(s) <= End(t)
Tried(s) == \A t \in Tree(count) : PartOf(s, t) /\ t # s => compress[t] = "large"
Sent(s) ==
  /\ Tried(s)
  /\ compress[s] # "fails"
  /\ compress[s] = "large" => Length(s) <= 1

\* The payloads begin where s begins, each goes on where the one before it stops,
\* and the last stops where s stops.
Cover(payloads, s) ==
  /\ payloads # << >>
  /\ payloads[1][1] = s[1] /\ End(payloads[Len(payloads)]) = End(s)
  /\ \A i \in 1..(Len(payloads) - 1) : payloads[i + 1][1] = End(payloads[i])

\* The payloads are the largest halves that fit, and single events, and hold every
\* event of the harvest once and in order: the halving loses and repeats nothing at
\* any boundary.  An error anywhere on the way makes the whole call fail.
SplitAsReference ==
  returned # Pending =>
    IF \E s \in Tree(count) : Tried(s) /\ compress[s] = "fails"
    THEN returned.err
    ELSE /\ ~returned.err
         /\ Range(returned.payloads) = {s \in Tree(count) : Sent(s)}
         /\ Cover(returned.payloads, <<0, count>>)
=============================================================================
