------------------------------- MODULE Batch -------------------------------
(***************************************************************************)
(* telemetry.Batch as a machine: any caller may register an invocation,    *)
(* attach telemetry, harvest, and finally close the batch, in any order    *)
(* and at any time.  Request ids may come back: Lambda retries an          *)
(* asynchronous invocation under the request id of the first attempt.      *)
(*                                                                         *)
(* The payloads are numbered in the order they are offered.  offered,      *)
(* turnedAway, overwritten and returned are history: the code keeps none   *)
(* of them, they record what became of every payload.                      *)
(***************************************************************************)
EXTENDS BatchOps, FiniteSets

CONSTANTS Requests,     \* the request ids
          Traces,       \* the trace ids a payload may carry
          MaxPayloads,  \* bound: payloads offered in a behaviour
          FirstInstant, \* the clock when the extension starts
          LastInstant   \* bound: the clock stops here

ASSUME TraceAssumption == NoTrace \notin Traces
ASSUME ClockAssumption ==
  /\ MaxPayloads \in Nat /\ FirstInstant \in Nat /\ LastInstant \in Nat
  /\ FirstInstant <= LastInstant
  /\ FirstInstant > RipeDuration /\ FirstInstant > VeryOldDuration

VARIABLES batch,        \* the Batch structure
          now,          \* the clock the callers read
          closed,       \* Close has been called
          offered,      \* number of payloads passed to AddTelemetry so far
          turnedAway,   \* payloads for which AddTelemetry returned nil
          overwritten,  \* payloads held by an invocation AddInvocation replaced
          returned      \* returned[p]: how often a harvest has returned p

vars == <<batch, now, closed, offered, turnedAway, overwritten, returned>>

Payloads == 1..MaxPayloads
Instants == FirstInstant..LastInstant
Telemetry == [id : Payloads, trace : Traces \cup {NoTrace}]

\* The payloads that an invocation of the map invs holds.
IdsOf(inv) == {telemetry.id : telemetry \in Range(inv.telemetry)}
IdsIn(invs) == UNION {IdsOf(invs[r]) : r \in DOMAIN invs}
Kept(r) == IF r \in DOMAIN batch.invocations
           THEN IdsOf(batch.invocations[r]) ELSE {}
\* How often payload p occurs among the invocations of the map invs.
Holds(invs, at, p) ==
  /\ at[2] \in DOMAIN invs[at[1]].telemetry
  /\ invs[at[1]].telemetry[at[2]].id = p
Occurrences(invs, p) ==
  Cardinality({at \in (DOMAIN invs) \X Payloads : Holds(invs, at, p)})

Init ==
  /\ batch = NewBatch
  /\ now = FirstInstant
  /\ closed = FALSE
  /\ offered = 0
  /\ turnedAway = {} /\ overwritten = {}
  /\ returned = [p \in Payloads |-> 0]

Tick ==
  /\ now < LastInstant
  /\ now' = now + 1
  /\ UNCHANGED <<batch, closed, offered, turnedAway, overwritten, returned>>

DoAddInvocation(r) ==
  /\ ~closed
  /\ batch' = AddInvocation(batch, r, now)
  /\ overwritten' = overwritten \cup Kept(r)
  /\ UNCHANGED <<now, closed, offered, turnedAway, returned>>

DoAddTelemetry(r, trace, isAPMTelemetry) ==
  /\ ~closed /\ offered < MaxPayloads
  /\ offered' = offered + 1
  /\ batch' = AddTelemetry(batch, r, [id |-> offered', trace |-> trace],
                           isAPMTelemetry)
  /\ turnedAway' = IF Accepts(batch, r) THEN turnedAway
                   ELSE turnedAway \cup {offered'}
  /\ UNCHANGED <<now, closed, overwritten, returned>>

Return(taken) ==
  returned' = [p \in Payloads |-> returned[p] + Occurrences(taken, p)]

DoHarvest ==
  /\ ~closed
  /\ batch' = Harvest(batch, now).batch
  /\ Return(Harvest(batch, now).taken)
  /\ UNCHANGED <<now, closed, offered, turnedAway, overwritten>>

DoClose ==
  /\ ~closed
  /\ closed' = TRUE
  /\ batch' = Close(batch, now).batch
  /\ Return(Close(batch, now).taken)
  /\ UNCHANGED <<now, offered, turnedAway, overwritten>>

Next ==
  \/ Tick
  \/ \E r \in Requests : DoAddInvocation(r)
  \/ \E r \in Requests, trace \in Traces \cup {NoTrace}, isAPM \in BOOLEAN :
       DoAddTelemetry(r, trace, isAPM)
  \/ DoHarvest
  \/ DoClose

Spec == Init /\ [][Next]_vars

-----------------------------------------------------------------------------
InvocationType ==
  [start : Instants, traceId : Traces \cup {NoTrace}, telemetry : Seq(Telemetry)]

\* The type invariant of the batch and of its history.
TypeOK ==
  /\ DOMAIN batch = {"lastHarvest", "eldest", "invocations", "storeTraceID"}
  /\ batch.lastHarvest \in Instants \cup {EpochStart}
  /\ batch.eldest \in Instants \cup {EpochStart}
  /\ DOMAIN batch.invocations \subseteq Requests
  /\ \A r \in DOMAIN batch.invocations : batch.invocations[r] \in InvocationType
  /\ DOMAIN batch.storeTraceID \subseteq Requests
  /\ \A r \in DOMAIN batch.storeTraceID : batch.storeTraceID[r] \in Traces
  /\ now \in Instants /\ closed \in BOOLEAN /\ offered \in 0..MaxPayloads
  /\ turnedAway \subseteq Payloads /\ overwritten \subseteq Payloads
  /\ returned \in [Payloads -> Nat]

\* Every payload offered so far is in exactly one place, exactly once: turned
\* away, held by one invocation, returned by one harvest, or overwritten.
\* Two harvests never return the same payload, and none is forgotten.
EachPayloadOnce ==
  \A p \in Payloads :
    LET places == Occurrences(batch.invocations, p) + returned[p]
                  + (IF p \in turnedAway THEN 1 ELSE 0)
                  + (IF p \in overwritten THEN 1 ELSE 0)
    IN  places = IF p <= offered THEN 1 ELSE 0

\* While telemetry is pending, eldest is a real instant: the test against
\* ripeTime in Harvest never reads the epochStart of "nothing pending" when
\* something is.
PendingHasEldest == Pending(batch) # {} => batch.eldest # EpochStart

\* After a Harvest, telemetry stays behind only if the last harvest that took
\* something is at most VeryOldDuration ago, and a ripe invocation stays behind
\* only if eldest is at most RipeDuration ago.
HarvestLeavesNoBacklog ==
  [][DoHarvest =>
       /\ Pending(batch') # {} => batch'.lastHarvest >= now - VeryOldDuration
       /\ Ripe(batch') # {} => batch'.eldest >= now - RipeDuration]_vars

\* The batch implements the abstract store: what leaves it leaves by whole
\* invocations, once, and Close empties it.
Store == INSTANCE TelemetryStore WITH
  kept <- [r \in Requests |-> Kept(r)],
  handedOver <- {p \in Payloads : returned[p] > 0},
  lost <- overwritten,
  open <- ~closed
ImplementsStore == Store!StoreSpec
=============================================================================
