--------------------------- MODULE TelemetryStore ---------------------------
(***************************************************************************)
(* What a telemetry batch promises, with no clocks and no harvest policy:  *)
(* a payload offered to it is either turned away or kept for its request;  *)
(* all that is kept for a request leaves together, once, handed over to    *)
(* the caller or lost because the request began again; when the store has  *)
(* been closed nothing is kept any more.  Batch.tla implements this.       *)
(***************************************************************************)
CONSTANTS Requests, Payloads

VARIABLES kept,        \* kept[r]: the payloads kept for request r
          turnedAway,  \* payloads offered for a request the store does not know
          handedOver,  \* payloads returned to the caller by a harvest
          lost,        \* payloads dropped when their request began again
          open         \* FALSE once the store has been closed

storeVars == <<kept, turnedAway, handedOver, lost, open>>

AllKept == UNION {kept[r] : r \in Requests}
Seen == AllKept \cup turnedAway \cup handedOver \cup lost

StoreInit ==
  /\ kept = [r \in Requests |-> {}]
  /\ turnedAway = {} /\ handedOver = {} /\ lost = {}
  /\ open = TRUE

Keep(p, r) ==
  /\ open /\ p \notin Seen
  /\ kept' = [kept EXCEPT ![r] = @ \cup {p}]
  /\ UNCHANGED <<turnedAway, handedOver, lost, open>>

TurnAway(p) ==
  /\ open /\ p \notin Seen
  /\ turnedAway' = turnedAway \cup {p}
  /\ UNCHANGED <<kept, handedOver, lost, open>>

BeginAgain(r) ==
  /\ open
  /\ lost' = lost \cup kept[r]
  /\ kept' = [kept EXCEPT ![r] = {}]
  /\ UNCHANGED <<turnedAway, handedOver, open>>

HandOver(R) ==
  /\ open
  /\ handedOver' = handedOver \cup UNION {kept[r] : r \in R}
  /\ kept' = [r \in Requests |-> IF r \in R THEN {} ELSE kept[r]]
  /\ UNCHANGED <<turnedAway, lost, open>>

HandOverAllAndClose ==
  /\ open
  /\ handedOver' = handedOver \cup AllKept
  /\ kept' = [r \in Requests |-> {}]
  /\ open' = FALSE
  /\ UNCHANGED <<turnedAway, lost>>

StoreNext ==
  \/ \E p \in Payloads, r \in Requests : Keep(p, r)
  \/ \E p \in Payloads : TurnAway(p)
  \/ \E r \in Requests : BeginAgain(r)
  \/ \E R \in SUBSET Requests : HandOver(R)
  \/ HandOverAllAndClose

StoreSpec == StoreInit /\ [][StoreNext]_storeVars
=============================================================================
