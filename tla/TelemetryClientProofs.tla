------------------------ MODULE TelemetryClientProofs ------------------------
(***************************************************************************)
(* For any number of payloads and any durations: the types, that what is   *)
(* counted as a success was accepted, that a payload is repeated only      *)
(* after a timeout, and how long the caller waits and a goroutine stays.   *)
(*                                                                         *)
(* Each property has an inductive invariant of its own, over the types: a  *)
(* success is counted for the payload the caller is at, so the counter     *)
(* follows the accepted payloads among those behind it; and the clock      *)
(* never passes a moment at which somebody has something to do.            *)
(***************************************************************************)
EXTENDS TelemetryClient, FiniteSetTheorems, TLAPS

\* The caller's place and its count: at most one success for each payload
\* behind it.
CallerOK ==
  /\ caller \in {"next", "waiting", "returned"}
  /\ current \in 0..NumPayloads /\ (caller = "waiting" => current # 0)
  /\ successCount \in 0..current
  /\ caller = "waiting" => successCount < current

\* What there is of each payload.
PayloadsOK ==
  /\ now \in Nat /\ cancelled \in BOOLEAN
  /\ deadline \in [Payloads -> Nat]
  /\ data \in [Payloads -> {"empty", "success", "rejected", "error"}]
  /\ pc \in [Payloads -> {"idle", "loop", "inFlight", "sleep", "done", "notBuilt"}]
  /\ timer \in [Payloads -> Nat]
  /\ request \in [Payloads -> {"none", "sent", "accepted", "rejected"}]
  /\ accepted \subseteq Payloads
  /\ sent \in [Payloads -> Nat] /\ timeouts \in [Payloads -> Nat]

\* The loop of attemptSend: whoever has a request in flight has a retry left.
TriesOK ==
  /\ attempts \in [Payloads -> 0..SendTimeoutMaxRetries]
  /\ baseSleepTime \in [Payloads -> 1..SendTimeoutMaxBackOff]
  /\ \A p \in Payloads : pc[p] = "inFlight" => attempts[p] < SendTimeoutMaxRetries

\* The payloads the caller has not come to are untouched.
AheadUntouched ==
  \A p \in Payloads : p > current => pc[p] = "idle" /\ data[p] = "empty" /\ sent[p] = 0

Types == CallerOK /\ PayloadsOK /\ TriesOK /\ AheadUntouched

-----------------------------------------------------------------------------
LEMMA InitTypes == Init => Types
  <1> SUFFICES ASSUME Init PROVE Types
    OBVIOUS
  <1>1. CallerOK
    BY ClientAssumption DEF CallerOK, Init
  <1>2. PayloadsOK
    BY DEF PayloadsOK, Init
  <1>3. TriesOK
    BY ClientAssumption DEF TriesOK, Init
  <1>4. AheadUntouched
    BY DEF AheadUntouched, Init
  <1> QED
    BY <1>1, <1>2, <1>3, <1>4 DEF Types

\* The wait between two tries is at least one instant and at most the maximum.
LEMMA BackOffBounded ==
  ASSUME NEW base \in 1..SendTimeoutMaxBackOff, NEW n \in Nat
  PROVE  BackOff(base, n) \in 1..SendTimeoutMaxBackOff
  <1> DEFINE b == IF (n + 1) % 3 = 0 THEN 2 * base ELSE base
  <1>1. b \in Nat /\ b >= 1
    OBVIOUS
  <1>2. BackOff(base, n) = Smaller(b, SendTimeoutMaxBackOff)
    BY DEF BackOff
  <1> HIDE DEF b
  <1> QED
    BY <1>1, <1>2, ClientAssumption DEF Smaller

LEMMA CallerTypes == Types /\ SendPayloads => Types'
  <1> SUFFICES ASSUME Types, SendPayloads PROVE Types'
    OBVIOUS
  <1> USE ClientAssumption DEF Types
  <1>1. CASE NextPayload
    <2>1. CallerOK'
      BY <1>1 DEF NextPayload, history, CallerOK
    <2>2. now + Timeout \in Nat
      BY DEF PayloadsOK
    <2>3. PayloadsOK'
      BY <1>1, <2>2 DEF NextPayload, history, CallerOK, PayloadsOK
    <2>4. TriesOK'
      BY <1>1 DEF NextPayload, history, PayloadsOK, TriesOK
    <2>5. AheadUntouched'
      BY <1>1 DEF NextPayload, history, CallerOK, PayloadsOK, AheadUntouched, Payloads
    <2> QED
      BY <2>1, <2>3, <2>4, <2>5 DEF Types
  <1>2. CASE WaitTimesOut
    <2>1. CallerOK'
      BY <1>2 DEF WaitTimesOut, attemptVars, history, CallerOK
    <2>2. PayloadsOK'
      BY <1>2 DEF WaitTimesOut, attemptVars, history, CallerOK, PayloadsOK
    <2>3. TriesOK'
      BY <1>2 DEF WaitTimesOut, attemptVars, history, PayloadsOK, TriesOK
    <2>4. AheadUntouched'
      BY <1>2 DEF WaitTimesOut, attemptVars, history, CallerOK, PayloadsOK, AheadUntouched
    <2> QED
      BY <2>1, <2>2, <2>3, <2>4 DEF Types
  <1>3. CASE TakeAnswer
    <2>1. CallerOK'
      BY <1>3 DEF TakeAnswer, attemptVars, history, CallerOK
    <2>2. PayloadsOK'
      BY <1>3 DEF TakeAnswer, attemptVars, history, CallerOK, PayloadsOK
    <2>3. TriesOK'
      BY <1>3 DEF TakeAnswer, attemptVars, history, PayloadsOK, TriesOK
    <2>4. AheadUntouched'
      BY <1>3 DEF TakeAnswer, attemptVars, history, CallerOK, PayloadsOK, AheadUntouched
    <2> QED
      BY <2>1, <2>2, <2>3, <2>4 DEF Types
  <1>4. CASE Return
    <2>1. CallerOK'
      BY <1>4 DEF Return, attemptVars, history, CallerOK
    <2>2. PayloadsOK'
      BY <1>4 DEF Return, attemptVars, history, CallerOK, PayloadsOK
    <2>3. TriesOK'
      BY <1>4 DEF Return, attemptVars, history, PayloadsOK, TriesOK
    <2>4. AheadUntouched'
      BY <1>4 DEF Return, attemptVars, history, CallerOK, PayloadsOK, AheadUntouched
    <2> QED
      BY <2>1, <2>2, <2>3, <2>4 DEF Types
  <1> QED
    BY <1>1, <1>2, <1>3, <1>4 DEF SendPayloads

LEMMA AttemptTypes ==
  ASSUME Types, NEW p \in Payloads, AttemptSend(p)
  PROVE  Types'
  <1> USE ClientAssumption DEF Types
  <1>1. CASE Quit(p)
    <2>1. CallerOK'
      BY <1>1 DEF Quit, callerVars, history, CallerOK
    <2>2. PayloadsOK'
      BY <1>1 DEF Quit, callerVars, history, CallerOK, PayloadsOK
    <2>3. TriesOK'
      BY <1>1 DEF Quit, callerVars, history, PayloadsOK, TriesOK
    <2>4. AheadUntouched'
      BY <1>1 DEF Quit, callerVars, history, CallerOK, PayloadsOK, AheadUntouched
    <2> QED
      BY <2>1, <2>2, <2>3, <2>4 DEF Types
  <1>2. CASE SendRequest(p)
    <2>1. CallerOK'
      BY <1>2 DEF SendRequest, GaveUp, callerVars, CallerOK
    <2>2. PayloadsOK'
      BY <1>2 DEF SendRequest, GaveUp, callerVars, CallerOK, PayloadsOK
    <2>3. TriesOK'
      BY <1>2 DEF SendRequest, GaveUp, callerVars, PayloadsOK, TriesOK
    <2>4. AheadUntouched'
      BY <1>2 DEF SendRequest, GaveUp, callerVars, CallerOK, PayloadsOK, AheadUntouched
    <2> QED
      BY <2>1, <2>2, <2>3, <2>4 DEF Types
  <1>3. CASE RequestCancelled(p)
    <2>1. CallerOK'
      BY <1>3 DEF RequestCancelled, Answer, callerVars, history, CallerOK
    <2>2. PayloadsOK'
      BY <1>3 DEF RequestCancelled, Answer, callerVars, history, CallerOK, PayloadsOK
    <2>3. TriesOK'
      BY <1>3 DEF RequestCancelled, Answer, callerVars, history, PayloadsOK, TriesOK
    <2>4. AheadUntouched'
      BY <1>3 DEF RequestCancelled, Answer, callerVars, history, CallerOK, PayloadsOK, AheadUntouched
    <2> QED
      BY <2>1, <2>2, <2>3, <2>4 DEF Types
  <1>4. CASE ReceiveResponse(p)
    <2>1. CallerOK'
      BY <1>4 DEF ReceiveResponse, Answer, callerVars, history, CallerOK
    <2>2. PayloadsOK'
      BY <1>4 DEF ReceiveResponse, Answer, callerVars, history, CallerOK, PayloadsOK
    <2>3. TriesOK'
      BY <1>4 DEF ReceiveResponse, Answer, callerVars, history, PayloadsOK, TriesOK
    <2>4. AheadUntouched'
      BY <1>4 DEF ReceiveResponse, Answer, callerVars, history, CallerOK, PayloadsOK, AheadUntouched
    <2> QED
      BY <2>1, <2>2, <2>3, <2>4 DEF Types
  <1>5. CASE RequestFails(p)
    <2>1. CallerOK'
      BY <1>5 DEF RequestFails, Answer, callerVars, history, CallerOK
    <2>2. PayloadsOK'
      BY <1>5 DEF RequestFails, Answer, callerVars, history, CallerOK, PayloadsOK
    <2>3. TriesOK'
      BY <1>5 DEF RequestFails, Answer, callerVars, history, PayloadsOK, TriesOK
    <2>4. AheadUntouched'
      BY <1>5 DEF RequestFails, Answer, callerVars, history, CallerOK, PayloadsOK, AheadUntouched
    <2> QED
      BY <2>1, <2>2, <2>3, <2>4 DEF Types
  <1>6. CASE RequestTimesOut(p)
    <2>1. CallerOK'
      BY <1>6 DEF RequestTimesOut, callerVars, CallerOK
    <2>2. PayloadsOK'
      BY <1>6 DEF RequestTimesOut, callerVars, CallerOK, PayloadsOK, TriesOK
    <2>3. BackOff(baseSleepTime[p], attempts[p]) \in 1..SendTimeoutMaxBackOff
      BY BackOffBounded DEF TriesOK
    <2>4. TriesOK'
      BY <1>6, <2>3 DEF RequestTimesOut, callerVars, PayloadsOK, TriesOK
    <2>5. AheadUntouched'
      BY <1>6 DEF RequestTimesOut, callerVars, CallerOK, PayloadsOK, AheadUntouched
    <2> QED
      BY <2>1, <2>2, <2>4, <2>5 DEF Types
  <1>7. CASE Wake(p)
    <2>1. CallerOK'
      BY <1>7 DEF Wake, callerVars, history, CallerOK
    <2>2. PayloadsOK'
      BY <1>7 DEF Wake, callerVars, history, CallerOK, PayloadsOK
    <2>3. TriesOK'
      BY <1>7 DEF Wake, callerVars, history, PayloadsOK, TriesOK
    <2>4. AheadUntouched'
      BY <1>7 DEF Wake, callerVars, history, CallerOK, PayloadsOK, AheadUntouched
    <2> QED
      BY <2>1, <2>2, <2>3, <2>4 DEF Types
  <1>8. CASE BuildFails(p)
    <2>1. CallerOK'
      BY <1>8 DEF BuildFails, callerVars, history, CallerOK
    <2>2. PayloadsOK'
      BY <1>8 DEF BuildFails, callerVars, history, CallerOK, PayloadsOK
    <2>3. TriesOK'
      BY <1>8 DEF BuildFails, callerVars, history, PayloadsOK, TriesOK
    <2>4. AheadUntouched'
      BY <1>8 DEF BuildFails, callerVars, history, CallerOK, PayloadsOK, AheadUntouched
    <2> QED
      BY <2>1, <2>2, <2>3, <2>4 DEF Types
  <1> QED
    BY <1>1, <1>2, <1>3, <1>4, <1>5, <1>6, <1>7, <1>8 DEF AttemptSend

LEMMA WorldTypes ==
  ASSUME Types,
         \/ \E p \in Payloads : Accept(p) \/ Reject(p) \/ AcceptLate(p)
         \/ Sigterm
         \/ Tick
  PROVE  Types'
  <1> USE ClientAssumption DEF Types
  <1>1. ASSUME NEW p \in Payloads, Accept(p) PROVE Types'
    <2>1. CallerOK'
      BY <1>1 DEF Accept, callerVars, history, CallerOK
    <2>2. PayloadsOK'
      BY <1>1 DEF Accept, callerVars, history, CallerOK, PayloadsOK
    <2>3. TriesOK'
      BY <1>1 DEF Accept, callerVars, history, PayloadsOK, TriesOK
    <2>4. AheadUntouched'
      BY <1>1 DEF Accept, callerVars, history, CallerOK, PayloadsOK, AheadUntouched
    <2> QED
      BY <2>1, <2>2, <2>3, <2>4 DEF Types
  <1>2. ASSUME NEW p \in Payloads, Reject(p) PROVE Types'
    <2>1. CallerOK'
      BY <1>2 DEF Reject, callerVars, history, CallerOK
    <2>2. PayloadsOK'
      BY <1>2 DEF Reject, callerVars, history, CallerOK, PayloadsOK
    <2>3. TriesOK'
      BY <1>2 DEF Reject, callerVars, history, PayloadsOK, TriesOK
    <2>4. AheadUntouched'
      BY <1>2 DEF Reject, callerVars, history, CallerOK, PayloadsOK, AheadUntouched
    <2> QED
      BY <2>1, <2>2, <2>3, <2>4 DEF Types
  <1>3. ASSUME NEW p \in Payloads, AcceptLate(p) PROVE Types'
    <2>1. CallerOK'
      BY <1>3 DEF AcceptLate, callerVars, attemptVars, history, CallerOK
    <2>2. PayloadsOK'
      BY <1>3 DEF AcceptLate, callerVars, attemptVars, history, CallerOK, PayloadsOK
    <2>3. TriesOK'
      BY <1>3 DEF AcceptLate, callerVars, attemptVars, history, PayloadsOK, TriesOK
    <2>4. AheadUntouched'
      BY <1>3 DEF AcceptLate, callerVars, attemptVars, history, CallerOK, PayloadsOK, AheadUntouched
    <2> QED
      BY <2>1, <2>2, <2>3, <2>4 DEF Types
  <1>4. CASE Sigterm
    <2>1. CallerOK'
      BY <1>4 DEF Sigterm, callerVars, attemptVars, history, CallerOK
    <2>2. PayloadsOK'
      BY <1>4 DEF Sigterm, callerVars, attemptVars, history, CallerOK, PayloadsOK
    <2>3. TriesOK'
      BY <1>4 DEF Sigterm, callerVars, attemptVars, history, PayloadsOK, TriesOK
    <2>4. AheadUntouched'
      BY <1>4 DEF Sigterm, callerVars, attemptVars, history, CallerOK, PayloadsOK, AheadUntouched
    <2> QED
      BY <2>1, <2>2, <2>3, <2>4 DEF Types
  <1>5. CASE Tick
    <2>1. CallerOK'
      BY <1>5 DEF Tick, callerVars, attemptVars, history, CallerOK
    <2>2. PayloadsOK'
      BY <1>5 DEF Tick, callerVars, attemptVars, history, CallerOK, PayloadsOK
    <2>3. TriesOK'
      BY <1>5 DEF Tick, callerVars, attemptVars, history, PayloadsOK, TriesOK
    <2>4. AheadUntouched'
      BY <1>5 DEF Tick, callerVars, attemptVars, history, CallerOK, PayloadsOK, AheadUntouched
    <2> QED
      BY <2>1, <2>2, <2>3, <2>4 DEF Types
  <1> QED
    BY <1>1, <1>2, <1>3, <1>4, <1>5

LEMMA StutterTypes == Types /\ UNCHANGED vars => Types'
  <1> SUFFICES ASSUME Types, UNCHANGED vars PROVE Types'
    OBVIOUS
  <1> USE DEF vars, callerVars, attemptVars, history, Types
  <1>1. CallerOK' /\ AheadUntouched'
    BY DEF CallerOK, AheadUntouched
  <1>2. PayloadsOK'
    BY DEF PayloadsOK
  <1>3. TriesOK'
    BY DEF TriesOK
  <1> QED
    BY <1>1, <1>2, <1>3

\* The same, conjunct by conjunct: the form in which the other proofs use the
\* types of sendPayloads and attemptSend.
THEOREM TypesAlways == Spec => []Types
  <1>1. Types /\ [Next]_vars => Types'
    BY CallerTypes, AttemptTypes, WorldTypes, StutterTypes DEF Next
  <1> QED
    BY InitTypes, <1>1, PTL DEF Spec

\* The state of a call keeps its types, whatever NumPayloads and the durations
\* are; the back-off stays within SendTimeoutMaxBackOff.
THEOREM TypeCorrect == Spec => []TypeOK
  <1>1. Types => TypeOK
    BY DEF Types, TypeOK, CallerOK, PayloadsOK, TriesOK
  <1> QED
    BY TypesAlways, <1>1, PTL

-----------------------------------------------------------------------------
(* Success *)

\* The payloads the caller has done with.
Behind == {p \in Payloads : p < current \/ (p = current /\ caller # "waiting")}

\* A success on its way to the caller is that of an accepted payload; those
\* counted are among the accepted payloads behind the caller.
Certain ==
  /\ \A p \in Payloads : request[p] = "accepted" \/ data[p] = "success" => p \in accepted
  /\ successCount <= Cardinality(accepted \cap Behind)

LEMMA PayloadsFinite == IsFiniteSet(Payloads)
  BY ClientAssumption, FS_Interval DEF Payloads

LEMMA Countable ==
  ASSUME NEW A, NEW B, A \subseteq B, B \subseteq Payloads
  PROVE  Cardinality(A) \in Nat /\ Cardinality(B) \in Nat /\ Cardinality(A) <= Cardinality(B)
  <1>1. IsFiniteSet(B)
    BY PayloadsFinite, FS_Subset
  <1> QED
    BY <1>1, FS_Subset, FS_CardinalityType

LEMMA InitCertain == Init => Certain
  <1> SUFFICES ASSUME Init PROVE Certain
    OBVIOUS
  <1>1. Cardinality(accepted \cap Behind) = 0
    BY FS_EmptySet DEF Init
  <1> QED
    BY <1>1 DEF Init, Certain

\* Whatever leaves the counter alone and takes nothing from what is accepted
\* and behind keeps it below.
LEMMA CountKept ==
  ASSUME Types, Certain, successCount' = successCount,
         accepted \subseteq accepted', accepted' \subseteq Payloads, Behind \subseteq Behind'
  PROVE  successCount' <= Cardinality(accepted' \cap Behind')
  <1>1. accepted \cap Behind \subseteq accepted' \cap Behind'
    OBVIOUS
  <1>2. accepted' \cap Behind' \subseteq Payloads
    OBVIOUS
  <1>3. successCount \in Nat
    BY DEF Types, CallerOK
  <1> QED
    BY <1>1, <1>2, <1>3, Countable DEF Certain

LEMMA CallerCertain == Types /\ Certain /\ SendPayloads => Certain'
  <1> SUFFICES ASSUME Types, Certain, SendPayloads PROVE Certain'
    OBVIOUS
  <1> USE ClientAssumption
  <1>0. accepted' = accepted /\ accepted \subseteq Payloads
    BY DEF SendPayloads, NextPayload, WaitTimesOut, TakeAnswer, Return, Types, PayloadsOK
  <1>1. Behind \subseteq Behind'
    <2>1. \A p \in Payloads : p \in Nat
      BY DEF Payloads
    <2>2. current \in Nat
      BY DEF Types, CallerOK
    <2>3. CASE NextPayload
      BY <2>1, <2>2, <2>3 DEF NextPayload, Behind
    <2>4. CASE WaitTimesOut \/ TakeAnswer \/ Return
      BY <2>4 DEF WaitTimesOut, TakeAnswer, Return, Behind
    <2> QED
      BY <2>3, <2>4 DEF SendPayloads
  <1>2. \A p \in Payloads :
          request'[p] = "accepted" \/ data'[p] = "success" => p \in accepted'
    BY DEF SendPayloads, NextPayload, WaitTimesOut, TakeAnswer, Return, Certain, Types,
           PayloadsOK, attemptVars
  <1>3. CASE successCount' = successCount
    BY <1>0, <1>1, <1>2, <1>3, CountKept DEF Certain
  <1>4. CASE TakeAnswer /\ successCount' # successCount
    <2>1. /\ current \in Payloads /\ current \in accepted /\ current \notin Behind
          /\ successCount' = successCount + 1
      BY <1>4 DEF TakeAnswer, Certain, Behind, Types, CallerOK, Payloads
    <2>2. current \in Behind'
      BY <1>4, <2>1 DEF TakeAnswer, Behind
    <2>3. (accepted \cap Behind) \cup {current} \subseteq accepted' \cap Behind'
      BY <1>0, <1>1, <2>1, <2>2
    <2>4. IsFiniteSet(accepted \cap Behind)
      <3>1. accepted \cap Behind \subseteq Payloads
        BY <1>0
      <3> QED
        BY <3>1, PayloadsFinite, FS_Subset
    <2>5. Cardinality((accepted \cap Behind) \cup {current})
            = Cardinality(accepted \cap Behind) + 1
      BY <2>1, <2>4, FS_AddElement
    <2>6. Cardinality((accepted \cap Behind) \cup {current})
            <= Cardinality(accepted' \cap Behind')
      BY <1>0, <2>3, Countable
    <2>7. /\ Cardinality(accepted \cap Behind) \in Nat
          /\ Cardinality(accepted' \cap Behind') \in Nat
      BY <1>0, Countable
    <2>8. successCount \in Nat
      BY DEF Types, CallerOK
    <2>9. successCount' <= Cardinality(accepted' \cap Behind')
      BY <2>1, <2>5, <2>6, <2>7, <2>8 DEF Certain
    <2> QED
      BY <1>2, <2>9 DEF Certain
  <1> QED
    BY <1>3, <1>4 DEF SendPayloads, NextPayload, WaitTimesOut, Return

LEMMA AttemptCertain ==
  ASSUME Types, Certain, NEW p \in Payloads, AttemptSend(p)
  PROVE  Certain'
  <1> USE DEF AttemptSend, Quit, SendRequest, BuildFails, RequestCancelled, ReceiveResponse, RequestFails,
              RequestTimesOut, Wake, Answer, callerVars
  <1>1. /\ accepted' = accepted /\ accepted \subseteq Payloads
        /\ successCount' = successCount /\ current' = current /\ caller' = caller
    BY DEF Types, PayloadsOK
  <1>2. Behind' = Behind
    BY <1>1 DEF Behind
  <1>3. \A q \in Payloads :
          request'[q] = "accepted" \/ data'[q] = "success" => q \in accepted'
    BY <1>1 DEF Certain, Types, PayloadsOK
  <1> QED
    BY <1>1, <1>2, <1>3, CountKept DEF Certain

LEMMA WorldCertain ==
  ASSUME Types, Types', Certain,
         \/ \E p \in Payloads : Accept(p) \/ Reject(p) \/ AcceptLate(p)
         \/ Sigterm
         \/ Tick
         \/ UNCHANGED vars
  PROVE  Certain'
  <1> USE DEF Accept, Reject, AcceptLate, Sigterm, Tick, vars, callerVars, attemptVars
  <1>1. /\ accepted \subseteq accepted' /\ accepted' \subseteq Payloads
        /\ successCount' = successCount /\ current' = current /\ caller' = caller
    BY DEF Types, PayloadsOK
  <1>2. Behind' = Behind
    BY <1>1 DEF Behind
  <1>3. \A q \in Payloads :
          request'[q] = "accepted" \/ data'[q] = "success" => q \in accepted'
    <2>1. ASSUME NEW p \in Payloads, Accept(p) \/ Reject(p), NEW q \in Payloads
          PROVE  request'[q] = "accepted" \/ data'[q] = "success" => q \in accepted'
      BY <2>1 DEF Certain, Types, PayloadsOK
    <2>2. ASSUME NEW p \in Payloads, AcceptLate(p)
          PROVE  request' = request /\ data' = data
      BY <2>2
    <2> QED
      BY <1>1, <2>1, <2>2 DEF Certain
  <1> QED
    BY <1>1, <1>2, <1>3, CountKept DEF Certain

\* What sendPayloads reports as sent "with certainty" never exceeds what New
\* Relic has accepted, however many answers are lost, late or refused.
THEOREM SuccessCertain == Spec => []SuccessIsCertain
  <1>1. Types /\ Types' /\ Certain /\ [Next]_vars => Certain'
    BY CallerCertain, AttemptCertain, WorldCertain DEF Next
  <1>2. Types /\ Certain => SuccessIsCertain
    <2> SUFFICES ASSUME Types, Certain PROVE SuccessIsCertain
      OBVIOUS
    <2>1. accepted \subseteq Payloads /\ successCount \in Nat
      BY DEF Types, PayloadsOK, CallerOK
    <2>2. /\ Cardinality(accepted \cap Behind) \in Nat /\ Cardinality(accepted) \in Nat
          /\ Cardinality(accepted \cap Behind) <= Cardinality(accepted)
      <3>1. accepted \cap Behind \subseteq accepted
        OBVIOUS
      <3> QED
        BY <2>1, <3>1, Countable
    <2> QED
      BY <2>1, <2>2 DEF Certain, SuccessIsCertain
  <1> QED
    BY TypesAlways, InitCertain, <1>1, <1>2, PTL DEF Spec

-----------------------------------------------------------------------------
(* Repetition *)

\* Between two requests every request so far has timed out.
Sends == \A p \in Payloads :
  /\ sent[p] <= 1 + timeouts[p]
  /\ pc[p] \in {"idle", "loop", "sleep"} => sent[p] <= timeouts[p]

LEMMA StepSends == Types /\ Sends /\ [Next]_vars => Sends'
  <1> SUFFICES ASSUME Types, Sends, [Next]_vars PROVE Sends'
    OBVIOUS
  <1> USE DEF Sends
  <1>0. /\ pc \in [Payloads -> {"idle", "loop", "inFlight", "sleep", "done", "notBuilt"}]
        /\ sent \in [Payloads -> Nat] /\ timeouts \in [Payloads -> Nat]
    BY DEF Types, PayloadsOK
  <1>1. CASE SendPayloads
    <2>1. sent' = sent /\ timeouts' = timeouts
      BY <1>1 DEF SendPayloads, NextPayload, WaitTimesOut, TakeAnswer, Return, history
    <2>2. \A p \in Payloads : pc'[p] # pc[p] => pc[p] = "idle"
      <3>1. CASE NextPayload
        <4>1. current + 1 \in Payloads /\ current + 1 > current
          BY <3>1, ClientAssumption DEF NextPayload, Types, CallerOK, Payloads
        <4>2. pc[current + 1] = "idle"
          BY <4>1 DEF Types, AheadUntouched
        <4> QED
          BY <1>0, <3>1, <4>1, <4>2 DEF NextPayload
      <3> QED
        BY <1>1, <3>1 DEF SendPayloads, WaitTimesOut, TakeAnswer, Return, attemptVars
    <2> QED
      BY <1>0, <2>1, <2>2
  <1>2. ASSUME NEW p \in Payloads, AttemptSend(p) PROVE Sends'
    <2> USE <1>0
    <2>1. CASE Quit(p) \/ Wake(p)
      BY <2>1 DEF Quit, Wake, history
    <2>2. CASE SendRequest(p)
      BY <2>2 DEF SendRequest
    <2>3. CASE BuildFails(p) \/ RequestCancelled(p) \/ ReceiveResponse(p) \/ RequestFails(p)
      BY <2>3 DEF BuildFails, RequestCancelled, ReceiveResponse, RequestFails, Answer, history
    <2>4. CASE RequestTimesOut(p)
      BY <2>4 DEF RequestTimesOut
    <2> QED
      BY <1>2, <2>1, <2>2, <2>3, <2>4 DEF AttemptSend
  <1>3. ASSUME \/ \E p \in Payloads : Accept(p) \/ Reject(p) \/ AcceptLate(p)
               \/ Sigterm \/ Tick \/ UNCHANGED vars
        PROVE  Sends'
    <2>1. sent' = sent /\ timeouts' = timeouts /\ pc' = pc
      BY <1>3 DEF Accept, Reject, AcceptLate, Sigterm, Tick, vars, attemptVars, history
    <2> QED
      BY <2>1
  <1> QED
    BY <1>1, <1>2, <1>3 DEF Next

\* attemptSend sends a payload again only after a request for it timed out.
THEOREM NoNeedlessRepeat == Spec => []RepeatedOnlyAfterTimeout
  <1>1. Init => Sends
    BY DEF Init, Sends
  <1>2. Sends => RepeatedOnlyAfterTimeout
    BY DEF Sends, RepeatedOnlyAfterTimeout
  <1> QED
    BY TypesAlways, <1>1, <1>2, StepSends, PTL DEF Spec

-----------------------------------------------------------------------------
(* Time *)

\* The clock stops at the caller's deadline until the caller has moved on.
Timely ==
  /\ caller = "next" => now <= current * Timeout
  /\ caller = "waiting" => now <= deadline[current] /\ deadline[current] <= current * Timeout

LEMMA Product ==
  ASSUME NEW m \in Nat, NEW n \in Nat, NEW t \in Nat
  PROVE  /\ m * t \in Nat
         /\ (m + 1) * t = m * t + t
         /\ m <= n => m * t <= n * t
  BY Z3

LEMMA StepTimely == Types /\ Timely /\ [Next]_vars => Timely'
  <1> SUFFICES ASSUME Types, Timely, [Next]_vars PROVE Timely'
    OBVIOUS
  <1> USE DEF Timely
  <1>0. /\ now \in Nat /\ current \in Nat /\ Timeout \in Nat
        /\ deadline \in [Payloads -> Nat]
        /\ caller = "waiting" => current \in Payloads
    BY ClientAssumption, SMTT(30) DEF Types, CallerOK, PayloadsOK, Payloads
  <1>1. CASE NextPayload
    <2>1. current + 1 \in Payloads
      BY <1>1, ClientAssumption DEF NextPayload, Types, CallerOK, Payloads
    <2>2. deadline'[current'] = now + Timeout
      BY <1>0, <1>1, <2>1 DEF NextPayload
    <2>3. (current + 1) * Timeout = current * Timeout + Timeout /\ current * Timeout \in Nat
      BY <1>0, Product
    <2> QED
      BY <1>0, <1>1, <2>2, <2>3 DEF NextPayload
  <1>2. CASE WaitTimesOut \/ TakeAnswer
    <2>1. deadline[current] \in Nat /\ current * Timeout \in Nat
      BY <1>0, <1>2, Product DEF WaitTimesOut, TakeAnswer
    <2> QED
      BY <1>0, <1>2, <2>1 DEF WaitTimesOut, TakeAnswer
  <1>3. CASE Return
    BY <1>3 DEF Return
  <1>4. CASE Tick
    <2>1. caller # "next" /\ (caller = "waiting" => now < deadline[current])
      BY <1>4 DEF Tick, CallerIdle
    <2>2. caller' = caller /\ current' = current /\ deadline' = deadline /\ now' = now + 1
      BY <1>4 DEF Tick, callerVars
    <2> QED
      BY <1>0, <2>1, <2>2
  <1>5. ASSUME \/ \E p \in Payloads : AttemptSend(p)
               \/ \E p \in Payloads : Accept(p) \/ Reject(p) \/ AcceptLate(p)
               \/ Sigterm \/ UNCHANGED vars
        PROVE  Timely'
    <2>1. caller' = caller /\ current' = current /\ deadline' = deadline /\ now' = now
      BY <1>5 DEF AttemptSend, Quit, SendRequest, BuildFails, RequestCancelled, ReceiveResponse,
                  RequestFails, RequestTimesOut, Wake, Accept, Reject, AcceptLate, Sigterm,
                  vars, callerVars
    <2> QED
      BY <2>1
  <1> QED
    BY <1>1, <1>2, <1>3, <1>4, <1>5 DEF Next, SendPayloads

\* sendPayloads waits for at most Client.timeout per payload.
THEOREM CallerNotHeld == Spec => []ReturnsInTime
  <1>1. Init => Timely
    <2> SUFFICES ASSUME Init PROVE Timely
      OBVIOUS
    <2>1. 0 * Timeout \in Nat
      BY Product, ClientAssumption
    <2> QED
      BY <2>1 DEF Init, Timely
  <1>2. Types /\ Timely => ReturnsInTime
    <2> SUFFICES ASSUME Types, Timely, caller # "returned" PROVE now <= NumPayloads * Timeout
      BY DEF ReturnsInTime
    <2>1. /\ now \in Nat /\ current \in Nat /\ NumPayloads \in Nat /\ Timeout \in Nat
          /\ current <= NumPayloads
      BY ClientAssumption DEF Types, CallerOK, PayloadsOK
    <2>2. /\ current * Timeout \in Nat /\ NumPayloads * Timeout \in Nat
          /\ current * Timeout <= NumPayloads * Timeout
      BY <2>1, Product
    <2>3. caller = "waiting" => deadline[current] \in Nat
      BY ClientAssumption DEF Types, CallerOK, PayloadsOK, Payloads
    <2>4. caller \in {"next", "waiting"}
      BY DEF Types, CallerOK
    <2> QED
      BY <2>1, <2>2, <2>3, <2>4 DEF Timely
  <1> QED
    BY TypesAlways, <1>1, <1>2, StepTimely, PTL DEF Spec

\* A request is sent before the deadline of its payload and times out after
\* HttpTimeout; a sleep begins then and is bounded; the clock waits for both.
Running(p) ==
  /\ pc[p] = "inFlight" => now <= timer[p] /\ timer[p] < deadline[p] + HttpTimeout
  /\ pc[p] = "sleep"
       => now <= timer[p] /\ timer[p] < deadline[p] + HttpTimeout + SendTimeoutMaxBackOff
  /\ pc[p] = "loop" => now < deadline[p] + HttpTimeout + SendTimeoutMaxBackOff

Lingers == \A p \in Payloads : Running(p)

LEMMA StepLingers == Types /\ Lingers /\ [Next]_vars => Lingers'
  <1> SUFFICES ASSUME Types, Lingers, [Next]_vars PROVE Lingers'
    OBVIOUS
  <1> USE DEF Lingers
  <1>0. /\ now \in Nat /\ HttpTimeout \in Nat \ {0} /\ Timeout \in Nat
        /\ SendTimeoutMaxBackOff \in Nat
        /\ deadline \in [Payloads -> Nat] /\ timer \in [Payloads -> Nat]
        /\ pc \in [Payloads -> {"idle", "loop", "inFlight", "sleep", "done", "notBuilt"}]
        /\ baseSleepTime \in [Payloads -> 1..SendTimeoutMaxBackOff]
    BY ClientAssumption DEF Types, PayloadsOK, TriesOK
  <1>1. CASE NextPayload
    <2>1. current + 1 \in Payloads
      BY <1>1, ClientAssumption DEF NextPayload, Types, CallerOK, Payloads
    <2>2. ASSUME NEW q \in Payloads, q # current + 1 PROVE Running(q)'
      BY <1>0, <1>1, <2>1, <2>2 DEF NextPayload, Running
    <2>3. ASSUME NEW q \in Payloads, q = current + 1 PROVE Running(q)'
      <3>1. pc'[q] = "loop" /\ deadline'[q] = now + Timeout /\ now' = now
        BY <1>0, <1>1, <2>3 DEF NextPayload
      <3> QED
        BY <1>0, <3>1 DEF Running
    <2> QED
      BY <2>2, <2>3
  <1>2. ASSUME NEW p \in Payloads, AttemptSend(p) PROVE Lingers'
    <2>1. now' = now /\ deadline' = deadline
      BY <1>2 DEF AttemptSend, Quit, SendRequest, BuildFails, RequestCancelled, ReceiveResponse,
                  RequestFails, RequestTimesOut, Wake, callerVars
    <2>2. ASSUME NEW q \in Payloads, q # p PROVE pc'[q] = pc[q] /\ timer'[q] = timer[q]
      BY <1>0, <1>2, <2>2 DEF AttemptSend, Quit, SendRequest, BuildFails, RequestCancelled,
         ReceiveResponse, RequestFails, RequestTimesOut, Wake, Answer
    <2>3. Running(p)'
      <3>1. CASE \/ Quit(p) \/ BuildFails(p) \/ RequestCancelled(p) \/ ReceiveResponse(p)
               \/ RequestFails(p)
        <4>1. pc'[p] \in {"done", "notBuilt"}
          BY <1>0, <3>1 DEF Quit, BuildFails, RequestCancelled, ReceiveResponse, RequestFails, Answer
        <4> QED
          BY <4>1 DEF Running
      <3>2. CASE SendRequest(p)
        <4>1. pc'[p] = "inFlight" /\ timer'[p] = now + HttpTimeout /\ now < deadline[p]
          BY <1>0, <3>2 DEF SendRequest, GaveUp
        <4> QED
          BY <1>0, <2>1, <4>1 DEF Running
      <3>3. CASE RequestTimesOut(p)
        <4>1. /\ pc'[p] = "sleep" /\ timer'[p] = now + baseSleepTime[p]
              /\ now < deadline[p] + HttpTimeout
          BY <1>0, <3>3 DEF RequestTimesOut, Running
        <4> QED
          BY <1>0, <2>1, <4>1 DEF Running
      <3>4. CASE Wake(p)
        <4>1. pc'[p] = "loop" /\ now < deadline[p] + HttpTimeout + SendTimeoutMaxBackOff
          BY <1>0, <3>4 DEF Wake, Running
        <4> QED
          BY <1>0, <2>1, <4>1 DEF Running
      <3> QED
        BY <1>2, <3>1, <3>2, <3>3, <3>4 DEF AttemptSend
    <2>4. ASSUME NEW q \in Payloads, q # p PROVE Running(q)'
      BY <2>1, <2>2, <2>4 DEF Running
    <2> QED
      BY <2>3, <2>4
  <1>3. CASE Tick
    <2>1. pc' = pc /\ timer' = timer /\ deadline' = deadline /\ now' = now + 1
      BY <1>3 DEF Tick, callerVars, attemptVars
    <2>2. ASSUME NEW p \in Payloads
          PROVE  pc[p] # "loop" /\ (pc[p] \in {"inFlight", "sleep"} => now < timer[p])
      BY <1>3 DEF Tick, AttemptIdle, Ended
    <2> QED
      BY <1>0, <2>1, <2>2 DEF Running
  <1>4. ASSUME \/ WaitTimesOut \/ TakeAnswer \/ Return
               \/ \E p \in Payloads : Accept(p) \/ Reject(p) \/ AcceptLate(p)
               \/ Sigterm \/ UNCHANGED vars
        PROVE  Lingers'
    <2>1. pc' = pc /\ timer' = timer /\ deadline' = deadline /\ now' = now
      BY <1>4 DEF WaitTimesOut, TakeAnswer, Return, Accept, Reject, AcceptLate, Sigterm,
                  vars, callerVars, attemptVars
    <2> QED
      BY <2>1 DEF Running
  <1> QED
    BY <1>1, <1>2, <1>3, <1>4 DEF Next, SendPayloads

\* An attemptSend that nobody waits for any more is gone within one request and
\* one sleep after its deadline.
THEOREM AttemptsLeaveSoon == Spec => []LingersBriefly
  <1>1. Init => Lingers
    BY DEF Init, Lingers, Running
  <1>2. Types /\ Lingers => LingersBriefly
    <2> SUFFICES ASSUME Types, Lingers, NEW p \in Payloads, pc[p] # "idle", ~Ended(p)
                 PROVE  now < deadline[p] + HttpTimeout + SendTimeoutMaxBackOff
      BY DEF LingersBriefly
    <2>1. /\ now \in Nat /\ deadline[p] \in Nat /\ timer[p] \in Nat
          /\ HttpTimeout \in Nat /\ SendTimeoutMaxBackOff \in Nat
          /\ pc[p] \in {"loop", "inFlight", "sleep"}
      BY ClientAssumption DEF Types, PayloadsOK, Ended
    <2> QED
      BY <2>1 DEF Lingers, Running
  <1> QED
    BY TypesAlways, <1>1, <1>2, StepLingers, PTL DEF Spec

-----------------------------------------------------------------------------
(* A payload nobody has sent yet, although its request can be built, is the one
   the caller is at, and the clock has not moved since its goroutine began: its
   time cannot be up. *)
NotSentYet(p) ==
  /\ pc[p] = "loop" /\ attempts[p] = 0 /\ data[p] = "empty"
  /\ p = current /\ caller = "waiting" /\ deadline[p] = now + Timeout

Unsent(p) == NotSentYet(p) \/ pc[p] = "notBuilt"

Tried ==
  /\ \A p \in Payloads : p > current => attempts[p] = 0
  /\ caller = "returned" => current = NumPayloads
  /\ Timeout > 0 /\ ~cancelled
       => \A p \in Payloads : p <= current /\ sent[p] = 0 => Unsent(p)

\* What a step of attemptSend, of New Relic or of the clock leaves alone.
LEMMA AttemptLeaves ==
  ASSUME Types, NEW p \in Payloads, AttemptSend(p)
  PROVE  /\ UNCHANGED <<now, cancelled, callerVars>> /\ pc[p] # "notBuilt"
         /\ \A q \in Payloads : /\ sent[q] <= sent'[q]
                                /\ q # p => UNCHANGED <<pc[q], attempts[q], data[q]>>
                                /\ q > current => attempts'[q] = attempts[q]
  <1>0. /\ sent \in [Payloads -> Nat]
        /\ data \in [Payloads -> {"empty", "success", "rejected", "error"}]
        /\ pc \in [Payloads -> {"idle", "loop", "inFlight", "sleep", "done", "notBuilt"}]
        /\ attempts \in [Payloads -> 0..SendTimeoutMaxRetries]
        /\ p > current => pc[p] = "idle"
    BY DEF Types, PayloadsOK, TriesOK, AheadUntouched
  <1>1. UNCHANGED <<now, cancelled, callerVars>>
    BY DEF AttemptSend, Quit, SendRequest, BuildFails, RequestCancelled, ReceiveResponse,
           RequestFails, RequestTimesOut, Wake
  <1>2. ASSUME NEW q \in Payloads
        PROVE  sent[q] <= sent'[q]
    BY <1>0 DEF AttemptSend, Quit, SendRequest, BuildFails, RequestCancelled, ReceiveResponse,
                RequestFails, RequestTimesOut, Wake, history
  <1>3. ASSUME NEW q \in Payloads, q # p
        PROVE  UNCHANGED <<pc[q], attempts[q], data[q]>>
    BY <1>0, <1>3 DEF AttemptSend, Quit, SendRequest, BuildFails, RequestCancelled, ReceiveResponse,
                      RequestFails, RequestTimesOut, Wake, Answer
  <1>4. pc[p] \notin {"idle", "notBuilt"}
    BY DEF AttemptSend, Quit, SendRequest, BuildFails, RequestCancelled, ReceiveResponse,
           RequestFails, RequestTimesOut, Wake
  <1> QED
    BY <1>0, <1>1, <1>2, <1>3, <1>4

LEMMA WorldLeaves ==
  ASSUME \/ \E p \in Payloads : Accept(p) \/ Reject(p) \/ AcceptLate(p)
         \/ Sigterm \/ UNCHANGED vars
  PROVE  /\ UNCHANGED <<now, callerVars, data, pc, attempts, sent>>
         /\ cancelled' = cancelled \/ cancelled' = TRUE
  BY DEF Accept, Reject, AcceptLate, Sigterm, vars, attemptVars, history

LEMMA StepTried == Types /\ Tried /\ [Next]_vars => Tried'
  <1> SUFFICES ASSUME Types, Tried, [Next]_vars PROVE Tried'
    OBVIOUS
  <1>0. /\ now \in Nat /\ Timeout \in Nat /\ SendTimeoutMaxRetries \in Nat \ {0}
        /\ NumPayloads \in Nat /\ current \in Nat /\ current <= NumPayloads
        /\ Payloads \subseteq Nat /\ cancelled \in BOOLEAN
        /\ deadline \in [Payloads -> Nat] /\ sent \in [Payloads -> Nat]
        /\ data \in [Payloads -> {"empty", "success", "rejected", "error"}]
        /\ pc \in [Payloads -> {"idle", "loop", "inFlight", "sleep", "done", "notBuilt"}]
        /\ attempts \in [Payloads -> 0..SendTimeoutMaxRetries]
    BY ClientAssumption DEF Types, CallerOK, PayloadsOK, TriesOK, Payloads
  <1>1. CASE NextPayload
    <2>1. /\ current + 1 \in Payloads /\ current' = current + 1 /\ caller = "next"
          /\ UNCHANGED <<now, cancelled, data, attempts, sent>> /\ caller' = "waiting"
          /\ deadline' = [deadline EXCEPT ![current + 1] = now + Timeout]
          /\ pc' = [pc EXCEPT ![current + 1] = "loop"]
      BY <1>1, ClientAssumption DEF NextPayload, Types, CallerOK, Payloads, history
    <2>2. attempts[current + 1] = 0 /\ data[current + 1] = "empty"
      BY <1>0, <2>1 DEF Tried, Types, AheadUntouched
    <2>3. ASSUME Timeout > 0, ~cancelled', NEW q \in Payloads, q <= current', sent'[q] = 0
          PROVE  Unsent(q)'
      <3>1. CASE q = current + 1
        BY <1>0, <2>1, <2>2, <3>1 DEF Unsent, NotSentYet
      <3>2. CASE q # current + 1
        <4>1. Unsent(q) /\ pc'[q] = pc[q]
          BY <1>0, <2>1, <2>3, <3>2 DEF Tried
        <4> QED
          BY <2>1, <4>1 DEF Unsent, NotSentYet
      <3> QED
        BY <3>1, <3>2
    <2> QED
      BY <1>0, <2>1, <2>3 DEF Tried
  <1>2. CASE WaitTimesOut \/ TakeAnswer \/ Return
    <2>1. /\ UNCHANGED <<now, cancelled, current, sent, attempts, deadline, pc>>
          /\ caller' = "returned" => current = NumPayloads
      BY <1>2 DEF WaitTimesOut, TakeAnswer, Return, history, attemptVars
    <2>2. ASSUME NEW q \in Payloads, NotSentYet(q) PROVE Timeout = 0
      BY <1>0, <1>2, <2>2 DEF WaitTimesOut, TakeAnswer, Return, NotSentYet
    <2> QED
      BY <1>0, <2>1, <2>2 DEF Tried, Unsent
  <1>3. ASSUME NEW p \in Payloads, AttemptSend(p) PROVE Tried'
    <2>1. /\ UNCHANGED <<now, cancelled, callerVars>> /\ pc[p] # "notBuilt"
          /\ \A q \in Payloads : /\ sent[q] <= sent'[q]
                                 /\ q # p => UNCHANGED <<pc[q], attempts[q], data[q]>>
                                 /\ q > current => attempts'[q] = attempts[q]
      BY <1>3, AttemptLeaves
    <2>2. ASSUME Timeout > 0, ~cancelled, NotSentYet(p)
          PROVE  sent'[p] > 0 \/ pc'[p] = "notBuilt"
      <3>1. ~GaveUp(p)
        BY <1>0, <2>2 DEF GaveUp, NotSentYet
      <3>2. SendRequest(p) \/ BuildFails(p)
        BY <1>3, <2>2, <3>1
        DEF AttemptSend, Quit, RequestCancelled, ReceiveResponse, RequestFails,
            RequestTimesOut, Wake, NotSentYet
      <3> QED
        BY <1>0, <3>2 DEF SendRequest, BuildFails
    <2>3. ASSUME Timeout > 0, ~cancelled', NEW q \in Payloads, q <= current', sent'[q] = 0
          PROVE  Unsent(q)'
      <3>1. sent'[q] \in Nat /\ sent[q] \in Nat
        BY <1>0, <2>1, <2>3, <1>3, AttemptTypes DEF Types, PayloadsOK
      <3>2. Unsent(q)
        BY <1>0, <2>1, <2>3, <3>1 DEF Tried, callerVars
      <3>3. CASE q = p
        BY <2>1, <2>2, <2>3, <3>2, <3>3 DEF Unsent
      <3>4. CASE q # p
        BY <2>1, <3>2, <3>4 DEF Unsent, NotSentYet, callerVars
      <3> QED
        BY <3>3, <3>4
    <2> QED
      BY <2>1, <2>3 DEF Tried, callerVars
  <1>4. CASE Tick
    <2>1. /\ UNCHANGED <<cancelled, callerVars, data, pc, attempts, sent>>
          /\ \A q \in Payloads : AttemptIdle(q)
      BY <1>4 DEF Tick, attemptVars, history
    <2>2. \A q \in Payloads : ~NotSentYet(q)
      BY <2>1 DEF NotSentYet, AttemptIdle, Ended
    <2> QED
      BY <2>1, <2>2 DEF Tried, Unsent, callerVars
  <1>5. CASE \/ \E p \in Payloads : Accept(p) \/ Reject(p) \/ AcceptLate(p)
             \/ Sigterm \/ UNCHANGED vars
    <2>1. /\ UNCHANGED <<now, callerVars, data, pc, attempts, sent>>
          /\ cancelled' = cancelled \/ cancelled' = TRUE
      BY <1>5, WorldLeaves
    <2> QED
      BY <2>1 DEF Tried, Unsent, NotSentYet, callerVars
  <1> QED
    BY <1>1, <1>2, <1>3, <1>4, <1>5 DEF Next, SendPayloads

\* Whatever became of the payloads before it, each one whose request can be built is
\* sent at least once, unless SIGTERM came first.
THEOREM NoneSkipped == Spec => []EveryPayloadTried
  <1>1. Init => Tried
    BY ClientAssumption DEF Init, Tried, Payloads
  <1>2. Types /\ Tried => EveryPayloadTried
    <2> SUFFICES ASSUME Types, Tried, caller = "returned", Timeout > 0, ~cancelled,
                        NEW p \in Payloads
                 PROVE  sent[p] > 0 \/ pc[p] = "notBuilt"
      BY DEF EveryPayloadTried
    <2>1. current = NumPayloads /\ p <= current /\ sent[p] \in Nat
      BY ClientAssumption DEF Tried, Payloads, Types, PayloadsOK
    <2> QED
      BY <2>1 DEF Tried, Unsent, NotSentYet
  <1> QED
    BY TypesAlways, <1>1, <1>2, StepTried, PTL DEF Spec
=============================================================================
