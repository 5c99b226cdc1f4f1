--------------------------- MODULE APMSendProofs ---------------------------
(***************************************************************************)
(* For any number of kinds of data: the types of a call of                 *)
(* SendAPMTelemetry, that no error is sent on a closed channel, and that a *)
(* success is a success for all the data.                                  *)
(*                                                                         *)
(* The argument: wg counts a goroutine from before it starts until after   *)
(* its error is in errChan, so that when wg.Wait has returned, which can   *)
(* only be after the last Add, none is left; each has then either been     *)
(* confirmed or left its error.                                            *)
(***************************************************************************)
EXTENDS APMSend, FiniteSetTheorems, TLAPS

Outer == {k \in Kinds : sender[k] \in ActiveStates}
Inner == {k \in Kinds : sender[k] \in InternalStates}

\* Each goroutine is counted once by sendSingleTelemetry, and once more while it
\* is in sendAPMTelemetryInternal.
WaitGroupCounts == wg = Cardinality(Outer) + Cardinality(Inner)

\* The goroutines are those of the kinds with data that the loop has passed.
SpawnedInOrder ==
  \A k \in Kinds : sender[k] # "none" <=> k \in data /\ k < next

\* What the caller knows at each place.
CallerKnows ==
  /\ caller = "decode" => next = 1
  /\ done # "none" => next = NumKinds + 1
  /\ done = "closed" => \A k \in Kinds : sender[k] \notin ActiveStates
  /\ caller = "aggregate" => errChanClosed
  /\ errChanClosed => done = "closed" /\ caller \in {"aggregate", "returned"}
  /\ result = "success" => errChanClosed /\ errChan = {}
  /\ caller # "returned" => result = "none"
  /\ caller \in {"decode", "tasks"} => done = "none"

\* A goroutine that has nothing left to report was confirmed or has reported.
ErrorsKept ==
  \A k \in Kinds :
    /\ sender[k] = "confirmed" => k \in accepted
    /\ sender[k] \in {"leaving", "ended"} => k \in accepted \cup errChan

Inv == TypeOK /\ WaitGroupCounts /\ SpawnedInOrder /\ CallerKnows /\ ErrorsKept

-----------------------------------------------------------------------------
LEMMA KindsFinite == IsFiniteSet(Kinds)
  BY KindAssumption, FS_Interval DEF Kinds

LEMMA CountsAreNat ==
  /\ IsFiniteSet(Outer) /\ IsFiniteSet(Inner)
  /\ Cardinality(Outer) \in Nat /\ Cardinality(Inner) \in Nat
  <1>1. IsFiniteSet(Outer) /\ IsFiniteSet(Inner)
    BY KindsFinite, FS_Subset DEF Outer, Inner
  <1> QED
    BY <1>1, FS_CardinalityType

\* A set that gains or loses one element.
LEMMA OneMore ==
  ASSUME NEW S, NEW T, NEW k, IsFiniteSet(S), k \notin S, T = S \cup {k}
  PROVE  Cardinality(T) = Cardinality(S) + 1
  BY FS_AddElement

LEMMA OneLess ==
  ASSUME NEW S, NEW T, NEW k, IsFiniteSet(S), k \in S, T = S \ {k}
  PROVE  Cardinality(T) = Cardinality(S) - 1 /\ Cardinality(S) # 0
  BY FS_RemoveElement, FS_EmptySet

LEMMA NoneLeft ==
  ASSUME WaitGroupCounts, wg = 0
  PROVE  \A k \in Kinds : sender[k] \notin ActiveStates
  <1>1. Cardinality(Outer) = 0
    BY CountsAreNat DEF WaitGroupCounts
  <1>2. Outer = {}
    BY <1>1, CountsAreNat, FS_EmptySet
  <1> QED
    BY <1>2 DEF Outer

-----------------------------------------------------------------------------
LEMMA InitInv == Init => Inv
  <1> SUFFICES ASSUME Init PROVE Inv
    OBVIOUS
  <1>1. TypeOK
    <2>1. 1 \in 1..(NumKinds + 1)
      BY KindAssumption
    <2>2. sender \in [Kinds -> ActiveStates \cup {"none", "ended"}]
      BY DEF Init
    <2> QED
      BY <2>1, <2>2 DEF Init, TypeOK
  <1>2. Outer = {} /\ Inner = {}
    BY DEF Init, Outer, Inner, ActiveStates, InternalStates
  <1>3. WaitGroupCounts
    BY <1>2, FS_EmptySet DEF Init, WaitGroupCounts
  <1>4. SpawnedInOrder
    BY DEF Init, SpawnedInOrder
  <1>5. CallerKnows /\ ErrorsKept
    BY DEF Init, CallerKnows, ErrorsKept
  <1> QED
    BY <1>1, <1>3, <1>4, <1>5 DEF Inv

\* The steps of the caller that start no goroutine.
LEMMA CallerInv ==
  ASSUME Inv, DecodeFails \/ Decode \/ SpawnWaiter \/ Cancelled \/ AllDone \/ AggregateErrors
  PROVE  Inv'
  <1> USE DEF CallerGoes
  <1>0. sender' = sender /\ wg' = wg /\ errChan' = errChan /\ accepted' = accepted
        /\ next' = next /\ ctxDone' = ctxDone
    BY DEF DecodeFails, Decode, SpawnWaiter, Cancelled, AllDone, AggregateErrors
  <1>1. TypeOK'
    BY DEF Inv, TypeOK, DecodeFails, Decode, SpawnWaiter, Cancelled, AllDone, AggregateErrors
  <1>2. WaitGroupCounts'
    BY <1>0 DEF Inv, WaitGroupCounts, Outer, Inner
  <1>3. SpawnedInOrder'
    <2>1. CASE data' = data
      BY <2>1, <1>0 DEF Inv, SpawnedInOrder
    <2>2. CASE Decode
      <3>1. next = 1
        BY <2>2 DEF Inv, CallerKnows, Decode
      <3>2. \A k \in Kinds : ~(k < 1)
        BY DEF Kinds
      <3> QED
        BY <3>1, <3>2, <1>0 DEF Inv, SpawnedInOrder
    <2> QED
      BY <2>1, <2>2 DEF DecodeFails, SpawnWaiter, Cancelled, AllDone, AggregateErrors
  <1>4. CallerKnows'
    <2>1. CASE SpawnWaiter
      BY <2>1, KindAssumption DEF SpawnWaiter, Inv, TypeOK, CallerKnows
    <2>2. CASE Decode \/ DecodeFails
      BY <2>2 DEF Decode, DecodeFails, Inv, TypeOK, CallerKnows
    <2>3. CASE Cancelled \/ AllDone
      BY <2>3 DEF Cancelled, AllDone, Inv, TypeOK, CallerKnows
    <2>4. CASE AggregateErrors
      BY <2>4 DEF AggregateErrors, Inv, TypeOK, CallerKnows
    <2> QED
      BY <2>1, <2>2, <2>3, <2>4
  <1>5. ErrorsKept'
    BY <1>0 DEF Inv, ErrorsKept
  <1> QED
    BY <1>1, <1>2, <1>3, <1>4, <1>5 DEF Inv

LEMMA SpawnInv ==
  ASSUME Inv, SendSingleTelemetry
  PROVE  Inv'
  <1> USE DEF SendSingleTelemetry, CallerGoes
  <1>0. next \in Kinds /\ sender[next] = "none" /\ next + 1 \in 1..(NumKinds + 1)
    BY KindAssumption DEF Inv, TypeOK, SpawnedInOrder, Kinds
  <1>1. WaitGroupCounts' /\ wg' \in Nat
    <2>1. CASE next \in data
      <3>1. Outer' = Outer \cup {next} /\ next \notin Outer /\ Inner' = Inner
        BY <2>1, <1>0 DEF Inv, TypeOK, Outer, Inner, ActiveStates, InternalStates
      <3>2. Cardinality(Outer') = Cardinality(Outer) + 1
        BY <3>1, CountsAreNat, OneMore
      <3> QED
        BY <2>1, <3>1, <3>2, CountsAreNat DEF Inv, TypeOK, WaitGroupCounts
    <2>2. CASE next \notin data
      BY <2>2 DEF Inv, TypeOK, WaitGroupCounts, Outer, Inner
    <2> QED
      BY <2>1, <2>2
  <1>2. TypeOK'
    BY <1>0, <1>1 DEF Inv, TypeOK, ActiveStates
  <1>3. SpawnedInOrder'
    <2> SUFFICES ASSUME NEW k \in Kinds
                 PROVE  sender'[k] # "none" <=> k \in data /\ k < next + 1
      BY DEF SpawnedInOrder
    <2>1. CASE k = next
      BY <2>1, <1>0 DEF Inv, TypeOK
    <2>2. CASE k # next
      <3>1. sender'[k] = sender[k]
        BY <2>2, <1>0 DEF Inv, TypeOK
      <3>2. k < next + 1 <=> k < next
        BY <2>2 DEF Inv, TypeOK, Kinds
      <3> QED
        BY <3>1, <3>2 DEF Inv, SpawnedInOrder
    <2> QED
      BY <2>1, <2>2
  <1>4. CallerKnows'
    BY DEF Inv, CallerKnows
  <1>5. ErrorsKept'
    BY <1>0 DEF Inv, TypeOK, ErrorsKept
  <1> QED
    BY <1>1, <1>2, <1>3, <1>4, <1>5 DEF Inv

LEMMA WaitInv ==
  ASSUME Inv, WaitReturns
  PROVE  Inv'
  <1> USE DEF WaitReturns, callerVars
  <1>1. TypeOK' /\ SpawnedInOrder' /\ ErrorsKept'
    BY DEF Inv, TypeOK, SpawnedInOrder, ErrorsKept
  <1>2. WaitGroupCounts'
    BY DEF Inv, WaitGroupCounts, Outer, Inner
  <1>3. CallerKnows'
    BY NoneLeft DEF Inv, CallerKnows
  <1> QED
    BY <1>1, <1>2, <1>3 DEF Inv

\* A step of a goroutine: what its counting leaves to be shown.
LEMMA SenderStep ==
  ASSUME Inv, NEW k \in Kinds, NEW from \in ActiveStates,
         NEW to \in ActiveStates \cup {"ended"}, SenderGoes(k, from, to),
         WaitGroupCounts', wg' \in Nat, accepted' = accepted,
         errChan' \in {errChan, errChan \cup {k}},
         to = "confirmed" => k \in accepted,
         to \in {"leaving", "ended"} => k \in accepted \cup errChan'
  PROVE  Inv'
  <1> USE DEF SenderGoes, callerVars
  <1>1. done # "closed"
    BY DEF Inv, CallerKnows
  <1>2. TypeOK'
    BY DEF Inv, TypeOK
  <1>3. SpawnedInOrder'
    BY DEF Inv, TypeOK, SpawnedInOrder, ActiveStates, InternalStates
  <1>4. CallerKnows'
    BY <1>1 DEF Inv, CallerKnows
  <1>5. ErrorsKept'
    BY DEF Inv, TypeOK, ErrorsKept
  <1> QED
    BY <1>2, <1>3, <1>4, <1>5 DEF Inv

LEMMA SenderInv ==
  ASSUME Inv, NEW k \in Kinds, Sender(k)
  PROVE  Inv'
  <1> USE CountsAreNat
  <1>0. \A s \in InternalStates : s \in ActiveStates
    BY DEF ActiveStates
  <1>1. CASE Begin(k)
    <2>1. Outer' = Outer /\ Inner' = Inner \cup {k} /\ k \notin Inner
      BY <1>1 DEF Begin, SenderGoes, Inv, TypeOK, Outer, Inner, ActiveStates, InternalStates
    <2>2. WaitGroupCounts' /\ wg' \in Nat
      BY <1>1, <2>1, OneMore DEF Begin, Inv, TypeOK, WaitGroupCounts
    <2> QED
      BY <1>1, <2>2, SenderStep DEF Begin, ActiveStates, InternalStates
  <1>2. CASE Confirmed(k) \/ Fails(k)
    <2>1. Outer' = Outer /\ Inner' = Inner /\ wg' = wg
      BY <1>2 DEF Confirmed, Fails, SenderGoes, Inv, TypeOK, Outer, Inner, ActiveStates,
         InternalStates
    <2>2. WaitGroupCounts' /\ wg' \in Nat
      BY <2>1 DEF Inv, TypeOK, WaitGroupCounts
    <2>3. CASE Confirmed(k)
      BY <2>3, <2>2, SenderStep DEF Confirmed, ActiveStates, InternalStates
    <2>4. CASE Fails(k)
      BY <2>4, <2>2, SenderStep DEF Fails, ActiveStates, InternalStates
    <2> QED
      BY <1>2, <2>3, <2>4
  <1>3. CASE InternalReturns(k)
    <2>1. Outer' = Outer /\ Inner' = Inner \ {k} /\ k \in Inner /\ wg' = wg - 1
      BY <1>3 DEF InternalReturns, SenderGoes, Inv, TypeOK, Outer, Inner, ActiveStates,
         InternalStates
    <2>2. Cardinality(Inner') = Cardinality(Inner) - 1 /\ Cardinality(Inner) # 0
      BY <2>1, OneLess
    <2>3. WaitGroupCounts' /\ wg' \in Nat
      BY <2>1, <2>2 DEF Inv, TypeOK, WaitGroupCounts
    <2>4. CASE SenderGoes(k, "confirmed", "leaving")
      <3>1. k \in accepted
        BY <2>4 DEF SenderGoes, Inv, ErrorsKept
      <3> QED
        BY <1>3, <2>4, <3>1, <2>3, SenderStep DEF InternalReturns, ActiveStates, InternalStates
    <2>5. CASE SenderGoes(k, "failed", "reporting")
      BY <1>3, <2>5, <2>3, SenderStep DEF InternalReturns, ActiveStates, InternalStates
    <2> QED
      BY <1>3, <2>4, <2>5 DEF InternalReturns
  <1>4. CASE Report(k)
    <2>1. Outer' = Outer /\ Inner' = Inner /\ wg' = wg
      BY <1>4 DEF Report, SenderGoes, Inv, TypeOK, Outer, Inner, ActiveStates, InternalStates
    <2>2. WaitGroupCounts' /\ wg' \in Nat
      BY <2>1 DEF Inv, TypeOK, WaitGroupCounts
    <2> QED
      BY <1>4, <2>2, SenderStep DEF Report, ActiveStates, InternalStates
  <1>5. CASE Leave(k)
    <2>1. Outer' = Outer \ {k} /\ k \in Outer /\ Inner' = Inner /\ wg' = wg - 1
      BY <1>5 DEF Leave, SenderGoes, Inv, TypeOK, Outer, Inner, ActiveStates, InternalStates
    <2>2. Cardinality(Outer') = Cardinality(Outer) - 1 /\ Cardinality(Outer) # 0
      BY <2>1, OneLess
    <2>3. WaitGroupCounts' /\ wg' \in Nat
      BY <2>1, <2>2 DEF Inv, TypeOK, WaitGroupCounts
    <2>4. k \in accepted \cup errChan
      BY <1>5 DEF Leave, SenderGoes, Inv, ErrorsKept
    <2> QED
      BY <1>5, <2>3, <2>4, SenderStep DEF Leave, ActiveStates, InternalStates
  <1> QED
    BY <1>1, <1>2, <1>3, <1>4, <1>5 DEF Sender

LEMMA OutsideInv ==
  ASSUME Inv, Sigterm \/ (\E k \in Kinds : Accept(k)) \/ UNCHANGED vars
  PROVE  Inv'
  <1>1. /\ UNCHANGED <<callerVars, sender, wg, errChan, done>>
        /\ accepted \subseteq accepted' /\ accepted' \subseteq Kinds /\ ctxDone' \in BOOLEAN
    BY DEF Inv, TypeOK, Sigterm, Accept, vars
  <1>2. TypeOK' /\ SpawnedInOrder' /\ CallerKnows' /\ ErrorsKept'
    BY <1>1 DEF callerVars, Inv, TypeOK, SpawnedInOrder, CallerKnows, ErrorsKept
  <1>3. WaitGroupCounts'
    BY <1>1 DEF Inv, WaitGroupCounts, Outer, Inner
  <1> QED
    BY <1>2, <1>3 DEF Inv

LEMMA NextInv == Inv /\ [Next]_vars => Inv'
  BY CallerInv, SpawnInv, WaitInv, SenderInv, OutsideInv DEF Next, Caller

-----------------------------------------------------------------------------
\* The inductive invariant holds in every reachable state.
THEOREM Invariance == Spec => []Inv
  BY InitInv, NextInv, PTL DEF Spec

\* The variables of a call keep their types; the WaitGroup never goes negative.
THEOREM TypeCorrect == Spec => []TypeOK
  <1>1. Inv => TypeOK
    BY DEF Inv
  <1> QED
    BY <1>1, Invariance, PTL

\* No goroutine sends its error on the channel that the caller has closed.
THEOREM NoPanicOnErrChan == Spec => []NoSendOnClosedErrChan
  <1>1. Inv => NoSendOnClosedErrChan
    BY DEF Inv, CallerKnows, NoSendOnClosedErrChan
  <1> QED
    BY <1>1, Invariance, PTL

\* A call that reports success has had all its data accepted.
THEOREM SuccessIsComplete == Spec => []SuccessMeansAllAccepted
  <1>1. Inv => SuccessMeansAllAccepted
    <2> SUFFICES ASSUME Inv, result = "success", NEW k \in data PROVE k \in accepted
      BY DEF SuccessMeansAllAccepted
    <2>1. k \in Kinds /\ next = NumKinds + 1 /\ sender[k] \notin ActiveStates /\ errChan = {}
      BY DEF Inv, TypeOK, CallerKnows
    <2>2. k < next
      BY <2>1, KindAssumption DEF Kinds
    <2>3. sender[k] = "ended"
      BY <2>1, <2>2 DEF Inv, TypeOK, SpawnedInOrder
    <2> QED
      BY <2>1, <2>3 DEF Inv, ErrorsKept
  <1> QED
    BY <1>1, Invariance, PTL
=============================================================================
