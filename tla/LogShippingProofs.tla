------------------------- MODULE LogShippingProofs -------------------------
(***************************************************************************)
(* Theorems about the log server (LogServer.tla), and about the batch and  *)
(* the two goroutines between them (LogShipping.tla).                      *)
(*                                                                         *)
(* I. The log server, for any number of POSTs, any bodies and any buffer   *)
(* size: the types, the WaitGroup's count, that no handler sends on a      *)
(* closed channel, and that the lines of a POST are shipped whole.         *)
(*                                                                         *)
(* The argument: a handler counts itself in wg before it reads the flag,   *)
(* and Close sets the flag before it waits for wg.  So a handler that read *)
(* FALSE was counted, and Close waits for it; one that enters later reads  *)
(* TRUE.  The invariant that carries this is NoneWorkingAfterWait.         *)
(* For the lines: what a handler has collected are the lines of the events *)
(* it has processed (CollectedSoFar), so all of them when it leaves its    *)
(* loop; the one send passes them on (Whole).                              *)
(*                                                                         *)
(* II. The composition.  Every step of it is a step of the log server or   *)
(* leaves it alone, so that what part I shows of the server holds with the *)
(* real event loop in the place of its open one.  And, for any number of   *)
(* invocations: the trace id a line is sent with came in a payload that    *)
(* the batch accepted for the request the line is attributed to, since     *)
(* only AddTelemetry writes storeTraceID, under the request it accepts the *)
(* payload for, and nothing removes an entry.  Whose payload that was is   *)
(* the event loop's affair (MainLoop.tla).  When the platform posts        *)
(* serially and in order, the request is that of the invocation that wrote *)
(* the line: the last start processed is the last before the line          *)
(* (LastStart), as the POSTs are processed in turn.                        *)
(***************************************************************************)
EXTENDS LogShipping, FiniteSetTheorems, TLAPS

-----------------------------------------------------------------------------
(* I. The log server. *)

ClosingStates == {"shutdown", "waiting", "waited", "platformClosed", "closed"}
PastWait == main \in {"waited", "platformClosed", "closed"}

\* The flag says exactly that Close has begun.
FlagMeansClosing == isShuttingDown <=> main \in ClosingStates

\* Once wg.Wait has returned no handler is past the flag with work to do.
NoneWorkingAfterWait == PastWait => \A h \in Posts : pc[h] \notin {"working", "sending"}

Inv ==
  /\ TypeOK
  /\ WaitGroupCountsHandlers
  /\ FlagMeansClosing
  /\ NoneWorkingAfterWait

-----------------------------------------------------------------------------
LEMMA PostsFinite == IsFiniteSet(Posts)
  BY PostAssumption, FS_Interval DEF Posts

LEMMA ActiveFinite == IsFiniteSet(Active)
  BY PostsFinite, FS_Subset DEF Active

LEMMA HeadIsEvent ==
  ASSUME TypeOK, NEW h \in Posts, body[h] # << >>
  PROVE  NextEvent(h) \in Events
  BY DEF TypeOK, NextEvent

\* Active follows pc: entering adds the handler, returning removes it, and a
\* step from one active state to another leaves the set alone.
LEMMA ActiveGrows ==
  ASSUME TypeOK, NEW h \in Posts, pc[h] = "idle", pc' = [pc EXCEPT ![h] = "entered"]
  PROVE  Cardinality(Active') = Cardinality(Active) + 1
  <1>1. Active' = Active \cup {h} /\ h \notin Active
    BY DEF TypeOK, Active, ActiveStates
  <1> QED
    BY <1>1, ActiveFinite, FS_AddElement

LEMMA ActiveShrinks ==
  ASSUME TypeOK, NEW h \in Posts, NEW s \in {"refused", "replied"},
         pc[h] \in ActiveStates, pc' = [pc EXCEPT ![h] = s]
  PROVE  Cardinality(Active') = Cardinality(Active) - 1
  <1>1. Active' = Active \ {h} /\ h \in Active
    BY DEF TypeOK, Active, ActiveStates
  <1> QED
    BY <1>1, ActiveFinite, FS_RemoveElement

LEMMA ActiveStays ==
  ASSUME TypeOK, NEW h \in Posts, NEW s \in ActiveStates,
         pc[h] \in ActiveStates, pc' = [pc EXCEPT ![h] = s]
  PROVE  Active' = Active
  BY DEF TypeOK, Active

LEMMA NoneActive ==
  ASSUME Cardinality(Active) = 0, NEW h \in Posts
  PROVE  pc[h] \notin ActiveStates
  BY ActiveFinite, FS_EmptySet DEF Active

-----------------------------------------------------------------------------
LEMMA InitInv == Init => Inv
  <1> SUFFICES ASSUME Init PROVE Inv
    OBVIOUS
  <1>1. TypeOK
    <2>1. delivery \in [Posts -> Seq(Events)] /\ body \in [Posts -> Seq(Events)]
      BY PostAssumption DEF Init
    <2>2. << >> \in Seq(Lines) /\ << >> \in Seq(Ids \cup {NoId}) /\ Len(<< >>) = 0
      OBVIOUS
    <2>3. functionLogs \in [Posts -> Seq(Lines)] /\ received \in Seq(Lines)
      BY <2>2 DEF Init
    <2>4. platformLogChan \in Seq(Ids \cup {NoId})
          /\ Len(platformLogChan) <= PlatformLogBufferSize
      BY <2>2, BufferAssumption DEF Init
    <2>5. pc \in [Posts -> ActiveStates \cup {"idle", "refused", "replied"}]
      BY DEF Init
    <2>6. wg \in Nat /\ isShuttingDown \in BOOLEAN /\ lastRequestId \in Ids \cup {NoId}
      BY DEF Init
    <2>7. /\ main \in {"looping", "polling", "polled", "shutdown", "waiting", "waited",
                      "platformClosed", "closed"}
          /\ shipper \in {"gate", "awaiting", "shipping", "ended"}
      BY DEF Init
    <2> QED
      BY <2>1, <2>3, <2>4, <2>5, <2>6, <2>7 DEF TypeOK
  <1>2. Active = {}
    BY DEF Init, Active, ActiveStates
  <1>3. WaitGroupCountsHandlers
    BY <1>2, FS_EmptySet DEF Init, WaitGroupCountsHandlers
  <1>4. FlagMeansClosing /\ NoneWorkingAfterWait
    BY DEF Init, FlagMeansClosing, ClosingStates, NoneWorkingAfterWait, PastWait
  <1> QED
    BY <1>1, <1>3, <1>4 DEF Inv

\* A step of a handler that neither enters nor returns.
LEMMA HandlerWorks ==
  ASSUME Inv, NEW h \in Posts, NEW s \in ActiveStates,
         TypeOK', pc[h] \in ActiveStates, pc' = [pc EXCEPT ![h] = s],
         s \in {"working", "sending"} => pc[h] = "working" \/ ~isShuttingDown,
         UNCHANGED <<wg, isShuttingDown, main>>
  PROVE  Inv'
  <1>1. WaitGroupCountsHandlers'
    BY ActiveStays DEF Inv, WaitGroupCountsHandlers
  <1>2. FlagMeansClosing'
    BY DEF Inv, FlagMeansClosing
  <1>3. NoneWorkingAfterWait'
    BY DEF Inv, TypeOK, NoneWorkingAfterWait, PastWait, FlagMeansClosing, ClosingStates
  <1> QED
    BY <1>1, <1>2, <1>3 DEF Inv

LEMMA EnterInv ==
  ASSUME Inv, NEW h \in Posts, Enter(h)
  PROVE  Inv'
  <1> USE DEF Enter, Goto, closeVars, historyVars
  <1>1. TypeOK'
    BY DEF Inv, TypeOK, ActiveStates
  <1>2. WaitGroupCountsHandlers'
    BY ActiveGrows DEF Inv, WaitGroupCountsHandlers
  <1>3. FlagMeansClosing'
    BY DEF Inv, FlagMeansClosing
  <1>4. NoneWorkingAfterWait'
    BY DEF Inv, TypeOK, NoneWorkingAfterWait, PastWait
  <1> QED
    BY <1>1, <1>2, <1>3, <1>4 DEF Inv

LEMMA ReturnInv ==
  ASSUME Inv, NEW h \in Posts, Return(h)
  PROVE  Inv'
  <1> USE DEF Return, Goto, closeVars, historyVars
  <1>1. h \in Active /\ Cardinality(Active) # 0
    BY NoneActive DEF Inv, TypeOK, Active, ActiveStates
  <1>2. Cardinality(Active') = Cardinality(Active) - 1
    BY ActiveShrinks DEF Inv, ActiveStates
  <1>3. TypeOK'
    BY <1>1 DEF Inv, TypeOK, ActiveStates, WaitGroupCountsHandlers
  <1>4. WaitGroupCountsHandlers'
    BY <1>2 DEF Inv, WaitGroupCountsHandlers
  <1>5. FlagMeansClosing'
    BY DEF Inv, FlagMeansClosing
  <1>6. NoneWorkingAfterWait'
    BY DEF Inv, TypeOK, NoneWorkingAfterWait, PastWait
  <1> QED
    BY <1>3, <1>4, <1>5, <1>6 DEF Inv

\* The steps that leave pc alone: one event of the body is processed.
LEMMA EventInv ==
  ASSUME Inv, NEW h \in Posts,
         HandleStart(h) \/ HandleReport(h) \/ HandleLine(h) \/ HandleLogsDropped(h)
  PROVE  Inv'
  <1> USE DEF HasEvent, Consume, closeVars, historyVars
  <1>1. NextEvent(h) \in Events /\ body[h] # << >> /\ pc[h] = "working"
    BY HeadIsEvent DEF Inv, HandleStart, HandleReport, HandleLine, HandleLogsDropped
  <1>2. Tail(body[h]) \in Seq(Events)
    BY <1>1 DEF Inv, TypeOK
  <1>3. TypeOK'
    <2>1. CASE HandleStart(h)
      BY <1>1, <1>2, <2>1 DEF Inv, TypeOK, HandleStart, Events
    <2>2. CASE HandleReport(h)
      <3>1. platformLogChan' \in Seq(Ids \cup {NoId})
            /\ Len(platformLogChan') <= PlatformLogBufferSize
        BY <1>1, <2>2, BufferAssumption DEF Inv, TypeOK, HandleReport, Events
      <3> QED
        BY <1>2, <2>2, <3>1 DEF Inv, TypeOK, HandleReport
    <2>3. CASE HandleLine(h)
      <3>1. LineRequestId(NextEvent(h)) \in Ids \cup {NoId}
        BY <1>1 DEF Inv, TypeOK, LineRequestId, Events
      <3>2. [id |-> LineRequestId(NextEvent(h)), of |-> NextEvent(h).of, post |-> h] \in Lines
        BY <1>1, <3>1 DEF Lines, Events
      <3>3. functionLogs' \in [Posts -> Seq(Lines)]
        BY <2>3, <3>2 DEF Inv, TypeOK, HandleLine
      <3> QED
        BY <1>2, <2>3, <3>3 DEF Inv, TypeOK, HandleLine
    <2>4. CASE HandleLogsDropped(h)
      BY <1>2, <2>4 DEF Inv, TypeOK, HandleLogsDropped
    <2> QED
      BY <2>1, <2>2, <2>3, <2>4
  <1>4. UNCHANGED <<pc, wg, isShuttingDown, main>>
    BY DEF HandleStart, HandleReport, HandleLine, HandleLogsDropped
  <1>5. Active' = Active
    BY <1>4 DEF Active
  <1> QED
    BY <1>3, <1>4, <1>5 DEF Inv, WaitGroupCountsHandlers, FlagMeansClosing,
       NoneWorkingAfterWait, PastWait

LEMMA HandlerInv ==
  ASSUME Inv, NEW h \in Posts, Handler(h)
  PROVE  Inv'
  <1> USE DEF Goto, closeVars, historyVars
  <1>1. CASE ReadFlag(h)
    <2> DEFINE s == IF isShuttingDown THEN "refusing" ELSE "working"
    <2>1. TypeOK'
      BY <1>1 DEF Inv, TypeOK, ReadFlag, ActiveStates
    <2>2. s \in ActiveStates /\ pc[h] \in ActiveStates /\ pc' = [pc EXCEPT ![h] = s]
      BY <1>1 DEF ReadFlag, ActiveStates
    <2>3. s \in {"working", "sending"} => ~isShuttingDown
      OBVIOUS
    <2>4. UNCHANGED <<wg, isShuttingDown, main>>
      BY <1>1 DEF ReadFlag
    <2> HIDE DEF s
    <2> QED
      BY <2>1, <2>2, <2>3, <2>4, HandlerWorks
  <1>2. CASE HandleStart(h) \/ HandleReport(h) \/ HandleLine(h) \/ HandleLogsDropped(h)
    BY <1>2, EventInv
  <1>3. CASE EventsDone(h)
    <2> DEFINE s == IF functionLogs[h] # << >> THEN "sending" ELSE "replying"
    <2>1. TypeOK'
      BY <1>3 DEF Inv, TypeOK, EventsDone, ActiveStates
    <2>2. s \in ActiveStates /\ pc[h] = "working" /\ pc[h] \in ActiveStates
          /\ pc' = [pc EXCEPT ![h] = s]
      BY <1>3 DEF EventsDone, ActiveStates
    <2>3. UNCHANGED <<wg, isShuttingDown, main>>
      BY <1>3 DEF EventsDone
    <2> HIDE DEF s
    <2> QED
      BY <2>1, <2>2, <2>3, HandlerWorks
  <1>4. CASE SendFunctionLogs(h)
    <2>1. TypeOK'
      BY <1>4 DEF Inv, TypeOK, SendFunctionLogs, ActiveStates
    <2>2. "replying" \in ActiveStates /\ pc[h] \in ActiveStates
          /\ pc' = [pc EXCEPT ![h] = "replying"]
      BY <1>4 DEF SendFunctionLogs, ActiveStates
    <2>3. UNCHANGED <<wg, isShuttingDown, main>>
      BY <1>4 DEF SendFunctionLogs
    <2> QED
      BY <2>1, <2>2, <2>3, HandlerWorks
  <1>5. CASE Return(h)
    BY <1>5, ReturnInv
  <1> QED
    BY <1>1, <1>2, <1>3, <1>4, <1>5 DEF Handler

\* Only WaitReturns takes Close past the wait, and it does so when wg is 0.
LEMMA MainInv ==
  ASSUME Inv, Poll \/ Close
  PROVE  Inv'
  <1> USE DEF MainGoto, handlerVars, historyVars
  <1>1. TypeOK'
    <2>1. CASE PollOne
      <3>1. Tail(platformLogChan) \in Seq(Ids \cup {NoId})
            /\ Len(Tail(platformLogChan)) <= PlatformLogBufferSize
        BY <2>1, BufferAssumption DEF Inv, TypeOK, PollOne
      <3> QED
        BY <2>1, <3>1 DEF Inv, TypeOK, PollOne
    <2>3. CASE StartPoll \/ PollEmpty
      BY <2>3 DEF Inv, TypeOK, StartPoll, PollEmpty
    <2>2. CASE Close
      BY <2>2 DEF Inv, TypeOK, Close, CloseSetsFlag, ShutdownReturns, WaitReturns,
         ClosePlatformChan, CloseFunctionChan
    <2> QED
      BY <2>1, <2>2, <2>3 DEF Poll
  <1>2. UNCHANGED <<pc, wg>>
    BY DEF Poll, StartPoll, PollOne, PollEmpty, Close, CloseSetsFlag, ShutdownReturns,
       WaitReturns, ClosePlatformChan, CloseFunctionChan
  <1>3. Active' = Active
    BY <1>2 DEF Active
  <1>4. WaitGroupCountsHandlers'
    BY <1>2, <1>3 DEF Inv, WaitGroupCountsHandlers
  <1>5. FlagMeansClosing'
    BY DEF Inv, FlagMeansClosing, ClosingStates, Poll, StartPoll, PollOne, PollEmpty,
       Close, CloseSetsFlag, ShutdownReturns, WaitReturns, ClosePlatformChan,
       CloseFunctionChan
  <1>6. NoneWorkingAfterWait'
    <2>1. CASE WaitReturns
      <3>1. \A h \in Posts : pc[h] \notin ActiveStates
        BY <2>1, NoneActive DEF Inv, WaitGroupCountsHandlers, WaitReturns
      <3> QED
        BY <1>2, <3>1 DEF NoneWorkingAfterWait, ActiveStates
    <2>2. CASE ~WaitReturns
      BY <1>2, <2>2 DEF Inv, NoneWorkingAfterWait, PastWait, Poll, StartPoll, PollOne,
         PollEmpty, Close, CloseSetsFlag, ShutdownReturns, ClosePlatformChan,
         CloseFunctionChan
    <2> QED
      BY <2>1, <2>2
  <1> QED
    BY <1>1, <1>4, <1>5, <1>6 DEF Inv

LEMMA ShipperInv ==
  ASSUME Inv, Shipper
  PROVE  Inv'
  <1> USE DEF Shipper, ShipmentDone, SeeClosedChan, EntityGuidKnown, ContextDone,
          ShipperGoto, handlerVars, closeVars, historyVars
  <1>1. TypeOK'
    BY DEF Inv, TypeOK
  <1>2. UNCHANGED <<pc, wg, isShuttingDown, main>>
    OBVIOUS
  <1>3. Active' = Active
    BY <1>2 DEF Active
  <1> QED
    BY <1>1, <1>2, <1>3 DEF Inv, WaitGroupCountsHandlers, FlagMeansClosing,
       NoneWorkingAfterWait, PastWait

LEMMA NextInv == Inv /\ [Next]_vars => Inv'
  <1> SUFFICES ASSUME Inv, [Next]_vars PROVE Inv'
    OBVIOUS
  <1>1. ASSUME NEW h \in Posts, Enter(h) PROVE Inv'
    BY <1>1, EnterInv
  <1>2. ASSUME NEW h \in Posts, Handler(h) PROVE Inv'
    BY <1>2, HandlerInv
  <1>3. CASE Poll \/ Close
    BY <1>3, MainInv
  <1>4. CASE Shipper
    BY <1>4, ShipperInv
  <1>5. CASE UNCHANGED vars
    <2>1. Active' = Active
      BY <1>5 DEF vars, Active
    <2> QED
      BY <1>5, <2>1 DEF vars, Inv, TypeOK, WaitGroupCountsHandlers, FlagMeansClosing,
         NoneWorkingAfterWait, PastWait
  <1> QED
    BY <1>1, <1>2, <1>3, <1>4, <1>5 DEF Next

-----------------------------------------------------------------------------
\* The inductive invariant holds in every reachable state.
THEOREM Invariance == Spec => []Inv
  BY InitInv, NextInv, PTL DEF Spec

\* The variables of the server keep their types; platformLogChan never holds
\* more than its capacity.
THEOREM TypeCorrect == Spec => []TypeOK
  <1>1. Inv => TypeOK
    BY DEF Inv
  <1> QED
    BY <1>1, Invariance, PTL

\* LogServer.wg counts the live handlers, so wg.Wait cannot return too early
\* and wg.Done cannot drive the counter below zero.
THEOREM WaitGroupCounts == Spec => []WaitGroupCountsHandlers
  <1>1. Inv => WaitGroupCountsHandlers
    BY DEF Inv
  <1> QED
    BY <1>1, Invariance, PTL

\* No handler ever sends on platformLogChan or functionLogChan after Close has
\* closed it.
THEOREM NoPanicOnClosedChannel == Spec => []NoSendOnClosedChannel
  <1>1. Inv => NoSendOnClosedChannel
    BY DEF Inv, NoneWorkingAfterWait, PastWait, NoSendOnClosedChannel, HasEvent,
       PlatformChanClosed, FunctionChanClosed
  <1> QED
    BY <1>1, Invariance, PTL

-----------------------------------------------------------------------------
(* The lines of a POST. *)

\* The events of its POST that handler h has processed, and the lines among them.
Done(h) == Len(delivery[h]) - Len(body[h])
LinesDone(h) == {i \in 1..Done(h) : IsLine(delivery[h][i])}

\* What is left to process is the rest of what was sent; what is collected are the
\* lines of what was processed.
CollectedSoFar(h) ==
  /\ Len(body[h]) <= Len(delivery[h])
  /\ \A i \in 1..Len(body[h]) : body[h][i] = delivery[h][Done(h) + i]
  /\ Len(functionLogs[h]) = Cardinality(LinesDone(h))
  /\ \A i \in DOMAIN functionLogs[h] : functionLogs[h][i].post = h

Whole ==
  /\ \A h \in Posts : CollectedSoFar(h)
  /\ \A h \in Posts : pc[h] \in {"sending", "replying", "replied"} => body[h] = << >>
  /\ PostShippedWhole

\* A handler that has left its loop has processed every event.
LEMMA AllDone ==
  ASSUME TypeOK, NEW h \in Posts, body[h] = << >>
  PROVE  LinesDone(h) = LinesOf(h)
  BY DEF TypeOK, LinesDone, LinesOf, Done

\* What a step does not touch stays collected.
LEMMA CollectedStays ==
  ASSUME NEW h \in Posts, CollectedSoFar(h),
         body'[h] = body[h], functionLogs'[h] = functionLogs[h], delivery' = delivery
  PROVE  CollectedSoFar(h)'
  <1>1. Done(h)' = Done(h)
    BY DEF Done
  <1>2. LinesDone(h)' = LinesDone(h)
    BY <1>1 DEF LinesDone, IsLine
  <1> QED
    BY <1>1, <1>2 DEF CollectedSoFar

\* Processing an event: what was done stays done.
LEMMA OneMoreDone ==
  ASSUME TypeOK, TypeOK', NEW h \in Posts, CollectedSoFar(h), body[h] # << >>,
         UNCHANGED delivery, body' = [body EXCEPT ![h] = Tail(body[h])]
  PROVE  /\ Len(body'[h]) <= Len(delivery'[h])
         /\ \A i \in 1..Len(body'[h]) : body'[h][i] = delivery'[h][Done(h)' + i]
         /\ IsFiniteSet(LinesDone(h))
         /\ LinesDone(h)' = IF IsLine(NextEvent(h)) THEN LinesDone(h) \cup {Done(h) + 1}
                                                    ELSE LinesDone(h)
         /\ Done(h) + 1 \notin LinesDone(h)
  <1> DEFINE sent == delivery[h]
             rest == body[h]
  <1>1. /\ sent \in Seq(Events) /\ rest \in Seq(Events) /\ rest # << >>
        /\ body'[h] = Tail(rest) /\ delivery'[h] = sent
        /\ Len(rest) <= Len(sent) /\ NextEvent(h) = rest[1]
        /\ \A i \in 1..Len(rest) : rest[i] = sent[Len(sent) - Len(rest) + i]
    BY DEF TypeOK, CollectedSoFar, Done, NextEvent
  <1>2. Done(h) = Len(sent) - Len(rest) /\ Done(h)' = Len(sent) - Len(Tail(rest))
    BY <1>1 DEF Done
  <1> HIDE DEF sent, rest
  <1>3. /\ Len(rest) \in Nat /\ Len(rest) >= 1 /\ Len(Tail(rest)) = Len(rest) - 1
        /\ Len(sent) \in Nat /\ \A i \in 1..(Len(rest) - 1) : Tail(rest)[i] = rest[i + 1]
    BY <1>1
  <1>4. Done(h) \in Nat /\ Done(h)' = Done(h) + 1
    BY <1>1, <1>2, <1>3
  <1>5. Len(body'[h]) <= Len(delivery'[h])
    BY <1>1, <1>3
  <1>6. ASSUME NEW i \in 1..Len(body'[h])
        PROVE  body'[h][i] = delivery'[h][Done(h)' + i]
    <2>1. i \in 1..(Len(rest) - 1) /\ i + 1 \in 1..Len(rest)
      BY <1>1, <1>3
    <2>2. rest[i + 1] = sent[Done(h) + (i + 1)]
      BY <1>1, <1>2, <2>1
    <2>3. Done(h)' + i = Done(h) + (i + 1)
      BY <1>3, <1>4, <2>1
    <2> QED
      BY <1>1, <1>3, <2>1, <2>2, <2>3
  <1>7. sent[Done(h) + 1] = NextEvent(h)
    BY <1>1, <1>2, <1>3
  <1>8. IsFiniteSet(LinesDone(h))
    <2>1. IsFiniteSet(1..Done(h))
      BY <1>4, FS_Interval
    <2>2. LinesDone(h) \in SUBSET (1..Done(h))
      BY DEF LinesDone
    <2> QED
      BY <2>1, <2>2, FS_Subset
  <1>9. LinesDone(h)' = {i \in 1..(Done(h) + 1) : IsLine(sent[i])}
    BY <1>1, <1>4 DEF LinesDone, IsLine
  <1>10. LinesDone(h) = {i \in 1..Done(h) : IsLine(sent[i])}
    BY DEF LinesDone, sent
  <1>11. \A i : i \in 1..(Done(h) + 1) <=> i \in 1..Done(h) \/ i = Done(h) + 1
    BY <1>4
  <1>12. LinesDone(h)' = IF IsLine(NextEvent(h)) THEN LinesDone(h) \cup {Done(h) + 1}
                                                ELSE LinesDone(h)
    BY <1>7, <1>9, <1>10, <1>11
  <1>13. Done(h) + 1 \notin LinesDone(h)
    BY <1>4 DEF LinesDone
  <1> QED
    BY <1>5, <1>6, <1>8, <1>12, <1>13

LEMMA WholeInit == Init => Whole
  <1> SUFFICES ASSUME Init PROVE Whole
    OBVIOUS
  <1>1. TypeOK
    BY InitInv DEF Inv
  <1>2. ASSUME NEW h \in Posts PROVE CollectedSoFar(h)
    <2>1. body[h] = delivery[h] /\ Len(body[h]) \in Nat /\ Done(h) = 0
      BY <1>1 DEF Init, TypeOK, Done
    <2>2. LinesDone(h) = {}
      BY <2>1 DEF LinesDone
    <2>3. functionLogs[h] = << >> /\ Len(functionLogs[h]) = 0
      BY DEF Init
    <2> QED
      BY <2>1, <2>2, <2>3, FS_EmptySet DEF CollectedSoFar
  <1>3. PostShippedWhole
    <2>1. \A h \in Posts : ReceivedOf(h) = {} /\ pc[h] = "idle"
      BY DEF Init, ReceivedOf
    <2> QED
      BY <2>1, FS_EmptySet DEF PostShippedWhole
  <1> QED
    BY <1>2, <1>3 DEF Whole, Init

\* The steps that process no event and send no line: what matters is where they go.
LEMMA WholeStays ==
  ASSUME TypeOK, Whole,
         UNCHANGED <<body, functionLogs, received, delivery>>,
         \A h \in Posts : pc'[h] = "sending" => pc[h] = "sending" \/ body[h] = << >>,
         \A h \in Posts : pc'[h] \in {"replying", "replied"} =>
                           \/ pc[h] \in {"replying", "replied"}
                           \/ body[h] = << >> /\ functionLogs[h] = << >>,
         \A h \in Posts : pc[h] \in {"replying", "replied"} =>
                           pc'[h] \in {"replying", "replied"}
  PROVE  Whole'
  <1>1. ASSUME NEW h \in Posts PROVE CollectedSoFar(h)'
    BY CollectedStays DEF Whole
  <1>2. ASSUME NEW h \in Posts, pc'[h] \in {"sending", "replying", "replied"}
        PROVE  body'[h] = << >>
    BY <1>2 DEF Whole
  <1>3. ASSUME NEW h \in Posts
        PROVE  Cardinality(ReceivedOf(h)') =
                 IF pc'[h] \in {"replying", "replied"} THEN Cardinality(LinesOf(h)') ELSE 0
    <2>1. ReceivedOf(h)' = ReceivedOf(h) /\ LinesOf(h)' = LinesOf(h)
      BY DEF ReceivedOf, LinesOf
    <2>2. body[h] = << >> /\ functionLogs[h] = << >> => Cardinality(LinesOf(h)) = 0
      BY AllDone DEF Whole, CollectedSoFar
    <2> QED
      BY <2>1, <2>2 DEF Whole, PostShippedWhole
  <1>4. PostShippedWhole'
    BY <1>3 DEF PostShippedWhole
  <1> QED
    BY <1>1, <1>2, <1>4 DEF Whole

\* One event processed: a line joins those collected.
LEMMA WholeEvent ==
  ASSUME TypeOK, TypeOK', Whole, NEW h \in Posts,
         HandleStart(h) \/ HandleReport(h) \/ HandleLine(h) \/ HandleLogsDropped(h)
  PROVE  Whole'
  <1> USE DEF HasEvent, Consume, historyVars
  <1>1. /\ body[h] # << >> /\ pc[h] = "working"
        /\ body' = [body EXCEPT ![h] = Tail(body[h])]
        /\ UNCHANGED <<pc, received, delivery>>
    BY DEF HandleStart, HandleReport, HandleLine, HandleLogsDropped
  <1>2. \/ /\ IsLine(NextEvent(h))
           /\ \E line \in Lines : /\ line.post = h
                                 /\ functionLogs' = [functionLogs EXCEPT ![h] = Append(@, line)]
        \/ ~IsLine(NextEvent(h)) /\ UNCHANGED functionLogs
    <2>1. CASE HandleLine(h)
      <3> DEFINE line == [id |-> LineRequestId(NextEvent(h)), of |-> NextEvent(h).of,
                          post |-> h]
      <3>1. NextEvent(h) \in Events
        BY <1>1, HeadIsEvent
      <3>2. line \in Lines /\ line.post = h
        BY <3>1 DEF TypeOK, Lines, Events, LineRequestId
      <3> QED
        BY <2>1, <3>2 DEF HandleLine, IsLine
    <2>2. CASE ~HandleLine(h)
      BY <2>2 DEF HandleStart, HandleReport, HandleLogsDropped, IsLine
    <2> QED
      BY <2>1, <2>2
  <1>3. CollectedSoFar(h)'
    <2>1. /\ Len(body'[h]) <= Len(delivery'[h])
          /\ \A i \in 1..Len(body'[h]) : body'[h][i] = delivery'[h][Done(h)' + i]
          /\ IsFiniteSet(LinesDone(h)) /\ Done(h) + 1 \notin LinesDone(h)
          /\ LinesDone(h)' = IF IsLine(NextEvent(h)) THEN LinesDone(h) \cup {Done(h) + 1}
                                                    ELSE LinesDone(h)
      BY <1>1, OneMoreDone DEF Whole
    <2>2. Len(functionLogs[h]) = Cardinality(LinesDone(h))
          /\ \A i \in DOMAIN functionLogs[h] : functionLogs[h][i].post = h
      BY DEF Whole, CollectedSoFar
    <2>3. CASE IsLine(NextEvent(h))
      <3>1. PICK line \in Lines : /\ line.post = h
                                  /\ functionLogs' = [functionLogs EXCEPT ![h] = Append(@, line)]
        BY <1>2, <2>3
      <3>2. /\ functionLogs'[h] = Append(functionLogs[h], line)
            /\ functionLogs[h] \in Seq(Lines)
        BY <3>1 DEF TypeOK
      <3>3. Len(functionLogs'[h]) = Len(functionLogs[h]) + 1
        BY <3>2
      <3>4. \A i \in DOMAIN functionLogs'[h] : functionLogs'[h][i].post = h
        BY <2>2, <3>1, <3>2
      <3>5. Cardinality(LinesDone(h)') = Cardinality(LinesDone(h)) + 1
        BY <2>1, <2>3, FS_AddElement
      <3> QED
        BY <2>1, <2>2, <3>3, <3>4, <3>5 DEF CollectedSoFar
    <2>4. CASE ~IsLine(NextEvent(h))
      BY <1>2, <2>1, <2>2, <2>4 DEF CollectedSoFar
    <2> QED
      BY <2>3, <2>4
  <1>4. ASSUME NEW g \in Posts, g # h PROVE CollectedSoFar(g)'
    <2>1. body'[g] = body[g] /\ functionLogs'[g] = functionLogs[g] /\ delivery' = delivery
      BY <1>1, <1>2, <1>4 DEF TypeOK
    <2> QED
      BY <2>1, CollectedStays DEF Whole
  <1>5. ASSUME NEW g \in Posts, pc'[g] \in {"sending", "replying", "replied"}
        PROVE  body'[g] = << >>
    BY <1>1, <1>5 DEF Whole, TypeOK
  <1>6. PostShippedWhole'
    BY <1>1 DEF Whole, PostShippedWhole, ReceivedOf, LinesOf
  <1> QED
    BY <1>3, <1>4, <1>5, <1>6 DEF Whole

\* The one send of a handler passes on everything it has collected.
LEMMA WholeSend ==
  ASSUME TypeOK, TypeOK', Whole, NEW h \in Posts, SendFunctionLogs(h)
  PROVE  Whole'
  <1> USE DEF SendFunctionLogs, Goto
  <1>1. ASSUME NEW g \in Posts PROVE CollectedSoFar(g)'
    BY CollectedStays DEF Whole
  <1>2. ASSUME NEW g \in Posts, pc'[g] \in {"sending", "replying", "replied"}
        PROVE  body'[g] = << >>
    BY <1>2 DEF Whole, TypeOK
  <1> DEFINE before == received
             lines  == functionLogs[h]
  <1>3. /\ before \in Seq(Lines) /\ lines \in Seq(Lines) /\ received' = before \o lines
        /\ \A i \in DOMAIN lines : lines[i].post = h
    BY DEF TypeOK, Whole, CollectedSoFar
  <1> HIDE DEF before, lines
  <1>4. /\ Len(before) \in Nat /\ Len(lines) \in Nat
        /\ DOMAIN before = 1..Len(before) /\ DOMAIN lines = 1..Len(lines)
        /\ DOMAIN received' = 1..(Len(before) + Len(lines))
        /\ \A i \in 1..Len(before) : received'[i] = before[i]
        /\ \A i \in (Len(before) + 1)..(Len(before) + Len(lines)) :
             received'[i] = lines[i - Len(before)]
    BY <1>3
  <1>5. \A i \in (Len(before) + 1)..(Len(before) + Len(lines)) : received'[i].post = h
    <2> SUFFICES ASSUME NEW i \in (Len(before) + 1)..(Len(before) + Len(lines))
                 PROVE  received'[i].post = h
      OBVIOUS
    <2>1. i - Len(before) \in 1..Len(lines)
      BY <1>4
    <2>2. received'[i] = lines[i - Len(before)]
      BY <1>4
    <2>3. lines[i - Len(before)].post = h
      BY <1>3, <1>4, <2>1
    <2> QED
      BY <2>2, <2>3
  <1>6. \A i : i \in DOMAIN received' <=>
               i \in DOMAIN before \/ i \in (Len(before) + 1)..(Len(before) + Len(lines))
    BY <1>4
  <1>7. ASSUME NEW g \in Posts, g # h
        PROVE  ReceivedOf(g)' = ReceivedOf(g) /\ pc'[g] = pc[g]
    <2>1. ReceivedOf(g)' = {i \in DOMAIN before : before[i].post = g}
      BY <1>4, <1>5, <1>6, <1>7 DEF ReceivedOf
    <2> QED
      BY <2>1, <1>7 DEF ReceivedOf, before, TypeOK
  <1>8. Cardinality(ReceivedOf(h)') = Cardinality(LinesOf(h)) /\ pc'[h] = "replying"
    <2>1. /\ pc[h] = "sending" /\ body[h] = << >> /\ Cardinality(ReceivedOf(h)) = 0
          /\ Len(lines) = Cardinality(LinesOf(h)) /\ pc'[h] = "replying"
      BY AllDone DEF Whole, TypeOK, PostShippedWhole, CollectedSoFar, lines
    <2>2. IsFiniteSet(ReceivedOf(h))
      <3>1. ReceivedOf(h) \in SUBSET (1..Len(before))
        BY <1>4 DEF ReceivedOf, before
      <3>2. IsFiniteSet(1..Len(before))
        BY <1>4, FS_Interval
      <3> QED
        BY <3>1, <3>2, FS_Subset
    <2>3. ReceivedOf(h) = {}
      BY <2>1, <2>2, FS_EmptySet
    <2>4. \A i \in DOMAIN before : before[i].post # h
      BY <2>3 DEF ReceivedOf, before
    <2>5. ReceivedOf(h)' = (Len(before) + 1)..(Len(before) + Len(lines))
      BY <1>4, <1>5, <1>6, <2>4 DEF ReceivedOf
    <2>6. Cardinality((Len(before) + 1)..(Len(before) + Len(lines))) = Len(lines)
      <3> DEFINE m == Len(before)
                 n == Len(lines)
      <3>1. m \in Nat /\ n \in Nat
        BY <1>4
      <3> HIDE DEF m, n
      <3>2. m + 1 > m + n <=> n = 0
        BY <3>1
      <3>3. (m + n) - (m + 1) + 1 = n /\ m + 1 \in Int /\ m + n \in Int
        BY <3>1
      <3>4. Cardinality((m + 1)..(m + n)) = n
        BY <3>2, <3>3, FS_Interval
      <3> QED
        BY <3>4 DEF m, n
    <2> QED
      BY <2>1, <2>5, <2>6
  <1>9. \A g \in Posts : LinesOf(g)' = LinesOf(g)
    BY DEF LinesOf
  <1>10. PostShippedWhole'
    BY <1>7, <1>8, <1>9 DEF Whole, PostShippedWhole
  <1> QED
    BY <1>1, <1>2, <1>10 DEF Whole

LEMMA WholeNext ==
  ASSUME Inv, Inv', Whole, [Next]_vars
  PROVE  Whole'
  <1>0. TypeOK /\ TypeOK'
    BY DEF Inv
  <1>1. ASSUME NEW h \in Posts, Enter(h) \/ ReadFlag(h) \/ EventsDone(h) \/ Return(h)
        PROVE  Whole'
    <2> USE DEF Enter, ReadFlag, EventsDone, Return, Goto, historyVars
    <2>1. UNCHANGED <<body, functionLogs, received, delivery>>
      BY <1>1
    <2>2. \A g \in Posts : pc'[g] = "sending" => pc[g] = "sending" \/ body[g] = << >>
      BY <1>0, <1>1 DEF TypeOK
    <2>3. \A g \in Posts : pc'[g] \in {"replying", "replied"} =>
                           \/ pc[g] \in {"replying", "replied"}
                           \/ body[g] = << >> /\ functionLogs[g] = << >>
      BY <1>0, <1>1 DEF TypeOK
    <2>4. \A g \in Posts : pc[g] \in {"replying", "replied"} =>
                           pc'[g] \in {"replying", "replied"}
      BY <1>0, <1>1 DEF TypeOK
    <2> QED
      BY <1>0, <2>1, <2>2, <2>3, <2>4, WholeStays
  <1>2. ASSUME NEW h \in Posts,
               HandleStart(h) \/ HandleReport(h) \/ HandleLine(h) \/ HandleLogsDropped(h)
        PROVE  Whole'
    BY <1>0, <1>2, WholeEvent
  <1>3. ASSUME NEW h \in Posts, SendFunctionLogs(h) PROVE Whole'
    BY <1>0, <1>3, WholeSend
  <1>4. CASE Poll \/ Close \/ Shipper \/ UNCHANGED vars
    <2>1. UNCHANGED <<pc, body, functionLogs, received, delivery>>
      BY <1>4 DEF vars, Poll, StartPoll, PollOne, PollEmpty, Close, CloseSetsFlag,
         ShutdownReturns, WaitReturns, ClosePlatformChan, CloseFunctionChan, MainGoto,
         Shipper, ShipmentDone, SeeClosedChan, EntityGuidKnown, ContextDone, ShipperGoto,
         handlerVars, historyVars
    <2> QED
      BY <1>0, <2>1, WholeStays
  <1> QED
    BY <1>1, <1>2, <1>3, <1>4 DEF Next, Handler

LEMMA WholeInvariance == Spec => []Whole
  BY WholeInit, WholeNext, Invariance, PTL DEF Spec

\* Every accepted POST has its lines shipped whole, once, before it is answered,
\* and a refused one none: however handlers, polls and Close interleave.
THEOREM ShippedWhole == Spec => []PostShippedWhole
  <1>1. Whole => PostShippedWhole
    BY DEF Whole
  <1> QED
    BY <1>1, WholeInvariance, PTL

-----------------------------------------------------------------------------
(* II. The composition. *)

\* The batch is the record that NewBatch makes.
IsBatch(b) ==
  b = [lastHarvest |-> b.lastHarvest, eldest |-> b.eldest,
       invocations |-> b.invocations, storeTraceID |-> b.storeTraceID]

\* What the store of trace ids holds, and what it must hold.
StoreOfRequests ==
  \A r \in DOMAIN batch.storeTraceID :
    /\ batch.storeTraceID[r] # NoTrace
    /\ [trace |-> batch.storeTraceID[r], to |-> r] \in accepted
AcceptedIsStored == \A e \in accepted : e.to \in DOMAIN batch.storeTraceID

\* A line leaves with a trace id accepted for the request it is attributed to, or
\* with none.
TraceOfAttributedRequest ==
  \A n \in DOMAIN shipped :
    shipped[n].trace # NoTrace =>
      [trace |-> shipped[n].trace, to |-> shipped[n].id] \in accepted

\* Lines before and after they are stamped.
Stamped ==
  [of : Ids \cup {NoId}, id : Ids \cup {NoId}, trace : Ids \cup {NoId}]
LinesTyped ==
  /\ unstamped \in Seq(Lines) /\ shipped \in Seq(Stamped)
  /\ \A e \in accepted : e.trace \in Ids

ShippingInv ==
  /\ IsBatch(batch) /\ StoreOfRequests /\ AcceptedIsStored
  /\ TraceOfAttributedRequest /\ LinesTyped

-----------------------------------------------------------------------------
\* A step of the composition is one of the log server of LogServer.tla, or none.
LEMMA ServerStep == [ShippingNext]_shippingVars => [Next]_vars
  <1> SUFFICES ASSUME ShippingNext PROVE [Next]_vars
    BY DEF shippingVars
  <1>1. CASE Loop
    <2>1. CASE NextInvoke \/ ReceiveTelemetry \/ CatchUp \/ TimeLimitReached \/ FinalHarvest
      BY <2>1 DEF NextInvoke, ReceiveTelemetry, CatchUp, AddAgentTelemetry,
         TimeLimitReached, FinalHarvest
    <2>2. CASE BeginPoll \/ PollReport \/ EndPoll \/ CloseServer
      BY <2>2 DEF BeginPoll, PollReport, EndPoll, CloseServer, Next, Poll
    <2> QED
      BY <1>1, <2>1, <2>2 DEF Loop
  <1>2. CASE LogShipLoop
    BY <1>2 DEF LogShipLoop, StampLine, Next, Shipper
  <1>3. CASE \E h \in Posts : Post(h) \/ HandlePost(h)
    BY <1>3 DEF Post, HandlePost, Next
  <1> QED
    BY <1>1, <1>2, <1>3 DEF ShippingNext

\* The composition implements the log server: its types, the count of its
\* WaitGroup and the safety of its channels carry over.
THEOREM ImplementsLogServer == ShippingSpec => Spec
  <1>1. ShippingInit => Init
    BY DEF ShippingInit
  <1> QED
    BY <1>1, ServerStep, PTL DEF ShippingSpec, Spec

\* With the event loop of main.go as the one that polls and closes, no handler
\* sends on a closed channel.
THEOREM NoPanicInTheProgram == ShippingSpec => []NoSendOnClosedChannel
  BY ImplementsLogServer, NoPanicOnClosedChannel, PTL

-----------------------------------------------------------------------------
(* The operations of the batch, as far as the store of trace ids goes. *)

\* AddTelemetry stores a trace id under the request id it is called with, if the
\* batch has an invocation there, and changes the store in no other way.
LEMMA AddTelemetryStores ==
  ASSUME NEW b, IsBatch(b), NEW r, NEW telemetry, NEW isAPM \in BOOLEAN
  PROVE  LET c == B!AddTelemetry(b, r, telemetry, isAPM)
         IN  /\ IsBatch(c)
             /\ c.storeTraceID =
                  IF B!Accepts(b, r) /\ isAPM /\ telemetry.trace # NoTrace
                  THEN B!Put(b.storeTraceID, r, telemetry.trace)
                  ELSE b.storeTraceID
  <1> DEFINE trace  == B!FoundTrace(telemetry, isAPM)
             inv    == b.invocations[r]
             newInv == [inv EXCEPT !.telemetry = Append(@, telemetry),
                                   !.traceId = IF trace # NoTrace THEN trace ELSE @]
             c      == B!AddTelemetry(b, r, telemetry, isAPM)
  <1>1. trace = IF isAPM THEN telemetry.trace ELSE NoTrace
    BY DEF B!FoundTrace
  <1>2. CASE ~B!Accepts(b, r)
    BY <1>2 DEF B!AddTelemetry
  <1>3. CASE B!Accepts(b, r)
    <2>1. c = [b EXCEPT
                !.invocations = B!Put(b.invocations, r, newInv),
                !.eldest = IF b.eldest = B!EpochStart THEN inv.start ELSE b.eldest,
                !.storeTraceID = IF trace # NoTrace
                                 THEN B!Put(b.storeTraceID, r, trace) ELSE b.storeTraceID]
      BY <1>3 DEF B!AddTelemetry
    <2> HIDE DEF trace, inv, newInv, c
    <2>2. IsBatch(c) /\ c.storeTraceID = IF trace # NoTrace
                                         THEN B!Put(b.storeTraceID, r, trace)
                                         ELSE b.storeTraceID
      BY <2>1 DEF IsBatch
    <2> QED
      BY <1>1, <1>3, <2>2 DEF c
  <1> QED
    BY <1>2, <1>3

\* The other operations leave the store alone.
LEMMA OthersKeepStore ==
  ASSUME NEW b, IsBatch(b), NEW r, NEW now,
         NEW c \in {B!AddInvocation(b, r, now), B!AggressiveHarvest(b, now).batch,
                    B!RipeHarvest(b, now).batch}
  PROVE  IsBatch(c) /\ c.storeTraceID = b.storeTraceID
  BY DEF IsBatch, B!AddInvocation, B!AggressiveHarvest, B!RipeHarvest

-----------------------------------------------------------------------------
LEMMA ShippingInitInv == ShippingInit => ShippingInv
  BY DEF ShippingInit, ShippingInv, IsBatch, StoreOfRequests, AcceptedIsStored,
     TraceOfAttributedRequest, LinesTyped, B!NewBatch, B!NoEntries

\* The batch may change; the store of trace ids, and what has been shipped, do not.
LEMMA StoreKept ==
  ASSUME ShippingInv, IsBatch(batch'), batch'.storeTraceID = batch.storeTraceID,
         UNCHANGED <<accepted, shipped>>, unstamped' \in Seq(Lines)
  PROVE  ShippingInv'
  BY DEF ShippingInv, StoreOfRequests, AcceptedIsStored, TraceOfAttributedRequest, LinesTyped

LEMMA AgentTelemetryInv ==
  ASSUME ShippingInv, NEW from, NEW to, NEW last, AddAgentTelemetry(from, to, last)
  PROVE  ShippingInv'
  <1> DEFINE r == RequestOf[Current]
  <1>1. PICK trace \in {Invocations[taken'], NoTrace} :
          /\ batch' = B!AddTelemetry(batch, r, Payload(trace), TRUE)
          /\ accepted' = IF trace # NoTrace /\ B!Accepts(batch, r)
                         THEN accepted \cup {[trace |-> trace, to |-> r]} ELSE accepted
    BY DEF AddAgentTelemetry
  <1>2. UNCHANGED <<shipped, unstamped>>
    BY DEF AddAgentTelemetry, shipVars
  <1>3. IsBatch(batch) /\ LinesTyped
    BY DEF ShippingInv
  <1>4. Invocations[taken'] \in Ids
    BY InvocationAssumption DEF AddAgentTelemetry
  <1>5. /\ IsBatch(batch')
        /\ batch'.storeTraceID =
             IF B!Accepts(batch, r) /\ trace # NoTrace
             THEN B!Put(batch.storeTraceID, r, trace) ELSE batch.storeTraceID
    <2> DEFINE telemetry == Payload(trace)
    <2>1. telemetry.trace = trace
      BY DEF Payload
    <2>2. batch' = B!AddTelemetry(batch, r, telemetry, TRUE)
      BY <1>1
    <2> HIDE DEF telemetry, r
    <2>3. /\ IsBatch(B!AddTelemetry(batch, r, telemetry, TRUE))
          /\ B!AddTelemetry(batch, r, telemetry, TRUE).storeTraceID =
               IF B!Accepts(batch, r) /\ telemetry.trace # NoTrace
               THEN B!Put(batch.storeTraceID, r, telemetry.trace)
               ELSE batch.storeTraceID
      BY <1>3, AddTelemetryStores
    <2> QED
      BY <2>1, <2>2, <2>3
  <1> HIDE DEF r
  <1>6. CASE B!Accepts(batch, r) /\ trace # NoTrace
    <2>1. /\ trace \in Ids /\ accepted' = accepted \cup {[trace |-> trace, to |-> r]}
          /\ batch'.storeTraceID = B!Put(batch.storeTraceID, r, trace)
      BY <1>1, <1>4, <1>5, <1>6
    <2>2. /\ DOMAIN batch'.storeTraceID = DOMAIN batch.storeTraceID \cup {r}
          /\ \A k \in DOMAIN batch'.storeTraceID :
               batch'.storeTraceID[k] = IF k = r THEN trace ELSE batch.storeTraceID[k]
      BY <2>1 DEF B!Put
    <2>3. StoreOfRequests'
      BY <1>6, <2>1, <2>2 DEF ShippingInv, StoreOfRequests
    <2>4. AcceptedIsStored'
      BY <2>1, <2>2 DEF ShippingInv, AcceptedIsStored
    <2>5. TraceOfAttributedRequest' /\ LinesTyped'
      BY <1>2, <2>1 DEF ShippingInv, TraceOfAttributedRequest, LinesTyped
    <2> QED
      BY <1>5, <2>3, <2>4, <2>5 DEF ShippingInv
  <1>7. CASE ~(B!Accepts(batch, r) /\ trace # NoTrace)
    BY <1>1, <1>2, <1>3, <1>5, <1>7, StoreKept DEF LinesTyped
  <1> QED
    BY <1>6, <1>7

\* What StampLine makes of the line, and where it puts it.
LEMMA StampLineIs ==
  ASSUME ShippingInv, StampLine
  PROVE  LET line == Head(unstamped)
             stamped == [of |-> line.of, id |-> line.id,
                         trace |-> B!RetrieveTraceID(batch, line.id)]
         IN  /\ UNCHANGED <<batch, accepted>>
             /\ stamped \in Stamped /\ unstamped # << >> /\ unstamped' = Tail(unstamped)
             /\ DOMAIN shipped' = DOMAIN shipped \cup {Len(shipped')}
             /\ shipped' \in Seq(Stamped) /\ shipped'[Len(shipped')] = stamped
             /\ \A n \in DOMAIN shipped :
                  n # Len(shipped') /\ shipped'[n] = shipped[n]
             /\ shipped' # shipped
  <1> DEFINE line == Head(unstamped)
             stamped == [of |-> line.of, id |-> line.id,
                         trace |-> B!RetrieveTraceID(batch, line.id)]
  <1>1. /\ UNCHANGED <<batch, accepted>> /\ shipped' = Append(shipped, stamped)
        /\ unstamped # << >> /\ unstamped' = Tail(unstamped)
    BY DEF StampLine, loopVars, pipeVars
  <1>2. line \in Lines
    BY <1>1 DEF ShippingInv, LinesTyped
  <1>3. B!RetrieveTraceID(batch, line.id) \in Ids \cup {NoId}
    <2>1. \A r \in DOMAIN batch.storeTraceID : batch.storeTraceID[r] \in Ids
      BY DEF ShippingInv, StoreOfRequests, LinesTyped
    <2> QED
      BY <2>1 DEF B!RetrieveTraceID, NoTrace
  <1>4. stamped \in Stamped /\ shipped \in Seq(Stamped)
    BY <1>2, <1>3 DEF Stamped, Lines, ShippingInv, LinesTyped
  <1> HIDE DEF stamped
  <1>5. /\ DOMAIN shipped' = DOMAIN shipped \cup {Len(shipped')}
        /\ shipped' \in Seq(Stamped) /\ shipped'[Len(shipped')] = stamped
        /\ \A n \in DOMAIN shipped : n # Len(shipped') /\ shipped'[n] = shipped[n]
        /\ shipped' # shipped
    BY <1>1, <1>4
  <1> QED
    BY <1>1, <1>4, <1>5 DEF stamped

LEMMA StampLineInv ==
  ASSUME ShippingInv, StampLine
  PROVE  ShippingInv'
  <1> DEFINE line == Head(unstamped)
             stamped == [of |-> line.of, id |-> line.id,
                         trace |-> B!RetrieveTraceID(batch, line.id)]
  <1>1. /\ UNCHANGED <<batch, accepted>> /\ unstamped # << >> /\ unstamped' = Tail(unstamped)
        /\ DOMAIN shipped' = DOMAIN shipped \cup {Len(shipped')}
        /\ shipped' \in Seq(Stamped) /\ shipped'[Len(shipped')] = stamped
        /\ \A n \in DOMAIN shipped : n # Len(shipped') /\ shipped'[n] = shipped[n]
    BY StampLineIs
  <1>2. stamped.trace # NoTrace => [trace |-> stamped.trace, to |-> stamped.id] \in accepted
    BY DEF ShippingInv, StoreOfRequests, B!RetrieveTraceID
  <1> HIDE DEF stamped
  <1>3. TraceOfAttributedRequest'
    BY <1>1, <1>2 DEF ShippingInv, TraceOfAttributedRequest
  <1>4. LinesTyped'
    <2>1. unstamped \in Seq(Lines)
      BY DEF ShippingInv, LinesTyped
    <2>0. unstamped # << >>
      BY <1>1
    <2>2. Tail(unstamped) \in Seq(Lines)
      BY <2>0, <2>1
    <2> QED
      BY <1>1, <2>2 DEF ShippingInv, LinesTyped
  <1> QED
    BY <1>1, <1>3, <1>4 DEF ShippingInv, StoreOfRequests, AcceptedIsStored

LEMMA ShippingNextInv ==
  ASSUME ShippingInv, TypeOK, [ShippingNext]_shippingVars
  PROVE  ShippingInv'
  <1>1. IsBatch(batch) /\ unstamped \in Seq(Lines)
    BY DEF ShippingInv, LinesTyped
  <1>2. CASE ReceiveTelemetry \/ CatchUp
    BY <1>2, AgentTelemetryInv DEF ReceiveTelemetry, CatchUp
  <1>3. CASE NextInvoke
    BY <1>1, <1>3, OthersKeepStore, StoreKept DEF NextInvoke, shipVars, pipeVars
  <1>4. CASE PollReport
    <2>1. IsBatch(batch') /\ batch'.storeTraceID = batch.storeTraceID
      BY <1>1, <1>4, AddTelemetryStores DEF PollReport
    <2> QED
      BY <1>1, <1>4, <2>1, StoreKept DEF PollReport, shipVars, pipeVars
  <1>5. CASE EndPoll
    <2>1. batch' = batch \/ ShipHarvest
      BY <1>5 DEF EndPoll
    <2>2. IsBatch(batch') /\ batch'.storeTraceID = batch.storeTraceID
      BY <1>1, <2>1, OthersKeepStore DEF ShipHarvest
    <2> QED
      BY <1>1, <1>5, <2>2, StoreKept DEF EndPoll, shipVars, pipeVars
  <1>6. CASE FinalHarvest
    BY <1>1, <1>6, OthersKeepStore, StoreKept DEF FinalHarvest, B!Close, shipVars, pipeVars
  <1>7. CASE StampLine
    BY <1>7, StampLineInv
  <1>8. CASE UNCHANGED <<batch, accepted, shipped>> /\ unstamped' \in Seq(Lines)
    BY <1>1, <1>8, StoreKept
  <1>9. CASE TimeLimitReached \/ BeginPoll \/ CloseServer
    BY <1>1, <1>8, <1>9 DEF TimeLimitReached, BeginPoll, CloseServer, loopVars, pipeVars, shipVars
  <1>10. CASE LogShipLoop
    BY <1>1, <1>7, <1>8, <1>10 DEF LogShipLoop, loopVars, pipeVars, shipVars
  <1>11. CASE \E h \in Posts : Post(h) \/ HandlePost(h)
    <2>1. \A h \in Posts : functionLogs[h] \in Seq(Lines)
      BY DEF TypeOK
    <2> QED
      BY <1>1, <1>8, <1>11, <2>1 DEF Post, HandlePost, loopVars, pipeVars, shipVars
  <1>12. CASE UNCHANGED shippingVars
    BY <1>1, <1>8, <1>12 DEF shippingVars, loopVars, pipeVars, shipVars
  <1> QED
    BY <1>2, <1>3, <1>4, <1>5, <1>6, <1>9, <1>10, <1>11, <1>12
       DEF ShippingNext, Loop

LEMMA ShippingInvariance == ShippingSpec => []ShippingInv
  <1>1. ShippingInv /\ TypeOK /\ [ShippingNext]_shippingVars => ShippingInv'
    BY ShippingNextInv
  <1>2. ShippingSpec => []TypeOK
    BY ImplementsLogServer, TypeCorrect, PTL
  <1> QED
    BY <1>1, <1>2, ShippingInitInv, PTL DEF ShippingSpec

-----------------------------------------------------------------------------
\* buildLogPayloads gives a line only a trace id of a payload that the batch has
\* accepted for the request to which the log server has attributed the line.
THEOREM TraceOfAttributed == ShippingSpec => []TraceOfAttributedRequest
  <1>1. ShippingInv => TraceOfAttributedRequest
    BY DEF ShippingInv
  <1> QED
    BY <1>1, ShippingInvariance, PTL

\* The lines sent so far were attributed to the request that wrote them.
ShippedWereAttributed ==
  \A n \in DOMAIN shipped : shipped[n].of # NoId => shipped[n].id = RequestOf[shipped[n].of]

\* No poll has lost the race: the payloads were accepted for their own requests.
PayloadsWereAttributed == \A e \in accepted : RequestOf[e.trace] = e.to

\* The trace id of a line is that of an invocation under the request id of the one
\* that wrote it.
TraceIsOwn ==
  \A n \in DOMAIN shipped :
    shipped[n].of # NoId /\ shipped[n].trace # NoTrace =>
      RequestOf[shipped[n].trace] = RequestOf[shipped[n].of]

\* There are two ways to a wrong trace id, and no third: the line is attributed to
\* another request than that which wrote it, or a payload was accepted for another
\* request than that which produced it (MainLoop!MisattributedOnlyByRace).
THEOREM OwnTraceIfAttributed ==
  ShippingSpec => [](ShippedWereAttributed =>
                       TraceOfOwnRequest /\ (PayloadsWereAttributed => TraceIsOwn))
  <1>1. ASSUME ShippingInv, ShippedWereAttributed
        PROVE  TraceOfOwnRequest /\ (PayloadsWereAttributed => TraceIsOwn)
    <2>1. \A n \in DOMAIN shipped : shipped[n].of # NoId /\ shipped[n].trace # NoTrace =>
            [trace |-> shipped[n].trace, to |-> RequestOf[shipped[n].of]] \in accepted
      BY <1>1 DEF ShippingInv, TraceOfAttributedRequest, ShippedWereAttributed
    <2> QED
      BY <2>1 DEF TraceOfOwnRequest, PayloadsWereAttributed, TraceIsOwn
  <1> QED
    BY <1>1, ShippingInvariance, PTL

\* A line stamped after the batch has accepted a payload with a trace id for the
\* request it is attributed to is sent with one, whatever has been harvested,
\* retried or added since.
StampedOnceTraced ==
  shipped' # shipped /\ (\E e \in accepted : e.to = LineSent.id)
  => LineSent.trace # NoTrace

LEMMA OnlyStampShips ==
  ASSUME [ShippingNext]_shippingVars, shipped' # shipped
  PROVE  StampLine
  BY DEF ShippingNext, Loop, NextInvoke, ReceiveTelemetry, CatchUp, AddAgentTelemetry,
     TimeLimitReached, BeginPoll, PollReport, EndPoll, CloseServer, FinalHarvest,
     LogShipLoop, Post, HandlePost, shipVars, shippingVars

THEOREM TracedNeverBlank == ShippingSpec => [][StampedOnceTraced]_shippingVars
  <1> USE DEF LineSent
  <1>1. ASSUME ShippingInv, [ShippingNext]_shippingVars PROVE StampedOnceTraced
    <2> SUFFICES ASSUME StampLine PROVE StampedOnceTraced
      BY <1>1, OnlyStampShips DEF StampedOnceTraced
    <2> DEFINE stamped == [of |-> Head(unstamped).of, id |-> Head(unstamped).id,
                           trace |-> B!RetrieveTraceID(batch, Head(unstamped).id)]
    <2>0. shipped'[Len(shipped')] = stamped
      BY <1>1, StampLineIs
    <2>1. shipped'[Len(shipped')].trace = B!RetrieveTraceID(batch, shipped'[Len(shipped')].id)
      BY <2>0
    <2> HIDE DEF stamped
    <2> QED
      BY <1>1, <2>1 DEF ShippingInv, StampedOnceTraced, StoreOfRequests, AcceptedIsStored,
         B!RetrieveTraceID
  <1> QED
    BY <1>1, ShippingInvariance, PTL DEF ShippingSpec

-----------------------------------------------------------------------------
(* Attribution, when the platform awaits each reply and its stream is in order.
   The log server by itself is enough here: whoever polls and closes. *)

\* The handlers take their turns, and once one is refused so are those after it:
\* the events that have been processed are the first of the stream.
Untouched == {"idle", "entered", "refusing", "refused"}
InTurn ==
  /\ delivery \in Deliveries
  /\ \A h \in Posts : pc[h] \in Untouched => body[h] = delivery[h]
  /\ \A h \in Posts : pc[h] \in {"refusing", "refused"} => isShuttingDown
  /\ \A g, h \in Posts : g < h /\ pc[h] # "idle" => pc[g] \in {"refused", "replied"}
  /\ \A g, h \in Posts : g < h /\ pc[h] \notin Untouched => pc[g] = "replied"

\* lastRequestId is that of the last platform.start among them.
LastOfDone(g, j) ==
  /\ IsStart(delivery[g][j])
  /\ \A f \in Posts : \A k \in 1..Done(f) : IsStart(delivery[f][k]) => ~Precedes(g, j, f, k)
LastStart ==
  \A g \in Posts : \A j \in 1..Done(g) :
    LastOfDone(g, j) => lastRequestId = delivery[g][j].id

Exact == InTurn /\ LastStart /\ AttributionExact

\* Positions of the stream are in one order.
LEMMA PostsAreNumbers == Posts \subseteq Nat
  BY PostAssumption DEF Posts

\* What is processed, in numbers.
LEMMA DoneIs ==
  ASSUME TypeOK, Whole, InTurn, NEW h \in Posts
  PROVE  /\ Done(h) \in Nat /\ Done(h) <= Len(delivery[h]) /\ Len(delivery[h]) \in Nat
         /\ DOMAIN delivery[h] = 1..Len(delivery[h])
         /\ pc[h] \in Untouched => Done(h) = 0
         /\ pc[h] = "replied" => Done(h) = Len(delivery[h])
         /\ body[h] # << >> => Done(h) < Len(delivery[h])
                              /\ NextEvent(h) = delivery[h][Done(h) + 1]
  <1> DEFINE sent == delivery[h]
             rest == body[h]
  <1>1. /\ sent \in Seq(Events) /\ rest \in Seq(Events) /\ Len(rest) <= Len(sent)
        /\ \A i \in 1..Len(rest) : rest[i] = sent[Done(h) + i]
        /\ pc[h] \in Untouched => rest = sent
        /\ pc[h] = "replied" => rest = << >>
    BY DEF TypeOK, Whole, CollectedSoFar, InTurn
  <1>2. Done(h) = Len(sent) - Len(rest)
    BY DEF Done
  <1>3. NextEvent(h) = Head(rest)
    BY DEF NextEvent
  <1> HIDE DEF sent, rest
  <1>4. Len(sent) \in Nat /\ Len(rest) \in Nat /\ DOMAIN sent = 1..Len(sent)
    BY <1>1
  <1>5. Done(h) \in Nat /\ Done(h) <= Len(sent)
    BY <1>1, <1>2, <1>4
  <1>6. pc[h] \in Untouched => Done(h) = 0
    BY <1>1, <1>2, <1>4
  <1>7. pc[h] = "replied" => Done(h) = Len(sent)
    BY <1>1, <1>2, <1>4
  <1>8. ASSUME rest # << >>
        PROVE  Done(h) < Len(sent) /\ NextEvent(h) = sent[Done(h) + 1]
    <2>1. Len(rest) >= 1 /\ Head(rest) = rest[1]
      BY <1>1, <1>8
    <2>2. Done(h) < Len(sent)
      BY <1>2, <1>4, <2>1
    <2>3. rest[1] = sent[Done(h) + 1]
      BY <1>1, <1>4, <2>1
    <2> QED
      BY <1>3, <2>1, <2>2, <2>3
  <1> QED
    BY <1>4, <1>5, <1>6, <1>7, <1>8 DEF sent, rest

\* While handler h works, what is processed is what comes before its next event.
LEMMA DoneIsBefore ==
  ASSUME TypeOK, Whole, InTurn, NEW h \in Posts, pc[h] = "working", body[h] # << >>,
         NEW g \in Posts, NEW j \in DOMAIN delivery[g]
  PROVE  j \in 1..Done(g) <=> Precedes(g, j, h, Done(h) + 1)
  <1>0. g \in Nat /\ h \in Nat
    BY PostsAreNumbers
  <1>1. j \in Nat /\ j >= 1 /\ j <= Len(delivery[g]) /\ Done(g) \in Nat /\ Done(h) \in Nat
    BY DoneIs
  <1>2. CASE g < h
    <2>1. pc[g] = "replied"
      BY <1>2 DEF InTurn, Untouched
    <2>2. Done(g) = Len(delivery[g])
      BY <2>1, DoneIs
    <2> QED
      BY <1>1, <1>2, <2>2 DEF Precedes
  <1>3. CASE g = h
    BY <1>0, <1>1, <1>3 DEF Precedes
  <1>4. CASE h < g
    <2>1. pc[g] = "idle"
      BY <1>4 DEF InTurn
    <2>2. Done(g) = 0
      BY <2>1, DoneIs DEF Untouched
    <2> QED
      BY <1>0, <1>1, <1>4, <2>2 DEF Precedes
  <1> QED
    BY <1>0, <1>2, <1>3, <1>4

\* So the next line, when it names no request, is given that of its invocation.
LEMMA NextLineExact ==
  ASSUME StreamInOrder, TypeOK, Whole, Exact,
         NEW h \in Posts, pc[h] = "working", body[h] # << >>,
         IsLine(NextEvent(h)), NextEvent(h).of # NoId
  PROVE  LineRequestId(NextEvent(h)) = RequestOf[NextEvent(h).of]
  <1> DEFINE i == Done(h) + 1
             event == NextEvent(h)
  <1>0. InTurn /\ LastStart
    BY DEF Exact
  <1>1. i \in DOMAIN delivery[h] /\ event = delivery[h][i] /\ delivery \in Deliveries
    BY <1>0, DoneIs DEF InTurn
  <1> HIDE DEF i, event
  <1>2. IF NamesRequest(event) THEN event.id = RequestOf[event.of]
        ELSE \E g \in Posts : \E j \in DOMAIN delivery[g] :
               LastStartBefore(delivery, g, j, h, i) /\ delivery[g][j].id = RequestOf[event.of]
    BY <1>1 DEF StreamInOrder, event
  <1>3. CASE NamesRequest(event)
    BY <1>2, <1>3 DEF NamesRequest, LineRequestId, event
  <1>4. CASE ~NamesRequest(event)
    <2>0. PICK g \in Posts : \E j \in DOMAIN delivery[g] :
            LastStartBefore(delivery, g, j, h, i) /\ delivery[g][j].id = RequestOf[event.of]
      BY <1>2, <1>4
    <2>1. PICK j \in DOMAIN delivery[g] :
            LastStartBefore(delivery, g, j, h, i) /\ delivery[g][j].id = RequestOf[event.of]
      BY <2>0
    <2>2. j \in 1..Done(g)
      BY <1>0, <2>1, DoneIsBefore DEF LastStartBefore, i
    <2>3. ASSUME NEW f \in Posts, NEW k \in 1..Done(f), IsStart(delivery[f][k])
          PROVE  ~Precedes(g, j, f, k)
      <3>1. k \in DOMAIN delivery[f]
        BY <1>0, DoneIs
      <3>2. Precedes(f, k, h, i)
        BY <1>0, <3>1, DoneIsBefore DEF i
      <3> QED
        BY <2>1, <2>3, <3>1, <3>2 DEF LastStartBefore
    <2>4. lastRequestId = delivery[g][j].id
      BY <1>0, <2>1, <2>2, <2>3 DEF LastStart, LastOfDone, LastStartBefore
    <2>5. LineRequestId(event) = lastRequestId
      BY <1>4 DEF LineRequestId, NamesRequest
    <2> QED
      BY <2>1, <2>4, <2>5 DEF event
  <1> QED
    BY <1>3, <1>4

\* Handlers step one at a time, and a flag once set stays set.
LEMMA InTurnStep ==
  ASSUME SerialDelivery, TypeOK, TypeOK', InTurn, [Next]_vars
  PROVE  InTurn'
  <1> USE DEF InTurn, Untouched, TypeOK, Goto, closeVars, historyVars
  <1>0. Posts \subseteq Nat
    BY PostsAreNumbers
  <1>1. ASSUME NEW h \in Posts, Enter(h) PROVE InTurn'
    <2>1. \A g \in Posts : g < h => pc[g] \in {"refused", "replied"}
      <3>1. \A g \in 1..(h - 1) : pc[g] \in {"refused", "replied"}
        BY <1>1 DEF Enter
      <3>2. \A g \in Posts : g < h => g \in 1..(h - 1)
        BY <1>0 DEF Posts
      <3> QED
        BY <3>1, <3>2
    <2>2. pc[h] = "idle" /\ pc' = [pc EXCEPT ![h] = "entered"]
      BY <1>1 DEF Enter
    <2>3. UNCHANGED <<body, delivery, isShuttingDown>>
      BY <1>1 DEF Enter
    <2> QED
      BY <2>1, <2>2, <2>3
  <1>2. ASSUME NEW h \in Posts, ReadFlag(h) PROVE InTurn'
    <2>1. \A g \in Posts : g < h => pc[g] = "replied" \/ isShuttingDown
      BY <1>2 DEF ReadFlag
    <2>2. /\ pc[h] = "entered"
          /\ pc' = [pc EXCEPT ![h] = IF isShuttingDown THEN "refusing" ELSE "working"]
          /\ UNCHANGED <<body, delivery, isShuttingDown>>
      BY <1>2 DEF ReadFlag
    <2> QED
      BY <2>1, <2>2
  <1>3. ASSUME NEW h \in Posts,
               HandleStart(h) \/ HandleReport(h) \/ HandleLine(h) \/ HandleLogsDropped(h)
        PROVE  InTurn'
    <2>1. /\ pc[h] = "working" /\ body' = [body EXCEPT ![h] = Tail(body[h])]
          /\ UNCHANGED <<pc, delivery, isShuttingDown>>
      BY <1>3 DEF HandleStart, HandleReport, HandleLine, HandleLogsDropped, HasEvent, Consume
    <2> QED
      BY <2>1
  <1>4. ASSUME NEW h \in Posts, EventsDone(h) \/ SendFunctionLogs(h) \/ Return(h)
        PROVE  InTurn'
    <2>1. PICK s : /\ pc' = [pc EXCEPT ![h] = s]
                   /\ \/ pc[h] = "working" /\ s \in {"sending", "replying"}
                      \/ pc[h] = "sending" /\ s = "replying"
                      \/ pc[h] = "refusing" /\ s = "refused"
                      \/ pc[h] = "replying" /\ s = "replied"
      BY <1>4 DEF EventsDone, SendFunctionLogs, Return
    <2>2. UNCHANGED <<body, delivery, isShuttingDown>>
      BY <1>4 DEF EventsDone, SendFunctionLogs, Return
    <2> QED
      BY <2>1, <2>2
  <1>5. CASE Poll \/ Close \/ Shipper \/ UNCHANGED vars
    <2>1. /\ UNCHANGED <<pc, body, delivery>> /\ (isShuttingDown => isShuttingDown')
      BY <1>5 DEF vars, Poll, StartPoll, PollOne, PollEmpty, Close, CloseSetsFlag,
         ShutdownReturns, WaitReturns, ClosePlatformChan, CloseFunctionChan, MainGoto,
         Shipper, ShipmentDone, SeeClosedChan, EntityGuidKnown, ContextDone, ShipperGoto,
         handlerVars
    <2> QED
      BY <2>1
  <1> QED
    BY <1>1, <1>2, <1>3, <1>4, <1>5 DEF Next, Handler

\* A platform.start that is processed is the last one.
LEMMA LastStartEvent ==
  ASSUME TypeOK, TypeOK', Whole, InTurn, LastStart, NEW h \in Posts,
         HandleStart(h) \/ HandleReport(h) \/ HandleLine(h) \/ HandleLogsDropped(h)
  PROVE  LastStart'
  <1> DEFINE n == Done(h) + 1
  <1>1. /\ pc[h] = "working" /\ body[h] # << >> /\ UNCHANGED delivery
        /\ body' = [body EXCEPT ![h] = Tail(body[h])]
    BY DEF HandleStart, HandleReport, HandleLine, HandleLogsDropped, HasEvent, Consume,
       historyVars
  <1>2. lastRequestId' = IF IsStart(delivery[h][n]) THEN delivery[h][n].id ELSE lastRequestId
    <2>1. NextEvent(h) = delivery[h][n]
      BY <1>1, DoneIs
    <2> HIDE DEF n
    <2> QED
      BY <2>1 DEF HandleStart, HandleReport, HandleLine, HandleLogsDropped, HasEvent, IsStart
  <1>3. Done(h) \in Nat /\ Done(h)' = n /\ \A g \in Posts : g # h => Done(g)' = Done(g)
    <2> DEFINE sent == delivery[h]
               rest == body[h]
    <2>1. rest \in Seq(Events) /\ sent \in Seq(Events) /\ rest # << >>
      BY <1>1 DEF TypeOK
    <2>2. body'[h] = Tail(rest) /\ \A g \in Posts : g # h => body'[g] = body[g]
      BY <1>1 DEF TypeOK
    <2>3. Done(h) = Len(sent) - Len(rest) /\ Done(h)' = Len(sent) - Len(Tail(rest))
      BY <1>1, <2>2 DEF Done
    <2> HIDE DEF sent, rest
    <2>4. Len(Tail(rest)) = Len(rest) - 1 /\ Len(rest) \in Nat /\ Len(sent) \in Nat
      BY <2>1
    <2>5. Done(h)' = Done(h) + 1
      BY <2>1, <2>3, <2>4
    <2>6. \A g \in Posts : g # h => Done(g)' = Done(g)
      BY <1>1, <2>2 DEF Done
    <2> QED
      BY <2>5, <2>6, DoneIs
  <1>4. SUFFICES ASSUME NEW g \in Posts, NEW j \in 1..Done(g)', LastOfDone(g, j)'
                 PROVE  lastRequestId' = delivery[g][j].id
    BY <1>1 DEF LastStart
  <1>5. IsStart(delivery[g][j]) /\ \A f \in Posts : \A k \in 1..Done(f)' :
          IsStart(delivery[f][k]) => ~Precedes(g, j, f, k)
    BY <1>1, <1>4 DEF LastOfDone, IsStart, Precedes
  <1>6. CASE g = h /\ j = n
    BY <1>2, <1>5, <1>6
  <1>7. CASE ~(g = h /\ j = n)
    <2>1. j \in 1..Done(g)
      BY <1>3, <1>4, <1>7
    <2>2. Precedes(g, j, h, n)
      <3>1. j \in DOMAIN delivery[g]
        BY <2>1, DoneIs
      <3> QED
        BY <1>1, <2>1, <3>1, DoneIsBefore
    <2>3. ~IsStart(delivery[h][n])
      <3>1. n \in 1..Done(h)'
        BY <1>3
      <3> QED
        BY <1>5, <2>2, <3>1
    <2>4. \A f \in Posts : \A k \in 1..Done(f) : k \in 1..Done(f)'
      BY <1>3
    <2>5. LastOfDone(g, j)
      BY <1>5, <2>4 DEF LastOfDone
    <2> QED
      BY <1>2, <2>1, <2>3, <2>5 DEF LastStart
  <1> QED
    BY <1>6, <1>7

LEMMA ExactInit == Init => Exact
  <1> SUFFICES ASSUME Init PROVE Exact
    OBVIOUS
  <1>1. InTurn
    BY PostsAreNumbers DEF Init, InTurn, Untouched
  <1>2. LastStart
    <2>1. TypeOK /\ Whole
      BY InitInv, WholeInit DEF Inv
    <2>2. \A g \in Posts : Done(g) = 0
      BY <1>1, <2>1, DoneIs DEF Init, Untouched
    <2> QED
      BY <2>2 DEF LastStart
  <1>3. AttributionExact
    BY DEF Init, AttributionExact
  <1> QED
    BY <1>1, <1>2, <1>3 DEF Exact

LEMMA ExactNext ==
  ASSUME SerialDelivery, StreamInOrder, TypeOK, TypeOK', Whole, Exact, [Next]_vars
  PROVE  Exact'
  <1>0. InTurn /\ LastStart /\ AttributionExact
    BY DEF Exact
  <1>1. InTurn'
    BY <1>0, InTurnStep
  <1>2. CASE \E h \in Posts :
          HandleStart(h) \/ HandleReport(h) \/ HandleLine(h) \/ HandleLogsDropped(h)
    <2>1. PICK h \in Posts :
            HandleStart(h) \/ HandleReport(h) \/ HandleLine(h) \/ HandleLogsDropped(h)
      BY <1>2
    <2>2. LastStart'
      BY <1>0, <2>1, LastStartEvent
    <2>3. CASE HandleLine(h)
      <3> DEFINE event == NextEvent(h)
                 line == [id |-> LineRequestId(event), of |-> event.of, post |-> h]
      <3>1. /\ pc[h] = "working" /\ body[h] # << >> /\ IsLine(event)
            /\ functionLogs' = [functionLogs EXCEPT ![h] = Append(@, line)]
        BY <2>3 DEF HandleLine, HasEvent, IsLine
      <3>2. line.of # NoId => line.id = RequestOf[line.of]
        BY <3>1, NextLineExact
      <3>3. line \in Lines
        <4>1. event \in Events
          BY <3>1, HeadIsEvent
        <4> QED
          BY <4>1 DEF TypeOK, Lines, Events, LineRequestId
      <3> HIDE DEF line
      <3>4. functionLogs[h] \in Seq(Lines) /\ functionLogs'[h] = Append(functionLogs[h], line)
            /\ \A g \in Posts : g # h => functionLogs'[g] = functionLogs[g]
        BY <3>1 DEF TypeOK
      <3>5. \A i \in DOMAIN functionLogs'[h] :
              \/ functionLogs'[h][i] = line
              \/ i \in DOMAIN functionLogs[h] /\ functionLogs'[h][i] = functionLogs[h][i]
        <4> DEFINE s == functionLogs[h]
                   u == functionLogs'[h]
        <4>1. s \in Seq(Lines) /\ u = Append(s, line)
          BY <3>4
        <4> HIDE DEF s, u
        <4>2. \A i \in DOMAIN u : u[i] = line \/ (i \in DOMAIN s /\ u[i] = s[i])
          BY <3>3, <4>1
        <4> QED
          BY <4>2 DEF s, u
      <3>6. AttributionExact'
        BY <1>0, <3>2, <3>4, <3>5, SMTT(30) DEF AttributionExact
      <3> QED
        BY <1>1, <2>2, <3>6 DEF Exact
    <2>4. CASE ~HandleLine(h)
      <3>1. UNCHANGED functionLogs
        BY <2>1, <2>4 DEF HandleStart, HandleReport, HandleLogsDropped
      <3>2. AttributionExact'
        BY <1>0, <3>1 DEF AttributionExact
      <3> QED
        BY <1>1, <2>2, <3>2 DEF Exact
    <2> QED
      BY <2>3, <2>4
  <1>3. CASE ~\E h \in Posts :
          HandleStart(h) \/ HandleReport(h) \/ HandleLine(h) \/ HandleLogsDropped(h)
    <2>1. UNCHANGED <<body, functionLogs, lastRequestId, delivery>>
      <3>1. CASE \E h \in Posts : Enter(h) \/ ReadFlag(h) \/ EventsDone(h)
                                   \/ SendFunctionLogs(h) \/ Return(h)
        BY <3>1 DEF Enter, ReadFlag, EventsDone, SendFunctionLogs, Return, historyVars
      <3>2. CASE Poll \/ Close \/ Shipper \/ UNCHANGED vars
        BY <3>2 DEF vars, Poll, StartPoll, PollOne, PollEmpty, Close, CloseSetsFlag,
           ShutdownReturns, WaitReturns, ClosePlatformChan, CloseFunctionChan, MainGoto,
           Shipper, ShipmentDone, SeeClosedChan, EntityGuidKnown, ContextDone, ShipperGoto,
           handlerVars, historyVars
      <3> QED
        BY <1>3, <3>1, <3>2 DEF Next, Handler
    <2>2. \A g \in Posts : Done(g)' = Done(g)
      BY <2>1 DEF Done
    <2>3. LastStart'
      BY <1>0, <2>1, <2>2 DEF LastStart, LastOfDone, IsStart, Precedes
    <2>4. AttributionExact'
      BY <1>0, <2>1 DEF AttributionExact
    <2> QED
      BY <1>1, <2>3, <2>4 DEF Exact
  <1> QED
    BY <1>2, <1>3

\* However a stream in order is cut into POSTs, however the handlers, the polls,
\* Close and the shipping goroutine interleave: a line is attributed to the request
\* of the invocation that wrote it.
THEOREM Attribution ==
  ASSUME SerialDelivery, StreamInOrder
  PROVE  ShippingSpec => []AttributionExact
  <1>1. Inv /\ Inv' /\ Whole /\ Exact /\ [Next]_vars => Exact'
    BY ExactNext DEF Inv
  <1>2. Spec => []Exact
    BY <1>1, ExactInit, Invariance, WholeInvariance, PTL DEF Spec
  <1>3. Exact => AttributionExact
    BY DEF Exact
  <1> QED
    BY <1>2, <1>3, ImplementsLogServer, PTL

-----------------------------------------------------------------------------
(* Trace ids, when attribution is exact. *)

Attributed(line) == line.of # NoId => line.id = RequestOf[line.of]

\* The lines being sent, and those that have been sent, are attributed.
LinesAttributed ==
  /\ unstamped \in Seq(Lines) /\ \A i \in DOMAIN unstamped : Attributed(unstamped[i])
  /\ ShippedWereAttributed

LEMMA LinesAttributedInit == ShippingInit => LinesAttributed
  BY DEF ShippingInit, LinesAttributed, ShippedWereAttributed

\* What is left to send after the first line.
LEMMA RestAttributed ==
  ASSUME NEW s \in Seq(Lines), s # << >>, \A i \in DOMAIN s : Attributed(s[i])
  PROVE  /\ Attributed(Head(s)) /\ Tail(s) \in Seq(Lines)
         /\ \A i \in DOMAIN Tail(s) : Attributed(Tail(s)[i])
  <1>1. Head(s) = s[1] /\ 1 \in DOMAIN s
    OBVIOUS
  <1>2. ASSUME NEW i \in DOMAIN Tail(s) PROVE Attributed(Tail(s)[i])
    <2>1. i + 1 \in DOMAIN s /\ Tail(s)[i] = s[i + 1]
      OBVIOUS
    <2> QED
      BY <2>1
  <1> QED
    BY <1>1, <1>2

LEMMA LinesAttributedNext ==
  ASSUME TypeOK, AttributionExact, ShippingInv, LinesAttributed,
         [ShippingNext]_shippingVars
  PROVE  LinesAttributed'
  <1> USE DEF LinesAttributed, ShippedWereAttributed
  <1>1. CASE StampLine
    <2> DEFINE line == Head(unstamped)
               stamped == [of |-> line.of, id |-> line.id,
                           trace |-> B!RetrieveTraceID(batch, line.id)]
    <2>1. /\ unstamped # << >> /\ unstamped' = Tail(unstamped)
          /\ DOMAIN shipped' = DOMAIN shipped \cup {Len(shipped')}
          /\ shipped'[Len(shipped')] = stamped
          /\ \A n \in DOMAIN shipped : shipped'[n] = shipped[n]
      BY <1>1, StampLineIs
    <2>2. /\ Attributed(line) /\ Tail(unstamped) \in Seq(Lines)
          /\ \A i \in DOMAIN Tail(unstamped) : Attributed(Tail(unstamped)[i])
      BY <2>1, RestAttributed
    <2>3. stamped.of # NoId => stamped.id = RequestOf[stamped.of]
      BY <2>2 DEF Attributed
    <2> HIDE DEF line, stamped
    <2>4. ShippedWereAttributed'
      BY <2>1, <2>3
    <2>5. \A i \in DOMAIN unstamped' : Attributed(unstamped'[i])
      BY <2>1, <2>2
    <2> QED
      BY <2>1, <2>2, <2>4, <2>5 DEF Attributed
  <1>2. ASSUME NEW h \in Posts, HandlePost(h) PROVE LinesAttributed'
    <2>1. functionLogs[h] \in Seq(Lines)
          /\ \A i \in DOMAIN functionLogs[h] : Attributed(functionLogs[h][i])
      BY DEF TypeOK, AttributionExact, Attributed
    <2>2. unstamped' \in {functionLogs[h], unstamped} /\ UNCHANGED shipped
      BY <1>2 DEF HandlePost
    <2> QED
      BY <2>1, <2>2 DEF Attributed
  <1>3. CASE UNCHANGED <<unstamped, shipped>>
    BY <1>3 DEF Attributed
  <1>4. CASE Loop \/ UNCHANGED shippingVars
    BY <1>3, <1>4 DEF Loop, NextInvoke, ReceiveTelemetry, CatchUp, AddAgentTelemetry,
       TimeLimitReached, BeginPoll, PollReport, EndPoll, CloseServer, FinalHarvest,
       shipVars, shippingVars
  <1>5. CASE LogShipLoop
    BY <1>1, <1>3, <1>5 DEF LogShipLoop, shipVars
  <1>6. CASE \E h \in Posts : Post(h)
    BY <1>3, <1>6 DEF Post, shipVars
  <1> QED
    BY <1>2, <1>4, <1>5, <1>6 DEF ShippingNext

LEMMA LinesAttributedAlways ==
  ASSUME SerialDelivery, StreamInOrder
  PROVE  ShippingSpec => []LinesAttributed
  <1>1. TypeOK /\ AttributionExact /\ ShippingInv /\ LinesAttributed
          /\ [ShippingNext]_shippingVars => LinesAttributed'
    BY LinesAttributedNext
  <1>2. ShippingSpec => []TypeOK
    BY ImplementsLogServer, TypeCorrect, PTL
  <1>3. ShippingSpec => []AttributionExact
    BY Attribution
  <1> QED
    BY <1>1, <1>2, <1>3, ShippingInvariance, LinesAttributedInit, PTL DEF ShippingSpec

\* buildLogPayloads sends a line only with a trace id of a payload that the batch
\* accepted for the request of the invocation that wrote the line, whatever the
\* event loop does to the batch between the lines.
THEOREM OwnTrace ==
  ASSUME SerialDelivery, StreamInOrder
  PROVE  ShippingSpec => []TraceOfOwnRequest
  <1>1. LinesAttributed => ShippedWereAttributed
    BY DEF LinesAttributed
  <1> QED
    BY <1>1, LinesAttributedAlways, OwnTraceIfAttributed, PTL

\* A line is sent without a trace id only when the batch has accepted none for the
\* request of its invocation yet: harvesting that request does not forget it.
THEOREM BlankWhenEarly ==
  ASSUME SerialDelivery, StreamInOrder
  PROVE  ShippingSpec => BlankOnlyWhenEarly
  <1> DEFINE Early ==
               shipped' # shipped /\ LineSent.of # NoId
                 /\ (\E entry \in accepted : entry.to = RequestOf[LineSent.of])
               => LineSent.trace # NoTrace
  <1>1. ASSUME ShippingInv, LinesAttributed', StampedOnceTraced, [ShippingNext]_shippingVars
        PROVE  Early
    <2> SUFFICES ASSUME shipped' # shipped PROVE Early
      OBVIOUS
    <2>1. Len(shipped') \in DOMAIN shipped'
      BY <1>1, OnlyStampShips, StampLineIs
    <2>2. shipped'[Len(shipped')].of # NoId =>
            shipped'[Len(shipped')].id = RequestOf[shipped'[Len(shipped')].of]
      BY <1>1, <2>1 DEF LinesAttributed, ShippedWereAttributed
    <2> QED
      BY <1>1, <2>2 DEF StampedOnceTraced, LineSent
  <1>2. ShippingSpec => [][Early]_shippingVars
    BY <1>1, LinesAttributedAlways, TracedNeverBlank, ShippingInvariance, PTL DEF ShippingSpec
  <1> QED
    BY <1>2 DEF BlankOnlyWhenEarly
=============================================================================
