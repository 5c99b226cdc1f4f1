------------------------------ MODULE BatchOps ------------------------------
(***************************************************************************)
(* The operations of telemetry.Batch (telemetry/batch.go) as functions of  *)
(* a batch value.  Every method holds Batch.lock from its first line to    *)
(* its return, so each one is a single step of the machines that use this  *)
(* module: Batch.tla (the batch alone, under any caller) and MainLoop.tla  *)
(* (the batch under the extension's event loop).                           *)
(*                                                                         *)
(* An instant is a natural number; 0 is epochStart, and the clock of a     *)
(* running extension is decades past it.  A telemetry payload is a record  *)
(* with the fields id (its identity) and trace (the trace id that          *)
(* ExtractTraceID finds in it, or NoTrace).                                *)
(***************************************************************************)
EXTENDS Integers, Sequences, Functions

CONSTANTS RipeDuration,      \* Batch.ripeDuration, 7s by default
          VeryOldDuration,   \* Batch.veryOldDuration, 12s by default
          CollectTraceIDs,   \* Batch.extractTraceID
          NoTrace            \* the empty trace id

ASSUME DurationAssumption == RipeDuration \in Nat /\ VeryOldDuration \in Nat
ASSUME CollectAssumption == CollectTraceIDs \in BOOLEAN

EpochStart == 0

NoEntries == [k \in {} |-> NoTrace]
Put(map, key, value) ==
  [k \in DOMAIN map \cup {key} |-> IF k = key THEN value ELSE map[k]]
Without(map, keys) == Restrict(map, DOMAIN map \ keys)

NewInvocation(start) ==
  [start |-> start, traceId |-> NoTrace, telemetry |-> << >>]

\* Mutant: ripe with the first payload.
IsRipeTooSoon(inv) == Len(inv.telemetry) >= 1

IsRipe(inv) == Len(inv.telemetry) >= 2
IsEmpty(inv) == Len(inv.telemetry) = 0

NewBatch ==
  [lastHarvest  |-> EpochStart,
   eldest       |-> EpochStart,
   invocations  |-> NoEntries,
   storeTraceID |-> NoEntries]

-----------------------------------------------------------------------------
\* AddInvocation replaces whatever the map holds under requestId.
AddInvocation(b, requestId, start) ==
  [b EXCEPT !.invocations = Put(@, requestId, NewInvocation(start))]

\* Does AddTelemetry find the invocation, or return nil?
Accepts(b, requestId) == requestId \in DOMAIN b.invocations

\* A payload without a trace id never unsets the one an earlier payload set.
FoundTrace(telemetry, isAPMTelemetry) ==
  IF CollectTraceIDs /\ isAPMTelemetry THEN telemetry.trace ELSE NoTrace

\* Mutant: a payload without a trace id is stored as an empty one.
AddTelemetryUnsetsTrace(b, requestId, telemetry, isAPMTelemetry) ==
  IF ~Accepts(b, requestId) THEN b
  ELSE [b EXCEPT
         !.invocations[requestId].telemetry = Append(@, telemetry),
         !.eldest = IF @ = EpochStart THEN b.invocations[requestId].start ELSE @,
         !.storeTraceID = Put(@, requestId, FoundTrace(telemetry, isAPMTelemetry))]

AddTelemetry(b, requestId, telemetry, isAPMTelemetry) ==
  LET trace  == FoundTrace(telemetry, isAPMTelemetry)
      inv    == b.invocations[requestId]
      newInv == [inv EXCEPT !.telemetry = Append(@, telemetry),
                            !.traceId = IF trace # NoTrace THEN trace ELSE @]
  IN  IF ~Accepts(b, requestId)
      THEN b
      ELSE [b EXCEPT
             !.invocations = Put(@, requestId, newInv),
             !.eldest = IF @ = EpochStart THEN inv.start ELSE @,
             !.storeTraceID = IF trace # NoTrace
                              THEN Put(@, requestId, trace) ELSE @]

RetrieveTraceID(b, requestId) ==
  IF requestId \in DOMAIN b.storeTraceID
  THEN b.storeTraceID[requestId] ELSE NoTrace

-----------------------------------------------------------------------------
\* A harvest returns the invocations it took out of the map, and the batch
\* that is left.
Pending(b) == {r \in DOMAIN b.invocations : ~IsEmpty(b.invocations[r])}
Ripe(b) == {r \in DOMAIN b.invocations : IsRipe(b.invocations[r])}

\* Mutant: the trace ids of what is harvested are dropped with it.
AggressiveHarvestForgets(b, now) ==
  [taken |-> Restrict(b.invocations, Pending(b)),
   batch |-> [b EXCEPT !.invocations = Without(@, Pending(b)),
                       !.storeTraceID = Without(@, Pending(b)),
                       !.lastHarvest = IF Pending(b) # {} THEN now ELSE @,
                       !.eldest = IF Pending(b) # {} THEN EpochStart ELSE @]]

\* Mutant: the harvested invocations stay in the map.
AggressiveHarvestKeeps(b, now) ==
  [taken |-> Restrict(b.invocations, Pending(b)),
   batch |-> [b EXCEPT !.lastHarvest = IF Pending(b) # {} THEN now ELSE @,
                       !.eldest = IF Pending(b) # {} THEN EpochStart ELSE @]]

\* Mutant: the invocations that have no telemetry yet are removed as well.
AggressiveHarvestClears(b, now) ==
  [taken |-> Restrict(b.invocations, Pending(b)),
   batch |-> [b EXCEPT !.invocations = NoEntries,
                       !.lastHarvest = IF Pending(b) # {} THEN now ELSE @,
                       !.eldest = IF Pending(b) # {} THEN EpochStart ELSE @]]

AggressiveHarvest(b, now) ==
  [taken |-> Restrict(b.invocations, Pending(b)),
   batch |-> [b EXCEPT
               !.invocations = Without(@, Pending(b)),
               !.lastHarvest = IF Pending(b) # {} THEN now ELSE @,
               !.eldest = IF Pending(b) # {} THEN EpochStart ELSE @]]

Earliest(starts) ==
  IF starts = {} THEN EpochStart
  ELSE CHOOSE t \in starts : \A u \in starts : t <= u

\* Mutant: eldest is reset as in an aggressive harvest.
RipeHarvestResetsEldest(b, now) ==
  [taken |-> Restrict(b.invocations, Ripe(b)),
   batch |-> [b EXCEPT !.invocations = Without(@, Ripe(b)),
                       !.eldest = EpochStart,
                       !.lastHarvest = IF Ripe(b) # {} THEN now ELSE @]]

RipeHarvest(b, now) ==
  LET left == Without(b.invocations, Ripe(b))
  IN  [taken |-> Restrict(b.invocations, Ripe(b)),
       batch |-> [b EXCEPT
                   !.invocations = left,
                   !.eldest = Earliest({left[r].start : r \in DOMAIN left}),
                   !.lastHarvest = IF Ripe(b) # {} THEN now ELSE @]]

NothingHarvested(b) == [taken |-> NoEntries, batch |-> b]

\* Mutant: only the age of the eldest is looked at.
HarvestNeverRots(b, now) ==
  IF b.eldest < now - RipeDuration THEN RipeHarvest(b, now) ELSE NothingHarvested(b)

Harvest(b, now) ==
  IF DOMAIN b.invocations = {} THEN NothingHarvested(b)
  ELSE IF b.lastHarvest < now - VeryOldDuration THEN AggressiveHarvest(b, now)
  ELSE IF b.eldest < now - RipeDuration THEN RipeHarvest(b, now)
  ELSE NothingHarvested(b)

\* Mutant: the last harvest leaves unripe invocations behind.
CloseRipeOnly(b, now) == RipeHarvest(b, now)

Close(b, now) == AggressiveHarvest(b, now)
=============================================================================
