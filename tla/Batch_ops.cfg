\* Two request ids, two trace ids, a ripe age below the rot age as in the
\* defaults (7s and 12s), and a clock that runs past both.
SPECIFICATION Spec
CONSTANTS
  Requests = {r1, r2}
  Traces = {t1, t2}
  NoTrace = NoTrace
  RipeDuration = 1
  VeryOldDuration = 2
  CollectTraceIDs = TRUE
  MaxPayloads = 3
  FirstInstant = 3
  LastInstant = 6
SYMMETRY Symmetry
INVARIANTS TypeOK EachPayloadOnce PendingHasEldest
PROPERTIES HarvestLeavesNoBacklog ImplementsStore
CHECK_DEADLOCK FALSE
