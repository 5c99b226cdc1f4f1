---------------------------- MODULE BatchProofs ----------------------------
(***************************************************************************)
(* Theorems about the telemetry batch under any caller, for any requests,  *)
(* trace ids, durations and number of payloads: its types, that pending    *)
(* telemetry has an eldest, that a harvest leaves no backlog, that every   *)
(* payload is in one place, and that the batch implements the store of     *)
(* TelemetryStore.tla.                                                     *)
(*                                                                         *)
(* The argument: a harvest, whichever it is, splits the map of invocations *)
(* in two (Splits), so that it moves payloads and never copies one.  A new *)
(* payload has a number no place has seen, which keeps the positions of    *)
(* the payloads unique (IdsUnique); hence the counts of EachPayloadOnce    *)
(* are 0 or 1.                                                             *)
(***************************************************************************)
EXTENDS Batch, FiniteSetTheorems, WellFoundedInduction, TLAPS

\* The batch is the record that NewBatch makes.
IsBatch(b) ==
  b = [lastHarvest |-> b.lastHarvest, eldest |-> b.eldest,
       invocations |-> b.invocations, storeTraceID |-> b.storeTraceID]

\* TypeOK for a batch value, and for the variables around it.
BatchTyped(b) ==
  /\ IsBatch(b)
  /\ b.lastHarvest \in Instants \cup {EpochStart}
  /\ b.eldest \in Instants \cup {EpochStart}
  /\ DOMAIN b.invocations \subseteq Requests
  /\ \A r \in DOMAIN b.invocations : b.invocations[r] \in InvocationType
  /\ DOMAIN b.storeTraceID \subseteq Requests
  /\ \A r \in DOMAIN b.storeTraceID : b.storeTraceID[r] \in Traces
HistoryTyped ==
  /\ now \in Instants /\ closed \in BOOLEAN /\ offered \in 0..MaxPayloads
  /\ turnedAway \subseteq Payloads /\ overwritten \subseteq Payloads
  /\ returned \in [Payloads -> Nat]

\* The payload at a position of a map of invocations.
At(invs, r, i) == invs[r].telemetry[i].id

\* Payloads are numbered as they come, and no position is further than that.
IdsBounded(invs, n) ==
  \A r \in DOMAIN invs :
    /\ Len(invs[r].telemetry) <= n
    /\ \A i \in DOMAIN invs[r].telemetry : At(invs, r, i) \in 1..n
IdsUnique(invs) ==
  \A r, s \in DOMAIN invs :
    \A i \in DOMAIN invs[r].telemetry, j \in DOMAIN invs[s].telemetry :
      At(invs, r, i) = At(invs, s, j) => r = s /\ i = j

HasEldest(b) == Pending(b) # {} => b.eldest # EpochStart

\* The places of the payloads offered so far do not overlap.
Held == IdsIn(batch.invocations)
Returned == {p \in Payloads : returned[p] > 0}
Partition ==
  /\ Held \cup turnedAway \cup overwritten \cup Returned = 1..offered
  /\ Held \cap turnedAway = {} /\ Held \cap overwritten = {} /\ Held \cap Returned = {}
  /\ turnedAway \cap overwritten = {} /\ turnedAway \cap Returned = {}
  /\ overwritten \cap Returned = {}
  /\ \A p \in Payloads : returned[p] \in {0, 1}

Inv ==
  /\ BatchTyped(batch) /\ HistoryTyped
  /\ HasEldest(batch)
  /\ IdsBounded(batch.invocations, offered) /\ IdsUnique(batch.invocations)
  /\ Partition

-----------------------------------------------------------------------------
(* Instants and the earliest of them. *)

LEMMA InstantsPositive ==
  /\ Instants \subseteq Nat /\ EpochStart \notin Instants
  /\ RipeDuration \in Nat /\ VeryOldDuration \in Nat
  BY DurationAssumption, ClockAssumption DEF Instants, EpochStart

LEMMA LeastOf ==
  ASSUME NEW S \in SUBSET Nat, S # {}
  PROVE  \E t \in S : \A u \in S : t <= u
  <1>1. PICK t \in S : \A u \in S : <<u, t>> \notin OpToRel(<, Nat)
    BY WFMin, NatLessThanWellFounded, Zenon
  <1>2. \A u \in S : ~(u < t)
    BY <1>1, Zenon DEF OpToRel
  <1> QED
    BY <1>2

\* Earliest of some instants is one of them.
LEMMA EarliestIsOne ==
  ASSUME NEW S \in SUBSET Instants
  PROVE  IF S = {} THEN Earliest(S) = EpochStart ELSE Earliest(S) \in S
  <1>1. CASE S = {}
    BY <1>1 DEF Earliest
  <1>2. CASE S # {}
    <2>1. \E t \in S : \A u \in S : t <= u
      BY <1>2, LeastOf, InstantsPositive
    <2> QED
      BY <1>2, <2>1 DEF Earliest
  <1> QED
    BY <1>1, <1>2

-----------------------------------------------------------------------------
(* What the operations of the batch do to its fields. *)

LEMMA PutIs ==
  ASSUME NEW map, NEW key, NEW value
  PROVE  /\ DOMAIN Put(map, key, value) = DOMAIN map \cup {key}
         /\ \A k \in DOMAIN map \cup {key} :
              Put(map, key, value)[k] = IF k = key THEN value ELSE map[k]
  BY DEF Put

LEMMA AddInvocationIs ==
  ASSUME NEW b, IsBatch(b), NEW r, NEW start
  PROVE  LET c == AddInvocation(b, r, start)
         IN  /\ IsBatch(c) /\ c.lastHarvest = b.lastHarvest /\ c.eldest = b.eldest
             /\ c.storeTraceID = b.storeTraceID
             /\ c.invocations = Put(b.invocations, r, NewInvocation(start))
  BY DEF IsBatch, AddInvocation

\* The invocation AddTelemetry puts in the place of the one it found.
Longer(inv, telemetry, trace) ==
  [inv EXCEPT !.telemetry = Append(@, telemetry),
              !.traceId = IF trace # NoTrace THEN trace ELSE @]

LEMMA LongerIs ==
  ASSUME NEW inv \in InvocationType, NEW telemetry \in Telemetry,
         NEW trace \in Traces \cup {NoTrace}
  PROVE  LET longer == Longer(inv, telemetry, trace)
         IN  /\ longer \in InvocationType /\ longer.start = inv.start
             /\ longer.telemetry = Append(inv.telemetry, telemetry)
  <1> DEFINE sequence == Append(inv.telemetry, telemetry)
             id == IF trace # NoTrace THEN trace ELSE inv.traceId
  <1>1. sequence \in Seq(Telemetry) /\ id \in Traces \cup {NoTrace}
    BY DEF InvocationType
  <1>2. Longer(inv, telemetry, trace) = [inv EXCEPT !.telemetry = sequence, !.traceId = id]
    BY DEF Longer
  <1> HIDE DEF sequence, id
  <1>3. LET longer == Longer(inv, telemetry, trace)
        IN  /\ longer \in InvocationType /\ longer.start = inv.start
            /\ longer.telemetry = sequence
    BY <1>1, <1>2 DEF InvocationType
  <1> QED
    BY <1>3 DEF sequence

LEMMA AddTelemetryIs ==
  ASSUME NEW b, IsBatch(b), NEW r, Accepts(b, r), NEW telemetry, NEW isAPM
  PROVE  LET c == AddTelemetry(b, r, telemetry, isAPM)
             trace == FoundTrace(telemetry, isAPM)
         IN  /\ IsBatch(c) /\ c.lastHarvest = b.lastHarvest
             /\ c.eldest = IF b.eldest = EpochStart THEN b.invocations[r].start
                                                    ELSE b.eldest
             /\ c.storeTraceID = IF trace # NoTrace THEN Put(b.storeTraceID, r, trace)
                                                    ELSE b.storeTraceID
             /\ c.invocations = Put(b.invocations, r,
                                    Longer(b.invocations[r], telemetry, trace))
  <1> DEFINE c == AddTelemetry(b, r, telemetry, isAPM)
             trace == FoundTrace(telemetry, isAPM)
             longer == Longer(b.invocations[r], telemetry, trace)
  <1>1. c = [b EXCEPT
              !.invocations = Put(b.invocations, r, longer),
              !.eldest = IF b.eldest = EpochStart THEN b.invocations[r].start ELSE b.eldest,
              !.storeTraceID = IF trace # NoTrace THEN Put(b.storeTraceID, r, trace)
                                                  ELSE b.storeTraceID]
    BY DEF AddTelemetry, Longer
  <1> HIDE DEF c, trace, longer
  <1>2. /\ IsBatch(c) /\ c.lastHarvest = b.lastHarvest
        /\ c.eldest = IF b.eldest = EpochStart THEN b.invocations[r].start ELSE b.eldest
        /\ c.storeTraceID = IF trace # NoTrace THEN Put(b.storeTraceID, r, trace)
                                               ELSE b.storeTraceID
        /\ c.invocations = Put(b.invocations, r, longer)
    BY <1>1 DEF IsBatch
  <1> QED
    BY <1>2 DEF c, trace, longer

LEMMA FoundTraceType ==
  ASSUME NEW telemetry \in Telemetry, NEW isAPM
  PROVE  FoundTrace(telemetry, isAPM) \in Traces \cup {NoTrace}
  BY DEF FoundTrace, Telemetry

\* A harvest h of b takes the invocations of S and leaves the others as they are.
Splits(b, h, S) ==
  /\ IsBatch(h.batch) /\ h.batch.storeTraceID = b.storeTraceID
  /\ S \subseteq DOMAIN b.invocations /\ DOMAIN h.taken = S
  /\ \A r \in S : h.taken[r] = b.invocations[r]
  /\ DOMAIN h.batch.invocations = DOMAIN b.invocations \ S
  /\ \A r \in DOMAIN b.invocations \ S : h.batch.invocations[r] = b.invocations[r]

LEMMA RestrictIs ==
  ASSUME NEW f, NEW S
  PROVE  DOMAIN Restrict(f, S) = S /\ \A x \in S : Restrict(f, S)[x] = f[x]
  BY DEF Restrict

LEMMA AggressiveHarvestIs ==
  ASSUME NEW b, IsBatch(b), NEW t
  PROVE  LET h == AggressiveHarvest(b, t)
         IN  /\ Splits(b, h, Pending(b))
             /\ h.batch.lastHarvest = IF Pending(b) # {} THEN t ELSE b.lastHarvest
             /\ h.batch.eldest = IF Pending(b) # {} THEN EpochStart ELSE b.eldest
  <1> DEFINE h == AggressiveHarvest(b, t)
             left == Without(b.invocations, Pending(b))
  <1>1. /\ IsBatch(h.batch) /\ h.batch.storeTraceID = b.storeTraceID
        /\ h.taken = Restrict(b.invocations, Pending(b)) /\ h.batch.invocations = left
        /\ h.batch.lastHarvest = IF Pending(b) # {} THEN t ELSE b.lastHarvest
        /\ h.batch.eldest = IF Pending(b) # {} THEN EpochStart ELSE b.eldest
    BY DEF AggressiveHarvest, IsBatch
  <1>2. Pending(b) \subseteq DOMAIN b.invocations
    BY DEF Pending
  <1> QED
    BY <1>1, <1>2, RestrictIs DEF Splits, Without

LEMMA RipeHarvestIs ==
  ASSUME NEW b, IsBatch(b), NEW t
  PROVE  LET h == RipeHarvest(b, t)
             left == h.batch.invocations
         IN  /\ Splits(b, h, Ripe(b))
             /\ h.batch.lastHarvest = IF Ripe(b) # {} THEN t ELSE b.lastHarvest
             /\ h.batch.eldest = Earliest({left[r].start : r \in DOMAIN left})
  <1> DEFINE h == RipeHarvest(b, t)
             left == Without(b.invocations, Ripe(b))
  <1>1. /\ IsBatch(h.batch) /\ h.batch.storeTraceID = b.storeTraceID
        /\ h.taken = Restrict(b.invocations, Ripe(b)) /\ h.batch.invocations = left
        /\ h.batch.lastHarvest = IF Ripe(b) # {} THEN t ELSE b.lastHarvest
        /\ h.batch.eldest = Earliest({left[r].start : r \in DOMAIN left})
    BY DEF RipeHarvest, IsBatch
  <1>2. Ripe(b) \subseteq DOMAIN b.invocations
    BY DEF Ripe
  <1> QED
    BY <1>1, <1>2, RestrictIs DEF Splits, Without

LEMMA NothingHarvestedIs ==
  ASSUME NEW b, IsBatch(b)
  PROVE  Splits(b, NothingHarvested(b), {}) /\ NothingHarvested(b).batch = b
  BY DEF NothingHarvested, NoEntries, Splits

-----------------------------------------------------------------------------
(* Where payloads are. *)

LEMMA IdsInIs ==
  ASSUME NEW invs, NEW p
  PROVE  p \in IdsIn(invs) <=>
           \E r \in DOMAIN invs : \E i \in DOMAIN invs[r].telemetry : At(invs, r, i) = p
  BY DEF IdsIn, IdsOf, Range, At

LEMMA KeptIs ==
  ASSUME NEW r, NEW p
  PROVE  p \in Kept(r) <=>
           /\ r \in DOMAIN batch.invocations
           /\ \E i \in DOMAIN batch.invocations[r].telemetry : At(batch.invocations, r, i) = p
  BY DEF Kept, IdsOf, Range, At

\* With unique positions a payload is counted once if it is there at all.
LEMMA OccurrencesAre ==
  ASSUME NEW invs, NEW n \in 0..MaxPayloads, NEW p,
         \A r \in DOMAIN invs : invs[r] \in InvocationType,
         IdsBounded(invs, n), IdsUnique(invs)
  PROVE  Occurrences(invs, p) = IF p \in IdsIn(invs) THEN 1 ELSE 0
  <1> DEFINE P == {at \in (DOMAIN invs) \X Payloads : Holds(invs, at, p)}
  <1>1. Occurrences(invs, p) = Cardinality(P)
    BY DEF Occurrences
  <1>2. \A r \in DOMAIN invs : DOMAIN invs[r].telemetry \subseteq Payloads
    <2> TAKE r \in DOMAIN invs
    <2>1. invs[r].telemetry \in Seq(Telemetry) /\ Len(invs[r].telemetry) <= n
      BY DEF InvocationType, IdsBounded
    <2> QED
      BY <2>1, ClockAssumption DEF Payloads
  <1>3. CASE p \in IdsIn(invs)
    <2>0. PICK r \in DOMAIN invs : \E i \in DOMAIN invs[r].telemetry : At(invs, r, i) = p
      BY <1>3, IdsInIs
    <2>1. PICK i \in DOMAIN invs[r].telemetry : At(invs, r, i) = p
      BY <2>0
    <2>2. <<r, i>> \in P
      BY <1>2, <2>1 DEF Holds, At
    <2>3. ASSUME NEW at \in P PROVE at = <<r, i>>
      <3>1. /\ at = <<at[1], at[2]>> /\ at[1] \in DOMAIN invs
            /\ at[2] \in DOMAIN invs[at[1]].telemetry /\ At(invs, at[1], at[2]) = p
        BY DEF Holds, At
      <3>2. at[1] = r /\ at[2] = i
        BY <2>1, <3>1 DEF IdsUnique
      <3> QED
        BY <3>1, <3>2
    <2>4. P = {<<r, i>>}
      BY <2>2, <2>3
    <2> QED
      BY <1>1, <1>3, <2>4, FS_Singleton
  <1>4. CASE p \notin IdsIn(invs)
    <2>1. P = {}
      <3> SUFFICES ASSUME NEW at \in P PROVE FALSE
        OBVIOUS
      <3>1. /\ at[1] \in DOMAIN invs
            /\ at[2] \in DOMAIN invs[at[1]].telemetry /\ At(invs, at[1], at[2]) = p
        BY DEF Holds, At
      <3> QED
        BY <1>4, <3>1, IdsInIs
    <2> QED
      BY <1>1, <1>4, <2>1, FS_EmptySet
  <1> QED
    BY <1>3, <1>4

\* A harvest moves payloads from what is held to what is taken.
LEMMA SplitMoves ==
  ASSUME NEW b, NEW h, NEW S, Splits(b, h, S), IdsUnique(b.invocations)
  PROVE  /\ IdsIn(h.taken) \cup IdsIn(h.batch.invocations) = IdsIn(b.invocations)
         /\ IdsIn(h.taken) \cap IdsIn(h.batch.invocations) = {}
  <1>1. \A r \in S : /\ r \in DOMAIN h.taken /\ h.taken[r] = b.invocations[r]
                     /\ r \in DOMAIN b.invocations
    BY DEF Splits
  <1>2. \A r \in DOMAIN b.invocations \ S :
          r \in DOMAIN h.batch.invocations /\ h.batch.invocations[r] = b.invocations[r]
    BY DEF Splits
  <1>3. DOMAIN h.taken = S /\ DOMAIN h.batch.invocations = DOMAIN b.invocations \ S
    BY DEF Splits
  <1>4. ASSUME NEW p
        PROVE  p \in IdsIn(b.invocations)
                 <=> p \in IdsIn(h.taken) \/ p \in IdsIn(h.batch.invocations)
    BY <1>1, <1>2, <1>3, IdsInIs DEF At
  <1>5. ASSUME NEW p, p \in IdsIn(h.taken), p \in IdsIn(h.batch.invocations)
        PROVE  FALSE
    <2>1. \E r \in S : \E i \in DOMAIN b.invocations[r].telemetry : At(b.invocations, r, i) = p
      BY <1>1, <1>3, <1>5, IdsInIs DEF At
    <2>2. \E s \in DOMAIN b.invocations \ S :
            \E j \in DOMAIN b.invocations[s].telemetry : At(b.invocations, s, j) = p
      BY <1>2, <1>3, <1>5, IdsInIs DEF At
    <2> QED
      BY <1>1, <2>1, <2>2 DEF IdsUnique
  <1> QED
    BY <1>4, <1>5

\* The invocations a harvest takes, and those it leaves, keep what is known of all.
LEMMA SplitKeeps ==
  ASSUME BatchTyped(batch), NEW h, NEW S, Splits(batch, h, S), NEW n,
         IdsBounded(batch.invocations, n), IdsUnique(batch.invocations),
         NEW part \in {h.taken, h.batch.invocations}
  PROVE  /\ DOMAIN part \subseteq DOMAIN batch.invocations
         /\ \A r \in DOMAIN part : part[r] = batch.invocations[r]
         /\ \A r \in DOMAIN part : part[r] \in InvocationType
         /\ IdsBounded(part, n) /\ IdsUnique(part)
  <1>1. /\ DOMAIN part \subseteq DOMAIN batch.invocations
        /\ \A r \in DOMAIN part : part[r] = batch.invocations[r]
    BY DEF Splits
  <1>2. \A r \in DOMAIN part : part[r] \in InvocationType
    BY <1>1 DEF BatchTyped
  <1>3. IdsBounded(part, n)
    BY <1>1 DEF IdsBounded, At
  <1>4. IdsUnique(part)
    BY <1>1 DEF IdsUnique, At
  <1> QED
    BY <1>1, <1>2, <1>3, <1>4

\* A step that harvests counts what it takes as returned, and nothing else.
LEMMA HarvestReturns ==
  ASSUME Inv, NEW h, NEW S, Splits(batch, h, S), Return(h.taken)
  PROVE  /\ returned' \in [Payloads -> Nat]
         /\ \A p \in Payloads : returned'[p] \in {0, 1}
         /\ Returned' = Returned \cup IdsIn(h.taken)
         /\ IdsIn(h.taken) \subseteq Held
  <1> DEFINE taken == IdsIn(h.taken)
  <1>1. /\ BatchTyped(batch) /\ HistoryTyped /\ Partition
        /\ IdsBounded(batch.invocations, offered) /\ IdsUnique(batch.invocations)
        /\ offered \in 0..MaxPayloads
    BY DEF Inv, HistoryTyped
  <1>2. \A p \in Payloads : Occurrences(h.taken, p) = IF p \in taken THEN 1 ELSE 0
    BY <1>1, SplitKeeps, OccurrencesAre
  <1>3. taken \subseteq Held
    BY <1>1, SplitMoves DEF Held
  <1>4. \A p \in Payloads : returned'[p] = IF p \in taken THEN returned[p] + 1
                                                      ELSE returned[p]
    BY <1>1, <1>2 DEF Return, HistoryTyped
  <1>5. returned' \in [Payloads -> Nat]
    BY <1>1, <1>2 DEF Return, HistoryTyped
  <1>6. taken \subseteq Payloads
    BY <1>1, <1>3, ClockAssumption DEF Partition, Payloads
  <1>7. \A p \in taken : returned[p] = 0
    BY <1>1, <1>3, <1>6 DEF Partition, Returned
  <1>8. Returned' = Returned \cup taken
    BY <1>1, <1>4, <1>6, <1>7 DEF Returned, HistoryTyped
  <1>9. \A p \in Payloads : returned'[p] \in {0, 1}
    BY <1>1, <1>4, <1>7 DEF Partition
  <1> QED
    BY <1>3, <1>5, <1>8, <1>9

\* A step that harvests, whichever way, keeps the payloads in their places.
LEMMA HarvestInv ==
  ASSUME Inv, NEW h, NEW S, Splits(batch, h, S),
         batch' = h.batch, Return(h.taken),
         h.batch.lastHarvest \in Instants \cup {EpochStart},
         h.batch.eldest \in Instants \cup {EpochStart}, HasEldest(h.batch),
         closed' \in BOOLEAN, UNCHANGED <<now, offered, turnedAway, overwritten>>
  PROVE  Inv'
  <1> DEFINE taken == IdsIn(h.taken)
             left  == IdsIn(h.batch.invocations)
  <1>1. /\ BatchTyped(batch) /\ HistoryTyped /\ Partition
        /\ IdsBounded(batch.invocations, offered) /\ IdsUnique(batch.invocations)
        /\ offered \in 0..MaxPayloads
    BY DEF Inv, HistoryTyped
  <1>2. BatchTyped(h.batch)
    BY <1>1, SplitKeeps DEF BatchTyped, Splits
  <1>3. IdsBounded(h.batch.invocations, offered) /\ IdsUnique(h.batch.invocations)
    BY <1>1, SplitKeeps
  <1>4. taken \cup left = Held /\ taken \cap left = {} /\ Held' = left
    BY <1>1, SplitMoves DEF Held
  <1>5. /\ returned' \in [Payloads -> Nat] /\ \A p \in Payloads : returned'[p] \in {0, 1}
        /\ Returned' = Returned \cup taken
    BY HarvestReturns
  <1>6. HistoryTyped'
    BY <1>1, <1>5 DEF HistoryTyped
  <1>7. Partition'
    <2> HIDE DEF taken, left
    <2>1. Held' \cup turnedAway' \cup overwritten' \cup Returned' = 1..offered'
      BY <1>1, <1>4, <1>5 DEF Partition
    <2>2. /\ Held' \cap turnedAway' = {} /\ Held' \cap overwritten' = {}
          /\ Held' \cap Returned' = {} /\ turnedAway' \cap overwritten' = {}
          /\ turnedAway' \cap Returned' = {} /\ overwritten' \cap Returned' = {}
      BY <1>1, <1>4, <1>5 DEF Partition
    <2> QED
      BY <1>5, <2>1, <2>2 DEF Partition
  <1> QED
    BY <1>2, <1>3, <1>6, <1>7 DEF Inv

\* What an aggressive and a ripe harvest leave: types, an eldest, no backlog.
LEMMA AggressiveLeaves ==
  ASSUME BatchTyped(batch), now \in Instants
  PROVE  LET h == AggressiveHarvest(batch, now)
         IN  /\ h.batch.lastHarvest \in Instants \cup {EpochStart}
             /\ h.batch.eldest \in Instants \cup {EpochStart}
             /\ Pending(h.batch) = {} /\ Ripe(h.batch) = {} /\ HasEldest(h.batch)
  <1> DEFINE h == AggressiveHarvest(batch, now)
  <1>1. IsBatch(batch)
    BY DEF BatchTyped
  <1>2. /\ Splits(batch, h, Pending(batch))
        /\ h.batch.lastHarvest = IF Pending(batch) # {} THEN now ELSE batch.lastHarvest
        /\ h.batch.eldest = IF Pending(batch) # {} THEN EpochStart ELSE batch.eldest
    BY <1>1, AggressiveHarvestIs
  <1> HIDE DEF h
  <1>3. Pending(h.batch) = {}
    BY <1>2 DEF Splits, Pending
  <1>4. Ripe(h.batch) = {}
    BY <1>3 DEF Ripe, Pending, IsRipe, IsEmpty
  <1>5. /\ h.batch.lastHarvest \in Instants \cup {EpochStart}
        /\ h.batch.eldest \in Instants \cup {EpochStart}
    BY <1>2 DEF BatchTyped
  <1> QED
    BY <1>3, <1>4, <1>5 DEF HasEldest, h

LEMMA RipeLeaves ==
  ASSUME BatchTyped(batch), now \in Instants
  PROVE  LET h == RipeHarvest(batch, now)
         IN  /\ h.batch.lastHarvest \in {now, batch.lastHarvest}
             /\ h.batch.eldest \in Instants \cup {EpochStart}
             /\ Ripe(h.batch) = {} /\ HasEldest(h.batch)
  <1> DEFINE h == RipeHarvest(batch, now)
             left == h.batch.invocations
             starts == {left[r].start : r \in DOMAIN left}
  <1>1. IsBatch(batch)
    BY DEF BatchTyped
  <1>2. /\ Splits(batch, h, Ripe(batch))
        /\ h.batch.lastHarvest = IF Ripe(batch) # {} THEN now ELSE batch.lastHarvest
        /\ h.batch.eldest = Earliest(starts)
    BY <1>1, RipeHarvestIs
  <1> HIDE DEF h
  <1>3. Ripe(h.batch) = {}
    BY <1>2 DEF Splits, Ripe
  <1>4. \A r \in DOMAIN left : left[r] \in InvocationType
    BY <1>2 DEF Splits, BatchTyped
  <1>5. starts \subseteq Instants
    BY <1>4 DEF InvocationType
  <1>6. IF starts = {} THEN Earliest(starts) = EpochStart ELSE Earliest(starts) \in starts
    BY <1>5, EarliestIsOne
  <1>7. h.batch.eldest \in Instants \cup {EpochStart}
    BY <1>2, <1>5, <1>6
  <1>8. Pending(h.batch) # {} => starts # {}
    BY DEF Pending
  <1>9. HasEldest(h.batch)
    BY <1>2, <1>5, <1>6, <1>8, InstantsPositive DEF HasEldest
  <1> QED
    BY <1>2, <1>3, <1>7, <1>9 DEF h

LEMMA DoHarvestInv == Inv /\ DoHarvest => Inv'
  <1> SUFFICES ASSUME Inv, DoHarvest PROVE Inv'
    OBVIOUS
  <1> DEFINE h == Harvest(batch, now)
  <1>1. /\ batch' = h.batch /\ Return(h.taken) /\ closed' \in BOOLEAN
        /\ UNCHANGED <<now, offered, turnedAway, overwritten>>
    BY DEF DoHarvest, Inv, HistoryTyped
  <1>2. BatchTyped(batch) /\ IsBatch(batch) /\ now \in Instants /\ HasEldest(batch)
    BY DEF Inv, BatchTyped, HistoryTyped
  <1>3. CASE h = AggressiveHarvest(batch, now)
    <2>1. Splits(batch, h, Pending(batch))
      BY <1>2, <1>3, AggressiveHarvestIs
    <2>2. /\ h.batch.lastHarvest \in Instants \cup {EpochStart}
          /\ h.batch.eldest \in Instants \cup {EpochStart} /\ HasEldest(h.batch)
      BY <1>2, <1>3, AggressiveLeaves
    <2> HIDE DEF h
    <2> QED
      BY <1>1, <2>1, <2>2, HarvestInv
  <1>4. CASE h = RipeHarvest(batch, now)
    <2>1. Splits(batch, h, Ripe(batch))
      BY <1>2, <1>4, RipeHarvestIs
    <2>2. /\ h.batch.lastHarvest \in Instants \cup {EpochStart}
          /\ h.batch.eldest \in Instants \cup {EpochStart} /\ HasEldest(h.batch)
      BY <1>2, <1>4, RipeLeaves DEF BatchTyped
    <2> HIDE DEF h
    <2> QED
      BY <1>1, <2>1, <2>2, HarvestInv
  <1>5. CASE h = NothingHarvested(batch)
    <2>1. Splits(batch, h, {}) /\ h.batch = batch
      BY <1>2, <1>5, NothingHarvestedIs
    <2>2. /\ h.batch.lastHarvest \in Instants \cup {EpochStart}
          /\ h.batch.eldest \in Instants \cup {EpochStart} /\ HasEldest(h.batch)
      BY <1>2, <2>1 DEF BatchTyped
    <2> HIDE DEF h
    <2> QED
      BY <1>1, <2>1, <2>2, HarvestInv
  <1> QED
    BY <1>3, <1>4, <1>5 DEF Harvest

LEMMA DoCloseInv == Inv /\ DoClose => Inv'
  <1> SUFFICES ASSUME Inv, DoClose PROVE Inv'
    OBVIOUS
  <1> DEFINE h == AggressiveHarvest(batch, now)
  <1>1. /\ batch' = h.batch /\ Return(h.taken) /\ closed' \in BOOLEAN
        /\ UNCHANGED <<now, offered, turnedAway, overwritten>>
    BY DEF DoClose, Close
  <1>2. BatchTyped(batch) /\ IsBatch(batch) /\ now \in Instants
    BY DEF Inv, BatchTyped, HistoryTyped
  <1>3. Splits(batch, h, Pending(batch))
    BY <1>2, AggressiveHarvestIs
  <1>4. /\ h.batch.lastHarvest \in Instants \cup {EpochStart}
        /\ h.batch.eldest \in Instants \cup {EpochStart} /\ HasEldest(h.batch)
    BY <1>2, AggressiveLeaves
  <1> HIDE DEF h
  <1> QED
    BY <1>1, <1>3, <1>4, HarvestInv

-----------------------------------------------------------------------------
(* AddInvocation and AddTelemetry *)

LEMMA DoAddInvocationInv ==
  ASSUME Inv, NEW r \in Requests, DoAddInvocation(r)
  PROVE  Inv'
  <1> DEFINE old == batch.invocations
             new == batch'.invocations
  <1>0. /\ BatchTyped(batch) /\ IsBatch(batch) /\ HistoryTyped /\ Partition
        /\ HasEldest(batch) /\ IdsBounded(old, offered) /\ IdsUnique(old)
        /\ now \in Instants /\ offered \in 0..MaxPayloads
    BY DEF Inv, BatchTyped, HistoryTyped
  <1>1. /\ batch' = AddInvocation(batch, r, now)
        /\ overwritten' = overwritten \cup Kept(r)
        /\ UNCHANGED <<now, closed, offered, turnedAway, returned>>
    BY DEF DoAddInvocation
  <1>2. /\ IsBatch(batch') /\ batch'.lastHarvest = batch.lastHarvest
        /\ batch'.eldest = batch.eldest /\ batch'.storeTraceID = batch.storeTraceID
        /\ new = Put(old, r, NewInvocation(now))
    BY <1>0, <1>1, AddInvocationIs
  <1>3. NewInvocation(now) \in InvocationType /\ NewInvocation(now).telemetry = << >>
    BY <1>0 DEF NewInvocation, InvocationType
  <1>4. /\ DOMAIN new = DOMAIN old \cup {r}
        /\ new[r].telemetry = << >> /\ new[r] \in InvocationType
        /\ \A s \in DOMAIN old \ {r} : new[s] = old[s]
    <2> HIDE DEF old, new
    <2>1. new = [k \in DOMAIN old \cup {r} |->
                   IF k = r THEN NewInvocation(now) ELSE old[k]]
      BY <1>2 DEF Put
    <2> QED
      BY <1>3, <2>1
  <1> HIDE DEF old, new
  <1>5. BatchTyped(batch')
    BY <1>0, <1>2, <1>4 DEF BatchTyped, old, new
  <1>6. HasEldest(batch')
    BY <1>0, <1>2, <1>4 DEF HasEldest, Pending, IsEmpty, old, new
  <1>7. IdsBounded(new, offered)
    BY <1>0, <1>4 DEF IdsBounded, At
  <1>8. IdsUnique(new)
    BY <1>0, <1>4 DEF IdsUnique, At
  <1>9. Held' = Held \ Kept(r) /\ Kept(r) \subseteq Held
    <2>1. \A p : p \in Held' <=>
            \E s \in DOMAIN new : \E i \in DOMAIN new[s].telemetry : At(new, s, i) = p
      BY IdsInIs DEF Held, new
    <2>2. \A p : p \in Held <=>
            \E s \in DOMAIN old : \E i \in DOMAIN old[s].telemetry : At(old, s, i) = p
      BY IdsInIs DEF Held, old
    <2>3. \A p : p \in Kept(r) <=>
            r \in DOMAIN old /\ \E i \in DOMAIN old[r].telemetry : At(old, r, i) = p
      BY KeptIs DEF old
    <2>4. \A p : p \in Held' <=> p \in Held /\ p \notin Kept(r)
      BY <1>0, <1>4, <2>1, <2>2, <2>3 DEF IdsUnique, At
    <2> QED
      BY <2>2, <2>3, <2>4
  <1>10. Held \subseteq Payloads /\ Returned' = Returned
    BY <1>0, <1>1, ClockAssumption DEF Partition, Payloads, Returned
  <1>11. HistoryTyped'
    BY <1>0, <1>1, <1>9, <1>10 DEF HistoryTyped
  <1>12. Partition'
    <2>1. \A p \in Payloads : returned'[p] \in {0, 1}
      BY <1>0, <1>1 DEF Partition
    <2> HIDE DEF Partition
    <2>2. Held' \cup turnedAway' \cup overwritten' \cup Returned' = 1..offered'
      BY <1>0, <1>1, <1>9, <1>10 DEF Partition
    <2>3. /\ Held' \cap turnedAway' = {} /\ Held' \cap overwritten' = {}
          /\ Held' \cap Returned' = {} /\ turnedAway' \cap overwritten' = {}
          /\ turnedAway' \cap Returned' = {} /\ overwritten' \cap Returned' = {}
      BY <1>0, <1>1, <1>9, <1>10 DEF Partition
    <2> QED
      BY <2>1, <2>2, <2>3 DEF Partition
  <1> QED
    BY <1>1, <1>5, <1>6, <1>7, <1>8, <1>11, <1>12 DEF Inv, new

\* The number of the next payload is in no place yet.
LEMMA NextIsNew ==
  ASSUME Inv, offered < MaxPayloads
  PROVE  LET p == offered + 1
         IN  /\ p \in Payloads /\ 1..p = 1..offered \cup {p} /\ p \in 0..MaxPayloads
             /\ p \notin Held \cup turnedAway \cup overwritten \cup Returned
  BY ClockAssumption DEF Inv, HistoryTyped, Partition, Payloads

LEMMA AppendIs ==
  ASSUME NEW seq \in Seq(Telemetry), NEW telemetry \in Telemetry
  PROVE  LET last == Len(seq) + 1
             longer == Append(seq, telemetry)
         IN  /\ Len(longer) = last
             /\ DOMAIN longer = DOMAIN seq \cup {last} /\ last \notin DOMAIN seq
             /\ \A i \in DOMAIN seq : longer[i] = seq[i]
             /\ longer[last] = telemetry
  OBVIOUS

LEMMA DoAddTelemetryInv ==
  ASSUME Inv, NEW r \in Requests, NEW trace \in Traces \cup {NoTrace}, NEW isAPM,
         DoAddTelemetry(r, trace, isAPM)
  PROVE  Inv'
  <1> DEFINE old == batch.invocations
             new == batch'.invocations
             p == offered + 1
             telemetry == [id |-> p, trace |-> trace]
             found == FoundTrace(telemetry, isAPM)
  <1>0. /\ BatchTyped(batch) /\ IsBatch(batch) /\ HistoryTyped /\ Partition
        /\ HasEldest(batch) /\ IdsBounded(old, offered) /\ IdsUnique(old)
        /\ now \in Instants /\ offered \in 0..MaxPayloads /\ offered \in Nat
    BY DEF Inv, BatchTyped, HistoryTyped
  <1>1. /\ offered' = p /\ batch' = AddTelemetry(batch, r, telemetry, isAPM)
        /\ turnedAway' = IF Accepts(batch, r) THEN turnedAway ELSE turnedAway \cup {p}
        /\ UNCHANGED <<now, closed, overwritten, returned>> /\ offered < MaxPayloads
    BY DEF DoAddTelemetry
  <1>2. /\ p \in Payloads /\ 1..p = 1..offered \cup {p} /\ p \in 0..MaxPayloads
        /\ p \notin Held \cup turnedAway \cup overwritten \cup Returned
    BY <1>1, NextIsNew
  <1>3. HistoryTyped'
    BY <1>0, <1>1, <1>2 DEF HistoryTyped
  <1>4. Returned' = Returned /\ \A q \in Payloads : returned'[q] \in {0, 1}
    BY <1>0, <1>1 DEF Returned, Partition
  <1>5. CASE ~Accepts(batch, r)
    <2>1. batch' = batch
      BY <1>1, <1>5 DEF AddTelemetry
    <2>2. BatchTyped(batch') /\ HasEldest(batch') /\ IdsUnique(batch'.invocations)
      BY <1>0, <2>1
    <2>3. IdsBounded(batch'.invocations, offered')
      <3>1. SUFFICES IdsBounded(old, p)
        BY <1>1, <2>1
      <3>2. ASSUME NEW s \in DOMAIN old
            PROVE  /\ Len(old[s].telemetry) <= p
                   /\ \A i \in DOMAIN old[s].telemetry : At(old, s, i) \in 1..p
        <4>1. Len(old[s].telemetry) \in Nat /\ Len(old[s].telemetry) <= offered
          BY <1>0 DEF IdsBounded, BatchTyped, InvocationType
        <4>2. \A i \in DOMAIN old[s].telemetry : At(old, s, i) \in 1..offered
          BY <1>0 DEF IdsBounded
        <4> QED
          BY <1>0, <1>2, <4>1, <4>2
      <3> QED
        BY <3>2 DEF IdsBounded
    <2>4. Held' = Held
      BY <2>1 DEF Held
    <2>5. Partition'
      <3> HIDE DEF p
      <3> QED
        BY <1>0, <1>1, <1>2, <1>4, <1>5, <2>4 DEF Partition
    <2> QED
      BY <1>3, <2>2, <2>3, <2>5 DEF Inv
  <1>6. CASE Accepts(batch, r)
    <2>1. telemetry \in Telemetry /\ telemetry.id = p
      BY <1>2 DEF Telemetry
    <2>2. found \in Traces \cup {NoTrace}
      BY <2>1, FoundTraceType
    <2>3. r \in DOMAIN old /\ old[r] \in InvocationType
      BY <1>0, <1>6 DEF Accepts, BatchTyped
    <2> DEFINE longer == Longer(old[r], telemetry, found)
    <2>4. /\ longer \in InvocationType /\ longer.start = old[r].start
          /\ longer.telemetry = Append(old[r].telemetry, telemetry)
      BY <2>1, <2>2, <2>3, LongerIs
    <2> HIDE DEF telemetry, found, longer
    <2>5. /\ IsBatch(batch') /\ batch'.lastHarvest = batch.lastHarvest
          /\ batch'.eldest = IF batch.eldest = EpochStart THEN old[r].start
                                                          ELSE batch.eldest
          /\ batch'.storeTraceID = IF found # NoTrace
                                   THEN Put(batch.storeTraceID, r, found)
                                   ELSE batch.storeTraceID
          /\ new = Put(old, r, longer)
      BY <1>0, <1>1, <1>6, AddTelemetryIs DEF found, longer
    <2>6. /\ DOMAIN new = DOMAIN old /\ new[r] = longer
          /\ \A s \in DOMAIN old \ {r} : new[s] = old[s]
      <3> HIDE DEF old, new
      <3>1. new = [k \in DOMAIN old \cup {r} |-> IF k = r THEN longer ELSE old[k]]
        BY <2>5 DEF Put
      <3> QED
        BY <2>3, <3>1
    <2>7. /\ old[r].telemetry \in Seq(Telemetry) /\ old[r].start \in Instants
          /\ Len(new[r].telemetry) = Len(old[r].telemetry) + 1
          /\ DOMAIN new[r].telemetry = DOMAIN old[r].telemetry \cup {Len(old[r].telemetry) + 1}
          /\ \A i \in DOMAIN old[r].telemetry : At(new, r, i) = At(old, r, i)
          /\ At(new, r, Len(old[r].telemetry) + 1) = p
          /\ Len(old[r].telemetry) + 1 \notin DOMAIN old[r].telemetry
      <3>1. old[r].telemetry \in Seq(Telemetry) /\ old[r].start \in Instants
        BY <2>3 DEF InvocationType
      <3>2. new[r].telemetry = Append(old[r].telemetry, telemetry)
        BY <2>4, <2>6
      <3> HIDE DEF old, new, p
      <3> QED
        BY <2>1, <3>1, <3>2, AppendIs DEF At
    <2> HIDE DEF old, new, p
    <2>8. BatchTyped(batch')
      <3> DEFINE stored == batch'.storeTraceID
      <3>1. DOMAIN stored \subseteq Requests
        BY <1>0, <2>5 DEF BatchTyped, Put
      <3>2. \A s \in DOMAIN stored : stored[s] \in Traces
        BY <1>0, <2>2, <2>5 DEF BatchTyped, Put
      <3>3. batch'.eldest \in Instants \cup {EpochStart}
        BY <1>0, <2>5, <2>7 DEF BatchTyped
      <3> QED
        BY <1>0, <2>4, <2>5, <2>6, <3>1, <3>2, <3>3 DEF BatchTyped, old, new
    <2>9. HasEldest(batch')
      BY <2>5, <2>7, InstantsPositive DEF HasEldest
    <2>10. IdsBounded(new, p)
      <3>1. ASSUME NEW s \in DOMAIN old
            PROVE  /\ Len(old[s].telemetry) \in Nat /\ Len(old[s].telemetry) <= offered
                   /\ \A i \in DOMAIN old[s].telemetry : At(old, s, i) \in 1..offered
        BY <1>0 DEF IdsBounded, BatchTyped, InvocationType, old
      <3>2. ASSUME NEW s \in DOMAIN new
            PROVE  /\ Len(new[s].telemetry) <= p
                   /\ \A i \in DOMAIN new[s].telemetry : At(new, s, i) \in 1..p
        <4>1. CASE s = r
          <5>1. Len(new[r].telemetry) <= p
            BY <1>0, <2>3, <2>7, <3>1 DEF p, old
          <5>2. \A i \in DOMAIN new[r].telemetry : At(new, r, i) \in 1..p
            BY <1>2, <2>3, <2>7, <3>1 DEF old
          <5> QED
            BY <4>1, <5>1, <5>2
        <4>2. CASE s # r
          <5>1. s \in DOMAIN old /\ new[s] = old[s]
            BY <2>6, <4>2
          <5>2. Len(new[s].telemetry) <= p
            BY <1>0, <3>1, <5>1 DEF p
          <5>3. \A i \in DOMAIN new[s].telemetry : At(new, s, i) \in 1..p
            BY <1>2, <3>1, <5>1 DEF At
          <5> QED
            BY <5>2, <5>3
        <4> QED
          BY <4>1, <4>2
      <3> QED
        BY <3>2 DEF IdsBounded
    <2>11. \A s \in DOMAIN old : \A i \in DOMAIN old[s].telemetry : At(old, s, i) # p
      BY <1>2, IdsInIs DEF Held, old
    <2>12. IdsUnique(new)
      <3>1. \A s \in DOMAIN new \ {r} : DOMAIN new[s].telemetry = DOMAIN old[s].telemetry
              /\ \A i \in DOMAIN old[s].telemetry : At(new, s, i) = At(old, s, i)
        BY <2>6 DEF At
      <3> QED
        BY <1>0, <2>3, <2>6, <2>7, <2>11, <3>1 DEF IdsUnique, old
    <2>13. Held' = Held \cup {p}
      <3>1. \A q : q \in Held' <=>
              \E s \in DOMAIN new : \E i \in DOMAIN new[s].telemetry : At(new, s, i) = q
        BY IdsInIs DEF Held, new
      <3>2. \A q : q \in Held <=>
              \E s \in DOMAIN old : \E i \in DOMAIN old[s].telemetry : At(old, s, i) = q
        BY IdsInIs DEF Held, old
      <3>3. \A s \in DOMAIN new \ {r} : DOMAIN new[s].telemetry = DOMAIN old[s].telemetry
              /\ \A i \in DOMAIN old[s].telemetry : At(new, s, i) = At(old, s, i)
        BY <2>6 DEF At
      <3> QED
        BY <2>3, <2>6, <2>7, <3>1, <3>2, <3>3 DEF old
    <2>14. Partition'
      BY <1>0, <1>1, <1>2, <1>4, <1>6, <2>13 DEF Partition, p
    <2> QED
      BY <1>1, <1>3, <2>8, <2>9, <2>10, <2>12, <2>14 DEF Inv, new, p
  <1> QED
    BY <1>5, <1>6

-----------------------------------------------------------------------------
LEMMA InitInv == Init => Inv
  <1> SUFFICES ASSUME Init PROVE Inv
    OBVIOUS
  <1>1. /\ DOMAIN batch.invocations = {} /\ DOMAIN batch.storeTraceID = {}
        /\ IsBatch(batch) /\ batch.lastHarvest = EpochStart /\ batch.eldest = EpochStart
    BY DEF Init, NewBatch, NoEntries, IsBatch
  <1>2. BatchTyped(batch) /\ HasEldest(batch)
    BY <1>1 DEF BatchTyped, HasEldest, Pending
  <1>3. IdsBounded(batch.invocations, offered) /\ IdsUnique(batch.invocations)
    BY <1>1 DEF IdsBounded, IdsUnique
  <1>4. HistoryTyped /\ Returned = {} /\ offered = 0 /\ turnedAway = {} /\ overwritten = {}
    <2>1. now \in Instants /\ 0 \in 0..MaxPayloads
      BY ClockAssumption DEF Init, Instants
    <2>2. returned \in [Payloads -> Nat] /\ \A p \in Payloads : returned[p] = 0
      BY DEF Init
    <2>3. Returned = {}
      BY <2>2 DEF Returned
    <2> QED
      BY <2>1, <2>2, <2>3 DEF Init, HistoryTyped
  <1>5. Held = {}
    BY <1>1, IdsInIs DEF Held
  <1>6. Partition
    <2>1. 1..offered = {} /\ \A p \in Payloads : returned[p] \in {0, 1}
      BY <1>4 DEF Init
    <2> QED
      BY <1>4, <1>5, <2>1 DEF Partition
  <1> QED
    BY <1>2, <1>3, <1>4, <1>6 DEF Inv

\* A step that leaves the batch and its history alone.
LEMMA StutterInv ==
  ASSUME Inv, now' \in Instants,
         UNCHANGED <<batch, closed, offered, turnedAway, overwritten, returned>>
  PROVE  Inv'
  BY DEF Inv, HistoryTyped, Partition, Held, Returned

LEMMA NextInv == Inv /\ [Next]_vars => Inv'
  <1> SUFFICES ASSUME Inv, [Next]_vars PROVE Inv'
    OBVIOUS
  <1>1. CASE Tick
    <2>1. now' \in Instants
      BY <1>1, ClockAssumption DEF Tick, Inv, HistoryTyped, Instants
    <2> QED
      BY <1>1, <2>1, StutterInv DEF Tick
  <1>2. ASSUME NEW r \in Requests, DoAddInvocation(r) PROVE Inv'
    BY <1>2, DoAddInvocationInv
  <1>3. ASSUME NEW r \in Requests, NEW trace \in Traces \cup {NoTrace},
               NEW isAPM \in BOOLEAN, DoAddTelemetry(r, trace, isAPM)
        PROVE  Inv'
    BY <1>3, DoAddTelemetryInv
  <1>4. CASE DoHarvest
    BY <1>4, DoHarvestInv
  <1>5. CASE DoClose
    BY <1>5, DoCloseInv
  <1>6. CASE UNCHANGED vars
    BY <1>6, StutterInv DEF vars, Inv, HistoryTyped
  <1> QED
    BY <1>1, <1>2, <1>3, <1>4, <1>5, <1>6 DEF Next

LEMMA Invariance == Spec => []Inv
  BY InitInv, NextInv, PTL DEF Spec

-----------------------------------------------------------------------------
\* The batch and its history keep their types, whatever the callers do.
THEOREM TypeCorrect == Spec => []TypeOK
  <1>1. Inv => TypeOK
    <2> SUFFICES ASSUME Inv PROVE TypeOK
      OBVIOUS
    <2>1. DOMAIN batch = {"lastHarvest", "eldest", "invocations", "storeTraceID"}
      BY DEF Inv, BatchTyped, IsBatch
    <2> QED
      BY <2>1 DEF Inv, BatchTyped, HistoryTyped, TypeOK
  <1> QED
    BY <1>1, Invariance, PTL

\* While telemetry is pending, Harvest never reads epochStart for eldest.
THEOREM PendingIsDated == Spec => []PendingHasEldest
  <1>1. Inv => PendingHasEldest
    BY DEF Inv, HasEldest, PendingHasEldest
  <1> QED
    BY <1>1, Invariance, PTL

\* Every payload passed to AddTelemetry is in exactly one place: no method of the
\* batch loses one or hands one out twice.
THEOREM NoneLostNoneTwice == Spec => []EachPayloadOnce
  <1>1. Inv => EachPayloadOnce
    <2> SUFFICES ASSUME Inv, NEW p \in Payloads
                 PROVE  Occurrences(batch.invocations, p) + returned[p]
                          + (IF p \in turnedAway THEN 1 ELSE 0)
                          + (IF p \in overwritten THEN 1 ELSE 0)
                        = IF p <= offered THEN 1 ELSE 0
      BY DEF EachPayloadOnce
    <2>1. Occurrences(batch.invocations, p) = IF p \in Held THEN 1 ELSE 0
      BY OccurrencesAre DEF Inv, BatchTyped, HistoryTyped, Held
    <2>2. returned[p] = IF p \in Returned THEN 1 ELSE 0
      BY DEF Inv, Partition, Returned
    <2>3. p <= offered <=> p \in Held \cup turnedAway \cup overwritten \cup Returned
      <3>1. p <= offered <=> p \in 1..offered
        BY ClockAssumption DEF Payloads, Inv, HistoryTyped
      <3> QED
        BY <3>1 DEF Inv, Partition
    <2>4. /\ ~(p \in Held /\ p \in turnedAway) /\ ~(p \in Held /\ p \in overwritten)
          /\ ~(p \in Held /\ p \in Returned) /\ ~(p \in turnedAway /\ p \in overwritten)
          /\ ~(p \in turnedAway /\ p \in Returned) /\ ~(p \in overwritten /\ p \in Returned)
      BY DEF Inv, Partition
    <2> QED
      BY <2>1, <2>2, <2>3, <2>4
  <1> QED
    BY <1>1, Invariance, PTL

\* A harvest leaves telemetry behind only within the two durations.
THEOREM NoBacklog == Spec => HarvestLeavesNoBacklog
  <1> DEFINE Backlog ==
        DoHarvest =>
          /\ Pending(batch') # {} => batch'.lastHarvest >= now - VeryOldDuration
          /\ Ripe(batch') # {} => batch'.eldest >= now - RipeDuration
  <1>1. Inv => Backlog
    <2> SUFFICES ASSUME Inv, DoHarvest
                 PROVE  /\ Pending(batch') # {} => batch'.lastHarvest >= now - VeryOldDuration
                        /\ Ripe(batch') # {} => batch'.eldest >= now - RipeDuration
      OBVIOUS
    <2>1. /\ BatchTyped(batch) /\ now \in Instants /\ now \in Nat
          /\ batch.lastHarvest \in Nat /\ batch.eldest \in Nat
          /\ RipeDuration \in Nat /\ VeryOldDuration \in Nat
      <3>1. BatchTyped(batch) /\ now \in Instants
        BY DEF Inv, HistoryTyped
      <3>2. /\ batch.lastHarvest \in Instants \cup {EpochStart}
            /\ batch.eldest \in Instants \cup {EpochStart} /\ EpochStart \in Nat
        BY <3>1 DEF BatchTyped, EpochStart
      <3> QED
        BY <3>1, <3>2, InstantsPositive
    <2>2. batch' = Harvest(batch, now).batch
      BY DEF DoHarvest
    <2>3. CASE DOMAIN batch.invocations = {}
      <3>1. batch' = batch
        BY <2>2, <2>3 DEF Harvest, NothingHarvested
      <3> QED
        BY <2>3, <3>1 DEF Pending, Ripe
    <2>4. CASE /\ DOMAIN batch.invocations # {}
               /\ batch.lastHarvest < now - VeryOldDuration
      <3>1. batch' = AggressiveHarvest(batch, now).batch
        BY <2>2, <2>4 DEF Harvest
      <3> QED
        BY <2>1, <3>1, AggressiveLeaves
    <2>5. CASE /\ DOMAIN batch.invocations # {}
               /\ ~(batch.lastHarvest < now - VeryOldDuration)
               /\ batch.eldest < now - RipeDuration
      <3>1. batch' = RipeHarvest(batch, now).batch
        BY <2>2, <2>5 DEF Harvest
      <3>2. batch'.lastHarvest \in {now, batch.lastHarvest} /\ Ripe(batch') = {}
        BY <2>1, <3>1, RipeLeaves
      <3> QED
        BY <2>1, <2>5, <3>2
    <2>6. CASE /\ DOMAIN batch.invocations # {}
               /\ ~(batch.lastHarvest < now - VeryOldDuration)
               /\ ~(batch.eldest < now - RipeDuration)
      <3>1. batch' = batch
        BY <2>2, <2>6 DEF Harvest, NothingHarvested
      <3> QED
        BY <2>1, <2>6, <3>1
    <2> QED
      BY <2>3, <2>4, <2>5, <2>6
  <1> QED
    BY <1>1, Invariance, PTL DEF Spec, HarvestLeavesNoBacklog

-----------------------------------------------------------------------------
(* The refinement of TelemetryStore: kept is Kept, handedOver is Returned. *)

LEMMA AllKeptIsHeld == Inv => Store!AllKept = Held
  <1> SUFFICES ASSUME Inv PROVE Store!AllKept = Held
    OBVIOUS
  <1>1. DOMAIN batch.invocations \subseteq Requests
    BY DEF Inv, BatchTyped
  <1>2. \A p : p \in Store!AllKept <=> \E r \in Requests : p \in Kept(r)
    BY DEF Store!AllKept
  <1>3. \A p : p \in Held <=> \E r \in DOMAIN batch.invocations : p \in Kept(r)
    BY DEF Held, IdsIn, Kept
  <1>4. \A r \in Requests : r \notin DOMAIN batch.invocations => Kept(r) = {}
    BY DEF Kept
  <1> QED
    BY <1>1, <1>2, <1>3, <1>4

LEMMA StoreInits == Init => Store!StoreInit
  <1> SUFFICES ASSUME Init PROVE Store!StoreInit
    OBVIOUS
  <1>1. DOMAIN batch.invocations = {}
    BY DEF Init, NewBatch, NoEntries
  <1>2. \A r \in Requests : Kept(r) = {}
    BY <1>1 DEF Kept
  <1>3. {p \in Payloads : returned[p] > 0} = {}
    BY DEF Init
  <1> QED
    BY <1>2, <1>3 DEF Init, Store!StoreInit

\* The payloads a harvest takes are those kept for the requests it takes.
LEMMA TakenIsKept ==
  ASSUME NEW h, NEW S, Splits(batch, h, S), batch' = h.batch
  PROVE  /\ IdsIn(h.taken) = UNION {Kept(r) : r \in S}
         /\ \A r \in Requests : Kept(r)' = IF r \in S THEN {} ELSE Kept(r)
  <1>1. \A r \in S : Kept(r) = IdsOf(h.taken[r])
    BY DEF Splits, Kept
  <1>2. IdsIn(h.taken) = UNION {Kept(r) : r \in S}
    BY <1>1 DEF Splits, IdsIn
  <1>3. \A r \in Requests : Kept(r)' = IF r \in S THEN {} ELSE Kept(r)
    BY DEF Splits, Kept
  <1> QED
    BY <1>2, <1>3

LEMMA HarvestSplits ==
  ASSUME IsBatch(batch)
  PROVE  \E S : Splits(batch, Harvest(batch, now), S)
  BY AggressiveHarvestIs, RipeHarvestIs, NothingHarvestedIs DEF Harvest

LEMMA HarvestHandsOver == Inv /\ DoHarvest => Store!StoreNext
  <1> SUFFICES ASSUME Inv, DoHarvest PROVE Store!StoreNext
    OBVIOUS
  <1> DEFINE h == Harvest(batch, now)
  <1>1. IsBatch(batch) /\ DOMAIN batch.invocations \subseteq Requests
    BY DEF Inv, BatchTyped
  <1>2. PICK S : Splits(batch, h, S)
    BY <1>1, HarvestSplits
  <1>3. /\ batch' = h.batch /\ Return(h.taken)
        /\ ~closed /\ UNCHANGED <<now, closed, offered, turnedAway, overwritten>>
    BY DEF DoHarvest
  <1> HIDE DEF h
  <1>4. S \subseteq Requests
    BY <1>1, <1>2 DEF Splits
  <1>5. /\ Returned' = Returned \cup UNION {Kept(r) : r \in S}
        /\ \A r \in Requests : Kept(r)' = IF r \in S THEN {} ELSE Kept(r)
    BY <1>2, <1>3, HarvestReturns, TakenIsKept
  <1>6. \A r \in S : [q \in Requests |-> Kept(q)][r] = Kept(r)
    BY <1>4
  <1>7. Store!HandOver(S)
    BY <1>3, <1>4, <1>5, <1>6 DEF Store!HandOver, Returned
  <1> QED
    BY <1>4, <1>7 DEF Store!StoreNext

LEMMA CloseHandsOverAll == Inv /\ DoClose => Store!StoreNext
  <1> SUFFICES ASSUME Inv, DoClose PROVE Store!StoreNext
    OBVIOUS
  <1> DEFINE h == AggressiveHarvest(batch, now)
             S == Pending(batch)
  <1>1. IsBatch(batch) /\ DOMAIN batch.invocations \subseteq Requests
    BY DEF Inv, BatchTyped
  <1>2. Splits(batch, h, S)
    BY <1>1, AggressiveHarvestIs
  <1>3. /\ batch' = h.batch /\ Return(h.taken) /\ ~closed /\ closed' = TRUE
        /\ UNCHANGED <<now, offered, turnedAway, overwritten>>
    BY DEF DoClose, Close
  <1>4. \A r \in Requests : r \notin S => Kept(r) = {}
    <2> SUFFICES ASSUME NEW r \in DOMAIN batch.invocations,
                        IsEmpty(batch.invocations[r])
                 PROVE  Kept(r) = {}
      BY DEF Pending, Kept
    <2>1. batch.invocations[r].telemetry \in Seq(Telemetry)
      BY DEF Inv, BatchTyped, InvocationType
    <2>2. DOMAIN batch.invocations[r].telemetry = {}
      BY <2>1 DEF IsEmpty
    <2> QED
      BY <2>2 DEF Kept, IdsOf, Range
  <1> HIDE DEF h, S
  <1>5. /\ Returned' = Returned \cup UNION {Kept(r) : r \in S}
        /\ \A r \in Requests : Kept(r)' = IF r \in S THEN {} ELSE Kept(r)
    BY <1>2, <1>3, HarvestReturns, TakenIsKept
  <1>6. \A r \in Requests : Kept(r)' = {}
    BY <1>4, <1>5
  <1>7. UNION {Kept(r) : r \in S} = Store!AllKept
    BY <1>1, <1>2, <1>4 DEF Splits, Store!AllKept
  <1>8. Store!HandOverAllAndClose
    BY <1>3, <1>5, <1>6, <1>7 DEF Store!HandOverAllAndClose, Returned
  <1> QED
    BY <1>8 DEF Store!StoreNext

LEMMA AddInvocationBegins ==
  ASSUME Inv, NEW r \in Requests, DoAddInvocation(r)
  PROVE  Store!StoreNext
  <1>1. IsBatch(batch)
    BY DEF Inv, BatchTyped
  <1>2. /\ batch'.invocations = Put(batch.invocations, r, NewInvocation(now))
        /\ ~closed /\ overwritten' = overwritten \cup Kept(r)
        /\ UNCHANGED <<closed, turnedAway, returned>>
    BY <1>1, AddInvocationIs DEF DoAddInvocation
  <1>3. NewInvocation(now).telemetry = << >>
    BY DEF NewInvocation
  <1>4. Kept(r)' = {}
    <2>1. batch'.invocations[r].telemetry = << >>
      BY <1>2, <1>3 DEF Put
    <2> QED
      BY <2>1 DEF Kept, IdsOf, Range
  <1>5. \A s \in Requests \ {r} : Kept(s)' = Kept(s)
    BY <1>2 DEF Kept, Put
  <1>6. Store!BeginAgain(r)
    BY <1>2, <1>4, <1>5 DEF Store!BeginAgain
  <1> QED
    BY <1>6 DEF Store!StoreNext

\* What AddTelemetry appends is kept for its request, and nothing else moves.
LEMMA AppendedIsKept ==
  ASSUME BatchTyped(batch), NEW r \in Requests, Accepts(batch, r),
         NEW telemetry \in Telemetry, NEW isAPM,
         batch' = AddTelemetry(batch, r, telemetry, isAPM)
  PROVE  \A s \in Requests :
           Kept(s)' = IF s = r THEN Kept(r) \cup {telemetry.id} ELSE Kept(s)
  <1> DEFINE old == batch.invocations
             new == batch'.invocations
             longer == Longer(old[r], telemetry, FoundTrace(telemetry, isAPM))
  <1>1. r \in DOMAIN old /\ old[r] \in InvocationType /\ IsBatch(batch)
    BY DEF Accepts, BatchTyped
  <1>2. longer.telemetry = Append(old[r].telemetry, telemetry)
    BY <1>1, FoundTraceType, LongerIs
  <1>3. new = Put(old, r, longer)
    BY <1>1, AddTelemetryIs
  <1>4. /\ DOMAIN new = DOMAIN old /\ new[r] = longer
        /\ \A s \in DOMAIN old \ {r} : new[s] = old[s]
    <2> HIDE DEF old, new, longer
    <2>1. new = [k \in DOMAIN old \cup {r} |-> IF k = r THEN longer ELSE old[k]]
      BY <1>3 DEF Put
    <2> QED
      BY <1>1, <2>1
  <1> HIDE DEF longer
  <1>5. \A s \in Requests \ {r} : Kept(s)' = Kept(s)
    BY <1>4 DEF Kept
  <1>6. Kept(r)' = Kept(r) \cup {telemetry.id}
    <2> DEFINE sequence == old[r].telemetry
               last == Len(sequence) + 1
               appended == Append(sequence, telemetry)
    <2>1. /\ DOMAIN appended = DOMAIN sequence \cup {last}
          /\ \A i \in DOMAIN sequence : appended[i] = sequence[i]
          /\ appended[last] = telemetry
      <3>1. sequence \in Seq(Telemetry)
        BY <1>1 DEF InvocationType
      <3> HIDE DEF sequence
      <3> QED
        BY <3>1, AppendIs
    <2>2. Kept(r) = {t.id : t \in Range(sequence)}
      BY <1>1 DEF Kept, IdsOf
    <2>3. Kept(r)' = {t.id : t \in Range(appended)}
      BY <1>1, <1>2, <1>4 DEF Kept, IdsOf
    <2> HIDE DEF sequence, appended, last
    <2>4. Range(appended) = Range(sequence) \cup {telemetry}
      BY <2>1 DEF Range
    <2> QED
      BY <2>2, <2>3, <2>4
  <1> QED
    BY <1>5, <1>6

LEMMA AddTelemetryKeeps ==
  ASSUME Inv, NEW r \in Requests, NEW trace \in Traces \cup {NoTrace}, NEW isAPM,
         DoAddTelemetry(r, trace, isAPM)
  PROVE  Store!StoreNext
  <1> DEFINE p == offered + 1
             telemetry == [id |-> p, trace |-> trace]
  <1>1. /\ ~closed /\ offered < MaxPayloads
        /\ batch' = AddTelemetry(batch, r, telemetry, isAPM)
        /\ turnedAway' = IF Accepts(batch, r) THEN turnedAway ELSE turnedAway \cup {p}
        /\ UNCHANGED <<closed, overwritten, returned>>
    BY DEF DoAddTelemetry
  <1>2. p \in Payloads /\ p \notin Held \cup turnedAway \cup overwritten \cup Returned
    BY <1>1, NextIsNew
  <1>3. p \notin Store!Seen
    BY <1>2, AllKeptIsHeld DEF Store!Seen, Returned
  <1>4. CASE Accepts(batch, r)
    <2>1. telemetry \in Telemetry /\ telemetry.id = p
      BY <1>2 DEF Telemetry
    <2>2. BatchTyped(batch)
      BY DEF Inv
    <2> HIDE DEF telemetry
    <2>3. \A s \in Requests : Kept(s)' = IF s = r THEN Kept(r) \cup {p} ELSE Kept(s)
      BY <1>1, <1>4, <2>1, <2>2, AppendedIsKept
    <2>4. Store!Keep(p, r)
      <3> HIDE DEF p
      <3> QED
        BY <1>1, <1>3, <1>4, <2>3 DEF Store!Keep
    <2> QED
      BY <1>2, <2>4 DEF Store!StoreNext
  <1>5. CASE ~Accepts(batch, r)
    <2>1. batch' = batch
      BY <1>1, <1>5 DEF AddTelemetry
    <2>2. Store!TurnAway(p)
      <3> HIDE DEF p
      <3> QED
        BY <1>1, <1>3, <1>5, <2>1 DEF Store!TurnAway, Kept
    <2> QED
      BY <1>2, <2>2 DEF Store!StoreNext
  <1> QED
    BY <1>4, <1>5

LEMMA StoreStutters ==
  ASSUME UNCHANGED <<batch, closed, offered, turnedAway, overwritten, returned>>
  PROVE  UNCHANGED Store!storeVars
  BY DEF Store!storeVars, Kept

LEMMA StoreSteps == Inv /\ [Next]_vars => [Store!StoreNext]_(Store!storeVars)
  <1> SUFFICES ASSUME Inv, [Next]_vars
               PROVE  Store!StoreNext \/ UNCHANGED Store!storeVars
    OBVIOUS
  <1>1. CASE Tick \/ UNCHANGED vars
    BY <1>1, StoreStutters DEF Tick, vars
  <1>2. ASSUME NEW r \in Requests, DoAddInvocation(r) PROVE Store!StoreNext
    BY <1>2, AddInvocationBegins
  <1>3. ASSUME NEW r \in Requests, NEW trace \in Traces \cup {NoTrace},
               NEW isAPM \in BOOLEAN, DoAddTelemetry(r, trace, isAPM)
        PROVE  Store!StoreNext
    BY <1>3, AddTelemetryKeeps
  <1>4. CASE DoHarvest
    BY <1>4, HarvestHandsOver
  <1>5. CASE DoClose
    BY <1>5, CloseHandsOverAll
  <1> QED
    BY <1>1, <1>2, <1>3, <1>4, <1>5 DEF Next

\* The batch implements the store: whole invocations leave it, once, and Close
\* empties it, for any requests, payloads, clock and harvest policy.
THEOREM Refinement == Spec => ImplementsStore
  BY StoreInits, StoreSteps, Invariance, PTL DEF Spec, ImplementsStore, Store!StoreSpec
=============================================================================
