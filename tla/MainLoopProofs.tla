--------------------------- MODULE MainLoopProofs ---------------------------
(***************************************************************************)
(* Theorems about the event loop in telemetry mode, for any number of      *)
(* invocations and failed events, any timeouts and margins, with or        *)
(* without SIGTERM and retries: the types, and every safety invariant of   *)
(* MainLoop.                                                               *)
(*                                                                         *)
(* The invariant has two halves.  BookInv says what the batch and the      *)
(* histories are to each other, whatever the loop is doing: every payload  *)
(* accepted is in one place (Places), a request that has not come back has *)
(* one agent's payload (Single), a request begun is in the batch or was    *)
(* shipped (Known), and what was turned away came late for a request       *)
(* shipped with its agent's payload alone, or came back (TurnedAway).  It  *)
(* is kept by each operation on a book, and the lemmas before InitInv say  *)
(* so once for all actions.  The rest ties the book to the loop: a payload *)
(* is in the pipe before it is attached (Pipe), a report comes after the   *)
(* agent had its chance (Reports), the request the loop waits for is in    *)
(* the batch with nothing attached, or came back (Expected), the payload   *)
(* in the pipe is that of the last invocation until a late poll raced it   *)
(* (Race), and a timeout has had its say when the loop leaves it           *)
(* (LastWordsSaid).                                                        *)
(*                                                                         *)
(* pollLogServer and shipHarvest are loops.  That the functions standing   *)
(* for them exist, and what holds after each pass, is shown by looking at  *)
(* the least pass for which it would fail (LeastOf).                       *)
(***************************************************************************)
EXTENDS MainLoop, FiniteSetTheorems, WellFoundedInduction, TLAPS

-----------------------------------------------------------------------------
(* What holds of a book, whoever works on it.  ids gives the request of each
   invocation, and last is the last invocation the loop has begun. *)

\* Books and batches are the records their makers make.
IsBook(b) ==
  b = [batch |-> b.batch, attached |-> b.attached, ignored |-> b.ignored,
       handed |-> b.handed, discarded |-> b.discarded, since |-> b.since]
IsBatch(b) ==
  b = [lastHarvest |-> b.lastHarvest, eldest |-> b.eldest,
       invocations |-> b.invocations, storeTraceID |-> b.storeTraceID]

PayloadType == [id : PayloadIds, trace : {NoTrace}]
InvocationType ==
  [start : Instants, traceId : {NoTrace}, telemetry : Seq(PayloadType)]

BookTyped(b) ==
  /\ IsBook(b) /\ IsBatch(b.batch)
  /\ \A r \in DOMAIN b.batch.invocations : b.batch.invocations[r] \in InvocationType
  /\ b.attached \subseteq Entries /\ b.ignored \subseteq Entries
  /\ b.handed \in Seq(Entries) /\ b.since \in 0..Len(b.handed)

\* The entry at a position of a map of invocations, and all of them.
EntryAt(invs, r, i) == [to |-> r, what |-> invs[r].telemetry[i].id]
HeldIn(invs) ==
  UNION {{[to |-> r, what |-> p.id] : p \in Range(invs[r].telemetry)} : r \in DOMAIN invs}

\* Every entry that was attached is in one place.
Places(b) ==
  /\ IsInjective(b.handed)
  /\ \A r \in DOMAIN b.batch.invocations :
       \A i, j \in DOMAIN b.batch.invocations[r].telemetry :
         EntryAt(b.batch.invocations, r, i) = EntryAt(b.batch.invocations, r, j) => i = j
  /\ Range(b.handed) \cap HeldIn(b.batch.invocations) = {}
  /\ b.discarded \cap (Range(b.handed) \cup HeldIn(b.batch.invocations)) = {}
  /\ Range(b.handed) \cup HeldIn(b.batch.invocations) \cup b.discarded = b.attached

\* The requests begun, and those begun more than once.
Begun(ids, last) == {ids[k] : k \in 1..last}
Repeated(ids, last, r) == \E j, k \in 1..last : j # k /\ ids[j] = r /\ ids[k] = r

\* A request that has not come back has one agent's payload at most.
Single(b, ids, last) ==
  \A e, f \in b.attached :
    /\ e.to = f.to /\ e.what.kind = "agent" /\ f.what.kind = "agent"
    /\ ~Repeated(ids, last, e.to)
    => e = f

\* The record of r is in the batch, or something of it was shipped since it began.
InHand(b, r) ==
  r \in DOMAIN b.batch.invocations
    \/ \E i \in (b.since + 1)..Len(b.handed) : b.handed[i].to = r

\* The requests the loop has begun are in the batch, or have been shipped.
Known(b, ids, last) ==
  /\ DOMAIN b.batch.invocations \subseteq Begun(ids, last)
  /\ \A e \in b.attached : e.to \in Begun(ids, last)
  /\ \A r \in Begun(ids, last) : r \in DOMAIN b.batch.invocations
                                 \/ \E e \in Range(b.handed) : e.to = r
  /\ last # 0 => InHand(b, ids[last])
  /\ \A e \in b.discarded : Repeated(ids, last, e.to)

\* The report of an earlier attempt was shipped with a record of r.
Outrun(b, ids, last, r) ==
  \E e \in Range(b.handed) :
    /\ e.to = r /\ e.what.kind = "report"
    /\ \E k \in 1..last : ids[k] = r /\ k > e.what.of

\* An entry is turned away when its request was shipped, with the payload of an
\* agent and nothing else if the request has not come back; and an agent's payload
\* is turned away only where the report of an earlier attempt was shipped.
TurnedAway(b, ids, last) ==
  \A e \in b.ignored :
    /\ e.what.kind = "agent" => Outrun(b, ids, last, e.to)
    /\ e.to \in Begun(ids, last)
    /\ ~Repeated(ids, last, e.to)
         => /\ e.what.kind # "agent" /\ e.to \notin DOMAIN b.batch.invocations
            /\ \A f \in Range(b.handed) : f.to = e.to => f.what.kind = "agent"

BookInv(b, ids, last) ==
  /\ BookTyped(b) /\ Places(b) /\ Single(b, ids, last) /\ Known(b, ids, last)
  /\ TurnedAway(b, ids, last)

-----------------------------------------------------------------------------
(* What holds around the book. *)

\* The last invocation the loop has begun.
Latest == IF pc = "thawed" /\ shutdown = "none" THEN current - 1 ELSE current

Clock ==
  /\ lastEventStart <= eventStart /\ eventStart <= now
  /\ current # 0 => eventStart \in Instants

\* What the main goroutine knows of the platform's invocations.
Progress ==
  /\ lastRequestId = IF Latest = 0 THEN NoRequest ELSE requestOf[Latest]
  /\ pc = "thawed" /\ shutdown = "none" => current # 0
  /\ shutdown # "none" => pc \notin {"top", "next", "await"}
  /\ pc = "await" => ~probablyTimeout /\ current # 0
  /\ probablyTimeout => Latest # 0
  /\ current = 0 => function = "idle"
  /\ shutdown = "timeout" => current # 0
  /\ parcel <= current
  /\ parcel = current /\ current # 0 => wrote

\* The payload of an agent is in the pipe before it is attached, once.
Pipe ==
  \A e \in attached : e.what.kind = "agent" =>
    /\ e.what.of \in 1..current /\ e.what.of # parcel
    /\ e.what.of = current => wrote

\* A report is buffered until it is attached or turned away, once; and the report
\* of an invocation comes after its agent has had its chance.
Looping == pc \in {"top", "next", "thawed", "await"}
Reports ==
  /\ reported \subseteq 1..current
  /\ pc = "await" \/ (pc = "thawed" /\ shutdown = "none") => current \notin reported
  /\ platformLogs \in Seq(Invocations)
  /\ IsInjective(platformLogs) /\ Range(platformLogs) \subseteq reported
  /\ \A e \in attached : e.what.kind = "report" =>
       e.what.of \in reported \ Range(platformLogs) /\ e.to = requestOf[e.what.of]
  /\ Looping => \A e \in attached :
                  \/ e.what.kind = "agent"
                  \/ e.what.kind = "report" /\ e.what.of < Latest
  /\ pc # "stopped" => \A e \in Range(handed) : e.what.kind \in {"agent", "report"}

\* While the loop may still receive the payload of an agent for the last request,
\* that request is in the batch, with nothing attached to it; unless it came back
\* and the report of an earlier attempt was shipped.
Expecting == pc = "await" \/ (probablyTimeout /\ pc \in {"top", "next", "thawed"})
Expected ==
  Expecting => /\ \/ lastRequestId \in DOMAIN batch.invocations
                  \/ Outrun(Book, requestOf, Latest, lastRequestId)
               /\ \/ Repeated(requestOf, Latest, lastRequestId)
                  \/ \A e \in attached : e.to # lastRequestId

\* Until a poll loses a race, the parcel is that of the last request.
Race ==
  raced \/
    /\ \A e \in attached : e.what.kind = "agent" => e.to = requestOf[e.what.of]
    /\ pc = "await" => parcel \in {NoRequest, current}
    /\ pc = "thawed" /\ shutdown = "none"
         => \/ parcel \in {NoRequest, current}
            \/ probablyTimeout /\ parcel = current - 1
    /\ pc = "thawed" /\ shutdown # "none" /\ probablyTimeout
         => parcel \in {NoRequest, current}
    /\ pc \in {"top", "next"} /\ probablyTimeout => parcel \in {NoRequest, current}
    /\ pc \in {"top", "next"} /\ ~probablyTimeout
         => parcel = NoRequest /\ (current = 0 \/ wrote)

\* The timeout message of the last invocation.
TimeoutEntry(secs) == [to |-> requestOf[current], what |-> Payload("timeout", current, secs).id]
Said(b, secs) ==
  \/ TimeoutEntry(secs) \in b.attached \ b.discarded
  \/ /\ TimeoutEntry(secs) \in b.ignored
     /\ \E i \in (b.since + 1)..Len(b.handed) : b.handed[i].to = requestOf[current]
LastWordsSaid ==
  shutdown = "timeout" /\ pc # "thawed"
    => \E secs \in 0..(LastInstant - FirstInstant) : Said(Book, secs)

Emptied == pc = "stopped" => Held = {}

Inv ==
  /\ TypeOK /\ BookInv(Book, requestOf, Latest)
  /\ Clock /\ Progress /\ Pipe /\ Reports /\ Expected /\ Race /\ LastWordsSaid /\ Emptied

-----------------------------------------------------------------------------
(* Records, maps and sequences. *)

\* The constants are numbers, and the clock starts inside its bounds.
LEMMA Bounds ==
  /\ NumInvocations \in Nat \ {0} /\ FirstInstant \in Nat /\ LastInstant \in Nat
  /\ FirstInstant > 0 /\ FirstInstant <= LastInstant
  /\ Instants \subseteq Nat /\ FirstInstant \in Instants /\ 0 \notin Instants
  /\ Requests \subseteq Nat /\ 0 \notin Requests
  /\ Invocations \subseteq Nat /\ 0 \notin Invocations
  /\ FunctionTimeout \in Nat /\ WatchMargin \in Nat
  BY BoundAssumption, DurationAssumption DEF Instants, Requests, Invocations

\* The requests that have been begun are requests.
LEMMA BegunIs ==
  ASSUME NEW ids \in Assignments, NEW last \in 0..NumInvocations
  PROVE  /\ Begun(ids, last) \subseteq Requests
         /\ \A k \in 1..last : k \in Invocations /\ ids[k] \in Requests
                               /\ ids[k] \in Begun(ids, last)
  <1>1. \A k \in 1..last : k \in Invocations
    BY Bounds DEF Invocations
  <1> QED
    BY <1>1 DEF Assignments, Begun

\* A set of numbers that is not empty has a least member.
LEMMA LeastOf ==
  ASSUME NEW S \in SUBSET Nat, S # {}
  PROVE  \E t \in S : \A u \in S : ~(u < t)
  <1>1. PICK t \in S : \A u \in S : <<u, t>> \notin OpToRel(<, Nat)
    BY WFMin, NatLessThanWellFounded, Zenon
  <1>2. \A u \in S : ~(u < t)
    BY <1>1, Zenon DEF OpToRel
  <1> QED
    BY <1>2

\* What an assignment to a map does.
LEMMA PutIs ==
  ASSUME NEW map, NEW key, NEW value
  PROVE  /\ DOMAIN Put(map, key, value) = DOMAIN map \cup {key}
         /\ \A k \in DOMAIN map \cup {key} :
              Put(map, key, value)[k] = IF k = key THEN value ELSE map[k]
  BY DEF Put

\* What is left of a map restricted to some keys.
LEMMA RestrictIs ==
  ASSUME NEW f, NEW S
  PROVE  DOMAIN Restrict(f, S) = S /\ \A x \in S : Restrict(f, S)[x] = f[x]
  BY DEF Restrict

\* The entries in a map of invocations, by their positions.
LEMMA HeldIs ==
  ASSUME NEW invs, NEW e
  PROVE  e \in HeldIn(invs) <=>
           \E r \in DOMAIN invs : \E i \in DOMAIN invs[r].telemetry : e = EntryAt(invs, r, i)
  BY DEF HeldIn, EntryAt, Range

\* A payload offered for a request is an entry.
LEMMA EntryIs ==
  ASSUME NEW r \in Requests, NEW id \in PayloadIds
  PROVE  LET e == [to |-> r, what |-> id]
         IN  e \in Entries /\ e.to = r /\ e.what = id
  BY DEF Entries

\* A payload of the model and the entry it makes.
LEMMA PayloadIs ==
  ASSUME NEW kind \in Kinds, NEW of \in Invocations,
         NEW secs \in 0..(LastInstant - FirstInstant)
  PROVE  LET p == Payload(kind, of, secs)
         IN  /\ p \in PayloadType /\ p.id \in PayloadIds
             /\ p.id.kind = kind /\ p.id.of = of /\ p.id.secs = secs
  BY DEF Payload, PayloadType, PayloadIds

-----------------------------------------------------------------------------
(* AddTelemetry and AddInvocation. *)

\* AddTelemetry appends to the invocation it names and touches no other.
LEMMA AddTelemetryIs ==
  ASSUME NEW b, IsBatch(b), NEW r \in DOMAIN b.invocations,
         b.invocations[r] \in InvocationType, NEW p \in PayloadType
  PROVE  LET c == AddTelemetry(b, r, p, FALSE)
         IN  /\ IsBatch(c)
             /\ DOMAIN c.invocations = DOMAIN b.invocations
             /\ \A s \in DOMAIN b.invocations \ {r} : c.invocations[s] = b.invocations[s]
             /\ c.invocations[r] \in InvocationType
             /\ c.invocations[r].telemetry = Append(b.invocations[r].telemetry, p)
  <1> DEFINE inv == b.invocations[r]
             sequence == Append(inv.telemetry, p)
             longer == [inv EXCEPT !.telemetry = sequence, !.traceId = inv.traceId]
             c == AddTelemetry(b, r, p, FALSE)
  <1>1. c = [b EXCEPT !.invocations = Put(b.invocations, r, longer),
                      !.eldest = IF b.eldest = EpochStart THEN inv.start ELSE b.eldest,
                      !.storeTraceID = b.storeTraceID]
    BY DEF AddTelemetry, FoundTrace, Accepts
  <1>2. sequence \in Seq(PayloadType)
    BY DEF InvocationType
  <1>3. longer \in InvocationType /\ longer.telemetry = sequence
    <2> HIDE DEF sequence
    <2> QED
      BY <1>2 DEF InvocationType
  <1> HIDE DEF longer, c
  <1>4. IsBatch(c) /\ c.invocations = Put(b.invocations, r, longer)
    BY <1>1 DEF IsBatch
  <1>5. DOMAIN b.invocations \cup {r} = DOMAIN b.invocations
    OBVIOUS
  <1>6. /\ DOMAIN c.invocations = DOMAIN b.invocations
        /\ \A s \in DOMAIN b.invocations \ {r} : c.invocations[s] = b.invocations[s]
        /\ c.invocations[r] = longer
    BY <1>4, <1>5, <1>3 DEF Put
  <1> QED
    BY <1>3, <1>4, <1>6 DEF c

\* The book c is the book b with the payload p attached to the request r.
WithAttached(b, c, r, p) ==
  /\ IsBook(c) /\ IsBatch(c.batch)
  /\ c.attached = b.attached \cup {[to |-> r, what |-> p.id]}
  /\ c.ignored = b.ignored /\ c.handed = b.handed
  /\ c.discarded = b.discarded /\ c.since = b.since
  /\ DOMAIN c.batch.invocations = DOMAIN b.batch.invocations
  /\ \A s \in DOMAIN b.batch.invocations \ {r} :
       c.batch.invocations[s] = b.batch.invocations[s]
  /\ c.batch.invocations[r] \in InvocationType
  /\ c.batch.invocations[r].telemetry = Append(b.batch.invocations[r].telemetry, p)

\* A payload for an invocation of the batch is attached to it.
LEMMA AttachAccepted ==
  ASSUME NEW b, BookTyped(b), NEW r \in DOMAIN b.batch.invocations, NEW p \in PayloadType
  PROVE  WithAttached(b, Attach(b, r, p), r, p)
  <1> DEFINE c == Attach(b, r, p)
             added == AddTelemetry(b.batch, r, p, FALSE)
  <1>1. c = [b EXCEPT !.batch = added,
                      !.attached = b.attached \cup {[to |-> r, what |-> p.id]}]
    BY DEF Attach, Accepts
  <1> HIDE DEF added
  <1>2. /\ IsBook(c) /\ c.batch = added /\ c.ignored = b.ignored /\ c.handed = b.handed
        /\ c.discarded = b.discarded /\ c.since = b.since
        /\ c.attached = b.attached \cup {[to |-> r, what |-> p.id]}
    BY <1>1 DEF BookTyped, IsBook
  <1>3. /\ IsBatch(added)
        /\ DOMAIN added.invocations = DOMAIN b.batch.invocations
        /\ \A s \in DOMAIN b.batch.invocations \ {r} :
             added.invocations[s] = b.batch.invocations[s]
        /\ added.invocations[r] \in InvocationType
        /\ added.invocations[r].telemetry = Append(b.batch.invocations[r].telemetry, p)
    BY AddTelemetryIs, ZenonT(30) DEF BookTyped, added
  <1> QED
    BY <1>2, <1>3 DEF WithAttached

\* A payload for any other request is turned away, and nothing else changes.
LEMMA AttachTurnedAway ==
  ASSUME NEW b, BookTyped(b), NEW r, r \notin DOMAIN b.batch.invocations, NEW p
  PROVE  LET c == Attach(b, r, p)
         IN  /\ IsBook(c) /\ c.batch = b.batch /\ c.attached = b.attached
             /\ c.ignored = b.ignored \cup {[to |-> r, what |-> p.id]}
             /\ c.handed = b.handed /\ c.discarded = b.discarded /\ c.since = b.since
  BY DEF Attach, Accepts, BookTyped, IsBook

\* The entry of the payload that is added is new to the batch, and the only one.
LEMMA HeldByAppend ==
  ASSUME NEW invs, NEW next, NEW r \in DOMAIN invs, NEW p \in PayloadType,
         \A s \in DOMAIN invs : invs[s] \in InvocationType,
         DOMAIN next = DOMAIN invs, \A s \in DOMAIN invs \ {r} : next[s] = invs[s],
         next[r].telemetry = Append(invs[r].telemetry, p)
  PROVE  HeldIn(next) = HeldIn(invs) \cup {[to |-> r, what |-> p.id]}
  <1> DEFINE old == invs[r].telemetry
             new == next[r].telemetry
             entry == [to |-> r, what |-> p.id]
  <1>1. old \in Seq(PayloadType) /\ new = Append(old, p)
    BY DEF InvocationType
  <1>2. /\ DOMAIN new = DOMAIN old \cup {Len(old) + 1} /\ new[Len(old) + 1] = p
        /\ \A i \in DOMAIN old : new[i] = old[i]
    <2> HIDE DEF old, new
    <2> QED
      BY <1>1
  <1>3. EntryAt(next, r, Len(old) + 1) = entry
    BY <1>2 DEF EntryAt
  <1>4. ASSUME NEW s \in DOMAIN invs, NEW i \in DOMAIN invs[s].telemetry
        PROVE  i \in DOMAIN next[s].telemetry /\ EntryAt(next, s, i) = EntryAt(invs, s, i)
    BY <1>2 DEF EntryAt
  <1>5. ASSUME NEW s \in DOMAIN next, NEW i \in DOMAIN next[s].telemetry
        PROVE  \/ EntryAt(next, s, i) = entry
               \/ i \in DOMAIN invs[s].telemetry /\ EntryAt(next, s, i) = EntryAt(invs, s, i)
    BY <1>2 DEF EntryAt
  <1>6. Len(old) + 1 \in DOMAIN next[r].telemetry
    BY <1>2
  <1> HIDE DEF old, new, entry
  <1>7. ASSUME NEW e \in HeldIn(next) PROVE e \in HeldIn(invs) \cup {entry}
    <2>1. PICK s \in DOMAIN next : \E i \in DOMAIN next[s].telemetry : e = EntryAt(next, s, i)
      BY HeldIs
    <2> QED
      BY <1>5, <2>1, HeldIs
  <1>8. ASSUME NEW e \in HeldIn(invs) PROVE e \in HeldIn(next)
    BY <1>4, HeldIs
  <1>9. entry \in HeldIn(next)
    BY <1>3, <1>6, HeldIs
  <1> QED
    BY <1>7, <1>8, <1>9 DEF entry

\* c is the book b after the payload of an entry was offered to it.
Offered(b, c, ids, last, entry) ==
  /\ BookInv(c, ids, last)
  /\ c.handed = b.handed /\ c.discarded = b.discarded /\ c.since = b.since
  /\ DOMAIN c.batch.invocations = DOMAIN b.batch.invocations
  /\ IF entry.to \in DOMAIN b.batch.invocations
     THEN c.attached = b.attached \cup {entry} /\ c.ignored = b.ignored
     ELSE c.attached = b.attached /\ c.ignored = b.ignored \cup {entry}

\* A payload may be offered for r: it is new, it is the first of an agent if the
\* request has not come back, and it is not late for a request shipped without its
\* agent's.
Fits(b, ids, last, r, id) ==
  /\ [to |-> r, what |-> id] \notin b.attached
  /\ id.kind = "agent" => Repeated(ids, last, r) \/ \A e \in b.attached : e.to # r
  /\ r \notin DOMAIN b.batch.invocations
       => /\ id.kind = "agent" => Outrun(b, ids, last, r)
          /\ ~Repeated(ids, last, r)
               => /\ id.kind # "agent"
                  /\ \A f \in Range(b.handed) : f.to = r => f.what.kind = "agent"

\* Such a payload, attached or turned away, leaves the book in order.
LEMMA AttachInv ==
  ASSUME NEW b, NEW ids \in Assignments, NEW last \in 0..NumInvocations,
         BookInv(b, ids, last),
         NEW r \in Begun(ids, last), NEW p \in PayloadType, Fits(b, ids, last, r, p.id)
  PROVE  Offered(b, Attach(b, r, p), ids, last, [to |-> r, what |-> p.id])
  <1> DEFINE c == Attach(b, r, p)
             entry == [to |-> r, what |-> p.id]
             invs == b.batch.invocations
             next == c.batch.invocations
  <1>1. /\ BookTyped(b) /\ Places(b) /\ Single(b, ids, last) /\ Known(b, ids, last)
        /\ TurnedAway(b, ids, last)
        /\ r \in Requests /\ p.id \in PayloadIds
    BY BegunIs DEF BookInv, PayloadType
  <1>2. entry \in Entries /\ entry.to = r /\ entry.what.kind = p.id.kind
    BY <1>1, EntryIs
  <1>0. entry \notin b.attached
    BY DEF Fits
  <1> HIDE DEF entry, c
  <1>3. CASE r \in DOMAIN invs
    <2>0. BookTyped(b) /\ r \in DOMAIN b.batch.invocations
      BY <1>1, <1>3
    <2>1. /\ IsBook(c) /\ IsBatch(c.batch)
          /\ c.attached = b.attached \cup {entry}
          /\ c.ignored = b.ignored /\ c.handed = b.handed
          /\ c.discarded = b.discarded /\ c.since = b.since
          /\ DOMAIN next = DOMAIN invs
          /\ \A s \in DOMAIN invs \ {r} : next[s] = invs[s]
          /\ next[r] \in InvocationType
          /\ next[r].telemetry = Append(invs[r].telemetry, p)
      <3>1. WithAttached(b, c, r, p)
        BY <2>0, AttachAccepted DEF c
      <3> QED
        BY <3>1 DEF WithAttached, entry
    <2>2. HeldIn(next) = HeldIn(invs) \cup {entry}
      <3>1. /\ r \in DOMAIN invs /\ DOMAIN next = DOMAIN invs
            /\ \A s \in DOMAIN invs : invs[s] \in InvocationType
            /\ \A s \in DOMAIN invs \ {r} : next[s] = invs[s]
            /\ next[r].telemetry = Append(invs[r].telemetry, p)
        BY <2>0, <2>1 DEF BookTyped
      <3> HIDE DEF invs, next
      <3> QED
        BY <3>1, HeldByAppend DEF entry
    <2>4. BookTyped(c)
      BY <1>1, <1>2, <2>1 DEF BookTyped
    <2>5. Places(c)
      <3>1. ASSUME NEW s \in DOMAIN next, NEW i \in DOMAIN next[s].telemetry,
                   NEW j \in DOMAIN next[s].telemetry, EntryAt(next, s, i) = EntryAt(next, s, j)
            PROVE  i = j
        <4>1. CASE s # r
          BY <1>1, <2>1, <3>1, <4>1 DEF Places, EntryAt
        <4>2. CASE s = r
          <5> DEFINE old == invs[r].telemetry
                     new == next[r].telemetry
          <5>1. old \in Seq(PayloadType) /\ new = Append(old, p)
            BY <1>1, <1>3, <2>1 DEF BookTyped, InvocationType
          <5> HIDE DEF old, new
          <5>2. /\ DOMAIN new = DOMAIN old \cup {Len(old) + 1} /\ new[Len(old) + 1] = p
                /\ \A k \in DOMAIN old : new[k] = old[k]
            BY <5>1
          <5>3. \A k \in DOMAIN old : EntryAt(invs, r, k) \in b.attached
            BY <1>1, <1>3, HeldIs DEF Places, old
          <5>4. /\ \A k \in DOMAIN old : EntryAt(next, r, k) = EntryAt(invs, r, k)
                /\ EntryAt(next, r, Len(old) + 1) = entry
            BY <5>2 DEF EntryAt, old, new, entry
          <5>5. \A k, l \in DOMAIN old : EntryAt(invs, r, k) = EntryAt(invs, r, l) => k = l
            BY <1>1, <1>3 DEF Places, old
          <5>6. i \in DOMAIN new /\ j \in DOMAIN new
            BY <4>2 DEF new
          <5> QED
            BY <1>0, <3>1, <4>2, <5>2, <5>3, <5>4, <5>5, <5>6
        <4> QED
          BY <4>1, <4>2
      <3>2. /\ Range(c.handed) \cap HeldIn(next) = {}
            /\ c.discarded \cap (Range(c.handed) \cup HeldIn(next)) = {}
            /\ Range(c.handed) \cup HeldIn(next) \cup c.discarded = c.attached
        BY <1>0, <1>1, <2>1, <2>2 DEF Places
      <3> QED
        BY <1>1, <2>1, <3>1, <3>2 DEF Places
    <2>6. Single(c, ids, last)
      BY <1>1, <1>2, <2>1 DEF Single, Fits
    <2>7. Known(c, ids, last) /\ TurnedAway(c, ids, last)
      BY <1>1, <1>2, <2>1 DEF Known, InHand, TurnedAway, Outrun
    <2> QED
      BY <1>2, <1>3, <2>1, <2>4, <2>5, <2>6, <2>7 DEF BookInv, Offered, c, entry
  <1>4. CASE r \notin DOMAIN invs
    <2>1. /\ IsBook(c) /\ c.batch = b.batch /\ c.attached = b.attached
          /\ c.ignored = b.ignored \cup {entry} /\ c.handed = b.handed
          /\ c.discarded = b.discarded /\ c.since = b.since
      BY <1>1, <1>4, AttachTurnedAway DEF c, entry
    <2>2. BookTyped(c) /\ Places(c) /\ Single(c, ids, last) /\ Known(c, ids, last)
      BY <1>1, <1>2, <2>1 DEF BookTyped, Places, Single, Known, InHand
    <2>3. TurnedAway(c, ids, last)
      BY <1>1, <1>2, <1>4, <2>1 DEF TurnedAway, Outrun, Fits
    <2> QED
      BY <1>2, <1>4, <2>1, <2>2, <2>3 DEF BookInv, Offered, c, entry
  <1> QED
    BY <1>3, <1>4

\* The loop begins the next invocation, whose request may have a record already.
LEMMA BeginInv ==
  ASSUME NEW b, NEW ids \in Assignments, NEW last \in Nat, last + 1 \in Invocations,
         BookInv(b, ids, last), NEW start \in Instants
  PROVE  LET c == Begin(b, ids[last + 1], start)
         IN  /\ BookInv(c, ids, last + 1)
             /\ c.handed = b.handed /\ c.attached = b.attached /\ c.ignored = b.ignored
             /\ c.since = Len(b.handed)
             /\ ids[last + 1] \in DOMAIN c.batch.invocations
             /\ c.batch.invocations[ids[last + 1]].telemetry = << >>
  <1> DEFINE q == ids[last + 1]
             c == Begin(b, q, start)
             invs == b.batch.invocations
             next == c.batch.invocations
             new == NewInvocation(start)
             begun == [b.batch EXCEPT !.invocations = Put(invs, q, new)]
             gone == HeldFor(b.batch, q)
  <1>1. /\ BookTyped(b) /\ Places(b) /\ Single(b, ids, last) /\ Known(b, ids, last)
        /\ TurnedAway(b, ids, last)
    BY DEF BookInv
  <1>2. c = [b EXCEPT !.batch = begun, !.discarded = b.discarded \cup gone,
                      !.since = Len(b.handed)]
    BY DEF Begin, AddInvocation
  <1>3. IsBatch(begun) /\ begun.invocations = Put(invs, q, new)
    BY <1>1 DEF BookTyped, IsBatch
  <1> HIDE DEF begun, c, gone
  <1>4. /\ IsBook(c) /\ c.batch = begun /\ c.handed = b.handed
        /\ c.attached = b.attached /\ c.ignored = b.ignored
        /\ c.discarded = b.discarded \cup gone /\ c.since = Len(b.handed)
    BY <1>1, <1>2 DEF BookTyped, IsBook
  <1>5. new \in InvocationType /\ new.telemetry = << >>
    BY DEF NewInvocation, InvocationType
  <1>6. Len(b.handed) \in Nat
    BY <1>1 DEF BookTyped
  <1> HIDE DEF new
  <1>7. /\ DOMAIN next = DOMAIN invs \cup {q} /\ next[q] = new
        /\ \A r \in DOMAIN invs : r # q => next[r] = invs[r]
    BY <1>3, <1>4 DEF Put
  <1>8. \A e : e \in gone <=> e \in HeldIn(invs) /\ e.to = q
    <2>1. CASE q \in DOMAIN invs
      <3>1. gone = {[to |-> q, what |-> p.id] : p \in Range(invs[q].telemetry)}
        BY <2>1 DEF gone, HeldFor, Accepts
      <3>2. ASSUME NEW e \in gone PROVE e \in HeldIn(invs) /\ e.to = q
        BY <2>1, <3>1, <3>2 DEF HeldIn
      <3>3. ASSUME NEW e \in HeldIn(invs), e.to = q PROVE e \in gone
        <4>1. PICK r \in DOMAIN invs :
                e \in {[to |-> r, what |-> p.id] : p \in Range(invs[r].telemetry)}
          BY <3>3 DEF HeldIn
        <4>2. r = q
          BY <3>3, <4>1
        <4> QED
          BY <3>1, <4>1, <4>2
      <3> QED
        BY <3>2, <3>3
    <2>2. CASE q \notin DOMAIN invs
      <3>1. gone = {}
        BY <2>2 DEF gone, HeldFor, Accepts
      <3>2. ASSUME NEW e \in HeldIn(invs) PROVE e.to # q
        BY <2>2 DEF HeldIn
      <3> QED
        BY <3>1, <3>2
    <2> QED
      BY <2>1, <2>2
  <1>9. HeldIn(next) = HeldIn(invs) \ gone
    <2>1. ASSUME NEW e PROVE e \in HeldIn(next) <=> e \in HeldIn(invs) /\ e.to # q
      <3>1. \A i \in DOMAIN next[q].telemetry : FALSE
        BY <1>5, <1>7
      <3>2. \A r \in DOMAIN invs : \A i : r # q => EntryAt(next, r, i) = EntryAt(invs, r, i)
        BY <1>7 DEF EntryAt
      <3>3. \A r, i : EntryAt(invs, r, i).to = r
        BY DEF EntryAt
      <3>4. ASSUME e \in HeldIn(next) PROVE e \in HeldIn(invs) /\ e.to # q
        <4>1. PICK r \in DOMAIN next : \E i \in DOMAIN next[r].telemetry : e = EntryAt(next, r, i)
          BY <3>4, HeldIs
        <4>2. r # q /\ r \in DOMAIN invs
          BY <1>7, <3>1, <4>1
        <4> QED
          BY <1>7, <3>2, <3>3, <4>1, <4>2, HeldIs
      <3>5. ASSUME e \in HeldIn(invs), e.to # q PROVE e \in HeldIn(next)
        <4>1. PICK r \in DOMAIN invs : \E i \in DOMAIN invs[r].telemetry : e = EntryAt(invs, r, i)
          BY <3>5, HeldIs
        <4>2. r # q /\ r \in DOMAIN next
          BY <1>7, <3>3, <3>5, <4>1
        <4> QED
          BY <1>7, <3>2, <4>1, <4>2, HeldIs
      <3> QED
        BY <3>4, <3>5
    <2> QED
      BY <1>8, <2>1
  <1>10. BookTyped(c)
    BY <1>1, <1>3, <1>4, <1>5, <1>6, <1>7 DEF BookTyped
  <1>11. Places(c)
    <2>1. ASSUME NEW r \in DOMAIN next, NEW i \in DOMAIN next[r].telemetry,
                 NEW j \in DOMAIN next[r].telemetry, EntryAt(next, r, i) = EntryAt(next, r, j)
          PROVE  i = j
      <3>1. CASE r = q
        BY <1>5, <1>7, <3>1
      <3>2. CASE r \in DOMAIN invs /\ r # q
        BY <1>1, <1>7, <2>1, <3>2 DEF Places, EntryAt
      <3> QED
        BY <1>7, <3>1, <3>2
    <2>2. gone \subseteq HeldIn(invs)
      BY <1>8
    <2>3. /\ Range(c.handed) \cap HeldIn(next) = {}
          /\ c.discarded \cap (Range(c.handed) \cup HeldIn(next)) = {}
          /\ Range(c.handed) \cup HeldIn(next) \cup c.discarded = c.attached
      BY <1>1, <1>4, <1>9, <2>2 DEF Places
    <2> QED
      BY <1>1, <1>4, <2>1, <2>3 DEF Places
  <1>12. /\ \A k \in 1..last : k \in 1..(last + 1) /\ k # last + 1
         /\ \A k \in 1..(last + 1) : k \in 1..last \/ k = last + 1
         /\ last + 1 \in 1..(last + 1)
    OBVIOUS
  <1>13. /\ \A r : Repeated(ids, last, r) => Repeated(ids, last + 1, r)
         /\ Begun(ids, last + 1) = Begun(ids, last) \cup {q}
         /\ q \in Begun(ids, last) => Repeated(ids, last + 1, q)
    <2>1. \A r : Repeated(ids, last, r) => Repeated(ids, last + 1, r)
      BY <1>12 DEF Repeated
    <2>2. Begun(ids, last + 1) = Begun(ids, last) \cup {q}
      BY <1>12 DEF Begun
    <2>3. ASSUME q \in Begun(ids, last) PROVE Repeated(ids, last + 1, q)
      <3>1. PICK k \in 1..last : ids[k] = q
        BY <2>3 DEF Begun
      <3> QED
        BY <1>12, <3>1 DEF Repeated
    <2> QED
      BY <2>1, <2>2, <2>3
  <1>14. Single(c, ids, last + 1)
    BY <1>1, <1>4, <1>13 DEF Single
  <1>15. Known(c, ids, last + 1)
    <2>1. DOMAIN next \subseteq Begun(ids, last + 1)
      BY <1>1, <1>7, <1>13 DEF Known
    <2>2. \A e \in c.attached : e.to \in Begun(ids, last + 1)
      BY <1>1, <1>4, <1>13 DEF Known
    <2>3. \A r \in Begun(ids, last + 1) : r \in DOMAIN next \/ \E e \in Range(c.handed) : e.to = r
      BY <1>1, <1>4, <1>7, <1>13 DEF Known
    <2>4. InHand(c, ids[last + 1])
      BY <1>7 DEF InHand
    <2>5. ASSUME NEW e \in c.discarded PROVE Repeated(ids, last + 1, e.to)
      <3>1. CASE e \in b.discarded
        BY <1>1, <1>13, <3>1 DEF Known
      <3>2. CASE e \in gone
        <4>1. e \in b.attached /\ e.to = q
          BY <1>1, <1>8, <3>2 DEF Places
        <4> QED
          BY <1>1, <1>13, <4>1 DEF Known
      <3> QED
        BY <1>4, <3>1, <3>2
    <2> QED
      BY <2>1, <2>2, <2>3, <2>4, <2>5 DEF Known
  <1>16. TurnedAway(c, ids, last + 1)
    <2>1. \A r : Outrun(b, ids, last, r) => Outrun(c, ids, last + 1, r)
      BY <1>4, <1>12 DEF Outrun
    <2> SUFFICES ASSUME NEW e \in b.ignored
                 PROVE  /\ e.what.kind = "agent" => Outrun(c, ids, last + 1, e.to)
                        /\ e.to \in Begun(ids, last + 1)
                        /\ ~Repeated(ids, last + 1, e.to)
                             => /\ e.what.kind # "agent" /\ e.to \notin DOMAIN next
                                /\ \A f \in Range(c.handed) : f.to = e.to => f.what.kind = "agent"
      BY <1>4 DEF TurnedAway
    <2>2. /\ e.what.kind = "agent" => Outrun(b, ids, last, e.to)
          /\ e.to \in Begun(ids, last)
          /\ ~Repeated(ids, last, e.to)
               => /\ e.what.kind # "agent" /\ e.to \notin DOMAIN invs
                  /\ \A f \in Range(b.handed) : f.to = e.to => f.what.kind = "agent"
      BY <1>1 DEF TurnedAway
    <2>3. ~Repeated(ids, last + 1, e.to) => e.to # q
      BY <1>13, <2>2
    <2> QED
      BY <1>4, <1>7, <1>13, <2>1, <2>2, <2>3
  <1> QED
    BY <1>4, <1>5, <1>7, <1>10, <1>11, <1>14, <1>15, <1>16 DEF BookInv, c

-----------------------------------------------------------------------------
(* PollLogServer: a loop over the buffered reports.  That the function which
   stands for the loop exists, and what holds after each report, is shown by
   looking at the least number of reports for which it would fail. *)

ReportOf(k) == Payload("report", k, 0)
IsPolled(g, b, n) ==
  g = [k \in 0..n |-> IF k = 0 THEN b
                      ELSE Attach(g[k - 1], requestOf[platformLogs[k]], ReportOf(platformLogs[k]))]

\* The function that stands for the loop of pollLogServer exists.
LEMMA PolledExists ==
  ASSUME NEW b, NEW n \in Nat
  PROVE  \E g : IsPolled(g, b, n)
  <1> DEFINE Missing == {k \in Nat : ~\E g : IsPolled(g, b, k)}
  <1>1. SUFFICES ASSUME Missing # {} PROVE FALSE
    OBVIOUS
  <1>2. PICK m \in Missing : \A u \in Missing : ~(u < m)
    BY <1>1, LeastOf
  <1>3. CASE m = 0
    <2>1. IsPolled([k \in 0..0 |-> b], b, 0)
      BY DEF IsPolled
    <2> QED
      BY <1>2, <1>3, <2>1
  <1>4. CASE m # 0
    <2>1. m - 1 \in Nat /\ m - 1 < m
      BY <1>4
    <2>2. PICK g : IsPolled(g, b, m - 1)
      BY <1>2, <2>1
    <2> DEFINE last == Attach(g[m - 1], requestOf[platformLogs[m]], ReportOf(platformLogs[m]))
               h == [k \in 0..m |-> IF k = m THEN last ELSE g[k]]
    <2>3. \A k \in 0..(m - 1) :
            g[k] = IF k = 0 THEN b
                   ELSE Attach(g[k - 1], requestOf[platformLogs[k]], ReportOf(platformLogs[k]))
      BY <2>2 DEF IsPolled
    <2>4. ASSUME NEW k \in 0..m
          PROVE  h[k] = IF k = 0 THEN b
                        ELSE Attach(h[k - 1], requestOf[platformLogs[k]], ReportOf(platformLogs[k]))
      <3>1. CASE k = m
        <4>1. h[k - 1] = g[m - 1]
          BY <1>4, <3>1
        <4> QED
          BY <1>4, <3>1, <4>1
      <3>2. CASE k # m
        <4>1. k \in 0..(m - 1) /\ h[k] = g[k]
          BY <3>2
        <4>2. k # 0 => h[k - 1] = g[k - 1]
          BY <3>2
        <4> QED
          BY <2>3, <4>1, <4>2
      <3> QED
        BY <3>1, <3>2
    <2>5. IsPolled(h, b, m)
      BY <2>4, Zenon DEF IsPolled
    <2> QED
      BY <1>2, <2>5
  <1> QED
    BY <1>3, <1>4

\* pollLogServer, report by report.
LEMMA PollUnfolds ==
  ASSUME NEW b, platformLogs \in Seq(Invocations)
  PROVE  \E g : /\ PollLogServer(b) = g[Len(platformLogs)] /\ g[0] = b
                /\ \A n \in 1..Len(platformLogs) :
                     g[n] = Attach(g[n - 1], requestOf[platformLogs[n]], ReportOf(platformLogs[n]))
  <1> DEFINE polled == CHOOSE g : IsPolled(g, b, Len(platformLogs))
  <1>1. IsPolled(polled, b, Len(platformLogs))
    BY PolledExists
  <1>2. PollLogServer(b) = polled[Len(platformLogs)]
    BY DEF PollLogServer, IsPolled, ReportOf
  <1> HIDE DEF polled
  <1>3. \A k \in 0..Len(platformLogs) :
          polled[k] = IF k = 0 THEN b
                      ELSE Attach(polled[k - 1], requestOf[platformLogs[k]], ReportOf(platformLogs[k]))
    BY <1>1 DEF IsPolled
  <1>4. polled[0] = b
    BY <1>3
  <1>5. \A n \in 1..Len(platformLogs) :
          polled[n] = Attach(polled[n - 1], requestOf[platformLogs[n]], ReportOf(platformLogs[n]))
    BY <1>3
  <1> QED
    BY <1>2, <1>4, <1>5

\* The report of invocation k, as it is attached.
IsReport(e, k) == e.what.kind = "report" /\ e.what.of = k /\ e.to = requestOf[k]

\* What holds when the first n reports have gone from the buffer to the book.
PolledSome(b, c, last, n) ==
  /\ BookInv(c, requestOf, last)
  /\ c.handed = b.handed /\ c.discarded = b.discarded /\ c.since = b.since
  /\ DOMAIN c.batch.invocations = DOMAIN b.batch.invocations
  /\ b.attached \subseteq c.attached /\ b.ignored \subseteq c.ignored
  /\ \A e \in c.attached :
       e \in b.attached \/ \E k \in 1..n : IsReport(e, platformLogs[k])

\* No report the log server holds has been attached before.
ReportsNew(b, last) ==
  /\ platformLogs \in Seq(Invocations) /\ IsInjective(platformLogs)
  /\ Range(platformLogs) \subseteq 1..last
  /\ \A e \in b.attached : e.what.kind = "report" =>
       /\ e.what.of \in (1..last) \ Range(platformLogs)
       /\ e.to = requestOf[e.what.of]
  /\ \A e \in Range(b.handed) : e.what.kind \in {"agent", "report"}

\* One report: attached, or turned away.
LEMMA PollOne ==
  ASSUME requestOf \in Assignments,
         NEW b, NEW c, NEW last \in 0..NumInvocations, ReportsNew(b, last),
         BookInv(b, requestOf, last), NEW n \in 1..Len(platformLogs),
         PolledSome(b, c, last, n - 1)
  PROVE  PolledSome(b, Attach(c, requestOf[platformLogs[n]], ReportOf(platformLogs[n])),
                    last, n)
  <1> DEFINE v == platformLogs[n]
             r == requestOf[v]
             p == ReportOf(v)
             d == Attach(c, r, p)
             entry == [to |-> r, what |-> p.id]
  <1>1. n \in DOMAIN platformLogs /\ v \in 1..last /\ v \in Range(platformLogs)
    BY DEF ReportsNew, Range
  <1>2. v \in Invocations /\ r \in Requests /\ r \in Begun(requestOf, last)
    BY <1>1, BegunIs
  <1> HIDE DEF v
  <1>3. p \in PayloadType /\ p.id \in PayloadIds /\ p.id.kind = "report" /\ p.id.of = v
    <2>1. 0 \in 0..(LastInstant - FirstInstant) /\ "report" \in Kinds
      BY Bounds DEF Kinds
    <2> QED
      BY <1>2, <2>1, PayloadIs DEF ReportOf
  <1> HIDE DEF p
  <1>4. entry.to = r /\ entry.what = p.id
    OBVIOUS
  <1> HIDE DEF r, d, entry
  <1>5. entry \notin c.attached
    <2> SUFFICES ASSUME entry \in c.attached PROVE FALSE
      OBVIOUS
    <2>1. entry \notin b.attached
      BY <1>1, <1>3, <1>4 DEF ReportsNew
    <2>2. PICK k \in 1..(n - 1) : IsReport(entry, platformLogs[k])
      BY <2>1 DEF PolledSome
    <2>3. k \in DOMAIN platformLogs /\ k # n
      BY <1>1 DEF ReportsNew
    <2>4. platformLogs[k] = platformLogs[n]
      BY <1>3, <1>4, <2>2 DEF IsReport, v
    <2> QED
      BY <1>1, <2>3, <2>4 DEF ReportsNew, IsInjective
  <1>6. ASSUME NEW f \in Range(c.handed), f.to = r, f.what.kind # "agent"
        PROVE  Repeated(requestOf, last, r)
    <2>1. f \in Range(b.handed) /\ f \in b.attached
      BY DEF PolledSome, BookInv, Places
    <2>2. f.what.of \in (1..last) \ Range(platformLogs) /\ r = requestOf[f.what.of]
      BY <1>6, <2>1 DEF ReportsNew
    <2> QED
      BY <1>1, <2>2 DEF Repeated, r
  <1>7. BookInv(c, requestOf, last)
    BY DEF PolledSome
  <1>8. Fits(c, requestOf, last, r, p.id)
    BY <1>3, <1>4, <1>5, <1>6 DEF Fits, entry
  <1>9. Offered(c, d, requestOf, last, entry)
    BY <1>2, <1>3, <1>7, <1>8, AttachInv DEF d, entry, r
  <1>10. /\ BookInv(d, requestOf, last)
         /\ d.handed = c.handed /\ d.discarded = c.discarded /\ d.since = c.since
         /\ DOMAIN d.batch.invocations = DOMAIN c.batch.invocations
         /\ d.attached = c.attached \/ d.attached = c.attached \cup {entry}
         /\ c.ignored \subseteq d.ignored
    BY <1>9 DEF Offered
  <1>11. IsReport(entry, platformLogs[n])
    BY <1>3, <1>4 DEF IsReport, r, v
  <1>12. \A e \in d.attached :
           e \in b.attached \/ \E k \in 1..n : IsReport(e, platformLogs[k])
    BY <1>10, <1>11 DEF PolledSome
  <1>13. PolledSome(b, d, last, n)
    BY <1>10, <1>12 DEF PolledSome
  <1> QED
    BY <1>13 DEF d, p, r, v

\* pollLogServer leaves the book in order, every report attached or turned away.
LEMMA PollInv ==
  ASSUME requestOf \in Assignments, NEW b, NEW last \in 0..NumInvocations,
         BookInv(b, requestOf, last), ReportsNew(b, last)
  PROVE  PolledSome(b, PollLogServer(b), last, Len(platformLogs))
  <1>1. Len(platformLogs) \in Nat /\ platformLogs \in Seq(Invocations)
    BY DEF ReportsNew
  <1>2. PICK g : /\ PollLogServer(b) = g[Len(platformLogs)] /\ g[0] = b
                 /\ \A n \in 1..Len(platformLogs) :
                      g[n] = Attach(g[n - 1], requestOf[platformLogs[n]],
                                    ReportOf(platformLogs[n]))
    BY <1>1, PollUnfolds
  <1> DEFINE Wrong == {n \in 0..Len(platformLogs) : ~PolledSome(b, g[n], last, n)}
  <1>3. ASSUME Wrong # {} PROVE FALSE
    <2>1. Wrong \subseteq Nat
      OBVIOUS
    <2>2. PICK m \in Wrong : \A u \in Wrong : ~(u < m)
      BY <1>3, <2>1, LeastOf
    <2>3. m # 0
      <3>1. PolledSome(b, b, last, 0)
        BY DEF PolledSome
      <3> QED
        BY <1>2, <2>2, <3>1
    <2>4. m \in 1..Len(platformLogs) /\ m - 1 \in 0..Len(platformLogs) /\ m - 1 < m
      BY <1>1, <2>3
    <2>5. PolledSome(b, g[m - 1], last, m - 1)
      BY <2>2, <2>4
    <2>6. PolledSome(b, g[m], last, m)
      BY <1>2, <2>4, <2>5, PollOne
    <2> QED
      BY <2>6
  <1> QED
    BY <1>1, <1>2, <1>3

-----------------------------------------------------------------------------
(* ShipHarvest: a loop over the invocations a harvest took. *)

\* SetToSeq lists every element of a finite set once.
LEMMA OrderIs ==
  ASSUME NEW S, IsFiniteSet(S)
  PROVE  LET order == SetToSeq(S)
         IN  /\ order \in Seq(S) /\ IsInjective(order) /\ Range(order) = S
  <1> DEFINE order == SetToSeq(S)
             N == Cardinality(S)
  <1>1. N \in Nat /\ ExistsBijection(1..N, S)
    BY FS_CardinalityType
  <1>2. \E f \in [1..N -> S] : IsInjective(f)
    BY <1>1 DEF ExistsBijection, Bijection, Injection
  <1>3. order \in [1..N -> S] /\ IsInjective(order)
    BY <1>2 DEF SetToSeq
  <1> HIDE DEF order
  <1>4. order \in Seq(S) /\ DOMAIN order = 1..N /\ Range(order) \subseteq S
    BY <1>1, <1>3 DEF Range
  <1>5. Range(order) = S
    <2> DEFINE T == Range(order)
    <2>1. order \in Bijection(1..N, T)
      BY <1>3, <1>4 DEF Bijection, Injection, Surjection, Range
    <2>2. IsFiniteSet(1..N) /\ Cardinality(1..N) = N
      BY <1>1, FS_Interval
    <2>3. ExistsBijection(1..N, T)
      BY <2>1 DEF ExistsBijection
    <2>4. IsFiniteSet(T) /\ Cardinality(T) = N
      BY <2>2, <2>3, FS_Bijection
    <2> QED
      BY <1>4, <2>4, FS_Subset
  <1> QED
    BY <1>3, <1>4, <1>5 DEF order

\* What a sequence ranges over, by its positions.
LEMMA RangeIs ==
  ASSUME NEW f, NEW e
  PROVE  e \in Range(f) <=> \E i \in DOMAIN f : e = f[i]
  BY DEF Range

\* Sequences without repetitions that have nothing in common.
LEMMA ConcatIs ==
  ASSUME NEW s \in Seq(Entries), NEW t \in Seq(Entries), IsInjective(s), IsInjective(t),
         Range(s) \cap Range(t) = {}
  PROVE  /\ s \o t \in Seq(Entries) /\ IsInjective(s \o t)
         /\ Range(s \o t) = Range(s) \cup Range(t)
         /\ Len(s) <= Len(s \o t) /\ \A i \in 1..Len(s) : (s \o t)[i] = s[i]
  <1> DEFINE u == s \o t
  <1>1. /\ u \in Seq(Entries) /\ Len(u) = Len(s) + Len(t)
        /\ \A i \in 1..Len(u) : u[i] = IF i <= Len(s) THEN s[i] ELSE t[i - Len(s)]
    OBVIOUS
  <1>2. /\ Len(s) \in Nat /\ Len(t) \in Nat /\ DOMAIN s = 1..Len(s) /\ DOMAIN t = 1..Len(t)
        /\ DOMAIN u = 1..Len(u)
    BY <1>1
  <1> HIDE DEF u
  <1>3. ASSUME NEW i \in DOMAIN u
        PROVE  \/ i \in DOMAIN s /\ u[i] = s[i]
               \/ i - Len(s) \in DOMAIN t /\ u[i] = t[i - Len(s)]
    BY <1>1, <1>2
  <1>4. \A i \in DOMAIN s : i \in DOMAIN u /\ u[i] = s[i]
    BY <1>1, <1>2
  <1>5. \A i \in DOMAIN t : i + Len(s) \in DOMAIN u /\ u[i + Len(s)] = t[i]
    BY <1>1, <1>2
  <1>6. Range(u) = Range(s) \cup Range(t)
    <2>1. ASSUME NEW e \in Range(u) PROVE e \in Range(s) \cup Range(t)
      BY <1>3, RangeIs
    <2>2. ASSUME NEW e \in Range(s) PROVE e \in Range(u)
      BY <1>4, RangeIs
    <2>3. ASSUME NEW e \in Range(t) PROVE e \in Range(u)
      BY <1>5, RangeIs
    <2> QED
      BY <2>1, <2>2, <2>3
  <1>7. IsInjective(u)
    <2> SUFFICES ASSUME NEW i \in DOMAIN u, NEW j \in DOMAIN u, u[i] = u[j] PROVE i = j
      BY DEF IsInjective
    <2>1. \A k \in DOMAIN s : s[k] \in Range(s)
      BY DEF Range
    <2>2. \A k \in DOMAIN t : t[k] \in Range(t)
      BY DEF Range
    <2>3. CASE i \in DOMAIN s /\ u[i] = s[i]
      <3>1. j \in DOMAIN s /\ u[j] = s[j]
        BY <1>3, <2>1, <2>2, <2>3
      <3> QED
        BY <2>3, <3>1 DEF IsInjective
    <2>4. CASE i - Len(s) \in DOMAIN t /\ u[i] = t[i - Len(s)]
      <3>1. j - Len(s) \in DOMAIN t /\ u[j] = t[j - Len(s)]
        BY <1>3, <2>1, <2>2, <2>4
      <3>2. i - Len(s) = j - Len(s)
        BY <2>4, <3>1 DEF IsInjective
      <3> QED
        BY <1>2, <3>2
    <2> QED
      BY <1>3, <2>3, <2>4
  <1>8. Len(s) <= Len(u) /\ \A i \in 1..Len(s) : u[i] = s[i]
    BY <1>1, <1>2, <1>4
  <1> QED
    BY <1>1, <1>6, <1>7, <1>8 DEF u

\* A harvest h of b takes the invocations of S and leaves the others as they are.
Splits(b, h, S) ==
  /\ IsBatch(h.batch) /\ S \subseteq DOMAIN b.invocations /\ DOMAIN h.taken = S
  /\ \A r \in S : h.taken[r] = b.invocations[r]
  /\ DOMAIN h.batch.invocations = DOMAIN b.invocations \ S
  /\ \A r \in DOMAIN b.invocations \ S : h.batch.invocations[r] = b.invocations[r]

IsSliced(g, base, h, order, n) ==
  g = [k \in 0..n |-> IF k = 0 THEN base ELSE g[k - 1] \o Sent(h, order[k])]

\* The function that stands for the loop of shipHarvest exists.
LEMMA SlicedExists ==
  ASSUME NEW base, NEW h, NEW order, NEW n \in Nat
  PROVE  \E g : IsSliced(g, base, h, order, n)
  <1> DEFINE Missing == {k \in Nat : ~\E g : IsSliced(g, base, h, order, k)}
  <1>1. SUFFICES ASSUME Missing # {} PROVE FALSE
    OBVIOUS
  <1>2. PICK m \in Missing : \A u \in Missing : ~(u < m)
    BY <1>1, LeastOf
  <1>3. CASE m = 0
    <2>1. IsSliced([k \in 0..0 |-> base], base, h, order, 0)
      BY DEF IsSliced
    <2> QED
      BY <1>2, <1>3, <2>1
  <1>4. CASE m # 0
    <2>1. m - 1 \in Nat /\ m - 1 < m
      BY <1>4
    <2>2. PICK g : IsSliced(g, base, h, order, m - 1)
      BY <1>2, <2>1
    <2> DEFINE f == [k \in 0..m |-> IF k = m THEN g[m - 1] \o Sent(h, order[m]) ELSE g[k]]
    <2>3. \A k \in 0..(m - 1) :
            g[k] = IF k = 0 THEN base ELSE g[k - 1] \o Sent(h, order[k])
      BY <2>2 DEF IsSliced
    <2>4. ASSUME NEW k \in 0..m
          PROVE  f[k] = IF k = 0 THEN base ELSE f[k - 1] \o Sent(h, order[k])
      <3>1. CASE k = m
        <4>1. f[k - 1] = g[m - 1]
          BY <1>4, <3>1
        <4> QED
          BY <1>4, <3>1, <4>1
      <3>2. CASE k # m
        <4>1. k \in 0..(m - 1) /\ f[k] = g[k]
          BY <3>2
        <4>2. k # 0 => f[k - 1] = g[k - 1]
          BY <3>2
        <4> QED
          BY <2>3, <4>1, <4>2
      <3> QED
        BY <3>1, <3>2
    <2>5. IsSliced(f, base, h, order, m)
      BY <2>4, Zenon DEF IsSliced
    <2> QED
      BY <1>2, <2>5
  <1> QED
    BY <1>3, <1>4

\* The loop over order makes the slice last of the slice base.
Loops(base, h, order, last) ==
  \E g : /\ last = g[Len(order)] /\ g[0] = base
         /\ \A n \in 1..Len(order) : g[n] = g[n - 1] \o Sent(h, order[n])

\* shipHarvest, invocation by invocation.
LEMMA ShipUnfolds ==
  ASSUME NEW b, IsBook(b), NEW h, Len(SetToSeq(DOMAIN h.taken)) \in Nat
  PROVE  LET order == SetToSeq(DOMAIN h.taken)
             c     == ShipHarvest(b, h)
         IN  /\ IsBook(c) /\ c.batch = h.batch
             /\ c.attached = b.attached /\ c.ignored = b.ignored
             /\ c.discarded = b.discarded /\ c.since = b.since
             /\ Loops(b.handed, h, order, c.handed)
  <1> DEFINE order == SetToSeq(DOMAIN h.taken)
             slice == CHOOSE g : IsSliced(g, b.handed, h, order, Len(order))
             c == ShipHarvest(b, h)
  <1>1. IsSliced(slice, b.handed, h, order, Len(order))
    BY SlicedExists
  <1>2. c = [b EXCEPT !.batch = h.batch, !.handed = slice[Len(order)]]
    BY DEF ShipHarvest, IsSliced
  <1> HIDE DEF slice, order, c
  <1>3. \A k \in 0..Len(order) :
          slice[k] = IF k = 0 THEN b.handed ELSE slice[k - 1] \o Sent(h, order[k])
    BY <1>1 DEF IsSliced
  <1>4. Len(order) \in Nat
    BY DEF order
  <1>5. slice[0] = b.handed
    BY <1>3, <1>4
  <1>6. ASSUME NEW n \in 1..Len(order)
        PROVE  slice[n] = slice[n - 1] \o Sent(h, order[n])
    <2>1. n \in 0..Len(order) /\ n # 0
      BY <1>4
    <2> QED
      BY <1>3, <2>1, Zenon
  <1>7. /\ IsBook(c) /\ c.batch = h.batch /\ c.handed = slice[Len(order)]
        /\ c.attached = b.attached /\ c.ignored = b.ignored
        /\ c.discarded = b.discarded /\ c.since = b.since
    BY <1>2 DEF IsBook
  <1>8. Loops(b.handed, h, order, c.handed)
    BY <1>5, <1>6, <1>7 DEF Loops
  <1> QED
    BY <1>7, <1>8 DEF order, c

\* One invocation that a harvest took from a book.
LEMMA SentIs ==
  ASSUME NEW b, NEW ids \in Assignments, NEW last \in 0..NumInvocations,
         BookInv(b, ids, last),
         NEW h, NEW S, Splits(b.batch, h, S), NEW r \in S
  PROVE  LET sent == Sent(h, r)
         IN  /\ sent \in Seq(Entries) /\ IsInjective(sent)
             /\ DOMAIN sent = DOMAIN h.taken[r].telemetry
             /\ \A i \in DOMAIN sent : sent[i] = EntryAt(h.taken, r, i)
             /\ \A i \in DOMAIN sent : EntryAt(h.taken, r, i) \in HeldIn(b.batch.invocations)
  <1> DEFINE sent == Sent(h, r)
             invs == b.batch.invocations
             tel  == h.taken[r].telemetry
  <1>1. BookTyped(b) /\ Places(b) /\ Known(b, ids, last)
    BY DEF BookInv
  <1>2. r \in DOMAIN invs /\ h.taken[r] = invs[r] /\ r \in Requests
    BY <1>1, BegunIs DEF Splits, Known
  <1>3. tel \in Seq(PayloadType)
    BY <1>1, <1>2 DEF BookTyped, InvocationType
  <1>4. DOMAIN sent = DOMAIN tel /\ \A i \in DOMAIN tel : sent[i] = EntryAt(h.taken, r, i)
    BY DEF Sent, EntryAt
  <1>5. ASSUME NEW i \in DOMAIN tel
        PROVE  /\ EntryAt(h.taken, r, i) = EntryAt(invs, r, i)
               /\ EntryAt(h.taken, r, i) \in HeldIn(invs)
    BY <1>2, HeldIs DEF EntryAt
  <1>6. \A i \in DOMAIN tel : EntryAt(h.taken, r, i) \in Entries
    BY <1>1, <1>5 DEF Places, BookTyped
  <1> HIDE DEF sent, tel
  <1>7. Len(tel) \in Nat /\ DOMAIN tel = 1..Len(tel)
    BY <1>3
  <1>8. sent \in [1..Len(tel) -> Entries]
    <2>1. sent = [i \in DOMAIN tel |-> sent[i]]
      BY DEF sent, tel, Sent
    <2> QED
      BY <1>4, <1>6, <1>7, <2>1
  <1>9. sent \in Seq(Entries)
    BY <1>7, <1>8
  <1>10. IsInjective(sent)
    BY <1>1, <1>2, <1>4, <1>5 DEF IsInjective, Places, tel
  <1> QED
    BY <1>4, <1>5, <1>9, <1>10 DEF sent, tel

\* What holds when the first n of the invocations in order are in the slice s.
Grown(s, t) == Len(s) <= Len(t) /\ \A i \in 1..Len(s) : t[i] = s[i]
SlicedSome(b, h, order, s, n) ==
  /\ s \in Seq(Entries) /\ IsInjective(s) /\ Grown(b.handed, s)
  /\ \A e : e \in Range(s) <=>
         \/ e \in Range(b.handed)
         \/ \E k \in 1..n : \E i \in DOMAIN h.taken[order[k]].telemetry :
              e = EntryAt(h.taken, order[k], i)

\* One more invocation in the slice.
LEMMA SliceOne ==
  ASSUME NEW b, NEW ids \in Assignments, NEW last \in 0..NumInvocations,
         BookInv(b, ids, last),
         NEW h, NEW S, Splits(b.batch, h, S),
         NEW order \in Seq(S), IsInjective(order), NEW n \in 1..Len(order),
         NEW s, SlicedSome(b, h, order, s, n - 1)
  PROVE  SlicedSome(b, h, order, s \o Sent(h, order[n]), n)
  <1> DEFINE r == order[n]
             sent == Sent(h, r)
             u == s \o sent
  <1>1. n \in DOMAIN order /\ r \in S /\ \A k \in 1..(n - 1) : k \in DOMAIN order /\ order[k] # r
    BY DEF IsInjective
  <1>2. /\ sent \in Seq(Entries) /\ IsInjective(sent)
        /\ DOMAIN sent = DOMAIN h.taken[r].telemetry
        /\ \A i \in DOMAIN sent : sent[i] = EntryAt(h.taken, r, i)
        /\ \A i \in DOMAIN sent : EntryAt(h.taken, r, i) \in HeldIn(b.batch.invocations)
    BY <1>1, SentIs
  <1> HIDE DEF sent, r
  <1>3. \A e : e \in Range(sent) <=>
              \E i \in DOMAIN h.taken[r].telemetry : e = EntryAt(h.taken, r, i)
    BY <1>2, RangeIs
  <1>4. Range(s) \cap Range(sent) = {}
    <2> SUFFICES ASSUME NEW e \in Range(s), e \in Range(sent) PROVE FALSE
      OBVIOUS
    <2>1. e.to = r
      BY <1>3 DEF EntryAt
    <2>2. e \notin Range(b.handed)
      BY <1>2, <1>3 DEF BookInv, Places
    <2>3. PICK k \in 1..(n - 1) : \E i \in DOMAIN h.taken[order[k]].telemetry :
                                   e = EntryAt(h.taken, order[k], i)
      BY <2>2 DEF SlicedSome
    <2>4. e.to = order[k]
      BY <2>3 DEF EntryAt
    <2> QED
      BY <1>1, <2>1, <2>4
  <1>5. s \in Seq(Entries) /\ IsInjective(s)
    BY DEF SlicedSome
  <1>6. /\ u \in Seq(Entries) /\ IsInjective(u) /\ Range(u) = Range(s) \cup Range(sent)
        /\ Grown(s, u)
    BY <1>2, <1>4, <1>5, ConcatIs DEF Grown
  <1> HIDE DEF u
  <1>7. ASSUME NEW e
        PROVE  e \in Range(u) <=>
                 \/ e \in Range(b.handed)
                 \/ \E k \in 1..n : \E i \in DOMAIN h.taken[order[k]].telemetry :
                      e = EntryAt(h.taken, order[k], i)
    <2>1. e \in Range(u) <=> e \in Range(s) \/ e \in Range(sent)
      BY <1>6
    <2>2. \A k : k \in 1..n <=> k \in 1..(n - 1) \/ k = n
      OBVIOUS
    <2> QED
      BY <1>3, <2>1, <2>2, ZenonT(30) DEF SlicedSome, r
  <1>8. Grown(b.handed, u)
    <2>1. b.handed \in Seq(Entries) /\ Grown(b.handed, s)
      BY DEF SlicedSome, BookInv, BookTyped
    <2>2. Len(b.handed) \in Nat /\ Len(s) \in Nat /\ Len(u) \in Nat
      BY <1>5, <1>6, <2>1
    <2>3. \A i \in 1..Len(b.handed) : i \in 1..Len(s)
      BY <2>1, <2>2 DEF Grown
    <2> QED
      BY <1>6, <2>1, <2>2, <2>3 DEF Grown
  <1>9. SlicedSome(b, h, order, u, n)
    BY <1>6, <1>7, <1>8 DEF SlicedSome
  <1> QED
    BY <1>9 DEF u, sent, r

\* The slice of a harvest: what was handed before, and what the harvest took.
LEMMA ShipIs ==
  ASSUME NEW b, NEW ids \in Assignments, NEW last \in 0..NumInvocations,
         BookInv(b, ids, last),
         NEW h, NEW S, Splits(b.batch, h, S)
  PROVE  LET c == ShipHarvest(b, h)
         IN  /\ IsBook(c) /\ c.batch = h.batch
             /\ c.attached = b.attached /\ c.ignored = b.ignored
             /\ c.discarded = b.discarded /\ c.since = b.since
             /\ c.handed \in Seq(Entries) /\ IsInjective(c.handed)
             /\ Grown(b.handed, c.handed)
             /\ Range(c.handed) = Range(b.handed) \cup HeldIn(h.taken)
  <1> DEFINE order == SetToSeq(DOMAIN h.taken)
             c == ShipHarvest(b, h)
  <1>1. DOMAIN h.taken = S /\ IsFiniteSet(S)
    <2>1. S \subseteq Requests /\ DOMAIN h.taken = S
      BY BegunIs DEF Splits, BookInv, Known
    <2>2. IsFiniteSet(Requests)
      BY Bounds, FS_Interval DEF Requests
    <2> QED
      BY <2>1, <2>2, FS_Subset
  <1>2. order \in Seq(S) /\ IsInjective(order) /\ Range(order) = S
    BY <1>1, OrderIs
  <1>3. Len(order) \in Nat /\ DOMAIN order = 1..Len(order)
    BY <1>2
  <1>4. IsBook(b)
    BY DEF BookInv, BookTyped
  <1>5. /\ IsBook(c) /\ c.batch = h.batch
        /\ c.attached = b.attached /\ c.ignored = b.ignored
        /\ c.discarded = b.discarded /\ c.since = b.since
        /\ Loops(b.handed, h, order, c.handed)
    BY <1>3, <1>4, ShipUnfolds
  <1> HIDE DEF order, c
  <1>6. PICK g : /\ c.handed = g[Len(order)] /\ g[0] = b.handed
                 /\ \A n \in 1..Len(order) : g[n] = g[n - 1] \o Sent(h, order[n])
    BY <1>5 DEF Loops
  <1> DEFINE Wrong == {n \in 0..Len(order) : ~SlicedSome(b, h, order, g[n], n)}
  <1>7. ASSUME Wrong # {} PROVE FALSE
    <2>1. Wrong \subseteq Nat
      OBVIOUS
    <2>2. PICK m \in Wrong : \A u \in Wrong : ~(u < m)
      BY <1>7, <2>1, LeastOf
    <2>3. m # 0
      <3>1. SlicedSome(b, h, order, b.handed, 0)
        <4>1. b.handed \in Seq(Entries) /\ IsInjective(b.handed)
          BY DEF BookInv, BookTyped, Places
        <4>2. Grown(b.handed, b.handed)
          BY <4>1 DEF Grown
        <4> QED
          BY <4>1, <4>2 DEF SlicedSome
      <3> QED
        BY <1>6, <2>2, <3>1
    <2>4. m \in 1..Len(order) /\ m - 1 \in 0..Len(order) /\ m - 1 < m
      BY <1>3, <2>3
    <2>5. SlicedSome(b, h, order, g[m - 1], m - 1)
      BY <2>2, <2>4
    <2>6. SlicedSome(b, h, order, g[m], m)
      BY <1>2, <1>6, <2>4, <2>5, SliceOne
    <2> QED
      BY <2>6
  <1>8. SlicedSome(b, h, order, c.handed, Len(order))
    BY <1>3, <1>6, <1>7
  <1>9. ASSUME NEW e
        PROVE  e \in Range(c.handed) <=> e \in Range(b.handed) \/ e \in HeldIn(h.taken)
    <2>1. \A k \in 1..Len(order) : order[k] \in S
      BY <1>2, <1>3, RangeIs
    <2>2. \A r \in S : \E k \in 1..Len(order) : r = order[k]
      BY <1>2, <1>3, RangeIs
    <2>3. e \in HeldIn(h.taken) <=>
            \E r \in S : \E i \in DOMAIN h.taken[r].telemetry : e = EntryAt(h.taken, r, i)
      BY <1>1, HeldIs
    <2>4. (\E r \in S : \E i \in DOMAIN h.taken[r].telemetry : e = EntryAt(h.taken, r, i))
          <=> \E k \in 1..Len(order) : \E i \in DOMAIN h.taken[order[k]].telemetry :
                e = EntryAt(h.taken, order[k], i)
      BY <2>1, <2>2, Zenon
    <2> QED
      BY <1>8, <2>3, <2>4 DEF SlicedSome
  <1>10. c.handed \in Seq(Entries) /\ IsInjective(c.handed) /\ Grown(b.handed, c.handed)
    BY <1>8 DEF SlicedSome
  <1>11. Range(c.handed) = Range(b.handed) \cup HeldIn(h.taken)
    BY <1>9
  <1> QED
    BY <1>5, <1>10, <1>11 DEF c

\* A harvest that takes invocations with telemetry only, once it is shipped.
Shipping(b, c, ids, last, S) ==
  /\ BookInv(c, ids, last) /\ c.attached = b.attached /\ c.ignored = b.ignored
  /\ c.discarded = b.discarded /\ c.since = b.since /\ Grown(b.handed, c.handed)
  /\ Range(b.handed) \subseteq Range(c.handed)
  /\ \A e \in HeldIn(b.batch.invocations) : e.to \in S => e \in Range(c.handed)
  /\ DOMAIN c.batch.invocations = DOMAIN b.batch.invocations \ S
  /\ \A r \in DOMAIN c.batch.invocations :
       c.batch.invocations[r] = b.batch.invocations[r]

\* Shipping invocations that have a payload leaves the book in order.
LEMMA ShipInv ==
  ASSUME NEW b, NEW ids \in Assignments, NEW last \in 0..NumInvocations,
         BookInv(b, ids, last),
         NEW h, NEW S, Splits(b.batch, h, S),
         \A r \in S : Len(b.batch.invocations[r].telemetry) >= 1
  PROVE  Shipping(b, ShipHarvest(b, h), ids, last, S)
  <1> DEFINE c == ShipHarvest(b, h)
             invs == b.batch.invocations
             left == h.batch.invocations
  <1>1. /\ BookTyped(b) /\ Places(b) /\ Single(b, ids, last) /\ Known(b, ids, last)
        /\ TurnedAway(b, ids, last)
    BY DEF BookInv
  <1>2. /\ IsBook(c) /\ c.batch = h.batch /\ c.attached = b.attached /\ c.ignored = b.ignored
        /\ c.discarded = b.discarded /\ c.since = b.since
        /\ c.handed \in Seq(Entries) /\ IsInjective(c.handed) /\ Grown(b.handed, c.handed)
        /\ Range(c.handed) = Range(b.handed) \cup HeldIn(h.taken)
    BY ShipIs
  <1> HIDE DEF c
  <1>3. /\ IsBatch(h.batch) /\ S \subseteq DOMAIN invs /\ DOMAIN h.taken = S
        /\ \A r \in S : h.taken[r] = invs[r]
        /\ DOMAIN left = DOMAIN invs \ S
        /\ \A r \in DOMAIN left : left[r] = invs[r]
    BY DEF Splits
  <1>4. ASSUME NEW e \in HeldIn(h.taken)
        PROVE  e \in HeldIn(invs) /\ e.to \in S
    <2>1. PICK r \in DOMAIN h.taken : \E i \in DOMAIN h.taken[r].telemetry :
                                       e = EntryAt(h.taken, r, i)
      BY HeldIs
    <2>2. \E i \in DOMAIN invs[r].telemetry : e = EntryAt(invs, r, i)
      BY <1>3, <2>1 DEF EntryAt
    <2> QED
      BY <1>3, <2>1, <2>2, HeldIs DEF EntryAt
  <1>5. ASSUME NEW e \in HeldIn(left)
        PROVE  e \in HeldIn(invs) /\ e.to \notin S
    <2>1. PICK r \in DOMAIN left : \E i \in DOMAIN left[r].telemetry : e = EntryAt(left, r, i)
      BY HeldIs
    <2>2. \E i \in DOMAIN invs[r].telemetry : e = EntryAt(invs, r, i)
      BY <1>3, <2>1 DEF EntryAt
    <2> QED
      BY <1>3, <2>1, <2>2, HeldIs DEF EntryAt
  <1>6. ASSUME NEW e \in HeldIn(invs)
        PROVE  e \in HeldIn(h.taken) \/ e \in HeldIn(left)
    <2>1. PICK r \in DOMAIN invs : \E i \in DOMAIN invs[r].telemetry : e = EntryAt(invs, r, i)
      BY HeldIs
    <2>2. CASE r \in S
      <3>1. \E i \in DOMAIN h.taken[r].telemetry : e = EntryAt(h.taken, r, i)
        BY <1>3, <2>1, <2>2 DEF EntryAt
      <3> QED
        BY <1>3, <2>2, <3>1, HeldIs
    <2>3. CASE r \notin S
      <3>1. \E i \in DOMAIN left[r].telemetry : e = EntryAt(left, r, i)
        BY <1>3, <2>1, <2>3 DEF EntryAt
      <3> QED
        BY <1>3, <2>3, <3>1, HeldIs
    <2> QED
      BY <2>2, <2>3
  <1>7. BookTyped(c)
    <2>1. b.since \in 0..Len(b.handed) /\ b.handed \in Seq(Entries)
      BY <1>1 DEF BookTyped
    <2>2. Len(b.handed) \in Nat /\ Len(c.handed) \in Nat /\ Len(b.handed) <= Len(c.handed)
      BY <1>2, <2>1 DEF Grown
    <2>3. c.since \in 0..Len(c.handed)
      BY <1>2, <2>1, <2>2
    <2> QED
      BY <1>1, <1>2, <1>3, <2>3 DEF BookTyped
  <1>8. Places(c)
    <2>1. \A r \in DOMAIN left : \A i, j \in DOMAIN left[r].telemetry :
            EntryAt(left, r, i) = EntryAt(left, r, j) => i = j
      BY <1>1, <1>3 DEF Places, EntryAt
    <2>2. Range(c.handed) \cap HeldIn(left) = {}
      BY <1>1, <1>2, <1>4, <1>5 DEF Places
    <2>3. /\ c.discarded \cap (Range(c.handed) \cup HeldIn(left)) = {}
          /\ Range(c.handed) \cup HeldIn(left) \cup c.discarded = c.attached
      BY <1>1, <1>2, <1>4, <1>5, <1>6 DEF Places
    <2> QED
      BY <1>2, <2>1, <2>2, <2>3 DEF Places
  <1>9. Single(c, ids, last)
    BY <1>1, <1>2 DEF Single
  <1>10. ASSUME NEW r \in S
         PROVE  \E e \in Range(c.handed) : e.to = r /\ e \notin Range(b.handed)
    <2>1. invs[r].telemetry \in Seq(PayloadType) /\ Len(invs[r].telemetry) >= 1
      BY <1>1, <1>3 DEF BookTyped, InvocationType
    <2>2. 1 \in DOMAIN h.taken[r].telemetry
      BY <1>3, <2>1
    <2>3. EntryAt(h.taken, r, 1) \in HeldIn(h.taken) /\ EntryAt(h.taken, r, 1).to = r
      BY <1>3, <2>2, HeldIs DEF EntryAt
    <2> QED
      BY <1>1, <1>2, <1>4, <2>3 DEF Places
  <1>11. ASSUME NEW r, InHand(b, r) PROVE InHand(c, r)
    <2>1. /\ b.since \in Nat /\ Len(b.handed) \in Nat /\ b.since <= Len(b.handed)
          /\ Len(c.handed) \in Nat /\ Len(b.handed) <= Len(c.handed)
          /\ DOMAIN b.handed = 1..Len(b.handed) /\ DOMAIN c.handed = 1..Len(c.handed)
          /\ \A i \in 1..Len(b.handed) : c.handed[i] = b.handed[i]
      BY <1>1, <1>2 DEF BookTyped, Grown
    <2>2. CASE r \in S
      <3>1. PICK e \in Range(c.handed) : e.to = r /\ e \notin Range(b.handed)
        BY <1>10, <2>2
      <3>2. PICK i \in 1..Len(c.handed) : c.handed[i] = e
        BY <2>1, <3>1, RangeIs
      <3>3. i \notin 1..Len(b.handed)
        BY <2>1, <3>1, <3>2, RangeIs
      <3>4. i \in (c.since + 1)..Len(c.handed)
        BY <1>2, <2>1, <3>3
      <3> QED
        BY <3>1, <3>2, <3>4 DEF InHand
    <2>3. CASE r \in DOMAIN invs \ S
      BY <1>2, <1>3, <2>3 DEF InHand
    <2>4. CASE \E i \in (b.since + 1)..Len(b.handed) : b.handed[i].to = r
      <3>1. PICK i \in (b.since + 1)..Len(b.handed) : b.handed[i].to = r
        BY <2>4
      <3>2. i \in 1..Len(b.handed) /\ i \in (c.since + 1)..Len(c.handed)
        BY <1>2, <2>1
      <3>3. c.handed[i].to = r
        BY <2>1, <3>1, <3>2
      <3> QED
        BY <3>2, <3>3 DEF InHand
    <2> QED
      BY <1>11, <2>2, <2>3, <2>4 DEF InHand
  <1>12. Known(c, ids, last)
    BY <1>1, <1>2, <1>3, <1>10, <1>11 DEF Known
  <1>13. TurnedAway(c, ids, last)
    <2>1. \A r : Outrun(b, ids, last, r) => Outrun(c, ids, last, r)
      BY <1>2 DEF Outrun
    <2>2. \A e \in HeldIn(h.taken) : e.to \in DOMAIN invs
      BY <1>3, <1>4
    <2> QED
      BY <1>1, <1>2, <1>3, <2>1, <2>2 DEF TurnedAway
  <1>14. \A e \in HeldIn(invs) : e.to \in S => e \in Range(c.handed)
    BY <1>2, <1>5, <1>6
  <1>15. Shipping(b, c, ids, last, S)
    BY <1>2, <1>3, <1>7, <1>8, <1>9, <1>12, <1>13, <1>14 DEF Shipping, BookInv
  <1> QED
    BY <1>15 DEF c

-----------------------------------------------------------------------------
(* Harvest and Close. *)

\* aggressiveHarvest takes the pending invocations out of the batch.
LEMMA AggressiveSplits ==
  ASSUME NEW b, IsBatch(b), NEW t
  PROVE  Splits(b, AggressiveHarvest(b, t), Pending(b))
  <1> DEFINE h == AggressiveHarvest(b, t)
             left == Without(b.invocations, Pending(b))
  <1>1. /\ IsBatch(h.batch)
        /\ h.taken = Restrict(b.invocations, Pending(b)) /\ h.batch.invocations = left
    BY DEF AggressiveHarvest, IsBatch
  <1>2. Pending(b) \subseteq DOMAIN b.invocations
    BY DEF Pending
  <1> QED
    BY <1>1, <1>2, RestrictIs DEF Splits, Without

\* ripeHarvest takes the ripe invocations out of the batch.
LEMMA RipeSplits ==
  ASSUME NEW b, IsBatch(b), NEW t
  PROVE  Splits(b, RipeHarvest(b, t), Ripe(b))
  <1> DEFINE h == RipeHarvest(b, t)
             left == Without(b.invocations, Ripe(b))
  <1>1. /\ IsBatch(h.batch)
        /\ h.taken = Restrict(b.invocations, Ripe(b)) /\ h.batch.invocations = left
    BY DEF RipeHarvest, IsBatch
  <1>2. Ripe(b) \subseteq DOMAIN b.invocations
    BY DEF Ripe
  <1> QED
    BY <1>1, <1>2, RestrictIs DEF Splits, Without

\* Whatever a harvest takes has telemetry; Close leaves none behind.
LEMMA HarvestSplits ==
  ASSUME NEW b, BookTyped(b), NEW t
  PROVE  \E S : /\ Splits(b.batch, Harvest(b.batch, t), S)
                /\ \A r \in S : Len(b.batch.invocations[r].telemetry) >= 1
  <1>1. \A r \in DOMAIN b.batch.invocations :
          Len(b.batch.invocations[r].telemetry) \in Nat
    BY DEF BookTyped, InvocationType
  <1>2. /\ \A r \in Pending(b.batch) : Len(b.batch.invocations[r].telemetry) >= 1
        /\ \A r \in Ripe(b.batch) : Len(b.batch.invocations[r].telemetry) >= 1
    BY <1>1 DEF Pending, Ripe, IsEmpty, IsRipe
  <1>3. IsBatch(b.batch)
    BY DEF BookTyped
  <1>4. Splits(b.batch, NothingHarvested(b.batch), {})
    BY <1>3 DEF Splits, NothingHarvested, NoEntries
  <1>5. \/ Harvest(b.batch, t) = NothingHarvested(b.batch)
        \/ Harvest(b.batch, t) = AggressiveHarvest(b.batch, t)
        \/ Harvest(b.batch, t) = RipeHarvest(b.batch, t)
    BY DEF Harvest
  <1> QED
    BY <1>2, <1>3, <1>4, <1>5, AggressiveSplits, RipeSplits

-----------------------------------------------------------------------------
(* The initial state, and the actions that leave the book alone. *)

\* The initial states satisfy the invariant.
LEMMA InitInv == Init => Inv
  <1> SUFFICES ASSUME Init PROVE Inv
    OBVIOUS
  <1>1. TypeOK
    <2>1. Range(<< >>) = {}
      BY DEF Range
    <2>2. 0 \in 0..NumInvocations /\ 0 \in 0..MaxErrors /\ FirstInstant \in Instants
      BY Bounds, BoundAssumption
    <2>3. {0, 0} \subseteq Instants \cup {0} /\ 0 \in Int /\ 0 \in 0..Len(<< >>)
      OBVIOUS
    <2> QED
      BY <2>1, <2>2, <2>3 DEF Init, TypeOK, ZeroTime, NoRequest
  <1> DEFINE b == [batch |-> NewBatch, attached |-> {}, ignored |-> {}, handed |-> << >>,
                   discarded |-> {}, since |-> 0]
  <1>2. Book = b /\ Latest = 0
    BY DEF Init, Book, Latest
  <1>3. DOMAIN NewBatch.invocations = {} /\ IsBatch(NewBatch)
    BY DEF NewBatch, NoEntries, IsBatch
  <1>4. /\ IsBook(b) /\ b.batch = NewBatch /\ b.attached = {} /\ b.ignored = {}
        /\ b.handed = << >> /\ b.discarded = {} /\ b.since = 0
    BY DEF IsBook
  <1> HIDE DEF b
  <1>5. HeldIn(b.batch.invocations) = {} /\ Range(b.handed) = {}
    BY <1>3, <1>4 DEF HeldIn, Range
  <1>6. BookTyped(b)
    BY <1>3, <1>4 DEF BookTyped
  <1>7. Places(b)
    BY <1>3, <1>4, <1>5 DEF Places, IsInjective
  <1>8. Single(b, requestOf, 0) /\ Known(b, requestOf, 0) /\ TurnedAway(b, requestOf, 0)
    BY <1>3, <1>4 DEF Single, Known, TurnedAway, Begun
  <1>9. BookInv(Book, requestOf, Latest)
    BY <1>2, <1>6, <1>7, <1>8 DEF BookInv
  <1>10. Clock /\ Progress /\ Pipe /\ Expected /\ Race /\ LastWordsSaid /\ Emptied
    BY <1>2, Bounds DEF Init, Clock, Progress, Pipe, Expected, Expecting, Race,
                        LastWordsSaid, Emptied, NoRequest, ZeroTime
  <1>11. Reports
    BY DEF Init, Reports, Range, IsInjective
  <1> QED
    BY <1>1, <1>9, <1>10, <1>11 DEF Inv

\* The clock and the requests are numbers.
LEMMA Numbers ==
  ASSUME TypeOK
  PROVE  /\ now \in Nat /\ lastEventStart \in Nat /\ eventStart \in Nat /\ current \in Nat
         /\ now \in Instants
  <1>1. now \in Instants /\ {lastEventStart, eventStart} \subseteq Instants \cup {0}
    BY DEF TypeOK, ZeroTime
  <1>2. current \in 0..NumInvocations
    BY DEF TypeOK
  <1>3. now \in Nat /\ current \in Nat
    BY <1>1, <1>2, Bounds
  <1>4. lastEventStart \in Instants \cup {0} /\ eventStart \in Instants \cup {0}
    BY <1>1
  <1>5. lastEventStart \in Nat /\ eventStart \in Nat
    BY <1>4, Bounds
  <1> QED
    BY <1>1, <1>3, <1>5
\* The last invocation begun.
LEMMA LatestIs ==
  ASSUME TypeOK, Progress
  PROVE  /\ Latest \in 0..NumInvocations /\ Latest \in Nat /\ Latest <= current
         /\ current <= NumInvocations /\ requestOf \in Assignments
  <1>1. current \in 0..NumInvocations /\ requestOf \in Assignments
    BY DEF TypeOK
  <1>2. current \in Nat /\ current <= NumInvocations
    BY <1>1, Bounds
  <1> QED
    BY <1>1, <1>2, Bounds DEF Progress, Latest

\* What an action that leaves the book alone cannot disturb.
LEMMA BookKept ==
  ASSUME BookInv(Book, requestOf, Latest), UNCHANGED batchVars, UNCHANGED requestOf,
         Latest' = Latest
  PROVE  BookInv(Book, requestOf, Latest)' /\ Held' = Held /\ Book' = Book
  <1>1. Book' = Book /\ Held' = Held
    BY DEF batchVars, Book, Held, HeldFor, Accepts
  <1> QED
    BY <1>1

\* From here to StutterInv: a step of the loop, of the platform, of the reader or of
\* the clock that does not touch the book keeps the invariant.
LEMMA CheckContextInv ==
  ASSUME Inv, CheckContext
  PROVE  Inv'
  <1> USE DEF CheckContext, loopVars, platformVars, pipeVars, logVars, batchVars
  <1>1. TypeOK'
    BY Bounds, BoundAssumption DEF Inv, TypeOK, NoRequest, ZeroTime, Instants
  <1>0. /\ now \in Nat /\ lastEventStart \in Nat /\ eventStart \in Nat /\ current \in Nat
        /\ now \in Instants
    BY Numbers DEF Inv
  <1>2. Latest' = Latest
    BY <1>0 DEF Inv, Progress, Latest
  <1>3. BookInv(Book, requestOf, Latest)' /\ Held' = Held /\ Book' = Book
    BY <1>2, BookKept DEF Inv
  <1>4. Clock'
    BY <1>0, Bounds DEF Inv, Clock, Progress
  <1>5. Progress'
    BY <1>0, <1>2, Bounds DEF Inv, TypeOK, Progress, NoRequest
  <1>6. Pipe'
    BY <1>0, Bounds DEF Inv, TypeOK, Pipe, NoRequest
  <1>7. Reports'
    BY <1>0, <1>2 DEF Inv, TypeOK, Reports, Looping, Progress
  <1>8. Expected'
    BY <1>2, <1>3 DEF Inv, Expected, Expecting, Progress
  <1>9. Race'
    BY <1>0, <1>2 DEF Inv, TypeOK, Race, Progress, NoRequest
  <1>10. LastWordsSaid' /\ Emptied'
    BY <1>3 DEF Inv, TypeOK, LastWordsSaid, Said, TimeoutEntry, Emptied, Progress
  <1> QED
    BY <1>1, <1>3, <1>4, <1>5, <1>6, <1>7, <1>8, <1>9, <1>10 DEF Inv

LEMMA NextEventFailsInv ==
  ASSUME Inv, NextEventFails
  PROVE  Inv'
  <1> USE DEF NextEventFails, loopVars, platformVars, pipeVars, logVars, batchVars
  <1>1. TypeOK'
    BY Bounds, BoundAssumption DEF Inv, TypeOK, NoRequest, ZeroTime, Instants
  <1>0. /\ now \in Nat /\ lastEventStart \in Nat /\ eventStart \in Nat /\ current \in Nat
        /\ now \in Instants
    BY Numbers DEF Inv
  <1>2. Latest' = Latest
    BY <1>0 DEF Inv, Progress, Latest
  <1>3. BookInv(Book, requestOf, Latest)' /\ Held' = Held /\ Book' = Book
    BY <1>2, BookKept DEF Inv
  <1>4. Clock'
    BY <1>0, Bounds DEF Inv, Clock, Progress
  <1>5. Progress'
    BY <1>0, <1>2, Bounds DEF Inv, TypeOK, Progress, NoRequest
  <1>6. Pipe'
    BY <1>0, Bounds DEF Inv, TypeOK, Pipe, NoRequest
  <1>7. Reports'
    BY <1>0, <1>2 DEF Inv, TypeOK, Reports, Looping, Progress
  <1>8. Expected'
    BY <1>2, <1>3 DEF Inv, Expected, Expecting, Progress
  <1>9. Race'
    BY <1>0, <1>2 DEF Inv, TypeOK, Race, Progress, NoRequest
  <1>10. LastWordsSaid' /\ Emptied'
    BY <1>3 DEF Inv, TypeOK, LastWordsSaid, Said, TimeoutEntry, Emptied, Progress
  <1> QED
    BY <1>1, <1>3, <1>4, <1>5, <1>6, <1>7, <1>8, <1>9, <1>10 DEF Inv

LEMMA NextInvokeInv ==
  ASSUME Inv, NextInvoke
  PROVE  Inv'
  <1> USE DEF NextInvoke, loopVars, platformVars, pipeVars, logVars, batchVars
  <1>1. TypeOK'
    <2>1. now + FunctionTimeout \in Instants /\ now \in Instants
      BY Bounds DEF Inv, TypeOK, Instants
    <2>2. current' \in 0..NumInvocations
      BY Bounds DEF Inv, TypeOK
    <2> QED
      BY <2>1, <2>2 DEF Inv, TypeOK
  <1>0. /\ now \in Nat /\ lastEventStart \in Nat /\ eventStart \in Nat /\ current \in Nat
        /\ now \in Instants
    BY Numbers DEF Inv
  <1>2. Latest' = Latest
    BY <1>0 DEF Inv, Progress, Latest
  <1>3. BookInv(Book, requestOf, Latest)' /\ Held' = Held /\ Book' = Book
    BY <1>2, BookKept DEF Inv
  <1>4. Clock'
    BY <1>0, Bounds DEF Inv, Clock, Progress
  <1>5. Progress'
    BY <1>0, <1>2, Bounds DEF Inv, TypeOK, Progress, NoRequest
  <1>6. Pipe'
    BY <1>0, Bounds DEF Inv, TypeOK, Pipe, NoRequest
  <1>7. Reports'
    BY <1>0, <1>2 DEF Inv, TypeOK, Reports, Looping, Progress
  <1>8. Expected'
    BY <1>2, <1>3 DEF Inv, Expected, Expecting, Progress
  <1>9. Race'
    BY <1>0, <1>2 DEF Inv, TypeOK, Race, Progress, NoRequest
  <1>10. LastWordsSaid' /\ Emptied'
    BY <1>3 DEF Inv, TypeOK, LastWordsSaid, Said, TimeoutEntry, Emptied, Progress
  <1> QED
    BY <1>1, <1>3, <1>4, <1>5, <1>6, <1>7, <1>8, <1>9, <1>10 DEF Inv

LEMMA NextShutdownInv ==
  ASSUME Inv, NextShutdown
  PROVE  Inv'
  <1> USE DEF NextShutdown, loopVars, platformVars, pipeVars, logVars, batchVars
  <1>1. TypeOK'
    <2>1. TypeOK /\ now \in Instants
      BY DEF Inv, TypeOK
    <2>2. shutdown' \in {"none", "spindown", "timeout", "failure"}
      BY DEF TypeOK
    <2>3. {lastEventStart', eventStart'} \subseteq Instants \cup {ZeroTime}
      BY <2>1 DEF TypeOK
    <2> QED
      BY <2>1, <2>2, <2>3 DEF TypeOK
  <1>0. /\ now \in Nat /\ lastEventStart \in Nat /\ eventStart \in Nat /\ current \in Nat
        /\ now \in Instants
    BY Numbers DEF Inv
  <1>2. Latest' = Latest
    BY <1>0 DEF Inv, Progress, Latest
  <1>3. BookInv(Book, requestOf, Latest)' /\ Held' = Held /\ Book' = Book
    BY <1>2, BookKept DEF Inv
  <1>4. Clock'
    BY <1>0, Bounds DEF Inv, Clock, Progress
  <1>5. Progress'
    BY <1>0, <1>2, Bounds DEF Inv, TypeOK, Progress, NoRequest
  <1>6. Pipe'
    BY <1>0, Bounds DEF Inv, TypeOK, Pipe, NoRequest
  <1>7. Reports'
    BY <1>0, <1>2 DEF Inv, TypeOK, Reports, Looping, Progress
  <1>8. Expected'
    BY <1>2, <1>3 DEF Inv, Expected, Expecting, Progress
  <1>9. Race'
    BY <1>0, <1>2 DEF Inv, TypeOK, Race, Progress, NoRequest
  <1>10. LastWordsSaid' /\ Emptied'
    BY <1>3 DEF Inv, TypeOK, LastWordsSaid, Said, TimeoutEntry, Emptied, Progress
  <1> QED
    BY <1>1, <1>3, <1>4, <1>5, <1>6, <1>7, <1>8, <1>9, <1>10 DEF Inv

LEMMA TimeLimitReachedInv ==
  ASSUME Inv, TimeLimitReached
  PROVE  Inv'
  <1> USE DEF TimeLimitReached, loopVars, platformVars, pipeVars, logVars, batchVars
  <1>1. TypeOK'
    BY Bounds, BoundAssumption DEF Inv, TypeOK, NoRequest, ZeroTime, Instants
  <1>0. /\ now \in Nat /\ lastEventStart \in Nat /\ eventStart \in Nat /\ current \in Nat
        /\ now \in Instants
    BY Numbers DEF Inv
  <1>2. Latest' = Latest
    BY <1>0 DEF Inv, Progress, Latest
  <1>3. BookInv(Book, requestOf, Latest)' /\ Held' = Held /\ Book' = Book
    BY <1>2, BookKept DEF Inv
  <1>4. Clock'
    BY <1>0, Bounds DEF Inv, Clock, Progress
  <1>5. Progress'
    BY <1>0, <1>2, Bounds DEF Inv, TypeOK, Progress, NoRequest, Latest
  <1>6. Pipe'
    BY <1>0, Bounds DEF Inv, TypeOK, Pipe, NoRequest
  <1>7. Reports'
    BY <1>0, <1>2 DEF Inv, TypeOK, Reports, Looping, Progress
  <1>8. Expected'
    BY <1>2, <1>3 DEF Inv, Expected, Expecting, Progress
  <1>9. Race'
    BY <1>0, <1>2 DEF Inv, TypeOK, Race, Progress, NoRequest
  <1>10. LastWordsSaid' /\ Emptied'
    BY <1>3 DEF Inv, TypeOK, LastWordsSaid, Said, TimeoutEntry, Emptied, Progress
  <1> QED
    BY <1>1, <1>3, <1>4, <1>5, <1>6, <1>7, <1>8, <1>9, <1>10 DEF Inv

LEMMA CloseServerInv ==
  ASSUME Inv, CloseServer
  PROVE  Inv'
  <1> USE DEF CloseServer, loopVars, platformVars, pipeVars, logVars, batchVars
  <1>1. TypeOK'
    <2>1. serverOpen' \in BOOLEAN
      OBVIOUS
    <2>2. pc' = "finalHarvest"
      OBVIOUS
    <2> QED
      BY <2>1, <2>2, SMTT(60) DEF Inv, TypeOK
  <1>0. /\ now \in Nat /\ lastEventStart \in Nat /\ eventStart \in Nat /\ current \in Nat
        /\ now \in Instants
    BY Numbers DEF Inv
  <1>2. Latest' = Latest
    BY <1>0 DEF Inv, Progress, Latest
  <1>3. BookInv(Book, requestOf, Latest)' /\ Held' = Held /\ Book' = Book
    BY <1>2, BookKept DEF Inv
  <1>4. Clock'
    BY <1>0, Bounds DEF Inv, Clock, Progress
  <1>5. Progress'
    BY <1>0, <1>2, Bounds DEF Inv, TypeOK, Progress, NoRequest
  <1>6. Pipe'
    BY <1>0, Bounds DEF Inv, TypeOK, Pipe, NoRequest
  <1>7. Reports'
    BY <1>0, <1>2 DEF Inv, TypeOK, Reports, Looping, Progress
  <1>8. Expected'
    BY <1>2, <1>3 DEF Inv, Expected, Expecting, Progress
  <1>9. Race'
    BY <1>0, <1>2 DEF Inv, TypeOK, Race, Progress, NoRequest
  <1>10. LastWordsSaid' /\ Emptied'
    BY <1>3 DEF Inv, TypeOK, LastWordsSaid, Said, TimeoutEntry, Emptied, Progress
  <1> QED
    BY <1>1, <1>3, <1>4, <1>5, <1>6, <1>7, <1>8, <1>9, <1>10 DEF Inv

LEMMA AgentWritesInv ==
  ASSUME Inv, AgentWrites
  PROVE  Inv'
  <1> USE DEF AgentWrites, EnvironmentKeeps, loopVars, platformVars, pipeVars, logVars, batchVars
  <1>1. TypeOK'
    <2>1. current \in Invocations
      BY DEF Inv, TypeOK, Progress, Invocations
    <2> QED
      BY <2>1, Bounds DEF Inv, TypeOK, NoRequest
  <1>0. /\ now \in Nat /\ lastEventStart \in Nat /\ eventStart \in Nat /\ current \in Nat
        /\ now \in Instants
    BY Numbers DEF Inv
  <1>2. Latest' = Latest
    BY <1>0 DEF Inv, Progress, Latest
  <1>3. BookInv(Book, requestOf, Latest)' /\ Held' = Held /\ Book' = Book
    BY <1>2, BookKept DEF Inv
  <1>4. Clock'
    BY <1>0, Bounds DEF Inv, Clock, Progress
  <1>5. Progress'
    BY <1>0, <1>2, Bounds DEF Inv, TypeOK, Progress, NoRequest
  <1>6. Pipe'
    BY <1>0, Bounds DEF Inv, TypeOK, Pipe, NoRequest
  <1>7. Reports'
    BY <1>0, <1>2 DEF Inv, TypeOK, Reports, Looping, Progress
  <1>8. Expected'
    BY <1>2, <1>3 DEF Inv, Expected, Expecting, Progress
  <1>9. Race'
    BY <1>0, <1>2 DEF Inv, TypeOK, Race, Progress, NoRequest
  <1>10. LastWordsSaid' /\ Emptied'
    BY <1>3 DEF Inv, TypeOK, LastWordsSaid, Said, TimeoutEntry, Emptied, Progress
  <1> QED
    BY <1>1, <1>3, <1>4, <1>5, <1>6, <1>7, <1>8, <1>9, <1>10 DEF Inv

LEMMA ReaderParksInv ==
  ASSUME Inv, ReaderParks
  PROVE  Inv'
  <1> USE DEF ReaderParks, EnvironmentKeeps, loopVars, platformVars, pipeVars, logVars, batchVars
  <1>1. TypeOK'
    BY Bounds, BoundAssumption DEF Inv, TypeOK, NoRequest, ZeroTime, Instants
  <1>0. /\ now \in Nat /\ lastEventStart \in Nat /\ eventStart \in Nat /\ current \in Nat
        /\ now \in Instants
    BY Numbers DEF Inv
  <1>2. Latest' = Latest
    BY <1>0 DEF Inv, Progress, Latest
  <1>3. BookInv(Book, requestOf, Latest)' /\ Held' = Held /\ Book' = Book
    BY <1>2, BookKept DEF Inv
  <1>4. Clock'
    BY <1>0, Bounds DEF Inv, Clock, Progress
  <1>5. Progress'
    BY <1>0, <1>2, Bounds DEF Inv, TypeOK, Progress, NoRequest
  <1>6. Pipe'
    BY <1>0, Bounds DEF Inv, TypeOK, Pipe, NoRequest
  <1>7. Reports'
    BY <1>0, <1>2 DEF Inv, TypeOK, Reports, Looping, Progress
  <1>8. Expected'
    BY <1>2, <1>3 DEF Inv, Expected, Expecting, Progress
  <1>9. Race'
    BY <1>0, <1>2 DEF Inv, TypeOK, Race, Progress, NoRequest
  <1>10. LastWordsSaid' /\ Emptied'
    BY <1>3 DEF Inv, TypeOK, LastWordsSaid, Said, TimeoutEntry, Emptied, Progress
  <1> QED
    BY <1>1, <1>3, <1>4, <1>5, <1>6, <1>7, <1>8, <1>9, <1>10 DEF Inv

LEMMA FunctionEndsInv ==
  ASSUME Inv, FunctionEnds
  PROVE  Inv'
  <1> USE DEF FunctionEnds, EnvironmentKeeps, loopVars, platformVars, pipeVars, logVars, batchVars
  <1>1. TypeOK'
    BY Bounds, BoundAssumption DEF Inv, TypeOK, NoRequest, ZeroTime, Instants
  <1>0. /\ now \in Nat /\ lastEventStart \in Nat /\ eventStart \in Nat /\ current \in Nat
        /\ now \in Instants
    BY Numbers DEF Inv
  <1>2. Latest' = Latest
    BY <1>0 DEF Inv, Progress, Latest
  <1>3. BookInv(Book, requestOf, Latest)' /\ Held' = Held /\ Book' = Book
    BY <1>2, BookKept DEF Inv
  <1>4. Clock'
    BY <1>0, Bounds DEF Inv, Clock, Progress
  <1>5. Progress'
    BY <1>0, <1>2, Bounds DEF Inv, TypeOK, Progress, NoRequest
  <1>6. Pipe'
    BY <1>0, Bounds DEF Inv, TypeOK, Pipe, NoRequest
  <1>7. Reports'
    BY <1>0, <1>2 DEF Inv, TypeOK, Reports, Looping, Progress
  <1>8. Expected'
    BY <1>2, <1>3 DEF Inv, Expected, Expecting, Progress
  <1>9. Race'
    BY <1>0, <1>2 DEF Inv, TypeOK, Race, Progress, NoRequest
  <1>10. LastWordsSaid' /\ Emptied'
    BY <1>3 DEF Inv, TypeOK, LastWordsSaid, Said, TimeoutEntry, Emptied, Progress
  <1> QED
    BY <1>1, <1>3, <1>4, <1>5, <1>6, <1>7, <1>8, <1>9, <1>10 DEF Inv

LEMMA SignalInv ==
  ASSUME Inv, Signal
  PROVE  Inv'
  <1> USE DEF Signal, EnvironmentKeeps, loopVars, platformVars, pipeVars, logVars, batchVars
  <1>1. TypeOK'
    BY Bounds, BoundAssumption DEF Inv, TypeOK, NoRequest, ZeroTime, Instants
  <1>0. /\ now \in Nat /\ lastEventStart \in Nat /\ eventStart \in Nat /\ current \in Nat
        /\ now \in Instants
    BY Numbers DEF Inv
  <1>2. Latest' = Latest
    BY <1>0 DEF Inv, Progress, Latest
  <1>3. BookInv(Book, requestOf, Latest)' /\ Held' = Held /\ Book' = Book
    BY <1>2, BookKept DEF Inv
  <1>4. Clock'
    BY <1>0, Bounds DEF Inv, Clock, Progress
  <1>5. Progress'
    BY <1>0, <1>2, Bounds DEF Inv, TypeOK, Progress, NoRequest
  <1>6. Pipe'
    BY <1>0, Bounds DEF Inv, TypeOK, Pipe, NoRequest
  <1>7. Reports'
    BY <1>0, <1>2 DEF Inv, TypeOK, Reports, Looping, Progress
  <1>8. Expected'
    BY <1>2, <1>3 DEF Inv, Expected, Expecting, Progress
  <1>9. Race'
    BY <1>0, <1>2 DEF Inv, TypeOK, Race, Progress, NoRequest
  <1>10. LastWordsSaid' /\ Emptied'
    BY <1>3 DEF Inv, TypeOK, LastWordsSaid, Said, TimeoutEntry, Emptied, Progress
  <1> QED
    BY <1>1, <1>3, <1>4, <1>5, <1>6, <1>7, <1>8, <1>9, <1>10 DEF Inv

LEMMA TickInv ==
  ASSUME Inv, Tick
  PROVE  Inv'
  <1> USE DEF Tick, EnvironmentKeeps, loopVars, platformVars, pipeVars, logVars, batchVars
  <1>1. TypeOK'
    BY Bounds, BoundAssumption DEF Inv, TypeOK, NoRequest, ZeroTime, Instants
  <1>0. /\ now \in Nat /\ lastEventStart \in Nat /\ eventStart \in Nat /\ current \in Nat
        /\ now \in Instants
    BY Numbers DEF Inv
  <1>2. Latest' = Latest
    BY <1>0 DEF Inv, Progress, Latest
  <1>3. BookInv(Book, requestOf, Latest)' /\ Held' = Held /\ Book' = Book
    BY <1>2, BookKept DEF Inv
  <1>4. Clock'
    BY <1>0, Bounds DEF Inv, Clock, Progress
  <1>5. Progress'
    BY <1>0, <1>2, Bounds DEF Inv, TypeOK, Progress, NoRequest
  <1>6. Pipe'
    BY <1>0, Bounds DEF Inv, TypeOK, Pipe, NoRequest
  <1>7. Reports'
    BY <1>0, <1>2 DEF Inv, TypeOK, Reports, Looping, Progress
  <1>8. Expected'
    BY <1>2, <1>3 DEF Inv, Expected, Expecting, Progress
  <1>9. Race'
    BY <1>0, <1>2 DEF Inv, TypeOK, Race, Progress, NoRequest
  <1>10. LastWordsSaid' /\ Emptied'
    BY <1>3 DEF Inv, TypeOK, LastWordsSaid, Said, TimeoutEntry, Emptied, Progress
  <1> QED
    BY <1>1, <1>3, <1>4, <1>5, <1>6, <1>7, <1>8, <1>9, <1>10 DEF Inv

LEMMA StutterInv ==
  ASSUME Inv, UNCHANGED vars
  PROVE  Inv'
  <1> USE DEF vars, loopVars, platformVars, pipeVars, logVars, batchVars
  <1>1. TypeOK'
    BY Bounds, BoundAssumption DEF Inv, TypeOK, NoRequest, ZeroTime, Instants
  <1>0. /\ now \in Nat /\ lastEventStart \in Nat /\ eventStart \in Nat /\ current \in Nat
        /\ now \in Instants
    BY Numbers DEF Inv
  <1>2. Latest' = Latest
    BY <1>0 DEF Inv, Progress, Latest
  <1>3. BookInv(Book, requestOf, Latest)' /\ Held' = Held /\ Book' = Book
    BY <1>2, BookKept DEF Inv
  <1>4. Clock'
    BY <1>0, Bounds DEF Inv, Clock, Progress
  <1>5. Progress'
    BY <1>0, <1>2, Bounds DEF Inv, TypeOK, Progress, NoRequest
  <1>6. Pipe'
    BY <1>0, Bounds DEF Inv, TypeOK, Pipe, NoRequest
  <1>7. Reports'
    BY <1>0, <1>2 DEF Inv, TypeOK, Reports, Looping, Progress
  <1>8. Expected'
    BY <1>2, <1>3 DEF Inv, Expected, Expecting, Progress
  <1>9. Race'
    BY <1>0, <1>2 DEF Inv, TypeOK, Race, Progress, NoRequest
  <1>10. LastWordsSaid' /\ Emptied'
    BY <1>3 DEF Inv, TypeOK, LastWordsSaid, Said, TimeoutEntry, Emptied, Progress
  <1> QED
    BY <1>1, <1>3, <1>4, <1>5, <1>6, <1>7, <1>8, <1>9, <1>10 DEF Inv

\* What a posted report does to the log server's sequence.
LEMMA AppendIs ==
  ASSUME NEW s \in Seq(Invocations), IsInjective(s), NEW r \in Invocations, r \notin Range(s)
  PROVE  /\ Append(s, r) \in Seq(Invocations) /\ IsInjective(Append(s, r))
         /\ Range(Append(s, r)) = Range(s) \cup {r}
  <1> DEFINE t == Append(s, r)
  <1>1. /\ t \in Seq(Invocations) /\ DOMAIN t = DOMAIN s \cup {Len(s) + 1}
        /\ t[Len(s) + 1] = r /\ \A i \in DOMAIN s : t[i] = s[i]
    OBVIOUS
  <1> HIDE DEF t
  <1>2. \A i \in DOMAIN s : s[i] # r
    BY DEF Range
  <1>3. IsInjective(t)
    BY <1>1, <1>2 DEF IsInjective
  <1>4. Range(t) = Range(s) \cup {r}
    BY <1>1 DEF Range
  <1> QED
    BY <1>1, <1>3, <1>4 DEF t

\* A report that is posted is new.
LEMMA PostReportInv ==
  ASSUME Inv, NEW k \in Invocations, PostReport(k)
  PROVE  Inv'
  <1> USE DEF PostReport, EnvironmentKeeps, loopVars, platformVars, pipeVars, logVars, batchVars
  <1>0. /\ Reports /\ TypeOK /\ Progress /\ k \notin Range(platformLogs)
        /\ current \in Nat /\ k \in 1..current
    BY Bounds, Numbers DEF Inv, Reports, Over, Invocations
  <1>1. /\ platformLogs' \in Seq(Invocations) /\ IsInjective(platformLogs')
        /\ Range(platformLogs') \subseteq Range(platformLogs) \cup {k}
    <2>1. CASE serverOpen
      BY <1>0, <2>1, AppendIs DEF Reports
    <2>2. CASE ~serverOpen
      BY <1>0, <2>2 DEF Reports
    <2> QED
      BY <2>1, <2>2
  <1>2. TypeOK'
    <2>1. Range(platformLogs') \subseteq Invocations /\ reported' \subseteq Invocations
      BY <1>0, <1>1 DEF TypeOK
    <2> QED
      BY <1>0, <2>1, SMTT(60) DEF TypeOK
  <1>9. Latest' = Latest
    BY DEF Latest
  <1>3. BookInv(Book, requestOf, Latest)' /\ Held' = Held /\ Book' = Book
    BY <1>9, BookKept DEF Inv
  <1>4. Clock' /\ Progress'
    BY <1>9 DEF Inv, Clock, Progress
  <1>5. Reports'
    <2>1. reported' \subseteq 1..current' /\ Range(platformLogs') \subseteq reported'
      BY <1>0, <1>1 DEF Reports
    <2>2. pc' = "await" \/ (pc' = "thawed" /\ shutdown' = "none") => current' \notin reported'
      BY <1>0 DEF Reports, Progress, Over
    <2>3. \A e \in attached' : e.what.kind = "report" =>
            e.what.of \in reported' \ Range(platformLogs') /\ e.to = requestOf'[e.what.of]
      BY <1>0, <1>1 DEF Reports
    <2> QED
      BY <1>0, <1>1, <1>9, <2>1, <2>2, <2>3 DEF Reports, Looping
  <1>6. Expected' /\ Race' /\ LastWordsSaid' /\ Emptied' /\ Pipe'
    BY <1>3, <1>9 DEF Inv, Expected, Expecting, Race, LastWordsSaid, Said, TimeoutEntry,
                      Emptied, Pipe
  <1> QED
    BY <1>2, <1>3, <1>4, <1>5, <1>6 DEF Inv

-----------------------------------------------------------------------------
(* The actions that work on the book. *)

\* The book that an action leaves.
LEMMA BookSet ==
  ASSUME NEW b, NEW last, BookInv(b, requestOf, last), SetBook(b)
  PROVE  /\ Book' = b /\ attached' = b.attached /\ ignored' = b.ignored
         /\ handed' = b.handed /\ batch' = b.batch
         /\ discarded' = b.discarded /\ since' = b.since
         /\ attached' \subseteq Entries /\ ignored' \subseteq Entries
         /\ Range(handed') \subseteq Entries /\ discarded' \subseteq Entries
         /\ since' \in 0..Len(handed') /\ Range(handed') \subseteq attached'
  <1>1. /\ attached' = b.attached /\ ignored' = b.ignored
        /\ handed' = b.handed /\ batch' = b.batch
        /\ discarded' = b.discarded /\ since' = b.since
    BY DEF SetBook
  <1>2. Book' = b
    BY <1>1 DEF Book, BookInv, BookTyped, IsBook
  <1>3. /\ b.attached \subseteq Entries /\ b.ignored \subseteq Entries
        /\ Range(b.handed) \subseteq b.attached /\ b.discarded \subseteq b.attached
        /\ b.since \in 0..Len(b.handed)
    BY DEF BookInv, BookTyped, Places
  <1> QED
    BY <1>1, <1>2, <1>3

\* What the poll of the buffered reports and the harvest after it do to a book: a
\* record that was empty is shipped only with such a report.
Worked(b, c, last) ==
  /\ BookInv(c, requestOf, last) /\ b.attached \subseteq c.attached
  /\ \A e \in c.attached :
       e \in b.attached \/ \E k \in Range(platformLogs) : IsReport(e, k)
  /\ \A r \in DOMAIN b.batch.invocations :
       b.batch.invocations[r].telemetry = << >>
         => \/ r \in DOMAIN c.batch.invocations
            \/ \E e \in Range(c.handed) :
                 e.to = r /\ \E k \in Range(platformLogs) : IsReport(e, k)

\* pollLogServer, Harvest and shipHarvest, as HandleInvoke and ReceiveTelemetry run
\* them, leave the book in order.
LEMMA PollHarvestShipInv ==
  ASSUME requestOf \in Assignments, NEW b, NEW last \in 0..NumInvocations,
         BookInv(b, requestOf, last), ReportsNew(b, last)
  PROVE  Worked(b, PollHarvestShip(b), last)
  <1> DEFINE polled == PollLogServer(b)
             h == Harvest(polled.batch, now)
             c == ShipHarvest(polled, h)
  <1>1. PolledSome(b, polled, last, Len(platformLogs))
    BY PollInv
  <1>2. BookInv(polled, requestOf, last) /\ BookTyped(polled)
    BY <1>1 DEF PolledSome, BookInv
  <1> HIDE DEF polled
  <1>3. PICK S : /\ Splits(polled.batch, h, S)
                 /\ \A r \in S : Len(polled.batch.invocations[r].telemetry) >= 1
    BY <1>2, HarvestSplits
  <1> HIDE DEF h
  <1>4. Shipping(polled, c, requestOf, last, S)
    BY <1>2, <1>3, ShipInv
  <1> HIDE DEF c
  <1>5. platformLogs \in Seq(Invocations)
    BY DEF ReportsNew
  <1>6. \A k \in 1..Len(platformLogs) : platformLogs[k] \in Range(platformLogs)
    BY <1>5 DEF Range
  <1>7. /\ BookInv(c, requestOf, last) /\ b.attached \subseteq c.attached
        /\ \A e \in c.attached :
             e \in b.attached \/ \E k \in Range(platformLogs) : IsReport(e, k)
    BY <1>1, <1>4, <1>6 DEF PolledSome, Shipping
  <1>8. ASSUME NEW r \in DOMAIN b.batch.invocations,
               b.batch.invocations[r].telemetry = << >>, r \notin DOMAIN c.batch.invocations
        PROVE  \E e \in Range(c.handed) :
                 e.to = r /\ \E k \in Range(platformLogs) : IsReport(e, k)
    <2> DEFINE e == EntryAt(polled.batch.invocations, r, 1)
    <2>1. r \in DOMAIN polled.batch.invocations /\ r \in S /\ e.to = r
      BY <1>1, <1>4, <1>8 DEF PolledSome, Shipping, EntryAt
    <2>2. 1 \in DOMAIN polled.batch.invocations[r].telemetry
      <3>1. /\ polled.batch.invocations[r].telemetry \in Seq(PayloadType)
            /\ Len(polled.batch.invocations[r].telemetry) >= 1
        BY <1>2, <1>3, <2>1 DEF BookTyped, InvocationType
      <3> QED
        BY <3>1
    <2>3. e \in HeldIn(polled.batch.invocations)
      BY <2>1, <2>2, HeldIs
    <2> HIDE DEF e
    <2>4. e \in Range(c.handed)
      BY <1>4, <2>1, <2>3 DEF Shipping
    <2>5. e \in polled.attached /\ e \notin Range(b.handed) /\ e \notin b.discarded
      BY <1>1, <1>2, <2>3 DEF PolledSome, BookInv, Places
    <2>6. e \notin HeldIn(b.batch.invocations)
      <3> SUFFICES ASSUME e \in HeldIn(b.batch.invocations) PROVE FALSE
        OBVIOUS
      <3>1. PICK s \in DOMAIN b.batch.invocations :
              \E i \in DOMAIN b.batch.invocations[s].telemetry :
                e = EntryAt(b.batch.invocations, s, i)
        BY HeldIs
      <3>2. s = r
        BY <2>1, <3>1 DEF EntryAt
      <3> QED
        BY <1>8, <3>1, <3>2
    <2>7. e \notin b.attached
      BY <2>5, <2>6 DEF BookInv, Places
    <2> QED
      BY <1>1, <1>6, <2>1, <2>4, <2>5, <2>7 DEF PolledSome
  <1>9. Worked(b, c, last)
    BY <1>7, <1>8 DEF Worked
  <1> QED
    BY <1>9 DEF PollHarvestShip, c, h, polled

\* What is known of the book when an action begins.
LEMMA BookIs ==
  ASSUME Inv
  PROVE  /\ BookInv(Book, requestOf, Latest) /\ Book.attached = attached
         /\ Book.handed = handed /\ Book.ignored = ignored /\ Book.batch = batch
         /\ Book.discarded = discarded /\ Book.since = since
         /\ Latest \in 0..NumInvocations /\ Latest \in Nat /\ Latest <= current
         /\ current \in Nat /\ current <= NumInvocations
         /\ requestOf \in Assignments /\ Range(handed) \subseteq attached
  <1>1. BookInv(Book, requestOf, Latest) /\ TypeOK /\ Progress
    BY DEF Inv
  <1>2. /\ Book.attached = attached /\ Book.handed = handed /\ Book.ignored = ignored
        /\ Book.batch = batch /\ Book.discarded = discarded /\ Book.since = since
    BY DEF Book
  <1>3. Range(Book.handed) \subseteq Book.attached
    BY <1>1 DEF BookInv, Places
  <1> QED
    BY <1>1, <1>2, <1>3, LatestIs, Numbers

\* The payload of an agent finds the last request in the batch, without one, or is
\* turned away because its request came back.
AgentPayload == Payload("agent", parcel, 0)
AgentEntry(e) ==
  e.to = lastRequestId /\ e.what.kind = "agent" /\ e.what.of = parcel
TakesAgent(c) ==
  /\ BookInv(c, requestOf, Latest)
  /\ c.handed = handed /\ c.discarded = discarded /\ c.since = since
  /\ attached \subseteq c.attached
  /\ \A e \in c.attached : e \in attached \/ AgentEntry(e)

\* The payload of the agent is offered to the last request, which is expecting it.
LEMMA TakeAgent ==
  ASSUME Inv, Expecting, reader = "parked"
  PROVE  TakesAgent(Attach(Book, lastRequestId, AgentPayload))
  <1> DEFINE c == Attach(Book, lastRequestId, AgentPayload)
             entry == [to |-> lastRequestId, what |-> AgentPayload.id]
  <1>1. /\ BookInv(Book, requestOf, Latest) /\ Book.attached = attached
        /\ Book.handed = handed /\ Book.batch = batch /\ requestOf \in Assignments
        /\ Book.discarded = discarded /\ Book.since = since
        /\ Latest \in 0..NumInvocations /\ Latest \in Nat /\ Range(handed) \subseteq attached
    BY BookIs
  <1>2. Latest # 0 /\ lastRequestId = requestOf[Latest] /\ parcel \in Invocations
    BY DEF Inv, Expecting, Progress, Latest, TypeOK, NoRequest
  <1>3. Latest \in 1..Latest /\ lastRequestId \in Begun(requestOf, Latest)
    BY <1>1, <1>2, BegunIs
  <1>4. /\ AgentPayload \in PayloadType /\ AgentPayload.id \in PayloadIds
        /\ AgentPayload.id.kind = "agent" /\ AgentPayload.id.of = parcel
    <2>1. 0 \in 0..(LastInstant - FirstInstant) /\ "agent" \in Kinds
      BY Bounds DEF Kinds
    <2> QED
      BY <1>2, <2>1, PayloadIs DEF AgentPayload
  <1>5. entry.to = lastRequestId /\ entry.what = AgentPayload.id
    OBVIOUS
  <1> HIDE DEF entry, c
  <1>6. entry \notin attached
    BY <1>4, <1>5 DEF Inv, Pipe
  <1>7. /\ \/ lastRequestId \in DOMAIN batch.invocations
           \/ Outrun(Book, requestOf, Latest, lastRequestId)
        /\ \/ Repeated(requestOf, Latest, lastRequestId)
           \/ \A e \in attached : e.to # lastRequestId
    BY DEF Inv, Expected
  <1>8. Outrun(Book, requestOf, Latest, lastRequestId)
          => \E e \in attached : e.to = lastRequestId
    BY <1>1 DEF Outrun
  <1>9. Fits(Book, requestOf, Latest, lastRequestId, AgentPayload.id)
    BY <1>1, <1>6, <1>7, <1>8 DEF Fits, entry
  <1>10. Offered(Book, c, requestOf, Latest, entry)
    BY <1>1, <1>3, <1>4, <1>9, AttachInv DEF c, entry
  <1>11. /\ BookInv(c, requestOf, Latest)
         /\ c.handed = handed /\ c.discarded = discarded /\ c.since = since
         /\ c.attached = attached \/ c.attached = attached \cup {entry}
    BY <1>1, <1>10 DEF Offered
  <1>12. TakesAgent(c)
    BY <1>4, <1>5, <1>11 DEF TakesAgent, AgentEntry
  <1> QED
    BY <1>12 DEF c

\* What the poll for the payload of a suspected timeout may change.
LEMMA CatchUpIs ==
  ASSUME Inv, pc = "thawed"
  PROVE  /\ TakesAgent(CatchUp)
         /\ \A e \in CatchUp.attached : e \in attached \/ (PollSucceeds /\ AgentEntry(e))
  <1>1. CASE PollSucceeds
    <2>1. CatchUp = Attach(Book, lastRequestId, AgentPayload)
      BY <1>1 DEF CatchUp, AgentPayload
    <2>2. TakesAgent(CatchUp)
      BY <1>1, <2>1, TakeAgent DEF Expecting, PollSucceeds
    <2> QED
      BY <1>1, <2>2 DEF TakesAgent
  <1>2. CASE ~PollSucceeds
    <2>1. CatchUp = Book
      BY <1>2 DEF CatchUp
    <2> QED
      BY <2>1, BookIs DEF TakesAgent
  <1> QED
    BY <1>1, <1>2

\* What the last words of an invocation add.
Spoken(b, c) ==
  /\ BookInv(c, requestOf, Latest)
  /\ c.handed = handed /\ c.discarded = discarded /\ c.since = since
  /\ b.attached \subseteq c.attached
  /\ \A e \in c.attached : e \in b.attached \/ e.what.kind \in {"timeout", "fault"}
  /\ shutdown = "timeout" => \E secs \in 0..(LastInstant - FirstInstant) : Said(c, secs)

\* The last words measure a duration that is not negative.
LEMMA MeasuredFromIs ==
  ASSUME Inv, current # 0
  PROVE  /\ MeasuredFrom \in Instants /\ MeasuredFrom <= eventStart
         /\ eventStart - MeasuredFrom \in 0..(LastInstant - FirstInstant)
  <1>1. eventStart \in Instants /\ lastEventStart <= eventStart
    BY DEF Inv, Clock
  <1>2. lastEventStart \in Instants \/ lastEventStart = ZeroTime
    BY DEF Inv, TypeOK
  <1>3. MeasuredFrom \in Instants /\ MeasuredFrom <= eventStart
    BY <1>1, <1>2, Bounds DEF MeasuredFrom, Instants
  <1> QED
    BY <1>1, <1>3, Bounds DEF Instants

\* Offering a message to the last request, after the payload of its agent.
LEMMA SpeakIs ==
  ASSUME Inv, pc = "thawed", shutdown # "none", lastRequestId # NoRequest,
         NEW b, TakesAgent(b), NEW kind \in {"timeout", "fault"},
         NEW secs \in 0..(LastInstant - FirstInstant), shutdown = "timeout" => kind = "timeout"
  PROVE  Spoken(b, Attach(b, lastRequestId, Payload(kind, current, secs)))
  <1> DEFINE p == Payload(kind, current, secs)
             c == Attach(b, lastRequestId, p)
             entry == [to |-> lastRequestId, what |-> p.id]
  <1>1. /\ BookInv(b, requestOf, Latest) /\ attached \subseteq b.attached
        /\ b.handed = handed /\ b.discarded = discarded /\ b.since = since
        /\ \A e \in b.attached : e \in attached \/ AgentEntry(e)
    BY DEF TakesAgent
  <1>2. /\ Latest \in 0..NumInvocations /\ current \in Nat /\ current <= NumInvocations
        /\ requestOf \in Assignments /\ Range(handed) \subseteq attached
    BY BookIs
  <1>3. Latest = current /\ Latest # 0 /\ lastRequestId = requestOf[current]
    BY DEF Inv, Progress, Latest
  <1>4. /\ current \in 1..current /\ current \in Invocations
        /\ lastRequestId \in Begun(requestOf, Latest)
    BY <1>2, <1>3, BegunIs
  <1>5. p \in PayloadType /\ p.id.kind = kind
    BY <1>4, PayloadIs DEF Kinds
  <1>6. /\ entry.to = lastRequestId /\ entry.what = p.id
        /\ kind = "timeout" => entry = TimeoutEntry(secs)
    BY <1>3 DEF TimeoutEntry
  <1>7. \A e \in attached : \/ e.what.kind = "agent"
                            \/ /\ e.what.kind = "report" /\ e.what.of < Latest
                               /\ e.what.of \in 1..current /\ e.to = requestOf[e.what.of]
    BY DEF Inv, Reports, Looping
  <1> HIDE DEF p, c, entry
  <1>8. entry \notin b.attached
    BY <1>1, <1>5, <1>6, <1>7 DEF AgentEntry
  <1>9. ASSUME NEW f \in Range(b.handed), f.to = lastRequestId, f.what.kind # "agent"
        PROVE  Repeated(requestOf, Latest, lastRequestId)
    <2>1. /\ f.what.of \in 1..current /\ f.what.of < current
          /\ requestOf[f.what.of] = lastRequestId
      BY <1>1, <1>2, <1>3, <1>7, <1>9
    <2> QED
      BY <1>3, <1>4, <2>1 DEF Repeated
  <1>10. Fits(b, requestOf, Latest, lastRequestId, p.id)
    BY <1>5, <1>8, <1>9 DEF Fits, entry
  <1>11. Offered(b, c, requestOf, Latest, entry)
    BY <1>1, <1>2, <1>4, <1>5, <1>10, AttachInv DEF c, entry
  <1>12. /\ BookInv(c, requestOf, Latest)
         /\ c.handed = handed /\ c.discarded = discarded /\ c.since = since
         /\ IF lastRequestId \in DOMAIN b.batch.invocations
            THEN c.attached = b.attached \cup {entry}
            ELSE c.attached = b.attached /\ entry \in c.ignored
    BY <1>1, <1>6, <1>11 DEF Offered
  <1>13. shutdown = "timeout" => Said(c, secs)
    <2> SUFFICES ASSUME shutdown = "timeout" PROVE Said(c, secs)
      OBVIOUS
    <2>1. CASE lastRequestId \in DOMAIN b.batch.invocations
      <3>1. entry \notin discarded
        BY <1>1, <1>8 DEF BookInv, Places
      <3> QED
        BY <1>6, <1>12, <2>1, <3>1 DEF Said
    <2>2. CASE lastRequestId \notin DOMAIN b.batch.invocations
      <3>1. InHand(b, lastRequestId)
        BY <1>1, <1>3 DEF BookInv, Known
      <3> QED
        BY <1>1, <1>3, <1>6, <1>12, <2>2, <3>1 DEF Said, InHand
    <2> QED
      BY <2>1, <2>2
  <1>14. Spoken(b, c)
    BY <1>5, <1>6, <1>12, <1>13 DEF Spoken
  <1> QED
    BY <1>14 DEF c, p

\* The last words are one payload at most, and a timeout is never silent.
LEMMA LastWordsIs ==
  ASSUME Inv, pc = "thawed", shutdown # "none", NEW b, TakesAgent(b)
  PROVE  Spoken(b, LastWords(b))
  <1>1. shutdown \in {"spindown", "timeout", "failure"}
    BY DEF Inv, TypeOK
  <1>2. shutdown = "timeout" => current # 0 /\ lastRequestId # NoRequest
    <2>1. shutdown = "timeout" => Latest # 0 /\ Latest \in 1..Latest
      BY BookIs DEF Inv, Progress, Latest
    <2> QED
      BY <2>1, BookIs, BegunIs, Bounds DEF Inv, Progress, NoRequest
  <1>3. CASE shutdown = "timeout"
    <2>1. LastWords(b) = Attach(b, lastRequestId,
                                Payload("timeout", current, eventStart - MeasuredFrom))
      BY <1>2, <1>3 DEF LastWords
    <2>2. eventStart - MeasuredFrom \in 0..(LastInstant - FirstInstant)
      BY <1>2, <1>3, MeasuredFromIs
    <2> QED
      BY <1>2, <1>3, <2>1, <2>2, SpeakIs
  <1>4. CASE shutdown = "failure" /\ lastRequestId # NoRequest
    <2>1. LastWords(b) = Attach(b, lastRequestId, Payload("fault", current, 0))
      BY <1>4 DEF LastWords
    <2>2. 0 \in 0..(LastInstant - FirstInstant)
      BY Bounds
    <2> QED
      BY <1>4, <2>1, <2>2, SpeakIs
  <1>5. CASE shutdown = "spindown" \/ (shutdown = "failure" /\ lastRequestId = NoRequest)
    <2>1. LastWords(b) = b
      BY <1>5 DEF LastWords
    <2> QED
      BY <1>5, <2>1 DEF Spoken, TakesAgent
  <1> QED
    BY <1>1, <1>3, <1>4, <1>5

\* Shutdown: the late poll and the last words.
LEMMA HandleShutdownInv ==
  ASSUME Inv, HandleShutdown
  PROVE  Inv'
  <1> USE DEF HandleShutdown, platformVars, logVars
  <1> DEFINE b == CatchUp
             c == LastWords(CatchUp)
  <1>1. /\ TakesAgent(b)
        /\ \A e \in b.attached : e \in attached \/ (PollSucceeds /\ AgentEntry(e))
    BY CatchUpIs
  <1>2. Spoken(b, c)
    BY <1>1, LastWordsIs
  <1>3. SetBook(c) /\ BookInv(c, requestOf, Latest)
    BY <1>2 DEF Spoken
  <1> HIDE DEF b, c
  <1>4. /\ Book' = c /\ attached' = c.attached /\ ignored' = c.ignored
        /\ handed' = c.handed /\ batch' = c.batch
        /\ attached' \subseteq Entries /\ ignored' \subseteq Entries
        /\ Range(handed') \subseteq Entries /\ discarded' \subseteq Entries
        /\ since' \in 0..Len(handed') /\ Range(handed') \subseteq attached'
    BY <1>3, BookSet
  <1>5. /\ TypeOK /\ Progress /\ Reports /\ Race /\ Clock /\ Pipe
        /\ Latest = current /\ Latest' = Latest
        /\ (shutdown = "timeout" => current # 0)
    BY DEF Inv, Progress, Latest
  <1>0. /\ now \in Nat /\ lastEventStart \in Nat /\ eventStart \in Nat /\ current \in Nat
        /\ (lastRequestId # NoRequest => current # 0)
    BY <1>5, Numbers DEF Progress
  <1>6. \A e \in attached' :
          \/ e \in attached
          \/ PollSucceeds /\ AgentEntry(e)
          \/ e.what.kind \in {"timeout", "fault"}
    BY <1>1, <1>2, <1>4 DEF Spoken
  <1>7. /\ (reader' = "open" /\ parcel' = NoRequest) \/ UNCHANGED pipeVars
        /\ PollSucceeds => parcel' = NoRequest
    BY DEF PollPipe
  <1>8. lastEventStart' \in Instants \cup {ZeroTime} /\ lastEventStart' <= eventStart
    BY <1>0, <1>5, MeasuredFromIs DEF TypeOK, Clock
  <1>9. TypeOK'
    <2>1. raced' \in BOOLEAN
      BY DEF PollPipe
    <2>2. /\ reader' \in {"open", "holding", "parked"} /\ parcel' \in Invocations \cup {NoRequest}
          /\ (parcel' = NoRequest <=> reader' = "open")
      BY <1>5, <1>7 DEF TypeOK, pipeVars
    <2> QED
      BY <1>4, <1>5, <1>8, <2>1, <2>2, SMTT(60) DEF TypeOK
  <1>10. BookInv(Book, requestOf, Latest)'
    BY <1>3, <1>4, <1>5
  <1>11. Clock' /\ Progress'
    BY <1>0, <1>5, <1>7, <1>8 DEF Clock, Progress, pipeVars, NoRequest
  <1>12. Reports'
    <2>1. handed' = handed
      BY <1>2, <1>4 DEF Spoken
    <2>2. \A e \in attached' : e.what.kind = "report" => e \in attached
      BY <1>6 DEF AgentEntry
    <2> QED
      BY <1>5, <2>1, <2>2 DEF Reports, Looping
  <1>13. Pipe'
    <2> SUFFICES ASSUME NEW e \in attached', e.what.kind = "agent"
                 PROVE  /\ e.what.of \in 1..current /\ e.what.of # parcel'
                        /\ e.what.of = current => wrote
      BY DEF Pipe
    <2>1. CASE e \in attached
      <3>1. /\ e.what.of \in 1..current /\ e.what.of # parcel
            /\ e.what.of = current => wrote
        BY <1>5, <2>1 DEF Pipe
      <3> QED
        BY <1>7, <3>1 DEF pipeVars, NoRequest
    <2>2. CASE PollSucceeds /\ AgentEntry(e)
      <3>1. e.what.of = parcel /\ parcel \in Invocations /\ parcel <= current
        BY <1>5, <2>2 DEF AgentEntry, PollSucceeds, TypeOK, Progress
      <3> QED
        BY <1>0, <1>5, <1>7, <2>2, <3>1 DEF Progress, Invocations, NoRequest
    <2> QED
      BY <1>6, <2>1, <2>2
  <1>14. Race'
    <2> SUFFICES ASSUME ~raced', NEW e \in attached', e.what.kind = "agent"
                 PROVE  e.to = requestOf[e.what.of]
      BY DEF Race
    <2>1. ~raced
      BY DEF PollPipe
    <2>2. CASE e \in attached
      BY <1>5, <2>1, <2>2 DEF Race
    <2>3. CASE PollSucceeds /\ AgentEntry(e)
      <3>1. parcel = current /\ Latest # 0
        BY <1>5, <2>1, <2>3 DEF Race, PollSucceeds, TypeOK, Progress
      <3> QED
        BY <1>5, <2>3, <3>1 DEF AgentEntry, Progress
    <2> QED
      BY <1>6, <2>2, <2>3
  <1>15. Expected' /\ LastWordsSaid' /\ Emptied'
    BY <1>2, <1>4 DEF Expected, Expecting, LastWordsSaid, Said, TimeoutEntry, Emptied, Spoken
  <1> QED
    BY <1>9, <1>10, <1>11, <1>12, <1>13, <1>14, <1>15 DEF Inv

\* Invoke: the late poll, then the invocation begun and the batch worked on.
LEMMA HandleInvokeInv ==
  ASSUME Inv, HandleInvoke
  PROVE  Inv'
  <1> USE DEF HandleInvoke, platformVars
  <1> DEFINE b == CatchUp
             q == requestOf[current]
             begun == Begin(b, q, eventStart)
             c == PollHarvestShip(begun)
  <1>1. /\ TypeOK /\ Progress /\ Reports /\ Race /\ Clock /\ Pipe
        /\ current # 0 /\ Latest = current - 1 /\ current \in Nat /\ Latest' = current
        /\ Latest \in Nat /\ current <= NumInvocations /\ Range(handed) \subseteq attached
        /\ requestOf \in Assignments /\ Latest \in 0..NumInvocations
    BY BookIs DEF Inv, Progress, Latest
  <1>2. /\ TakesAgent(b)
        /\ \A e \in b.attached : e \in attached \/ (PollSucceeds /\ AgentEntry(e))
    BY CatchUpIs
  <1>3. /\ BookInv(b, requestOf, Latest) /\ b.handed = handed
    BY <1>2 DEF TakesAgent
  <1>4. SetBook(c)
    OBVIOUS
  <1>0. /\ current \in 0..NumInvocations /\ current \in Invocations /\ current \in 1..current
        /\ q \in Requests /\ current = Latest + 1
    BY <1>1, BegunIs DEF Invocations
  <1> HIDE DEF b
  <1>5. /\ BookInv(begun, requestOf, current)
        /\ begun.handed = handed /\ begun.attached = b.attached
        /\ q \in DOMAIN begun.batch.invocations
        /\ begun.batch.invocations[q].telemetry = << >>
    <2>1. eventStart \in Instants
      BY <1>1 DEF Clock
    <2> QED
      BY <1>0, <1>1, <1>3, <2>1, BeginInv
  <1> HIDE DEF begun
  <1>6. Range(platformLogs) \subseteq 1..current /\ current \notin Range(platformLogs)
    BY <1>1 DEF Reports
  <1>7. ReportsNew(begun, current)
    <2>1. platformLogs \in Seq(Invocations) /\ IsInjective(platformLogs)
      BY <1>1 DEF Reports
    <2>2. \A e \in begun.attached : e.what.kind = "report" =>
            e.what.of \in (1..current) \ Range(platformLogs) /\ e.to = requestOf[e.what.of]
      BY <1>1, <1>2, <1>5 DEF Reports, AgentEntry
    <2>3. \A e \in Range(begun.handed) : e.what.kind \in {"agent", "report"}
      BY <1>1, <1>5 DEF Reports
    <2> QED
      BY <1>6, <2>1, <2>2, <2>3 DEF ReportsNew
  <1>8. Worked(begun, c, current)
    BY <1>0, <1>1, <1>5, <1>7, PollHarvestShipInv
  <1> HIDE DEF c
  <1>9. BookInv(c, requestOf, current)
    BY <1>8 DEF Worked
  <1>10. /\ Book' = c /\ attached' = c.attached /\ ignored' = c.ignored
         /\ handed' = c.handed /\ batch' = c.batch
         /\ attached' \subseteq Entries /\ ignored' \subseteq Entries
         /\ Range(handed') \subseteq Entries /\ discarded' \subseteq Entries
         /\ since' \in 0..Len(handed') /\ Range(handed') \subseteq attached'
    BY <1>4, <1>9, BookSet
  <1>11. \A e \in attached' :
           \/ e \in attached
           \/ PollSucceeds /\ AgentEntry(e)
           \/ \E k \in Range(platformLogs) : IsReport(e, k)
    BY <1>2, <1>5, <1>8, <1>10 DEF Worked
  <1>12. ASSUME NEW e \in attached', e.to = q
         PROVE  Repeated(requestOf, current, q)
    <2>1. CASE e \in b.attached
      <3>1. PICK k \in 1..Latest : requestOf[k] = q
        BY <1>3, <1>12, <2>1 DEF BookInv, Known, Begun
      <3>2. k \in 1..current /\ k # current
        BY <1>0, <1>1
      <3> QED
        BY <1>0, <3>1, <3>2 DEF Repeated
    <2>2. CASE \E k \in Range(platformLogs) : IsReport(e, k)
      <3>1. PICK k \in Range(platformLogs) : requestOf[k] = q
        BY <1>12, <2>2 DEF IsReport
      <3> QED
        BY <1>0, <1>6, <3>1 DEF Repeated
    <2> QED
      BY <1>5, <1>8, <1>10, <2>1, <2>2 DEF Worked
  <1>13. /\ (reader' = "open" /\ parcel' = NoRequest) \/ UNCHANGED pipeVars
         /\ PollSucceeds => parcel' = NoRequest
    BY DEF PollPipe
  <1>14. /\ platformLogs' \in Seq(Invocations) /\ Range(platformLogs') = {}
         /\ IsInjective(platformLogs')
    BY DEF Range, IsInjective
  <1>15. TypeOK'
    <2>1. raced' \in BOOLEAN
      BY DEF PollPipe
    <2>2. /\ reader' \in {"open", "holding", "parked"} /\ parcel' \in Invocations \cup {NoRequest}
          /\ (parcel' = NoRequest <=> reader' = "open")
      BY <1>1, <1>13 DEF TypeOK, pipeVars
    <2>3. timeLimit' \in Int /\ lastRequestId' \in Requests
      BY <1>0, <1>1, Bounds DEF TypeOK, ZeroTime
    <2>4. Range(platformLogs') \subseteq Invocations
      BY <1>14
    <2>5. /\ pc' = "await" /\ probablyTimeout' = FALSE /\ now' = now /\ ctxDone' = ctxDone
          /\ lastEventStart' = lastEventStart /\ eventStart' = eventStart
          /\ errors' = errors /\ reported' = reported /\ serverOpen' = serverOpen
          /\ current' = current /\ function' = function /\ deadline' = deadline
          /\ wrote' = wrote /\ shutdown' = shutdown /\ requestOf' = requestOf
      OBVIOUS
    <2>6. /\ now \in Instants /\ ctxDone \in BOOLEAN /\ serverOpen \in BOOLEAN
          /\ wrote \in BOOLEAN /\ current \in 0..NumInvocations /\ requestOf \in Assignments
          /\ {lastEventStart, eventStart} \subseteq Instants \cup {ZeroTime}
          /\ deadline \in Instants \cup {ZeroTime} /\ errors \in 0..MaxErrors
          /\ function \in {"idle", "running", "finished", "timedout", "crashed"}
          /\ shutdown \in {"none", "spindown", "timeout", "failure"}
          /\ reported \subseteq Invocations
      BY <1>1 DEF TypeOK
    <2>7. /\ attached' \subseteq Entries /\ ignored' \subseteq Entries
          /\ Range(handed') \subseteq Entries /\ discarded' \subseteq Entries
          /\ since' \in 0..Len(handed')
      BY <1>10
    <2> HIDE DEF HandleInvoke, platformVars
    <2> QED
      BY <2>1, <2>2, <2>3, <2>4, <2>5, <2>6, <2>7 DEF TypeOK
  <1>16. BookInv(Book, requestOf, Latest)'
    BY <1>1, <1>9, <1>10
  <1>17. Clock' /\ Progress'
    BY <1>1, <1>13, Numbers DEF Clock, Progress, pipeVars, NoRequest
  <1>18. Reports'
    <2>1. ASSUME NEW e \in attached'
          PROVE  \/ e.what.kind = "agent"
                 \/ e.what.kind = "report" /\ e.what.of < current
      <3>1. CASE e \in attached
        <4>1. \/ e.what.kind = "agent"
              \/ e.what.kind = "report" /\ e.what.of < Latest
          BY <1>1, <3>1 DEF Reports, Looping
        <4>2. e.what.of \in Nat
          BY <1>10, Bounds DEF Entries, PayloadIds
        <4> QED
          BY <1>1, <4>1, <4>2
      <3>2. CASE PollSucceeds /\ AgentEntry(e)
        BY <3>2 DEF AgentEntry
      <3>3. CASE \E k \in Range(platformLogs) : IsReport(e, k)
        BY <1>1, <1>6, <3>3 DEF IsReport
      <3> QED
        BY <1>11, <3>1, <3>2, <3>3
    <2>2. \A e \in attached' : e.what.kind = "report" =>
            e.what.of \in reported /\ e.to = requestOf[e.what.of]
      BY <1>1, <1>11 DEF Reports, AgentEntry, IsReport
    <2>3. \A e \in Range(handed') : e.what.kind \in {"agent", "report"}
      BY <1>10, <2>1
    <2>4. reported \subseteq 1..current /\ current \notin reported
      BY <1>1 DEF Reports
    <2> QED
      BY <1>1, <1>14, <2>1, <2>2, <2>3, <2>4 DEF Reports, Looping
  <1>19. Expected'
    <2>1. \/ q \in DOMAIN c.batch.invocations
          \/ \E e \in Range(c.handed) :
               e.to = q /\ \E k \in Range(platformLogs) : IsReport(e, k)
      BY <1>5, <1>8 DEF Worked
    <2>2. q \in DOMAIN c.batch.invocations \/ Outrun(c, requestOf, current, q)
      <3> SUFFICES ASSUME NEW e \in Range(c.handed), e.to = q,
                          NEW k \in Range(platformLogs), IsReport(e, k)
                   PROVE  Outrun(c, requestOf, current, q)
        BY <2>1
      <3>1. e.what.kind = "report" /\ current > e.what.of
        BY <1>1, <1>6 DEF IsReport
      <3> QED
        BY <1>0, <3>1 DEF Outrun
    <2>3. Repeated(requestOf, current, q) \/ \A e \in attached' : e.to # q
      BY <1>12
    <2> QED
      BY <1>1, <1>10, <2>2, <2>3 DEF Expected
  <1>20. Pipe'
    <2> SUFFICES ASSUME NEW e \in attached', e.what.kind = "agent"
                 PROVE  /\ e.what.of \in 1..current /\ e.what.of # parcel'
                        /\ e.what.of = current => wrote
      BY DEF Pipe
    <2>1. CASE e \in attached
      <3>1. /\ e.what.of \in 1..current /\ e.what.of # parcel
            /\ e.what.of = current => wrote
        BY <1>1, <2>1 DEF Pipe
      <3> QED
        BY <1>13, <3>1 DEF pipeVars, NoRequest
    <2>2. CASE PollSucceeds /\ AgentEntry(e)
      <3>1. e.what.of = parcel /\ parcel \in Invocations /\ parcel <= current
        BY <1>1, <2>2 DEF AgentEntry, PollSucceeds, TypeOK, Progress
      <3> QED
        BY <1>1, <1>13, <2>2, <3>1 DEF Progress, Invocations, NoRequest
    <2> QED
      BY <1>11, <2>1, <2>2 DEF IsReport
  <1>21. Race'
    <2> SUFFICES ASSUME ~raced'
                 PROVE  /\ \A e \in attached' : e.what.kind = "agent" => e.to = requestOf[e.what.of]
                        /\ parcel' \in {NoRequest, current}
      BY DEF Race
    <2>1. ~raced /\ ~PollTooEarly /\ ~PollTooLate
      BY DEF PollPipe
    <2>2. /\ parcel \in {NoRequest, current} \/ (probablyTimeout /\ parcel = current - 1)
          /\ \A e \in attached : e.what.kind = "agent" => e.to = requestOf[e.what.of]
          /\ (parcel = NoRequest <=> reader = "open") /\ reader \in {"open", "holding", "parked"}
      BY <1>1, <2>1 DEF Race, TypeOK
    <2>3. PollSucceeds => parcel = current - 1 /\ lastRequestId = requestOf[current - 1]
      BY <1>1, <2>1, <2>2 DEF PollTooLate, PollSucceeds, Progress
    <2>4. \A e \in attached' : e.what.kind = "agent" => e.to = requestOf[e.what.of]
      BY <1>11, <2>2, <2>3 DEF AgentEntry, IsReport
    <2>5. parcel' \in {NoRequest, current}
      <3>1. CASE PollSucceeds
        BY <1>13, <3>1
      <3>2. CASE ~PollSucceeds
        BY <2>1, <2>2, <3>2 DEF PollPipe, PollSucceeds, PollTooEarly, pipeVars
      <3> QED
        BY <3>1, <3>2
    <2> QED
      BY <2>4, <2>5
  <1>22. LastWordsSaid' /\ Emptied'
    BY DEF LastWordsSaid, Emptied
  <1> QED
    BY <1>15, <1>16, <1>17, <1>18, <1>19, <1>20, <1>21, <1>22 DEF Inv

\* The payload arrives before the time limit: offered, then the batch worked on.
LEMMA ReceiveTelemetryInv ==
  ASSUME Inv, ReceiveTelemetry
  PROVE  Inv'
  <1> USE DEF ReceiveTelemetry, platformVars
  <1> DEFINE b == Attach(Book, lastRequestId, AgentPayload)
             c == PollHarvestShip(b)
  <1>1. /\ TypeOK /\ Progress /\ Reports /\ Race /\ Clock /\ Pipe
        /\ current # 0 /\ Latest = current /\ Latest' = current /\ current \in Nat
        /\ lastRequestId = requestOf[current]
        /\ ~probablyTimeout /\ current <= NumInvocations /\ shutdown = "none"
        /\ requestOf \in Assignments /\ current \in 0..NumInvocations
    BY BookIs DEF Inv, Progress, Latest
  <1>2. TakesAgent(b)
    BY TakeAgent DEF Expecting
  <1>3. /\ BookInv(b, requestOf, current) /\ b.handed = handed
        /\ \A e \in b.attached : e \in attached \/ AgentEntry(e)
    BY <1>1, <1>2 DEF TakesAgent
  <1>4. SetBook(c)
    BY DEF AgentPayload
  <1> HIDE DEF b
  <1>5. /\ Range(platformLogs) \subseteq 1..current /\ current \notin Range(platformLogs)
        /\ reported \subseteq 1..current /\ current \notin reported
    BY <1>1 DEF Reports
  <1>6. ReportsNew(b, current)
    <2>1. platformLogs \in Seq(Invocations) /\ IsInjective(platformLogs)
      BY <1>1 DEF Reports
    <2>2. \A e \in b.attached : e.what.kind = "report" =>
            e.what.of \in (1..current) \ Range(platformLogs) /\ e.to = requestOf[e.what.of]
      BY <1>1, <1>3 DEF Reports, AgentEntry
    <2>3. \A e \in Range(b.handed) : e.what.kind \in {"agent", "report"}
      BY <1>1, <1>3 DEF Reports
    <2> QED
      BY <1>5, <2>1, <2>2, <2>3 DEF ReportsNew
  <1>7. Worked(b, c, current)
    BY <1>1, <1>3, <1>6, PollHarvestShipInv
  <1> HIDE DEF c
  <1>8. BookInv(c, requestOf, current)
    BY <1>7 DEF Worked
  <1>9. /\ Book' = c /\ attached' = c.attached /\ ignored' = c.ignored
        /\ handed' = c.handed /\ batch' = c.batch
        /\ attached' \subseteq Entries /\ ignored' \subseteq Entries
        /\ Range(handed') \subseteq Entries /\ discarded' \subseteq Entries
        /\ since' \in 0..Len(handed') /\ Range(handed') \subseteq attached'
    BY <1>4, <1>8, BookSet
  <1>10. \A e \in attached' :
           \/ e \in attached
           \/ AgentEntry(e)
           \/ \E k \in Range(platformLogs) : IsReport(e, k)
    BY <1>3, <1>7, <1>9 DEF Worked
  <1>11. /\ platformLogs' \in Seq(Invocations) /\ Range(platformLogs') = {}
         /\ IsInjective(platformLogs')
    BY DEF Range, IsInjective
  <1>12. TypeOK'
    <2>1. Range(platformLogs') \subseteq Invocations
      BY <1>11
    <2>2. /\ pc' = "top" /\ reader' = "open" /\ parcel' = NoRequest
          /\ lastEventStart' = eventStart /\ eventStart' = eventStart
          /\ now' = now /\ probablyTimeout' = probablyTimeout /\ lastRequestId' = lastRequestId
          /\ ctxDone' = ctxDone /\ errors' = errors /\ reported' = reported
          /\ serverOpen' = serverOpen /\ raced' = raced /\ timeLimit' = timeLimit
          /\ current' = current /\ function' = function /\ deadline' = deadline
          /\ wrote' = wrote /\ shutdown' = shutdown /\ requestOf' = requestOf
      OBVIOUS
    <2> HIDE DEF HandleInvoke, platformVars
    <2> QED
      BY <1>1, <1>9, <2>1, <2>2, SMTT(60) DEF TypeOK
  <1>13. BookInv(Book, requestOf, Latest)'
    BY <1>1, <1>8, <1>9
  <1>14. Clock' /\ Progress'
    BY <1>1, Numbers DEF Clock, Progress, NoRequest
  <1>15. Reports'
    <2>1. ASSUME NEW e \in attached'
          PROVE  \/ e.what.kind = "agent"
                 \/ e.what.kind = "report" /\ e.what.of < current
      <3>1. CASE e \in attached
        BY <1>1, <3>1 DEF Reports, Looping
      <3>2. CASE AgentEntry(e)
        BY <3>2 DEF AgentEntry
      <3>3. CASE \E k \in Range(platformLogs) : IsReport(e, k)
        BY <1>1, <1>5, <3>3 DEF IsReport
      <3> QED
        BY <1>10, <3>1, <3>2, <3>3
    <2>2. \A e \in attached' : e.what.kind = "report" =>
            e.what.of \in reported /\ e.to = requestOf[e.what.of]
      BY <1>1, <1>10 DEF Reports, AgentEntry, IsReport
    <2>3. \A e \in Range(handed') : e.what.kind \in {"agent", "report"}
      BY <1>9, <2>1
    <2> QED
      BY <1>1, <1>5, <1>11, <2>1, <2>2, <2>3 DEF Reports, Looping
  <1>16. Expected'
    BY <1>1 DEF Expected, Expecting
  <1>17. Pipe'
    <2> SUFFICES ASSUME NEW e \in attached', e.what.kind = "agent"
                 PROVE  e.what.of \in 1..current /\ (e.what.of = current => wrote)
      BY DEF Pipe, NoRequest
    <2>1. CASE e \in attached
      BY <1>1, <2>1 DEF Pipe
    <2>2. CASE AgentEntry(e)
      <3>1. e.what.of = parcel /\ parcel \in Invocations /\ parcel <= current
        BY <1>1, <2>2 DEF AgentEntry, TypeOK, Progress, NoRequest
      <3> QED
        BY <1>1, <3>1 DEF Progress, Invocations
    <2> QED
      BY <1>10, <2>1, <2>2 DEF IsReport
  <1>18. Race'
    <2> SUFFICES ASSUME ~raced
                 PROVE  /\ \A e \in attached' : e.what.kind = "agent" => e.to = requestOf[e.what.of]
                        /\ wrote
      BY <1>1 DEF Race
    <2>1. parcel = current
      BY <1>1 DEF Race, TypeOK
    <2>2. wrote
      BY <1>1, <2>1 DEF Progress
    <2>3. \A e \in attached : e.what.kind = "agent" => e.to = requestOf[e.what.of]
      BY <1>1 DEF Race
    <2> QED
      BY <1>1, <1>10, <2>1, <2>2, <2>3 DEF AgentEntry, IsReport
  <1>19. LastWordsSaid' /\ Emptied'
    BY <1>1 DEF LastWordsSaid, Emptied
  <1> QED
    BY <1>12, <1>13, <1>14, <1>15, <1>16, <1>17, <1>18, <1>19 DEF Inv

\* The last poll of the reports.
LEMMA FinalPollInv ==
  ASSUME Inv, FinalPoll
  PROVE  Inv'
  <1> USE DEF FinalPoll, platformVars, loopVars, pipeVars
  <1> DEFINE c == PollLogServer(Book)
  <1>1. /\ TypeOK /\ Progress /\ Reports /\ Race /\ Clock /\ Pipe /\ LastWordsSaid
        /\ Latest = current /\ Latest' = current
    BY DEF Inv, Latest
  <1>2. /\ BookInv(Book, requestOf, Latest) /\ Book.attached = attached
        /\ Book.handed = handed /\ Book.batch = batch /\ Book.ignored = ignored
        /\ Book.discarded = discarded /\ Book.since = since
        /\ Latest \in 0..NumInvocations /\ requestOf \in Assignments /\ current \in Nat
    BY BookIs
  <1>3. ReportsNew(Book, Latest)
    <2>1. platformLogs \in Seq(Invocations) /\ IsInjective(platformLogs)
      BY <1>1 DEF Reports
    <2>2. \A e \in Book.attached : e.what.kind = "report" =>
            e.what.of \in (1..Latest) \ Range(platformLogs) /\ e.to = requestOf[e.what.of]
      BY <1>1, <1>2 DEF Reports
    <2>3. \A e \in Range(Book.handed) : e.what.kind \in {"agent", "report"}
      BY <1>1, <1>2 DEF Reports
    <2>4. Range(platformLogs) \subseteq 1..Latest
      BY <1>1 DEF Reports
    <2> QED
      BY <2>1, <2>2, <2>3, <2>4 DEF ReportsNew
  <1>4. PolledSome(Book, c, Latest, Len(platformLogs))
    BY <1>2, <1>3, PollInv
  <1>5. SetBook(c)
    OBVIOUS
  <1> HIDE DEF c
  <1>6. /\ BookInv(c, requestOf, Latest) /\ c.handed = handed
        /\ c.discarded = discarded /\ c.since = since
        /\ attached \subseteq c.attached /\ ignored \subseteq c.ignored
    BY <1>2, <1>4 DEF PolledSome
  <1>7. /\ Book' = c /\ attached' = c.attached /\ ignored' = c.ignored
        /\ handed' = c.handed /\ batch' = c.batch
        /\ attached' \subseteq Entries /\ ignored' \subseteq Entries
        /\ Range(handed') \subseteq Entries /\ discarded' \subseteq Entries
        /\ since' \in 0..Len(handed') /\ Range(handed') \subseteq attached'
    BY <1>5, <1>6, BookSet
  <1>8. \A e \in attached' :
          e \in attached \/ \E k \in Range(platformLogs) : IsReport(e, k)
    <2>1. \A k \in 1..Len(platformLogs) : platformLogs[k] \in Range(platformLogs)
      BY <1>1 DEF Reports, Range
    <2> QED
      BY <1>2, <1>4, <1>7, <2>1 DEF PolledSome
  <1>9. /\ platformLogs' \in Seq(Invocations) /\ Range(platformLogs') = {}
        /\ IsInjective(platformLogs')
    BY DEF Range, IsInjective
  <1>10. TypeOK'
    <2>1. Range(platformLogs') \subseteq Invocations
      BY <1>9
    <2> QED
      BY <1>1, <1>7, <2>1, SMTT(60) DEF TypeOK
  <1>11. BookInv(Book, requestOf, Latest)'
    BY <1>1, <1>6, <1>7
  <1>12. Clock' /\ Progress'
    BY <1>1 DEF Clock, Progress
  <1>13. Reports'
    <2>1. \A e \in attached' : e.what.kind = "report" =>
            e.what.of \in reported /\ e.to = requestOf[e.what.of]
      BY <1>1, <1>8 DEF Reports, IsReport
    <2>2. handed' = handed
      BY <1>6, <1>7
    <2> QED
      BY <1>1, <1>9, <2>1, <2>2 DEF Reports, Looping
  <1>14. Race' /\ Pipe'
    BY <1>1, <1>8 DEF Race, Pipe, IsReport
  <1>15. LastWordsSaid'
    <2> SUFFICES ASSUME shutdown = "timeout"
                 PROVE  \E secs \in 0..(LastInstant - FirstInstant) : Said(Book, secs)'
      BY DEF LastWordsSaid
    <2>1. PICK secs \in 0..(LastInstant - FirstInstant) : Said(Book, secs)
      BY <1>1 DEF LastWordsSaid
    <2>2. Said(c, secs)
      BY <1>2, <1>6, <2>1 DEF Said
    <2>3. Said(Book, secs)'
      BY <1>7, <2>2 DEF Said, TimeoutEntry
    <2> QED
      BY <2>1, <2>3
  <1>16. Expected' /\ Emptied'
    BY DEF Expected, Expecting, Emptied
  <1> QED
    BY <1>10, <1>11, <1>12, <1>13, <1>14, <1>15, <1>16 DEF Inv

\* Close empties the batch into the slice.
LEMMA FinalHarvestInv ==
  ASSUME Inv, FinalHarvest
  PROVE  Inv'
  <1> USE DEF FinalHarvest, platformVars, loopVars, pipeVars, logVars
  <1> DEFINE h == Close(batch, now)
             c == ShipHarvest(Book, h)
             S == Pending(batch)
  <1>1. /\ TypeOK /\ Progress /\ Reports /\ Race /\ Clock /\ Pipe /\ LastWordsSaid
        /\ Latest' = Latest
    BY DEF Inv, Latest
  <1>2. /\ BookInv(Book, requestOf, Latest) /\ Book.attached = attached /\ Book.batch = batch
        /\ Book.handed = handed /\ Book.ignored = ignored
        /\ Book.discarded = discarded /\ Book.since = since
        /\ Latest \in 0..NumInvocations /\ requestOf \in Assignments /\ BookTyped(Book)
    BY BookIs DEF BookInv
  <1>3. /\ Splits(batch, h, S) /\ S \subseteq DOMAIN batch.invocations
        /\ \A r \in DOMAIN batch.invocations :
             IF r \in S THEN Len(batch.invocations[r].telemetry) >= 1
                        ELSE Len(batch.invocations[r].telemetry) = 0
    <2>1. Splits(batch, h, S)
      BY <1>2, AggressiveSplits DEF Close, BookTyped
    <2>2. \A r \in DOMAIN batch.invocations : Len(batch.invocations[r].telemetry) \in Nat
      BY <1>2 DEF BookTyped, InvocationType
    <2> QED
      BY <2>1, <2>2 DEF Pending, IsEmpty
  <1> HIDE DEF h, S
  <1>4. Shipping(Book, c, requestOf, Latest, S)
    BY <1>2, <1>3, ShipInv
  <1>5. SetBook(c)
    BY DEF h
  <1> HIDE DEF c
  <1>6. /\ BookInv(c, requestOf, Latest) /\ c.attached = attached /\ c.ignored = ignored
        /\ c.discarded = discarded /\ c.since = since /\ Grown(handed, c.handed)
    BY <1>2, <1>4 DEF Shipping
  <1>7. /\ Book' = c /\ attached' = c.attached /\ ignored' = c.ignored
        /\ handed' = c.handed /\ batch' = c.batch
        /\ attached' \subseteq Entries /\ ignored' \subseteq Entries
        /\ Range(handed') \subseteq Entries /\ discarded' \subseteq Entries
        /\ since' \in 0..Len(handed') /\ Range(handed') \subseteq attached'
    BY <1>5, <1>6, BookSet
  <1>8. Held' = {}
    <2> DEFINE left == c.batch.invocations
    <2>1. /\ DOMAIN left = DOMAIN batch.invocations \ S
          /\ \A r \in DOMAIN left : left[r] = batch.invocations[r]
      BY <1>2, <1>4 DEF Shipping
    <2>2. ASSUME NEW r \in DOMAIN left PROVE DOMAIN left[r].telemetry = {}
      <3>1. left[r].telemetry \in Seq(PayloadType) /\ Len(left[r].telemetry) = 0
        BY <1>2, <1>3, <2>1 DEF BookTyped, InvocationType
      <3> QED
        BY <3>1
    <2>3. \A e : e \notin HeldIn(left)
      BY <2>2, HeldIs
    <2>4. Held' = HeldIn(left)
      BY <1>7 DEF Held, HeldFor, Accepts, HeldIn
    <2> QED
      BY <2>3, <2>4
  <1>9. TypeOK'
    <2>1. pc' = "stopped"
      OBVIOUS
    <2> QED
      BY <1>1, <1>7, <2>1, SMTT(60) DEF TypeOK
  <1>10. BookInv(Book, requestOf, Latest)'
    BY <1>1, <1>6, <1>7
  <1>11. Clock' /\ Progress'
    BY <1>1 DEF Clock, Progress
  <1>12. Reports'
    BY <1>1, <1>6, <1>7 DEF Reports, Looping
  <1>13. Race' /\ Pipe'
    BY <1>1, <1>6, <1>7 DEF Race, Pipe
  <1>14. LastWordsSaid'
    <2> SUFFICES ASSUME shutdown = "timeout"
                 PROVE  \E secs \in 0..(LastInstant - FirstInstant) : Said(Book, secs)'
      BY DEF LastWordsSaid
    <2>1. PICK secs \in 0..(LastInstant - FirstInstant) : Said(Book, secs)
      BY <1>1 DEF LastWordsSaid
    <2>2. Said(c, secs)
      <3>1. /\ since \in Nat /\ Len(handed) \in Nat /\ Len(c.handed) \in Nat
            /\ Len(handed) <= Len(c.handed)
            /\ \A i \in 1..Len(handed) : c.handed[i] = handed[i]
        BY <1>2, <1>6 DEF BookTyped, Grown, BookInv
      <3>2. \A i \in (since + 1)..Len(handed) :
              i \in 1..Len(handed) /\ i \in (since + 1)..Len(c.handed)
        BY <3>1
      <3> QED
        BY <1>2, <1>6, <2>1, <3>1, <3>2 DEF Said
    <2>3. Said(Book, secs)'
      BY <1>7, <2>2 DEF Said, TimeoutEntry
    <2> QED
      BY <2>1, <2>3
  <1>15. Expected' /\ Emptied'
    BY <1>8 DEF Expected, Expecting, Emptied
  <1> QED
    BY <1>9, <1>10, <1>11, <1>12, <1>13, <1>14, <1>15 DEF Inv


-----------------------------------------------------------------------------
\* Inv is inductive.
LEMMA NextInv ==
  ASSUME Inv, [Next]_vars
  PROVE  Inv'
  <1>1. CASE Main
    BY <1>1, CheckContextInv, HandleShutdownInv, HandleInvokeInv, TimeLimitReachedInv,
       ReceiveTelemetryInv, FinalPollInv, CloseServerInv, FinalHarvestInv DEF Main
  <1>2. CASE NextEventFails \/ NextInvoke \/ NextShutdown
    BY <1>2, NextEventFailsInv, NextInvokeInv, NextShutdownInv
  <1>3. CASE AgentWrites \/ ReaderParks \/ FunctionEnds
    BY <1>3, AgentWritesInv, ReaderParksInv, FunctionEndsInv
  <1>4. CASE \E k \in Invocations : PostReport(k)
    BY <1>4, PostReportInv
  <1>5. CASE Signal \/ Tick
    BY <1>5, SignalInv, TickInv
  <1>6. CASE UNCHANGED vars
    BY <1>6, StutterInv
  <1> QED
    BY <1>1, <1>2, <1>3, <1>4, <1>5, <1>6 DEF Next

\* Every reachable state satisfies the invariant.
LEMMA InvHolds == Spec => []Inv
  BY InitInv, NextInv, PTL DEF Spec

\* A request begun twice is a retried one: its invocations have been delivered.
LEMMA RepeatedIsRetried ==
  ASSUME Inv, NEW r, Repeated(requestOf, Latest, r)
  PROVE  Retried(r)
  <1>1. Latest \in Nat /\ Latest <= current /\ current \in Nat
    BY LatestIs, Numbers DEF Inv
  <1>2. PICK j, k \in 1..Latest : j # k /\ requestOf[j] = r /\ requestOf[k] = r
    BY DEF Repeated
  <1>3. j \in Attempts(r) /\ k \in Attempts(r)
    BY <1>1, <1>2 DEF Attempts
  <1> QED
    BY <1>2, <1>3 DEF Retried

\* What the batch holds, request by request.
LEMMA HeldIsHeldIn == Held = HeldIn(batch.invocations)
  BY DEF Held, HeldFor, Accepts, HeldIn

\* The variables keep their types; in particular the duration of a timeout
\* message is never negative, nor longer than the extension has run.
THEOREM TypeCorrect == Spec => []TypeOK
  <1>1. Inv => TypeOK
    BY DEF Inv
  <1> QED
    BY <1>1, InvHolds, PTL

\* handed has no repetitions, so an entry is handed once if it is handed at all;
\* and it is not also in the batch, nor among those a retry discarded.
THEOREM HandedOnce == Spec => []HandedExactlyOnce
  <1>1. ASSUME Inv PROVE HandedExactlyOnce
    <2>0. /\ BookInv(Book, requestOf, Latest)
          /\ Book.batch = batch /\ Book.handed = handed /\ Book.attached = attached
          /\ Book.discarded = discarded
      BY <1>1, BookIs
    <2>1. /\ IsInjective(handed) /\ Range(handed) \cap Held = {}
          /\ discarded \cap (Range(handed) \cup Held) = {}
          /\ Range(handed) \cup Held \cup discarded = attached
      BY <2>0, HeldIsHeldIn DEF BookInv, Places
    <2>2. ASSUME NEW entry \in attached
          PROVE  TimesHanded(entry) = IF entry \in Range(handed) THEN 1 ELSE 0
      <3> DEFINE places == {i \in DOMAIN handed : handed[i] = entry}
      <3>1. CASE entry \notin Range(handed)
        <4>1. places = {}
          BY <3>1 DEF Range
        <4> QED
          BY <3>1, <4>1, FS_EmptySet DEF TimesHanded
      <3>2. CASE entry \in Range(handed)
        <4>2. PICK i \in DOMAIN handed : handed[i] = entry
          BY <3>2 DEF Range
        <4>3. places = {i}
          BY <2>1, <4>2 DEF IsInjective
        <4> QED
          BY <3>2, <4>3, FS_Singleton DEF TimesHanded
      <3> QED
        BY <3>1, <3>2
    <2>3. ASSUME NEW entry \in attached
          PROVE  TimesHanded(entry) + (IF entry \in Held THEN 1 ELSE 0)
                   + (IF entry \in discarded THEN 1 ELSE 0) = 1
      <3>1. CASE entry \in Range(handed)
        BY <2>1, <2>2, <3>1
      <3>2. CASE entry \in Held
        BY <2>1, <2>2, <3>2
      <3>3. CASE entry \in discarded
        BY <2>1, <2>2, <3>3
      <3> QED
        BY <2>1, <3>1, <3>2, <3>3
    <2>4. \A entry \in discarded : Retried(entry.to)
      BY <1>1, <2>0, RepeatedIsRetried DEF BookInv, Known
    <2> QED
      BY <1>1, <2>1, <2>3, <2>4 DEF HandedExactlyOnce, Inv, Emptied
  <1> QED
    BY <1>1, InvHolds, PTL

\* The request an agent's payload is added to is in the batch, unless the report of
\* an earlier attempt was shipped with the record of the retry.
THEOREM AgentAttached == Spec => []AgentTelemetryAlwaysAttached
  <1>1. ASSUME Inv PROVE AgentTelemetryAlwaysAttached
    <2> SUFFICES ASSUME NEW entry \in ignored, entry.what.kind = "agent"
                 PROVE  \E i \in DOMAIN handed :
                          /\ handed[i].to = entry.to /\ handed[i].what.kind = "report"
                          /\ \E k \in Attempts(entry.to) : k > handed[i].what.of
      BY DEF AgentTelemetryAlwaysAttached
    <2>1. Outrun(Book, requestOf, Latest, entry.to) /\ Book.handed = handed
      BY <1>1, BookIs DEF BookInv, TurnedAway
    <2>2. PICK i \in DOMAIN handed :
            /\ handed[i].to = entry.to /\ handed[i].what.kind = "report"
            /\ \E k \in 1..Latest : requestOf[k] = entry.to /\ k > handed[i].what.of
      BY <2>1 DEF Outrun, Range
    <2>3. Latest \in Nat /\ Latest <= current /\ current \in Nat
      BY <1>1, LatestIs, Numbers DEF Inv
    <2>4. \A k \in 1..Latest : k \in 1..current
      BY <2>3
    <2> QED
      BY <2>2, <2>4 DEF Attempts
  <1> QED
    BY <1>1, InvHolds, PTL

\* What is turned away for a request that has not come back was for an invocation
\* shipped with one payload: not empty, and not ripe.
THEOREM RipeLosesNothing == Spec => []RipeOmitsNothing
  <1>1. ASSUME Inv PROVE RipeOmitsNothing
    <2>1. /\ BookInv(Book, requestOf, Latest) /\ Book.attached = attached
          /\ Book.handed = handed /\ Book.ignored = ignored /\ Book.batch = batch
          /\ Range(handed) \subseteq attached
      BY <1>1, BookIs
    <2>2. ASSUME NEW entry \in ignored, ~Retried(entry.to)
          PROVE  Len(Shipped(entry.to).telemetry) = 1
      <3> DEFINE places == {i \in DOMAIN handed : handed[i].to = entry.to}
      <3>0. ~Repeated(requestOf, Latest, entry.to)
        BY <1>1, <2>2, RepeatedIsRetried
      <3>1. /\ entry.to \in Begun(requestOf, Latest)
            /\ entry.to \notin DOMAIN batch.invocations
            /\ \A f \in Range(handed) : f.to = entry.to => f.what.kind = "agent"
        BY <2>1, <3>0 DEF BookInv, TurnedAway
      <3>2. \E e \in Range(handed) : e.to = entry.to
        BY <2>1, <3>1 DEF BookInv, Known
      <3>3. PICK i \in DOMAIN handed : handed[i].to = entry.to
        BY <3>2 DEF Range
      <3>4. ASSUME NEW j \in places PROVE j = i
        <4>1. /\ handed[i] \in attached /\ handed[j] \in attached
              /\ handed[i].what.kind = "agent" /\ handed[j].what.kind = "agent"
          BY <2>1, <3>1, <3>3 DEF Range
        <4>2. handed[i] = handed[j]
          BY <2>1, <3>0, <3>3, <4>1 DEF BookInv, Single
        <4> QED
          BY <2>1, <3>3, <4>2 DEF BookInv, Places, IsInjective
      <3>5. places = {i}
        BY <3>3, <3>4
      <3>6. Cardinality(places) = 1
        BY <3>5, FS_Singleton
      <3> HIDE DEF places
      <3>7. \E f : Shipped(entry.to).telemetry = [n \in 1..1 |-> f[n]]
        <4> DEFINE f == [n \in 1..1 |-> handed[SetToSeq(places)[n]].what]
        <4>1. Shipped(entry.to).telemetry = f
          BY <3>6 DEF Shipped, places
        <4> QED
          BY <4>1
      <3> QED
        BY <3>7
    <2>3. ASSUME NEW entry \in ignored, ~Retried(entry.to)
          PROVE  ~IsEmpty(Shipped(entry.to)) /\ ~IsRipe(Shipped(entry.to))
      <3> DEFINE size == Len(Shipped(entry.to).telemetry)
      <3>1. size = 1
        BY <2>2, <2>3
      <3> HIDE DEF size
      <3>2. ~(size = 0) /\ ~(size >= 2)
        BY <3>1
      <3> QED
        BY <3>2 DEF size, IsEmpty, IsRipe
    <2> QED
      BY <2>3 DEF RipeOmitsNothing
  <1> QED
    BY <1>1, InvHolds, PTL

\* Only the poll after a suspected timeout confuses requests.
THEOREM MisattributedByRace == Spec => []MisattributedOnlyByRace
  <1>1. Inv => MisattributedOnlyByRace
    BY DEF Inv, Race, MisattributedOnlyByRace
  <1> QED
    BY <1>1, InvHolds, PTL

\* The message that tells of the timeout is handed over, unless the record it was
\* for had been shipped since it began.
THEOREM TimeoutReported == Spec => []TimeoutReportedOrShipped
  <1>1. ASSUME Inv PROVE TimeoutReportedOrShipped
    <2> SUFFICES ASSUME pc = "stopped", shutdown = "timeout"
                 PROVE  \E secs \in 0..(LastInstant - FirstInstant) :
                          \/ TimeoutEntry(secs) \in Range(handed)
                          \/ /\ TimeoutEntry(secs) \in ignored
                             /\ \E i \in (since + 1)..Len(handed) :
                                  handed[i].to = requestOf[current]
      BY DEF TimeoutReportedOrShipped, TimeoutEntry
    <2>1. PICK secs \in 0..(LastInstant - FirstInstant) : Said(Book, secs)
      BY <1>1 DEF Inv, LastWordsSaid
    <2>2. /\ Book.handed = handed /\ Book.attached = attached /\ Book.ignored = ignored
          /\ Book.discarded = discarded /\ Book.since = since
      BY <1>1, BookIs
    <2>3. attached \ discarded \subseteq Range(handed)
      <3>1. Range(handed) \cup HeldIn(batch.invocations) \cup discarded = attached
        BY <1>1, <2>2, BookIs DEF BookInv, Places
      <3> QED
        BY <1>1, <3>1, HeldIsHeldIn DEF Inv, Emptied
    <2> QED
      BY <2>1, <2>2, <2>3 DEF Said
  <1> QED
    BY <1>1, InvHolds, PTL
=============================================================================
