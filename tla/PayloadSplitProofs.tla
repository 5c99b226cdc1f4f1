------------------------- MODULE PayloadSplitProofs -------------------------
(***************************************************************************)
(* For any number of log events and any outcome of compressing each slice: *)
(* the recursive halving of CompressedPayloadsForLogEvents sends every     *)
(* event once and in order, in the largest halves that fit.                *)
(*                                                                         *)
(* Both the halving and the tree of slices are recursive functions on the  *)
(* slices, whose halves are shorter.  That they exist, and what holds of   *)
(* every slice, is shown by looking at the shortest slice for which it     *)
(* would fail.  Two slices of the tree are apart, or one is part of the    *)
(* other (Shape), so that what is part of a slice that is split is part of *)
(* one of its halves.                                                      *)
(***************************************************************************)
EXTENDS PayloadSplit, WellFoundedInduction, TLAPS

\* A set of numbers that is not empty has a least member.
LEMMA LeastOf ==
  ASSUME NEW S \in SUBSET Nat, S # {}
  PROVE  \E t \in S : \A u \in S : ~(u < t)
  <1>1. PICK t \in S : \A u \in S : <<u, t>> \notin OpToRel(<, Nat)
    BY WFMin, NatLessThanWellFounded, Zenon
  <1>2. \A u \in S : ~(u < t)
    BY <1>1, Zenon DEF OpToRel
  <1> QED
    BY <1>2

-----------------------------------------------------------------------------
(* Slices. *)

LEMMA SliceIs ==
  ASSUME NEW s \in Slices
  PROVE  /\ s = <<s[1], s[2]>> /\ s[1] \in Nat /\ s[2] \in Nat /\ End(s) <= MaxEvents
         /\ Length(s) = s[2] /\ Length(s) \in Nat /\ Length(s) <= MaxEvents
         /\ End(s) \in Nat /\ End(s) = s[1] + s[2]
  BY EventsAssumption DEF Slices, Length, End

\* The halves of a slice lie side by side, and both are shorter.
LEMMA HalvesAre ==
  ASSUME NEW s \in Slices, Length(s) > 1
  PROVE  /\ Left(s) \in Slices /\ Right(s) \in Slices
         /\ Length(Left(s)) \in 1..(Length(s) - 1) /\ Length(Right(s)) \in 1..(Length(s) - 1)
         /\ Left(s)[1] = s[1] /\ End(Left(s)) = Right(s)[1] /\ End(Right(s)) = End(s)
  <1>1. /\ s[1] \in Nat /\ s[2] \in Nat /\ s[1] + s[2] <= MaxEvents /\ Length(s) = s[2]
        /\ s[2] > 1 /\ MaxEvents \in Nat
    BY SliceIs, EventsAssumption DEF End
  <1>2. Half(s) \in 1..(s[2] - 1)
    BY <1>1 DEF Half
  <1> QED
    BY <1>1, <1>2 DEF Slices, Left, Right, Length, End

\* Two slices that are part of each other are one.
LEMMA PartsEqual ==
  ASSUME NEW s \in Slices, NEW t \in Slices, PartOf(s, t), PartOf(t, s)
  PROVE  s = t
  <1>1. s[1] = t[1] /\ s[2] = t[2]
    BY SliceIs DEF PartOf
  <1> QED
    BY <1>1, SliceIs

-----------------------------------------------------------------------------
(* The tree. *)

TreeOf(f, s) == IF Length(s) > 1 THEN {s} \cup f[Left(s)] \cup f[Right(s)] ELSE {s}
Below == CHOOSE f : f = [s \in Slices |-> TreeOf(f, s)]

UpTo(n) == {s \in Slices : Length(s) <= n}
TreeUpTo(f, n) == f = [s \in UpTo(n) |-> TreeOf(f, s)]

\* The tree below each slice of length n at most.
LEMMA TreeUpToExists ==
  ASSUME NEW n \in Nat
  PROVE  \E f : TreeUpTo(f, n)
  <1> DEFINE Missing == {k \in Nat : ~\E f : TreeUpTo(f, k)}
  <1>1. SUFFICES ASSUME Missing # {} PROVE FALSE
    OBVIOUS
  <1>2. PICK m \in Missing : \A u \in Missing : ~(u < m)
    BY <1>1, LeastOf
  <1>3. PICK g : m # 0 => TreeUpTo(g, m - 1)
    <2>1. m # 0 => m - 1 \in Nat /\ m - 1 < m
      OBVIOUS
    <2> QED
      BY <1>2, <2>1
  <1> DEFINE f == [s \in UpTo(m) |-> IF Length(s) < m THEN g[s] ELSE TreeOf(g, s)]
  <1>4. ASSUME NEW s \in UpTo(m) PROVE f[s] = TreeOf(f, s)
    <2>1. s \in Slices /\ Length(s) \in Nat /\ Length(s) <= m
      BY SliceIs DEF UpTo
    <2>2. Length(s) < m => g[s] = TreeOf(g, s)
      <3>1. Length(s) < m => m # 0 /\ s \in UpTo(m - 1)
        BY <2>1 DEF UpTo
      <3> QED
        BY <1>3, <3>1 DEF TreeUpTo
    <2>3. f[s] = TreeOf(g, s)
      BY <2>1, <2>2
    <2>4. ASSUME Length(s) > 1
          PROVE  f[Left(s)] = g[Left(s)] /\ f[Right(s)] = g[Right(s)]
      <3>1. /\ Left(s) \in UpTo(m) /\ Length(Left(s)) < m
            /\ Right(s) \in UpTo(m) /\ Length(Right(s)) < m
        BY <2>1, <2>4, HalvesAre DEF UpTo
      <3> QED
        BY <3>1
    <2> HIDE DEF f
    <2> QED
      BY <2>3, <2>4 DEF TreeOf
  <1>5. TreeUpTo(f, m)
    BY <1>4, Zenon DEF TreeUpTo
  <1> QED
    BY <1>2, <1>5

LEMMA BelowIs == \A s \in Slices : Below[s] = TreeOf(Below, s)
  <1>1. UpTo(MaxEvents) = Slices
    BY SliceIs DEF UpTo
  <1>2. \E f : f = [s \in Slices |-> TreeOf(f, s)]
    BY <1>1, TreeUpToExists, EventsAssumption DEF TreeUpTo
  <1>3. Below = [s \in Slices |-> TreeOf(Below, s)]
    BY <1>2, Zenon DEF Below
  <1> QED
    BY <1>3

LEMMA TreeIs == ASSUME NEW n PROVE Tree(n) = Below[<<0, n>>]
  BY DEF Tree, Below, TreeOf

\* What is shown of the slices below r: they are parts of r, none is empty unless r is,
\* a slice that can be split has both halves among them, and a part of a slice
\* is that slice or part of one of its halves.
Within(r) ==
  /\ r \in Below[r]
  /\ \A s \in Below[r] : s \in Slices /\ PartOf(s, r) /\ (Length(r) > 0 => Length(s) > 0)
Halved(r) ==
  \A s \in Below[r] : Length(s) > 1 => Left(s) \in Below[r] /\ Right(s) \in Below[r]
Apart(s, t) == End(s) <= t[1] \/ End(t) <= s[1]
Nested(r) ==
  \A s, t \in Below[r] :
    /\ PartOf(s, t) \/ PartOf(t, s) \/ Apart(s, t)
    /\ PartOf(t, s) /\ t # s =>
         Length(s) > 1 /\ (PartOf(t, Left(s)) \/ PartOf(t, Right(s)))
Shape(r) == Within(r) /\ Halved(r) /\ Nested(r)

\* A slice that is not split is alone.
LEMMA ShapeAlone ==
  ASSUME NEW r \in Slices, ~(Length(r) > 1)
  PROVE  Shape(r)
  <1>1. Below[r] = {r}
    BY BelowIs DEF TreeOf
  <1>2. PartOf(r, r)
    BY SliceIs DEF PartOf
  <1> QED
    BY <1>1, <1>2 DEF Shape, Within, Halved, Nested

\* A slice that is split has the shape when its halves have it.
LEMMA ShapeSplit ==
  ASSUME NEW r \in Slices, Length(r) > 1, Shape(Left(r)), Shape(Right(r))
  PROVE  Shape(r)
  <1> DEFINE L == Left(r)
             R == Right(r)
  <1>1. /\ L \in Slices /\ R \in Slices /\ Length(L) \in 1..(Length(r) - 1)
        /\ Length(R) \in 1..(Length(r) - 1) /\ Length(r) \in Nat
        /\ L[1] = r[1] /\ End(L) = R[1] /\ End(R) = End(r)
    BY HalvesAre, SliceIs
  <1>2. Below[r] = {r} \cup Below[L] \cup Below[R]
    BY BelowIs DEF TreeOf
  <1>3. Shape(L) /\ Shape(R)
    OBVIOUS
  <1>4. /\ L[1] \in Nat /\ End(L) \in Nat /\ R[1] \in Nat /\ End(R) \in Nat
        /\ r[1] \in Nat /\ End(r) \in Nat /\ L[1] < End(L) /\ R[1] < End(R)
    BY <1>1, SliceIs
  <1>5. Left(r) \in Below[r] /\ Right(r) \in Below[r]
    BY <1>2, <1>3 DEF Shape, Within
  <1> HIDE DEF L, R
  <1>6. ASSUME NEW s \in Below[L]
        PROVE  /\ s \in Slices /\ Length(s) > 0 /\ s[1] \in Nat /\ End(s) \in Nat
               /\ s[1] < End(s) /\ PartOf(s, L) /\ PartOf(s, r) /\ End(s) <= R[1]
               /\ ~PartOf(r, s)
    <2>1. s \in Slices /\ Length(s) > 0 /\ PartOf(s, L)
      BY <1>1, <1>3 DEF Shape, Within
    <2>2. s[1] \in Nat /\ End(s) \in Nat /\ s[1] < End(s)
      BY <2>1, SliceIs
    <2> QED
      BY <1>1, <1>4, <2>1, <2>2 DEF PartOf
  <1>7. ASSUME NEW s \in Below[R]
        PROVE  /\ s \in Slices /\ Length(s) > 0 /\ s[1] \in Nat /\ End(s) \in Nat
               /\ s[1] < End(s) /\ PartOf(s, R) /\ PartOf(s, r) /\ R[1] <= s[1]
               /\ ~PartOf(r, s)
    <2>1. s \in Slices /\ Length(s) > 0 /\ PartOf(s, R)
      BY <1>1, <1>3 DEF Shape, Within
    <2>2. s[1] \in Nat /\ End(s) \in Nat /\ s[1] < End(s)
      BY <2>1, SliceIs
    <2> QED
      BY <1>1, <1>4, <2>1, <2>2 DEF PartOf
  <1>8. PartOf(r, r)
    BY <1>4 DEF PartOf
  <1>9. Within(r)
    BY <1>2, <1>6, <1>7, <1>8 DEF Within
  <1>10. Halved(r)
    BY <1>2, <1>3, <1>5 DEF Shape, Halved
  <1>11. ASSUME NEW s \in Below[r], NEW t \in Below[r]
         PROVE  /\ PartOf(s, t) \/ PartOf(t, s) \/ Apart(s, t)
                /\ PartOf(t, s) /\ t # s =>
                     Length(s) > 1 /\ (PartOf(t, Left(s)) \/ PartOf(t, Right(s)))
    <2>1. CASE s = r
      BY <1>2, <1>6, <1>7, <1>8, <2>1 DEF L, R
    <2>2. CASE t = r
      BY <1>2, <1>6, <1>7, <1>8, <2>2, <2>1
    <2>3. CASE (s \in Below[L] /\ t \in Below[L]) \/ (s \in Below[R] /\ t \in Below[R])
      BY <1>3, <2>3 DEF Shape, Nested
    <2>4. CASE s \in Below[L] /\ t \in Below[R]
      <3>1. ~PartOf(t, s) /\ Apart(s, t)
        BY <1>4, <1>6, <1>7, <2>4 DEF PartOf, Apart
      <3> QED
        BY <3>1
    <2>5. CASE s \in Below[R] /\ t \in Below[L]
      <3>1. ~PartOf(t, s) /\ Apart(s, t)
        BY <1>4, <1>6, <1>7, <2>5 DEF PartOf, Apart
      <3> QED
        BY <3>1
    <2> QED
      BY <1>2, <2>1, <2>2, <2>3, <2>4, <2>5
  <1>12. Nested(r)
    BY <1>11 DEF Nested
  <1> QED
    BY <1>9, <1>10, <1>12 DEF Shape

LEMMA ShapeOf ==
  ASSUME NEW r \in Slices
  PROVE  Shape(r)
  <1> DEFINE Wrong == {k \in Nat : \E s \in Slices : Length(s) = k /\ ~Shape(s)}
  <1>1. SUFFICES ASSUME Wrong # {} PROVE FALSE
    BY SliceIs
  <1>2. PICK m \in Wrong : \A u \in Wrong : ~(u < m)
    BY <1>1, LeastOf
  <1>3. PICK s \in Slices : Length(s) = m /\ ~Shape(s)
    BY <1>2
  <1>4. Length(s) > 1
    BY <1>3, ShapeAlone
  <1>5. ASSUME NEW h \in Slices, Length(h) \in 1..(Length(s) - 1) PROVE Shape(h)
    <2>1. Length(h) \in Nat /\ Length(h) < m
      BY <1>2, <1>3, <1>5
    <2> QED
      BY <1>2, <2>1
  <1> HIDE DEF Wrong
  <1> QED
    BY <1>3, <1>4, <1>5, HalvesAre, ShapeSplit

-----------------------------------------------------------------------------
(* The halving. *)

SplitOf(f, s) ==
  IF compress[s] = "fails" THEN [err |-> TRUE, payloads |-> << >>]
  ELSE IF compress[s] = "large" /\ Length(s) > 1 THEN Join(f[Left(s)], f[Right(s)])
  ELSE [err |-> FALSE, payloads |-> << s >>]
Split == CHOOSE f : f = [s \in Slices |-> SplitOf(f, s)]

SplitUpTo(f, n) == f = [s \in UpTo(n) |-> SplitOf(f, s)]

\* What halving makes of each slice of length n at most.
LEMMA SplitUpToExists ==
  ASSUME NEW n \in Nat
  PROVE  \E f : SplitUpTo(f, n)
  <1> DEFINE Missing == {k \in Nat : ~\E f : SplitUpTo(f, k)}
  <1>1. SUFFICES ASSUME Missing # {} PROVE FALSE
    OBVIOUS
  <1>2. PICK m \in Missing : \A u \in Missing : ~(u < m)
    BY <1>1, LeastOf
  <1>3. PICK g : m # 0 => SplitUpTo(g, m - 1)
    <2>1. m # 0 => m - 1 \in Nat /\ m - 1 < m
      OBVIOUS
    <2> QED
      BY <1>2, <2>1
  <1> DEFINE f == [s \in UpTo(m) |-> IF Length(s) < m THEN g[s] ELSE SplitOf(g, s)]
  <1>4. ASSUME NEW s \in UpTo(m) PROVE f[s] = SplitOf(f, s)
    <2>1. s \in Slices /\ Length(s) \in Nat /\ Length(s) <= m
      BY SliceIs DEF UpTo
    <2>2. Length(s) < m => g[s] = SplitOf(g, s)
      <3>1. Length(s) < m => m # 0 /\ s \in UpTo(m - 1)
        BY <2>1 DEF UpTo
      <3> QED
        BY <1>3, <3>1 DEF SplitUpTo
    <2>3. f[s] = SplitOf(g, s)
      BY <2>1, <2>2
    <2>4. ASSUME Length(s) > 1
          PROVE  f[Left(s)] = g[Left(s)] /\ f[Right(s)] = g[Right(s)]
      <3>1. /\ Left(s) \in UpTo(m) /\ Length(Left(s)) < m
            /\ Right(s) \in UpTo(m) /\ Length(Right(s)) < m
        BY <2>1, <2>4, HalvesAre DEF UpTo
      <3> QED
        BY <3>1
    <2> HIDE DEF f
    <2>5. SplitOf(f, s) = SplitOf(g, s)
      <3>1. CASE Length(s) > 1
        BY <2>4, <3>1 DEF SplitOf
      <3>2. CASE ~(Length(s) > 1)
        BY <3>2 DEF SplitOf
      <3> QED
        BY <3>1, <3>2
    <2> QED
      BY <2>3, <2>5
  <1>5. SplitUpTo(f, m)
    BY <1>4, Zenon DEF SplitUpTo
  <1> QED
    BY <1>2, <1>5

LEMMA SplitIs == \A s \in Slices : Split[s] = SplitOf(Split, s)
  <1>1. UpTo(MaxEvents) = Slices
    BY SliceIs DEF UpTo
  <1>2. \E f : f = [s \in Slices |-> SplitOf(f, s)]
    BY <1>1, SplitUpToExists, EventsAssumption DEF SplitUpTo
  <1>3. Split = [s \in Slices |-> SplitOf(Split, s)]
    BY <1>2, Zenon DEF Split
  <1> QED
    BY <1>3

LEMMA CallIs == CompressedPayloadsForLogEvents = Split[<<0, count>>]
  BY DEF CompressedPayloadsForLogEvents, Split, SplitOf

-----------------------------------------------------------------------------
(* What halving a slice returns. *)

\* The values the call starts from.
TypeOK == count \in 0..MaxEvents /\ compress \in [Tree(count) -> Outcomes]

\* What holds of the whole (SplitAsReference), said of any slice s.
Result(p, s) ==
  /\ p \in [err : BOOLEAN, payloads : Seq(Slices)]
  /\ IF \E u \in Tree(count) : PartOf(u, s) /\ Tried(u) /\ compress[u] = "fails"
     THEN p.err
     ELSE /\ ~p.err
          /\ Range(p.payloads) = {u \in Tree(count) : PartOf(u, s) /\ Sent(u)}
          /\ Cover(p.payloads, s)

LEMMA RootIs ==
  ASSUME TypeOK
  PROVE  <<0, count>> \in Slices /\ Tree(count) = Below[<<0, count>>]
         /\ Shape(<<0, count>>) /\ Tree(count) \subseteq Slices
  <1>1. <<0, count>> \in Slices
    BY EventsAssumption DEF TypeOK, Slices
  <1> QED
    BY <1>1, TreeIs, ShapeOf DEF Shape, Within

\* Two sequences of payloads that cover the halves of s, one after the other, cover s.
LEMMA CoverJoins ==
  ASSUME NEW s \in Slices, Length(s) > 1,
         NEW p \in Seq(Slices), NEW q \in Seq(Slices),
         Cover(p, Left(s)), Cover(q, Right(s))
  PROVE  Cover(p \o q, s)
  <1> DEFINE m == Len(p)
             n == Len(q)
             c == p \o q
  <1>1. m \in Nat /\ n \in Nat /\ m > 0 /\ n > 0
    BY DEF Cover
  <1>2. c \in Seq(Slices) /\ Len(c) = m + n
    OBVIOUS
  <1>3. \A i \in 1..m : c[i] = p[i]
    OBVIOUS
  <1>4. \A i \in (m + 1)..(m + n) : c[i] = q[i - m]
    OBVIOUS
  <1>5. Left(s)[1] = s[1] /\ End(Left(s)) = Right(s)[1] /\ End(Right(s)) = End(s)
    BY HalvesAre
  <1>6. /\ p[1][1] = s[1] /\ End(p[m]) = Right(s)[1]
        /\ \A i \in 1..(m - 1) : p[i + 1][1] = End(p[i])
    BY <1>5 DEF Cover
  <1>7. /\ q[1][1] = Right(s)[1] /\ End(q[n]) = End(s)
        /\ \A i \in 1..(n - 1) : q[i + 1][1] = End(q[i])
    BY <1>5 DEF Cover
  <1> HIDE DEF m, n, c
  <1>8. c[1] = p[1] /\ c[m + n] = q[n]
    <2>1. 1 \in 1..m /\ m + n \in (m + 1)..(m + n) /\ (m + n) - m = n
      BY <1>1
    <2> QED
      BY <1>3, <1>4, <2>1
  <1>9. ASSUME NEW i \in 1..(m + n - 1) PROVE c[i + 1][1] = End(c[i])
    <2>1. CASE i < m
      <3>1. i \in 1..m /\ i + 1 \in 1..m /\ i \in 1..(m - 1)
        BY <1>1, <2>1
      <3> QED
        BY <1>3, <1>6, <3>1
    <2>2. CASE i = m
      <3>1. m \in 1..m /\ m + 1 \in (m + 1)..(m + n) /\ (m + 1) - m = 1
        BY <1>1
      <3> QED
        BY <1>3, <1>4, <1>6, <1>7, <2>2, <3>1
    <2>3. CASE i > m
      <3>1. /\ i \in (m + 1)..(m + n) /\ i + 1 \in (m + 1)..(m + n)
            /\ i - m \in 1..(n - 1) /\ (i + 1) - m = (i - m) + 1
        BY <1>1, <2>3
      <3> QED
        BY <1>4, <1>7, <3>1
    <2> QED
      BY <1>1, <2>1, <2>2, <2>3
  <1>10. c # << >> /\ c[1][1] = s[1] /\ End(c[Len(c)]) = End(s)
    BY <1>1, <1>2, <1>6, <1>7, <1>8
  <1>11. \A i \in 1..(Len(c) - 1) : c[i + 1][1] = End(c[i])
    <2>1. 1..(Len(c) - 1) = 1..(m + n - 1)
      BY <1>1, <1>2
    <2> QED
      BY <1>9, <2>1, Zenon
  <1> QED
    BY <1>10, <1>11 DEF Cover, c

LEMMA RangeJoins ==
  ASSUME NEW S, NEW p \in Seq(S), NEW q \in Seq(S)
  PROVE  Range(p \o q) = Range(p) \cup Range(q)
  <1>1. Range(p \o q) \subseteq Range(p) \cup Range(q)
    BY DEF Range
  <1>2. Range(p) \subseteq Range(p \o q)
    BY DEF Range
  <1>3. Range(q) \subseteq Range(p \o q)
    <2> SUFFICES ASSUME NEW i \in 1..Len(q) PROVE q[i] \in Range(p \o q)
      BY SMTT(30) DEF Range
    <2>1. Len(p) + i \in DOMAIN (p \o q) /\ (p \o q)[Len(p) + i] = q[i]
      OBVIOUS
    <2> QED
      BY <2>1, Zenon DEF Range
  <1> QED
    BY <1>1, <1>2, <1>3

\* A slice that is sent whole.
LEMMA Whole ==
  ASSUME NEW s \in Slices
  PROVE  << s >> \in Seq(Slices) /\ Range(<< s >>) = {s} /\ Cover(<< s >>, s)
  BY DEF Range, Cover

\* Halving tries both halves of a slice that was tried and is too large.
LEMMA HalvesTried ==
  ASSUME TypeOK, NEW s \in Tree(count), Tried(s), compress[s] = "large", Length(s) > 1
  PROVE  /\ Left(s) \in Tree(count) /\ Right(s) \in Tree(count)
         /\ Tried(Left(s)) /\ Tried(Right(s))
  <1>1. /\ s \in Slices /\ Tree(count) \subseteq Slices
        /\ Halved(<<0, count>>) /\ Nested(<<0, count>>)
        /\ Tree(count) = Below[<<0, count>>]
    BY RootIs DEF Shape
  <1>2. Left(s) \in Tree(count) /\ Right(s) \in Tree(count)
    BY <1>1 DEF Halved
  <1>3. /\ Left(s) \in Slices /\ Right(s) \in Slices
        /\ Left(s)[1] \in Nat /\ End(Left(s)) \in Nat /\ Left(s)[1] < End(Left(s))
        /\ Right(s)[1] \in Nat /\ End(Right(s)) \in Nat /\ Right(s)[1] < End(Right(s))
        /\ Left(s)[1] = s[1] /\ End(Left(s)) = Right(s)[1] /\ End(Right(s)) = End(s)
    BY <1>1, HalvesAre, SliceIs
  <1>4. ASSUME NEW h \in {Left(s), Right(s)}, NEW t \in Tree(count), PartOf(h, t), t # h
        PROVE  compress[t] = "large"
    <2>1. t \in Slices /\ t[1] \in Nat /\ End(t) \in Nat /\ s[1] \in Nat /\ End(s) \in Nat
      BY <1>1, SliceIs
    <2>2. /\ PartOf(t, s) \/ PartOf(s, t) \/ Apart(t, s)
          /\ PartOf(t, s) /\ t # s => PartOf(t, Left(s)) \/ PartOf(t, Right(s))
      BY <1>1 DEF Nested
    <2>3. ~Apart(t, s)
      BY <1>3, <1>4, <2>1 DEF PartOf, Apart
    <2>4. CASE PartOf(s, t)
      BY <1>4, <2>4 DEF Tried
    <2>5. CASE PartOf(t, s) /\ t # s
      <3>1. PICK g \in {Left(s), Right(s)} : PartOf(t, g)
        BY <2>2, <2>5
      <3>2. h = g
        BY <1>3, <1>4, <2>1, <3>1 DEF PartOf
      <3> QED
        BY <1>3, <1>4, <2>1, <3>1, <3>2, PartsEqual
    <2> QED
      BY <2>2, <2>3, <2>4, <2>5
  <1> QED
    BY <1>2, <1>4 DEF Tried

\* What is part of a slice that is split is that slice or part of one of its halves.
LEMMA PartsOfHalves ==
  ASSUME TypeOK, NEW s \in Tree(count), Length(s) > 1, NEW u \in Tree(count)
  PROVE  PartOf(u, s) <=> u = s \/ PartOf(u, Left(s)) \/ PartOf(u, Right(s))
  <1>1. /\ s \in Slices /\ u \in Slices /\ Nested(<<0, count>>)
        /\ Tree(count) = Below[<<0, count>>]
    BY RootIs DEF Shape
  <1>2. PartOf(u, s) /\ u # s => PartOf(u, Left(s)) \/ PartOf(u, Right(s))
    BY <1>1 DEF Nested
  <1>3. PartOf(s, s) /\ PartOf(Left(s), s) /\ PartOf(Right(s), s)
    BY <1>1, HalvesAre, SliceIs DEF PartOf
  <1>4. ASSUME NEW h \in {Left(s), Right(s)}, PartOf(u, h) PROVE PartOf(u, s)
    <2>1. h \in Slices /\ PartOf(h, s)
      BY <1>1, <1>3, HalvesAre
    <2> QED
      BY <1>1, <1>4, <2>1, SliceIs DEF PartOf
  <1> QED
    BY <1>2, <1>3, <1>4

\* The slice that fails, the slice that is sent whole, and the slice that is split.
LEMMA ResultFails ==
  ASSUME TypeOK, NEW s \in Tree(count), Tried(s), compress[s] = "fails"
  PROVE  Result(Split[s], s)
  <1>1. s \in Slices
    BY RootIs
  <1>2. Split[s] = [err |-> TRUE, payloads |-> << >>]
    BY <1>1, SplitIs DEF SplitOf
  <1>3. PartOf(s, s)
    BY <1>1, SliceIs DEF PartOf
  <1> QED
    BY <1>2, <1>3 DEF Result

LEMMA ResultWhole ==
  ASSUME TypeOK, NEW s \in Tree(count), Tried(s), compress[s] # "fails",
         compress[s] = "large" => ~(Length(s) > 1)
  PROVE  Result(Split[s], s)
  <1>1. s \in Slices /\ Length(s) \in Nat
    BY RootIs, SliceIs
  <1>2. Split[s] = [err |-> FALSE, payloads |-> << s >>]
    BY <1>1, SplitIs DEF SplitOf
  <1>3. PartOf(s, s)
    BY <1>1, SliceIs DEF PartOf
  <1>4. Sent(s)
    BY <1>1 DEF Sent
  <1>5. ASSUME NEW u \in Tree(count), PartOf(u, s), Tried(u) PROVE u = s
    <2>1. CASE compress[s] = "large"
      BY <1>5, <2>1, RootIs DEF Shape, Nested
    <2>2. CASE compress[s] # "large"
      BY <1>5, <2>2, <1>1, RootIs, SliceIs, PartsEqual DEF Tried
    <2> QED
      BY <2>1, <2>2
  <1> QED
    <2>1. ~\E u \in Tree(count) : PartOf(u, s) /\ Tried(u) /\ compress[u] = "fails"
      BY <1>5
    <2>2. {u \in Tree(count) : PartOf(u, s) /\ Sent(u)} = {s}
      BY <1>3, <1>4, <1>5 DEF Sent
    <2> QED
      BY <1>1, <1>2, <2>1, <2>2, Whole DEF Result

LEMMA ResultSplit ==
  ASSUME TypeOK, NEW s \in Tree(count), Tried(s), compress[s] = "large", Length(s) > 1,
         Result(Split[Left(s)], Left(s)), Result(Split[Right(s)], Right(s))
  PROVE  Result(Split[s], s)
  <1> DEFINE left == Split[Left(s)]
             right == Split[Right(s)]
             Fails(h) == \E u \in Tree(count) : PartOf(u, h) /\ Tried(u) /\ compress[u] = "fails"
             Parts(h) == {u \in Tree(count) : PartOf(u, h) /\ Sent(u)}
  <1>1. s \in Slices
    BY RootIs
  <1>2. Split[s] = Join(left, right)
    BY <1>1, SplitIs DEF SplitOf
  <1>3. /\ left \in [err : BOOLEAN, payloads : Seq(Slices)]
        /\ right \in [err : BOOLEAN, payloads : Seq(Slices)]
    BY DEF Result
  <1>4. /\ IF Fails(Left(s)) THEN left.err
            ELSE ~left.err /\ Range(left.payloads) = Parts(Left(s)) /\ Cover(left.payloads, Left(s))
        /\ IF Fails(Right(s)) THEN right.err
            ELSE ~right.err /\ Range(right.payloads) = Parts(Right(s)) /\ Cover(right.payloads, Right(s))
    BY DEF Result
  <1>5. Fails(s) <=> Fails(Left(s)) \/ Fails(Right(s))
    BY PartsOfHalves
  <1>6. Parts(s) = Parts(Left(s)) \cup Parts(Right(s))
    <2>1. ~Sent(s)
      BY RootIs, SliceIs DEF Sent
    <2> QED
      BY <2>1, PartsOfHalves
  <1> HIDE DEF left, right, Fails, Parts
  <1>7. CASE Fails(s)
    <2>1. Join(left, right) \in [err : BOOLEAN, payloads : Seq(Slices)] /\ Join(left, right).err
      BY <1>3, <1>4, <1>5, <1>7 DEF Join
    <2> QED
      BY <1>2, <1>7, <2>1 DEF Result, Fails
  <1>8. CASE ~Fails(s)
    <2>1. ~left.err /\ ~right.err
      BY <1>4, <1>5, <1>8
    <2>2. Join(left, right) = [err |-> FALSE, payloads |-> left.payloads \o right.payloads]
      BY <2>1 DEF Join
    <2>3. left.payloads \o right.payloads \in Seq(Slices)
      BY <1>3
    <2>4. Range(left.payloads \o right.payloads) = Parts(s)
      BY <1>3, <1>4, <1>5, <1>6, <1>8, RangeJoins
    <2>5. Cover(left.payloads \o right.payloads, s)
      BY <1>1, <1>3, <1>4, <1>5, <1>8, CoverJoins
    <2> QED
      BY <1>2, <1>8, <2>2, <2>3, <2>4, <2>5 DEF Result, Fails, Parts
  <1> QED
    BY <1>7, <1>8

LEMMA ResultOf ==
  ASSUME TypeOK, NEW r \in Tree(count), Tried(r)
  PROVE  Result(Split[r], r)
  <1> DEFINE Bad(s) == s \in Tree(count) /\ Tried(s) /\ ~Result(Split[s], s)
             Wrong == {k \in Nat : \E s \in Tree(count) : Length(s) = k /\ Bad(s)}
  <1>1. SUFFICES ASSUME Wrong # {} PROVE FALSE
    BY RootIs, SliceIs
  <1>2. PICK m \in Wrong : \A u \in Wrong : ~(u < m)
    BY <1>1, LeastOf
  <1>3. PICK s \in Tree(count) : Length(s) = m /\ Bad(s)
    BY <1>2
  <1>4. s \in Slices /\ compress[s] \in Outcomes
    BY <1>3, RootIs DEF TypeOK
  <1>5. compress[s] = "large" /\ Length(s) > 1
    BY <1>3, <1>4, ResultFails, ResultWhole DEF Outcomes
  <1>6. ASSUME NEW h \in {Left(s), Right(s)} PROVE Result(Split[h], h)
    <2>1. h \in Tree(count) /\ Tried(h)
      BY <1>3, <1>5, HalvesTried
    <2>2. Length(h) \in Nat /\ Length(h) < m
      BY <1>3, <1>4, <1>5, HalvesAre
    <2> QED
      BY <1>2, <2>1, <2>2
  <1> QED
    BY <1>3, <1>5, <1>6, ResultSplit

-----------------------------------------------------------------------------
(* The call. *)

\* The whole is tried, and holds every slice of the tree.
LEMMA CallCorrect ==
  ASSUME TypeOK
  PROVE  Result(CompressedPayloadsForLogEvents, <<0, count>>)
         /\ \A u \in Tree(count) : PartOf(u, <<0, count>>)
  <1>1. /\ <<0, count>> \in Tree(count) /\ Tree(count) \subseteq Slices
        /\ \A u \in Tree(count) : PartOf(u, <<0, count>>)
    BY RootIs DEF Shape, Within
  <1>2. Tried(<<0, count>>)
    BY <1>1, PartsEqual DEF Tried
  <1> QED
    BY <1>1, <1>2, ResultOf, CallIs

Inv == TypeOK /\ SplitAsReference

LEMMA InitInv == Init => Inv
  BY DEF Init, Inv, TypeOK, SplitAsReference

LEMMA CallInv == Inv /\ Call => Inv'
  <1> SUFFICES ASSUME Inv, Call PROVE Inv'
    OBVIOUS
  <1>1. count' = count /\ compress' = compress /\ returned' = CompressedPayloadsForLogEvents
    BY DEF Call
  <1>2. TypeOK /\ TypeOK'
    BY <1>1 DEF Inv, TypeOK
  <1>3. /\ Result(returned', <<0, count>>)
        /\ \A u \in Tree(count) : PartOf(u, <<0, count>>)
    BY <1>1, <1>2, CallCorrect
  <1>4. /\ IF \E u \in Tree(count) : Tried(u) /\ compress[u] = "fails"
           THEN returned'.err
           ELSE /\ ~returned'.err
                /\ Range(returned'.payloads) = {u \in Tree(count) : Sent(u)}
                /\ Cover(returned'.payloads, <<0, count>>)
    BY <1>3 DEF Result
  <1>5. SplitAsReference'
    BY <1>1, <1>4 DEF SplitAsReference, Tried, Sent
  <1> QED
    BY <1>2, <1>5 DEF Inv

\* Whatever the number of log events and whatever compressing each slice leads to,
\* CompressedPayloadsForLogEvents returns an error when a slice it tries fails, and
\* otherwise the largest slices that fit, in order, with every event in exactly one.
THEOREM SplitCorrect == Spec => []SplitAsReference
  <1>1. Inv /\ [Next]_vars => Inv'
    <2> SUFFICES ASSUME Inv, [Next]_vars PROVE Inv'
      OBVIOUS
    <2>1. CASE Call
      BY <2>1, CallInv
    <2>2. CASE UNCHANGED vars
      BY <2>2 DEF Inv, TypeOK, SplitAsReference, Tried, Sent, vars
    <2> QED
      BY <2>1, <2>2 DEF Next
  <1>2. Inv => SplitAsReference
    BY DEF Inv
  <1> QED
    BY <1>1, <1>2, InitInv, PTL DEF Spec
=============================================================================
