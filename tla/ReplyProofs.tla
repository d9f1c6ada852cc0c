----------------------------- MODULE ReplyProofs -----------------------------
(***************************************************************************)
(* Proofs about Reply, for any set of replies that meets its assumptions.  *)
(***************************************************************************)
EXTENDS Reply, SequenceTheorems, FiniteSetTheorems, WellFoundedInduction, TLAPS

-----------------------------------------------------------------------------
(***************************************************************************)
(* The length of a body.                                                   *)
(***************************************************************************)

LEMMA LeastLemma ==
    ASSUME NEW S \in SUBSET Nat, S # {}
    PROVE  \E x \in S : \A y \in S : x <= y
<1> DEFINE R == OpToRel(<, Nat)
<1>1. \A x, y \in Nat : <<x, y>> \in R <=> x < y
  BY Zenon DEF OpToRel
<1>2. IsWellFoundedOn(R, Nat)
  BY NatLessThanWellFounded, Zenon
<1> HIDE DEF R
<1>3. PICK x \in S : \A y \in S : ~(<<y, x>> \in R)
  BY <1>2, WFMin
<1>4. \A y \in S : ~(y < x)
  BY <1>1, <1>3
<1>5. QED
  BY <1>4

\* What holds at m, and at each number after one of which it holds, holds up to n.
LEMMA UpInduction ==
    ASSUME NEW m \in Nat, NEW n \in Nat, NEW T, m \in T,
           \A k \in m..n : k < n /\ k \in T => k + 1 \in T
    PROVE  \A k \in m..n : k \in T
<1> SUFFICES ASSUME NEW z \in m..n, z \notin T PROVE FALSE
  OBVIOUS
<1> DEFINE Bad == {k \in m..n : k \notin T}
<1>1. Bad \in SUBSET Nat /\ z \in Bad
  OBVIOUS
<1> HIDE DEF Bad
<1>2. PICK b \in Bad : \A e \in Bad : b <= e
  BY <1>1, LeastLemma
<1>3. b \in m..n /\ b \notin T
  BY <1>2 DEF Bad
<1>4. b # m
  BY <1>3
<1>5. b - 1 \in m..n /\ b - 1 < n /\ (b - 1) + 1 = b /\ ~(b <= b - 1)
  BY <1>3, <1>4
<1>6. b - 1 \in T
  BY <1>2, <1>5 DEF Bad
<1>7. QED
  BY <1>3, <1>5, <1>6

\* A sequence of units whose lengths are numbers.
Sized(u) ==
    /\ Len(u) \in Nat /\ DOMAIN u = 1..Len(u)
    /\ \A k \in 1..Len(u) : u[k].n \in Nat

\* The lengths of its prefixes.
Lens(f, u) ==
    /\ f \in [0..Len(u) -> Nat] /\ f[0] = 7
    /\ \A k \in 1..Len(u) : f[k] = f[k - 1] + 4 + u[k].n

LEMMA BodyLenLemma ==
    ASSUME NEW u, Sized(u)
    PROVE  \E f : Lens(f, u) /\ BodyLen(u) = f[Len(u)]
<1> DEFINE N == Len(u)
           Upto(m, f) == /\ f \in [0..N -> Nat] /\ f[0] = 7
                         /\ \A k \in 1..m : f[k] = f[k - 1] + 4 + u[k].n
           T == {m \in 0..N : \E f : Upto(m, f)}
<1>1. N \in Nat /\ \A k \in 1..N : u[k].n \in Nat
  BY DEF Sized
<1>2. 0 \in T
  <2>1. PICK g : g = [k \in 0..N |-> 7]
    OBVIOUS
  <2>2. Upto(0, g) /\ 0 \in 0..N
    BY <1>1, <2>1
  <2> HIDE DEF Upto
  <2>3. QED
    BY <2>2
<1>3. ASSUME NEW m \in 0..N, m < N, m \in T
      PROVE  m + 1 \in T
  <2>1. PICK f : Upto(m, f)
    BY <1>3
  <2>2. PICK g : g = [f EXCEPT ![m + 1] = f[m] + 4 + u[m + 1].n]
    OBVIOUS
  <2>3. m + 1 \in 1..N /\ m \in 0..N /\ m # m + 1 /\ (m + 1) - 1 = m /\ m + 1 # 0
    BY <1>1, <1>3
  <2>4. f[m] + 4 + u[m + 1].n \in Nat
    <3>1. f[m] \in Nat /\ u[m + 1].n \in Nat
      BY <1>1, <2>1, <2>3
    <3>2. QED
      BY <3>1
  <2>5. g \in [0..N -> Nat] /\ g[0] = 7 /\ g[m + 1] = g[m] + 4 + u[m + 1].n
    BY <1>1, <2>1, <2>2, <2>3, <2>4
  <2>6. ASSUME NEW k \in 1..(m + 1)
        PROVE  g[k] = g[k - 1] + 4 + u[k].n
    <3>1. CASE k = m + 1
      BY <2>3, <2>5, <3>1
    <3>2. CASE k # m + 1
      <4>1. k \in 1..m /\ k \in 0..N /\ k - 1 \in 0..N /\ k - 1 # m + 1
        BY <1>1, <2>3, <3>2
      <4>2. g[k] = f[k] /\ g[k - 1] = f[k - 1]
        BY <2>1, <2>2, <3>2, <4>1
      <4>3. QED
        BY <2>1, <4>1, <4>2
    <3>3. QED
      BY <3>1, <3>2
  <2>7. Upto(m + 1, g) /\ m + 1 \in 0..N
    BY <1>1, <2>3, <2>5, <2>6
  <2> HIDE DEF Upto
  <2>8. QED
    BY <2>7
<1> HIDE DEF T
<1>4. \A k \in 0..N : k \in T
  BY <1>1, <1>2, <1>3, UpInduction
<1>5. PICK h : Upto(N, h)
  <2>1. N \in 0..N
    BY <1>1
  <2>2. QED
    BY <1>4, <2>1 DEF T
<1> DEFINE Solves(f) == f = [k \in 0..N |-> IF k = 0 THEN 7 ELSE f[k - 1] + 4 + u[k].n]
<1>6. Solves(h)
  <2>1. \A k \in 0..N : k # 0 => k \in 1..N
    BY <1>1
  <2>2. \A k \in 0..N : h[k] = IF k = 0 THEN 7 ELSE h[k - 1] + 4 + u[k].n
    BY <1>5, <2>1
  <2>3. h = [k \in 0..N |-> h[k]]
    BY <1>5
  <2>4. QED
    BY <2>2, <2>3
<1>7. PICK f : f = CHOOSE g : Solves(g)
  OBVIOUS
<1>8. Solves(f)
  BY <1>6, <1>7
<1>9. BodyLen(u) = f[N]
  BY <1>7 DEF BodyLen
<1>10. f[0] = 7 /\ \A k \in 1..N : f[k] = f[k - 1] + 4 + u[k].n
  <2>1. 0 \in 0..N /\ \A k \in 1..N : k \in 0..N /\ k # 0
    BY <1>1
  <2>2. QED
    BY <1>8, <2>1
<1>11. \A k \in 0..N : f[k] \in Nat
  <2> DEFINE M == {k \in 0..N : f[k] \in Nat}
  <2>1. 0 \in M
    BY <1>1, <1>10
  <2>2. ASSUME NEW k \in 0..N, k < N, k \in M
        PROVE  k + 1 \in M
    <3>1. k + 1 \in 1..N /\ k + 1 \in 0..N /\ (k + 1) - 1 = k
      BY <1>1, <2>2
    <3>2. f[k + 1] = f[k] + 4 + u[k + 1].n /\ f[k] \in Nat /\ u[k + 1].n \in Nat
      BY <1>1, <1>10, <2>2, <3>1
    <3>3. QED
      BY <3>1, <3>2
  <2> HIDE DEF M
  <2>3. \A k \in 0..N : k \in M
    BY <1>1, <2>1, <2>2, UpInduction
  <2>4. QED
    BY <2>3 DEF M
<1>12. f \in [0..N -> Nat]
  <2>1. f = [k \in 0..N |-> f[k]]
    BY <1>8
  <2>2. QED
    BY <1>11, <2>1
<1>13. QED
  BY <1>9, <1>10, <1>12 DEF Lens

\* The length of a body is at least that of its header and of its first unit.
LEMMA BodyLenBounds ==
    ASSUME NEW u, Sized(u)
    PROVE  /\ BodyLen(u) \in Nat /\ BodyLen(u) >= 7
           /\ Len(u) = 0 => BodyLen(u) = 7
           /\ Len(u) = 1 => BodyLen(u) = 11 + u[1].n
           /\ Len(u) >= 1 => BodyLen(u) >= 11 + u[1].n
<1>1. PICK f : Lens(f, u) /\ BodyLen(u) = f[Len(u)]
  BY BodyLenLemma
<1>2. Len(u) \in Nat /\ f \in [0..Len(u) -> Nat] /\ f[0] = 7
  BY <1>1 DEF Sized, Lens
<1>3. \A k \in 1..Len(u) : f[k] = f[k - 1] + 4 + u[k].n /\ u[k].n \in Nat
  BY <1>1 DEF Sized, Lens
<1>4. CASE Len(u) = 0
  BY <1>1, <1>2, <1>4
<1>5. CASE Len(u) # 0
  <2> DEFINE T == {k \in 1..Len(u) : f[k] >= 11 + u[1].n}
  <2>1. 1 \in 1..Len(u) /\ f[1] = 11 + u[1].n /\ u[1].n \in Nat
    <3>1. 1 \in 1..Len(u) /\ 1 - 1 = 0
      BY <1>2, <1>5
    <3>2. f[1] = f[0] + 4 + u[1].n /\ u[1].n \in Nat
      BY <1>3, <3>1
    <3>3. QED
      BY <1>2, <3>1, <3>2
  <2>2. ASSUME NEW k \in 1..Len(u), k < Len(u), k \in T
        PROVE  k + 1 \in T
    <3>1. k + 1 \in 1..Len(u) /\ (k + 1) - 1 = k /\ k \in 0..Len(u) /\ k + 1 \in 0..Len(u)
      BY <1>2, <2>2
    <3>2. f[k + 1] = f[k] + 4 + u[k + 1].n /\ u[k + 1].n \in Nat /\ f[k] \in Nat /\ f[k] >= 11 + u[1].n
      BY <1>2, <1>3, <2>2, <3>1
    <3>3. f[k + 1] >= 11 + u[1].n
      BY <2>1, <3>2
    <3>4. QED
      BY <3>1, <3>3
  <2> HIDE DEF T
  <2>3. 1 \in T
    BY <2>1 DEF T
  <2>4. \A k \in 1..Len(u) : k \in T
    BY <1>2, <2>2, <2>3, UpInduction
  <2>5. Len(u) \in 1..Len(u) /\ Len(u) \in 0..Len(u)
    BY <1>2, <1>5
  <2>6. f[Len(u)] >= 11 + u[1].n /\ f[Len(u)] \in Nat
    BY <1>2, <2>4, <2>5 DEF T
  <2>7. QED
    BY <1>1, <1>2, <1>5, <2>1, <2>6
<1>6. QED
  BY <1>4, <1>5

\* Padding fills up to a multiple of eight, and no further.
LEMMA PaddingLemma ==
    ASSUME NEW len \in Nat
    PROVE  Padding(len) \in 0..7 /\ (20 + len + Padding(len)) % 8 = 0
BY DEF Padding

-----------------------------------------------------------------------------
(***************************************************************************)
(* What the server sends.                                                  *)
(***************************************************************************)

SentUnits == [whole |-> 14, unmarked |-> 13, uncounted |-> 11, cut |-> 5, blank |-> 0, sentinel |-> 1]

\* The units of a block reply are the first of these fourteen.
InfoUnit(j, i) == Unit(IF CursorInfoSizes[i] = -1 THEN j.mark ELSE CursorInfoSizes[i], 0)
RowsUnit(j)    == Unit(Len(Rows(j)), Rows(j))
MarksUnit(j)   == Unit(Len(Marks(j)), Marks(j))
ReadUnit(j, k) ==
    IF k = 1 THEN Unit(2, j.code)
    ELSE IF k <= 11 THEN InfoUnit(j, k - 1)
    ELSE IF k = 12 THEN Unit(4, j.rows)
    ELSE IF k = 13 THEN RowsUnit(j) ELSE MarksUnit(j)

LEMMA ReadUnitsLemma ==
    ASSUME NEW j, j.shape \in Shapes
    PROVE  /\ Len(ReadUnits(j)) = SentUnits[j.shape]
           /\ DOMAIN ReadUnits(j) = 1..Len(ReadUnits(j))
           /\ \A k \in 1..Len(ReadUnits(j)) : ReadUnits(j)[k] = ReadUnit(j, k)
<1> DEFINE S == {Unit(2, j.code), Unit(4, j.rows), RowsUnit(j), MarksUnit(j)} \cup {InfoUnit(j, i) : i \in 1..10}
<1>1. PICK a : a = <<Unit(2, j.code)>>
  OBVIOUS
<1>2. PICK b : b = [i \in 1..10 |-> InfoUnit(j, i)]
  OBVIOUS
<1>3. PICK c : c = <<Unit(4, j.rows), RowsUnit(j), MarksUnit(j)>>
  OBVIOUS
<1>4. PICK ab : ab = a \o b
  OBVIOUS
<1>5. PICK all : all = ab \o c
  OBVIOUS
<1>6. SentUnits[j.shape] \in 0..14
  BY DEF Shapes, SentUnits
<1>7. ReadUnits(j) = SubSeq(all, 1, SentUnits[j.shape])
  BY <1>1, <1>2, <1>3, <1>4, <1>5, Zenon DEF ReadUnits, SentUnits, RowsUnit, MarksUnit, InfoUnit
<1>8. /\ Unit(2, j.code) \in S /\ Unit(4, j.rows) \in S /\ RowsUnit(j) \in S /\ MarksUnit(j) \in S
      /\ \A i \in 1..10 : InfoUnit(j, i) \in S
  OBVIOUS
<1> HIDE DEF S
<1>9. a \in Seq(S) /\ Len(a) = 1 /\ a[1] = Unit(2, j.code)
  BY <1>1, <1>8
<1>10. b \in Seq(S) /\ Len(b) = 10 /\ \A i \in 1..10 : b[i] = InfoUnit(j, i)
  BY <1>2, <1>8
<1>11. c \in Seq(S) /\ Len(c) = 3 /\ c[1] = Unit(4, j.rows) /\ c[2] = RowsUnit(j) /\ c[3] = MarksUnit(j)
  BY <1>3, <1>8
<1>12. /\ ab \in Seq(S) /\ Len(ab) = Len(a) + Len(b)
       /\ \A k \in 1..(Len(a) + Len(b)) : ab[k] = IF k <= Len(a) THEN a[k] ELSE b[k - Len(a)]
  BY <1>4, <1>9, <1>10, ConcatProperties
<1>13. Len(ab) = 11 /\ \A k \in 1..11 : ab[k] = IF k <= 1 THEN a[k] ELSE b[k - 1]
  BY <1>9, <1>10, <1>12
<1>14. /\ all \in Seq(S) /\ Len(all) = Len(ab) + Len(c)
       /\ \A k \in 1..(Len(ab) + Len(c)) : all[k] = IF k <= Len(ab) THEN ab[k] ELSE c[k - Len(ab)]
  <2>1. ab \in Seq(S) /\ c \in Seq(S)
    BY <1>11, <1>12
  <2>2. QED
    BY <1>5, <2>1, ConcatProperties
<1>15. Len(all) = 14 /\ \A k \in 1..14 : all[k] = IF k <= 11 THEN ab[k] ELSE c[k - 11]
  BY <1>11, <1>13, <1>14
<1>16. \A k \in 1..14 : all[k] = ReadUnit(j, k)
  <2> SUFFICES ASSUME NEW k \in 1..14 PROVE all[k] = ReadUnit(j, k)
    OBVIOUS
  <2>1. CASE k = 1
    BY <1>9, <1>13, <1>15, <2>1 DEF ReadUnit
  <2>2. CASE k \in 2..11
    <3>1. all[k] = b[k - 1] /\ k - 1 \in 1..10
      BY <1>13, <1>15, <2>2
    <3>2. QED
      BY <1>10, <2>2, <3>1 DEF ReadUnit
  <2>3. CASE k \in 12..14
    <3>1. all[k] = c[k - 11]
      BY <1>15, <2>3
    <3>2. QED
      BY <1>11, <2>3, <3>1 DEF ReadUnit
  <2>4. QED
    BY <2>1, <2>2, <2>3
<1>17. \A n \in 0..14 : /\ Len(SubSeq(all, 1, n)) = n /\ DOMAIN SubSeq(all, 1, n) = 1..n
                        /\ \A k \in 1..n : SubSeq(all, 1, n)[k] = all[k]
  BY <1>14, <1>15
<1>18. PICK n \in 0..14 : n = SentUnits[j.shape] /\ ReadUnits(j) = SubSeq(all, 1, n)
  BY <1>6, <1>7
<1>19. PICK us : us = SubSeq(all, 1, n)
  OBVIOUS
<1>20. Len(us) = n /\ DOMAIN us = 1..n /\ \A k \in 1..n : us[k] = ReadUnit(j, k)
  <2>1. \A k \in 1..n : k \in 1..14
    BY <1>18
  <2>2. QED
    BY <1>16, <1>17, <1>18, <1>19, <2>1
<1>21. QED
  BY <1>18, <1>19, <1>20

\* The units of the other replies.
LEMMA OtherUnitsLemma ==
    ASSUME NEW j \in Jobs, j.ask # "read"
    PROVE  /\ Len(Units(j)) \in Nat /\ DOMAIN Units(j) = 1..Len(Units(j))
           /\ j.ask = "execute" \/ (j.ask \in {"tables", "blob"} /\ j.shape = "sentinel") =>
                 Len(Units(j)) = 1 /\ Units(j)[1] = Unit(2, j.code)
           /\ j.ask = "tables" /\ j.shape # "sentinel" =>
                 /\ Len(Units(j)) = 1 + Len(j.names) /\ Len(j.names) \in Nat
                 /\ Units(j)[1] = Unit(4, j.rows)
                 /\ \A k \in 1..Len(j.names) : Units(j)[k + 1] = j.names[k]
           /\ j.ask = "blob" /\ j.shape # "sentinel" =>
                 /\ Len(Units(j)) = 3
                 /\ Units(j)[2] = Unit(4, j.rows) /\ Units(j)[3] = Unit(j.rows - j.tail, j.shift)
<1>1. j.ask \in Asks /\ j.names \in Seq([n : Nat, is : Int])
  BY JobsAssumption
<1>2. CASE j.ask = "execute" \/ (j.ask \in {"tables", "blob"} /\ j.shape = "sentinel")
  <2>1. Units(j) = <<Unit(2, j.code)>>
    BY <1>2 DEF Units
  <2>2. Len(Units(j)) = 1 /\ DOMAIN Units(j) = 1..1 /\ Units(j)[1] = Unit(2, j.code)
    BY <2>1
  <2>3. QED
    BY <1>2, <2>2
<1>3. CASE j.ask = "tables" /\ j.shape # "sentinel"
  <2>1. Units(j) = <<Unit(4, j.rows)>> \o j.names
    BY <1>3 DEF Units
  <2> DEFINE S == {Unit(4, j.rows)} \cup [n : Nat, is : Int]
  <2>2. PICK a : a = <<Unit(4, j.rows)>>
    OBVIOUS
  <2>3. a \in Seq(S) /\ Len(a) = 1 /\ a[1] = Unit(4, j.rows)
    BY <2>2
  <2>4. PICK ns \in Seq(S) : ns = j.names
    <3>1. [n : Nat, is : Int] \subseteq S
      OBVIOUS
    <3> HIDE DEF S
    <3>2. j.names \in Seq(S)
      BY <1>1, <3>1, SeqMonotonic
    <3>3. QED
      BY <3>2
  <2> HIDE DEF S
  <2>5. PICK us : us = a \o ns
    OBVIOUS
  <2>6. /\ us \in Seq(S) /\ Len(us) = Len(a) + Len(ns)
        /\ \A k \in 1..(Len(a) + Len(ns)) : us[k] = IF k <= Len(a) THEN a[k] ELSE ns[k - Len(a)]
    BY <2>3, <2>4, <2>5, ConcatProperties
  <2>7. Len(ns) \in Nat /\ Len(us) = 1 + Len(ns) /\ us[1] = a[1] /\ \A k \in 1..Len(ns) : us[k + 1] = ns[k]
    <3>1. Len(ns) \in Nat
      BY <2>4
    <3>2. \A k \in 1..Len(ns) : k + 1 \in 1..(1 + Len(ns)) /\ ~(k + 1 <= 1) /\ (k + 1) - 1 = k
      BY <3>1
    <3>3. QED
      BY <2>3, <2>6, <3>1, <3>2
  <2>8. DOMAIN us = 1..Len(us) /\ Len(us) \in Nat
    BY <2>6
  <2>9. us = Units(j)
    BY <2>1, <2>2, <2>4, <2>5
  <2>10. QED
    BY <1>3, <2>3, <2>4, <2>7, <2>8, <2>9
<1>4. CASE j.ask = "blob" /\ j.shape # "sentinel"
  <2>1. Units(j) = <<Unit(48, 0), Unit(4, j.rows), Unit(j.rows - j.tail, j.shift)>>
    BY <1>4 DEF Units
  <2>2. Len(Units(j)) = 3 /\ DOMAIN Units(j) = 1..3
    BY <2>1
  <2>3. Units(j)[2] = Unit(4, j.rows) /\ Units(j)[3] = Unit(j.rows - j.tail, j.shift)
    BY <2>1
  <2>4. QED
    BY <1>4, <2>2, <2>3
<1>5. CASE j.ask = "prepare"
  <2>1. Units(j) = <<>>
    BY <1>5 DEF Units
  <2>2. Len(Units(j)) = 0 /\ DOMAIN Units(j) = 1..0
    BY <2>1
  <2>3. QED
    BY <1>5, <2>2
<1>6. QED
  BY <1>1, <1>2, <1>3, <1>4, <1>5 DEF Asks

LEMMA UnitsLemma ==
    ASSUME NEW j \in Jobs
    PROVE  Sized(Units(j))
<1>1. j.ask \in Asks /\ j.shape \in Shapes
  BY JobsAssumption
<1>2. Len(Units(j)) \in Nat /\ DOMAIN Units(j) = 1..Len(Units(j))
  <2>1. CASE j.ask = "read"
    <3>1. Units(j) = ReadUnits(j)
      BY <2>1 DEF Units
    <3>2. Len(Units(j)) = SentUnits[j.shape] /\ DOMAIN Units(j) = 1..Len(Units(j))
      BY <1>1, <3>1, ReadUnitsLemma
    <3>3. SentUnits[j.shape] \in Nat
      BY <1>1 DEF SentUnits, Shapes
    <3>4. QED
      BY <3>2, <3>3
  <2>2. CASE j.ask # "read"
    BY <2>2, OtherUnitsLemma
  <2>3. QED
    BY <2>1, <2>2
<1>3. QED
  BY <1>2, UnitsAssumption DEF Sized

\* A reply is at least as long as its envelope.
LEMMA SentLemma ==
    ASSUME NEW j \in Jobs
    PROVE  /\ WireLen(j) \in Nat /\ WireLen(j) >= 20
           /\ DOMAIN Sent(j) = {"reqcode", "units", "pad"} /\ Sent(j).pad \in 0..7
<1>1. BodyLen(Units(j)) \in Nat
  BY UnitsLemma, BodyLenBounds
<1>2. Padding(BodyLen(Units(j))) \in 0..7 /\ Padding(37) \in 0..7
  BY <1>1, PaddingLemma
<1>3. WireLen(j) \in Nat /\ WireLen(j) >= 20
  <2>1. PICK len : len = IF j.deflated THEN 37 ELSE BodyLen(Units(j))
    OBVIOUS
  <2>2. len \in Nat /\ Padding(len) \in 0..7
    BY <1>1, <1>2, <2>1
  <2>3. WireLen(j) = 20 + len + Padding(len)
    BY <2>1 DEF WireLen
  <2>4. QED
    BY <2>2, <2>3
<1>4. Sent(j).pad \in 0..7 /\ DOMAIN Sent(j) = {"reqcode", "units", "pad"}
  BY <1>2 DEF Sent
<1>5. QED
  BY <1>3, <1>4

-----------------------------------------------------------------------------
(***************************************************************************)
(* The message.                                                            *)
(***************************************************************************)

\* The half of what is wanted, rounded up, is some of it and no more than it.
LEMMA HalfLemma ==
    ASSUME NEW n \in Nat, n # 0
    PROVE  (n + 1) \div 2 \in 1..n
OBVIOUS

LEMMA InitInv ==
    Init => ReplyInv
<1> SUFFICES ASSUME Init PROVE ReplyInv
  OBVIOUS
<1>1. WireLen(job) \in Nat /\ WireLen(job) >= 20
  BY SentLemma DEF Init
<1>2. TypeOK
  BY DEF Init, TypeOK, Phases, NoBody, NoResult
<1>3. MessageInv
  BY DEF Init, MessageInv, Parsed
<1>4. QED
  BY <1>2, <1>3 DEF ReplyInv

\* What a parse makes of a body.
LEMMA ParseLemma ==
    ASSUME Parse
    PROVE  /\ phase = "parse" /\ UNCHANGED <<job, got, taken, body>>
           /\ phase' \in {"decode", "done", "failed"}
           /\ phase' = "decode" => job.ask = "read"
           /\ result' = result \/ (DOMAIN result' = {"rows", "marks", "eoc", "says"} /\ result'.eoc \in BOOLEAN)
<1>1. phase = "parse" /\ UNCHANGED <<job, got, taken, body>>
  BY DEF Parse
<1>2. DOMAIN NoResult = {"rows", "marks", "eoc", "says"} /\ NoResult.eoc = FALSE
  BY DEF NoResult
<1>3. CASE ParsePrepare
  <2> DEFINE cols == Columns(Payload(job), FirstBlock(Payload(job)))
  <2>1. \/ phase' = "failed" /\ result' = result
        \/ phase' = "done" /\ result' = [NoResult EXCEPT !.says = cols]
    BY <1>3, Zenon DEF ParsePrepare, Return, Throw
  <2> HIDE DEF cols
  <2>2. QED
    BY <1>1, <1>2, <2>1
<1>4. CASE ParseExecute
  <2>1. phase' = "done" /\ result' = [NoResult EXCEPT !.eoc = NotReady(body)]
    BY <1>4 DEF ParseExecute, Return
  <2>2. NotReady(body) \in BOOLEAN
    BY DEF NotReady
  <2>3. DOMAIN result' = {"rows", "marks", "eoc", "says"} /\ result'.eoc = NotReady(body)
    BY <1>2, <2>1
  <2>4. QED
    BY <1>1, <2>1, <2>2, <2>3
<1>5. CASE ParseTables
  <2>1. \/ phase' = "failed" /\ result' = result
        \/ phase' = "done" /\ result' = [NoResult EXCEPT !.says = TableNames(body)]
    BY <1>5, Zenon DEF ParseTables, Return, Throw
  <2>2. QED
    BY <1>1, <1>2, <2>1
<1>6. CASE ParseBlob
  <2>1. \/ phase' = "failed" /\ result' = result
        \/ phase' = "done" /\ result' = [NoResult EXCEPT !.says = <<body.units[3]>>]
    BY <1>6, Zenon DEF ParseBlob, Return, Throw
  <2>2. QED
    BY <1>1, <1>2, <2>1
<1>7. CASE ParseBlock
  <2> DEFINE rows == BlockRows(body, RecordSize(columns))
             marks == BlockBookmarks(body, rows)
  <2>1. /\ job.ask = "read"
        /\ \/ phase' = "failed" /\ result' = result
           \/ phase' = "done" /\ result' = [NoResult EXCEPT !.eoc = TRUE]
           \/ /\ phase' = "decode"
              /\ result' = [NoResult EXCEPT !.rows = rows, !.marks = marks, !.eoc = EndsBlock(body)]
    BY <1>7, Zenon DEF ParseBlock, Return, Throw
  <2> HIDE DEF rows, marks
  <2>2. EndsBlock(body) \in BOOLEAN
    BY DEF EndsBlock
  <2>3. QED
    BY <1>1, <1>2, <2>1, <2>2
<1>8. QED
  BY <1>3, <1>4, <1>5, <1>6, <1>7 DEF Parse

\* What decoding and writing leave of a result.
LEMMA DecodeLemma ==
    ASSUME Decode \/ Write, TypeOK
    PROVE  /\ phase \in {"decode", "write"} /\ UNCHANGED <<job, got, taken, body>>
           /\ phase' \in {"write", "done", "failed"}
           /\ DOMAIN result' = {"rows", "marks", "eoc", "says"} /\ result'.eoc \in BOOLEAN
<1>1. DOMAIN result = {"rows", "marks", "eoc", "says"} /\ result.eoc \in BOOLEAN
  BY DEF TypeOK
<1>2. CASE result' = result
  BY <1>1, <1>2 DEF Decode, Write, Return, Throw
<1>3. CASE \E rows : result' = [result EXCEPT !.rows = rows]
  <2>1. DOMAIN result' = DOMAIN result /\ result'.eoc = result.eoc
    BY <1>1, <1>3
  <2>2. QED
    BY <1>1, <2>1 DEF Decode, Write, Return, Throw
<1>4. QED
  BY <1>2, <1>3 DEF Decode, Write, Return, Throw

LEMMA StepInv ==
    ReplyInv /\ [Next]_vars => ReplyInv'
<1> SUFFICES ASSUME ReplyInv, [Next]_vars PROVE ReplyInv'
  OBVIOUS
<1>1. TypeOK /\ MessageInv
  BY DEF ReplyInv
<1>2. /\ WireLen(job) \in Nat /\ WireLen(job) >= 20
      /\ DOMAIN Sent(job) = {"reqcode", "units", "pad"} /\ Sent(job).pad \in 0..7
  BY <1>1, SentLemma DEF TypeOK
<1>3. Want \in Nat /\ (phase = "head" => Want = 20) /\ (phase = "body" => Want = WireLen(job) - 20)
  BY <1>2 DEF Want
<1>4. phase \in {"head", "body"} => got <= Want
  BY <1>1, <1>2, <1>3 DEF MessageInv, TypeOK
<1>5. got \in Nat /\ taken \in Nat
  BY <1>1 DEF TypeOK
<1>6. CASE Recv
  <2>1. phase \in {"head", "body"} /\ got # Want /\ UNCHANGED <<job, phase, body, result>>
    BY <1>6 DEF Recv, Filled
  <2>2. PICK n \in {Want - got, (Want - got + 1) \div 2} : got' = got + n /\ taken' = taken + n
    BY <1>6 DEF Recv
  <2>3. Want - got \in Nat /\ Want - got # 0
    BY <1>3, <1>4, <1>5, <2>1
  <2>4. n \in 1..(Want - got)
    <3>1. (Want - got + 1) \div 2 \in 1..(Want - got)
      BY <2>3, HalfLemma
    <3>2. QED
      BY <2>3, <3>1
  <2>5. got' \in Nat /\ taken' \in Nat /\ got' <= Want
    BY <1>3, <1>5, <2>2, <2>3, <2>4
  <2>6. WireLen(job)' = WireLen(job) /\ Sent(job)' = Sent(job)
    BY <2>1
  <2>7. TypeOK'
    BY <1>1, <2>1, <2>5 DEF TypeOK
  <2>8. MessageInv'
    BY <1>1, <1>2, <1>3, <1>5, <2>1, <2>2, <2>4, <2>5, <2>6 DEF MessageInv, Parsed
  <2>9. QED
    BY <2>7, <2>8 DEF ReplyInv
<1>7. CASE RecvThrows
  <2>1. phase \in {"head", "body"} /\ phase' = "broken" /\ UNCHANGED <<job, got, taken, body, result>>
    BY <1>7 DEF RecvThrows
  <2>2. WireLen(job)' = WireLen(job)
    BY <2>1
  <2>3. TypeOK'
    BY <1>1, <2>1 DEF TypeOK, Phases
  <2>4. MessageInv'
    BY <1>1, <1>2, <1>5, <2>1, <2>2 DEF MessageInv, Parsed
  <2>5. QED
    BY <2>3, <2>4 DEF ReplyInv
<1>8. CASE HeadRead
  <2>1. phase = "head" /\ got = 20 /\ phase' \in {"broken", "body"} /\ got' = 0 /\ UNCHANGED <<job, taken, body, result>>
    BY <1>3, <1>8 DEF HeadRead, Filled
  <2>2. WireLen(job)' = WireLen(job)
    BY <2>1
  <2>3. TypeOK'
    BY <1>1, <2>1 DEF TypeOK, Phases
  <2>4. MessageInv'
    BY <1>1, <1>2, <1>5, <2>1, <2>2 DEF MessageInv, Parsed
  <2>5. QED
    BY <2>3, <2>4 DEF ReplyInv
<1>9. CASE Unpack
  <2>1. phase = "body" /\ got = WireLen(job) - 20 /\ UNCHANGED <<job, got, taken, result>>
    BY <1>3, <1>9 DEF Unpack, Filled
  <2>2. taken = WireLen(job)
    BY <1>1, <1>2, <1>5, <2>1 DEF MessageInv
  <2>3. WireLen(job)' = WireLen(job) /\ Sent(job)' = Sent(job)
    BY <2>1
  <2>4. (phase' = "broken" /\ UNCHANGED body) \/ (phase' = "parse" /\ body' = Sent(job))
    BY <1>9, Zenon DEF Unpack
  <2>5. TypeOK'
    BY <1>1, <1>2, <2>1, <2>4 DEF TypeOK, Phases
  <2>6. MessageInv'
    BY <1>2, <1>5, <2>1, <2>2, <2>3, <2>4 DEF MessageInv, Parsed
  <2>7. QED
    BY <2>5, <2>6 DEF ReplyInv
<1>10. CASE Parse \/ Decode \/ Write
  <2>1. /\ phase \in {"parse", "decode", "write"} /\ UNCHANGED <<job, got, taken, body>>
        /\ phase' \in {"decode", "write", "done", "failed"}
        /\ phase' \in {"decode", "write"} => job.ask = "read"
        /\ result' = result \/ (DOMAIN result' = {"rows", "marks", "eoc", "says"} /\ result'.eoc \in BOOLEAN)
    <3>1. CASE Parse
      BY <3>1, ParseLemma
    <3>2. CASE Decode \/ Write
      BY <1>1, <3>2, DecodeLemma DEF MessageInv
    <3>3. QED
      BY <1>10, <3>1, <3>2
  <2>2. WireLen(job)' = WireLen(job) /\ Sent(job)' = Sent(job)
    BY <2>1
  <2>3. TypeOK'
    BY <1>1, <2>1 DEF TypeOK, Phases
  <2>4. taken = WireLen(job) /\ body = Sent(job)
    BY <1>1, <2>1 DEF MessageInv, Parsed
  <2>5. MessageInv'
    BY <2>1, <2>2, <2>4 DEF MessageInv, Parsed
  <2>6. QED
    BY <2>3, <2>5 DEF ReplyInv
<1>11. CASE UNCHANGED vars
  <2>1. UNCHANGED <<job, phase, got, taken, body, result>>
    BY <1>11 DEF vars
  <2>2. WireLen(job)' = WireLen(job) /\ Sent(job)' = Sent(job)
    BY <2>1
  <2>3. QED
    BY <1>1, <2>1, <2>2 DEF ReplyInv, TypeOK, MessageInv
<1>12. QED
  BY <1>6, <1>7, <1>8, <1>9, <1>10, <1>11 DEF Next, Over

\* The phases of a reply: the count of bytes taken at each, and that only all
\* of a reply is parsed, and as it was sent (recv_msg, send_recv_compressed).
THEOREM ReplyInvariant == Spec => []ReplyInv
<1>1. QED
  BY InitInv, StepInv, PTL DEF Spec

\* No byte of the next reply is taken with this one, and none of this one is
\* left when it has been parsed (read_exact, recv_msg).
THEOREM MessageBoundary == Spec => []MessageWhole
<1>1. ReplyInv => MessageWhole
  <2> SUFFICES ASSUME ReplyInv PROVE MessageWhole
    OBVIOUS
  <2>1. WireLen(job) \in Nat /\ WireLen(job) >= 20
    BY SentLemma DEF ReplyInv, TypeOK
  <2>2. taken \in Nat /\ got \in Nat /\ phase \in Phases
    BY DEF ReplyInv, TypeOK
  <2>3. QED
    BY <2>1, <2>2 DEF MessageWhole, ReplyInv, MessageInv, Parsed, Phases
<1>2. QED
  BY <1>1, ReplyInvariant, PTL

-----------------------------------------------------------------------------
(***************************************************************************)
(* The answers to Execute, OpenBlob and to the request for the tables.     *)
(***************************************************************************)

\* No unit that is there behind the last one sent has a length.
LEMMA BehindLemma ==
    ASSUME NEW j \in Jobs, NEW b, b = Sent(j), NEW k \in Int
    PROVE  /\ b.units = Units(j) /\ b.pad \in 0..7
           /\ k > Len(Units(j)) => UnitAt(b, k) = Unit(0, 0)
           /\ k \in 1..Len(Units(j)) => UnitAt(b, k) = Units(j)[k] /\ HasUnit(b, k)
<1>1. b.units = Units(j) /\ b.pad \in 0..7
  BY SentLemma DEF Sent
<1>2. Len(Units(j)) \in Nat
  BY UnitsLemma DEF Sized
<1>3. QED
  BY <1>1, <1>2 DEF UnitAt, HasUnit

LEMMA ExecuteLemma ==
    ASSUME NEW j \in Jobs, j.ask = "execute", NEW b, b = Sent(j)
    PROVE  NotReady(b) = (j.code = RESULT_NOT_READY \/ j.shape = "sentinel")
<1>1. Len(Units(j)) = 1 /\ Units(j)[1] = Unit(2, j.code)
  BY OtherUnitsLemma
<1>2. UnitAt(b, 1) = Unit(2, j.code) /\ b.units = Units(j) /\ b.pad \in 0..7
  BY <1>1, BehindLemma
<1>3. Unit(2, j.code).n = 2
  BY DEF Unit
<1>4. BodyLen(Units(j)) = 13
  <2>1. BodyLen(Units(j)) = 11 + Units(j)[1].n
    BY <1>1, UnitsLemma, BodyLenBounds
  <2>2. QED
    BY <1>1, <1>3, <2>1
<1>5. Size(b) >= 13
  BY <1>2, <1>4 DEF Size
<1>6. b.reqcode = (IF j.shape = "sentinel" THEN 11284 ELSE 0)
  BY DEF Sent, REQCODE_POLLING_SENTINEL
<1>7. UnitAt(b, 1) = Unit(2, RESULT_NOT_READY) <=> j.code = RESULT_NOT_READY
  BY <1>2 DEF Unit
<1>8. NotReady(b) <=> (j.code = RESULT_NOT_READY \/ j.shape = "sentinel")
  BY <1>5, <1>6, <1>7 DEF NotReady, REQCODE_POLLING_SENTINEL
<1>9. NotReady(b) \in BOOLEAN
  BY DEF NotReady
<1>10. QED
  BY <1>8, <1>9, Zenon

LEMMA BlobLemma ==
    ASSUME NEW j \in Jobs, j.ask = "blob", NEW b, b = Sent(j)
    PROVE  /\ ~BlobFails(b) => j.shape # "sentinel" /\ <<b.units[3]>> = <<Unit(j.rows, j.shift)>>
           /\ BlobFails(b) => j.shape = "sentinel" \/ j.tail # 0
<1>1. CASE j.shape = "sentinel"
  <2>1. Len(Units(j)) = 1
    BY <1>1, OtherUnitsLemma
  <2>2. UnitAt(b, 2) = Unit(0, 0)
    BY <2>1, BehindLemma
  <2>3. UnitAt(b, 2).n # 4
    BY <2>2 DEF Unit
  <2>4. QED
    BY <1>1, <2>3 DEF BlobFails
<1>2. CASE j.shape # "sentinel"
  <2>1. /\ Len(Units(j)) = 3
        /\ Units(j)[2] = Unit(4, j.rows) /\ Units(j)[3] = Unit(j.rows - j.tail, j.shift)
    BY <1>2, OtherUnitsLemma
  <2>2. \A k \in 1..3 : UnitAt(b, k) = Units(j)[k] /\ HasUnit(b, k)
    <3>1. \A k \in 1..3 : k \in Int /\ k \in 1..Len(Units(j))
      BY <2>1
    <3>2. QED
      BY <3>1, BehindLemma
  <2>3. b.units = Units(j)
    BY BehindLemma
  <2>4. UnitAt(b, 2).n = 4 /\ UnitAt(b, 2).is = j.rows /\ UnitAt(b, 3).n = j.rows - j.tail
    BY <2>1, <2>2 DEF Unit
  <2>5. BlobFails(b) <=> j.rows - j.tail # j.rows
    BY <2>2, <2>4 DEF BlobFails
  <2>6. j.tail = 0 => j.rows - j.tail = j.rows
    BY JobsAssumption
  <2>7. j.rows - j.tail = j.rows => b.units[3] = Unit(j.rows, j.shift)
    BY <2>1, <2>3
  <2>8. QED
    BY <1>2, <2>5, <2>6, <2>7
<1>3. QED
  BY <1>1, <1>2

LEMMA TablesLemma ==
    ASSUME NEW j \in Jobs, j.ask = "tables", NEW b, b = Sent(j)
    PROVE  /\ ~TablesFail(b) =>
                IF j.shape = "sentinel" THEN j.code = RESULT_OK /\ TableNames(b) = <<>>
                ELSE /\ j.rows <= Len(j.names)
                     /\ TableNames(b) = [k \in 1..j.rows |-> j.names[k].is]
           /\ TablesFail(b) =>
                \/ j.shape = "sentinel" \/ j.rows > Len(j.names) \/ j.rows > MaxTables
                \/ \E k \in 1..j.rows : j.names[k].n \notin 1..256
<1>1. j.rows \in Nat /\ j.code \in Nat
  BY JobsAssumption
<1>2. CASE j.shape = "sentinel"
  <2>1. Len(Units(j)) = 1 /\ Units(j)[1] = Unit(2, j.code)
    BY <1>2, OtherUnitsLemma
  <2>2. TableCount(b) = j.code
    <3>1. UnitAt(b, 1) = Unit(2, j.code)
      BY <2>1, BehindLemma
    <3>2. QED
      BY <3>1 DEF TableCount, Unit
  <2>3. ASSUME j.code # 0 PROVE TablesFail(b)
    <3>1. 1 \in 1..TableCount(b)
      BY <1>1, <2>2, <2>3
    <3>2. UnitAt(b, 1 + 1) = Unit(0, 0)
      <4>1. UnitAt(b, 2) = Unit(0, 0)
        BY <2>1, BehindLemma
      <4>2. 1 + 1 = 2
        OBVIOUS
      <4>3. QED
        BY <4>1, <4>2
    <3>3. UnitAt(b, 1 + 1).n \notin 1..256
      BY <3>2 DEF Unit
    <3>4. QED
      BY <3>1, <3>3 DEF TablesFail
  <2>4. ASSUME j.code = 0 PROVE TableNames(b) = <<>>
    BY <2>2, <2>4 DEF TableNames
  <2>5. QED
    BY <1>2, <2>3, <2>4 DEF RESULT_OK
<1>3. CASE j.shape # "sentinel"
  <2>1. /\ Len(Units(j)) = 1 + Len(j.names) /\ Len(j.names) \in Nat
        /\ Units(j)[1] = Unit(4, j.rows)
        /\ \A k \in 1..Len(j.names) : Units(j)[k + 1] = j.names[k]
    BY <1>3, OtherUnitsLemma
  <2>2. TableCount(b) = j.rows
    <3>1. 1 \in 1..Len(Units(j))
      BY <2>1
    <3>2. UnitAt(b, 1) = Unit(4, j.rows)
      BY <2>1, <3>1, BehindLemma
    <3>3. QED
      BY <3>2 DEF TableCount, Unit
  <2>3. Size(b) >= 15
    <3>1. Units(j)[1].n = 4
      BY <2>1 DEF Unit
    <3>2. BodyLen(Units(j)) \in Nat /\ BodyLen(Units(j)) >= 15
      BY <2>1, <3>1, UnitsLemma, BodyLenBounds
    <3>3. b.units = Units(j) /\ b.pad \in 0..7
      BY BehindLemma
    <3>4. QED
      BY <3>2, <3>3 DEF Size
  <2>4. ASSUME NEW k \in 1..Len(j.names)
        PROVE  UnitAt(b, k + 1) = j.names[k] /\ HasUnit(b, k + 1)
    <3>1. k + 1 \in 1..Len(Units(j)) /\ k + 1 \in Int
      BY <2>1
    <3>2. UnitAt(b, k + 1) = Units(j)[k + 1] /\ HasUnit(b, k + 1)
      BY <3>1, BehindLemma
    <3>3. QED
      BY <2>1, <3>2
  <2>5. ASSUME j.rows > Len(j.names) PROVE TablesFail(b)
    <3>1. j.rows \in 1..TableCount(b) /\ j.rows + 1 > Len(Units(j)) /\ j.rows + 1 \in Int
      BY <1>1, <2>1, <2>2, <2>5
    <3>2. UnitAt(b, j.rows + 1) = Unit(0, 0)
      BY <3>1, BehindLemma
    <3>3. UnitAt(b, j.rows + 1).n \notin 1..256
      BY <3>2 DEF Unit
    <3>4. QED
      BY <3>1, <3>3 DEF TablesFail
  <2>6. ASSUME j.rows <= Len(j.names)
        PROVE  /\ TableNames(b) = [k \in 1..j.rows |-> j.names[k].is]
               /\ TablesFail(b) => j.rows > MaxTables \/ \E k \in 1..j.rows : j.names[k].n \notin 1..256
    <3>1. \A k \in 1..j.rows : k \in 1..Len(j.names)
      BY <1>1, <2>1, <2>6
    <3>2. \A k \in 1..j.rows : UnitAt(b, k + 1) = j.names[k] /\ HasUnit(b, k + 1)
      BY <2>4, <3>1
    <3>3. TableNames(b) = [k \in 1..j.rows |-> j.names[k].is]
      BY <2>2, <3>2, Zenon DEF TableNames
    <3>4. ~(Size(b) < 15)
      <4>1. BodyLen(Units(j)) \in Nat
        BY UnitsLemma, BodyLenBounds
      <4>2. b.units = Units(j) /\ b.pad \in 0..7
        BY BehindLemma
      <4>3. QED
        BY <2>3, <4>1, <4>2 DEF Size
    <3>5. TablesFail(b) => \/ TableCount(b) > MaxTables
                           \/ \E k \in 1..TableCount(b) : ~HasUnit(b, k + 1) \/ UnitAt(b, k + 1).n \notin 1..256
      BY <3>4 DEF TablesFail
    <3>6. QED
      BY <2>2, <3>2, <3>3, <3>5, Zenon
  <2>7. QED
    BY <1>1, <1>3, <2>1, <2>5, <2>6
<1>4. QED
  BY <1>2, <1>3

\* How a reply that was no block came to its end.
LEMMA AnswerStep ==
    ASSUME ReplyInv, [Next]_vars, job.ask \in {"execute", "blob", "tables"}, phase' \in {"done", "failed"}
    PROVE  /\ job' = job
           /\ \/ phase' = phase /\ result' = result
              \/ phase = "parse" /\ body = Sent(job) /\ (ParseExecute \/ ParseTables \/ ParseBlob)
<1>1. job.ask \notin {"read", "prepare"}
  OBVIOUS
<1>2. phase \in {"decode", "write"} => job.ask = "read"
  BY DEF ReplyInv, MessageInv
<1>3. phase = "parse" => body = Sent(job)
  BY DEF ReplyInv, MessageInv, Parsed
<1>4. CASE Recv \/ RecvThrows \/ HeadRead \/ Unpack
  BY <1>4 DEF Recv, RecvThrows, HeadRead, Unpack
<1>5. CASE Parse
  <2>1. ~ParsePrepare /\ ~ParseBlock
    BY <1>1 DEF ParsePrepare, ParseBlock
  <2>2. phase = "parse" /\ job' = job /\ (ParsePrepare \/ ParseExecute \/ ParseTables \/ ParseBlob \/ ParseBlock)
    BY <1>5 DEF Parse
  <2>3. QED
    BY <1>3, <2>1, <2>2
<1>6. CASE Decode \/ Write
  <2>1. phase \in {"decode", "write"}
    BY <1>6 DEF Decode, Write
  <2>2. QED
    BY <1>1, <1>2, <2>1
<1>7. CASE UNCHANGED vars
  BY <1>7 DEF vars
<1>8. QED
  BY <1>4, <1>5, <1>6, <1>7 DEF Next, Over

\* A ready cursor, a blob and the names of the tables are what the server said
\* they are, and no other reply is taken for them (inner_says_not_ready,
\* parse_open_blob_response, list_tables).
THEOREM AnswersCorrect == Spec => []AnswersExact
<1>1. Init => AnswersExact
  BY DEF Init, AnswersExact
<1>2. ReplyInv /\ AnswersExact /\ [Next]_vars => AnswersExact'
  <2> SUFFICES ASSUME ReplyInv, AnswersExact, [Next]_vars PROVE AnswersExact'
    OBVIOUS
  <2>1. CASE phase' \notin {"done", "failed"}
    BY <2>1 DEF AnswersExact
  <2>2. CASE job'.ask \notin {"execute", "blob", "tables"}
    BY <2>2 DEF AnswersExact
  <2>3. CASE job' = job /\ phase' = phase /\ result' = result
    BY <2>3 DEF AnswersExact
  <2>4. CASE /\ phase = "parse" /\ body = Sent(job) /\ job' = job
             /\ ParseExecute \/ ParseTables \/ ParseBlob
    <3>1. job \in Jobs
      BY DEF ReplyInv, TypeOK
    <3>2. CASE ParseExecute
      <4>1. job.ask = "execute" /\ phase' = "done" /\ result'.eoc = NotReady(body)
        BY <3>2 DEF ParseExecute, Return, NoResult
      <4>2. NotReady(body) = (job.code = RESULT_NOT_READY \/ job.shape = "sentinel")
        BY <2>4, <3>1, <4>1, ExecuteLemma
      <4>3. QED
        BY <2>4, <4>1, <4>2 DEF AnswersExact
    <3>3. CASE ParseBlob
      <4>1. /\ job.ask = "blob"
            /\ \/ BlobFails(body) /\ phase' = "failed"
               \/ ~BlobFails(body) /\ phase' = "done" /\ result'.says = <<body.units[3]>>
        BY <3>3 DEF ParseBlob, Return, Throw, NoResult
      <4>2. /\ ~BlobFails(body) => job.shape # "sentinel" /\ <<body.units[3]>> = <<Unit(job.rows, job.shift)>>
            /\ BlobFails(body) => job.shape = "sentinel" \/ job.tail # 0
        BY <2>4, <3>1, <4>1, BlobLemma
      <4>3. QED
        BY <2>4, <4>1, <4>2, Zenon DEF AnswersExact
    <3>4. CASE ParseTables
      <4>1. /\ job.ask = "tables"
            /\ \/ TablesFail(body) /\ phase' = "failed"
               \/ ~TablesFail(body) /\ phase' = "done" /\ result'.says = TableNames(body)
        BY <3>4 DEF ParseTables, Return, Throw, NoResult
      <4>2. /\ ~TablesFail(body) =>
                 IF job.shape = "sentinel" THEN job.code = RESULT_OK /\ TableNames(body) = <<>>
                 ELSE /\ job.rows <= Len(job.names)
                      /\ TableNames(body) = [k \in 1..job.rows |-> job.names[k].is]
            /\ TablesFail(body) =>
                 \/ job.shape = "sentinel" \/ job.rows > Len(job.names) \/ job.rows > MaxTables
                 \/ \E k \in 1..job.rows : job.names[k].n \notin 1..256
        BY <2>4, <3>1, <4>1, TablesLemma
      <4>3. QED
        BY <2>4, <4>1, <4>2 DEF AnswersExact
    <3>5. QED
      BY <2>4, <3>2, <3>3, <3>4
  <2>5. job' = job
    BY DEF Next, vars, Recv, RecvThrows, HeadRead, Unpack, Parse, Decode, Write, Over
  <2>6. QED
    BY <2>1, <2>2, <2>3, <2>4, <2>5, AnswerStep
<1>3. QED
  BY <1>1, <1>2, ReplyInvariant, PTL DEF Spec

-----------------------------------------------------------------------------
(***************************************************************************)
(* The columns of a statement.                                             *)
(***************************************************************************)

\* Each field type is told from the three bytes a block says it with.
LEMMA FieldTypeLemma ==
    \A t \in DOMAIN SubCodes : FieldType(SubCodes[t][1], SubCodes[t][2], SubCodes[t][3]) = t
<1> SUFFICES ASSUME NEW t \in DOMAIN SubCodes
             PROVE  FieldType(SubCodes[t][1], SubCodes[t][2], SubCodes[t][3]) = t
  OBVIOUS
<1>1. CASE t \in {"Calculated", "String", "Date", "Boolean", "Smallint", "Bytes", "Time", "DateTime", "VarBytes", "Largeint", "Unknown"}
  BY <1>1 DEF FieldType, SubCodes
<1>2. CASE t \in {"Blob", "Memo", "Graphic"}
  BY <1>2 DEF FieldType, SubCodes
<1>3. CASE t \in {"Integer", "AutoInc", "Currency", "Float"}
  BY <1>3 DEF FieldType, SubCodes
<1>4. QED
  BY <1>1, <1>2, <1>3 DEF SubCodes

LEMMA BlockLemma ==
    ASSUME NEW types, NEW i
    PROVE  /\ IsBlock(Block(types, i)) /\ Block(types, i).ord = i
           /\ StartsSchema(Block(types, i)) <=> i = 1
           /\ Block(types, i).max = Width[types[i]] /\ Block(types, i).off = Offset(types, i)
           /\ Block(types, i).sub = SubCodes[types[i]][1] /\ Block(types, i).a8 = SubCodes[types[i]][2]
           /\ Block(types, i).x = SubCodes[types[i]][3]
<1>1. PICK b : b = Block(types, i)
  OBVIOUS
<1>2. /\ b.marker = TRUE /\ b.named = TRUE /\ b.ord = i /\ b.max = Width[types[i]] /\ b.off = Offset(types, i)
      /\ b.sub = SubCodes[types[i]][1] /\ b.a8 = SubCodes[types[i]][2] /\ b.x = SubCodes[types[i]][3]
  BY <1>1 DEF Block
<1>3. QED
  BY <1>1, <1>2 DEF IsBlock, StartsSchema

\* Where the parts of a payload are.
LEMMA PayloadLemma ==
    ASSUME NEW j \in Jobs
    PROVE  /\ Len(j.before) \in Nat /\ Len(j.types) \in Nat /\ Len(j.after) \in Nat
           /\ DOMAIN j.types = 1..Len(j.types) /\ \A i \in 1..Len(j.types) : j.types[i] \in DOMAIN SubCodes
           /\ Len(Payload(j)) \in Nat /\ Len(j.types) <= Len(Payload(j))
           /\ Len(Payload(j)) = Len(j.before) + Len(j.types) + Len(j.after)
           /\ DOMAIN Payload(j) = 1..Len(Payload(j))
           /\ \A i \in 1..Len(j.before) : Payload(j)[i] = j.before[i]
           /\ \A i \in 1..Len(j.types) : Payload(j)[Len(j.before) + i] = Block(j.types, i)
           /\ \A i \in 1..Len(j.after) : Payload(j)[Len(j.before) + Len(j.types) + i] = j.after[i]
<1>1. j.types \in Seq(DOMAIN SubCodes) /\ j.before \in Seq(Item) /\ j.after \in Seq(Item)
  BY JobsAssumption, PayloadAssumption
<1>2. PICK n \in Nat : n = Len(j.types) /\ DOMAIN j.types = 1..n /\ \A i \in 1..n : j.types[i] \in DOMAIN SubCodes
  <2>1. Len(j.types) \in Nat /\ DOMAIN j.types = 1..Len(j.types)
    BY <1>1, LenProperties
  <2>2. \A i \in 1..Len(j.types) : j.types[i] \in DOMAIN SubCodes
    BY <1>1, ElementOfSeq
  <2>3. QED
    BY <2>1, <2>2
<1> DEFINE S == Item \cup {Block(j.types, i) : i \in 1..n}
<1>3. PICK mid : mid = [i \in 1..n |-> Block(j.types, i)]
  OBVIOUS
<1>4. mid \in Seq(S) /\ Len(mid) = n /\ \A i \in 1..n : mid[i] = Block(j.types, i)
  <2>1. \A i \in 1..n : Block(j.types, i) \in S
    OBVIOUS
  <2> HIDE DEF S
  <2>2. mid \in [1..n -> S]
    BY <1>3, <2>1
  <2>3. QED
    BY <1>3, <2>2
<1>5. Item \subseteq S
  OBVIOUS
<1> HIDE DEF S
<1>6. PICK bef \in Seq(S) : bef = j.before
  BY <1>1, <1>5, SeqMonotonic
<1>7. PICK aft \in Seq(S) : aft = j.after
  BY <1>1, <1>5, SeqMonotonic
<1>8. PICK bm : bm = bef \o mid
  OBVIOUS
<1>9. PICK p : p = bm \o aft
  OBVIOUS
<1>10. Payload(j) = p
  BY <1>2, <1>3, <1>6, <1>7, <1>8, <1>9, Zenon DEF Payload
<1>11. Len(bef) \in Nat /\ Len(aft) \in Nat
  OBVIOUS
<1>12. /\ bm \in Seq(S) /\ Len(bm) = Len(bef) + n
       /\ \A i \in 1..(Len(bef) + n) : bm[i] = IF i <= Len(bef) THEN bef[i] ELSE mid[i - Len(bef)]
  BY <1>4, <1>8, ConcatProperties
<1>13. bm \in Seq(S)
  BY <1>12
<1>14. /\ p \in Seq(S) /\ Len(p) = Len(bm) + Len(aft)
       /\ \A i \in 1..(Len(bm) + Len(aft)) : p[i] = IF i <= Len(bm) THEN bm[i] ELSE aft[i - Len(bm)]
  BY <1>9, <1>13, ConcatProperties
<1>15. DOMAIN p = 1..Len(p)
  BY <1>14, LenProperties
<1>16. Len(p) \in Nat /\ n <= Len(p) /\ Len(p) = Len(bef) + n + Len(aft)
  BY <1>11, <1>12, <1>14
<1>17. ASSUME NEW i \in 1..Len(bef)
       PROVE  p[i] = bef[i]
  BY <1>11, <1>12, <1>14
<1>18. ASSUME NEW i \in 1..n
       PROVE  p[Len(bef) + i] = Block(j.types, i)
  <2>1. /\ Len(bef) + i \in 1..(Len(bm) + Len(aft)) /\ Len(bef) + i <= Len(bm)
        /\ Len(bef) + i \in 1..(Len(bef) + n) /\ ~(Len(bef) + i <= Len(bef)) /\ (Len(bef) + i) - Len(bef) = i
    BY <1>11, <1>12
  <2>2. p[Len(bef) + i] = mid[i]
    BY <1>12, <1>14, <2>1
  <2>3. QED
    BY <1>4, <2>2
<1>19. ASSUME NEW i \in 1..Len(aft)
       PROVE  p[Len(bef) + n + i] = aft[i]
  <2>1. /\ Len(bef) + n + i \in 1..(Len(bm) + Len(aft)) /\ ~(Len(bef) + n + i <= Len(bm))
        /\ (Len(bef) + n + i) - Len(bm) = i
    BY <1>11, <1>12
  <2>2. QED
    BY <1>14, <2>1
<1>20. QED
  BY <1>2, <1>6, <1>7, <1>10, <1>11, <1>15, <1>16, <1>17, <1>18, <1>19

\* The first block of the statement is found, and no other.
LEMMA FirstBlockLemma ==
    ASSUME NEW j \in Jobs
    PROVE  FirstBlock(Payload(j)) = IF j.types = <<>> THEN 0 ELSE Len(j.before) + 1
<1> DEFINE p == Payload(j)
           B == Len(j.before)
           n == Len(j.types)
<1>1. /\ B \in Nat /\ n \in Nat /\ Len(j.after) \in Nat
      /\ Len(p) \in Nat /\ n <= Len(p) /\ Len(p) = B + n + Len(j.after) /\ DOMAIN p = 1..Len(p)
      /\ \A i \in 1..B : p[i] = j.before[i]
      /\ \A i \in 1..n : p[B + i] = Block(j.types, i)
      /\ \A i \in 1..Len(j.after) : p[B + n + i] = j.after[i]
  BY PayloadLemma
<1>2. DOMAIN j.before = 1..B /\ DOMAIN j.after = 1..Len(j.after)
  BY PayloadAssumption, LenProperties
<1>3. \A i \in 1..B : ~StartsSchema(p[i])
  BY <1>1, <1>2, PayloadAssumption
<1>4. j.types = <<>> <=> n = 0
  BY JobsAssumption, EmptySeq
<1>5. PICK starts : starts = {i \in DOMAIN p : StartsSchema(p[i])}
  OBVIOUS
<1>6. FirstBlock(p) = IF starts = {} THEN 0 ELSE Min(starts)
  BY <1>5, Zenon DEF FirstBlock
<1> HIDE DEF p, B, n
<1>7. CASE n = 0
  <2>1. \A i \in 1..Len(j.after) : ~StartsSchema(j.after[i])
    BY <1>2, <1>4, <1>7, PayloadAssumption
  <2>2. ASSUME NEW i \in 1..Len(p)
        PROVE  ~StartsSchema(p[i])
    <3>1. CASE i <= B
      <4>1. i \in 1..B
        BY <1>1, <3>1
      <4>2. QED
        BY <1>3, <4>1
    <3>2. CASE i > B
      <4>1. i - B \in 1..Len(j.after) /\ B + n + (i - B) = i
        BY <1>1, <1>7, <3>2
      <4>2. p[i] = j.after[i - B]
        BY <1>1, <4>1
      <4>3. QED
        BY <2>1, <4>1, <4>2
    <3>3. QED
      BY <1>1, <3>1, <3>2
  <2>3. starts = {}
    BY <1>1, <1>5, <2>2
  <2>4. QED
    BY <1>4, <1>6, <1>7, <2>3 DEF p
<1>8. CASE n # 0
  <2>1. 1 \in 1..n /\ B + 1 \in 1..Len(p)
    <3>1. PICK a \in Nat : a = Len(j.after)
      BY <1>1
    <3>2. B \in Nat /\ n \in Nat /\ Len(p) = B + n + a
      BY <1>1, <3>1
    <3>3. QED
      BY <1>8, <3>2
  <2>2. p[B + 1] = Block(j.types, 1)
    BY <1>1, <2>1
  <2>3. B + 1 \in starts
    <3>1. StartsSchema(p[B + 1])
      BY <2>2, BlockLemma
    <3>2. QED
      BY <1>1, <1>5, <2>1, <3>1
  <2>4. starts \subseteq Nat /\ \A i \in starts : B + 1 <= i
    <3>1. \A i \in starts : i \in 1..Len(p) /\ StartsSchema(p[i])
      BY <1>1, <1>5
    <3>2. \A i \in starts : i \notin 1..B
      BY <1>3, <3>1
    <3>3. B \in Nat /\ Len(p) \in Nat
      BY <1>1
    <3>4. \A i \in 1..Len(p) : i \notin 1..B => i \in Nat /\ B + 1 <= i
      BY <3>3
    <3>5. QED
      BY <3>1, <3>2, <3>4
  <2>5. Min(starts) = B + 1
    <3>1. Min(starts) = CHOOSE x \in starts : \A y \in starts : x <= y
      BY DEF Min
    <3>2. Min(starts) \in starts /\ \A y \in starts : Min(starts) <= y
      BY <2>3, <2>4, <3>1
    <3>3. Min(starts) \in Nat /\ Min(starts) <= B + 1 /\ B + 1 <= Min(starts) /\ B \in Nat
      BY <1>1, <2>3, <2>4, <3>2
    <3>4. QED
      BY <3>3
  <2>6. QED
    BY <1>4, <1>6, <1>8, <2>3, <2>5 DEF p, B
<1>9. QED
  BY <1>7, <1>8

\* The blocks of the statement are all taken, and no other.
LEMMA ColumnsLemma ==
    ASSUME NEW j \in Jobs, j.types # <<>>
    PROVE  Columns(Payload(j), Len(j.before) + 1) = SentColumns(j.types)
<1> DEFINE p == Payload(j)
           B == Len(j.before)
           n == Len(j.types)
           first == B + 1
           Fits(i) == /\ first + i - 1 <= Len(p)
                      /\ IsBlock(p[first + i - 1])
                      /\ p[first + i - 1].ord = i
<1>1. /\ B \in Nat /\ n \in Nat /\ Len(j.after) \in Nat
      /\ DOMAIN j.types = 1..n /\ \A i \in 1..n : j.types[i] \in DOMAIN SubCodes
      /\ Len(p) \in Nat /\ n <= Len(p) /\ Len(p) = B + n + Len(j.after) /\ DOMAIN p = 1..Len(p)
      /\ \A i \in 1..n : p[B + i] = Block(j.types, i)
      /\ \A i \in 1..Len(j.after) : p[B + n + i] = j.after[i]
  BY PayloadLemma
<1>2. n # 0
  <2>1. j.types \in Seq(DOMAIN SubCodes)
    BY JobsAssumption
  <2>2. QED
    BY <2>1, EmptySeq
<1>3. BlockRun(p, first) = CHOOSE k \in 1..Len(p) : (\A i \in 1..k : Fits(i)) /\ ~Fits(k + 1)
  BY Zenon DEF BlockRun
<1> HIDE DEF p, B, n
<1>4. \A i \in 1..n : first + i - 1 = B + i /\ first + i - 1 <= Len(p)
  <2>1. PICK a \in Nat : a = Len(j.after)
    BY <1>1
  <2>2. B \in Nat /\ n \in Nat /\ Len(p) = B + n + a
    BY <1>1, <2>1
  <2>3. QED
    BY <2>2
<1>5. \A i \in 1..n : Fits(i)
  <2> SUFFICES ASSUME NEW i \in 1..n PROVE Fits(i)
    OBVIOUS
  <2>1. first + i - 1 <= Len(p) /\ p[first + i - 1] = Block(j.types, i)
    BY <1>1, <1>4
  <2>2. QED
    BY <2>1, BlockLemma
<1>6. ~Fits(n + 1)
  <2>1. CASE Len(j.after) = 0
    BY <1>1, <2>1
  <2>2. CASE Len(j.after) # 0
    <3>1. j.after # <<>>
      BY <2>2, EmptySeq
    <3>2. first + (n + 1) - 1 = B + n + 1 /\ 1 \in 1..Len(j.after)
      BY <1>1, <2>2
    <3>3. p[first + (n + 1) - 1] = j.after[1]
      BY <1>1, <3>2
    <3>4. QED
      BY <3>1, <3>3, PayloadAssumption DEF n
  <2>3. QED
    BY <2>1, <2>2
<1>7. n \in 1..Len(p)
  <2>1. n \in Nat /\ Len(p) \in Nat /\ n <= Len(p)
    BY <1>1
  <2>2. n # 0
    BY <1>2
  <2>3. QED
    BY <2>1, <2>2
<1>8. ASSUME NEW k \in 1..Len(p), \A i \in 1..k : Fits(i), ~Fits(k + 1)
      PROVE  k = n
  <2>1. n + 1 \notin 1..k
    BY <1>6, <1>8
  <2>2. k + 1 \notin 1..n
    BY <1>5, <1>8
  <2>3. QED
    BY <1>1, <2>1, <2>2
<1> HIDE DEF Fits
<1>9. BlockRun(p, first) = n
  BY <1>3, <1>5, <1>6, <1>7, <1>8
<1>10. ASSUME NEW i \in 1..n
       PROVE  LET block == p[first + i - 1]
              IN  /\ FieldType(block.sub, block.a8, block.x) = j.types[i]
                  /\ block.max = Width[j.types[i]] /\ block.off = Offset(j.types, i)
  <2>1. p[first + i - 1] = Block(j.types, i)
    BY <1>1, <1>4
  <2>2. PICK block : block = p[first + i - 1]
    OBVIOUS
  <2>3. /\ block.max = Width[j.types[i]] /\ block.off = Offset(j.types, i)
        /\ block.sub = SubCodes[j.types[i]][1] /\ block.a8 = SubCodes[j.types[i]][2] /\ block.x = SubCodes[j.types[i]][3]
    BY <2>1, <2>2, BlockLemma
  <2>4. j.types[i] \in DOMAIN SubCodes
    BY <1>1
  <2>5. FieldType(block.sub, block.a8, block.x) = j.types[i]
    BY <2>3, <2>4, FieldTypeLemma
  <2>6. QED
    BY <2>2, <2>3, <2>5
<1>11. Columns(p, first) =
          [i \in 1..n |-> [type |-> FieldType(p[first + i - 1].sub, p[first + i - 1].a8, p[first + i - 1].x),
                           max |-> p[first + i - 1].max, off |-> p[first + i - 1].off]]
  BY <1>9, Zenon DEF Columns
<1>12. Columns(p, first) = [i \in 1..n |-> [type |-> j.types[i], max |-> Width[j.types[i]], off |-> Offset(j.types, i)]]
  BY <1>10, <1>11, Zenon
<1>13. QED
  BY <1>1, <1>12, Zenon DEF SentColumns, p, B

\* The columns a reply to Prepare is taken to have are those of the statement,
\* and a reply with columns is not refused (find_first_block_start,
\* parse_schema).
THEOREM SchemaCorrect == Spec => []SchemaExact
<1>1. Init => SchemaExact
  BY DEF Init, SchemaExact
<1>2. ReplyInv /\ SchemaExact /\ [Next]_vars => SchemaExact'
  <2> SUFFICES ASSUME ReplyInv, SchemaExact, [Next]_vars, job'.ask = "prepare", phase' \in {"done", "failed"}
               PROVE  SchemaExact'
    BY DEF SchemaExact
  <2>1. CASE UNCHANGED <<job, phase, result>>
    BY <2>1 DEF SchemaExact
  <2>2. CASE Parse
    <3>1. job' = job /\ job.ask = "prepare"
      BY <2>2 DEF Parse
    <3>2. ParsePrepare
      BY <2>2, <3>1 DEF Parse, ParseExecute, ParseTables, ParseBlob, ParseBlock
    <3> DEFINE first == FirstBlock(Payload(job))
    <3>3. IF first = 0 THEN phase' = "failed"
          ELSE phase' = "done" /\ result' = [NoResult EXCEPT !.says = Columns(Payload(job), first)]
      BY <3>2 DEF ParsePrepare, Return, Throw
    <3>4. job \in Jobs
      BY DEF ReplyInv, TypeOK
    <3>5. first = IF job.types = <<>> THEN 0 ELSE Len(job.before) + 1
      BY <3>4, FirstBlockLemma
    <3>6. Len(job.before) \in Nat
      BY <3>4, PayloadLemma
    <3> HIDE DEF first
    <3>7. CASE job.types = <<>>
      BY <3>1, <3>3, <3>5, <3>7 DEF SchemaExact
    <3>8. CASE job.types # <<>>
      <4>1. first = Len(job.before) + 1 /\ first # 0
        BY <3>5, <3>6, <3>8
      <4>2. Columns(Payload(job), first) = SentColumns(job.types)
        BY <3>4, <3>8, <4>1, ColumnsLemma
      <4>3. phase' = "done" /\ result'.says = SentColumns(job.types)
        BY <3>3, <4>1, <4>2 DEF NoResult
      <4>4. QED
        BY <3>1, <4>3 DEF SchemaExact
    <3>9. QED
      BY <3>7, <3>8
  <2>3. CASE Decode \/ Write
    <3>1. phase \in {"decode", "write"} /\ job' = job
      BY <2>3 DEF Decode, Write
    <3>2. job.ask = "read"
      BY <3>1 DEF ReplyInv, MessageInv
    <3>3. QED
      BY <3>1, <3>2
  <2>4. CASE Recv \/ RecvThrows \/ HeadRead \/ Unpack
    BY <2>4 DEF Recv, RecvThrows, HeadRead, Unpack
  <2>5. QED
    BY <2>1, <2>2, <2>3, <2>4 DEF Next, Over, vars
<1>3. QED
  BY <1>1, <1>2, ReplyInvariant, PTL DEF Spec

-----------------------------------------------------------------------------
(***************************************************************************)
(* Recursion over the numbers up to n, and what it joins.                  *)
(***************************************************************************)

\* From a, step by step, there is always a way on.
Steps(step, n, S) == step \in [1..n -> [S -> S]]
IsPath(f, n, S, a, step) ==
    f \in [0..n -> S] /\ f[0] = a /\ \A k \in 1..n : f[k] = step[k][f[k - 1]]

LEMMA SolutionLemma ==
    ASSUME NEW S, NEW n \in Nat, NEW a \in S, NEW step, Steps(step, n, S)
    PROVE  \E f : IsPath(f, n, S, a, step)
<1> DEFINE Upto(m, f) == f[0] = a /\ \A k \in 1..m : f[k] = step[k][f[k - 1]]
           T == {m \in 0..n : \E f \in [0..n -> S] : Upto(m, f)}
<1>1. 0 \in T
  <2>1. PICK g : g = [k \in 0..n |-> a]
    OBVIOUS
  <2>2. g \in [0..n -> S] /\ Upto(0, g) /\ 0 \in 0..n
    BY <2>1
  <2> HIDE DEF Upto
  <2>3. QED
    BY <2>2
<1>2. ASSUME NEW m \in 0..n, m < n, m \in T
      PROVE  m + 1 \in T
  <2>1. PICK f \in [0..n -> S] : Upto(m, f)
    BY <1>2
  <2>2. PICK g : g = [f EXCEPT ![m + 1] = step[m + 1][f[m]]]
    OBVIOUS
  <2>3. m + 1 \in 1..n /\ m + 1 \in 0..n /\ m # m + 1 /\ (m + 1) - 1 = m /\ m + 1 # 0
    BY <1>2
  <2>4. step[m + 1][f[m]] \in S
    BY <2>3 DEF Steps
  <2>5. g \in [0..n -> S] /\ g[0] = a /\ g[m + 1] = step[m + 1][f[m]] /\ g[m] = f[m]
    BY <2>1, <2>2, <2>3, <2>4
  <2>6. ASSUME NEW k \in 1..(m + 1)
        PROVE  g[k] = step[k][g[k - 1]]
    <3>1. CASE k = m + 1
      BY <2>3, <2>5, <3>1
    <3>2. CASE k # m + 1
      <4>1. k \in 1..m /\ k \in 0..n /\ k - 1 \in 0..n /\ k - 1 # m + 1
        BY <2>3, <3>2
      <4>2. g[k] = f[k] /\ g[k - 1] = f[k - 1]
        BY <2>2, <3>2, <4>1
      <4>3. QED
        BY <2>1, <4>1, <4>2
    <3>3. QED
      BY <3>1, <3>2
  <2>7. Upto(m + 1, g)
    BY <2>5, <2>6
  <2> HIDE DEF Upto
  <2>8. QED
    BY <2>3, <2>5, <2>7
<1> HIDE DEF T
<1>3. \A k \in 0..n : k \in T
  BY <1>1, <1>2, UpInduction
<1>4. n \in 0..n
  OBVIOUS
<1>5. PICK f \in [0..n -> S] : Upto(n, f)
  BY <1>3, <1>4 DEF T
<1>6. QED
  BY <1>5 DEF IsPath

\* How wide the fields of each type are.
LEMMA WidthLemma ==
    /\ \A t \in DOMAIN SubCodes : Width[t] \in Nat /\ Width[t] >= 1
    /\ DOMAIN SubCodes = {"Calculated", "String", "Date", "Blob", "Memo", "Graphic", "Boolean", "Smallint", "Integer",
          "AutoInc", "Currency", "Float", "Bytes", "Time", "DateTime", "VarBytes", "Largeint", "Unknown"}
    /\ Width["String"] = 3 /\ Width["Bytes"] = 2 /\ Width["VarBytes"] = 2 /\ Width["Unknown"] = 4 /\ Width["Calculated"] = 1
    /\ DOMAIN Needs \subseteq DOMAIN SubCodes
    /\ \A t \in DOMAIN Needs : Width[t] = Needs[t]
<1> DEFINE others == [Calculated |-> 1, String |-> 3, Bytes |-> 2, VarBytes |-> 2, Unknown |-> 4]
<1>1. /\ DOMAIN SubCodes = {"Calculated", "String", "Date", "Blob", "Memo", "Graphic", "Boolean", "Smallint",
            "Integer", "AutoInc", "Currency", "Float", "Bytes", "Time", "DateTime", "VarBytes", "Largeint", "Unknown"}
      /\ DOMAIN Needs \subseteq DOMAIN SubCodes
      /\ DOMAIN SubCodes = DOMAIN others \cup DOMAIN Needs
  BY DEF SubCodes, Needs
<1>2. \A t \in DOMAIN SubCodes : Width[t] = IF t \in DOMAIN Needs THEN Needs[t] ELSE others[t]
  BY DEF Width
<1>3. \A t \in DOMAIN Needs : Needs[t] \in Nat /\ Needs[t] >= 1
  BY DEF Needs
<1>4. \A t \in DOMAIN others : others[t] \in Nat /\ others[t] >= 1
  OBVIOUS
<1>5. \A t \in DOMAIN SubCodes : Width[t] \in Nat /\ Width[t] >= 1
  BY <1>1, <1>2, <1>3, <1>4
<1>6. {"String", "Bytes", "VarBytes", "Unknown", "Calculated"} \cap DOMAIN Needs = {}
  BY DEF Needs
<1>7. QED
  BY <1>1, <1>2, <1>5, <1>6

\* Where the fields of a record begin.
LEMMA OffsetLemma ==
    ASSUME NEW types \in Seq(DOMAIN SubCodes)
    PROVE  \E pos \in [0..Len(types) -> Nat] :
               /\ pos[0] = 25
               /\ \A k \in 1..Len(types) : pos[k] = pos[k - 1] + 1 + Width[types[k]]
               /\ \A k \in 1..Len(types) : Offset(types, k) = pos[k - 1]
<1>1. PICK n \in Nat : n = Len(types)
  OBVIOUS
<1>2. \A k \in 1..n : types[k] \in DOMAIN SubCodes
  BY <1>1
<1>3. \A t \in DOMAIN SubCodes : Width[t] \in Nat
  BY WidthLemma
<1>4. PICK step : step = [k \in 1..n |-> [p \in Nat |-> p + 1 + Width[types[k]]]]
  OBVIOUS
<1>5. step \in [1..n -> [Nat -> Nat]]
  <2>1. \A k \in 1..n : [p \in Nat |-> p + 1 + Width[types[k]]] \in [Nat -> Nat]
    <3> SUFFICES ASSUME NEW k \in 1..n, NEW p \in Nat PROVE p + 1 + Width[types[k]] \in Nat
      OBVIOUS
    <3>1. Width[types[k]] \in Nat
      BY <1>2, <1>3
    <3>2. QED
      BY <3>1
  <2>2. QED
    BY <1>4, <2>1
<1>6. PICK h \in [0..n -> Nat] : h[0] = 25 /\ \A k \in 1..n : h[k] = step[k][h[k - 1]]
  <2>1. Steps(step, n, Nat) /\ 25 \in Nat
    BY <1>5 DEF Steps
  <2>2. \E h : IsPath(h, n, Nat, 25, step)
    BY <2>1, SolutionLemma
  <2>3. QED
    BY <2>2 DEF IsPath
<1>7. \A k \in 0..n : h[k] = IF k = 0 THEN 25 ELSE h[k - 1] + 1 + Width[types[k]]
  <2> SUFFICES ASSUME NEW k \in 0..n, k # 0 PROVE h[k] = h[k - 1] + 1 + Width[types[k]]
    BY <1>6
  <2>1. k \in 1..n /\ k - 1 \in 0..n
    OBVIOUS
  <2>2. QED
    BY <1>4, <1>6, <2>1
<1> DEFINE Solves(f) == f = [k \in 0..n |-> IF k = 0 THEN 25 ELSE f[k - 1] + 1 + Width[types[k]]]
<1>8. Solves(h)
  <2>1. h = [k \in 0..n |-> h[k]]
    BY <1>6
  <2>2. QED
    BY <1>7, <2>1
<1>9. PICK f : f = CHOOSE g : Solves(g)
  OBVIOUS
<1>10. Solves(f)
  BY <1>8, <1>9
<1>11. \A k : Offset(types, k) = f[k - 1]
  BY <1>1, <1>9 DEF Offset
<1>12. f[0] = 25 /\ \A k \in 1..n : f[k] = f[k - 1] + 1 + Width[types[k]]
  <2>1. 0 \in 0..n /\ \A k \in 1..n : k \in 0..n /\ k # 0
    OBVIOUS
  <2>2. QED
    BY <1>10, <2>1
<1>13. \A k \in 0..n : f[k] \in Nat
  <2> DEFINE M == {k \in 0..n : f[k] \in Nat}
  <2>1. 0 \in M
    BY <1>12
  <2>2. ASSUME NEW k \in 0..n, k < n, k \in M
        PROVE  k + 1 \in M
    <3>1. k + 1 \in 1..n /\ k + 1 \in 0..n /\ (k + 1) - 1 = k
      BY <2>2
    <3>2. f[k + 1] = f[k] + 1 + Width[types[k + 1]] /\ f[k] \in Nat /\ Width[types[k + 1]] \in Nat
      BY <1>2, <1>3, <1>12, <2>2, <3>1
    <3>3. QED
      BY <3>1, <3>2
  <2> HIDE DEF M
  <2>3. \A k \in 0..n : k \in M
    BY <2>1, <2>2, UpInduction
  <2>4. QED
    BY <2>3 DEF M
<1>14. f \in [0..n -> Nat]
  <2>1. f = [k \in 0..n |-> f[k]]
    BY <1>10
  <2>2. QED
    BY <1>13, <2>1
<1>15. QED
  BY <1>1, <1>11, <1>12, <1>14

\* What lies where in s: a head, and each part behind those before it.
Lies(s, pos, n, head, parts) ==
    /\ pos \in [0..n -> Nat] /\ pos[0] = Len(head) /\ Len(s) = pos[n]
    /\ \A x \in 1..pos[0] : s[x] = head[x]
    /\ \A k \in 1..n : /\ pos[k] = pos[k - 1] + Len(parts[k])
                       /\ \A x \in 1..Len(parts[k]) : s[pos[k - 1] + x] = parts[k][x]

\* How it comes about.
Joins(f, head, n, parts) == f[0] = head /\ \A k \in 1..n : f[k] = f[k - 1] \o parts[k]

LEMMA JoinedSteps ==
    ASSUME NEW S, NEW n \in Nat, NEW head \in Seq(S), NEW parts, \A k \in 1..n : parts[k] \in Seq(S)
    PROVE  \E f : Joins(f, head, n, parts) /\ Joined(head, n, parts) = f[n]
<1>1. PICK step : step = [k \in 1..n |-> [s \in Seq(S) |-> s \o parts[k]]]
  OBVIOUS
<1>2. Steps(step, n, Seq(S))
  <2>1. \A k \in 1..n : [s \in Seq(S) |-> s \o parts[k]] \in [Seq(S) -> Seq(S)]
    <3> SUFFICES ASSUME NEW k \in 1..n, NEW s \in Seq(S) PROVE s \o parts[k] \in Seq(S)
      OBVIOUS
    <3>1. PICK t \in Seq(S) : t = parts[k]
      OBVIOUS
    <3>2. s \o t \in Seq(S)
      BY ConcatProperties
    <3>3. QED
      BY <3>1, <3>2
  <2>2. QED
    BY <1>1, <2>1 DEF Steps
<1>3. PICK h : IsPath(h, n, Seq(S), head, step)
  BY <1>2, SolutionLemma
<1>4. h \in [0..n -> Seq(S)] /\ h[0] = head /\ \A k \in 1..n : h[k] = h[k - 1] \o parts[k]
  <2>1. h \in [0..n -> Seq(S)] /\ h[0] = head /\ \A k \in 1..n : h[k] = step[k][h[k - 1]]
    BY <1>3 DEF IsPath
  <2>2. ASSUME NEW k \in 1..n PROVE h[k] = h[k - 1] \o parts[k]
    <3>1. k - 1 \in 0..n
      OBVIOUS
    <3>2. h[k - 1] \in Seq(S)
      BY <2>1, <3>1
    <3>3. QED
      BY <1>1, <2>1, <3>2
  <2>3. QED
    BY <2>1, <2>2
<1> DEFINE Solves(f) == f = [k \in 0..n |-> IF k = 0 THEN head ELSE f[k - 1] \o parts[k]]
<1>5. Solves(h)
  <2>1. \A k \in 0..n : k # 0 => k \in 1..n
    OBVIOUS
  <2>2. \A k \in 0..n : h[k] = IF k = 0 THEN head ELSE h[k - 1] \o parts[k]
    BY <1>4, <2>1
  <2>3. h = [k \in 0..n |-> h[k]]
    BY <1>4
  <2>4. QED
    BY <2>2, <2>3, Zenon
<1>6. PICK f : f = CHOOSE g : Solves(g)
  OBVIOUS
<1>7. Solves(f)
  BY <1>5, <1>6, Zenon
<1>8. Joined(head, n, parts) = f[n]
  BY <1>6, Zenon DEF Joined
<1>9. f[0] = head /\ \A k \in 1..n : f[k] = f[k - 1] \o parts[k]
  <2>1. 0 \in 0..n /\ \A k \in 1..n : k \in 0..n /\ k # 0
    OBVIOUS
  <2>2. f = [k \in 0..n |-> IF k = 0 THEN head ELSE f[k - 1] \o parts[k]]
    BY <1>7
  <2> HIDE DEF Solves
  <2>3. QED
    BY <2>1, <2>2
<1> HIDE DEF Solves
<1>10. QED
  BY <1>8, <1>9 DEF Joins

LEMMA JoinedLemma ==
    ASSUME NEW S, NEW n \in Nat, NEW head \in Seq(S), NEW parts, \A k \in 1..n : parts[k] \in Seq(S)
    PROVE  /\ Joined(head, n, parts) \in Seq(S)
           /\ \E pos : Lies(Joined(head, n, parts), pos, n, head, parts)
<1>7. PICK f : Joins(f, head, n, parts) /\ Joined(head, n, parts) = f[n]
  BY JoinedSteps
<1>8. Joined(head, n, parts) = f[n]
  BY <1>7
<1>9. f[0] = head /\ \A k \in 1..n : f[k] = f[k - 1] \o parts[k]
  BY <1>7 DEF Joins
<1> DEFINE pos == [k \in 0..n |-> Len(f[k])]
           Good(m) == /\ f[m] \in Seq(S)
                      /\ \A x \in 1..Len(head) : f[m][x] = head[x]
                      /\ \A k \in 1..m : /\ Len(f[k - 1]) \in Nat /\ Len(f[k]) = Len(f[k - 1]) + Len(parts[k])
                                         /\ Len(f[k]) <= Len(f[m])
                                         /\ \A x \in 1..Len(parts[k]) : f[m][Len(f[k - 1]) + x] = parts[k][x]
                      /\ Len(head) <= Len(f[m])
           T == {m \in 0..n : Good(m)}
<1>10. 0 \in T
  <2>1. Good(0) /\ 0 \in 0..n
    BY <1>9
  <2> HIDE DEF Good
  <2>2. QED
    BY <2>1
<1>11. ASSUME NEW m \in 0..n, m < n, m \in T
       PROVE  m + 1 \in T
  <2>1. Good(m)
    BY <1>11
  <2>2. m + 1 \in 1..n /\ (m + 1) - 1 = m /\ m + 1 \in 0..n
    BY <1>11
  <2>3. PICK a \in Seq(S) : a = f[m]
    BY <2>1
  <2>4. PICK b \in Seq(S) : b = parts[m + 1]
    BY <2>2
  <2>5. PICK c : c = f[m + 1]
    OBVIOUS
  <2>6. c = a \o b
    BY <1>9, <2>2, <2>3, <2>4, <2>5
  <2>7. /\ c \in Seq(S) /\ Len(c) = Len(a) + Len(b)
        /\ \A x \in 1..(Len(a) + Len(b)) : c[x] = IF x <= Len(a) THEN a[x] ELSE b[x - Len(a)]
    BY <2>6, ConcatProperties
  <2>8. PICK la \in Nat, lb \in Nat, lh \in Nat : la = Len(a) /\ lb = Len(b) /\ lh = Len(head)
    OBVIOUS
  <2>9. lh <= la /\ Len(c) = la + lb
    BY <2>1, <2>3, <2>7, <2>8
  <2>10. \A x \in 1..lh : c[x] = head[x]
    <3> SUFFICES ASSUME NEW x \in 1..lh PROVE c[x] = head[x]
      OBVIOUS
    <3>1. x \in 1..(la + lb) /\ x <= la
      BY <2>9
    <3>2. c[x] = a[x]
      BY <2>7, <2>8, <3>1
    <3>3. a[x] = head[x]
      BY <2>1, <2>3, <2>8
    <3>4. QED
      BY <3>2, <3>3
  <2>11. ASSUME NEW k \in 1..(m + 1)
         PROVE  /\ Len(f[k - 1]) \in Nat /\ Len(f[k]) = Len(f[k - 1]) + Len(parts[k]) /\ Len(f[k]) <= Len(c)
                /\ \A x \in 1..Len(parts[k]) : c[Len(f[k - 1]) + x] = parts[k][x]
    <3>1. CASE k = m + 1
      <4>1. f[k] = c /\ f[k - 1] = a /\ parts[k] = b
        BY <2>2, <2>3, <2>4, <2>5, <3>1
      <4>2. ASSUME NEW x \in 1..lb PROVE c[la + x] = b[x]
        <5>1. la + x \in 1..(la + lb) /\ ~(la + x <= la) /\ (la + x) - la = x
          OBVIOUS
        <5>2. QED
          BY <2>7, <2>8, <5>1
      <4>3. Len(f[k - 1]) = la /\ Len(parts[k]) = lb /\ Len(f[k]) = Len(c) /\ Len(c) = la + lb
        BY <2>8, <2>9, <4>1
      <4>4. \A x \in 1..Len(parts[k]) : c[Len(f[k - 1]) + x] = parts[k][x]
        BY <4>1, <4>2, <4>3
      <4>5. la + lb \in Nat /\ Len(c) <= Len(c)
        BY <4>3
      <4>6. QED
        BY <4>3, <4>4, <4>5
    <3>2. CASE k # m + 1
      <4>1. k \in 1..m
        BY <3>2
      <4>2. PICK p, q, l : p = Len(f[k - 1]) /\ q = Len(f[k]) /\ l = Len(parts[k])
        OBVIOUS
      <4>3. l \in Nat
        <5>1. k \in 1..n
          BY <4>1
        <5>2. QED
          BY <4>2, <5>1
      <4>4. p \in Nat /\ q = p + l /\ q <= la
        BY <2>1, <2>3, <2>8, <4>1, <4>2
      <4>5. ASSUME NEW x \in 1..l PROVE c[p + x] = parts[k][x]
        <5>1. p + x \in 1..(la + lb) /\ p + x <= la
          BY <4>3, <4>4
        <5>2. c[p + x] = a[p + x]
          BY <2>7, <2>8, <5>1
        <5>3. a[p + x] = parts[k][x]
          BY <2>1, <2>3, <4>1, <4>2
        <5>4. QED
          BY <5>2, <5>3
      <4>6. q <= la + lb
        BY <4>3, <4>4
      <4>7. QED
        BY <2>9, <4>2, <4>4, <4>5, <4>6
    <3>3. QED
      BY <3>1, <3>2
  <2>12. Len(head) <= Len(c)
    BY <2>8, <2>9
  <2>13. Good(m + 1)
    BY <2>5, <2>7, <2>8, <2>10, <2>11, <2>12
  <2> HIDE DEF Good
  <2>14. QED
    BY <2>2, <2>13
<1> HIDE DEF T, Good
<1>12. \A k \in 0..n : k \in T
  BY <1>10, <1>11, UpInduction
<1>13. \A k \in 0..n : f[k] \in Seq(S)
  BY <1>12 DEF T, Good
<1>14. Good(n)
  <2>1. n \in 0..n
    OBVIOUS
  <2>2. QED
    BY <1>12, <2>1 DEF T
<1>15. pos \in [0..n -> Nat] /\ \A k \in 0..n : pos[k] = Len(f[k])
  BY <1>13
<1> HIDE DEF pos
<1>16. Lies(f[n], pos, n, head, parts)
  <2>1. n \in 0..n /\ 0 \in 0..n /\ \A k \in 1..n : k \in 0..n /\ k - 1 \in 0..n
    OBVIOUS
  <2>2. pos[0] = Len(head) /\ Len(f[n]) = pos[n]
    BY <1>9, <1>15, <2>1
  <2>3. \A x \in 1..pos[0] : f[n][x] = head[x]
    BY <1>14, <2>2 DEF Good
  <2>4. ASSUME NEW k \in 1..n
        PROVE  /\ pos[k] = pos[k - 1] + Len(parts[k])
               /\ \A x \in 1..Len(parts[k]) : f[n][pos[k - 1] + x] = parts[k][x]
    <3>1. pos[k] = Len(f[k]) /\ pos[k - 1] = Len(f[k - 1])
      BY <1>15, <2>1
    <3>2. QED
      BY <1>14, <3>1 DEF Good
  <2>5. QED
    BY <1>15, <2>2, <2>3, <2>4 DEF Lies
<1>17. f[n] \in Seq(S)
  BY <1>14 DEF Good
<1>18. QED
  BY <1>8, <1>16, <1>17

-----------------------------------------------------------------------------
(***************************************************************************)
(* A field as the server sends it.                                         *)
(***************************************************************************)

LEMMA LeLemma ==
    ASSUME NEW n \in Int, NEW w \in Nat
    PROVE  Le(n, w) \in Seq(Int) /\ Len(Le(n, w)) = w
<1> DEFINE place == <<1, 256, 65536, 16777216>>
<1>1. \A i \in 1..w : i <= 4 => place[i] \in Nat /\ place[i] # 0
  BY SMT
<1>2. Le(n, w) = [i \in 1..w |-> IF i <= 4 THEN (n \div place[i]) % 256 ELSE IF n < 0 THEN 255 ELSE 0]
  BY SMT DEF Le
<1> HIDE DEF place
<1>3. \A i \in 1..w : (IF i <= 4 THEN (n \div place[i]) % 256 ELSE IF n < 0 THEN 255 ELSE 0) \in Int
  <2> SUFFICES ASSUME NEW i \in 1..w, i <= 4 PROVE (n \div place[i]) % 256 \in Int
    OBVIOUS
  <2>1. PICK p \in Nat : p = place[i] /\ p # 0
    BY <1>1
  <2>2. n \div p \in Int
    BY <2>1
  <2>3. (n \div p) % 256 \in Int
    BY <2>2
  <2>4. QED
    BY <2>1, <2>3
<1>4. QED
  BY <1>2, <1>3

LEMMA ZerosLemma ==
    ASSUME NEW n \in Nat
    PROVE  Zeros(n) \in Seq(Int) /\ Len(Zeros(n)) = n /\ \A i \in 1..n : Zeros(n)[i] = 0
BY DEF Zeros

\* Numbers fill the fields of their types.
LEMMA EncodedLemma ==
    ASSUME NEW type \in NumberTypes, NEW n \in Int
    PROVE  Encoded(type, n) \in Seq(Int) /\ Len(Encoded(type, n)) = Width[type]
<1>1. n \in Int
  OBVIOUS
<1>2. /\ type = "Date" => Width[type] = 4
      /\ type = "DateTime" => Width[type] = 8
      /\ type = "Boolean" => Width[type] = 2
      /\ Width[type] \in Nat
  BY WidthLemma DEF Needs, NumberTypes
<1>3. TDateTime(n) \in Int
  BY <1>1, SMT DEF TDateTime
<1>4. CASE type = "Boolean"
  BY <1>1, <1>2, <1>4, SMT DEF Encoded
<1>5. CASE type = "Date"
  <2>1. PICK days \in Int : days = n + 719162
    BY <1>1, SMT
  <2>2. Encoded(type, n) = Le(days, 4)
    BY <1>5, <2>1, SMT DEF Encoded
  <2>3. Le(days, 4) \in Seq(Int) /\ Len(Le(days, 4)) = 4
    BY LeLemma
  <2>4. QED
    BY <1>1, <1>2, <1>5, <2>2, <2>3
<1>6. CASE type = "DateTime"
  <2>1. Encoded(type, n) = Le(TDateTime(n), 8)
    BY <1>6, SMT DEF Encoded
  <2>2. Le(TDateTime(n), 8) \in Seq(Int) /\ Len(Le(TDateTime(n), 8)) = 8
    BY <1>3, LeLemma
  <2>3. QED
    BY <1>1, <1>2, <1>6, <2>1, <2>2
<1>7. CASE type \notin {"Boolean", "Date", "DateTime"}
  <2>1. Encoded(type, n) = Le(n, Width[type])
    BY <1>7, SMT DEF Encoded
  <2>2. QED
    BY <1>1, <1>2, <2>1, LeLemma
<1>8. QED
  BY <1>4, <1>5, <1>6, <1>7

\* A value that is stored fills its field.
Fills(v, type) == v.bytes \in Seq(Int) /\ Len(v.bytes) = Width[type]

LEMMA StoredLemma ==
    ASSUME NEW type \in DOMAIN SubCodes \ HandleTypes
    PROVE  /\ Len(Stored(type)) \in Nat \ {0}
           /\ \A k \in 1..Len(Stored(type)) : Fills(Stored(type)[k], type)
<1>1. CASE type = "String"
  <2>1. Stored(type) = Texts
    BY <1>1 DEF Stored
  <2>2. /\ Len(Texts) = 5
        /\ Texts[1].bytes = <<65, 66, 0>> /\ Texts[2].bytes = <<0, 0, 0>> /\ Texts[3].bytes = <<128, 65, 0>>
        /\ Texts[4].bytes = <<194, 160, 65>> /\ Texts[5].bytes = <<233, 194, 233>>
    BY DEF Texts, Value
  <2>3. Width[type] = 3
    BY <1>1, WidthLemma
  <2>4. /\ <<65, 66, 0>> \in Seq(Int) /\ Len(<<65, 66, 0>>) = 3
        /\ <<0, 0, 0>> \in Seq(Int) /\ Len(<<0, 0, 0>>) = 3
        /\ <<128, 65, 0>> \in Seq(Int) /\ Len(<<128, 65, 0>>) = 3
        /\ <<194, 160, 65>> \in Seq(Int) /\ Len(<<194, 160, 65>>) = 3
        /\ <<233, 194, 233>> \in Seq(Int) /\ Len(<<233, 194, 233>>) = 3
    OBVIOUS
  <2>4a. \A k \in 1..5 : Fills(Texts[k], type)
    <3>1. Fills(Texts[1], type) /\ Fills(Texts[2], type) /\ Fills(Texts[3], type)
          /\ Fills(Texts[4], type) /\ Fills(Texts[5], type)
      BY <2>2, <2>3, <2>4 DEF Fills
    <3>2. QED
      BY <3>1
  <2>5. QED
    BY <2>1, <2>2, <2>4a
<1>2. CASE type \in {"Bytes", "VarBytes"}
  <2>1. Stored(type) = Binaries
    BY <1>2 DEF Stored
  <2>2. Len(Binaries) = 2 /\ Binaries[1].bytes = <<0, 9>> /\ Binaries[2].bytes = <<200, 0>>
    BY DEF Binaries, Value
  <2>3. Width[type] = 2
    BY <1>2, WidthLemma
  <2>4. \A k \in 1..2 : Fills(Binaries[k], type)
    <3>1. <<0, 9>> \in Seq(Int) /\ Len(<<0, 9>>) = 2 /\ <<200, 0>> \in Seq(Int) /\ Len(<<200, 0>>) = 2
      OBVIOUS
    <3>2. Fills(Binaries[1], type) /\ Fills(Binaries[2], type)
      BY <2>2, <2>3, <3>1, Zenon DEF Fills
    <3>3. QED
      BY <3>2
  <2>5. QED
    BY <2>1, <2>2, <2>4
<1>3. CASE type \in NumberTypes
  <2>1. PICK ns \in Seq(Int) : ns = Numbers[type] /\ ns # <<>>
    BY <1>3, NumbersAssumption
  <2>2. Stored(type) = [i \in DOMAIN ns |-> Value(Encoded(type, ns[i]), <<Shown(type, ns[i])>>)]
    BY <1>3, <2>1 DEF Stored, NumberTypes
  <2>3. DOMAIN ns = 1..Len(ns) /\ Len(ns) \in Nat \ {0}
    BY <2>1
  <2>4. Len(Stored(type)) = Len(ns)
    BY <2>2, <2>3
  <2>5. ASSUME NEW k \in 1..Len(ns) PROVE Fills(Stored(type)[k], type)
    <3>1. ns[k] \in Int
      BY <2>1
    <3>2. Stored(type)[k].bytes = Encoded(type, ns[k])
      BY <2>2, <2>3 DEF Value
    <3>3. QED
      BY <1>3, <3>1, <3>2, EncodedLemma DEF Fills
  <2>6. QED
    BY <2>3, <2>4, <2>5
<1>4. CASE type \in {"Calculated", "Unknown"}
  <2>1. Stored(type) = <<Value(Le(5, Width[type]), <<>>)>>
    BY <1>4 DEF Stored, NumberTypes
  <2>2. Len(Stored(type)) = 1 /\ Stored(type)[1].bytes = Le(5, Width[type])
    BY <2>1 DEF Value
  <2>3. Width[type] \in Nat
    BY WidthLemma
  <2>4. Fills(Stored(type)[1], type)
    <3>1. Le(5, Width[type]) \in Seq(Int) /\ Len(Le(5, Width[type])) = Width[type]
      BY <2>3, LeLemma
    <3>2. QED
      BY <2>2, <3>1 DEF Fills
  <2>5. QED
    BY <2>2, <2>4
<1>5. type \in {"String", "Bytes", "VarBytes", "Calculated", "Unknown"} \cup NumberTypes
  BY WidthLemma DEF HandleTypes, NumberTypes
<1>6. QED
  BY <1>1, <1>2, <1>3, <1>4, <1>5

LEMMA ModLemma ==
    ASSUME NEW x \in Nat, NEW n \in Nat \ {0}
    PROVE  1 + (x % n) \in 1..n
OBVIOUS

\* Which of them a field holds.
LEMMA StoredAtLemma ==
    ASSUME NEW j \in Jobs, NEW r \in Nat, NEW c \in 1..Len(j.types), j.types[c] \notin HandleTypes
    PROVE  /\ \E k \in 1..Len(Stored(j.types[c])) : StoredAt(j, r, c) = Stored(j.types[c])[k]
           /\ Fills(StoredAt(j, r, c), j.types[c])
<1>1. j.types \in Seq(DOMAIN SubCodes) /\ j.shift \in Nat
  BY JobsAssumption
<1>2. PICK type \in DOMAIN SubCodes \ HandleTypes : type = j.types[c]
  BY <1>1
<1>3. PICK n \in Nat \ {0} : n = Len(Stored(type))
  BY StoredLemma
<1>4. r + c + j.shift \in Nat
  BY <1>1
<1>5. 1 + ((r + c + j.shift) % n) \in 1..n
  BY <1>4, ModLemma
<1>6. StoredAt(j, r, c) = Stored(type)[1 + ((r + c + j.shift) % n)]
  BY <1>2, <1>3 DEF StoredAt
<1>7. QED
  BY <1>2, <1>3, <1>5, <1>6, StoredLemma

-----------------------------------------------------------------------------

\* The byte in front of a field.
Flag(j, r, c) == IF <<r, c>> \in j.nulls THEN 0 ELSE IF r \in j.bad THEN 7 ELSE 1

LEMMA FieldLemma ==
    ASSUME NEW j \in Jobs, NEW r \in Nat, NEW c \in 1..Len(j.types)
    PROVE  /\ FieldBytes(j, r, c) \in Seq(Int) /\ Len(FieldBytes(j, r, c)) = Width[j.types[c]]
           /\ Field(j, r, c) \in Seq(Int) /\ Len(Field(j, r, c)) = 1 + Width[j.types[c]]
           /\ Field(j, r, c)[1] = Flag(j, r, c)
           /\ <<r, c>> \notin j.nulls =>
                 \A x \in 1..Width[j.types[c]] : Field(j, r, c)[1 + x] = FieldBytes(j, r, c)[x]
<1>1. PICK type \in DOMAIN SubCodes : type = j.types[c]
  BY JobsAssumption
<1>2. PICK w \in Nat : w = Width[type]
  BY WidthLemma
<1>3. FieldBytes(j, r, c) \in Seq(Int) /\ Len(FieldBytes(j, r, c)) = w
  <2>1. CASE type \notin HandleTypes
    BY <1>1, <1>2, <2>1, StoredAtLemma DEF FieldBytes, Fills
  <2>2. CASE type \in HandleTypes
    <3>1. w = 8
      BY <1>2, <2>2, WidthLemma DEF HandleTypes, Needs
    <3>2. Handle(r, c) \in Seq(Int) /\ Len(Handle(r, c)) = 8
      BY DEF Handle
    <3>3. Zeros(8) \in Seq(Int) /\ Len(Zeros(8)) = 8
      BY ZerosLemma
    <3>4. QED
      BY <1>1, <2>2, <3>1, <3>2, <3>3 DEF FieldBytes
  <2>3. QED
    BY <2>1, <2>2
<1>4. CASE <<r, c>> \in j.nulls
  <2>1. Field(j, r, c) = Zeros(1 + w)
    BY <1>1, <1>2, <1>4 DEF Field
  <2>2. 1 + w \in Nat /\ 1 \in 1..(1 + w)
    OBVIOUS
  <2>3. Zeros(1 + w) \in Seq(Int) /\ Len(Zeros(1 + w)) = 1 + w /\ Zeros(1 + w)[1] = 0
    BY <2>2, ZerosLemma
  <2>4. QED
    BY <1>1, <1>2, <1>3, <1>4, <2>1, <2>3 DEF Flag
<1>5. CASE <<r, c>> \notin j.nulls
  <2>1. PICK f : f = IF r \in j.bad THEN 7 ELSE 1
    OBVIOUS
  <2>2. PICK b \in Seq(Int) : b = FieldBytes(j, r, c)
    BY <1>3
  <2>3. PICK a : a = <<f>>
    OBVIOUS
  <2>4. a \in Seq(Int) /\ Len(a) = 1 /\ a[1] = f
    BY <2>1, <2>3
  <2>5. PICK s : s = a \o b
    OBVIOUS
  <2>6. /\ s \in Seq(Int) /\ Len(s) = Len(a) + Len(b)
        /\ \A x \in 1..(Len(a) + Len(b)) : s[x] = IF x <= Len(a) THEN a[x] ELSE b[x - Len(a)]
    BY <2>2, <2>4, <2>5, ConcatProperties
  <2>7. Len(s) = 1 + w /\ s[1] = f /\ \A x \in 1..w : s[1 + x] = b[x]
    <3>1. Len(b) = w
      BY <1>3, <2>2
    <3>2. \A x \in 1..w : 1 + x \in 1..(1 + w) /\ ~(1 + x <= 1) /\ (1 + x) - 1 = x
      OBVIOUS
    <3>3. 1 \in 1..(1 + w)
      OBVIOUS
    <3>4. QED
      BY <2>4, <2>6, <3>1, <3>2, <3>3
  <2>8. Field(j, r, c) = s
    BY <1>5, <2>1, <2>2, <2>3, <2>5 DEF Field
  <2>9. QED
    BY <1>1, <1>2, <1>3, <1>5, <2>1, <2>2, <2>6, <2>7, <2>8 DEF Flag
<1>6. QED
  BY <1>4, <1>5

-----------------------------------------------------------------------------
(***************************************************************************)
(* A row as the server sends it, and where the client looks in it.         *)
(***************************************************************************)

LEMMA TypesLemma ==
    ASSUME NEW types \in Seq(DOMAIN SubCodes), NEW k \in 1..Len(types)
    PROVE  types[k] \in DOMAIN SubCodes /\ Width[types[k]] \in Nat
<1>1. types[k] \in DOMAIN SubCodes
  OBVIOUS
<1>2. \A t \in DOMAIN SubCodes : Width[t] \in Nat
  BY WidthLemma, Zenon
<1>3. QED
  BY <1>1, <1>2

\* The jobs whose rows have fields.
Rowed(j) == j \in Jobs /\ j.types # <<>> /\ j.tail >= -25

SizeOf(j) == RecordSize(SentColumns(j.types))

\* A row whose fields lie at the offsets of their columns.
Laid(row, j, r) ==
    /\ row \in Seq(Int)
    /\ \A x \in 1..16 : row[9 + x] = 16 * r + x - 1
    /\ \A c \in 1..Len(j.types) :
          \A x \in 1..(1 + Width[j.types[c]]) : row[Offset(j.types, c) + x] = Field(j, r, c)[x]

LEMMA Md5Lemma ==
    ASSUME NEW r \in Nat
    PROVE  Md5(r) \in Seq(Int) /\ Len(Md5(r)) = 16 /\ \A x \in 1..16 : Md5(r)[x] = 16 * r + x - 1
BY DEF Md5

LEMMA HeadLemma ==
    ASSUME NEW r \in Nat
    PROVE  /\ Zeros(9) \o Md5(r) \in Seq(Int) /\ Len(Zeros(9) \o Md5(r)) = 25
           /\ \A x \in 1..16 : (Zeros(9) \o Md5(r))[9 + x] = 16 * r + x - 1
<1>1. PICK a \in Seq(Int) : a = Zeros(9) /\ Len(a) = 9
  BY ZerosLemma
<1>2. PICK b \in Seq(Int) : b = Md5(r) /\ Len(b) = 16 /\ \A x \in 1..16 : b[x] = 16 * r + x - 1
  BY Md5Lemma
<1>3. PICK s : s = a \o b
  OBVIOUS
<1>4. /\ s \in Seq(Int) /\ Len(s) = Len(a) + Len(b)
      /\ \A x \in 1..(Len(a) + Len(b)) : s[x] = IF x <= Len(a) THEN a[x] ELSE b[x - Len(a)]
  BY <1>3, ConcatProperties
<1>5. ASSUME NEW x \in 1..16 PROVE s[9 + x] = 16 * r + x - 1
  <2>1. PICK y \in 1..25 : y = 9 + x /\ ~(y <= 9) /\ y - 9 = x
    OBVIOUS
  <2>2. \A z \in 1..25 : s[z] = IF z <= 9 THEN a[z] ELSE b[z - 9]
    <3>1. Len(a) = 9 /\ Len(b) = 16
      BY <1>1, <1>2, Zenon
    <3>2. Len(a) + Len(b) = 25
      BY <3>1, 9 + 16 = 25, Zenon
    <3>3. QED
      BY <1>4, <3>1, <3>2, Zenon
  <2>3. s[y] = b[x]
    BY <2>1, <2>2
  <2>4. b[x] = 16 * r + x - 1
    BY <1>2
  <2>5. QED
    BY <2>1, <2>3, <2>4
<1>6. Len(s) = 25 /\ s \in Seq(Int)
  BY <1>1, <1>2, <1>4
<1>7. s = Zeros(9) \o Md5(r)
  BY <1>1, <1>2, <1>3
<1>8. QED
  BY <1>5, <1>6, <1>7

\* The size of a record: its fields end where the last one does.
LEMMA SizeLemma ==
    ASSUME NEW j, Rowed(j)
    PROVE  \E pos \in [0..Len(j.types) -> Nat] :
             /\ pos[0] = 25 /\ SizeOf(j) = pos[Len(j.types)] /\ SizeOf(j) >= 26
             /\ \A k \in 1..Len(j.types) : /\ pos[k] = pos[k - 1] + 1 + Width[j.types[k]]
                                           /\ Offset(j.types, k) = pos[k - 1] /\ pos[k] <= SizeOf(j)
<1>1. PICK types \in Seq(DOMAIN SubCodes) : types = j.types /\ types # <<>>
  BY JobsAssumption DEF Rowed
<1>2. PICK n \in Nat : n = Len(types) /\ n # 0
  BY <1>1
<1>3. PICK pos \in [0..n -> Nat] :
          /\ pos[0] = 25
          /\ \A k \in 1..n : pos[k] = pos[k - 1] + 1 + Width[types[k]]
          /\ \A k \in 1..n : Offset(types, k) = pos[k - 1]
  BY <1>2, OffsetLemma
<1>4. \A k \in 1..n : types[k] \in DOMAIN SubCodes /\ Width[types[k]] \in Nat
  BY <1>2, TypesLemma
<1>5. n \in 1..n /\ n \in DOMAIN types /\ n \in 0..n /\ n - 1 \in 0..n
  BY <1>1, <1>2
<1>6. SizeOf(j) = pos[n]
  <2>1. PICK cols : cols = SentColumns(types)
    OBVIOUS
  <2>2. cols = [i \in 1..n |-> [type |-> types[i], max |-> Width[types[i]], off |-> Offset(types, i)]]
    BY <1>1, <1>2, <2>1 DEF SentColumns
  <2>3. Len(cols) = n /\ cols[n].off = Offset(types, n) /\ cols[n].max = Width[types[n]]
    BY <1>5, <2>2
  <2>4. RecordSize(cols) = Offset(types, n) + Width[types[n]] + 1
    BY <2>3 DEF RecordSize, Last
  <2>5. Offset(types, n) + Width[types[n]] + 1 = pos[n]
    <3>1. pos[n] = pos[n - 1] + 1 + Width[types[n]] /\ Offset(types, n) = pos[n - 1]
      BY <1>3, <1>5
    <3>2. PICK a \in Nat, w \in Nat : a = pos[n - 1] /\ w = Width[types[n]]
      BY <1>3, <1>4, <1>5
    <3>3. QED
      BY <3>1, <3>2
  <2>6. QED
    BY <1>1, <2>1, <2>4, <2>5 DEF SizeOf
<1>7. \A k \in 0..n : pos[k] <= pos[n]
  <2> DEFINE T == {k \in 0..n : pos[n - k] <= pos[n]}
  <2>1. 0 \in T
    BY <1>5
  <2>2. ASSUME NEW k \in 0..n, k < n, k \in T
        PROVE  k + 1 \in T
    <3>1. n - k \in 1..n /\ (n - k) - 1 = n - (k + 1) /\ k + 1 \in 0..n /\ n - (k + 1) \in 0..n /\ n - k \in 0..n
      BY <2>2
    <3>2. pos[n - k] = pos[n - (k + 1)] + 1 + Width[types[n - k]]
      BY <1>3, <3>1
    <3>3. Width[types[n - k]] \in Nat /\ pos[n - (k + 1)] \in Nat /\ pos[n - k] \in Nat /\ pos[n] \in Nat
      BY <1>4, <1>5, <3>1
    <3>4. pos[n - k] <= pos[n]
      BY <2>2
    <3>5. QED
      BY <3>1, <3>2, <3>3, <3>4
  <2> HIDE DEF T
  <2>3. \A k \in 0..n : k \in T
    BY <2>1, <2>2, UpInduction
  <2>4. \A k \in 0..n : n - k \in 0..n /\ n - (n - k) = k
    OBVIOUS
  <2>5. QED
    BY <2>3, <2>4 DEF T
<1>8. pos[n] >= 26
  <2>1. 1 \in 1..n /\ 1 - 1 = 0 /\ 1 \in 0..n
    BY <1>2
  <2>2. pos[1] = pos[0] + 1 + Width[types[1]]
    BY <1>3, <2>1
  <2>3. pos[1] <= pos[n] /\ Width[types[1]] \in Nat /\ pos[1] \in Nat /\ pos[n] \in Nat
    BY <1>4, <1>5, <1>7, <2>1
  <2>4. QED
    BY <1>3, <2>2, <2>3
<1>9. \A k \in 1..n : k \in 0..n
  OBVIOUS
<1>10. QED
  BY <1>1, <1>2, <1>3, <1>6, <1>7, <1>8, <1>9

LEMMA RowLemma ==
    ASSUME NEW j, Rowed(j), NEW r \in Nat
    PROVE  /\ RowBytes(j, r) \in Seq(Int) /\ Len(RowBytes(j, r)) = SizeOf(j) + j.tail
           /\ j.tail >= 0 => Laid(RowBytes(j, r), j, r)
<1>1. PICK types \in Seq(DOMAIN SubCodes) : types = j.types /\ types # <<>>
  BY JobsAssumption DEF Rowed
<1>2. PICK n \in Nat : n = Len(types) /\ n # 0 /\ DOMAIN types = 1..n
  BY <1>1
<1>3. PICK head \in Seq(Int) : /\ head = Zeros(9) \o Md5(r) /\ Len(head) = 25
                               /\ \A x \in 1..16 : head[9 + x] = 16 * r + x - 1
  BY HeadLemma
<1>4. PICK parts : parts = [c \in DOMAIN j.types |-> Field(j, r, c)]
  OBVIOUS
<1>5. \A k \in 1..n : parts[k] = Field(j, r, k) /\ parts[k] \in Seq(Int) /\ Len(parts[k]) = 1 + Width[types[k]]
  BY <1>1, <1>2, <1>4, FieldLemma DEF Rowed
<1>6. PICK s \in Seq(Int) : s = Joined(head, n, parts)
  BY <1>5, JoinedLemma
<1>7. PICK at : Lies(s, at, n, head, parts)
  BY <1>5, <1>6, JoinedLemma
<1>8. PICK pos \in [0..n -> Nat] :
             /\ pos[0] = 25 /\ SizeOf(j) = pos[n] /\ SizeOf(j) >= 26
             /\ \A k \in 1..n : /\ pos[k] = pos[k - 1] + 1 + Width[types[k]]
                                /\ Offset(types, k) = pos[k - 1] /\ pos[k] <= SizeOf(j)
  BY <1>1, <1>2, SizeLemma
<1>9. \A k \in 0..n : at[k] = pos[k]
  <2> DEFINE T == {k \in 0..n : at[k] = pos[k]}
  <2>1. 0 \in T
    BY <1>3, <1>7, <1>8 DEF Lies
  <2>2. ASSUME NEW k \in 0..n, k < n, k \in T
        PROVE  k + 1 \in T
    <3>1. k + 1 \in 1..n /\ (k + 1) - 1 = k /\ k + 1 \in 0..n
      BY <2>2
    <3>2. at[k + 1] = at[k] + Len(parts[k + 1])
      BY <1>7, <3>1 DEF Lies
    <3>3. pos[k + 1] = pos[k] + 1 + Width[types[k + 1]] /\ at[k] = pos[k] /\ pos[k] \in Nat
      BY <1>8, <2>2, <3>1
    <3>4. Len(parts[k + 1]) = 1 + Width[types[k + 1]] /\ Width[types[k + 1]] \in Nat
      <4>1. Width[types[k + 1]] \in Nat
        BY <1>2, <3>1, TypesLemma
      <4>2. QED
        BY <1>5, <3>1, <4>1
    <3>5. PICK a \in Nat, w \in Nat : a = pos[k] /\ w = Width[types[k + 1]]
      BY <3>3, <3>4
    <3>6. at[k + 1] = pos[k + 1]
      <4>1. at[k + 1] = a + (1 + w)
        BY <3>2, <3>3, <3>4, <3>5
      <4>2. pos[k + 1] = a + 1 + w
        BY <3>3, <3>5
      <4>3. QED
        BY <4>1, <4>2
    <3>7. QED
      BY <3>1, <3>6
  <2> HIDE DEF T
  <2>3. \A k \in 0..n : k \in T
    BY <2>1, <2>2, UpInduction
  <2>4. QED
    BY <2>3 DEF T
<1>10. PICK size \in Nat : size = SizeOf(j) /\ size >= 26 /\ Len(s) = size
  <2>1. n \in 0..n
    OBVIOUS
  <2>2. SizeOf(j) \in Nat /\ Len(s) = SizeOf(j)
    BY <1>7, <1>8, <1>9, <2>1 DEF Lies
  <2>3. QED
    BY <1>8, <2>2
<1>11. Laid(s, j, r)
  <2>1. ASSUME NEW x \in 1..16 PROVE s[9 + x] = 16 * r + x - 1
    <3>1. 9 + x \in 1..25
      OBVIOUS
    <3>2. s[9 + x] = head[9 + x]
      BY <1>3, <1>7, <3>1 DEF Lies
    <3>3. QED
      BY <1>3, <3>2
  <2>2. ASSUME NEW c \in 1..n, NEW x \in 1..(1 + Width[types[c]])
        PROVE  s[Offset(types, c) + x] = Field(j, r, c)[x]
    <3>1. c - 1 \in 0..n
      OBVIOUS
    <3>2. Offset(types, c) = at[c - 1]
      BY <1>8, <1>9, <3>1
    <3>3. x \in 1..Len(parts[c])
      BY <1>5
    <3>4. s[at[c - 1] + x] = parts[c][x]
      BY <1>7, <3>3 DEF Lies
    <3>5. QED
      BY <1>5, <3>2, <3>4
  <2>3. QED
    BY <1>1, <1>2, <2>1, <2>2 DEF Laid
<1>12. PICK tail \in Int : tail = j.tail /\ tail >= -25
  BY JobsAssumption DEF Rowed
<1>13. RowBytes(j, r) = IF tail < 0 THEN SubSeq(s, 1, Len(s) + tail) ELSE s \o Zeros(tail)
  BY <1>1, <1>2, <1>3, <1>4, <1>6, <1>12 DEF RowBytes
<1>14. CASE tail < 0
  <2>1. PICK m \in Nat : m = size + tail /\ m >= 1 /\ m <= size
    BY <1>10, <1>12, <1>14
  <2>2. PICK t : t = SubSeq(s, 1, m)
    OBVIOUS
  <2>3. t \in Seq(Int) /\ Len(t) = m
    <3>1. DOMAIN s = 1..size /\ \A i \in 1..size : s[i] \in Int
      BY <1>10
    <3>2. t = [i \in 1..m |-> s[i]]
      BY <1>10, <2>1, <2>2
    <3>3. \A i \in 1..m : s[i] \in Int
      BY <2>1, <3>1
    <3>4. QED
      BY <3>2, <3>3
  <2>4. RowBytes(j, r) = t
    BY <1>10, <1>13, <1>14, <2>1, <2>2
  <2>5. SizeOf(j) + j.tail = m /\ ~(j.tail >= 0)
    BY <1>10, <1>12, <1>14, <2>1
  <2>6. QED
    BY <2>3, <2>4, <2>5
<1>15. CASE tail >= 0
  <2>1. PICK z \in Seq(Int) : z = Zeros(tail) /\ Len(z) = tail
    BY <1>15, ZerosLemma
  <2>2. PICK row : row = s \o z
    OBVIOUS
  <2>3. /\ row \in Seq(Int) /\ Len(row) = Len(s) + Len(z)
        /\ \A x \in 1..(Len(s) + Len(z)) : row[x] = IF x <= Len(s) THEN s[x] ELSE z[x - Len(s)]
    BY <2>2, ConcatProperties
  <2>4. \A x \in 1..size : row[x] = s[x]
    <3> SUFFICES ASSUME NEW x \in 1..size PROVE row[x] = s[x]
      OBVIOUS
    <3>1. x \in 1..(size + tail) /\ x <= size
      BY <1>12, <1>15
    <3>2. QED
      BY <1>10, <2>1, <2>3, <3>1
  <2>5. Laid(row, j, r)
    <3>1. ASSUME NEW x \in 1..16 PROVE row[9 + x] = 16 * r + x - 1
      <4>1. 9 + x \in 1..size
        BY <1>10
      <4>2. QED
        BY <1>11, <2>4, <4>1 DEF Laid
    <3>2. ASSUME NEW c \in 1..n, NEW x \in 1..(1 + Width[types[c]])
          PROVE  row[Offset(types, c) + x] = Field(j, r, c)[x]
      <4>1. PICK w \in Nat : w = Width[types[c]]
        BY <1>2, TypesLemma
      <4>2. c - 1 \in 0..n
        OBVIOUS
      <4>3. PICK off \in Nat : off = pos[c - 1] /\ off = Offset(types, c) /\ off + 1 + w <= size
        BY <1>8, <1>10, <4>1, <4>2
      <4>4. off + x \in 1..size
        <5>1. x \in 1..(1 + w)
          BY <4>1
        <5>2. PICK y \in Nat : y = x /\ 1 <= y /\ y <= 1 + w
          BY <5>1
        <5>3. size \in Nat /\ off + 1 + w <= size
          BY <1>10, <4>3, Zenon
        <5>4. 1 <= y /\ y <= 1 + w
          BY <5>2, Zenon
        <5>5. off + y \in 1..size
          BY <5>3, <5>4
        <5>6. QED
          BY <5>2, <5>5
      <4>5. row[off + x] = s[off + x]
        BY <2>4, <4>4
      <4>6. s[off + x] = Field(j, r, c)[x]
        BY <1>1, <1>2, <1>11, <4>3 DEF Laid
      <4>7. QED
        BY <4>3, <4>5, <4>6
    <3>3. QED
      BY <1>1, <1>2, <2>3, <3>1, <3>2 DEF Laid
  <2>6. RowBytes(j, r) = row
    BY <1>13, <1>15, <2>1, <2>2
  <2>7. QED
    BY <1>10, <1>12, <2>1, <2>3, <2>5, <2>6
<1>16. QED
  BY <1>12, <1>14, <1>15

-----------------------------------------------------------------------------
(***************************************************************************)
(* What the client reads in such a row.                                    *)
(***************************************************************************)

LEMMA CutLemma ==
    ASSUME NEW s, NEW t \in Seq(Int), NEW m \in Int, NEW n \in Int, n - m + 1 = Len(t),
           \A i \in 1..Len(t) : s[m + i - 1] = t[i]
    PROVE  SubSeq(s, m, n) = t
<1>1. PICK l \in Nat : l = Len(t) /\ n = m + l - 1
  BY LenProperties
<1>2. \A i \in 1..l : t[i] \in Int /\ s[m + i - 1] = t[i]
  BY <1>1, ElementOfSeq
<1>3. ASSUME NEW i \in m..n PROVE s[i] \in Int
  <2>1. PICK k \in 1..l : k = i - m + 1 /\ m + k - 1 = i
    BY <1>1
  <2>2. QED
    BY <1>2, <2>1
<1>4. PICK u : u = SubSeq(s, m, n)
  OBVIOUS
<1>5. /\ u \in Seq(Int) /\ Len(u) = IF m <= n THEN n - m + 1 ELSE 0
      /\ \A i \in 1..(n - m + 1) : u[i] = s[m + i - 1]
  BY <1>3, <1>4, SubSeqProperties
<1>6. Len(u) = l
  BY <1>1, <1>5
<1>7. \A i \in 1..l : u[i] = t[i]
  <2>1. n - m + 1 = l
    BY <1>1
  <2>2. QED
    BY <1>2, <1>5, <2>1
<1>8. u = t
  BY <1>1, <1>5, <1>6, <1>7, SeqEqual
<1>9. QED
  BY <1>4, <1>8

LEMMA ReadFieldLemma ==
    ASSUME NEW j, Rowed(j), NEW r \in Nat, NEW row, Laid(row, j, r), NEW c \in 1..Len(j.types)
    PROVE  /\ SentColumns(j.types)[c].type = j.types[c]
           /\ NullFlag(row, SentColumns(j.types)[c]) = Flag(j, r, c)
           /\ ValueBytes(row, SentColumns(j.types)[c]) = Tail(Field(j, r, c))
           /\ <<r, c>> \notin j.nulls => ValueBytes(row, SentColumns(j.types)[c]) = FieldBytes(j, r, c)
<1>0. PICK col : col = SentColumns(j.types)[c]
  OBVIOUS
<1>1. PICK types \in Seq(DOMAIN SubCodes) : types = j.types
  BY JobsAssumption DEF Rowed
<1>2. j \in Jobs /\ c \in DOMAIN types
  BY <1>1 DEF Rowed
<1>3. PICK w \in Nat : w = Width[types[c]]
  BY <1>1, TypesLemma
<1>4. PICK pos \in [0..Len(types) -> Nat] : \A k \in 1..Len(types) : Offset(types, k) = pos[k - 1]
  BY OffsetLemma
<1>5. PICK off \in Nat : off = Offset(types, c)
  <2>1. c - 1 \in 0..Len(types) /\ c \in 1..Len(types)
    BY <1>1
  <2>2. QED
    BY <1>4, <2>1
<1>6. col.type = types[c] /\ col.off = off /\ col.max = w
  BY <1>1, <1>2, <1>3, <1>5, <1>0 DEF SentColumns
<1>7. PICK f \in Seq(Int) : /\ f = Field(j, r, c) /\ Len(f) = 1 + w /\ f[1] = Flag(j, r, c)
                            /\ <<r, c>> \notin j.nulls => \A x \in 1..w : f[1 + x] = FieldBytes(j, r, c)[x]
  <2>1. PICK f : f = Field(j, r, c)
    OBVIOUS
  <2>2. Width[j.types[c]] = w
    BY <1>1, <1>3
  <2>3. /\ f \in Seq(Int) /\ Len(f) = 1 + w /\ f[1] = Flag(j, r, c)
        /\ <<r, c>> \notin j.nulls => \A x \in 1..w : f[1 + x] = FieldBytes(j, r, c)[x]
    <3>1. /\ Field(j, r, c) \in Seq(Int) /\ Len(Field(j, r, c)) = 1 + Width[j.types[c]]
          /\ Field(j, r, c)[1] = Flag(j, r, c)
          /\ <<r, c>> \notin j.nulls =>
                \A x \in 1..Width[j.types[c]] : Field(j, r, c)[1 + x] = FieldBytes(j, r, c)[x]
      BY <1>2, FieldLemma
    <3>2. QED
      BY <2>1, <2>2, <3>1
  <2>4. QED
    BY <2>1, <2>3
<1>8. \A x \in 1..(1 + w) : row[off + x] = f[x]
  BY <1>1, <1>3, <1>5, <1>7 DEF Laid
<1>9. NullFlag(row, col) = Flag(j, r, c)
  <2>1. 1 \in 1..(1 + w)
    OBVIOUS
  <2>2. QED
    BY <1>6, <1>7, <1>8, <2>1 DEF NullFlag
<1>10. ASSUME NEW t \in Seq(Int), Len(t) = w, \A x \in 1..w : f[1 + x] = t[x]
       PROVE  ValueBytes(row, col) = t
  <2>1. PICK m \in Int, n \in Int : m = off + 2 /\ n = off + 1 + w
    OBVIOUS
  <2>2. n - m + 1 = w
    BY <2>1
  <2>3. ASSUME NEW x \in 1..w PROVE row[m + x - 1] = t[x]
    <3>1. 1 + x \in 1..(1 + w) /\ m + x - 1 = off + (1 + x)
      BY <2>1
    <3>2. QED
      BY <1>8, <1>10, <3>1
  <2>4. SubSeq(row, m, n) = t
    BY <1>10, <2>2, <2>3, CutLemma
  <2>5. QED
    BY <1>6, <2>1, <2>4 DEF ValueBytes
<1>11. ValueBytes(row, col) = Tail(f)
  <2>1. f # <<>>
    BY <1>7
  <2>2. PICK t \in Seq(Int) : t = Tail(f) /\ Len(t) = Len(f) - 1 /\ \A i \in 1..Len(t) : t[i] = f[i + 1]
    BY <2>1, HeadTailProperties
  <2>3. Len(t) = w
    BY <1>7, <2>2
  <2>4. \A x \in 1..w : f[1 + x] = t[x]
    <3>1. \A x \in 1..w : x + 1 = 1 + x
      OBVIOUS
    <3>2. QED
      BY <2>2, <2>3, <3>1
  <2>5. QED
    BY <1>10, <2>2, <2>3, <2>4
<1>12. ASSUME <<r, c>> \notin j.nulls PROVE ValueBytes(row, col) = FieldBytes(j, r, c)
  <2>1. FieldBytes(j, r, c) \in Seq(Int) /\ Len(FieldBytes(j, r, c)) = w
    BY <1>1, <1>2, <1>3, FieldLemma
  <2>2. QED
    BY <1>7, <1>10, <1>12, <2>1
<1>13. QED
  BY <1>1, <1>6, <1>7, <1>9, <1>11, <1>12, <1>0

\* The key by which the blobs of a row are asked for.
LEMMA KeyLemma ==
    ASSUME NEW j, Rowed(j), NEW r \in Nat, NEW row, Laid(row, j, r), NEW mark
    PROVE  BlobKey(row, SentColumns(j.types), mark) =
               [md5 |-> Md5(r), pk |-> PrimaryKey(j, r), phys |-> Physical(mark)]
<1>1. SubSeq(row, 10, 25) = Md5(r)
  <2>1. PICK t \in Seq(Int) : t = Md5(r) /\ Len(t) = 16 /\ \A x \in 1..16 : t[x] = 16 * r + x - 1
    BY Md5Lemma
  <2>2. ASSUME NEW x \in 1..16 PROVE row[10 + x - 1] = t[x]
    <3>1. 10 + x - 1 = 9 + x
      OBVIOUS
    <3>2. QED
      BY <2>1, <3>1 DEF Laid
  <2>3. 25 - 10 + 1 = Len(t) /\ 10 \in Int /\ 25 \in Int
    BY <2>1
  <2>4. \A x \in 1..Len(t) : row[10 + x - 1] = t[x]
    BY <2>1, <2>2
  <2>5. QED
    BY <2>1, <2>3, <2>4, CutLemma, Zenon
<1>2. 1 \in 1..Len(j.types)
  <2>1. j.types \in Seq(DOMAIN SubCodes) /\ j.types # <<>>
    BY JobsAssumption DEF Rowed
  <2>2. QED
    BY <2>1, EmptySeq
<1>3. ValueBytes(row, SentColumns(j.types)[1]) = PrimaryKey(j, r)
  <2>1. \A c \in 1..Len(j.types) : ValueBytes(row, SentColumns(j.types)[c]) = Tail(Field(j, r, c))
    BY ReadFieldLemma
  <2>2. QED
    BY <1>2, <2>1 DEF PrimaryKey
<1>4. QED
  BY <1>1, <1>3 DEF BlobKey

\* The rows that cannot be decoded.
Spoilt(j, r) ==
    \/ j.tail < 0
    \/ \E c \in DOMAIN j.types :
          <<r, c>> \notin j.nulls /\ (r \in j.bad \/ j.types[c] = "Unknown")

LEMMA SpoiltLemma ==
    ASSUME NEW j, Rowed(j), NEW r \in Nat
    PROVE  Undecodable(RowBytes(j, r), SentColumns(j.types)) <=> Spoilt(j, r)
<1>1. PICK row \in Seq(Int) : /\ row = RowBytes(j, r) /\ Len(row) = SizeOf(j) + j.tail
                              /\ j.tail >= 0 => Laid(row, j, r)
  BY RowLemma
<1>2. PICK size \in Nat : size = SizeOf(j)
  <2>1. Len(j.types) \in Nat
    BY JobsAssumption DEF Rowed
  <2>2. PICK pos \in [0..Len(j.types) -> Nat] : SizeOf(j) = pos[Len(j.types)]
    BY SizeLemma
  <2>3. Len(j.types) \in 0..Len(j.types)
    BY <2>1
  <2>4. QED
    BY <2>2, <2>3
<1>3. PICK tail \in Int : tail = j.tail
  BY JobsAssumption DEF Rowed
<1>4. PICK cols : cols = SentColumns(j.types) /\ DOMAIN cols = DOMAIN j.types
  <2>1. DOMAIN SentColumns(j.types) = DOMAIN j.types
    BY DEF SentColumns
  <2>2. QED
    BY <2>1
<1>5. Undecodable(row, cols) <=>
          \/ Len(row) < size
          \/ \E c \in DOMAIN j.types : \/ NullFlag(row, cols[c]) \notin {0, 1}
                                       \/ NullFlag(row, cols[c]) = 1 /\ cols[c].type = "Unknown"
  BY <1>2, <1>4, Zenon DEF Undecodable, SizeOf
<1>6. Len(row) < size <=> tail < 0
  <2>1. Len(row) = size + tail
    BY <1>1, <1>2, <1>3
  <2>2. QED
    BY <2>1
<1>7. CASE tail < 0
  BY <1>1, <1>3, <1>4, <1>5, <1>6, <1>7 DEF Spoilt
<1>8. CASE tail >= 0
  <2>1. Laid(row, j, r)
    BY <1>1, <1>3, <1>8
  <2>2. ASSUME NEW c \in DOMAIN j.types
        PROVE  (\/ NullFlag(row, cols[c]) \notin {0, 1}
                \/ NullFlag(row, cols[c]) = 1 /\ cols[c].type = "Unknown")
                 <=> (<<r, c>> \notin j.nulls /\ (r \in j.bad \/ j.types[c] = "Unknown"))
    <3>1. c \in 1..Len(j.types)
      BY JobsAssumption, LenProperties DEF Rowed
    <3>2. NullFlag(row, cols[c]) = Flag(j, r, c) /\ cols[c].type = j.types[c]
      BY <1>4, <2>1, <3>1, ReadFieldLemma
    <3>3. CASE <<r, c>> \in j.nulls
      BY <3>2, <3>3 DEF Flag
    <3>4. CASE <<r, c>> \notin j.nulls /\ r \in j.bad
      BY <3>2, <3>4 DEF Flag
    <3>5. CASE <<r, c>> \notin j.nulls /\ r \notin j.bad
      BY <3>2, <3>5 DEF Flag
    <3>6. QED
      BY <3>3, <3>4, <3>5
  <2>3. ~(Len(row) < size) /\ ~(j.tail < 0)
    BY <1>3, <1>6, <1>8
  <2>4. QED
    BY <1>1, <1>4, <1>5, <2>2, <2>3 DEF Spoilt
<1>9. QED
  BY <1>7, <1>8

-----------------------------------------------------------------------------
(***************************************************************************)
(* Parts of equal length, one behind the other.                            *)
(***************************************************************************)

LEMMA TimesLemma ==
    ASSUME NEW n \in Nat \ {0}, NEW s \in Nat
    PROVE  n * s \in Nat /\ (n * s) % n = 0 /\ (n * s) \div n = s
OBVIOUS

LEMMA NextTimesLemma ==
    ASSUME NEW k \in Nat, NEW s \in Nat
    PROVE  k * s \in Nat /\ (k + 1) * s = k * s + s
OBVIOUS

Even(parts, n, s) == \A i \in 1..n : parts[i] \in Seq(Int) /\ Len(parts[i]) = s
Tiled(whole, parts, n, s) ==
    /\ Len(whole) = n * s
    /\ \A i \in 1..n : SubSeq(whole, (i - 1) * s + 1, i * s) = parts[i]

LEMMA SlicesLemma ==
    ASSUME NEW n \in Nat, NEW s \in Nat, NEW parts, Even(parts, n, s)
    PROVE  Tiled(Joined(<<>>, n, parts), parts, n, s)
<1>0. \A i \in 1..n : parts[i] \in Seq(Int) /\ Len(parts[i]) = s
  BY DEF Even
<1>1. <<>> \in Seq(Int) /\ Len(<<>>) = 0
  OBVIOUS
<1>2. PICK whole \in Seq(Int) : whole = Joined(<<>>, n, parts)
  BY <1>0, <1>1, JoinedLemma
<1>3. PICK pos : Lies(whole, pos, n, <<>>, parts)
  BY <1>0, <1>1, <1>2, JoinedLemma
<1>4. /\ pos \in [0..n -> Nat] /\ pos[0] = 0 /\ Len(whole) = pos[n]
      /\ \A k \in 1..n : /\ pos[k] = pos[k - 1] + s
                         /\ \A x \in 1..s : whole[pos[k - 1] + x] = parts[k][x]
  BY <1>0, <1>1, <1>3 DEF Lies
<1>5. \A k \in 0..n : pos[k] = k * s
  <2> DEFINE T == {k \in 0..n : pos[k] = k * s}
  <2>1. 0 \in T
    BY <1>4
  <2>2. ASSUME NEW k \in 0..n, k < n, k \in T
        PROVE  k + 1 \in T
    <3>1. k + 1 \in 1..n /\ (k + 1) - 1 = k /\ k + 1 \in 0..n /\ k \in Nat
      BY <2>2
    <3>2. pos[k + 1] = pos[k] + s /\ pos[k] = k * s
      BY <1>4, <2>2, <3>1
    <3>3. (k + 1) * s = k * s + s
      BY <3>1, NextTimesLemma
    <3>4. QED
      BY <3>1, <3>2, <3>3
  <2> HIDE DEF T
  <2>3. \A k \in 0..n : k \in T
    BY <2>1, <2>2, UpInduction
  <2>4. QED
    BY <2>3 DEF T
<1>6. ASSUME NEW k \in 1..n
      PROVE  SubSeq(whole, (k - 1) * s + 1, k * s) = parts[k]
  <2>1. PICK a \in Nat : a = (k - 1) * s /\ k * s = a + s
    <3>1. k - 1 \in Nat /\ (k - 1) + 1 = k
      OBVIOUS
    <3>2. (k - 1) * s \in Nat /\ ((k - 1) + 1) * s = (k - 1) * s + s
      BY <3>1, NextTimesLemma
    <3>3. QED
      BY <3>1, <3>2
  <2>2. pos[k - 1] = a
    <3>1. k - 1 \in 0..n
      OBVIOUS
    <3>2. QED
      BY <1>5, <2>1, <3>1
  <2>3. ASSUME NEW x \in 1..s PROVE whole[(a + 1) + x - 1] = parts[k][x]
    <3>1. (a + 1) + x - 1 = a + x
      BY <2>1
    <3>2. QED
      BY <1>4, <2>2, <3>1
  <2>4. PICK t \in Seq(Int) : t = parts[k] /\ Len(t) = s
    BY <1>0
  <2>5. a + 1 \in Int /\ a + s \in Int /\ (a + s) - (a + 1) + 1 = s
    BY <2>1
  <2>6. SubSeq(whole, a + 1, a + s) = t
    BY <2>3, <2>4, <2>5, CutLemma
  <2>7. QED
    BY <2>1, <2>4, <2>6
<1>7. n \in 0..n
  OBVIOUS
<1>8. QED
  BY <1>2, <1>4, <1>5, <1>6, <1>7 DEF Tiled

-----------------------------------------------------------------------------
(***************************************************************************)
(* A block as the walker finds it.                                         *)
(***************************************************************************)

SentBy(j) == SentUnits[j.shape]

LEMMA ReadBodyLemma ==
    ASSUME NEW j \in Jobs, j.ask = "read", NEW b, b = Sent(j)
    PROVE  /\ b.pad \in 0..7 /\ b.units = Units(j) /\ Len(b.units) = SentBy(j) /\ SentBy(j) \in 0..14
           /\ b.pad = IF j.deflated THEN 0 ELSE Padding(BodyLen(Units(j)))
           /\ \A k \in 1..14 : k <= SentBy(j) => HasUnit(b, k) /\ ~Overruns(b, k) /\ UnitAt(b, k) = ReadUnit(j, k)
           /\ \A k \in 1..14 : k > SentBy(j) => UnitAt(b, k) = Unit(0, 0)
           /\ \A k \in 1..14 : k = SentBy(j) + 1 => /\ HasUnit(b, k) <=> b.pad >= 4
                                                    /\ Overruns(b, k) <=> b.pad \in 1..3
<1>1. j.shape \in Shapes
  BY JobsAssumption
<1>2. Units(j) = ReadUnits(j)
  BY DEF Units
<1>3. PICK n \in 0..14 : n = SentBy(j)
  BY <1>1 DEF SentBy, SentUnits, Shapes
<1>4. PICK us : us = Units(j)
  OBVIOUS
<1>5. Len(us) = n /\ \A k \in 1..n : us[k] = ReadUnit(j, k)
  BY <1>1, <1>2, <1>3, <1>4, ReadUnitsLemma DEF SentBy
<1>6. PICK pad \in 0..7 : pad = b.pad
  BY SentLemma
<1>7. b.units = us /\ pad = IF j.deflated THEN 0 ELSE Padding(BodyLen(Units(j)))
  BY <1>4, <1>6 DEF Sent
<1>8. ASSUME NEW k \in 1..14
      PROVE  /\ k <= n => HasUnit(b, k) /\ ~Overruns(b, k) /\ UnitAt(b, k) = ReadUnit(j, k)
             /\ k > n => UnitAt(b, k) = Unit(0, 0)
             /\ k = n + 1 => /\ HasUnit(b, k) <=> pad >= 4
                             /\ Overruns(b, k) <=> pad \in 1..3
  <2>1. Left(b, k) = pad - 4 * (k - n - 1)
    BY <1>5, <1>6, <1>7 DEF Left
  <2>2. CASE k <= n
    <3>1. ~(k > n) /\ k # n + 1 /\ k \in 1..n
      BY <2>2
    <3>2. QED
      BY <1>5, <1>7, <2>2, <3>1 DEF HasUnit, Overruns, UnitAt
  <2>3. CASE k > n
    <3>1. ~(k <= n)
      BY <2>3
    <3>2. k = n + 1 => Left(b, k) = pad
      BY <2>1
    <3>3. QED
      BY <1>5, <1>7, <2>3, <3>1, <3>2 DEF HasUnit, Overruns, UnitAt
  <2>4. QED
    BY <2>2, <2>3
<1>9. QED
  BY <1>3, <1>4, <1>5, <1>6, <1>7, <1>8

LEMMA SentByLemma ==
    ASSUME NEW j \in Jobs
    PROVE  /\ j.shape \in {"whole", "unmarked", "uncounted", "cut", "blank", "sentinel"}
           /\ j.shape = "whole" => SentBy(j) = 14
           /\ j.shape = "unmarked" => SentBy(j) = 13
           /\ j.shape = "uncounted" => SentBy(j) = 11
           /\ j.shape = "cut" => SentBy(j) = 5
           /\ j.shape = "blank" => SentBy(j) = 0
           /\ j.shape = "sentinel" => SentBy(j) = 1
BY JobsAssumption DEF SentBy, SentUnits, Shapes

\* The lengths of the first units of a block.
LEMMA ReadUnitLens ==
    ASSUME NEW j
    PROVE  /\ ReadUnit(j, 1).n = 2 /\ ReadUnit(j, 1).is = j.code
           /\ ReadUnit(j, 12).n = 4 /\ ReadUnit(j, 12).is = j.rows
           /\ \A i \in 1..10 : CursorInfoSizes[i] \in {-1, ReadUnit(j, i + 1).n}
           /\ CursorInfoSizes[5] = 4
<1>1. ReadUnit(j, 1) = Unit(2, j.code) /\ ReadUnit(j, 12) = Unit(4, j.rows)
  BY DEF ReadUnit
<1>2. ASSUME NEW i \in 1..10 PROVE CursorInfoSizes[i] \in {-1, ReadUnit(j, i + 1).n}
  <2>1. i + 1 # 1 /\ i + 1 <= 11 /\ (i + 1) - 1 = i
    OBVIOUS
  <2>2. ReadUnit(j, i + 1) = InfoUnit(j, i)
    BY <2>1 DEF ReadUnit
  <2>3. PICK z : z = CursorInfoSizes[i]
    OBVIOUS
  <2>4. InfoUnit(j, i).n = IF z = -1 THEN j.mark ELSE z
    BY <2>3 DEF InfoUnit, Unit
  <2>5. QED
    BY <2>2, <2>3, <2>4
<1>3. CursorInfoSizes[5] = 4
  BY DEF CursorInfoSizes
<1>4. QED
  BY <1>1, <1>2, <1>3 DEF Unit

\* The blocks that fail for their padding.
PadCut(j) == j.shape \in {"unmarked", "uncounted"} /\ ~j.deflated /\ Padding(BodyLen(Units(j))) \in 1..3

Empty == {"blank", "sentinel"}

LEMMA NothingLemma ==
    ASSUME NEW j \in Jobs, j.ask = "read", NEW b, b = Sent(j)
    PROVE  NothingToRead(b) <=> j.shape \in Empty
<1>1. b.units = Units(j) /\ b.pad \in 0..7 /\ Len(Units(j)) = SentBy(j) /\ SentBy(j) \in 0..14
  BY ReadBodyLemma
<1>2. b.reqcode = IF j.shape = "sentinel" THEN 11284 ELSE 0
  BY DEF Sent, REQCODE_POLLING_SENTINEL
<1>3. PICK len \in Nat : len = BodyLen(Units(j)) /\ Size(b) = len + b.pad
  BY <1>1, UnitsLemma, BodyLenBounds DEF Size
<1>4. CASE j.shape = "sentinel"
  BY <1>2, <1>4 DEF NothingToRead, REQCODE_POLLING_SENTINEL, Empty
<1>5. CASE j.shape = "blank"
  <2>1. len = 7
    BY <1>1, <1>3, <1>5, SentByLemma, UnitsLemma, BodyLenBounds
  <2>2. b.pad \in 0..5
    <3>1. b.pad = IF j.deflated THEN 0 ELSE Padding(len)
      BY <1>3, ReadBodyLemma
    <3>2. Padding(7) = 5
      BY DEF Padding
    <3>3. QED
      BY <2>1, <3>1, <3>2
  <2>3. Size(b) < 13
    BY <1>3, <2>1, <2>2
  <2>4. QED
    BY <1>5, <2>3 DEF NothingToRead, Empty
<1>6. CASE j.shape \notin Empty
  <2>1. SentBy(j) >= 1
    BY <1>6, SentByLemma DEF Empty
  <2>2. Units(j)[1].n = 2
    <3>1. 1 \in 1..14 /\ 1 <= SentBy(j)
      BY <2>1
    <3>2. UnitAt(b, 1) = ReadUnit(j, 1)
      BY <3>1, ReadBodyLemma
    <3>3. UnitAt(b, 1) = Units(j)[1]
      BY <1>1, <2>1 DEF UnitAt
    <3>4. QED
      BY <3>2, <3>3, ReadUnitLens
  <2>3. len >= 13
    <3>1. BodyLen(Units(j)) >= 11 + Units(j)[1].n
      BY <1>1, <2>1, UnitsLemma, BodyLenBounds
    <3>2. QED
      BY <1>3, <2>2, <3>1
  <2>4. ~(Size(b) < 13)
    BY <1>1, <1>3, <2>3
  <2>5. b.reqcode # REQCODE_POLLING_SENTINEL
    BY <1>2, <1>6 DEF Empty, REQCODE_POLLING_SENTINEL
  <2>6. QED
    BY <1>6, <2>4, <2>5 DEF NothingToRead
<1>7. QED
  BY <1>4, <1>5, <1>6 DEF Empty

LEMMA JudgeLemma ==
    ASSUME NEW j \in Jobs, j.ask = "read", j.shape \notin Empty, NEW b, b = Sent(j)
    PROVE  /\ WireFails(b) <=> (j.shape = "cut" \/ PadCut(j))
           /\ EndsBlock(b) <=> j.code # RESULT_OK
           /\ EndsBlock(b) \in BOOLEAN
<1>1. PICK n \in 1..14 : n = SentBy(j)
  BY SentByLemma DEF Empty
<1>16. PICK shape : /\ shape = j.shape
                    /\ \/ shape = "whole" /\ n = 14
                       \/ shape = "unmarked" /\ n = 13
                       \/ shape = "uncounted" /\ n = 11
                       \/ shape = "cut" /\ n = 5
  <2>1. \/ j.shape = "whole" /\ SentBy(j) = 14
        \/ j.shape = "unmarked" /\ SentBy(j) = 13
        \/ j.shape = "uncounted" /\ SentBy(j) = 11
        \/ j.shape = "cut" /\ SentBy(j) = 5
    BY SentByLemma DEF Empty
  <2>2. QED
    BY <1>1, <2>1
<1>2. \A k \in 1..14 : k <= n => HasUnit(b, k) /\ ~Overruns(b, k) /\ UnitAt(b, k) = ReadUnit(j, k)
  BY <1>1, ReadBodyLemma
<1>3. \A k \in 1..14 : k > n => UnitAt(b, k) = Unit(0, 0)
  BY <1>1, ReadBodyLemma
<1>4. \A k \in 1..14 : k = n + 1 => /\ HasUnit(b, k) <=> b.pad >= 4
                                    /\ Overruns(b, k) <=> b.pad \in 1..3
  BY <1>1, ReadBodyLemma
<1>5. PICK pad \in 0..7 : pad = b.pad /\ pad = IF j.deflated THEN 0 ELSE Padding(BodyLen(Units(j)))
  BY ReadBodyLemma
<1>6. 1 \in 1..14 /\ 1 <= n
  BY <1>1
<1>7. HasUnit(b, 1) /\ ~Overruns(b, 1) /\ UnitAt(b, 1).n = 2 /\ UnitAt(b, 1).is = j.code
  BY <1>2, <1>6, ReadUnitLens
<1>8. EndsBlock(b) <=> j.code # RESULT_OK
  BY <1>7 DEF EndsBlock
<1>9. WireFails(b) <=>
          \/ ~CursorInfoReads(b) \/ Overruns(b, 12)
          \/ HasUnit(b, 12) /\ UnitAt(b, 12).n = 4 /\ (Overruns(b, 13) \/ Overruns(b, 14))
  BY <1>7 DEF WireFails
<1>10. Unit(0, 0).n = 0
  BY DEF Unit
<1>11. PadCut(j) <=> j.shape \in {"unmarked", "uncounted"} /\ pad \in 1..3
  BY <1>5 DEF PadCut
<1>12. CASE n = 5
  <2>1. j.shape = "cut"
    BY <1>12, <1>16
  <2>2. UnitAt(b, 5 + 1).n = 0
    <3>1. UnitAt(b, 6) = Unit(0, 0)
      BY <1>3, <1>12
    <3>2. QED
      BY <1>10, <3>1
  <2>3. ~(CursorInfoSizes[5] \in {-1, UnitAt(b, 5 + 1).n})
    <3>1. CursorInfoSizes[5] = 4
      BY ReadUnitLens
    <3>2. QED
      BY <2>2, <3>1
  <2>4. ~CursorInfoReads(b)
    BY <2>3 DEF CursorInfoReads
  <2>5. QED
    BY <1>8, <1>9, <2>1, <2>4 DEF EndsBlock
<1>13. CASE n >= 11
  <2>1. ASSUME NEW i \in 1..10 PROVE HasUnit(b, i + 1) /\ CursorInfoSizes[i] \in {-1, UnitAt(b, i + 1).n}
    <3>1. i + 1 \in 1..14 /\ i + 1 <= n
      BY <1>13
    <3>2. HasUnit(b, i + 1) /\ UnitAt(b, i + 1) = ReadUnit(j, i + 1)
      BY <1>2, <3>1
    <3>3. QED
      BY <3>2, ReadUnitLens
  <2>2. CursorInfoReads(b)
    BY <2>1 DEF CursorInfoReads
  <2>3. CASE n = 14
    <3>1. j.shape = "whole"
      BY <2>3, <1>16
    <3>2. ~Overruns(b, 12) /\ ~Overruns(b, 13) /\ ~Overruns(b, 14)
      BY <1>2, <2>3
    <3>3. QED
      BY <1>8, <1>9, <2>2, <3>1, <3>2 DEF EndsBlock, PadCut
  <2>4. CASE n = 13
    <3>1. j.shape = "unmarked"
      BY <2>4, <1>16
    <3>2. ~Overruns(b, 12) /\ ~Overruns(b, 13) /\ HasUnit(b, 12) /\ UnitAt(b, 12).n = 4
      BY <1>2, <2>4, ReadUnitLens
    <3>3. Overruns(b, 14) <=> pad \in 1..3
      BY <1>4, <1>5, <2>4
    <3>4. QED
      BY <1>8, <1>9, <1>11, <2>2, <3>1, <3>2, <3>3 DEF EndsBlock
  <2>5. CASE n = 11
    <3>1. j.shape = "uncounted"
      BY <2>5, <1>16
    <3>2. UnitAt(b, 12).n # 4
      <4>1. UnitAt(b, 12) = Unit(0, 0)
        BY <1>3, <2>5
      <4>2. QED
        BY <1>10, <4>1
    <3>3. Overruns(b, 12) <=> pad \in 1..3
      BY <1>4, <1>5, <2>5
    <3>4. QED
      BY <1>8, <1>9, <1>11, <2>2, <3>1, <3>2, <3>3 DEF EndsBlock
  <2>6. QED
    BY <1>13, <1>16, <2>3, <2>4, <2>5
<1>14. n = 5 \/ n >= 11
  BY <1>16
<1>15. QED
  BY <1>12, <1>13, <1>14

\* The rows of a block that the client gets.
KeptRows(j) == IF j.shape \in {"whole", "unmarked"} /\ j.tail <= 32 THEN j.rows ELSE 0

LEMMA RowedLemma ==
    ASSUME NEW j \in Jobs, j.ask = "read"
    PROVE  Rowed(j) /\ j.rows \in Nat /\ KeptRows(j) \in Nat /\ KeptRows(j) <= j.rows
<1>1. PICK rows \in Nat : rows = j.rows
  BY JobsAssumption
<1>2. Rowed(j)
  BY JobsAssumption DEF Rowed
<1>3. QED
  BY <1>1, <1>2 DEF KeptRows

\* The unit k holds n parts of equal length, and is cut up into them again.
LEMMA PartsLemma ==
    ASSUME NEW b, NEW k, NEW n \in Nat \ {0}, NEW s \in Nat \ {0}, NEW parts,
           Even(parts, n, s),
           HasUnit(b, k), UnitAt(b, k) = Unit(Len(Joined(<<>>, n, parts)), Joined(<<>>, n, parts))
    PROVE  Slices(b, k, n) = [i \in 1..n |-> parts[i]]
<1>1. PICK all : all = Joined(<<>>, n, parts)
  OBVIOUS
<1>2. Len(all) = n * s /\ \A i \in 1..n : SubSeq(all, (i - 1) * s + 1, i * s) = parts[i]
  <2>1. n \in Nat /\ s \in Nat
    OBVIOUS
  <2>2. Tiled(Joined(<<>>, n, parts), parts, n, s)
    BY <2>1, SlicesLemma
  <2>3. QED
    BY <1>1, <2>2, Zenon DEF Tiled
<1>3. PICK len \in Nat : len = n * s /\ len % n = 0 /\ len \div n = s
  BY TimesLemma
<1>4. UnitAt(b, k).n = len /\ UnitAt(b, k).is = all
  BY <1>1, <1>2, <1>3 DEF Unit
<1>5. n > 0 /\ s # 0
  OBVIOUS
<1>6. Slices(b, k, n) = [i \in 1..n |-> SubSeq(all, (i - 1) * s + 1, i * s)]
  BY <1>3, <1>4, <1>5, Zenon DEF Slices
<1>7. QED
  BY <1>2, <1>6

LEMMA BlockRowsLemma ==
    ASSUME NEW j \in Jobs, j.ask = "read", j.shape \in {"whole", "unmarked", "uncounted"}, NEW b, b = Sent(j)
    PROVE  /\ BlockRows(b, SizeOf(j)) = [i \in 1..KeptRows(j) |-> RowBytes(j, i)]
           /\ j.shape # "uncounted" => RowCount(b) = j.rows
<1>1. Rowed(j)
  BY RowedLemma
<1>2. PICK n \in Nat : n = j.rows
  BY RowedLemma
<1>3. PICK tail \in Int : tail = j.tail /\ tail >= -25
  BY <1>1, JobsAssumption DEF Rowed
<1>4. PICK rows : rows = Slices(b, 13, RowCount(b))
  OBVIOUS
<1>5. BlockRows(b, SizeOf(j)) = IF rows # <<>> /\ SizeFits(Len(rows[1]), SizeOf(j)) THEN rows ELSE <<>>
  BY <1>4, Zenon DEF BlockRows
<1>7. <<>> = [i \in 1..0 |-> RowBytes(j, i)]
  OBVIOUS
<1>8. CASE j.shape = "uncounted"
  <2>1. SentBy(j) = 11
    BY <1>8, SentByLemma
  <2>2. UnitAt(b, 12).n # 4
    <3>1. 12 \in 1..14 /\ 12 > SentBy(j)
      BY <2>1
    <3>2. UnitAt(b, 12) = Unit(0, 0)
      BY <3>1, ReadBodyLemma
    <3>3. QED
      BY <3>2 DEF Unit
  <2>3. RowCount(b) = 0
    BY <2>2 DEF RowCount
  <2>4. rows = <<>>
    BY <1>4, <2>3 DEF Slices
  <2>5. KeptRows(j) = 0
    BY <1>8 DEF KeptRows
  <2>6. QED
    BY <1>5, <1>7, <1>8, <2>4, <2>5
<1>9. CASE j.shape \in {"whole", "unmarked"}
  <2>1. \A k \in {12, 13} : HasUnit(b, k) /\ UnitAt(b, k) = ReadUnit(j, k)
    <3>1. \A k \in {12, 13} : k \in 1..14 /\ k <= SentBy(j)
      BY <1>9, SentByLemma
    <3>2. QED
      BY <3>1, ReadBodyLemma
  <2>2. RowCount(b) = n
    BY <1>2, <2>1, ReadUnitLens DEF RowCount
  <2>3. UnitAt(b, 13) = Unit(Len(Rows(j)), Rows(j))
    <3>1. ReadUnit(j, 13) = RowsUnit(j)
      BY DEF ReadUnit
    <3>2. QED
      BY <2>1, <3>1 DEF RowsUnit
  <2>4. KeptRows(j) = IF tail <= 32 THEN n ELSE 0
    BY <1>2, <1>3, <1>9 DEF KeptRows
  <2>5. CASE n = 0
    <3>1. rows = <<>>
      BY <1>4, <2>2, <2>5 DEF Slices
    <3>2. KeptRows(j) = 0
      BY <2>4, <2>5
    <3>3. QED
      BY <1>2, <1>5, <1>7, <2>2, <3>1, <3>2
  <2>6. CASE n # 0
    <3>1. PICK size \in Nat : size = SizeOf(j) /\ size >= 26
      <4>1. Len(j.types) \in Nat
        BY <1>1, JobsAssumption DEF Rowed
      <4>2. PICK pos \in [0..Len(j.types) -> Nat] : SizeOf(j) = pos[Len(j.types)] /\ SizeOf(j) >= 26
        BY <1>1, SizeLemma
      <4>3. Len(j.types) \in 0..Len(j.types)
        BY <4>1
      <4>4. QED
        BY <4>2, <4>3
    <3>2. PICK s \in Nat \ {0} : s = size + tail
      BY <1>3, <3>1
    <3>3. PICK parts : parts = [r \in 1..n |-> RowBytes(j, r)]
      OBVIOUS
    <3>4. Even(parts, n, s)
      <4> SUFFICES ASSUME NEW r \in 1..n PROVE parts[r] \in Seq(Int) /\ Len(parts[r]) = s
        BY DEF Even
      <4>1. r \in Nat
        OBVIOUS
      <4>2. RowBytes(j, r) \in Seq(Int) /\ Len(RowBytes(j, r)) = SizeOf(j) + j.tail
        BY <1>1, <4>1, RowLemma
      <4>3. Len(RowBytes(j, r)) = s
        BY <1>3, <3>1, <3>2, <4>2
      <4>4. QED
        BY <3>3, <4>2, <4>3
    <3>5. Rows(j) = Joined(<<>>, n, parts)
      BY <1>2, <3>3, Zenon DEF Rows
    <3>6. Slices(b, 13, n) = [i \in 1..n |-> parts[i]]
      <4>1. n \in Nat \ {0}
        BY <2>6
      <4>2. HasUnit(b, 13) /\ UnitAt(b, 13) = Unit(Len(Joined(<<>>, n, parts)), Joined(<<>>, n, parts))
        BY <2>1, <2>3, <3>5
      <4>3. QED
        BY <3>4, <4>1, <4>2, PartsLemma
    <3>7. rows = [i \in 1..n |-> RowBytes(j, i)]
      BY <1>4, <2>2, <3>3, <3>6
    <3>8. 1 \in 1..n
      BY <2>6
    <3>9. rows # <<>> /\ Len(rows[1]) = s
      <4>1. rows[1] = parts[1]
        BY <3>3, <3>7, <3>8
      <4>2. Len(rows[1]) = s
        BY <3>4, <3>8, <4>1 DEF Even
      <4>3. 1 \in DOMAIN rows
        BY <3>7, <3>8
      <4>4. QED
        BY <4>2, <4>3
    <3>10. SizeFits(s, size) <=> tail <= 32
      BY <1>3, <3>1, <3>2 DEF SizeFits
    <3>11. CASE tail <= 32
      <4>1. BlockRows(b, SizeOf(j)) = rows /\ KeptRows(j) = n
        BY <1>5, <2>4, <3>1, <3>9, <3>10, <3>11
      <4>2. QED
        BY <1>2, <2>2, <3>7, <4>1
    <3>12. CASE ~(tail <= 32)
      <4>1. BlockRows(b, SizeOf(j)) = <<>> /\ KeptRows(j) = 0
        BY <1>5, <2>4, <3>1, <3>9, <3>10, <3>12
      <4>2. QED
        BY <1>2, <1>7, <2>2, <4>1
    <3>13. QED
      BY <3>11, <3>12
  <2>7. QED
    BY <2>5, <2>6
<1>10. QED
  BY <1>8, <1>9

-----------------------------------------------------------------------------
(***************************************************************************)
(* The bookmarks, and the blobs that the client asks for by them.          *)
(***************************************************************************)

\* How long the bookmarks of a block are.
MarkLen(j) == 6 + Width[j.types[1]]

LEMMA BookmarkLemma ==
    ASSUME NEW j, Rowed(j), NEW r \in Nat
    PROVE  /\ MarkLen(j) \in Nat \ {0}
           /\ Bookmark(j, r) \in Seq(Int) /\ Len(Bookmark(j, r)) = MarkLen(j)
           /\ Physical(Bookmark(j, r)) = r
<1>1. PICK types \in Seq(DOMAIN SubCodes) : types = j.types /\ types # <<>>
  BY JobsAssumption DEF Rowed
<1>2. 1 \in 1..Len(types)
  BY <1>1, EmptySeq
<1>3. PICK w \in Nat : w = Width[j.types[1]]
  BY <1>1, <1>2, TypesLemma
<1>4. PICK f \in Seq(Int) : f = Field(j, r, 1) /\ Len(f) = 1 + w
  <2>1. j \in Jobs /\ 1 \in 1..Len(j.types)
    BY <1>1, <1>2 DEF Rowed
  <2>2. Field(j, r, 1) \in Seq(Int) /\ Len(Field(j, r, 1)) = 1 + Width[j.types[1]]
    BY <2>1, FieldLemma
  <2>3. QED
    BY <1>3, <2>2
<1>5. PICK pk \in Seq(Int) : pk = PrimaryKey(j, r) /\ Len(pk) = w
  <2>1. f # <<>>
    BY <1>4
  <2>2. Tail(f) \in Seq(Int) /\ Len(Tail(f)) = Len(f) - 1
    BY <2>1, HeadTailProperties
  <2>3. Tail(f) = PrimaryKey(j, r)
    BY <1>4 DEF PrimaryKey
  <2>4. Len(Tail(f)) = w
    BY <1>4, <2>2
  <2>5. QED
    BY <2>2, <2>3, <2>4
<1>6. PICK one \in Seq(Int) : one = <<1>> /\ Len(one) = 1
  <2>1. <<1>> \in Seq(Int) /\ Len(<<1>>) = 1
    OBVIOUS
  <2>2. QED
    BY <2>1, Zenon
<1>7. PICK phys \in Seq(Int) : phys = <<128, 0, 0, r>> /\ Len(phys) = 4
  <2>1. <<128, 0, 0, r>> \in Seq(Int) /\ Len(<<128, 0, 0, r>>) = 4
    OBVIOUS
  <2>2. QED
    BY <2>1, Zenon
<1>8. PICK a : a = one \o pk
  OBVIOUS
<1>9. a \in Seq(Int) /\ Len(a) = 1 + w
  BY <1>5, <1>6, <1>8, ConcatProperties
<1>10. PICK c : c = a \o one
  OBVIOUS
<1>11. c \in Seq(Int) /\ Len(c) = 2 + w
  BY <1>6, <1>9, <1>10, ConcatProperties
<1>12. PICK m : m = c \o phys
  OBVIOUS
<1>13. /\ m \in Seq(Int) /\ Len(m) = Len(c) + Len(phys)
       /\ \A i \in 1..(Len(c) + Len(phys)) : m[i] = IF i <= Len(c) THEN c[i] ELSE phys[i - Len(c)]
  BY <1>11, <1>12, ConcatProperties
<1>14. Bookmark(j, r) = m
  BY <1>5, <1>6, <1>7, <1>8, <1>10, <1>12, Zenon DEF Bookmark
<1>15. Len(m) = 6 + w
  BY <1>7, <1>11, <1>13
<1>16. PICK l \in Nat : l = 6 + w
  OBVIOUS
<1>17. SubSeq(m, l - 3, l) = phys
  <2>1. l - (l - 3) + 1 = Len(phys) /\ l - 3 \in Int /\ l \in Int
    BY <1>7
  <2>2. ASSUME NEW i \in 1..4 PROVE m[(l - 3) + i - 1] = phys[i]
    <3>1. Len(c) + Len(phys) = l /\ Len(c) = l - 4
      BY <1>7, <1>11, <1>16
    <3>2. PICK x \in 1..l : x = (l - 3) + i - 1 /\ ~(x <= l - 4) /\ x - (l - 4) = i
      BY <1>16
    <3>3. m[x] = phys[x - (l - 4)]
      BY <1>13, <3>1, <3>2, Zenon
    <3>4. QED
      BY <3>2, <3>3
  <2>3. \A i \in 1..Len(phys) : m[(l - 3) + i - 1] = phys[i]
    BY <1>7, <2>2
  <2>4. QED
    BY <2>1, <2>3, CutLemma
<1>18. Physical(m) = r
  <2>1. PICK b : b = Reverse(phys)
    OBVIOUS
  <2>2. b = <<r, 0, 0, 128>>
    BY <1>7, <2>1 DEF Reverse
  <2>3. ~(Len(m) < 4) /\ Len(m) = l
    BY <1>15, <1>16
  <2>4. Physical(m) = I32([b EXCEPT ![4] = @ % 128])
    BY <1>17, <2>1, <2>3, Zenon DEF Physical
  <2>5. [b EXCEPT ![4] = @ % 128] = <<r, 0, 0, 0>>
    BY <2>2
  <2>6. I32(<<r, 0, 0, 0>>) = r
    BY DEF I32, U16
  <2>7. QED
    BY <2>4, <2>5, <2>6
<1>19. MarkLen(j) = 6 + w
  BY <1>3 DEF MarkLen
<1>20. QED
  BY <1>13, <1>14, <1>15, <1>18, <1>19

MarkAt(marks, i) == IF i <= Len(marks) THEN marks[i] ELSE <<>>

LEMMA MarksLemma ==
    ASSUME NEW j \in Jobs, j.ask = "read", j.shape \in {"whole", "unmarked"}, NEW b, b = Sent(j),
           NEW rows, rows = [i \in 1..KeptRows(j) |-> RowBytes(j, i)], NEW i \in 1..KeptRows(j)
    PROVE  MarkAt(BlockBookmarks(b, rows), i) = IF j.shape = "whole" THEN Bookmark(j, i) ELSE <<>>
<1>1. Rowed(j)
  BY RowedLemma
<1>2. PICK n \in Nat : n = j.rows /\ n # 0 /\ i \in 1..n
  BY RowedLemma
<1>3. rows # <<>>
  <2>1. i \in DOMAIN rows
    OBVIOUS
  <2>2. QED
    BY <2>1
<1>4. PICK marks : marks = Slices(b, 14, n)
  OBVIOUS
<1>5. BlockBookmarks(b, rows) = marks
  <2>1. RowCount(b) = n
    BY <1>2, BlockRowsLemma
  <2>2. QED
    BY <1>3, <1>4, <2>1 DEF BlockBookmarks
<1>6. CASE j.shape = "whole"
  <2>1. HasUnit(b, 14) /\ UnitAt(b, 14) = ReadUnit(j, 14)
    <3>1. 14 \in 1..14 /\ 14 <= SentBy(j)
      BY <1>6, SentByLemma
    <3>2. QED
      BY <3>1, ReadBodyLemma
  <2>2. PICK parts : parts = [r \in 1..n |-> Bookmark(j, r)]
    OBVIOUS
  <2>3. Even(parts, n, MarkLen(j)) /\ MarkLen(j) \in Nat \ {0}
    <3>1. ASSUME NEW r \in 1..n PROVE parts[r] \in Seq(Int) /\ Len(parts[r]) = MarkLen(j)
      <4>1. r \in Nat
        OBVIOUS
      <4>2. Bookmark(j, r) \in Seq(Int) /\ Len(Bookmark(j, r)) = MarkLen(j)
        BY <1>1, <4>1, BookmarkLemma
      <4>3. QED
        BY <2>2, <4>2
    <3>2. MarkLen(j) \in Nat \ {0}
      BY <1>1, <1>2, BookmarkLemma
    <3>3. QED
      BY <3>1, <3>2 DEF Even
  <2>4. UnitAt(b, 14) = Unit(Len(Joined(<<>>, n, parts)), Joined(<<>>, n, parts))
    <3>1. Marks(j) = Joined(<<>>, n, parts)
      BY <1>2, <2>2, Zenon DEF Marks
    <3>2. ReadUnit(j, 14) = MarksUnit(j)
      BY DEF ReadUnit
    <3>3. QED
      BY <2>1, <3>1, <3>2 DEF MarksUnit
  <2>5. n \in Nat \ {0}
    BY <1>2
  <2>6. Slices(b, 14, n) = [k \in 1..n |-> parts[k]]
    BY <2>1, <2>3, <2>4, <2>5, PartsLemma
  <2>7. marks = [k \in 1..n |-> Bookmark(j, k)]
    BY <1>4, <2>2, <2>6
  <2>8. i <= Len(marks) /\ marks[i] = Bookmark(j, i)
    BY <1>2, <2>7
  <2>9. QED
    BY <1>5, <1>6, <2>8 DEF MarkAt
<1>7. CASE j.shape = "unmarked"
  <2>1. UnitAt(b, 14) = Unit(0, 0)
    <3>1. 14 \in 1..14 /\ 14 > SentBy(j)
      BY <1>7, SentByLemma
    <3>2. QED
      BY <3>1, ReadBodyLemma
  <2>2. UnitAt(b, 14).n = 0
    BY <2>1 DEF Unit
  <2>3. 0 % n = 0 /\ 0 \div n = 0
    BY <1>2
  <2>4. marks = <<>> \/ marks = [k \in 1..n |-> SubSeq(<<>>, (k - 1) * 0 + 1, k * 0)]
    BY <1>4, <2>2, <2>3, Zenon DEF Slices
  <2>5. \A k \in 1..n : SubSeq(<<>>, (k - 1) * 0 + 1, k * 0) = <<>>
    <3> SUFFICES ASSUME NEW k \in 1..n PROVE SubSeq(<<>>, (k - 1) * 0 + 1, k * 0) = <<>>
      OBVIOUS
    <3>1. (k - 1) * 0 + 1 = 1 /\ k * 0 = 0
      OBVIOUS
    <3>2. SubSeq(<<>>, 1, 0) = <<>>
      BY SubSeqEmpty
    <3>3. QED
      BY <3>1, <3>2
  <2>6. MarkAt(marks, i) = <<>>
    <3>1. CASE marks = <<>>
      BY <3>1 DEF MarkAt
    <3>2. CASE marks = [k \in 1..n |-> SubSeq(<<>>, (k - 1) * 0 + 1, k * 0)]
      <4>1. marks = [k \in 1..n |-> <<>>]
        BY <2>5, <3>2
      <4>2. marks[i] = <<>>
        BY <1>2, <4>1
      <4>3. QED
        BY <4>2 DEF MarkAt
    <3>3. QED
      BY <2>4, <3>1, <3>2
  <2>7. QED
    BY <1>5, <1>7, <2>6
<1>8. QED
  BY <1>6, <1>7

-----------------------------------------------------------------------------
(***************************************************************************)
(* A field as the client decodes it.                                       *)
(***************************************************************************)

\* The types of the values decode_field makes.
LEMMA AlternativeLemma ==
    ASSUME NEW type \in DOMAIN SubCodes, NEW b, Len(b) = Width[type]
    PROVE  /\ type = "Calculated" => DecodeField(type, b) = Null
           /\ type = "String" => DecodeField(type, b) = [t |-> "string", v |-> UpToZero(b)]
           /\ type \in {"Bytes", "VarBytes"} => DecodeField(type, b) = [t |-> "bytes", v |-> b]
           /\ type = "Date" => DecodeField(type, b) = [t |-> "i32", v |-> <<I32(b) - 719162>>]
           /\ type = "DateTime" => DecodeField(type, b) = [t |-> "i64", v |-> <<UnixQuarters(I32(b))>>]
           /\ type = "Time" => DecodeField(type, b) = [t |-> "i64", v |-> <<1000 * I32(b)>>]
           /\ type \in {"Integer", "AutoInc"} => DecodeField(type, b) = [t |-> "i32", v |-> <<I32(b)>>]
           /\ type = "Smallint" => DecodeField(type, b) = [t |-> "i32", v |-> <<I16(b)>>]
           /\ type = "Largeint" => DecodeField(type, b) = [t |-> "i64", v |-> <<I32(b)>>]
           /\ type = "Boolean" => DecodeField(type, b) = [t |-> "bool", v |-> <<IF U16(b) # 0 THEN 1 ELSE 0>>]
           /\ type = "Float" => DecodeField(type, b) = [t |-> "double", v |-> <<2500 * I32(b)>>]
           /\ type = "Currency" => DecodeField(type, b) = [t |-> "double", v |-> <<I32(b)>>]
           /\ type \in HandleTypes => DecodeField(type, b) = [t |-> "handle", v |-> SubSeq(b, 1, 8)]
<1>1. ~(type \in DOMAIN Needs /\ Len(b) < Needs[type])
  <2>1. \A t \in DOMAIN Needs : Width[t] = Needs[t] /\ ~(Needs[t] < Needs[t])
    BY WidthLemma DEF Needs
  <2>2. QED
    BY <2>1
<1>2. CASE type = "Calculated"
  BY <1>1, <1>2 DEF DecodeField, HandleTypes
<1>3. CASE type = "String"
  BY <1>1, <1>3 DEF DecodeField, HandleTypes
<1>4. CASE type = "Date"
  BY <1>1, <1>4 DEF DecodeField, HandleTypes
<1>5. CASE type = "DateTime"
  BY <1>1, <1>5 DEF DecodeField, HandleTypes
<1>6. CASE type = "Time"
  BY <1>1, <1>6 DEF DecodeField, HandleTypes
<1>7. CASE type = "Integer"
  BY <1>1, <1>7 DEF DecodeField, HandleTypes
<1>8. CASE type = "AutoInc"
  BY <1>1, <1>8 DEF DecodeField, HandleTypes
<1>9. CASE type = "Smallint"
  BY <1>1, <1>9 DEF DecodeField, HandleTypes
<1>10. CASE type = "Largeint"
  BY <1>1, <1>10 DEF DecodeField, HandleTypes
<1>11. CASE type = "Boolean"
  BY <1>1, <1>11 DEF DecodeField, HandleTypes
<1>12. CASE type = "Float"
  BY <1>1, <1>12 DEF DecodeField, HandleTypes
<1>13. CASE type = "Currency"
  BY <1>1, <1>13 DEF DecodeField, HandleTypes
<1>14. CASE type = "Bytes"
  BY <1>1, <1>14 DEF DecodeField, HandleTypes
<1>15. CASE type = "VarBytes"
  BY <1>1, <1>15 DEF DecodeField, HandleTypes
<1>16. CASE type \in HandleTypes
  BY <1>1, <1>16 DEF DecodeField, HandleTypes
<1>17. QED
  BY <1>2, <1>3, <1>4, <1>5, <1>6, <1>7, <1>8, <1>9, <1>10, <1>11, <1>12, <1>13, <1>14, <1>15, <1>16 DEF HandleTypes

\* What a row that can be decoded holds.
CellAt(j, r, c) ==
    IF <<r, c>> \in j.nulls THEN Null ELSE DecodeField(j.types[c], FieldBytes(j, r, c))

LEMMA CellLemma ==
    ASSUME NEW j, Rowed(j), NEW r \in Nat, ~Spoilt(j, r)
    PROVE  /\ j.tail >= 0 /\ Laid(RowBytes(j, r), j, r)
           /\ DecodeRecord(RowBytes(j, r), SentColumns(j.types)) = [c \in DOMAIN j.types |-> CellAt(j, r, c)]
           /\ DOMAIN SentColumns(j.types) = DOMAIN j.types /\ DOMAIN j.types = 1..Len(j.types)
<1>1. PICK row : row = RowBytes(j, r)
  OBVIOUS
<1>2. PICK tail \in Int : tail = j.tail
  BY JobsAssumption DEF Rowed
<1>3. tail >= 0
  BY <1>2 DEF Spoilt
<1>4. Laid(row, j, r)
  <2>1. j.tail >= 0 => Laid(RowBytes(j, r), j, r)
    BY RowLemma
  <2>2. QED
    BY <1>1, <1>2, <1>3, <2>1
<1>5. DOMAIN j.types = 1..Len(j.types)
  BY JobsAssumption, LenProperties DEF Rowed
<1>6. PICK cols : cols = SentColumns(j.types)
  OBVIOUS
<1>7. DOMAIN cols = DOMAIN j.types
  BY <1>6 DEF SentColumns
<1>8. ASSUME NEW c \in DOMAIN j.types
      PROVE  (IF NullFlag(row, cols[c]) = 0 THEN Null ELSE DecodeField(cols[c].type, ValueBytes(row, cols[c])))
                = CellAt(j, r, c)
  <2>1. c \in 1..Len(j.types)
    BY <1>5
  <2>2. /\ cols[c].type = j.types[c] /\ NullFlag(row, cols[c]) = Flag(j, r, c)
        /\ <<r, c>> \notin j.nulls => ValueBytes(row, cols[c]) = FieldBytes(j, r, c)
    BY <1>4, <1>6, <2>1, ReadFieldLemma
  <2>3. CASE <<r, c>> \in j.nulls
    BY <2>2, <2>3 DEF Flag, CellAt
  <2>4. CASE <<r, c>> \notin j.nulls
    <3>1. Flag(j, r, c) # 0
      BY <2>4 DEF Flag
    <3>2. QED
      BY <2>2, <2>4, <3>1 DEF CellAt
  <2>5. QED
    BY <2>3, <2>4
<1>9. DecodeRecord(row, cols) =
         [c \in DOMAIN j.types |->
             IF NullFlag(row, cols[c]) = 0 THEN Null ELSE DecodeField(cols[c].type, ValueBytes(row, cols[c]))]
  BY <1>7, Zenon DEF DecodeRecord
<1>10. DecodeRecord(row, cols) = [c \in DOMAIN j.types |-> CellAt(j, r, c)]
  BY <1>8, <1>9, Zenon
<1>11. QED
  BY <1>1, <1>2, <1>3, <1>4, <1>5, <1>6, <1>7, <1>10

\* A cell is a handle where its row has a blob, and else where it has none.
LEMMA HandleLemma ==
    ASSUME NEW j, Rowed(j), NEW r \in Nat, ~Spoilt(j, r), NEW c \in DOMAIN j.types
    PROVE  /\ CellAt(j, r, c).t = "handle" <=> j.types[c] \in HandleTypes /\ <<r, c>> \notin j.nulls
           /\ CellAt(j, r, c).t = "handle" => (AllZero(CellAt(j, r, c).v) <=> ~HasBlob(j, r, c))
<1>1. PICK type \in DOMAIN SubCodes : type = j.types[c]
  BY JobsAssumption DEF Rowed
<1>2. j \in Jobs /\ c \in 1..Len(j.types)
  BY CellLemma DEF Rowed
<1>3. PICK f : f = FieldBytes(j, r, c)
  OBVIOUS
<1>4. Len(f) = Width[type]
  BY <1>1, <1>2, <1>3, FieldLemma
<1>5. CASE <<r, c>> \in j.nulls
  BY <1>5 DEF CellAt, Null
<1>6. CASE <<r, c>> \notin j.nulls
  <2>1. CellAt(j, r, c) = DecodeField(type, f)
    BY <1>1, <1>3, <1>6 DEF CellAt
  <2>2. CASE type \in HandleTypes
    <3>1. PICK cell : cell = CellAt(j, r, c)
      OBVIOUS
    <3>2. cell.t = "handle" /\ cell.v = SubSeq(f, 1, 8)
      <4>1. DecodeField(type, f) = [t |-> "handle", v |-> SubSeq(f, 1, 8)]
        BY <1>4, <2>2, AlternativeLemma
      <4>2. QED
        BY <2>1, <3>1, <4>1
    <3>3. AllZero(cell.v) <=> ~HasBlob(j, r, c)
      <4>1. CASE HasBlob(j, r, c)
        <5>1. f = Handle(r, c)
          BY <1>1, <1>3, <2>2, <4>1 DEF FieldBytes
        <5>2. f = <<1, r, c, 0, 0, 0, 0, 0>>
          BY <5>1 DEF Handle
        <5>3. 1 \in DOMAIN SubSeq(f, 1, 8) /\ SubSeq(f, 1, 8)[1] = 1
          BY <5>2
        <5>4. QED
          BY <3>2, <4>1, <5>3 DEF AllZero
      <4>2. CASE ~HasBlob(j, r, c)
        <5>1. f = Zeros(8)
          BY <1>1, <1>3, <2>2, <4>2 DEF FieldBytes
        <5>2. PICK z \in Seq(Int) : z = f /\ Len(z) = 8 /\ \A i \in 1..8 : z[i] = 0
          BY <5>1, ZerosLemma
        <5>3. SubSeq(z, 1, 8) = z
          BY <5>2, SubSeqFull
        <5>4. DOMAIN z = 1..8
          BY <5>2, LenProperties
        <5>5. QED
          BY <3>2, <4>2, <5>2, <5>3, <5>4 DEF AllZero
      <4>3. QED
        BY <4>1, <4>2
    <3>4. QED
      BY <1>1, <1>6, <2>2, <3>1, <3>2, <3>3
  <2>3. CASE type \notin HandleTypes
    <3>1. type # "Unknown"
      BY <1>1, <1>6 DEF Spoilt
    <3>2. type \in {"Calculated", "String", "Date", "Boolean", "Smallint", "Integer", "AutoInc", "Currency",
                    "Float", "Bytes", "Time", "DateTime", "VarBytes", "Largeint"}
      BY <2>3, <3>1, WidthLemma DEF HandleTypes
    <3>3. DecodeField(type, f).t # "handle"
      BY <1>4, <3>2, AlternativeLemma DEF Null
    <3>4. QED
      BY <1>1, <2>1, <2>3, <3>3
  <2>4. QED
    BY <2>2, <2>3
<1>7. QED
  BY <1>5, <1>6

\* The blobs the server finds by a key.
KeyIn(j, r) == [md5 |-> Md5(r), pk |-> PrimaryKey(j, r), phys |-> r]
Found(j, key, c) == {Blob(r, c) : r \in {r \in 1..j.rows : KeyIn(j, r) = key}}

LEMMA FoundLemma ==
    ASSUME NEW j, Rowed(j), NEW r \in 1..j.rows, j.rows \in Nat, NEW row, Laid(row, j, r), NEW c
    PROVE  /\ Found(j, BlobKey(row, SentColumns(j.types), Bookmark(j, r)), c) = {Blob(r, c)}
           /\ Found(j, BlobKey(row, SentColumns(j.types), <<>>), c) = {}
<1>1. r \in Nat
  OBVIOUS
<1>2. PICK key : key = BlobKey(row, SentColumns(j.types), Bookmark(j, r))
  OBVIOUS
<1>3. key = KeyIn(j, r)
  <2>1. key = [md5 |-> Md5(r), pk |-> PrimaryKey(j, r), phys |-> Physical(Bookmark(j, r))]
    BY <1>1, <1>2, KeyLemma
  <2>2. Physical(Bookmark(j, r)) = r
    BY <1>1, BookmarkLemma
  <2>3. QED
    BY <2>1, <2>2 DEF KeyIn
<1>4. \A q : KeyIn(j, q).phys = q
  BY DEF KeyIn
<1>5. {q \in 1..j.rows : KeyIn(j, q) = key} = {r}
  BY <1>3, <1>4
<1>6. Found(j, key, c) = {Blob(r, c)}
  BY <1>5 DEF Found
<1>7. PICK none : none = BlobKey(row, SentColumns(j.types), <<>>)
  OBVIOUS
<1>8. none.phys = 0
  <2>1. none = [md5 |-> Md5(r), pk |-> PrimaryKey(j, r), phys |-> Physical(<<>>)]
    BY <1>1, <1>7, KeyLemma
  <2>2. Physical(<<>>) = 0
    BY DEF Physical
  <2>3. QED
    BY <2>1, <2>2
<1>9. {q \in 1..j.rows : KeyIn(j, q) = none} = {}
  BY <1>4, <1>8
<1>10. Found(j, none, c) = {}
  BY <1>9 DEF Found
<1>11. QED
  BY <1>2, <1>6, <1>7, <1>10

-----------------------------------------------------------------------------
(***************************************************************************)
(* What becomes of a block.                                                *)
(***************************************************************************)

\* Where a row without its bookmark has a blob.
NeedsAt(j, r) ==
    \E c \in DOMAIN j.types :
        j.types[c] \in HandleTypes /\ <<r, c>> \notin j.nulls /\ HasBlob(j, r, c)

Denied(j) ==
    \/ j.shape = "cut" \/ PadCut(j)
    \/ /\ ~j.lenient
       /\ \E r \in 1..KeptRows(j) : Spoilt(j, r) \/ (j.shape = "unmarked" /\ NeedsAt(j, r))

\* A cell once its blob has been fetched.
ResolvedAt(j, r, c) ==
    LET cell == CellAt(j, r, c)
    IN IF cell.t # "handle" THEN cell
       ELSE IF ~HasBlob(j, r, c) \/ j.shape = "unmarked" THEN Null
       ELSE [t |-> "bytes", v |-> Blob(r, c)]

Arrived(j) == j.shape \in {"whole", "unmarked", "uncounted"} /\ ~PadCut(j)

\* The rows of a block that has been read, and those of one that has been decoded.
Received(j, res) ==
    /\ Arrived(j)
    /\ res.rows = [r \in 1..KeptRows(j) |-> RowBytes(j, r)]
    /\ \A r \in 1..KeptRows(j) : MarkAt(res.marks, r) = IF j.shape = "whole" THEN Bookmark(j, r) ELSE <<>>
    /\ res.eoc = (j.code # RESULT_OK)
Decoded(j, res) ==
    /\ Arrived(j) /\ ~Denied(j)
    /\ res.rows = [r \in 1..KeptRows(j) |->
                      IF Spoilt(j, r) THEN <<>> ELSE [c \in DOMAIN j.types |-> ResolvedAt(j, r, c)]]
    /\ res.eoc = (j.code # RESULT_OK)

BlockInv ==
    job.ask = "read" => /\ phase = "decode" => Received(job, result)
                        /\ phase = "write" => Decoded(job, result)

\* The columns of a statement, to the reader of its blocks.
LEMMA ReadColumnsLemma ==
    ASSUME job \in Jobs, job.ask = "read"
    PROVE  columns = SentColumns(job.types)
<1>1. job.types # <<>>
  BY JobsAssumption
<1>2. FirstBlock(Payload(job)) = Len(job.before) + 1
  BY <1>1, FirstBlockLemma
<1>3. QED
  BY <1>1, <1>2, ColumnsLemma DEF columns

\* What a block reply is parsed into.
LEMMA ParseBlockLemma ==
    ASSUME job \in Jobs, job.ask = "read", body = Sent(job), ParseBlock
    PROVE  \/ /\ phase' = "done" /\ job.shape \in Empty /\ ~Denied(job)
              /\ result'.eoc = TRUE /\ result'.rows = <<>> /\ KeptRows(job) = 0
           \/ phase' = "failed" /\ Denied(job)
           \/ phase' = "decode" /\ Received(job, result')
<1>1. PICK cols : cols = SentColumns(job.types) /\ columns = cols
  BY ReadColumnsLemma
<1>2. RecordSize(columns) = SizeOf(job)
  BY <1>1 DEF SizeOf
<1>3. CASE job.shape \in Empty
  <2>1. NothingToRead(body)
    BY <1>3, NothingLemma
  <2>2. phase' = "done" /\ result' = [NoResult EXCEPT !.eoc = TRUE]
    BY <2>1 DEF ParseBlock, Return
  <2>3. ~Denied(job) /\ KeptRows(job) = 0
    BY <1>3 DEF Denied, PadCut, KeptRows, Empty
  <2>4. QED
    BY <1>3, <2>2, <2>3 DEF NoResult
<1>4. CASE job.shape \notin Empty
  <2>1. ~NothingToRead(body)
    BY <1>4, NothingLemma
  <2>2. /\ WireFails(body) <=> (job.shape = "cut" \/ PadCut(job))
        /\ EndsBlock(body) = (job.code # RESULT_OK)
    <3>1. /\ WireFails(body) <=> (job.shape = "cut" \/ PadCut(job))
          /\ EndsBlock(body) <=> job.code # RESULT_OK
          /\ EndsBlock(body) \in BOOLEAN
      BY <1>4, JudgeLemma
    <3>2. QED
      BY <3>1
  <2>3. CASE WireFails(body)
    <3>1. phase' = "failed"
      BY <2>1, <2>3 DEF ParseBlock, Throw, Malformed
    <3>2. QED
      BY <2>2, <2>3, <3>1 DEF Denied
  <2>4. CASE ~WireFails(body)
    <3>1. Arrived(job)
      BY <1>4, <2>2, <2>4, SentByLemma DEF Arrived, Empty
    <3>2. PICK rows : rows = BlockRows(body, SizeOf(job))
      OBVIOUS
    <3>3. /\ phase' = "decode"
          /\ result' = [NoResult EXCEPT !.rows = rows, !.marks = BlockBookmarks(body, rows),
                                        !.eoc = EndsBlock(body)]
      BY <1>2, <2>1, <2>4, <3>2 DEF ParseBlock, Return, Malformed
    <3>4. /\ result'.rows = rows /\ result'.marks = BlockBookmarks(body, rows)
          /\ result'.eoc = EndsBlock(body)
      BY <3>3 DEF NoResult
    <3>5. rows = [r \in 1..KeptRows(job) |-> RowBytes(job, r)]
      BY <3>1, <3>2, BlockRowsLemma DEF Arrived
    <3>6. ASSUME NEW r \in 1..KeptRows(job)
          PROVE  MarkAt(result'.marks, r) = IF job.shape = "whole" THEN Bookmark(job, r) ELSE <<>>
      <4>1. job.shape \in {"whole", "unmarked"}
        BY <3>6 DEF KeptRows
      <4>2. QED
        BY <3>4, <3>5, <4>1, MarksLemma
    <3>7. Received(job, result')
      BY <2>2, <3>1, <3>4, <3>5, <3>6 DEF Received
    <3>8. QED
      BY <3>3, <3>7
  <2>5. QED
    BY <2>3, <2>4
<1>5. QED
  BY <1>3, <1>4

\* What the client makes of a row it has received.
LEMMA RowDecodeLemma ==
    ASSUME job \in Jobs, job.ask = "read", Received(job, result), NEW r \in 1..KeptRows(job)
    PROVE  /\ Undecodable(result.rows[r], columns) <=> Spoilt(job, r)
           /\ ~Spoilt(job, r) =>
                /\ FetchFails(result.rows[r], r) <=> (job.shape = "unmarked" /\ NeedsAt(job, r))
                /\ DOMAIN DecodeRecord(result.rows[r], columns) = DOMAIN job.types
                /\ \A c \in DOMAIN job.types :
                      Resolved(result.rows[r], r, c, DecodeRecord(result.rows[r], columns)[c]) = ResolvedAt(job, r, c)
<1>1. PICK cols : cols = SentColumns(job.types) /\ columns = cols
  BY ReadColumnsLemma
<1>2. Rowed(job) /\ r \in Nat /\ r \in 1..job.rows /\ job.rows \in Nat
  BY RowedLemma
<1>3. PICK row : row = result.rows[r] /\ row = RowBytes(job, r)
  BY DEF Received
<1>4. Undecodable(row, cols) <=> Spoilt(job, r)
  BY <1>1, <1>2, <1>3, SpoiltLemma
<1>5. job.shape \in {"whole", "unmarked"}
  BY DEF KeptRows
<1>6. PICK mark : mark = Mark(r)
  OBVIOUS
<1>7. mark = IF job.shape = "whole" THEN Bookmark(job, r) ELSE <<>>
  BY <1>6 DEF Mark, Received, MarkAt
<1>8. ASSUME ~Spoilt(job, r)
      PROVE  /\ FetchFails(row, r) <=> (job.shape = "unmarked" /\ NeedsAt(job, r))
             /\ DOMAIN DecodeRecord(row, cols) = DOMAIN job.types
             /\ \A c \in DOMAIN job.types : Resolved(row, r, c, DecodeRecord(row, cols)[c]) = ResolvedAt(job, r, c)
  <2>1. /\ Laid(row, job, r) /\ DOMAIN cols = DOMAIN job.types
        /\ DecodeRecord(row, cols) = [c \in DOMAIN job.types |-> CellAt(job, r, c)]
    BY <1>1, <1>2, <1>3, <1>8, CellLemma
  <2>2. PICK key : key = BlobKey(row, cols, mark)
    OBVIOUS
  <2>3. \A c : Fetch(key, c) = Found(job, key, c)
    BY DEF Fetch, Found, KeyOf, KeyIn
  <2>4. \A c : Fetch(key, c) = IF job.shape = "whole" THEN {Blob(r, c)} ELSE {}
    <3> SUFFICES ASSUME NEW c PROVE Fetch(key, c) = IF job.shape = "whole" THEN {Blob(r, c)} ELSE {}
      OBVIOUS
    <3>1. /\ Found(job, BlobKey(row, cols, Bookmark(job, r)), c) = {Blob(r, c)}
          /\ Found(job, BlobKey(row, cols, <<>>), c) = {}
      <4>1. /\ Found(job, BlobKey(row, SentColumns(job.types), Bookmark(job, r)), c) = {Blob(r, c)}
            /\ Found(job, BlobKey(row, SentColumns(job.types), <<>>), c) = {}
        BY <1>2, <2>1, FoundLemma
      <4>2. QED
        BY <1>1, <4>1, Zenon
    <3>2. QED
      BY <1>7, <2>2, <2>3, <3>1
  <2>5. \A c \in DOMAIN job.types :
            /\ CellAt(job, r, c).t = "handle" <=> job.types[c] \in HandleTypes /\ <<r, c>> \notin job.nulls
            /\ CellAt(job, r, c).t = "handle" => (AllZero(CellAt(job, r, c).v) <=> ~HasBlob(job, r, c))
    BY <1>2, <1>8, HandleLemma
  <2>6. FetchFails(row, r) <=>
            \E c \in DOMAIN job.types : /\ CellAt(job, r, c).t = "handle" /\ ~AllZero(CellAt(job, r, c).v)
                                        /\ Fetch(key, c) = {}
    BY <1>1, <1>6, <2>1, <2>2 DEF FetchFails
  <2>7. FetchFails(row, r) <=> (job.shape = "unmarked" /\ NeedsAt(job, r))
    BY <1>5, <2>4, <2>5, <2>6 DEF NeedsAt
  <2>8. ASSUME NEW c \in DOMAIN job.types
        PROVE  Resolved(row, r, c, DecodeRecord(row, cols)[c]) = ResolvedAt(job, r, c)
    <3>1. PICK cell : cell = DecodeRecord(row, cols)[c] /\ cell = CellAt(job, r, c)
      BY <2>1
    <3>2. Resolved(row, r, c, cell) =
             IF cell.t # "handle" THEN cell
             ELSE IF AllZero(cell.v) \/ Fetch(key, c) = {} THEN Null
                  ELSE [t |-> "bytes", v |-> CHOOSE b \in Fetch(key, c) : TRUE]
      BY <1>1, <1>6, <2>2 DEF Resolved
    <3>3. Fetch(key, c) # {} => (CHOOSE b \in Fetch(key, c) : TRUE) = Blob(r, c)
      BY <2>4
    <3>4. Fetch(key, c) = {} <=> job.shape = "unmarked"
      BY <1>5, <2>4
    <3>5. cell.t = "handle" => (AllZero(cell.v) <=> ~HasBlob(job, r, c))
      BY <2>5, <3>1
    <3>6. QED
      BY <3>1, <3>2, <3>3, <3>4, <3>5 DEF ResolvedAt
  <2>9. QED
    BY <2>1, <2>7, <2>8
<1>9. QED
  BY <1>1, <1>3, <1>4, <1>8

\* What a block that has been read is decoded into.
LEMMA DecodeBlockLemma ==
    ASSUME job \in Jobs, job.ask = "read", TypeOK, Received(job, result), Decode
    PROVE  \/ phase' = "failed" /\ Denied(job)
           \/ phase' = "write" /\ Decoded(job, result')
<1>1. DOMAIN result.rows = 1..KeptRows(job)
  BY DEF Received
<1>2. PICK rows : rows = result.rows
  OBVIOUS
<1>3. \A r \in 1..KeptRows(job) :
        /\ Undecodable(rows[r], columns) <=> Spoilt(job, r)
        /\ ~Spoilt(job, r) =>
             /\ FetchFails(rows[r], r) <=> (job.shape = "unmarked" /\ NeedsAt(job, r))
             /\ DOMAIN DecodeRecord(rows[r], columns) = DOMAIN job.types
             /\ \A c \in DOMAIN job.types :
                   Resolved(rows[r], r, c, DecodeRecord(rows[r], columns)[c]) = ResolvedAt(job, r, c)
  BY <1>2, RowDecodeLemma
<1> DEFINE bad == \E i \in DOMAIN rows : Undecodable(rows[i], columns) \/ FetchFails(rows[i], i)
           made == [i \in DOMAIN rows |->
                       IF Undecodable(rows[i], columns) THEN <<>>
                       ELSE [c \in DOMAIN DecodeRecord(rows[i], columns) |->
                               Resolved(rows[i], i, c, DecodeRecord(rows[i], columns)[c])]]
<1>4. bad <=> \E r \in 1..KeptRows(job) : Spoilt(job, r) \/ (job.shape = "unmarked" /\ NeedsAt(job, r))
  BY <1>1, <1>2, <1>3
<1>5. made = [r \in 1..KeptRows(job) |->
                 IF Spoilt(job, r) THEN <<>> ELSE [c \in DOMAIN job.types |-> ResolvedAt(job, r, c)]]
  <2> DEFINE cells(i) == [c \in DOMAIN DecodeRecord(rows[i], columns) |->
                             Resolved(rows[i], i, c, DecodeRecord(rows[i], columns)[c])]
  <2>1. ASSUME NEW r \in 1..KeptRows(job), ~Spoilt(job, r)
        PROVE  cells(r) = [c \in DOMAIN job.types |-> ResolvedAt(job, r, c)]
    BY <1>3, <2>1, Zenon
  <2>2. made = [i \in 1..KeptRows(job) |-> IF Undecodable(rows[i], columns) THEN <<>> ELSE cells(i)]
    BY <1>1, <1>2
  <2> HIDE DEF cells, made
  <2>3. QED
    BY <1>3, <2>1, <2>2
<1>6. Arrived(job) /\ result.eoc = (job.code # RESULT_OK)
  BY DEF Received
<1>7. Denied(job) <=> ~job.lenient /\ bad
  BY <1>4, <1>6 DEF Denied, Arrived
<1>8. \/ ~job.lenient /\ bad /\ phase' = "failed"
      \/ /\ ~(~job.lenient /\ bad) /\ phase' = "write"
         /\ result' = [result EXCEPT !.rows = made]
  BY <1>2, Zenon DEF Decode, Throw
<1>9. DOMAIN result = {"rows", "marks", "eoc", "says"}
  BY DEF TypeOK
<1> HIDE DEF bad, made
<1>10. CASE ~job.lenient /\ bad /\ phase' = "failed"
  BY <1>7, <1>10
<1>11. CASE ~(~job.lenient /\ bad) /\ phase' = "write" /\ result' = [result EXCEPT !.rows = made]
  <2>1. result'.rows = made /\ result'.eoc = result.eoc
    BY <1>9, <1>11
  <2>2. QED
    BY <1>5, <1>6, <1>7, <1>11, <2>1 DEF Decoded
<1>12. QED
  BY <1>8, <1>10, <1>11

\* The verdict on a block, of what has become of it.
Verdict(j, ph, res) ==
    j.ask = "read" =>
        /\ ph = "done" =>
             /\ res.eoc = (j.code # RESULT_OK \/ j.shape \in Empty)
             /\ Len(res.rows) = KeptRows(j)
             /\ ~Denied(j)
        /\ ph = "failed" => Denied(j)

LEMMA VerdictLemma == Verdict(job, phase, result) => VerdictSound
<1>1. /\ Recognised => KeptRows(job) = RowsSent
      /\ KeptRows(job) = RowsSent \/ KeptRows(job) = 0
  BY DEF Recognised, WithRows, RowsSent, KeptRows
<1>2. \A r : BadRow(r) <=> Spoilt(job, r)
  BY DEF BadRow, Spoilt
<1>3. \A r : NeedsMark(r) <=> NeedsAt(job, r)
  BY DEF NeedsMark, NeedsAt
<1>4. CutByPadding <=> PadCut(job)
  BY DEF CutByPadding, PadCut
<1>5. Denied(job) => Refused
  <2>1. \A r \in 1..KeptRows(job) : r \in 1..RowsSent
    BY <1>1
  <2>2. QED
    BY <1>2, <1>3, <1>4, <2>1 DEF Refused, Denied
<1>6. Recognised => (Denied(job) <=> Refused)
  BY <1>1, <1>2, <1>3, <1>4 DEF Refused, Denied
<1>7. QED
  BY <1>1, <1>5, <1>6 DEF VerdictSound, Verdict, Empty

\* How a block comes to its end.
LEMMA BlockStep ==
    ASSUME ReplyInv, BlockInv, [Next]_vars, job.ask = "read"
    PROVE  /\ job' = job
           /\ \/ phase' = phase /\ result' = result
              \/ phase' \in {"body", "parse", "broken"}
              \/ phase = "parse" /\ body = Sent(job) /\ ParseBlock
              \/ Received(job, result) /\ Decode
              \/ Decoded(job, result) /\ Write
<1>1. phase = "parse" => body = Sent(job)
  BY DEF ReplyInv, MessageInv, Parsed
<1>2. CASE Recv \/ RecvThrows \/ HeadRead \/ Unpack
  BY <1>2 DEF Recv, RecvThrows, HeadRead, Unpack
<1>3. CASE Parse
  BY <1>1, <1>3 DEF Parse, ParsePrepare, ParseExecute, ParseTables, ParseBlob
<1>4. CASE Decode
  BY <1>4 DEF Decode, BlockInv
<1>5. CASE Write
  BY <1>5 DEF Write, BlockInv
<1>6. CASE UNCHANGED vars
  BY <1>6 DEF vars
<1>7. QED
  BY <1>2, <1>3, <1>4, <1>5, <1>6 DEF Next, Over

\* What is written of a block that has been decoded.
LEMMA WriteLemma ==
    ASSUME job \in Jobs, job.ask = "read", TypeOK, Decoded(job, result), Write
    PROVE  /\ phase' = "done" /\ result'.eoc = result.eoc
           /\ result'.rows = [r \in 1..KeptRows(job) |-> [c \in DOMAIN job.types |->
                IF c > Len(result.rows[r]) THEN Null ELSE Written(job.types[c], result.rows[r][c])]]
<1>1. PICK rows : rows = result.rows
  OBVIOUS
<1>2. DOMAIN rows = 1..KeptRows(job)
  BY <1>1 DEF Decoded
<1>3. PICK cols : cols = SentColumns(job.types) /\ columns = cols
  BY ReadColumnsLemma
<1>4. DOMAIN cols = DOMAIN job.types /\ \A c \in DOMAIN job.types : cols[c].type = job.types[c]
  BY <1>3 DEF SentColumns
<1> DEFINE made == [i \in DOMAIN rows |-> [c \in DOMAIN cols |->
                       IF c > Len(rows[i]) THEN Null ELSE Written(cols[c].type, rows[i][c])]]
<1>5. phase' = "done" /\ result' = [result EXCEPT !.rows = made]
  BY <1>1, <1>3, Zenon DEF Write, Return
<1>6. made = [r \in 1..KeptRows(job) |-> [c \in DOMAIN job.types |->
                 IF c > Len(rows[r]) THEN Null ELSE Written(job.types[c], rows[r][c])]]
  BY <1>2, <1>4
<1>7. DOMAIN result = {"rows", "marks", "eoc", "says"}
  BY DEF TypeOK
<1> HIDE DEF made
<1>8. result'.rows = made /\ result'.eoc = result.eoc
  BY <1>5, <1>7
<1>9. QED
  BY <1>1, <1>5, <1>6, <1>8

\* What a block is taken for at each stage.
THEOREM BlockInvariant == Spec => []BlockInv
<1>1. Init => BlockInv
  BY DEF Init, BlockInv
<1>2. ReplyInv /\ BlockInv /\ [Next]_vars => BlockInv'
  <2> SUFFICES ASSUME ReplyInv, BlockInv, [Next]_vars, job'.ask = "read", phase' \in {"decode", "write"}
               PROVE  /\ phase' = "decode" => Received(job', result')
                      /\ phase' = "write" => Decoded(job', result')
    BY DEF BlockInv
  <2>1. job' = job
    BY DEF Next, vars, Recv, RecvThrows, HeadRead, Unpack, Parse, Decode, Write, Over
  <2>2. job \in Jobs /\ TypeOK /\ job.ask = "read"
    BY <2>1 DEF ReplyInv, TypeOK
  <2>3. CASE phase' = phase /\ result' = result
    BY <2>1, <2>2, <2>3 DEF BlockInv
  <2>4. CASE body = Sent(job) /\ ParseBlock
    BY <2>1, <2>2, <2>4, ParseBlockLemma
  <2>5. CASE Received(job, result) /\ Decode
    BY <2>1, <2>2, <2>5, DecodeBlockLemma
  <2>6. CASE Write
    BY <2>6 DEF Write, Return
  <2>7. QED
    BY <2>2, <2>3, <2>4, <2>5, <2>6, BlockStep
<1>3. QED
  BY <1>1, <1>2, ReplyInvariant, PTL DEF Spec

\* The scan goes on, ends or fails on a block as the server meant it to, and
\* keeps all of its rows if their size is within 32 bytes of the expected one
\* (next_block, read_record_block_batch, decode_batch_with_blobs).
THEOREM VerdictCorrect == Spec => []VerdictSound
<1>1. Init => Verdict(job, phase, result)
  BY DEF Init, Verdict
<1>2. ReplyInv /\ BlockInv /\ Verdict(job, phase, result) /\ [Next]_vars => Verdict(job, phase, result)'
  <2> SUFFICES ASSUME ReplyInv, BlockInv, Verdict(job, phase, result), [Next]_vars,
                      job'.ask = "read", phase' \in {"done", "failed"}
               PROVE  Verdict(job', phase', result')
    BY DEF Verdict
  <2>1. job' = job
    BY DEF Next, vars, Recv, RecvThrows, HeadRead, Unpack, Parse, Decode, Write, Over
  <2>2. job \in Jobs /\ TypeOK /\ job.ask = "read"
    BY <2>1 DEF ReplyInv, TypeOK
  <2>3. CASE phase' = phase /\ result' = result
    BY <2>1, <2>3
  <2>4. CASE body = Sent(job) /\ ParseBlock
    <3>1. \/ /\ phase' = "done" /\ job.shape \in Empty /\ ~Denied(job)
             /\ result'.eoc = TRUE /\ result'.rows = <<>> /\ KeptRows(job) = 0
          \/ phase' = "failed" /\ Denied(job)
      BY <2>2, <2>4, ParseBlockLemma
    <3>2. Len(<<>>) = 0
      OBVIOUS
    <3>3. QED
      BY <2>1, <3>1, <3>2 DEF Verdict
  <2>5. CASE Received(job, result) /\ Decode
    <3>1. phase' = "failed" /\ Denied(job)
      BY <2>2, <2>5, DecodeBlockLemma
    <3>2. QED
      BY <2>1, <3>1 DEF Verdict
  <2>6. CASE Decoded(job, result) /\ Write
    <3>1. PICK n \in Nat : n = KeptRows(job)
      BY <2>2, RowedLemma
    <3>2. phase' = "done" /\ result'.eoc = result.eoc /\ Len(result'.rows) = n
      <4>1. /\ phase' = "done" /\ result'.eoc = result.eoc
            /\ result'.rows = [r \in 1..KeptRows(job) |-> [c \in DOMAIN job.types |->
                 IF c > Len(result.rows[r]) THEN Null ELSE Written(job.types[c], result.rows[r][c])]]
        BY <2>2, <2>6, WriteLemma
      <4>2. QED
        BY <3>1, <4>1
    <3>3. ~Denied(job) /\ result.eoc = (job.code # RESULT_OK) /\ job.shape \notin Empty
      BY <2>6 DEF Decoded, Arrived, Empty
    <3>4. QED
      BY <2>1, <3>1, <3>2, <3>3 DEF Verdict
  <2>7. QED
    BY <2>2, <2>3, <2>4, <2>5, <2>6, BlockStep
<1>3. QED
  BY <1>1, <1>2, VerdictLemma, ReplyInvariant, BlockInvariant, PTL DEF Spec

-----------------------------------------------------------------------------
(***************************************************************************)
(* Numbers come back as they were.                                         *)
(***************************************************************************)

\* The lower, and the upper two bytes of a number.
LowBytes(b, n)  == b[1] = n % 256 /\ b[2] = (n \div 256) % 256
HighBytes(b, n) == b[3] = (n \div 65536) % 256 /\ b[4] = (n \div 16777216) % 256

LEMMA LeBytesLemma ==
    ASSUME NEW n \in Int, NEW w \in Nat
    PROVE  (w >= 2 => LowBytes(Le(n, w), n)) /\ (w >= 4 => HighBytes(Le(n, w), n))
<1> DEFINE place == <<1, 256, 65536, 16777216>>
<1>1. place[1] = 1 /\ place[2] = 256 /\ place[3] = 65536 /\ place[4] = 16777216
  BY SMT
<1>2. Le(n, w) = [i \in 1..w |-> IF i <= 4 THEN (n \div place[i]) % 256 ELSE IF n < 0 THEN 255 ELSE 0]
  BY SMT DEF Le
<1> HIDE DEF place
<1>3. \A i \in 1..w : i <= 4 => Le(n, w)[i] = (n \div place[i]) % 256
  BY <1>2, SMT
<1>4. n \div 1 = n
  BY SMT
<1>5. w >= 2 => Le(n, w)[1] = (n \div 1) % 256 /\ Le(n, w)[2] = (n \div 256) % 256
  BY <1>1, <1>3, SMT
<1>6. w >= 4 => Le(n, w)[3] = (n \div 65536) % 256 /\ Le(n, w)[4] = (n \div 16777216) % 256
  BY <1>1, <1>3, SMT
<1>7. QED
  BY <1>4, <1>5, <1>6, SMT DEF LowBytes, HighBytes

LEMMA I32Lemma ==
    ASSUME NEW n \in Int, -2147483647 <= n, n <= 2147483647, NEW w \in Nat, w >= 4
    PROVE  I32(Le(n, w)) = n
<1>1. PICK b : b = Le(n, w)
  OBVIOUS
<1>2. LowBytes(b, n) /\ HighBytes(b, n)
  BY <1>1, LeBytesLemma
<1>3. I32(b) = n
  BY <1>2, SMT DEF I32, U16, LowBytes, HighBytes
<1>4. QED
  BY <1>1, <1>3, SMT

LEMMA I16Lemma ==
    ASSUME NEW n \in Int, -32767 <= n, n <= 32767
    PROVE  I16(Le(n, 2)) = n
<1>1. PICK b : b = Le(n, 2)
  OBVIOUS
<1>2. LowBytes(b, n)
  BY <1>1, LeBytesLemma
<1>3. I16(b) = n
  BY <1>2, SMT DEF I16, U16, LowBytes
<1>4. QED
  BY <1>1, <1>3, SMT

LEMMA MomentLemma ==
    ASSUME NEW m \in Int
    PROVE  UnixQuarters(TDateTime(m)) = m
BY SMT DEF UnixQuarters, TDateTime

-----------------------------------------------------------------------------
(***************************************************************************)
(* Text.                                                                   *)
(***************************************************************************)

Scans(due, b) == due[0] = 0 /\ \A k \in 1..Len(b) : due[k] = StillDue(due[k - 1], b[k])

LEMMA StillDueLemma ==
    ASSUME NEW d \in Int, NEW x
    PROVE  StillDue(d, x) \in Int
<1>1. Follow(x) \in Int
  BY DEF Follow
<1>2. QED
  BY <1>1 DEF StillDue

\* The scan for UTF-8, step by step.
LEMMA ScanLemma ==
    ASSUME NEW b \in Seq(Int)
    PROVE  \E due : Scans(due, b) /\ (IsValidUtf8(b) <=> due[Len(b)] = 0)
<1>1. PICK n \in Nat : n = Len(b)
  OBVIOUS
<1>2. PICK step : step = [k \in 1..n |-> [d \in Int |-> StillDue(d, b[k])]]
  OBVIOUS
<1>3. Steps(step, n, Int)
  <2>1. \A k \in 1..n : [d \in Int |-> StillDue(d, b[k])] \in [Int -> Int]
    BY StillDueLemma
  <2>2. QED
    BY <1>2, <2>1 DEF Steps
<1>4. PICK h : IsPath(h, n, Int, 0, step)
  <2>1. 0 \in Int
    OBVIOUS
  <2>2. QED
    BY <1>3, <2>1, SolutionLemma
<1>5. h \in [0..n -> Int] /\ h[0] = 0 /\ \A k \in 1..n : h[k] = StillDue(h[k - 1], b[k])
  <2>1. h \in [0..n -> Int] /\ h[0] = 0 /\ \A k \in 1..n : h[k] = step[k][h[k - 1]]
    BY <1>4 DEF IsPath
  <2>2. ASSUME NEW k \in 1..n PROVE h[k] = StillDue(h[k - 1], b[k])
    <3>1. k - 1 \in 0..n
      OBVIOUS
    <3>2. h[k - 1] \in Int
      BY <2>1, <3>1
    <3>3. QED
      BY <1>2, <2>1, <3>2
  <2>3. QED
    BY <2>1, <2>2
<1> DEFINE Solves(f) == f = [k \in 0..n |-> IF k = 0 THEN 0 ELSE StillDue(f[k - 1], b[k])]
<1>6. Solves(h)
  <2>1. \A k \in 0..n : k # 0 => k \in 1..n
    OBVIOUS
  <2>2. \A k \in 0..n : h[k] = IF k = 0 THEN 0 ELSE StillDue(h[k - 1], b[k])
    BY <1>5, <2>1
  <2>3. h = [k \in 0..n |-> h[k]]
    BY <1>5
  <2>4. QED
    BY <2>2, <2>3, Zenon
<1>7. PICK f : f = CHOOSE g : Solves(g)
  OBVIOUS
<1>8. Solves(f)
  BY <1>6, <1>7, Zenon
<1>9. IsValidUtf8(b) <=> f[n] = 0
  BY <1>1, <1>7, Zenon DEF IsValidUtf8
<1>10. f[0] = 0 /\ \A k \in 1..n : f[k] = StillDue(f[k - 1], b[k])
  <2>1. 0 \in 0..n /\ \A k \in 1..n : k \in 0..n /\ k # 0
    OBVIOUS
  <2>2. f = [k \in 0..n |-> IF k = 0 THEN 0 ELSE StillDue(f[k - 1], b[k])]
    BY <1>8
  <2> HIDE DEF Solves
  <2>3. QED
    BY <2>1, <2>2
<1>11. QED
  BY <1>1, <1>9, <1>10 DEF Scans

\* What is joined of two parts, and of three.
LEMMA JoinedBytes ==
    ASSUME NEW n \in Nat, NEW parts, \A k \in 1..n : parts[k] \in Seq(Int)
    PROVE  \E f : Joins(f, <<>>, n, parts) /\ Joined(<<>>, n, parts) = f[n]
<1>1. <<>> \in Seq(Int)
  OBVIOUS
<1>2. QED
  BY <1>1, JoinedSteps

LEMMA JoinTwo ==
    ASSUME NEW parts, parts[1] \in Seq(Int), parts[2] \in Seq(Int)
    PROVE  Joined(<<>>, 2, parts) = parts[1] \o parts[2]
<1>1. 2 \in Nat /\ <<>> \in Seq(Int) /\ \A k \in 1..2 : parts[k] \in Seq(Int)
  OBVIOUS
<1>2. PICK f : Joins(f, <<>>, 2, parts) /\ Joined(<<>>, 2, parts) = f[2]
  BY <1>1, JoinedBytes, Zenon
<1>3. f[0] = <<>> /\ f[1] = f[0] \o parts[1] /\ f[2] = f[1] \o parts[2]
  <2>1. 1 \in 1..2 /\ 2 \in 1..2 /\ 1 - 1 = 0 /\ 2 - 1 = 1
    OBVIOUS
  <2>2. QED
    BY <1>2, <2>1 DEF Joins
<1>4. <<>> \o parts[1] = parts[1]
  BY ConcatEmptySeq
<1>5. QED
  BY <1>2, <1>3, <1>4

LEMMA JoinThree ==
    ASSUME NEW parts, parts[1] \in Seq(Int), parts[2] \in Seq(Int), parts[3] \in Seq(Int)
    PROVE  Joined(<<>>, 3, parts) = (parts[1] \o parts[2]) \o parts[3]
<1>1. 3 \in Nat /\ <<>> \in Seq(Int) /\ \A k \in 1..3 : parts[k] \in Seq(Int)
  OBVIOUS
<1>2. PICK f : Joins(f, <<>>, 3, parts) /\ Joined(<<>>, 3, parts) = f[3]
  BY <1>1, JoinedBytes, Zenon
<1>3. f[0] = <<>> /\ f[1] = f[0] \o parts[1] /\ f[2] = f[1] \o parts[2] /\ f[3] = f[2] \o parts[3]
  <2>1. 1 \in 1..3 /\ 2 \in 1..3 /\ 3 \in 1..3 /\ 1 - 1 = 0 /\ 2 - 1 = 1 /\ 3 - 1 = 2
    OBVIOUS
  <2>2. QED
    BY <1>2, <2>1 DEF Joins
<1>4. <<>> \o parts[1] = parts[1]
  BY ConcatEmptySeq
<1>5. QED
  BY <1>2, <1>3, <1>4

\* t is u and, behind it, v.
Adjoins(t, u, v) ==
    /\ t \in Seq(Int) /\ Len(t) = Len(u) + Len(v)
    /\ \A i \in 1..Len(u) : t[i] = u[i]
    /\ \A i \in 1..Len(v) : t[Len(u) + i] = v[i]

LEMMA JoinAt ==
    ASSUME NEW u \in Seq(Int), NEW v \in Seq(Int)
    PROVE  Adjoins(u \o v, u, v)
<1>1. PICK m \in Nat : m = Len(u)
  OBVIOUS
<1>2. PICK n \in Nat : n = Len(v)
  OBVIOUS
<1>3. u \o v \in Seq(Int) /\ Len(u \o v) = m + n
  BY <1>1, <1>2, ConcatProperties
<1>4. \A i \in 1..(m + n) : (u \o v)[i] = IF i <= m THEN u[i] ELSE v[i - m]
  BY <1>1, <1>2, ConcatProperties
<1>5. \A i \in 1..n : m + i \in 1..(m + n) /\ ~(m + i <= m) /\ (m + i) - m = i
  OBVIOUS
<1>6. \A i \in 1..m : i \in 1..(m + n) /\ i <= m
  OBVIOUS
<1>7. QED
  BY <1>1, <1>2, <1>3, <1>4, <1>5, <1>6 DEF Adjoins

\* The elements of a short sequence.
One(s, a) == s \in Seq(Int) /\ Len(s) = 1 /\ s[1] = a
Two(s, a, b) == s \in Seq(Int) /\ Len(s) = 2 /\ s[1] = a /\ s[2] = b
Three(s, a, b, c) == s \in Seq(Int) /\ Len(s) = 3 /\ s[1] = a /\ s[2] = b /\ s[3] = c
Four(s, a, b, c, d) == s \in Seq(Int) /\ Len(s) = 4 /\ s[1] = a /\ s[2] = b /\ s[3] = c /\ s[4] = d
Six(s, a, b, c, d, e, f) == s \in Seq(Int) /\ Len(s) = 6 /\ s[1] = a /\ s[2] = b /\ s[3] = c /\ s[4] = d /\ s[5] = e /\ s[6] = f

LEMMA LiteralOne ==
    ASSUME NEW a \in Int
    PROVE  One(<<a>>, a)
BY DEF One

LEMMA LiteralTwo ==
    ASSUME NEW a \in Int, NEW b \in Int
    PROVE  Two(<<a, b>>, a, b)
BY DEF Two

LEMMA LiteralThree ==
    ASSUME NEW a \in Int, NEW b \in Int, NEW c \in Int
    PROVE  Three(<<a, b, c>>, a, b, c)
BY DEF Three

LEMMA SpellTwo ==
    ASSUME NEW t, NEW a, NEW b, Two(t, a, b)
    PROVE  t = <<a, b>>
<1>1. t \in Seq(Int) /\ Len(t) = 2 /\ t[1] = a /\ t[2] = b
  BY DEF Two
<1>2. QED
  BY <1>1

LEMMA SpellThree ==
    ASSUME NEW t, NEW a, NEW b, NEW c, Three(t, a, b, c)
    PROVE  t = <<a, b, c>>
<1>1. t \in Seq(Int) /\ Len(t) = 3 /\ t[1] = a /\ t[2] = b /\ t[3] = c
  BY DEF Three
<1>2. QED
  BY <1>1

LEMMA SpellFour ==
    ASSUME NEW t, NEW a, NEW b, NEW c, NEW d, Four(t, a, b, c, d)
    PROVE  t = <<a, b, c, d>>
<1>1. t \in Seq(Int) /\ Len(t) = 4 /\ t[1] = a /\ t[2] = b /\ t[3] = c /\ t[4] = d
  BY DEF Four
<1>2. QED
  BY <1>1

LEMMA SpellSix ==
    ASSUME NEW t, NEW a, NEW b, NEW c, NEW d, NEW e, NEW f, Six(t, a, b, c, d, e, f)
    PROVE  t = <<a, b, c, d, e, f>>
<1>1. t \in Seq(Int) /\ Len(t) = 6 /\ t[1] = a /\ t[2] = b /\ t[3] = c /\ t[4] = d /\ t[5] = e /\ t[6] = f
  BY DEF Six
<1>2. QED
  BY <1>1

LEMMA JoinTwoOne ==
    ASSUME NEW u, NEW v, NEW a, NEW b, NEW c,
           Two(u, a, b), One(v, c)
    PROVE  Three(u \o v, a, b, c)
<1>1. PICK t : t = u \o v
  OBVIOUS
<1>2. Adjoins(t, u, v)
  <2>1. u \in Seq(Int) /\ v \in Seq(Int)
    BY DEF Two, One
  <2>2. QED
    BY <1>1, <2>1, JoinAt
<1>3. Len(u) = 2 /\ Len(v) = 1
  BY DEF Two, One
<1>4. t \in Seq(Int) /\ Len(t) = 2 + 1
  BY <1>2, <1>3 DEF Adjoins
<1>5. (\A i \in 1..2 : t[i] = u[i]) /\ (\A i \in 1..1 : t[2 + i] = v[i])
  BY <1>2, <1>3 DEF Adjoins
<1>6. Len(t) = 3 /\ t[1] = a /\ t[2] = b /\ t[3] = c
  BY <1>4, <1>5 DEF Two, One
<1>7. QED
  BY <1>1, <1>4, <1>6 DEF Three

LEMMA JoinThreeOne ==
    ASSUME NEW u, NEW v, NEW a, NEW b, NEW c, NEW d,
           Three(u, a, b, c), One(v, d)
    PROVE  Four(u \o v, a, b, c, d)
<1>1. PICK t : t = u \o v
  OBVIOUS
<1>2. Adjoins(t, u, v)
  <2>1. u \in Seq(Int) /\ v \in Seq(Int)
    BY DEF Three, One
  <2>2. QED
    BY <1>1, <2>1, JoinAt
<1>3. Len(u) = 3 /\ Len(v) = 1
  BY DEF Three, One
<1>4. t \in Seq(Int) /\ Len(t) = 3 + 1
  BY <1>2, <1>3 DEF Adjoins
<1>5. (\A i \in 1..3 : t[i] = u[i]) /\ (\A i \in 1..1 : t[3 + i] = v[i])
  BY <1>2, <1>3 DEF Adjoins
<1>6. Len(t) = 4 /\ t[1] = a /\ t[2] = b /\ t[3] = c /\ t[4] = d
  BY <1>4, <1>5 DEF Three, One
<1>7. QED
  BY <1>1, <1>4, <1>6 DEF Four

LEMMA JoinTwoTwo ==
    ASSUME NEW u, NEW v, NEW a, NEW b, NEW c, NEW d,
           Two(u, a, b), Two(v, c, d)
    PROVE  Four(u \o v, a, b, c, d)
<1>1. PICK t : t = u \o v
  OBVIOUS
<1>2. Adjoins(t, u, v)
  <2>1. u \in Seq(Int) /\ v \in Seq(Int)
    BY DEF Two, Two
  <2>2. QED
    BY <1>1, <2>1, JoinAt
<1>3. Len(u) = 2 /\ Len(v) = 2
  BY DEF Two, Two
<1>4. t \in Seq(Int) /\ Len(t) = 2 + 2
  BY <1>2, <1>3 DEF Adjoins
<1>5. (\A i \in 1..2 : t[i] = u[i]) /\ (\A i \in 1..2 : t[2 + i] = v[i])
  BY <1>2, <1>3 DEF Adjoins
<1>6. Len(t) = 4 /\ t[1] = a /\ t[2] = b /\ t[3] = c /\ t[4] = d
  BY <1>4, <1>5 DEF Two, Two
<1>7. QED
  BY <1>1, <1>4, <1>6 DEF Four

LEMMA JoinFourTwo ==
    ASSUME NEW u, NEW v, NEW a, NEW b, NEW c, NEW d, NEW e, NEW f,
           Four(u, a, b, c, d), Two(v, e, f)
    PROVE  Six(u \o v, a, b, c, d, e, f)
<1>1. PICK t : t = u \o v
  OBVIOUS
<1>2. Adjoins(t, u, v)
  <2>1. u \in Seq(Int) /\ v \in Seq(Int)
    BY DEF Four, Two
  <2>2. QED
    BY <1>1, <2>1, JoinAt
<1>3. Len(u) = 4 /\ Len(v) = 2
  BY DEF Four, Two
<1>4. t \in Seq(Int) /\ Len(t) = 4 + 2
  BY <1>2, <1>3 DEF Adjoins
<1>5. (\A i \in 1..4 : t[i] = u[i]) /\ (\A i \in 1..2 : t[4 + i] = v[i])
  BY <1>2, <1>3 DEF Adjoins
<1>6. Len(t) = 6 /\ t[1] = a /\ t[2] = b /\ t[3] = c /\ t[4] = d /\ t[5] = e /\ t[6] = f
  BY <1>4, <1>5 DEF Four, Two
<1>7. QED
  BY <1>1, <1>4, <1>6 DEF Six

\* What lies before the first zero.
LEMMA UpToZeroLemma ==
    ASSUME NEW b \in Seq(Int), NEW k \in 1..Len(b), b[k] = 0, \A i \in 1..(k - 1) : b[i] # 0
    PROVE  UpToZero(b) = SubSeq(b, 1, k - 1)
<1> DEFINE zeros == {i \in DOMAIN b : b[i] = 0}
<1>1. /\ k \in zeros /\ \A i \in zeros : i \in Nat
      /\ \A i \in zeros : k <= i
  OBVIOUS
<1>2. UpToZero(b) = IF zeros = {} THEN b ELSE SubSeq(b, 1, Min(zeros) - 1)
  BY Zenon DEF UpToZero
<1> HIDE DEF zeros
<1>3. PICK m : m = Min(zeros)
  OBVIOUS
<1>4. m = CHOOSE x \in zeros : \A y \in zeros : x <= y
  BY <1>3 DEF Min
<1>5. m \in zeros /\ \A y \in zeros : m <= y
  BY <1>1, <1>4
<1>6. m \in Nat /\ m <= k /\ k <= m
  BY <1>1, <1>5
<1>7. m = k
  BY <1>6
<1>8. QED
  BY <1>1, <1>2, <1>3, <1>7

LEMMA UpToZeroThree ==
    ASSUME NEW b, NEW x, NEW y, Three(b, x, y, 0), x # 0, y # 0
    PROVE  Two(UpToZero(b), x, y)
<1>1. b \in Seq(Int) /\ Len(b) = 3 /\ b[1] = x /\ b[2] = y /\ b[3] = 0
  BY DEF Three
<1>2. 3 \in 1..Len(b) /\ \A i \in 1..(3 - 1) : b[i] # 0
  BY <1>1
<1>3. UpToZero(b) = SubSeq(b, 1, 3 - 1)
  BY <1>1, <1>2, UpToZeroLemma
<1>4. PICK t : t = SubSeq(b, 1, 2)
  OBVIOUS
<1>5. t \in Seq(Int) /\ Len(t) = 2 /\ t[1] = b[1] /\ t[2] = b[2]
  BY <1>1, <1>4
<1>6. 3 - 1 = 2
  OBVIOUS
<1>7. QED
  BY <1>1, <1>3, <1>4, <1>5, <1>6 DEF Two

\* How many bytes a lead byte announces, and what the scan makes of a byte.
LEMMA FollowLemma ==
    ASSUME NEW x \in Int
    PROVE  /\ x \in 0..127 => Follow(x) = 0
           /\ x \in 194..223 => Follow(x) = 1
           /\ x \in 224..239 => Follow(x) = 2
           /\ x \in 128..193 => Follow(x) = -1
<1>1. x \in 0..127 => x \notin 194..223 /\ x \notin 224..239 /\ x \notin 240..244
  OBVIOUS
<1>2. x \in 194..223 => x \notin 0..127 /\ x \notin 224..239 /\ x \notin 240..244
  OBVIOUS
<1>3. x \in 224..239 => x \notin 0..127 /\ x \notin 194..223 /\ x \notin 240..244
  OBVIOUS
<1>4. x \in 128..193 => x \notin 0..127 /\ x \notin 194..223 /\ x \notin 224..239 /\ x \notin 240..244
  OBVIOUS
<1>5. QED
  BY <1>1, <1>2, <1>3, <1>4, SMT DEF Follow

\* The verdict on up to three bytes.
TwoDue(x, y)      == StillDue(StillDue(0, x), y) = 0
ThreeDue(x, y, z) == StillDue(StillDue(StillDue(0, x), y), z) = 0

LEMMA ValidLemma ==
    ASSUME NEW b \in Seq(Int)
    PROVE  /\ Len(b) = 0 => IsValidUtf8(b)
           /\ Len(b) = 2 => (IsValidUtf8(b) <=> TwoDue(b[1], b[2]))
           /\ Len(b) = 3 => (IsValidUtf8(b) <=> ThreeDue(b[1], b[2], b[3]))
<1>1. PICK due : Scans(due, b) /\ (IsValidUtf8(b) <=> due[Len(b)] = 0)
  BY ScanLemma
<1>2. due[0] = 0 /\ \A k \in 1..Len(b) : due[k] = StillDue(due[k - 1], b[k])
  BY <1>1 DEF Scans
<1>3. CASE Len(b) = 0
  BY <1>1, <1>2, <1>3
<1>4. CASE Len(b) = 2
  <2>1. 1 \in 1..2 /\ 2 \in 1..2 /\ 1 - 1 = 0 /\ 2 - 1 = 1 /\ 0 # 2 /\ 2 # 3
    OBVIOUS
  <2>2. due[1] = StillDue(0, b[1]) /\ due[2] = StillDue(due[1], b[2])
    BY <1>2, <1>4, <2>1
  <2>3. QED
    BY <1>1, <1>4, <2>1, <2>2 DEF TwoDue
<1>5. CASE Len(b) = 3
  <2>1. 1 \in 1..3 /\ 2 \in 1..3 /\ 3 \in 1..3 /\ 1 - 1 = 0 /\ 2 - 1 = 1 /\ 3 - 1 = 2 /\ 0 # 3 /\ 2 # 3
    OBVIOUS
  <2>2. due[1] = StillDue(0, b[1]) /\ due[2] = StillDue(due[1], b[2]) /\ due[3] = StillDue(due[2], b[3])
    BY <1>2, <1>5, <2>1
  <2>3. QED
    BY <1>1, <1>5, <2>1, <2>2 DEF ThreeDue
<1>6. QED
  BY <1>3, <1>4, <1>5

\* The scan on the bytes that are stored.
LEMMA ScannedLemma ==
    /\ TwoDue(65, 66) /\ ~TwoDue(128, 65)
    /\ ThreeDue(194, 160, 65) /\ ~ThreeDue(233, 194, 233)
    /\ \A x \in 0..127 : ~TwoDue(233, x)
<1>1. \A x \in 0..127 : Follow(x) = 0
  BY FollowLemma
<1>2. Follow(194) = 1 /\ Follow(233) = 2 /\ Follow(128) = -1
  BY FollowLemma
<1>3. Follow(65) = 0 /\ Follow(66) = 0
  BY <1>1
<1>4. StillDue(0, 65) = 0 /\ StillDue(0, 66) = 0
  BY <1>3 DEF StillDue
<1>5. StillDue(0, 128) = -1 /\ StillDue(0, 194) = 1 /\ StillDue(0, 233) = 2
  BY <1>2 DEF StillDue
<1>6. StillDue(-1, 65) = -1 /\ StillDue(-1, 233) = -1
  BY DEF StillDue
<1>7. StillDue(1, 160) = 0 /\ StillDue(2, 194) = -1
  BY DEF StillDue
<1>8. \A x \in 0..127 : StillDue(2, x) = -1
  BY DEF StillDue
<1>9. QED
  BY <1>4, <1>5, <1>6, <1>7, <1>8 DEF TwoDue, ThreeDue

\* A byte that is not in 128..159 is its own code point; the euro sign is not.
LEMMA Utf8Lemma ==
    /\ Three(Utf8(CodePoint(128)), 226, 130, 172)
    /\ \A x \in 0..127 : One(Utf8(CodePoint(x)), x)
    /\ Two(Utf8(CodePoint(233)), 195, 169)
    /\ Two(Utf8(CodePoint(194)), 195, 130)
<1>1. CodePoint(128) = 8364
  BY SMT DEF CodePoint, Cp1252High
<1>2. Utf8(8364) = <<226, 130, 172>>
  BY SMT DEF Utf8
<1>3. \A x \in 0..127 : CodePoint(x) = x /\ Utf8(x) = <<x>>
  BY SMT DEF CodePoint, Utf8
<1>4. CodePoint(233) = 233 /\ CodePoint(194) = 194
  BY SMT DEF CodePoint
<1>5. Utf8(233) = <<195, 169>> /\ Utf8(194) = <<195, 130>>
  BY SMT DEF Utf8
<1>6. Three(<<226, 130, 172>>, 226, 130, 172) /\ Two(<<195, 169>>, 195, 169) /\ Two(<<195, 130>>, 195, 130)
  BY LiteralThree, LiteralTwo
<1>7. ASSUME NEW x \in 0..127
      PROVE  One(Utf8(CodePoint(x)), x)
  <2>1. PICK t : t = <<x>>
    OBVIOUS
  <2>2. One(t, x)
    BY <2>1, LiteralOne
  <2>3. Utf8(CodePoint(x)) = t
    BY <1>3, <2>1
  <2>4. QED
    BY <2>2, <2>3
<1>8. Three(Utf8(CodePoint(128)), 226, 130, 172)
  BY <1>1, <1>2, <1>6
<1>9. Two(Utf8(CodePoint(233)), 195, 169) /\ Two(Utf8(CodePoint(194)), 195, 130)
  BY <1>4, <1>5, <1>6
<1>10. QED
  BY <1>7, <1>8, <1>9

\* What is decoded of two bytes, and of three.
Letters(b)  == [i \in DOMAIN b |-> Utf8(CodePoint(b[i]))]
Shows(x, u) == u \in Seq(Int) /\ u = Utf8(CodePoint(x))

LEMMA DecodeTwo ==
    ASSUME NEW b, NEW x, NEW y, Two(b, x, y), ~TwoDue(x, y), NEW u, NEW v, Shows(x, u), Shows(y, v)
    PROVE  DecodeText(b) = u \o v
<1>1. PICK p : p = Letters(b)
  OBVIOUS
<1>2. b \in Seq(Int) /\ Len(b) = 2 /\ b[1] = x /\ b[2] = y
  BY DEF Two
<1>3. p[1] = u /\ p[2] = v
  <2>1. 1 \in DOMAIN b /\ 2 \in DOMAIN b
    BY <1>2
  <2>2. QED
    BY <1>1, <1>2, <2>1 DEF Letters, Shows
<1>4. Joined(<<>>, 2, p) = u \o v
  BY <1>3, JoinTwo DEF Shows
<1>5. IsValidUtf8(b) <=> TwoDue(x, y)
  BY <1>2, ValidLemma
<1>6. DecodeText(b) = IF IsValidUtf8(b) THEN b ELSE Joined(<<>>, 2, p)
  BY <1>1, <1>2, Zenon DEF DecodeText, Letters
<1>7. QED
  BY <1>4, <1>5, <1>6

LEMMA DecodeThree ==
    ASSUME NEW b, NEW x, NEW y, NEW z, Three(b, x, y, z), ~ThreeDue(x, y, z),
           NEW u, NEW v, NEW w, Shows(x, u), Shows(y, v), Shows(z, w)
    PROVE  DecodeText(b) = (u \o v) \o w
<1>1. PICK p : p = Letters(b)
  OBVIOUS
<1>2. b \in Seq(Int) /\ Len(b) = 3 /\ b[1] = x /\ b[2] = y /\ b[3] = z
  BY DEF Three
<1>3. p[1] = u /\ p[2] = v /\ p[3] = w
  <2>1. 1 \in DOMAIN b /\ 2 \in DOMAIN b /\ 3 \in DOMAIN b
    BY <1>2
  <2>2. QED
    BY <1>1, <1>2, <2>1 DEF Letters, Shows
<1>4. Joined(<<>>, 3, p) = (u \o v) \o w
  BY <1>3, JoinThree DEF Shows
<1>5. IsValidUtf8(b) <=> ThreeDue(x, y, z)
  BY <1>2, ValidLemma
<1>6. DecodeText(b) = IF IsValidUtf8(b) THEN b ELSE Joined(<<>>, 3, p)
  BY <1>1, <1>2, Zenon DEF DecodeText, Letters
<1>7. QED
  BY <1>4, <1>5, <1>6

\* What each stored text is shown as.
LEMMA Text1 == DecodeText(UpToZero(<<65, 66, 0>>)) = <<65, 66>>
<1>1. PICK b : b = <<65, 66, 0>>
  OBVIOUS
<1>2. PICK t : t = UpToZero(b)
  OBVIOUS
<1>3. Two(t, 65, 66)
  <2>1. Three(b, 65, 66, 0)
    BY <1>1, LiteralThree
  <2>2. QED
    BY <1>2, <2>1, UpToZeroThree
<1>4. t \in Seq(Int) /\ Len(t) = 2 /\ TwoDue(t[1], t[2])
  BY <1>3, ScannedLemma DEF Two
<1>5. DecodeText(t) = t
  <2>1. IsValidUtf8(t)
    BY <1>4, ValidLemma
  <2>2. QED
    BY <2>1 DEF DecodeText
<1>6. t = <<65, 66>>
  BY <1>3, SpellTwo
<1>7. QED
  BY <1>1, <1>2, <1>5, <1>6

LEMMA Text2 == DecodeText(UpToZero(<<0, 0, 0>>)) = <<>>
<1>1. PICK b : b = <<0, 0, 0>>
  OBVIOUS
<1>2. b \in Seq(Int) /\ Len(b) = 3 /\ b[1] = 0
  BY <1>1
<1>3. UpToZero(b) = SubSeq(b, 1, 1 - 1)
  <2>1. 1 \in 1..Len(b) /\ \A i \in 1..(1 - 1) : b[i] # 0
    BY <1>2
  <2>2. QED
    BY <1>2, <2>1, UpToZeroLemma
<1>4. SubSeq(b, 1, 1 - 1) = <<>>
  BY <1>1
<1>5. <<>> \in Seq(Int) /\ Len(<<>>) = 0
  OBVIOUS
<1>6. IsValidUtf8(<<>>)
  BY <1>5, ValidLemma
<1>7. QED
  BY <1>1, <1>3, <1>4, <1>6 DEF DecodeText

LEMMA Text3 == DecodeText(UpToZero(<<128, 65, 0>>)) = <<226, 130, 172, 65>>
<1>1. PICK b : b = <<128, 65, 0>>
  OBVIOUS
<1>2. PICK t : t = UpToZero(b)
  OBVIOUS
<1>3. Two(t, 128, 65)
  <2>1. Three(b, 128, 65, 0)
    BY <1>1, LiteralThree
  <2>2. QED
    BY <1>2, <2>1, UpToZeroThree
<1>4. PICK u : u = Utf8(CodePoint(128))
  OBVIOUS
<1>5. PICK v : v = Utf8(CodePoint(65))
  OBVIOUS
<1>6. Three(u, 226, 130, 172) /\ One(v, 65)
  BY <1>4, <1>5, Utf8Lemma
<1>7. Shows(128, u) /\ Shows(65, v) /\ ~TwoDue(128, 65)
  BY <1>4, <1>5, <1>6, ScannedLemma DEF Shows, Three, One
<1>8. PICK s : s = u \o v
  OBVIOUS
<1>9. DecodeText(t) = s
  BY <1>3, <1>7, <1>8, DecodeTwo
<1>10. Four(s, 226, 130, 172, 65)
  BY <1>6, <1>8, JoinThreeOne
<1>11. s = <<226, 130, 172, 65>>
  BY <1>10, SpellFour
<1>12. QED
  BY <1>1, <1>2, <1>9, <1>11

LEMMA Text4 == DecodeText(UpToZero(<<194, 160, 65>>)) = <<194, 160, 65>>
<1>1. PICK t : t = <<194, 160, 65>>
  OBVIOUS
<1>2. t \in Seq(Int) /\ Len(t) = 3 /\ t[1] = 194 /\ t[2] = 160 /\ t[3] = 65
  BY <1>1
<1>3. UpToZero(t) = t
  <2>1. {i \in DOMAIN t : t[i] = 0} = {}
    BY <1>2
  <2>2. QED
    BY <2>1 DEF UpToZero
<1>4. IsValidUtf8(t)
  <2>1. ThreeDue(t[1], t[2], t[3])
    BY <1>2, ScannedLemma
  <2>2. QED
    BY <1>2, <2>1, ValidLemma
<1>5. QED
  BY <1>1, <1>3, <1>4 DEF DecodeText

LEMMA Text5 == DecodeText(UpToZero(<<233, 194, 233>>)) = <<195, 169, 195, 130, 195, 169>>
<1>1. PICK t : t = <<233, 194, 233>>
  OBVIOUS
<1>2. t \in Seq(Int) /\ Len(t) = 3 /\ t[1] = 233 /\ t[2] = 194 /\ t[3] = 233
  BY <1>1
<1>3. UpToZero(t) = t
  <2>1. {i \in DOMAIN t : t[i] = 0} = {}
    BY <1>2
  <2>2. QED
    BY <2>1 DEF UpToZero
<1>4. Three(t, 233, 194, 233)
  BY <1>2 DEF Three
<1>5. PICK u : u = Utf8(CodePoint(233))
  OBVIOUS
<1>6. PICK v : v = Utf8(CodePoint(194))
  OBVIOUS
<1>7. Two(u, 195, 169) /\ Two(v, 195, 130)
  BY <1>5, <1>6, Utf8Lemma
<1>8. Shows(233, u) /\ Shows(194, v) /\ ~ThreeDue(233, 194, 233)
  BY <1>5, <1>6, <1>7, ScannedLemma DEF Shows, Two
<1>9. PICK s : s = u \o v
  OBVIOUS
<1>10. PICK w : w = s \o u
  OBVIOUS
<1>11. DecodeText(t) = w
  BY <1>4, <1>8, <1>9, <1>10, DecodeThree
<1>12. Four(s, 195, 169, 195, 130)
  BY <1>7, <1>9, JoinTwoTwo
<1>13. Six(w, 195, 169, 195, 130, 195, 169)
  BY <1>7, <1>10, <1>12, JoinFourTwo
<1>14. w = <<195, 169, 195, 130, 195, 169>>
  BY <1>13, SpellSix
<1>15. QED
  BY <1>1, <1>3, <1>11, <1>14

\* A memo: two characters that are no UTF-8 together.
Memo(x)      == <<233, x>>
MemoShows(x) == <<195, 169, x>>

LEMMA MemoLemma ==
    ASSUME NEW x \in 0..127
    PROVE  DecodeText(Memo(x)) = MemoShows(x)
<1>1. PICK t : t = <<233, x>>
  OBVIOUS
<1>2. Two(t, 233, x)
  BY <1>1, LiteralTwo
<1>3. PICK u : u = Utf8(CodePoint(233))
  OBVIOUS
<1>4. PICK v : v = Utf8(CodePoint(x))
  OBVIOUS
<1>5. Two(u, 195, 169) /\ One(v, x)
  BY <1>3, <1>4, Utf8Lemma
<1>6. Shows(233, u) /\ Shows(x, v)
  BY <1>3, <1>4, <1>5 DEF Shows, Two, One
<1>7. ~TwoDue(233, x)
  BY ScannedLemma
<1>8. PICK s : s = u \o v
  OBVIOUS
<1>9. DecodeText(t) = s
  BY <1>2, <1>6, <1>7, <1>8, DecodeTwo
<1>10. Three(s, 195, 169, x)
  BY <1>5, <1>8, JoinTwoOne
<1>11. s = <<195, 169, x>>
  BY <1>10, SpellThree
<1>12. QED
  BY <1>1, <1>9, <1>11 DEF Memo, MemoShows

\* Every text is shown as it was meant.
LEMMA TextsLemma ==
    ASSUME NEW k \in DOMAIN Texts
    PROVE  DecodeText(UpToZero(Texts[k].bytes)) = Texts[k].shows
<1>1. k \in 1..5
  BY DEF Texts
<1>2. k = 1 \/ k = 2 \/ k = 3 \/ k = 4 \/ k = 5
  BY <1>1
<1>3. Texts[1].bytes = <<65, 66, 0>> /\ Texts[1].shows = <<65, 66>>
  BY DEF Texts, Value
<1>4. Texts[2].bytes = <<0, 0, 0>> /\ Texts[2].shows = <<>>
  BY DEF Texts, Value
<1>5. Texts[3].bytes = <<128, 65, 0>> /\ Texts[3].shows = <<226, 130, 172, 65>>
  BY DEF Texts, Value
<1>6. Texts[4].bytes = <<194, 160, 65>> /\ Texts[4].shows = <<194, 160, 65>>
  BY DEF Texts, Value
<1>7. Texts[5].bytes = <<233, 194, 233>> /\ Texts[5].shows = <<195, 169, 195, 130, 195, 169>>
  BY DEF Texts, Value
<1>8. CASE k = 1
  BY <1>3, <1>8, Text1
<1>9. CASE k = 2
  BY <1>4, <1>9, Text2
<1>10. CASE k = 3
  BY <1>5, <1>10, Text3
<1>11. CASE k = 4
  BY <1>6, <1>11, Text4
<1>12. CASE k = 5
  BY <1>7, <1>12, Text5
<1>13. QED
  BY <1>2, <1>8, <1>9, <1>10, <1>11, <1>12

-----------------------------------------------------------------------------
(***************************************************************************)
(* What a cell is written as.                                              *)
(***************************************************************************)

Kept(type, cell, x) == Written(type, cell) = [t |-> Storage[LogicalType(type)], v |-> x]

LEMMA KeptLemma ==
    ASSUME NEW x
    PROVE  /\ Kept("String", [t |-> "string", v |-> x], DecodeText(x))
           /\ Kept("Memo", [t |-> "bytes", v |-> x], DecodeText(x))
           /\ \A type \in {"Date", "Integer", "AutoInc", "Smallint"} : Kept(type, [t |-> "i32", v |-> x], x)
           /\ \A type \in {"DateTime", "Time", "Largeint"} : Kept(type, [t |-> "i64", v |-> x], x)
           /\ Kept("Boolean", [t |-> "bool", v |-> x], x)
           /\ \A type \in {"Float", "Currency"} : Kept(type, [t |-> "double", v |-> x], x)
           /\ \A type \in {"Blob", "Graphic", "Bytes", "VarBytes"} : Kept(type, [t |-> "bytes", v |-> x], x)
<1>1. Kept("String", [t |-> "string", v |-> x], DecodeText(x))
  BY DEF Kept, Written, LogicalType, Storage
<1>2. Kept("Memo", [t |-> "bytes", v |-> x], DecodeText(x))
  BY DEF Kept, Written, LogicalType, Storage
<1>3. \A type \in {"Date", "Integer", "AutoInc", "Smallint"} : Kept(type, [t |-> "i32", v |-> x], x)
  <2>1. Kept("Date", [t |-> "i32", v |-> x], x)
    BY DEF Kept, Written, LogicalType, Storage
  <2>2. Kept("Integer", [t |-> "i32", v |-> x], x) /\ Kept("AutoInc", [t |-> "i32", v |-> x], x)
    BY DEF Kept, Written, LogicalType, Storage
  <2>3. Kept("Smallint", [t |-> "i32", v |-> x], x)
    BY DEF Kept, Written, LogicalType, Storage
  <2>4. QED
    BY <2>1, <2>2, <2>3
<1>4. \A type \in {"DateTime", "Time", "Largeint"} : Kept(type, [t |-> "i64", v |-> x], x)
  <2>1. Kept("DateTime", [t |-> "i64", v |-> x], x)
    BY DEF Kept, Written, LogicalType, Storage
  <2>2. Kept("Time", [t |-> "i64", v |-> x], x)
    BY DEF Kept, Written, LogicalType, Storage
  <2>3. Kept("Largeint", [t |-> "i64", v |-> x], x)
    BY DEF Kept, Written, LogicalType, Storage
  <2>4. QED
    BY <2>1, <2>2, <2>3
<1>5. Kept("Boolean", [t |-> "bool", v |-> x], x)
  BY DEF Kept, Written, LogicalType, Storage
<1>6. \A type \in {"Float", "Currency"} : Kept(type, [t |-> "double", v |-> x], x)
  <2>1. Kept("Float", [t |-> "double", v |-> x], x) /\ Kept("Currency", [t |-> "double", v |-> x], x)
    BY DEF Kept, Written, LogicalType, Storage
  <2>2. QED
    BY <2>1
<1>7. \A type \in {"Blob", "Graphic", "Bytes", "VarBytes"} : Kept(type, [t |-> "bytes", v |-> x], x)
  <2>1. Kept("Blob", [t |-> "bytes", v |-> x], x) /\ Kept("Graphic", [t |-> "bytes", v |-> x], x)
    BY DEF Kept, Written, LogicalType, Storage
  <2>2. Kept("Bytes", [t |-> "bytes", v |-> x], x) /\ Kept("VarBytes", [t |-> "bytes", v |-> x], x)
    BY DEF Kept, Written, LogicalType, Storage
  <2>3. QED
    BY <2>1, <2>2
<1>8. QED
  BY <1>1, <1>2, <1>3, <1>4, <1>5, <1>6, <1>7

\* NULL stays NULL, whatever the type.
LEMMA NullLemma == \A type : Written(type, Null) = Null
BY DEF Written, Null

\* A number goes in as what it is shown as.
LEMMA NumberLemma ==
    ASSUME NEW type \in NumberTypes, NEW n \in Int, InRange(type, n)
    PROVE  Kept(type, DecodeField(type, Encoded(type, n)), <<Shown(type, n)>>)
<1>1. PICK b : b = Encoded(type, n)
  OBVIOUS
<1>2. Len(b) = Width[type] /\ type \in DOMAIN SubCodes
  <2>1. type \in DOMAIN SubCodes
    BY DEF NumberTypes, SubCodes
  <2>2. QED
    BY <1>1, <2>1, EncodedLemma
<1>3. /\ \A t \in {"Time", "Integer", "AutoInc"} : Width[t] = 4
      /\ \A t \in {"Largeint", "Float", "Currency"} : Width[t] = 8
      /\ Width["Smallint"] = 2
  BY WidthLemma DEF Needs
<1>4. CASE type = "Date"
  <2>1. PICK d \in Int : d = n + 719162
    BY SMT
  <2>2. -2147483647 <= d /\ d <= 2147483647
    BY <1>4, <2>1, SMT DEF InRange
  <2>3. b = Le(d, 4)
    BY <1>1, <1>4, <2>1, SMT DEF Encoded
  <2>4. I32(b) = d
    BY <2>2, <2>3, I32Lemma
  <2>5. PICK x : x = I32(b) - 719162
    OBVIOUS
  <2>6. DecodeField(type, b) = [t |-> "i32", v |-> <<x>>]
    BY <1>2, <1>4, <2>5, AlternativeLemma, SMT
  <2>7. x = Shown(type, n)
    BY <1>4, <2>1, <2>4, <2>5, SMT DEF Shown
  <2>8. QED
    BY <1>1, <1>4, <2>6, <2>7, KeptLemma
<1>5. CASE type = "DateTime"
  <2>1. PICK m \in Int : m = TDateTime(n)
    <3>1. TDateTime(n) \in Int
      BY SMT DEF TDateTime
    <3>2. QED
      BY <3>1
  <2>2. -2147483647 <= m /\ m <= 2147483647
    BY <1>5, <2>1, SMT DEF InRange, TDateTime
  <2>3. b = Le(m, 8)
    BY <1>1, <1>5, <2>1, SMT DEF Encoded
  <2>4. I32(b) = m
    BY <2>2, <2>3, I32Lemma
  <2>5. DecodeField(type, b) = [t |-> "i64", v |-> <<UnixQuarters(I32(b))>>]
    BY <1>2, <1>5, AlternativeLemma
  <2>6. UnixQuarters(I32(b)) = Shown(type, n)
    BY <1>5, <2>1, <2>4, MomentLemma, SMT DEF Shown
  <2>7. QED
    BY <1>1, <1>5, <2>5, <2>6, KeptLemma
<1>6. CASE type = "Boolean"
  <2>1. n \in {0, 1}
    BY <1>6, SMT DEF InRange
  <2>2. b = IF n = 0 THEN <<0, 0>> ELSE <<255, 255>>
    BY <1>1, <1>6, SMT DEF Encoded
  <2>3. U16(b) = IF n = 0 THEN 0 ELSE 65535
    BY <2>2, SMT DEF U16
  <2>4. DecodeField(type, b) = [t |-> "bool", v |-> <<IF U16(b) # 0 THEN 1 ELSE 0>>]
    BY <1>2, <1>6, AlternativeLemma
  <2>5. (IF U16(b) # 0 THEN 1 ELSE 0) = Shown(type, n)
    BY <1>6, <2>1, <2>3, SMT DEF Shown
  <2>6. QED
    BY <1>1, <1>6, <2>4, <2>5, KeptLemma
<1>7. ASSUME type \notin {"Date", "DateTime", "Boolean", "Smallint"}
      PROVE  I32(b) = n
  <2>1. -2147483647 <= n /\ n <= 2147483647
    BY <1>7, SMT DEF InRange
  <2>2. b = Le(n, Width[type])
    BY <1>1, <1>7, SMT DEF Encoded
  <2>3. Width[type] \in Nat /\ Width[type] >= 4
    BY <1>3, <1>7 DEF NumberTypes
  <2>4. QED
    BY <2>1, <2>2, <2>3, I32Lemma
<1>8. CASE type = "Smallint"
  <2>1. -32767 <= n /\ n <= 32767
    BY <1>8, SMT DEF InRange
  <2>2. b = Le(n, 2)
    BY <1>1, <1>3, <1>8, SMT DEF Encoded
  <2>3. I16(b) = n
    BY <2>1, <2>2, I16Lemma
  <2>4. DecodeField(type, b) = [t |-> "i32", v |-> <<I16(b)>>]
    BY <1>2, <1>8, AlternativeLemma
  <2>5. I16(b) = Shown(type, n)
    BY <1>8, <2>3, SMT DEF Shown
  <2>6. QED
    BY <1>1, <1>8, <2>4, <2>5, KeptLemma
<1>9. CASE type \in {"Integer", "AutoInc"}
  <2>1. DecodeField(type, b) = [t |-> "i32", v |-> <<I32(b)>>]
    BY <1>2, <1>9, AlternativeLemma
  <2>2. I32(b) = Shown(type, n)
    BY <1>7, <1>9, SMT DEF Shown
  <2>3. QED
    BY <1>1, <1>9, <2>1, <2>2, KeptLemma
<1>10. CASE type = "Largeint"
  <2>1. DecodeField(type, b) = [t |-> "i64", v |-> <<I32(b)>>]
    BY <1>2, <1>10, AlternativeLemma
  <2>2. I32(b) = Shown(type, n)
    BY <1>7, <1>10, SMT DEF Shown
  <2>3. QED
    BY <1>1, <1>10, <2>1, <2>2, KeptLemma
<1>11. CASE type = "Time"
  <2>1. PICK x : x = 1000 * I32(b)
    OBVIOUS
  <2>2. DecodeField(type, b) = [t |-> "i64", v |-> <<x>>]
    BY <1>2, <1>11, <2>1, AlternativeLemma
  <2>3. x = Shown(type, n)
    BY <1>7, <1>11, <2>1, SMT DEF Shown
  <2>4. QED
    BY <1>1, <1>11, <2>2, <2>3, KeptLemma
<1>12. CASE type = "Float"
  <2>1. PICK x : x = 2500 * I32(b)
    OBVIOUS
  <2>2. DecodeField(type, b) = [t |-> "double", v |-> <<x>>]
    BY <1>2, <1>12, <2>1, AlternativeLemma
  <2>3. x = Shown(type, n)
    BY <1>7, <1>12, <2>1, SMT DEF Shown
  <2>4. QED
    BY <1>1, <1>12, <2>2, <2>3, KeptLemma
<1>13. CASE type = "Currency"
  <2>1. DecodeField(type, b) = [t |-> "double", v |-> <<I32(b)>>]
    BY <1>2, <1>13, AlternativeLemma
  <2>2. I32(b) = Shown(type, n)
    BY <1>7, <1>13, SMT DEF Shown
  <2>3. QED
    BY <1>1, <1>13, <2>1, <2>2, KeptLemma
<1>14. QED
  BY <1>4, <1>5, <1>6, <1>8, <1>9, <1>10, <1>11, <1>12, <1>13 DEF NumberTypes

\* What is stored is shown as it was meant.
LEMMA ShownLemma ==
    ASSUME NEW type \in DOMAIN SubCodes \ (HandleTypes \cup {"Calculated", "Unknown"}),
           NEW k \in 1..Len(Stored(type))
    PROVE  Kept(type, DecodeField(type, Stored(type)[k].bytes), Stored(type)[k].shows)
<1>1. PICK b : b = Stored(type)[k].bytes
  OBVIOUS
<1>2. Len(b) = Width[type]
  <2>1. type \in DOMAIN SubCodes \ HandleTypes
    OBVIOUS
  <2>2. QED
    BY <1>1, <2>1, StoredLemma DEF Fills
<1>3. CASE type = "String"
  <2>1. Stored(type) = Texts
    BY <1>3 DEF Stored
  <2>2. k \in DOMAIN Texts
    BY <2>1 DEF Texts
  <2>3. DecodeText(UpToZero(b)) = Stored(type)[k].shows
    BY <1>1, <2>1, <2>2, TextsLemma
  <2>4. DecodeField(type, b) = [t |-> "string", v |-> UpToZero(b)]
    BY <1>2, <1>3, AlternativeLemma
  <2>5. Kept("String", [t |-> "string", v |-> UpToZero(b)], DecodeText(UpToZero(b)))
    BY KeptLemma
  <2>6. QED
    BY <1>1, <1>3, <2>3, <2>4, <2>5
<1>4. CASE type \in {"Bytes", "VarBytes"}
  <2>1. Stored(type) = Binaries
    BY <1>4 DEF Stored
  <2>2. Stored(type)[k].shows = b
    <3>1. k = 1 \/ k = 2
      BY <2>1 DEF Binaries
    <3>2. QED
      BY <1>1, <2>1, <3>1 DEF Binaries, Value
  <2>3. DecodeField(type, b) = [t |-> "bytes", v |-> b]
    BY <1>2, <1>4, AlternativeLemma
  <2>4. Kept(type, [t |-> "bytes", v |-> b], b)
    BY <1>4, KeptLemma
  <2>5. QED
    BY <1>1, <2>2, <2>3, <2>4
<1>5. CASE type \in NumberTypes
  <2>1. PICK ns \in Seq(Int) : ns = Numbers[type] /\ \A i \in DOMAIN ns : InRange(type, ns[i])
    BY <1>5, NumbersAssumption
  <2>2. Stored(type) = [i \in DOMAIN ns |-> Value(Encoded(type, ns[i]), <<Shown(type, ns[i])>>)]
    BY <1>5, <2>1 DEF Stored, NumberTypes
  <2>3. DOMAIN ns = 1..Len(ns) /\ Len(ns) \in Nat
    BY <2>1
  <2>4. k \in DOMAIN ns
    <3>1. Len(Stored(type)) = Len(ns)
      BY <2>2, <2>3
    <3>2. QED
      BY <2>3, <3>1
  <2>5. PICK n \in Int : n = ns[k]
    BY <2>1, <2>4
  <2>6. b = Encoded(type, n) /\ Stored(type)[k].shows = <<Shown(type, n)>>
    BY <1>1, <2>2, <2>4, <2>5 DEF Value
  <2>7. InRange(type, n)
    BY <2>1, <2>4, <2>5
  <2>8. Kept(type, DecodeField(type, Encoded(type, n)), <<Shown(type, n)>>)
    BY <1>5, <2>7, NumberLemma
  <2>9. QED
    BY <1>1, <2>6, <2>8
<1>6. type \in {"String", "Bytes", "VarBytes"} \cup NumberTypes
  BY WidthLemma DEF HandleTypes, NumberTypes
<1>7. QED
  BY <1>3, <1>4, <1>5, <1>6

\* What DuckDB should get.
ExpectedAt(j, r, c) ==
    LET type == j.types[c]
    IN IF \/ Spoilt(j, r) \/ <<r, c>> \in j.nulls \/ type = "Calculated"
          \/ type \in HandleTypes /\ (~HasBlob(j, r, c) \/ j.shape = "unmarked")
       THEN Null
       ELSE [t |-> Storage[LogicalType(type)],
             v |-> IF type \in HandleTypes THEN BlobShows(j, r, c) ELSE StoredAt(j, r, c).shows]

LEMMA LetterLemma ==
    ASSUME NEW r \in Nat, NEW c \in Nat
    PROVE  Letter(r, c) \in 0..127
<1>1. PICK n \in Nat : n = 10 * r + c
  OBVIOUS
<1>2. n % 60 \in 0..59
  BY SMT
<1>3. QED
  BY <1>1, <1>2, SMT DEF Letter

LEMMA MemoShownLemma ==
    ASSUME NEW j, NEW r \in Nat, NEW c \in Nat
    PROVE  j.types[c] = "Memo" => DecodeText(Blob(r, c)) = BlobShows(j, r, c)
<1>1. Letter(r, c) \in 0..127
  BY LetterLemma
<1>2. Blob(r, c) = Memo(Letter(r, c))
  BY SMT DEF Blob, Memo
<1>3. j.types[c] = "Memo" => BlobShows(j, r, c) = MemoShows(Letter(r, c))
  BY SMT DEF BlobShows, MemoShows
<1>4. DecodeText(Memo(Letter(r, c))) = MemoShows(Letter(r, c))
  BY <1>1, MemoLemma
<1>5. QED
  BY <1>2, <1>3, <1>4

LEMMA ResolvedLemma ==
    ASSUME NEW j, Rowed(j), NEW r \in Nat, ~Spoilt(j, r), NEW c \in DOMAIN j.types
    PROVE  Written(j.types[c], ResolvedAt(j, r, c)) = ExpectedAt(j, r, c)
<1>1. PICK type \in DOMAIN SubCodes : type = j.types[c]
  BY JobsAssumption DEF Rowed
<1>2. j \in Jobs /\ c \in 1..Len(j.types) /\ c \in Nat
  <2>1. j \in Jobs /\ c \in 1..Len(j.types)
    BY CellLemma DEF Rowed
  <2>2. QED
    BY <2>1
<1>3. PICK cell : cell = CellAt(j, r, c)
  OBVIOUS
<1>4. PICK f : f = FieldBytes(j, r, c)
  OBVIOUS
<1>5. Len(f) = Width[type]
  BY <1>1, <1>2, <1>4, FieldLemma
<1>6. cell.t = "handle" <=> type \in HandleTypes /\ <<r, c>> \notin j.nulls
  BY <1>1, <1>3, HandleLemma
<1>7. ResolvedAt(j, r, c) = IF cell.t # "handle" THEN cell
                            ELSE IF ~HasBlob(j, r, c) \/ j.shape = "unmarked" THEN Null
                            ELSE [t |-> "bytes", v |-> Blob(r, c)]
  BY <1>3 DEF ResolvedAt
<1>8. CASE <<r, c>> \in j.nulls
  <2>1. cell = Null
    BY <1>3, <1>8 DEF CellAt
  <2>2. ResolvedAt(j, r, c) = Null
    BY <1>6, <1>7, <1>8, <2>1
  <2>3. ExpectedAt(j, r, c) = Null
    BY <1>8 DEF ExpectedAt
  <2>4. QED
    BY <2>2, <2>3, NullLemma
<1>9. CASE <<r, c>> \notin j.nulls /\ type \in HandleTypes
  <2>1. type # "Calculated"
    BY <1>9 DEF HandleTypes
  <2>2. CASE ~HasBlob(j, r, c) \/ j.shape = "unmarked"
    <3>1. ResolvedAt(j, r, c) = Null
      BY <1>6, <1>7, <1>9, <2>2
    <3>2. ExpectedAt(j, r, c) = Null
      BY <1>1, <1>9, <2>2 DEF ExpectedAt
    <3>3. QED
      BY <3>1, <3>2, NullLemma
  <2>3. CASE ~(~HasBlob(j, r, c) \/ j.shape = "unmarked")
    <3>1. PICK blob : blob = Blob(r, c)
      OBVIOUS
    <3>2. ResolvedAt(j, r, c) = [t |-> "bytes", v |-> blob]
      BY <1>6, <1>7, <1>9, <2>3, <3>1
    <3>3. ExpectedAt(j, r, c) = [t |-> Storage[LogicalType(type)], v |-> BlobShows(j, r, c)]
      BY <1>1, <1>9, <2>1, <2>3 DEF ExpectedAt
    <3>4. Kept(type, [t |-> "bytes", v |-> blob], BlobShows(j, r, c))
      <4>1. CASE type = "Memo"
        <5>1. DecodeText(blob) = BlobShows(j, r, c)
          <6>1. j.types[c] = "Memo" => DecodeText(Blob(r, c)) = BlobShows(j, r, c)
            BY <1>2, MemoShownLemma
          <6>2. QED
            BY <1>1, <3>1, <4>1, <6>1
        <5>2. Kept("Memo", [t |-> "bytes", v |-> blob], DecodeText(blob))
          BY KeptLemma
        <5>3. QED
          BY <4>1, <5>1, <5>2
      <4>2. CASE type # "Memo"
        <5>1. type \in {"Blob", "Graphic", "Bytes", "VarBytes"}
          BY <1>9, <4>2 DEF HandleTypes
        <5>2. BlobShows(j, r, c) = blob
          BY <1>1, <3>1, <4>2 DEF BlobShows
        <5>3. Kept(type, [t |-> "bytes", v |-> blob], blob)
          BY <5>1, KeptLemma
        <5>4. QED
          BY <5>2, <5>3
      <4>3. QED
        BY <4>1, <4>2
    <3>5. QED
      BY <1>1, <3>2, <3>3, <3>4 DEF Kept
  <2>4. QED
    BY <2>2, <2>3
<1>10. CASE <<r, c>> \notin j.nulls /\ type \notin HandleTypes
  <2>1. cell = DecodeField(type, f) /\ ResolvedAt(j, r, c) = cell
    BY <1>1, <1>3, <1>4, <1>6, <1>7, <1>10 DEF CellAt
  <2>2. CASE type = "Calculated"
    <3>1. cell = Null
      BY <1>5, <2>1, <2>2, AlternativeLemma
    <3>2. ExpectedAt(j, r, c) = Null
      BY <1>1, <2>2 DEF ExpectedAt
    <3>3. QED
      BY <2>1, <3>1, <3>2, NullLemma
  <2>3. CASE type # "Calculated"
    <3>1. type # "Unknown"
      BY <1>1, <1>10 DEF Spoilt
    <3>2. f = StoredAt(j, r, c).bytes
      BY <1>1, <1>4, <1>10 DEF FieldBytes
    <3>3. PICK k \in 1..Len(Stored(type)) : StoredAt(j, r, c) = Stored(type)[k]
      BY <1>1, <1>2, <1>10, StoredAtLemma
    <3>4. Kept(type, DecodeField(type, Stored(type)[k].bytes), Stored(type)[k].shows)
      <4>1. type \in DOMAIN SubCodes \ (HandleTypes \cup {"Calculated", "Unknown"})
        BY <1>10, <2>3, <3>1
      <4>2. QED
        BY <4>1, ShownLemma
    <3>5. ExpectedAt(j, r, c) = [t |-> Storage[LogicalType(type)], v |-> StoredAt(j, r, c).shows]
      BY <1>1, <1>10, <2>3 DEF ExpectedAt
    <3>6. QED
      BY <1>1, <2>1, <3>2, <3>3, <3>4, <3>5 DEF Kept
  <2>4. QED
    BY <2>2, <2>3
<1>11. QED
  BY <1>8, <1>9, <1>10

\* The cells of a block that has been written.
Cells(j, ph, res) ==
    j.ask = "read" /\ ph = "done" =>
        \A r \in DOMAIN res.rows : \A c \in DOMAIN j.types : res.rows[r][c] = ExpectedAt(j, r, c)

LEMMA CellsLemma == CellsExact <=> Cells(job, phase, result)
<1>1. \A r : BadRow(r) <=> Spoilt(job, r)
  BY DEF BadRow, Spoilt
<1>2. \A r, c : Expected(r, c) = ExpectedAt(job, r, c)
  BY <1>1, Zenon DEF Expected, ExpectedAt
<1>3. QED
  BY <1>2, Zenon DEF CellsExact, Cells

LEMMA CellWritten ==
    ASSUME job \in Jobs, job.ask = "read", TypeOK, Decoded(job, result), Write
    PROVE  Cells(job, phase', result')
<1>1. PICK rows : rows = result.rows
  OBVIOUS
<1>2. result'.rows = [r \in 1..KeptRows(job) |-> [c \in DOMAIN job.types |->
         IF c > Len(rows[r]) THEN Null ELSE Written(job.types[c], rows[r][c])]]
  BY <1>1, WriteLemma
<1>3. rows = [r \in 1..KeptRows(job) |->
         IF Spoilt(job, r) THEN <<>> ELSE [c \in DOMAIN job.types |-> ResolvedAt(job, r, c)]]
  BY <1>1 DEF Decoded
<1>4. KeptRows(job) \in Nat /\ Rowed(job)
  <2>1. KeptRows(job) \in Nat
    BY RowedLemma DEF KeptRows
  <2>2. Rowed(job)
    BY RowedLemma
  <2>3. QED
    BY <2>1, <2>2
<1>5. PICK n \in Nat : n = Len(job.types) /\ DOMAIN job.types = 1..n
  BY JobsAssumption, LenProperties
<1>6. ASSUME NEW r \in 1..KeptRows(job), NEW c \in DOMAIN job.types
      PROVE  (IF c > Len(rows[r]) THEN Null ELSE Written(job.types[c], rows[r][c])) = ExpectedAt(job, r, c)
  <2>1. r \in Nat /\ c \in 1..n
    BY <1>4, <1>5
  <2>2. CASE Spoilt(job, r)
    <3>1. rows[r] = <<>>
      BY <1>3, <2>2
    <3>2. c > Len(rows[r])
      BY <2>1, <3>1
    <3>3. ExpectedAt(job, r, c) = Null
      BY <2>2 DEF ExpectedAt
    <3>4. QED
      BY <3>2, <3>3
  <2>3. CASE ~Spoilt(job, r)
    <3>1. rows[r] = [k \in DOMAIN job.types |-> ResolvedAt(job, r, k)]
      BY <1>3, <2>3
    <3>2. Len(rows[r]) = n /\ rows[r][c] = ResolvedAt(job, r, c)
      BY <1>5, <3>1
    <3>3. ~(c > Len(rows[r]))
      BY <2>1, <3>2
    <3>4. Written(job.types[c], ResolvedAt(job, r, c)) = ExpectedAt(job, r, c)
      BY <1>4, <2>1, <2>3, ResolvedLemma
    <3>5. QED
      BY <3>2, <3>3, <3>4
  <2>4. QED
    BY <2>2, <2>3
<1>7. DOMAIN result'.rows = 1..KeptRows(job)
  BY <1>2
<1>8. ASSUME NEW r \in 1..KeptRows(job), NEW c \in DOMAIN job.types
      PROVE  result'.rows[r][c] = ExpectedAt(job, r, c)
  BY <1>2, <1>6, <1>8
<1>9. QED
  BY <1>7, <1>8 DEF Cells

\* Each cell DuckDB gets is the value the server stored in that row and column,
\* and NULL only where it should be (decode_field, decode_record,
\* decode_batch_with_blobs, write_cell, WriteCell).
THEOREM CellsCorrect == Spec => []CellsExact
<1>1. Init => Cells(job, phase, result)
  BY DEF Init, Cells
<1>2. ReplyInv /\ BlockInv /\ Cells(job, phase, result) /\ [Next]_vars => Cells(job, phase, result)'
  <2> SUFFICES ASSUME ReplyInv, BlockInv, Cells(job, phase, result), [Next]_vars,
                      job'.ask = "read", phase' = "done"
               PROVE  Cells(job', phase', result')
    BY DEF Cells
  <2>1. job' = job
    BY DEF Next, vars, Recv, RecvThrows, HeadRead, Unpack, Parse, Decode, Write, Over
  <2>2. job \in Jobs /\ TypeOK /\ job.ask = "read"
    BY <2>1 DEF ReplyInv, TypeOK
  <2>3. CASE phase' = phase /\ result' = result
    BY <2>1, <2>3
  <2>4. CASE body = Sent(job) /\ ParseBlock
    <3>1. result'.rows = <<>>
      BY <2>2, <2>4, ParseBlockLemma
    <3>2. DOMAIN result'.rows = {}
      BY <3>1
    <3>3. QED
      BY <2>1, <3>2 DEF Cells
  <2>5. CASE Received(job, result) /\ Decode
    BY <2>2, <2>5, DecodeBlockLemma
  <2>6. CASE Decoded(job, result) /\ Write
    BY <2>1, <2>2, <2>6, CellWritten
  <2>7. QED
    BY <2>2, <2>3, <2>4, <2>5, <2>6, BlockStep
<1>3. QED
  BY <1>1, <1>2, CellsLemma, ReplyInvariant, BlockInvariant, PTL DEF Spec
=============================================================================
