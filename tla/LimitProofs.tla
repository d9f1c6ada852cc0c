---------------------------- MODULE LimitProofs ----------------------------
(***************************************************************************)
(* Proofs about LimitPushdown, for plans of any length and limits, offsets *)
(* and tables of any size.                                                 *)
(***************************************************************************)
EXTENDS LimitPushdown, Integers, SequenceTheorems, FunctionTheorems, FiniteSetTheorems, TLAPS

(***************************************************************************)
(* Lemmas about finite sets of numbers in ascending order.                 *)
(***************************************************************************)

LEMMA IntervalLemma ==
    ASSUME NEW n \in Nat
    PROVE  /\ IsFiniteSet(1..n) /\ Cardinality(1..n) = n
           /\ \A m \in Nat : 1..m = 1..n => m = n
<1>1. IsFiniteSet(1..n) /\ Cardinality(1..n) = n
  BY FS_Interval
<1>2. \A m \in Nat : 1..m = 1..n => m = n
  OBVIOUS
<1>3. QED
  BY <1>1, <1>2

\* The rank of an element is its place, and ranks ascend with the elements.
LEMMA RankLemma ==
    ASSUME NEW S \in SUBSET Nat, IsFiniteSet(S)
    PROVE  /\ Cardinality(S) \in Nat
           /\ \A x \in S : Rank(S, x) \in 1..Cardinality(S)
           /\ \A x, y \in S : x < y => Rank(S, x) < Rank(S, y)
<1> DEFINE UpTo(x) == {y \in S : y <= x}
<1>1. Cardinality(S) \in Nat
  BY FS_CardinalityType
<1>2. \A x : /\ UpTo(x) \in SUBSET S /\ IsFiniteSet(UpTo(x))
             /\ Cardinality(UpTo(x)) \in Nat /\ Cardinality(UpTo(x)) <= Cardinality(S)
  <2> SUFFICES ASSUME NEW x
               PROVE  /\ UpTo(x) \in SUBSET S /\ IsFiniteSet(UpTo(x))
                      /\ Cardinality(UpTo(x)) \in Nat /\ Cardinality(UpTo(x)) <= Cardinality(S)
    OBVIOUS
  <2>1. UpTo(x) \in SUBSET S
    OBVIOUS
  <2>2. IsFiniteSet(UpTo(x)) /\ Cardinality(UpTo(x)) <= Cardinality(S)
    BY <2>1, FS_Subset
  <2>3. QED
    BY <2>1, <2>2, FS_CardinalityType
<1>3. \A x \in S : Cardinality(UpTo(x)) # 0
  BY <1>2, FS_EmptySet
<1>4. ASSUME NEW x \in S, NEW y \in S, x < y
      PROVE  Cardinality(UpTo(x)) < Cardinality(UpTo(y))
  <2> x \in Nat /\ y \in Nat /\ (\A z \in S : z \in Nat)
    OBVIOUS
  <2>0. y \in UpTo(y) /\ y \notin UpTo(x) /\ \A z \in S : z <= x => z <= y
    BY <1>4
  <2>1. UpTo(x) \in SUBSET UpTo(y) /\ UpTo(x) # UpTo(y)
    BY <2>0
  <2>2. Cardinality(UpTo(x)) <= Cardinality(UpTo(y)) /\ Cardinality(UpTo(x)) # Cardinality(UpTo(y))
    BY <1>2, <2>1, FS_Subset
  <2>3. QED
    BY <1>2, <2>2
<1>5. \A x : Rank(S, x) = Cardinality(UpTo(x))
  BY DEF Rank
<1> HIDE DEF UpTo
<1>6. QED
  BY <1>1, <1>2, <1>3, <1>4, <1>5

\* Ascending enumerates the set: each element at its rank, all in order.
LEMMA AscendingLemma ==
    ASSUME NEW S \in SUBSET Nat, IsFiniteSet(S)
    PROVE  /\ Cardinality(S) \in Nat
           /\ Ascending(S) \in [1..Cardinality(S) -> S]
           /\ \A x \in S : Rank(S, x) \in 1..Cardinality(S) /\ Ascending(S)[Rank(S, x)] = x
           /\ \A k \in 1..Cardinality(S) : Ascending(S)[k] \in S /\ Rank(S, Ascending(S)[k]) = k
           /\ \A j, k \in 1..Cardinality(S) : j < k => Ascending(S)[j] < Ascending(S)[k]
<1> DEFINE n == Cardinality(S)
           f == [x \in S |-> Rank(S, x)]
<1>1. n \in Nat /\ f \in [S -> 1..n] /\ \A x, y \in S : x < y => Rank(S, x) < Rank(S, y)
  BY RankLemma
<1>2. \A x, y \in S : Rank(S, x) = Rank(S, y) => x = y
  <2> SUFFICES ASSUME NEW x \in S, NEW y \in S, Rank(S, x) = Rank(S, y), x # y PROVE FALSE
    OBVIOUS
  <2>1. x < y \/ y < x
    OBVIOUS
  <2>2. Rank(S, x) \in Nat /\ Rank(S, y) \in Nat
    BY RankLemma
  <2>3. QED
    BY <1>1, <2>1, <2>2
<1>3. f \in Injection(S, 1..n)
  BY <1>1, <1>2, Fun_IsInj
<1>4. IsFiniteSet(1..n) /\ Cardinality(1..n) = n
  BY <1>1, IntervalLemma
<1>5. f \in Surjection(S, 1..n)
  BY <1>3, <1>4, FS_Injection
<1>6. \A k \in 1..n : \E x \in S : Rank(S, x) = k
  <2>1. \A k \in 1..n : \E x \in S : f[x] = k
    BY <1>5 DEF Surjection
  <2>2. QED
    BY <2>1
<1>7. \A k \in 1..n : Ascending(S)[k] \in S /\ Rank(S, Ascending(S)[k]) = k
  BY <1>6 DEF Ascending
<1>8. Ascending(S) \in [1..n -> S]
  BY <1>7 DEF Ascending
<1>9. \A x \in S : Rank(S, x) \in 1..n /\ Ascending(S)[Rank(S, x)] = x
  BY <1>1, <1>2, <1>7, RankLemma
<1>10. ASSUME NEW j \in 1..n, NEW k \in 1..n, j < k
       PROVE  Ascending(S)[j] < Ascending(S)[k]
  <2>1. PICK x \in S : x = Ascending(S)[j] /\ Rank(S, x) = j
    BY <1>7
  <2>2. PICK y \in S : y = Ascending(S)[k] /\ Rank(S, y) = k
    BY <1>7
  <2>3. ~(y < x) /\ y # x
    BY <1>1, <1>10, <2>1, <2>2
  <2>4. QED
    BY <2>1, <2>2, <2>3
<1>11. QED
  BY <1>1, <1>7, <1>8, <1>9, <1>10

\* The first of the ascending numbers is the least.
LEMMA LeastLemma ==
    ASSUME NEW S \in SUBSET Nat, IsFiniteSet(S), S # {}
    PROVE  \E x \in S : \A y \in S : x <= y
<1>1. /\ Cardinality(S) \in Nat
      /\ \A x \in S : Rank(S, x) \in 1..Cardinality(S) /\ Ascending(S)[Rank(S, x)] = x
      /\ \A k \in 1..Cardinality(S) : Ascending(S)[k] \in S
      /\ \A j, k \in 1..Cardinality(S) : j < k => Ascending(S)[j] < Ascending(S)[k]
  BY AscendingLemma
<1>2. 1 \in 1..Cardinality(S) /\ Ascending(S)[1] \in S
  <2>1. PICK z \in S : Rank(S, z) \in 1..Cardinality(S)
    BY <1>1
  <2>2. \A n \in Nat : \A i \in 1..n : 1 \in 1..n
    OBVIOUS
  <2>3. QED
    BY <1>1, <2>1, <2>2
<1>3. ASSUME NEW y \in S PROVE Ascending(S)[1] <= y
  <2>1. PICK k \in 1..Cardinality(S) : Ascending(S)[k] = y
    BY <1>1
  <2>2. k = 1 \/ 1 < k
    BY <1>1
  <2>3. k = 1 => Ascending(S)[1] = y
    BY <2>1
  <2>4. 1 < k => Ascending(S)[1] < y
    BY <1>1, <1>2, <2>1
  <2>5. Ascending(S)[1] \in Nat /\ y \in Nat
    BY <1>2
  <2>6. QED
    BY <2>2, <2>3, <2>4, <2>5
<1>4. QED
  BY <1>2, <1>3

\* Induction from the last place of a plan, the scan's, to the first.
LEMMA DownInduction ==
    ASSUME NEW n \in Nat, NEW T, n + 1 \in T,
           \A k \in 1..n : k + 1 \in T => k \in T
    PROVE  \A k \in 1..(n + 1) : k \in T
<1> DEFINE Bad == {d \in 0..n : n + 1 - d \notin T}
<1> SUFFICES ASSUME NEW k \in 1..(n + 1), k \notin T PROVE FALSE
  OBVIOUS
<1>1. Bad \in SUBSET (0..n) /\ Bad \in SUBSET Nat
  OBVIOUS
<1>2. IsFiniteSet(0..n)
  BY FS_Interval
<1>3. IsFiniteSet(Bad)
  BY <1>1, <1>2, FS_Subset
<1>4. n + 1 - k \in Bad
  <2>1. n + 1 - k \in 0..n /\ n + 1 - (n + 1 - k) = k
    OBVIOUS
  <2>2. QED
    BY <2>1
<1>5. PICK d \in Bad : \A e \in Bad : d <= e
  BY <1>1, <1>3, <1>4, LeastLemma
<1>6. d \in 0..n /\ n + 1 - d \notin T
  OBVIOUS
<1>7. d # 0
  BY <1>6
<1>8. d - 1 \in 0..n /\ n + 1 - (d - 1) = (n + 1 - d) + 1 /\ n + 1 - d \in 1..n /\ ~(d <= d - 1)
  BY <1>6, <1>7
<1>9. d - 1 \notin Bad
  BY <1>5, <1>8
<1>10. n + 1 - (d - 1) \in T
  BY <1>8, <1>9
<1>11. QED
  BY <1>6, <1>8, <1>10

\* A sequence that ascends through all elements of a set is the set's.
LEMMA UniqueLemma ==
    ASSUME NEW S \in SUBSET Nat, IsFiniteSet(S), NEW n \in Nat, NEW s \in [1..n -> S],
           \A i, j \in 1..n : i < j => s[i] < s[j],
           \A x \in S : \E i \in 1..n : s[i] = x
    PROVE  n = Cardinality(S) /\ s = Ascending(S)
<1>0. \A i \in 1..n : s[i] \in S /\ s[i] \in Nat
  <2>1. \A i \in 1..n : s[i] \in S
    OBVIOUS
  <2>2. QED
    BY <2>1
<1>1. \A i, j \in 1..n : s[i] = s[j] => i = j
  <2> SUFFICES ASSUME NEW i \in 1..n, NEW j \in 1..n, s[i] = s[j], i # j PROVE FALSE
    OBVIOUS
  <2>1. \A m \in Nat : \A k, l \in 1..m : k # l => k < l \/ l < k
    OBVIOUS
  <2>2. i < j \/ j < i
    BY <2>1
  <2>3. s[i] < s[j] \/ s[j] < s[i]
    BY <2>2
  <2>4. QED
    BY <1>0, <2>3
<1>2. ASSUME NEW k \in 1..n
      PROVE  Rank(S, s[k]) = k
  <2> DEFINE UpTo == {y \in S : y <= s[k]}
             f == [i \in 1..k |-> s[i]]
  <2>1. \A i \in 1..k : i \in 1..n /\ s[i] \in S /\ s[i] <= s[k]
    <3> SUFFICES ASSUME NEW i \in 1..k PROVE i \in 1..n /\ s[i] \in S /\ s[i] <= s[k]
      OBVIOUS
    <3>1. \A m \in Nat : \A l \in 1..m : \A h \in 1..l : h \in 1..m /\ (h < l \/ h = l)
      OBVIOUS
    <3>2. i \in 1..n /\ (i < k \/ i = k)
      BY <3>1
    <3>3. s[i] < s[k] \/ s[i] = s[k]
      BY <3>2
    <3>4. QED
      BY <1>0, <3>2, <3>3
  <2>2. f \in [1..k -> UpTo]
    BY <2>1
  <2>3. \A i, j \in 1..k : f[i] = f[j] => i = j
    BY <1>1, <2>1
  <2>4. \A y \in UpTo : \E i \in 1..k : f[i] = y
    <3> SUFFICES ASSUME NEW y \in UpTo PROVE \E i \in 1..k : s[i] = y
      OBVIOUS
    <3>1. PICK i \in 1..n : s[i] = y
      OBVIOUS
    <3>2. ~(k < i)
      <4> SUFFICES ASSUME k < i PROVE FALSE
        OBVIOUS
      <4>1. s[k] < s[i] /\ s[i] <= s[k] /\ s[i] \in Nat /\ s[k] \in Nat
        BY <3>1
      <4>2. QED
        BY <4>1
    <3>3. QED
      BY <3>1, <3>2
  <2>5. f \in Bijection(1..k, UpTo)
    <3> HIDE DEF f, UpTo
    <3>1. f \in Injection(1..k, UpTo)
      BY <2>2, <2>3, Fun_IsInj
    <3>2. f \in Surjection(1..k, UpTo)
      BY <2>2, <2>4 DEF Surjection
    <3>3. QED
      BY <3>1, <3>2 DEF Bijection
  <2>6. k \in Nat /\ IsFiniteSet(1..k) /\ Cardinality(1..k) = k
    BY IntervalLemma
  <2>7. Cardinality(UpTo) = k
    BY <2>5, <2>6, FS_Bijection DEF ExistsBijection
  <2>8. QED
    BY <2>7 DEF Rank
<1>3. /\ Cardinality(S) \in Nat
      /\ Ascending(S) \in [1..Cardinality(S) -> S]
      /\ \A x \in S : Rank(S, x) \in 1..Cardinality(S) /\ Ascending(S)[Rank(S, x)] = x
      /\ \A k \in 1..Cardinality(S) : Ascending(S)[k] \in S /\ Rank(S, Ascending(S)[k]) = k
  BY AscendingLemma
<1>4. \A k \in 1..n : k \in 1..Cardinality(S) /\ Ascending(S)[k] = s[k]
  BY <1>0, <1>2, <1>3
<1>5. ASSUME NEW k \in 1..Cardinality(S) PROVE k \in 1..n
  <2>1. Ascending(S)[k] \in S /\ Rank(S, Ascending(S)[k]) = k
    BY <1>3
  <2>2. PICK i \in 1..n : s[i] = Ascending(S)[k]
    BY <2>1
  <2>3. QED
    BY <1>2, <2>1, <2>2
<1>6. n = Cardinality(S)
  <2>1. \A m \in Nat : (\A k \in 1..n : k \in 1..m) /\ (\A k \in 1..m : k \in 1..n) => n = m
    OBVIOUS
  <2>2. QED
    BY <1>3, <1>4, <1>5, <2>1
<1>7. QED
  BY <1>3, <1>4, <1>6

\* What a filter keeps of ascending rows ascends.
LEMMA KeptLemma ==
    ASSUME NEW S \in SUBSET Nat, IsFiniteSet(S), NEW A
    PROVE  Kept(Ascending(S), A) = Ascending(S \cap A)
<1> DEFINE n == Cardinality(S)
           a == Ascending(S)
           P == {i \in DOMAIN a : a[i] \in A}
           m == Cardinality(P)
           p == Ascending(P)
           s == [k \in 1..m |-> a[p[k]]]
<1>1. /\ n \in Nat /\ a \in [1..n -> S]
      /\ \A x \in S : Rank(S, x) \in 1..n /\ a[Rank(S, x)] = x
      /\ \A j, k \in 1..n : j < k => a[j] < a[k]
  BY AscendingLemma
<1> HIDE DEF n, a
<1>2. P \in SUBSET (1..n) /\ P \in SUBSET Nat /\ \A i \in P : a[i] \in S \cap A
  BY <1>1
<1>3. IsFiniteSet(P)
  BY <1>1, <1>2, IntervalLemma, FS_Subset
<1>4. \A x \in S \cap A : Rank(S, x) \in P
  BY <1>1
<1> HIDE DEF P
<1>5. /\ m \in Nat /\ p \in [1..m -> P]
      /\ \A x \in P : Rank(P, x) \in 1..m /\ p[Rank(P, x)] = x
      /\ \A j, k \in 1..m : j < k => p[j] < p[k]
  BY <1>2, <1>3, AscendingLemma
<1>6. Kept(a, A) = s
  <2>1. DOMAIN p = 1..m
    BY <1>5
  <2>2. QED
    BY <2>1 DEF Kept, P
<1> HIDE DEF m, p
<1>7. s \in [1..m -> S \cap A]
  BY <1>2, <1>5
<1>8. \A i, j \in 1..m : i < j => s[i] < s[j]
  BY <1>1, <1>2, <1>5
<1>9. \A x \in S \cap A : \E k \in 1..m : s[k] = x
  <2> SUFFICES ASSUME NEW x \in S \cap A PROVE \E k \in 1..m : s[k] = x
    OBVIOUS
  <2>1. Rank(S, x) \in P /\ a[Rank(S, x)] = x
    BY <1>1, <1>4
  <2>2. QED
    BY <1>5, <2>1
<1> HIDE DEF s
<1>10. IsFiniteSet(S \cap A) /\ S \cap A \in SUBSET Nat
  BY FS_Subset
<1>11. s = Ascending(S \cap A)
  BY <1>5, <1>7, <1>8, <1>9, <1>10, UniqueLemma
<1>12. QED
  BY <1>6, <1>11 DEF a

\* The numbers below some of a set's are its first ones.
LEMMA FirstLemma ==
    ASSUME NEW S \in SUBSET Nat, IsFiniteSet(S), NEW D \in SUBSET S,
           \A x \in S : \A y \in D : x < y => x \in D
    PROVE  /\ Cardinality(D) \in Nat /\ Cardinality(S) \in Nat
           /\ Cardinality(D) <= Cardinality(S)
           /\ \A k \in 1..Cardinality(D) : Ascending(D)[k] = Ascending(S)[k]
<1>1. IsFiniteSet(D) /\ D \in SUBSET Nat /\ Cardinality(D) <= Cardinality(S)
  BY FS_Subset
<1>2. /\ Cardinality(D) \in Nat
      /\ \A k \in 1..Cardinality(D) : Ascending(D)[k] \in D /\ Rank(D, Ascending(D)[k]) = k
  BY <1>1, AscendingLemma
<1>3. /\ Cardinality(S) \in Nat
      /\ \A x \in S : Ascending(S)[Rank(S, x)] = x
  BY AscendingLemma
<1>4. ASSUME NEW x \in D PROVE Rank(D, x) = Rank(S, x)
  <2>1. {y \in D : y <= x} = {y \in S : y <= x}
    <3> SUFFICES ASSUME NEW y \in S, y <= x PROVE y \in D
      OBVIOUS
    <3>1. y < x \/ y = x
      OBVIOUS
    <3>2. QED
      BY <3>1
  <2>2. QED
    BY <2>1 DEF Rank
<1>5. QED
  BY <1>1, <1>2, <1>3, <1>4

-----------------------------------------------------------------------------
(***************************************************************************)
(* The inductive invariant.                                                *)
(***************************************************************************)

\* The sizes, and what a LIMIT operator is.
LEMMA Sizes ==
    /\ NRows \in Nat /\ BatchSize \in Nat /\ BatchSize > 0 /\ MaxOps \in Nat
    /\ \A l \in Limits : l.n \in Nat /\ l.offset \in Nat
BY LimitAssumption DEF LimitAssumption

\* A cap is a number of rows.
LEMMA CapLemma ==
    ASSUME NEW l \in Limits
    PROVE  Cap(l) \in Nat
BY Sizes DEF Cap

\* A plan is a sequence of operators.
LEMMA PlansAreSequences == Plans \subseteq Seq(Ops)
<1> SUFFICES ASSUME NEW k \in 0..MaxOps, NEW p \in [1..k -> Ops]
             PROVE  p \in Seq(Ops)
  BY DEF Plans
<1>1. k \in Nat
  BY Sizes
<1>2. QED
  BY <1>1, SeqDef

\* No row, and all rows, are what a WHERE clause can leave.
LEMMA ExtremeStatements == <<>> \in Statements /\ Rows(NRows) \in Statements
<1>1. <<>> \in [1..0 -> 1..NRows] /\ 0 \in 0..NRows /\ NRows \in 0..NRows
  BY Sizes
<1>2. Rows(NRows) \in [1..NRows -> 1..NRows]
  BY DEF Rows
<1>3. \A i, j \in DOMAIN Rows(NRows) : i < j => Rows(NRows)[i] < Rows(NRows)[j]
  BY DEF Rows
<1>4. QED
  BY <1>1, <1>2, <1>3 DEF Statements

\* The rows a WHERE clause leaves, and those of the table, are sequences of rows.
LEMMA StatementsAreSequences ==
    /\ Statements \subseteq Seq(1..NRows)
    /\ Rows(NRows) \in Seq(1..NRows)
<1>1. ASSUME NEW s \in Statements PROVE s \in Seq(1..NRows)
  <2>1. PICK k \in 0..NRows : s \in [1..k -> 1..NRows]
    BY DEF Statements
  <2>2. k \in Nat
    BY Sizes
  <2>3. QED
    BY <2>1, <2>2, SeqDef
<1>2. Rows(NRows) \in [1..NRows -> 1..NRows]
  BY DEF Rows
<1>3. QED
  BY <1>1, <1>2, Sizes, SeqDef

\* What a statement can return is rows of the table, ascending.
LEMMA StatementLemma ==
    \A s \in Statements :
        /\ s \in Seq(1..NRows) /\ Len(s) \in Nat /\ Len(s) <= NRows /\ DOMAIN s = 1..Len(s)
        /\ \A i, j \in 1..Len(s) : i < j => s[i] < s[j]
<1> SUFFICES ASSUME NEW s \in Statements
             PROVE  /\ s \in Seq(1..NRows) /\ Len(s) \in Nat /\ Len(s) <= NRows
                    /\ DOMAIN s = 1..Len(s)
                    /\ \A i, j \in 1..Len(s) : i < j => s[i] < s[j]
  OBVIOUS
<1>1. s \in Seq(1..NRows) /\ Len(s) \in Nat /\ DOMAIN s = 1..Len(s)
  BY StatementsAreSequences, LenProperties
<1>2. PICK k \in 0..NRows : s \in [1..k -> 1..NRows]
  BY DEF Statements
<1>3. k = Len(s)
  <2>1. k \in Nat /\ DOMAIN s = 1..k
    BY <1>2, Sizes
  <2>2. QED
    BY <1>1, <2>1, IntervalLemma
<1>4. \A i, j \in DOMAIN s : i < j => s[i] < s[j]
  BY DEF Statements
<1>5. QED
  BY <1>1, <1>3, <1>4, <1>2, Sizes

THEOREM InitInv == Init => LimitInv
<1> SUFFICES ASSUME Init PROVE LimitInv
  OBVIOUS
<1>1. plan \in Seq(Ops) /\ Len(plan) \in Nat
  BY PlansAreSequences, LenProperties DEF Init
<1>2. TypeOK
  <2>1. at \in 1..(Len(plan) + 1)
    BY <1>1 DEF Init
  <2>2. batchSize \in 1..BatchSize /\ fetched \in Nat
    BY Sizes DEF Init
  <2>3. rows \in Seq(1..NRows)
    BY EmptySeq DEF Init
  <2>4. /\ phase \in {"optimize", "scan", "done", "failed"}
        /\ counted \in BOOLEAN
        /\ limitHint \in Nat /\ limitHardCap \in BOOLEAN /\ top \in Nat
    BY DEF Init
  <2>5. QED
    BY <1>1, <2>1, <2>2, <2>3, <2>4 DEF TypeOK
<1>3. CapInv
  BY Sizes DEF Init, CapInv, Returned
<1>4. HardInv
  BY DEF Init, HardInv
<1>5. rows \in Statements
  BY ExtremeStatements DEF Init
<1>6. QED
  BY <1>2, <1>3, <1>4, <1>5 DEF LimitInv

\* A hint that stays is still the cap of its LIMIT.
LEMMA HardCapLemma ==
    ASSUME plan' = plan, limitHint' = limitHint, NEW k, HardCapOf(k)
    PROVE  HardCapOf(k)'
BY DEF HardCapOf, ReachesScan, SawFilter, Below

LEMMA WalkInv ==
    ASSUME LimitInv, Walk
    PROVE  LimitInv'
<1> USE DEF LimitInv
<1>1. /\ plan \in Seq(Ops) /\ Len(plan) \in Nat /\ DOMAIN plan = 1..Len(plan)
      /\ at \in 1..Len(plan)
  BY LenProperties DEF TypeOK, Walk
<1>2. plan[at] \in Ops
  BY <1>1, ElementOfSeq
<1>3. plan[at].kind = "limit" => plan[at].by \in Limits
  BY <1>2 DEF Ops
<1>4. /\ phase = "optimize" /\ at' = at + 1
      /\ UNCHANGED <<plan, phase, statement, fetched, result>>
      /\ \/ /\ plan[at].kind = "limit"
            /\ limitHint' = Cap(plan[at].by) /\ limitHardCap' = ~SawFilter(at)
         \/ UNCHANGED bind
  BY DEF Walk
<1>5. limitHint' \in Nat /\ limitHardCap' \in BOOLEAN
  BY <1>3, <1>4, CapLemma DEF TypeOK, bind
<1>6. TypeOK'
  BY <1>1, <1>4, <1>5 DEF TypeOK, statement
<1>7. SawFilter(at) => Filtered
  BY <1>1 DEF SawFilter, Below, Filtered
<1>8. Filtered' = Filtered /\ Returned' = Returned
  BY <1>4 DEF Filtered, Returned, statement
<1>9. limitHint' > 0 /\ ~Filtered => limitHardCap'
  BY <1>4, <1>7 DEF CapInv, bind
<1>10. CapInv'
  BY <1>4, <1>8, <1>9 DEF CapInv, statement
<1>11. ASSUME limitHint' > 0, limitHardCap'
       PROVE  \E k \in DOMAIN plan' : HardCapOf(k)'
  <2>1. CASE UNCHANGED bind
    <3>1. PICK k \in DOMAIN plan : HardCapOf(k)
      BY <1>11, <2>1 DEF HardInv, bind
    <3>2. HardCapOf(k)'
      BY <1>4, <2>1, <3>1, HardCapLemma DEF bind
    <3>3. QED
      BY <1>4, <3>2
  <2>2. CASE ~UNCHANGED bind
    <3>1. /\ plan[at].kind = "limit" /\ plan[at].by.nBy = "const" /\ ReachesScan(at)
          /\ limitHint' = Cap(plan[at].by) /\ limitHardCap' = ~SawFilter(at)
      BY <2>2 DEF Walk
    <3>2. PICK k \in DOMAIN plan : k = at
      BY <1>1
    <3>3. HardCapOf(k)'
      BY <1>4, <1>11, <3>1, <3>2 DEF HardCapOf, ReachesScan, SawFilter, Below
    <3>4. QED
      BY <1>4, <3>3
  <2>3. QED
    BY <2>1, <2>2
<1>12. HardInv'
  BY <1>4, <1>11 DEF HardInv, statement
<1>13. rows' \in Statements
  BY <1>4 DEF statement
<1>14. QED
  BY <1>6, <1>10, <1>12, <1>13

\* A step that leaves the hint and the TOP alone keeps where they come from.
LEMMA SameHint ==
    ASSUME HardInv, UNCHANGED <<plan, bind, top, counted>>, phase' = "optimize" => phase = "optimize"
    PROVE  HardInv'
<1>1. plan' = plan /\ limitHint' = limitHint /\ limitHardCap' = limitHardCap
  BY DEF bind
<1>2. ASSUME limitHint' > 0, limitHardCap'
      PROVE  \E k \in DOMAIN plan' : HardCapOf(k)'
  <2>1. PICK k \in DOMAIN plan : HardCapOf(k)
    BY <1>1, <1>2 DEF HardInv
  <2>2. HardCapOf(k)'
    BY <1>1, <2>1, HardCapLemma
  <2>3. QED
    BY <1>1, <2>2
<1>3. QED
  BY <1>1, <1>2 DEF HardInv

LEMMA SelectRowsInv ==
    ASSUME LimitInv, NEW some \in Statements, SelectRows(some)
    PROVE  LimitInv'
<1> USE DEF LimitInv
<1>1. rows' \in Seq(1..NRows) /\ Len(rows') \in Nat
  BY StatementsAreSequences, LenProperties DEF SelectRows
<1>2. TypeOK'
  BY <1>1, Sizes DEF SelectRows, UseHint, TypeOK, bind
<1>3. Filtered' = Filtered
  BY DEF SelectRows, Filtered
<1>4. fetched' = 0 /\ 0 <= Returned'
  BY <1>1, <1>2, Sizes DEF SelectRows, Walked, CapInv, Returned, TypeOK
<1>5. CapInv'
  BY <1>3, <1>4 DEF SelectRows, UseHint, CapInv, bind
<1>6. HardInv'
  <2>1. plan' = plan /\ limitHint' = limitHint /\ limitHardCap' = limitHardCap
    BY DEF SelectRows, bind
  <2>2. ASSUME limitHint' > 0, limitHardCap'
        PROVE  \E k \in DOMAIN plan' : HardCapOf(k)'
    <3>1. PICK k \in DOMAIN plan : HardCapOf(k)
      BY <2>1, <2>2 DEF HardInv
    <3>2. HardCapOf(k)'
      BY <2>1, <3>1, HardCapLemma
    <3>3. QED
      BY <2>1, <3>2
  <2>3. phase' = "scan" /\ counted' = counted /\ counted = FALSE
    BY DEF SelectRows, Walked, HardInv, TypeOK
  <2>4. top' > 0 => limitHardCap' /\ top' = limitHint'
    BY <2>1 DEF SelectRows, UseHint
  <2>5. QED
    BY <2>2, <2>3, <2>4 DEF HardInv
<1>7. rows' \in Statements
  BY DEF SelectRows
<1>8. QED
  BY <1>2, <1>5, <1>6, <1>7

LEMMA CountRowsInv ==
    ASSUME LimitInv, CountRows
    PROVE  LimitInv'
<1> USE DEF LimitInv
<1>1. rows' \in Seq(1..NRows) /\ Len(rows') \in Nat
  BY StatementsAreSequences, LenProperties DEF CountRows
<1>2. TypeOK'
  BY <1>1, Sizes DEF CountRows, TypeOK, bind
<1>3. Filtered' = Filtered
  BY DEF CountRows, Filtered
<1>4. fetched' = 0 /\ 0 <= Returned'
  BY <1>1, <1>2, Sizes DEF CountRows, Walked, CapInv, Returned, TypeOK
<1>5. CapInv'
  BY <1>3, <1>4 DEF CountRows, CapInv, bind
<1>6. HardInv'
  <2>1. /\ plan' = plan /\ limitHint' = limitHint /\ limitHardCap' = limitHardCap
        /\ top' = 0 /\ phase' = "scan"
    BY DEF CountRows, Walked, HardInv, bind
  <2>2. ASSUME limitHint' > 0, limitHardCap'
        PROVE  \E k \in DOMAIN plan' : HardCapOf(k)'
    <3>1. PICK k \in DOMAIN plan : HardCapOf(k)
      BY <2>1, <2>2 DEF HardInv
    <3>2. HardCapOf(k)'
      BY <2>1, <3>1, HardCapLemma
    <3>3. QED
      BY <2>1, <3>2
  <2>3. QED
    BY <2>1, <2>2 DEF HardInv
<1>7. rows' \in Statements
  BY ExtremeStatements DEF CountRows
<1>8. QED
  BY <1>2, <1>5, <1>6, <1>7

LEMMA InitGlobalInv ==
    ASSUME LimitInv, InitGlobal
    PROVE  LimitInv'
BY SelectRowsInv, CountRowsInv DEF InitGlobal

LEMMA FetchInv ==
    ASSUME LimitInv, NEW n \in 1..NRows, Fetch(n)
    PROVE  LimitInv'
<1> USE DEF LimitInv
<1>1. /\ phase = "scan" /\ UNCHANGED <<plan, at, phase, bind, statement, result>>
      /\ fetched' \in Nat /\ fetched' <= Returned
  BY Sizes DEF Fetch, TypeOK
<1>2. Returned' = Returned
  BY <1>1 DEF Returned, statement
<1>3. TypeOK'
  BY <1>1, Sizes DEF TypeOK, bind, statement
<1>4. CapInv'
  BY <1>1, <1>2 DEF CapInv, Filtered, bind, statement
<1>5. HardInv'
  BY <1>1, SameHint DEF statement
<1>6. QED
  BY <1>1, <1>3, <1>4, <1>5 DEF statement

LEMMA QuietInv ==
    ASSUME LimitInv, Finish \/ Fail \/ Over \/ UNCHANGED limitVars
    PROVE  LimitInv'
<1>1. /\ UNCHANGED <<plan, at, bind, statement, fetched>>
      /\ \/ phase' = phase
         \/ phase = "scan" /\ phase' = "done"
         \/ phase' = "failed"
  BY DEF Finish, Fail, Over, limitVars
<1>2. TypeOK' /\ CapInv'
  BY <1>1 DEF LimitInv, TypeOK, CapInv, Filtered, Returned, bind, statement
<1>3. HardInv'
  BY <1>1, SameHint DEF LimitInv, statement
<1>4. QED
  BY <1>1, <1>2, <1>3 DEF LimitInv, statement

\* Every step keeps the inductive invariant.
THEOREM NextInv == LimitInv /\ [Next]_limitVars => LimitInv'
BY WalkInv, InitGlobalInv, FetchInv, QuietInv DEF Next

\* The inductive invariant holds in every reachable state.
THEOREM LimitInvariant == Spec => []LimitInv
BY InitInv, NextInv, PTL DEF Spec

\* A pushed LIMIT over a scan whose filters all went to the server bounds the
\* rows that leave the server, for every plan and every size.
THEOREM FetchesNoMore == Spec => []FetchBounded
<1>1. LimitInv => FetchBounded
  <2> SUFFICES ASSUME LimitInv, limitHint > 0, ~counted, ~Filtered
               PROVE  fetched <= limitHint
    BY DEF FetchBounded, Filtered
  <2>1. limitHardCap
    BY DEF LimitInv, CapInv
  <2>2. CASE fetched = 0
    BY <2>2 DEF LimitInv, TypeOK
  <2>3. CASE fetched # 0
    <3>1. top = limitHint
      BY <2>1, <2>3 DEF LimitInv, CapInv
    <3>2. Len(rows) \in Nat /\ fetched <= Returned
      BY LenProperties DEF LimitInv, CapInv, TypeOK
    <3>3. QED
      BY <3>1, <3>2, Sizes DEF LimitInv, TypeOK, Returned
  <2>4. QED
    BY <2>2, <2>3
<1>2. QED
  BY <1>1, LimitInvariant, PTL

-----------------------------------------------------------------------------
(***************************************************************************)
(* What a plan makes of the rows it gets.                                  *)
(***************************************************************************)

\* The recursion over the plan has a solution: each operator applied to what
\* leaves the one below it.
LEMMA OutputLemma ==
    ASSUME plan \in Seq(Ops)
    PROVE  \A s :
              /\ Output(s)[Len(plan) + 1] = s
              /\ \A k \in 1..Len(plan) : Output(s)[k] = Apply(plan[k], Output(s)[k + 1])
<1> SUFFICES ASSUME NEW s
             PROVE  /\ Output(s)[Len(plan) + 1] = s
                    /\ \A k \in 1..Len(plan) : Output(s)[k] = Apply(plan[k], Output(s)[k + 1])
  OBVIOUS
<1>1. PICK p \in Seq(Ops), n \in Nat : p = plan /\ n = Len(plan)
  BY LenProperties
<1> DEFINE step(f, k) == IF k > n THEN s ELSE Apply(p[k], f[k + 1])
           Solves(f, k) == f = [j \in k..(n + 1) |-> step(f, j)]
           T == {k \in 1..(n + 1) : \E f : Solves(f, k)}
<1>2. n + 1 \in T
  <2>1. PICK f : f = [j \in (n + 1)..(n + 1) |-> s]
    OBVIOUS
  <2>2. \A j \in (n + 1)..(n + 1) : j > n
    OBVIOUS
  <2>3. Solves(f, n + 1)
    BY <2>1, <2>2
  <2>4. QED
    BY <2>3
<1>3. ASSUME NEW k \in 1..n, k + 1 \in T
      PROVE  k \in T
  <2>1. PICK f : Solves(f, k + 1)
    BY <1>3
  <2>2. PICK g : g = [j \in k..(n + 1) |-> IF j = k THEN Apply(p[k], f[k + 1]) ELSE f[j]]
    OBVIOUS
  <2>3. k + 1 \in k..(n + 1) /\ k + 1 # k /\ ~(k > n) /\ k \in 1..(n + 1)
    OBVIOUS
  <2>4. g[k + 1] = f[k + 1]
    BY <2>2, <2>3
  <2>5. ASSUME NEW j \in k..(n + 1)
        PROVE  g[j] = step(g, j)
    <3>1. CASE j = k
      BY <2>2, <2>3, <2>4, <3>1
    <3>2. CASE j # k
      <4>1. j \in (k + 1)..(n + 1)
        BY <3>2
      <4>2. g[j] = f[j] /\ f[j] = step(f, j)
        BY <2>1, <2>2, <3>2, <4>1
      <4>3. ~(j > n) => j + 1 \in k..(n + 1) /\ j + 1 # k
        BY <4>1
      <4>4. ~(j > n) => g[j + 1] = f[j + 1]
        BY <2>2, <4>3
      <4>5. QED
        BY <4>2, <4>4
    <3>3. QED
      BY <3>1, <3>2
  <2>6. Solves(g, k)
    BY <2>2, <2>5
  <2>7. QED
    BY <2>3, <2>6
<1>4. 1 \in T
  <2> HIDE DEF T
  <2>1. \A k \in 1..(n + 1) : k \in T
    BY <1>2, <1>3, DownInduction
  <2>2. 1 \in 1..(n + 1)
    OBVIOUS
  <2>3. QED
    BY <2>1, <2>2
<1>5. Output(s) = CHOOSE f : Solves(f, 1)
  BY <1>1 DEF Output
<1>6. Solves(Output(s), 1)
  <2>1. \E f : Solves(f, 1)
    BY <1>4
  <2> HIDE DEF Solves
  <2>2. QED
    BY <1>5, <2>1
<1>7. PICK o : o = Output(s) /\ o = [j \in 1..(n + 1) |-> step(o, j)]
  BY <1>6
<1>8. n + 1 \in 1..(n + 1) /\ n + 1 > n /\ \A k \in 1..n : k \in 1..(n + 1) /\ ~(k > n)
  OBVIOUS
<1>9. o[n + 1] = s /\ \A k \in 1..n : o[k] = Apply(p[k], o[k + 1])
  BY <1>7, <1>8
<1>10. QED
  BY <1>1, <1>7, <1>9

\* The rows that pass all filters from operator k to the scan.
KeepsFrom(k) ==
    {r \in 1..NRows : \A j \in k..Len(plan) : plan[j].kind = "filter" => r \in plan[j].keep}

\* Rows are finitely many, and ascending rows are a sequence.
LEMMA RowSets ==
    \A S \in SUBSET (1..NRows) :
        /\ S \in SUBSET Nat /\ IsFiniteSet(S) /\ Cardinality(S) \in Nat
        /\ Ascending(S) \in Seq(1..NRows) /\ Len(Ascending(S)) = Cardinality(S)
<1> SUFFICES ASSUME NEW S \in SUBSET (1..NRows)
             PROVE  /\ S \in SUBSET Nat /\ IsFiniteSet(S) /\ Cardinality(S) \in Nat
                    /\ Ascending(S) \in Seq(1..NRows) /\ Len(Ascending(S)) = Cardinality(S)
  OBVIOUS
<1>1. S \in SUBSET Nat /\ IsFiniteSet(1..NRows)
  BY Sizes, IntervalLemma
<1>2. IsFiniteSet(S)
  BY <1>1, FS_Subset
<1>3. Cardinality(S) \in Nat /\ Ascending(S) \in [1..Cardinality(S) -> S]
  BY <1>1, <1>2, AscendingLemma
<1>4. Ascending(S) \in [1..Cardinality(S) -> 1..NRows]
  BY <1>3
<1>5. Ascending(S) \in Seq(1..NRows) /\ Len(Ascending(S)) = Cardinality(S)
  <2>1. PICK c \in Nat : c = Cardinality(S)
    BY <1>3
  <2>2. PICK s \in [1..c -> 1..NRows] : s = Ascending(S)
    BY <1>4, <2>1
  <2>3. s \in Seq(1..NRows)
    BY SeqDef
  <2>4. Len(s) \in Nat /\ 1..Len(s) = 1..c
    BY <2>3, LenProperties
  <2>5. QED
    BY <2>1, <2>2, <2>3, <2>4, IntervalLemma
<1>6. QED
  BY <1>1, <1>2, <1>3, <1>5

\* Projections and filters over ascending rows leave those that pass, ascending.
LEMMA ChainLemma ==
    ASSUME plan \in Seq(Ops), NEW h \in 1..(Len(plan) + 1),
           \A j \in h..Len(plan) : plan[j].kind \in {"projection", "filter"}
    PROVE  \A S \in SUBSET (1..NRows) :
              Output(Ascending(S))[h] = Ascending(S \cap KeepsFrom(h))
<1> SUFFICES ASSUME NEW S \in SUBSET (1..NRows)
             PROVE  Output(Ascending(S))[h] = Ascending(S \cap KeepsFrom(h))
  OBVIOUS
<1>1. PICK n \in Nat : n = Len(plan)
  BY LenProperties
<1>2. PICK T : T = {k \in 1..(n + 1) :
                      k >= h => Output(Ascending(S))[k] = Ascending(S \cap KeepsFrom(k))}
  OBVIOUS
<1>3. /\ Output(Ascending(S))[n + 1] = Ascending(S)
      /\ \A k \in 1..n : Output(Ascending(S))[k] = Apply(plan[k], Output(Ascending(S))[k + 1])
  BY <1>1, OutputLemma
<1>4. n + 1 \in T
  <2>1. KeepsFrom(n + 1) = 1..NRows
    BY <1>1 DEF KeepsFrom
  <2>2. S \cap KeepsFrom(n + 1) = S
    BY <2>1
  <2>3. n + 1 \in 1..(n + 1)
    OBVIOUS
  <2>4. Output(Ascending(S))[n + 1] = Ascending(S \cap KeepsFrom(n + 1))
    BY <1>3, <2>2
  <2>5. QED
    BY <1>2, <2>3, <2>4
<1>5. ASSUME NEW k \in 1..n, k + 1 \in T
      PROVE  k \in T
  <2> SUFFICES ASSUME k >= h
               PROVE  Output(Ascending(S))[k] = Ascending(S \cap KeepsFrom(k))
    BY <1>2
  <2>1. PICK R \in SUBSET (1..NRows) : R = S \cap KeepsFrom(k + 1)
    OBVIOUS
  <2>2. Output(Ascending(S))[k + 1] = Ascending(R)
    BY <1>1, <1>2, <1>5, <2>1
  <2>3. k \in h..n /\ plan[k].kind \in {"projection", "filter"}
    BY <1>1
  <2>4. \A j \in k..n : j = k \/ j \in (k + 1)..n
    OBVIOUS
  <2>5. k \in k..n /\ \A j \in (k + 1)..n : j \in k..n
    OBVIOUS
  <2>6. CASE plan[k].kind = "projection"
    <3>1. KeepsFrom(k) = KeepsFrom(k + 1)
      BY <1>1, <2>4, <2>5, <2>6 DEF KeepsFrom
    <3>2. Apply(plan[k], Ascending(R)) = Ascending(R)
      BY <2>6 DEF Apply
    <3>3. QED
      BY <1>3, <2>1, <2>2, <3>1, <3>2
  <2>7. CASE plan[k].kind = "filter"
    <3>1. S \cap KeepsFrom(k) = R \cap plan[k].keep
      BY <1>1, <2>1, <2>4, <2>5, <2>7 DEF KeepsFrom
    <3>2. PICK keep : keep = plan[k].keep
      OBVIOUS
    <3>3. Apply(plan[k], Ascending(R)) = Kept(Ascending(R), keep)
      BY <2>7, <3>2 DEF Apply
    <3>4. Kept(Ascending(R), keep) = Ascending(R \cap keep)
      BY RowSets, KeptLemma
    <3>5. QED
      BY <1>3, <2>2, <3>1, <3>2, <3>3, <3>4
  <2>8. QED
    BY <2>3, <2>6, <2>7
<1>6. \A k \in 1..(n + 1) : k \in T
  BY <1>4, <1>5, DownInduction
<1>7. QED
  BY <1>1, <1>2, <1>6

\* What leaves an operator decides what leaves the plan.
LEMMA AboveLemma ==
    ASSUME plan \in Seq(Ops), NEW s, NEW t, NEW h \in 1..(Len(plan) + 1),
           Output(s)[h] = Output(t)[h]
    PROVE  Output(s)[1] = Output(t)[1]
<1>1. PICK n \in Nat : h = n + 1 /\ n <= Len(plan) /\ Len(plan) \in Nat
  <2>1. Len(plan) \in Nat
    BY LenProperties
  <2>2. \A m \in Nat : \A i \in 1..(m + 1) : i - 1 \in Nat /\ i = (i - 1) + 1 /\ i - 1 <= m
    OBVIOUS
  <2>3. QED
    BY <2>1, <2>2
<1>2. PICK T : T = {k \in 1..(n + 1) : Output(s)[k] = Output(t)[k]}
  OBVIOUS
<1>3. n + 1 \in T
  BY <1>1, <1>2
<1>4. ASSUME NEW k \in 1..n, k + 1 \in T
      PROVE  k \in T
  <2>1. k \in 1..Len(plan) /\ k \in 1..(n + 1)
    BY <1>1
  <2>2. Output(s)[k + 1] = Output(t)[k + 1]
    BY <1>2, <1>4
  <2>3. Output(s)[k] = Output(t)[k]
    BY <2>1, <2>2, OutputLemma
  <2>4. QED
    BY <1>2, <2>1, <2>3
<1>5. \A k \in 1..(n + 1) : k \in T
  BY <1>3, <1>4, DownInduction
<1>6. QED
  BY <1>2, <1>5

\* The first rows of a statement are those up to some row, ascending.
LEMMA PrefixLemma ==
    ASSUME NEW s \in Statements, NEW m \in 0..Len(s)
    PROVE  \E S \in SUBSET (1..NRows) : \E D \in SUBSET S :
              /\ s = Ascending(S) /\ SubSeq(s, 1, m) = Ascending(D) /\ Cardinality(D) = m
              /\ \A x \in S : \A y \in D : x < y => x \in D
<1>1. PICK n \in Nat : n = Len(s)
  BY StatementLemma
<1>2. /\ s \in [1..n -> 1..NRows] /\ m \in Nat /\ m <= n
      /\ \A i, j \in 1..n : i < j => s[i] < s[j]
  <2>1. s \in Seq(1..NRows) /\ \A i, j \in 1..n : i < j => s[i] < s[j]
    BY <1>1, StatementLemma
  <2>2. s \in [1..n -> 1..NRows]
    BY <1>1, <2>1, LenProperties
  <2>3. m \in Nat /\ m <= n
    BY <1>1
  <2>4. QED
    BY <2>1, <2>2, <2>3
<1>3. \A i \in 1..m : i \in 1..n
  BY <1>2
<1> DEFINE S == {s[i] : i \in 1..n}
           D == {s[i] : i \in 1..m}
           t == [i \in 1..m |-> s[i]]
<1>4. S \in SUBSET (1..NRows) /\ D \in SUBSET S /\ D \in SUBSET (1..NRows)
  BY <1>2, <1>3
<1>5. s \in [1..n -> S] /\ t \in [1..m -> D]
  BY <1>2, <1>3
<1>6. (\A x \in S : \E i \in 1..n : s[i] = x) /\ (\A x \in D : \E i \in 1..m : t[i] = x)
  OBVIOUS
<1>7. \A i, j \in 1..m : i < j => t[i] < t[j]
  BY <1>2, <1>3
<1>8. ASSUME NEW x \in S, NEW y \in D, x < y
      PROVE  x \in D
  <2>1. PICK i \in 1..n, j \in 1..m : s[i] = x /\ s[j] = y
    OBVIOUS
  <2>2. ~(j < i)
    <3> SUFFICES ASSUME j < i PROVE FALSE
      OBVIOUS
    <3>1. s[j] < s[i] /\ s[i] \in Nat /\ s[j] \in Nat
      BY <1>2, <1>3
    <3>2. QED
      BY <1>8, <2>1, <3>1
  <2>3. i \in 1..m
    BY <1>2, <2>2
  <2>4. QED
    BY <2>1, <2>3
<1> HIDE DEF S, D
<1>9. s = Ascending(S)
  BY <1>2, <1>4, <1>5, <1>6, RowSets, UniqueLemma
<1> HIDE DEF t
<1>10. t = Ascending(D) /\ m = Cardinality(D)
  BY <1>2, <1>4, <1>5, <1>6, <1>7, RowSets, UniqueLemma
<1>11. SubSeq(s, 1, m) = t
  <2>1. SubSeq(s, 1, m) = [i \in 1..m |-> s[i]]
    <3>1. SubSeq(s, 1, m) = [i \in 1..(1 + m - 1) |-> s[i + 1 - 1]]
      BY <1>2
    <3>2. 1 + m - 1 = m /\ \A i \in 1..m : i + 1 - 1 = i
      BY <1>2
    <3>3. QED
      BY <3>1, <3>2
  <2>2. QED
    BY <2>1 DEF t
<1>12. QED
  BY <1>4, <1>8, <1>9, <1>10, <1>11

\* A LIMIT over projections and filters that has all its rows from the first
\* rows of a statement gets no others from the rest.
LEMMA EnoughLemma ==
    ASSUME plan \in Seq(Ops), NEW S \in SUBSET (1..NRows), NEW D \in SUBSET S,
           \A x \in S : \A y \in D : x < y => x \in D,
           NEW k \in DOMAIN plan, plan[k].kind = "limit", ReachesScan(k),
           Len(Output(Ascending(D))[k + 1]) >= plan[k].by.offset + plan[k].by.n
    PROVE  Output(Ascending(D))[1] = Output(Ascending(S))[1]
<1>1. PICK c \in Nat : c = Len(plan)
  BY LenProperties
<1>2. k \in 1..c /\ k + 1 \in 1..(c + 1) /\ k \in 1..(c + 1)
  BY <1>1, LenProperties
<1>3. plan[k].by \in Limits
  BY ElementOfSeq, <1>1, <1>2 DEF Ops
<1>4. PICK off \in Nat, n \in Nat : off = plan[k].by.offset /\ n = plan[k].by.n
  BY <1>3, Sizes
<1>5. PICK K : K = KeepsFrom(k + 1)
  OBVIOUS
<1>6. \A j \in (k + 1)..Len(plan) : plan[j].kind \in {"projection", "filter"}
  BY DEF ReachesScan, Below
<1>7. /\ Output(Ascending(D))[k + 1] = Ascending(D \cap K)
      /\ Output(Ascending(S))[k + 1] = Ascending(S \cap K)
  <2>1. D \in SUBSET (1..NRows) /\ k + 1 \in 1..(Len(plan) + 1)
    BY <1>1, <1>2
  <2>2. QED
    BY <1>5, <1>6, <2>1, ChainLemma
<1>8. D \cap K \in SUBSET (1..NRows) /\ S \cap K \in SUBSET (1..NRows) /\ D \cap K \in SUBSET (S \cap K)
  OBVIOUS
<1>9. PICK u \in Seq(1..NRows), v \in Seq(1..NRows) :
          u = Ascending(D \cap K) /\ v = Ascending(S \cap K)
  BY <1>8, RowSets
<1>10. /\ Len(u) = Cardinality(D \cap K) /\ Len(v) = Cardinality(S \cap K)
       /\ Len(u) \in Nat /\ Len(v) \in Nat
  BY <1>8, <1>9, RowSets, LenProperties
<1>11. Len(u) <= Len(v) /\ \A i \in 1..Len(u) : u[i] = v[i]
  <2>1. \A x \in S \cap K : \A y \in D \cap K : x < y => x \in D \cap K
    OBVIOUS
  <2>2. S \cap K \in SUBSET Nat /\ IsFiniteSet(S \cap K)
    BY <1>8, RowSets
  <2>3. QED
    BY <1>8, <1>9, <1>10, <2>1, <2>2, FirstLemma
<1>12. off + n <= Len(u)
  BY <1>4, <1>7, <1>9
<1>13. Apply(plan[k], u) = Apply(plan[k], v)
  <2>1. Min2(off + n, Len(u)) = off + n /\ Min2(off + n, Len(v)) = off + n
    <3>1. \A a, b \in Nat : a <= b => Min2(a, b) = a
      BY DEF Min2
    <3>2. off + n \in Nat /\ off + n <= Len(v)
      BY <1>10, <1>11, <1>12
    <3>3. QED
      BY <1>10, <1>12, <3>1, <3>2
  <2>2. /\ Apply(plan[k], u) = SubSeq(u, off + 1, off + n)
        /\ Apply(plan[k], v) = SubSeq(v, off + 1, off + n)
    BY <1>4, <2>1 DEF Apply
  <2>3. \A i \in (off + 1)..(off + n) :
            i \in 1..Len(u) /\ i \in 1..Len(v) /\ u[i] = v[i] /\ u[i] \in 1..NRows /\ v[i] \in 1..NRows
    <3> SUFFICES ASSUME NEW i \in (off + 1)..(off + n)
                 PROVE  /\ i \in 1..Len(u) /\ i \in 1..Len(v)
                        /\ u[i] = v[i] /\ u[i] \in 1..NRows /\ v[i] \in 1..NRows
      OBVIOUS
    <3>1. i \in 1..Len(u) /\ i \in 1..Len(v)
      BY <1>10, <1>11, <1>12
    <3>2. QED
      BY <1>11, <3>1, ElementOfSeq
  <2>4. /\ SubSeq(u, off + 1, off + n) \in Seq(1..NRows)
        /\ Len(SubSeq(u, off + 1, off + n)) = IF off + 1 <= off + n THEN off + n - (off + 1) + 1 ELSE 0
        /\ \A i \in 1..(off + n - (off + 1) + 1) : SubSeq(u, off + 1, off + n)[i] = u[off + 1 + i - 1]
    BY <2>3, SubSeqProperties
  <2>5. /\ SubSeq(v, off + 1, off + n) \in Seq(1..NRows)
        /\ Len(SubSeq(v, off + 1, off + n)) = IF off + 1 <= off + n THEN off + n - (off + 1) + 1 ELSE 0
        /\ \A i \in 1..(off + n - (off + 1) + 1) : SubSeq(v, off + 1, off + n)[i] = v[off + 1 + i - 1]
    BY <2>3, SubSeqProperties
  <2>6. PICK su \in Seq(1..NRows), sv \in Seq(1..NRows) :
            su = SubSeq(u, off + 1, off + n) /\ sv = SubSeq(v, off + 1, off + n)
    BY <2>4, <2>5
  <2>7. Len(su) = Len(sv)
    BY <2>4, <2>5, <2>6
  <2>8. ASSUME NEW i \in 1..Len(su) PROVE su[i] = sv[i]
    <3>1. i \in 1..(off + n - (off + 1) + 1) /\ off + 1 + i - 1 \in (off + 1)..(off + n)
      BY <2>4, <2>6
    <3>2. QED
      BY <2>3, <2>4, <2>5, <2>6, <3>1
  <2>9. su = sv
    BY <2>7, <2>8, SeqEqual
  <2>10. QED
    BY <2>2, <2>6, <2>9
<1>14. Output(Ascending(D))[k] = Output(Ascending(S))[k]
  BY <1>1, <1>2, <1>7, <1>9, <1>13, OutputLemma
<1>15. QED
  BY <1>1, <1>2, <1>14, AboveLemma

\* When the scan may stop, the rows it has returned decide the result: they are
\* all rows of the statement, or a LIMIT has what it needs of them.
LEMMA FinishLemma ==
    ASSUME LimitInv, OffsetsKnown, Finish
    PROVE  Output(Scanned)[1] = Output(rows)[1]
<1>1. /\ plan \in Seq(Ops) /\ Len(plan) \in Nat /\ DOMAIN plan = 1..Len(plan)
      /\ rows \in Statements
      /\ rows \in Seq(1..NRows) /\ Len(rows) \in Nat
      /\ fetched \in Nat /\ top \in Nat
  BY LenProperties DEF LimitInv, TypeOK
<1>2. fetched <= Len(rows)
  BY <1>1 DEF LimitInv, CapInv, Returned
<1>3. PICK S \in SUBSET (1..NRows) : \E D \in SUBSET S :
          /\ rows = Ascending(S) /\ Scanned = Ascending(D) /\ Cardinality(D) = fetched
          /\ \A x \in S : \A y \in D : x < y => x \in D
  <2>1. PICK s \in Statements : s = rows
    BY <1>1
  <2>2. PICK m \in 0..Len(s) : m = fetched
    BY <1>1, <1>2, <2>1
  <2>3. QED
    BY <2>1, <2>2, PrefixLemma DEF Scanned
<1>4. PICK D \in SUBSET S :
          /\ rows = Ascending(S) /\ Scanned = Ascending(D) /\ Cardinality(D) = fetched
          /\ \A x \in S : \A y \in D : x < y => x \in D
  BY <1>3
<1>5. CASE fetched = Len(rows)
  <2>1. Scanned = rows
    BY <1>1, <1>5, SubSeqProperties DEF Scanned
  <2>2. QED
    BY <2>1
<1>6. CASE Satisfied
  <2>1. PICK k \in DOMAIN plan :
            /\ plan[k].kind = "limit" /\ ReachesScan(k)
            /\ Len(Output(Scanned)[k + 1]) >= plan[k].by.offset + plan[k].by.n
    BY <1>6 DEF Satisfied
  <2>2. Len(Output(Ascending(D))[k + 1]) >= plan[k].by.offset + plan[k].by.n
    BY <1>4, <2>1
  <2>3. Output(Ascending(D))[1] = Output(Ascending(S))[1]
    BY <1>1, <1>4, <2>1, <2>2, EnoughLemma
  <2>4. QED
    BY <1>4, <2>3
<1>7. CASE fetched = Returned /\ fetched # Len(rows)
  <2>1. top > 0 /\ fetched = top
    BY <1>1, <1>7 DEF Returned
  <2>2. limitHardCap /\ limitHint = top
    BY <2>1 DEF LimitInv, HardInv
  <2>3. PICK k \in DOMAIN plan : HardCapOf(k)
    BY <2>1, <2>2 DEF LimitInv, HardInv
  <2>4. /\ plan[k].kind = "limit" /\ plan[k].by.nBy = "const"
        /\ ReachesScan(k) /\ ~SawFilter(k) /\ fetched = Cap(plan[k].by)
    BY <2>1, <2>2, <2>3 DEF HardCapOf
  <2>5. plan[k].by \in Limits
    BY <1>1, <2>4, ElementOfSeq DEF Ops
  <2>6. Cap(plan[k].by) = plan[k].by.offset + plan[k].by.n
    <3>1. PICK l \in Limits : l = plan[k].by
      BY <2>5
    <3>2. l.n \in Nat /\ l.offset \in Nat /\ l.offsetBy \in Bounds
      BY LimitAssumption DEF LimitAssumption
    <3>3. l.offsetBy # "expr"
      BY <2>4, <3>1 DEF OffsetsKnown
    <3>4. l.offsetBy = "const" \/ l.offset = 0
      BY <3>2, <3>3, LimitAssumption DEF LimitAssumption, Bounds
    <3>5. Cap(l) = l.offset + l.n
      BY <3>2, <3>4 DEF Cap
    <3>6. QED
      BY <3>1, <3>5
  <2>7. KeepsFrom(k + 1) = 1..NRows
    BY <2>4 DEF KeepsFrom, SawFilter, Below
  <2>8. k + 1 \in 1..(Len(plan) + 1)
    BY <1>1
  <2>9. \A j \in (k + 1)..Len(plan) : plan[j].kind \in {"projection", "filter"}
    BY <2>4 DEF ReachesScan, Below
  <2>10. D \in SUBSET (1..NRows) /\ D \cap (1..NRows) = D
    OBVIOUS
  <2>11. Output(Ascending(D))[k + 1] = Ascending(D)
    BY <1>1, <2>7, <2>8, <2>9, <2>10, ChainLemma
  <2>12. Len(Ascending(D)) = fetched
    BY <1>4, <2>10, RowSets
  <2>13. Len(Output(Ascending(D))[k + 1]) >= plan[k].by.offset + plan[k].by.n
    BY <1>1, <2>4, <2>6, <2>11, <2>12
  <2>14. Output(Ascending(D))[1] = Output(Ascending(S))[1]
    BY <1>1, <1>4, <2>4, <2>13, EnoughLemma
  <2>15. QED
    BY <1>4, <2>14
<1>8. QED
  BY <1>5, <1>6, <1>7 DEF Finish

\* A cap never changes the result, for every plan whose capped LIMITs have
\* offsets the optimizer knows; what limits the claim is an OFFSET given by an
\* expression, which the optimizer takes for none.
THEOREM LimitExact == OffsetsKnown => (Spec => []LeftAloneIsCorrect)
<1> SUFFICES ASSUME OffsetsKnown
             PROVE  Spec => []LeftAloneIsCorrect
  OBVIOUS
<1>1. Init => LeftAloneIsCorrect
  BY DEF Init, LeftAloneIsCorrect
<1>2. LimitInv /\ LeftAloneIsCorrect /\ [Next]_limitVars => LeftAloneIsCorrect'
  <2> SUFFICES ASSUME LimitInv, LeftAloneIsCorrect, [Next]_limitVars, phase' = "done"
               PROVE  result' = Output(rows)[1]'
    BY DEF LeftAloneIsCorrect
  <2>1. CASE Finish
    <3>1. result' = Output(Scanned)[1] /\ plan' = plan /\ rows' = rows
      BY <2>1 DEF Finish, statement
    <3>2. Output(rows)' = Output(rows)
      BY <3>1 DEF Output
    <3>3. QED
      BY <2>1, <3>1, <3>2, FinishLemma
  <2>2. CASE ~Finish
    <3>1. phase = "done" /\ result' = result /\ plan' = plan /\ rows' = rows
      BY <2>2 DEF Next, Walk, InitGlobal, SelectRows, CountRows, Walked, Fetch, Fail, Over,
                  limitVars, statement
    <3>2. Output(rows)' = Output(rows)
      BY <3>1 DEF Output
    <3>3. QED
      BY <3>1, <3>2 DEF LeftAloneIsCorrect
  <2>3. QED
    BY <2>1, <2>2
<1>3. QED
  BY <1>1, <1>2, LimitInvariant, PTL DEF Spec

=============================================================================
