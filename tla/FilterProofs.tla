---------------------------- MODULE FilterProofs ----------------------------
(***************************************************************************)
(* Proofs about FilterRender, for expressions and filters of any depth     *)
(* over any set of values, and for every way the server may compare NULL.  *)
(***************************************************************************)
EXTENDS FilterRender, WellFoundedInduction, TLAPS

-----------------------------------------------------------------------------
(***************************************************************************)
(* Induction and recursion over a measure.                                 *)
(***************************************************************************)

LEMMA LeastLemma ==
    ASSUME NEW S \in SUBSET Nat, S # {}
    PROVE  \E x \in S : \A y \in S : x <= y
<1> DEFINE R == OpToRel(<, Nat)
<1>1. \A x, y \in Nat : <<x, y>> \in R <=> x < y
  BY Zenon DEF OpToRel
<1>2. IsWellFoundedOn(R, Nat)
  BY NatLessThanWellFounded, Zenon
<1> HIDE DEF R
<1>3. PICK x \in S : \A y \in S : ~(<<y, x>> \in R)
  BY <1>2, WFMin
<1>4. \A y \in S : ~(y < x)
  BY <1>1, <1>3
<1>5. QED
  BY <1>4

\* What holds of each element of which it holds of those of smaller depth.
LEMMA DepthInduction ==
    ASSUME NEW U, NEW d \in [U -> Nat], NEW T,
           \A x \in U : (\A y \in U : d[y] < d[x] => y \in T) => x \in T
    PROVE  \A x \in U : x \in T
<1> SUFFICES ASSUME NEW z \in U, z \notin T PROVE FALSE
  OBVIOUS
<1> DEFINE Bad == {d[x] : x \in U \ T}
<1>1. Bad \in SUBSET Nat /\ d[z] \in Bad
  OBVIOUS
<1> HIDE DEF Bad
<1>2. PICK n \in Bad : \A m \in Bad : n <= m
  BY <1>1, LeastLemma
<1>3. PICK x \in U \ T : d[x] = n
  BY DEF Bad
<1>4. ASSUME NEW y \in U, d[y] < d[x] PROVE y \in T
  <2> SUFFICES ASSUME y \notin T PROVE FALSE
    OBVIOUS
  <2>1. d[y] \in Bad
    BY DEF Bad
  <2>2. d[x] <= d[y] /\ d[x] \in Nat /\ d[y] \in Nat
    BY <1>2, <1>3, <2>1
  <2>3. QED
    BY <1>4, <2>2
<1>5. QED
  BY <1>3, <1>4

\* A recursion that goes to smaller depths only has a solution.
IsMeasure(d, U)    == d \in [U -> Nat]
IsStep(B, U, V, d) ==
    /\ B \in [U -> [[U -> V] -> V]]
    /\ \A x \in U, g, h \in [U -> V] :
          (\A y \in U : d[y] < d[x] => g[y] = h[y]) => B[x][g] = B[x][h]
IsSolution(f, B, U, V) == f \in [U -> V] /\ \A x \in U : f[x] = B[x][f]

LEMMA Recursion ==
    ASSUME NEW U, NEW V, NEW v0 \in V, NEW d, NEW B, IsMeasure(d, U), IsStep(B, U, V, d)
    PROVE  \E f : IsSolution(f, B, U, V)
<1> DEFINE Upto(n, f) == \A x \in U : d[x] < n => f[x] = B[x][f]
           N == {n \in Nat : \E f \in [U -> V] : Upto(n, f)}
<1>1. \A x \in U : d[x] \in Nat
  BY DEF IsMeasure
<1>1a. \A f \in [U -> V], x \in U : B[x][f] \in V
  BY DEF IsStep
\* Solutions up to a depth agree up to it.
<1>2. ASSUME NEW n \in Nat, NEW g \in [U -> V], NEW h \in [U -> V], Upto(n, g), Upto(n, h)
      PROVE  \A x \in U : d[x] < n => g[x] = h[x]
  <2> DEFINE T == {x \in U : d[x] < n => g[x] = h[x]}
  <2>1. ASSUME NEW x \in U, \A y \in U : d[y] < d[x] => y \in T
        PROVE  x \in T
    <3> SUFFICES ASSUME d[x] < n PROVE g[x] = h[x]
      OBVIOUS
    <3>1. \A y \in U : d[y] < d[x] => d[y] < n
      BY <1>1
    <3>2. \A y \in U : d[y] < d[x] => g[y] = h[y]
      BY <2>1, <3>1
    <3>3. B[x][g] = B[x][h]
      BY <3>2 DEF IsStep
    <3>4. QED
      BY <1>2, <3>3
  <2> HIDE DEF T
  <2>2. \A x \in U : x \in T
    BY <2>1, DepthInduction DEF IsMeasure
  <2>3. QED
    BY <2>2 DEF T
\* There is one up to each depth.
<1>3. 0 \in N
  <2>1. [x \in U |-> v0] \in [U -> V]
    OBVIOUS
  <2>2. \A x \in U : ~(d[x] < 0)
    BY <1>1
  <2>3. Upto(0, [x \in U |-> v0])
    BY <2>2
  <2>4. QED
    BY <2>1, <2>3
<1>4. ASSUME NEW n \in N
      PROVE  n + 1 \in N
  <2>1. n \in Nat /\ n + 1 \in Nat
    OBVIOUS
  <2>2. PICK f \in [U -> V] : Upto(n, f)
    OBVIOUS
  <2>3. PICK g : g = [x \in U |-> IF d[x] < n THEN f[x] ELSE B[x][f]]
    OBVIOUS
  <2>4. g \in [U -> V]
    BY <1>1a, <2>1, <2>3
  <2>5. ASSUME NEW x \in U, d[x] < n + 1
        PROVE  g[x] = B[x][g]
    <3>1. \A y \in U : d[y] < d[x] => d[y] < n
      BY <1>1, <2>1, <2>5
    <3>2. \A y \in U : d[y] < d[x] => g[y] = f[y]
      BY <2>3, <3>1
    <3>3. B[x][g] = B[x][f]
      BY <2>4, <3>2 DEF IsStep
    <3>4. g[x] = B[x][f]
      BY <2>2, <2>3
    <3>5. QED
      BY <3>3, <3>4
  <2>6. QED
    BY <2>1, <2>4, <2>5
<1>5. \A n \in Nat : n \in N
  <2> HIDE DEF N
  <2>1. PICK id \in [Nat -> Nat] : \A n \in Nat : id[n] = n
    <3>1. [n \in Nat |-> n] \in [Nat -> Nat]
      OBVIOUS
    <3>2. QED
      BY <3>1
  <2>2. ASSUME NEW n \in Nat, \A m \in Nat : id[m] < id[n] => m \in N
        PROVE  n \in N
    <3>1. CASE n = 0
      BY <1>3, <3>1
    <3>2. CASE n # 0
      <4>1. n - 1 \in Nat /\ n - 1 < n /\ (n - 1) + 1 = n
        BY <3>2
      <4>2. n - 1 \in N
        BY <2>1, <2>2, <4>1
      <4>3. QED
        BY <1>4, <4>1, <4>2
    <3>3. QED
      BY <3>1, <3>2
  <2>3. QED
    BY <2>1, <2>2, DepthInduction
\* Each element takes its value from one that is right up to it.
<1> DEFINE s == [n \in Nat |-> CHOOSE f \in [U -> V] : Upto(n, f)]
<1>6. \A n \in Nat : s[n] \in [U -> V] /\ Upto(n, s[n])
  <2> SUFFICES ASSUME NEW n \in Nat PROVE s[n] \in [U -> V] /\ Upto(n, s[n])
    OBVIOUS
  <2>1. \E f \in [U -> V] : Upto(n, f)
    BY <1>5
  <2> HIDE DEF Upto
  <2>2. QED
    BY <2>1
<1> HIDE DEF s
<1>7. PICK f : f = [x \in U |-> s[d[x] + 1][x]]
  OBVIOUS
<1>8. \A x \in U : d[x] + 1 \in Nat /\ d[x] < d[x] + 1
  BY <1>1
<1>9. f \in [U -> V]
  BY <1>6, <1>7, <1>8
<1>10. ASSUME NEW x \in U
       PROVE  f[x] = B[x][f]
  <2> DEFINE n == d[x] + 1
  <2>1. n \in Nat /\ d[x] < n /\ d[x] \in Nat
    BY <1>1, <1>8
  <2>2. s[n] \in [U -> V] /\ Upto(n, s[n])
    BY <1>6, <2>1
  <2>3. ASSUME NEW y \in U, d[y] < d[x]
        PROVE  s[n][y] = f[y]
    <3>1. d[y] + 1 \in Nat /\ d[y] < d[y] + 1 /\ d[y] \in Nat
      BY <1>1, <1>8
    <3>2. s[d[y] + 1] \in [U -> V] /\ Upto(d[y] + 1, s[d[y] + 1])
      BY <1>6, <3>1
    <3>3. Upto(d[y] + 1, s[n])
      BY <2>1, <2>2, <2>3, <3>1, <1>1
    <3>4. s[n][y] = s[d[y] + 1][y]
      <4> HIDE DEF Upto, n
      <4>1. QED
        BY <1>2, <2>2, <3>1, <3>2, <3>3
    <3>5. QED
      BY <1>7, <3>4
  <2>4. B[x][s[n]] = B[x][f]
    <3> HIDE DEF n
    <3>1. QED
      BY <1>9, <2>2, <2>3 DEF IsStep
  <2>5. s[n][x] = B[x][s[n]]
    BY <2>1, <2>2
  <2>6. QED
    BY <1>7, <2>4, <2>5
<1>11. QED
  BY <1>9, <1>10 DEF IsSolution

-----------------------------------------------------------------------------
(***************************************************************************)
(* The recursive functions over expressions and filters, and their types.  *)
(***************************************************************************)

Truths == {True, False, Null}
Texts  == {None} \cup [e : {"text"}, is : [NullCompares -> [Values -> Values]]]

LEMMA LogicTypes ==
    /\ Truths \subseteq Values /\ NullCompares \subseteq Truths
    /\ \A b : Bool(b) \in Truths
    /\ \A vs : And3(vs) \in Truths /\ Or3(vs) \in Truths /\ Not3(vs) \in Truths
    /\ \A op, a, b : SqlCompare(op, a, b) \in Truths
    /\ \A op, a, b : \A nc \in NullCompares : ServerCompare(op, nc, a, b) \in Truths
BY ValuesAssumption
   DEF Bool, And3, Or3, Not3, SqlCompare, ServerCompare, Compare, Truths, NullCompares

LEMMA TextTypes ==
    /\ ColumnText \in Texts
    /\ \A v \in Values, type \in Types : RenderValue(v, type) \in Texts
    /\ \A op, l, r : Comparison(op, l, r) \in Texts
    /\ \A neg, x : NullTest(neg, x) \in Texts
    /\ \A neg, probe, items : Membership(neg, probe, items) \in Texts
    /\ \A texts : AllOf(texts) \in Texts /\ SomeOf(texts) \in Texts
<1>1. ColumnText \in Texts
  BY DEF ColumnText, Text, Texts
<1>2. \A v \in Values, type \in Types : RenderValue(v, type) \in Texts
  BY ValuesAssumption DEF RenderValue, Text, Texts
<1>3. \A op, l, r : Comparison(op, l, r) \in Texts
  <2> TAKE op, l, r
  <2>1. \A nc \in NullCompares, c \in Values : ServerCompare(op, nc, l.is[nc][c], r.is[nc][c]) \in Values
    BY LogicTypes
  <2>2. QED
    BY <2>1 DEF Comparison, Text, Texts
<1>4. \A neg, x : NullTest(neg, x) \in Texts
  <2> TAKE neg, x
  <2>1. \A nc \in NullCompares, c \in Values : Bool((x.is[nc][c] = Null) # neg) \in Values
    BY LogicTypes
  <2>2. QED
    BY <2>1 DEF NullTest, Text, Texts
<1>5. \A neg, probe, items : Membership(neg, probe, items) \in Texts
  <2> TAKE neg, probe, items
  <2>1. \A vs : And3(vs) \in Values /\ Or3(vs) \in Values
    BY LogicTypes
  <2>2. QED
    BY <2>1 DEF Membership, Text, Texts
<1>6. \A texts : AllOf(texts) \in Texts /\ SomeOf(texts) \in Texts
  <2> TAKE texts
  <2>1. \A vs : And3(vs) \in Values /\ Or3(vs) \in Values
    BY LogicTypes
  <2>2. QED
    BY <2>1 DEF AllOf, SomeOf, Text, Texts
<1>7. QED
  BY <1>1, <1>2, <1>3, <1>4, <1>5, <1>6

LEMMA SequenceElements ==
    \A S, s : s \in Seq(S) => /\ \A i \in DOMAIN s : s[i] \in S
                              /\ s # <<>> => 1 \in DOMAIN s
<1> SUFFICES ASSUME NEW S, NEW s \in Seq(S)
             PROVE  /\ \A i \in DOMAIN s : s[i] \in S
                    /\ s # <<>> => 1 \in DOMAIN s
  OBVIOUS
<1>1. DOMAIN s = 1..Len(s) /\ Len(s) \in Nat /\ \A i \in 1..Len(s) : s[i] \in S
  OBVIOUS
<1>2. s # <<>> => Len(s) # 0
  OBVIOUS
<1>3. QED
  BY <1>1, <1>2

\* The parts of an expression and of a filter.
LEMMA ExpressionParts ==
    \A x \in Expressions :
        /\ x.e \in {"col", "const", "left", "func", "cmp", "in", "isnull", "conj"}
        /\ x.e = "col" => x = Column
        /\ x.e = "const" => x.v \in Values /\ x.type \in Types
        /\ x.e = "left" => x.n \in Int
        /\ x.e \in {"left", "func"} => \A v \in Values : Applied(x, v) \in Values
        /\ x.e = "cmp" => x.op \in Ops
        /\ x.e \in {"in", "isnull"} => x.neg \in BOOLEAN
        /\ x.e = "conj" => x.op \in {"and", "or"}
        /\ \A y \in Children(x) : y \in Expressions /\ Depth[y] < Depth[x] /\ Depth[y] \in Nat
<1> TAKE x \in Expressions
<1>1. x.e \in {"left", "func"} => \A v \in Values : Applied(x, v) \in Values
  BY ExpressionsAssumption
<1>2. (\A y \in Children(x) : y \in Expressions) =>
          \A y \in Children(x) : y \in Expressions /\ Depth[y] < Depth[x] /\ Depth[y] \in Nat
  BY DepthAssumption
<1>3. \A s \in Seq(Expressions) : Elems(s) \subseteq Expressions
  BY SequenceElements DEF Elems
<1>4. CASE x = Column
  BY <1>4 DEF Column, Children
<1>5. CASE x \in [e : {"const"}, v : Values, type : Types]
  BY <1>5 DEF Children
<1>6. CASE x \in [e : {"left"}, arg : Expressions, n : Int]
  BY <1>1, <1>2, <1>6 DEF Children
<1>7. CASE x \in [e : {"func"}, arg : Expressions, fn : Functions]
  BY <1>1, <1>2, <1>7 DEF Children
<1>8. CASE x \in [e : {"cmp"}, op : Ops, l : Expressions, r : Expressions]
  BY <1>2, <1>8 DEF Children
<1>9. CASE x \in [e : {"in"}, neg : BOOLEAN, probe : Expressions, items : Seq(Expressions)]
  <2>1. x.e = "in" /\ x.neg \in BOOLEAN /\ x.probe \in Expressions /\ Elems(x.items) \subseteq Expressions
    BY <1>3, <1>9
  <2>2. QED
    BY <1>2, <2>1 DEF Children
<1>10. CASE x \in [e : {"isnull"}, neg : BOOLEAN, arg : Expressions]
  BY <1>2, <1>10 DEF Children
<1>11. CASE x \in [e : {"conj"}, op : {"and", "or"}, args : Seq(Expressions)]
  <2>1. x.e = "conj" /\ x.op \in {"and", "or"} /\ Elems(x.args) \subseteq Expressions
    BY <1>3, <1>11
  <2>2. QED
    BY <1>2, <2>1 DEF Children
<1>12. QED
  BY <1>4, <1>5, <1>6, <1>7, <1>8, <1>9, <1>10, <1>11, ExpressionsAssumption

LEMMA FilterParts ==
    \A f \in TableFilters :
        /\ f.f \in {"null", "cmp", "in", "expr", "dynamic", "bloom", "struct", "optional", "and", "or"}
        /\ f.f = "null" => f.neg \in BOOLEAN
        /\ f.f = "cmp" => f.op \in Ops /\ f.v \in Values /\ f.type \in Types
        /\ f.f = "in" => f.type \in Types /\ \A i \in DOMAIN f.vals : f.vals[i] \in Values
        /\ f.f = "expr" => f.expr \in Expressions
        /\ f.f = "optional" => f.kid \in TableFilters /\ Depth[f.kid] < Depth[f]
        /\ f.f \in {"and", "or"} => /\ 1 \in DOMAIN f.kids
                                    /\ \A i \in DOMAIN f.kids :
                                          f.kids[i] \in TableFilters /\ Depth[f.kids[i]] < Depth[f]
<1> TAKE f \in TableFilters
<1>1. CASE f \in [f : {"null"}, neg : BOOLEAN]
  BY <1>1
<1>2. CASE f \in [f : {"cmp"}, op : Ops, v : Values, type : Types]
  BY <1>2
<1>3. CASE f \in [f : {"in"}, vals : Seq(Values), type : Types]
  <2>1. f.vals \in Seq(Values)
    BY <1>3
  <2>2. \A i \in DOMAIN f.vals : f.vals[i] \in Values
    BY <2>1, SequenceElements
  <2>3. QED
    BY <1>3, <2>2
<1>4. CASE f \in [f : {"expr"}, expr : Expressions]
  BY <1>4
<1>5. CASE f \in [f : {"dynamic", "bloom", "struct"}]
  BY <1>5
<1>6. CASE f \in [f : {"optional"}, kid : TableFilters]
  <2>1. Depth[f.kid] < Depth[f]
    BY <1>6, DepthAssumption DEF Kids
  <2>2. QED
    BY <1>6, <2>1
<1>7. CASE f \in [f : {"and", "or"}, kids : Seq(TableFilters)] /\ f.kids # <<>>
  <2>1. f.kids \in Seq(TableFilters)
    BY <1>7
  <2>2. 1 \in DOMAIN f.kids /\ \A i \in DOMAIN f.kids : f.kids[i] \in TableFilters
    BY <1>7, <2>1, SequenceElements
  <2>3. \A i \in DOMAIN f.kids : Depth[f.kids[i]] < Depth[f]
    BY <1>7, DepthAssumption DEF Kids, Elems
  <2>4. QED
    BY <1>7, <2>2, <2>3
<1>8. QED
  BY <1>1, <1>2, <1>3, <1>4, <1>5, <1>6, <1>7, FiltersAssumption

LEMMA RenderTypes ==
    /\ None \in Texts
    /\ \A op, l, r, guards : RenderComparison(op, l, r, guards) \in Texts
    /\ \A neg, probe, items, guards : RenderMembership(neg, probe, items, guards) \in Texts
    /\ \A neg, arg : RenderNullTest(neg, arg) \in Texts
    /\ \A op, texts : RenderConj(op, texts) \in Texts
    /\ \A f, texts : RenderAnd(f, texts) \in Texts
    /\ \A arg \in Texts : \A n : (\A v \in Values : Left(v, n) \in Values) => RenderLeft(arg, n) \in Texts
<1>1. None \in Texts
  BY DEF Texts
<1>2. \A op, l, r, guards : RenderComparison(op, l, r, guards) \in Texts
  BY <1>1, TextTypes DEF RenderComparison
<1>3. \A neg, probe, items, guards : RenderMembership(neg, probe, items, guards) \in Texts
  BY <1>1, TextTypes DEF RenderMembership
<1>4. \A neg, arg : RenderNullTest(neg, arg) \in Texts
  BY <1>1, TextTypes DEF RenderNullTest
<1>5. \A op, texts : RenderConj(op, texts) \in Texts
  BY <1>1, TextTypes DEF RenderConj
<1>6. \A f, texts : RenderAnd(f, texts) \in Texts
  BY <1>1, TextTypes DEF RenderAnd
<1>7. ASSUME NEW arg \in Texts, NEW n, \A v \in Values : Left(v, n) \in Values
      PROVE  RenderLeft(arg, n) \in Texts
  <2>1. CASE n < 0 \/ arg = None
    BY <1>1, <2>1 DEF RenderLeft
  <2>2. CASE ~(n < 0 \/ arg = None)
    <3>1. \A nc \in NullCompares, c \in Values : arg.is[nc][c] \in Values
      BY <2>2 DEF Texts
    <3>2. [nc \in NullCompares |-> [c \in Values |-> Left(arg.is[nc][c], n)]] \in
              [NullCompares -> [Values -> Values]]
      BY <1>7, <3>1
    <3>3. QED
      BY <2>2, <3>2 DEF RenderLeft, Text, Texts
  <2>3. QED
    BY <2>1, <2>2
<1>8. QED
  BY <1>1, <1>2, <1>3, <1>4, <1>5, <1>6, <1>7

LEMMA RenderExpressionLemma ==
    /\ RenderDbisamExpression \in [Expressions -> Texts]
    /\ \A x \in Expressions : RenderDbisamExpression[x] =
          CASE x.e = "col"    -> ColumnText
            [] x.e = "const"  -> RenderValue(x.v, x.type)
            [] x.e = "left"   -> RenderLeft(RenderDbisamExpression[x.arg], x.n)
            [] x.e = "cmp"    -> RenderComparison(x.op, RenderDbisamExpression[x.l], RenderDbisamExpression[x.r],
                                     NullGuard(x.l, RenderDbisamExpression[x.l]) \cup NullGuard(x.r, RenderDbisamExpression[x.r]))
            [] x.e = "in"     -> RenderMembership(x.neg, RenderDbisamExpression[x.probe], {RenderDbisamExpression[y] : y \in Elems(x.items)},
                                     NullGuard(x.probe, RenderDbisamExpression[x.probe]))
            [] x.e = "isnull" -> RenderNullTest(x.neg, RenderDbisamExpression[x.arg])
            [] x.e = "conj"   -> RenderConj(x.op, {RenderDbisamExpression[y] : y \in Elems(x.args)})
            [] OTHER          -> None
<1> DEFINE Body(g, x) ==
             CASE x.e = "col"    -> ColumnText
               [] x.e = "const"  -> RenderValue(x.v, x.type)
               [] x.e = "left"   -> RenderLeft(g[x.arg], x.n)
               [] x.e = "cmp"    -> RenderComparison(x.op, g[x.l], g[x.r],
                                        NullGuard(x.l, g[x.l]) \cup NullGuard(x.r, g[x.r]))
               [] x.e = "in"     -> RenderMembership(x.neg, g[x.probe], {g[y] : y \in Elems(x.items)},
                                        NullGuard(x.probe, g[x.probe]))
               [] x.e = "isnull" -> RenderNullTest(x.neg, g[x.arg])
               [] x.e = "conj"   -> RenderConj(x.op, {g[y] : y \in Elems(x.args)})
               [] OTHER          -> None
           U == Expressions
           V == Texts
           d == [x \in U |-> Depth[x]]
           B == [x \in U |-> [g \in [U -> V] |-> Body(g, x)]]
           Solves(f) == f = [x \in U |-> Body(f, x)]
<1>1. IsMeasure(d, U) /\ \A x \in U : d[x] = Depth[x]
  BY DepthAssumption DEF IsMeasure
<1>2. ASSUME NEW x \in U, NEW g, \A y \in U : d[y] < d[x] => g[y] \in V
      PROVE  Body(g, x) \in V
  <2>1. CASE x.e = "col"
    BY <2>1, TextTypes
  <2>2. CASE x.e = "const"
    BY <2>2, TextTypes, ExpressionParts
  <2>3. CASE x.e = "left"
    <3>1. g[x.arg] \in Texts
      BY <1>1, <1>2, <2>3, ExpressionParts DEF Children
    <3>2. \A v \in Values : Left(v, x.n) \in Values
      BY <2>3, ExpressionParts DEF Applied
    <3>3. RenderLeft(g[x.arg], x.n) \in Texts
      BY <3>1, <3>2, RenderTypes
    <3>4. QED
      BY <2>3, <3>3
  <2>4. CASE x.e = "cmp"
    BY <2>4, RenderTypes
  <2>5. CASE x.e = "in"
    BY <2>5, RenderTypes
  <2>6. CASE x.e = "isnull"
    BY <2>6, RenderTypes
  <2>7. CASE x.e = "conj"
    BY <2>7, RenderTypes
  <2>8. CASE x.e = "func"
    BY <2>8, RenderTypes
  <2>9. QED
    BY <2>1, <2>2, <2>3, <2>4, <2>5, <2>6, <2>7, <2>8, ExpressionParts
<1>3. ASSUME NEW x \in U, NEW g, NEW h, \A y \in U : d[y] < d[x] => g[y] = h[y]
      PROVE  Body(g, x) = Body(h, x)
  <2>1. \A y \in Children(x) : g[y] = h[y]
    BY <1>1, <1>3, ExpressionParts
  <2>2. CASE x.e \in {"left", "isnull"}
    <3>1. g[x.arg] = h[x.arg]
      BY <2>1, <2>2 DEF Children
    <3>2. QED
      BY <2>2, <3>1
  <2>3. CASE x.e = "cmp"
    <3>1. g[x.l] = h[x.l] /\ g[x.r] = h[x.r]
      BY <2>1, <2>3 DEF Children
    <3>2. QED
      BY <2>3, <3>1
  <2>4. CASE x.e = "in"
    <3>1. g[x.probe] = h[x.probe] /\ \A y \in Elems(x.items) : g[y] = h[y]
      BY <2>1, <2>4 DEF Children
    <3>2. {g[y] : y \in Elems(x.items)} = {h[y] : y \in Elems(x.items)}
      BY <3>1
    <3>3. QED
      BY <2>4, <3>1, <3>2
  <2>5. CASE x.e = "conj"
    <3>1. \A y \in Elems(x.args) : g[y] = h[y]
      BY <2>1, <2>5 DEF Children
    <3>2. {g[y] : y \in Elems(x.args)} = {h[y] : y \in Elems(x.args)}
      BY <3>1
    <3>3. QED
      BY <2>5, <3>2
  <2>6. CASE x.e \in {"col", "const", "func"}
    BY <2>6
  <2>7. QED
    BY <2>2, <2>3, <2>4, <2>5, <2>6, ExpressionParts
<1>4. IsStep(B, U, V, d)
  <2>1. \A x \in U, g \in [U -> V] : Body(g, x) \in V
    <3> HIDE DEF Body, V, d
    <3>1. QED
      BY <1>2
  <2>2. \A x \in U, g, h \in [U -> V] :
           (\A y \in U : d[y] < d[x] => g[y] = h[y]) => Body(g, x) = Body(h, x)
    <3> HIDE DEF Body, U, V, d
    <3>1. QED
      BY <1>3
  <2> HIDE DEF Body, U, V, d
  <2>3. QED
    BY <2>1, <2>2 DEF IsStep
<1>5. \E f : Solves(f)
  <2>1. None \in V
    BY DEF Texts
  <2> HIDE DEF B, U, V, d, Body
  <2>2. PICK f : IsSolution(f, B, U, V)
    BY <1>1, <1>4, <2>1, Recursion
  <2>3. f \in [U -> V] /\ \A x \in U : f[x] = Body(f, x)
    BY <2>2 DEF IsSolution, B
  <2>4. f = [x \in U |-> Body(f, x)]
    BY <2>3
  <2>5. QED
    BY <2>4
<1>6. Solves(RenderDbisamExpression)
  <2>1. RenderDbisamExpression = CHOOSE f : Solves(f)
    BY DEF RenderDbisamExpression
  <2> HIDE DEF Solves
  <2>2. QED
    BY <1>5, <2>1
<1>7. \A x \in U : RenderDbisamExpression[x] = Body(RenderDbisamExpression, x)
  BY <1>6
<1>8. \A x \in U : RenderDbisamExpression[x] \in V
  <2> DEFINE T == {x \in U : RenderDbisamExpression[x] \in V}
  <2>1. ASSUME NEW x \in U, \A y \in U : d[y] < d[x] => y \in T
        PROVE  x \in T
    <3> HIDE DEF Body, V, U, d
    <3>1. QED
      BY <1>2, <1>7, <2>1
  <2> HIDE DEF T, U, V, d
  <2>2. \A x \in U : x \in T
    BY <1>1, <2>1, DepthInduction DEF IsMeasure
  <2>3. QED
    BY <2>2 DEF T
<1>9. RenderDbisamExpression \in [U -> V]
  <2> HIDE DEF Body, V
  <2>1. QED
    BY <1>6, <1>8
<1>10. QED
  BY <1>7, <1>9

LEMMA SkippableLemma ==
    /\ IsSkippableFilter \in [TableFilters -> BOOLEAN]
    /\ \A x \in TableFilters : IsSkippableFilter[x] =
          (\/ x.f \in {"optional", "dynamic", "bloom"}
           \/ x.f = "and" /\ \A i \in DOMAIN x.kids : IsSkippableFilter[x.kids[i]])
<1> DEFINE Body(g, x) ==
             (\/ x.f \in {"optional", "dynamic", "bloom"}
              \/ x.f = "and" /\ \A i \in DOMAIN x.kids : g[x.kids[i]])
           U == TableFilters
           V == BOOLEAN
           d == [x \in U |-> Depth[x]]
           B == [x \in U |-> [g \in [U -> V] |-> Body(g, x)]]
           Solves(f) == f = [x \in U |-> Body(f, x)]
<1>1. IsMeasure(d, U) /\ \A x \in U : d[x] = Depth[x]
  BY DepthAssumption DEF IsMeasure
<1>2. ASSUME NEW x \in U, NEW g, \A y \in U : d[y] < d[x] => g[y] \in V
      PROVE  Body(g, x) \in V
  OBVIOUS
<1>3. ASSUME NEW x \in U, NEW g, NEW h, \A y \in U : d[y] < d[x] => g[y] = h[y]
      PROVE  Body(g, x) = Body(h, x)
  <2>1. CASE x.f = "and"
    <3>1. \A i \in DOMAIN x.kids : g[x.kids[i]] = h[x.kids[i]]
      BY <1>1, <1>3, <2>1, FilterParts
    <3>2. QED
      BY <2>1, <3>1
  <2>2. QED
    BY <2>1
<1>4. IsStep(B, U, V, d)
  <2>1. \A x \in U, g \in [U -> V] : Body(g, x) \in V
    <3> HIDE DEF Body, V, d
    <3>1. QED
      BY <1>2
  <2>2. \A x \in U, g, h \in [U -> V] :
           (\A y \in U : d[y] < d[x] => g[y] = h[y]) => Body(g, x) = Body(h, x)
    <3> HIDE DEF Body, U, V, d
    <3>1. QED
      BY <1>3
  <2> HIDE DEF Body, U, V, d
  <2>3. QED
    BY <2>1, <2>2 DEF IsStep
<1>5. \E f : Solves(f)
  <2>1. TRUE \in V
    OBVIOUS
  <2> HIDE DEF B, U, V, d, Body
  <2>2. PICK f : IsSolution(f, B, U, V)
    BY <1>1, <1>4, <2>1, Recursion
  <2>3. f \in [U -> V] /\ \A x \in U : f[x] = Body(f, x)
    BY <2>2 DEF IsSolution, B
  <2>4. f = [x \in U |-> Body(f, x)]
    BY <2>3
  <2>5. QED
    BY <2>4
<1>6. Solves(IsSkippableFilter)
  <2>1. IsSkippableFilter = CHOOSE f : Solves(f)
    BY DEF IsSkippableFilter
  <2> HIDE DEF Solves
  <2>2. QED
    BY <1>5, <2>1
<1>7. \A x \in U : IsSkippableFilter[x] = Body(IsSkippableFilter, x)
  BY <1>6
<1>8. \A x \in U : IsSkippableFilter[x] \in V
  <2> DEFINE T == {x \in U : IsSkippableFilter[x] \in V}
  <2>1. ASSUME NEW x \in U, \A y \in U : d[y] < d[x] => y \in T
        PROVE  x \in T
    <3> HIDE DEF Body, V, U, d
    <3>1. QED
      BY <1>2, <1>7, <2>1
  <2> HIDE DEF T, U, V, d
  <2>2. \A x \in U : x \in T
    BY <1>1, <2>1, DepthInduction DEF IsMeasure
  <2>3. QED
    BY <2>2 DEF T
<1>9. IsSkippableFilter \in [U -> V]
  <2> HIDE DEF Body, V
  <2>1. QED
    BY <1>6, <1>8
<1>10. QED
  BY <1>7, <1>9

LEMMA RenderFilterLemma ==
    /\ RenderDbisamFilter \in [TableFilters -> Texts]
    /\ \A x \in TableFilters : RenderDbisamFilter[x] =
          IF x.f = "optional" THEN RenderDbisamFilter[x.kid]
          ELSE IF x.f \notin {"and", "or"} THEN RenderLeaf(x)
          ELSE LET texts == [i \in DOMAIN x.kids |-> RenderDbisamFilter[x.kids[i]]]
               IN IF x.f = "and" THEN RenderAnd(x, texts)
                  ELSE RenderConj("or", {texts[i] : i \in DOMAIN x.kids})
<1> DEFINE Body(g, x) ==
             IF x.f = "optional" THEN g[x.kid]
             ELSE IF x.f \notin {"and", "or"} THEN RenderLeaf(x)
             ELSE LET texts == [i \in DOMAIN x.kids |-> g[x.kids[i]]]
                  IN IF x.f = "and" THEN RenderAnd(x, texts)
                     ELSE RenderConj("or", {texts[i] : i \in DOMAIN x.kids})
           U == TableFilters
           V == Texts
           d == [x \in U |-> Depth[x]]
           B == [x \in U |-> [g \in [U -> V] |-> Body(g, x)]]
           Solves(f) == f = [x \in U |-> Body(f, x)]
<1>1. IsMeasure(d, U) /\ \A x \in U : d[x] = Depth[x]
  BY DepthAssumption DEF IsMeasure
<1>2. ASSUME NEW x \in U, NEW g, \A y \in U : d[y] < d[x] => g[y] \in V
      PROVE  Body(g, x) \in V
  <2>1. CASE x.f = "optional"
    BY <1>1, <1>2, <2>1, FilterParts
  <2>2. CASE x.f \in {"and", "or"}
    BY <2>2, RenderTypes
  <2>3. CASE x.f \notin {"optional", "and", "or"}
    <3>1. RenderLeaf(x) \in Texts
      BY <2>3, RenderTypes, TextTypes, RenderExpressionLemma, FilterParts DEF RenderLeaf
    <3>2. QED
      BY <2>3, <3>1
  <2>4. QED
    BY <2>1, <2>2, <2>3
<1>3. ASSUME NEW x \in U, NEW g, NEW h, \A y \in U : d[y] < d[x] => g[y] = h[y]
      PROVE  Body(g, x) = Body(h, x)
  <2>1. CASE x.f \in {"and", "or"}
    <3>1. \A i \in DOMAIN x.kids : g[x.kids[i]] = h[x.kids[i]]
      BY <1>1, <1>3, <2>1, FilterParts
    <3>2. [i \in DOMAIN x.kids |-> g[x.kids[i]]] = [i \in DOMAIN x.kids |-> h[x.kids[i]]]
      BY <3>1
    <3>3. QED
      BY <2>1, <3>2
  <2>2. CASE x.f = "optional"
    BY <1>1, <1>3, <2>2, FilterParts
  <2>3. QED
    BY <2>1, <2>2
<1>4. IsStep(B, U, V, d)
  <2>1. \A x \in U, g \in [U -> V] : Body(g, x) \in V
    <3> HIDE DEF Body, V, d
    <3>1. QED
      BY <1>2
  <2>2. \A x \in U, g, h \in [U -> V] :
           (\A y \in U : d[y] < d[x] => g[y] = h[y]) => Body(g, x) = Body(h, x)
    <3> HIDE DEF Body, U, V, d
    <3>1. QED
      BY <1>3
  <2> HIDE DEF Body, U, V, d
  <2>3. QED
    BY <2>1, <2>2 DEF IsStep
<1>5. \E f : Solves(f)
  <2>1. None \in V
    BY DEF Texts
  <2> HIDE DEF B, U, V, d, Body
  <2>2. PICK f : IsSolution(f, B, U, V)
    BY <1>1, <1>4, <2>1, Recursion
  <2>3. f \in [U -> V] /\ \A x \in U : f[x] = Body(f, x)
    BY <2>2 DEF IsSolution, B
  <2>4. f = [x \in U |-> Body(f, x)]
    BY <2>3
  <2>5. QED
    BY <2>4
<1>6. Solves(RenderDbisamFilter)
  <2>1. RenderDbisamFilter = CHOOSE f : Solves(f)
    BY DEF RenderDbisamFilter
  <2> HIDE DEF Solves
  <2>2. QED
    BY <1>5, <2>1
<1>7. \A x \in U : RenderDbisamFilter[x] = Body(RenderDbisamFilter, x)
  BY <1>6
<1>8. \A x \in U : RenderDbisamFilter[x] \in V
  <2> DEFINE T == {x \in U : RenderDbisamFilter[x] \in V}
  <2>1. ASSUME NEW x \in U, \A y \in U : d[y] < d[x] => y \in T
        PROVE  x \in T
    <3> HIDE DEF Body, V, U, d
    <3>1. QED
      BY <1>2, <1>7, <2>1
  <2> HIDE DEF T, U, V, d
  <2>2. \A x \in U : x \in T
    BY <1>1, <2>1, DepthInduction DEF IsMeasure
  <2>3. QED
    BY <2>2 DEF T
<1>9. RenderDbisamFilter \in [U -> V]
  <2> HIDE DEF Body, V
  <2>1. QED
    BY <1>6, <1>8
<1>10. QED
  BY <1>7, <1>9

LEMMA ValueLemma ==
    /\ Value \in [Expressions -> [Values -> Values]]
    /\ \A x \in Expressions : Value[x] =
          [c \in Values |->
              CASE x.e = "col"              -> c
                [] x.e = "const"            -> x.v
                [] x.e \in {"left", "func"} -> Applied(x, Value[x.arg][c])
                [] x.e = "cmp"              -> SqlCompare(x.op, Value[x.l][c], Value[x.r][c])
                [] x.e = "in"               ->
                      IF x.neg THEN Not3(Or3({SqlCompare("=", Value[x.probe][c], Value[y][c]) : y \in Elems(x.items)}))
                      ELSE Or3({SqlCompare("=", Value[x.probe][c], Value[y][c]) : y \in Elems(x.items)})
                [] x.e = "isnull"           -> Bool((Value[x.arg][c] = Null) # x.neg)
                [] x.e = "conj"             ->
                      IF x.op = "and" THEN And3({Value[y][c] : y \in Elems(x.args)})
                      ELSE Or3({Value[y][c] : y \in Elems(x.args)})]
<1> DEFINE Body(g, x) ==
             [c \in Values |->
                 CASE x.e = "col"              -> c
                   [] x.e = "const"            -> x.v
                   [] x.e \in {"left", "func"} -> Applied(x, g[x.arg][c])
                   [] x.e = "cmp"              -> SqlCompare(x.op, g[x.l][c], g[x.r][c])
                   [] x.e = "in"               ->
                         IF x.neg THEN Not3(Or3({SqlCompare("=", g[x.probe][c], g[y][c]) : y \in Elems(x.items)}))
                         ELSE Or3({SqlCompare("=", g[x.probe][c], g[y][c]) : y \in Elems(x.items)})
                   [] x.e = "isnull"           -> Bool((g[x.arg][c] = Null) # x.neg)
                   [] x.e = "conj"             ->
                         IF x.op = "and" THEN And3({g[y][c] : y \in Elems(x.args)})
                         ELSE Or3({g[y][c] : y \in Elems(x.args)})]
           U == Expressions
           V == [Values -> Values]
           d == [x \in U |-> Depth[x]]
           B == [x \in U |-> [g \in [U -> V] |-> Body(g, x)]]
           Solves(f) == f = [x \in U |-> Body(f, x)]
<1>1. IsMeasure(d, U) /\ \A x \in U : d[x] = Depth[x]
  BY DepthAssumption DEF IsMeasure
<1>2. ASSUME NEW x \in U, NEW g, \A y \in U : d[y] < d[x] => g[y] \in V
      PROVE  Body(g, x) \in V
  <2> SUFFICES ASSUME NEW c \in Values PROVE Body(g, x)[c] \in Values
    OBVIOUS
  <2>1. CASE x.e \in {"col", "const"}
    BY <2>1, ExpressionParts
  <2>2. CASE x.e \in {"left", "func"}
    <3>1. g[x.arg][c] \in Values
      BY <1>1, <1>2, <2>2, ExpressionParts DEF Children
    <3>2. Applied(x, g[x.arg][c]) \in Values
      BY <2>2, <3>1, ExpressionParts
    <3>3. QED
      BY <2>2, <3>2
  <2>3. CASE x.e = "cmp"
    BY <2>3, LogicTypes
  <2>4. CASE x.e = "in"
    BY <2>4, LogicTypes
  <2>5. CASE x.e = "isnull"
    BY <2>5, LogicTypes
  <2>6. CASE x.e = "conj"
    BY <2>6, LogicTypes
  <2>7. QED
    BY <2>1, <2>2, <2>3, <2>4, <2>5, <2>6, ExpressionParts
<1>3. ASSUME NEW x \in U, NEW g, NEW h, \A y \in U : d[y] < d[x] => g[y] = h[y]
      PROVE  Body(g, x) = Body(h, x)
  <2>1. \A y \in Children(x) : g[y] = h[y]
    BY <1>1, <1>3, ExpressionParts
  <2>2. CASE x.e \in {"left", "func", "isnull"}
    <3>1. g[x.arg] = h[x.arg]
      BY <2>1, <2>2 DEF Children
    <3>2. QED
      BY <2>2, <3>1
  <2>3. CASE x.e = "cmp"
    <3>1. g[x.l] = h[x.l] /\ g[x.r] = h[x.r]
      BY <2>1, <2>3 DEF Children
    <3>2. QED
      BY <2>3, <3>1
  <2>4. CASE x.e = "in"
    <3>1. g[x.probe] = h[x.probe] /\ \A y \in Elems(x.items) : g[y] = h[y]
      BY <2>1, <2>4 DEF Children
    <3>2. \A c \in Values : {SqlCompare("=", g[x.probe][c], g[y][c]) : y \in Elems(x.items)} =
                            {SqlCompare("=", h[x.probe][c], h[y][c]) : y \in Elems(x.items)}
      BY <3>1
    <3>3. QED
      BY <2>4, <3>2
  <2>5. CASE x.e = "conj"
    <3>1. \A y \in Elems(x.args) : g[y] = h[y]
      BY <2>1, <2>5 DEF Children
    <3>2. \A c \in Values : {g[y][c] : y \in Elems(x.args)} = {h[y][c] : y \in Elems(x.args)}
      BY <3>1
    <3>3. QED
      BY <2>5, <3>2
  <2>6. CASE x.e \in {"col", "const"}
    BY <2>6
  <2>7. QED
    BY <2>2, <2>3, <2>4, <2>5, <2>6, ExpressionParts
<1>4. IsStep(B, U, V, d)
  <2>1. \A x \in U, g \in [U -> V] : Body(g, x) \in V
    <3> HIDE DEF Body, V, d
    <3>1. QED
      BY <1>2
  <2>2. \A x \in U, g, h \in [U -> V] :
           (\A y \in U : d[y] < d[x] => g[y] = h[y]) => Body(g, x) = Body(h, x)
    <3> HIDE DEF Body, U, V, d
    <3>1. QED
      BY <1>3
  <2> HIDE DEF Body, U, V, d
  <2>3. QED
    BY <2>1, <2>2 DEF IsStep
<1>5. \E f : Solves(f)
  <2>1. [c \in Values |-> c] \in V
    OBVIOUS
  <2> HIDE DEF B, U, V, d, Body
  <2>2. PICK f : IsSolution(f, B, U, V)
    BY <1>1, <1>4, <2>1, Recursion
  <2>3. f \in [U -> V] /\ \A x \in U : f[x] = Body(f, x)
    BY <2>2 DEF IsSolution, B
  <2>4. f = [x \in U |-> Body(f, x)]
    BY <2>3
  <2>5. QED
    BY <2>4
<1>6. Solves(Value)
  <2>1. Value = CHOOSE f : Solves(f)
    BY DEF Value
  <2> HIDE DEF Solves
  <2>2. QED
    BY <1>5, <2>1
<1>7. \A x \in U : Value[x] = Body(Value, x)
  BY <1>6
<1>8. \A x \in U : Value[x] \in V
  <2> DEFINE T == {x \in U : Value[x] \in V}
  <2>1. ASSUME NEW x \in U, \A y \in U : d[y] < d[x] => y \in T
        PROVE  x \in T
    <3> HIDE DEF Body, V, U, d
    <3>1. QED
      BY <1>2, <1>7, <2>1
  <2> HIDE DEF T, U, V, d
  <2>2. \A x \in U : x \in T
    BY <1>1, <2>1, DepthInduction DEF IsMeasure
  <2>3. QED
    BY <2>2 DEF T
<1>9. Value \in [U -> V]
  <2> HIDE DEF Body, V
  <2>1. QED
    BY <1>6, <1>8
<1>10. QED
  BY <1>7, <1>9

\* The same for each kind of expression.
LEMMA ValueCases ==
    \A x \in Expressions, c \in Values :
        /\ x.e = "cmp" => Value[x][c] = SqlCompare(x.op, Value[x.l][c], Value[x.r][c])
        /\ x.e = "in" =>
              LET equal == {SqlCompare("=", Value[x.probe][c], Value[y][c]) : y \in Elems(x.items)}
              IN Value[x][c] = IF x.neg THEN Not3(Or3(equal)) ELSE Or3(equal)
        /\ x.e = "isnull" => Value[x][c] = Bool((Value[x.arg][c] = Null) # x.neg)
        /\ x.e = "conj" =>
              LET values == {Value[y][c] : y \in Elems(x.args)}
              IN Value[x][c] = IF x.op = "and" THEN And3(values) ELSE Or3(values)
<1> TAKE x \in Expressions, c \in Values
<1> DEFINE Equal(k) == {SqlCompare("=", Value[x.probe][k], Value[y][k]) : y \in Elems(x.items)}
           Parts(k) == {Value[y][k] : y \in Elems(x.args)}
           Cases(k) ==
             CASE x.e = "col"              -> k
               [] x.e = "const"            -> x.v
               [] x.e \in {"left", "func"} -> Applied(x, Value[x.arg][k])
               [] x.e = "cmp"              -> SqlCompare(x.op, Value[x.l][k], Value[x.r][k])
               [] x.e = "in"               -> IF x.neg THEN Not3(Or3(Equal(k))) ELSE Or3(Equal(k))
               [] x.e = "isnull"           -> Bool((Value[x.arg][k] = Null) # x.neg)
               [] x.e = "conj"             ->
                     IF x.op = "and" THEN And3(Parts(k)) ELSE Or3(Parts(k))
<1>1. Value[x] = [k \in Values |-> Cases(k)]
  BY ValueLemma, Zenon
<1>2. Value[x][c] = Cases(c)
  <2> HIDE DEF Cases
  <2>1. QED
    BY <1>1
<1> HIDE DEF Equal, Parts
<1>3. x.e = "cmp" => Cases(c) = SqlCompare(x.op, Value[x.l][c], Value[x.r][c])
  OBVIOUS
<1>4. x.e = "in" => Cases(c) = IF x.neg THEN Not3(Or3(Equal(c))) ELSE Or3(Equal(c))
  OBVIOUS
<1>5. x.e = "isnull" => Cases(c) = Bool((Value[x.arg][c] = Null) # x.neg)
  OBVIOUS
<1>6. x.e = "conj" => Cases(c) = IF x.op = "and" THEN And3(Parts(c)) ELSE Or3(Parts(c))
  OBVIOUS
<1> HIDE DEF Cases
<1>7. QED
  BY <1>2, <1>3, <1>4, <1>5, <1>6 DEF Equal, Parts

LEMMA PassesLemma ==
    /\ Passes \in [TableFilters -> SUBSET Values]
    /\ \A x \in TableFilters : Passes[x] =
          IF x.f = "optional" THEN Passes[x.kid]
          ELSE IF x.f = "and" THEN {c \in Values : \A i \in DOMAIN x.kids : c \in Passes[x.kids[i]]}
          ELSE IF x.f = "or"  THEN {c \in Values : \E i \in DOMAIN x.kids : c \in Passes[x.kids[i]]}
          ELSE {c \in Values : LeafPasses(x, c)}
<1> DEFINE Body(g, x) ==
             IF x.f = "optional" THEN g[x.kid]
             ELSE IF x.f = "and" THEN {c \in Values : \A i \in DOMAIN x.kids : c \in g[x.kids[i]]}
             ELSE IF x.f = "or"  THEN {c \in Values : \E i \in DOMAIN x.kids : c \in g[x.kids[i]]}
             ELSE {c \in Values : LeafPasses(x, c)}
           U == TableFilters
           V == SUBSET Values
           d == [x \in U |-> Depth[x]]
           B == [x \in U |-> [g \in [U -> V] |-> Body(g, x)]]
           Solves(f) == f = [x \in U |-> Body(f, x)]
<1>1. IsMeasure(d, U) /\ \A x \in U : d[x] = Depth[x]
  BY DepthAssumption DEF IsMeasure
<1>2. ASSUME NEW x \in U, NEW g, \A y \in U : d[y] < d[x] => g[y] \in V
      PROVE  Body(g, x) \in V
  <2>1. CASE x.f = "optional"
    BY <1>1, <1>2, <2>1, FilterParts
  <2>2. CASE x.f # "optional"
    BY <2>2
  <2>3. QED
    BY <2>1, <2>2
<1>3. ASSUME NEW x \in U, NEW g, NEW h, \A y \in U : d[y] < d[x] => g[y] = h[y]
      PROVE  Body(g, x) = Body(h, x)
  <2>1. CASE x.f \in {"and", "or"}
    <3>1. \A i \in DOMAIN x.kids : g[x.kids[i]] = h[x.kids[i]]
      BY <1>1, <1>3, <2>1, FilterParts
    <3>2. QED
      BY <2>1, <3>1
  <2>2. CASE x.f = "optional"
    BY <1>1, <1>3, <2>2, FilterParts
  <2>3. QED
    BY <2>1, <2>2
<1>4. IsStep(B, U, V, d)
  <2>1. \A x \in U, g \in [U -> V] : Body(g, x) \in V
    <3> HIDE DEF Body, V, d
    <3>1. QED
      BY <1>2
  <2>2. \A x \in U, g, h \in [U -> V] :
           (\A y \in U : d[y] < d[x] => g[y] = h[y]) => Body(g, x) = Body(h, x)
    <3> HIDE DEF Body, U, V, d
    <3>1. QED
      BY <1>3
  <2> HIDE DEF Body, U, V, d
  <2>3. QED
    BY <2>1, <2>2 DEF IsStep
<1>5. \E f : Solves(f)
  <2>1. {} \in V
    OBVIOUS
  <2> HIDE DEF B, U, V, d, Body
  <2>2. PICK f : IsSolution(f, B, U, V)
    BY <1>1, <1>4, <2>1, Recursion
  <2>3. f \in [U -> V] /\ \A x \in U : f[x] = Body(f, x)
    BY <2>2 DEF IsSolution, B
  <2>4. f = [x \in U |-> Body(f, x)]
    BY <2>3
  <2>5. QED
    BY <2>4
<1>6. Solves(Passes)
  <2>1. Passes = CHOOSE f : Solves(f)
    BY DEF Passes
  <2> HIDE DEF Solves
  <2>2. QED
    BY <1>5, <2>1
<1>7. \A x \in U : Passes[x] = Body(Passes, x)
  BY <1>6
<1>8. \A x \in U : Passes[x] \in V
  <2> DEFINE T == {x \in U : Passes[x] \in V}
  <2>1. ASSUME NEW x \in U, \A y \in U : d[y] < d[x] => y \in T
        PROVE  x \in T
    <3> HIDE DEF Body, V, U, d
    <3>1. QED
      BY <1>2, <1>7, <2>1
  <2> HIDE DEF T, U, V, d
  <2>2. \A x \in U : x \in T
    BY <1>1, <2>1, DepthInduction DEF IsMeasure
  <2>3. QED
    BY <2>2 DEF T
<1>9. Passes \in [U -> V]
  <2> HIDE DEF Body, V
  <2>1. QED
    BY <1>6, <1>8
<1>10. QED
  BY <1>7, <1>9

LEMMA RecheckedLemma ==
    /\ Rechecked \in [TableFilters -> SUBSET Values]
    /\ \A x \in TableFilters : Rechecked[x] =
          IF x.f = "and" THEN {c \in Values : \A i \in DOMAIN x.kids : c \in Rechecked[x.kids[i]]}
          ELSE IF x.f \in {"optional", "dynamic", "bloom"} THEN Passes[x] ELSE Values
<1> DEFINE Body(g, x) ==
             IF x.f = "and" THEN {c \in Values : \A i \in DOMAIN x.kids : c \in g[x.kids[i]]}
             ELSE IF x.f \in {"optional", "dynamic", "bloom"} THEN Passes[x] ELSE Values
           U == TableFilters
           V == SUBSET Values
           d == [x \in U |-> Depth[x]]
           B == [x \in U |-> [g \in [U -> V] |-> Body(g, x)]]
           Solves(f) == f = [x \in U |-> Body(f, x)]
<1>1. IsMeasure(d, U) /\ \A x \in U : d[x] = Depth[x]
  BY DepthAssumption DEF IsMeasure
<1>2. ASSUME NEW x \in U, NEW g, \A y \in U : d[y] < d[x] => g[y] \in V
      PROVE  Body(g, x) \in V
  BY PassesLemma
<1>3. ASSUME NEW x \in U, NEW g, NEW h, \A y \in U : d[y] < d[x] => g[y] = h[y]
      PROVE  Body(g, x) = Body(h, x)
  <2>1. CASE x.f \in {"and"}
    <3>1. \A i \in DOMAIN x.kids : g[x.kids[i]] = h[x.kids[i]]
      BY <1>1, <1>3, <2>1, FilterParts
    <3>2. QED
      BY <2>1, <3>1
  <2>2. QED
    BY <2>1
<1>4. IsStep(B, U, V, d)
  <2>1. \A x \in U, g \in [U -> V] : Body(g, x) \in V
    <3> HIDE DEF Body, V, d
    <3>1. QED
      BY <1>2
  <2>2. \A x \in U, g, h \in [U -> V] :
           (\A y \in U : d[y] < d[x] => g[y] = h[y]) => Body(g, x) = Body(h, x)
    <3> HIDE DEF Body, U, V, d
    <3>1. QED
      BY <1>3
  <2> HIDE DEF Body, U, V, d
  <2>3. QED
    BY <2>1, <2>2 DEF IsStep
<1>5. \E f : Solves(f)
  <2>1. {} \in V
    OBVIOUS
  <2> HIDE DEF B, U, V, d, Body
  <2>2. PICK f : IsSolution(f, B, U, V)
    BY <1>1, <1>4, <2>1, Recursion
  <2>3. f \in [U -> V] /\ \A x \in U : f[x] = Body(f, x)
    BY <2>2 DEF IsSolution, B
  <2>4. f = [x \in U |-> Body(f, x)]
    BY <2>3
  <2>5. QED
    BY <2>4
<1>6. Solves(Rechecked)
  <2>1. Rechecked = CHOOSE f : Solves(f)
    BY DEF Rechecked
  <2> HIDE DEF Solves
  <2>2. QED
    BY <1>5, <2>1
<1>7. \A x \in U : Rechecked[x] = Body(Rechecked, x)
  BY <1>6
<1>8. \A x \in U : Rechecked[x] \in V
  <2> DEFINE T == {x \in U : Rechecked[x] \in V}
  <2>1. ASSUME NEW x \in U, \A y \in U : d[y] < d[x] => y \in T
        PROVE  x \in T
    <3> HIDE DEF Body, V, U, d
    <3>1. QED
      BY <1>2, <1>7, <2>1
  <2> HIDE DEF T, U, V, d
  <2>2. \A x \in U : x \in T
    BY <1>1, <2>1, DepthInduction DEF IsMeasure
  <2>3. QED
    BY <2>2 DEF T
<1>9. Rechecked \in [U -> V]
  <2> HIDE DEF Body, V
  <2>1. QED
    BY <1>6, <1>8
<1>10. QED
  BY <1>7, <1>9

LEMMA AuditedLemma ==
    /\ Audited \in [Expressions -> BOOLEAN]
    /\ \A x \in Expressions : Audited[x] =
          (/\ x.e \in {"cmp", "in", "isnull", "conj"}
           /\ x.e = "cmp" => Plain(x.l) /\ Plain(x.r) /\ (x.op = "<>" \/ "const" \in {x.l.e, x.r.e})
           /\ x.e = "in" => Plain(x.probe) /\ \A y \in Elems(x.items) : Plain(y) /\ y.e = "const"
           /\ x.e = "isnull" => Plain(x.arg)
           /\ x.e = "conj" => \A y \in Elems(x.args) : Audited[y])
<1> DEFINE Body(g, x) ==
             (/\ x.e \in {"cmp", "in", "isnull", "conj"}
              /\ x.e = "cmp" => Plain(x.l) /\ Plain(x.r) /\ (x.op = "<>" \/ "const" \in {x.l.e, x.r.e})
              /\ x.e = "in" => Plain(x.probe) /\ \A y \in Elems(x.items) : Plain(y) /\ y.e = "const"
              /\ x.e = "isnull" => Plain(x.arg)
              /\ x.e = "conj" => \A y \in Elems(x.args) : g[y])
           U == Expressions
           V == BOOLEAN
           d == [x \in U |-> Depth[x]]
           B == [x \in U |-> [g \in [U -> V] |-> Body(g, x)]]
           Solves(f) == f = [x \in U |-> Body(f, x)]
<1>1. IsMeasure(d, U) /\ \A x \in U : d[x] = Depth[x]
  BY DepthAssumption DEF IsMeasure
<1>2. ASSUME NEW x \in U, NEW g, \A y \in U : d[y] < d[x] => g[y] \in V
      PROVE  Body(g, x) \in V
  OBVIOUS
<1>3. ASSUME NEW x \in U, NEW g, NEW h, \A y \in U : d[y] < d[x] => g[y] = h[y]
      PROVE  Body(g, x) = Body(h, x)
  <2>1. x.e = "conj" => \A y \in Elems(x.args) : g[y] = h[y]
    BY <1>1, <1>3, ExpressionParts DEF Children
  <2>2. QED
    BY <2>1
<1>4. IsStep(B, U, V, d)
  <2>1. \A x \in U, g \in [U -> V] : Body(g, x) \in V
    <3> HIDE DEF Body, V, d
    <3>1. QED
      BY <1>2
  <2>2. \A x \in U, g, h \in [U -> V] :
           (\A y \in U : d[y] < d[x] => g[y] = h[y]) => Body(g, x) = Body(h, x)
    <3> HIDE DEF Body, U, V, d
    <3>1. QED
      BY <1>3
  <2> HIDE DEF Body, U, V, d
  <2>3. QED
    BY <2>1, <2>2 DEF IsStep
<1>5. \E f : Solves(f)
  <2>1. TRUE \in V
    OBVIOUS
  <2> HIDE DEF B, U, V, d, Body
  <2>2. PICK f : IsSolution(f, B, U, V)
    BY <1>1, <1>4, <2>1, Recursion
  <2>3. f \in [U -> V] /\ \A x \in U : f[x] = Body(f, x)
    BY <2>2 DEF IsSolution, B
  <2>4. f = [x \in U |-> Body(f, x)]
    BY <2>3
  <2>5. QED
    BY <2>4
<1>6. Solves(Audited)
  <2>1. Audited = CHOOSE f : Solves(f)
    BY DEF Audited
  <2> HIDE DEF Solves
  <2>2. QED
    BY <1>5, <2>1
<1>7. \A x \in U : Audited[x] = Body(Audited, x)
  BY <1>6
<1>8. \A x \in U : Audited[x] \in V
  <2> DEFINE T == {x \in U : Audited[x] \in V}
  <2>1. ASSUME NEW x \in U, \A y \in U : d[y] < d[x] => y \in T
        PROVE  x \in T
    <3> HIDE DEF Body, V, U, d
    <3>1. QED
      BY <1>2, <1>7, <2>1
  <2> HIDE DEF T, U, V, d
  <2>2. \A x \in U : x \in T
    BY <1>1, <2>1, DepthInduction DEF IsMeasure
  <2>3. QED
    BY <2>2 DEF T
<1>9. Audited \in [U -> V]
  <2> HIDE DEF Body, V
  <2>1. QED
    BY <1>6, <1>8
<1>10. QED
  BY <1>7, <1>9

LEMMA AuditedFilterLemma ==
    /\ AuditedFilter \in [TableFilters -> BOOLEAN]
    /\ \A x \in TableFilters : AuditedFilter[x] =
          (/\ x.f = "cmp" => WholeSecond(x.v, x.type)
           /\ x.f = "in" => \A v \in Elems(x.vals) : WholeSecond(v, x.type)
           /\ x.f = "expr" => Audited[x.expr]
           /\ \A y \in Kids(x) : AuditedFilter[y])
<1> DEFINE Body(g, x) ==
             (/\ x.f = "cmp" => WholeSecond(x.v, x.type)
              /\ x.f = "in" => \A v \in Elems(x.vals) : WholeSecond(v, x.type)
              /\ x.f = "expr" => Audited[x.expr]
              /\ \A y \in Kids(x) : g[y])
           U == TableFilters
           V == BOOLEAN
           d == [x \in U |-> Depth[x]]
           B == [x \in U |-> [g \in [U -> V] |-> Body(g, x)]]
           Solves(f) == f = [x \in U |-> Body(f, x)]
<1>1. IsMeasure(d, U) /\ \A x \in U : d[x] = Depth[x]
  BY DepthAssumption DEF IsMeasure
<1>2. ASSUME NEW x \in U, NEW g, \A y \in U : d[y] < d[x] => g[y] \in V
      PROVE  Body(g, x) \in V
  OBVIOUS
<1>3. ASSUME NEW x \in U, NEW g, NEW h, \A y \in U : d[y] < d[x] => g[y] = h[y]
      PROVE  Body(g, x) = Body(h, x)
  <2>1. \A y \in Kids(x) : g[y] = h[y]
    BY <1>1, <1>3, FilterParts DEF Kids, Elems
  <2>2. QED
    BY <2>1
<1>4. IsStep(B, U, V, d)
  <2>1. \A x \in U, g \in [U -> V] : Body(g, x) \in V
    <3> HIDE DEF Body, V, d
    <3>1. QED
      BY <1>2
  <2>2. \A x \in U, g, h \in [U -> V] :
           (\A y \in U : d[y] < d[x] => g[y] = h[y]) => Body(g, x) = Body(h, x)
    <3> HIDE DEF Body, U, V, d
    <3>1. QED
      BY <1>3
  <2> HIDE DEF Body, U, V, d
  <2>3. QED
    BY <2>1, <2>2 DEF IsStep
<1>5. \E f : Solves(f)
  <2>1. TRUE \in V
    OBVIOUS
  <2> HIDE DEF B, U, V, d, Body
  <2>2. PICK f : IsSolution(f, B, U, V)
    BY <1>1, <1>4, <2>1, Recursion
  <2>3. f \in [U -> V] /\ \A x \in U : f[x] = Body(f, x)
    BY <2>2 DEF IsSolution, B
  <2>4. f = [x \in U |-> Body(f, x)]
    BY <2>3
  <2>5. QED
    BY <2>4
<1>6. Solves(AuditedFilter)
  <2>1. AuditedFilter = CHOOSE f : Solves(f)
    BY DEF AuditedFilter
  <2> HIDE DEF Solves
  <2>2. QED
    BY <1>5, <2>1
<1>7. \A x \in U : AuditedFilter[x] = Body(AuditedFilter, x)
  BY <1>6
<1>8. \A x \in U : AuditedFilter[x] \in V
  <2> DEFINE T == {x \in U : AuditedFilter[x] \in V}
  <2>1. ASSUME NEW x \in U, \A y \in U : d[y] < d[x] => y \in T
        PROVE  x \in T
    <3> HIDE DEF Body, V, U, d
    <3>1. QED
      BY <1>2, <1>7, <2>1
  <2> HIDE DEF T, U, V, d
  <2>2. \A x \in U : x \in T
    BY <1>1, <2>1, DepthInduction DEF IsMeasure
  <2>3. QED
    BY <2>2 DEF T
<1>9. AuditedFilter \in [U -> V]
  <2> HIDE DEF Body, V
  <2>1. QED
    BY <1>6, <1>8
<1>10. QED
  BY <1>7, <1>9

-----------------------------------------------------------------------------
(***************************************************************************)
(* What is rendered of an audited shape means what DuckDB means, for each  *)
(* value of the column and whatever else a comparison with NULL yields.    *)
(***************************************************************************)

LEMMA LogicLemma ==
    /\ \A b : Bool(b) = True <=> b
    /\ \A vs : And3(vs) = True <=> \A v \in vs : v = True
    /\ \A vs : Or3(vs) = True <=> True \in vs
    /\ \A vs : Not3(Or3(vs)) = True <=> True \notin vs /\ Null \notin vs
BY DEF Bool, And3, Or3, Not3, True, False, Null

\* Comparisons on the server, where at most one side is NULL or the guard of <>
\* is there.
LEMMA CompareLemma ==
    \A a, b : \A op \in ComparisonOps, nc \in NullCompares :
        /\ Null \notin {a, b} => ServerCompare(op, nc, a, b) = SqlCompare(op, a, b)
        /\ Null \in {a, b} => SqlCompare(op, a, b) # True
        /\ Null \in {a, b} /\ op # "<>" /\ a # b => ServerCompare(op, nc, a, b) # True
<1> SUFFICES ASSUME NEW a, NEW b, NEW op \in ComparisonOps, NEW nc \in NullCompares
             PROVE  /\ Null \notin {a, b} => ServerCompare(op, nc, a, b) = SqlCompare(op, a, b)
                    /\ Null \in {a, b} => SqlCompare(op, a, b) # True
                    /\ Null \in {a, b} /\ op # "<>" /\ a # b => ServerCompare(op, nc, a, b) # True
  OBVIOUS
<1>1. op # "distinct"
  BY DEF ComparisonOps
<1>2. nc # True /\ Null # True
  BY DEF NullCompares, True, False, Null
<1>3. QED
  BY <1>1, <1>2 DEF ServerCompare, SqlCompare

\* A plain expression is rendered as its value, and a constant as one that is
\* not NULL.
LEMMA PlainExact ==
    \A x \in Expressions : Plain(x) /\ RenderDbisamExpression[x] # None =>
        \A nc \in NullCompares, c \in Values :
            /\ RenderDbisamExpression[x].is[nc][c] = Value[x][c]
            /\ x.e = "const" => Value[x][c] # Null
<1> SUFFICES ASSUME NEW x \in Expressions, Plain(x), RenderDbisamExpression[x] # None,
                    NEW nc \in NullCompares, NEW c \in Values
             PROVE  /\ RenderDbisamExpression[x].is[nc][c] = Value[x][c]
                    /\ x.e = "const" => Value[x][c] # Null
  OBVIOUS
<1>1. ASSUME NEW y \in Expressions, y.e = "col"
      PROVE  RenderDbisamExpression[y] = ColumnText /\ Value[y][c] = c
  <2>1. RenderDbisamExpression[y] = ColumnText
    BY <1>1, RenderExpressionLemma
  <2>2. Value[y][c] = c
    BY <1>1, ValueLemma
  <2>3. QED
    BY <2>1, <2>2
<1>2. ColumnText.is[nc][c] = c
  BY DEF ColumnText, Text
<1>3. CASE x.e = "col"
  BY <1>1, <1>2, <1>3
<1>4. CASE x.e = "const" /\ WholeSecond(x.v, x.type)
  <2>1. RenderDbisamExpression[x] = RenderValue(x.v, x.type) /\ Value[x][c] = x.v
    BY <1>4, RenderExpressionLemma, ValueLemma
  <2>2. /\ x.v # Null
        /\ RenderDbisamExpression[x].is[nc][c] = IF x.type = "timestamp" THEN Second(x.v) ELSE x.v
    BY <2>1 DEF RenderValue, Text
  <2>3. QED
    BY <1>4, <2>1, <2>2 DEF WholeSecond
<1>5. CASE x.e = "left" /\ x.arg = Column
  <2>1. x.arg \in Expressions /\ x.arg.e = "col"
    BY <1>5, ExpressionParts DEF Children, Column
  <2>2. RenderDbisamExpression[x] = RenderLeft(ColumnText, x.n)
    <3>1. RenderDbisamExpression[x] = RenderLeft(RenderDbisamExpression[x.arg], x.n)
      BY <1>5, RenderExpressionLemma
    <3>2. QED
      BY <1>1, <2>1, <3>1
  <2>3. RenderLeft(ColumnText, x.n).is[nc][c] = Left(ColumnText.is[nc][c], x.n)
    BY <2>2 DEF RenderLeft, Text
  <2>4. Value[x][c] = Left(c, x.n)
    <3>1. Value[x][c] = Applied(x, Value[x.arg][c])
      BY <1>5, ValueLemma
    <3>2. QED
      BY <1>1, <1>5, <2>1, <3>1 DEF Applied
  <2>5. QED
    BY <1>2, <1>5, <2>2, <2>3, <2>4
<1>6. QED
  BY <1>3, <1>4, <1>5 DEF Plain

\* The guards are about these operands, each of which has one if it can be NULL.
GuardedAt(nc, c, G, texts) ==
    /\ \A t \in G : \E y \in texts : t = NullTest(TRUE, y)
    /\ \A y \in texts : y.is[nc][c] = Null => NullTest(TRUE, y) \in G

With(t, G) == {t} \cup G

LEMMA GuardLemma ==
    ASSUME NEW nc \in NullCompares, NEW c \in Values, NEW G, NEW texts, NEW t,
           GuardedAt(nc, c, G, texts)
    PROVE  AllOf(With(t, G)).is[nc][c] = True <=>
               t.is[nc][c] = True /\ \A y \in texts : y.is[nc][c] # Null
<1>0. PICK all : all = With(t, G)
  OBVIOUS
<1> DEFINE values == {g.is[nc][c] : g \in all}
<1>1. \A y : NullTest(TRUE, y).is[nc][c] = True <=> y.is[nc][c] # Null
  <2> TAKE y
  <2>1. NullTest(TRUE, y).is[nc][c] = Bool((y.is[nc][c] = Null) # TRUE)
    BY DEF NullTest, Text
  <2>2. (y.is[nc][c] = Null) # TRUE <=> y.is[nc][c] # Null
    OBVIOUS
  <2>3. QED
    BY <2>1, <2>2, LogicLemma
<1>2. AllOf(all).is[nc][c] = And3(values)
  BY DEF AllOf, Text
<1>3. And3(values) = True <=> \A v \in values : v = True
  BY LogicLemma
<1>4. (\A v \in values : v = True) <=> t.is[nc][c] = True /\ \A g \in G : g.is[nc][c] = True
  BY <1>0 DEF With
<1>5. (\A g \in G : g.is[nc][c] = True) <=> \A y \in texts : y.is[nc][c] # Null
  BY <1>1 DEF GuardedAt
<1> HIDE DEF values
<1>6. QED
  BY <1>0, <1>2, <1>3, <1>4, <1>5

\* A comparison, guarded or with a side that is not NULL.
LEMMA ComparisonExact ==
    \A op, l, r, G : \A nc \in NullCompares, c \in Values :
        /\ RenderComparison(op, l, r, G) # None
        /\ GuardedAt(nc, c, G, {l, r})
        /\ op = "<>" \/ l.is[nc][c] # Null \/ r.is[nc][c] # Null
        => (RenderComparison(op, l, r, G).is[nc][c] = True <=>
                SqlCompare(op, l.is[nc][c], r.is[nc][c]) = True)
<1> TAKE op, l, r, G
<1> TAKE nc \in NullCompares, c \in Values
<1> HAVE /\ RenderComparison(op, l, r, G) # None
         /\ GuardedAt(nc, c, G, {l, r})
         /\ op = "<>" \/ l.is[nc][c] # Null \/ r.is[nc][c] # Null
<1>0. PICK a, b : a = l.is[nc][c] /\ b = r.is[nc][c]
  OBVIOUS
<1> DEFINE server == ServerCompare(op, nc, a, b)
<1>1. op \in ComparisonOps
  BY DEF RenderComparison
<1>2. Comparison(op, l, r).is[nc][c] = server
  BY <1>0 DEF Comparison, Text
<1>3. CASE op = "<>"
  <2>1. RenderComparison(op, l, r, G) = AllOf(With(Comparison(op, l, r), G))
    BY <1>3 DEF RenderComparison, With
  <2>2. AllOf(With(Comparison(op, l, r), G)).is[nc][c] = True <=>
            server = True /\ Null \notin {a, b}
    <3>1. PICK t, texts : t = Comparison(op, l, r) /\ texts = {l, r}
      OBVIOUS
    <3>2. GuardedAt(nc, c, G, texts)
      BY <3>1
    <3>3. AllOf(With(t, G)).is[nc][c] = True <=>
              t.is[nc][c] = True /\ \A y \in texts : y.is[nc][c] # Null
      BY <3>2, GuardLemma
    <3>4. (\A y \in texts : y.is[nc][c] # Null) <=> Null \notin {a, b}
      BY <1>0, <3>1
    <3>5. QED
      BY <1>2, <3>1, <3>3, <3>4
  <2>3. QED
    BY <1>0, <1>1, <2>1, <2>2, CompareLemma
<1>4. CASE op # "<>"
  <2>1. RenderComparison(op, l, r, G).is[nc][c] = server
    BY <1>2, <1>4 DEF RenderComparison
  <2>2. a # Null \/ b # Null
    BY <1>0, <1>4
  <2>3. Null \in {a, b} => a # b
    BY <2>2
  <2>4. server = True <=> SqlCompare(op, a, b) = True
    BY <1>1, <1>4, <2>3, CompareLemma
  <2>5. QED
    BY <1>0, <2>1, <2>4
<1>5. QED
  BY <1>3, <1>4

\* IN over values that are not NULL needs no guard.
LEMMA ListExact ==
    ASSUME NEW nc \in NullCompares, NEW c \in Values, NEW p, NEW I,
           \A i \in I : i.is[nc][c] # Null
    PROVE  Membership(FALSE, p, I).is[nc][c] = True <=>
               Or3({SqlCompare("=", p.is[nc][c], i.is[nc][c]) : i \in I}) = True
<1> DEFINE a == p.is[nc][c]
           equal == {SqlCompare("=", a, i.is[nc][c]) : i \in I}
           same == {ServerCompare("=", nc, a, i.is[nc][c]) : i \in I}
<1>1. Membership(FALSE, p, I).is[nc][c] = Or3(same)
  BY DEF Membership, Text
<1>2. "=" \in ComparisonOps
  BY DEF ComparisonOps
<1>3. \A i \in I : ServerCompare("=", nc, a, i.is[nc][c]) = True <=>
                       SqlCompare("=", a, i.is[nc][c]) = True
  <2> TAKE i \in I
  <2>1. PICK u, v : u = a /\ v = i.is[nc][c] /\ v # Null
    OBVIOUS
  <2>2. ServerCompare("=", nc, u, v) = True <=> SqlCompare("=", u, v) = True
    BY <1>2, <2>1, CompareLemma
  <2>3. QED
    BY <2>1, <2>2
<1>4. True \in same <=> True \in equal
  BY <1>3
<1>5. Or3(same) = True <=> Or3(equal) = True
  BY <1>4, LogicLemma
<1>6. QED
  BY <1>1, <1>5

\* IN, and a guarded NOT IN, over values that are not NULL.
LEMMA MembershipExact ==
    \A neg \in BOOLEAN, nc \in NullCompares, c \in Values : \A p, I, G :
        /\ RenderMembership(neg, p, I, G) # None
        /\ neg => GuardedAt(nc, c, G, {p})
        /\ \A i \in I : i.is[nc][c] # Null
        => (RenderMembership(neg, p, I, G).is[nc][c] = True <=>
               LET equal == {SqlCompare("=", p.is[nc][c], i.is[nc][c]) : i \in I}
               IN (IF neg THEN Not3(Or3(equal)) ELSE Or3(equal)) = True)
<1> TAKE neg \in BOOLEAN, nc \in NullCompares, c \in Values
<1> SUFFICES ASSUME NEW p, NEW I, NEW G, RenderMembership(neg, p, I, G) # None,
                    neg => GuardedAt(nc, c, G, {p}), \A i \in I : i.is[nc][c] # Null
             PROVE  RenderMembership(neg, p, I, G).is[nc][c] = True <=>
                       LET equal == {SqlCompare("=", p.is[nc][c], i.is[nc][c]) : i \in I}
                       IN (IF neg THEN Not3(Or3(equal)) ELSE Or3(equal)) = True
  OBVIOUS
<1> DEFINE a == p.is[nc][c]
           equal == {SqlCompare("=", a, i.is[nc][c]) : i \in I}
           same == {ServerCompare("=", nc, a, i.is[nc][c]) : i \in I}
           differ == {ServerCompare("<>", nc, a, i.is[nc][c]) : i \in I}
<1> SUFFICES RenderMembership(neg, p, I, G).is[nc][c] = True <=>
                 (IF neg THEN Not3(Or3(equal)) ELSE Or3(equal)) = True
  OBVIOUS
<1>1. I # {}
  BY DEF RenderMembership
<1>2. Membership(neg, p, I).is[nc][c] = IF neg THEN And3(differ) ELSE Or3(same)
  BY DEF Membership, Text
<1>3. "=" \in ComparisonOps /\ "<>" \in ComparisonOps
  BY DEF ComparisonOps
<1>4. CASE neg
  <2>1. RenderMembership(neg, p, I, G) = AllOf(With(Membership(neg, p, I), G))
    BY <1>4 DEF RenderMembership, With
  <2>2. AllOf(With(Membership(neg, p, I), G)).is[nc][c] = True <=> And3(differ) = True /\ a # Null
    <3>1. PICK t, texts : t = Membership(neg, p, I) /\ texts = {p}
      OBVIOUS
    <3>2. GuardedAt(nc, c, G, texts)
      BY <1>4, <3>1
    <3>3. AllOf(With(t, G)).is[nc][c] = True <=>
              t.is[nc][c] = True /\ \A y \in texts : y.is[nc][c] # Null
      BY <3>2, GuardLemma
    <3>4. (\A y \in texts : y.is[nc][c] # Null) <=> a # Null
      BY <3>1
    <3> HIDE DEF differ, a
    <3>5. QED
      BY <1>2, <1>4, <3>1, <3>3, <3>4
  <2>3. Not3(Or3(equal)) = True <=> True \notin equal /\ Null \notin equal
    BY LogicLemma
  <2>4. CASE a = Null
    <3>1. \A i \in I : SqlCompare("=", a, i.is[nc][c]) = Null
      BY <2>4 DEF SqlCompare
    <3>2. Null \in equal
      BY <1>1, <3>1
    <3> HIDE DEF equal, differ
    <3>3. QED
      BY <1>4, <2>1, <2>2, <2>3, <2>4, <3>2
  <2>5. CASE a # Null
    <3>1. \A i \in I : /\ SqlCompare("=", a, i.is[nc][c]) = Bool(a = i.is[nc][c])
                       /\ ServerCompare("<>", nc, a, i.is[nc][c]) = Bool(a # i.is[nc][c])
      <4> TAKE i \in I
      <4>1. PICK u, v : u = a /\ v = i.is[nc][c]
        OBVIOUS
      <4>2. Null \notin {u, v}
        BY <2>5, <4>1
      <4>3. SqlCompare("=", u, v) = Bool(u = v) /\ ServerCompare("<>", nc, u, v) = Bool(u # v)
        BY <4>2 DEF SqlCompare, ServerCompare, Compare
      <4>4. QED
        BY <4>1, <4>3
    <3>2. And3(differ) = True <=> \A v \in differ : v = True
      BY LogicLemma
    <3>3. (\A v \in differ : v = True) <=> \A i \in I : a # i.is[nc][c]
      <4>1. \A i \in I : ServerCompare("<>", nc, a, i.is[nc][c]) = True <=> a # i.is[nc][c]
        BY <3>1, LogicLemma
      <4>2. QED
        BY <4>1
    <3>4. Null \notin equal
      <4>1. \A b : Bool(b) # Null
        BY DEF Bool, True, False, Null
      <4>2. \A i \in I : SqlCompare("=", a, i.is[nc][c]) # Null
        BY <3>1, <4>1
      <4>3. QED
        BY <4>2
    <3>5. True \notin equal <=> \A i \in I : a # i.is[nc][c]
      <4>1. \A i \in I : SqlCompare("=", a, i.is[nc][c]) = True <=> a = i.is[nc][c]
        BY <3>1, LogicLemma
      <4>2. QED
        BY <4>1
    <3> HIDE DEF equal, differ
    <3>6. QED
      BY <1>4, <2>1, <2>2, <2>3, <2>5, <3>2, <3>3, <3>4, <3>5
  <2>6. QED
    BY <2>4, <2>5
<1>5. CASE ~neg
  <2>1. RenderMembership(neg, p, I, G) = Membership(FALSE, p, I)
    BY <1>5 DEF RenderMembership
  <2>2. Membership(FALSE, p, I).is[nc][c] = True <=> Or3(equal) = True
    BY ListExact
  <2>3. QED
    BY <1>5, <2>1, <2>2
<1>6. QED
  BY <1>4, <1>5

\* An audited expression the scan renders is true on the server exactly where it
\* is in DuckDB.
LEMMA CmpExact ==
    ASSUME NEW x \in Expressions, Audited[x], x.e = "cmp", RenderDbisamExpression[x] # None,
           NEW nc \in NullCompares, NEW c \in Values
    PROVE  RenderDbisamExpression[x].is[nc][c] = True <=> Value[x][c] = True
<1> DEFINE l == RenderDbisamExpression[x.l]
           r == RenderDbisamExpression[x.r]
           G == NullGuard(x.l, l) \cup NullGuard(x.r, r)
<1>1. x.l \in Expressions /\ x.r \in Expressions
  BY ExpressionParts DEF Children
<1>2. Plain(x.l) /\ Plain(x.r) /\ (x.op = "<>" \/ "const" \in {x.l.e, x.r.e})
  BY AuditedLemma
<1>3. RenderDbisamExpression[x] = RenderComparison(x.op, l, r, G)
  BY RenderExpressionLemma
<1>4. l # None /\ r # None
  BY <1>3 DEF RenderComparison
<1>5. /\ l.is[nc][c] = Value[x.l][c] /\ r.is[nc][c] = Value[x.r][c]
      /\ x.l.e = "const" => l.is[nc][c] # Null
      /\ x.r.e = "const" => r.is[nc][c] # Null
  BY <1>1, <1>2, <1>4, PlainExact
<1>6. \A y, t : /\ \A g \in NullGuard(y, t) : g = NullTest(TRUE, t)
                /\ y.e # "const" => NullTest(TRUE, t) \in NullGuard(y, t)
  BY DEF NullGuard
<1>7. Value[x][c] = SqlCompare(x.op, Value[x.l][c], Value[x.r][c])
  BY ValueCases
<1> HIDE DEF l, r
<1>8. GuardedAt(nc, c, G, {l, r})
  <2>1. \A t \in G : \E y \in {l, r} : t = NullTest(TRUE, y)
    BY <1>6
  <2>2. \A y \in {l, r} : y.is[nc][c] = Null => NullTest(TRUE, y) \in G
    BY <1>5, <1>6
  <2>3. QED
    BY <2>1, <2>2 DEF GuardedAt
<1>9. x.op = "<>" \/ l.is[nc][c] # Null \/ r.is[nc][c] # Null
  BY <1>2, <1>5
<1> HIDE DEF G
<1>10. RenderComparison(x.op, l, r, G) # None
  BY <1>3
<1>11. RenderComparison(x.op, l, r, G).is[nc][c] = True <=>
           SqlCompare(x.op, l.is[nc][c], r.is[nc][c]) = True
  BY <1>8, <1>9, <1>10, ComparisonExact
<1>12. QED
  BY <1>3, <1>5, <1>7, <1>11

LEMMA InExact ==
    ASSUME NEW x \in Expressions, Audited[x], x.e = "in", RenderDbisamExpression[x] # None,
           NEW nc \in NullCompares, NEW c \in Values
    PROVE  RenderDbisamExpression[x].is[nc][c] = True <=> Value[x][c] = True
<1> DEFINE p == RenderDbisamExpression[x.probe]
           I == {RenderDbisamExpression[y] : y \in Elems(x.items)}
           G == NullGuard(x.probe, p)
           equal == {SqlCompare("=", p.is[nc][c], i.is[nc][c]) : i \in I}
           equalTo == {SqlCompare("=", Value[x.probe][c], Value[y][c]) : y \in Elems(x.items)}
<1>1. /\ x.neg \in BOOLEAN /\ x.probe \in Expressions
      /\ \A y \in Elems(x.items) : y \in Expressions
  BY ExpressionParts DEF Children
<1>2. Plain(x.probe) /\ \A y \in Elems(x.items) : Plain(y) /\ y.e = "const"
  BY AuditedLemma
<1>3. RenderDbisamExpression[x] = RenderMembership(x.neg, p, I, G)
  BY RenderExpressionLemma
<1>4. p # None /\ \A y \in Elems(x.items) : RenderDbisamExpression[y] # None
  BY <1>3 DEF RenderMembership
<1>5. p.is[nc][c] = Value[x.probe][c] /\ (x.probe.e = "const" => p.is[nc][c] # Null)
  BY <1>1, <1>2, <1>4, PlainExact
<1>6. \A y \in Elems(x.items) : /\ RenderDbisamExpression[y].is[nc][c] = Value[y][c]
                                /\ RenderDbisamExpression[y].is[nc][c] # Null
  BY <1>1, <1>2, <1>4, PlainExact
<1>7. \A i \in I : i.is[nc][c] # Null
  BY <1>6
<1>8. GuardedAt(nc, c, G, {p})
  <2> HIDE DEF p
  <2>1. QED
    BY <1>5 DEF GuardedAt, NullGuard
<1>9. equal = equalTo
  BY <1>5, <1>6
<1>10. Value[x][c] = IF x.neg THEN Not3(Or3(equalTo)) ELSE Or3(equalTo)
  BY ValueCases
<1>11. RenderMembership(x.neg, p, I, G).is[nc][c] = True <=>
           (IF x.neg THEN Not3(Or3(equal)) ELSE Or3(equal)) = True
  <2> HIDE DEF p, I, G
  <2>1. QED
    BY <1>1, <1>3, <1>7, <1>8, MembershipExact
<1> HIDE DEF p, I, G, equal, equalTo
<1>12. QED
  BY <1>3, <1>9, <1>10, <1>11

LEMMA IsNullExact ==
    ASSUME NEW x \in Expressions, Audited[x], x.e = "isnull", RenderDbisamExpression[x] # None,
           NEW nc \in NullCompares, NEW c \in Values
    PROVE  RenderDbisamExpression[x].is[nc][c] = True <=> Value[x][c] = True
<1>1. x.arg \in Expressions /\ Plain(x.arg)
  BY ExpressionParts, AuditedLemma DEF Children
<1>2. PICK arg : arg = RenderDbisamExpression[x.arg]
  OBVIOUS
<1>3. RenderDbisamExpression[x] = RenderNullTest(x.neg, arg)
  BY <1>2, RenderExpressionLemma
<1>4. arg # None /\ RenderNullTest(x.neg, arg) = NullTest(x.neg, arg)
  BY <1>3 DEF RenderNullTest
<1>5. arg.is[nc][c] = Value[x.arg][c]
  BY <1>1, <1>2, <1>4, PlainExact
<1>6. NullTest(x.neg, arg).is[nc][c] = Bool((arg.is[nc][c] = Null) # x.neg)
  BY DEF NullTest, Text
<1>7. Value[x][c] = Bool((Value[x.arg][c] = Null) # x.neg)
  BY ValueCases
<1>8. QED
  BY <1>3, <1>4, <1>5, <1>6, <1>7

LEMMA TestExact ==
    \A x \in Expressions, nc \in NullCompares, c \in Values :
        Audited[x] /\ RenderDbisamExpression[x] # None =>
            (RenderDbisamExpression[x].is[nc][c] = True <=> Value[x][c] = True)
<1> SUFFICES ASSUME NEW nc \in NullCompares, NEW c \in Values
             PROVE  \A x \in Expressions : Audited[x] /\ RenderDbisamExpression[x] # None =>
                        (RenderDbisamExpression[x].is[nc][c] = True <=> Value[x][c] = True)
  OBVIOUS
<1> DEFINE Exactly(x) ==
             Audited[x] /\ RenderDbisamExpression[x] # None =>
                 (RenderDbisamExpression[x].is[nc][c] = True <=> Value[x][c] = True)
           U == Expressions
           d == [x \in U |-> Depth[x]]
           T == {x \in U : Exactly(x)}
<1>1. d \in [U -> Nat] /\ \A x \in U : d[x] = Depth[x]
  BY DepthAssumption
<1>2. ASSUME NEW x \in U, \A y \in U : d[y] < d[x] => Exactly(y)
      PROVE  Exactly(x)
  <2> SUFFICES ASSUME Audited[x], RenderDbisamExpression[x] # None
               PROVE  RenderDbisamExpression[x].is[nc][c] = True <=> Value[x][c] = True
    OBVIOUS
  <2>1. CASE x.e = "cmp"
    BY <2>1, CmpExact
  <2>2. CASE x.e = "in"
    BY <2>2, InExact
  <2>3. CASE x.e = "isnull"
    BY <2>3, IsNullExact
  <2>4. CASE x.e = "conj"
    <3> DEFINE texts == {RenderDbisamExpression[y] : y \in Elems(x.args)}
               sent == {t.is[nc][c] : t \in texts}
               values == {Value[y][c] : y \in Elems(x.args)}
    <3>1. RenderDbisamExpression[x] = RenderConj(x.op, texts)
      BY <2>4, RenderExpressionLemma
    <3>2. None \notin texts
      BY <3>1 DEF RenderConj
    <3>3. \A y \in Elems(x.args) : y \in Expressions /\ Exactly(y) /\ Audited[y]
      BY <1>1, <1>2, <2>4, ExpressionParts, AuditedLemma DEF Children
    <3>4. \A y \in Elems(x.args) : RenderDbisamExpression[y] # None
      BY <3>2
    <3>5. \A y \in Elems(x.args) : RenderDbisamExpression[y].is[nc][c] = True <=> Value[y][c] = True
      BY <3>3, <3>4
    <3>6. (\A v \in sent : v = True) <=> (\A v \in values : v = True)
      BY <3>5
    <3>7. True \in sent <=> True \in values
      BY <3>5
    <3>8. Value[x][c] = IF x.op = "and" THEN And3(values) ELSE Or3(values)
      BY <2>4, ValueCases
    <3>9. RenderDbisamExpression[x].is[nc][c] = IF x.op = "and" THEN And3(sent) ELSE Or3(sent)
      <4> HIDE DEF texts
      <4>1. RenderDbisamExpression[x] = IF x.op = "and" THEN AllOf(texts) ELSE SomeOf(texts)
        BY <3>1, <3>2 DEF RenderConj
      <4>2. AllOf(texts).is[nc][c] = And3(sent) /\ SomeOf(texts).is[nc][c] = Or3(sent)
        BY DEF AllOf, SomeOf, Text
      <4> HIDE DEF sent
      <4>3. QED
        BY <4>1, <4>2
    <3> HIDE DEF sent, values, texts
    <3>10. QED
      BY <3>6, <3>7, <3>8, <3>9, LogicLemma
  <2>5. QED
    BY <2>1, <2>2, <2>3, <2>4, AuditedLemma
<1>3. \A x \in U : x \in T
  <2>1. ASSUME NEW x \in U, \A y \in U : d[y] < d[x] => y \in T
        PROVE  x \in T
    <3> HIDE DEF Exactly, U, d
    <3>1. QED
      BY <1>2, <2>1
  <2> HIDE DEF T, U, d
  <2>2. QED
    BY <1>1, <2>1, DepthInduction
<1>4. QED
  BY <1>3

LEMMA SolidParts ==
    /\ \A f \in TableFilters : f.f = "or" => \A i \in DOMAIN f.kids : f.kids[i] \in Solid
    /\ \A f \in Solid : /\ f \in TableFilters /\ f.f \notin {"optional", "dynamic", "bloom"}
                        /\ f.f = "and" => \A i \in DOMAIN f.kids : f.kids[i] \in Solid
BY SolidAssumption, SequenceElements

\* DuckDB checks nothing of a solid filter again.
LEMMA SolidRechecked == \A f \in Solid : Rechecked[f] = Values
<1> DEFINE U == TableFilters
           d == [x \in U |-> Depth[x]]
           T == {f \in U : f \in Solid => Rechecked[f] = Values}
<1>1. d \in [U -> Nat] /\ \A x \in U : d[x] = Depth[x]
  BY DepthAssumption
<1>2. ASSUME NEW f \in U, \A y \in U : d[y] < d[f] => y \in T
      PROVE  f \in T
  <2> SUFFICES ASSUME f \in Solid PROVE Rechecked[f] = Values
    OBVIOUS
  <2>1. CASE f.f = "and"
    <3>1. \A i \in DOMAIN f.kids : Rechecked[f.kids[i]] = Values
      BY <1>1, <1>2, <2>1, FilterParts, SolidParts
    <3>2. Rechecked[f] = {c \in Values : \A i \in DOMAIN f.kids : c \in Rechecked[f.kids[i]]}
      BY <2>1, RecheckedLemma
    <3>3. QED
      BY <3>1, <3>2
  <2>2. CASE f.f # "and"
    BY <2>2, SolidParts, RecheckedLemma
  <2>3. QED
    BY <2>1, <2>2
<1>3. \A x \in U : x \in T
  <2> HIDE DEF T, U, d
  <2>1. QED
    BY <1>1, <1>2, DepthInduction
<1>4. QED
  BY <1>3, SolidParts

\* A value that passes a filter passes what DuckDB checks of it again; for a
\* filter the scan may skip the two are the same.
LEMMA RecheckedExact ==
    \A f \in TableFilters : /\ Passes[f] \subseteq Rechecked[f]
                            /\ IsSkippableFilter[f] => Rechecked[f] \subseteq Passes[f]
<1> DEFINE U == TableFilters
           d == [x \in U |-> Depth[x]]
           Exactly(f) == /\ Passes[f] \subseteq Rechecked[f]
                         /\ IsSkippableFilter[f] => Rechecked[f] \subseteq Passes[f]
           T == {f \in U : Exactly(f)}
<1>1. d \in [U -> Nat] /\ \A x \in U : d[x] = Depth[x]
  BY DepthAssumption
<1>2. ASSUME NEW f \in U, \A y \in U : d[y] < d[f] => Exactly(y)
      PROVE  Exactly(f)
  <2>1. CASE f.f = "and"
    <3>1. \A i \in DOMAIN f.kids : f.kids[i] \in U /\ Exactly(f.kids[i])
      BY <1>1, <1>2, <2>1, FilterParts
    <3>2. Passes[f] = {c \in Values : \A i \in DOMAIN f.kids : c \in Passes[f.kids[i]]}
      BY <2>1, PassesLemma
    <3>3. Rechecked[f] = {c \in Values : \A i \in DOMAIN f.kids : c \in Rechecked[f.kids[i]]}
      BY <2>1, RecheckedLemma
    <3>4. IsSkippableFilter[f] => \A i \in DOMAIN f.kids : IsSkippableFilter[f.kids[i]]
      BY <2>1, SkippableLemma
    <3>5. QED
      BY <3>1, <3>2, <3>3, <3>4
  <2>2. CASE f.f # "and"
    <3>1. Rechecked[f] = IF f.f \in {"optional", "dynamic", "bloom"} THEN Passes[f] ELSE Values
      BY <2>2, RecheckedLemma
    <3>2. Passes[f] \subseteq Values
      BY PassesLemma
    <3>3. IsSkippableFilter[f] => f.f \in {"optional", "dynamic", "bloom"}
      BY <2>2, SkippableLemma
    <3>4. QED
      BY <3>1, <3>2, <3>3
  <2>3. QED
    BY <2>1, <2>2
<1>3. \A x \in U : x \in T
  <2>1. ASSUME NEW x \in U, \A y \in U : d[y] < d[x] => y \in T
        PROVE  x \in T
    <3> HIDE DEF Exactly, U, d
    <3>1. QED
      BY <1>2, <2>1
  <2> HIDE DEF T, U, d
  <2>2. QED
    BY <1>1, <2>1, DepthInduction
<1>4. QED
  BY <1>3

\* A filter without parts.
LEMMA LeafExact ==
    ASSUME NEW f \in TableFilters, f.f \notin {"optional", "and", "or"}, AuditedFilter[f],
           RenderLeaf(f) # None, NEW nc \in NullCompares, NEW c \in Values
    PROVE  RenderLeaf(f).is[nc][c] = True <=> LeafPasses(f, c)
<1>1. ColumnText.is[nc][c] = c
  BY DEF ColumnText, Text
<1>2. ASSUME NEW v \in Values, NEW type \in Types, RenderValue(v, type) # None,
             WholeSecond(v, type)
      PROVE  v # Null /\ RenderValue(v, type).is[nc][c] = v
  <2>1. v # Null /\ RenderValue(v, type).is[nc][c] = IF type = "timestamp" THEN Second(v) ELSE v
    BY <1>2 DEF RenderValue, Text
  <2>2. QED
    BY <1>2, <2>1 DEF WholeSecond
<1>3. CASE f.f = "null"
  <2>1. RenderLeaf(f) = NullTest(f.neg, ColumnText)
    BY <1>3 DEF RenderLeaf
  <2>2. NullTest(f.neg, ColumnText).is[nc][c] = Bool((ColumnText.is[nc][c] = Null) # f.neg)
    BY DEF NullTest, Text
  <2>3. LeafPasses(f, c) <=> (c = Null) # f.neg
    BY <1>3 DEF LeafPasses
  <2>4. QED
    BY <1>1, <2>1, <2>2, <2>3, LogicLemma
<1>4. CASE f.f = "cmp"
  <2> DEFINE t == RenderValue(f.v, f.type)
             G == NullGuard(Column, ColumnText)
  <2>1. RenderLeaf(f) = RenderComparison(f.op, ColumnText, t, G)
    BY <1>4 DEF RenderLeaf
  <2>2. t # None
    BY <2>1 DEF RenderComparison
  <2>3. f.v \in Values /\ f.type \in Types /\ WholeSecond(f.v, f.type)
    BY <1>4, FilterParts, AuditedFilterLemma
  <2>4. f.v # Null /\ t.is[nc][c] = f.v
    BY <1>2, <2>2, <2>3
  <2>5. G = {NullTest(TRUE, ColumnText)}
    BY DEF NullGuard, Column
  <2>6. GuardedAt(nc, c, G, {ColumnText, t})
    BY <2>4, <2>5 DEF GuardedAt
  <2> HIDE DEF t, G
  <2>7. RenderComparison(f.op, ColumnText, t, G) # None /\ t.is[nc][c] # Null
    BY <2>1, <2>4
  <2>8. RenderComparison(f.op, ColumnText, t, G).is[nc][c] = True <=>
            SqlCompare(f.op, ColumnText.is[nc][c], t.is[nc][c]) = True
    BY <2>6, <2>7, ComparisonExact
  <2>9. LeafPasses(f, c) <=> SqlCompare(f.op, c, f.v) = True
    BY <1>4 DEF LeafPasses
  <2>10. QED
    BY <1>1, <2>1, <2>4, <2>8, <2>9
<1>5. CASE f.f = "in"
  <2> DEFINE I == {RenderValue(v, f.type) : v \in Elems(f.vals)}
             equal == {SqlCompare("=", ColumnText.is[nc][c], i.is[nc][c]) : i \in I}
  <2>1. RenderLeaf(f) = RenderMembership(FALSE, ColumnText, I, {})
    BY <1>5 DEF RenderLeaf
  <2>2. None \notin I
    BY <2>1 DEF RenderMembership
  <2>3. /\ f.type \in Types
        /\ \A v \in Elems(f.vals) : v \in Values /\ WholeSecond(v, f.type)
    BY <1>5, FilterParts, AuditedFilterLemma DEF Elems
  <2>4. \A v \in Elems(f.vals) : v # Null /\ RenderValue(v, f.type).is[nc][c] = v
    BY <1>2, <2>2, <2>3
  <2>5. RenderMembership(FALSE, ColumnText, I, {}).is[nc][c] = True <=> Or3(equal) = True
    <3>1. RenderMembership(FALSE, ColumnText, I, {}) = Membership(FALSE, ColumnText, I)
      BY <2>1 DEF RenderMembership
    <3>2. \A i \in I : i.is[nc][c] # Null
      BY <2>4
    <3>3. Membership(FALSE, ColumnText, I).is[nc][c] = True <=> Or3(equal) = True
      <4> HIDE DEF I
      <4>1. QED
        BY <3>2, ListExact
    <3>4. QED
      BY <3>1, <3>3
  <2>6. True \in equal <=> c # Null /\ c \in Elems(f.vals)
    <3>1. \A v \in Elems(f.vals) :
             SqlCompare("=", ColumnText.is[nc][c], RenderValue(v, f.type).is[nc][c]) = True <=>
                 c # Null /\ c = v
      BY <1>1, <2>4 DEF SqlCompare, Compare, Bool, True, False, Null
    <3>2. QED
      BY <3>1
  <2>7. Or3(equal) = True <=> True \in equal
    BY LogicLemma
  <2> HIDE DEF I, equal
  <2>8. QED
    BY <1>5, <2>1, <2>5, <2>6, <2>7 DEF LeafPasses
<1>6. CASE f.f = "expr"
  <2>1. f.expr \in Expressions /\ RenderLeaf(f) = RenderDbisamExpression[f.expr] /\ Audited[f.expr]
    BY <1>6, FilterParts, AuditedFilterLemma DEF RenderLeaf
  <2>2. RenderDbisamExpression[f.expr].is[nc][c] = True <=> Value[f.expr][c] = True
    BY <2>1, TestExact
  <2>3. QED
    BY <1>6, <2>1, <2>2 DEF LeafPasses, Holds
<1>7. CASE f.f \in {"dynamic", "bloom", "struct"}
  BY <1>7 DEF RenderLeaf
<1>8. QED
  BY <1>3, <1>4, <1>5, <1>6, <1>7, FilterParts

\* What the server makes of a rendered, audited filter and what DuckDB checks again
\* are, together, the filter.
LEMMA FilterExact ==
    \A f \in TableFilters, nc \in NullCompares, c \in Values :
        AuditedFilter[f] /\ RenderDbisamFilter[f] # None =>
            /\ c \in Passes[f] => RenderDbisamFilter[f].is[nc][c] = True
            /\ RenderDbisamFilter[f].is[nc][c] = True /\ c \in Rechecked[f] => c \in Passes[f]
<1> SUFFICES ASSUME NEW nc \in NullCompares, NEW c \in Values
             PROVE  \A f \in TableFilters :
                        AuditedFilter[f] /\ RenderDbisamFilter[f] # None =>
                            /\ c \in Passes[f] => RenderDbisamFilter[f].is[nc][c] = True
                            /\ RenderDbisamFilter[f].is[nc][c] = True /\ c \in Rechecked[f] => c \in Passes[f]
  OBVIOUS
<1> DEFINE sent(f) == RenderDbisamFilter[f].is[nc][c]
           Exactly(f) ==
             AuditedFilter[f] /\ RenderDbisamFilter[f] # None =>
                 /\ c \in Passes[f] => sent(f) = True
                 /\ sent(f) = True /\ c \in Rechecked[f] => c \in Passes[f]
           U == TableFilters
           d == [x \in U |-> Depth[x]]
           T == {x \in U : Exactly(x)}
<1>1. d \in [U -> Nat] /\ \A x \in U : d[x] = Depth[x]
  BY DepthAssumption
<1>2. ASSUME NEW f \in U, \A y \in U : d[y] < d[f] => Exactly(y)
      PROVE  Exactly(f)
  <2> SUFFICES ASSUME AuditedFilter[f], RenderDbisamFilter[f] # None
               PROVE  /\ c \in Passes[f] => sent(f) = True
                      /\ sent(f) = True /\ c \in Rechecked[f] => c \in Passes[f]
    OBVIOUS
  <2>1. CASE f.f = "optional"
    <3>1. f.kid \in U /\ Exactly(f.kid) /\ AuditedFilter[f.kid]
      BY <1>1, <1>2, <2>1, FilterParts, AuditedFilterLemma DEF Kids
    <3>2. RenderDbisamFilter[f] = RenderDbisamFilter[f.kid] /\ Passes[f] = Passes[f.kid]
      BY <2>1, RenderFilterLemma, PassesLemma
    <3>3. Rechecked[f] = Passes[f]
      BY <2>1, RecheckedLemma
    <3>4. QED
      BY <3>1, <3>2, <3>3
  <2>2. CASE f.f \in {"and", "or"}
    <3> DEFINE texts == [i \in DOMAIN f.kids |-> RenderDbisamFilter[f.kids[i]]]
    <3>1. \A i \in DOMAIN f.kids : f.kids[i] \in U /\ Exactly(f.kids[i]) /\ AuditedFilter[f.kids[i]]
      BY <1>1, <1>2, <2>2, FilterParts, AuditedFilterLemma DEF Kids, Elems
    <3>3. CASE f.f = "and"
      <4> DEFINE shown == {texts[i] : i \in DOMAIN f.kids} \ {None}
                 truths == {t.is[nc][c] : t \in shown}
      <4>1. RenderDbisamFilter[f] = RenderAnd(f, texts)
        BY <3>3, RenderFilterLemma
      <4>2. /\ RenderAnd(f, texts) = AllOf(shown)
            /\ \A i \in DOMAIN f.kids : texts[i] = None => IsSkippableFilter[f.kids[i]]
        BY <4>1 DEF RenderAnd
      <4>3. AllOf(shown).is[nc][c] = And3(truths)
        BY DEF AllOf, Text
      <4>5. And3(truths) = True <=> \A t \in truths : t = True
        BY LogicLemma
      <4>6. (\A t \in truths : t = True) <=>
                \A i \in DOMAIN f.kids : texts[i] # None => sent(f.kids[i]) = True
        OBVIOUS
      <4>7. sent(f) = True <=> \A i \in DOMAIN f.kids : texts[i] # None => sent(f.kids[i]) = True
        <5> HIDE DEF truths, shown, texts
        <5>1. sent(f) = And3(truths)
          BY <4>1, <4>2, <4>3
        <5>2. QED
          BY <4>5, <4>6, <5>1
      <4>8. Passes[f] = {k \in Values : \A i \in DOMAIN f.kids : k \in Passes[f.kids[i]]}
        BY <3>3, PassesLemma
      <4>9. Rechecked[f] = {k \in Values : \A i \in DOMAIN f.kids : k \in Rechecked[f.kids[i]]}
        BY <3>3, RecheckedLemma
      <4>10. ASSUME c \in Passes[f] PROVE sent(f) = True
        <5>1. \A i \in DOMAIN f.kids : texts[i] # None => sent(f.kids[i]) = True
          BY <3>1, <4>8, <4>10
        <5>2. QED
          BY <4>7, <5>1
      <4>11. ASSUME sent(f) = True, c \in Rechecked[f] PROVE c \in Passes[f]
        <5>1. ASSUME NEW i \in DOMAIN f.kids PROVE c \in Passes[f.kids[i]]
          <6>1. c \in Rechecked[f.kids[i]]
            BY <4>9, <4>11
          <6>2. CASE texts[i] = None
            BY <3>1, <4>2, <6>1, <6>2, RecheckedExact
          <6>3. CASE texts[i] # None
            BY <3>1, <4>7, <4>11, <6>1, <6>3
          <6>4. QED
            BY <6>2, <6>3
        <5>2. QED
          BY <4>8, <5>1
      <4>12. QED
        BY <4>10, <4>11
    <3>4. CASE f.f = "or"
      <4> DEFINE shown == {texts[i] : i \in DOMAIN f.kids}
                 truths == {t.is[nc][c] : t \in shown}
      <4>1. RenderDbisamFilter[f] = RenderConj("or", shown)
        BY <3>4, RenderFilterLemma
      <4>2. RenderConj("or", shown) = SomeOf(shown) /\ None \notin shown
        BY <4>1 DEF RenderConj
      <4>3. SomeOf(shown).is[nc][c] = Or3(truths)
        BY DEF SomeOf, Text
      <4>4. Or3(truths) = True <=> True \in truths
        BY LogicLemma
      <4>5. True \in truths <=> \E i \in DOMAIN f.kids : sent(f.kids[i]) = True
        OBVIOUS
      <4>6. \A i \in DOMAIN f.kids : texts[i] # None
        BY <4>2
      <4>7. \A i \in DOMAIN f.kids : sent(f.kids[i]) = True <=> c \in Passes[f.kids[i]]
        <5>1. \A i \in DOMAIN f.kids : Rechecked[f.kids[i]] = Values
          BY <3>4, SolidParts, SolidRechecked
        <5>2. QED
          BY <3>1, <4>6, <5>1
      <4>8. Passes[f] = {k \in Values : \E i \in DOMAIN f.kids : k \in Passes[f.kids[i]]}
        BY <3>4, PassesLemma
      <4>9. sent(f) = Or3(truths)
        <5> HIDE DEF shown, truths
        <5>1. QED
          BY <4>1, <4>2, <4>3
      <4>10. sent(f) = True <=> c \in Passes[f]
        <5> HIDE DEF shown, truths, texts
        <5>1. QED
          BY <4>4, <4>5, <4>7, <4>8, <4>9
      <4>11. QED
        BY <4>10
    <3>5. QED
      BY <2>2, <3>3, <3>4
  <2>3. CASE f.f \notin {"optional", "and", "or"}
    <3>1. RenderDbisamFilter[f] = RenderLeaf(f) /\ Passes[f] = {k \in Values : LeafPasses(f, k)}
      BY <2>3, RenderFilterLemma, PassesLemma
    <3>2. RenderLeaf(f).is[nc][c] = True <=> LeafPasses(f, c)
      BY <2>3, <3>1, LeafExact
    <3>3. QED
      BY <3>1, <3>2
  <2>4. QED
    BY <2>1, <2>2, <2>3
<1>3. \A x \in U : x \in T
  <2>1. ASSUME NEW x \in U, \A y \in U : d[y] < d[x] => y \in T
        PROVE  x \in T
    <3> HIDE DEF Exactly, U, d
    <3>1. QED
      BY <1>2, <2>1
  <2> HIDE DEF T, U, d
  <2>2. QED
    BY <1>1, <2>1, DepthInduction
<1>4. QED
  BY <1>3

-----------------------------------------------------------------------------
(***************************************************************************)
(* The query.  FilterInv is inductive.  ResultExact needs all of it: that  *)
(* the clause holds what was rendered of each filter, that a filter left   *)
(* out is one the scan may skip, and that DuckDB has erased its expression *)
(* only if it can be rendered.                                             *)
(***************************************************************************)

LEMMA FiltersLemma ==
    ASSUME query \in Queries
    PROVE  /\ DOMAIN Filters = 1..(Len(query.filters) + 1)
           /\ Filters[1] = IF accepted THEN [f |-> "expr", expr |-> query.expr] ELSE [f |-> "true"]
           /\ \A k \in DOMAIN query.filters :
                 /\ query.filters[k] \in TableFilters /\ k \in Nat
                 /\ k + 1 \in DOMAIN Filters /\ k + 1 # 1 /\ Filters[k + 1] = query.filters[k]
           /\ \A k \in DOMAIN Filters : k = 1 \/ \E j \in DOMAIN query.filters : k = j + 1
<1>1. PICK fs \in Seq(TableFilters) : fs = query.filters
  BY QueriesAssumption
<1>2. PICK h : h = IF accepted THEN [f |-> "expr", expr |-> query.expr] ELSE [f |-> "true"]
  OBVIOUS
<1>3. PICK n \in Nat : n = Len(fs) /\ DOMAIN fs = 1..n
  OBVIOUS
<1>4. Filters = <<h>> \o fs
  BY <1>1, <1>2 DEF Filters
<1>5. /\ DOMAIN (<<h>> \o fs) = 1..(n + 1) /\ (<<h>> \o fs)[1] = h
      /\ \A k \in 1..n : (<<h>> \o fs)[k + 1] = fs[k]
  BY <1>3
<1>6. \A k \in 1..n : k \in Nat /\ k + 1 \in 1..(n + 1) /\ k + 1 # 1 /\ fs[k] \in TableFilters
  BY <1>3
<1>7. \A k \in 1..(n + 1) : k = 1 \/ (k - 1 \in 1..n /\ k = (k - 1) + 1)
  OBVIOUS
<1>8. QED
  BY <1>1, <1>2, <1>3, <1>4, <1>5, <1>6, <1>7

\* An accepted expression is in the clause.
LEMMA AcceptedLemma ==
    ASSUME query \in Queries, AcceptInv, accepted
    PROVE  /\ query.expr \in Expressions /\ 1 \in DOMAIN Filters /\ Owed(1)
           /\ Rendered(1) = RenderDbisamExpression[query.expr] /\ Rendered(1) # None
<1>1. query.expr # None /\ ~query.virtual /\ RenderDbisamExpression[query.expr] # None
  BY DEF AcceptInv, HasExpr, Accepts
<1> DEFINE f == [f |-> "expr", expr |-> query.expr]
<1>2. query.expr \in Expressions /\ f \in TableFilters
  BY <1>1, QueriesAssumption
<1>3. Filters[1] = f /\ 1 \in DOMAIN Filters
  <2>1. Len(query.filters) \in Nat
    BY QueriesAssumption
  <2>2. \A n \in Nat : 1 \in 1..(n + 1)
    OBVIOUS
  <2>3. QED
    BY <2>1, <2>2, FiltersLemma
<1>4. Owed(1) /\ Named(1)
  BY <1>1, <1>3 DEF Owed, Named
<1>5. RenderDbisamFilter[f] = RenderDbisamExpression[query.expr]
  BY <1>2, RenderFilterLemma DEF RenderLeaf
<1>6. QED
  BY <1>1, <1>2, <1>3, <1>4, <1>5 DEF Rendered

\* A table filter is in the clause wherever it can be rendered.
LEMMA TableFilterLemma ==
    ASSUME query \in Queries
    PROVE  \A k \in DOMAIN query.filters :
               Owed(k + 1) /\ Rendered(k + 1) = RenderDbisamFilter[query.filters[k]]
<1> SUFFICES ASSUME NEW k \in DOMAIN query.filters
             PROVE  Owed(k + 1) /\ Rendered(k + 1) = RenderDbisamFilter[query.filters[k]]
  OBVIOUS
<1>1. query.filters[k] \in TableFilters /\ k + 1 # 1 /\ Filters[k + 1] = query.filters[k]
  BY FiltersLemma
<1>2. query.filters[k].f # "true"
  BY <1>1, FilterParts
<1>3. QED
  BY <1>1, <1>2 DEF Owed, Named, Rendered

LEMMA InitInv == Init => FilterInv
BY DEF Init, FilterInv, TypeOK, AcceptInv, WhereInv

LEMMA StepInv == FilterInv /\ [Next]_vars => FilterInv'
<1> SUFFICES ASSUME FilterInv, [Next]_vars PROVE FilterInv'
  OBVIOUS
<1>1. TypeOK /\ AcceptInv /\ WhereInv
  BY DEF FilterInv
<1>2. CASE PushdownExpression
  <2>1. query' = query /\ query \in Queries /\ accepted' \in BOOLEAN
    BY <1>1, <1>2 DEF TypeOK, PushdownExpression
  <2>2. DOMAIN Filters' = DOMAIN Filters
    <3>1. PICK fs \in Seq(TableFilters) : fs = query.filters
      BY <2>1, QueriesAssumption
    <3>2. \A h : DOMAIN (<<h>> \o fs) = 1..(Len(fs) + 1)
      OBVIOUS
    <3>3. QED
      BY <2>1, <3>1, <3>2 DEF Filters
  <2>3. TypeOK'
    BY <1>1, <1>2, <2>1, <2>2 DEF TypeOK, PushdownExpression, Rows
  <2>4. AcceptInv' /\ WhereInv'
    BY <1>2 DEF PushdownExpression, AcceptInv, WhereInv, HasExpr, Accepts
  <2>5. QED
    BY <2>3, <2>4 DEF FilterInv
<1>3. CASE RenderFilterSet
  <2>1. Filters' = Filters /\ query' = query /\ accepted' = accepted /\ phase = "init"
    BY <1>3 DEF RenderFilterSet, Filters
  <2>2. \A k : /\ Owed(k)' <=> Owed(k)
               /\ Rendered(k)' = Rendered(k)
    BY <2>1 DEF Owed, Rendered, Named
  <2>3. TypeOK'
    BY <1>1, <1>3, <2>1 DEF TypeOK, RenderFilterSet, Where, Rows
  <2>4. AcceptInv'
    BY <1>1, <1>3, <2>1 DEF RenderFilterSet, AcceptInv, HasExpr, Accepts
  <2>5. WhereInv'
    BY <1>3, <2>1, <2>2 DEF RenderFilterSet, WhereInv, Where
  <2>6. QED
    BY <2>3, <2>4, <2>5 DEF FilterInv
<1>4. CASE Run
  <2>1. Filters' = Filters /\ query' = query /\ accepted' = accepted /\ where' = where /\ phase = "scan"
    BY <1>4 DEF Run, Filters
  <2>2. \A k : /\ Owed(k)' <=> Owed(k)
               /\ Rendered(k)' = Rendered(k)
    BY <2>1 DEF Owed, Rendered, Named
  <2>3. TypeOK'
    <3>1. kept' \subseteq Rows
      BY <1>4 DEF Run
    <3>2. QED
      BY <1>1, <1>4, <2>1, <3>1 DEF TypeOK, Run, Rows
  <2>4. AcceptInv'
    BY <1>1, <1>4, <2>1 DEF Run, AcceptInv, HasExpr, Accepts
  <2>5. WhereInv'
    BY <1>1, <1>4, <2>1, <2>2 DEF Run, WhereInv
  <2>6. QED
    BY <2>3, <2>4, <2>5 DEF FilterInv
<1>5. CASE UNCHANGED vars
  <2>1. Filters' = Filters /\ query' = query /\ accepted' = accepted /\ where' = where
    BY <1>5 DEF vars, Filters
  <2>2. \A k : /\ Owed(k)' <=> Owed(k)
               /\ Rendered(k)' = Rendered(k)
    BY <2>1 DEF Owed, Rendered, Named
  <2>3. TypeOK' /\ AcceptInv'
    BY <1>1, <1>5, <2>1 DEF vars, TypeOK, Rows, AcceptInv, HasExpr, Accepts
  <2>4. WhereInv'
    BY <1>1, <1>5, <2>1, <2>2 DEF vars, WhereInv
  <2>5. QED
    BY <2>3, <2>4 DEF FilterInv
<1>6. QED
  BY <1>2, <1>3, <1>4, <1>5 DEF Next, Over

\* The accept callback, the renderer and the clause agree on every filter: what
\* DuckDB erases can be rendered, and what the clause lacks may be skipped
\* (dbisam_table_entry.cpp, dbisam_filter_render.cpp).
THEOREM FilterInvariant == Spec => []FilterInv
<1>1. QED
  BY InitInv, StepInv, PTL DEF Spec

LEMMA RunLemma ==
    ASSUME FilterInv, Run, accepted => Audited[query.expr],
           \A k \in DOMAIN query.filters : AuditedFilter[query.filters[k]]
    PROVE  kept' = Exact
<1>1. /\ query \in Queries /\ nullCompares \in NullCompares /\ phase = "scan"
      /\ accepted \in BOOLEAN /\ AcceptInv
  BY DEF FilterInv, TypeOK, Run
<1>2. /\ where = [k \in DOMAIN Filters |-> Rendered(k)]
      /\ \A k \in DOMAIN Filters : Owed(k) /\ Rendered(k) = None => IsSkippableFilter[Filters[k]]
  BY <1>1 DEF FilterInv, WhereInv
<1>3. PICK nc \in NullCompares : nc = nullCompares
  BY <1>1
<1>4. PICK DF, DQ : DF = DOMAIN Filters /\ DQ = DOMAIN query.filters
  OBVIOUS
<1>5. ASSUME NEW r \in Rows
      PROVE  r \in kept' <=> r \in Exact
  <2>1. \A k \in DF : r[k] \in Values
    BY <1>4 DEF Rows
  <2>2. r \in kept' <=>
          /\ \A k \in DF : Rendered(k) # None => Rendered(k).is[nc][r[k]] = True
          /\ HasExpr /\ ~accepted => Holds(query.expr, r[1])
          /\ \A k \in DQ : r[k + 1] \in Rechecked[query.filters[k]]
    BY <1>2, <1>3, <1>4 DEF Run
  <2>3. r \in Exact <=>
          /\ HasExpr => Holds(query.expr, r[1])
          /\ \A k \in DQ : r[k + 1] \in Passes[query.filters[k]]
    BY <1>4 DEF Exact
  <2>4. accepted => /\ HasExpr /\ 1 \in DF /\ Rendered(1) # None
                    /\ Rendered(1).is[nc][r[1]] = True <=> Holds(query.expr, r[1])
    <3> SUFFICES ASSUME accepted
                 PROVE  /\ HasExpr /\ 1 \in DF /\ Rendered(1) # None
                        /\ Rendered(1).is[nc][r[1]] = True <=> Holds(query.expr, r[1])
      OBVIOUS
    <3>1. /\ query.expr \in Expressions /\ 1 \in DF
          /\ Rendered(1) = RenderDbisamExpression[query.expr] /\ Rendered(1) # None
      BY <1>1, <1>4, AcceptedLemma
    <3>2. PICK x \in Expressions, c \in Values : x = query.expr /\ c = r[1]
      BY <2>1, <3>1
    <3>3. RenderDbisamExpression[x].is[nc][c] = True <=> Value[x][c] = True
      BY <3>1, <3>2, TestExact
    <3>4. HasExpr
      BY <1>1 DEF AcceptInv
    <3>5. QED
      BY <3>1, <3>2, <3>3, <3>4 DEF Holds
  <2>5. ~accepted => Rendered(1) = None
    BY <1>1, FiltersLemma DEF Rendered, Owed
  <2>6. ASSUME NEW k \in DQ
        PROVE  LET f == query.filters[k]
                   t == Rendered(k + 1)
               IN /\ k + 1 \in DF
                  /\ r[k + 1] \in Passes[f] => r[k + 1] \in Rechecked[f]
                  /\ r[k + 1] \in Passes[f] /\ t # None => t.is[nc][r[k + 1]] = True
                  /\ r[k + 1] \in Rechecked[f] /\ t = None => r[k + 1] \in Passes[f]
                  /\ r[k + 1] \in Rechecked[f] /\ t # None /\ t.is[nc][r[k + 1]] = True
                        => r[k + 1] \in Passes[f]
    <3>1. /\ query.filters[k] \in TableFilters /\ k + 1 \in DF
          /\ Filters[k + 1] = query.filters[k]
      BY <1>1, <1>4, FiltersLemma
    <3>2. Owed(k + 1) /\ Rendered(k + 1) = RenderDbisamFilter[query.filters[k]]
      BY <1>1, <1>4, TableFilterLemma
    <3>3. PICK f \in TableFilters, c \in Values : f = query.filters[k] /\ c = r[k + 1]
      BY <2>1, <3>1
    <3>4. Rendered(k + 1) = None => IsSkippableFilter[f]
      BY <1>2, <1>4, <3>1, <3>2, <3>3
    <3>5. /\ Passes[f] \subseteq Rechecked[f]
          /\ IsSkippableFilter[f] => Rechecked[f] \subseteq Passes[f]
      BY RecheckedExact
    <3>6. AuditedFilter[f] /\ RenderDbisamFilter[f] # None =>
              /\ c \in Passes[f] => RenderDbisamFilter[f].is[nc][c] = True
              /\ RenderDbisamFilter[f].is[nc][c] = True /\ c \in Rechecked[f] => c \in Passes[f]
      BY FilterExact
    <3>7. QED
      BY <1>4, <3>1, <3>2, <3>3, <3>4, <3>5, <3>6
  <2>7. \A k \in DF : k = 1 \/ \E j \in DQ : k = j + 1
    BY <1>1, <1>4, FiltersLemma
  <2>8. ASSUME r \in kept' PROVE r \in Exact
    <3>1. HasExpr => Holds(query.expr, r[1])
      BY <1>1, <2>2, <2>4, <2>8
    <3>2. \A k \in DQ : r[k + 1] \in Passes[query.filters[k]]
      BY <2>2, <2>6, <2>8
    <3>3. QED
      BY <2>3, <3>1, <3>2
  <2>9. ASSUME r \in Exact PROVE r \in kept'
    <3>1. ASSUME NEW k \in DF, Rendered(k) # None
          PROVE  Rendered(k).is[nc][r[k]] = True
      <4>1. CASE k = 1
        BY <1>1, <2>3, <2>4, <2>5, <2>9, <3>1, <4>1
      <4>2. ASSUME NEW j \in DQ, k = j + 1
            PROVE  Rendered(k).is[nc][r[k]] = True
        BY <2>3, <2>6, <2>9, <3>1, <4>2
      <4>3. QED
        BY <2>7, <4>1, <4>2
    <3>2. \A k \in DQ : r[k + 1] \in Rechecked[query.filters[k]]
      BY <2>3, <2>6, <2>9
    <3>3. QED
      BY <2>2, <2>3, <2>9, <3>1, <3>2
  <2>10. QED
    BY <2>8, <2>9
<1>6. kept' \subseteq Rows /\ Exact \subseteq Rows
  BY DEF Run, Exact
<1>7. QED
  BY <1>5, <1>6

\* Whichever filters of the audited shapes DuckDB hands to the scan, of any
\* depth, and whatever else the server makes of a comparison with NULL, a query
\* keeps the rows of SQL's three-valued logic (dbisam_filter_render.cpp, the
\* audit at its head and the guards of <> and NOT IN).
THEOREM ResultCorrect == Spec => []ResultExact
<1>1. Init => ResultExact
  BY DEF Init, ResultExact
<1>2. FilterInv /\ ResultExact /\ [Next]_vars => ResultExact'
  <2> SUFFICES ASSUME FilterInv, ResultExact, [Next]_vars, phase' = "done",
                      accepted' => Audited[query'.expr],
                      \A k \in DOMAIN query'.filters : AuditedFilter[query'.filters[k]]
               PROVE  kept' = Exact'
    BY DEF ResultExact
  <2>1. CASE PushdownExpression \/ RenderFilterSet
    BY <2>1 DEF PushdownExpression, RenderFilterSet
  <2>2. CASE Run
    <3>1. query' = query /\ accepted' = accepted /\ Filters' = Filters
      BY <2>2 DEF Run, Filters
    <3>2. Exact' = Exact
      BY <3>1 DEF Exact, Rows, HasExpr
    <3>3. QED
      BY <2>2, <3>1, <3>2, RunLemma
  <2>3. CASE UNCHANGED vars
    <3>1. query' = query /\ accepted' = accepted /\ Filters' = Filters
      BY <2>3 DEF vars, Filters
    <3>2. Exact' = Exact
      BY <3>1 DEF Exact, Rows, HasExpr
    <3>3. QED
      BY <2>3, <3>1, <3>2 DEF ResultExact, vars
  <2>4. QED
    BY <2>1, <2>2, <2>3 DEF Next, Over
<1>3. QED
  BY <1>1, <1>2, FilterInvariant, PTL DEF Spec

\* Accepting an expression never makes a query fail that DuckDB could have run
\* (DbisamPushdownExpression accepts what RenderDbisamFilterSet can render).
THEOREM AcceptedNeverFails == Spec => []AcceptedIsRendered
<1>1. Init => AcceptedIsRendered
  BY DEF Init, AcceptedIsRendered
<1>2. FilterInv /\ AcceptedIsRendered /\ [Next]_vars => AcceptedIsRendered'
  <2> SUFFICES ASSUME FilterInv, AcceptedIsRendered, [Next]_vars,
                      accepted', query'.filters = <<>>, phase' = "failed"
               PROVE  FALSE
    BY DEF AcceptedIsRendered
  <2>1. CASE PushdownExpression \/ Run
    BY <2>1 DEF PushdownExpression, Run
  <2>2. CASE RenderFilterSet
    <3>1. query \in Queries /\ AcceptInv /\ accepted /\ query.filters = <<>>
      BY <2>2 DEF FilterInv, TypeOK, RenderFilterSet
    <3>2. PICK k \in DOMAIN Filters : Owed(k) /\ Rendered(k) = None
      BY <2>2 DEF RenderFilterSet
    <3>3. k = 1
      BY <3>1, FiltersLemma
    <3>4. QED
      BY <3>1, <3>2, <3>3, AcceptedLemma
  <2>3. CASE UNCHANGED vars
    BY <2>3 DEF vars, AcceptedIsRendered
  <2>4. QED
    BY <2>1, <2>2, <2>3 DEF Next, Over
<1>3. QED
  BY <1>1, <1>2, FilterInvariant, PTL DEF Spec

=============================================================================
