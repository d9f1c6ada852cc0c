--------------------------- MODULE AttachedProofs ---------------------------
(***************************************************************************)
(* Proofs about AttachedScan, for tables of any size, plans of any length  *)
(* and outputs of any number of columns: it implements LimitPushdown, and  *)
(* cells and rows are those asked for.                                     *)
(***************************************************************************)
EXTENDS AttachedScan, LimitProofs

LEMMA AttachedSizes ==
    /\ NRows \in Nat /\ VectorSize \in Nat /\ VectorSize > 0
    /\ RowId \in Nat /\ 0 \in Cols /\ Blobs \subseteq Cols
    /\ \A c \in Cols : c \in Nat /\ c # RowId
BY AttachedAssumption, LimitAssumption DEF AttachedAssumption, LimitAssumption, Cols, RowId

-----------------------------------------------------------------------------
(***************************************************************************)
(* What InitGlobal makes of the columns and the filters.                   *)
(***************************************************************************)

\* The rows that a WHERE clause leaves are a statement's: those that pass, all
\* of them.
LEMMA RowsLemma ==
    \A cols :
        /\ RowsPassing(cols) \in Statements
        /\ \A k \in DOMAIN RowsPassing(cols) : Passes(RowsPassing(cols)[k], cols)
        /\ \A r \in 1..NRows :
              Passes(r, cols) => \E k \in DOMAIN RowsPassing(cols) : RowsPassing(cols)[k] = r
<1> SUFFICES ASSUME NEW cols
             PROVE  /\ RowsPassing(cols) \in Statements
                    /\ \A k \in DOMAIN RowsPassing(cols) : Passes(RowsPassing(cols)[k], cols)
                    /\ \A r \in 1..NRows :
                          Passes(r, cols) =>
                              \E k \in DOMAIN RowsPassing(cols) : RowsPassing(cols)[k] = r
  OBVIOUS
<1> DEFINE S == {r \in 1..NRows : Passes(r, cols)}
<1>1. /\ S \in SUBSET (1..NRows) /\ S \in SUBSET Nat
      /\ \A r : r \in S <=> r \in 1..NRows /\ Passes(r, cols)
  OBVIOUS
<1>2. RowsPassing(cols) = Ascending(S)
  BY DEF RowsPassing
<1> HIDE DEF S
<1>3. IsFiniteSet(1..NRows) /\ Cardinality(1..NRows) = NRows
  BY AttachedSizes, IntervalLemma
<1>4. IsFiniteSet(S) /\ Cardinality(S) <= NRows
  BY <1>1, <1>3, FS_Subset
<1>5. /\ Cardinality(S) \in Nat
      /\ Ascending(S) \in [1..Cardinality(S) -> S]
      /\ \A x \in S : Rank(S, x) \in 1..Cardinality(S) /\ Ascending(S)[Rank(S, x)] = x
      /\ \A j, k \in 1..Cardinality(S) : j < k => Ascending(S)[j] < Ascending(S)[k]
  BY <1>1, <1>4, AscendingLemma
<1>6. Ascending(S) \in Statements
  <2>1. Cardinality(S) \in 0..NRows
    BY <1>4, <1>5, AttachedSizes
  <2>2. Ascending(S) \in [1..Cardinality(S) -> 1..NRows]
    BY <1>1, <1>5
  <2>3. DOMAIN Ascending(S) = 1..Cardinality(S)
    BY <1>5
  <2>4. QED
    BY <1>5, <2>1, <2>2, <2>3 DEF Statements
<1>7. QED
  BY <1>1, <1>2, <1>5, <1>6

\* The real columns, each at the rank of its place in column_ids.
LEMMA RealLemma ==
    ASSUME columnIds \in Seq(Cols \cup {RowId})
    PROVE  /\ Real \in Seq(Cols) /\ Len(Real) \in Nat
           /\ \A p \in DOMAIN columnIds :
                 IsReal(columnIds[p]) =>
                     Rank(RealAt, p) \in 1..Len(Real) /\ Real[Rank(RealAt, p)] = columnIds[p]
<1>1. PICK S : S = RealAt
  OBVIOUS
<1>2. Len(columnIds) \in Nat /\ DOMAIN columnIds = 1..Len(columnIds)
  BY LenProperties
<1>3. S \in SUBSET (1..Len(columnIds)) /\ S \in SUBSET Nat
  BY <1>1, <1>2 DEF RealAt
<1>4. IsFiniteSet(S)
  <2>1. PICK n \in Nat : n = Len(columnIds)
    BY <1>2
  <2>2. IsFiniteSet(1..n)
    BY IntervalLemma
  <2>3. QED
    BY <1>3, <2>1, <2>2, FS_Subset
<1>5. /\ Cardinality(S) \in Nat
      /\ Ascending(S) \in [1..Cardinality(S) -> S]
      /\ \A x \in S : Rank(S, x) \in 1..Cardinality(S) /\ Ascending(S)[Rank(S, x)] = x
  BY <1>3, <1>4, AscendingLemma
<1>6. Real = [k \in 1..Cardinality(S) |-> columnIds[Ascending(S)[k]]]
  BY <1>1 DEF Real
<1>7. \A x \in S : columnIds[x] \in Cols
  BY <1>1 DEF RealAt, IsReal
<1>8. Real \in [1..Cardinality(S) -> Cols]
  BY <1>5, <1>6, <1>7
<1>9. Real \in Seq(Cols) /\ Len(Real) = Cardinality(S)
  BY <1>5, <1>8, SeqDef, LenProperties
<1>10. \A p \in DOMAIN columnIds : IsReal(columnIds[p]) => p \in S
  BY <1>1 DEF RealAt
<1>11. QED
  BY <1>1, <1>5, <1>6, <1>9, <1>10

\* Every real column of the output is mapped to its own column in the select
\* list; row ids to none; and a key leads the list where a blob needs it.
LEMMA SelectLemma ==
    ASSUME columnIds \in Seq(Cols \cup {RowId})
    PROVE  /\ SelectList \in Seq(Cols) /\ Len(SelectList) \in Nat
           /\ DOMAIN SelectList = 1..Len(SelectList)
           /\ DOMAIN Mapping = DOMAIN columnIds
           /\ \A p \in DOMAIN columnIds :
                 IF IsReal(columnIds[p])
                     THEN /\ Mapping[p] \in 1..Len(SelectList)
                          /\ SelectList[Mapping[p]] = columnIds[p]
                     ELSE Mapping[p] = NoCol
           /\ NeedsPk => Len(SelectList) > 0 /\ SelectList[1] = 0
<1> DEFINE shift == IF PkInjected THEN 1 ELSE 0
           key == IF PkInjected THEN <<0>> ELSE <<>>
<1>1. /\ Real \in Seq(Cols) /\ Len(Real) \in Nat
      /\ \A p \in DOMAIN columnIds :
            IsReal(columnIds[p]) =>
                Rank(RealAt, p) \in 1..Len(Real) /\ Real[Rank(RealAt, p)] = columnIds[p]
  BY RealLemma
<1>2. key \in Seq(Cols) /\ Len(key) = shift /\ (PkInjected => key[1] = 0)
  BY AttachedSizes, EmptySeq
<1>3. SelectList = key \o Real
  BY DEF SelectList
<1>4. shift \in Nat
  OBVIOUS
<1> HIDE DEF key, shift
<1>5. /\ SelectList \in Seq(Cols) /\ Len(SelectList) = shift + Len(Real)
      /\ \A i \in 1..(shift + Len(Real)) :
            SelectList[i] = IF i <= shift THEN key[i] ELSE Real[i - shift]
  <2>1. PICK r \in Seq(Cols) : r = Real
    BY <1>1
  <2>2. PICK k \in Seq(Cols) : k = key
    BY <1>2
  <2>3. /\ k \o r \in Seq(Cols) /\ Len(k \o r) = Len(k) + Len(r)
        /\ \A i \in 1..(Len(k) + Len(r)) : (k \o r)[i] = IF i <= Len(k) THEN k[i] ELSE r[i - Len(k)]
    BY ConcatProperties
  <2>4. QED
    BY <1>2, <1>3, <2>1, <2>2, <2>3
<1>6. DOMAIN SelectList = 1..Len(SelectList) /\ Len(SelectList) \in Nat
  BY <1>5, LenProperties
<1>7. DOMAIN Mapping = DOMAIN columnIds
  BY DEF Mapping
<1>8. ASSUME NEW p \in DOMAIN columnIds, IsReal(columnIds[p])
      PROVE  Mapping[p] \in 1..Len(SelectList) /\ SelectList[Mapping[p]] = columnIds[p]
  <2>1. Mapping[p] = Rank(RealAt, p) + shift
    BY <1>8 DEF Mapping, shift
  <2>2. Rank(RealAt, p) \in 1..Len(Real) /\ Real[Rank(RealAt, p)] = columnIds[p]
    BY <1>1, <1>8
  <2>3. \A s, l \in Nat : \A k \in 1..l : k + s \in 1..(s + l) /\ ~(k + s <= s) /\ k + s - s = k
    OBVIOUS
  <2>4. QED
    BY <1>1, <1>4, <1>5, <2>1, <2>2, <2>3
<1>9. ASSUME NEW p \in DOMAIN columnIds, ~IsReal(columnIds[p])
      PROVE  Mapping[p] = NoCol
  BY <1>9 DEF Mapping
<1>10. ASSUME NeedsPk
       PROVE  Len(SelectList) > 0 /\ SelectList[1] = 0
  <2>1. CASE PkInjected
    BY <1>1, <1>2, <1>5, <2>1 DEF shift
  <2>2. CASE ~PkInjected
    <3>1. Real # <<>> /\ Head(Real) = 0
      BY <1>10, <2>2 DEF PkInjected, PkLeads
    <3>2. Len(Real) > 0 /\ Real[1] = 0
      BY <1>1, <3>1, EmptySeq
    <3>3. QED
      BY <1>1, <1>5, <2>2, <3>2 DEF shift
  <2>3. QED
    BY <2>1, <2>2
<1>11. QED
  BY <1>5, <1>6, <1>7, <1>8, <1>9, <1>10

\* No column is real where a count suffices.
LEMMA CountLemma ==
    ASSUME columnIds \in Seq(Cols \cup {RowId}), CountSuffices
    PROVE  \A p \in DOMAIN columnIds : ~IsReal(columnIds[p])
<1>1. Len(SelectList) = 0
  BY EmptySeq DEF CountSuffices
<1>2. QED
  BY <1>1, SelectLemma

\* A filled row has each column's own cell, blobs resolved.
LEMMA FilledLemma ==
    ASSUME AttachedInv, selectCols # <<>>, NEW r \in 1..NRows, NEW n \in Nat
    PROVE  /\ Filled(r, n) \in OutputRow /\ Filled(r, n).row = r
           /\ \A p \in DOMAIN columnIds :
                 Filled(r, n).cells[p] = IF IsReal(columnIds[p]) THEN Value(r, columnIds[p])
                                                                 ELSE RowNumber(n)
<1> DEFINE cell(p) == IF outputToProjected[p] = NoCol THEN RowNumber(n)
                      ELSE Projected(r)[outputToProjected[p]]
<1>1. /\ columnIds \in Seq(Cols \cup {RowId})
      /\ selectCols = IF SelectList = <<>> THEN <<0>> ELSE SelectList
      /\ outputToProjected = Mapping
  BY DEF AttachedInv, AttachedTypeOK, StreamInv
<1>2. /\ SelectList \in Seq(Cols) /\ Len(SelectList) \in Nat
      /\ DOMAIN SelectList = 1..Len(SelectList)
      /\ \A p \in DOMAIN columnIds :
            IF IsReal(columnIds[p])
                THEN /\ Mapping[p] \in 1..Len(SelectList)
                     /\ SelectList[Mapping[p]] = columnIds[p]
                ELSE Mapping[p] = NoCol
      /\ NeedsPk => Len(SelectList) > 0 /\ SelectList[1] = 0
  BY <1>1, SelectLemma
<1>3. ASSUME NEW p \in DOMAIN columnIds, IsReal(columnIds[p])
      PROVE  cell(p) = Value(r, columnIds[p])
  <2>1. PICK m \in 1..Len(SelectList) : m = outputToProjected[p] /\ SelectList[m] = columnIds[p]
    BY <1>1, <1>2, <1>3
  <2>2. SelectList # <<>>
    BY <1>2, <2>1, EmptySeq
  <2>3. selectCols = SelectList
    BY <1>1, <2>2
  <2>4. m \in DOMAIN selectCols /\ selectCols[m] = columnIds[p] /\ m # NoCol
    BY <1>2, <2>1, <2>3 DEF NoCol
  <2>5. columnIds[p] \in Blobs => selectCols[1] = 0
    BY <1>2, <2>3 DEF NeedsPk
  <2>6. Projected(r)[m] = Value(r, columnIds[p])
    BY <2>4, <2>5 DEF Projected
  <2>7. QED
    BY <2>1, <2>4, <2>6
<1>4. ASSUME NEW p \in DOMAIN columnIds, ~IsReal(columnIds[p])
      PROVE  cell(p) = RowNumber(n)
  BY <1>1, <1>2, <1>4
<1>5. \A p \in DOMAIN columnIds :
          /\ cell(p) = IF IsReal(columnIds[p]) THEN Value(r, columnIds[p]) ELSE RowNumber(n)
          /\ cell(p) \in Nat \X Nat
  <2>1. ASSUME NEW p \in DOMAIN columnIds, IsReal(columnIds[p])
        PROVE  Value(r, columnIds[p]) \in Nat \X Nat
    <3>1. columnIds[p] \in Nat /\ r \in Nat
      BY <2>1, AttachedSizes DEF IsReal
    <3>2. QED
      BY <3>1 DEF Value
  <2>2. RowNumber(n) \in Nat \X Nat
    BY AttachedSizes DEF RowNumber
  <2>3. QED
    BY <1>3, <1>4, <2>1, <2>2
<1>6. Filled(r, n) = [row |-> r, cells |-> [p \in DOMAIN columnIds |-> cell(p)]]
  BY DEF Filled
<1> HIDE DEF cell
<1>7. QED
  BY <1>5, <1>6 DEF OutputRow

-----------------------------------------------------------------------------
(***************************************************************************)
(* The inductive invariant, and each step seen as one of LimitPushdown.    *)
(***************************************************************************)

\* A block or a count fetches no more rows than the statement has.
LEMMA LimitStep == AttachedInv /\ [AttachedNext]_vars => [Next]_limitVars
<1> SUFFICES ASSUME AttachedInv, [AttachedNext]_vars PROVE [Next]_limitVars
  OBVIOUS
<1>1. /\ fetched \in Nat /\ fetched <= Returned /\ Returned \in Nat
      /\ Returned <= NRows /\ remaining \in 0..NRows
  <2>1. Len(rows) \in Nat /\ Len(rows) <= NRows
    BY StatementLemma DEF AttachedInv, LimitInv
  <2>2. QED
    BY <2>1, AttachedSizes
       DEF AttachedInv, LimitInv, TypeOK, CapInv, AttachedTypeOK, Returned
<1>2. ASSUME NEW n \in Nat, n > 0, Fetch(n)
      PROVE  Next
  <2>1. n \in 1..NRows
    BY <1>1, <1>2, AttachedSizes DEF Fetch
  <2>2. QED
    BY <1>2, <2>1 DEF Next
<1>3. CASE AttachedWalk
  BY <1>3 DEF AttachedWalk, Next
<1>4. CASE StartCount
  BY <1>4 DEF StartCount, InitGlobal, Next
<1>5. CASE StartStream
  <2>1. SelectRows(RowsPassing(where')) /\ Walked
    BY <1>5 DEF StartStream, SelectRows
  <2>2. RowsPassing(where') \in Statements
    BY RowsLemma
  <2>3. QED
    BY <2>1, <2>2 DEF InitGlobal, Next
<1>6. CASE ScanFails
  BY <1>6 DEF ScanFails, Next
<1>7. CASE EmitRows
  <2>1. PICK n \in 1..VectorSize : Fetch(n)
    BY <1>7 DEF EmitRows, TakeBlock
  <2>2. QED
    BY <1>2, <2>1, AttachedSizes
<1>8. CASE EmitCount
  <2>1. PICK n : n = Min2(VectorSize, remaining) /\ Fetch(n) /\ remaining > 0
    BY <1>8 DEF EmitCount
  <2>2. n \in Nat /\ n > 0
    BY <1>1, <2>1, AttachedSizes DEF Min2
  <2>3. QED
    BY <1>2, <2>1, <2>2
<1>9. CASE AttachedFinish
  BY <1>9 DEF AttachedFinish, Next
<1>10. CASE AttachedOver
  BY <1>10 DEF AttachedOver, Next
<1>11. CASE UNCHANGED vars
  BY <1>11 DEF vars
<1>12. QED
  BY <1>3, <1>4, <1>5, <1>6, <1>7, <1>8, <1>9, <1>10, <1>11 DEF AttachedNext

\* What is made of the input stays what it was.
LEMMA InputLemma ==
    ASSUME UNCHANGED input
    PROVE  /\ SelectList' = SelectList /\ Mapping' = Mapping /\ Must' = Must
           /\ CountSuffices' = CountSuffices /\ OutputRow' = OutputRow
<1>1. columnIds' = columnIds /\ filters' = filters
  BY DEF input
<1>2. RealAt' = RealAt
  BY <1>1 DEF RealAt
<1>3. Real' = Real
  BY <1>1, <1>2 DEF Real
<1>4. PkInjected' = PkInjected
  BY <1>1, <1>3 DEF PkInjected, NeedsPk, PkLeads
<1>5. SelectList' = SelectList
  BY <1>3, <1>4 DEF SelectList
<1>6. Mapping' = Mapping
  BY <1>1, <1>2, <1>4 DEF Mapping
<1>7. QED
  BY <1>1, <1>5, <1>6 DEF Must, CountSuffices, OutputRow

LEMMA InitAttached == AttachedInit => AttachedInv
<1> SUFFICES ASSUME AttachedInit PROVE AttachedInv
  OBVIOUS
<1>1. LimitInv /\ phase = "optimize" /\ counted = FALSE /\ rows = <<>> /\ fetched = 0
  BY InitInv DEF AttachedInit, Init
<1>2. selectCols = <<>> /\ where = {} /\ remaining = 0 /\ output = <<>>
  BY DEF AttachedInit
<1>3. columnIds \in Seq(Cols \cup {RowId})
  <2>1. PICK k \in 1..MaxIds : columnIds \in [1..k -> Cols \cup {RowId}]
    BY DEF AttachedInit
  <2>2. k \in Nat
    BY AttachedAssumption DEF AttachedAssumption
  <2>3. QED
    BY <2>1, <2>2, SeqDef
<1>4. AttachedTypeOK
  BY <1>1, <1>2, <1>3, AttachedSizes, EmptySeq DEF AttachedTypeOK
<1>5. FilterInv
  <2>1. PICK S \in SUBSET DOMAIN columnIds : filters \in [S -> {"must", "may"}]
    BY DEF AttachedInit
  <2>2. \A p \in DOMAIN filters : p \in DOMAIN columnIds /\ filters[p] \in {"must", "may"}
    BY <2>1
  <2>3. \A p \in DOMAIN filters : filters[p] = "may" /\ columnIds[p] # RowId => Rechecked(p)
    BY DEF AttachedInit
  <2>4. \A p \in DOMAIN columnIds : IsReal(columnIds[p]) => columnIds[p] # RowId
    BY AttachedSizes DEF IsReal
  <2>5. QED
    BY <2>2, <2>3, <2>4 DEF FilterInv
<1>6. OutputInv
  BY <1>1, <1>2, EmptySeq DEF OutputInv, ColumnsExact
<1>7. StreamInv /\ CountInv
  BY <1>1, <1>2 DEF StreamInv, CountInv
<1>8. QED
  BY <1>1, <1>4, <1>5, <1>6, <1>7 DEF AttachedInv

\* No step changes the plan or what the scan is given.
LEMMA SamePlan == [AttachedNext]_vars => UNCHANGED <<plan, input>>
BY DEF AttachedNext, AttachedWalk, Walk, StartCount, CountRows, StartStream, SelectRows,
       ScanFails, Fail, EmitRows, TakeBlock, EmitCount, Fetch, AttachedFinish, Finish,
       AttachedOver, Over, vars, limitVars

\* So the filters of the plan stay what they check again.
LEMMA FilterStep ==
    ASSUME FilterInv, UNCHANGED <<plan, input>>
    PROVE  FilterInv'
<1>1. plan' = plan /\ columnIds' = columnIds /\ filters' = filters
  BY DEF input
<1>2. \A p \in DOMAIN filters : Rechecked(p)' = Rechecked(p)
  BY <1>1 DEF Rechecked, ReachesScan, Below
<1>3. QED
  BY <1>1, <1>2 DEF FilterInv, IsReal

\* A step that leaves the statement and the output alone.
LEMMA QuietAttached ==
    ASSUME AttachedInv, UNCHANGED <<input, query, remaining, output, rows, counted, fetched>>,
           \/ phase' = phase
           \/ phase = "scan" /\ phase' = "done"
           \/ phase' = "failed"
    PROVE  AttachedTypeOK' /\ StreamInv' /\ CountInv' /\ OutputInv'
<1> USE DEF AttachedInv
<1>1. UNCHANGED input
  OBVIOUS
<1>2. /\ SelectList' = SelectList /\ Mapping' = Mapping /\ Must' = Must
      /\ CountSuffices' = CountSuffices /\ OutputRow' = OutputRow
  BY <1>1, InputLemma
<1>3. /\ UNCHANGED <<columnIds, filters, selectCols, outputToProjected, where>>
      /\ UNCHANGED <<remaining, output, rows, counted, fetched>>
  BY DEF input, query
<1>4. AttachedTypeOK'
  BY <1>3 DEF AttachedTypeOK
<1>5. StreamInv'
  BY <1>2, <1>3 DEF StreamInv
<1>6. CountInv'
  BY <1>2, <1>3 DEF CountInv
<1>7. OutputInv'
  BY <1>2, <1>3 DEF OutputInv, ColumnsExact
<1>8. QED
  BY <1>4, <1>5, <1>6, <1>7

LEMMA StartCountStep ==
    ASSUME AttachedInv, StartCount
    PROVE  AttachedTypeOK' /\ StreamInv' /\ CountInv' /\ OutputInv'
<1> USE DEF AttachedInv
<1>1. /\ phase = "optimize" /\ phase' = "scan" /\ CountSuffices
      /\ counted' = TRUE /\ rows' = Rows(NRows) /\ fetched' = fetched
      /\ remaining' = NRows /\ outputToProjected' = Mapping
      /\ UNCHANGED <<columnIds, filters, selectCols, where, output>> /\ UNCHANGED input
  BY DEF StartCount, CountRows, Walked, input
<1>2. fetched = 0 /\ Len(output) = 0 /\ selectCols = <<>>
  BY <1>1 DEF LimitInv, CapInv, AttachedTypeOK, StreamInv
<1>3. output = <<>>
  BY <1>2, EmptySeq DEF OutputInv
<1>4. /\ SelectList' = SelectList /\ Mapping' = Mapping /\ Must' = Must
      /\ CountSuffices' = CountSuffices /\ OutputRow' = OutputRow
  BY <1>1, InputLemma
<1>5. AttachedTypeOK'
  <2>1. DOMAIN Mapping = DOMAIN columnIds
    BY DEF Mapping
  <2>2. QED
    BY <1>1, <2>1, AttachedSizes DEF AttachedTypeOK
<1>6. StreamInv'
  BY <1>1, <1>2 DEF StreamInv
<1>7. CountInv'
  BY <1>1, <1>2, <1>4, AttachedSizes DEF CountInv
<1>8. OutputInv'
  BY <1>1, <1>3, EmptySeq DEF OutputInv, ColumnsExact
<1>9. QED
  BY <1>5, <1>6, <1>7, <1>8

\* A filter DuckDB has given up is on a real column and may not be dropped, so
\* the WHERE clause of a statement has it.
LEMMA StartStreamStep ==
    ASSUME AttachedInv, StartStream
    PROVE  AttachedTypeOK' /\ StreamInv' /\ CountInv' /\ OutputInv'
<1> USE DEF AttachedInv
<1>1. /\ phase = "optimize" /\ phase' = "scan"
      /\ counted' = counted /\ rows' = RowsPassing(where') /\ fetched' = fetched
      /\ selectCols' = IF SelectList = <<>> THEN <<0>> ELSE SelectList
      /\ outputToProjected' = Mapping
      /\ UNCHANGED <<columnIds, filters, remaining, output>> /\ UNCHANGED input
  BY DEF StartStream, SelectRows, Walked, input
<1>2. PICK dropped \in SUBSET Droppable :
          where' = {FilterColumn(p) : p \in (DOMAIN filters \ Unnamed) \ dropped}
  BY DEF StartStream
<1>3. fetched = 0 /\ Len(output) = 0 /\ counted = FALSE
  BY <1>1 DEF LimitInv, TypeOK, CapInv, AttachedTypeOK, CountInv
<1>4. output = <<>>
  BY <1>3, EmptySeq DEF OutputInv
<1>5. /\ SelectList' = SelectList /\ Mapping' = Mapping /\ Must' = Must
      /\ CountSuffices' = CountSuffices /\ OutputRow' = OutputRow
  BY <1>1, InputLemma
<1>6. where' \subseteq Cols
  BY <1>2 DEF Unnamed, IsReal, FilterColumn
<1>7. Must \subseteq where'
  <2> SUFFICES ASSUME NEW p \in DOMAIN filters, filters[p] = "must", columnIds[p] \in Cols
               PROVE  columnIds[p] \in where'
    BY DEF Must
  <2>1. p \notin Unnamed /\ p \notin dropped
    BY <1>2 DEF Unnamed, FilterColumn, IsReal, Droppable
  <2>2. QED
    BY <1>2, <2>1 DEF FilterColumn
<1>8. /\ columnIds \in Seq(Cols \cup {RowId}) /\ SelectList \in Seq(Cols)
      /\ Len(SelectList) \in Nat /\ DOMAIN SelectList = 1..Len(SelectList)
      /\ DOMAIN Mapping = DOMAIN columnIds
      /\ \A p \in DOMAIN columnIds : Mapping[p] \in {NoCol} \cup 1..Len(SelectList)
  BY SelectLemma DEF AttachedTypeOK
<1>9. /\ selectCols' \in Seq(Cols) /\ selectCols' # <<>>
      /\ \A p \in DOMAIN columnIds : Mapping[p] \in {NoCol} \cup DOMAIN selectCols'
  <2>1. CASE SelectList = <<>>
    <3>1. Len(SelectList) = 0
      BY <2>1, EmptySeq
    <3>2. selectCols' = <<0>>
      BY <1>1, <2>1
    <3>3. QED
      BY <1>8, <3>1, <3>2, AttachedSizes
  <2>2. CASE SelectList # <<>>
    BY <1>1, <1>8, <2>2
  <2>3. QED
    BY <2>1, <2>2
<1>10. AttachedTypeOK'
  BY <1>1, <1>3, <1>6, <1>8, <1>9 DEF AttachedTypeOK
<1>11. where' \subseteq {columnIds[p] : p \in DOMAIN filters}
  BY <1>2 DEF FilterColumn
<1>12. StreamInv'
  BY <1>1, <1>3, <1>5, <1>7, <1>11 DEF StreamInv
<1>13. CountInv'
  BY <1>1, <1>3 DEF CountInv
<1>14. OutputInv'
  BY <1>1, <1>3, <1>4, <1>9, EmptySeq DEF OutputInv, ColumnsExact
<1>15. QED
  BY <1>10, <1>12, <1>13, <1>14

\* A vector's rows are the next ones of the statement, each column in place.
LEMMA EmitLemma ==
    ASSUME AttachedInv, UNCHANGED <<input, query, phase, rows, counted>>,
           phase = "scan", NEW n \in Nat, fetched' = fetched + n, fetched + n <= Len(rows),
           NEW new \in [1..n -> OutputRow], output' = output \o new,
           \A i \in 1..n :
               /\ new[i].row = rows[fetched + i]
               /\ \A p \in DOMAIN columnIds :
                     new[i].cells[p] = IF IsReal(columnIds[p]) THEN Value(new[i].row, columnIds[p])
                                                               ELSE RowNumber(fetched + i - 1)
    PROVE  OutputInv' /\ Len(output') = fetched'
<1> USE DEF AttachedInv
<1>1. /\ UNCHANGED <<columnIds, filters, selectCols, outputToProjected, where>>
      /\ UNCHANGED <<phase, rows, counted>> /\ UNCHANGED input
  BY DEF input, query
<1>2. OutputRow' = OutputRow
  BY <1>1, InputLemma
<1>3. PICK old \in Seq(OutputRow) :
          /\ old = output /\ Len(old) = fetched /\ fetched \in Nat
          /\ DOMAIN old = 1..fetched
          /\ \A i \in 1..fetched :
                /\ old[i].row = rows[i]
                /\ \A p \in DOMAIN columnIds :
                      old[i].cells[p] = IF IsReal(columnIds[p]) THEN Value(old[i].row, columnIds[p])
                                                                ELSE RowNumber(i - 1)
  BY LenProperties DEF OutputInv, ColumnsExact, AttachedTypeOK, LimitInv, TypeOK
<1>4. new \in Seq(OutputRow) /\ Len(new) = n
  BY SeqDef, LenProperties
<1>5. PICK all : all = old \o new
  OBVIOUS
<1>6. /\ all \in Seq(OutputRow) /\ Len(all) = fetched + n
      /\ \A i \in 1..(fetched + n) : all[i] = IF i <= fetched THEN old[i] ELSE new[i - fetched]
  <2>1. PICK R : R = OutputRow
    OBVIOUS
  <2>2. old \in Seq(R) /\ new \in Seq(R)
    BY <1>3, <1>4, <2>1
  <2>3. /\ old \o new \in Seq(R) /\ Len(old \o new) = Len(old) + Len(new)
        /\ \A i \in 1..(Len(old) + Len(new)) :
              (old \o new)[i] = IF i <= Len(old) THEN old[i] ELSE new[i - Len(old)]
    BY <2>2, ConcatProperties
  <2>4. Len(old) = fetched /\ Len(new) = n
    BY <1>3, <1>4
  <2>5. QED
    BY <1>5, <2>1, <2>3, <2>4
<1>7. DOMAIN all = 1..(fetched + n) /\ output' = all
  BY <1>3, <1>5, <1>6, LenProperties
<1>8. ASSUME NEW i \in 1..(fetched + n)
      PROVE  /\ all[i].row = rows[i]
             /\ \A p \in DOMAIN columnIds :
                   all[i].cells[p] = IF IsReal(columnIds[p]) THEN Value(all[i].row, columnIds[p])
                                                             ELSE RowNumber(i - 1)
  <2>1. CASE i <= fetched
    <3>1. i \in 1..fetched /\ all[i] = old[i]
      BY <1>3, <1>6, <2>1
    <3>2. QED
      BY <1>3, <3>1
  <2>2. CASE ~(i <= fetched)
    <3>1. PICK j \in 1..n : j = i - fetched /\ i = fetched + j
      <4>1. \A f, m \in Nat : \A k \in 1..(f + m) :
                ~(k <= f) => k - f \in 1..m /\ k = f + (k - f)
        OBVIOUS
      <4>2. QED
        BY <1>3, <2>2, <4>1
    <3>2. all[i] = new[j]
      BY <1>6, <2>2, <3>1
    <3>3. fetched + j = i /\ fetched + j - 1 = i - 1
      BY <1>3, <3>1
    <3>4. /\ new[j].row = rows[fetched + j]
          /\ \A p \in DOMAIN columnIds :
                new[j].cells[p] = IF IsReal(columnIds[p]) THEN Value(new[j].row, columnIds[p])
                                                          ELSE RowNumber(fetched + j - 1)
      OBVIOUS
    <3>5. QED
      BY <3>2, <3>3, <3>4
  <2>3. QED
    BY <2>1, <2>2
<1>9. ColumnsExact'
  BY <1>1, <1>7, <1>8 DEF ColumnsExact
<1>10. \A i \in DOMAIN output' : output'[i].row = rows'[i]
  BY <1>1, <1>7, <1>8
<1>11. OutputInv'
  BY <1>1, <1>2, <1>6, <1>7, <1>9, <1>10 DEF OutputInv
<1>12. QED
  BY <1>6, <1>7, <1>11

LEMMA EmitRowsStep ==
    ASSUME AttachedInv, EmitRows
    PROVE  AttachedTypeOK' /\ StreamInv' /\ CountInv' /\ OutputInv'
<1> USE DEF AttachedInv
<1>1. PICK n \in 1..VectorSize :
          /\ Fetch(n)
          /\ output' = output \o [i \in 1..n |-> Filled(rows[fetched + i], fetched + i - 1)]
  BY DEF EmitRows, TakeBlock
<1>2. /\ ~counted /\ phase = "scan" /\ fetched' = fetched + n /\ fetched + n <= Returned
      /\ UNCHANGED <<input, query, remaining, phase, rows, counted>>
  BY <1>1 DEF EmitRows, Fetch, statement
<1>3. /\ n \in Nat /\ fetched \in Nat /\ rows \in Seq(1..NRows) /\ Len(rows) \in Nat
      /\ fetched + n <= Len(rows) /\ selectCols # <<>>
  BY <1>2, AttachedSizes, LenProperties DEF LimitInv, TypeOK, Returned, OutputInv
<1>4. PICK new : new = [i \in 1..n |-> Filled(rows[fetched + i], fetched + i - 1)]
  OBVIOUS
<1>5. ASSUME NEW i \in 1..n
      PROVE  /\ new[i] \in OutputRow /\ new[i].row = rows[fetched + i]
             /\ \A p \in DOMAIN columnIds :
                   new[i].cells[p] = IF IsReal(columnIds[p]) THEN Value(new[i].row, columnIds[p])
                                                             ELSE RowNumber(fetched + i - 1)
  <2>1. fetched + i \in 1..Len(rows) /\ fetched + i - 1 \in Nat
    BY <1>3
  <2>2. rows[fetched + i] \in 1..NRows
    BY <1>3, <2>1, ElementOfSeq
  <2>3. PICK r \in 1..NRows, m \in Nat : r = rows[fetched + i] /\ m = fetched + i - 1
    BY <2>1, <2>2
  <2>4. /\ Filled(r, m) \in OutputRow /\ Filled(r, m).row = r
        /\ \A p \in DOMAIN columnIds :
              Filled(r, m).cells[p] = IF IsReal(columnIds[p]) THEN Value(r, columnIds[p])
                                                              ELSE RowNumber(m)
    BY <1>3, FilledLemma
  <2>5. new[i] = Filled(r, m)
    BY <1>4, <2>3
  <2>6. QED
    BY <2>3, <2>4, <2>5
<1>6. new \in [1..n -> OutputRow]
  BY <1>4, <1>5
<1>7. OutputInv' /\ Len(output') = fetched'
  BY <1>1, <1>2, <1>3, <1>4, <1>5, <1>6, EmitLemma
<1>8. /\ SelectList' = SelectList /\ Mapping' = Mapping /\ Must' = Must
      /\ CountSuffices' = CountSuffices /\ OutputRow' = OutputRow
  BY <1>2, InputLemma
<1>9. AttachedTypeOK'
  BY <1>2, <1>7 DEF AttachedTypeOK, input, query
<1>10. StreamInv' /\ CountInv'
  BY <1>2, <1>8 DEF StreamInv, CountInv, input, query
<1>11. QED
  BY <1>7, <1>9, <1>10

LEMMA EmitCountStep ==
    ASSUME AttachedInv, EmitCount
    PROVE  AttachedTypeOK' /\ StreamInv' /\ CountInv' /\ OutputInv'
<1> USE DEF AttachedInv
<1>1. PICK n :
          /\ n = Min2(VectorSize, remaining) /\ Fetch(n)
          /\ output' = output \o [i \in 1..n |->
                         [row |-> rows[fetched + i],
                          cells |-> [p \in DOMAIN columnIds |-> RowNumber(fetched + i - 1)]]]
          /\ remaining' = remaining - n
  BY DEF EmitCount
<1>2. /\ counted /\ phase = "scan" /\ fetched' = fetched + n /\ fetched + n <= Returned
      /\ UNCHANGED <<input, query, phase, rows, counted>>
  BY <1>1 DEF EmitCount, Fetch, statement
<1>3. /\ remaining \in 0..NRows /\ NRows \in Nat /\ n \in Nat /\ n <= remaining
      /\ CountSuffices /\ remaining + fetched = NRows
  BY <1>1, <1>2, AttachedSizes DEF AttachedTypeOK, CountInv, Min2
<1>4. /\ fetched \in Nat /\ rows \in Seq(1..NRows) /\ Len(rows) \in Nat
      /\ fetched + n <= Len(rows)
  BY <1>2, <1>3, LenProperties DEF LimitInv, TypeOK, Returned
<1>5. \A p \in DOMAIN columnIds : ~IsReal(columnIds[p])
  BY <1>3, CountLemma DEF AttachedTypeOK
<1>6. PICK new : new = [i \in 1..n |->
                         [row |-> rows[fetched + i],
                          cells |-> [p \in DOMAIN columnIds |-> RowNumber(fetched + i - 1)]]]
  OBVIOUS
<1>7. ASSUME NEW i \in 1..n
      PROVE  /\ new[i] \in OutputRow /\ new[i].row = rows[fetched + i]
             /\ \A p \in DOMAIN columnIds :
                   new[i].cells[p] = IF IsReal(columnIds[p]) THEN Value(new[i].row, columnIds[p])
                                                             ELSE RowNumber(fetched + i - 1)
  <2>1. fetched + i \in 1..Len(rows) /\ fetched + i - 1 \in Nat
    BY <1>3, <1>4
  <2>2. rows[fetched + i] \in 1..NRows
    BY <1>4, <2>1, ElementOfSeq
  <2>3. RowNumber(fetched + i - 1) \in Nat \X Nat
    BY <2>1, AttachedSizes DEF RowNumber
  <2>4. QED
    BY <1>5, <1>6, <2>2, <2>3 DEF OutputRow
<1>8. new \in [1..n -> OutputRow]
  BY <1>6, <1>7
<1>9. OutputInv' /\ Len(output') = fetched'
  BY <1>1, <1>2, <1>3, <1>4, <1>6, <1>7, <1>8, EmitLemma
<1>10. /\ SelectList' = SelectList /\ Mapping' = Mapping /\ Must' = Must
       /\ CountSuffices' = CountSuffices /\ OutputRow' = OutputRow
  BY <1>2, InputLemma
<1>11. remaining' \in 0..NRows /\ remaining' + fetched' = NRows
  <2>1. \A f, m, k, l \in Nat :
            k <= m /\ m + f = l => m - k \in 0..l /\ (m - k) + (f + k) = l
    OBVIOUS
  <2>2. remaining \in Nat
    BY <1>3
  <2>3. QED
    BY <1>1, <1>2, <1>3, <1>4, <2>1, <2>2
<1>12. AttachedTypeOK'
  BY <1>2, <1>9, <1>11 DEF AttachedTypeOK, input, query
<1>13. StreamInv' /\ CountInv'
  BY <1>2, <1>10, <1>11 DEF StreamInv, CountInv, input, query
<1>14. QED
  BY <1>9, <1>12, <1>13

\* Every step keeps the inductive invariant.
LEMMA NextAttached == AttachedInv /\ [AttachedNext]_vars => AttachedInv'
<1> SUFFICES ASSUME AttachedInv, [AttachedNext]_vars PROVE AttachedInv'
  OBVIOUS
<1>1. LimitInv'
  BY LimitStep, NextInv DEF AttachedInv
<1>0. FilterInv'
  BY SamePlan, FilterStep DEF AttachedInv
<1>2. CASE AttachedWalk
  <2>1. UNCHANGED <<input, query, remaining, output, rows, counted, fetched>> /\ phase' = phase
    BY <1>2 DEF AttachedWalk, Walk, statement
  <2>2. QED
    BY <1>0, <1>1, <2>1, QuietAttached DEF AttachedInv
<1>3. CASE ScanFails
  <2>1. UNCHANGED <<input, query, remaining, output, rows, counted, fetched>> /\ phase' = "failed"
    BY <1>3 DEF ScanFails, Fail, statement
  <2>2. QED
    BY <1>0, <1>1, <2>1, QuietAttached DEF AttachedInv
<1>4. CASE AttachedFinish
  <2>1. /\ UNCHANGED <<input, query, remaining, output, rows, counted, fetched>>
        /\ phase = "scan" /\ phase' = "done"
    BY <1>4 DEF AttachedFinish, Finish, statement
  <2>2. QED
    BY <1>0, <1>1, <2>1, QuietAttached DEF AttachedInv
<1>5. CASE AttachedOver \/ UNCHANGED vars
  <2>1. UNCHANGED <<input, query, remaining, output, rows, counted, fetched>> /\ phase' = phase
    BY <1>5 DEF AttachedOver, vars, limitVars, statement
  <2>2. QED
    BY <1>0, <1>1, <2>1, QuietAttached DEF AttachedInv
<1>6. CASE StartCount
  BY <1>0, <1>1, <1>6, StartCountStep DEF AttachedInv
<1>7. CASE StartStream
  BY <1>0, <1>1, <1>7, StartStreamStep DEF AttachedInv
<1>8. CASE EmitRows
  BY <1>0, <1>1, <1>8, EmitRowsStep DEF AttachedInv
<1>9. CASE EmitCount
  BY <1>0, <1>1, <1>9, EmitCountStep DEF AttachedInv
<1>10. QED
  BY <1>2, <1>3, <1>4, <1>5, <1>6, <1>7, <1>8, <1>9 DEF AttachedNext

-----------------------------------------------------------------------------
(***************************************************************************)
(* The theorems.                                                           *)
(***************************************************************************)

\* The inductive invariant holds in every reachable state.
THEOREM AttachedInvariant == AttachedSpec => []AttachedInv
BY InitAttached, NextAttached, PTL DEF AttachedSpec

\* An attached scan is a life of LimitPushdown: what InitGlobal sends is a
\* statement with the TOP of the stamped hint over the rows of a WHERE clause,
\* or a count; and what it emits is fetched from there, within the TOP.
THEOREM Refinement == AttachedSpec => ImplementsLimit
<1>1. AttachedInit => Init
  BY DEF AttachedInit
<1>2. QED
  BY <1>1, LimitStep, AttachedInvariant, PTL DEF AttachedSpec, ImplementsLimit, Spec

\* A pushed LIMIT bounds what an attached scan fetches.
THEOREM AttachedFetchesNoMore == AttachedSpec => []FetchBounded
BY Refinement, FetchesNoMore, PTL DEF ImplementsLimit

\* Each output column has its own table column's cell of its row, blob cells
\* resolve, and row ids count on across vectors.
THEOREM ColumnsRight == AttachedSpec => []ColumnsExact
<1>1. AttachedInv => ColumnsExact
  BY DEF AttachedInv, OutputInv
<1>2. QED
  BY <1>1, AttachedInvariant, PTL

\* No row DuckDB gets is excluded by a filter it has given up, none comes twice
\* and none out of order.
THEOREM RowsRight == AttachedSpec => []RowsExact
<1>1. AttachedInv => RowsExact
  <2> SUFFICES ASSUME AttachedInv, NEW i \in DOMAIN output
               PROVE  /\ i > 1 => output[i - 1].row < output[i].row
                      /\ \E j \in DOMAIN Wanted : output[i].row = Wanted[j]
    BY DEF RowsExact
  <2> USE DEF AttachedInv
  <2>1. /\ DOMAIN output = 1..fetched /\ fetched \in Nat /\ fetched <= Len(rows)
        /\ rows \in Seq(1..NRows) /\ Len(rows) \in Nat /\ DOMAIN rows = 1..Len(rows)
        /\ \A j, k \in 1..Len(rows) : j < k => rows[j] < rows[k]
        /\ \A j \in DOMAIN output : output[j].row = rows[j]
    <3>1. PICK s \in Statements : s = rows
      BY DEF LimitInv
    <3>2. /\ s \in Seq(1..NRows) /\ Len(s) \in Nat /\ DOMAIN s = 1..Len(s)
          /\ \A j, k \in 1..Len(s) : j < k => s[j] < s[k]
      BY StatementLemma
    <3>3. fetched \in Nat /\ fetched <= Len(rows)
      BY <3>1, <3>2 DEF LimitInv, TypeOK, CapInv, Returned
    <3>4. /\ DOMAIN output = 1..fetched
          /\ \A j \in DOMAIN output : output[j].row = rows[j]
      BY LenProperties DEF OutputInv, AttachedTypeOK
    <3>5. QED
      BY <3>1, <3>2, <3>3, <3>4
  <2>2. i \in 1..Len(rows) /\ rows[i] \in 1..NRows
    <3>1. i \in 1..Len(rows)
      <4>1. \A f, l \in Nat : f <= l => \A k \in 1..f : k \in 1..l
        OBVIOUS
      <4>2. QED
        BY <2>1, <4>1
    <3>2. QED
      BY <2>1, <3>1, ElementOfSeq
  <2>3. i > 1 => output[i - 1].row < output[i].row
    <3> SUFFICES ASSUME i > 1 PROVE rows[i - 1] < rows[i]
      BY <2>1
    <3>1. i - 1 \in 1..Len(rows) /\ i - 1 < i
      BY <2>2
    <3>2. QED
      BY <2>1, <2>2, <3>1
  <2>4. Passes(rows[i], Must)
    <3>1. fetched > 0
      BY <2>1
    <3>2. CASE counted
      <4>1. \A p \in DOMAIN filters : FALSE
        BY <3>2 DEF CountInv, CountSuffices
      <4>2. Must = {}
        BY <4>1 DEF Must
      <4>3. QED
        BY <4>2 DEF Passes
    <3>3. CASE ~counted
      <4>1. Must \subseteq where /\ rows = RowsPassing(where)
        BY <3>1, <3>3 DEF OutputInv, StreamInv
      <4>2. Passes(rows[i], where)
        BY <2>1, <2>2, <4>1, RowsLemma
      <4>3. QED
        BY <4>1, <4>2 DEF Passes
    <3>4. QED
      BY <3>2, <3>3
  <2>5. \E j \in DOMAIN Wanted : rows[i] = Wanted[j]
    BY <2>2, <2>4, RowsLemma DEF Wanted
  <2>6. QED
    BY <2>1, <2>3, <2>5
<1>2. QED
  BY <1>1, AttachedInvariant, PTL

-----------------------------------------------------------------------------
(***************************************************************************)
(* The result of the query.                                                *)
(***************************************************************************)

\* The lowest operator that is neither a projection nor a filter; all of those
\* that reach the scan are below it.
LEMMA ReachLemma ==
    ASSUME plan \in Seq(Ops)
    PROVE  \E h \in 1..(Len(plan) + 1) :
              /\ \A j \in h..Len(plan) : plan[j].kind \in {"projection", "filter"}
              /\ \A k \in DOMAIN plan :
                    plan[k].kind = "filter" /\ ReachesScan(k) => k \in h..Len(plan)
<1>1. PICK n \in Nat : n = Len(plan)
  BY LenProperties
<1>2. DOMAIN plan = 1..n
  BY <1>1, LenProperties
<1> DEFINE Reach == {k \in 1..(n + 1) : \A j \in k..n : plan[j].kind \in {"projection", "filter"}}
<1>3. Reach \in SUBSET Nat /\ Reach \in SUBSET (1..(n + 1)) /\ n + 1 \in Reach
  OBVIOUS
<1>4. IsFiniteSet(Reach)
  <2>1. IsFiniteSet(1..(n + 1))
    BY IntervalLemma
  <2>2. QED
    BY <1>3, <2>1, FS_Subset
<1>5. PICK h \in Reach : \A k \in Reach : h <= k
  <2> HIDE DEF Reach
  <2>1. QED
    BY <1>3, <1>4, LeastLemma
<1>6. ASSUME NEW k \in DOMAIN plan, plan[k].kind = "filter", ReachesScan(k)
      PROVE  k \in h..n
  <2>1. k \in 1..n /\ \A j \in (k + 1)..n : plan[j].kind \in {"projection", "filter"}
    BY <1>1, <1>2, <1>6 DEF ReachesScan, Below
  <2>2. \A j \in k..n : j = k \/ j \in (k + 1)..n
    BY <2>1
  <2>3. k \in Reach
    BY <1>6, <2>1, <2>2
  <2>4. QED
    BY <1>5, <2>1, <2>3
<1>7. QED
  BY <1>1, <1>3, <1>5, <1>6

\* A filter that went to the server is given up or checked again by the plan:
\* what else the WHERE clause excludes, the plan would.
LEMMA RecheckLemma ==
    ASSUME plan \in Seq(Ops), FilterInv, NEW h \in 1..(Len(plan) + 1),
           \A k \in DOMAIN plan : plan[k].kind = "filter" /\ ReachesScan(k) => k \in h..Len(plan),
           NEW r \in KeepsFrom(h), NEW c \in Cols, c \in {columnIds[p] : p \in DOMAIN filters},
           Passes(r, Must)
    PROVE  r \in Passing[c]
<1>1. PICK p \in DOMAIN filters : columnIds[p] = c
  OBVIOUS
<1>2. CASE filters[p] = "must"
  <2>1. c \in Must
    BY <1>1, <1>2 DEF Must
  <2>2. QED
    BY <2>1 DEF Passes
<1>3. CASE filters[p] # "must"
  <2>1. Rechecked(p)
    BY <1>1, <1>3 DEF FilterInv, IsReal
  <2>2. PICK k \in DOMAIN plan :
            plan[k].kind = "filter" /\ ReachesScan(k) /\ plan[k].keep \subseteq Passing[c]
    BY <1>1, <2>1 DEF Rechecked
  <2>3. k \in h..Len(plan)
    BY <2>2
  <2>4. r \in plan[k].keep
    BY <2>2, <2>3 DEF KeepsFrom
  <2>5. QED
    BY <2>2, <2>4
<1>4. QED
  BY <1>2, <1>3

\* The rows of the statement and those that the filters given up let pass are
\* the same to the plan.
LEMMA WantedLemma ==
    ASSUME AttachedInv, phase = "scan"
    PROVE  Output(rows)[1] = Output(Wanted)[1]
<1> USE DEF AttachedInv
<1>1. plan \in Seq(Ops) /\ Len(plan) \in Nat /\ where \subseteq Cols /\ Must \subseteq Cols
  BY LenProperties DEF LimitInv, TypeOK, AttachedTypeOK, Must
<1>2. CASE counted
  <2>1. rows = Rows(NRows) /\ filters = <<>>
    BY <1>2 DEF CountInv, CountSuffices
  <2>2. Must = {}
    BY <2>1 DEF Must
  <2>3. {r \in 1..NRows : Passes(r, Must)} = 1..NRows
    BY <2>2 DEF Passes
  <2>4. Rows(NRows) = Ascending(1..NRows)
    <3>1. PICK s : s = Rows(NRows)
      OBVIOUS
    <3>2. /\ s \in [1..NRows -> 1..NRows] /\ \A i \in 1..NRows : s[i] = i
      BY <3>1 DEF Rows
    <3>3. 1..NRows \in SUBSET Nat /\ IsFiniteSet(1..NRows) /\ NRows \in Nat
      BY AttachedSizes, IntervalLemma
    <3>4. (\A i, j \in 1..NRows : i < j => s[i] < s[j]) /\ (\A x \in 1..NRows : \E i \in 1..NRows : s[i] = x)
      BY <3>2
    <3>5. QED
      BY <3>1, <3>2, <3>3, <3>4, UniqueLemma
  <2>5. QED
    BY <2>1, <2>3, <2>4 DEF Wanted, RowsPassing
<1>3. CASE ~counted
  <2>1. /\ Must \subseteq where /\ where \subseteq {columnIds[p] : p \in DOMAIN filters}
        /\ rows = RowsPassing(where)
    BY <1>3 DEF OutputInv, StreamInv
  <2>2. PICK S \in SUBSET (1..NRows), T \in SUBSET (1..NRows) :
            /\ S = {r \in 1..NRows : Passes(r, where)}
            /\ T = {r \in 1..NRows : Passes(r, Must)}
    OBVIOUS
  <2>3. rows = Ascending(S) /\ Wanted = Ascending(T)
    BY <2>1, <2>2 DEF Wanted, RowsPassing
  <2>4. PICK h \in 1..(Len(plan) + 1) :
            /\ \A j \in h..Len(plan) : plan[j].kind \in {"projection", "filter"}
            /\ \A k \in DOMAIN plan :
                  plan[k].kind = "filter" /\ ReachesScan(k) => k \in h..Len(plan)
    BY <1>1, ReachLemma
  <2>5. S \cap KeepsFrom(h) = T \cap KeepsFrom(h)
    <3>1. S \subseteq T
      BY <2>1, <2>2 DEF Passes
    <3>2. ASSUME NEW r \in T, r \in KeepsFrom(h), NEW c \in where
          PROVE  r \in Passing[c]
      <4>1. Passes(r, Must)
        BY <2>2
      <4>2. c \in Cols /\ c \in {columnIds[p] : p \in DOMAIN filters}
        BY <1>1, <2>1
      <4>3. QED
        BY <1>1, <2>4, <3>2, <4>1, <4>2, RecheckLemma
    <3>3. \A r \in T \cap KeepsFrom(h) : r \in S
      BY <2>2, <3>2 DEF Passes
    <3>4. QED
      BY <3>1, <3>3
  <2>6. Output(Ascending(S))[h] = Output(Ascending(T))[h]
    BY <1>1, <2>4, <2>5, ChainLemma
  <2>7. QED
    BY <1>1, <2>3, <2>4, <2>6, AboveLemma
<1>4. QED
  BY <1>2, <1>3

\* The query's result is what its plan makes of the table, for every plan
\* whose capped LIMITs have offsets the optimizer knows.
THEOREM QueryRight == OffsetsKnown => (AttachedSpec => []QueryExact)
<1> SUFFICES ASSUME OffsetsKnown
             PROVE  AttachedSpec => []QueryExact
  OBVIOUS
<1>1. AttachedInit => QueryExact
  BY DEF AttachedInit, Init, QueryExact
<1>2. AttachedInv /\ QueryExact /\ [AttachedNext]_vars => QueryExact'
  <2> SUFFICES ASSUME AttachedInv, QueryExact, [AttachedNext]_vars, phase' = "done"
               PROVE  result' = Output(Wanted)[1]'
    BY DEF QueryExact
  <2>1. plan' = plan /\ Must' = Must
    BY SamePlan, InputLemma
  <2>2. Output(Wanted)' = Output(Wanted)
    BY <2>1 DEF Output, Wanted, RowsPassing, Passes
  <2>3. CASE AttachedFinish
    <3>1. Finish /\ phase = "scan" /\ result' = Output(Scanned)[1]
      BY <2>3 DEF AttachedFinish, Finish
    <3>2. Output(Scanned)[1] = Output(rows)[1]
      BY <3>1, FinishLemma DEF AttachedInv
    <3>3. QED
      BY <2>2, <3>1, <3>2, WantedLemma
  <2>4. CASE ~AttachedFinish
    <3>1. phase = "done" /\ result' = result
      BY <2>4 DEF AttachedNext, AttachedWalk, Walk, StartCount, CountRows, StartStream, SelectRows,
                  Walked, ScanFails, Fail, EmitRows, TakeBlock, EmitCount, Fetch,
                  AttachedOver, Over, vars, limitVars
    <3>2. QED
      BY <2>2, <3>1 DEF QueryExact
  <2>5. QED
    BY <2>3, <2>4
<1>3. QED
  BY <1>1, <1>2, AttachedInvariant, PTL DEF AttachedSpec

=============================================================================
