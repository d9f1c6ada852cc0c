---------------------------- MODULE AttachedScan ----------------------------
(***************************************************************************)
(* A query over one attached table, from the plan to its result.           *)
(* DbisamAttachedScanInitGlobal turns DuckDB's column_ids, the pushed      *)
(* filters and the stamped LIMIT (LimitPushdown) into one statement: a     *)
(* select list, a mapping of output columns to it, a WHERE clause and a    *)
(* TOP; or a COUNT(star) when no real column is wanted.                    *)
(* DbisamAttachedScanExecute fills the output vectors through the mapping  *)
(* and DuckDB runs the rest of the plan over them.  How blocks and their   *)
(* errors come is ScanSession's matter; here a block just arrives.         *)
(*                                                                         *)
(* Table columns are numbered from 0 as in the code; column 0 is the       *)
(* primary key.  Positions in sequences count from 1, so an index of the   *)
(* code is one less than here.                                             *)
(***************************************************************************)
EXTENDS LimitPushdown

CONSTANTS
    NCols,          \* columns of the table
    Blobs,          \* its memo, blob and graphic columns
    Passing,        \* Passing[c]: the rows a filter on column c lets pass
    VectorSize,     \* STANDARD_VECTOR_SIZE
    MaxIds,         \* bound: columns of the output
    MaxQuery        \* bound: operators and output columns together

Cols  == 0..(NCols - 1)
RowId == NCols      \* COLUMN_IDENTIFIER_ROW_ID, or any id past the table's columns
NoCol == 0          \* SIZE_MAX in output_to_projected: no column of the response

ASSUME AttachedAssumption ==
    /\ NCols \in Nat \ {0} /\ MaxIds \in Nat \ {0} /\ MaxQuery \in Nat
    /\ VectorSize \in Nat \ {0}
    /\ Blobs \subseteq Cols
    /\ Passing \in [Cols -> SUBSET (1..NRows)]

VARIABLES
    columnIds,      \* input.column_ids; never changes
    filters,        \* input.filters: column_ids position -> "must" or "may"; never changes
    selectCols,     \* the table columns of the select list
    outputToProjected,
    where,          \* the columns whose filters the statement carries
    remaining,      \* synthetic_remaining
    output          \* the rows DuckDB got: [row, cells], the row itself a ghost

input == <<columnIds, filters>>
query == <<selectCols, outputToProjected, where>>
vars  == <<limitVars, input, query, remaining, output>>

\* A filter is one DuckDB has erased from the plan ("must") or one it checks
\* again further up ("may": optional, dynamic, bloom).  filter_prune is off: a
\* filter's column is in column_ids.
Rechecked(p) ==
    \E k \in DOMAIN plan :
        plan[k].kind = "filter" /\ ReachesScan(k) /\ plan[k].keep \subseteq Passing[columnIds[p]]

AttachedInit ==
    /\ Init
    /\ columnIds \in UNION {[1..k -> Cols \cup {RowId}] : k \in 1..MaxIds}
    /\ Len(plan) + Len(columnIds) <= MaxQuery
    /\ filters \in UNION {[S -> {"must", "may"}] : S \in SUBSET DOMAIN columnIds}
    /\ \A p \in {q \in DOMAIN filters : filters[q] = "may" /\ columnIds[q] # RowId} : Rechecked(p)
    /\ selectCols = <<>> /\ outputToProjected = <<>> /\ where = {}
    /\ remaining = 0 /\ output = <<>>

-----------------------------------------------------------------------------
(***************************************************************************)
(* DbisamAttachedScanInitGlobal.                                           *)
(***************************************************************************)

IsReal(cid) == cid \in Cols
RealAt      == {p \in DOMAIN columnIds : IsReal(columnIds[p])}
Real        == [k \in 1..Cardinality(RealAt) |-> columnIds[Ascending(RealAt)[k]]]

NeedsPk == \E p \in DOMAIN columnIds : columnIds[p] \in Blobs

\* Mutant: the key may stand anywhere in the projection.
PkSomewhere == \E p \in DOMAIN columnIds : columnIds[p] = 0

PkLeads == Real # <<>> /\ Head(Real) = 0

PkInjected == NeedsPk /\ ~PkLeads

\* The real columns in the order of column_ids, behind an injected key.
SelectList == (IF PkInjected THEN <<0>> ELSE <<>>) \o Real

\* Mutant: a key is taken to be injected always.
MappingShifted ==
    [p \in DOMAIN columnIds |->
        IF IsReal(columnIds[p]) THEN Rank(RealAt, p) + 1 ELSE NoCol]

\* Output column -> position in the select list.
Mapping ==
    [p \in DOMAIN columnIds |->
        IF IsReal(columnIds[p]) THEN Rank(RealAt, p) + (IF PkInjected THEN 1 ELSE 0) ELSE NoCol]

\* Mutant: a filter's position is taken for one in the select list.
ColumnInSelectList(p) ==
    IF p \in DOMAIN SelectList THEN SelectList[p] ELSE RowId

\* filter_col_names: a filter names a position in column_ids.
FilterColumn(p) == columnIds[p]

\* RenderDbisamFilterSet: a filter on rowid has no column; one that must be
\* applied throws, one that may be dropped is.  Others are rendered; one that
\* cannot be is treated likewise, which FilterRender has in detail.
Unnamed == {p \in DOMAIN filters : ~IsReal(FilterColumn(p))}

Droppable == {p \in DOMAIN filters : filters[p] = "may"}

Passes(r, cols) == \A c \in cols : r \in Passing[c]
RowsPassing(cols) == Ascending({r \in 1..NRows : Passes(r, cols)})

\* Only the number of rows is wanted, and nothing limits it.
CountSuffices == SelectList = <<>> /\ filters = <<>>

StartCount ==
    /\ CountSuffices
    /\ CountRows
    /\ remaining' = NRows
    /\ outputToProjected' = Mapping
    /\ UNCHANGED <<input, selectCols, where, output>>

StartStream ==
    /\ ~CountSuffices
    /\ \A p \in Unnamed : p \in Droppable
    /\ \E dropped \in SUBSET Droppable :
          where' = {FilterColumn(p) : p \in (DOMAIN filters \ Unnamed) \ dropped}
    /\ SelectRows(RowsPassing(where'))
    /\ selectCols' = IF SelectList = <<>> THEN <<0>> ELSE SelectList
    /\ outputToProjected' = Mapping
    /\ UNCHANGED <<input, remaining, output>>

\* NotImplementedException, or the connection or the statement failed.
ScanFails ==
    /\ Fail
    /\ UNCHANGED <<input, query, remaining, output>>

-----------------------------------------------------------------------------
(***************************************************************************)
(* DbisamAttachedScanExecute.                                              *)
(***************************************************************************)

\* The cell of a response row: a blob resolves by the key in the first column,
\* and comes back empty (0) when another column stands there.
Value(r, c) == <<r, c>>
Empty == <<0, 0>>
Projected(r) ==
    [k \in DOMAIN selectCols |->
        IF selectCols[k] \in Blobs /\ selectCols[1] # 0 THEN Empty ELSE Value(r, selectCols[k])]

\* A ROWID is a running number, a real column the mapped cell.
RowNumber(n) == <<n, RowId>>
Filled(r, n) ==
    [row |-> r,
     cells |-> [p \in DOMAIN columnIds |->
                  IF outputToProjected[p] = NoCol THEN RowNumber(n)
                  ELSE Projected(r)[outputToProjected[p]]]]

\* Mutant: a block is emitted past the rows of the statement's TOP.
EmitsPastTop(n) ==
    /\ phase = "scan" /\ n <= batchSize /\ fetched + n <= Len(rows)
    /\ fetched' = fetched + n
    /\ UNCHANGED <<plan, at, phase, bind, statement, result>>

TakeBlock(n) == Fetch(n)

\* A vector of the rows that have come; total_emitted is fetched.  Blocks may
\* end before a vector is full.
EmitRows ==
    /\ ~counted
    /\ \E n \in 1..VectorSize :
          /\ TakeBlock(n)
          /\ output' = output \o [i \in 1..n |-> Filled(rows[fetched + i], fetched + i - 1)]
    /\ UNCHANGED <<input, query, remaining>>

\* The count path: full vectors of row numbers until none remain.
EmitCount ==
    /\ counted /\ remaining > 0
    /\ LET n == Min2(VectorSize, remaining) IN
          /\ Fetch(n)
          /\ output' = output \o [i \in 1..n |->
                         [row |-> rows[fetched + i],
                          cells |-> [p \in DOMAIN columnIds |-> RowNumber(fetched + i - 1)]]]
          /\ remaining' = remaining - n
    /\ UNCHANGED <<input, query>>

AttachedWalk   == Walk   /\ UNCHANGED <<input, query, remaining, output>>
AttachedFinish == Finish /\ UNCHANGED <<input, query, remaining, output>>

AttachedOver == Over /\ UNCHANGED vars

AttachedNext ==
    \/ AttachedWalk \/ StartCount \/ StartStream \/ ScanFails
    \/ EmitRows \/ EmitCount \/ AttachedFinish \/ AttachedOver

AttachedSpec == AttachedInit /\ [][AttachedNext]_vars

-----------------------------------------------------------------------------
(***************************************************************************)
(* Properties.                                                             *)
(***************************************************************************)

\* Types of the variables; every output column is mapped into the select list.
AttachedTypeOK ==
    /\ columnIds \in Seq(Cols \cup {RowId})
    /\ selectCols \in Seq(Cols) /\ where \subseteq Cols
    /\ phase = "scan" => DOMAIN outputToProjected = DOMAIN columnIds
    /\ phase = "scan" /\ ~counted =>
          \A p \in DOMAIN columnIds : outputToProjected[p] \in {NoCol} \cup DOMAIN selectCols
    /\ remaining \in 0..NRows
    /\ Len(output) = fetched

\* Each output column holds its own table column's cell of its row, whatever
\* the order, the repetitions, the row ids between them and an injected key;
\* blob cells resolve; and row ids count the rows across vectors.
ColumnsExact ==
    \A i \in DOMAIN output : \A p \in DOMAIN columnIds :
        output[i].cells[p] = IF IsReal(columnIds[p]) THEN Value(output[i].row, columnIds[p])
                                                     ELSE RowNumber(i - 1)

\* The rows of the table that the filters DuckDB gave up let pass, in order.
Must   == {columnIds[p] : p \in {q \in DOMAIN filters : filters[q] = "must"}} \cap Cols
Wanted == RowsPassing(Must)

\* DuckDB gets no row that a filter it has given up excludes, and every row
\* once, in order: a filter is applied to the column it was given for, and a
\* count counts what a scan would have returned.
RowsExact ==
    LET wanted == {Wanted[j] : j \in DOMAIN Wanted} IN
    \A i \in DOMAIN output :
        /\ i > 1 => output[i - 1].row < output[i].row
        /\ output[i].row \in wanted

\* The query returns what its plan makes of the table: columns, filters and
\* LIMIT are each pushed, kept or dropped so that together they change
\* nothing.  A TOP is sent only where no row it cuts could have been needed,
\* by an OFFSET, by a filter DuckDB applies again, or further up; and a scan
\* that counts ignores it.
QueryExact == phase = "done" => result = Output(Wanted)[1]

\* Seen through its limit the scan is LimitPushdown: the statement of each
\* scan is one with a TOP over the rows of some WHERE, or a count.
ImplementsLimit == Spec

-----------------------------------------------------------------------------
(***************************************************************************)
(* The inductive invariant behind AttachedTypeOK, ColumnsExact, RowsExact, *)
(* ImplementsLimit and QueryExact.                                         *)
(***************************************************************************)

OutputRow == [row : 1..NRows, cells : [DOMAIN columnIds -> Nat \X Nat]]

\* A filter that DuckDB has not given up, it checks again.
FilterInv ==
    \A p \in DOMAIN filters :
        p \in DOMAIN columnIds /\ (filters[p] # "must" /\ IsReal(columnIds[p]) => Rechecked(p))

\* A statement that fetches rows has a select list, and stays what InitGlobal
\* made of the input: all filters that DuckDB has given up are in it, and no
\* condition that is not a filter's.
StreamInv ==
    selectCols # <<>> =>
        /\ phase # "optimize" /\ ~counted
        /\ selectCols = IF SelectList = <<>> THEN <<0>> ELSE SelectList
        /\ outputToProjected = Mapping
        /\ Must \subseteq where /\ where \subseteq {columnIds[p] : p \in DOMAIN filters}
        /\ rows = RowsPassing(where)

\* A count stands for all rows of the table, and what remains of it is what
\* has not been emitted.
CountInv ==
    counted =>
        /\ phase # "optimize" /\ CountSuffices
        /\ outputToProjected = Mapping
        /\ rows = Rows(NRows) /\ remaining + fetched = NRows

\* Rows come from the one or the other, in the order of the statement.
OutputInv ==
    /\ phase \in {"scan", "done"} \/ fetched > 0 => selectCols # <<>> \/ counted
    /\ output \in Seq(OutputRow)
    /\ \A i \in DOMAIN output : output[i].row = rows[i]
    /\ ColumnsExact

AttachedInv == LimitInv /\ AttachedTypeOK /\ FilterInv /\ StreamInv /\ CountInv /\ OutputInv

=============================================================================
