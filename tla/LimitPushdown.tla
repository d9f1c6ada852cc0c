--------------------------- MODULE LimitPushdown ---------------------------
(***************************************************************************)
(* The life of a LIMIT over an attached table: the optimizer extension     *)
(* walks the plan and stamps a cap on the scan's bind data, InitGlobal     *)
(* turns it into a TOP clause and a batch size, the server returns what    *)
(* the statement asks for, and DuckDB runs the operators above the scan on *)
(* the rows it gets.  Which rows of the table pass the pushed WHERE clause *)
(* is left open here and filled in by AttachedScan; the server returns     *)
(* them in the order of the table, and TOP n are the first n of them.      *)
(***************************************************************************)
EXTENDS Naturals, Sequences, FiniteSets

CONSTANTS
    NRows,          \* rows of the table
    BatchSize,      \* rows of one ReadFirst/NextRecordBlock without a hint
    Limits,         \* the LIMIT operators of the plans: [n, nBy, offset, offsetBy]
    Keeps,          \* the LOGICAL_FILTERs: sets of rows they keep
    MaxOps          \* bound: operators above the scan

Bounds == {"none", "const", "expr"}     \* LimitNodeType, unset and percentages aside

\* The place of x among the numbers in S, and the numbers in S as they ascend.
Rank(S, x)   == Cardinality({y \in S : y <= x})
Ascending(S) == [k \in 1..Cardinality(S) |-> CHOOSE x \in S : Rank(S, x) = k]

ASSUME LimitAssumption ==
    /\ NRows \in Nat /\ BatchSize \in Nat \ {0} /\ MaxOps \in Nat
    /\ Limits \subseteq [n : Nat, nBy : Bounds \ {"none"}, offset : Nat, offsetBy : Bounds]
    /\ \A l \in Limits : l.offsetBy = "none" => l.offset = 0
    /\ Keeps \subseteq SUBSET (1..NRows)

VARIABLES
    plan,           \* the operators from the root down to the scan; never changes
    at,             \* walk: the operator it is at
    phase,
    limitHint, limitHardCap,        \* the bind data
    top,            \* the n of the statement's TOP n, 0 for none
    batchSize,
    counted,        \* synthetic_count: the statement is a COUNT, the rows are made up
    rows,           \* the rows of the table the statement without TOP returns
    fetched,        \* rows the scan has returned
    result          \* what the query returned

bind == <<limitHint, limitHardCap>>
statement == <<top, batchSize, counted, rows>>
limitVars == <<plan, at, phase, bind, statement, fetched, result>>

Ops == [kind : {"limit"}, by : Limits] \cup [kind : {"filter"}, keep : Keeps]
         \cup [kind : {"projection", "sort"}]     \* sort: any operator that needs all rows

Plans == UNION {[1..k -> Ops] : k \in 0..MaxOps}

Init ==
    /\ plan \in Plans
    /\ at = 1 /\ phase = "optimize"
    /\ limitHint = 0 /\ limitHardCap = FALSE
    /\ top = 0 /\ batchSize = BatchSize
    /\ counted = FALSE /\ rows = <<>>
    /\ fetched = 0 /\ result = <<>>

-----------------------------------------------------------------------------
(***************************************************************************)
(* The optimizer: walk and find_attached_scan_bind.                        *)
(***************************************************************************)

Below(k) == (k + 1)..Len(plan)

\* Only projections and filters stand between operator k and the scan.
ReachesScan(k) == \A j \in Below(k) : plan[j].kind \in {"projection", "filter"}

SawFilter(k) == \E j \in Below(k) : plan[j].kind = "filter"

\* Mutant: the cap forgets the rows DuckDB will skip.
CapWithoutOffset(l) == l.n

\* A cap covers the rows DuckDB skips and the rows it returns; an offset that
\* is not a constant counts as none.
Cap(l) == l.n + (IF l.offsetBy = "const" THEN l.offset ELSE 0)

Walk ==
    /\ phase = "optimize" /\ at <= Len(plan)
    /\ LET op == plan[at] IN
       IF /\ op.kind = "limit" /\ op.by.nBy = "const"
          /\ ReachesScan(at)
          /\ limitHint = 0 \/ Cap(op.by) < limitHint
       THEN limitHint' = Cap(op.by) /\ limitHardCap' = ~SawFilter(at)
       ELSE UNCHANGED bind
    /\ at' = at + 1
    /\ UNCHANGED <<plan, phase, statement, fetched, result>>

-----------------------------------------------------------------------------
(***************************************************************************)
(* The scan.                                                               *)
(***************************************************************************)

Walked == phase = "optimize" /\ at > Len(plan)

\* Mutant: the test of the hard cap is inverted.
TopWhenSoft ==
    /\ top' = IF limitHint > 0 /\ ~limitHardCap THEN limitHint ELSE 0
    /\ batchSize' = IF limitHint > 0 /\ limitHint < batchSize THEN limitHint ELSE batchSize

\* The TOP clause, and the size of the blocks.
UseHint ==
    /\ top' = IF limitHint > 0 /\ limitHardCap THEN limitHint ELSE 0
    /\ batchSize' = IF limitHint > 0 /\ limitHint < batchSize THEN limitHint ELSE batchSize

Rows(n) == [i \in 1..n |-> i]

\* What a WHERE clause can leave of the table.
Statements ==
    {s \in UNION {[1..k -> 1..NRows] : k \in 0..NRows} :
        \A i, j \in DOMAIN s : i < j => s[i] < s[j]}

\* DbisamAttachedScanInitGlobal: a SELECT with its WHERE, which fetches rows.
SelectRows(some) ==
    /\ Walked
    /\ UseHint
    /\ rows' = some
    /\ phase' = "scan"
    /\ UNCHANGED <<plan, at, bind, counted, fetched, result>>

\* The same for a scan that wants no column: a COUNT, to which no hint applies.
CountRows ==
    /\ Walked
    /\ counted' = TRUE /\ rows' = Rows(NRows)
    /\ phase' = "scan"
    /\ UNCHANGED <<plan, at, bind, top, batchSize, fetched, result>>

\* The filters cannot be rendered, or the connection fails, now or later.
Fail ==
    /\ Walked \/ phase = "scan"
    /\ phase' = "failed"
    /\ UNCHANGED <<plan, at, bind, statement, fetched, result>>

\* Rows of the statement's result.
Returned == IF top > 0 /\ top < Len(rows) THEN top ELSE Len(rows)

\* Rows of a block of the cursor, or of the count.
Fetch(n) ==
    /\ phase = "scan"
    /\ ~counted => n <= batchSize
    /\ fetched + n <= Returned
    /\ fetched' = fetched + n
    /\ UNCHANGED <<plan, at, phase, bind, statement, result>>

-----------------------------------------------------------------------------
(***************************************************************************)
(* DuckDB's operators (external).                                          *)
(***************************************************************************)

Min2(a, b) == IF a < b THEN a ELSE b

\* The rows of a sequence that a filter keeps, in their order.
Kept(in, keep) ==
    LET places == Ascending({i \in DOMAIN in : in[i] \in keep})
    IN [k \in DOMAIN places |-> in[places[k]]]

Apply(op, in) ==
    CASE op.kind = "limit"      ->
            SubSeq(in, op.by.offset + 1, Min2(op.by.offset + op.by.n, Len(in)))
      [] op.kind = "filter"     -> Kept(in, op.keep)
      [] op.kind = "sort"       -> [i \in DOMAIN in |-> in[Len(in) + 1 - i]]
      [] op.kind = "projection" -> in

\* What leaves operator k when the scan returns the rows given; k = Len + 1 is
\* the scan.
Output(scanned) ==
    LET out[k \in 1..(Len(plan) + 1)] ==
            IF k > Len(plan) THEN scanned ELSE Apply(plan[k], out[k + 1])
    IN out

Scanned == SubSeq(rows, 1, fetched)

\* A streaming LIMIT has all its rows, so nothing more is asked of the scan.
Satisfied ==
    \E k \in DOMAIN plan :
        /\ plan[k].kind = "limit" /\ ReachesScan(k)
        /\ Len(Output(Scanned)[k + 1]) >= plan[k].by.offset + plan[k].by.n

Finish ==
    /\ phase = "scan"
    /\ fetched = Returned \/ Satisfied
    /\ result' = Output(Scanned)[1]
    /\ phase' = "done"
    /\ UNCHANGED <<plan, at, bind, statement, fetched>>

Over == phase \in {"done", "failed"} /\ UNCHANGED limitVars

InitGlobal ==
    \/ Walked /\ \E some \in Statements : SelectRows(some)
    \/ CountRows

Next == Walk \/ InitGlobal \/ (\E n \in 1..NRows : Fetch(n)) \/ Finish \/ Fail \/ Over

Spec == Init /\ [][Next]_limitVars

-----------------------------------------------------------------------------
(***************************************************************************)
(* Properties.                                                             *)
(***************************************************************************)

\* Types of the variables.
TypeOK ==
    /\ plan \in Seq(Ops) /\ at \in 1..(Len(plan) + 1)
    /\ phase \in {"optimize", "scan", "done", "failed"}
    /\ limitHint \in Nat /\ limitHardCap \in BOOLEAN
    /\ top \in Nat /\ batchSize \in 1..BatchSize
    /\ counted \in BOOLEAN /\ rows \in Seq(1..NRows)
    /\ fetched \in Nat

\* When a LIMIT has been pushed and DuckDB filters nothing itself, no more rows
\* leave the server than the LIMIT's cap, however slowly DuckDB takes them.
FetchBounded ==
    limitHint > 0 /\ ~counted /\ ~(\E k \in DOMAIN plan : plan[k].kind = "filter")
        => fetched <= limitHint

\* "Anything else (expression-typed limit, OFFSET via expression, etc.) is left
\* alone -- DuckDB still gets correct results via post-fetch LIMIT, just with
\* the default batch volume" (dbisam_optimizer.cpp).
LeftAloneIsCorrect == phase = "done" => result = Output(rows)[1]

-----------------------------------------------------------------------------
(***************************************************************************)
(* The inductive invariant behind TypeOK and FetchBounded, and behind      *)
(* LeftAloneIsCorrect where no plan has an OFFSET the cap cannot know.     *)
(***************************************************************************)

Filtered == \E k \in DOMAIN plan : plan[k].kind = "filter"

\* The cap is hard unless a filter stands below its LIMIT, a statement that
\* fetches rows carries just the hard caps, and fetching starts after that.
CapInv ==
    /\ limitHint > 0 /\ ~Filtered => limitHardCap
    /\ phase = "optimize" => fetched = 0
    /\ phase # "optimize" /\ ~counted =>
          \/ top = (IF limitHint > 0 /\ limitHardCap THEN limitHint ELSE 0)
          \/ phase = "failed" /\ fetched = 0
    /\ fetched <= Returned

\* The hint is the cap of a LIMIT with no filter between it and the scan.
HardCapOf(k) ==
    /\ plan[k].kind = "limit" /\ plan[k].by.nBy = "const"
    /\ ReachesScan(k) /\ ~SawFilter(k)
    /\ limitHint = Cap(plan[k].by)

\* A hard cap comes from such a LIMIT, and a TOP is a hard cap.
HardInv ==
    /\ limitHint > 0 /\ limitHardCap => \E k \in DOMAIN plan : HardCapOf(k)
    /\ phase = "optimize" => ~counted /\ top = 0
    /\ counted => top = 0
    /\ top > 0 => limitHardCap /\ top = limitHint

LimitInv ==
    /\ TypeOK
    /\ CapInv
    /\ HardInv
    /\ rows \in Statements

\* No LIMIT the optimizer takes for a cap has an OFFSET it takes for none.
OffsetsKnown == \A l \in Limits : l.nBy = "const" => l.offsetBy # "expr"

=============================================================================
