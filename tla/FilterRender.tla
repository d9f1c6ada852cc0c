---------------------------- MODULE FilterRender ----------------------------
(***************************************************************************)
(* Filter pushdown: DuckDB offers a filter expression to the scan's accept *)
(* callback and hands it table filters; InitGlobal renders what the scan   *)
(* owes into a WHERE clause; the server evaluates that with its own rules  *)
(* for NULL; DuckDB evaluates what it has kept.                            *)
(*                                                                         *)
(* Expressions are records tagged by e, filters by f.  Of a rendered text  *)
(* only its meaning is kept: what the server makes of it for each value of *)
(* the column.  A value is Null or an integer, a truth value one of them;  *)
(* a timestamp's integers are half seconds.                                *)
(***************************************************************************)
EXTENDS Integers, Sequences

CONSTANTS
    Values,         \* of columns and expressions
    Left(_, _),     \* left(text, n)
    Functions,      \* the others: NOT, CASE, casts, upper(text)
    Function(_, _), \* what one of them makes of a value
    Expressions,    \* with their parts
    TableFilters,   \* the filters, with their parts
    Solid,          \* filters no part of which a scan may skip
    Depth,          \* of expressions and filters; their parts have a smaller one
    Queries         \* [expr, virtual, filters]: what DuckDB brings; see Init

VARIABLES
    query,          \* never changes
    nullCompares,   \* server: what a comparison with NULL yields where the audit is silent
    phase,
    accepted,       \* DuckDB has erased query.expr from its plan
    where,          \* the rendered filters, one per column; None for one left out
    kept            \* the rows the query returns

vars == <<query, nullCompares, phase, accepted, where, kept>>

Null   == -1
False  == 0
True   == 1
None   == [e |-> "none"]        \* nullopt
Column == [e |-> "col"]

Types         == {"text", "timestamp", "other"}
ComparisonOps == {"=", "<>", "<", "<=", ">", ">="}
Ops           == ComparisonOps \cup {"distinct"}
NullCompares  == {False, Null}

Elems(s) == {s[i] : i \in DOMAIN s}

\* The second a timestamp lies in.
Second(v) == v - (v % 2)

\* What a function makes of a value.
Applied(x, v) == IF x.e = "left" THEN Left(v, x.n) ELSE Function(x.fn, v)

\* The direct parts of an expression, and of a filter.
Children(x) ==
    CASE x.e \in {"left", "func", "isnull"} -> {x.arg}
      [] x.e = "cmp"  -> {x.l, x.r}
      [] x.e = "in"   -> {x.probe} \cup Elems(x.items)
      [] x.e = "conj" -> Elems(x.args)
      [] OTHER        -> {}
Kids(f) ==
    IF f.f = "optional" THEN {f.kid} ELSE IF f.f \in {"and", "or"} THEN Elems(f.kids) ELSE {}

ASSUME ValuesAssumption ==
    /\ Values \subseteq Int /\ {Null, False, True} \subseteq Values
    /\ \A v \in Values \ {Null} : Second(v) \in Values

ASSUME DepthAssumption ==
    /\ Depth \in [Expressions \cup TableFilters -> Nat]
    /\ \A x \in Expressions : \A y \in Children(x) : Depth[y] < Depth[x]
    /\ \A f \in TableFilters : \A g \in Kids(f) : Depth[g] < Depth[f]

\* The renderer goes into any expression, tests among them.
ASSUME ExpressionsAssumption ==
    \A x \in Expressions :
        /\ \/ x = Column
           \/ x \in [e : {"const"}, v : Values, type : Types]
           \/ x \in [e : {"left"}, arg : Expressions, n : Int]
           \/ x \in [e : {"func"}, arg : Expressions, fn : Functions]
           \/ x \in [e : {"cmp"}, op : Ops, l : Expressions, r : Expressions]
           \/ x \in [e : {"in"}, neg : BOOLEAN, probe : Expressions, items : Seq(Expressions)]
           \/ x \in [e : {"isnull"}, neg : BOOLEAN, arg : Expressions]
           \/ x \in [e : {"conj"}, op : {"and", "or"}, args : Seq(Expressions)] /\ x.args # <<>>
        /\ x.e \in {"left", "func"} => \A v \in Values : Applied(x, v) \in Values

ASSUME FiltersAssumption ==
    \A f \in TableFilters :
        \/ f \in [f : {"null"}, neg : BOOLEAN]
        \/ f \in [f : {"cmp"}, op : Ops, v : Values, type : Types]
        \/ f \in [f : {"in"}, vals : Seq(Values), type : Types]
        \/ f \in [f : {"expr"}, expr : Expressions]
        \/ f \in [f : {"dynamic", "bloom", "struct"}]
        \/ f \in [f : {"optional"}, kid : TableFilters]
        \/ f \in [f : {"and", "or"}, kids : Seq(TableFilters)] /\ f.kids # <<>>

\* DuckDB ands a filter that a scan may skip to others, and puts none under an OR.
ASSUME SolidAssumption ==
    /\ Solid \subseteq TableFilters
    /\ \A f \in TableFilters : f.f = "or" => f.kids \in Seq(Solid)
    /\ \A f \in Solid : /\ f.f \notin {"optional", "dynamic", "bloom"}
                        /\ f.f = "and" => f.kids \in Seq(Solid)

ASSUME QueriesAssumption ==
    \A q \in Queries :
        /\ q \in [expr : Expressions \cup {None}, virtual : BOOLEAN, filters : Seq(TableFilters)]
        /\ q.expr # None => [f |-> "expr", expr |-> q.expr] \in TableFilters

-----------------------------------------------------------------------------
(***************************************************************************)
(* Three-valued logic, and comparisons with NULL: DuckDB's, and the        *)
(* server's as audited at the head of dbisam_filter_render.cpp (external). *)
(***************************************************************************)

Bool(b) == IF b THEN True ELSE False

Compare(op, a, b) ==
    Bool(CASE op = "=" -> a = b [] op = "<>" -> a # b [] op = "<" -> a < b
           [] op = "<=" -> a <= b [] op = ">" -> a > b [] op = ">=" -> a >= b
           [] op = "distinct" -> a # b)

And3(vs) == IF vs \subseteq {True} THEN True ELSE IF False \in vs THEN False ELSE Null
Or3(vs)  == IF True \in vs THEN True ELSE IF Null \in vs THEN Null ELSE False
Not3(v)  == CASE v = True -> False [] v = False -> True [] OTHER -> Null

SqlCompare(op, a, b) ==
    IF Null \in {a, b} /\ op # "distinct" THEN Null ELSE Compare(op, a, b)

\* To the server NULL is some other value, and NULL equals NULL.  nc is what any
\* other comparison with NULL yields: the audit knows only that it is not true.
ServerCompare(op, nc, a, b) ==
    IF Null \notin {a, b} \/ op = "<>" \/ (op = "=" /\ a = b) THEN Compare(op, a, b) ELSE nc

-----------------------------------------------------------------------------
(***************************************************************************)
(* Rendering.  A text is, for each of NullCompares and each value of the   *)
(* column, the value the server gives it.                                  *)
(***************************************************************************)

Text(is)   == [e |-> "text", is |-> is]
ColumnText == Text([nc \in NullCompares |-> [c \in Values |-> c]])

Comparison(op, l, r) ==
    Text([nc \in NullCompares |-> [c \in Values |->
        ServerCompare(op, nc, l.is[nc][c], r.is[nc][c])]])
NullTest(neg, x) ==
    Text([nc \in NullCompares |-> [c \in Values |-> Bool((x.is[nc][c] = Null) # neg)]])
Membership(neg, probe, items) ==
    Text([nc \in NullCompares |-> [c \in Values |->
        IF neg THEN And3({ServerCompare("<>", nc, probe.is[nc][c], i.is[nc][c]) : i \in items})
               ELSE Or3({ServerCompare("=", nc, probe.is[nc][c], i.is[nc][c]) : i \in items})]])
AllOf(texts) ==
    Text([nc \in NullCompares |-> [c \in Values |-> And3({t.is[nc][c] : t \in texts})]])
SomeOf(texts) ==
    Text([nc \in NullCompares |-> [c \in Values |-> Or3({t.is[nc][c] : t \in texts})]])

\* RenderValue: NULL and unlisted types are refused, a timestamp loses what is
\* below its second.
RenderValue(v, type) ==
    IF v = Null \/ type = "other" THEN None
    ELSE Text([nc \in NullCompares |->
                  [c \in Values |-> IF type = "timestamp" THEN Second(v) ELSE v]])

\* Mutant: a <> is sent as it is.
NoNullGuard(x, text) == {}

\* The guard that makes the server's <> and NOT IN exclude a NULL operand.
NullGuard(x, text) == IF x.e = "const" THEN {} ELSE {NullTest(TRUE, text)}

RenderComparison(op, l, r, guards) ==
    IF op \notin ComparisonOps \/ None \in {l, r} THEN None
    ELSE IF op = "<>" THEN AllOf({Comparison(op, l, r)} \cup guards)
    ELSE Comparison(op, l, r)

RenderMembership(neg, probe, items, guards) ==
    IF items = {} \/ None \in {probe} \cup items THEN None
    ELSE IF neg THEN AllOf({Membership(neg, probe, items)} \cup guards)
    ELSE Membership(neg, probe, items)

RenderNullTest(neg, arg) == IF arg = None THEN None ELSE NullTest(neg, arg)

RenderConj(op, texts) ==
    IF None \in texts THEN None ELSE IF op = "and" THEN AllOf(texts) ELSE SomeOf(texts)

RenderLeft(arg, n) ==
    IF n < 0 \/ arg = None THEN None
    ELSE Text([nc \in NullCompares |-> [c \in Values |-> Left(arg.is[nc][c], n)]])

\* Whatever its parts are: a test may be compared, listed, or tested for NULL.
RenderDbisamExpression[x \in Expressions] ==
    LET text(y) == RenderDbisamExpression[y]
    IN CASE x.e = "col"    -> ColumnText
         [] x.e = "const"  -> RenderValue(x.v, x.type)
         [] x.e = "left"   -> RenderLeft(text(x.arg), x.n)
         [] x.e = "cmp"    -> RenderComparison(x.op, text(x.l), text(x.r),
                                  NullGuard(x.l, text(x.l)) \cup NullGuard(x.r, text(x.r)))
         [] x.e = "in"     -> RenderMembership(x.neg, text(x.probe), {text(y) : y \in Elems(x.items)},
                                  NullGuard(x.probe, text(x.probe)))
         [] x.e = "isnull" -> RenderNullTest(x.neg, text(x.arg))
         [] x.e = "conj"   -> RenderConj(x.op, {text(y) : y \in Elems(x.args)})
         [] OTHER          -> None      \* any other function, NOT, CASE, casts

IsSkippableFilter[f \in TableFilters] ==
    \/ f.f \in {"optional", "dynamic", "bloom"}
    \/ f.f = "and" /\ \A i \in DOMAIN f.kids : IsSkippableFilter[f.kids[i]]

\* RenderDbisamFilter of a filter without parts.
RenderLeaf(f) ==
    CASE f.f = "null" -> NullTest(f.neg, ColumnText)
      [] f.f = "cmp"  -> RenderComparison(f.op, ColumnText, RenderValue(f.v, f.type),
                                          NullGuard(Column, ColumnText))
      [] f.f = "in"   -> RenderMembership(FALSE, ColumnText,
                                          {RenderValue(v, f.type) : v \in Elems(f.vals)}, {})
      [] f.f = "expr" -> RenderDbisamExpression[f.expr]
      [] OTHER        -> None       \* dynamic, bloom, struct extract

\* An AND is rendered without the parts that cannot be and may be skipped.
RenderAnd(f, texts) ==
    IF \/ \A i \in DOMAIN f.kids : texts[i] = None
       \/ \E i \in DOMAIN f.kids : texts[i] = None /\ ~IsSkippableFilter[f.kids[i]]
    THEN None ELSE AllOf({texts[i] : i \in DOMAIN f.kids} \ {None})

RenderDbisamFilter[f \in TableFilters] ==
    IF f.f = "optional" THEN RenderDbisamFilter[f.kid]
    ELSE IF f.f \notin {"and", "or"} THEN RenderLeaf(f)
    ELSE LET texts == [i \in DOMAIN f.kids |-> RenderDbisamFilter[f.kids[i]]]
         IN IF f.f = "and" THEN RenderAnd(f, texts)
            ELSE RenderConj("or", {texts[i] : i \in DOMAIN f.kids})

-----------------------------------------------------------------------------
(***************************************************************************)
(* What the expressions and filters mean to DuckDB (external).             *)
(***************************************************************************)

\* The value of an expression, for each value of the column.
Value[x \in Expressions] ==
    [c \in Values |->
        LET value(y) == Value[y][c]
        IN CASE x.e = "col"              -> c
             [] x.e = "const"            -> x.v
             [] x.e \in {"left", "func"} -> Applied(x, value(x.arg))
             [] x.e = "cmp"              -> SqlCompare(x.op, value(x.l), value(x.r))
             [] x.e = "in"               ->
                   LET equal == {SqlCompare("=", value(x.probe), value(y)) : y \in Elems(x.items)}
                   IN IF x.neg THEN Not3(Or3(equal)) ELSE Or3(equal)
             [] x.e = "isnull"           -> Bool((value(x.arg) = Null) # x.neg)
             [] x.e = "conj"             ->
                   LET values == {value(y) : y \in Elems(x.args)}
                   IN IF x.op = "and" THEN And3(values) ELSE Or3(values)]

Holds(x, c) == Value[x][c] = True

\* The values that pass a table filter; the three opaque ones let some pass.
LeafPasses(f, c) ==
    CASE f.f = "null" -> (c = Null) # f.neg
      [] f.f = "cmp"  -> SqlCompare(f.op, c, f.v) = True
      [] f.f = "in"   -> c # Null /\ c \in Elems(f.vals)
      [] f.f = "expr" -> Holds(f.expr, c)
      [] OTHER        -> c \in {1, 2}

Passes[f \in TableFilters] ==
    IF f.f = "optional" THEN Passes[f.kid]
    ELSE IF f.f = "and" THEN {c \in Values : \A i \in DOMAIN f.kids : c \in Passes[f.kids[i]]}
    ELSE IF f.f = "or"  THEN {c \in Values : \E i \in DOMAIN f.kids : c \in Passes[f.kids[i]]}
    ELSE {c \in Values : LeafPasses(f, c)}

\* Those that pass what DuckDB still checks of it: Top-N and joins check their
\* dynamic filters, and something stands behind an optional one.
Rechecked[f \in TableFilters] ==
    IF f.f = "and" THEN {c \in Values : \A i \in DOMAIN f.kids : c \in Rechecked[f.kids[i]]}
    ELSE IF f.f \in {"optional", "dynamic", "bloom"} THEN Passes[f] ELSE Values

-----------------------------------------------------------------------------
(***************************************************************************)
(* The pushdown.  Column 1 is the one query.expr is about, None if there   *)
(* is no such expression, virtual if that column is the row id; column     *)
(* k + 1 is the one of query.filters[k].                                   *)
(***************************************************************************)

HasExpr == query.expr # None
Filters == (IF accepted THEN <<[f |-> "expr", expr |-> query.expr]>> ELSE <<[f |-> "true"]>>)
             \o query.filters
Rows    == [DOMAIN Filters -> Values]

Init ==
    /\ query \in Queries
    /\ nullCompares \in NullCompares
    /\ phase = "plan" /\ accepted = FALSE
    /\ where = <<>> /\ kept = {}

\* Mutant: the row id is not told from a column of the table.
AcceptsVirtual(q) == RenderDbisamExpression[q.expr] # None

\* DbisamPushdownExpression: DuckDB erases its FILTER node when it returns true.
Accepts(q) == ~q.virtual /\ RenderDbisamExpression[q.expr] # None

PushdownExpression ==
    /\ phase = "plan"
    /\ accepted' = (HasExpr /\ Accepts(query))
    /\ phase' = "init"
    /\ UNCHANGED <<query, nullCompares, where, kept>>

Owed(k)     == Filters[k].f # "true"
Named(k)    == ~(k = 1 /\ query.virtual)     \* the column is one of the table's
Rendered(k) == IF Owed(k) /\ Named(k) THEN RenderDbisamFilter[Filters[k]] ELSE None

\* Mutant: filters left out leave no gap, so later ones move to another column.
WhereCompacted ==
    SelectSeq([k \in DOMAIN Filters |-> Rendered(k)], LAMBDA x : x # None)

Where == [k \in DOMAIN Filters |-> Rendered(k)]

\* RenderDbisamFilterSet: what cannot be rendered is left out or throws.
RenderFilterSet ==
    /\ phase = "init"
    /\ IF \E k \in DOMAIN Filters :
             Owed(k) /\ Rendered(k) = None /\ ~IsSkippableFilter[Filters[k]]
       THEN phase' = "failed" /\ UNCHANGED where
       ELSE phase' = "scan" /\ where' = Where
    /\ UNCHANGED <<query, nullCompares, accepted, kept>>

\* The server's rows, through what DuckDB has kept for itself.
Run ==
    /\ phase = "scan"
    /\ kept' = {r \in Rows :
                  /\ \A k \in DOMAIN where : where[k] # None => where[k].is[nullCompares][r[k]] = True
                  /\ HasExpr /\ ~accepted => Holds(query.expr, r[1])
                  /\ \A k \in DOMAIN query.filters : r[k + 1] \in Rechecked[query.filters[k]]}
    /\ phase' = "done"
    /\ UNCHANGED <<query, nullCompares, accepted, where>>

Over == phase \in {"done", "failed"} /\ UNCHANGED vars

Next == PushdownExpression \/ RenderFilterSet \/ Run \/ Over

Spec == Init /\ [][Next]_vars

-----------------------------------------------------------------------------
(***************************************************************************)
(* Properties.                                                             *)
(***************************************************************************)

\* Types of the variables.
TypeOK ==
    /\ query \in Queries /\ nullCompares \in NullCompares
    /\ phase \in {"plan", "init", "scan", "done", "failed"}
    /\ accepted \in BOOLEAN
    /\ phase \in {"scan", "done"} => DOMAIN where = DOMAIN Filters
    /\ kept \subseteq Rows

\* DuckDB has erased the expression only if the scan can render it.
AcceptInv == accepted => HasExpr /\ Accepts(query) /\ phase # "plan"

\* Each filter of the scan is in the WHERE clause, but for those it may skip.
WhereInv ==
    phase \in {"scan", "done"} =>
        /\ where = [k \in DOMAIN Filters |-> Rendered(k)]
        /\ \A k \in DOMAIN Filters :
              Owed(k) /\ Rendered(k) = None => IsSkippableFilter[Filters[k]]

\* The inductive invariant.  It relates the three places that see a filter:
\* the accept callback, the renderer, and the clause that is sent.
FilterInv == TypeOK /\ AcceptInv /\ WhereInv

\* What the audit covers.  Exact to the value: the column, LEFT of it, constants,
\* but not a timestamp's fraction of a second, which is lost.
WholeSecond(v, type) == type = "timestamp" /\ v # Null => Second(v) = v
Plain(x) ==
    \/ x.e = "col"
    \/ x.e = "const" /\ WholeSecond(x.v, x.type)
    \/ x.e = "left" /\ x.arg = Column

\* Exact to the truth: comparisons of these with a constant, or guarded ones of
\* any two; IN and NOT IN over constants; null tests; AND and OR of such.  It does
\* not cover what shows how the server reads NULL: two operands that may both be
\* NULL, unguarded, and a test that is itself compared, listed, or tested for NULL.
Audited[x \in Expressions] ==
    /\ x.e \in {"cmp", "in", "isnull", "conj"}
    /\ x.e = "cmp" => Plain(x.l) /\ Plain(x.r) /\ (x.op = "<>" \/ "const" \in {x.l.e, x.r.e})
    /\ x.e = "in" => Plain(x.probe) /\ \A y \in Elems(x.items) : Plain(y) /\ y.e = "const"
    /\ x.e = "isnull" => Plain(x.arg)
    /\ x.e = "conj" => \A y \in Elems(x.args) : Audited[y]

AuditedFilter[f \in TableFilters] ==
    /\ f.f = "cmp" => WholeSecond(f.v, f.type)
    /\ f.f = "in" => \A v \in Elems(f.vals) : WholeSecond(v, f.type)
    /\ f.f = "expr" => Audited[f.expr]
    /\ \A g \in Kids(f) : AuditedFilter[g]

Exact ==
    {r \in Rows : /\ HasExpr => Holds(query.expr, r[1])
                  /\ \A k \in DOMAIN query.filters : r[k + 1] \in Passes[query.filters[k]]}

\* A query whose pushed filters the audit covers returns the rows of SQL's
\* three-valued logic, no more and no fewer, wherever its filters are evaluated:
\* where the server reads NULL in its own way a guard makes up for it, and no
\* filter falls between DuckDB and the scan.
ResultExact ==
    /\ phase = "done"
    /\ accepted => Audited[query.expr]
    /\ \A k \in DOMAIN query.filters : AuditedFilter[query.filters[k]]
    => kept = Exact

\* An expression DuckDB has erased is one the scan can render: accepting it
\* never turns a query that DuckDB could have run into an error.
AcceptedIsRendered == accepted /\ query.filters = <<>> => phase # "failed"

\* "Conservative: only filter shapes we can render exactly are pushed down"
\* (dbisam_filter_render.hpp).
RenderedExactly == phase = "done" => kept = Exact

=============================================================================
