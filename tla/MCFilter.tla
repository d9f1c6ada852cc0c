------------------------------ MODULE MCFilter ------------------------------
(* Every comparison, membership and null test over a few operands, pairs of *)
(* some of them under AND and OR, tests compared, listed and tested for NULL*)
(* in their turn, and table filters nested two deep.  A text column holds   *)
(* Null, '', 'a', 'ab' or 'b', in this order.                               *)
EXTENDS FilterRender, TLC

MCValues == {Null} \cup 0..3

MCFunctions == {"upper", "not"}
MCFunction(fn, v) ==
    CASE fn = "upper" -> IF v = Null THEN Null ELSE 3 - v
      [] fn = "not"   -> Not3(v)

MCLeft(v, n) ==
    IF v = Null THEN Null
    ELSE CASE n = 0  -> 0
           [] n = 1  -> IF v = 2 THEN 1 ELSE v
           [] n > 1  -> v
           [] n = -1 -> IF v = 2 THEN 1 ELSE 0

Const(v, type)    == [e |-> "const", v |-> v, type |-> type]
Cmp(op, l, r)     == [e |-> "cmp", op |-> op, l |-> l, r |-> r]
In(neg, p, items) == [e |-> "in", neg |-> neg, probe |-> p, items |-> items]
IsNull(neg, x)    == [e |-> "isnull", neg |-> neg, arg |-> x]
LeftOf(x, n)      == [e |-> "left", arg |-> x, n |-> n]
Func(fn, x)       == [e |-> "func", arg |-> x, fn |-> fn]
Conj(op, a, b)    == [e |-> "conj", op |-> op, args |-> <<a, b>>]

\* Operands over the column, and constants; a timestamp's are whole seconds
\* in the first set, and have half seconds in the second.
Sides == {Column, LeftOf(Column, 1), LeftOf(Column, -1), Func("upper", Column)}
Consts   == {Const(1, "text"), Const(2, "text"), Const(2, "timestamp"),
             Const(Null, "text"), Const(1, "other")}
HalfSecond == Const(3, "timestamp")

Lists == {<<a>> : a \in Consts} \cup {<<a, b>> : a, b \in Consts}
TestsOver(operands, consts) ==
    {Cmp(op, l, r) : op \in Ops, l \in operands, r \in operands \cup consts} \cup
    {Cmp(op, k, r) : op \in Ops, k \in consts, r \in operands} \cup
    {In(neg, p, items) : neg \in BOOLEAN, p \in operands, items \in Lists} \cup
    {IsNull(neg, x) : neg \in BOOLEAN, x \in operands}

Some == {Cmp("<>", Column, Const(1, "text")), Cmp("=", LeftOf(Column, 1), Const(1, "text")),
         In(TRUE, Column, <<Const(1, "text"), Const(2, "text")>>), IsNull(FALSE, Column),
         Cmp("<", Func("upper", Column), Const(2, "text"))}

\* Tests where an operand may stand, and an operand where a test may.
TrueConst == Const(True, "text")
Tested    == Some \cup {Cmp("=", LeftOf(Column, 1), Column)}
Nested ==
    {Cmp(op, a, b) : op \in {"=", "<>"}, a \in Tested, b \in Tested \cup {TrueConst, Column}} \cup
    {In(neg, a, <<TrueConst, b>>) : neg \in BOOLEAN, a \in Tested, b \in Tested \cup {Column}} \cup
    {IsNull(neg, a) : neg \in BOOLEAN, a \in Tested} \cup
    {Conj(op, a, Column) : op \in {"and", "or"}, a \in Tested} \cup {Column}

Tests ==
    TestsOver(Sides, Consts) \cup Nested \cup
    {Conj(op, a, b) : op \in {"and", "or"}, a, b \in Some} \cup
    {Func("not", a) : a \in Some}
Exprs == Sides \cup Consts \cup Tests

Leaves ==
    {[f |-> "cmp", op |-> op, v |-> v, type |-> type] :
        op \in {"=", "<>", "<"}, v \in {Null, 2}, type \in {"text", "timestamp", "other"}} \cup
    {[f |-> "null", neg |-> neg] : neg \in BOOLEAN} \cup
    {[f |-> "in", vals |-> vals, type |-> "text"] : vals \in {<<>>, <<1, 2>>, <<1, Null>>}} \cup
    {[f |-> "dynamic"], [f |-> "struct"]}

Few == {[f |-> "cmp", op |-> "<>", v |-> 2, type |-> "text"], [f |-> "null", neg |-> FALSE],
        [f |-> "dynamic"], [f |-> "struct"],
        [f |-> "optional", kid |-> [f |-> "cmp", op |-> "=", v |-> 1, type |-> "other"]],
        [f |-> "optional", kid |-> [f |-> "in", vals |-> <<1, 2>>, type |-> "text"]]}

FewSolid == {f \in Few : f.f \notin {"dynamic", "optional"}}
Pairs(op, as, bs) == {[f |-> op, kids |-> <<a, b>>] : a \in as, b \in bs}
Joined == Pairs("and", Few, Few) \cup Pairs("or", FewSolid, FewSolid)

TopFilters ==
    Leaves \cup Few \cup {[f |-> "optional", kid |-> l] : l \in Leaves} \cup Joined \cup
    Pairs("and", Joined, Few) \cup Pairs("or", Pairs("and", FewSolid, FewSolid), FewSolid)

Query(x, virtual, filters) == [expr |-> x, virtual |-> virtual, filters |-> filters]

AllQueries ==
    {Query(x, v, <<>>) : x \in Tests, v \in BOOLEAN} \cup
    {Query(None, FALSE, <<f>>) : f \in TopFilters} \cup
    {Query(None, FALSE, <<f, g>>) : f, g \in Few} \cup
    {Query(x, FALSE, <<f>>) : x \in Some, f \in Few}

-----------------------------------------------------------------------------
(* The parts of these, and how deep they are. *)

RECURSIVE Parts(_)
Parts(f) == {f} \cup UNION {Parts(g) : g \in Kids(f)}

ExprFilters(tests) == {[f |-> "expr", expr |-> x] : x \in tests}
AllFilters   == UNION {Parts(f) : f \in TopFilters \cup ExprFilters(Tests)}
SolidFilters == {f \in AllFilters : \A g \in Parts(f) : g.f \notin {"optional", "dynamic", "bloom"}}

Deepest(ds) == CHOOSE d \in ds : \A e \in ds : e <= d

RECURSIVE DepthOf(_)
DepthOf(x) ==
    LET parts == IF "e" \in DOMAIN x THEN Children(x) ELSE Kids(x)
    IN IF parts = {} THEN 0 ELSE 1 + Deepest({DepthOf(y) : y \in parts})

Depths == <<>> @@ [x \in Exprs \cup AllFilters |-> DepthOf(x)]

HalfQueries == {Query(Cmp(op, Column, HalfSecond), FALSE, <<>>) : op \in ComparisonOps}
HalfTests   == {q.expr : q \in HalfQueries}
HalfExprs   == {Column, HalfSecond} \cup HalfTests
HalfFilters == ExprFilters(HalfTests)
HalfDepths  == <<>> @@ [x \in HalfExprs \cup HalfFilters |-> IF x \in HalfTests THEN 1 ELSE 0]

\* TLC keeps the value of a definition, but not of one that stands for a
\* constant: the sets above have names of their own.
MCExpressions  == Exprs
MCTableFilters == AllFilters
MCSolid        == SolidFilters
MCDepth        == Depths
MCQueries      == AllQueries

MCHalfExpressions  == HalfExprs
MCHalfTableFilters == HalfFilters
MCHalfSolid        == {}
MCHalfDepth        == HalfDepths
MCHalfSecondQueries == HalfQueries

=============================================================================
