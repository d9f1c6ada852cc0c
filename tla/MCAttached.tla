----------------------------- MODULE MCAttached -----------------------------
(* Plans of up to three operators over a table of four rows and three       *)
(* columns: a key, a memo and a plain one.                                   *)
EXTENDS AttachedScan, TLC

\* The rows of a filter DuckDB evaluates itself; each checks again one column's.
MCKeeps == {{2, 4}, {1, 2, 3}}
MCPassing == 0 :> {1, 2, 3} @@ 1 :> {2, 3, 4} @@ 2 :> {1, 4}

Limit(n, nBy, offset, offsetBy) == [n |-> n, nBy |-> nBy, offset |-> offset, offsetBy |-> offsetBy]

MCLimits ==
    {Limit(n, "const", 0, "none") : n \in 0..2} \cup
    {Limit(1, "const", m, "const") : m \in 1..2} \cup
    {Limit(3, "const", 1, "const"), Limit(2, "expr", 1, "const"), Limit(1, "expr", 1, "expr")}

\* The hypothesis of LimitExact and QueryRight holds of these plans.
ASSUME MCOffsets == OffsetsKnown

=============================================================================
