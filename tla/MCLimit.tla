------------------------------ MODULE MCLimit ------------------------------
(* Plans of up to three operators over a table of three rows, with a        *)
(* constant LIMIT whose OFFSET is an expression.                             *)
EXTENDS LimitPushdown

MCKeeps == {{1, 3}}

Limit(n, nBy, offset, offsetBy) == [n |-> n, nBy |-> nBy, offset |-> offset, offsetBy |-> offsetBy]

MCLimitsWithOffsets ==
    {Limit(n, "const", 0, "none") : n \in 0..2} \cup {Limit(2, "const", 1, "expr")}

=============================================================================
