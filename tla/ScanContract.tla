---------------------------- MODULE ScanContract ----------------------------
(***************************************************************************)
(* What a table scan promises to DuckDB: the rows of the result, in the    *)
(* order of the server's cursor, each once, in vectors of at most          *)
(* VectorSize rows; and an end of the scan that is reported only after the *)
(* last row.  A scan may also fail, or be abandoned by its caller; and one *)
(* under LENIENT_DECODE may lose step with the server over a blob, and then*)
(* ends wherever the server's next answer makes it end.                    *)
(***************************************************************************)
EXTENDS Naturals, Sequences

CONSTANTS
    NRows,        \* rows of the server's result, numbered 1..NRows
    VectorSize    \* STANDARD_VECTOR_SIZE

VARIABLES
    opts,         \* opts.bad: the rows that do not decode, opts.lenient: LENIENT_DECODE
    emitted,      \* the rows DuckDB has been given
    outcome,
    lost          \* the scan has lost step with the server

\* The row DuckDB sees for row i: 0 stands for the all-NULL row.
Cell(i) == IF i \in opts.bad THEN 0 ELSE i

Init ==
    /\ emitted = <<>>
    /\ outcome = "running"
    /\ lost = FALSE

Deliver ==
    /\ outcome = "running"
    /\ \E n \in 1..VectorSize :
          LET upTo == Len(emitted) + n IN
          /\ upTo <= NRows
          /\ opts.lenient \/ \A i \in (Len(emitted) + 1)..upTo : i \notin opts.bad
          /\ emitted' = [i \in 1..upTo |-> IF i <= Len(emitted) THEN emitted[i] ELSE Cell(i)]
    /\ UNCHANGED <<opts, outcome, lost>>

Finish ==
    /\ outcome = "running"
    /\ Len(emitted) = NRows \/ lost
    /\ outcome' = "done"
    /\ UNCHANGED <<opts, emitted, lost>>

GiveUp ==
    /\ outcome = "running"
    /\ outcome' \in {"failed", "stopped"}
    /\ UNCHANGED <<opts, emitted, lost>>

LoseStep ==
    /\ outcome = "running" /\ opts.lenient
    /\ lost' = TRUE
    /\ UNCHANGED <<opts, emitted, outcome>>

Next == Deliver \/ Finish \/ GiveUp \/ LoseStep

Spec == Init /\ [][Next]_<<opts, emitted, outcome, lost>>

=============================================================================
