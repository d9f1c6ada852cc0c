---------------------------- MODULE ScanFunction ----------------------------
(***************************************************************************)
(* The table function dbisam_scan around one streaming scan: Bind asks the *)
(* server for the columns over a connection of its own and types DuckDB's  *)
(* vectors by them; InitGlobal opens the scan's connection, prepares the   *)
(* statement again, and compares.  Between the two the table may have been *)
(* altered.  A schema is the sequence of its field types: an ALTER that    *)
(* keeps the number and the types of the columns is assumed to keep the    *)
(* layout of the record too (the comparison does not look at it).          *)
(***************************************************************************)
EXTENDS ScanSession

CONSTANTS
    Schemas,        \* the schemas the table may have
    BoundSchemas    \* bound: those of them that Bind's probe may find

ASSUME SchemaAssumption ==
    /\ BoundSchemas \subseteq Schemas
    /\ \A s \in Schemas : s # <<>>     \* parse_schema throws on no column

VARIABLES
    stage,      \* "bind", "refused" or "scan"
    bound,      \* bind.columns
    served      \* scan.columns: what the server answered to the scan's Prepare

funVars == <<stage, bound, served>>
allVars == <<vars, funVars>>

FunctionInit ==
    /\ Init
    /\ stage = "bind" /\ bound = <<>> /\ served = <<>>

\* Bind: the probe found the columns; DuckDB types its vectors by them.
Bind ==
    /\ stage = "bind"
    /\ bound' \in BoundSchemas
    /\ stage' = "scan"
    /\ UNCHANGED <<vars, served>>

\* A NULL argument, or the probe threw: the query never starts.
BindRefused ==
    /\ stage = "bind"
    /\ stage' = "refused"
    /\ UNCHANGED <<vars, bound, served>>

\* The server prepares the scan's statement, on the table as it now is.
ServePrepare ==
    /\ SrvPrepare
    /\ served' \in IF replies'[Len(replies')].status = "schema" THEN Schemas ELSE {served}
    /\ UNCHANGED <<stage, bound>>

\* Mutant: only the number of columns is compared.
DiffersInCount(s, b) == Len(s) # Len(b)

\* The comparison of InitGlobal: the number of columns, then each type.
Differs(s, b) == s # b

\* InitGlobal, the cursor open: other columns than Bind's end the scan.
CheckColumns ==
    /\ SchemaChanged
    /\ Differs(served, bound)
    /\ UNCHANGED funVars

\* DuckDB calls Execute, or destroys the scan, only after InitGlobal.
ExecuteStep ==
    /\ Pull \/ Abandon
    /\ first => ~Differs(served, bound)
    /\ UNCHANGED funVars

FunctionClient ==
    \/ Bind \/ BindRefused
    \/ /\ stage = "scan"
       /\ \/ CheckColumns \/ ExecuteStep
          \/ /\ Call \/ CallThrows \/ CallKills \/ AnswerThrows \/ Returning
                  \/ EmitVector \/ Hangup
             /\ UNCHANGED funVars

FunctionServer ==
    \/ ServePrepare
    \/ (SrvAck \/ SrvExecute \/ SrvRead \/ SrvBlob \/ Drop) /\ UNCHANGED funVars

FunctionOver ==
    /\ stage = "refused" \/ pc \in {"Closed", "Killed"}
    /\ UNCHANGED allVars

FunctionNext == FunctionClient \/ FunctionServer \/ FunctionOver

FunctionSpec == FunctionInit /\ [][FunctionNext]_allVars

\* DuckDB drives the query to its end or destroys it, and a socket call that
\* gets no answer returns after SO_RCVTIMEO; the server owes nothing.
FairFunctionSpec == FunctionSpec /\ WF_allVars(FunctionClient)

-----------------------------------------------------------------------------

\* Rows reach DuckDB's vectors, which Bind typed, only from a statement whose
\* columns have the number and the types those vectors were made for: a table
\* altered between the probe and the scan ends the query before its first row.
RowsAsBound == emitted # <<>> => served = bound

\* Every query comes to its end: refused, or its scan closed (or killed),
\* whatever the server and the network do -- but for a server that answers a
\* block read with an empty block again and again.  The refill loops have no
\* limit for those, and this is the only way in which a query does not end.
QueryEnds ==
    \/ <>(stage = "refused" \/ pc \in {"Closed", "Killed"})
    \/ []<><<EmptyBlock>>_allVars

-----------------------------------------------------------------------------
(***************************************************************************)
(* The inductive invariant behind RowsAsBound.                             *)
(***************************************************************************)

\* Until DuckDB calls Execute the schemas may differ; from then on they agree,
\* and no Prepare that the server has still to answer could change that.
ServedInv ==
    /\ stage # "scan" => pc = "Connect"
    /\ outcome = "running" /\ (~first \/ pc = "Read") => served = bound
    /\ emitted # <<>> => \A k \in (handled + 1)..Len(log) : log[k] # "Prepare"
    /\ RowsAsBound

FunctionInv == ScanInv /\ CleanupInv /\ ServedInv

=============================================================================
