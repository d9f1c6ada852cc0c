--------------------------- MODULE FunctionProofs ---------------------------
(***************************************************************************)
(* The table function around the scan: every step of the query is a step   *)
(* of the scan's session or a stutter, so all that is proved of a session  *)
(* holds of a query; and rows reach DuckDB only from a statement that has  *)
(* the columns of Bind.                                                    *)
(***************************************************************************)
EXTENDS ScanFunction, ScanProofs

-----------------------------------------------------------------------------
(***************************************************************************)
(* The query and its session.                                              *)
(***************************************************************************)

LEMMA SessionStep ==
    ASSUME [FunctionNext]_allVars
    PROVE  [Next]_vars
<1>1. CASE FunctionClient
  BY <1>1 DEF FunctionClient, Bind, BindRefused, CheckColumns, ExecuteStep, Next, Client
<1>2. CASE FunctionServer
  BY <1>2 DEF FunctionServer, ServePrepare, Next, Server
<1>3. CASE FunctionOver \/ UNCHANGED allVars
  BY <1>3 DEF FunctionOver, allVars
<1>4. QED
  BY <1>1, <1>2, <1>3 DEF FunctionNext

\* A query runs its scan as ScanSession says: what is proved of every session,
\* and the contract it implements, hold of the session of every query.
THEOREM RunsSession == FunctionSpec => Spec
<1>1. FunctionInit => Init
  BY DEF FunctionInit
<1>2. [FunctionNext]_allVars => [Next]_vars
  BY SessionStep
<1>3. QED
  BY <1>1, <1>2, PTL DEF FunctionSpec, Spec

-----------------------------------------------------------------------------
(***************************************************************************)
(* The columns.                                                            *)
(***************************************************************************)

NothingPrepares == \A k \in (handled + 1)..Len(log) : log[k] # "Prepare"

\* Nothing has been emitted where the scan has not read its first block.
LEMMA FirstLemma ==
    ASSUME ScanInv
    PROVE  /\ outcome = "running" /\ first => emitted = <<>> /\ batch = <<>> /\ offset = 0
           /\ pc \in OpeningPcs => outcome = "running" /\ first
BY DEF ScanInv, BatchInv, ControlInv, RunningPcs

\* A request goes out: the only Prepare is the one of start_streaming.
LEMMA CallServed ==
    ASSUME ScanInv, ServedInv, Call, stage = "scan", UNCHANGED funVars
    PROVE  ServedInv'
<1>1. /\ TypeOK /\ Len(log) \in Nat /\ Len(log') = Len(log) + 1 /\ handled' = handled
      /\ handled \in Nat
      /\ \A k \in 1..Len(log) : log'[k] = log[k]
      /\ log'[Len(log) + 1] = Kind
      /\ UNCHANGED <<pc, first, emitted, outcome>> /\ pc \in CallPcs
  BY WrittenLemma, LogLemma DEF Call, Send, ScanInv, dataVars
<1>2. emitted # <<>> => Kind # "Prepare"
  BY FirstLemma DEF Kind, OpeningPcs
<1>3. ASSUME emitted' # <<>> PROVE NothingPrepares'
  <2> SUFFICES ASSUME NEW k \in (handled' + 1)..Len(log') PROVE log'[k] # "Prepare"
    BY DEF NothingPrepares
  <2>1. CASE k = Len(log) + 1
    BY <1>1, <1>2, <1>3, <2>1
  <2>2. CASE k # Len(log) + 1
    <3>1. k \in 1..Len(log) /\ k \in (handled + 1)..Len(log)
      BY <1>1, <2>2
    <3>2. QED
      BY <1>1, <1>3, <3>1 DEF ServedInv
  <2>3. QED
    BY <2>1, <2>2
<1>4. QED
  BY <1>1, <1>3 DEF ServedInv, RowsAsBound, funVars, NothingPrepares

\* What the server has still to answer is part of what it had to answer.
NothingNew ==
    \A k \in (handled' + 1)..Len(log') : k \in (handled + 1)..Len(log) /\ log'[k] = log[k]

LEMMA SilentNothingNew ==
    ASSUME ScanInv, UNCHANGED log, handled' \in {handled, handled + 1}
    PROVE  NothingNew
<1>1. Len(log) \in Nat /\ handled \in Nat
  BY LogLemma DEF ScanInv
<1>2. \A h \in {handled, handled + 1} : (h + 1)..Len(log) \subseteq (handled + 1)..Len(log)
  BY <1>1
<1>3. QED
  BY <1>2 DEF NothingNew

LEMMA ForgetNothingNew ==
    ASSUME ScanInv, pc \in RunningPcs, ReturnsForgetting
    PROVE  NothingNew
<1>1. /\ Len(log') \in Nat
      /\ \/ log' = log /\ handled' = handled
         \/ handled' = Len(log')
  BY ForgetLemma DEF ScanInv, ControlInv, ReturnsForgetting
<1>2. CASE log' = log /\ handled' = handled
  BY <1>2 DEF NothingNew
<1>3. CASE handled' = Len(log')
  BY <1>1, <1>3 DEF NothingNew
<1>4. QED
  BY <1>1, <1>2, <1>3

\* A step that hands on no row and writes nothing, in a scan that is alive
\* only where it was, or goes on to read with the columns compared.
LEMMA QuietServed ==
    ASSUME ScanInv, ServedInv, stage = "scan",
           UNCHANGED <<emitted, stage, bound, served>>, NothingNew,
           outcome' = "running" =>
               \/ served = bound
               \/ outcome = "running" /\ first' = first /\ (pc' = "Read" => pc = "Read")
    PROVE  ServedInv'
<1>1. emitted' # <<>> => NothingPrepares'
  BY DEF ServedInv, NothingPrepares, NothingNew
<1>2. outcome' = "running" /\ (~first' \/ pc' = "Read") => served' = bound'
  BY DEF ServedInv
<1>3. emitted' # <<>> => served' = bound'
  BY DEF ServedInv, RowsAsBound
<1>4. QED
  BY <1>1, <1>2, <1>3 DEF ServedInv, RowsAsBound, NothingPrepares

\* A vector is handed on: its batch was read with the columns compared, and
\* nothing is on its way to the server, but for blob requests of a scan that
\* has lost step.
LEMMA EmitServed ==
    ASSUME ScanInv, ServedInv, EmitVector, stage = "scan", UNCHANGED funVars
    PROVE  ServedInv'
<1>1. /\ pc \in {"Idle", "Emit"} /\ offset < Len(batch) /\ pc' = "Idle"
      /\ UNCHANGED <<log, handled, replies, waiting, first, outcome>>
  BY DEF EmitVector, netVars
<1>2. outcome = "running" /\ ~waiting
  BY <1>1 DEF ScanInv, ControlInv, RunningPcs, CallPcs, LoginPcs, CleanupPcs, BlobPcs
<1>3. ~first
  BY <1>1, <1>2, FirstLemma, EmptySeq
<1>4. served = bound
  BY <1>2, <1>3 DEF ServedInv
<1>5. Len(log) \in Nat /\ handled \in Nat /\ handled <= Len(log) /\ Len(replies) \in Nat
  BY LogLemma, LenProperties DEF ScanInv, TypeOK
<1>6. NothingPrepares
  <2>1. CASE lost
    BY <1>2, <2>1 DEF ScanInv, LostInv, Reading, NothingPrepares, BlobPcs
  <2>2. CASE ~lost
    <3>1. handled = Len(log)
      BY <1>2, <1>5, <2>2 DEF ScanInv, InSync, WentPast, Unread
    <3>2. QED
      BY <1>5, <3>1 DEF NothingPrepares
  <2>3. QED
    BY <2>1, <2>2
<1>7. NothingPrepares'
  BY <1>1, <1>6 DEF NothingPrepares
<1>8. QED
  BY <1>1, <1>4, <1>7 DEF ServedInv, RowsAsBound, funVars, NothingPrepares

\* The server prepares the statement: the scan is before its first row, or
\* over without one.
LEMMA PrepareServed ==
    ASSUME ScanInv, ServedInv, ServePrepare
    PROVE  ServedInv'
<1>1. /\ Pending /\ Asked = "Prepare" /\ handled' = handled + 1
      /\ UNCHANGED <<log, pc, first, emitted, outcome, stage>>
  BY DEF ServePrepare, SrvPrepare, Reply, clientVars, dataVars
<1>2. Len(log) \in Nat /\ handled \in Nat /\ handled < Len(log)
  BY <1>1, LogLemma DEF ScanInv, Pending
<1>3. emitted = <<>>
  <2>1. handled + 1 \in (handled + 1)..Len(log) /\ log[handled + 1] = "Prepare"
    BY <1>1, <1>2 DEF Asked
  <2>2. QED
    BY <2>1 DEF ServedInv
<1>4. outcome = "running" => pc = "Prepare" /\ first
  <2>1. ASSUME outcome = "running", lost PROVE FALSE
    <3>1. handled + 1 \in (handled + 1)..Len(log) /\ log[handled + 1] = "Prepare"
      BY <1>1, <1>2 DEF Asked
    <3>2. Reading /\ handled + 1 = Len(log)
      BY <1>2, <2>1, <3>1 DEF ScanInv, LostInv, BlobPcs
    <3>3. log[Len(log)] = Kind /\ Kind # "Prepare"
      BY <2>1, <3>2 DEF ScanInv, ControlInv, Reading, Kind
    <3>4. QED
      BY <3>1, <3>2, <3>3
  <2>2. QED
    BY <1>1, <2>1, AskedLemma, FirstLemma DEF Kind, OpeningPcs
<1>5. QED
  BY <1>1, <1>3, <1>4 DEF ServedInv, RowsAsBound

LEMMA ServedStep ==
    ASSUME ScanInv, ServedInv, [FunctionNext]_allVars
    PROVE  ServedInv'
<1>1. CASE Bind \/ BindRefused
  <2>1. pc = "Connect" /\ UNCHANGED vars
    BY <1>1 DEF Bind, BindRefused, ServedInv
  <2>2. outcome = "running" /\ first /\ emitted = <<>>
    BY <2>1, FirstLemma DEF OpeningPcs, LoginPcs
  <2>3. QED
    BY <2>1, <2>2 DEF vars, netVars, clientVars, dataVars, ServedInv, RowsAsBound
<1>2. CASE stage = "scan" /\ CheckColumns
  <2>1. /\ outcome' # "running" /\ handled' = handled
        /\ UNCHANGED <<log, emitted, stage, bound, served>>
    BY <1>2 DEF CheckColumns, SchemaChanged, Teardown, netVars, funVars
  <2>2. QED
    BY <1>2, <2>1, QuietServed, SilentNothingNew
<1>3. CASE stage = "scan" /\ ExecuteStep
  <2>1. /\ UNCHANGED <<log, handled, emitted, stage, bound, served, first>> /\ pc = "Idle"
        /\ outcome' = "running" => outcome' = outcome
        /\ first => ~Differs(served, bound)
    BY <1>3 DEF ExecuteStep, Pull, Abandon, Teardown, netVars, funVars
  <2>2. served = bound \/ outcome' # "running"
    BY <2>1 DEF Differs, ServedInv
  <2>3. QED
    BY <1>3, <2>1, <2>2, QuietServed, SilentNothingNew
<1>4. CASE stage = "scan" /\ Call /\ UNCHANGED funVars
  BY <1>4, CallServed
<1>5. CASE stage = "scan" /\ (CallThrows \/ CallKills \/ AnswerThrows \/ Hangup) /\ UNCHANGED funVars
  <2>1. /\ UNCHANGED <<log, handled, emitted, stage, bound, served, first>>
        /\ outcome' = "running" => outcome' = outcome
        /\ pc' = "Read" => pc = "Read"
    BY <1>5, AfterLemma DEF CallThrows, CallKills, AnswerThrows, Hangup, SendBroken, ReceiveFails,
       CloseSocket, Throws, NextFetch, BlobPcs, Teardown, netVars, funVars, dataVars
  <2>2. QED
    BY <1>5, <2>1, QuietServed, SilentNothingNew
<1>6. CASE stage = "scan" /\ (IgnoredReply \/ PrepareReply \/ PollReply \/ SetToBeginReply)
           /\ UNCHANGED funVars
  <2>1. /\ UNCHANGED <<log, handled, emitted, stage, bound, served, first>>
        /\ outcome' = "running" => outcome' = outcome
    BY <1>6 DEF IgnoredReply, PrepareReply, PollReply, SetToBeginReply, Returns, Receive, Teardown,
       funVars, dataVars
  <2>2. pc' # "Read"
    BY <1>6, AfterLemma DEF IgnoredReply, PrepareReply, PollReply, SetToBeginReply, Teardown, LoginPcs
  <2>3. QED
    BY <1>6, <2>1, <2>2, QuietServed, SilentNothingNew
<1>7. CASE stage = "scan" /\ (ReadReply \/ FetchReply \/ FlushReply) /\ UNCHANGED funVars
  <2>1. UNCHANGED <<emitted, stage, bound, served>> /\ pc \in {"Read"} \cup BlobPcs
    BY <1>7 DEF ReadReply, ReadFails, ReadEnds, EmptyBlock, BatchRead, FetchReply, FlushReply, BlobPcs,
                dataVars, funVars
  <2>2. served = bound /\ pc \in RunningPcs
    BY <2>1 DEF ServedInv, ScanInv, ControlInv, RunningPcs
  <2>3. CASE ReturnsForgetting
    BY <1>7, <2>1, <2>2, <2>3, QuietServed, ForgetNothingNew
  <2>4. CASE Returns
    <3>1. UNCHANGED <<log, handled>>
      BY <2>4 DEF Returns, Receive
    <3>2. QED
      BY <1>7, <2>1, <2>2, <3>1, QuietServed, SilentNothingNew
  <2>5. QED
    BY <1>7, <2>3, <2>4 DEF ReadReply, ReadFails, ReadEnds, EmptyBlock, BatchRead, FetchReply, FlushReply
<1>8. CASE stage = "scan" /\ EmitVector /\ UNCHANGED funVars
  BY <1>8, EmitServed
<1>9. CASE FunctionServer
  <2>1. CASE ServePrepare
    BY <2>1, PrepareServed
  <2>2. CASE (SrvAck \/ SrvExecute \/ SrvRead \/ SrvBlob \/ Drop) /\ UNCHANGED funVars
    <3>1. /\ UNCHANGED <<log, emitted, stage, bound, served, first, outcome, pc>>
          /\ handled' \in {handled, handled + 1}
      BY <2>2 DEF SrvAck, SrvExecute, SrvRead, SrvBlob, Drop, Reply, Disconnect, funVars, clientVars, dataVars
    <3>2. CASE stage = "scan"
      BY <3>1, <3>2, QuietServed, SilentNothingNew
    <3>3. CASE stage # "scan"
      <4>1. outcome = "running" /\ first /\ emitted = <<>> /\ pc = "Connect"
        BY <3>3, FirstLemma DEF ServedInv, OpeningPcs, LoginPcs
      <4>2. QED
        BY <3>1, <4>1 DEF ServedInv, RowsAsBound
    <3>4. QED
      BY <3>2, <3>3
  <2>3. QED
    BY <1>9, <2>1, <2>2 DEF FunctionServer
<1>10. CASE FunctionOver \/ UNCHANGED allVars
  <2>1. UNCHANGED allVars
    BY <1>10 DEF FunctionOver
  <2>2. QED
    BY <2>1 DEF allVars, funVars, vars, netVars, clientVars, dataVars, ServedInv, RowsAsBound
<1>11. QED
  BY <1>1, <1>2, <1>3, <1>4, <1>5, <1>6, <1>7, <1>8, <1>9, <1>10
     DEF FunctionNext, FunctionClient, Returning

-----------------------------------------------------------------------------
(***************************************************************************)
(* Theorems.                                                               *)
(***************************************************************************)

LEMMA FunctionInitInv == FunctionInit => FunctionInv
<1> SUFFICES ASSUME FunctionInit PROVE FunctionInv
  OBVIOUS
<1>1. Init /\ pc = "Connect" /\ first /\ emitted = <<>>
  BY DEF FunctionInit, Init
<1>2. ServedInv
  BY <1>1 DEF ServedInv, RowsAsBound
<1>3. QED
  BY <1>1, <1>2, InitInv, CleanupInit DEF FunctionInv

\* The whole inductive invariant of a query: its scan, its clean-up, its columns.
THEOREM FunctionInvariant == FunctionSpec => []FunctionInv
<1>1. FunctionInv /\ [FunctionNext]_allVars => FunctionInv'
  <2> SUFFICES ASSUME FunctionInv, [FunctionNext]_allVars PROVE FunctionInv'
    OBVIOUS
  <2>1. ScanInv /\ CleanupInv /\ ServedInv /\ [Next]_vars
    BY SessionStep DEF FunctionInv
  <2>2. QED
    BY <2>1, NextInv, CleanupNext, ServedStep DEF FunctionInv
<1>2. QED
  BY <1>1, FunctionInitInv, PTL DEF FunctionSpec

\* Every row that reaches DuckDB came from a statement whose columns are those
\* that Bind typed DuckDB's vectors by.
THEOREM BoundRows == FunctionSpec => []RowsAsBound
<1>1. FunctionInv => RowsAsBound
  BY DEF FunctionInv, ServedInv
<1>2. QED
  BY <1>1, FunctionInvariant, PTL

=============================================================================
