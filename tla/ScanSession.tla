---------------------------- MODULE ScanSession ----------------------------
(***************************************************************************)
(* One streaming scan, from the login of its private connection to the     *)
(* close of the socket: Client::connect_and_login, Client::start_streaming,*)
(* CursorRunner, and the refill loop that dbisam_scan and                  *)
(* dbisam_attached_scan share.  DuckDB calls Execute until it gets no rows *)
(* or abandons the scan.  The blobs of a block are asked for on the same   *)
(* connection, between the block and its first vector; what they bring is  *)
(* BlobBatch's matter.  The server is external, modelled from what the     *)
(* client code expects of it; ScanFaults adds what it half expects.        *)
(***************************************************************************)
EXTENDS Transport

CONSTANTS
    NRows,          \* rows of the server's result, numbered 1..NRows
    BatchSize,      \* rows asked for per ReadFirst/NextRecordBlock
    VectorSize,     \* STANDARD_VECTOR_SIZE
    MaxPolls,       \* MAX_RECEIVE_POLLS
    MaxFetches,     \* bound: blob requests of one block, FreeAllBlobs aside
    BadRowSets      \* choices of the rows whose bytes do not decode

ASSUME ScanAssumption ==
    /\ NRows \in Nat /\ MaxFetches \in Nat
    /\ BatchSize \in Nat \ {0} /\ VectorSize \in Nat \ {0} /\ MaxPolls \in Nat \ {0}
    /\ BadRowSets \subseteq SUBSET (1..NRows)

VARIABLES
    opts,       \* never changes.  lenient: LENIENT_DECODE; bad: the undecodable rows;
                \* sigpipe: a write to a reset socket kills the process (send has
                \* flags 0; not so on Windows or where the host ignores SIGPIPE)
    pc,         \* the call the client is in or about to make
    waiting,    \* inside send_recv, the request written
    polls, opened, first, exhausted,
    batch,      \* current_batch, as decoded rows
    offset,     \* batch_offset
    emitted,    \* history: every row handed to DuckDB
    outcome,    \* how the scan ended for DuckDB
    fetches,    \* blob requests that the batch still needs
    lost,       \* history: a lenient scan went on after a blob request without its reply
    pos,        \* server: rows its cursor has passed
    srvOpen     \* server: the statement's cursor exists

clientVars == <<opts, pc, waiting, polls, opened, first, exhausted>>
dataVars   == <<batch, offset, emitted, outcome, fetches, lost>>
srvVars    == <<pos, srvOpen>>
vars       == <<netVars, clientVars, dataVars, srvVars>>

LoginPcs   == {"Connect", "Login", "SetupC2", "SetupC3", "CatalogAttach", "SetupPost"}
CleanupPcs == {"CloseCursor", "ResetStatement", "RemoveTables"}
BlobPcs    == {"Fetch", "Flush"}    \* a request inside the task's try block; FreeAllBlobs before it
CallPcs    == LoginPcs \cup {"Prepare", "Execute", "Receive", "SetToBegin", "Read"} \cup BlobPcs
                \cup CleanupPcs
RestPcs    == {"Idle", "Emit", "Hangup", "Closed", "Killed"}

\* Mutant: the statement is reset before its cursor is closed.
AfterResetFirst ==
         [Connect        |-> "Login",
          Login          |-> "SetupC2",
          SetupC2        |-> "SetupC3",
          SetupC3        |-> "CatalogAttach",
          CatalogAttach  |-> "SetupPost",
          SetupPost      |-> "Prepare",
          CloseCursor    |-> "RemoveTables",
          ResetStatement |-> "Hangup",
          RemoveTables   |-> "ResetStatement"]

\* What follows a call whose reply, or failure, is ignored.
After == [Connect        |-> "Login",
          Login          |-> "SetupC2",
          SetupC2        |-> "SetupC3",
          SetupC3        |-> "CatalogAttach",
          CatalogAttach  |-> "SetupPost",
          SetupPost      |-> "Prepare",
          CloseCursor    |-> "ResetStatement",
          ResetStatement |-> "RemoveTables",
          RemoveTables   |-> "Hangup"]

\* Mutant: first_block_ is never cleared.
KindAlwaysFirst == IF pc = "Read" THEN "ReadFirst" ELSE pc

\* The request the current call writes.
Kind == IF pc = "Read" THEN (IF first THEN "ReadFirst" ELSE "ReadNext") ELSE pc

Cell(i) == IF i \in opts.bad THEN 0 ELSE i      \* 0: the all-NULL row

Init ==
    /\ NetInit
    /\ opts \in [lenient : BOOLEAN, sigpipe : BOOLEAN, bad : BadRowSets]
    /\ pc = "Connect" /\ waiting = FALSE
    /\ polls = 0 /\ opened = FALSE /\ first = TRUE /\ exhausted = FALSE
    /\ batch = <<>> /\ offset = 0
    /\ emitted = <<>> /\ outcome = "running"
    /\ fetches = 0 /\ lost = FALSE
    /\ pos = 0 /\ srvOpen = FALSE

-----------------------------------------------------------------------------
(***************************************************************************)
(* The client's calls.                                                     *)
(***************************************************************************)

\* Mutant: a scan that fails or is abandoned skips the clean-up.
TeardownOnlyWhenDone(result) ==
    /\ outcome' = result
    /\ pc' = IF opened /\ result = "done" THEN "CloseCursor" ELSE "Hangup"

\* The scan ends: the state is destroyed, cursor first, then the socket.
Teardown(result) ==
    /\ outcome' = result
    /\ pc' = IF opened THEN "CloseCursor" ELSE "Hangup"

Call ==
    /\ pc \in CallPcs /\ ~waiting
    /\ Send(Kind)
    /\ waiting' = TRUE
    /\ UNCHANGED <<opts, pc, polls, opened, first, exhausted, dataVars, srvVars>>

\* A blob request of the batch is done with: the next one, or a flush before
\* it, or, with none left, the first vector.
NextFetch ==
    /\ fetches' = fetches - 1
    /\ pc' \in IF fetches = 1 THEN {"Emit"} ELSE BlobPcs

\* Mutant: a poll that times out is simply sent again.
ThrowsOrRepolls ==
    /\ IF pc \in CleanupPcs THEN pc' = After[pc] /\ UNCHANGED <<outcome, fetches, lost>>
       ELSE IF pc = "Receive" THEN UNCHANGED <<pc, outcome, fetches, lost>>
       ELSE Teardown("failed") /\ UNCHANGED <<fetches, lost>>
    /\ waiting' = FALSE
    /\ UNCHANGED <<opts, polls, opened, first, exhausted, batch, offset, emitted, srvVars>>

\* send or recv threw.  Clean-up swallows it, and so does a lenient scan whose
\* blob request it was; anything else ends the scan.
Throws ==
    /\ \/ /\ pc \in CleanupPcs
          /\ pc' = After[pc]
          /\ UNCHANGED <<outcome, fetches, lost>>
       \/ /\ pc = "Fetch" /\ opts.lenient
          /\ NextFetch
          /\ lost' = TRUE
          /\ UNCHANGED outcome
       \/ /\ pc \notin CleanupPcs /\ ~(pc = "Fetch" /\ opts.lenient)
          /\ Teardown("failed")
          /\ UNCHANGED <<fetches, lost>>
    /\ waiting' = FALSE
    /\ UNCHANGED <<opts, polls, opened, first, exhausted, batch, offset, emitted, srvVars>>

CallThrows ==
    /\ pc \in CallPcs /\ ~waiting
    /\ SendBroken
    /\ ~opts.sigpipe
    /\ Throws

CallKills ==
    /\ pc \in CallPcs /\ ~waiting
    /\ SendBroken
    /\ opts.sigpipe
    /\ pc' = "Killed"
    /\ outcome' = IF outcome = "running" THEN "failed" ELSE outcome
    /\ UNCHANGED <<opts, waiting, polls, opened, first, exhausted, batch, offset, emitted, fetches, lost,
                   srvVars>>

\* Mutant: a receive that times out is retried for ever.
AnswerRetries ==
    /\ waiting
    /\ link = "up" => replies # <<>>
    /\ ReceiveFails
    /\ Throws

AnswerThrows ==
    /\ waiting
    /\ ReceiveFails
    /\ Throws

Returns ==
    /\ waiting
    /\ Receive
    /\ waiting' = FALSE
    /\ UNCHANGED srvVars

ReturnsForgetting ==
    /\ waiting
    /\ ReceiveForgetting
    /\ waiting' = FALSE
    /\ UNCHANGED srvVars

\* The login replies and the clean-up replies are read and dropped.
IgnoredReply ==
    /\ pc \in LoginPcs \cup CleanupPcs
    /\ Returns
    /\ pc' = After[pc]
    /\ UNCHANGED <<opts, polls, opened, first, exhausted, dataVars>>

\* start_streaming: parse_schema throws SchemaError on a refused statement.
PrepareReply ==
    /\ pc = "Prepare"
    /\ Returns
    /\ IF Answer.status = "schema" THEN pc' = "Execute" /\ UNCHANGED outcome
                                   ELSE Teardown("failed")
    /\ UNCHANGED <<opts, polls, opened, first, exhausted, batch, offset, emitted, fetches, lost>>

\* Mutant: the comparison is strict.
GivesUpLate(n) == n > MaxPolls

GivesUp(n) == n >= MaxPolls

\* The constructor's loop looks at the Execute reply, then at each Receive
\* reply; it gives up on the MaxPolls-th that is not ready, and then
\* releases the cursor itself, its destructor never running.
PollReply ==
    /\ pc \in {"Execute", "Receive"}
    /\ opened' = TRUE
    /\ Returns
    /\ IF Answer.status # "notReady"
       THEN pc' = "SetToBegin" /\ UNCHANGED <<polls, outcome>>
       ELSE /\ polls' = polls + 1
            /\ IF GivesUp(polls + 1) THEN pc' = "CloseCursor" /\ outcome' = "failed"
                                     ELSE pc' = "Receive" /\ UNCHANGED outcome
    /\ UNCHANGED <<opts, first, exhausted, batch, offset, emitted, fetches, lost>>

SetToBeginReply ==
    /\ pc = "SetToBegin"
    /\ Returns
    /\ pc' = "Idle"
    /\ UNCHANGED <<opts, polls, opened, first, exhausted, dataVars>>

-----------------------------------------------------------------------------
(***************************************************************************)
(* next_block and the refill loop.                                         *)
(***************************************************************************)

\* Mutant: an empty block is taken for the end.
EndsOnEmpty(r) == r.status \in {"end", "notReady", "blank"} \/ r.rows = <<>>

\* A reply that ends the cursor for the client: a result code other than
\* RESULT_OK, the polling sentinel, a body too short for a result code.
EndsCursor(r) == r.status \in {"end", "notReady", "blank"}

\* The reply to a blob request.  None of them is laid out like a block: to a
\* block read it is malformed, or too short for a result code.
Stray(r) == r.status \in {"blob", "blobError", "flushed"}

\* decode_record throws on one of the rows: truncated, or a bad null flag.
Undecodable(rows) == \E i \in DOMAIN rows : rows[i] \in opts.bad

\* The refill loop once next_block has its reply: it throws on a reply that
\* does not parse and on rows that do not decode ...
ReadFails ==
    /\ Returns
    /\ \/ Answer.status = "malformed"
       \/ Stray(Answer)
       \/ Undecodable(Answer.rows) /\ ~opts.lenient
    /\ Teardown("failed")
    /\ first' = FALSE
    /\ UNCHANGED <<opts, polls, opened, exhausted, batch, offset, emitted, fetches, lost>>

\* ... stops on an empty end of cursor ...
ReadEnds ==
    /\ Returns
    /\ \/ EndsCursor(Answer) /\ Answer.rows = <<>>
       \/ Stray(Answer)
    /\ exhausted' = TRUE
    /\ Teardown("done")
    /\ first' = FALSE
    /\ UNCHANGED <<opts, polls, opened, batch, offset, emitted, fetches, lost>>

\* ... goes round again on an empty block, as often as the server sends one ...
EmptyBlock ==
    /\ pc = "Read"
    /\ ReturnsForgetting
    /\ Answer.status # "malformed" /\ ~Stray(Answer) /\ ~EndsCursor(Answer)
    /\ Answer.rows = <<>>
    /\ batch' = <<>> /\ offset' = 0
    /\ first' = FALSE
    /\ UNCHANGED <<opts, pc, polls, opened, exhausted, emitted, outcome, fetches, lost>>

\* ... and otherwise has a batch, asks for its blobs, and emits from it.
BatchRead ==
    /\ ReturnsForgetting
    /\ Answer.status # "malformed" /\ ~Stray(Answer)
    /\ Answer.rows # <<>>
    /\ opts.lenient \/ ~Undecodable(Answer.rows)
    /\ batch' = [i \in DOMAIN Answer.rows |-> Cell(Answer.rows[i])]
    /\ offset' = 0
    /\ exhausted' = EndsCursor(Answer)
    /\ fetches' \in 0..MaxFetches
    /\ pc' = IF fetches' = 0 THEN "Emit" ELSE "Fetch"
    /\ first' = FALSE
    /\ UNCHANGED <<opts, polls, opened, emitted, outcome, lost>>

ReadReply == pc = "Read" /\ (ReadFails \/ ReadEnds \/ EmptyBlock \/ BatchRead)

\* A blob request inside the try block of decode_batch_with_blobs: a reply
\* without a blob is an exception, which a lenient scan goes past.
FetchReply ==
    /\ pc = "Fetch"
    /\ ReturnsForgetting
    /\ IF Answer.status = "blob" \/ opts.lenient THEN NextFetch /\ UNCHANGED outcome
       ELSE Teardown("failed") /\ UNCHANGED fetches
    /\ UNCHANGED <<opts, polls, opened, first, exhausted, batch, offset, emitted, lost>>

\* FreeAllBlobs, outside of it: its reply is dropped, its failure is not.
FlushReply ==
    /\ pc = "Flush"
    /\ ReturnsForgetting
    /\ pc' = "Fetch"
    /\ UNCHANGED <<opts, polls, opened, first, exhausted, dataVars>>

\* Execute called with the batch drained.
Pull ==
    /\ pc = "Idle"
    /\ offset >= Len(batch)
    /\ IF exhausted THEN Teardown("done")
                    ELSE pc' = "Read" /\ UNCHANGED outcome
    /\ UNCHANGED <<netVars, opts, waiting, polls, opened, first, exhausted, batch, offset, emitted, fetches, lost,
                   srvVars>>

\* Mutant: the offset is set to the rows emitted instead of advanced by them.
EmitForgetsOffset ==
    /\ pc \in {"Idle", "Emit"}
    /\ offset < Len(batch)
    /\ LET available == Len(batch) - offset
           n == IF available < VectorSize THEN available ELSE VectorSize
       IN /\ emitted' = emitted \o SubSeq(batch, offset + 1, offset + n)
          /\ offset' = n
    /\ pc' = "Idle"
    /\ UNCHANGED <<netVars, opts, waiting, polls, opened, first, exhausted, batch, outcome, fetches, lost,
                   srvVars>>

\* Execute hands DuckDB at most one vector of the current batch.
EmitVector ==
    /\ pc \in {"Idle", "Emit"}
    /\ offset < Len(batch)
    /\ LET available == Len(batch) - offset
           n == IF available < VectorSize THEN available ELSE VectorSize
       IN /\ emitted' = emitted \o SubSeq(batch, offset + 1, offset + n)
          /\ offset' = offset + n
    /\ pc' = "Idle"
    /\ UNCHANGED <<netVars, opts, waiting, polls, opened, first, exhausted, batch, outcome, fetches, lost,
                   srvVars>>

\* DuckDB has its LIMIT, or the query was interrupted.
Abandon ==
    /\ pc = "Idle"
    /\ Teardown("stopped")
    /\ UNCHANGED <<netVars, opts, waiting, polls, opened, first, exhausted, batch, offset, emitted, fetches, lost,
                   srvVars>>

\* dbisam_scan only: InitGlobal, the cursor open, finds other columns than Bind.
SchemaChanged ==
    /\ pc = "Idle" /\ first
    /\ Teardown("failed")
    /\ UNCHANGED <<netVars, opts, waiting, polls, opened, first, exhausted, batch, offset, emitted, fetches, lost,
                   srvVars>>

Hangup ==
    /\ pc = "Hangup"
    /\ CloseSocket
    /\ pc' = "Closed"
    /\ UNCHANGED <<opts, waiting, polls, opened, first, exhausted, dataVars, srvVars>>

-----------------------------------------------------------------------------
(***************************************************************************)
(* The server (external).                                                  *)
(***************************************************************************)

Asked == log[handled + 1]

SrvAck ==
    /\ Pending /\ Asked \in LoginPcs \cup CleanupPcs \cup {"SetToBegin"}
    /\ Reply("ok", <<>>)
    /\ srvOpen' = (srvOpen /\ Asked # "CloseCursor")
    /\ pos' = IF Asked = "SetToBegin" THEN 0 ELSE pos
    /\ UNCHANGED <<clientVars, dataVars>>

SrvPrepare ==
    /\ Pending /\ Asked = "Prepare"
    /\ \E status \in {"schema", "noSchema"} : Reply(status, <<>>)
    /\ UNCHANGED <<clientVars, dataVars, srvVars>>

SrvExecute ==
    /\ Pending /\ Asked \in {"Execute", "Receive"}
    /\ \E status \in {"ready", "notReady"} : Reply(status, <<>>)
    /\ srvOpen' = (srvOpen \/ Asked = "Execute")
    /\ UNCHANGED <<clientVars, dataVars, pos>>

Min2(a, b) == IF a < b THEN a ELSE b

\* ReadFirstRecordBlock starts from the first row, ReadNext where the cursor is.
ReadBase == IF Asked = "ReadFirst" THEN 0 ELSE pos
Block(n) == [i \in 1..n |-> ReadBase + i]

\* A block read: some rows, none yet, the last rows with the end-of-cursor
\* code, an empty body once all are read, or bytes that do not parse.
SrvRead ==
    /\ Pending /\ Asked \in {"ReadFirst", "ReadNext"}
    /\ LET base == ReadBase
           left == NRows - base
       IN \/ \E n \in 0..Min2(BatchSize, left) : Reply("ok", Block(n)) /\ pos' = base + n
          \/ left <= BatchSize /\ Reply("end", Block(left)) /\ pos' = NRows
          \/ left = 0 /\ Reply("blank", <<>>) /\ pos' = base
          \/ Reply("malformed", <<>>) /\ UNCHANGED pos
    /\ UNCHANGED <<clientVars, dataVars, srvOpen>>

SrvBlob ==
    /\ Pending
    /\ \/ Asked = "Fetch" /\ \E status \in {"blob", "blobError"} : Reply(status, <<>>)
       \/ Asked = "Flush" /\ Reply("flushed", <<>>)
    /\ UNCHANGED <<clientVars, dataVars, srvVars>>

Drop ==
    /\ Disconnect
    /\ UNCHANGED <<clientVars, dataVars, srvVars>>

-----------------------------------------------------------------------------

Returning == IgnoredReply \/ PrepareReply \/ PollReply \/ SetToBeginReply \/ ReadReply
               \/ FetchReply \/ FlushReply
Client == Call \/ CallThrows \/ CallKills \/ AnswerThrows \/ Returning
            \/ Pull \/ EmitVector \/ Abandon \/ SchemaChanged \/ Hangup
Server == SrvAck \/ SrvPrepare \/ SrvExecute \/ SrvRead \/ SrvBlob

\* The scan is over; a dead process and a closed socket stay so.
Over == pc \in {"Closed", "Killed"} /\ UNCHANGED vars

Next == Client \/ Server \/ Drop \/ Over

Spec == Init /\ [][Next]_vars

\* DuckDB drives the scan to its end or destroys it, and a socket call that
\* gets no answer returns after SO_RCVTIMEO; the server owes nothing.
FairSpec == Spec /\ WF_vars(Client)

-----------------------------------------------------------------------------
(***************************************************************************)
(* Properties.                                                             *)
(***************************************************************************)

Outcomes == {"running", "done", "failed", "stopped"}
\* The kinds of reply that the client tells apart; for a block read, those of
\* read_record_block_batch and of the early returns of next_block.
Statuses == {"ok", "schema", "noSchema", "ready", "notReady", "end", "blank", "malformed",
             "blob", "blobError", "flushed"}
Replies  == [id : Nat \ {0}, status : Statuses, rows : Seq(1..NRows)]

\* Types of the variables; polls never passes the poll limit of cursor.cpp.
TypeOK ==
    /\ log \in Seq(LoginPcs \cup CleanupPcs \cup BlobPcs \cup
                   {"Prepare", "Execute", "Receive", "SetToBegin", "ReadFirst", "ReadNext"})
    /\ handled \in 0..Len(log)
    /\ replies \in Seq(Replies)
    /\ link \in {"up", "fin", "reset", "torn", "down"}
    /\ opts \in [lenient : BOOLEAN, sigpipe : BOOLEAN, bad : SUBSET (1..NRows)]
    /\ pc \in CallPcs \cup RestPcs
    /\ waiting \in BOOLEAN /\ opened \in BOOLEAN /\ first \in BOOLEAN /\ exhausted \in BOOLEAN
    /\ polls \in 0..MaxPolls
    /\ batch \in Seq(0..NRows) /\ offset \in 0..Len(batch)
    /\ emitted \in Seq(0..NRows) /\ outcome \in Outcomes
    /\ fetches \in 0..MaxFetches /\ lost \in BOOLEAN
    /\ pos \in 0..NRows /\ srvOpen \in BOOLEAN

\* Replies the client has not read yet, the ones still to come included.
Unread == Len(log) - handled + Len(replies)

\* decode_batch_with_blobs under LENIENT_DECODE has gone on to the next blob
\* although the connection failed on one.
WentPast == opts.lenient /\ lost

\* While the scan is alive the reply that send_recv returns is the one to the
\* request it has just sent: nothing older is left in the socket.  Replies are
\* matched by order only, and a timed-out request leaves its reply behind: so
\* this rests on every failure ending the scan, through its login, its polls,
\* its blocks and, when strict, its blobs.  The one failure that does not is
\* that of a blob request under LENIENT_DECODE; past it nothing is claimed
\* (finding 4: BlobBatch shows what the late reply does).
InSync == outcome = "running" /\ ~WentPast => Unread = (IF waiting THEN 1 ELSE 0)

\* DuckDB receives the rows of the result in cursor order, none lost, repeated
\* or shifted across block and vector boundaries; a row that does not decode
\* is the all-NULL row in its own place under LENIENT_DECODE, and is never
\* passed without it.  This holds for every scan, those that went past a lost
\* blob request included: no reply to a blob request passes for rows.
RowsInOrder ==
    /\ Len(emitted) <= NRows
    /\ \A i \in 1..Len(emitted) : emitted[i] = Cell(i)
    /\ ~opts.lenient => \A i \in 1..Len(emitted) : i \notin opts.bad

\* The end of the scan is reported only after the last row: an empty block, a
\* block with the end-of-cursor code or an exhausted batch never hides rows.
\* Not so for a lenient scan that went past a lost blob request: a left-over
\* reply that its next block read takes for the end hides the rest.
CompleteWhenDone == outcome = "done" /\ ~WentPast => Len(emitted) = NRows

CleanupOrder == <<"CloseCursor", "ResetStatement", "RemoveTables">>

\* The last n requests are the first n of the clean-up; there are no others.
Cleaned(n) ==
    /\ n <= Len(log)
    /\ \A k \in 1..n : log[Len(log) - n + k] = CleanupOrder[k]
    /\ \A k \in 1..(Len(log) - n) : log[k] \notin CleanupPcs

\* CloseCursor, ResetStatement and RemoveAllRemoteMemoryTables go out in this
\* order, each at most once, and are the last requests of the connection,
\* whether the scan ended, failed in the constructor or was abandoned.
CleanupProtocol == \E n \in 0..Len(CleanupOrder) : Cleaned(n)

\* A scan whose Execute was answered leaves no open cursor on a server that
\* reads all it was sent, however late the replies come.
CursorReleased == pc = "Closed" /\ opened /\ handled = Len(log) => ~srvOpen

\* No failure of the connection ends the process: "Best-effort cleanup -- this
\* runs on error paths too, so no send/recv exception may escape" (cursor.cpp,
\* cleanup_server_cursor); "swallows errors since destruction runs in error
\* paths too" (cursor.hpp).
ProcessSurvives == pc # "Killed"

\* The session implements the contract of a scan.
Contract == INSTANCE ScanContract
ImplementsContract == Contract!Spec

-----------------------------------------------------------------------------
(***************************************************************************)
(* The inductive invariant behind TypeOK, InSync, RowsInOrder and          *)
(* CompleteWhenDone.                                                       *)
(***************************************************************************)

OpeningPcs == LoginPcs \cup {"Prepare", "Execute", "Receive", "SetToBegin"}
RunningPcs == OpeningPcs \cup {"Idle", "Emit", "Read"} \cup BlobPcs

\* Control: which program points a live scan can be at, and what it knows there.
ControlInv ==
    /\ outcome = "running" <=> pc \in RunningPcs
    /\ waiting => pc \in CallPcs
    /\ outcome = "running" /\ waiting => log # <<>> /\ log[Len(log)] = Kind
    /\ outcome = "running" /\ ~lost => link # "torn" /\ (link = "reset" => waiting)
    /\ pc \in OpeningPcs => first
    /\ pc \in LoginPcs \cup {"Prepare", "Execute"} => polls = 0
    /\ pc = "Receive" => polls < MaxPolls
    /\ pc \in BlobPcs => fetches > 0 /\ ~first

\* Data: the rows from the first one not emitted to the end of the batch are
\* the next rows of the result, and the server's cursor stands behind them.
BatchBase == Len(emitted) - offset

BatchInv ==
    outcome = "running" =>
        /\ first => emitted = <<>> /\ batch = <<>> /\ offset = 0 /\ ~exhausted
        /\ offset <= Len(emitted)
        /\ BatchBase + Len(batch) <= NRows
        /\ \A j \in 1..Len(batch) :
              /\ batch[j] = Cell(BatchBase + j)
              /\ ~opts.lenient => BatchBase + j \notin opts.bad
        /\ exhausted => BatchBase + Len(batch) = NRows
        /\ pc = "Read" => offset = Len(batch) /\ ~exhausted
        /\ ~lost =>
              /\ pc \in {"Idle", "Emit"} \cup BlobPcs /\ ~first => pos = BatchBase + Len(batch)
              /\ pc = "Read" /\ ~first /\ replies = <<>> => pos = Len(emitted)

\* The block on its way to the client continues what has been emitted.
ReplyInv ==
    outcome = "running" /\ ~lost /\ pc = "Read" /\ replies # <<>> =>
        LET r == Head(replies) IN
        /\ ~Stray(r)
        /\ r.status # "malformed" =>
              /\ pos = Len(emitted) + Len(r.rows)
              /\ \A i \in 1..Len(r.rows) : r.rows[i] = Len(emitted) + i
              /\ EndsCursor(r) => pos = NRows

\* After a lost blob request a live scan is lenient and past its first block,
\* and a connection not reset still owes it the reply to an earlier request: a
\* blob request, for a block read can only be the last one written.
Reading == pc = "Read" /\ waiting

LostInv ==
    /\ lost => opts.lenient
    /\ outcome = "running" /\ lost =>
          /\ ~first
          /\ \A k \in (handled + 1)..Len(log) : (Reading => k < Len(log)) => log[k] \in BlobPcs
          /\ link # "reset" =>
                /\ Unread > (IF waiting THEN 1 ELSE 0)
                /\ \A j \in 1..Len(replies) : (Reading => j < Unread) => Stray(replies[j])

ScanInv ==
    /\ TypeOK
    /\ InSync
    /\ ControlInv
    /\ BatchInv
    /\ ReplyInv
    /\ LostInv
    /\ RowsInOrder
    /\ CompleteWhenDone

-----------------------------------------------------------------------------
(***************************************************************************)
(* The inductive invariant behind CleanupProtocol and CursorReleased.      *)
(***************************************************************************)

\* How many requests of the clean-up go out before a call.
CleanedBefore == [CloseCursor |-> 0, ResetStatement |-> 1, RemoveTables |-> 2]

\* The clean-up has gone out as far as the program counter says, unless the
\* connection is reset, when nothing follows.
SentInv ==
    /\ pc \in RunningPcs => Cleaned(0)
    /\ pc \in CleanupPcs /\ link # "reset" => Cleaned(CleanedBefore[pc] + IF waiting THEN 1 ELSE 0)
    /\ CleanupProtocol

\* A client past its CloseCursor has written it, or else a request that the
\* peer never read; and a server that has read it has no cursor open.
CloseInv ==
    /\ link = "reset" => handled < Len(log)
    /\ \/ pc \in {"ResetStatement", "RemoveTables"}
       \/ pc \in {"Hangup", "Closed"} /\ opened
       => \/ \E k \in 1..Len(log) : log[k] = "CloseCursor"
          \/ link \in {"reset", "down"} /\ handled < Len(log)
    /\ srvOpen => \A k \in 1..handled : log[k] # "CloseCursor"

CleanupInv == SentInv /\ CloseInv

=============================================================================
