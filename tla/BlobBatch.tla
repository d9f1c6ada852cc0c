----------------------------- MODULE BlobBatch -----------------------------
(***************************************************************************)
(* The blob fetches of a scan: Client::decode_batch_with_blobs run over    *)
(* the blocks of one cursor, on the connection the blocks come from.  Each *)
(* non-empty memo, blob or graphic cell of a block is a task; a task asks  *)
(* for its blob under a slot of the length that worked last, asks again    *)
(* when the server's slots are of another length, stores the payload and   *)
(* frees the blob.  Rows are decoded before (ScanSession); the server is   *)
(* external, modelled from what the client code expects of it.             *)
(***************************************************************************)
EXTENDS Transport

CONSTANTS
    FlushEvery,     \* FLUSH_EVERY: tasks between two FreeAllBlobs
    MaxTasks,       \* bound: blob cells of one block
    MaxBlocks       \* bound: blocks of the cursor

ASSUME BlobAssumption ==
    FlushEvery \in Nat \ {0} /\ MaxTasks \in Nat /\ MaxBlocks \in Nat

VARIABLES
    lenient,        \* lenient_decode_; never changes
    slot,           \* blob_slot_length_ against the table's slots; never changes
    pc, waiting,
    tasks,          \* blob_tasks of the block at hand: the cells' numbers
    i,              \* the current task
    adapted,        \* effective_slot_length is the server's, not the configured one
    cells,          \* what the block's blob cells hold: 0 for NULL, or a payload's cell number
    echo,           \* the blob the last fetch opened
    timedOut,       \* history: a request was given up that the server may still answer
    blocks,         \* server: blocks sent
    served,         \* server: blob cells sent so far
    handles         \* server: blobs open in its cache

conf    == <<lenient, slot>>
loop    == <<tasks, i, adapted, cells, echo>>
srvVars == <<blocks, served, handles>>
vars    == <<netVars, conf, pc, waiting, loop, timedOut, srvVars>>

CallPcs == {"next", "flush", "open", "reopen", "free"}
CaughtPcs == {"open", "reopen", "free"}     \* inside the task's try block

\* "fits":    the configured length is the table's;
\* "other":   it is another one, and the table's is long enough for the layout;
\* "small":   it is too short for the layout of a slot;
\* "cramped": it is another one, and the table's is too short for the layout.
Slots == {"fits", "other", "small", "cramped"}

\* Mutant: the repeated fetch sends the old slot again.
SlotNotRebuilt == slot = "fits"

\* build_slot makes the slot effective_slot_length long.
SlotFits == slot = "fits" \/ adapted

\* build_slot has no room for the record number, the row's MD5 and its key.
SlotTooSmall == slot = IF adapted THEN "cramped" ELSE "small"

Init ==
    /\ NetInit
    /\ lenient \in BOOLEAN /\ slot \in Slots
    /\ pc = "next" /\ waiting = FALSE
    /\ tasks = <<>> /\ i = 0 /\ adapted = FALSE /\ cells = <<>> /\ echo = 0
    /\ timedOut = FALSE
    /\ blocks = 0 /\ served = 0 /\ handles = 0

-----------------------------------------------------------------------------

\* Mutant: every task of a block sends the slot of the first.
RequestOfFirstTask ==
    CASE pc \in {"open", "reopen"} -> [op |-> "open", cell |-> tasks[1], fits |-> SlotFits]
      [] pc = "free"               -> [op |-> "free", cell |-> echo, fits |-> TRUE]
      [] OTHER                     -> [op |-> pc, cell |-> 0, fits |-> TRUE]

\* The request of the current call.
Request ==
    CASE pc \in {"open", "reopen"} -> [op |-> "open", cell |-> tasks[i], fits |-> SlotFits]
      [] pc = "free"               -> [op |-> "free", cell |-> echo, fits |-> TRUE]
      [] OTHER                     -> [op |-> pc, cell |-> 0, fits |-> TRUE]

\* Mutant: the loop runs one task too far.
AtPastEnd(k) == IF k > Len(tasks) + 1 THEN "emit"
                ELSE IF k > 1 /\ (k - 1) % FlushEvery = 0 THEN "flush" ELSE "open"

\* The head of the loop: FreeAllBlobs before every FlushEvery-th task, the
\* first one excepted; after the last task the block goes to DuckDB.
At(k) == IF k > Len(tasks) THEN "emit"
         ELSE IF k > 1 /\ (k - 1) % FlushEvery = 0 THEN "flush" ELSE "open"

NextTask ==
    /\ i' = i + 1
    /\ pc' = At(i + 1)

Call ==
    /\ pc \in CallPcs /\ ~waiting
    /\ pc \in {"open", "reopen"} => ~SlotTooSmall
    /\ Send(Request)
    /\ waiting' = TRUE
    /\ UNCHANGED <<conf, pc, loop, timedOut, srvVars>>

\* Mutant: a strict decode swallows the failure, too.
AlwaysSwallows == IF pc \in CaughtPcs THEN NextTask ELSE pc' = "failed" /\ UNCHANGED i

\* An exception: under lenient decode the task's cell stays as it is and the
\* loop goes on; in strict mode, and outside the try block, the scan fails.
Fails == IF lenient /\ pc \in CaughtPcs THEN NextTask ELSE pc' = "failed" /\ UNCHANGED i

CallThrows ==
    /\ pc \in CallPcs /\ ~waiting
    /\ pc \in {"open", "reopen"} => ~SlotTooSmall
    /\ SendBroken
    /\ Fails
    /\ UNCHANGED <<conf, waiting, tasks, adapted, cells, echo, timedOut, srvVars>>

\* build_slot throws before there is a request.
SlotThrows ==
    /\ pc \in {"open", "reopen"} /\ ~waiting
    /\ SlotTooSmall
    /\ Fails
    /\ UNCHANGED <<netVars, conf, waiting, tasks, adapted, cells, echo, timedOut, srvVars>>

\* Mutant: a receive that times out is retried for ever.
AnswerRetries ==
    /\ waiting
    /\ link = "up" => replies # <<>>
    /\ ReceiveFails
    /\ waiting' = FALSE
    /\ timedOut' = TRUE
    /\ Fails
    /\ UNCHANGED <<conf, tasks, adapted, cells, echo, srvVars>>

AnswerThrows ==
    /\ waiting
    /\ ReceiveFails
    /\ waiting' = FALSE
    /\ timedOut' = TRUE
    /\ Fails
    /\ UNCHANGED <<conf, tasks, adapted, cells, echo, srvVars>>

Returns ==
    /\ waiting
    /\ Receive
    /\ waiting' = FALSE
    /\ UNCHANGED <<conf, timedOut, srvVars>>

\* next_block.  A reply that is no block, left over from a fetch, makes the
\* parser throw or end the cursor.
BlockReply ==
    /\ pc = "next"
    /\ Returns
    /\ \/ /\ Answer.status = "block"
          /\ tasks' = Answer.rows
          /\ cells' = [k \in DOMAIN Answer.rows |-> 0]
          /\ i' = 1
          /\ adapted' = FALSE
          /\ pc' = IF Answer.rows = <<>> THEN "emit" ELSE "open"
       \/ /\ Answer.status # "block"
          /\ pc' \in IF Answer.status = "end" THEN {"done"} ELSE {"done", "failed"}
          /\ UNCHANGED <<tasks, cells, i, adapted>>
    /\ UNCHANGED echo

FlushReply ==
    /\ pc = "flush"
    /\ Returns
    /\ pc' = "open"
    /\ UNCHANGED loop

\* parse_open_blob_response accepts a reply with a slot, a size and a payload.
IsBlob(r) == r.status \in {"blob", "relen"}

Store ==
    /\ cells' = [cells EXCEPT ![i] = Answer.rows[1]]
    /\ echo' = Answer.rows[1]
    /\ pc' = "free"

\* The first fetch of a task: an answer with slots of another length than the
\* one sent sets the effective length, and the fetch is repeated.
OpenReply ==
    /\ pc = "open"
    /\ Returns
    /\ \/ /\ Answer.status = "blob"
          /\ Store
          /\ UNCHANGED <<tasks, i, adapted>>
       \/ /\ Answer.status = "relen"
          /\ adapted' = TRUE
          /\ pc' = "reopen"
          /\ UNCHANGED <<tasks, i, cells, echo>>
       \/ /\ ~IsBlob(Answer)
          /\ Fails
          /\ UNCHANGED <<tasks, adapted, cells, echo>>

\* The repeated fetch: its slot length is not looked at again.
ReopenReply ==
    /\ pc = "reopen"
    /\ Returns
    /\ \/ IsBlob(Answer) /\ Store /\ UNCHANGED <<tasks, i, adapted>>
       \/ ~IsBlob(Answer) /\ Fails /\ UNCHANGED <<tasks, adapted, cells, echo>>

FreeReply ==
    /\ pc = "free"
    /\ Returns
    /\ NextTask
    /\ UNCHANGED <<tasks, adapted, cells, echo>>

\* The decoded block goes to DuckDB, which asks for the next one.
Emit ==
    /\ pc = "emit"
    /\ pc' = "next"
    /\ UNCHANGED <<netVars, conf, waiting, loop, timedOut, srvVars>>

-----------------------------------------------------------------------------
(***************************************************************************)
(* The server (external).                                                  *)
(***************************************************************************)

Asked == log[handled + 1]

SrvBlock ==
    /\ Pending /\ Asked.op = "next"
    /\ IF blocks = MaxBlocks
       THEN Reply("end", <<>>) /\ UNCHANGED <<blocks, served>>
       ELSE \E n \in 0..MaxTasks :
                /\ Reply("block", [k \in 1..n |-> served + k])
                /\ served' = served + n
                /\ blocks' = blocks + 1
    /\ UNCHANGED <<conf, pc, waiting, loop, timedOut, handles>>

\* A slot of another length is answered with the server's length and no
\* usable payload (0); an error leaves nothing open.
SrvOpen ==
    /\ Pending /\ Asked.op = "open"
    /\ \/ /\ IF Asked.fits THEN Reply("blob", <<Asked.cell>>) ELSE Reply("relen", <<0>>)
          /\ handles' = handles + 1
       \/ /\ Reply("error", <<>>)
          /\ UNCHANGED handles
    /\ UNCHANGED <<conf, pc, waiting, loop, timedOut, blocks, served>>

SrvFree ==
    /\ Pending /\ Asked.op \in {"free", "flush"}
    /\ Reply("ok", <<>>)
    /\ handles' = IF Asked.op = "flush" \/ handles = 0 THEN 0 ELSE handles - 1
    /\ UNCHANGED <<conf, pc, waiting, loop, timedOut, blocks, served>>

Drop ==
    /\ Disconnect
    /\ UNCHANGED <<conf, pc, waiting, loop, timedOut, srvVars>>

-----------------------------------------------------------------------------

Client == Call \/ CallThrows \/ SlotThrows \/ AnswerThrows \/ BlockReply \/ FlushReply
            \/ OpenReply \/ ReopenReply \/ FreeReply \/ Emit
Server == SrvBlock \/ SrvOpen \/ SrvFree

Over == pc \in {"done", "failed"} /\ UNCHANGED vars

Next == Client \/ Server \/ Drop \/ Over

Spec == Init /\ [][Next]_vars

\* Socket calls return, by their timeout at the latest.
FairSpec == Spec /\ WF_vars(Client)

-----------------------------------------------------------------------------
(***************************************************************************)
(* Properties.                                                             *)
(***************************************************************************)

\* Types of the variables; the task index stays within the block's tasks
\* whenever one is worked on.
TypeOK ==
    /\ lenient \in BOOLEAN /\ slot \in Slots /\ waiting \in BOOLEAN
    /\ adapted \in BOOLEAN /\ timedOut \in BOOLEAN
    /\ pc \in CallPcs \cup {"emit", "done", "failed"}
    /\ tasks \in Seq(Nat) /\ Len(tasks) <= MaxTasks
    /\ cells \in Seq(Nat) /\ Len(cells) = Len(tasks)
    /\ pc \in {"flush", "open", "reopen", "free"} => i \in 1..Len(tasks)
    /\ echo \in Nat /\ handles \in Nat
    /\ blocks \in 0..MaxBlocks /\ served \in Nat

\* A blob cell holds its own payload or NULL as long as no fetch of a lenient
\* scan has been given up half-way: the repeated fetch, the frees and the
\* flushes between tasks never shift an answer to another task.
PayloadInPlace ==
    ~(lenient /\ timedOut) => \A k \in DOMAIN cells : cells[k] \in {0, tasks[k]}

\* In strict mode a block that reaches DuckDB has every one of its payloads:
\* no failed, refused or wrongly sized fetch passes as a NULL.
StrictMeansWhole ==
    pc = "emit" /\ ~lenient => cells = tasks

\* As long as no request has been given up, the server's cache holds at most
\* the blob being worked on and one more for each block so far: frees match
\* opens, except that the first fetch of an adaptation is never freed, and
\* FreeAllBlobs counts the tasks of one block only.
HandlesBounded == ~timedOut => handles <= blocks + 1

\* The scan comes to its end whatever the server and the network do: neither
\* the repeated fetches nor the failures a lenient scan goes past keep it going.
Ends == <>(pc \in {"done", "failed"})

\* Under lenient decode "blob fetch failures become NULL cells" (client.hpp,
\* ConnOpts::lenient_decode): a cell is never given another cell's payload.
FailuresBecomeNull == \A k \in DOMAIN cells : cells[k] \in {0, tasks[k]}

-----------------------------------------------------------------------------
(***************************************************************************)
(* The inductive invariant behind TypeOK, PayloadInPlace, StrictMeansWhole *)
(* and HandlesBounded.                                                     *)
(***************************************************************************)

Requests == [op : {"next", "flush", "open", "free"}, cell : Nat, fits : BOOLEAN]
Answers  == [id : Nat \ {0}, status : {"block", "end", "blob", "relen", "error", "ok"}, rows : Seq(Nat)]

\* What is on the wire; a fetch answers with one payload, a block with no
\* more tasks than the bound.
WireInv ==
    /\ log \in Seq(Requests) /\ handled \in 0..Len(log)
    /\ replies \in Seq(Answers)
    /\ \A k \in 1..Len(replies) :
          /\ IsBlob(replies[k]) => Len(replies[k].rows) = 1
          /\ replies[k].status = "block" => Len(replies[k].rows) <= MaxTasks
    /\ link \in {"up", "fin", "reset", "torn", "down"}
    /\ i \in Nat

\* As long as no request has been given up, the one unread reply is the one to
\* the current call; a strict scan gives up with the first.
CallInv ==
    /\ waiting => pc \in CallPcs
    /\ pc = "reopen" => adapted
    /\ timedOut => lenient \/ pc = "failed"
    /\ ~timedOut =>
          /\ Len(log) - handled + Len(replies) = IF waiting THEN 1 ELSE 0
          /\ waiting => log[Len(log)] = Request
          /\ link # "torn" /\ (link = "reset" => waiting)

\* Whether a reply is an answer to the current call.
Answering(r) ==
    CASE pc = "next"               -> r.status \in {"block", "end"}
      [] pc \in {"open", "reopen"} -> /\ r.status \in {"blob", "relen", "error"}
                                      /\ r.status = "blob" => r.rows[1] = tasks[i]
                                      /\ r.status = "relen" => ~SlotFits
      [] pc \in {"flush", "free"}  -> r.status = "ok"
      [] OTHER                     -> FALSE

AnswerInv == ~timedOut /\ replies # <<>> => Answering(Head(replies))

\* In strict mode the cells before the current task have their payloads, and
\* once its blob is stored, the task's cell too.
CellsInv ==
    /\ PayloadInPlace
    /\ ~lenient /\ pc \in {"flush", "open", "reopen"} => \A k \in 1..(i - 1) : cells[k] = tasks[k]
    /\ ~lenient /\ pc = "free" => \A k \in 1..i : cells[k] = tasks[k]
    /\ StrictMeansWhole

\* Blobs that no free or flush will close before the block is done: one for
\* each earlier block, and one if the block at hand had to adapt.
Leaked == IF pc = "next"
          THEN IF replies # <<>> /\ Head(replies).status = "block" THEN blocks - 1 ELSE blocks
          ELSE IF adapted THEN blocks ELSE blocks - 1

\* The blob of the task at hand, from the answer to its fetch to that to its free.
Working == IF \/ pc = "free" /\ replies = <<>>
              \/ pc \in {"open", "reopen"} /\ replies # <<>> /\ IsBlob(Head(replies))
           THEN 1 ELSE 0

HandlesInv ==
    ~timedOut =>
        /\ HandlesBounded
        /\ pc \in {"flush", "open", "reopen", "free", "emit"} => blocks > 0
        /\ pc \notin {"done", "failed"} => handles <= Leaked + Working

BlobInv == TypeOK /\ WireInv /\ CallInv /\ AnswerInv /\ CellsInv /\ HandlesInv

=============================================================================
