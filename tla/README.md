# Delilah: TLA+ models, checks and proofs

Delilah is a DuckDB extension that reads tables of an Elevate DBISAM server
(an ERP database) over its undocumented TCP protocol: `SELECT * FROM
dbisam_scan('SELECT ...')`, or `ATTACH` and query the server's tables by name.
This directory models the parts of it with behaviour worth checking: the
protocol session, the replies and what is read out of them, the catalog that
several query threads share, blob fetching, and the rewriting of queries
(limits, columns, filters). Paths are relative to the repository root.

How to run, in this directory: `tlc -config MCScan.cfg MCScan` for a model,
`tlapm ScanProofs.tla` for a proof. `PROJECT.json` maps each definition to the
lines it models and lists runs, mutants, hazards and theorems.

## 1. Inventory of the system

A query thread of DuckDB calls into a table function; that opens a connection
to the server, sends requests one at a time and waits for each reply, decodes
blocks of rows, and hands vectors of rows back. No thread, timer or queue of
Delilah's own exists: concurrency comes from DuckDB's threads, failure from the
network and the server.

| Component | State | Operations | What makes it hard | Correct when |
|---|---|---|---|---|
| Transport (`src/protocol/framing.cpp`, `sys_socket.cpp`) | socket, receive timeout | `connect_tcp`, `send_recv`, `close` | replies carry no request number; a receive can time out or be torn | no request is given the reply of another |
| CursorRunner (`src/protocol/cursor.cpp`) | `opened_`, `first_block_`, `exhausted_`, last response | constructor (Prepare, Execute, polls, SetToBegin), `next_block`, `cleanup_cursor_noexcept` | constructor that throws with the cursor open; many ways to end | rows in order, once; a good end is complete; the cursor is released once, on every path |
| Client (`src/protocol/client.cpp`) | the socket | `connect_and_login`, `query_raw`, `start_streaming`, `list_tables`, `decode_batch_with_blobs` | login replies are dropped unread; blob loop with failures | see Blob fetch, Catalog |
| Blob fetch (`src/protocol/blob.cpp`, loop in `client.cpp:214-262`) | adapted slot length, counter of tasks | fetch, refetch with new slot length, free, flush | answers and tasks are matched by order only; strict or lenient | a payload lands in its own cell; strict mode lets no partial block through |
| Response parsing (`response.cpp`, `cursor_info.cpp`) | none | row block header, slices | short and malformed replies; padding that looks like data | the verdict: block, end, not ready, error |
| Codec (`wire.cpp`, `row.cpp`, `schema.cpp`, `text.cpp`) | none | walker, decode a row, parse a schema, CP1252/UTF-8 | offsets, signs and epochs found by observation | a cell is what the server stored |
| Message builders, login encryption (`msg.cpp`, `crypto.cpp`) | none | build requests; Blowfish, MD5 | - | byte layouts |
| Table function (`dbisam_scan.cpp`) | columns of Bind; runner, batch, offset | Bind, InitGlobal, Execute, teardown | schema of Bind against that of the run; blocks cut into vectors | each row once, in order |
| Attached scan (`storage/dbisam_table_entry.cpp`) | bind (filters, limit hint), runner, counters | pushdown callbacks, InitGlobal, Execute | column positions in three lists; key injected for blobs; filters removed from DuckDB's plan | the result is that of SQL |
| Limit optimizer (`storage/dbisam_optimizer.cpp`) | `limit_hint`, `limit_hard_cap` of the bind | walk of the plan | which limit may be a hard TOP | pushing it never changes the result |
| Filter rendering (`storage/dbisam_filter_render.cpp`) | none | expression or filter to text | the server's NULL rules differ from SQL's | rendered exactly, or refused |
| Catalog, schema entry (`dbisam_catalog.cpp`, `dbisam_schema_entry.cpp`) | `schema_mutex_`, `eager_load_mutex_`, `schema_cache_`, name-only entries, scan entries, `table_names_`, three flags | LookupEntry, Scan, GetTableNames, GetTableEntry, GetScanEntry, EnsureEagerLoaded | threads; two locks; failure in the middle of a load | entries handed out live on; connections do not overlap; lists are complete |
| Transactions, attach options, extension entry | map of transactions; parsed options | forwards, parsing, registration | - | no protocol of their own |

Interactions: `dbisam_scan` and the attached scan own a `Client` and a
`CursorRunner` for the life of one scan; the catalog opens a connection of its
own for each probe or listing, and closes it before it releases the mutex; the
optimizer and the pushdown callbacks write the bind data that InitGlobal later
reads. `PROJECT.json` lists the hazards at their lines.

## 2. The modules

| Module | Models | Role |
|---|---|---|
| `Transport` | framing, sockets | the connection, used by two specifications |
| `ScanContract` | - | abstract: what one scan promises to DuckDB |
| `ScanSession` | cursor, login, streaming, refill loop | one scan, from connect to close |
| `ScanFunction` | `dbisam_scan` | `ScanSession` between Bind and the end of the query |
| `ScanFaults` | the same as `ScanSession` | a server that may answer a block read with something else in mid-stream |
| `ScanProofs` | - | proofs about `ScanSession`: rows, contract, clean-up |
| `FunctionProofs` | - | proofs about `ScanFunction` |
| `SchemaCache` | - | abstract: what the catalog promises to DuckDB |
| `Catalog`, `CatalogProofs` | catalog and schema entry | threads, two mutexes, caches |
| `BlobBatch`, `BlobProofs` | `decode_batch_with_blobs`, `blob.cpp` | the blob loop and the server's answers |
| `LimitPushdown`, `LimitProofs` | optimizer, TOP and block size of InitGlobal | a plan, the cap, the result |
| `AttachedScan`, `AttachedProofs` | InitGlobal and Execute of an attached table | `LimitPushdown` with columns, keys, filters and counts |
| `FilterRender`, `FilterProofs` | rendering, and the accept callback | the text and what the server makes of it |
| `Text`, `Record`, `Wire` | codec | operators: text; columns, rows and cells; bodies of units |
| `Reply`, `ReplyProofs` | receive side of framing, parsers, decode, writes | one reply from the socket to DuckDB's vectors |
| `MC*` | - | instances for TLC |

`ScanFunction` extends `ScanSession`, which extends `Transport`, as `BlobBatch`
does; `AttachedScan` extends `LimitPushdown`; `Reply` extends `Wire` and
`Record`, and `Record` extends `Text`. `ScanSession` takes from `Reply` only the
verdict on a reply (`Statuses`), and `Reply` from `ScanSession` only that there
is one outstanding request; `VerdictSound` and `InSync` are the two halves.

### Transport and ScanSession

`log` is the sequence of requests sent, `handled` the number of them the server
has answered, `replies` the socket buffer: replies that wait to be read, each
with the number of its request. Only the model has that number; the code cannot
see it, which is the point of `InSync`. `link` is `up`, `fin` (the peer
closed), `reset`, `torn` (a receive timed out inside a message) or `down`.
`Call`, then `Returns`, `AnswerThrows` or `Drop`, are the two halves of
`send_recv`: the write, and the wait that ends with a reply, a timeout, a torn
message or a lost connection.

The client is a program counter `pc` over the requests in the order of the code:
the login, Prepare, Execute, up to `MaxPolls` polls, SetToBegin, then ReadFirst
and ReadNext as DuckDB pulls (`Idle`, `Emit`), the blob requests of a block
between its reply and its first vector (`Fetch`, `Flush`), and the three
clean-up requests.
`opened`, `first`, `exhausted`, `polls` are the members of the runner; `batch`
and `offset` the decoded block and the place of the next vector in it.
`emitted` is a history: the rows handed to DuckDB. `Teardown` is what an
exception or the end of the scan does: clean up if the cursor was opened,
otherwise close. `Abandon` is DuckDB dropping a scan early, a `LIMIT` for
instance. The server answers each request in turn: `SrvAck` what the client
ignores, `SrvPrepare` a schema or none, `SrvExecute` ready or not ready,
`SrvRead` a block, an empty block or the end, `SrvBlob` a blob, an error in its
place, or what follows a FreeAllBlobs. It never initiates.

Of the blob loop `ScanSession` keeps what it does to the connection: how many
requests a block still needs (`fetches`, any number up to `MaxFetches`), which of
them are inside the code's `try` (`Fetch`) and which are not (`Flush`), and that
a lenient scan goes past a failure of the former. `lost` records that it did so
without having had the reply. From then on the replies are one behind, and the
session has what follows: a blob reply is taken for that of the next blob
request, and one that a block read is given (`Stray`) fails the scan or, too
short for a result code, ends it. It is assumed that no reply to a blob request
is laid out like a block. Which payload lands in which cell is left to
`BlobBatch`.

The refill loop has no limit, and neither has the model: `EmptyBlock` can be
taken for ever. To keep that finite, a read whose reply leaves nothing behind is
struck from `log` together with its reply (`ReceiveForgetting`); the same goes
for other block reads and for blob requests. No property looks at these entries
once they are answered.

Data: a row is its number, `0` stands for the all-NULL row that lenient decode
makes of an undecodable one (`opts.bad`, `opts.lenient`). `opts` also says
whether the host leaves SIGPIPE at its default. `SchemaChanged` is the exception
of `dbisam_scan` when the columns are no longer those of its Bind.

The login's six requests are six steps. `MAX_RECEIVE_POLLS`, 100 in the code, is
`MaxPolls`: the value of `polls` at which the constructor gives up, so that 99
not-ready answers are put up with. The order in which the client reads
`opened_` after Execute's reply is kept: a scan whose Execute times out closes
the socket without a clean-up.

### ScanFunction

`stage` is the query before, at and after Bind, `bound` the columns Bind found
over its own connection (`bind.columns`), `served` those the scan's Prepare was
answered with; the table may change in between (`ServePrepare` picks any of
`Schemas`). `CheckColumns` is the comparison of InitGlobal: where the columns
differ it is the only way on, and where they do not it is not taken
(`ExecuteStep` carries the other half of the condition). A statement that Bind
cannot prepare never starts a scan (`BindRefused`).

### Catalog

`Threads` call `LookupEntry`, `Scan` (a listing) or `OpenScan` (an attached
scan, which logs in under neither mutex). `pc[t]` is the place of a thread,
`task[t]` the call it is in, `todo[t]` the names of the loop it still has to
visit. `schemaLock` and `eagerLock` are the two mutexes. `full` and `bare` are
the two maps, of probed and of name-only entries, from a name to the identity
of its entry (0 for none); `built` counts the identities. `tablesLoaded`,
`tableNames` and `eagerLoaded` are the members of those names. Taking a lock,
logging in and waiting for the server are steps of their own; a critical
section without a call to the network is one step. `rejected[t]`, with the
constant `Rejects`, models what the comments of the code say of the server: a
login while another login is under way is rejected, and the client, which drops
the reply, only sees statements without a schema. `plans`, `shown`, `got` and
`missed` are histories: entries put in plans, entries and names a listing
called back with, names a probe took for missing tables.

### BlobBatch

A block of cells, `tasks`, is filled in order. `i` is the next task, `adapted`
whether the slot length was learnt in this block, `cells` the payloads stored,
`echo` the blob the last fetch opened, which the free names. A cell holds the
number of the cell whose payload it was given, `0` for NULL. Steps: every
`FlushEvery` tasks FreeAllBlobs; Open; on a slot of the wrong length, a second
Open with the right one; Free. `lenient` swallows failures inside the code's
`try` and goes on. The server answers in order and counts open handles. The
bytes of slots and bookmarks are left out: `slot` says whether the configured
length is the table's, and whether it, or the one the table has, is too short
for the layout, where `build_slot` throws before any request (`SlotThrows`).

`SchemaCache` is the abstract specification: slots, one for each table and kind
of entry, that are filled at most once; entries given to plans (only those with
columns) and to listings are those of the slots; a load is done when each table
has its entry or was refused. The mapping in `Catalog` puts `full` and `bare`
side by side as the slots, and hides locks, threads and connections.

### LimitPushdown, AttachedScan, FilterRender

These are queries rather than protocols. Each takes an arbitrary small query in
`Init`, rewrites it as the code does in the steps the code has (optimizer walk,
accept callback, InitGlobal, Execute), runs it on a server that does what the
rewritten statement says, and compares with the query DuckDB was given.
`LimitPushdown`: `plan` is the chain of operators from the root to the
scan; `Walk` is the optimizer, `UseHint` the TOP and the block size, `Fetch`
a block, `Finish` the operators of DuckDB over the rows fetched. Which rows pass
the statement's WHERE is left open. What DuckDB's operators make of rows is
`Output`, a recursive function down the chain; `Kept` is a filter, and
`Ascending` the numbers of a set in order, of which the statements, the filters
and the select list of `AttachedScan` are made.
`AttachedScan` fills that in and adds the columns. `columnIds` are DuckDB's
columns (row id included, repetitions allowed), `filters` positions in them,
each one that DuckDB has given up or one that it applies again; `SelectList`
and `Mapping` are what InitGlobal makes of them, with the key injected when a
blob needs it; `StartCount` or `StartStream` is the choice between COUNT and a
cursor, `EmitRows`/`EmitCount` the two loops of Execute. `output` is what DuckDB
got, each row with a ghost that says which row of the table it is. Since
`AttachedScan` has the plan, the filters and the limit in one state,
`QueryExact` is about all the pushdowns together.
`FilterRender`: expressions are records, from the universes `Expressions` and
`TableFilters`, which are constants closed under parts and have a measure
(`Depth`). Any expression may be a part of any other, as in the code: a test may
be compared, listed or tested for NULL, and a bare column may be a test; truth
values are values. `RenderDbisamExpression` and `RenderDbisamFilter` are
recursive functions over those; a rendered text is what it means to the server,
a value for each value of the column and each way the server may compare NULL,
or `None` where the code refuses. `Value` and `Passes` are what the expression
means to DuckDB, by SQL's rules; `ServerCompare` and `Membership` are those the
audit at the head of `dbisam_filter_render.cpp` recorded of the server: NULL
differs from every value (`<>`, `NOT IN`), equals NULL
(`null_equals_null() -> true`), and is not true in any other comparison.
(`src/README.md:157-158` counts `NOT IN` among the comparisons that exclude
NULL; the code and the model follow the audit.)

### Reply, Wire, Record, Text

A `job` is a request and the server's answer to it: what was asked, the types of
the columns, which fields are NULL or damaged, the shape of the reply (whole,
without bookmarks or without rows, broken off, empty, the polling code),
compression, a damaged header. `Numbers` gives the values that fields of a type
hold; `shift` says with which of them a job begins. The server's side of `Reply` builds the reply from it, byte by byte
where the client looks at bytes, with an encoder written from the layouts the
code documents. The client takes it in by pieces (`Recv`), checks the header
(`HeadRead`), unpacks it (`Unpack`), parses it as the caller does (`Parse`),
decodes rows (`Decode`) and writes vectors (`Write`).

`Wire`: a body is a sequence of units and `pad` bytes of padding; `HasUnit`,
`Overruns` and `UnitAt` are `Walker::next_unit`, on units and then on padding,
which it reads as zero lengths or as a length cut short. The parsers are
predicates over those: `WireFails` where `read_record_block_batch` throws,
`BlockRows` the rows it finds, `TablesFail`, `BlobFails`, `NotReady`.
`Record`: a Prepare reply is a sequence of column blocks and other bytes;
`Columns` are those found, `DecodeField` a `CellValue` as a tagged value,
`Written` what `write_cell` puts in a vector. `Text` is `text.cpp`.

## 3. What the runs check

Violation runs check a sentence of the code's own documentation that the code
does not keep; section 7 quotes them.

| Run | Instance | Shows |
|---|---|---|
| `scan` | 4 rows, blocks of up to 3, vectors of 2, 2 polls, up to 2 blob requests for each block, any number of empty blocks; timeout, torn message and disconnect; row 2 decodes or not | `InSync`, `RowsInOrder`, `CompleteWhenDone`, `CleanupProtocol`, `CursorReleased`, the inductive invariant `FunctionInv` (`ScanInv`, `CleanupInv` and `ServedInv`), `ImplementsContract`; a table that gains a column or has one change its type after Bind: `RowsAsBound`; `QueryEnds` |
| `scan_truncation` | the same, no blob and no link fault, the not-ready sentinel or a misshapen row buffer in answer to a block read | `NoSilentTruncation` is violated, by either alone |
| `scan_sigpipe` | as `scan`, no blobs | `ProcessSurvives` is violated |
| `catalog` | 2 threads of 2 calls, 3 names of which 2 are tables, eager and lazy, rejections | `NeverDangling`, `ProbesSerial`, `EagerComplete`, `ScanComplete`, `CacheWriteOnce`, `CallsReturn`, `CatalogInv`, `ImplementsCache` |
| `catalog_notfound` | the same | `NotFoundMeansAbsent` is violated |
| `blob` | 2 blocks of up to 3 blobs, flush every second task, each of the four `Slots`, all link faults, strict and lenient | `PayloadInPlace`, `StrictMeansWhole`, `HandlesBounded`, `BlobInv`, `Ends` |
| `blob_mixup` | the same | `FailuresBecomeNull` is violated |
| `attached` | chains of up to 3 operators, a key, a memo and a plain column, up to 3 output columns (4 operators and columns together), 4 rows, blocks of 3, vectors of 2 | `QueryExact`, `ColumnsExact`, `RowsExact`, `FetchBounded`, `AttachedInv`, `LimitInv`, `ImplementsLimit` |
| `limit_offset` | chains of up to 3 operators over 4 rows, with a constant LIMIT with an OFFSET by expression | `LeftAloneIsCorrect` is violated |
| `filter` | expressions over operands of every kind, pairs of them under AND and OR, tests over tests, table filters nested two deep | `ResultExact`, `AcceptedIsRendered`, the inductive invariant `FilterInv` |
| `reply` | each shape of reply at each length of padding, compressed or not; rows of the 18 field types alone, in pairs and in threes; 2 rows | `MessageWhole`, `SchemaExact`, `VerdictSound`, `CellsExact`, `AnswersExact`, the inductive invariant `ReplyInv` |
| `filter_half` | comparisons with a timestamp that has half a second | `RenderedExactly` is violated |

Every property of a passing run has a mutant in `PROJECT.json`: a version of one
definition with a plausible bug, under which that property fails. Mutated
definitions stand beside the originals, marked `Mutant`.

### Bounds, and why they are enough

- Four rows in blocks of three and vectors of two: a block that holds several
  vectors, a vector that a block ends before it is full, a last block shorter
  than the rest, and a second read (ReadNext after ReadFirst). A block may be
  any size up to three, so each way of cutting four rows occurs. Row 2, the one
  that may not decode, has a row before and rows after it. `ScanProofs` and
  `FunctionProofs` remove the bounds for what they prove.
- Two polls are the smallest number with a poll that is answered and a poll that
  reaches the limit. Empty blocks are not bounded.
- Two blob requests for each block: a failure with another request of the same
  block still to come, and one with a block read next; a flush between the two
  or not. `ScanProofs` removes the bound.
- Two threads with two calls each: both orders of every pair of calls, a second
  call after a failed first one, and a lookup that races a load. Three names:
  two tables, so that a loop can fail in the middle, and one that is missing.
  `CatalogProofs` removes the bounds for what it proves.
- A flush every second task, with three tasks: a flush before the last task,
  frees before and after it. The second block shows what is left over from the
  first. `BlobProofs` removes the bounds.
- Three operators: two limits with an operator between, above or below them.
  `LimitProofs` and `AttachedProofs` remove the bound, and those on columns and
  rows, for what they prove.
- Three columns, one of each kind the code tells apart (the key, which is the
  first column, a memo, others), and three output positions: a repetition and a
  row id, or a memo without its key and two more. `MaxQuery` leaves out plans of
  three operators over more than one column, and of two over more than two.
- Two schemas beside that of Bind: one with another number of columns, one with
  another type, the two ways in which the comparison can fail.
- A block reply at eight lengths modulo eight, by a bookmark of 0 to 7 bytes in
  its header: every length of padding. A field type alone shows its own decoding;
  the pairs show that it is found at its offset behind and before another kind,
  the threes that the offset adds up. Five values per type at most, each at a
  boundary of its decoding (sign, epoch, zero byte, character set). `recv` yields
  all that is wanted or half of it: a message arrives in two pieces or in many, and
  can break off after each.
- The pairs under AND and OR are of five expressions that include each NULL rule.
  `FilterProofs` removes the bounds on depth, values and number of filters.

### Fairness

`ScanFunction` and `BlobBatch` assume weak fairness of their client and nothing of
the server. DuckDB calls Execute again or destroys the scan; a socket call that
gets no answer returns after SO_RCVTIMEO, which is what makes `AnswerThrows`
happen in the end. `QueryEnds` and `Ends` therefore hold against a server that
never answers. They do not hold against one that answers every block read with an
empty block: the code puts no limit on those (`dbisam_table_entry.cpp:390`,
`dbisam_scan.cpp:286`). `QueryEnds` says that a query ends or goes round that
loop for ever, so that there is no other way not to end; its first half alone is
false, and TLC shows the loop. Rows are finite (`NRows`), and for `Ends` the
blocks are (`MaxBlocks`), since its loop is that over the blobs of a block.

The fairness of `ScanFunction` includes Bind: DuckDB binds a query or drops it.
`Reply` states none, and has no liveness property.

`Catalog` assumes weak fairness of `Step(t)` for each thread, that is, of the
steps inside a call. The mutexes are not assumed fair. Weak fairness is enough
because `MaxOps` bounds the calls, so a lock cannot be taken from a waiting
thread for ever. `CallsReturn` therefore shows that no lock order and no lost
unlock blocks a thread, and not that a `std::mutex` cannot starve one.

## 4. What is proved

`tlapm` checks eight modules of proofs; the theorems hold for every value of the
constants that satisfies the named assumptions. `LinkFaultsAssumption`,
`ScanAssumption`, `SchemaAssumption`, `CatalogAssumption`, `BlobAssumption`,
`LimitAssumption`, `AttachedAssumption`, `ValuesAssumption`, `JobsAssumption` and
`UnitsAssumption` say that counts are natural numbers and sizes positive, and that
the rest has the right type. `ExpressionsAssumption`, `FiltersAssumption` and
`QueriesAssumption` say what expressions and filters are made of, and
`DepthAssumption` that a part is smaller than the whole; `SolidAssumption`, that
DuckDB puts nothing under an OR that a scan may skip; `PayloadAssumption`, what a
Prepare reply has before and behind the blocks of its own statement;
`NumbersAssumption`, that the numbers in fields are within the range of their
types. TLC evaluates each
of them for the instances it checks. All safety properties of the passing runs
are proved, and so are the two refinements of `ScanContract` and `SchemaCache` and
that of `LimitPushdown`. Two theorems have a hypothesis besides, `OffsetsKnown`,
explained below.

**ScanProofs.** `TypeCorrect`, `ScanInvariant`, and from it `StaysInSync`,
`DeliversInOrder` and `DeliversAll`. None of these is inductive alone.
`RowsInOrder` says what has been emitted; to be kept by the next vector it needs
what is in the batch, which needs what is in the reply, which needs where the
cursor of the server is. `ScanInv` adds just those links: `ControlInv` (what the
program counter says of `first`, `polls`, the outcome and the request under
way), `BatchInv` (the batch continues what has been emitted, and the server's
cursor stands behind it), `ReplyInv` (the block on its way continues what has
been emitted, and an end comes only after the last row). `InSync` is part of the
invariant, since `ReplyInv` means nothing if the reply read is another
request's. `LostInv` is about the lenient scan that has gone past a lost blob
request, for which `InSync` and `CompleteWhenDone` claim nothing: the replies
still owed to it are all replies to blob requests but for that to a block read
under way, which comes last. Such a scan therefore emits the batch it has and
gets no other block, which is why `RowsInOrder` and the order of the clean-up
are true of it too. The proof has one step per action; the control part and the
data part of each action are proved separately.

`Refinement`: `Spec => ImplementsContract`. The mapping is the identity on
`opts`, `emitted` and `outcome`. Each action either leaves the three alone
(`QuietStep`), or is a `Deliver` (`EmitVectorDelivers`, from `BatchInv`), a
`Finish` (from `ReplyInv`: an end of the cursor means that all rows are out, or
the step is lost), a `GiveUp` or a `LoseStep`.

`CleansUp` and `Releases`. A statement about the whole log
has to say how far the log has got: `SentInv` ties the number of clean-up
requests in it to the program counter, and `CloseInv` says what the server may
have seen. A server with the cursor open has not read CloseCursor; a client past
CloseCursor has written it, or its connection has gone with a request that
nobody read, in which case `CursorReleased` does not apply. The theorem
therefore covers the constructor that throws after Execute and each fault during
the clean-up itself.

**FunctionProofs.** `RunsSession`: each step of the table function is a step of
`ScanSession` or a stutter, so all that is proved of a session holds of a query.
`BoundRows`: rows reach DuckDB only if the columns served are those of Bind.
`ServedInv` says when the two agree, and that once rows are out no Prepare is
unanswered which could change what is served; for that it needs the order of the
requests from `ScanInv` and `CleanupInv`.

**CatalogProofs.** `CacheInvariant`, and from it `TypeCorrect`, `EntriesLive`,
`OneProbe` (the mutual exclusion that `ProbesSerial` counts), `LoadsAll`, and
`WriteOnce`, an action property. `CacheInv` adds: `schema_mutex_` is held just
where the code is on the network with it (`LockInv`); a thread that probes does
so for a name without an entry (`MissInv`), which is why the store replaces
nothing, and which holds because the check and the probe are in one critical
section; and a loading loop has done the names it has not got left (`LoadInv`).
`ListsAll`: a listing that ends has called back with every table, once and in
order. `ListInv` says where each listing is: its calls so far are the first
names of the list, the names it has left are the others.
`Refinement`: `Catalog` implements `SchemaCache`. A step fills a slot
(`FillsSlot`), serves one (`ServesSlot`), ends a load, or changes nothing that
the abstract specification has.

**BlobProofs.** `PayloadSafe`, `StrictWhole`, `HandleBudget` and the invariant
`BlobInv` for any number of cells, blocks and tasks between flushes. The first
two need that the reply at hand answers the request at hand (`AnswerInv`), which
needs that nothing has been given up (`CallInv`); `timedOut` records the one way
to lose that, a lenient scan that goes on after a timeout (finding 4).
`HandlesInv` says which open handle belongs to what: one for each block that had
to learn its slot length (`Leaked`), one for the task under way (`Working`).

**LimitProofs.** `LimitInvariant` and `FetchesNoMore`: `CapInv` says that in a
plan without filters every cap is a hard one, and that the statement carries
just the hard caps, so the rows that leave the server never pass the cap.
`LimitExact`: stopping early and cutting at the server never change the result,
in plans of any length. `HardInv` ties a TOP to the LIMIT it comes from, one
that reaches the scan through no filter. The lemmas are about the operators: the recursion down the
plan has a solution (`OutputLemma`); over ascending rows a chain of projections
and filters leaves, ascending, those rows that all filters keep (`ChainLemma`);
a LIMIT over such a chain that has its rows from the first rows of a statement
gets no others from the rest (`EnoughLemma`); what leaves an operator decides
what leaves the plan (`AboveLemma`). The inductions they need run over places of
the plan, and are done with a least counterexample (`DownInduction`).
The hypothesis `OffsetsKnown` says that no LIMIT with a constant limit has an
OFFSET by expression. Without it the statement is false: that is finding 5, and
the theorem shows that there is no other case. It is a condition on the queries,
which the plans of `MCAttached` satisfy (`MCOffsets`) and those of `MCLimit` do
not.

**AttachedProofs.** `Refinement`: an attached scan is a life of `LimitPushdown`,
so `FetchesNoMore` holds of it. `ColumnsRight`: for any columns in any order,
with repetitions, row ids and a key injected for a blob, each cell is that of
its column (`SelectLemma`, from the ranks of the real columns). `RowsRight`: no
row that a given-up filter excludes, none twice, none out of order.
`QueryRight`, under `OffsetsKnown`: the query returns what its plan makes of the
table. `WantedLemma` is the argument: the WHERE clause has all filters that
DuckDB has given up and perhaps some that it checks again; whatever a row was
excluded for by one of the latter, a filter in the chain above the scan would
have excluded it for too (`RecheckLemma`), so both sets of rows leave that chain
alike. `FinishLemma` of `LimitProofs` does the rest. `StreamInv` and `CountInv`
say that a statement stays what InitGlobal made of its input.

**FilterProofs.** `FilterInvariant`, `ResultCorrect` and `AcceptedNeverFails`,
for expressions and filters of any shape and depth, any columns and values, any
meaning of LEFT and the other functions, and either thing the server may make of
a comparison with NULL that the audit does not settle. The functions that render
and evaluate are recursive, so the first thing proved is that such a definition
has a solution (`Recursion`, by induction on `Depth`). `RenderTypes` says what a
rendered text is. Two relations between a text and its expression carry the
proof. A `Plain` expression (the column, LEFT of it, a constant) is exact in
value (`PlainExact`). An `Audited` one over such (a comparison, a membership, a
null test, AND and OR of them) is exact in being true, and no more than that: on
the server it may be false where SQL has NULL, or the other way round
(`TestExact`, `FilterExact`). That is kept by AND and OR (`LogicLemma`), but not
by anything that looks at a test other than for its truth, which is why a test
that is compared, listed or tested for NULL is not `Audited`. `GuardLemma` is why
the guards make `<>` and NOT IN exact, although NULL differs from everything on
the server; that NULL equals NULL there does no harm to a comparison with a
constant, which is never NULL. `RecheckedExact` is about the filters left out: what
DuckDB still checks of them, and the parts that were rendered, let through the
same values as the whole. `ResultExact` claims nothing of a query in whose pushed
filters there is another shape: a timestamp with a fraction of a second (that is
finding 6), or one that shows how the server reads NULL, an unguarded comparison
of two expressions that may both be NULL, a membership with an item that is not a
constant, a test inside a test. The code renders all of these and `filter` runs
them; without the condition TLC finds that `(LEFT(col, 1) = col) IS NULL` returns
other rows than SQL does.

**ReplyProofs.** `ReplyInvariant` and `MessageBoundary`: however `recv` cuts a
reply up, whatever is parsed is what was sent, and the socket stands at its end;
for messages of any length. `UnitsLemma` and `SentLemma` say that the server's
reply is a message at all, `BodyLenLemma` what its length is.
`AnswersCorrect`: the verdict on an Execute reply, a blob and a list of tables
of any length. The walker reads zero bytes of padding for units; `BehindLemma`
counts how far it gets.
`SchemaCorrect`: for any columns, and any other blocks before and behind them
that `PayloadAssumption` admits, the columns parsed are those of the statement.
`FirstBlockLemma` finds their first block, `ColumnsLemma` shows that the run of
ordinals ends with their last, `BlockLemma` and `FieldTypeLemma` that each block
is read as what it was written for.
`BlockInvariant`, and from it `VerdictCorrect` and `CellsCorrect`: for any schema,
any number of rows, NULL fields and damaged rows anywhere, any numbers in the
range of their types, and any length of padding. `VerdictSound` and `CellsExact`
speak of a block that has been written, and the
steps before that are kept by `BlockInv`: a block waiting to be decoded has the
records and bookmarks the server sent (`Received`); one waiting to be written has,
for each record, its cells with their blobs (`Decoded`). The lemmas follow the
bytes. `JoinedLemma` says where each part of a concatenation lies; `RowLemma`
takes that to the fields of a record (the column offsets of the Prepare reply are
where the fields are), and `SlicesLemma` to the records of a block and its
bookmarks. `JudgeLemma` is the walker's verdict on a block reply, padding included;
`BlockRowsLemma` and `MarksLemma` are the rows and bookmarks it finds. `KeyLemma`
and `FoundLemma` show that a blob is asked for under the key of its own row.
`NumberLemma` is that decoding undoes encoding: little-endian numbers of two, four
and eight bytes with their signs, the two epochs, days counted backwards before
1899. Texts are five given fields, and what the character set makes of each is
computed in the proof (`TextsLemma`).

Model-checked only:

- `QueryEnds`, `CallsReturn`, `Ends`: liveness under fairness.
- What text becomes for fields other than those five. A text is decoded by a
  recursive scan over its bytes, and a general statement would need induction
  over them with a second definition of UTF-8 to compare with.
- The violation runs, and with them the findings of section 7.

## 5. Abstractions

- Bytes. In the protocol models a request is its kind, a reply its status and
  rows, a row its number; what a reply is taken for is one of `Statuses`. In
  `Reply` fields, keys and bookmarks are bytes and units have lengths, but the
  bytes of headers, lengths and cursor information, which the code reads and
  drops, are not there. Compression is an external function that keeps the body.
- Numbers in `Record`. TLC has 32 bits: a field of eight bytes keeps within them,
  a binary64 is its quarters (so DateTime has times of day in quarters, whose
  rounding to microseconds is exact), Float and Currency count ten-thousandths.
  The record number in a bookmark and the MD5 of a row are numbers that no other
  row has, not held to the size of a byte: the client only compares and returns them.
- A Prepare reply is made of whole blocks and other bytes, and the pattern of a
  block does not occur in the other bytes by chance.
- `ScanFunction` compares schemas by their types and assumes that an ALTER that
  keeps the types keeps the layout of the record (see the known limits).
- `send_recv` writes wholly or fails. Partial writes and SO_SNDTIMEO end in the
  same exception. Connecting is one attempt that works or fails.
- The server is external: modelled from what the client expects, and, in
  `ServerCompare`, from the audit that the code's comments and docs record.
  It answers requests in order, or the connection drops.
- `BlobBatch` starts at the first block, and leaves the start and the end of the
  connection to `ScanSession`; it does not have the SIGPIPE choice. An answer
  that is no block, left over by a fetch, either ends the scan or fails it,
  whichever way its bytes happen to parse.
- `Catalog` has no schema contents. The server's tables do not change during a
  session: the cache would not notice, by design. Scans, unlike the catalog's
  own connections, are not serialised, and `OpenScan` shows what comes of that.
- `LimitPushdown` and `AttachedScan` take the server to return the first n rows in the order in
  which it would return them without TOP. Plans are chains: a bind belongs to
  one scan, and a walk reaches it along one chain.
- `AttachedScan` gives each column a fixed set of rows that pass its filter.
  Row ids are running numbers of emitted rows, as in the code.
- `FilterRender` has one column for each filter, whose values are integers; a
  timestamp's are half seconds. The run has small values, 3 among them, a value
  with a fraction of a second. A text is what it means, not its characters. What
  the server makes of NULL in a comparison other than `<>`, or `=` with another
  NULL, is false or unknown (`nullCompares`): the audit does not tell them apart.
- Natural numbers everywhere. Where the code's widths matter is among the
  hazards.

## 6. What is not modelled, and why

- `drive_cursor`, the materialising cursor, and `read_batch`, which only it
  calls: only tests use them.
- The arguments of `dbisam_scan` and the text of its TOP: characters of strings.
  A TOP is left out when " TOP " occurs anywhere in the statement, in a literal
  too.
- `build_slot` and the other writers of bytes that only the server reads.
- Attach options, storage extension, transaction manager: parsing and
  registration.
- `msg.cpp` and `crypto.cpp`: byte layouts, and a cipher over third-party code.
- `query_decoded`'s own loop: a count is one row.
- `third_party/`, deployment and tools.

Known limits that no property covers: an Execute that times out leaves its
cursor to the server's own clean-up; each block whose slot length has to be
learnt leaves one blob open (`HandlesBounded` allows for it: `blocks + 1`); IS
NULL over a comparison, a comparison inside another, LEFT(col, 1) = col and NOT
IN with a column among its items are rendered, run by `filter`, and not exact
(`Audited` leaves them out), although `dbisam_filter_render.cpp:171` wants exact
semantics: nothing in the repository tells whether DuckDB offers them; a lenient
scan that has gone past a lost blob request may take the late reply for the end
of its cursor and end well with rows missing (`CompleteWhenDone` excepts it; the
cause is finding 4); a server that sends empty blocks for ever keeps a query for
ever; an attached scan
does not compare the schema of its plan with that of the response; `dbisam_scan`
decodes with the columns of Bind, and would misread a record whose layout has
changed under the same types; a row buffer of the wrong size yields no rows and
no error (`VerdictSound` claims rows only within the 32 bytes of tolerance; what
comes of the others is part of finding 1), and
so would a field wider than the one byte the schema parser reads of its width;
a block without its last units fails where its padding has one to three bytes
and is taken as it is otherwise (`CutByPadding`); an empty list of tables and a
lone code of success look alike (`AnswersExact`).

## 7. Where the code and its documentation disagree

Quotations and lines are under "findings" in `PROJECT.json`.

1. **A result cut short ends the scan well** (`scan_truncation`).
   `cursor.cpp:207-230`: a not-ready sentinel, a short body or an unknown result
   code in answer to a block read is taken for the end of the cursor; the
   comment at 215 says that only a cleanly empty stream is. A block whose row
   buffer the parser leaves out (`response.cpp:89-98`) passes for an empty one and
   its rows are missing too. `ScanFaults` has the variants (`StreamFaults`).
2. **SIGPIPE** (`scan_sigpipe`). `framing.cpp:113`: `send` without
   MSG_NOSIGNAL. The clean-up is meant to be best effort; where the host leaves
   SIGPIPE at its default, a write to a reset connection ends the process.
3. **Not found, though it exists** (`catalog_notfound`). `client.cpp:371` drops
   the replies to the login, so a rejected login looks like a statement without
   a schema, which the catalog takes for a missing table. That the server
   rejects such logins is what the comment in `dbisam_catalog.cpp` says.
4. **A late blob in another cell** (`blob_mixup`). `client.cpp:253`: in lenient
   mode a fetch that timed out is skipped, and its reply is read by the next
   request: here by another fetch, in `ScanSession` (`lost`) also by a block read.
5. **OFFSET by expression** (`limit_offset`). `dbisam_optimizer.cpp:63`: only
   the limit's type is tested, and the cap leaves the offset out.
6. **Half a second** (`filter_half`). `dbisam_filter_render.cpp:132`: a
   timestamp is rendered without its microseconds, and DuckDB has given up its
   own filter.

## 8. Plan

Done, in this order: `Transport`, `ScanSession` with its contract and proofs,
`Catalog` and its proofs, `BlobBatch`, `LimitPushdown` and its proofs,
`FilterRender`, `AttachedScan`, `ScanFunction`, the codec (`Text`, `Record`,
`Wire`, `Reply`), `SchemaCache`; the proofs of the clean-up, of the table
function, of the listing and the refinement of the catalog, of the blob loop,
of the attached scan up to the result of a query, of the filters, and of replies
down to the cells of a block.

Left:

1. Record layouts in `ScanFunction`, so that a decode with stale columns shows.
2. Any text in `Reply`, with a definition of UTF-8 by code points to compare with.
3. A finding of its own for the shapes that are not `Audited`, should DuckDB be
   found to offer one of them.
