-------------------------------- MODULE Reply --------------------------------
(***************************************************************************)
(* One reply on its way from the socket to DuckDB: recv_msg takes it in as *)
(* many pieces as recv yields, send_recv_compressed unpacks it, the caller *)
(* parses it, and the rows of a block are decoded and written to vectors.  *)
(* The job says what the server was asked and what it answers; the server, *)
(* its compression and DuckDB are external.                                *)
(***************************************************************************)
EXTENDS Wire, Record

CONSTANTS
    Jobs,       \* the replies considered
    Numbers     \* the values that fields of each type of number hold

Asks   == {"prepare", "execute", "read", "tables", "blob"}
Heads  == {"good", "foreign", "short", "overlong"}
Shapes == {"whole", "unmarked", "uncounted", "cut", "blank", "sentinel"}

NumberTypes == {"Boolean", "Smallint", "Integer", "AutoInc", "Largeint", "Float", "Currency",
                "Date", "Time", "DateTime"}

\* Numbers of eight bytes keep within four, and so does what a date is stored as.
InRange(type, n) ==
    LET bound == IF type = "Smallint" THEN 32767
                 ELSE IF type \in {"Date", "DateTime"} THEN 1000000000 ELSE 2147483647
    IN IF type = "Boolean" THEN n \in {0, 1} ELSE -bound <= n /\ n <= bound

ASSUME NumbersAssumption ==
    \A type \in NumberTypes :
        /\ Numbers[type] \in Seq(Int) /\ Numbers[type] # <<>>
        /\ \A i \in DOMAIN Numbers[type] : InRange(type, Numbers[type][i])

VARIABLES
    job,        \* the request and the server's answer to it
    phase,      \* what the client does next; "broken": IoError, "failed": another exception
    got,        \* bytes the current read_exact has
    taken,      \* bytes of the reply taken from the socket
    body,       \* the body send_recv_auto returned
    result      \* what the client made of it so far

vars == <<job, phase, got, taken, body, result>>

-----------------------------------------------------------------------------
(***************************************************************************)
(* The server (external): what it stores, what that means, what it sends.  *)
(***************************************************************************)

SubCodes == [Calculated |-> <<0, 0, 0>>, String |-> <<1, 0, 0>>, Date |-> <<2, 0, 0>>,
             Blob |-> <<3, 0, 0>>, Memo |-> <<3, 22, 0>>, Graphic |-> <<3, 26, 0>>,
             Boolean |-> <<4, 0, 0>>, Smallint |-> <<5, 0, 0>>, Integer |-> <<6, 0, 0>>,
             AutoInc |-> <<6, 29, 0>>, Currency |-> <<7, 0, 10>>, Float |-> <<7, 0, 0>>,
             Bytes |-> <<9, 0, 0>>, Time |-> <<10, 0, 0>>, DateTime |-> <<11, 0, 0>>,
             VarBytes |-> <<15, 0, 0>>, Largeint |-> <<18, 0, 0>>, Unknown |-> <<8, 0, 0>>]
Width == LET others == [Calculated |-> 1, String |-> 3, Bytes |-> 2, VarBytes |-> 2, Unknown |-> 4]
         IN [type \in DOMAIN SubCodes |-> IF type \in DOMAIN Needs THEN Needs[type] ELSE others[type]]

\* The record that holds columns of these types, and a Prepare reply about it.
Offset(types, i) ==
    LET off[k \in 0..Len(types)] == IF k = 0 THEN 25 ELSE off[k - 1] + 1 + Width[types[k]]
    IN off[i - 1]
SentColumns(types) ==
    [i \in DOMAIN types |-> [type |-> types[i], max |-> Width[types[i]], off |-> Offset(types, i)]]

Other == [marker |-> FALSE, named |-> FALSE, ord |-> 0, sub |-> 0, a8 |-> 0, x |-> 0, max |-> 0, off |-> 0]
Block(types, i) ==
    [marker |-> TRUE, named |-> TRUE, ord |-> i, max |-> Width[types[i]], off |-> Offset(types, i),
     sub |-> SubCodes[types[i]][1], a8 |-> SubCodes[types[i]][2], x |-> SubCodes[types[i]][3]]
Payload(j) == j.before \o [i \in DOMAIN j.types |-> Block(j.types, i)] \o j.after

\* A number in w bytes, little-endian, two's complement.
Le(n, w) == LET place == <<1, 256, 65536, 16777216>>
            IN [i \in 1..w |-> IF i <= 4 THEN (n \div place[i]) % 256 ELSE IF n < 0 THEN 255 ELSE 0]
Zeros(n) == [i \in 1..n |-> 0]

\* A moment, in quarter days since 1970, as a TDateTime in quarters.
TDateTime(m) == LET days == (m \div 4) + 25569
                IN IF days >= 0 THEN 4 * days + (m % 4) ELSE 4 * days - (m % 4)

\* A number in the bytes of its type, and as DuckDB shows it.
Encoded(type, n) ==
    IF type = "Date" THEN Le(n + 719162, 4)
    ELSE IF type = "DateTime" THEN Le(TDateTime(n), 8)
    ELSE IF type = "Boolean" THEN (IF n = 0 THEN <<0, 0>> ELSE <<255, 255>>)
    ELSE Le(n, Width[type])
Shown(type, n) == IF type = "Time" THEN 1000 * n ELSE IF type = "Float" THEN 2500 * n ELSE n

\* What fields hold: the bytes stored, and what DuckDB should show.
Value(bytes, shows) == [bytes |-> bytes, shows |-> shows]
Texts == <<Value(<<65, 66, 0>>, <<65, 66>>), Value(<<0, 0, 0>>, <<>>),
           Value(<<128, 65, 0>>, <<226, 130, 172, 65>>),
           Value(<<194, 160, 65>>, <<194, 160, 65>>),
           Value(<<233, 194, 233>>, <<195, 169, 195, 130, 195, 169>>)>>
Binaries == <<Value(<<0, 9>>, <<0, 9>>), Value(<<200, 0>>, <<200, 0>>)>>

Stored(type) ==
    IF type = "String" THEN Texts
    ELSE IF type \in {"Bytes", "VarBytes"} THEN Binaries
    ELSE IF type \in NumberTypes
    THEN [i \in DOMAIN Numbers[type] |->
             Value(Encoded(type, Numbers[type][i]), <<Shown(type, Numbers[type][i])>>)]
    ELSE <<Value(Le(5, Width[type]), <<>>)>>

StoredAt(j, r, c) == LET s == Stored(j.types[c]) IN s[1 + ((r + c + j.shift) % Len(s))]

\* Blobs: a handle, zero where the row has none, and the payload behind it.
HasBlob(j, r, c)  == (r + c + j.shift) % 3 # 0
Handle(r, c)      == <<1, r, c, 0, 0, 0, 0, 0>>
Letter(r, c)      == 64 + ((10 * r + c) % 60)
Blob(r, c)        == <<233, Letter(r, c)>>
BlobShows(j, r, c) == IF j.types[c] = "Memo" THEN <<195, 169, Letter(r, c)>> ELSE Blob(r, c)

FieldBytes(j, r, c) ==
    IF j.types[c] \notin HandleTypes THEN StoredAt(j, r, c).bytes
    ELSE IF HasBlob(j, r, c) THEN Handle(r, c) ELSE Zeros(8)

Field(j, r, c) ==
    IF <<r, c>> \in j.nulls THEN Zeros(1 + Width[j.types[c]])
    ELSE <<IF r \in j.bad THEN 7 ELSE 1>> \o FieldBytes(j, r, c)

\* A record: header with its checksum, the fields, and j.tail bytes more (or
\* fewer) than the schema accounts for.
Md5(r) == [i \in 1..16 |-> 16 * r + i - 1]
RowBytes(j, r) ==
    LET fields == Joined(Zeros(9) \o Md5(r), Len(j.types), [c \in DOMAIN j.types |-> Field(j, r, c)])
    IN IF j.tail < 0 THEN SubSeq(fields, 1, Len(fields) + j.tail) ELSE fields \o Zeros(j.tail)

PrimaryKey(j, r) == Tail(Field(j, r, 1))
Bookmark(j, r) == <<1>> \o PrimaryKey(j, r) \o <<1>> \o <<128, 0, 0, r>>

Rows(j)  == Joined(<<>>, j.rows, [r \in 1..j.rows |-> RowBytes(j, r)])
Marks(j) == Joined(<<>>, j.rows, [r \in 1..j.rows |-> Bookmark(j, r)])

ReadUnits(j) ==
    LET rows  == Rows(j)
        marks == Marks(j)
        all   == <<Unit(2, j.code)>>
                   \o [i \in 1..10 |-> Unit(IF CursorInfoSizes[i] = -1 THEN j.mark ELSE CursorInfoSizes[i], 0)]
                   \o <<Unit(4, j.rows), Unit(Len(rows), rows), Unit(Len(marks), marks)>>
        sent  == [whole |-> 14, unmarked |-> 13, uncounted |-> 11, cut |-> 5, blank |-> 0, sentinel |-> 1]
    IN SubSeq(all, 1, sent[j.shape])

Units(j) ==
    CASE j.ask = "read"    -> ReadUnits(j)
      [] j.ask = "execute" -> <<Unit(2, j.code)>>
      [] j.ask = "tables"  -> IF j.shape = "sentinel" THEN <<Unit(2, j.code)>>
                              ELSE <<Unit(4, j.rows)>> \o j.names
      [] j.ask = "blob"    -> IF j.shape = "sentinel" THEN <<Unit(2, j.code)>>
                              ELSE <<Unit(48, 0), Unit(4, j.rows), Unit(j.rows - j.tail, j.shift)>>
      [] OTHER             -> <<>>

\* The server compresses the stream (to 30 bytes, say) or pads its frame.
WireLen(j) ==
    LET len == IF j.deflated THEN 37 ELSE BodyLen(Units(j))
    IN 20 + len + Padding(len)

Sent(j) ==
    [reqcode |-> IF j.shape = "sentinel" /\ j.ask \in {"read", "execute"} THEN REQCODE_POLLING_SENTINEL ELSE 0,
     units   |-> Units(j),
     pad     |-> IF j.deflated THEN 0 ELSE Padding(BodyLen(Units(j)))]

ASSUME JobsAssumption ==
    \A j \in Jobs :
        /\ j.ask \in Asks /\ j.head \in Heads /\ j.shape \in Shapes
        /\ j.rows \in Nat /\ j.code \in Nat
        /\ j.types \in Seq(DOMAIN SubCodes) /\ j.names \in Seq([n : Nat, is : Int])
        /\ j.shift \in Nat /\ j.tail \in Int
        /\ j.ask = "read" => j.types # <<>> /\ j.tail >= -25

\* The length of a unit is a number.
ASSUME UnitsAssumption ==
    \A j \in Jobs : \A k \in DOMAIN Units(j) : Units(j)[k].n \in Nat

\* The blocks of a statement are the first in its payload that can start a
\* schema, and no block behind them goes on counting.
Item == [marker : BOOLEAN, named : BOOLEAN, ord : Int, sub : Int, a8 : Int, x : Int, max : Int, off : Int]
ASSUME PayloadAssumption ==
    \A j \in Jobs :
        /\ j.before \in Seq(Item) /\ j.after \in Seq(Item)
        /\ \A i \in DOMAIN j.before : ~StartsSchema(j.before[i])
        /\ j.types = <<>> => \A i \in DOMAIN j.after : ~StartsSchema(j.after[i])
        /\ j.after # <<>> => ~(IsBlock(j.after[1]) /\ j.after[1].ord = Len(j.types) + 1)

-----------------------------------------------------------------------------

NoBody   == [reqcode |-> 0, units |-> <<>>, pad |-> 0]
NoResult == [rows |-> <<>>, marks |-> <<>>, eoc |-> FALSE, says |-> <<>>]

Init ==
    /\ job \in Jobs
    /\ phase = "head"
    /\ got = 0 /\ taken = 0
    /\ body = NoBody /\ result = NoResult

Want == IF phase = "head" THEN 20 ELSE WireLen(job) - 20

\* Mutant: read_exact is content with what the first recv yields.
FilledOnce(n, want) == n > 0

\* When read_exact returns.
Filled(n, want) == n = want

\* recv yields all that is still wanted, or half of it.
Recv ==
    /\ phase \in {"head", "body"}
    /\ ~Filled(got, Want)
    /\ \E n \in {Want - got, (Want - got + 1) \div 2} :
          got' = got + n /\ taken' = taken + n
    /\ UNCHANGED <<job, phase, body, result>>

\* The peer closes or the receive times out, in the middle of a message too.
RecvThrows ==
    /\ phase \in {"head", "body"}
    /\ ~Filled(got, Want)
    /\ phase' = "broken"
    /\ UNCHANGED <<job, got, taken, body, result>>

\* recv_msg: another prefix than the session's, or a length under that of
\* the envelope or over the cap, is an IoError.
HeadRead ==
    /\ phase = "head" /\ Filled(got, Want)
    /\ phase' = IF job.head \in {"foreign", "short"} THEN "broken" ELSE "body"
    /\ got' = 0
    /\ UNCHANGED <<job, taken, body, result>>

\* send_recv_compressed: a body with the flag is inflated, unless it has
\* fewer bytes than it says; any other is returned with its padding.
Unpack ==
    /\ phase = "body" /\ Filled(got, Want)
    /\ IF job.deflated /\ job.head = "overlong"
       THEN phase' = "broken" /\ UNCHANGED body
       ELSE phase' = "parse" /\ body' = Sent(job)
    /\ UNCHANGED <<job, got, taken, result>>

\* The columns of the statement, from the reply to its Prepare.
columns == Columns(Payload(job), FirstBlock(Payload(job)))

Return(r) == phase' = "done" /\ result' = r
Throw     == phase' = "failed" /\ UNCHANGED result

\* start_streaming, and Bind's probe: parse_schema.
ParsePrepare ==
    /\ job.ask = "prepare"
    /\ LET first == FirstBlock(Payload(job))
       IN IF first = 0 THEN Throw
          ELSE Return([NoResult EXCEPT !.says = Columns(Payload(job), first)])

\* The poll loop of CursorRunner looks at no more than this.
ParseExecute ==
    /\ job.ask = "execute"
    /\ Return([NoResult EXCEPT !.eoc = NotReady(body)])

ParseTables ==
    /\ job.ask = "tables"
    /\ IF TablesFail(body) THEN Throw ELSE Return([NoResult EXCEPT !.says = TableNames(body)])

ParseBlob ==
    /\ job.ask = "blob"
    /\ IF BlobFails(body) THEN Throw ELSE Return([NoResult EXCEPT !.says = <<body.units[3]>>])

\* Mutant: any exception of a block read is taken for the end.
SwallowsWireError(b) == FALSE

Malformed(b) == WireFails(b)

\* next_block.
ParseBlock ==
    /\ job.ask = "read"
    /\ IF NothingToRead(body) THEN Return([NoResult EXCEPT !.eoc = TRUE])
       ELSE IF Malformed(body) THEN Throw
       ELSE LET rows == BlockRows(body, RecordSize(columns))
            IN /\ phase' = "decode"
               /\ result' = [NoResult EXCEPT !.rows = rows, !.marks = BlockBookmarks(body, rows),
                                             !.eoc = EndsBlock(body)]

Parse ==
    /\ phase = "parse"
    /\ ParsePrepare \/ ParseExecute \/ ParseTables \/ ParseBlob \/ ParseBlock
    /\ UNCHANGED <<job, got, taken, body>>

Mark(i) == IF i <= Len(result.marks) THEN result.marks[i] ELSE <<>>

\* The server finds a blob by row and column (external); an unknown key is an
\* error reply.
KeyOf(r) == [md5 |-> Md5(r), pk |-> PrimaryKey(job, r), phys |-> r]
Fetch(key, c) == {Blob(r, c) : r \in {r \in 1..job.rows : KeyOf(r) = key}}

\* A blob cell: a zero handle is NULL, any other is fetched, and is NULL where
\* the fetch fails under LENIENT_DECODE.
Resolved(row, i, c, cell) ==
    IF cell.t # "handle" THEN cell
    ELSE LET found == Fetch(BlobKey(row, columns, Mark(i)), c)
         IN IF AllZero(cell.v) \/ found = {} THEN Null
            ELSE [t |-> "bytes", v |-> CHOOSE b \in found : TRUE]

FetchFails(row, i) ==
    \E c \in DOMAIN columns :
        LET cell == DecodeRecord(row, columns)[c]
        IN /\ cell.t = "handle" /\ ~AllZero(cell.v)
           /\ Fetch(BlobKey(row, columns, Mark(i)), c) = {}

\* decode_batch_with_blobs: an undecodable row, or a blob that cannot be
\* fetched, throws without LENIENT_DECODE; with it the row, or the cell, is
\* NULL (an empty row stands for all of its cells).
Decode ==
    /\ phase = "decode"
    /\ LET Bad(i) == Undecodable(result.rows[i], columns)
       IN IF ~job.lenient /\ \E i \in DOMAIN result.rows : Bad(i) \/ FetchFails(result.rows[i], i)
          THEN Throw
          ELSE /\ phase' = "write"
               /\ result' = [result EXCEPT !.rows =
                     [i \in DOMAIN @ |->
                         IF Bad(i) THEN <<>>
                         ELSE LET cells == DecodeRecord(@[i], columns)
                              IN [c \in DOMAIN cells |-> Resolved(@[i], i, c, cells[c])]]]
    /\ UNCHANGED <<job, got, taken, body>>

\* Execute of dbisam_scan and of an attached scan: a row without the cell has
\* NULL there.
Write ==
    /\ phase = "write"
    /\ Return([result EXCEPT !.rows =
         [i \in DOMAIN @ |-> [c \in DOMAIN columns |->
             IF c > Len(@[i]) THEN Null ELSE Written(columns[c].type, @[i][c])]]])
    /\ UNCHANGED <<job, got, taken, body>>

Over == phase \in {"done", "failed", "broken"} /\ UNCHANGED vars

Next == Recv \/ RecvThrows \/ HeadRead \/ Unpack \/ Parse \/ Decode \/ Write \/ Over

Spec == Init /\ [][Next]_vars

-----------------------------------------------------------------------------
(***************************************************************************)
(* Properties.                                                             *)
(***************************************************************************)

Phases == {"head", "body", "parse", "decode", "write", "done", "failed", "broken"}

\* Types of the variables.
TypeOK ==
    /\ job \in Jobs /\ phase \in Phases
    /\ got \in Nat /\ taken \in Nat
    /\ DOMAIN body = {"reqcode", "units", "pad"} /\ body.pad \in 0..7
    /\ DOMAIN result = {"rows", "marks", "eoc", "says"} /\ result.eoc \in BOOLEAN

\* What has been taken at each phase, and that what is parsed is what was sent.
Parsed == {"parse", "decode", "write", "done", "failed"}
MessageInv ==
    /\ phase = "head" => taken = got /\ got <= 20
    /\ phase = "body" => taken = 20 + got
    /\ phase \in {"body", "broken"} => taken <= WireLen(job)
    /\ phase \in Parsed => taken = WireLen(job) /\ body = Sent(job)
    /\ phase \in {"decode", "write"} => job.ask = "read"

\* The inductive invariant.
ReplyInv == TypeOK /\ MessageInv

\* However recv cuts the reply up, nobody looks at it before all of its bytes
\* are there, and none of the next reply is taken with it: the socket stands
\* at a message boundary for the request that comes next.
MessageWhole ==
    /\ taken <= WireLen(job)
    /\ phase \in Parsed => taken = WireLen(job)

\* The columns found in a Prepare reply are those of the statement, with their
\* types, widths and offsets, whatever lies before and behind their blocks: no
\* block is missed, and none of another table's is taken.  Only a reply
\* without blocks is refused.
SchemaExact ==
    job.ask = "prepare" =>
        /\ phase = "done" => result.says = SentColumns(job.types)
        /\ phase = "failed" => job.types = <<>>

\* Blocks that carry rows, and how many the server put in.
WithRows == job.shape \in {"whole", "unmarked"}
RowsSent == IF WithRows THEN job.rows ELSE 0

\* Records no more than 32 bytes off the size the client expects.
Recognised == WithRows => job.tail <= 32

BadRow(r) ==
    \/ job.tail < 0
    \/ \E c \in DOMAIN job.types :
          <<r, c>> \notin job.nulls /\ (r \in job.bad \/ job.types[c] = "Unknown")

NeedsMark(r) ==
    \E c \in DOMAIN job.types :
        job.types[c] \in HandleTypes /\ <<r, c>> \notin job.nulls /\ HasBlob(job, r, c)

\* A block without its last units fails where its frame has one to three bytes
\* of padding (the walker takes them for a length cut short), and only there.
CutByPadding == job.shape \in {"unmarked", "uncounted"} /\ ~job.deflated /\ Padding(BodyLen(Units(job))) \in 1..3

Refused ==
    \/ job.shape = "cut" \/ CutByPadding
    \/ /\ ~job.lenient
       /\ \E r \in 1..RowsSent : BadRow(r) \/ (job.shape = "unmarked" /\ NeedsMark(r))

\* Every block read is judged for what the server meant: the scan goes on
\* after RESULT_OK and ends after any other code, an empty body or the polling
\* code; it fails on nothing but a reply that breaks off and rows and blobs
\* that cannot be decoded (and see CutByPadding).  Where the client recognises
\* the records, it fails on each of those, and keeps all the rows that came.
\* Of records it does not recognise nothing of the kind is claimed: the code
\* drops them without an error (finding 1, ScanFaults).
VerdictSound ==
    job.ask = "read" =>
        /\ phase = "done" =>
             /\ result.eoc = (job.code # RESULT_OK \/ job.shape \in {"blank", "sentinel"})
             /\ Recognised => Len(result.rows) = RowsSent /\ ~Refused
        /\ phase = "failed" => Refused

Expected(r, c) ==
    LET type == job.types[c]
    IN IF \/ BadRow(r) \/ <<r, c>> \in job.nulls \/ type = "Calculated"
          \/ type \in HandleTypes /\ (~HasBlob(job, r, c) \/ job.shape = "unmarked")
       THEN Null
       ELSE [t |-> Storage[LogicalType(type)],
             v |-> IF type \in HandleTypes THEN BlobShows(job, r, c) ELSE StoredAt(job, r, c).shows]

\* Each cell DuckDB gets is the value the server stored in that row and column,
\* in the representation of the vector it is written to: no field is read at
\* another's offset, no sign, epoch, scale or character set is mistaken, a blob
\* is its own row's and column's; and it is NULL only for NULL, for a field
\* without a value, or, under LENIENT_DECODE, for what could not be decoded.
CellsExact ==
    job.ask = "read" /\ phase = "done" =>
        \A r \in DOMAIN result.rows :
            \A c \in DOMAIN job.types : result.rows[r][c] = Expected(r, c)

\* A cursor is taken for not ready on the result code and the polling code that
\* say so, and for ready on anything else; and an error reply, or one that
\* breaks off, is never taken for a blob.  The names
\* list_tables returns are those the server listed, in order; a list that breaks
\* off, a name of no or more than 256 characters, and a result code in place of
\* a list are refused, but for the code of success, and so are more than a
\* million names; nothing else is.
AnswersExact ==
    /\ job.ask = "execute" =>
         phase # "failed" /\ (phase = "done" =>
             result.eoc = (job.code = RESULT_NOT_READY \/ job.shape = "sentinel"))
    /\ job.ask = "blob" =>
         /\ phase = "done" => job.shape # "sentinel" /\ result.says = <<Unit(job.rows, job.shift)>>
         /\ phase = "failed" => job.shape = "sentinel" \/ job.tail # 0
    /\ job.ask = "tables" =>
         /\ phase = "done" =>
               IF job.shape = "sentinel" THEN job.code = RESULT_OK /\ result.says = <<>>
               ELSE /\ job.rows <= Len(job.names)
                    /\ result.says = [k \in 1..job.rows |-> job.names[k].is]
         /\ phase = "failed" =>
               \/ job.shape = "sentinel" \/ job.rows > Len(job.names) \/ job.rows > MaxTables
               \/ \E k \in 1..job.rows : job.names[k].n \notin 1..256

=============================================================================
