-------------------------------- MODULE Wire --------------------------------
(***************************************************************************)
(* Reply bodies as the client reads them.  A body is seven bytes of header *)
(* and a stream of Pack units, each a length and that many bytes; here a   *)
(* unit is [n |-> its length, is |-> what the bytes say].  A body that was *)
(* not compressed still carries the zero bytes that round its frame up to  *)
(* a multiple of eight, and the walker reads on into them.                 *)
(***************************************************************************)
EXTENDS Integers, Sequences, SequencesExt

Unit(n, is) == [n |-> n, is |-> is]

\* Mutant: a length that is a multiple of eight is padded too.
PaddingUnrounded(len) == 8 - ((20 + len) % 8)

\* The length of a body: its header's and, for each unit, its own and its prefix's.
BodyLen(units) ==
    LET len[k \in 0..Len(units)] == IF k = 0 THEN 7 ELSE len[k - 1] + 4 + units[k].n
    IN len[Len(units)]
Padding(len)   == (8 - ((20 + len) % 8)) % 8

\* The walker over a body [units, pad]: unit k is there, or is a zero length
\* read from four bytes of padding, or is cut short by the end of the body.
Left(body, k)     == body.pad - 4 * (k - Len(body.units) - 1)
HasUnit(body, k)  == k <= Len(body.units) \/ Left(body, k) >= 4
Overruns(body, k) == k > Len(body.units) /\ Left(body, k) \in 1..3
UnitAt(body, k)   == IF k <= Len(body.units) THEN body.units[k] ELSE Unit(0, 0)
Size(body)        == BodyLen(body.units) + body.pad

RESULT_OK            == 0
RESULT_NOT_READY     == 3
RESULT_END_OF_CURSOR == 8706
REQCODE_POLLING_SENTINEL == 11284

-----------------------------------------------------------------------------

\* Execute and Receive replies that say the cursor is not ready: the polling
\* request code, or a first unit that holds the result code of it.
NotReady(body) ==
    \/ body.reqcode = REQCODE_POLLING_SENTINEL
    \/ /\ Size(body) >= 13
       /\ UnitAt(body, 1) = Unit(2, RESULT_NOT_READY)

\* The lengths CursorInfo::read expects in units 2 to 11; -1: any.
CursorInfoSizes == <<4, 4, 4, 4, 4, 8, 4, -1, 1, 1>>

CursorInfoReads(body) ==
    \A i \in 1..10 : /\ HasUnit(body, i + 1)
                     /\ CursorInfoSizes[i] \in {-1, UnitAt(body, i + 1).n}

\* read_record_block_batch: the first unit it misses ends the block, quietly
\* where nothing is left of the body and with WireError where one to three
\* bytes are.
WireFails(body) ==
    \/ Overruns(body, 1)
    \/ HasUnit(body, 1) /\ UnitAt(body, 1).n # 2
    \/ HasUnit(body, 1) /\ ~CursorInfoReads(body)
    \/ Overruns(body, 12)
    \/ HasUnit(body, 12) /\ UnitAt(body, 12).n = 4 /\ (Overruns(body, 13) \/ Overruns(body, 14))

\* A record may differ this much from what the schema makes of its size.
SizeFits(size, expected) == size \in (expected - 32)..(expected + 32)

\* The unit k, count slices of equal length of it; none where that fails.
Slices(body, k, count) ==
    IF count > 0 /\ HasUnit(body, k) /\ UnitAt(body, k).n % count = 0
    THEN LET per   == UnitAt(body, k).n \div count
             bytes == IF per = 0 THEN <<>> ELSE UnitAt(body, k).is
         IN [i \in 1..count |-> SubSeq(bytes, (i - 1) * per + 1, i * per)]
    ELSE <<>>

RowCount(body) == IF HasUnit(body, 12) /\ UnitAt(body, 12).n = 4 THEN UnitAt(body, 12).is ELSE 0

BlockRows(body, expected) ==
    LET rows == Slices(body, 13, RowCount(body))
    IN IF rows # <<>> /\ SizeFits(Len(rows[1]), expected) THEN rows ELSE <<>>

BlockBookmarks(body, rows) ==
    IF rows = <<>> THEN <<>> ELSE Slices(body, 14, RowCount(body))

\* next_block ends the cursor on these before it looks at any unit.
NothingToRead(body) == Size(body) < 13 \/ body.reqcode = REQCODE_POLLING_SENTINEL

EndsBlock(body) == ~HasUnit(body, 1) \/ UnitAt(body, 1).is # RESULT_OK

-----------------------------------------------------------------------------

\* list_tables reads the count, then the names, at fixed places: the first
\* unit's four bytes and the units behind it.  A reply that holds a two-byte
\* result code alone yields that code for the count, when padding fills it up.
TableCount(body) == UnitAt(body, 1).is
MaxTables == 1000000

\* Mutant: a name may be empty.
EmptyNamePasses(body) ==
    \/ Size(body) < 15
    \/ TableCount(body) > MaxTables
    \/ \E k \in 1..TableCount(body) : ~HasUnit(body, k + 1) \/ UnitAt(body, k + 1).n > 256

TablesFail(body) ==
    \/ Size(body) < 15
    \/ TableCount(body) > MaxTables
    \/ \E k \in 1..TableCount(body) : ~HasUnit(body, k + 1) \/ UnitAt(body, k + 1).n \notin 1..256
TableNames(body) == [k \in 1..TableCount(body) |-> UnitAt(body, k + 1).is]

\* parse_open_blob_response: slot echo, size, payload of that size.
BlobFails(body) ==
    \/ \E k \in 1..3 : ~HasUnit(body, k)
    \/ UnitAt(body, 2).n # 4
    \/ UnitAt(body, 3).n # UnitAt(body, 2).is

=============================================================================
