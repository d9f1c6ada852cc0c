------------------------------- MODULE Record -------------------------------
(***************************************************************************)
(* Columns and rows: parse_schema, decode_record, the row loop of          *)
(* decode_batch_with_blobs, and the cells that dbisam_scan and the         *)
(* attached scan write to DuckDB's vectors.  A byte is a number.  Numbers  *)
(* of eight bytes keep within 32 bits, a binary64 stands for its quarters, *)
(* and a timestamp counts quarter days in place of microseconds.           *)
(***************************************************************************)
EXTENDS Text, FiniteSetsExt

HandleTypes == {"Blob", "Memo", "Graphic"}

-----------------------------------------------------------------------------
(***************************************************************************)
(* The schema: a payload is a sequence of column blocks and other bytes.   *)
(***************************************************************************)

\* field_type_from_sub, of the bytes at 0xA7, 0xA8 and 0x250 of a block.
FieldType(sub, a8, x) ==
    CASE sub = 0  -> "Calculated"  [] sub = 1  -> "String"    [] sub = 2  -> "Date"
      [] sub = 3  -> (CASE a8 = 0 -> "Blob" [] a8 = 22 -> "Memo" [] a8 = 26 -> "Graphic" [] OTHER -> "Unknown")
      [] sub = 4  -> "Boolean"     [] sub = 5  -> "Smallint"
      [] sub = 6  -> IF a8 = 29 THEN "AutoInc" ELSE "Integer"
      [] sub = 7  -> IF x = 10 THEN "Currency" ELSE "Float"
      [] sub = 9  -> "Bytes"       [] sub = 10 -> "Time"      [] sub = 11 -> "DateTime"
      [] sub = 15 -> "VarBytes"    [] sub = 18 -> "Largeint"  [] OTHER    -> "Unknown"

\* parse_one_block accepts a block with the marker and a name.
IsBlock(item) == item.marker /\ item.named

\* Where find_first_block_start stops; 0 where it throws.
StartsSchema(item) == IsBlock(item) /\ item.ord = 1
FirstBlock(payload) ==
    LET starts == {i \in DOMAIN payload : StartsSchema(payload[i])}
    IN IF starts = {} THEN 0 ELSE Min(starts)

\* Mutant: blocks are taken whatever their ordinal.
RunWhateverOrd(payload, first) ==
    CHOOSE n \in 1..Len(payload) :
        /\ \A i \in 1..n : first + i - 1 <= Len(payload) /\ IsBlock(payload[first + i - 1])
        /\ first + n > Len(payload) \/ ~IsBlock(payload[first + n])

\* The number of blocks from the first on with the ordinals 1, 2, 3, ...
BlockRun(payload, first) ==
    LET Fits(i) == /\ first + i - 1 <= Len(payload)
                   /\ IsBlock(payload[first + i - 1])
                   /\ payload[first + i - 1].ord = i
    IN CHOOSE n \in 1..Len(payload) : (\A i \in 1..n : Fits(i)) /\ ~Fits(n + 1)

Columns(payload, first) ==
    [i \in 1..BlockRun(payload, first) |->
        LET block == payload[first + i - 1]
        IN [type |-> FieldType(block.sub, block.a8, block.x), max |-> block.max, off |-> block.off]]

\* compute_record_size.
RecordSize(columns) == Last(columns).off + Last(columns).max + 1

-----------------------------------------------------------------------------
(***************************************************************************)
(* A field: cells are [t |-> alternative of CellValue, v |-> content].     *)
(***************************************************************************)

Null == [t |-> "null", v |-> <<>>]

\* Little-endian numbers.
U16(b) == b[1] + 256 * b[2]
I16(b) == IF b[2] < 128 THEN U16(b) ELSE U16(b) - 65536
I32(b) == U16(b) + 65536 * (b[3] + 256 * (IF b[4] < 128 THEN b[4] ELSE b[4] - 256))

\* Mutant: the fraction of a day keeps its sign.
DaysSigned(q) == q - 4 * 25569

\* A TDateTime in quarter days from 1899-12-30: days truncated toward zero,
\* and a fraction that counts forward on either side.
UnixQuarters(q) ==
    LET whole == IF q < 0 THEN -((-q) \div 4) ELSE q \div 4
        frac  == q - 4 * whole
    IN 4 * (whole - 25569) + (IF frac < 0 THEN -frac ELSE frac)

UpToZero(b) ==
    LET zeros == {i \in DOMAIN b : b[i] = 0}
    IN IF zeros = {} THEN b ELSE SubSeq(b, 1, Min(zeros) - 1)

Needs == [Date |-> 4, DateTime |-> 8, Time |-> 4, Integer |-> 4, AutoInc |-> 4, Smallint |-> 2,
          Largeint |-> 8, Boolean |-> 2, Float |-> 8, Currency |-> 8, Blob |-> 8, Memo |-> 8, Graphic |-> 8]

\* decode_field; a Float and a Currency count ten-thousandths.
DecodeField(type, b) ==
    CASE type = "Calculated"                              -> Null
      [] type = "String"                                  -> [t |-> "string", v |-> UpToZero(b)]
      [] type \in {"Bytes", "VarBytes"}                   -> [t |-> "bytes", v |-> b]
      [] type \in DOMAIN Needs /\ Len(b) < Needs[type]    -> Null
      [] type = "Date"                                    -> [t |-> "i32", v |-> <<I32(b) - 719162>>]
      [] type = "DateTime"                                -> [t |-> "i64", v |-> <<UnixQuarters(I32(b))>>]
      [] type = "Time"                                    -> [t |-> "i64", v |-> <<1000 * I32(b)>>]
      [] type \in {"Integer", "AutoInc"}                  -> [t |-> "i32", v |-> <<I32(b)>>]
      [] type = "Smallint"                                -> [t |-> "i32", v |-> <<I16(b)>>]
      [] type = "Largeint"                                -> [t |-> "i64", v |-> <<I32(b)>>]
      [] type = "Boolean"                                 -> [t |-> "bool", v |-> <<IF U16(b) # 0 THEN 1 ELSE 0>>]
      [] type = "Float"                                   -> [t |-> "double", v |-> <<2500 * I32(b)>>]
      [] type = "Currency"                                -> [t |-> "double", v |-> <<I32(b)>>]
      [] type \in HandleTypes                             -> [t |-> "handle", v |-> SubSeq(b, 1, 8)]

-----------------------------------------------------------------------------
(***************************************************************************)
(* A row.                                                                  *)
(***************************************************************************)

NullFlag(row, column)   == row[column.off + 1]
ValueBytes(row, column) == SubSeq(row, column.off + 2, column.off + 1 + column.max)

\* decode_batch_with_blobs and decode_record throw on a row that is shorter
\* than its columns, has a null flag other than 0 and 1, or a value whose type
\* is not known.
Undecodable(row, columns) ==
    \/ Len(row) < RecordSize(columns)
    \/ \E i \in DOMAIN columns :
          \/ NullFlag(row, columns[i]) \notin {0, 1}
          \/ NullFlag(row, columns[i]) = 1 /\ columns[i].type = "Unknown"

DecodeRecord(row, columns) ==
    [i \in DOMAIN columns |->
        IF NullFlag(row, columns[i]) = 0 THEN Null
        ELSE DecodeField(columns[i].type, ValueBytes(row, columns[i]))]

AllZero(b) == \A i \in DOMAIN b : b[i] = 0

\* physical_record_number_from_bookmark: the last four bytes, the first bit
\* of them a flag.
Physical(mark) ==
    IF Len(mark) < 4 THEN 0
    ELSE LET b == Reverse(SubSeq(mark, Len(mark) - 3, Len(mark)))
         IN I32([b EXCEPT ![4] = @ % 128])

\* What a blob of a row is asked by: the row's checksum, the bytes of its
\* first column and its physical record.
BlobKey(row, columns, mark) ==
    [md5 |-> SubSeq(row, 10, 25), pk |-> ValueBytes(row, columns[1]), phys |-> Physical(mark)]

-----------------------------------------------------------------------------
(***************************************************************************)
(* DuckDB's side: the vector a column gets, and what is written into it.   *)
(***************************************************************************)

\* map_field_type, for every column DuckDB creates a vector for.
LogicalType(type) ==
    CASE type \in {"String", "Memo", "Calculated", "Unknown"}      -> "VARCHAR"
      [] type = "Date"                                             -> "DATE"
      [] type = "DateTime"                                         -> "TIMESTAMP"
      [] type = "Time"                                             -> "TIME"
      [] type \in {"Integer", "AutoInc", "Smallint"}               -> "INTEGER"
      [] type = "Largeint"                                         -> "BIGINT"
      [] type = "Boolean"                                          -> "BOOLEAN"
      [] type \in {"Float", "Currency"}                            -> "DOUBLE"
      [] type \in {"Blob", "Graphic", "Bytes", "VarBytes"}         -> "BLOB"

\* How DuckDB keeps the values of a vector (external).
Storage == [VARCHAR |-> "string_t", BLOB |-> "string_t", DATE |-> "int32_t", INTEGER |-> "int32_t",
            TIMESTAMP |-> "int64_t", TIME |-> "int64_t", BIGINT |-> "int64_t",
            BOOLEAN |-> "bool", DOUBLE |-> "double"]

\* write_cell and WriteCell: a cell goes in as its field type says; a cell
\* that holds another alternative becomes NULL.
Written(type, cell) ==
    CASE type \in {"String", "Memo", "Calculated", "Unknown"} /\ cell.t \in {"string", "bytes"} ->
            [t |-> "string_t", v |-> DecodeText(cell.v)]
      [] type \in {"Date", "Integer", "AutoInc", "Smallint"} /\ cell.t = "i32" ->
            [t |-> "int32_t", v |-> cell.v]
      [] type \in {"DateTime", "Time", "Largeint"} /\ cell.t = "i64" ->
            [t |-> "int64_t", v |-> cell.v]
      [] type = "Boolean" /\ cell.t = "bool"                 -> cell
      [] type \in {"Float", "Currency"} /\ cell.t = "double" -> cell
      [] type \in {"Blob", "Graphic", "Bytes", "VarBytes"} /\ cell.t \in {"bytes", "handle"} ->
            [t |-> "string_t", v |-> cell.v]
      [] OTHER -> Null

=============================================================================
