------------------------------- MODULE MCReply -------------------------------
(***************************************************************************)
(* Replies for TLC: every shape of a block reply at every length of padding*)
(* with and without compression; rows of each field type alone, in pairs   *)
(* with each other kind of field, and in threes; schemas between other     *)
(* blocks; lists of tables; blob replies.                                  *)
(***************************************************************************)
EXTENDS Reply

Base == [ask |-> "read", deflated |-> FALSE, head |-> "good", shape |-> "whole", code |-> RESULT_OK,
         mark |-> 0, tail |-> 0, types |-> <<"String", "Integer", "Blob">>, rows |-> 2, shift |-> 0,
         nulls |-> {}, bad |-> {}, lenient |-> FALSE, names |-> <<>>, before |-> <<Other>>, after |-> <<>>]

AllTypes == DOMAIN SubCodes

FrameJobs == {[Base EXCEPT !.deflated = d, !.head = h] : d \in BOOLEAN, h \in Heads}

BlockJobs ==
    {[Base EXCEPT !.deflated = d, !.shape = s, !.code = code, !.mark = m, !.rows = n, !.lenient = l] :
        d \in BOOLEAN, s \in Shapes, code \in {RESULT_OK, RESULT_END_OF_CURSOR, RESULT_NOT_READY},
        m \in 0..7, n \in 0..2, l \in BOOLEAN}
    \cup {[Base EXCEPT !.tail = t, !.rows = n, !.lenient = l] :
            t \in {-2, 0, 7, 32, 33}, n \in 1..2, l \in BOOLEAN}

Layouts ==
    {<<t>> : t \in AllTypes}
    \cup {<<t, u>> : t \in AllTypes, u \in {"String", "Smallint", "Memo", "Unknown"}}
    \cup {<<t, "Boolean", u>> : t \in {"String", "AutoInc"}, u \in HandleTypes \cup {"DateTime"}}

RowJobs ==
    {[Base EXCEPT !.types = ts, !.shift = k, !.lenient = l, !.bad = bad, !.nulls = nulls] :
        ts \in Layouts, k \in 0..4, l \in BOOLEAN, bad \in {{}, {2}},
        nulls \in {{}, {<<1, 1>>}, {<<2, 1>>, <<1, 2>>}}}

Stranger == [Block(<<"Date">>, 1) EXCEPT !.named = FALSE]

SchemaJobs ==
    {[Base EXCEPT !.ask = "prepare", !.types = ts, !.before = b, !.after = a] :
        ts \in Layouts, b \in {<<Other>>, <<Other, Stranger>>},
        a \in {<<>>, <<Other>>, <<Block(<<"Time">>, 1)>>, <<Other, [Block(<<"Time">>, 1) EXCEPT !.ord = 2]>>}}
    \cup {[Base EXCEPT !.ask = "prepare", !.types = <<>>, !.before = b] : b \in {<<>>, <<Other>>, <<Other, Stranger>>}}

OtherJobs ==
    {[Base EXCEPT !.ask = "execute", !.deflated = d, !.shape = s, !.code = code] :
        d \in BOOLEAN, s \in {"whole", "sentinel"}, code \in {RESULT_OK, RESULT_NOT_READY}}
    \cup {[Base EXCEPT !.ask = "blob", !.deflated = d, !.shape = s, !.rows = n, !.tail = t, !.code = code] :
            d \in BOOLEAN, s \in {"whole", "sentinel"}, n \in 3..6, t \in 0..1, code \in {RESULT_OK, 8706}}
    \cup {[Base EXCEPT !.ask = "tables", !.deflated = d, !.shape = s, !.rows = n, !.code = code,
                       !.names = [k \in 1..3 |-> Unit(IF k = 2 THEN len ELSE 5, k)]] :
            d \in BOOLEAN, s \in {"whole", "sentinel"}, n \in 0..4, len \in {0, 1, 256, 257},
            code \in {RESULT_OK, 8706}}

AllJobs == FrameJobs \cup BlockJobs \cup RowJobs \cup SchemaJobs \cup OtherJobs

\* Values at the boundaries of decoding: sign, epoch, scale, the second word.
MCNumbers ==
    [Boolean |-> <<1, 0>>, Smallint |-> <<-2, 300>>, Integer |-> <<-7, 2147483647>>,
     AutoInc |-> <<-7, 2147483647>>, Largeint |-> <<-5, 100000>>, Float |-> <<-6, 10>>,
     Currency |-> <<-12345, 20000>>, Date |-> <<0, -1, 19000>>, Time |-> <<0, 2000001>>,
     DateTime |-> <<7, -3, -102279, -102274>>]

\* TLC keeps the value of a definition, but not of one that stands for a constant.
MCJobs == AllJobs

=============================================================================
