------------------------------- MODULE MCScan -------------------------------
(* A query over four rows on small blocks, for TLC: between Bind and the    *)
(* scan the table may gain a column or have one change its type.            *)
EXTENDS ScanFunction

MCBadRowSets == {{}, {2}}
MCBoundSchemas == {<<"Integer">>}
MCSchemas == {<<"Integer">>, <<"String">>, <<"Integer", "String">>}
=============================================================================
