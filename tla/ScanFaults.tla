----------------------------- MODULE ScanFaults -----------------------------
(***************************************************************************)
(* The scan against a server whose reply to a block read is not one of the *)
(* clean blocks of ScanSession.  What the client makes of such a reply is  *)
(* ScanSession's own: next_block's early returns for short bodies and for  *)
(* the polling sentinel, its test of the result code, and the block parser *)
(* that leaves out rows whose record size it does not recognise.           *)
(***************************************************************************)
EXTENDS ScanSession

CONSTANT StreamFaults   \* which such replies the server sends, by the names below

\* "notReady": the polling sentinel; "short": fewer than 13 bytes;
\* "errorCode": a result code that is neither RESULT_OK nor end of cursor;
\* "misshapen": RESULT_OK and a row buffer that the row count does not divide.
SrvFault ==
    /\ Pending /\ Asked \in {"ReadFirst", "ReadNext"}
    /\ \/ "notReady" \in StreamFaults /\ Reply("notReady", <<>>) /\ pos' = ReadBase
       \/ "short" \in StreamFaults /\ Reply("blank", <<>>) /\ pos' = ReadBase
       \/ "errorCode" \in StreamFaults /\ Reply("end", <<>>) /\ pos' = ReadBase
       \/ /\ "misshapen" \in StreamFaults
          /\ \E n \in 1..Min2(BatchSize, NRows - ReadBase) :
                Reply("ok", <<>>) /\ pos' = ReadBase + n
    /\ UNCHANGED <<clientVars, dataVars, srvOpen>>

FaultySpec == Init /\ [][Next \/ SrvFault]_vars

\* "A malformed mid-stream response is a protocol error, not end-of-cursor --
\* swallowing it here would silently truncate the result set ... only a
\* cleanly-empty Pack stream (nullopt) means the server has nothing more"
\* (cursor.cpp, next_block): a scan never ends well with rows missing.
NoSilentTruncation == outcome = "done" => Len(emitted) = NRows

=============================================================================
