------------------------------- MODULE MCBlob -------------------------------
(* Two blocks of up to three blob cells, a flush before the third. *)
EXTENDS BlobBatch

MCFaults == {"timeout", "torn", "disconnect"}

=============================================================================
