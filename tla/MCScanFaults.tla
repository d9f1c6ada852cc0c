---------------------------- MODULE MCScanFaults ----------------------------
(* A scan whose server answers block reads with the polling sentinel, or    *)
(* with a block whose row buffer the row count does not divide.             *)
EXTENDS ScanFaults

MCBadRowSets == {{}}
=============================================================================
