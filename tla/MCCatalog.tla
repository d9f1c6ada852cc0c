----------------------------- MODULE MCCatalog -----------------------------
(* Two threads, two tables and a name the server does not have. *)
EXTENDS Catalog

CONSTANTS t1, t2, nobody

MCThreads == {t1, t2}
MCNames   == {"customer", "orders", "nosuch"}
MCTables  == <<"customer", "orders">>

=============================================================================
