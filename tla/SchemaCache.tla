---------------------------- MODULE SchemaCache ----------------------------
(***************************************************************************)
(* What the catalog of an attached database promises to DuckDB: a cache    *)
(* with a slot for each table and kind of entry, each filled at most once, *)
(* whose entries are the only ones ever given out, the typed ones alone to *)
(* plans; and an eager load that is done when every table it wants is in   *)
(* the cache or was refused by the server.                                 *)
(***************************************************************************)
EXTENDS Naturals

CONSTANTS
    Slots,      \* the places of the cache
    TypedSlots, \* those whose entries know their columns
    Wanted      \* those an eager load fills

VARIABLES
    cache,      \* the identity of the entry in each slot, 0 for none
    plans,      \* entries that query plans hold
    shown,      \* entries that listings have shown
    refused,    \* slots the server would not fill
    loaded      \* the eager load is done

cacheVars == <<cache, plans, shown, refused, loaded>>

Init ==
    /\ cache = [s \in Slots |-> 0]
    /\ plans = {} /\ shown = {} /\ refused = {}
    /\ loaded = FALSE

\* An entry never owned or given out before takes an empty slot.
Fill(s) ==
    LET entry == cache'[s] IN
    /\ cache[s] = 0
    /\ entry \notin {0} \cup {cache[r] : r \in Slots} \cup plans \cup shown
    /\ cache' = [cache EXCEPT ![s] = entry]

\* A slot's entry, made now or long ago, goes to a plan, a listing or nobody.
Serve(s) ==
    /\ Fill(s) \/ (cache[s] # 0 /\ UNCHANGED cache)
    /\ \/ UNCHANGED <<plans, shown>>
       \/ s \in TypedSlots /\ plans' = plans \cup {cache'[s]} /\ UNCHANGED shown
       \/ shown' = shown \cup {cache'[s]} /\ UNCHANGED plans
    /\ UNCHANGED <<refused, loaded>>

\* The server has no such table, or does not say so clearly.
Refuse(s) ==
    /\ s \in TypedSlots
    /\ refused' = refused \cup {s}
    /\ UNCHANGED <<cache, plans, shown, loaded>>

FinishLoad ==
    /\ \A s \in Wanted : cache[s] # 0 \/ s \in refused
    /\ loaded' = TRUE
    /\ UNCHANGED <<cache, plans, shown, refused>>

Next == FinishLoad \/ \E s \in Slots : Serve(s) \/ Refuse(s)

Spec == Init /\ [][Next]_cacheVars

=============================================================================
