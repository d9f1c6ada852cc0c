------------------------------ MODULE Catalog ------------------------------
(***************************************************************************)
(* The session-wide schema cache of an attached database: DbisamCatalog's  *)
(* GetTableNames, GetTableEntry, GetScanEntry and EnsureEagerLoaded, the   *)
(* schema entry's Scan and LookupEntry that call them, and the login of an *)
(* attached scan, which shares the server with their probes.  Any number   *)
(* of DuckDB threads call at once; the transaction object only forwards.   *)
(*                                                                         *)
(* Names are table names up to case, as the case-insensitive maps see      *)
(* them.  A probe or a listing holds schema_mutex_ over the whole of its   *)
(* connection; a critical section without network calls is one step.       *)
(***************************************************************************)
EXTENDS Naturals, Sequences, FiniteSets

CONSTANTS
    Threads,        \* DuckDB threads
    NoThread,       \* owner of a free mutex
    Names,          \* table names a statement may mention
    ServerTables,   \* the tables of the server, in the order it lists them
    Rejects,        \* the server may reject a login that overlaps another
    MaxOps          \* bound: calls each thread makes

ASSUME CatalogAssumption ==
    /\ NoThread \notin Threads
    /\ ServerTables \in Seq(Names)
    /\ Rejects \in BOOLEAN
    /\ MaxOps \in Nat

VARIABLES
    eager,          \* opts.eager_schema; never changes
    schemaLock, eagerLock,
    tablesLoaded, tableNames, eagerLoaded,
    full,           \* entries_: name -> identity of its entry, 0 for none
    bare,           \* scan_entries_: the same for name-only entries
    built,          \* entries made so far; the next one's identity
    pc, task,
    todo,           \* names the current loop has left; a lookup has the one
    rejected,       \* the login of the thread's connection was rejected
    calls,
    got,            \* history: names the current Scan has called back with
    result,         \* how the thread's last call ended
    plans,          \* history: entries LookupEntry has returned
    shown,          \* history: entries Scan has called back with
    missed          \* history: names a probe took for missing tables

locks   == <<schemaLock, eagerLock>>
listing == <<tablesLoaded, tableNames>>
maps    == <<full, bare, built>>
history == <<plans, shown, missed>>
vars    == <<eager, locks, listing, eagerLoaded, maps, pc, task, todo, rejected, calls, got,
             result, history>>

LoginPcs == {"loginNames", "loginProbe", "loginScan"}
HeldPcs  == {"loginNames", "listTables", "loginProbe", "probe"}   \* schema_mutex_ held
Pcs      == HeldPcs \cup {"idle", "load", "loaded?", "names", "next", "loginScan", "stream"}
Elems(f) == {f[x] : x \in DOMAIN f}
Tables   == Elems(ServerTables)

Init ==
    /\ eager \in BOOLEAN
    /\ schemaLock = NoThread /\ eagerLock = NoThread
    /\ tablesLoaded = FALSE /\ tableNames = <<>> /\ eagerLoaded = FALSE
    /\ full = [n \in Names |-> 0] /\ bare = [n \in Names |-> 0] /\ built = 0
    /\ pc = [t \in Threads |-> "idle"]
    /\ task = [t \in Threads |-> "none"]
    /\ todo = [t \in Threads |-> <<>>]
    /\ rejected = [t \in Threads |-> FALSE]
    /\ calls = [t \in Threads |-> 0]
    /\ got = [t \in Threads |-> <<>>]
    /\ result = [t \in Threads |-> "none"]
    /\ plans = {} /\ shown = {} /\ missed = {}

-----------------------------------------------------------------------------
(***************************************************************************)
(* Calls from DuckDB.                                                      *)
(***************************************************************************)

Begins(t, what, at, names) ==
    /\ pc[t] = "idle" /\ calls[t] < MaxOps
    /\ calls' = [calls EXCEPT ![t] = @ + 1]
    /\ task' = [task EXCEPT ![t] = what]
    /\ pc' = [pc EXCEPT ![t] = at]
    /\ todo' = [todo EXCEPT ![t] = names]
    /\ got' = [got EXCEPT ![t] = <<>>]
    /\ result' = [result EXCEPT ![t] = "none"]
    /\ UNCHANGED <<eager, locks, listing, eagerLoaded, maps, history>>

\* The server takes the login, or rejects it when another one is under way.
LoginStarts(t) ==
    \E r \in IF Rejects /\ \E u \in Threads \ {t} : pc[u] \in LoginPcs THEN BOOLEAN ELSE {FALSE} :
        rejected' = [rejected EXCEPT ![t] = r]

\* DbisamSchemaEntry::LookupEntry.
LookupEntry(t, name) ==
    /\ Begins(t, "lookup", "next", <<name>>)
    /\ UNCHANGED rejected

\* DbisamSchemaEntry::Scan.
Scan(t) ==
    /\ IF eager THEN Begins(t, "load", "load", <<>>) ELSE Begins(t, "list", "names", <<>>)
    /\ UNCHANGED rejected

\* DbisamAttachedScanInitGlobal on an entry some lookup returned: the
\* connection of the scan is opened under neither mutex.
OpenScan(t) ==
    /\ plans # {}
    /\ Begins(t, "query", "loginScan", <<>>)
    /\ LoginStarts(t)

-----------------------------------------------------------------------------
(***************************************************************************)
(* EnsureEagerLoaded, up to its loop and after it.                         *)
(***************************************************************************)

TakeEagerLock(t) ==
    /\ pc[t] = "load" /\ eagerLock = NoThread
    /\ eagerLock' = t
    /\ pc' = [pc EXCEPT ![t] = "loaded?"]
    /\ UNCHANGED <<eager, schemaLock, listing, eagerLoaded, maps, task, todo, rejected, calls, got, result, history>>

CheckLoaded(t) ==
    /\ pc[t] = "loaded?" /\ schemaLock = NoThread
    /\ pc' = [pc EXCEPT ![t] = "names"]
    /\ IF eagerLoaded THEN eagerLock' = NoThread /\ task' = [task EXCEPT ![t] = "list"]
                      ELSE UNCHANGED <<eagerLock, task>>
    /\ UNCHANGED <<eager, schemaLock, listing, eagerLoaded, maps, todo, rejected, calls, got, result, history>>

LoadDone(t) ==
    /\ pc[t] = "next" /\ task[t] = "load" /\ todo[t] = <<>>
    /\ schemaLock = NoThread
    /\ eagerLoaded' = TRUE
    /\ eagerLock' = NoThread
    /\ task' = [task EXCEPT ![t] = "list"]
    /\ pc' = [pc EXCEPT ![t] = "names"]
    /\ UNCHANGED <<eager, schemaLock, listing, maps, todo, rejected, calls, got, result, history>>

-----------------------------------------------------------------------------
(***************************************************************************)
(* GetTableNames.                                                          *)
(***************************************************************************)

\* Mutant: the load is marked done as soon as the names are known.
MarksLoadedEarly(t) ==
    /\ pc[t] = "listTables" /\ ~rejected[t]
    /\ tableNames' = ServerTables /\ tablesLoaded' = TRUE
    /\ eagerLoaded' = (eagerLoaded \/ task[t] = "load")
    /\ schemaLock' = NoThread
    /\ todo' = [todo EXCEPT ![t] = ServerTables]
    /\ pc' = [pc EXCEPT ![t] = "next"]
    /\ UNCHANGED <<eager, eagerLock, maps, task, rejected, calls, got, result, history>>

GetTableNames(t) ==
    /\ pc[t] = "names" /\ schemaLock = NoThread
    /\ IF tablesLoaded
       THEN /\ todo' = [todo EXCEPT ![t] = tableNames]
            /\ pc' = [pc EXCEPT ![t] = "next"]
            /\ UNCHANGED <<schemaLock, rejected>>
       ELSE /\ schemaLock' = t
            /\ pc' = [pc EXCEPT ![t] = "loginNames"]
            /\ LoginStarts(t)
            /\ UNCHANGED todo
    /\ UNCHANGED <<eager, eagerLock, listing, eagerLoaded, maps, task, calls, got, result, history>>

\* list_tables; a rejected connection gets no list, which ConnectionFails covers.
ListTables(t) ==
    /\ pc[t] = "listTables" /\ ~rejected[t]
    /\ tableNames' = ServerTables /\ tablesLoaded' = TRUE
    /\ schemaLock' = NoThread
    /\ todo' = [todo EXCEPT ![t] = ServerTables]
    /\ pc' = [pc EXCEPT ![t] = "next"]
    /\ UNCHANGED <<eager, eagerLock, eagerLoaded, maps, task, rejected, calls, got, result, history>>

-----------------------------------------------------------------------------
(***************************************************************************)
(* GetTableEntry and GetScanEntry, on the name at hand.                    *)
(***************************************************************************)

Name(t) == Head(todo[t])
Typed(t) == task[t] # "list" \/ eager     \* the loop at hand wants full entries

\* An entry goes to the caller: a lookup's plan, a Scan's callback, or, while
\* loading, nobody.
HandOver(t, entry) ==
    /\ plans' = IF task[t] = "lookup" THEN plans \cup {entry} ELSE plans
    /\ shown' = IF task[t] = "list" THEN shown \cup {entry} ELSE shown
    /\ got' = IF task[t] = "list" THEN [got EXCEPT ![t] = Append(@, Name(t))] ELSE got
    /\ todo' = [todo EXCEPT ![t] = Tail(@)]
    /\ pc' = [pc EXCEPT ![t] = "next"]

\* Mutant: the mutex is let go while the probe is on the network.
ProbesUnlocked(t) ==
    /\ pc[t] = "next" /\ todo[t] # <<>> /\ Typed(t) /\ schemaLock = NoThread
    /\ IF full[Name(t)] # 0
       THEN /\ HandOver(t, full[Name(t)])
            /\ UNCHANGED rejected
       ELSE /\ pc' = [pc EXCEPT ![t] = "loginProbe"]
            /\ LoginStarts(t)
            /\ UNCHANGED <<todo, got, plans, shown>>
    /\ UNCHANGED <<eager, locks, listing, eagerLoaded, maps, task, calls, result, missed>>

\* The cached entry, or a probe.
GetTableEntry(t) ==
    /\ pc[t] = "next" /\ todo[t] # <<>> /\ Typed(t) /\ schemaLock = NoThread
    /\ IF full[Name(t)] # 0
       THEN /\ HandOver(t, full[Name(t)])
            /\ UNCHANGED <<schemaLock, rejected>>
       ELSE /\ schemaLock' = t
            /\ pc' = [pc EXCEPT ![t] = "loginProbe"]
            /\ LoginStarts(t)
            /\ UNCHANGED <<todo, got, plans, shown>>
    /\ UNCHANGED <<eager, eagerLock, listing, eagerLoaded, maps, task, calls, result, missed>>

\* The schema of the table comes back, and its entry is built.
ProbeFinds(t) ==
    /\ pc[t] = "probe" /\ Name(t) \in Tables /\ ~rejected[t]
    /\ built' = built + 1
    /\ full' = [full EXCEPT ![Name(t)] = built + 1]
    /\ HandOver(t, built + 1)
    /\ schemaLock' = NoThread
    /\ UNCHANGED <<eager, eagerLock, listing, eagerLoaded, bare, task, rejected, calls, result, missed>>

\* Mutant: a refused probe is sent again.
RefusedRetries(t) ==
    /\ pc[t] = "probe" /\ (Name(t) \notin Tables \/ rejected[t])
    /\ pc' = [pc EXCEPT ![t] = "loginProbe"]
    /\ LoginStarts(t)
    /\ UNCHANGED <<eager, locks, listing, eagerLoaded, maps, task, todo, calls, got, result, history>>

\* Mutant: the missing entry is handed over like any other.
RefusedHandsNull(t) ==
    /\ pc[t] = "probe" /\ (Name(t) \notin Tables \/ rejected[t])
    /\ HandOver(t, 0)
    /\ schemaLock' = NoThread
    /\ UNCHANGED <<eager, eagerLock, listing, eagerLoaded, maps, task, rejected, calls, result, missed>>

\* No schema in the response (SchemaError): nullptr, that is, no such table.
\* A session whose login was rejected answers the statement in the same way.
ProbeRefused(t) ==
    /\ pc[t] = "probe" /\ (Name(t) \notin Tables \/ rejected[t])
    /\ missed' = missed \cup {Name(t)}
    /\ todo' = [todo EXCEPT ![t] = Tail(@)]
    /\ pc' = [pc EXCEPT ![t] = "next"]
    /\ result' = [result EXCEPT ![t] = IF task[t] = "lookup" THEN "notFound" ELSE @]
    /\ schemaLock' = NoThread
    /\ UNCHANGED <<eager, eagerLock, listing, eagerLoaded, maps, task, rejected, calls, got, plans, shown>>

\* Mutant: a name-only entry is made anew each time.
ScanEntryAnew(t) ==
    /\ pc[t] = "next" /\ todo[t] # <<>> /\ ~Typed(t) /\ schemaLock = NoThread
    /\ IF full[Name(t)] # 0 THEN HandOver(t, full[Name(t)]) /\ UNCHANGED <<bare, built>>
       ELSE /\ built' = built + 1
            /\ bare' = [bare EXCEPT ![Name(t)] = built + 1]
            /\ HandOver(t, built + 1)
    /\ UNCHANGED <<eager, locks, listing, eagerLoaded, full, task, rejected, calls, result, missed>>

\* GetScanEntry: the full entry, the name-only one, or a new name-only one.
GetScanEntry(t) ==
    /\ pc[t] = "next" /\ todo[t] # <<>> /\ ~Typed(t) /\ schemaLock = NoThread
    /\ IF full[Name(t)] # 0 THEN HandOver(t, full[Name(t)]) /\ UNCHANGED <<bare, built>>
       ELSE IF bare[Name(t)] # 0 THEN HandOver(t, bare[Name(t)]) /\ UNCHANGED <<bare, built>>
       ELSE /\ built' = built + 1
            /\ bare' = [bare EXCEPT ![Name(t)] = built + 1]
            /\ HandOver(t, built + 1)
    /\ UNCHANGED <<eager, locks, listing, eagerLoaded, full, task, rejected, calls, result, missed>>

CallDone(t) ==
    /\ pc[t] = "next" /\ task[t] # "load" /\ todo[t] = <<>>
    /\ pc' = [pc EXCEPT ![t] = "idle"]
    /\ result' = [result EXCEPT ![t] = IF @ = "none" THEN "ok" ELSE @]
    /\ UNCHANGED <<eager, locks, listing, eagerLoaded, maps, task, todo, rejected, calls, got, history>>

-----------------------------------------------------------------------------
(***************************************************************************)
(* Connections.                                                            *)
(***************************************************************************)

\* connect_and_login reads the replies to its six requests and drops them.
LoginDone(t) ==
    /\ pc[t] \in LoginPcs
    /\ pc' = [pc EXCEPT ![t] = CASE @ = "loginNames" -> "listTables"
                                 [] @ = "loginProbe" -> "probe"
                                 [] @ = "loginScan"  -> "stream"]
    /\ UNCHANGED <<eager, locks, listing, eagerLoaded, maps, task, todo, rejected, calls, got, result, history>>

StreamDone(t) ==
    /\ pc[t] = "stream"
    /\ pc' = [pc EXCEPT ![t] = "idle"]
    /\ result' = [result EXCEPT ![t] = IF rejected[t] THEN "error" ELSE "ok"]
    /\ UNCHANGED <<eager, locks, listing, eagerLoaded, maps, task, todo, rejected, calls, got, history>>

\* Mutant: tables_loaded_ is set before the names are asked for.
FlagBeforeNames(t) ==
    /\ pc[t] \in HeldPcs \cup {"loginScan", "stream"}
    /\ schemaLock' = IF schemaLock = t THEN NoThread ELSE schemaLock
    /\ eagerLock' = IF eagerLock = t THEN NoThread ELSE eagerLock
    /\ pc' = [pc EXCEPT ![t] = "idle"]
    /\ result' = [result EXCEPT ![t] = "error"]
    /\ tablesLoaded' = (tablesLoaded \/ pc[t] = "listTables")
    /\ UNCHANGED <<eager, tableNames, eagerLoaded, maps, task, todo, rejected, calls, got, history>>

\* Any other exception leaves through the lock guards to DuckDB.
ConnectionFails(t) ==
    /\ pc[t] \in HeldPcs \cup {"loginScan", "stream"}
    /\ schemaLock' = IF schemaLock = t THEN NoThread ELSE schemaLock
    /\ eagerLock' = IF eagerLock = t THEN NoThread ELSE eagerLock
    /\ pc' = [pc EXCEPT ![t] = "idle"]
    /\ result' = [result EXCEPT ![t] = "error"]
    /\ UNCHANGED <<eager, listing, eagerLoaded, maps, task, todo, rejected, calls, got, history>>

-----------------------------------------------------------------------------

Begin(t) == Scan(t) \/ OpenScan(t) \/ \E name \in Names : LookupEntry(t, name)

Step(t) ==
    \/ TakeEagerLock(t) \/ CheckLoaded(t) \/ LoadDone(t)
    \/ GetTableNames(t) \/ ListTables(t)
    \/ GetTableEntry(t) \/ ProbeFinds(t) \/ ProbeRefused(t) \/ GetScanEntry(t) \/ CallDone(t)
    \/ LoginDone(t) \/ StreamDone(t) \/ ConnectionFails(t)

\* DuckDB need not call again.
Quiet == (\A t \in Threads : pc[t] = "idle") /\ UNCHANGED vars

Next == (\E t \in Threads : Begin(t) \/ Step(t)) \/ Quiet

Spec == Init /\ [][Next]_vars

\* A thread that is inside a call runs on; a socket call returns within its
\* timeout.  The mutexes are not assumed fair: calls are bounded by MaxOps.
FairSpec == Spec /\ \A t \in Threads : WF_vars(Step(t))

-----------------------------------------------------------------------------
(***************************************************************************)
(* Properties.                                                             *)
(***************************************************************************)

\* Types of the variables.
TypeOK ==
    /\ eager \in BOOLEAN /\ tablesLoaded \in BOOLEAN /\ eagerLoaded \in BOOLEAN
    /\ schemaLock \in Threads \cup {NoThread} /\ eagerLock \in Threads \cup {NoThread}
    /\ tableNames \in Seq(Names)
    /\ built \in Nat /\ full \in [Names -> 0..built] /\ bare \in [Names -> 0..built]
    /\ pc \in [Threads -> Pcs]
    /\ task \in [Threads -> {"none", "lookup", "load", "list", "query"}]
    /\ todo \in [Threads -> Seq(Names)]
    /\ rejected \in [Threads -> BOOLEAN]
    /\ calls \in [Threads -> 0..MaxOps]
    /\ got \in [Threads -> Seq(Names)]
    /\ result \in [Threads -> {"none", "ok", "notFound", "error"}]
    /\ plans \subseteq 1..built /\ shown \subseteq 1..built /\ missed \subseteq Names

\* An entry DuckDB has been given stays owned by the catalog to the end of the
\* session, and a plan is only ever given one with columns: two threads that
\* miss on one table do not replace each other's entry.
NeverDangling ==
    /\ \A e \in plans : \E n \in Names : full[n] = e
    /\ \A e \in shown : \E n \in Names : e \in {full[n], bare[n]}

\* At most one connection of the catalog's own is open at a time, whichever
\* threads look up, list or load: the login storms EnsureEagerLoaded's comment
\* fears do not come from its own probes.
ProbesSerial == Cardinality({t \in Threads : pc[t] \in HeldPcs}) <= 1

\* Once the eager load is marked done, each table of the cached list has its
\* full entry, or the server has refused its probe.
EagerComplete ==
    eagerLoaded =>
        tablesLoaded /\ \A n \in Elems(tableNames) : full[n] # 0 \/ n \in missed

\* The thread's Scan has called back once with each of the first n tables of
\* the server, in its order, leaving out only tables whose probe was refused:
\* at says where in the server's list each name of got was found.
CalledBack(t, n) ==
    \E at \in [1..Len(got[t]) -> 1..n] :
        /\ \A i, j \in 1..Len(got[t]) : i < j => at[i] < at[j]
        /\ \A i \in 1..Len(got[t]) : got[t][i] = ServerTables[at[i]]
        /\ \A k \in 1..n : ServerTables[k] \in missed \/ \E i \in 1..Len(got[t]) : at[i] = k

\* A Scan that succeeds calls back once with each table of the server, in its
\* order, leaving out only tables whose probe was refused, whatever other
\* threads load, look up or fail at meanwhile.
ScanComplete ==
    \A t \in Threads :
        pc[t] = "idle" /\ task[t] = "list" /\ result[t] = "ok" => CalledBack(t, Len(ServerTables))

\* A cached entry is never replaced or dropped.
CacheWriteOnce ==
    [][\A n \in Names : /\ full[n] # 0 => full'[n] = full[n]
                        /\ bare[n] # 0 => bare'[n] = bare[n]]_vars

\* Every call returns to DuckDB: no lock order or lost unlock blocks a thread.
CallsReturn == \A t \in Threads : pc[t] # "idle" ~> pc[t] = "idle"

\* The catalog implements the cache it promises: whichever threads probe, list
\* and load at once, a slot is filled once, DuckDB is given nothing else than
\* what the slots hold, and the eager load is done when it says so.
Kinds == {"typed", "bare"}
Cache == INSTANCE SchemaCache WITH
            Slots      <- Names \X Kinds,
            TypedSlots <- Names \X {"typed"},
            Wanted     <- Tables \X {"typed"},
            cache      <- [s \in Names \X Kinds |-> IF s[2] = "typed" THEN full[s[1]] ELSE bare[s[1]]],
            refused    <- missed \X {"typed"},
            loaded     <- eagerLoaded
ImplementsCache == Cache!Spec

\* "Table does not exist" is never reported for a connection problem:
\* "reporting a connectivity problem as 'table does not exist' sends the user
\* debugging the wrong thing" (dbisam_catalog.cpp, GetTableEntry).
NotFoundMeansAbsent == missed \cap Tables = {}

-----------------------------------------------------------------------------
(***************************************************************************)
(* The inductive invariant behind NeverDangling, ProbesSerial,             *)
(* EagerComplete, CacheWriteOnce and ScanComplete.                         *)
(***************************************************************************)

\* schema_mutex_ is held over the network by the thread that probes or lists.
LockInv == \A t \in Threads : schemaLock = t <=> pc[t] \in HeldPcs

\* A loop is at a name it has not done, and a probe at one without an entry.
MissInv ==
    \A t \in Threads :
        pc[t] \in {"loginProbe", "probe"} => todo[t] # <<>> /\ full[Name(t)] = 0

\* A loading loop has done the names of the list it has not got left.
LoadInv ==
    /\ tablesLoaded => tableNames = ServerTables
    /\ \A t \in Threads :
          task[t] = "load" /\ pc[t] \in {"next", "loginProbe", "probe"} =>
              /\ tablesLoaded
              /\ \A n \in Tables : full[n] # 0 \/ n \in missed \/ n \in Elems(todo[t])

CacheInv ==
    /\ TypeOK
    /\ LockInv
    /\ MissInv
    /\ LoadInv
    /\ NeverDangling
    /\ EagerComplete

\* A listing loop has called back with the names of the list it has not got
\* left, and starts with none.
Listing(t) ==
    /\ pc[t] \in {"load", "loaded?"} => task[t] = "load"
    /\ pc[t] \in {"loginScan", "stream"} => task[t] = "query"
    /\ \/ task[t] = "load"
       \/ task[t] = "list" /\ pc[t] \in {"names", "loginNames", "listTables"}
       => got[t] = <<>>
    /\ task[t] = "list" /\ pc[t] \in {"next", "loginProbe", "probe"} =>
          \E done \in 0..Len(ServerTables) :
              /\ Len(todo[t]) = Len(ServerTables) - done
              /\ \A i \in 1..Len(todo[t]) : todo[t][i] = ServerTables[done + i]
              /\ CalledBack(t, done)

ListInv == ScanComplete /\ \A t \in Threads : Listing(t)

CatalogInv == CacheInv /\ ListInv

=============================================================================
