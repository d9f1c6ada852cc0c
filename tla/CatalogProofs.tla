--------------------------- MODULE CatalogProofs ---------------------------
(***************************************************************************)
(* Proofs about Catalog, for any number of threads and tables.             *)
(***************************************************************************)
EXTENDS Catalog, SequenceTheorems, FiniteSetTheorems, TLAPS

\* The parts of the assumption that the proofs use.
LEMMA Constants_ ==
    /\ NoThread \notin Threads
    /\ ServerTables \in Seq(Names)
    /\ MaxOps \in Nat
BY CatalogAssumption DEF CatalogAssumption

\* A name is the head of what a loop has left, or in the rest of it.
LEMMA TailLemma ==
    ASSUME NEW s \in Seq(Names), s # <<>>
    PROVE  /\ Head(s) \in Names /\ Tail(s) \in Seq(Names)
           /\ \A n \in Elems(s) : n = Head(s) \/ n \in Elems(Tail(s))
<1>1. Head(s) \in Names /\ Tail(s) \in Seq(Names)
  BY HeadTailProperties
<1>2. /\ Len(s) \in Nat /\ Len(s) > 0 /\ DOMAIN s = 1..Len(s)
      /\ Head(s) = s[1] /\ Len(Tail(s)) = Len(s) - 1
      /\ DOMAIN Tail(s) = 1..(Len(s) - 1)
      /\ \A i \in 1..(Len(s) - 1) : Tail(s)[i] = s[i + 1]
  BY <1>1, HeadTailProperties, LenProperties, EmptySeq
<1>3. ASSUME NEW n \in Elems(s) PROVE n = Head(s) \/ n \in Elems(Tail(s))
  <2>1. PICK i \in 1..Len(s) : n = s[i]
    BY <1>2, <1>3 DEF Elems
  <2>2. CASE i = 1
    BY <1>2, <2>1, <2>2
  <2>3. CASE i # 1
    <3>1. i - 1 \in 1..(Len(s) - 1) /\ (i - 1) + 1 = i
      BY <1>2, <2>3
    <3>2. Tail(s)[i - 1] = s[i]
      BY <1>2, <3>1
    <3>3. QED
      BY <1>2, <2>1, <3>1, <3>2 DEF Elems
  <2>4. QED
    BY <2>2, <2>3
<1>4. QED
  BY <1>1, <1>3

THEOREM InitInv == Init => CacheInv
<1> SUFFICES ASSUME Init PROVE CacheInv
  OBVIOUS
<1> USE DEF Init
<1>1. TypeOK
  <2>1. <<>> \in Seq(Names)
    BY EmptySeq
  <2>2. 0 \in 0..MaxOps /\ 0 \in 0..built
    BY Constants_
  <2>3. QED
    BY <2>1, <2>2 DEF TypeOK, Pcs, HeldPcs
<1>2. LockInv /\ MissInv /\ LoadInv
  BY Constants_ DEF LockInv, MissInv, LoadInv, HeldPcs
<1>3. NeverDangling /\ EagerComplete
  BY DEF NeverDangling, EagerComplete
<1>4. QED
  BY <1>1, <1>2, <1>3 DEF CacheInv

-----------------------------------------------------------------------------
\* What a step of thread t has to show: the other threads stay where they
\* are, the cache and the list only grow, the mutex follows the program
\* counter, and whoever is given an entry is given one the catalog owns.
LEMMA StepLemma ==
    ASSUME CacheInv, TypeOK', NEW t \in Threads,
           \A u \in Threads \ {t} : pc'[u] = pc[u] /\ todo'[u] = todo[u] /\ task'[u] = task[u],
           \A n \in Names : /\ full[n] # 0 => full'[n] = full[n]
                            /\ bare[n] # 0 => bare'[n] = bare[n],
           full' = full \/ schemaLock = t,
           missed \subseteq missed',
           tablesLoaded => tablesLoaded',
           tablesLoaded' => tableNames' = ServerTables,
           schemaLock' = t <=> pc'[t] \in HeldPcs,
           \A u \in Threads \ {t} : schemaLock' = u <=> schemaLock = u,
           pc'[t] \in {"loginProbe", "probe"} => todo'[t] # <<>> /\ full'[Head(todo'[t])] = 0,
           task'[t] = "load" /\ pc'[t] \in {"next", "loginProbe", "probe"} =>
               /\ tablesLoaded'
               /\ \A n \in Tables : full'[n] # 0 \/ n \in missed' \/ n \in Elems(todo'[t]),
           \A e \in plans' : e \in plans \/ \E n \in Names : full'[n] = e,
           \A e \in shown' : e \in shown \/ \E n \in Names : e \in {full'[n], bare'[n]},
           eagerLoaded' => \/ eagerLoaded
                           \/ /\ tablesLoaded'
                              /\ \A n \in Tables : full'[n] # 0 \/ n \in missed'
    PROVE  CacheInv'
<1> USE DEF CacheInv
<1>1. LockInv'
  BY DEF LockInv
<1>2. MissInv'
  <2> SUFFICES ASSUME NEW u \in Threads, pc'[u] \in {"loginProbe", "probe"}
               PROVE  todo'[u] # <<>> /\ full'[Head(todo'[u])] = 0
    BY DEF MissInv, Name
  <2>1. CASE u = t
    BY <2>1
  <2>2. CASE u # t
    <3>1. schemaLock = u
      BY <2>2 DEF LockInv, HeldPcs
    <3>2. full' = full
      BY <2>2, <3>1
    <3>3. QED
      BY <2>2, <3>2 DEF MissInv, Name
  <2>3. QED
    BY <2>1, <2>2
<1>3. Tables \subseteq Names
  BY Constants_, ElementOfSeq, LenProperties DEF Tables, Elems
<1>4. LoadInv'
  <2> SUFFICES ASSUME NEW u \in Threads, task'[u] = "load", pc'[u] \in {"next", "loginProbe", "probe"}
               PROVE  /\ tablesLoaded'
                      /\ \A n \in Tables : full'[n] # 0 \/ n \in missed' \/ n \in Elems(todo'[u])
    BY DEF LoadInv
  <2>1. CASE u = t
    BY <2>1
  <2>2. CASE u # t
    BY <1>3, <2>2 DEF LoadInv
  <2>3. QED
    BY <2>1, <2>2
<1>5. NeverDangling'
  <2>1. \A e \in plans : \E n \in Names : full'[n] = e
    BY DEF NeverDangling, TypeOK
  <2>2. \A e \in shown : \E n \in Names : e \in {full'[n], bare'[n]}
    <3> SUFFICES ASSUME NEW e \in shown PROVE \E n \in Names : e \in {full'[n], bare'[n]}
      OBVIOUS
    <3>1. PICK n \in Names : e \in {full[n], bare[n]}
      BY DEF NeverDangling
    <3>2. e # 0
      BY DEF TypeOK
    <3>3. QED
      BY <3>1, <3>2
  <2>3. QED
    BY <2>1, <2>2 DEF NeverDangling
<1>6. EagerComplete'
  <2>1. tablesLoaded' => Elems(tableNames') = Tables
    BY DEF Tables
  <2>2. eagerLoaded => tablesLoaded /\ \A n \in Tables : full[n] # 0 \/ n \in missed
    BY DEF EagerComplete, LoadInv, Tables
  <2>3. QED
    BY <1>3, <2>1, <2>2 DEF EagerComplete
<1>7. QED
  BY <1>1, <1>2, <1>4, <1>5, <1>6

\* Who holds the mutex, and what the types say about one thread.
LEMMA ThreadLemma ==
    ASSUME CacheInv, NEW t \in Threads
    PROVE  /\ pc[t] \in Pcs /\ todo[t] \in Seq(Names)
           /\ schemaLock = t <=> pc[t] \in HeldPcs
           /\ t # NoThread
BY Constants_ DEF CacheInv, TypeOK, LockInv

\* A login writes the rejected flag of its own thread.
LEMMA LoginLemma ==
    ASSUME CacheInv, NEW t \in Threads, LoginStarts(t)
    PROVE  rejected' \in [Threads -> BOOLEAN]
BY DEF CacheInv, TypeOK, LoginStarts

LEMMA BeginsInv ==
    ASSUME CacheInv, NEW t \in Threads, NEW what \in {"lookup", "load", "list", "query"},
           NEW at \in {"load", "names", "next", "loginScan"}, NEW names \in Seq(Names),
           at = "next" => what = "lookup",
           Begins(t, what, at, names), rejected' \in [Threads -> BOOLEAN]
    PROVE  CacheInv'
<1> USE DEF CacheInv
<1>1. TypeOK'
  <2>1. calls[t] + 1 \in 0..MaxOps /\ <<>> \in Seq(Names) /\ at \in Pcs
    BY Constants_, EmptySeq DEF Begins, TypeOK, Pcs
  <2>2. QED
    BY <2>1 DEF Begins, TypeOK, locks, listing, maps, history
<1>2. /\ pc'[t] = at /\ task'[t] = what
      /\ \A u \in Threads \ {t} : pc'[u] = pc[u] /\ todo'[u] = todo[u] /\ task'[u] = task[u]
  BY DEF Begins, TypeOK
<1>3. at \notin HeldPcs /\ pc[t] \notin HeldPcs
  BY DEF Begins, HeldPcs
<1>4. QED
  BY <1>1, <1>2, <1>3, StepLemma, ThreadLemma DEF Begins, LoadInv, locks, listing, maps, history

LEMMA BeginInv ==
    ASSUME CacheInv, NEW t \in Threads, Begin(t)
    PROVE  CacheInv'
<1>1. <<>> \in Seq(Names)
  BY EmptySeq
<1>2. rejected \in [Threads -> BOOLEAN]
  BY DEF CacheInv, TypeOK
<1>3. CASE Scan(t)
  BY <1>1, <1>2, <1>3, BeginsInv DEF Scan
<1>4. CASE OpenScan(t)
  BY <1>1, <1>4, LoginLemma, BeginsInv DEF OpenScan
<1>5. ASSUME NEW name \in Names, LookupEntry(t, name) PROVE CacheInv'
  <2>1. <<name>> \in Seq(Names)
    BY <1>5
  <2>2. QED
    BY <1>2, <1>5, <2>1, BeginsInv DEF LookupEntry
<1>6. QED
  BY <1>3, <1>4, <1>5 DEF Begin

-----------------------------------------------------------------------------
LEMMA TakeEagerLockInv ==
    ASSUME CacheInv, NEW t \in Threads, TakeEagerLock(t)
    PROVE  CacheInv'
<1> USE DEF CacheInv
<1>1. TypeOK'
  BY DEF TakeEagerLock, TypeOK, Pcs, listing, maps, history
<1>2. pc'[t] = "loaded?" /\ \A u \in Threads \ {t} : pc'[u] = pc[u]
  BY DEF TakeEagerLock, TypeOK
<1>3. pc'[t] \notin HeldPcs /\ pc[t] \notin HeldPcs
  BY <1>2 DEF TakeEagerLock, HeldPcs
<1>4. QED
  BY <1>1, <1>2, <1>3, StepLemma, ThreadLemma DEF TakeEagerLock, LoadInv, listing, maps, history

LEMMA CheckLoadedInv ==
    ASSUME CacheInv, NEW t \in Threads, CheckLoaded(t)
    PROVE  CacheInv'
<1> USE DEF CacheInv
<1>1. TypeOK'
  BY DEF CheckLoaded, TypeOK, Pcs, listing, maps, history
<1>2. pc'[t] = "names" /\ \A u \in Threads \ {t} : pc'[u] = pc[u] /\ task'[u] = task[u]
  BY DEF CheckLoaded, TypeOK
<1>3. pc'[t] \notin HeldPcs /\ pc[t] \notin HeldPcs
  BY <1>2 DEF CheckLoaded, HeldPcs
<1>4. QED
  BY <1>1, <1>2, <1>3, StepLemma, ThreadLemma DEF CheckLoaded, LoadInv, listing, maps, history

LEMMA LoadDoneInv ==
    ASSUME CacheInv, NEW t \in Threads, LoadDone(t)
    PROVE  CacheInv'
<1> USE DEF CacheInv
<1>1. TypeOK'
  BY DEF LoadDone, TypeOK, Pcs, listing, maps, history
<1>2. pc'[t] = "names" /\ \A u \in Threads \ {t} : pc'[u] = pc[u] /\ task'[u] = task[u]
  BY DEF LoadDone, TypeOK
<1>3. pc'[t] \notin HeldPcs /\ pc[t] \notin HeldPcs
  BY <1>2 DEF LoadDone, HeldPcs
<1>4. tablesLoaded /\ \A n \in Tables : full[n] # 0 \/ n \in missed
  BY DEF LoadDone, LoadInv, Elems
<1>5. QED
  BY <1>1, <1>2, <1>3, <1>4, StepLemma, ThreadLemma DEF LoadDone, LoadInv, listing, maps, history

LEMMA GetTableNamesInv ==
    ASSUME CacheInv, NEW t \in Threads, GetTableNames(t)
    PROVE  CacheInv'
<1> USE DEF CacheInv
<1>0. pc[t] \notin HeldPcs /\ pc[t] \in Pcs
  BY ThreadLemma DEF GetTableNames, HeldPcs
<1>1. CASE tablesLoaded /\ todo' = [todo EXCEPT ![t] = tableNames] /\ pc' = [pc EXCEPT ![t] = "next"]
           /\ UNCHANGED <<schemaLock, rejected>>
  <2>1. TypeOK'
    BY <1>1 DEF GetTableNames, TypeOK, Pcs, listing, maps, history
  <2>2. /\ pc'[t] = "next" /\ todo'[t] = tableNames
        /\ \A u \in Threads \ {t} : pc'[u] = pc[u] /\ todo'[u] = todo[u]
    BY <1>1 DEF TypeOK
  <2>3. pc'[t] \notin HeldPcs
    BY <2>2 DEF HeldPcs
  <2>4. \A n \in Tables : n \in Elems(todo'[t])
    BY <1>1, <2>2 DEF LoadInv, Tables
  <2>5. QED
    BY <1>0, <1>1, <2>1, <2>2, <2>3, <2>4, StepLemma, ThreadLemma
    DEF GetTableNames, LoadInv, listing, maps, history
<1>2. CASE schemaLock' = t /\ pc' = [pc EXCEPT ![t] = "loginNames"] /\ LoginStarts(t) /\ UNCHANGED todo
  <2>1. TypeOK'
    BY <1>2, LoginLemma DEF GetTableNames, TypeOK, Pcs, HeldPcs, listing, maps, history
  <2>2. pc'[t] = "loginNames" /\ \A u \in Threads \ {t} : pc'[u] = pc[u]
    BY <1>2 DEF TypeOK
  <2>3. pc'[t] \in HeldPcs
    BY <2>2 DEF HeldPcs
  <2>4. \A u \in Threads : schemaLock # u
    BY ThreadLemma DEF GetTableNames
  <2>5. QED
    BY <1>2, <2>1, <2>2, <2>3, <2>4, StepLemma, ThreadLemma
    DEF GetTableNames, LoadInv, listing, maps, history
<1>3. QED
  BY <1>1, <1>2 DEF GetTableNames

LEMMA ListTablesInv ==
    ASSUME CacheInv, NEW t \in Threads, ListTables(t)
    PROVE  CacheInv'
<1> USE DEF CacheInv
<1>1. TypeOK'
  BY Constants_ DEF ListTables, TypeOK, Pcs, maps, history
<1>2. /\ pc'[t] = "next" /\ todo'[t] = ServerTables
      /\ \A u \in Threads \ {t} : pc'[u] = pc[u] /\ todo'[u] = todo[u]
  BY DEF ListTables, TypeOK
<1>3. pc'[t] \notin HeldPcs /\ schemaLock = t
  BY <1>2, ThreadLemma DEF ListTables, HeldPcs
<1>4. \A n \in Tables : n \in Elems(todo'[t])
  BY <1>2 DEF Tables
<1>5. \A u \in Threads \ {t} : schemaLock # u /\ schemaLock' # u
  BY <1>3, ThreadLemma DEF ListTables
<1>6. QED
  BY <1>1, <1>2, <1>3, <1>4, <1>5, StepLemma, ThreadLemma DEF ListTables, maps, history

-----------------------------------------------------------------------------
\* Where a thread is that has done the name at hand.
Advanced(t) ==
    /\ Name(t) \in Names
    /\ pc' \in [Threads -> Pcs] /\ todo' \in [Threads -> Seq(Names)] /\ got' \in [Threads -> Seq(Names)]
    /\ pc'[t] = "next" /\ pc'[t] \notin HeldPcs
    /\ \A n \in Elems(todo[t]) : n = Name(t) \/ n \in Elems(todo'[t])
    /\ \A u \in Threads \ {t} : pc'[u] = pc[u] /\ todo'[u] = todo[u]

\* What handing over an entry does to the caller.
LEMMA HandOverLemma ==
    ASSUME CacheInv, NEW t \in Threads, NEW e, HandOver(t, e), todo[t] # <<>>
    PROVE  /\ Advanced(t)
           /\ plans' \subseteq plans \cup {e} /\ shown' \subseteq shown \cup {e}
<1>1. /\ todo[t] \in Seq(Names) /\ got[t] \in Seq(Names)
      /\ pc \in [Threads -> Pcs] /\ todo \in [Threads -> Seq(Names)] /\ got \in [Threads -> Seq(Names)]
  BY DEF CacheInv, TypeOK
<1>2. /\ Name(t) \in Names /\ Tail(todo[t]) \in Seq(Names)
      /\ \A n \in Elems(todo[t]) : n = Name(t) \/ n \in Elems(Tail(todo[t]))
  BY <1>1, TailLemma DEF Name
<1>3. Append(got[t], Name(t)) \in Seq(Names)
  BY <1>1, <1>2, AppendProperties
<1>4. "next" \in Pcs /\ "next" \notin HeldPcs
  BY DEF Pcs, HeldPcs
<1>5. todo' = [todo EXCEPT ![t] = Tail(todo[t])] /\ pc' = [pc EXCEPT ![t] = "next"]
  BY DEF HandOver
<1>6. got' \in [Threads -> Seq(Names)]
  BY <1>1, <1>3 DEF HandOver
<1>7. plans' \subseteq plans \cup {e} /\ shown' \subseteq shown \cup {e}
  BY DEF HandOver
<1>8. QED
  BY <1>1, <1>2, <1>4, <1>5, <1>6, <1>7 DEF Advanced

LEMMA GetTableEntryInv ==
    ASSUME CacheInv, NEW t \in Threads, GetTableEntry(t)
    PROVE  CacheInv'
<1> USE DEF CacheInv
<1>0. /\ pc[t] = "next" /\ pc[t] \notin HeldPcs /\ pc[t] \in Pcs /\ todo[t] # <<>> /\ schemaLock = NoThread
      /\ UNCHANGED <<eager, eagerLock, listing, eagerLoaded, maps, task, calls, result, missed>>
  BY ThreadLemma DEF GetTableEntry, HeldPcs
<1>1. CASE full[Name(t)] # 0 /\ HandOver(t, full[Name(t)]) /\ UNCHANGED <<schemaLock, rejected>>
  <2>1. /\ Advanced(t)
        /\ plans' \subseteq plans \cup {full[Name(t)]} /\ shown' \subseteq shown \cup {full[Name(t)]}
    BY <1>0, <1>1, HandOverLemma
  <2>2. Name(t) \in Names /\ full[Name(t)] \in 1..built
    BY <1>1, <2>1 DEF TypeOK, Advanced
  <2>3. plans' \subseteq 1..built /\ shown' \subseteq 1..built
    BY <2>1, <2>2 DEF TypeOK
  <2>4. TypeOK'
    BY <1>0, <1>1, <2>1, <2>3 DEF TypeOK, Advanced, listing, maps
  <2>5. task[t] = "load" => tablesLoaded /\ \A n \in Tables : full[n] # 0 \/ n \in missed \/ n \in Elems(todo[t])
    BY <1>0 DEF LoadInv
  <2>6. task[t] = "load" => \A n \in Tables : full[n] # 0 \/ n \in missed \/ n \in Elems(todo'[t])
    BY <1>1, <2>1, <2>5 DEF Advanced
  <2>7. /\ \A e \in plans' : e \in plans \/ \E n \in Names : full[n] = e
        /\ \A e \in shown' : e \in shown \/ \E n \in Names : e \in {full[n], bare[n]}
    BY <2>1, <2>2
  <2>8. QED
    BY <1>0, <1>1, <2>1, <2>4, <2>5, <2>6, <2>7, StepLemma, ThreadLemma DEF Advanced, LoadInv, listing, maps
<1>2. CASE /\ full[Name(t)] = 0 /\ schemaLock' = t /\ pc' = [pc EXCEPT ![t] = "loginProbe"]
           /\ LoginStarts(t) /\ UNCHANGED <<todo, got, plans, shown>>
  <2>1. TypeOK'
    BY <1>0, <1>2, LoginLemma DEF TypeOK, Pcs, HeldPcs, listing, maps
  <2>2. pc'[t] = "loginProbe" /\ \A u \in Threads \ {t} : pc'[u] = pc[u]
    BY <1>2 DEF TypeOK
  <2>3. pc'[t] \in HeldPcs
    BY <2>2 DEF HeldPcs
  <2>4. \A u \in Threads : schemaLock # u
    BY <1>0, ThreadLemma
  <2>5. QED
    BY <1>0, <1>2, <2>1, <2>2, <2>3, <2>4, StepLemma, ThreadLemma DEF LoadInv, Name, listing, maps
<1>3. QED
  BY <1>1, <1>2 DEF GetTableEntry

\* A new entry does not take the place of another one.
LEMMA ProbeFindsInv ==
    ASSUME CacheInv, NEW t \in Threads, ProbeFinds(t)
    PROVE  CacheInv'
<1> USE DEF CacheInv
<1>0. /\ pc[t] = "probe" /\ schemaLock = t /\ todo[t] # <<>> /\ full[Name(t)] = 0
      /\ built' = built + 1 /\ full' = [full EXCEPT ![Name(t)] = built + 1]
      /\ HandOver(t, built + 1) /\ schemaLock' = NoThread
      /\ UNCHANGED <<eager, eagerLock, listing, eagerLoaded, bare, task, rejected, calls, result, missed>>
  BY ThreadLemma DEF ProbeFinds, MissInv, HeldPcs
<1>1. /\ Advanced(t)
      /\ plans' \subseteq plans \cup {built + 1} /\ shown' \subseteq shown \cup {built + 1}
  BY <1>0, HandOverLemma
<1>2. /\ Name(t) \in Names /\ built \in Nat
      /\ full \in [Names -> 0..built] /\ bare \in [Names -> 0..built]
      /\ plans \subseteq 1..built /\ shown \subseteq 1..built
  BY <1>1 DEF Advanced, TypeOK
<1>3. 0..built \subseteq 0..(built + 1) /\ 1..built \subseteq 1..(built + 1) /\ built + 1 \in 1..(built + 1)
  BY <1>2
<1>4. /\ full' \in [Names -> 0..(built + 1)] /\ bare \in [Names -> 0..(built + 1)]
      /\ plans' \subseteq 1..(built + 1) /\ shown' \subseteq 1..(built + 1)
  <2>1. full \in [Names -> 0..(built + 1)] /\ bare \in [Names -> 0..(built + 1)]
    BY <1>2, <1>3
  <2>2. built + 1 \in 0..(built + 1)
    BY <1>2
  <2>3. full' \in [Names -> 0..(built + 1)]
    BY <1>0, <2>1, <2>2
  <2>4. plans' \subseteq 1..(built + 1) /\ shown' \subseteq 1..(built + 1)
    BY <1>1, <1>2, <1>3
  <2>5. QED
    BY <2>1, <2>3, <2>4
<1>5. TypeOK'
  <2>1. /\ built' \in Nat /\ full' \in [Names -> 0..built'] /\ bare' \in [Names -> 0..built']
        /\ plans' \subseteq 1..built' /\ shown' \subseteq 1..built'
    BY <1>0, <1>2, <1>4
  <2>2. QED
    BY <1>0, <1>1, <2>1 DEF TypeOK, Advanced, listing
<1>6. /\ full'[Name(t)] = built + 1 /\ built + 1 # 0
      /\ \A n \in Names : n # Name(t) => full'[n] = full[n]
  BY <1>0, <1>2
<1>7. \A u \in Threads \ {t} : schemaLock # u /\ schemaLock' # u
  BY <1>0, ThreadLemma
<1>8. task[t] = "load" => tablesLoaded /\ \A n \in Tables : full[n] # 0 \/ n \in missed \/ n \in Elems(todo[t])
  BY <1>0 DEF LoadInv
<1>9. Tables \subseteq Names
  BY Constants_, ElementOfSeq, LenProperties DEF Tables, Elems
<1>10. task[t] = "load" => \A n \in Tables : full'[n] # 0 \/ n \in missed \/ n \in Elems(todo'[t])
  BY <1>1, <1>6, <1>8, <1>9 DEF Advanced
<1>11. /\ \A e \in plans' : e \in plans \/ \E n \in Names : full'[n] = e
       /\ \A e \in shown' : e \in shown \/ \E n \in Names : e \in {full'[n], bare[n]}
  BY <1>1, <1>2, <1>6
<1>12. \A n \in Names : full[n] # 0 => full'[n] = full[n]
  BY <1>0, <1>6
<1>13. QED
  BY <1>0, <1>1, <1>5, <1>7, <1>8, <1>10, <1>11, <1>12, StepLemma, ThreadLemma DEF Advanced, LoadInv, listing

LEMMA ProbeRefusedInv ==
    ASSUME CacheInv, NEW t \in Threads, ProbeRefused(t)
    PROVE  CacheInv'
<1> USE DEF CacheInv
<1>0. /\ pc[t] = "probe" /\ schemaLock = t /\ todo[t] # <<>> /\ schemaLock' = NoThread
      /\ missed' = missed \cup {Name(t)}
      /\ todo' = [todo EXCEPT ![t] = Tail(todo[t])]
      /\ pc' = [pc EXCEPT ![t] = "next"]
      /\ UNCHANGED <<eager, eagerLock, listing, eagerLoaded, maps, task, rejected, calls, got, plans, shown>>
  BY ThreadLemma DEF ProbeRefused, MissInv, HeldPcs
<1>1. /\ Name(t) \in Names /\ Tail(todo[t]) \in Seq(Names)
      /\ \A n \in Elems(todo[t]) : n = Name(t) \/ n \in Elems(Tail(todo[t]))
  BY <1>0, TailLemma, ThreadLemma DEF Name
<1>2. result' \in [Threads -> {"none", "ok", "notFound", "error"}]
  BY DEF ProbeRefused, TypeOK
<1>3. TypeOK'
  BY <1>0, <1>1, <1>2, Constants_ DEF TypeOK, Pcs, listing, maps
<1>4. /\ pc'[t] = "next" /\ todo'[t] = Tail(todo[t])
      /\ \A u \in Threads \ {t} : pc'[u] = pc[u] /\ todo'[u] = todo[u]
  BY <1>0 DEF TypeOK
<1>5. pc'[t] \notin HeldPcs /\ \A u \in Threads \ {t} : schemaLock # u /\ schemaLock' # u
  BY <1>0, <1>4, ThreadLemma DEF HeldPcs
<1>6. task[t] = "load" => tablesLoaded /\ \A n \in Tables : full[n] # 0 \/ n \in missed \/ n \in Elems(todo[t])
  BY <1>0 DEF LoadInv
<1>7. QED
  BY <1>0, <1>1, <1>3, <1>4, <1>5, <1>6, StepLemma, ThreadLemma DEF LoadInv, listing, maps

LEMMA GetScanEntryInv ==
    ASSUME CacheInv, NEW t \in Threads, GetScanEntry(t)
    PROVE  CacheInv'
<1> USE DEF CacheInv
<1>0. /\ pc[t] = "next" /\ todo[t] # <<>> /\ task[t] = "list" /\ schemaLock = NoThread
      /\ UNCHANGED <<eager, locks, listing, eagerLoaded, full, task, rejected, calls, result, missed>>
  BY DEF GetScanEntry, Typed
<1>1. Name(t) \in Names /\ built \in Nat /\ pc[t] \notin HeldPcs /\ task'[t] # "load"
  BY <1>0, ThreadLemma, TailLemma DEF TypeOK, Name, HeldPcs
<1>2. plans' = plans
  BY <1>0 DEF GetScanEntry, HandOver
<1>3. full[Name(t)] \in 0..built /\ bare[Name(t)] \in 0..built /\ 0..built \subseteq 0..(built + 1)
      /\ 1..built \subseteq 1..(built + 1) /\ built + 1 \in 1..(built + 1)
  BY <1>1 DEF TypeOK
<1>4. ASSUME NEW e \in 1..built, HandOver(t, e), e \in {full[Name(t)], bare[Name(t)]}, UNCHANGED <<bare, built>>
      PROVE  CacheInv'
  <2>1. Advanced(t) /\ shown' \subseteq shown \cup {e}
    BY <1>0, <1>4, HandOverLemma
  <2>2. TypeOK'
    BY <1>0, <1>2, <1>4, <2>1 DEF TypeOK, Advanced, locks, listing
  <2>3. \A f \in shown' : f \in shown \/ \E n \in Names : f \in {full[n], bare[n]}
    BY <1>1, <1>4, <2>1
  <2>4. QED
    BY <1>0, <1>1, <1>2, <1>4, <2>1, <2>2, <2>3, StepLemma, ThreadLemma DEF Advanced, LoadInv, locks, listing
<1>5. CASE /\ bare[Name(t)] = 0 /\ built' = built + 1
           /\ bare' = [bare EXCEPT ![Name(t)] = built + 1] /\ HandOver(t, built + 1)
  <2>1. Advanced(t) /\ shown' \subseteq shown \cup {built + 1}
    BY <1>0, <1>5, HandOverLemma
  <2>2. /\ full \in [Names -> 0..(built + 1)] /\ bare' \in [Names -> 0..(built + 1)]
        /\ plans \subseteq 1..(built + 1) /\ shown' \subseteq 1..(built + 1)
    <3>1. full \in [Names -> 0..built] /\ plans \subseteq 1..built /\ shown \subseteq 1..built
      BY DEF TypeOK
    <3>2. bare \in [Names -> 0..built]
      BY DEF TypeOK
    <3>3. built + 1 \in 0..(built + 1)
      BY <1>1
    <3>4. full \in [Names -> 0..(built + 1)] /\ bare \in [Names -> 0..(built + 1)]
      BY <1>3, <3>1, <3>2
    <3>5. bare' \in [Names -> 0..(built + 1)]
      BY <1>5, <3>3, <3>4
    <3>6. plans \subseteq 1..(built + 1) /\ shown' \subseteq 1..(built + 1)
      BY <1>3, <2>1, <3>1
    <3>7. QED
      BY <3>4, <3>5, <3>6
  <2>3. TypeOK'
    <3>1. /\ built' \in Nat /\ full' \in [Names -> 0..built'] /\ bare' \in [Names -> 0..built']
          /\ plans' \subseteq 1..built' /\ shown' \subseteq 1..built'
      BY <1>0, <1>1, <1>2, <1>5, <2>2
    <3>2. QED
      BY <1>0, <2>1, <3>1 DEF TypeOK, Advanced, locks, listing
  <2>4. /\ bare'[Name(t)] = built + 1
        /\ \A n \in Names : bare[n] # 0 => bare'[n] = bare[n]
    BY <1>1, <1>5 DEF TypeOK
  <2>5. \A f \in shown' : f \in shown \/ \E n \in Names : f \in {full[n], bare'[n]}
    BY <1>1, <2>1, <2>4
  <2>6. QED
    BY <1>0, <1>1, <1>2, <2>1, <2>3, <2>4, <2>5, StepLemma, ThreadLemma DEF Advanced, LoadInv, locks, listing
<1>6. \/ \E e \in 1..built : HandOver(t, e) /\ e \in {full[Name(t)], bare[Name(t)]} /\ UNCHANGED <<bare, built>>
      \/ /\ bare[Name(t)] = 0 /\ built' = built + 1
         /\ bare' = [bare EXCEPT ![Name(t)] = built + 1] /\ HandOver(t, built + 1)
  <2>1. \A x \in 0..built : x # 0 => x \in 1..built
    BY <1>1
  <2>2. QED
    BY <1>3, <2>1 DEF GetScanEntry
<1>7. QED
  BY <1>4, <1>5, <1>6

-----------------------------------------------------------------------------
LEMMA CallDoneInv ==
    ASSUME CacheInv, NEW t \in Threads, CallDone(t)
    PROVE  CacheInv'
<1> USE DEF CacheInv
<1>1. TypeOK'
  BY DEF CallDone, TypeOK, Pcs, locks, listing, maps, history
<1>2. pc'[t] = "idle" /\ \A u \in Threads \ {t} : pc'[u] = pc[u]
  BY DEF CallDone, TypeOK
<1>3. pc'[t] \notin HeldPcs /\ pc[t] \notin HeldPcs
  BY <1>2 DEF CallDone, HeldPcs
<1>4. QED
  BY <1>1, <1>2, <1>3, StepLemma, ThreadLemma DEF CallDone, LoadInv, locks, listing, maps, history

LEMMA LoginDoneInv ==
    ASSUME CacheInv, NEW t \in Threads, LoginDone(t)
    PROVE  CacheInv'
<1> USE DEF CacheInv
<1>0. /\ \/ pc[t] = "loginNames" /\ pc' = [pc EXCEPT ![t] = "listTables"]
         \/ pc[t] = "loginProbe" /\ pc' = [pc EXCEPT ![t] = "probe"]
         \/ pc[t] = "loginScan" /\ pc' = [pc EXCEPT ![t] = "stream"]
      /\ UNCHANGED <<eager, locks, listing, eagerLoaded, maps, task, todo, rejected, calls, got, result, history>>
  BY DEF LoginDone, LoginPcs
<1>1. TypeOK'
  BY <1>0 DEF TypeOK, Pcs, HeldPcs, locks, listing, maps, history
<1>2. /\ pc'[t] \in HeldPcs <=> pc[t] \in HeldPcs
      /\ pc'[t] = "probe" <=> pc[t] = "loginProbe"
      /\ pc'[t] \notin {"next", "loginProbe"}
      /\ \A u \in Threads \ {t} : pc'[u] = pc[u]
  BY <1>0 DEF TypeOK, HeldPcs
<1>3. QED
  BY <1>0, <1>1, <1>2, StepLemma, ThreadLemma DEF LoadInv, MissInv, Name, locks, listing, maps, history

LEMMA StreamDoneInv ==
    ASSUME CacheInv, NEW t \in Threads, StreamDone(t)
    PROVE  CacheInv'
<1> USE DEF CacheInv
<1>1. TypeOK'
  BY DEF StreamDone, TypeOK, Pcs, locks, listing, maps, history
<1>2. pc'[t] = "idle" /\ \A u \in Threads \ {t} : pc'[u] = pc[u]
  BY DEF StreamDone, TypeOK
<1>3. pc'[t] \notin HeldPcs /\ pc[t] \notin HeldPcs
  BY <1>2 DEF StreamDone, HeldPcs
<1>4. QED
  BY <1>1, <1>2, <1>3, StepLemma, ThreadLemma DEF StreamDone, LoadInv, locks, listing, maps, history

LEMMA ConnectionFailsInv ==
    ASSUME CacheInv, NEW t \in Threads, ConnectionFails(t)
    PROVE  CacheInv'
<1> USE DEF CacheInv
<1>1. TypeOK'
  BY DEF ConnectionFails, TypeOK, Pcs, listing, maps, history
<1>2. pc'[t] = "idle" /\ \A u \in Threads \ {t} : pc'[u] = pc[u]
  BY DEF ConnectionFails, TypeOK
<1>3. /\ pc'[t] \notin HeldPcs /\ schemaLock' # t
      /\ \A u \in Threads \ {t} : schemaLock' = u <=> schemaLock = u
  BY <1>2, ThreadLemma DEF ConnectionFails, HeldPcs
<1>4. QED
  BY <1>1, <1>2, <1>3, StepLemma DEF ConnectionFails, LoadInv, listing, maps, history

-----------------------------------------------------------------------------
\* Every step of every thread keeps the inductive invariant.
THEOREM NextInv == CacheInv /\ [Next]_vars => CacheInv'
<1> SUFFICES ASSUME CacheInv, [Next]_vars PROVE CacheInv'
  OBVIOUS
<1>1. ASSUME NEW t \in Threads, Begin(t) PROVE CacheInv'
  BY <1>1, BeginInv
<1>2. ASSUME NEW t \in Threads, Step(t) PROVE CacheInv'
  BY <1>2, TakeEagerLockInv, CheckLoadedInv, LoadDoneInv, GetTableNamesInv, ListTablesInv,
     GetTableEntryInv, ProbeFindsInv, ProbeRefusedInv, GetScanEntryInv, CallDoneInv, LoginDoneInv,
     StreamDoneInv, ConnectionFailsInv DEF Step
<1>3. CASE UNCHANGED vars
  BY <1>3 DEF CacheInv, TypeOK, LockInv, MissInv, LoadInv, NeverDangling, EagerComplete, Name,
     vars, locks, listing, maps, history
<1>4. QED
  BY <1>1, <1>2, <1>3 DEF Next, Quiet

THEOREM CacheInvariant == Spec => []CacheInv
BY InitInv, NextInv, PTL DEF Spec

\* Entries given to DuckDB stay owned by the catalog.
THEOREM EntriesLive == Spec => []NeverDangling
<1>1. CacheInv => NeverDangling
  BY DEF CacheInv
<1>2. QED
  BY <1>1, CacheInvariant, PTL

\* A finished eager load is complete.
THEOREM LoadsAll == Spec => []EagerComplete
<1>1. CacheInv => EagerComplete
  BY DEF CacheInv
<1>2. QED
  BY <1>1, CacheInvariant, PTL

\* Types hold throughout.
THEOREM TypeCorrect == Spec => []TypeOK
<1>1. CacheInv => TypeOK
  BY DEF CacheInv
<1>2. QED
  BY <1>1, CacheInvariant, PTL

\* No two threads are in a probe or a listing at once.
THEOREM OneProbe == Spec => []ProbesSerial
<1>1. CacheInv => ProbesSerial
  <2> SUFFICES ASSUME CacheInv PROVE ProbesSerial
    OBVIOUS
  <2> DEFINE holders == {t \in Threads : pc[t] \in HeldPcs}
  <2>1. \A t, u \in holders : t = u
    BY DEF CacheInv, LockInv
  <2>2. holders = {} \/ \E t : holders = {t}
    BY <2>1
  <2> HIDE DEF holders
  <2>3. Cardinality(holders) \in {0, 1}
    BY <2>2, FS_EmptySet, FS_Singleton
  <2>4. QED
    BY <2>3 DEF ProbesSerial, holders
<1>2. QED
  BY <1>1, CacheInvariant, PTL

-----------------------------------------------------------------------------
Kept == \A n \in Names : /\ full[n] # 0 => full'[n] = full[n]
                         /\ bare[n] # 0 => bare'[n] = bare[n]

\* Only a probe that finds its table, and a Scan in lazy mode, write the maps,
\* and each writes where there was nothing.
LEMMA KeptLemma ==
    ASSUME CacheInv, [Next]_vars
    PROVE  Kept
<1> USE DEF CacheInv
<1>1. CASE UNCHANGED maps
  BY <1>1 DEF Kept, maps
<1>2. ASSUME NEW t \in Threads, ProbeFinds(t) PROVE Kept
  <2>1. full[Name(t)] = 0 /\ UNCHANGED bare /\ full' = [full EXCEPT ![Name(t)] = built + 1]
    BY <1>2 DEF ProbeFinds, MissInv
  <2>2. QED
    BY <2>1 DEF Kept, TypeOK
<1>3. ASSUME NEW t \in Threads, GetScanEntry(t) PROVE Kept
  <2>1. /\ UNCHANGED full
        /\ \/ UNCHANGED bare
           \/ bare[Name(t)] = 0 /\ bare' = [bare EXCEPT ![Name(t)] = built + 1]
    BY <1>3 DEF GetScanEntry
  <2>2. QED
    BY <2>1 DEF Kept, TypeOK
<1>4. ASSUME NEW t \in Threads, Begin(t) PROVE UNCHANGED maps
  BY <1>4 DEF Begin, Scan, OpenScan, LookupEntry, Begins
<1>5. ASSUME NEW t \in Threads, Step(t) PROVE UNCHANGED maps \/ ProbeFinds(t) \/ GetScanEntry(t)
  BY <1>5 DEF Step, TakeEagerLock, CheckLoaded, LoadDone, GetTableNames, ListTables, GetTableEntry,
     ProbeRefused, CallDone, LoginDone, StreamDone, ConnectionFails
<1>6. UNCHANGED vars => UNCHANGED maps
  BY DEF vars
<1>7. QED
  BY <1>1, <1>2, <1>3, <1>4, <1>5, <1>6 DEF Next, Quiet

\* The cache is write-once.
THEOREM WriteOnce == Spec => CacheWriteOnce
<1>1. CacheInv /\ [Next]_vars => [Kept]_vars
  BY KeptLemma
<1>2. QED
  BY <1>1, CacheInvariant, PTL DEF Spec, CacheWriteOnce, Kept

-----------------------------------------------------------------------------
(***************************************************************************)
(* The catalog implements SchemaCache.                                     *)
(***************************************************************************)

CacheOf == [s \in Names \X Kinds |-> IF s[2] = "typed" THEN full[s[1]] ELSE bare[s[1]]]

\* A new entry in the empty slot of a name.
LEMMA FillsSlot ==
    ASSUME CacheInv, NEW n \in Names, NEW k \in Kinds, CacheOf[<<n, k>>] = 0,
           \/ k = "typed" /\ full' = [full EXCEPT ![n] = built + 1] /\ UNCHANGED bare
           \/ k = "bare" /\ bare' = [bare EXCEPT ![n] = built + 1] /\ UNCHANGED full
    PROVE  Cache!Fill(<<n, k>>) /\ CacheOf'[<<n, k>>] = built + 1
<1>1. /\ built \in Nat /\ full \in [Names -> 0..built] /\ bare \in [Names -> 0..built]
      /\ plans \subseteq 1..built /\ shown \subseteq 1..built
      /\ <<n, k>> \in Names \X Kinds
  BY DEF CacheInv, TypeOK
<1>2. CacheOf'[<<n, k>>] = built + 1
  BY <1>1 DEF CacheOf, Kinds
<1>3. built + 1 \notin {0} \cup {CacheOf[r] : r \in Names \X Kinds} \cup plans \cup shown
  <2>1. \A r \in Names \X Kinds : CacheOf[r] \in 0..built
    BY <1>1 DEF CacheOf
  <2>2. QED
    BY <1>1, <2>1
<1>4. CacheOf' = [CacheOf EXCEPT ![<<n, k>>] = built + 1]
  <2> DEFINE new == [CacheOf EXCEPT ![<<n, k>>] = built + 1]
  <2>1. ASSUME NEW r \in Names \X Kinds PROVE CacheOf'[r] = new[r]
    <3>1. r = <<r[1], r[2]>> /\ r[1] \in Names /\ r[2] \in {"typed", "bare"}
      BY DEF Kinds
    <3>2. CASE r = <<n, k>>
      BY <1>2, <3>2 DEF CacheOf
    <3>3. CASE r # <<n, k>>
      <4>1. new[r] = CacheOf[r]
        BY <3>3 DEF CacheOf
      <4>2. r[1] # n \/ r[2] # k
        BY <3>1, <3>3
      <4>3. CacheOf'[r] = CacheOf[r]
        BY <1>1, <3>1, <4>2 DEF CacheOf, Kinds
      <4>4. QED
        BY <4>1, <4>3
    <3>4. QED
      BY <3>2, <3>3
  <2>2. /\ CacheOf' = [r \in Names \X Kinds |-> CacheOf'[r]]
        /\ new = [r \in Names \X Kinds |-> new[r]]
    BY DEF CacheOf
  <2>3. QED
    BY <2>1, <2>2
<1>5. QED
  BY <1>2, <1>3, <1>4 DEF Cache!Fill, CacheOf

\* A slot of the name at hand is served: a lookup's is typed, and a loading
\* loop shows its entry to nobody.
LEMMA ServesSlot ==
    ASSUME NEW t \in Threads, NEW n \in Names, NEW k \in Kinds, NEW e,
           HandOver(t, e), CacheOf'[<<n, k>>] = e, task[t] = "lookup" => k = "typed",
           Cache!Fill(<<n, k>>) \/ (CacheOf[<<n, k>>] # 0 /\ UNCHANGED <<full, bare>>),
           UNCHANGED <<missed, eagerLoaded>>
    PROVE  Cache!Next
<1>1. <<n, k>> \in Names \X Kinds /\ (k = "typed" => <<n, k>> \in Names \X {"typed"})
  OBVIOUS
<1>2. Cache!Fill(<<n, k>>) \/ (CacheOf[<<n, k>>] # 0 /\ UNCHANGED CacheOf)
  BY DEF CacheOf
<1>3. \/ UNCHANGED <<plans, shown>>
      \/ k = "typed" /\ plans' = plans \cup {CacheOf'[<<n, k>>]} /\ UNCHANGED shown
      \/ shown' = shown \cup {CacheOf'[<<n, k>>]} /\ UNCHANGED plans
  BY DEF HandOver
<1>4. Cache!Serve(<<n, k>>)
  BY <1>1, <1>2, <1>3 DEF Cache!Serve, CacheOf
<1>5. QED
  BY <1>1, <1>4 DEF Cache!Next

LEMMA StepRefines ==
    ASSUME CacheInv, [Next]_vars
    PROVE  [Cache!Next]_(Cache!cacheVars)
<1>1. ASSUME NEW t \in Threads, GetTableEntry(t) PROVE [Cache!Next]_(Cache!cacheVars)
  <2>1. CASE UNCHANGED <<plans, shown>>
    BY <1>1, <2>1 DEF GetTableEntry, maps, Cache!cacheVars
  <2>2. CASE full[Name(t)] # 0 /\ HandOver(t, full[Name(t)])
    <3>1. Name(t) \in Names /\ UNCHANGED <<full, bare, missed, eagerLoaded>>
      BY <1>1, TailLemma, ThreadLemma DEF GetTableEntry, Name, maps
    <3>2. CacheOf[<<Name(t), "typed">>] = full[Name(t)] /\ UNCHANGED CacheOf
      BY <3>1 DEF CacheOf, Kinds
    <3>3. "typed" \in Kinds
      BY DEF Kinds
    <3>4. QED
      BY <2>2, <3>1, <3>2, <3>3, ServesSlot
  <2>3. QED
    BY <1>1, <2>1, <2>2 DEF GetTableEntry
<1>2. ASSUME NEW t \in Threads, ProbeFinds(t) PROVE [Cache!Next]_(Cache!cacheVars)
  <2>1. /\ todo[t] # <<>> /\ full[Name(t)] = 0 /\ HandOver(t, built + 1)
        /\ full' = [full EXCEPT ![Name(t)] = built + 1]
        /\ UNCHANGED <<bare, missed, eagerLoaded>>
    BY <1>2 DEF ProbeFinds, CacheInv, MissInv
  <2>2. PICK n \in Names : n = Name(t) /\ "typed" \in Kinds
    BY <2>1, TailLemma, ThreadLemma DEF Name, Kinds
  <2>3. CacheOf[<<n, "typed">>] = 0
    BY <2>1, <2>2 DEF CacheOf
  <2>4. Cache!Fill(<<n, "typed">>) /\ CacheOf'[<<n, "typed">>] = built + 1
    BY <2>1, <2>2, <2>3, FillsSlot
  <2>5. QED
    BY <2>1, <2>2, <2>4, ServesSlot
<1>3. ASSUME NEW t \in Threads, GetScanEntry(t) PROVE [Cache!Next]_(Cache!cacheVars)
  <2>1. /\ Name(t) \in Names /\ UNCHANGED <<full, missed, eagerLoaded>>
        /\ task[t] # "lookup" /\ {"typed", "bare"} = Kinds
    BY <1>3, TailLemma, ThreadLemma DEF GetScanEntry, Name, Typed, Kinds
  <2>2. /\ CacheOf[<<Name(t), "typed">>] = full[Name(t)]
        /\ CacheOf[<<Name(t), "bare">>] = bare[Name(t)]
    BY <2>1 DEF CacheOf
  <2>3. CASE full[Name(t)] # 0 /\ HandOver(t, full[Name(t)]) /\ UNCHANGED bare
    <3>1. UNCHANGED CacheOf
      BY <2>1, <2>3 DEF CacheOf
    <3>2. QED
      BY <2>1, <2>2, <2>3, <3>1, ServesSlot
  <2>4. CASE bare[Name(t)] # 0 /\ HandOver(t, bare[Name(t)]) /\ UNCHANGED bare
    <3>1. UNCHANGED CacheOf
      BY <2>1, <2>4 DEF CacheOf
    <3>2. QED
      BY <2>1, <2>2, <2>4, <3>1, ServesSlot
  <2>5. CASE /\ bare[Name(t)] = 0 /\ bare' = [bare EXCEPT ![Name(t)] = built + 1]
             /\ HandOver(t, built + 1)
    <3>1. PICK n \in Names : n = Name(t)
      BY <2>1
    <3>2. Cache!Fill(<<n, "bare">>) /\ CacheOf'[<<n, "bare">>] = built + 1
      BY <2>1, <2>2, <2>5, <3>1, FillsSlot
    <3>3. QED
      BY <2>1, <2>5, <3>2, ServesSlot
  <2>6. QED
    BY <1>3, <2>3, <2>4, <2>5 DEF GetScanEntry
<1>4. ASSUME NEW t \in Threads, ProbeRefused(t) PROVE [Cache!Next]_(Cache!cacheVars)
  <2>1. /\ missed' = missed \cup {Name(t)} /\ todo[t] # <<>>
        /\ UNCHANGED <<full, bare, plans, shown, eagerLoaded>>
    BY <1>4 DEF ProbeRefused, CacheInv, MissInv, maps
  <2>2. Name(t) \in Names
    BY <2>1, TailLemma, ThreadLemma DEF Name
  <2>3. /\ <<Name(t), "typed">> \in Names \X Kinds /\ <<Name(t), "typed">> \in Names \X {"typed"}
        /\ missed' \X {"typed"} = (missed \X {"typed"}) \cup {<<Name(t), "typed">>}
    BY <2>1, <2>2 DEF Kinds
  <2>4. Cache!Refuse(<<Name(t), "typed">>)
    BY <2>1, <2>3 DEF Cache!Refuse
  <2>5. QED
    BY <2>3, <2>4 DEF Cache!Next
<1>5. ASSUME NEW t \in Threads, LoadDone(t) PROVE [Cache!Next]_(Cache!cacheVars)
  <2>1. \A n \in Tables : full[n] # 0 \/ n \in missed
    BY <1>5 DEF LoadDone, CacheInv, LoadInv, Elems
  <2>2. Tables \subseteq Names
    BY Constants_, ElementOfSeq, LenProperties DEF Tables, Elems
  <2>3. \A s \in Tables \X {"typed"} : CacheOf[s] # 0 \/ s \in missed \X {"typed"}
    BY <2>1, <2>2 DEF CacheOf, Kinds
  <2>4. eagerLoaded' = TRUE /\ UNCHANGED <<full, bare, plans, shown, missed>>
    BY <1>5 DEF LoadDone, maps, history
  <2>5. Cache!FinishLoad
    BY <2>3, <2>4 DEF Cache!FinishLoad, CacheOf
  <2>6. QED
    BY <2>5 DEF Cache!Next
<1>6. ASSUME NEW t \in Threads, Begin(t) PROVE UNCHANGED <<maps, history, eagerLoaded>>
  BY <1>6 DEF Begin, Scan, OpenScan, LookupEntry, Begins
<1>7. ASSUME NEW t \in Threads, Step(t), ~GetTableEntry(t), ~ProbeFinds(t), ~GetScanEntry(t),
             ~ProbeRefused(t), ~LoadDone(t)
      PROVE  UNCHANGED <<maps, history, eagerLoaded>>
  BY <1>7 DEF Step, TakeEagerLock, CheckLoaded, GetTableNames, ListTables, CallDone, LoginDone,
     StreamDone, ConnectionFails
<1>8. CASE UNCHANGED <<maps, history, eagerLoaded>>
  BY <1>8 DEF maps, history, Cache!cacheVars
<1>9. UNCHANGED vars => UNCHANGED <<maps, history, eagerLoaded>>
  BY DEF vars
<1>10. QED
  BY <1>1, <1>2, <1>3, <1>4, <1>5, <1>6, <1>7, <1>8, <1>9 DEF Next, Quiet

\* The catalog of the code is the cache of the contract: a slot is filled once,
\* DuckDB is given nothing else than what the slots hold, plans only typed
\* entries, and the eager load is done when it says so.
THEOREM Refinement == Spec => ImplementsCache
<1>1. Init => Cache!Init
  BY DEF Init, Cache!Init, Kinds
<1>2. CacheInv /\ [Next]_vars => [Cache!Next]_(Cache!cacheVars)
  BY StepRefines
<1>3. QED
  BY <1>1, <1>2, CacheInvariant, PTL DEF Spec, ImplementsCache, Cache!Spec

-----------------------------------------------------------------------------
(***************************************************************************)
(* What a Scan calls back with.                                            *)
(***************************************************************************)

LEMMA TablesLen == Len(ServerTables) \in Nat
BY Constants_, LenProperties

LEMMA CallsNone ==
    ASSUME NEW t \in Threads, got'[t] = <<>>
    PROVE  CalledBack(t, 0)'
<1>1. Len(got'[t]) = 0
  BY EmptySeq
<1>2. \E at \in [1..0 -> 1..0] : TRUE
  <2>1. [i \in 1..0 |-> i] \in [1..0 -> 1..0]
    OBVIOUS
  <2>2. QED
    BY <2>1
<1>3. \A i : i \notin 1..0
  OBVIOUS
<1>4. QED
  BY <1>1, <1>2, <1>3 DEF CalledBack

LEMMA CallsKept ==
    ASSUME NEW t \in Threads, NEW n \in Nat, CalledBack(t, n), got'[t] = got[t], missed \subseteq missed'
    PROVE  CalledBack(t, n)'
<1>1. PICK at \in [1..Len(got[t]) -> 1..n] :
        /\ \A i, j \in 1..Len(got[t]) : i < j => at[i] < at[j]
        /\ \A i \in 1..Len(got[t]) : got[t][i] = ServerTables[at[i]]
        /\ \A k \in 1..n : ServerTables[k] \in missed \/ \E i \in 1..Len(got[t]) : at[i] = k
  BY DEF CalledBack
<1>2. \A k \in 1..n : ServerTables[k] \in missed' \/ \E i \in 1..Len(got[t]) : at[i] = k
  BY <1>1
<1>3. QED
  BY <1>1, <1>2 DEF CalledBack

\* The table at n + 1 turns out to be missing.
LEMMA CallsSkip ==
    ASSUME NEW t \in Threads, NEW n \in Nat, CalledBack(t, n), got'[t] = got[t],
           missed \subseteq missed', ServerTables[n + 1] \in missed'
    PROVE  CalledBack(t, n + 1)'
<1> DEFINE len == Len(got[t])
<1>1. PICK at \in [1..len -> 1..n] :
        /\ \A i, j \in 1..len : i < j => at[i] < at[j]
        /\ \A i \in 1..len : got[t][i] = ServerTables[at[i]]
        /\ \A k \in 1..n : ServerTables[k] \in missed \/ \E i \in 1..len : at[i] = k
  BY DEF CalledBack
<1>2. at \in [1..len -> 1..(n + 1)]
  <2>1. 1..n \subseteq 1..(n + 1)
    OBVIOUS
  <2>2. QED
    BY <2>1
<1>3. \A k \in 1..(n + 1) : ServerTables[k] \in missed' \/ \E i \in 1..len : at[i] = k
  <2>1. \A k \in 1..(n + 1) : k = n + 1 \/ k \in 1..n
    OBVIOUS
  <2>2. QED
    BY <1>1, <2>1
<1>4. QED
  BY <1>1, <1>2, <1>3 DEF CalledBack

\* The Scan calls back with the table at n + 1.
LEMMA CallsNext ==
    ASSUME NEW t \in Threads, NEW n \in Nat, CalledBack(t, n), got[t] \in Seq(Names),
           ServerTables[n + 1] \in Names,
           got'[t] = Append(got[t], ServerTables[n + 1]), missed \subseteq missed'
    PROVE  CalledBack(t, n + 1)'
<1> DEFINE len == Len(got[t])
<1>1. PICK at \in [1..len -> 1..n] :
        /\ \A i, j \in 1..len : i < j => at[i] < at[j]
        /\ \A i \in 1..len : got[t][i] = ServerTables[at[i]]
        /\ \A k \in 1..n : ServerTables[k] \in missed \/ \E i \in 1..len : at[i] = k
  BY DEF CalledBack
<1>2. /\ len \in Nat /\ Len(got'[t]) = len + 1
      /\ \A i \in 1..len : got'[t][i] = got[t][i]
      /\ got'[t][len + 1] = ServerTables[n + 1]
  BY AppendProperties, LenProperties
<1> HIDE DEF len
<1> DEFINE to == [i \in 1..(len + 1) |-> IF i = len + 1 THEN n + 1 ELSE at[i]]
<1>3. \A i \in 1..(len + 1) : i = len + 1 \/ i \in 1..len
  BY <1>2
<1>4. /\ to[len + 1] = n + 1
      /\ \A i \in 1..len : to[i] = at[i] /\ at[i] \in 1..n
  BY <1>1, <1>2
<1>5. to \in [1..(len + 1) -> 1..(n + 1)]
  <2>1. \A i \in 1..(len + 1) : to[i] \in 1..(n + 1)
    BY <1>3, <1>4
  <2>2. QED
    BY <2>1
<1> HIDE DEF to
<1>6. \A i, j \in 1..(len + 1) : i < j => to[i] < to[j]
  <2> SUFFICES ASSUME NEW i \in 1..(len + 1), NEW j \in 1..(len + 1), i < j PROVE to[i] < to[j]
    OBVIOUS
  <2>1. i \in 1..len
    BY <1>2
  <2>2. CASE j = len + 1
    BY <1>4, <2>1, <2>2
  <2>3. CASE j \in 1..len
    BY <1>1, <1>4, <2>1, <2>3
  <2>4. QED
    BY <1>3, <2>2, <2>3
<1>7. \A i \in 1..(len + 1) : got'[t][i] = ServerTables[to[i]]
  BY <1>1, <1>2, <1>3, <1>4
<1>8. \A k \in 1..(n + 1) : ServerTables[k] \in missed' \/ \E i \in 1..(len + 1) : to[i] = k
  <2> SUFFICES ASSUME NEW k \in 1..(n + 1), ServerTables[k] \notin missed'
               PROVE  \E i \in 1..(len + 1) : to[i] = k
    OBVIOUS
  <2>1. CASE k = n + 1
    <3>1. len + 1 \in 1..(len + 1)
      BY <1>2
    <3>2. QED
      BY <1>4, <2>1, <3>1
  <2>2. CASE k # n + 1
    <3>1. k \in 1..n
      BY <2>2
    <3>2. PICK i \in 1..len : at[i] = k
      BY <1>1, <3>1
    <3>3. i \in 1..(len + 1)
      BY <1>2
    <3>4. QED
      BY <1>4, <3>2, <3>3
  <2>3. QED
    BY <2>1, <2>2
<1>9. 1..Len(got'[t]) = 1..(len + 1)
  BY <1>2
<1>10. /\ to \in [1..Len(got'[t]) -> 1..(n + 1)]
       /\ \A i, j \in 1..Len(got'[t]) : i < j => to[i] < to[j]
       /\ \A i \in 1..Len(got'[t]) : got'[t][i] = ServerTables[to[i]]
       /\ \A k \in 1..(n + 1) : ServerTables[k] \in missed' \/ \E i \in 1..Len(got'[t]) : to[i] = k
  BY <1>5, <1>6, <1>7, <1>8, <1>9
<1>11. QED
  BY <1>10 DEF CalledBack

\* A loop that has called back with the first tables stays where it is.
LEMMA ListingStays ==
    ASSUME NEW t \in Threads, Listing(t), missed \subseteq missed', got'[t] = got[t],
           task'[t] = "list", task[t] = "list", pc[t] \in {"next", "loginProbe", "probe"},
           pc'[t] \in {"next", "loginProbe", "probe"}, todo'[t] = todo[t]
    PROVE  Listing(t)'
<1>1. PICK done \in 0..Len(ServerTables) :
        /\ Len(todo[t]) = Len(ServerTables) - done
        /\ \A i \in 1..Len(todo[t]) : todo[t][i] = ServerTables[done + i]
        /\ CalledBack(t, done)
  BY DEF Listing
<1>2. CalledBack(t, done)'
  BY <1>1, TablesLen, CallsKept
<1>3. QED
  BY <1>1, <1>2 DEF Listing

\* A loop that has its names at hand.
LEMMA ListingStarts ==
    ASSUME NEW t \in Threads, Listing(t), pc[t] \in {"names", "listTables"}, got'[t] = got[t],
           task'[t] = task[t], pc'[t] = "next", todo'[t] = ServerTables
    PROVE  Listing(t)'
<1>1. CASE task[t] = "list"
  <2>1. got'[t] = <<>> /\ 0 \in 0..Len(ServerTables)
    BY <1>1, TablesLen DEF Listing
  <2>2. CalledBack(t, 0)'
    BY <2>1, CallsNone
  <2>3. \A i \in 1..Len(ServerTables) : ServerTables[i] = ServerTables[0 + i]
    BY TablesLen
  <2>4. QED
    BY <1>1, <2>1, <2>2, <2>3, TablesLen DEF Listing
<1>2. CASE task[t] # "list"
  BY <1>2 DEF Listing
<1>3. QED
  BY <1>1, <1>2

\* A loop that has done the name at hand.
LEMMA ListingAdvances ==
    ASSUME CacheInv, NEW t \in Threads, Listing(t), pc[t] \in {"next", "probe"}, pc'[t] = "next",
           todo[t] # <<>>, todo'[t] = Tail(todo[t]), task'[t] = task[t], missed \subseteq missed',
           \/ got'[t] = IF task[t] = "list" THEN Append(got[t], Name(t)) ELSE got[t]
           \/ got'[t] = got[t] /\ Name(t) \in missed'
    PROVE  Listing(t)'
<1>1. CASE task[t] # "list"
  BY <1>1 DEF Listing
<1>2. CASE task[t] = "list"
  <2>1. PICK done \in 0..Len(ServerTables) :
          /\ Len(todo[t]) = Len(ServerTables) - done
          /\ \A i \in 1..Len(todo[t]) : todo[t][i] = ServerTables[done + i]
          /\ CalledBack(t, done)
    BY <1>2 DEF Listing
  <2>2. todo[t] \in Seq(Names) /\ got[t] \in Seq(Names)
    BY DEF CacheInv, TypeOK
  <2>3. /\ Len(todo[t]) \in Nat /\ Len(todo[t]) > 0 /\ Name(t) = todo[t][1] /\ Name(t) \in Names
        /\ Len(todo'[t]) = Len(todo[t]) - 1
        /\ \A i \in 1..(Len(todo[t]) - 1) : todo'[t][i] = todo[t][i + 1]
    BY <2>2, HeadTailProperties, LenProperties, EmptySeq DEF Name
  <2>4. done \in Nat /\ done + 1 \in 0..Len(ServerTables)
    BY <2>1, <2>3, TablesLen
  <2>5. Name(t) = ServerTables[done + 1]
    BY <2>1, <2>3
  <2>6. CalledBack(t, done + 1)'
    BY <1>2, <2>1, <2>2, <2>3, <2>4, <2>5, CallsSkip, CallsNext
  <2>7. Len(todo'[t]) = Len(ServerTables) - (done + 1)
    BY <2>1, <2>3, <2>4, TablesLen
  <2>8. \A i \in 1..Len(todo'[t]) : todo'[t][i] = ServerTables[(done + 1) + i]
    <3> SUFFICES ASSUME NEW i \in 1..Len(todo'[t]) PROVE todo'[t][i] = ServerTables[(done + 1) + i]
      OBVIOUS
    <3>1. i + 1 \in 1..Len(todo[t]) /\ done + (i + 1) = (done + 1) + i
      BY <2>3, <2>4
    <3>2. QED
      BY <2>1, <2>3, <3>1
  <2>9. QED
    BY <1>2, <2>4, <2>6, <2>7, <2>8 DEF Listing
<1>3. QED
  BY <1>1, <1>2

\* The threads that do not move.
LEMMA OthersList ==
    ASSUME ListInv, NEW u \in Threads, missed \subseteq missed',
           pc'[u] = pc[u], task'[u] = task[u], todo'[u] = todo[u], got'[u] = got[u], result'[u] = result[u]
    PROVE  /\ Listing(u)'
           /\ pc'[u] = "idle" /\ task'[u] = "list" /\ result'[u] = "ok" => CalledBack(u, Len(ServerTables))'
<1>1. pc[u] = "idle" /\ task[u] = "list" /\ result[u] = "ok" => CalledBack(u, Len(ServerTables))
  BY DEF ListInv, ScanComplete
<1>2. PICK n \in Nat : n = Len(ServerTables)
  BY TablesLen
<1>3. CalledBack(u, n) => CalledBack(u, n)'
  BY CallsKept
<1>4. Listing(u)'
  <2>1. CASE task[u] = "list" /\ pc[u] \in {"next", "loginProbe", "probe"}
    BY <2>1, ListingStays DEF ListInv
  <2>2. CASE ~(task[u] = "list" /\ pc[u] \in {"next", "loginProbe", "probe"})
    BY <2>2 DEF ListInv, Listing
  <2>3. QED
    BY <2>1, <2>2
<1>5. QED
  BY <1>1, <1>2, <1>3, <1>4

\* What a step of thread t has to show.
LEMMA ThreadList ==
    ASSUME CacheInv, ListInv, NEW t \in Threads, missed \subseteq missed',
           \A u \in Threads \ {t} : /\ pc'[u] = pc[u] /\ task'[u] = task[u] /\ todo'[u] = todo[u]
                                    /\ got'[u] = got[u] /\ result'[u] = result[u],
           Listing(t)',
           pc'[t] = "idle" /\ task'[t] = "list" /\ result'[t] = "ok" => CalledBack(t, Len(ServerTables))'
    PROVE  ListInv'
<1>1. \A u \in Threads \ {t} :
        /\ Listing(u)'
        /\ pc'[u] = "idle" /\ task'[u] = "list" /\ result'[u] = "ok" => CalledBack(u, Len(ServerTables))'
  BY OthersList
<1>2. QED
  BY <1>1 DEF ListInv, ScanComplete

\* A step writes the program counter, the task, the names and the result of
\* its own thread alone.
OthersStay(t) ==
    \A u \in Threads \ {t} : /\ pc'[u] = pc[u] /\ task'[u] = task[u] /\ todo'[u] = todo[u]
                             /\ got'[u] = got[u] /\ result'[u] = result[u]

LEMMA BeginList ==
    ASSUME CacheInv, ListInv, NEW t \in Threads, Begin(t)
    PROVE  ListInv'
<1>1. /\ OthersStay(t) /\ missed' = missed
      /\ got'[t] = <<>>
      /\ \/ pc'[t] = "next" /\ task'[t] = "lookup"
         \/ pc'[t] = "load" /\ task'[t] = "load"
         \/ pc'[t] = "names" /\ task'[t] = "list"
         \/ pc'[t] = "loginScan" /\ task'[t] = "query"
  BY DEF Begin, Scan, OpenScan, LookupEntry, Begins, history, OthersStay, CacheInv, TypeOK
<1>2. Listing(t)' /\ pc'[t] # "idle"
  BY <1>1 DEF Listing
<1>3. QED
  BY <1>1, <1>2, ThreadList DEF OthersStay

\* The steps that keep what the thread has called back with.
LEMMA ControlList ==
    ASSUME CacheInv, ListInv, NEW t \in Threads,
           TakeEagerLock(t) \/ CheckLoaded(t) \/ LoadDone(t) \/ LoginDone(t) \/ StreamDone(t)
               \/ ConnectionFails(t)
    PROVE  ListInv'
<1>0. Listing(t) /\ got \in [Threads -> Seq(Names)]
  BY DEF ListInv, CacheInv, TypeOK
<1>1. /\ OthersStay(t) /\ UNCHANGED <<missed, todo, got>>
      /\ \/ pc[t] = "load" /\ pc'[t] = "loaded?" /\ task'[t] = task[t]
         \/ pc[t] = "loaded?" /\ pc'[t] = "names"
         \/ task[t] = "load" /\ pc'[t] = "names"
         \/ pc[t] = "loginNames" /\ pc'[t] = "listTables" /\ task'[t] = task[t]
         \/ pc[t] = "loginProbe" /\ pc'[t] = "probe" /\ task'[t] = task[t]
         \/ pc[t] = "loginScan" /\ pc'[t] = "stream" /\ task'[t] = task[t]
         \/ pc[t] = "stream" /\ pc'[t] = "idle" /\ task'[t] = task[t]
         \/ pc'[t] = "idle" /\ result'[t] = "error" /\ task'[t] = task[t]
  BY DEF TakeEagerLock, CheckLoaded, LoadDone, LoginDone, StreamDone, ConnectionFails, LoginPcs,
     history, OthersStay, CacheInv, TypeOK
<1>2. Listing(t)'
  <2>1. CASE pc[t] = "loginProbe" /\ pc'[t] = "probe" /\ task'[t] = task[t] /\ task[t] = "list"
    BY <1>0, <1>1, <2>1, ListingStays
  <2>2. CASE ~(pc[t] = "loginProbe" /\ pc'[t] = "probe" /\ task'[t] = task[t] /\ task[t] = "list")
    BY <1>0, <1>1, <2>2 DEF Listing
  <2>3. QED
    BY <2>1, <2>2
<1>3. ~(pc'[t] = "idle" /\ task'[t] = "list" /\ result'[t] = "ok")
  BY <1>0, <1>1 DEF Listing
<1>4. QED
  BY <1>1, <1>2, <1>3, ThreadList DEF OthersStay

\* The names come from the cache, or from the server.
LEMMA NamesList ==
    ASSUME CacheInv, ListInv, NEW t \in Threads, GetTableNames(t) \/ ListTables(t)
    PROVE  ListInv'
<1>0. Listing(t) /\ pc[t] \in {"names", "listTables"}
  BY DEF ListInv, GetTableNames, ListTables
<1>1. /\ OthersStay(t) /\ UNCHANGED <<missed, task, got>>
      /\ \/ pc'[t] = "next" /\ todo'[t] = ServerTables
         \/ pc[t] = "names" /\ pc'[t] = "loginNames"
  BY DEF GetTableNames, ListTables, history, OthersStay, CacheInv, TypeOK, LoadInv
<1>2. Listing(t)'
  <2>1. CASE pc'[t] = "next" /\ todo'[t] = ServerTables
    BY <1>0, <1>1, <2>1, ListingStarts
  <2>2. CASE pc[t] = "names" /\ pc'[t] = "loginNames"
    BY <1>0, <1>1, <2>2 DEF Listing
  <2>3. QED
    BY <1>1, <2>1, <2>2
<1>3. QED
  BY <1>1, <1>2, ThreadList DEF OthersStay

\* An entry is called back with, or the name is skipped.
LEMMA EntryList ==
    ASSUME CacheInv, ListInv, NEW t \in Threads,
           \/ GetScanEntry(t) \/ ProbeFinds(t) \/ ProbeRefused(t)
           \/ GetTableEntry(t) /\ full[Name(t)] # 0
    PROVE  ListInv'
<1>0. Listing(t) /\ todo[t] # <<>> /\ pc[t] \in {"next", "probe"}
  BY DEF ListInv, GetScanEntry, ProbeFinds, ProbeRefused, GetTableEntry, CacheInv, MissInv
<1>1. CASE ProbeRefused(t)
  <2>1. /\ OthersStay(t) /\ UNCHANGED <<task, got>> /\ missed' = missed \cup {Name(t)}
        /\ pc'[t] = "next" /\ todo'[t] = Tail(todo[t])
    BY <1>1 DEF ProbeRefused, OthersStay, CacheInv, TypeOK
  <2>2. Listing(t)'
    BY <1>0, <2>1, ListingAdvances
  <2>3. QED
    BY <2>1, <2>2, ThreadList DEF OthersStay
<1>2. CASE ~ProbeRefused(t)
  <2>1. /\ pc' = [pc EXCEPT ![t] = "next"] /\ todo' = [todo EXCEPT ![t] = Tail(todo[t])]
        /\ got' = IF task[t] = "list" THEN [got EXCEPT ![t] = Append(got[t], Name(t))] ELSE got
        /\ UNCHANGED <<task, result, missed>>
    BY <1>2 DEF GetScanEntry, ProbeFinds, GetTableEntry, HandOver
  <2>2. /\ OthersStay(t) /\ pc'[t] = "next" /\ todo'[t] = Tail(todo[t])
        /\ got'[t] = IF task[t] = "list" THEN Append(got[t], Name(t)) ELSE got[t]
    BY <2>1 DEF OthersStay, CacheInv, TypeOK
  <2>3. Listing(t)'
    BY <1>0, <2>1, <2>2, ListingAdvances
  <2>4. QED
    BY <2>1, <2>2, <2>3, ThreadList DEF OthersStay
<1>3. QED
  BY <1>1, <1>2

\* A probe starts.
LEMMA ProbeList ==
    ASSUME CacheInv, ListInv, NEW t \in Threads, GetTableEntry(t), full[Name(t)] = 0
    PROVE  ListInv'
<1>1. /\ OthersStay(t) /\ UNCHANGED <<task, got, todo, missed>> /\ Listing(t)
      /\ pc[t] = "next" /\ pc'[t] = "loginProbe"
  BY DEF GetTableEntry, OthersStay, CacheInv, TypeOK, ListInv
<1>2. Listing(t)'
  <2>1. CASE task[t] = "list"
    BY <1>1, <2>1, ListingStays
  <2>2. CASE task[t] # "list"
    BY <1>1, <2>2 DEF Listing
  <2>3. QED
    BY <2>1, <2>2
<1>3. QED
  BY <1>1, <1>2, ThreadList DEF OthersStay

\* The loop is at the end of its list.
LEMMA DoneList ==
    ASSUME CacheInv, ListInv, NEW t \in Threads, CallDone(t)
    PROVE  ListInv'
<1>1. /\ OthersStay(t) /\ UNCHANGED <<task, got, todo, missed>> /\ Listing(t)
      /\ pc[t] = "next" /\ pc'[t] = "idle" /\ todo[t] = <<>> /\ task[t] # "load"
  BY DEF CallDone, OthersStay, CacheInv, TypeOK, ListInv, history
<1>2. ASSUME task[t] = "list" PROVE CalledBack(t, Len(ServerTables))'
  <2>1. PICK done \in 0..Len(ServerTables) :
          /\ Len(todo[t]) = Len(ServerTables) - done
          /\ CalledBack(t, done)
    BY <1>1, <1>2 DEF Listing
  <2>2. done = Len(ServerTables) /\ done \in Nat
    BY <1>1, <2>1, TablesLen, EmptySeq
  <2>3. CalledBack(t, done)'
    BY <1>1, <2>1, <2>2, CallsKept
  <2>4. QED
    BY <2>2, <2>3
<1>3. Listing(t)'
  BY <1>1 DEF Listing
<1>4. QED
  BY <1>1, <1>2, <1>3, ThreadList DEF OthersStay

\* Every step of every thread keeps what the Scans have called back with.
LEMMA ListStep ==
    ASSUME CacheInv, ListInv, [Next]_vars
    PROVE  ListInv'
<1>1. ASSUME NEW t \in Threads, Begin(t) PROVE ListInv'
  BY <1>1, BeginList
<1>2. ASSUME NEW t \in Threads, Step(t) PROVE ListInv'
  BY <1>2, ControlList, NamesList, EntryList, ProbeList, DoneList DEF Step
<1>3. CASE UNCHANGED vars
  <2>1. \A u \in Threads :
          /\ Listing(u)'
          /\ pc'[u] = "idle" /\ task'[u] = "list" /\ result'[u] = "ok" => CalledBack(u, Len(ServerTables))'
    BY <1>3, OthersList DEF vars, history
  <2>2. QED
    BY <2>1 DEF ListInv, ScanComplete
<1>4. QED
  BY <1>1, <1>2, <1>3 DEF Next, Quiet

\* The whole inductive invariant.
THEOREM CatalogInvariant == Spec => []CatalogInv
<1>1. Init => ListInv
  BY DEF Init, ListInv, ScanComplete, Listing
<1>2. CacheInv /\ ListInv /\ [Next]_vars => ListInv'
  BY ListStep
<1>3. Spec => []ListInv
  BY <1>1, <1>2, CacheInvariant, PTL DEF Spec
<1>4. QED
  BY <1>3, CacheInvariant, PTL DEF CatalogInv

\* A Scan that succeeds calls back once with each table of the server, in its
\* order, but for tables whose probe was refused.
THEOREM ListsAll == Spec => []ScanComplete
<1>1. CatalogInv => ScanComplete
  BY DEF CatalogInv, ListInv
<1>2. QED
  BY <1>1, CatalogInvariant, PTL

=============================================================================
