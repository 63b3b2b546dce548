------------------------------- MODULE Atomo ---------------------------------
(***************************************************************************)
(* The database under the application state (lib/atomo, lib/atomo-rocks):  *)
(* one updater and many queries on one table.  Every update leaves, in a   *)
(* linked list of snapshots, the inverse of the batch it commits, and a    *)
(* query that started earlier reads through those inverses back to its     *)
(* version.                                                                *)
(*                                                                         *)
(* The steps of an update and of a lookup are separate actions: they run   *)
(* on different threads and share only the list, its head (under a lock)   *)
(* and the storage (a batch is written atomically).  The list is that of   *)
(* the default feature, reliable-snapshot.  Versions are numbered; node v  *)
(* of the list belongs to version v.                                       *)
(***************************************************************************)
EXTENDS Naturals

CONSTANTS Keys, Vals,
          None,        \* Option::None, and Operation::Remove in a batch
          Queries,     \* threads that run queries
          MaxVersion   \* bound: updates

ASSUME AtomoAssumption == None \notin Vals /\ MaxVersion \in Nat

VARIABLES persistence, \* StorageBackend: the committed table
          stored,      \* nodes whose data pointer is set,
          data,        \* and the inverse batch it points to
          linked,      \* nodes whose next pointer is set
          head,        \* SnapshotList.head
          metadata,    \* node -> its VerticalKeys, when the table is iterable
          enable_iter, \* the table was opened with iterator support
          updater,     \* where Atomo<UpdatePerm>::run is,
          batch, keys, \* its TableSelector,
          query,       \* each query: its TableSelector and running lookup
          contents     \* history: what each version holds

atomoVars == <<persistence, stored, data, linked, head, metadata, enable_iter,
               updater, batch, keys, query, contents>>
listVars == <<stored, data, linked, head, metadata>>
updateVars == <<updater, batch, keys>>

Value == Vals \cup {None}
Versions == 0..MaxVersion
Batch == UNION {[D -> Value] : D \in SUBSET Keys}
EmptyBatch == [k \in {} |-> None]
NoLookup == [pc |-> "idle", snapshot |-> 0, key |-> None, tmp |-> None,
             at |-> 0, answer |-> None]

AtomoTypeOK ==
    /\ persistence \in [Keys -> Value]
    /\ stored \subseteq Versions /\ linked \subseteq Versions
    /\ data \in [Versions -> Batch]
    /\ head \in Versions
    /\ metadata \in [Versions -> SUBSET Keys]
    /\ enable_iter \in BOOLEAN
    /\ updater \in {"idle", "mutate", "link", "commit", "move"}
    /\ batch \in Batch /\ keys \subseteq Keys
    /\ query \in [Queries ->
         [pc : {"idle", "open", "find", "find_key", "contains", "got", "has"},
          snapshot : Versions, key : Keys \cup {None}, tmp : Value,
          at : 0..MaxVersion + 1, answer : Value \cup BOOLEAN]]
    /\ contents \in [Versions -> [Keys -> Value]]

\* A database that holds any table, opened with or without iterator support.
AtomoInit ==
    /\ persistence \in [Keys -> Value]
    /\ contents = [v \in Versions |-> persistence]
    /\ stored = {} /\ linked = {}
    /\ data = [v \in Versions |-> EmptyBatch]
    /\ head = 0
    /\ metadata = [v \in Versions |-> {k \in Keys : persistence[k] # None}]
    /\ enable_iter \in BOOLEAN
    /\ updater = "idle" /\ batch = EmptyBatch /\ keys = {}
    /\ query = [q \in Queries |-> NoLookup]

-----------------------------------------------------------------------------
\* Atomo<UpdatePerm>::run

\* TableSelector::new on the update side.
BeginUpdate ==
    /\ updater = "idle" /\ head < MaxVersion
    /\ updater' = "mutate"
    /\ batch' = EmptyBatch /\ keys' = metadata[head]
    /\ UNCHANGED <<listVars, persistence, enable_iter, query, contents>>

WithOperation(k, v) ==
    [l \in DOMAIN batch \cup {k} |-> IF l = k THEN v ELSE batch[l]]

InsertKey(k, v) ==
    /\ updater = "mutate"
    /\ batch' = WithOperation(k, v)
    /\ keys' = keys \cup {k}
    /\ UNCHANGED <<listVars, persistence, enable_iter, updater, query, contents>>

\* Mutation: the keys of the new version keep a removed key.
RemoveBatchOnly(k) ==
    /\ updater = "mutate"
    /\ batch' = WithOperation(k, None)
    /\ UNCHANGED <<listVars, persistence, enable_iter, updater, keys, query, contents>>

RemoveKey(k) ==
    /\ updater = "mutate"
    /\ batch' = WithOperation(k, None)
    /\ keys' = keys \ {k}
    /\ UNCHANGED <<listVars, persistence, enable_iter, updater, query, contents>>

\* Mutation: an inserted key that was absent is not in the inverse.
ChangesOfPresent ==
    {k \in DOMAIN batch : persistence[k] # None /\ batch[k] # persistence[k]}

\* compute_inverse: the old value of every key the batch really changes.
Changes == {k \in DOMAIN batch : batch[k] # persistence[k]}
compute_inverse == [k \in Changes |-> persistence[k]]

\* SnapshotList::push stores the inverse in the node of the current version,
StoreData ==
    /\ updater = "mutate"
    /\ updater' = "link"
    /\ stored' = stored \cup {head}
    /\ data' = [data EXCEPT ![head] = compute_inverse]
    /\ UNCHANGED <<persistence, linked, head, metadata, enable_iter, batch, keys,
                   query, contents>>

\* links the next node to it,
StoreNext ==
    /\ updater = "link"
    /\ updater' = "commit"
    /\ linked' = linked \cup {head}
    /\ metadata' = [metadata EXCEPT ![head + 1] = keys]
    /\ UNCHANGED <<persistence, stored, data, head, enable_iter, batch, keys,
                   query, contents>>

Applied == [k \in Keys |-> IF k \in DOMAIN batch THEN batch[k] ELSE persistence[k]]

\* commits the batch to the storage (the transition function),
CommitBatch ==
    /\ updater = "commit"
    /\ updater' = "move"
    /\ persistence' = Applied
    /\ contents' = [contents EXCEPT ![head + 1] = Applied]
    /\ UNCHANGED <<listVars, enable_iter, batch, keys, query>>

\* and moves the head.
MoveHead ==
    /\ updater = "move"
    /\ updater' = "idle"
    /\ head' = head + 1
    /\ UNCHANGED <<persistence, stored, data, linked, metadata, enable_iter, batch,
                   keys, query, contents>>

-----------------------------------------------------------------------------
\* Atomo<QueryPerm>::run

Queried(q, record) ==
    /\ query' = [query EXCEPT ![q] = record]
    /\ UNCHANGED <<listVars, updateVars, persistence, enable_iter, contents>>

\* TableSelector::new on the query side: the snapshot is the current head.
BeginQuery(q) ==
    /\ query[q].pc = "idle"
    /\ Queried(q, [NoLookup EXCEPT !.pc = "open", !.snapshot = head])

\* The query returns, and its snapshot is dropped.
EndQuery(q) ==
    /\ query[q].pc = "open"
    /\ Queried(q, NoLookup)

\* TableRef::get reads the storage first,
GetBegin(q, k) ==
    /\ query[q].pc = "open"
    /\ Queried(q, [query[q] EXCEPT !.pc = "find", !.key = k,
                     !.tmp = persistence[k], !.at = query[q].snapshot])

\* contains_key answers from the keys of the snapshot, or walks the list first.
ContainsBegin(q, k) ==
    /\ query[q].pc = "open"
    /\ Queried(q,
         IF enable_iter
           THEN [query[q] EXCEPT !.pc = "has", !.key = k,
                   !.answer = k \in metadata[query[q].snapshot]]
           ELSE [query[q] EXCEPT !.pc = "find_key", !.key = k,
                   !.at = query[q].snapshot])

\* Snapshot::find looks in the node it is at for an operation on the key,
Found(q) ==
    /\ query[q].at \in stored
    /\ query[q].key \in DOMAIN data[query[q].at]

\* goes on to the next node,
Follows(q) ==
    /\ query[q].at \in stored
    /\ query[q].key \notin DOMAIN data[query[q].at]
    /\ query[q].at \in linked

\* or ends where a pointer is not set yet.
Ends(q) == ~Found(q) /\ ~Follows(q)

FindNext(q) ==
    /\ query[q].pc \in {"find", "find_key"}
    /\ Follows(q)
    /\ Queried(q, [query[q] EXCEPT !.at = @ + 1])

GetFound(q) ==
    /\ query[q].pc = "find"
    /\ Found(q)
    /\ Queried(q, [query[q] EXCEPT !.pc = "got",
                     !.answer = data[query[q].at][query[q].key]])

\* Nothing in the list: the value read first is that of the snapshot.
GetFallsBack(q) ==
    /\ query[q].pc = "find"
    /\ Ends(q)
    /\ Queried(q, [query[q] EXCEPT !.pc = "got", !.answer = query[q].tmp])

ContainsFound(q) ==
    /\ query[q].pc = "find_key"
    /\ Found(q)
    /\ Queried(q, [query[q] EXCEPT !.pc = "has",
                     !.answer = data[query[q].at][query[q].key] # None])

ContainsEnds(q) ==
    /\ query[q].pc = "find_key"
    /\ Ends(q)
    /\ Queried(q, [query[q] EXCEPT !.pc = "contains"])

\* contains_key reads the storage last.
ContainsReads(q) ==
    /\ query[q].pc = "contains"
    /\ Queried(q, [query[q] EXCEPT !.pc = "has",
                     !.answer = persistence[query[q].key] # None])

\* The closure of the query uses the answer and goes on.
UseAnswer(q) ==
    /\ query[q].pc \in {"got", "has"}
    /\ Queried(q, [NoLookup EXCEPT !.pc = "open", !.snapshot = query[q].snapshot])

-----------------------------------------------------------------------------
UpdateStep ==
    \/ BeginUpdate \/ StoreData \/ StoreNext \/ CommitBatch \/ MoveHead
    \/ \E k \in Keys : RemoveKey(k) \/ \E v \in Vals : InsertKey(k, v)

QueryStep(q) ==
    \/ BeginQuery(q) \/ EndQuery(q) \/ FindNext(q) \/ GetFound(q) \/ GetFallsBack(q)
    \/ ContainsFound(q) \/ ContainsEnds(q) \/ ContainsReads(q) \/ UseAnswer(q)
    \/ \E k \in Keys : GetBegin(q, k) \/ ContainsBegin(q, k)

AtomoNext == UpdateStep \/ \E q \in Queries : QueryStep(q)

AtomoSpec == AtomoInit /\ [][AtomoNext]_atomoVars

-----------------------------------------------------------------------------
\* TableRef::get answers with the value of the version the query started at,
\* however many updates commit while it runs (table.rs:243).
GetsSeeSnapshot ==
    \A q \in Queries :
        query[q].pc = "got" =>
            query[q].answer = contents[query[q].snapshot][query[q].key]

\* The keys a query iterates over (keys, clear, as_map, which unwraps the get
\* of every one of them) are the keys that have a value in its version.
KeysHaveValues ==
    \A q \in Queries :
        query[q].pc # "idle" =>
            metadata[query[q].snapshot] =
                {k \in Keys : contents[query[q].snapshot][k] # None}

\* "a consistent view": a query reads the values and the keys of the version it
\* started at, while updates append snapshots and write the persistence.
QueriesSeeSnapshot == AtomoTypeOK /\ GetsSeeSnapshot /\ KeysHaveValues
==============================================================================
