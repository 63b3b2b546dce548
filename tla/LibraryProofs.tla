--------------------------- MODULE LibraryProofs ----------------------------
(***************************************************************************)
(* What the libraries of the node guarantee, for every number of keys,     *)
(* queries, updates, signals, lists and triggers. Atomo: every lookup by   *)
(* TableRef::get of a query returns the value of the version the query     *)
(* started at, and the keys it iterates over are those with a value in     *)
(* that version. Better-shutdown: completion is reported only when every   *)
(* registered signal is gone, and the arenas of the wait lists never lose  *)
(* or overwrite a waker.  Handshake: the proxy of a client connection      *)
(* relays payloads whole and tokens to whom they belong, for any number of *)
(* transports, payloads of any lengths and any split into reads.           *)
(***************************************************************************)
EXTENDS Atomo, Shutdown, Handshake, Integers, SequenceTheorems, FiniteSetTheorems, TLAPS

-----------------------------------------------------------------------------
(* Atomo.                                                                  *)

\* The pointers that push has set: up to the head's own once it has stored its
\* inverse, or linked the next node.
ListShape ==
    /\ stored = IF updater \in {"idle", "mutate"} THEN 0..head - 1 ELSE 0..head
    /\ linked = IF updater \in {"idle", "mutate", "link"} THEN 0..head - 1
                                                           ELSE 0..head
    /\ updater # "idle" => head < MaxVersion

\* Between storing the inverse and committing the batch the two belong together.
InverseReady ==
    updater \in {"link", "commit"} => data[head] = compute_inverse

\* The newest version that the storage or the list can produce.
Newest == IF updater = "move" THEN head + 1 ELSE head

\* Node n is the first from v on with an operation on k.
FirstFrom(v, n, k) ==
    /\ n \in stored /\ v <= n /\ k \in DOMAIN data[n]
    /\ \A m \in stored : v <= m /\ m < n => k \notin DOMAIN data[m]

Untouched(v, k) == \A n \in stored : v <= n => k \notin DOMAIN data[n]

\* The list and the storage still hold every version.
Reconstructs ==
    \A v \in 0..Newest, k \in Keys :
        /\ \A n \in Versions : FirstFrom(v, n, k) => data[n][k] = contents[v][k]
        /\ Untouched(v, k) => persistence[k] = contents[v][k]

\* A running walk has passed only nodes without its key, and the value it read
\* first is right unless some node, now or later, says otherwise.
WalkOK(q) ==
    query[q].pc = "find" =>
      /\ query[q].key \in Keys
      /\ query[q].snapshot <= query[q].at /\ query[q].at <= head + 1
      /\ query[q].at = head + 1 => head \in linked
      /\ \A m \in stored : query[q].snapshot <= m /\ m < query[q].at
                             => query[q].key \notin DOMAIN data[m]
      /\ Untouched(query[q].snapshot, query[q].key)
           => query[q].tmp = contents[query[q].snapshot][query[q].key]

SnapshotsExist == \A q \in Queries : query[q].snapshot <= head

\* The key sets: of every version reached, of the update, of the next version.
Present(table) == {k \in Keys : table[k] # None}
KeySets ==
    /\ \A v \in 0..head : metadata[v] = Present(contents[v])
    /\ updater # "idle" => keys = Present(Applied)
    /\ updater \in {"commit", "move"} => metadata[head + 1] = keys
    /\ updater = "move" => Applied = persistence
    /\ contents[Newest] = persistence

\* What the queries rely on.
Reads == SnapshotsExist /\ (\A q \in Queries : WalkOK(q)) /\ GetsSeeSnapshot

AtomoInv ==
    /\ AtomoTypeOK /\ ListShape /\ InverseReady /\ Reconstructs
    /\ SnapshotsExist /\ (\A q \in Queries : WalkOK(q))
    /\ GetsSeeSnapshot /\ KeySets

-----------------------------------------------------------------------------
\* A function from some of the keys to values is a batch.
LEMMA BatchIntro ==
    ASSUME NEW D \in SUBSET Keys, NEW f \in [D -> Value]
    PROVE  f \in Batch
BY DEF Batch

\* A batch is a function from some of the keys to values.
LEMMA BatchElim ==
    ASSUME NEW f \in Batch
    PROVE  /\ DOMAIN f \in SUBSET Keys
           /\ f \in [DOMAIN f -> Value]
BY DEF Batch

\* The batch that has changed nothing yet.
LEMMA EmptyBatchType == EmptyBatch \in Batch /\ DOMAIN EmptyBatch = {}
<1>1. {} \in SUBSET Keys /\ EmptyBatch \in [{} -> Value]
  BY DEF EmptyBatch
<1> QED
  BY <1>1, BatchIntro

\* A batch with one more operation, its inverse and the table it produces.
LEMMA UpdateTypes ==
    ASSUME AtomoTypeOK
    PROVE  /\ \A k \in Keys, v \in Value : WithOperation(k, v) \in Batch
           /\ compute_inverse \in Batch
           /\ Applied \in [Keys -> Value]
<1>1. DOMAIN batch \in SUBSET Keys /\ batch \in [DOMAIN batch -> Value]
  BY BatchElim DEF AtomoTypeOK
<1>2. ASSUME NEW k \in Keys, NEW v \in Value
      PROVE  WithOperation(k, v) \in Batch
  <2>1. DOMAIN batch \cup {k} \in SUBSET Keys
    BY <1>1
  <2>2. WithOperation(k, v) \in [DOMAIN batch \cup {k} -> Value]
    BY <1>1 DEF WithOperation
  <2> QED
    BY <2>1, <2>2, BatchIntro
<1>3. compute_inverse \in Batch
  <2>1. Changes \in SUBSET Keys
    BY <1>1 DEF Changes
  <2>2. compute_inverse \in [Changes -> Value]
    BY <2>1 DEF compute_inverse, AtomoTypeOK
  <2> QED
    BY <2>1, <2>2, BatchIntro
<1>4. Applied \in [Keys -> Value]
  BY <1>1 DEF Applied, AtomoTypeOK
<1> QED
  BY <1>2, <1>3, <1>4

\* The type invariant holds initially and is kept by every step.
LEMMA TypeInit == AtomoInit => AtomoTypeOK
<1> SUFFICES ASSUME AtomoInit PROVE AtomoTypeOK
  OBVIOUS
<1> USE AtomoAssumption
<1>1. data \in [Versions -> Batch] /\ batch \in Batch
  BY EmptyBatchType DEF AtomoInit
<1>2. query \in [Queries ->
         [pc : {"idle", "open", "find", "find_key", "contains", "got", "has"},
          snapshot : Versions, key : Keys \cup {None}, tmp : Value,
          at : 0..MaxVersion + 1, answer : Value \cup BOOLEAN]]
  BY DEF AtomoInit, NoLookup, Versions, Value
<1> QED
  BY <1>1, <1>2 DEF AtomoInit, AtomoTypeOK, Versions

\* An update keeps the types.
LEMMA TypeUpdate ==
    ASSUME AtomoTypeOK, ListShape, UpdateStep
    PROVE  AtomoTypeOK'
<1> USE AtomoAssumption
<1>1. CASE BeginUpdate
  BY <1>1, EmptyBatchType DEF BeginUpdate, listVars, AtomoTypeOK
<1>2. ASSUME NEW k \in Keys, NEW v \in Vals, InsertKey(k, v)
      PROVE  AtomoTypeOK'
  <2>1. batch' \in Batch
    BY <1>2, UpdateTypes DEF InsertKey, Value
  <2> QED
    BY <1>2, <2>1 DEF InsertKey, listVars, AtomoTypeOK
<1>3. ASSUME NEW k \in Keys, RemoveKey(k)
      PROVE  AtomoTypeOK'
  <2>1. batch' \in Batch
    BY <1>3, UpdateTypes DEF RemoveKey, Value
  <2> QED
    BY <1>3, <2>1 DEF RemoveKey, listVars, AtomoTypeOK
<1>4. CASE StoreData
  <2>1. data' \in [Versions -> Batch]
    BY <1>4, UpdateTypes DEF StoreData, AtomoTypeOK
  <2> QED
    BY <1>4, <2>1 DEF StoreData, AtomoTypeOK
<1>5. CASE StoreNext
  BY <1>5 DEF StoreNext, AtomoTypeOK
<1>6. CASE CommitBatch
  <2>1. /\ persistence' \in [Keys -> Value]
        /\ contents' \in [Versions -> [Keys -> Value]]
    BY <1>6, UpdateTypes DEF CommitBatch, AtomoTypeOK
  <2> QED
    BY <1>6, <2>1 DEF CommitBatch, listVars, AtomoTypeOK
<1>7. CASE MoveHead
  <2>1. head' \in Versions
    BY <1>7 DEF MoveHead, ListShape, AtomoTypeOK, Versions
  <2> QED
    BY <1>7, <2>1 DEF MoveHead, AtomoTypeOK
<1> QED
  BY <1>1, <1>2, <1>3, <1>4, <1>5, <1>6, <1>7 DEF UpdateStep

\* A query whose record is replaced by one of its type.
LookupType ==
    [pc : {"idle", "open", "find", "find_key", "contains", "got", "has"},
     snapshot : Versions, key : Keys \cup {None}, tmp : Value,
     at : 0..MaxVersion + 1, answer : Value \cup BOOLEAN]

\* Replacing a query's record by a well-typed one keeps the types.
LEMMA TypeQueried ==
    ASSUME AtomoTypeOK, NEW q \in Queries, NEW r \in LookupType, Queried(q, r)
    PROVE  AtomoTypeOK'
BY DEF Queried, LookupType, listVars, updateVars, AtomoTypeOK

\* A query keeps the types.
LEMMA TypeQuery ==
    ASSUME AtomoTypeOK, ListShape, NEW q \in Queries, QueryStep(q),
           WalkOK(q)
    PROVE  AtomoTypeOK'
<1> USE AtomoAssumption
<1>0. query[q] \in LookupType
  BY DEF AtomoTypeOK, LookupType
<1>a. NoLookup \in LookupType
  BY DEF NoLookup, LookupType, Versions, Value
<1>b. query[q].snapshot \in Versions /\ query[q].snapshot \in 0..MaxVersion + 1
  BY <1>0 DEF LookupType, Versions
<1>1. CASE BeginQuery(q)
  <2>1. [NoLookup EXCEPT !.pc = "open", !.snapshot = head] \in LookupType
    BY <1>a DEF LookupType, AtomoTypeOK
  <2> QED
    BY <1>1, <2>1, TypeQueried DEF BeginQuery
<1>2. CASE EndQuery(q)
  BY <1>2, <1>a, TypeQueried DEF EndQuery
<1>3. CASE FindNext(q)
  <2>1. query[q].at \in 0..MaxVersion
    BY <1>3 DEF FindNext, Follows, AtomoTypeOK, Versions
  <2>2. [query[q] EXCEPT !.at = @ + 1] \in LookupType
    BY <1>0, <2>1 DEF LookupType
  <2> QED
    BY <1>3, <2>2, TypeQueried DEF FindNext
<1>4. CASE GetFound(q)
  <2>1. data[query[q].at][query[q].key] \in Value
    BY <1>4, BatchElim DEF GetFound, Found, AtomoTypeOK
  <2>2. [query[q] EXCEPT !.pc = "got", !.answer = data[query[q].at][query[q].key]]
          \in LookupType
    BY <1>0, <2>1 DEF LookupType
  <2> QED
    BY <1>4, <2>2, TypeQueried DEF GetFound
<1>5. CASE GetFallsBack(q)
  <2>1. [query[q] EXCEPT !.pc = "got", !.answer = query[q].tmp] \in LookupType
    BY <1>0 DEF LookupType
  <2> QED
    BY <1>5, <2>1, TypeQueried DEF GetFallsBack
<1>6. CASE ContainsFound(q)
  <2>1. [query[q] EXCEPT !.pc = "has",
           !.answer = data[query[q].at][query[q].key] # None] \in LookupType
    BY <1>0 DEF LookupType
  <2> QED
    BY <1>6, <2>1, TypeQueried DEF ContainsFound
<1>7. CASE ContainsEnds(q)
  <2>1. [query[q] EXCEPT !.pc = "contains"] \in LookupType
    BY <1>0 DEF LookupType
  <2> QED
    BY <1>7, <2>1, TypeQueried DEF ContainsEnds
<1>8. CASE ContainsReads(q)
  <2>1. [query[q] EXCEPT !.pc = "has",
           !.answer = persistence[query[q].key] # None] \in LookupType
    BY <1>0 DEF LookupType
  <2> QED
    BY <1>8, <2>1, TypeQueried DEF ContainsReads
<1>9. CASE UseAnswer(q)
  <2>1. [NoLookup EXCEPT !.pc = "open", !.snapshot = query[q].snapshot]
          \in LookupType
    BY <1>a, <1>b DEF LookupType
  <2> QED
    BY <1>9, <2>1, TypeQueried DEF UseAnswer
<1>10. ASSUME NEW k \in Keys, GetBegin(q, k)
       PROVE  AtomoTypeOK'
  <2>1. [query[q] EXCEPT !.pc = "find", !.key = k, !.tmp = persistence[k],
           !.at = query[q].snapshot] \in LookupType
    BY <1>0, <1>b DEF LookupType, AtomoTypeOK
  <2> QED
    BY <1>10, <2>1, TypeQueried DEF GetBegin
<1>11. ASSUME NEW k \in Keys, ContainsBegin(q, k)
       PROVE  AtomoTypeOK'
  <2>1. [query[q] EXCEPT !.pc = "has", !.key = k,
           !.answer = k \in metadata[query[q].snapshot]] \in LookupType
    <3>1. (k \in metadata[query[q].snapshot]) \in BOOLEAN
      OBVIOUS
    <3> QED
      BY <1>0, <3>1 DEF LookupType
  <2>2. [query[q] EXCEPT !.pc = "find_key", !.key = k,
           !.at = query[q].snapshot] \in LookupType
    BY <1>0, <1>b DEF LookupType
  <2> QED
    BY <1>11, <2>1, <2>2, TypeQueried DEF ContainsBegin
<1> QED
  BY <1>1, <1>2, <1>3, <1>4, <1>5, <1>6, <1>7, <1>8, <1>9, <1>10, <1>11 DEF QueryStep

-----------------------------------------------------------------------------
\* A database just opened: the list is one empty node.
LEMMA InvInit == AtomoInit => AtomoInv
<1> SUFFICES ASSUME AtomoInit PROVE AtomoInv
  OBVIOUS
<1> USE AtomoAssumption
<1>1. AtomoTypeOK
  BY TypeInit
<1>2. ListShape /\ InverseReady
  BY DEF AtomoInit, ListShape, InverseReady
<1>3. Reconstructs
  <2>1. Newest = 0
    BY DEF AtomoInit, Newest
  <2> QED
    BY <2>1 DEF AtomoInit, Reconstructs, FirstFrom, Versions
<1>4. SnapshotsExist /\ (\A q \in Queries : WalkOK(q)) /\ GetsSeeSnapshot
  BY DEF AtomoInit, NoLookup, SnapshotsExist, WalkOK, GetsSeeSnapshot
<1>5. KeySets
  BY DEF AtomoInit, KeySets, Newest, Present, Versions
<1> QED
  BY <1>1, <1>2, <1>3, <1>4, <1>5 DEF AtomoInv

\* A step of a query leaves what the updater has built as it is.
LEMMA QueryKeepsList ==
    ASSUME ListShape, InverseReady, Reconstructs, KeySets,
           UNCHANGED <<listVars, updateVars, persistence, enable_iter, contents>>
    PROVE  (ListShape /\ InverseReady /\ Reconstructs /\ KeySets)'
<1>1. UNCHANGED <<stored, data, linked, head, metadata, updater, batch, keys,
                  persistence, contents>>
  BY DEF listVars, updateVars
<1>2. ListShape'
  BY <1>1 DEF ListShape
<1>3. InverseReady'
  BY <1>1 DEF InverseReady, compute_inverse, Changes
<1>4. Newest' = Newest
  BY <1>1 DEF Newest
<1>5. Reconstructs'
  BY <1>1, <1>4 DEF Reconstructs, FirstFrom, Untouched
<1>6. Applied' = Applied
  BY <1>1 DEF Applied
<1>7. KeySets'
  BY <1>1, <1>4, <1>6 DEF KeySets, Present
<1> QED
  BY <1>2, <1>3, <1>5, <1>7

\* A lookup that finds nothing from its node on finds nothing in the list.
LEMMA WalkEnds ==
    ASSUME AtomoTypeOK, ListShape, NEW q \in Queries, WalkOK(q),
           query[q].pc = "find", Ends(q)
    PROVE  Untouched(query[q].snapshot, query[q].key)
<1> SUFFICES ASSUME NEW n \in stored, query[q].snapshot <= n
             PROVE  query[q].key \notin DOMAIN data[n]
  BY DEF Untouched
<1>1. head \in Nat /\ query[q].at \in Nat /\ n \in Nat
  BY AtomoAssumption DEF AtomoTypeOK, Versions
<1>2. CASE n < query[q].at
  BY <1>2 DEF WalkOK
<1>3. CASE n >= query[q].at
  <2>1. query[q].at \in stored
    BY <1>1, <1>3 DEF ListShape
  <2>2. query[q].key \notin DOMAIN data[query[q].at] /\ query[q].at \notin linked
    BY <2>1 DEF Ends, Found, Follows
  <2>3. n = query[q].at
    BY <1>1, <1>3, <2>1, <2>2 DEF ListShape
  <2> QED
    BY <2>2, <2>3
<1> QED
  BY <1>1, <1>2, <1>3

\* One query's lookup goes on: the walks of the others are as they were.
LEMMA OtherWalks ==
    ASSUME AtomoTypeOK, NEW q \in Queries, NEW r, Queried(q, r),
           \A p \in Queries : WalkOK(p), SnapshotsExist, GetsSeeSnapshot,
           r.snapshot <= head,
           r.pc # "find",
           r.pc = "got" => r.answer = contents[r.snapshot][r.key]
    PROVE  (SnapshotsExist /\ (\A p \in Queries : WalkOK(p)) /\ GetsSeeSnapshot)'
<1>1. query' = [query EXCEPT ![q] = r] /\ query \in [Queries -> LookupType]
  BY DEF Queried, AtomoTypeOK, LookupType
<1>2. UNCHANGED <<stored, data, linked, head, contents>>
  BY DEF Queried, listVars
<1>3. query'[q] = r /\ \A p \in Queries : p # q => query'[p] = query[p]
  BY <1>1
<1>4. SnapshotsExist'
  BY <1>2, <1>3 DEF SnapshotsExist
<1>5. ASSUME NEW p \in Queries
      PROVE  WalkOK(p)'
  BY <1>2, <1>3 DEF WalkOK, Untouched
<1>6. GetsSeeSnapshot'
  BY <1>2, <1>3 DEF GetsSeeSnapshot
<1> QED
  BY <1>4, <1>5, <1>6

\* Every step of a query keeps the invariant.
LEMMA InvQuery ==
    ASSUME AtomoInv, NEW q \in Queries, QueryStep(q)
    PROVE  AtomoInv'
<1> USE AtomoAssumption
<1>0. /\ AtomoTypeOK /\ ListShape /\ InverseReady /\ Reconstructs
      /\ SnapshotsExist /\ (\A p \in Queries : WalkOK(p))
      /\ GetsSeeSnapshot /\ KeySets
  BY DEF AtomoInv
<1>t. /\ query[q] \in LookupType /\ query \in [Queries -> LookupType]
      /\ head \in Nat
  BY <1>0 DEF AtomoTypeOK, LookupType, Versions
<1>s. query[q].snapshot \in Versions /\ query[q].snapshot <= head
  BY <1>0, <1>t DEF LookupType, SnapshotsExist
<1>1. AtomoTypeOK'
  BY <1>0, TypeQuery
<1>2. UNCHANGED <<listVars, updateVars, persistence, enable_iter, contents>>
  BY DEF QueryStep, BeginQuery, EndQuery, GetBegin, ContainsBegin, FindNext,
         GetFound, GetFallsBack, ContainsFound, ContainsEnds, ContainsReads,
         UseAnswer, Queried
<1>3. (ListShape /\ InverseReady /\ Reconstructs /\ KeySets)'
  BY <1>0, <1>2, QueryKeepsList
<1>4. CASE BeginQuery(q)
  <2> DEFINE r == [NoLookup EXCEPT !.pc = "open", !.snapshot = head]
  <2>1. r.pc = "open" /\ r.snapshot = head
    BY DEF NoLookup
  <2>2. r.snapshot <= head
    BY <1>t, <2>1
  <2>3. Queried(q, r)
    BY <1>4 DEF BeginQuery
  <2> HIDE DEF r
  <2> QED
    BY <1>0, <1>1, <1>3, <2>1, <2>2, <2>3, OtherWalks DEF AtomoInv
<1>5. CASE EndQuery(q)
  <2>1. NoLookup.pc = "idle" /\ NoLookup.snapshot <= head
    BY <1>t DEF NoLookup
  <2>2. Queried(q, NoLookup)
    BY <1>5 DEF EndQuery
  <2> QED
    BY <1>0, <1>1, <1>3, <2>1, <2>2, OtherWalks DEF AtomoInv
<1>6. CASE GetFound(q)
  <2> DEFINE r == [query[q] EXCEPT !.pc = "got",
                     !.answer = data[query[q].at][query[q].key]]
  <2>1. /\ r.pc = "got" /\ r.snapshot = query[q].snapshot /\ r.key = query[q].key
        /\ r.answer = data[query[q].at][query[q].key]
    BY <1>t DEF LookupType
  <2>2. query[q].pc = "find" /\ query[q].at \in stored
        /\ query[q].key \in DOMAIN data[query[q].at]
    BY <1>6 DEF GetFound, Found
  <2>3. FirstFrom(query[q].snapshot, query[q].at, query[q].key)
    BY <1>0, <2>2 DEF WalkOK, FirstFrom
  <2>4. /\ query[q].snapshot \in 0..Newest /\ query[q].key \in Keys
        /\ query[q].at \in Versions
    BY <1>0, <1>s, <1>t, <2>2 DEF WalkOK, Newest, Versions, AtomoTypeOK
  <2>5. r.answer = contents[r.snapshot][r.key]
    BY <1>0, <2>1, <2>3, <2>4 DEF Reconstructs
  <2>6. Queried(q, r)
    BY <1>6 DEF GetFound
  <2>7. r.snapshot <= head /\ r.pc # "find"
    BY <1>s, <2>1
  <2> HIDE DEF r
  <2> QED
    BY <1>0, <1>1, <1>3, <2>5, <2>6, <2>7, OtherWalks DEF AtomoInv
<1>7. CASE GetFallsBack(q)
  <2> DEFINE r == [query[q] EXCEPT !.pc = "got", !.answer = query[q].tmp]
  <2>1. /\ r.pc = "got" /\ r.snapshot = query[q].snapshot /\ r.key = query[q].key
        /\ r.answer = query[q].tmp
    BY <1>t DEF LookupType
  <2>2. query[q].pc = "find" /\ Ends(q)
    BY <1>7 DEF GetFallsBack
  <2>3. Untouched(query[q].snapshot, query[q].key)
    BY <1>0, <2>2, WalkEnds
  <2>4. r.answer = contents[r.snapshot][r.key]
    BY <1>0, <2>1, <2>2, <2>3 DEF WalkOK
  <2>5. Queried(q, r)
    BY <1>7 DEF GetFallsBack
  <2>6. r.snapshot <= head /\ r.pc # "find"
    BY <1>s, <2>1
  <2> HIDE DEF r
  <2> QED
    BY <1>0, <1>1, <1>3, <2>4, <2>5, <2>6, OtherWalks DEF AtomoInv
<1>8. CASE ContainsFound(q) \/ ContainsReads(q) \/ ContainsEnds(q)
  <2>1. PICK r : /\ Queried(q, r) /\ r.pc \in {"has", "contains"}
                 /\ r.snapshot = query[q].snapshot
    <3> DEFINE has(b) == [query[q] EXCEPT !.pc = "has", !.answer = b]
               ends == [query[q] EXCEPT !.pc = "contains"]
    <3>1. \A b : has(b).pc = "has" /\ has(b).snapshot = query[q].snapshot
      BY <1>t DEF LookupType
    <3>2. ends.pc = "contains" /\ ends.snapshot = query[q].snapshot
      BY <1>t DEF LookupType
    <3>3. \/ \E b : Queried(q, has(b))
          \/ Queried(q, ends)
      BY <1>8 DEF ContainsFound, ContainsReads, ContainsEnds
    <3> QED
      BY <3>1, <3>2, <3>3
  <2>2. r.snapshot <= head
    BY <1>s, <2>1
  <2> QED
    BY <1>0, <1>1, <1>3, <2>1, <2>2, OtherWalks DEF AtomoInv
<1>9. CASE UseAnswer(q)
  <2> DEFINE r == [NoLookup EXCEPT !.pc = "open", !.snapshot = query[q].snapshot]
  <2>1. r.pc = "open" /\ r.snapshot <= head
    BY <1>s DEF NoLookup
  <2>2. Queried(q, r)
    BY <1>9 DEF UseAnswer
  <2> HIDE DEF r
  <2> QED
    BY <1>0, <1>1, <1>3, <2>1, <2>2, OtherWalks DEF AtomoInv
<1>10. ASSUME NEW k \in Keys, ContainsBegin(q, k)
       PROVE  AtomoInv'
  <2>1. PICK r : /\ Queried(q, r) /\ r.pc \in {"has", "find_key"}
                 /\ r.snapshot = query[q].snapshot
    <3> DEFINE has == [query[q] EXCEPT !.pc = "has", !.key = k,
                         !.answer = k \in metadata[query[q].snapshot]]
               walk == [query[q] EXCEPT !.pc = "find_key", !.key = k,
                          !.at = query[q].snapshot]
    <3>1. has.pc = "has" /\ has.snapshot = query[q].snapshot
      BY <1>t DEF LookupType
    <3>2. walk.pc = "find_key" /\ walk.snapshot = query[q].snapshot
      BY <1>t DEF LookupType
    <3>3. Queried(q, has) \/ Queried(q, walk)
      BY <1>10 DEF ContainsBegin
    <3> QED
      BY <3>1, <3>2, <3>3
  <2>2. r.snapshot <= head
    BY <1>s, <2>1
  <2> QED
    BY <1>0, <1>1, <1>3, <2>1, <2>2, OtherWalks DEF AtomoInv
<1>u. UNCHANGED <<stored, data, linked, head, contents>>
  BY <1>2 DEF listVars
<1>11. ASSUME NEW k \in Keys, GetBegin(q, k)
       PROVE  AtomoInv'
  <2> DEFINE r == [query[q] EXCEPT !.pc = "find", !.key = k,
                     !.tmp = persistence[k], !.at = query[q].snapshot]
  <2>1. /\ r.pc = "find" /\ r.snapshot = query[q].snapshot /\ r.key = k
        /\ r.tmp = persistence[k] /\ r.at = query[q].snapshot
    BY <1>t DEF LookupType
  <2>2. query'[q] = r /\ \A p \in Queries : p # q => query'[p] = query[p]
    BY <1>t, <1>11 DEF GetBegin, Queried
  <2> HIDE DEF r
  <2>3. query[q].snapshot \in 0..Newest
    BY <1>s, <1>t DEF Newest, Versions
  <2>4. Untouched(query[q].snapshot, k) =>
          persistence[k] = contents[query[q].snapshot][k]
    BY <1>0, <2>3 DEF Reconstructs
  <2>5. WalkOK(q)'
    BY <1>0, <1>s, <1>t, <1>u, <2>1, <2>2, <2>4 DEF WalkOK, Untouched, Versions,
       AtomoTypeOK
  <2>6. ASSUME NEW p \in Queries, p # q
        PROVE  WalkOK(p)'
    BY <1>0, <1>u, <2>2, <2>6 DEF WalkOK, Untouched
  <2>7. SnapshotsExist' /\ GetsSeeSnapshot'
    BY <1>0, <1>u, <2>1, <2>2 DEF SnapshotsExist, GetsSeeSnapshot
  <2> QED
    BY <1>1, <1>3, <2>5, <2>6, <2>7 DEF AtomoInv
<1>12. CASE FindNext(q)
  <2> DEFINE r == [query[q] EXCEPT !.at = @ + 1]
  <2>1. /\ r.pc = query[q].pc /\ r.snapshot = query[q].snapshot
        /\ r.key = query[q].key /\ r.tmp = query[q].tmp
        /\ r.at = query[q].at + 1
    BY <1>t DEF LookupType
  <2>2. query'[q] = r /\ \A p \in Queries : p # q => query'[p] = query[p]
    BY <1>t, <1>12 DEF FindNext, Queried
  <2> HIDE DEF r
  <2>3. /\ query[q].at \in stored /\ query[q].at \in linked
        /\ query[q].key \notin DOMAIN data[query[q].at]
    BY <1>12 DEF FindNext, Follows
  <2>4. query[q].at \in Nat /\ query[q].at <= head /\ stored \subseteq Nat
    BY <1>0, <1>t, <2>3 DEF ListShape, AtomoTypeOK, Versions
  <2>5. WalkOK(q)'
    <3> SUFFICES ASSUME query[q].pc = "find"
                 PROVE  WalkOK(q)'
      BY <2>1, <2>2 DEF WalkOK
    <3>1. /\ query[q].key \in Keys /\ query[q].snapshot <= query[q].at
          /\ \A m \in stored : query[q].snapshot <= m /\ m < query[q].at
                                 => query[q].key \notin DOMAIN data[m]
          /\ Untouched(query[q].snapshot, query[q].key)
               => query[q].tmp = contents[query[q].snapshot][query[q].key]
      BY <1>0 DEF WalkOK
    <3>2. query[q].snapshot <= r.at /\ r.at <= head + 1
      BY <1>s, <1>t, <2>1, <2>4, <3>1 DEF Versions
    <3>3. r.at = head + 1 => head \in linked
      BY <1>t, <2>1, <2>3, <2>4
    <3>4. \A m \in stored : m < r.at => m < query[q].at \/ m = query[q].at
      <4>1. PICK x \in Nat : x = query[q].at
        BY <2>4
      <4>2. \A m \in stored : m \in Nat
        BY <2>4
      <4>3. r.at = x + 1
        BY <2>1, <4>1
      <4> QED
        BY <4>1, <4>2, <4>3
    <3>5. \A m \in stored : query[q].snapshot <= m /\ m < r.at
                               => query[q].key \notin DOMAIN data[m]
      BY <2>3, <3>1, <3>4
    <3> QED
      BY <1>u, <2>1, <2>2, <3>1, <3>2, <3>3, <3>5 DEF WalkOK, Untouched
  <2>6. ASSUME NEW p \in Queries, p # q
        PROVE  WalkOK(p)'
    BY <1>0, <1>u, <2>2, <2>6 DEF WalkOK, Untouched
  <2>7. query[q].pc # "got"
    BY <1>12 DEF FindNext
  <2>8. SnapshotsExist' /\ GetsSeeSnapshot'
    BY <1>0, <1>u, <2>1, <2>2, <2>7 DEF SnapshotsExist, GetsSeeSnapshot
  <2> QED
    BY <1>1, <1>3, <2>5, <2>6, <2>8 DEF AtomoInv
<1> QED
  BY <1>4, <1>5, <1>6, <1>7, <1>8, <1>9, <1>10, <1>11, <1>12 DEF QueryStep

\* Every step of the updater keeps the invariant.  Storing the inverse and
\* committing the batch are the two that could lose a version.
LEMMA InvUpdate ==
    ASSUME AtomoInv, UpdateStep
    PROVE  AtomoInv'
<1> USE AtomoAssumption
<1>0. /\ AtomoTypeOK /\ ListShape /\ InverseReady /\ Reconstructs
      /\ SnapshotsExist /\ (\A p \in Queries : WalkOK(p))
      /\ GetsSeeSnapshot /\ KeySets
  BY DEF AtomoInv
<1>t. /\ head \in Nat /\ head \in Versions /\ query \in [Queries -> LookupType]
      /\ data \in [Versions -> Batch] /\ persistence \in [Keys -> Value]
      /\ contents \in [Versions -> [Keys -> Value]]
      /\ metadata \in [Versions -> SUBSET Keys]
      /\ DOMAIN batch \subseteq Keys
  BY <1>0, BatchElim DEF AtomoTypeOK, LookupType, Versions
<1>n. head < MaxVersion => head + 1 \in Versions
  BY <1>t DEF Versions
<1>1. AtomoTypeOK'
  BY <1>0, TypeUpdate
<1>2. query' = query
  BY DEF UpdateStep, BeginUpdate, InsertKey, RemoveKey, StoreData, StoreNext,
         CommitBatch, MoveHead
<1>3. CASE BeginUpdate
  <2>1. /\ UNCHANGED <<stored, data, linked, head, metadata, persistence, contents>>
        /\ updater = "idle" /\ updater' = "mutate" /\ head < MaxVersion
        /\ batch' = EmptyBatch /\ keys' = metadata[head]
    BY <1>3 DEF BeginUpdate, listVars
  <2>2. ListShape' /\ InverseReady'
    BY <1>0, <2>1 DEF ListShape, InverseReady
  <2>3. Newest' = Newest /\ Newest = head
    BY <2>1 DEF Newest
  <2>4. Reconstructs'
    BY <1>0, <2>1, <2>3 DEF Reconstructs, FirstFrom, Untouched
  <2>5. Reads'
    BY <1>0, <1>2, <2>1 DEF Reads, SnapshotsExist, WalkOK, Untouched, GetsSeeSnapshot
  <2>6. Applied' = persistence
    BY <1>t, <2>1, EmptyBatchType DEF Applied
  <2>7. KeySets'
    BY <1>0, <1>t, <2>1, <2>3, <2>6 DEF KeySets, Present
  <2> QED
    BY <1>1, <2>2, <2>4, <2>5, <2>7 DEF AtomoInv, Reads
<1>4. ASSUME NEW k \in Keys,
             RemoveKey(k) \/ \E v \in Vals : InsertKey(k, v)
      PROVE  AtomoInv'
  <2>1. PICK v \in Value :
          /\ batch' = WithOperation(k, v)
          /\ keys' = IF v = None THEN keys \ {k} ELSE keys \cup {k}
    BY <1>4 DEF RemoveKey, InsertKey, Value
  <2>2. /\ UNCHANGED <<stored, data, linked, head, metadata, persistence, contents>>
        /\ updater = "mutate" /\ updater' = "mutate"
    BY <1>4 DEF RemoveKey, InsertKey, listVars
  <2>3. ListShape' /\ InverseReady'
    BY <1>0, <2>2 DEF ListShape, InverseReady
  <2>4. Newest' = Newest /\ Newest = head
    BY <2>2 DEF Newest
  <2>5. Reconstructs'
    BY <1>0, <2>2, <2>4 DEF Reconstructs, FirstFrom, Untouched
  <2>6. Reads'
    BY <1>0, <1>2, <2>2 DEF Reads, SnapshotsExist, WalkOK, Untouched, GetsSeeSnapshot
  <2>7. \A l \in Keys : Applied'[l] = IF l = k THEN v ELSE Applied[l]
    BY <1>t, <2>1, <2>2 DEF Applied, WithOperation
  <2>8. keys = Present(Applied)
    BY <1>0, <2>2 DEF KeySets
  <2>9. keys' = Present(Applied')
    BY <2>1, <2>7, <2>8 DEF Present
  <2>10. KeySets'
    BY <1>0, <2>2, <2>4, <2>9 DEF KeySets, Present
  <2> QED
    BY <1>1, <2>3, <2>5, <2>6, <2>10 DEF AtomoInv, Reads
<1>5. CASE StoreData
  <2>1. /\ UNCHANGED <<linked, head, metadata, persistence, contents, batch, keys>>
        /\ updater = "mutate" /\ updater' = "link"
        /\ stored' = stored \cup {head}
        /\ data' = [data EXCEPT ![head] = compute_inverse]
    BY <1>5 DEF StoreData
  <2>2. stored = 0..head - 1 /\ linked = 0..head - 1
    BY <1>0, <2>1 DEF ListShape
  <2>3. ListShape'
    BY <1>0, <1>t, <2>1, <2>2 DEF ListShape
  <2>4. compute_inverse' = compute_inverse
    BY <2>1 DEF compute_inverse, Changes
  <2>5. data'[head] = compute_inverse /\ \A n \in Versions \ {head} : data'[n] = data[n]
    BY <1>t, <2>1
  <2>6. InverseReady'
    BY <2>1, <2>4, <2>5 DEF InverseReady
  <2>7. Newest' = Newest /\ Newest = head
    BY <2>1 DEF Newest
  <2>8. \A n \in stored : n \in Versions \ {head} /\ n < head
    BY <1>t, <2>2 DEF Versions
  <2>9. \A v, k : Untouched(v, k)' => Untouched(v, k)
    BY <2>1, <2>5, <2>8 DEF Untouched
  <2>10. ASSUME NEW v \in 0..head, NEW k \in Keys, NEW n \in Versions,
                FirstFrom(v, n, k)'
         PROVE  data'[n][k] = contents[v][k]
    <3>1. /\ n \in stored' /\ v <= n /\ k \in DOMAIN data'[n]
          /\ \A m \in stored' : v <= m /\ m < n => k \notin DOMAIN data'[m]
      BY <2>10 DEF FirstFrom
    <3>2. CASE n # head
      <4>1. FirstFrom(v, n, k)
        BY <3>1, <3>2, <2>1, <2>5, <2>8 DEF FirstFrom
      <4> QED
        BY <1>0, <2>5, <2>7, <3>2, <4>1 DEF Reconstructs
    <3>3. CASE n = head
      <4>1. Untouched(v, k)
        BY <3>1, <3>3, <2>1, <2>5, <2>8 DEF Untouched
      <4>2. persistence[k] = contents[v][k]
        BY <1>0, <2>7, <4>1 DEF Reconstructs
      <4>3. data'[n][k] = persistence[k]
        BY <2>5, <3>1, <3>3 DEF compute_inverse
      <4> QED
        BY <4>2, <4>3
    <3> QED
      BY <3>2, <3>3
  <2>11. Reconstructs'
    BY <1>0, <2>1, <2>7, <2>9, <2>10 DEF Reconstructs
  <2>12. ASSUME NEW p \in Queries
         PROVE  WalkOK(p)'
    <3> SUFFICES ASSUME query[p].pc = "find"
                 PROVE  WalkOK(p)'
      BY <1>2 DEF WalkOK
    <3>1. /\ query[p].key \in Keys
          /\ query[p].snapshot <= query[p].at /\ query[p].at <= head + 1
          /\ query[p].at = head + 1 => head \in linked
          /\ \A m \in stored : query[p].snapshot <= m /\ m < query[p].at
                                 => query[p].key \notin DOMAIN data[m]
          /\ Untouched(query[p].snapshot, query[p].key)
               => query[p].tmp = contents[query[p].snapshot][query[p].key]
      BY <1>0 DEF WalkOK
    <3>2. query[p].at \in Nat
      BY <1>t DEF LookupType
    <3>3. query[p].at <= head
      BY <1>t, <2>2, <3>1, <3>2
    <3>4. \A m \in stored' : query[p].snapshot <= m /\ m < query[p].at
                               => query[p].key \notin DOMAIN data'[m]
      BY <1>t, <2>1, <2>5, <2>8, <3>1, <3>2, <3>3
    <3> QED
      BY <1>2, <2>1, <2>9, <3>1, <3>4 DEF WalkOK
  <2>13. Reads'
    BY <1>0, <1>2, <2>1, <2>12 DEF Reads, SnapshotsExist, GetsSeeSnapshot
  <2>14. Applied' = Applied
    BY <2>1 DEF Applied
  <2>15. KeySets'
    BY <1>0, <2>1, <2>7, <2>14 DEF KeySets, Present
  <2> QED
    BY <1>1, <2>3, <2>6, <2>11, <2>13, <2>15 DEF AtomoInv, Reads
<1>6. CASE StoreNext
  <2>1. /\ UNCHANGED <<stored, data, head, persistence, contents, batch, keys>>
        /\ updater = "link" /\ updater' = "commit"
        /\ linked' = linked \cup {head}
        /\ metadata' = [metadata EXCEPT ![head + 1] = keys]
    BY <1>6 DEF StoreNext
  <2>2. head < MaxVersion
    BY <1>0, <2>1 DEF ListShape
  <2>3. ListShape'
    BY <1>0, <1>t, <2>1 DEF ListShape
  <2>4. compute_inverse' = compute_inverse /\ Applied' = Applied
    BY <2>1 DEF compute_inverse, Changes, Applied
  <2>5. InverseReady'
    BY <1>0, <2>1, <2>4 DEF InverseReady
  <2>6. Newest' = Newest /\ Newest = head
    BY <2>1 DEF Newest
  <2>7. Reconstructs'
    BY <1>0, <2>1, <2>6 DEF Reconstructs, FirstFrom, Untouched
  <2>8. Reads'
    BY <1>0, <1>2, <2>1 DEF Reads, SnapshotsExist, WalkOK, Untouched, GetsSeeSnapshot
  <2>9. metadata'[head + 1] = keys /\ \A v \in 0..head : metadata'[v] = metadata[v]
    BY <1>n, <1>t, <2>1, <2>2 DEF Versions
  <2>10. KeySets'
    BY <1>0, <2>1, <2>4, <2>6, <2>9 DEF KeySets, Present
  <2> QED
    BY <1>1, <2>3, <2>5, <2>7, <2>8, <2>10 DEF AtomoInv, Reads
<1>7. CASE CommitBatch
  <2>1. /\ UNCHANGED <<stored, data, linked, head, metadata, batch, keys>>
        /\ updater = "commit" /\ updater' = "move"
        /\ persistence' = Applied
        /\ contents' = [contents EXCEPT ![head + 1] = Applied]
    BY <1>7 DEF CommitBatch, listVars
  <2>2. head < MaxVersion /\ stored = 0..head
    BY <1>0, <2>1 DEF ListShape
  <2>3. ListShape' /\ InverseReady'
    BY <1>0, <2>1 DEF ListShape, InverseReady
  <2>4. Newest = head /\ Newest' = head + 1
    BY <2>1 DEF Newest
  <2>5. contents'[head + 1] = Applied /\ \A v \in 0..head : contents'[v] = contents[v]
    BY <1>n, <1>t, <2>1, <2>2 DEF Versions
  <2>6. ASSUME NEW v \in 0..head, NEW k \in Keys, Untouched(v, k)
        PROVE  persistence'[k] = contents'[v][k]
    <3>1. k \notin DOMAIN data[head]
      BY <1>t, <2>2, <2>6 DEF Untouched
    <3>2. k \notin Changes
      BY <1>0, <2>1, <3>1 DEF InverseReady, compute_inverse
    <3>3. Applied[k] = persistence[k]
      BY <3>2 DEF Changes, Applied
    <3> QED
      BY <1>0, <2>1, <2>4, <2>5, <2>6, <3>3 DEF Reconstructs
  <2>7. ASSUME NEW v \in 0..head + 1, NEW k \in Keys
        PROVE  /\ \A n \in Versions :
                    FirstFrom(v, n, k)' => data'[n][k] = contents'[v][k]
               /\ Untouched(v, k)' => persistence'[k] = contents'[v][k]
    <3>1. CASE v \in 0..head
      <4>1. \A n \in Versions : FirstFrom(v, n, k)' => data'[n][k] = contents'[v][k]
        BY <1>0, <2>1, <2>4, <2>5, <3>1 DEF Reconstructs, FirstFrom
      <4>2. Untouched(v, k)' => Untouched(v, k)
        BY <2>1 DEF Untouched
      <4> QED
        BY <2>6, <3>1, <4>1, <4>2
    <3>2. CASE v = head + 1
      <4>1. \A n \in Versions : ~FirstFrom(v, n, k)'
        BY <1>t, <2>1, <2>2, <3>2 DEF FirstFrom
      <4> QED
        BY <2>1, <2>5, <3>2, <4>1
    <3>3. v \in 0..head \/ v = head + 1
      BY <1>t
    <3> QED
      BY <3>1, <3>2, <3>3
  <2>8. Reconstructs'
    BY <2>4, <2>7, <2>1 DEF Reconstructs
  <2>9. \A p \in Queries : query[p].snapshot \in 0..head
    BY <1>0, <1>t DEF SnapshotsExist, LookupType, Versions
  <2>10. Reads'
    BY <1>0, <1>2, <2>1, <2>5, <2>9 DEF Reads, SnapshotsExist, WalkOK, Untouched,
       GetsSeeSnapshot
  <2>11. Applied' = Applied
    BY <1>t, <2>1 DEF Applied
  <2>12. KeySets'
    BY <1>0, <2>1, <2>4, <2>5, <2>11 DEF KeySets, Present
  <2> QED
    BY <1>1, <2>3, <2>8, <2>10, <2>12 DEF AtomoInv, Reads
<1>8. CASE MoveHead
  <2>1. /\ UNCHANGED <<stored, data, linked, metadata, persistence, contents, batch,
                       keys>>
        /\ updater = "move" /\ updater' = "idle" /\ head' = head + 1
    BY <1>8 DEF MoveHead
  <2>2. ListShape' /\ InverseReady'
    BY <1>0, <1>t, <2>1 DEF ListShape, InverseReady
  <2>3. Newest = head + 1 /\ Newest' = head + 1
    BY <2>1 DEF Newest
  <2>4. Reconstructs'
    BY <1>0, <2>1, <2>3 DEF Reconstructs, FirstFrom, Untouched
  <2>5. SnapshotsExist' /\ GetsSeeSnapshot'
    BY <1>0, <1>2, <1>t, <2>1 DEF SnapshotsExist, GetsSeeSnapshot, LookupType, Versions
  <2>6. ASSUME NEW p \in Queries
        PROVE  WalkOK(p)'
    <3>1. query[p].at \in Nat
      BY <1>t DEF LookupType
    <3>2. query[p].pc = "find" =>
            query[p].at <= head + 1 /\ query[p].at # head + 2
      BY <1>0, <1>t, <3>1 DEF WalkOK
    <3>3. query[p].pc = "find" => query'[p].at <= head' + 1
      BY <1>2, <1>t, <2>1, <3>1, <3>2
    <3>4. query[p].pc = "find" => query'[p].at # head' + 1
      BY <1>2, <1>t, <2>1, <3>1, <3>2
    <3> QED
      BY <1>0, <1>2, <2>1, <3>3, <3>4 DEF WalkOK, Untouched
  <2>7. metadata[head + 1] = Present(contents[head + 1])
    BY <1>0, <2>1, <2>3 DEF KeySets
  <2>8. \A v \in 0..head + 1 : v \in 0..head \/ v = head + 1
    BY <1>t
  <2>9. KeySets'
    BY <1>0, <2>1, <2>3, <2>7, <2>8 DEF KeySets, Present
  <2> QED
    BY <1>1, <2>2, <2>4, <2>5, <2>6, <2>9 DEF AtomoInv
<1> QED
  BY <1>3, <1>4, <1>5, <1>6, <1>7, <1>8 DEF UpdateStep

-----------------------------------------------------------------------------
\* A stuttering step keeps the invariant.
LEMMA InvStutter ==
    ASSUME AtomoInv, UNCHANGED atomoVars
    PROVE  AtomoInv'
<1>1. UNCHANGED <<persistence, stored, data, linked, head, metadata, enable_iter,
                  updater, batch, keys, query, contents>>
  BY DEF atomoVars
<1>2. (AtomoTypeOK /\ ListShape /\ SnapshotsExist /\ GetsSeeSnapshot)'
  BY <1>1 DEF AtomoInv, AtomoTypeOK, ListShape, SnapshotsExist, GetsSeeSnapshot
<1>3. UNCHANGED <<listVars, updateVars, persistence, enable_iter, contents>>
  BY <1>1 DEF listVars, updateVars
<1>4. (ListShape /\ InverseReady /\ Reconstructs /\ KeySets)'
  BY <1>3, QueryKeepsList DEF AtomoInv
<1>5. (\A q \in Queries : WalkOK(q))'
  BY <1>1 DEF AtomoInv, WalkOK, Untouched
<1> QED
  BY <1>2, <1>4, <1>5 DEF AtomoInv

\* The storage and the list of inverses always hold every version of the table,
\* and every running lookup can still reach its own (db.rs:108, inner.rs:100,
\* snapshot/reliable_impl.rs:49).
THEOREM AtomoInvariant == AtomoSpec => []AtomoInv
<1>1. AtomoInit => AtomoInv
  BY InvInit
<1>2. AtomoInv /\ [AtomoNext]_atomoVars => AtomoInv'
  BY InvUpdate, InvQuery, InvStutter DEF AtomoNext
<1> QED
  BY <1>1, <1>2, PTL DEF AtomoSpec

\* TableRef::get answers for the version its query started at, whatever the
\* updater commits meanwhile.
THEOREM GetsAreConsistent == AtomoSpec => []GetsSeeSnapshot
<1>1. AtomoInv => GetsSeeSnapshot
  BY DEF AtomoInv
<1> QED
  BY <1>1, AtomoInvariant, PTL

\* The keys a query iterates over are those that have a value in its version, so
\* as_map never unwraps a missing one.
THEOREM KeysAreConsistent == AtomoSpec => []KeysHaveValues
<1>1. AtomoInv => KeysHaveValues
  <2> SUFFICES ASSUME AtomoInv, NEW q \in Queries
               PROVE  metadata[query[q].snapshot] =
                        {k \in Keys : contents[query[q].snapshot][k] # None}
    BY DEF KeysHaveValues
  <2>1. query[q].snapshot \in 0..head
    BY AtomoAssumption DEF AtomoInv, AtomoTypeOK, SnapshotsExist, Versions
  <2> QED
    BY <2>1 DEF AtomoInv, KeySets, Present
<1> QED
  BY <1>1, AtomoInvariant, PTL

\* A query has a consistent view: the values it gets and the keys it iterates over
\* are those of the version it started at (atomo/README.md).
THEOREM ViewIsConsistent == AtomoSpec => []QueriesSeeSnapshot
<1>1. AtomoInv => AtomoTypeOK
  BY DEF AtomoInv
<1>2. AtomoTypeOK /\ GetsSeeSnapshot /\ KeysHaveValues => QueriesSeeSnapshot
  BY DEF QueriesSeeSnapshot
<1> QED
  BY <1>1, <1>2, AtomoInvariant, GetsAreConsistent, KeysAreConsistent, PTL

-----------------------------------------------------------------------------
(* The shutdown.                                                           *)

ListType == [state : {"open", "woke_up"}, len : Nat, last_freed : Nat,
             capacity : Nat \ {0}, arena : Seq(Entry)]
SignalType == [st : {"new", "pending", "ready", "dropping", "dropped"},
               list : 0 .. NumLists, pos : Nat, woken : BOOLEAN]

-----------------------------------------------------------------------------
(* The arena of one list.                                                  *)

LEMMA Entries ==
    /\ \A s \in Signals : Item(s) \in Entry /\ IsItem(Item(s)) /\ Item(s).of = s
    /\ \A i \in Nat : Link(i) \in Entry /\ ~IsItem(Link(i)) /\ Link(i).of = i
    /\ \A e \in Entry : ~IsItem(e) => e.of \in Nat
BY DEF Item, Link, IsItem, Entry

\* register: the waker gets an entry of its own, the others keep theirs, and the
\* free entries stay chained.
LEMMA RegisterKeeps ==
    ASSUME NEW wl \in ListType, Len(wl.arena) <= wl.capacity, ChainedFree(wl),
           NEW s \in Signals
    PROVE  LET new == register(wl, s)
           IN  /\ new \in ListType /\ Len(new.arena) <= new.capacity /\ ChainedFree(new)
               /\ new.state = wl.state /\ new.len = wl.len + 1
               /\ SlotOf(wl) \in DOMAIN new.arena /\ new.arena[SlotOf(wl)] = Item(s)
               /\ SlotOf(wl) \in Nat /\ SlotOf(wl) # 0
               /\ \A i \in DOMAIN wl.arena :
                    IsItem(wl.arena[i]) => i \in DOMAIN new.arena /\ new.arena[i] = wl.arena[i]
<1> DEFINE new == register(wl, s)
           q == wl.last_freed
           a == wl.arena
<1>1. /\ a \in Seq(Entry) /\ Len(a) \in Nat /\ DOMAIN a = 1 .. Len(a)
      /\ wl.len \in Nat /\ wl.capacity \in Nat \ {0} /\ q \in Nat
    BY DEF ListType
<1>2. Item(s) \in Entry /\ IsItem(Item(s))
    BY Entries
<1>3. CASE Len(a) = wl.capacity /\ q # 0
  <2> DEFINE b == [a EXCEPT ![q] = Item(s)]
             n == a[q].of
  <2>1. q \in Free(a) /\ q \in DOMAIN a /\ ~IsItem(a[q])
    BY <1>3 DEF ChainedFree, Free
  <2>2. /\ b \in Seq(Entry) /\ Len(b) = Len(a) /\ DOMAIN b = DOMAIN a
        /\ b[q] = Item(s) /\ \A i \in DOMAIN a : i # q => b[i] = a[i]
    BY <1>1, <1>2, <2>1
  <2>3. n \in Nat
    BY <1>1, <2>1, Entries
  <2>4. new = [wl EXCEPT !.len = wl.len + 1, !.last_freed = n, !.arena = b]
    <3>1. new = [wl EXCEPT !.len = @ + 1,
                           !.last_freed = wl.arena[@].of,
                           !.arena[wl.last_freed] = Item(s)]
      BY <1>3, Zenon DEF register
    <3> QED
      BY <3>1 DEF ListType
  <2>5. SlotOf(wl) = q
    BY <1>3 DEF SlotOf
  <2> HIDE DEF b, n
  <2>6. /\ new \in ListType /\ new.state = wl.state /\ new.len = wl.len + 1
        /\ new.last_freed = n /\ new.arena = b /\ new.capacity = wl.capacity
    <3>1. PICK m \in Nat : m = wl.len + 1
      BY <1>1
    <3>2. new = [wl EXCEPT !.len = m, !.last_freed = n, !.arena = b]
      BY <2>4, <3>1
    <3> HIDE DEF new
    <3>3. b \in Seq(Entry) /\ n \in Nat
      BY <2>2, <2>3
    <3>4. /\ new \in ListType /\ new.state = wl.state /\ new.len = m
          /\ new.last_freed = n /\ new.arena = b /\ new.capacity = wl.capacity
      BY <3>2, <3>3 DEF ListType
    <3> QED
      BY <3>1, <3>4
  <2>7. Free(b) = Free(a) \ {q}
    BY <1>2, <2>1, <2>2 DEF Free
  <2>8. ChainedFree(new)
    <3>1. n \in Free(b) \cup {0}
      BY <2>1, <2>7 DEF ChainedFree, n
    <3>2. \A i \in Free(b) : i \in Free(a) /\ i # q /\ b[i] = a[i]
      BY <2>2, <2>7 DEF Free
    <3>3. \A i \in Free(b) : b[i].of \in Free(b) \cup {0} /\ b[i].of # n
      BY <2>1, <2>7, <3>2 DEF ChainedFree, n
    <3>4. \A i, k \in Free(b) : b[i].of = b[k].of => i = k
      BY <3>2 DEF ChainedFree
    <3> QED
      BY <2>6, <3>1, <3>3, <3>4 DEF ChainedFree
  <2> HIDE DEF new
  <2> QED
    BY <1>1, <1>2, <1>3, <2>1, <2>2, <2>5, <2>6, <2>8 DEF new
<1>4. CASE ~(Len(a) = wl.capacity /\ q # 0)
  <2> DEFINE b == Append(a, Item(s))
             c == IF Len(a) = wl.capacity THEN 2 * wl.capacity ELSE wl.capacity
  <2>1. /\ b \in Seq(Entry) /\ Len(b) = Len(a) + 1 /\ DOMAIN b = 1 .. Len(a) + 1
        /\ b[Len(a) + 1] = Item(s) /\ \A i \in DOMAIN a : b[i] = a[i]
    BY <1>1, <1>2
  <2>2. c \in Nat \ {0} /\ Len(b) <= c
    BY <1>1, <2>1
  <2>3. new = [wl EXCEPT !.len = wl.len + 1, !.arena = b, !.capacity = c]
    <3>1. new = [wl EXCEPT !.len = @ + 1,
                           !.arena = Append(@, Item(s)),
                           !.capacity = IF Len(wl.arena) = @ THEN 2 * @ ELSE @]
      BY <1>4, Zenon DEF register
    <3> QED
      BY <3>1 DEF ListType
  <2>4. SlotOf(wl) = Len(a) + 1
    BY <1>4 DEF SlotOf
  <2> HIDE DEF b, c
  <2>5. /\ new \in ListType /\ new.state = wl.state /\ new.len = wl.len + 1
        /\ new.last_freed = q /\ new.arena = b /\ new.capacity = c
    <3>1. PICK m \in Nat : m = wl.len + 1
      BY <1>1
    <3>2. new = [wl EXCEPT !.len = m, !.arena = b, !.capacity = c]
      BY <2>3, <3>1
    <3> HIDE DEF new
    <3>3. b \in Seq(Entry) /\ c \in Nat \ {0}
      BY <2>1, <2>2
    <3>4. /\ new \in ListType /\ new.state = wl.state /\ new.len = m
          /\ new.last_freed = wl.last_freed /\ new.arena = b /\ new.capacity = c
      BY <3>2, <3>3 DEF ListType
    <3> QED
      BY <3>1, <3>4
  <2>6. Free(b) = Free(a)
    <3>1. \A i \in DOMAIN b : i \in DOMAIN a \/ b[i] = Item(s)
      BY <1>1, <2>1
    <3>2. DOMAIN a \subseteq DOMAIN b
      BY <1>1, <2>1
    <3> QED
      BY <1>2, <2>1, <3>1, <3>2 DEF Free
  <2>7. \A i \in Free(a) : b[i] = a[i]
    BY <2>1 DEF Free
  <2>8. ChainedFree(new)
    BY <2>5, <2>6, <2>7 DEF ChainedFree
  <2> HIDE DEF new
  <2>9. /\ Len(a) + 1 \in DOMAIN b /\ Len(a) + 1 # 0 /\ Len(a) + 1 \in Nat
        /\ DOMAIN a \subseteq DOMAIN b
    BY <1>1, <2>1
  <2> QED
    BY <2>1, <2>2, <2>4, <2>5, <2>8, <2>9 DEF new
<1> QED
    BY <1>3, <1>4

\* deregister: the entry becomes the head of the free ones, the others keep
\* theirs.
LEMMA DeregisterKeeps ==
    ASSUME NEW wl \in ListType, Len(wl.arena) <= wl.capacity, ChainedFree(wl),
           wl.len # 0, NEW p \in DOMAIN wl.arena, IsItem(wl.arena[p])
    PROVE  LET new == deregister(wl, p)
           IN  /\ new \in ListType /\ Len(new.arena) <= new.capacity /\ ChainedFree(new)
               /\ new.state = wl.state /\ new.len = wl.len - 1
               /\ DOMAIN new.arena = DOMAIN wl.arena
               /\ \A i \in DOMAIN wl.arena : i # p => new.arena[i] = wl.arena[i]
<1> DEFINE new == deregister(wl, p)
           q == wl.last_freed
           a == wl.arena
           b == [a EXCEPT ![p] = Link(q)]
<1>1. /\ a \in Seq(Entry) /\ Len(a) \in Nat /\ DOMAIN a = 1 .. Len(a)
      /\ wl.len \in Nat /\ wl.len - 1 \in Nat /\ q \in Nat /\ p \in Nat /\ p # 0
    BY DEF ListType
<1>2. Link(q) \in Entry /\ ~IsItem(Link(q)) /\ Link(q).of = q
    BY <1>1, Entries
<1>3. /\ b \in Seq(Entry) /\ Len(b) = Len(a) /\ DOMAIN b = DOMAIN a
      /\ b[p] = Link(q) /\ \A i \in DOMAIN a : i # p => b[i] = a[i]
    BY <1>1, <1>2
<1>4. new = [wl EXCEPT !.len = wl.len - 1, !.arena = b, !.last_freed = p]
    BY DEF deregister
<1> HIDE DEF b
<1>5. /\ new \in ListType /\ new.state = wl.state /\ new.len = wl.len - 1
      /\ new.last_freed = p /\ new.arena = b /\ new.capacity = wl.capacity
    BY <1>1, <1>3, <1>4 DEF ListType
<1>6. Free(b) = Free(a) \cup {p} /\ p \notin Free(a)
    BY <1>2, <1>3 DEF Free
<1>7. \A i \in Free(a) : b[i] = a[i]
    BY <1>3, <1>6 DEF Free
<1>8. \A i \in Free(b) : b[i].of \in Free(b) \cup {0} /\ b[i].of # p
  <2>1. b[p].of = q /\ q \in Free(a) \cup {0}
    BY <1>2, <1>3 DEF ChainedFree
  <2>2. q # p
    BY <1>1, <1>6, <2>1
  <2>3. \A i \in Free(a) : b[i].of \in Free(a) \cup {0}
    BY <1>7 DEF ChainedFree
  <2> QED
    BY <1>1, <1>6, <2>1, <2>2, <2>3
<1>9. \A i, k \in Free(b) : b[i].of = b[k].of => i = k
  <2>1. \A i \in Free(a) : b[i].of # q
    BY <1>7 DEF ChainedFree
  <2>2. \A i, k \in Free(a) : b[i].of = b[k].of => i = k
    BY <1>7 DEF ChainedFree
  <2> QED
    BY <1>2, <1>3, <1>6, <2>1, <2>2
<1>10. ChainedFree(new)
    BY <1>5, <1>6, <1>8, <1>9 DEF ChainedFree
<1> HIDE DEF new
<1> QED
    BY <1>3, <1>5, <1>10 DEF new

-----------------------------------------------------------------------------
(* Counting.                                                               *)

LEMMA FiniteParts ==
    /\ \A l \in Lists : IsFiniteSet(WaitingIn(l))
    /\ \A n \in Nat : IsFiniteSet({l \in InUse : l <= n})
    /\ IsFiniteSet(InUse)
    /\ IsFiniteSet(Lists) /\ Cardinality(Lists) = NumLists
<1>1. \A l \in Lists : WaitingIn(l) \subseteq Signals
    BY DEF WaitingIn
<1>2. IsFiniteSet(Lists) /\ Cardinality(Lists) = NumLists
  <2>1. NumLists \in Nat
    BY ShutdownAssumption
  <2>2. NumLists \in Int /\ 1 \in Int /\ (1 > NumLists \/ NumLists - 1 + 1 = NumLists)
    BY <2>1
  <2>3. IsFiniteSet(1 .. NumLists)
    BY <2>2, FS_Interval
  <2>4. Cardinality(1 .. NumLists) = NumLists
    BY <2>1, <2>2, FS_Interval
  <2> QED
    BY <2>3, <2>4 DEF Lists
<1>3. InUse \subseteq Lists /\ \A n \in Nat : {l \in InUse : l <= n} \subseteq Lists
    BY DEF InUse
<1>4. IsFiniteSet(InUse) /\ \A n \in Nat : IsFiniteSet({l \in InUse : l <= n})
    BY <1>2, <1>3, FS_Subset
<1> QED
    BY <1>1, <1>2, <1>4, FS_Subset, ShutdownAssumption

\* A list is in use when somebody is registered in it.
LEMMA UsedMeansWaiting ==
    ASSUME SlotsKeepSignals
    PROVE  /\ \A l \in Lists : wait_list[l].len = 0 <=> WaitingIn(l) = {}
           /\ \A l \in Lists : wait_list[l].len \in Nat
           /\ \A s \in Signals : signal[s].pos # 0 =>
                signal[s].list \in Lists /\ signal[s].list \in InUse
           /\ InUse = {} <=> \A s \in Signals : signal[s].pos = 0
<1>1. ASSUME NEW l \in Lists
      PROVE  /\ wait_list[l].len = 0 <=> WaitingIn(l) = {}
             /\ wait_list[l].len \in Nat
  <2>1. wait_list[l].len = Cardinality(WaitingIn(l)) /\ IsFiniteSet(WaitingIn(l))
    BY FiniteParts DEF SlotsKeepSignals
  <2> QED
    BY <2>1, FS_EmptySet, FS_CardinalityType
<1>2. ASSUME NEW s \in Signals, signal[s].pos # 0
      PROVE  signal[s].list \in Lists /\ signal[s].list \in InUse
  <2>1. signal[s].list \in Lists /\ s \in WaitingIn(signal[s].list)
    BY <1>2 DEF SlotsKeepSignals, WaitingIn
  <2>2. wait_list[signal[s].list].len # 0 /\ wait_list[signal[s].list].len \in Nat
    BY <1>1, <2>1
  <2>3. wait_list[signal[s].list].len > 0
    BY <2>2
  <2> QED
    BY <2>1, <2>3 DEF InUse
<1>3. ASSUME NEW l \in InUse
      PROVE  \E s \in Signals : signal[s].pos # 0
  <2>1. l \in Lists /\ wait_list[l].len # 0
    BY <1>1 DEF InUse
  <2>2. WaitingIn(l) # {}
    BY <1>1, <2>1
  <2> QED
    BY <2>2 DEF WaitingIn
<1> QED
    BY <1>1, <1>2, <1>3

-----------------------------------------------------------------------------
(* The steps.                                                              *)

LEMMA TypeFacts ==
    ASSUME ShutdownTypeOK
    PROVE  /\ wait_list \in [Lists -> ListType] /\ signal \in [Signals -> SignalType]
           /\ \A l \in Lists : wait_list[l] \in ListType
           /\ \A s \in Signals : signal[s] \in SignalType
           /\ NumLists \in Nat /\ Lists = 1 .. NumLists
           /\ pending_waiting_lists \in 0 .. NumLists /\ waiting_for_drop \in BOOLEAN
           /\ trigger \in [pc : {"idle", "lock", "unlocked"}, locked : 0 .. NumLists, alive : Nat]
BY ShutdownAssumption DEF ShutdownTypeOK, ListType, SignalType, Lists

\* A step that registers nobody and lets nobody go.
LEMMA SameRegistered ==
    ASSUME SlotsKeepSignals,
           \A s \in Signals : /\ signal'[s].pos = signal[s].pos
                              /\ signal[s].pos # 0 => signal'[s].list = signal[s].list
                              /\ signal'[s].st = "new" => signal[s].st = "new",
           \A l \in Lists : /\ wait_list'[l].len = wait_list[l].len
                            /\ wait_list'[l].arena = wait_list[l].arena
    PROVE  /\ SlotsKeepSignals'
           /\ InUse' = InUse
           /\ (\A s \in Signals : signal[s].pos = 0)' <=> \A s \in Signals : signal[s].pos = 0
<1>1. \A l \in Lists : (WaitingIn(l))' = WaitingIn(l)
    BY DEF WaitingIn
<1>2. ASSUME NEW s \in Signals
      PROVE  /\ signal'[s].st = "new" => signal'[s].pos = 0
             /\ signal'[s].pos # 0 =>
                  /\ signal'[s].list \in Lists
                  /\ signal'[s].pos \in DOMAIN wait_list'[signal'[s].list].arena
                  /\ wait_list'[signal'[s].list].arena[signal'[s].pos] = Item(s)
    BY <1>2 DEF SlotsKeepSignals
<1>3. \A l \in Lists : wait_list'[l].len = Cardinality((WaitingIn(l))')
    BY <1>1 DEF SlotsKeepSignals
<1>4. SlotsKeepSignals'
    BY <1>2, <1>3 DEF SlotsKeepSignals
<1> QED
    BY <1>4 DEF InUse

\* What the invariant says about the end, given its other parts.
LEMMA CompletionFollows ==
    ASSUME WakesAtTheEnd
    PROVE  CompletionIsReal
BY DEF WakesAtTheEnd, CompletionIsReal, AllDropped

\* Steps that change a signal only.
LEMMA SignalOnly ==
    ASSUME ShutdownInv, ShutdownTypeOK',
           \A s \in Signals : /\ signal'[s].pos = signal[s].pos
                              /\ signal[s].pos # 0 => signal'[s].list = signal[s].list
                              /\ signal'[s].st = "new" => signal[s].st = "new"
                              /\ signal'[s].st = "dropping" => signal[s].st = "dropping",
           UNCHANGED <<wait_list, pending_waiting_lists, trigger, waiting_for_drop,
                       completion, triggers>>
    PROVE  ShutdownInv'
<1>1. /\ SlotsKeepSignals' /\ InUse' = InUse
      /\ (\A s \in Signals : signal[s].pos = 0)' <=> \A s \in Signals : signal[s].pos = 0
    BY SameRegistered DEF ShutdownInv
<1>2. FreeListIsSound' /\ (Closed' <=> Closed)
    BY DEF ShutdownInv, FreeListIsSound, Closed
<1>3. AllDropped' <=> AllDropped
    BY <1>1, <1>2 DEF AllDropped
<1>4. ListsAreCounted'
    BY <1>1, <1>2 DEF ShutdownInv, ListsAreCounted
<1>5. WakesAtTheEnd'
    BY <1>3 DEF ShutdownInv, WakesAtTheEnd
<1>6. CompletionIsReal'
    BY <1>1 DEF ShutdownInv, CompletionIsReal
<1> QED
    BY <1>1, <1>2, <1>4, <1>5, <1>6 DEF ShutdownInv

LEMMA PollWokenKeeps ==
    ASSUME ShutdownInv, NEW s \in Signals, PollWoken(s)
    PROVE  ShutdownInv'
<1>1. signal[s] \in SignalType /\ signal \in [Signals -> SignalType]
    BY TypeFacts DEF ShutdownInv
<1>2. signal' = [signal EXCEPT ![s].st = "ready"]
    BY DEF PollWoken
<1>3. [signal[s] EXCEPT !.st = "ready"] \in SignalType
    BY <1>1 DEF SignalType
<1>4. signal' \in [Signals -> SignalType]
    BY <1>1, <1>2, <1>3
<1>5. ShutdownTypeOK'
    BY <1>4 DEF ShutdownInv, ShutdownTypeOK, PollWoken, SignalType
<1>6. \A k \in Signals : /\ signal'[k].pos = signal[k].pos /\ signal'[k].list = signal[k].list
                         /\ signal'[k].st \in {signal[k].st, "ready"}
    BY <1>1, <1>2 DEF SignalType
<1> QED
    BY <1>5, <1>6, SignalOnly DEF PollWoken

LEMMA PollClosedKeeps ==
    ASSUME ShutdownInv, NEW s \in Signals, NEW l \in Lists, PollSignal(s, l),
           wait_list[l].state # "open"
    PROVE  ShutdownInv'
<1>1. /\ signal[s] \in SignalType /\ signal \in [Signals -> SignalType]
      /\ l \in 0 .. NumLists
    BY TypeFacts DEF ShutdownInv
<1>2. /\ signal' = [signal EXCEPT ![s] = [@ EXCEPT !.st = "ready", !.list = l]]
      /\ UNCHANGED <<wait_list, pending_waiting_lists, trigger, waiting_for_drop,
                     completion, triggers>>
    BY DEF PollSignal
<1>3. [signal[s] EXCEPT !.st = "ready", !.list = l] \in SignalType
    BY <1>1 DEF SignalType
<1>4. signal' \in [Signals -> SignalType]
    BY <1>1, <1>2, <1>3
<1>5. ShutdownTypeOK'
    BY <1>2, <1>4 DEF ShutdownInv, ShutdownTypeOK, SignalType
<1>6. signal[s].pos = 0
    BY DEF PollSignal, ShutdownInv, SlotsKeepSignals
<1>7. \A k \in Signals : /\ signal'[k].pos = signal[k].pos
                         /\ k # s => signal'[k] = signal[k]
                         /\ signal'[k].st \in {signal[k].st, "ready"}
    BY <1>1, <1>2 DEF SignalType
<1> QED
    BY <1>2, <1>5, <1>6, <1>7, SignalOnly

LEMMA DropUnregisteredKeeps ==
    ASSUME ShutdownInv, NEW s \in Signals, DropSignal(s), signal[s].pos = 0
    PROVE  ShutdownInv'
<1>1. signal[s] \in SignalType /\ signal \in [Signals -> SignalType]
    BY TypeFacts DEF ShutdownInv
<1>2. /\ signal' = [signal EXCEPT ![s].st = "dropped"]
      /\ UNCHANGED <<wait_list, pending_waiting_lists, trigger, waiting_for_drop,
                     completion, triggers>>
    BY DEF DropSignal
<1>3. [signal[s] EXCEPT !.st = "dropped"] \in SignalType
    BY <1>1 DEF SignalType
<1>4. signal' \in [Signals -> SignalType]
    BY <1>1, <1>2, <1>3
<1>5. ShutdownTypeOK'
    BY <1>2, <1>4 DEF ShutdownInv, ShutdownTypeOK, SignalType
<1>6. \A k \in Signals : /\ signal'[k].pos = signal[k].pos /\ signal'[k].list = signal[k].list
                         /\ signal'[k].st \in {signal[k].st, "dropped"}
    BY <1>1, <1>2 DEF SignalType
<1> QED
    BY <1>2, <1>5, <1>6, SignalOnly

\* Nobody is registered when the drop that emptied the last list wakes the
\* completion.
LEMMA WakeCompletionKeeps ==
    ASSUME ShutdownInv, NEW s \in Signals, WakeCompletion(s)
    PROVE  ShutdownInv'
<1>1. signal[s] \in SignalType /\ signal \in [Signals -> SignalType]
    BY TypeFacts DEF ShutdownInv
<1>2. /\ signal' = [signal EXCEPT ![s].st = "dropped"] /\ waiting_for_drop' = TRUE
      /\ UNCHANGED <<wait_list, pending_waiting_lists, trigger, completion, triggers>>
      /\ signal[s].st = "dropping"
    BY DEF WakeCompletion
<1>3. [signal[s] EXCEPT !.st = "dropped"] \in SignalType
    BY <1>1 DEF SignalType
<1>4. signal' \in [Signals -> SignalType]
    BY <1>1, <1>2, <1>3
<1>5. ShutdownTypeOK'
    BY <1>2, <1>4 DEF ShutdownInv, ShutdownTypeOK, SignalType
<1>6. \A k \in Signals : /\ signal'[k].pos = signal[k].pos /\ signal'[k].list = signal[k].list
                         /\ signal'[k].st \in {signal[k].st, "dropped"}
    BY <1>1, <1>2 DEF SignalType
<1>7. /\ SlotsKeepSignals' /\ InUse' = InUse
      /\ (\A k \in Signals : signal[k].pos = 0)' <=> \A k \in Signals : signal[k].pos = 0
    BY <1>2, <1>6, SameRegistered DEF ShutdownInv
<1>8. FreeListIsSound' /\ (Closed' <=> Closed)
    BY <1>2 DEF ShutdownInv, FreeListIsSound, Closed
<1>9. AllDropped'
  <2>1. AllDropped
    BY <1>2 DEF ShutdownInv, WakesAtTheEnd
  <2> QED
    BY <1>7, <1>8, <2>1 DEF AllDropped
<1>10. ListsAreCounted'
    BY <1>2, <1>7, <1>8 DEF ShutdownInv, ListsAreCounted
<1>11. WakesAtTheEnd'
    BY <1>2, <1>9 DEF WakesAtTheEnd
<1>12. CompletionIsReal'
    BY <1>9 DEF CompletionIsReal, AllDropped
<1> QED
    BY <1>5, <1>7, <1>8, <1>10, <1>11, <1>12 DEF ShutdownInv

\* Steps of the trigger and of the completion that leave lists and signals alone.
LEMMA NoListOrSignal ==
    ASSUME ShutdownInv, UNCHANGED <<wait_list, signal, pending_waiting_lists>>,
           ShutdownTypeOK',
           trigger'.pc = "lock" =>
             trigger'.alive = Cardinality({l \in InUse : l <= trigger'.locked}),
           (trigger'.pc = "unlocked" /\ trigger'.alive = 0) => AllDropped,
           completion' = "ready" => waiting_for_drop',
           waiting_for_drop' => AllDropped
    PROVE  ShutdownInv'
<1>1. SlotsKeepSignals' /\ FreeListIsSound' /\ (Closed' <=> Closed) /\ InUse' = InUse
    BY DEF ShutdownInv, SlotsKeepSignals, FreeListIsSound, Closed, InUse, WaitingIn
<1>2. AllDropped' <=> AllDropped
    BY <1>1 DEF AllDropped
<1>3. ListsAreCounted'
    BY <1>1 DEF ShutdownInv, ListsAreCounted
<1>4. WakesAtTheEnd'
    BY <1>2 DEF ShutdownInv, WakesAtTheEnd
<1>5. CompletionIsReal'
    BY <1>4 DEF WakesAtTheEnd, CompletionIsReal, AllDropped
<1> QED
    BY <1>1, <1>3, <1>4, <1>5 DEF ShutdownInv

LEMMA BeginTriggerKeeps ==
    ASSUME ShutdownInv, BeginTrigger
    PROVE  ShutdownInv'
<1>1. trigger' = [pc |-> "lock", locked |-> 0, alive |-> 0]
    BY DEF BeginTrigger
<1>2. ShutdownTypeOK'
    BY <1>1, ShutdownAssumption DEF ShutdownInv, ShutdownTypeOK, BeginTrigger
<1>3. {l \in InUse : l <= 0} = {}
    BY ShutdownAssumption DEF InUse, Lists
<1>4. Cardinality({l \in InUse : l <= 0}) = 0
    BY <1>3, FS_EmptySet
<1> QED
    BY <1>1, <1>2, <1>4, NoListOrSignal DEF BeginTrigger, ShutdownInv, WakesAtTheEnd

LEMMA LockListKeeps ==
    ASSUME ShutdownInv, LockList
    PROVE  ShutdownInv'
<1>1. PICK n \in Nat, l \in Lists : n = trigger.locked /\ l = n + 1 /\ l \in 0 .. NumLists
    BY TypeFacts DEF ShutdownInv, LockList
<1>2. /\ trigger.pc = "lock" /\ trigger.alive \in Nat /\ wait_list[l].len \in Nat
      /\ trigger \in [pc : {"idle", "lock", "unlocked"}, locked : 0 .. NumLists, alive : Nat]
    BY TypeFacts DEF ShutdownInv, LockList, ListType
<1>3. PICK a \in Nat : a = IF wait_list[l].len > 0 THEN trigger.alive + 1 ELSE trigger.alive
    BY <1>2
<1>4. trigger' = [trigger EXCEPT !.locked = l, !.alive = a]
    BY <1>1, <1>3 DEF LockList
<1>5. /\ trigger'.pc = "lock" /\ trigger'.locked = l /\ trigger'.alive = a
      /\ trigger' \in [pc : {"idle", "lock", "unlocked"}, locked : 0 .. NumLists, alive : Nat]
    BY <1>1, <1>2, <1>4
<1>6. ShutdownTypeOK'
    BY <1>5 DEF ShutdownInv, ShutdownTypeOK, LockList
<1> DEFINE S == {k \in InUse : k <= n}
           T == {k \in InUse : k <= l}
<1>7. trigger.alive = Cardinality(S) /\ IsFiniteSet(S) /\ l \notin S
    BY <1>1, <1>2, FiniteParts DEF ShutdownInv, ListsAreCounted
<1>8. /\ wait_list[l].len > 0 => T = S \cup {l}
      /\ ~(wait_list[l].len > 0) => T = S
    BY <1>1, <1>2 DEF InUse, Lists
<1> HIDE DEF S, T
<1>9. a = Cardinality(T)
  <2>1. Cardinality(S \cup {l}) = Cardinality(S) + 1
    BY <1>7, FS_AddElement
  <2> QED
    BY <1>3, <1>7, <1>8, <2>1
<1> QED
    BY <1>5, <1>6, <1>9, NoListOrSignal DEF T, LockList, ShutdownInv, WakesAtTheEnd

LEMMA EndTriggerKeeps ==
    ASSUME ShutdownInv, EndTrigger
    PROVE  ShutdownInv'
<1>1. trigger' = [pc |-> "idle", locked |-> 0, alive |-> 0]
    BY DEF EndTrigger, NoTrigger
<1>2. waiting_for_drop' \in BOOLEAN /\ (waiting_for_drop' => AllDropped)
    BY DEF EndTrigger, ShutdownInv, WakesAtTheEnd
<1>3. ShutdownTypeOK'
    BY <1>1, <1>2, ShutdownAssumption DEF ShutdownInv, ShutdownTypeOK, EndTrigger
<1>4. completion' = "ready" => waiting_for_drop'
    BY DEF EndTrigger, ShutdownInv, WakesAtTheEnd
<1> QED
    BY <1>1, <1>2, <1>3, <1>4, NoListOrSignal DEF EndTrigger

LEMMA PollCompletionKeeps ==
    ASSUME ShutdownInv, PollCompletion
    PROVE  ShutdownInv'
<1>1. ShutdownTypeOK'
    BY DEF ShutdownInv, ShutdownTypeOK, PollCompletion
<1>2. completion' = "ready" => waiting_for_drop'
    BY DEF PollCompletion
<1>3. /\ trigger.pc = "lock" =>
           trigger.alive = Cardinality({l \in InUse : l <= trigger.locked})
      /\ (trigger.pc = "unlocked" /\ trigger.alive = 0) => AllDropped
      /\ waiting_for_drop => AllDropped
    BY DEF ShutdownInv, ListsAreCounted, WakesAtTheEnd
<1> QED
    BY <1>1, <1>2, <1>3, NoListOrSignal DEF PollCompletion

\* The counter is set to the number of lists in use, which cannot change while all
\* locks are held.
LEMMA CloseAndWakeKeeps ==
    ASSUME ShutdownInv, CloseAndWake
    PROVE  ShutdownInv'
<1>1. /\ wait_list \in [Lists -> ListType] /\ signal \in [Signals -> SignalType]
      /\ trigger \in [pc : {"idle", "lock", "unlocked"}, locked : 0 .. NumLists, alive : Nat]
      /\ \A l \in Lists : wait_list[l] \in ListType
      /\ \A s \in Signals : signal[s] \in SignalType
      /\ NumLists \in Nat /\ Lists = 1 .. NumLists
    BY TypeFacts DEF ShutdownInv
<1>2. /\ wait_list' = [l \in Lists |-> [wait_list[l] EXCEPT !.state = "woke_up"]]
      /\ pending_waiting_lists' = trigger.alive
      /\ trigger' = [trigger EXCEPT !.pc = "unlocked"]
      /\ UNCHANGED <<waiting_for_drop, completion, triggers>>
    BY DEF CloseAndWake
<1>3. \A l \in Lists : /\ wait_list'[l] \in ListType /\ wait_list'[l].state = "woke_up"
                       /\ wait_list'[l].len = wait_list[l].len
                       /\ wait_list'[l].arena = wait_list[l].arena
                       /\ wait_list'[l].last_freed = wait_list[l].last_freed
                       /\ wait_list'[l].capacity = wait_list[l].capacity
    BY <1>1, <1>2 DEF ListType
<1>4. \A s \in Signals : /\ signal'[s] \in SignalType /\ signal'[s].st = signal[s].st
                         /\ signal'[s].pos = signal[s].pos
                         /\ signal'[s].list = signal[s].list
  <2> SUFFICES ASSUME NEW s \in Signals
               PROVE  /\ signal'[s] \in SignalType /\ signal'[s].st = signal[s].st
                      /\ signal'[s].pos = signal[s].pos
                      /\ signal'[s].list = signal[s].list
    OBVIOUS
  <2>1. signal'[s] = [signal[s] EXCEPT !.woken = TRUE] \/ signal'[s] = signal[s]
    BY DEF CloseAndWake
  <2> QED
    BY <1>1, <2>1 DEF SignalType
<1>5. /\ wait_list' \in [Lists -> ListType] /\ signal' \in [Signals -> SignalType]
  <2>1. wait_list' \in [Lists -> ListType]
    BY <1>2, <1>3
  <2>2. signal' = [s \in Signals |-> signal'[s]]
    BY DEF CloseAndWake
  <2> QED
    BY <1>4, <2>1, <2>2
<1>6. /\ trigger'.pc = "unlocked" /\ trigger'.alive = trigger.alive
      /\ trigger' \in [pc : {"idle", "lock", "unlocked"}, locked : 0 .. NumLists, alive : Nat]
    BY <1>1, <1>2
<1>7. /\ SlotsKeepSignals' /\ InUse' = InUse
      /\ (\A s \in Signals : signal[s].pos = 0)' <=> \A s \in Signals : signal[s].pos = 0
    BY <1>3, <1>4, SameRegistered DEF ShutdownInv
<1>8. Closed'
    BY <1>3 DEF Closed
<1>9. trigger.alive = Cardinality(InUse) /\ trigger.alive \in 0 .. NumLists
  <2>1. {l \in InUse : l <= trigger.locked} = InUse
    BY <1>1 DEF CloseAndWake, InUse
  <2>2. trigger.alive = Cardinality(InUse)
    BY <2>1 DEF CloseAndWake, ShutdownInv, ListsAreCounted
  <2>3. InUse \in SUBSET Lists
    BY DEF InUse
  <2>4. Cardinality(InUse) <= NumLists
    BY <2>3, FiniteParts, FS_Subset
  <2> QED
    BY <1>1, <2>2, <2>4
<1>10. ShutdownTypeOK'
  <2>1. \A l \in Lists : Len(wait_list'[l].arena) <= wait_list'[l].capacity
    BY <1>3 DEF ShutdownInv, ShutdownTypeOK
  <2> QED
    BY <1>2, <1>5, <1>6, <1>9, <2>1 DEF ShutdownInv, ShutdownTypeOK, ListType, SignalType
<1>11. FreeListIsSound'
    BY <1>3 DEF ShutdownInv, FreeListIsSound, ChainedFree
<1>12. ListsAreCounted'
    BY <1>2, <1>3, <1>6, <1>7, <1>8, <1>9 DEF ListsAreCounted
<1>13. (AllDropped => AllDropped') /\ (trigger.alive = 0 => AllDropped')
  <2>1. trigger.alive = 0 => InUse = {}
    BY <1>9, FiniteParts, FS_EmptySet
  <2> QED
    BY <1>7, <1>8, <2>1, UsedMeansWaiting DEF AllDropped, ShutdownInv
<1>14. WakesAtTheEnd'
    BY <1>2, <1>4, <1>6, <1>13 DEF ShutdownInv, WakesAtTheEnd
<1>15. CompletionIsReal'
    BY <1>14 DEF WakesAtTheEnd, CompletionIsReal, AllDropped
<1> QED
    BY <1>7, <1>10, <1>11, <1>12, <1>14, <1>15 DEF ShutdownInv

\* A list that is open was counted by no trigger, and nobody waits for its end.
LEMMA PollOpenKeeps ==
    ASSUME ShutdownInv, NEW s \in Signals, NEW l \in Lists, PollSignal(s, l),
           wait_list[l].state = "open"
    PROVE  ShutdownInv'
<1> DEFINE wl == wait_list[l]
           new == register(wl, s)
           p == SlotOf(wl)
<1>1. /\ wait_list \in [Lists -> ListType] /\ signal \in [Signals -> SignalType]
      /\ \A k \in Lists : wait_list[k] \in ListType
      /\ \A k \in Signals : signal[k] \in SignalType
      /\ NumLists \in Nat /\ l \in 0 .. NumLists /\ l \in Nat
    BY TypeFacts DEF ShutdownInv
<1>2. /\ wait_list' = [wait_list EXCEPT ![l] = new]
      /\ signal' = [signal EXCEPT ![s] = [st |-> "pending", list |-> l, pos |-> p,
                                          woken |-> FALSE]]
      /\ UNCHANGED <<pending_waiting_lists, trigger, waiting_for_drop, completion, triggers>>
      /\ ~Locked(l) /\ signal[s].st = "new"
    BY DEF PollSignal
<1>3. /\ wl \in ListType /\ Len(wl.arena) <= wl.capacity /\ ChainedFree(wl)
    BY <1>1 DEF ShutdownInv, ShutdownTypeOK, FreeListIsSound
<1>4. /\ new \in ListType /\ Len(new.arena) <= new.capacity /\ ChainedFree(new)
      /\ new.state = wl.state /\ new.len = wl.len + 1
      /\ p \in DOMAIN new.arena /\ new.arena[p] = Item(s)
      /\ p \in Nat /\ p # 0
      /\ \A i \in DOMAIN wl.arena :
           IsItem(wl.arena[i]) => i \in DOMAIN new.arena /\ new.arena[i] = wl.arena[i]
    BY <1>3, RegisterKeeps
<1> HIDE DEF new, p
<1>5. /\ wait_list'[l] = new /\ wait_list' \in [Lists -> ListType]
      /\ \A k \in Lists : k # l => wait_list'[k] = wait_list[k]
    BY <1>1, <1>2, <1>4
<1>6. /\ signal'[s].st = "pending" /\ signal'[s].list = l /\ signal'[s].pos = p
      /\ signal' \in [Signals -> SignalType]
      /\ \A k \in Signals : k # s => signal'[k] = signal[k]
    BY <1>1, <1>2, <1>4 DEF SignalType
<1>7. ShutdownTypeOK'
  <2>1. \A k \in Lists : Len(wait_list'[k].arena) <= wait_list'[k].capacity
    BY <1>4, <1>5 DEF ShutdownInv, ShutdownTypeOK
  <2> QED
    BY <1>2, <1>5, <1>6, <2>1 DEF ShutdownInv, ShutdownTypeOK, ListType, SignalType
<1>8. signal[s].pos = 0
    BY <1>2 DEF ShutdownInv, SlotsKeepSignals
<1>9. /\ (WaitingIn(l))' = WaitingIn(l) \cup {s} /\ s \notin WaitingIn(l)
      /\ \A k \in Lists : k # l => (WaitingIn(k))' = WaitingIn(k)
    BY <1>4, <1>6, <1>8 DEF WaitingIn
<1>10. SlotsKeepSignals'
  <2>1. ASSUME NEW k \in Signals
        PROVE  /\ signal'[k].st = "new" => signal'[k].pos = 0
               /\ signal'[k].pos # 0 =>
                    /\ signal'[k].list \in Lists
                    /\ signal'[k].pos \in DOMAIN wait_list'[signal'[k].list].arena
                    /\ wait_list'[signal'[k].list].arena[signal'[k].pos] = Item(k)
    <3>1. CASE k = s
      BY <1>4, <1>5, <1>6, <3>1
    <3>2. CASE k # s
      <4>1. IsItem(Item(k))
        BY Entries
      <4> QED
        BY <1>4, <1>5, <1>6, <3>2, <4>1 DEF ShutdownInv, SlotsKeepSignals
    <3> QED
      BY <3>1, <3>2
  <2>2. ASSUME NEW k \in Lists
        PROVE  wait_list'[k].len = Cardinality((WaitingIn(k))')
    <3>1. wait_list[k].len = Cardinality(WaitingIn(k)) /\ IsFiniteSet(WaitingIn(k))
      BY FiniteParts DEF ShutdownInv, SlotsKeepSignals
    <3>2. CASE k = l
      <4>1. Cardinality(WaitingIn(l) \cup {s}) = Cardinality(WaitingIn(l)) + 1
        BY <1>9, <3>1, <3>2, FS_AddElement
      <4> QED
        BY <1>4, <1>5, <1>9, <3>1, <3>2, <4>1
    <3>3. CASE k # l
      BY <1>5, <1>9, <3>1, <3>3
    <3> QED
      BY <3>2, <3>3
  <2> QED
    BY <2>1, <2>2 DEF SlotsKeepSignals
<1>11. FreeListIsSound'
    BY <1>4, <1>5 DEF ShutdownInv, FreeListIsSound
<1>12. ~Closed /\ ~Closed' /\ ~AllDropped
    BY <1>4, <1>5 DEF Closed, AllDropped
<1>13. ListsAreCounted'
  <2>1. \A j, k \in Lists : wait_list'[j].state = wait_list'[k].state
    BY <1>4, <1>5 DEF ShutdownInv, ListsAreCounted
  <2>2. pending_waiting_lists' = 0
    BY <1>2, <1>12 DEF ShutdownInv, ListsAreCounted
  <2>3. ASSUME trigger'.pc = "lock"
        PROVE  trigger'.alive = Cardinality({k \in InUse' : k <= trigger'.locked})
    <3>1. ~(l <= trigger.locked)
      BY <1>2, <2>3 DEF Locked
    <3>2. {k \in InUse' : k <= trigger.locked} = {k \in InUse : k <= trigger.locked}
      BY <1>5, <3>1 DEF InUse
    <3> QED
      BY <1>2, <2>3, <3>2 DEF ShutdownInv, ListsAreCounted
  <2> QED
    BY <1>12, <2>1, <2>2, <2>3 DEF ListsAreCounted
<1>14. WakesAtTheEnd'
    BY <1>2, <1>6, <1>12 DEF ShutdownInv, WakesAtTheEnd
<1>15. CompletionIsReal'
    BY <1>14 DEF WakesAtTheEnd, CompletionIsReal, AllDropped
<1> QED
    BY <1>7, <1>10, <1>11, <1>13, <1>14, <1>15 DEF ShutdownInv

\* A registered signal goes: its list is one shorter, and the list leaves the
\* counter with its last one.
LEMMA DropRegisteredKeeps ==
    ASSUME ShutdownInv, NEW s \in Signals, DropSignal(s), signal[s].pos # 0
    PROVE  ShutdownInv'
<1>1. PICK l \in Lists, p \in Nat : l = signal[s].list /\ p = signal[s].pos
    BY TypeFacts DEF ShutdownInv, SlotsKeepSignals, SignalType
<1> DEFINE wl == wait_list[l]
           new == deregister(wl, p)
           st == IF is_done(new) /\ pending_waiting_lists = 1 THEN "dropping" ELSE "dropped"
<1>2. /\ wait_list \in [Lists -> ListType] /\ signal \in [Signals -> SignalType]
      /\ \A k \in Lists : wait_list[k] \in ListType
      /\ \A k \in Signals : signal[k] \in SignalType
      /\ NumLists \in Nat /\ pending_waiting_lists \in 0 .. NumLists
    BY TypeFacts DEF ShutdownInv
<1>3. /\ wait_list' = [wait_list EXCEPT ![l] = new]
      /\ signal' = [signal EXCEPT ![s] = [signal[s] EXCEPT !.st = st, !.pos = 0]]
      /\ pending_waiting_lists' =
           IF is_done(new) THEN pending_waiting_lists - 1 ELSE pending_waiting_lists
      /\ UNCHANGED <<trigger, waiting_for_drop, completion, triggers>>
      /\ ~Locked(l)
    BY <1>1 DEF DropSignal
<1>4. /\ p \in DOMAIN wl.arena /\ wl.arena[p] = Item(s) /\ IsItem(wl.arena[p])
      /\ s \in WaitingIn(l) /\ IsFiniteSet(WaitingIn(l))
      /\ wl.len = Cardinality(WaitingIn(l)) /\ wl.len # 0 /\ wl.len \in Nat
  <2>1. p \in DOMAIN wl.arena /\ wl.arena[p] = Item(s) /\ s \in WaitingIn(l)
    BY <1>1 DEF ShutdownInv, SlotsKeepSignals, WaitingIn
  <2>2. wl.len = Cardinality(WaitingIn(l)) /\ IsFiniteSet(WaitingIn(l))
    BY FiniteParts DEF ShutdownInv, SlotsKeepSignals
  <2>3. wl.len # 0 /\ wl.len \in Nat
    BY <2>1, UsedMeansWaiting DEF ShutdownInv
  <2>4. IsItem(wl.arena[p])
    BY <2>1, Entries
  <2> QED
    BY <2>1, <2>2, <2>3, <2>4
<1>5. /\ new \in ListType /\ Len(new.arena) <= new.capacity /\ ChainedFree(new)
      /\ new.state = wl.state /\ new.len = wl.len - 1
      /\ DOMAIN new.arena = DOMAIN wl.arena
      /\ \A i \in DOMAIN wl.arena : i # p => new.arena[i] = wl.arena[i]
  <2>1. Len(wl.arena) <= wl.capacity /\ ChainedFree(wl)
    BY DEF ShutdownInv, ShutdownTypeOK, FreeListIsSound
  <2> QED
    BY <1>2, <1>4, <2>1, DeregisterKeeps
<1>6. st \in {"dropping", "dropped"}
    OBVIOUS
<1> HIDE DEF new, st
<1>7. /\ wait_list'[l] = new /\ wait_list' \in [Lists -> ListType]
      /\ \A k \in Lists : k # l => wait_list'[k] = wait_list[k]
    BY <1>2, <1>3, <1>5
<1>8. /\ signal'[s].st = st /\ signal'[s].pos = 0
      /\ signal' \in [Signals -> SignalType]
      /\ \A k \in Signals : k # s => signal'[k] = signal[k]
    BY <1>2, <1>3, <1>6 DEF SignalType
<1>9. /\ (WaitingIn(l))' = WaitingIn(l) \ {s}
      /\ \A k \in Lists : k # l => (WaitingIn(k))' = WaitingIn(k)
    BY <1>1, <1>8 DEF WaitingIn
<1>10. SlotsKeepSignals'
  <2>1. ASSUME NEW k \in Signals
        PROVE  /\ signal'[k].st = "new" => signal'[k].pos = 0
               /\ signal'[k].pos # 0 =>
                    /\ signal'[k].list \in Lists
                    /\ signal'[k].pos \in DOMAIN wait_list'[signal'[k].list].arena
                    /\ wait_list'[signal'[k].list].arena[signal'[k].pos] = Item(k)
    <3>1. CASE k = s
      BY <1>6, <1>8, <3>1
    <3>2. CASE k # s
      <4>1. Item(k) # Item(s)
        BY <3>2, Entries
      <4>2. /\ signal[k].st = "new" => signal[k].pos = 0
            /\ signal[k].pos # 0 =>
                 /\ signal[k].list \in Lists
                 /\ signal[k].pos \in DOMAIN wait_list[signal[k].list].arena
                 /\ wait_list[signal[k].list].arena[signal[k].pos] = Item(k)
        BY DEF ShutdownInv, SlotsKeepSignals
      <4>3. signal[k].list = l /\ signal[k].pos # 0 => signal[k].pos # p
        BY <1>4, <4>1, <4>2
      <4> QED
        BY <1>5, <1>7, <1>8, <3>2, <4>2, <4>3
    <3> QED
      BY <3>1, <3>2
  <2>2. ASSUME NEW k \in Lists
        PROVE  wait_list'[k].len = Cardinality((WaitingIn(k))')
    <3>1. CASE k = l
      <4>1. Cardinality(WaitingIn(l) \ {s}) = Cardinality(WaitingIn(l)) - 1
        BY <1>4, FS_RemoveElement
      <4> QED
        BY <1>4, <1>5, <1>7, <1>9, <3>1, <4>1
    <3>2. CASE k # l
      BY <1>7, <1>9, <3>2 DEF ShutdownInv, SlotsKeepSignals
    <3> QED
      BY <3>1, <3>2
  <2> QED
    BY <2>1, <2>2 DEF SlotsKeepSignals
<1>11. FreeListIsSound'
    BY <1>5, <1>7 DEF ShutdownInv, FreeListIsSound
<1>12. Closed' <=> Closed
    BY <1>5, <1>7 DEF Closed
<1>13. /\ IsFiniteSet(InUse) /\ l \in InUse
       /\ new.len = 0 => InUse' = InUse \ {l}
       /\ new.len # 0 => InUse' = InUse
  <2>1. l \in InUse /\ new.len \in Nat
    BY <1>4, <1>5 DEF InUse, ListType
  <2> QED
    BY <1>7, <2>1, FiniteParts DEF InUse
<1>14. /\ is_done(new) <=> Closed /\ new.len = 0
       /\ pending_waiting_lists' = IF Closed THEN Cardinality(InUse') ELSE 0
       /\ pending_waiting_lists' \in 0 .. NumLists
       /\ Closed /\ is_done(new) /\ pending_waiting_lists = 1 => InUse' = {}
  <2>1. wl.state = "woke_up" <=> Closed
    BY DEF ShutdownInv, ListsAreCounted, Closed
  <2>2. is_done(new) <=> Closed /\ new.len = 0
    BY <1>5, <2>1 DEF is_done
  <2>3. CASE ~Closed
    BY <1>2, <1>3, <2>2, <2>3 DEF ShutdownInv, ListsAreCounted
  <2>4. CASE Closed /\ new.len # 0
    BY <1>2, <1>3, <1>13, <2>2, <2>4 DEF ShutdownInv, ListsAreCounted
  <2>5. CASE Closed /\ new.len = 0
    <3>1. pending_waiting_lists = Cardinality(InUse)
      BY <2>5 DEF ShutdownInv, ListsAreCounted
    <3>2. /\ Cardinality(InUse \ {l}) = Cardinality(InUse) - 1
          /\ IsFiniteSet(InUse \ {l})
      BY <1>13, FS_RemoveElement
    <3>3. Cardinality(InUse \ {l}) \in Nat
      BY <3>2, FS_CardinalityType
    <3>4. pending_waiting_lists = 1 => InUse \ {l} = {}
      BY <3>1, <3>2, FS_EmptySet
    <3> QED
      BY <1>2, <1>3, <1>13, <2>2, <2>5, <3>1, <3>2, <3>3, <3>4
  <2> QED
    BY <2>3, <2>4, <2>5
<1>15. ShutdownTypeOK'
  <2>1. \A k \in Lists : Len(wait_list'[k].arena) <= wait_list'[k].capacity
    BY <1>5, <1>7 DEF ShutdownInv, ShutdownTypeOK
  <2> QED
    BY <1>3, <1>7, <1>8, <1>14, <2>1 DEF ShutdownInv, ShutdownTypeOK, ListType, SignalType
<1>16. ListsAreCounted'
  <2>1. \A j, k \in Lists : wait_list'[j].state = wait_list'[k].state
    BY <1>5, <1>7 DEF ShutdownInv, ListsAreCounted
  <2>2. ASSUME trigger'.pc = "lock"
        PROVE  trigger'.alive = Cardinality({k \in InUse' : k <= trigger'.locked})
    <3>1. ~(l <= trigger.locked)
      BY <1>3, <2>2 DEF Locked
    <3>2. {k \in InUse' : k <= trigger.locked} = {k \in InUse : k <= trigger.locked}
      BY <1>7, <3>1 DEF InUse
    <3> QED
      BY <1>3, <2>2, <3>2 DEF ShutdownInv, ListsAreCounted
  <2> QED
    BY <1>12, <1>14, <2>1, <2>2 DEF ListsAreCounted
<1>17. ~AllDropped
    BY DEF AllDropped
<1>18. st = "dropping" => AllDropped'
  <2>1. st = "dropping" => is_done(new) /\ pending_waiting_lists = 1
    BY DEF st
  <2>2. InUse' = {} => \A k \in Signals : signal'[k].pos = 0
    <3>1. ASSUME NEW k \in Signals, signal'[k].pos # 0
          PROVE  InUse' # {}
      <4>1. k # s /\ signal[k].pos # 0 /\ signal'[k].list = signal[k].list
        BY <1>8, <3>1
      <4>2. PICK j \in Lists : j = signal[k].list
        BY <4>1 DEF ShutdownInv, SlotsKeepSignals
      <4>3. k \in (WaitingIn(j))'
        BY <3>1, <4>1, <4>2 DEF WaitingIn
      <4>4. /\ wait_list'[j].len = Cardinality((WaitingIn(j))') /\ (WaitingIn(j))' # {}
            /\ IsFiniteSet((WaitingIn(j))')
        <5>1. IsFiniteSet(WaitingIn(j)) /\ (WaitingIn(j))' \in SUBSET WaitingIn(j)
          BY <1>9, FiniteParts
        <5>2. wait_list'[j].len = Cardinality((WaitingIn(j))')
          BY <1>10 DEF SlotsKeepSignals
        <5>3. IsFiniteSet((WaitingIn(j))')
          BY <5>1, FS_Subset
        <5> QED
          BY <4>3, <5>2, <5>3
      <4>5. wait_list'[j].len \in Nat /\ wait_list'[j].len # 0
        BY <4>4, FS_EmptySet, FS_CardinalityType
      <4> QED
        BY <4>5 DEF InUse
    <3> QED
      BY <3>1
  <2> QED
    BY <1>12, <1>14, <2>1, <2>2 DEF AllDropped
<1>19. WakesAtTheEnd'
    BY <1>3, <1>8, <1>17, <1>18 DEF ShutdownInv, WakesAtTheEnd
<1>20. CompletionIsReal'
    BY <1>19 DEF WakesAtTheEnd, CompletionIsReal, AllDropped
<1> QED
    BY <1>10, <1>11, <1>15, <1>16, <1>19, <1>20 DEF ShutdownInv

-----------------------------------------------------------------------------
LEMMA ShutdownInitHolds ==
    ASSUME ShutdownInit
    PROVE  ShutdownInv
<1>1. \A l \in Lists : /\ wait_list[l].len = 0 /\ wait_list[l].last_freed = 0
                       /\ wait_list[l].arena = <<>> /\ wait_list[l].state = "open"
                       /\ wait_list[l].capacity = InitialCapacity
                       /\ wait_list[l] \in ListType
    BY ShutdownAssumption DEF ShutdownInit, ListType
<1>2. \A s \in Signals : /\ signal[s].st = "new" /\ signal[s].pos = 0
                         /\ signal[s] \in SignalType
    BY ShutdownAssumption DEF ShutdownInit, SignalType
<1>3. ShutdownTypeOK
  <2>1. wait_list \in [Lists -> ListType] /\ signal \in [Signals -> SignalType]
    BY <1>1, <1>2 DEF ShutdownInit
  <2>2. \A l \in Lists : Len(wait_list[l].arena) <= wait_list[l].capacity
    BY <1>1, ShutdownAssumption
  <2>3. /\ pending_waiting_lists \in 0 .. NumLists /\ triggers \in 0 .. MaxTriggers
        /\ trigger \in [pc : {"idle", "lock", "unlocked"}, locked : 0 .. NumLists, alive : Nat]
    BY ShutdownAssumption DEF ShutdownInit, NoTrigger
  <2> QED
    BY <2>1, <2>2, <2>3 DEF ShutdownInit, ShutdownTypeOK, ListType, SignalType
<1>4. \A l \in Lists : WaitingIn(l) = {}
    BY <1>2 DEF WaitingIn
<1>5. SlotsKeepSignals
    BY <1>1, <1>2, <1>4, FS_EmptySet DEF SlotsKeepSignals
<1>6. FreeListIsSound
    BY <1>1 DEF FreeListIsSound, ChainedFree, Free
<1>7. InUse = {}
    BY <1>1 DEF InUse
<1>8. ListsAreCounted
    BY <1>1, <1>7, FS_EmptySet DEF ListsAreCounted, ShutdownInit, NoTrigger
<1>9. WakesAtTheEnd
    BY <1>2 DEF WakesAtTheEnd, ShutdownInit, NoTrigger
<1> QED
    BY <1>2, <1>3, <1>5, <1>6, <1>8, <1>9 DEF ShutdownInv, CompletionIsReal

LEMMA ShutdownStepHolds ==
    ASSUME ShutdownInv, [ShutdownNext]_shutdownVars
    PROVE  ShutdownInv'
<1>1. ASSUME NEW s \in Signals, NEW l \in Lists, PollSignal(s, l)
      PROVE  ShutdownInv'
    BY <1>1, PollClosedKeeps, PollOpenKeeps
<1>2. ASSUME NEW s \in Signals, DropSignal(s)
      PROVE  ShutdownInv'
    BY <1>2, DropUnregisteredKeeps, DropRegisteredKeeps
<1>3. CASE UNCHANGED shutdownVars
  <2>1. ShutdownTypeOK'
    BY <1>3 DEF shutdownVars, ShutdownInv, ShutdownTypeOK
  <2> QED
    BY <1>3, <2>1, SignalOnly DEF shutdownVars
<1> QED
    BY <1>1, <1>2, <1>3, PollWokenKeeps, WakeCompletionKeeps, BeginTriggerKeeps,
       LockListKeeps, CloseAndWakeKeeps, EndTriggerKeeps, PollCompletionKeeps
    DEF ShutdownNext, TriggerStep

\* Every waker stays in its entry and every free entry on one chain, the counter
\* is the number of lists in use, and the completion is woken and resolved only
\* when no registered signal is left: for any number of signals, lists and
\* triggers.
THEOREM ShutdownCorrect == ShutdownSpec => []ShutdownInv
<1> QED
    BY ShutdownInitHolds, ShutdownStepHolds, PTL DEF ShutdownSpec

-----------------------------------------------------------------------------
(* The proxy of a client connection.                                       *)

Log == Seq(ProxyFrame)

\* What a log gains comes after what it has.
Grows(log, new) ==
    /\ Len(log) <= Len(new)
    /\ \A i \in DOMAIN log : new[i] = log[i]

NoEnd(log) == \A i \in DOMAIN log : log[i].kind # "end"

-----------------------------------------------------------------------------
(* One log.                                                                *)

LEMMA FrameKinds ==
    /\ \A k, n \in Nat : /\ Start(k, n) \in ProxyFrame /\ Start(k, n).kind = "start"
                         /\ Start(k, n).of = k /\ Start(k, n).len = n
    /\ \A k \in Nat : /\ Byte(k) \in ProxyFrame /\ Byte(k).kind = "byte" /\ Byte(k).of = k
                      /\ Token(k) \in ProxyFrame /\ Token(k).kind = "token" /\ Token(k).of = k
    /\ End \in ProxyFrame /\ End.kind = "end"
    /\ \A f \in ProxyFrame : f.of \in Nat /\ f.len \in Nat
    /\ Transports \subseteq Nat \ {0} /\ 0 \notin Transports
BY HandshakeAssumption DEF Start, Byte, Token, End, ProxyFrame, Transports

LEMMA Domains ==
    ASSUME NEW log \in Log
    PROVE  /\ Len(log) \in Nat /\ DOMAIN log = 1 .. Len(log)
           /\ \A i \in DOMAIN log : log[i] \in ProxyFrame /\ log[i].len \in Nat /\ log[i].of \in Nat
BY FrameKinds DEF Log

\* The byte at a place of a log has its start before it.
Begun(log, i) ==
    \E j \in 1 .. i - 1 : log[j].kind = "start" /\ log[j].of = log[i].of
                            /\ i - j <= log[j].len

LEMMA Kept ==
    ASSUME NEW log \in Log, NEW new \in Log, Grows(log, new), PayloadsInLog(log), NoEnd(log),
           NEW i \in DOMAIN log
    PROVE  /\ i \in DOMAIN new /\ new[i] = log[i] /\ new[i].len \in Nat
           /\ new[i].kind = "start" =>
                \A j \in i + 1 .. i + new[i].len : j <= Len(log) => new[j] = Byte(new[i].of)
           /\ new[i].kind = "byte" => Begun(new, i)
<1>1. /\ Len(log) \in Nat /\ DOMAIN log = 1 .. Len(log)
      /\ Len(new) \in Nat /\ DOMAIN new = 1 .. Len(new)
      /\ log[i].len \in Nat
    BY Domains
<1>2. i \in DOMAIN new /\ new[i] = log[i]
    BY <1>1 DEF Grows
<1>3. ASSUME new[i].kind = "start", NEW j \in i + 1 .. i + new[i].len, j <= Len(log)
      PROVE  new[j] = Byte(new[i].of)
  <2>1. j \in DOMAIN log /\ new[j] = log[j] /\ log[j].kind # "end"
    BY <1>1, <1>2, <1>3 DEF Grows, NoEnd
  <2>2. log[j] = Byte(log[i].of) \/ log[j] = End
    BY <1>1, <1>2, <1>3, <2>1 DEF PayloadsInLog
  <2>3. End.kind = "end"
    BY FrameKinds
  <2> QED
    BY <1>2, <2>1, <2>2, <2>3
<1>4. ASSUME new[i].kind = "byte"
      PROVE  Begun(new, i)
  <2>1. PICK j \in 1 .. i - 1 : log[j].kind = "start" /\ log[j].of = log[i].of
                                  /\ i - j <= log[j].len
    BY <1>2, <1>4 DEF PayloadsInLog
  <2>2. new[j] = log[j]
    BY <1>1 DEF Grows
  <2> QED
    BY <1>2, <2>1, <2>2 DEF Begun
<1> QED
    BY <1>1, <1>2, <1>3, <1>4

LEMMA LogAppend ==
    ASSUME NEW log \in Log, NEW f \in ProxyFrame
    PROVE  /\ Append(log, f) \in Log /\ Len(Append(log, f)) = Len(log) + 1
           /\ \A i \in 1 .. Len(log) : Append(log, f)[i] = log[i]
           /\ Append(log, f)[Len(log) + 1] = f
           /\ Grows(log, Append(log, f)) /\ log \o <<f>> = Append(log, f)
<1>1. /\ Append(log, f) \in Log /\ Len(Append(log, f)) = Len(log) + 1
      /\ \A i \in 1 .. Len(log) : Append(log, f)[i] = log[i]
      /\ Append(log, f)[Len(log) + 1] = f
    BY DEF Log
<1>2. log \o <<f>> = Append(log, f)
    BY DEF Log
<1> QED
    BY <1>1, <1>2, Domains DEF Grows

LEMMA LogConcat ==
    ASSUME NEW log \in Log, NEW fs \in Log
    PROVE  /\ log \o fs \in Log /\ Len(log \o fs) = Len(log) + Len(fs)
           /\ \A i \in Len(log) + 1 .. Len(log) + Len(fs) :
                i - Len(log) \in DOMAIN fs /\ (log \o fs)[i] = fs[i - Len(log)]
           /\ Grows(log, log \o fs)
<1>1. /\ Len(log) \in Nat /\ DOMAIN log = 1 .. Len(log)
      /\ Len(fs) \in Nat /\ DOMAIN fs = 1 .. Len(fs)
    BY Domains
<1>2. /\ log \o fs \in Log /\ Len(log \o fs) = Len(log) + Len(fs)
      /\ \A i \in 1 .. Len(log) : (log \o fs)[i] = log[i]
      /\ \A i \in Len(log) + 1 .. Len(log) + Len(fs) : (log \o fs)[i] = fs[i - Len(log)]
    BY <1>1 DEF Log
<1>3. \A i \in Len(log) + 1 .. Len(log) + Len(fs) : i - Len(log) \in DOMAIN fs
    BY <1>1
<1> QED
    BY <1>1, <1>2, <1>3 DEF Grows

LEMMA Singleton ==
    ASSUME NEW S, NEW s \in Seq(S), s # <<>>, Len(s) <= 1
    PROVE  s[1] \in S /\ s = <<s[1]>> /\ Head(s) = s[1]
<1>1. Len(s) \in Nat \ {0}
    BY EmptySeq
<1>2. Len(s) = 1
    BY <1>1
<1> QED
    BY <1>2

LEMMA ByToken ==
    ASSUME NEW log \in Log, NEW new \in Log, Grows(log, new),
           \A i \in Len(log) + 1 .. Len(new) : new[i].kind = "token",
           PayloadsInLog(log), Complete(log), NoEnd(log)
    PROVE  PayloadsInLog(new) /\ Complete(new) /\ NoEnd(new)
<1>1. /\ Len(log) \in Nat /\ DOMAIN log = 1 .. Len(log)
      /\ Len(new) \in Nat /\ DOMAIN new = 1 .. Len(new)
      /\ \A i \in DOMAIN log : log[i].len \in Nat
    BY Domains
<1>2. \A i \in DOMAIN new : i \in DOMAIN log \/ new[i].kind = "token"
    BY <1>1
<1>3. NoEnd(new)
    BY <1>2 DEF NoEnd, Grows
<1>4. Complete(new)
    BY <1>1, <1>2 DEF Complete, Grows
<1>5. ASSUME NEW i \in DOMAIN new, new[i].kind = "start", NEW j \in i + 1 .. i + new[i].len
      PROVE  new[j] = Byte(new[i].of)
  <2>1. i \in DOMAIN log /\ new[i] = log[i]
    BY <1>2, <1>5 DEF Grows
  <2>2. j <= Len(log)
    BY <1>1, <1>5, <2>1 DEF Complete
  <2> QED
    BY <1>5, <2>1, <2>2, Kept
<1>6. ASSUME NEW i \in DOMAIN new, new[i].kind = "byte"
      PROVE  Begun(new, i)
    BY <1>2, <1>6, Kept
<1> QED
    BY <1>3, <1>4, <1>5, <1>6, Zenon DEF PayloadsInLog, Begun

LEMMA ByEnd ==
    ASSUME NEW log \in Log, NEW new \in Log, Grows(log, new),
           Len(new) = Len(log) + 1, new[Len(new)] = End, PayloadsInLog(log), NoEnd(log)
    PROVE  PayloadsInLog(new)
<1>1. /\ Len(log) \in Nat /\ DOMAIN log = 1 .. Len(log)
      /\ Len(new) \in Nat /\ DOMAIN new = 1 .. Len(new)
      /\ End.kind = "end"
    BY Domains, FrameKinds
<1>2. \A i \in DOMAIN new : i \in DOMAIN log \/ new[i].kind = "end"
    BY <1>1
<1>3. ASSUME NEW i \in DOMAIN new, new[i].kind = "start", NEW j \in i + 1 .. i + new[i].len,
             j <= Len(new)
      PROVE  new[j] = Byte(new[i].of) \/ (new[j] = End /\ j = Len(new))
  <2>1. i \in DOMAIN log
    BY <1>2, <1>3
  <2>2. j = Len(new) \/ j <= Len(log)
    BY <1>1, <1>3, <2>1, Kept
  <2>3. CASE j <= Len(log)
    BY <1>3, <2>1, <2>3, Kept
  <2> QED
    BY <2>2, <2>3
<1>4. ASSUME NEW i \in DOMAIN new, new[i].kind = "byte"
      PROVE  Begun(new, i)
    BY <1>2, <1>4, Kept
<1> QED
    BY <1>3, <1>4, Zenon DEF PayloadsInLog, Begun

LEMMA ByStart ==
    ASSUME NEW log \in Log, NEW new \in Log, Grows(log, new), Len(new) = Len(log) + 1,
           new[Len(new)].kind = "start", PayloadsInLog(log), Complete(log), NoEnd(log)
    PROVE  LET f == new[Len(new)]
           IN  /\ PayloadsInLog(new) /\ NoEnd(new)
               /\ Lacks(new, f.of, f.len)
               /\ f.len = 0 => Complete(new)
<1>1. /\ Len(log) \in Nat /\ DOMAIN log = 1 .. Len(log)
      /\ Len(new) \in Nat /\ DOMAIN new = 1 .. Len(new)
      /\ \A i \in DOMAIN log : log[i].len \in Nat
      /\ new[Len(new)].len \in Nat
    BY Domains
<1>2. \A i \in DOMAIN new : i \in DOMAIN log \/ i = Len(new)
    BY <1>1
<1>3. NoEnd(new)
    BY <1>2 DEF NoEnd, Grows
<1>4. \A i \in DOMAIN log : new[i].kind = "start" => i + new[i].len <= Len(log)
    BY DEF Complete, Grows
<1>5. Lacks(new, new[Len(new)].of, new[Len(new)].len)
  <2>1. Len(new) \in DOMAIN new
    BY <1>1
  <2>2. \A j \in DOMAIN new :
          new[j].kind = "start" /\ j # Len(new) => j + new[j].len <= Len(new)
    BY <1>1, <1>2, <1>4, Kept
  <2> QED
    BY <2>1, <2>2 DEF Lacks
<1>6. new[Len(new)].len = 0 => Complete(new)
    BY <1>1, <1>2, <1>4, Kept DEF Complete
<1>7. ASSUME NEW i \in DOMAIN new, new[i].kind = "start", NEW j \in i + 1 .. i + new[i].len,
             j <= Len(new)
      PROVE  new[j] = Byte(new[i].of)
  <2>1. i \in DOMAIN log
    BY <1>1, <1>2, <1>7
  <2>2. j <= Len(log)
    BY <1>1, <1>4, <1>7, <2>1, Kept
  <2> QED
    BY <1>7, <2>1, <2>2, Kept
<1>8. ASSUME NEW i \in DOMAIN new, new[i].kind = "byte"
      PROVE  Begun(new, i)
    BY <1>2, <1>8, Kept
<1>9. PayloadsInLog(new)
    BY <1>7, <1>8, Zenon DEF PayloadsInLog, Begun
<1> QED
    BY <1>3, <1>5, <1>6, <1>9

LEMMA ByByte ==
    ASSUME NEW log \in Log, NEW new \in Log, Grows(log, new), Len(new) = Len(log) + 1,
           NEW k \in Nat, new[Len(new)] = Byte(k), NEW n \in Nat \ {0}, Lacks(log, k, n),
           PayloadsInLog(log), NoEnd(log)
    PROVE  /\ PayloadsInLog(new) /\ NoEnd(new)
           /\ Lacks(new, k, n - 1)
           /\ n = 1 => Complete(new)
<1>1. /\ Len(log) \in Nat /\ DOMAIN log = 1 .. Len(log)
      /\ Len(new) \in Nat /\ DOMAIN new = 1 .. Len(new)
      /\ \A i \in DOMAIN log : log[i].len \in Nat
      /\ new[Len(new)].kind = "byte" /\ new[Len(new)].of = k
    BY Domains, FrameKinds
<1>2. \A i \in DOMAIN new : i \in DOMAIN log \/ i = Len(new)
    BY <1>1
<1>3. NoEnd(new)
    BY <1>1, <1>2 DEF NoEnd, Grows
<1>4. PICK s \in DOMAIN log :
         /\ log[s].kind = "start" /\ log[s].of = k /\ s + log[s].len = Len(log) + n
         /\ \A j \in DOMAIN log :
              log[j].kind = "start" /\ j # s => j + log[j].len <= Len(log)
    BY DEF Lacks
<1>5. /\ s \in DOMAIN new /\ s \in Nat /\ new[s] = log[s] /\ new[s].len \in Nat
      /\ s + new[s].len = Len(new) + (n - 1)
    BY <1>1, <1>4, Kept
<1>6. \A i \in DOMAIN new : new[i].kind = "start" =>
         i \in DOMAIN log /\ (i # s => i + new[i].len <= Len(log))
    BY <1>1, <1>2, <1>4, Kept
<1>7. Lacks(new, k, n - 1) /\ (n = 1 => Complete(new))
  <2>1. \A j \in DOMAIN new : new[j].kind = "start" /\ j # s => j + new[j].len <= Len(new)
    BY <1>1, <1>6, Kept
  <2> QED
    BY <1>1, <1>4, <1>5, <2>1 DEF Lacks, Complete
<1>8. ASSUME NEW i \in DOMAIN new, new[i].kind = "start", NEW j \in i + 1 .. i + new[i].len,
             j <= Len(new)
      PROVE  new[j] = Byte(new[i].of)
  <2>1. i \in DOMAIN log /\ new[i].len \in Nat
    BY <1>6, <1>8, Kept
  <2>2. CASE j <= Len(log)
    BY <1>8, <2>1, <2>2, Kept
  <2>3. CASE j = Len(new)
    <3>1. i = s
      BY <1>1, <1>6, <1>8, <2>1, <2>3
    <3> QED
      BY <1>4, <1>5, <2>3, <3>1
  <2> QED
    BY <1>1, <1>8, <2>1, <2>2, <2>3
<1>9. ASSUME NEW i \in DOMAIN new, new[i].kind = "byte"
      PROVE  Begun(new, i)
  <2>1. CASE i \in DOMAIN log
    BY <1>9, <2>1, Kept
  <2>2. CASE i = Len(new)
    <3>1. s \in 1 .. i - 1 /\ i - s <= new[s].len
      BY <1>1, <1>4, <1>5, <2>2
    <3> QED
      BY <1>1, <1>4, <1>5, <2>2, <3>1 DEF Begun
  <2> QED
    BY <1>2, <2>1, <2>2
<1>10. PayloadsInLog(new)
    BY <1>8, <1>9, Zenon DEF PayloadsInLog, Begun
<1> QED
    BY <1>3, <1>7, <1>10

-----------------------------------------------------------------------------
(* Steps that leave what was received and what is to be read alone.        *)

Active == {primary, secondary} \ ({0} \cup gone)

LEMMA QuietParts ==
    ASSUME HandshakeInv, UNCHANGED <<client, socket, payloads, current_write>>
    PROVE  PayloadsWhole' /\ SocketWhole' /\ UnreadIsFresh'
<1>1. PayloadsWhole'
    BY DEF HandshakeInv, PayloadsWhole
<1>2. SocketWhole'
    BY DEF HandshakeInv, SocketWhole
<1>3. UnreadIsFresh'
    BY DEF HandshakeInv, UnreadIsFresh
<1> QED
    BY <1>1, <1>2, <1>3

\* The transports in use keep their part in the current payload, and a new one has
\* received nothing.
LEMMA QuietLogs ==
    ASSUME HandshakeInv, UNCHANGED <<client, socket, current_write>>,
           Relaying' => Relaying,
           \A t \in Active' : \/ t \in Active /\ (Receives(t) <=> (Receives(t))')
                              \/ client[t] = <<>> /\ ~(Receives(t))',
           ~Connected' => current_write = 0 \/ discard_bytes'
    PROVE  LogsFollowWrite'
<1>1. ASSUME Relaying', NEW t \in Active'
      PROVE  /\ \A i \in DOMAIN client'[t] : client'[t][i].kind # "end"
             /\ (Receives(t))' => Lacks(client'[t], socket'[1].of, current_write')
             /\ ~(Receives(t))' => Complete(client'[t])
  <2>1. client'[t] = client[t] /\ socket' = socket /\ current_write' = current_write
    OBVIOUS
  <2>2. CASE t \in Active /\ (Receives(t) <=> (Receives(t))')
    BY <1>1, <2>1, <2>2 DEF HandshakeInv, LogsFollowWrite, Active
  <2>3. CASE client[t] = <<>> /\ ~(Receives(t))'
    <3>1. DOMAIN client'[t] = {}
      BY <2>1, <2>3
    <3> QED
      BY <2>3, <3>1 DEF Complete
  <2> QED
    BY <1>1, <2>2, <2>3
<1>2. Active' = {primary', secondary'} \ ({0} \cup gone')
    BY DEF Active
<1> QED
    BY <1>1, <1>2 DEF LogsFollowWrite

LEMMA ServiceEndsKeeps ==
    ASSUME HandshakeInv, ServiceEnds
    PROVE  HandshakeInv'
<1> USE DEF ServiceEnds, stateVars, writeVars, dialVars
<1>1. HandshakeTypeOK'
    BY DEF HandshakeInv, HandshakeTypeOK
<1>2. TokensToAsker' /\ TransportsPlaced'
    BY DEF HandshakeInv, TokensToAsker, TransportsPlaced
<1>3. LogsFollowWrite'
    BY DEF HandshakeInv, LogsFollowWrite, Relaying, Connected, Receives, Sender
<1> QED
    BY <1>1, <1>2, <1>3, QuietParts DEF HandshakeInv

LEMMA ClientLeavesKeeps ==
    ASSUME HandshakeInv, NEW t \in Transports, ClientLeaves(t)
    PROVE  HandshakeInv'
<1> USE DEF ClientLeaves, stateVars, writeVars, dialVars, serviceVars
<1>1. HandshakeTypeOK'
    BY DEF HandshakeInv, HandshakeTypeOK
<1>2. TokensToAsker' /\ TransportsPlaced'
    BY DEF HandshakeInv, TokensToAsker, TransportsPlaced
<1>3. LogsFollowWrite'
    BY QuietLogs DEF HandshakeInv, Active, LogsFollowWrite, Relaying, Connected, Receives, Sender
<1> QED
    BY <1>1, <1>2, <1>3, QuietParts DEF HandshakeInv

LEMMA SendDialKeeps ==
    ASSUME HandshakeInv, NEW t \in Transports, SendDial(t)
    PROVE  HandshakeInv'
<1> USE DEF SendDial, stateVars, writeVars, serviceVars
<1>1. HandshakeTypeOK'
    BY DEF HandshakeInv, HandshakeTypeOK
<1>2. TokensToAsker'
    BY DEF HandshakeInv, TokensToAsker
<1>3. TransportsPlaced'
  <2>1. \A u \in Transports : connection_rx' = <<u>> => u = t
    OBVIOUS
  <2>2. mode[t] # "new" /\ client[t] = <<>> /\ t \notin {primary, secondary}
    BY DEF HandshakeInv, TransportsPlaced
  <2> QED
    BY <2>1, <2>2 DEF HandshakeInv, TransportsPlaced
<1>4. LogsFollowWrite'
    BY DEF HandshakeInv, LogsFollowWrite, Relaying, Connected, Receives, Sender
<1> QED
    BY <1>1, <1>2, <1>3, <1>4, QuietParts DEF HandshakeInv

LEMMA RequestTokenKeeps ==
    ASSUME HandshakeInv, NEW answered \in BOOLEAN, RequestToken(answered)
    PROVE  HandshakeInv'
<1> USE DEF RequestToken, stateVars, writeVars, serviceVars, dialVars
<1>1. HandshakeTypeOK'
    BY HandshakeAssumption DEF HandshakeInv, HandshakeTypeOK
<1>2. TokensToAsker'
    BY DEF HandshakeInv, TokensToAsker
<1>3. TransportsPlaced'
    BY DEF HandshakeInv, TransportsPlaced
<1>4. LogsFollowWrite'
    BY DEF HandshakeInv, LogsFollowWrite, Relaying, Connected, Receives, Sender
<1> QED
    BY <1>1, <1>2, <1>3, <1>4, QuietParts DEF HandshakeInv

LEMMA NoConnectionTimeoutKeeps ==
    ASSUME HandshakeInv, NoConnectionTimeout
    PROVE  HandshakeInv'
<1> USE DEF NoConnectionTimeout, stateVars, writeVars, serviceVars, dialVars
<1>1. HandshakeTypeOK'
    BY DEF HandshakeInv, HandshakeTypeOK
<1>2. TokensToAsker'
    BY DEF HandshakeInv, TokensToAsker
<1>3. TransportsPlaced'
    BY DEF HandshakeInv, TransportsPlaced
<1>4. LogsFollowWrite'
    BY DEF LogsFollowWrite, Relaying
<1> QED
    BY <1>1, <1>2, <1>3, <1>4, QuietParts DEF HandshakeInv

LEMMA CleanUpConnectionKeeps ==
    ASSUME HandshakeInv, CleanUpConnection
    PROVE  HandshakeInv'
<1> USE DEF CleanUpConnection, writeVars, serviceVars
<1>1. HandshakeTypeOK'
  <2>1. <<>> \in Seq(Transports) /\ Len(<<>>) <= 1
    OBVIOUS
  <2> QED
    BY <2>1, Zenon DEF HandshakeInv, HandshakeTypeOK
<1>2. TokensToAsker'
    BY DEF HandshakeInv, TokensToAsker
<1>3. TransportsPlaced'
    BY FrameKinds DEF HandshakeInv, TransportsPlaced
<1>4. LogsFollowWrite'
    BY DEF LogsFollowWrite, Relaying
<1> QED
    BY <1>1, <1>2, <1>3, <1>4, QuietParts DEF HandshakeInv

-----------------------------------------------------------------------------
(* Transports that go and come.                                            *)

LEMMA TwoTransports ==
    ASSUME HandshakeInv
    PROVE  /\ primary # 0 => primary # secondary
           /\ primary \in Transports \cup {0} /\ secondary \in Transports \cup {0}
           /\ discard_bytes \in BOOLEAN /\ is_primary_the_current_sender \in BOOLEAN
           /\ current_write \in Nat
BY DEF HandshakeInv, TransportsPlaced, HandshakeTypeOK

\* The rest of a payload is discarded when its receiver goes, and only then.
LEMMA DropKeeps ==
    ASSUME HandshakeInv, pc = "select", NEW t \in {primary, secondary} \ {0}, DropTransport(t),
           UNCHANGED <<pc, asker, serviceVars, dialVars, gone, client>>,
           client_frames' \in 0..MaxClientFrames
    PROVE  HandshakeInv'
<1> USE DEF serviceVars, dialVars
<1>1. \/ DropPrimary /\ primary # 0
      \/ DropSecondary /\ secondary # 0
    BY DEF DropTransport
<1>2. /\ current_write' = current_write
      /\ is_primary_the_current_sender' = is_primary_the_current_sender
      /\ discard_bytes' \in BOOLEAN
      /\ primary' \in {0, primary} /\ secondary' \in {0, secondary}
    BY <1>1, TwoTransports DEF DropPrimary, DropSecondary
<1>3. queued_primary_response' = <<>>
      \/ (queued_primary_response' = queued_primary_response /\ primary' = primary)
    BY <1>1, Zenon DEF DropPrimary, DropSecondary
<1>4. HandshakeTypeOK'
  <2>1. queued_primary_response' \in Seq(Transports)
    <3>1. <<>> \in Seq(Transports) /\ queued_primary_response \in Seq(Transports)
      BY DEF HandshakeInv, HandshakeTypeOK
    <3> QED
      BY <1>3, <3>1
  <2>2. primary' \in Transports \cup {0} /\ secondary' \in Transports \cup {0}
    BY <1>2, TwoTransports
  <2> QED
    BY <1>2, <2>1, <2>2 DEF HandshakeInv, HandshakeTypeOK
<1>5. TokensToAsker'
    BY <1>3 DEF HandshakeInv, TokensToAsker
<1>6. TransportsPlaced'
    BY <1>2, FrameKinds DEF HandshakeInv, TransportsPlaced
<1>7. ~Connected' => discard_bytes'
    BY <1>1 DEF Connected, Both, DropPrimary, DropSecondary
<1>8. ASSUME NEW u \in Active'
      PROVE  u \in Active /\ (Receives(u) <=> (Receives(u))')
  <2>1. u \in Active
    BY <1>2 DEF Active
  <2>2. CASE DropPrimary /\ primary # 0
    BY <1>2, <2>2, TwoTransports DEF Active, DropPrimary, Receives, Sender, Both
  <2>3. CASE DropSecondary /\ secondary # 0
    BY <1>2, <2>3, TwoTransports DEF Active, DropSecondary, Receives, Sender, Both
  <2> QED
    BY <1>1, <2>1, <2>2, <2>3
<1>9. LogsFollowWrite'
    BY <1>2, <1>7, <1>8, QuietLogs DEF Relaying
<1> QED
    BY <1>2, <1>4, <1>5, <1>6, <1>9, QuietParts DEF HandshakeInv

LEMMA WrongFrameKeeps ==
    ASSUME HandshakeInv, NEW t \in Transports, WrongFrame(t) \/ ReceiverEnds(t)
    PROVE  HandshakeInv'
<1>1. client_frames' \in 0..MaxClientFrames
    BY HandshakeAssumption DEF HandshakeInv, HandshakeTypeOK, WrongFrame, ReceiverEnds
<1> QED
    BY <1>1, DropKeeps DEF WrongFrame, ReceiverEnds

\* A transport that joins the one in use leaves it its payload; one that takes the
\* place of another has the rest of that one's payload discarded.
LEMMA NewcomerKeepsRest ==
    ASSUME HandshakeInv, AcceptConnection
    PROVE  /\ pc = "select" /\ pc' = "select" /\ connection_rx' = <<>>
           /\ UNCHANGED <<current_write, serviceVars, mode, dialing, gone, entry, extended, asker,
                          client_frames>>
           /\ discard_bytes' \in BOOLEAN /\ is_primary_the_current_sender' \in BOOLEAN
           /\ \E t \in Transports :
                /\ connection_rx = <<t>> /\ client[t] = <<>> /\ mode[t] # "new"
                /\ t \notin {primary, secondary} /\ t \notin dialing
                /\ \/ mode[t] = "primary" /\ primary' = t /\ secondary' = secondary
                   \/ mode[t] = "secondary" /\ secondary' = t /\ primary' = primary
                /\ \A u \in Active' : \/ u = t /\ ~(Receives(u))'
                                      \/ u \in Active /\ u # t /\ (Receives(u) <=> (Receives(u))')
<1> USE DEF serviceVars
<1>1. PICK t \in Transports : connection_rx = <<t>> /\ Head(connection_rx) = t
  <2>1. connection_rx \in Seq(Transports) /\ Len(connection_rx) <= 1 /\ connection_rx # <<>>
    BY DEF AcceptConnection, HandshakeInv, HandshakeTypeOK
  <2> QED
    BY <2>1, Singleton
<1>2. /\ client[t] = <<>> /\ mode[t] # "new" /\ t \notin {primary, secondary} /\ t \notin dialing
      /\ mode[t] \in {"primary", "secondary"} /\ t # 0
    BY <1>1, FrameKinds DEF HandshakeInv, TransportsPlaced, HandshakeTypeOK
<1>3. \/ mode[t] = "primary" /\ primary # 0 /\ ReplacePrimary(t)
           /\ UNCHANGED is_primary_the_current_sender
      \/ mode[t] = "secondary" /\ secondary # 0 /\ ReplaceSecondary(t)
           /\ UNCHANGED is_primary_the_current_sender
      \/ mode[t] = "primary" /\ primary = 0 /\ Joins(t)
      \/ mode[t] = "secondary" /\ secondary = 0 /\ Joins(t)
    BY <1>1, <1>2 DEF AcceptConnection
<1>4. /\ \/ mode[t] = "primary" /\ primary' = t /\ secondary' = secondary
         \/ mode[t] = "secondary" /\ secondary' = t /\ primary' = primary
      /\ discard_bytes' \in BOOLEAN /\ is_primary_the_current_sender' \in BOOLEAN
    BY <1>3, TwoTransports DEF ReplacePrimary, ReplaceSecondary, Joins, SenderRemains
<1>5. /\ pc = "select" /\ pc' = "select" /\ connection_rx' = <<>>
      /\ UNCHANGED <<current_write, serviceVars, mode, dialing, gone, entry, extended, asker,
                     client_frames>>
    BY DEF AcceptConnection
<1>6. ~Connected => current_write = 0 \/ discard_bytes
    BY <1>5 DEF HandshakeInv, LogsFollowWrite, Relaying
<1>7. ASSUME NEW u \in Active'
      PROVE  \/ u = t /\ ~(Receives(u))'
             \/ u \in Active /\ u # t /\ (Receives(u) <=> (Receives(u))')
  <2>1. u = t \/ (u \in Active /\ u # t)
    BY <1>2, <1>4, <1>5 DEF Active
  <2>2. CASE mode[t] = "primary" /\ primary # 0 /\ ReplacePrimary(t)
           /\ UNCHANGED is_primary_the_current_sender
    BY <1>2, <1>5, <2>1, <2>2, TwoTransports DEF Active, ReplacePrimary, Receives, Sender, Both
  <2>3. CASE mode[t] = "secondary" /\ secondary # 0 /\ ReplaceSecondary(t)
           /\ UNCHANGED is_primary_the_current_sender
    BY <1>2, <1>5, <2>1, <2>3, TwoTransports DEF Active, ReplaceSecondary, Receives, Sender, Both
  <2>4. CASE mode[t] = "primary" /\ primary = 0 /\ Joins(t)
    BY <1>2, <1>5, <1>6, <2>1, <2>4, TwoTransports
    DEF Active, Joins, SenderRemains, Receives, Sender, Connected
  <2>5. CASE mode[t] = "secondary" /\ secondary = 0 /\ Joins(t)
    <3>1. /\ secondary' = t /\ primary' = primary /\ discard_bytes' = discard_bytes
          /\ primary # 0 => is_primary_the_current_sender' = TRUE
      BY <2>5 DEF Joins, SenderRemains, Connected
    <3>2. primary # 0 => Sender = primary /\ Sender' = primary
      BY <2>5, <3>1 DEF Sender
    <3>3. primary = 0 => current_write = 0 \/ discard_bytes
      BY <1>6, <2>5 DEF Connected
    <3>4. primary = 0 => u = t
      BY <2>1, <2>5 DEF Active
    <3> QED
      BY <1>2, <1>5, <2>1, <2>5, <3>1, <3>2, <3>3, <3>4 DEF Active, Receives
  <2> QED
    BY <1>3, <2>2, <2>3, <2>4, <2>5
<1> QED
    BY <1>1, <1>2, <1>4, <1>5, <1>7

-----------------------------------------------------------------------------
(* What the clients receive.                                               *)

\* Every log grows, without a new start and with no token of another.
Gains(new) ==
    /\ new \in [Transports -> Log]
    /\ \A t \in Transports :
         /\ Grows(client[t], new[t]) /\ PayloadsInLog(new[t])
         /\ \A i \in DOMAIN new[t] :
              /\ new[t][i].kind = "start" => i \in DOMAIN client[t]
              /\ new[t][i].kind = "token" => new[t][i].of = t

LEMMA Logs ==
    ASSUME HandshakeInv
    PROVE  /\ client \in [Transports -> Log] /\ socket \in Log
           /\ \A t \in Transports :
                /\ client[t] \in Log /\ PayloadsInLog(client[t])
                /\ Len(client[t]) \in Nat /\ DOMAIN client[t] = 1 .. Len(client[t])
                /\ \A i \in DOMAIN client[t] : client[t][i].kind = "token" => client[t][i].of = t
           /\ Active \subseteq Transports
           /\ Relaying => \A t \in Active :
                /\ NoEnd(client[t])
                /\ Receives(t) => Lacks(client[t], socket[1].of, current_write)
                /\ ~Receives(t) => Complete(client[t])
<1>1. client \in [Transports -> Log] /\ socket \in Log
    BY DEF HandshakeInv, HandshakeTypeOK, Log
<1>2. \A t \in Transports : /\ client[t] \in Log /\ PayloadsInLog(client[t])
                            /\ Len(client[t]) \in Nat /\ DOMAIN client[t] = 1 .. Len(client[t])
    BY <1>1, Domains DEF HandshakeInv, PayloadsWhole
<1>3. \A t \in Transports : \A i \in DOMAIN client[t] :
         client[t][i].kind = "token" => client[t][i].of = t
    BY DEF HandshakeInv, TokensToAsker
<1>4. Active \subseteq Transports
    BY DEF HandshakeInv, HandshakeTypeOK, Active
<1> QED
    BY <1>1, <1>2, <1>3, <1>4 DEF HandshakeInv, LogsFollowWrite, Active, NoEnd

LEMMA GainsKeep ==
    ASSUME HandshakeInv, NEW new, Gains(new), client' = new,
           UNCHANGED <<socket, payloads, current_write>>
    PROVE  /\ PayloadsWhole' /\ SocketWhole' /\ UnreadIsFresh'
           /\ client' \in [Transports -> Seq(ProxyFrame)]
           /\ \A t \in Transports : \A i \in DOMAIN client'[t] :
                client'[t][i].kind = "token" => client'[t][i].of = t
<1>1. \A t \in Transports : \A i \in DOMAIN client'[t] :
        client'[t][i].kind = "start" => i \in DOMAIN client[t] /\ client'[t][i] = client[t][i]
    BY DEF Gains, Grows
<1>2. PayloadsWhole'
  <2>1. \A t \in Transports : PayloadsInLog(client'[t])
    BY DEF Gains
  <2>2. \A t, u \in Transports : \A i \in DOMAIN client'[t], j \in DOMAIN client'[u] :
          /\ client'[t][i].kind = "start" /\ client'[u][j].kind = "start"
          /\ client'[t][i].of = client'[u][j].of
          => t = u /\ i = j
    BY <1>1 DEF HandshakeInv, PayloadsWhole
  <2> QED
    BY <2>1, <2>2 DEF PayloadsWhole
<1>3. SocketWhole'
    BY DEF HandshakeInv, SocketWhole
<1>4. UnreadIsFresh'
    BY <1>1 DEF HandshakeInv, UnreadIsFresh
<1> QED
    BY <1>2, <1>3, <1>4 DEF Gains, Log

\* sender.terminate
LEMMA EndOfAllGains ==
    ASSUME HandshakeInv, Relaying
    PROVE  Gains(EndOfAll) /\ \A t \in Transports \ {primary, secondary} : EndOfAll[t] = client[t]
<1> DEFINE new == EndOfAll
<1>1. \A t \in Transports : new[t] = IF t \in Active THEN Append(client[t], End) ELSE client[t]
    BY FrameKinds DEF EndOfAll, Active
<1>2. End \in ProxyFrame /\ End.kind = "end"
    BY FrameKinds
<1>3. new = [t \in Transports |-> new[t]]
    BY DEF EndOfAll
<1> HIDE DEF new
<1>4. ASSUME NEW t \in Transports
      PROVE  /\ new[t] \in Log /\ Grows(client[t], new[t]) /\ PayloadsInLog(new[t])
             /\ \A i \in DOMAIN new[t] :
                  /\ new[t][i].kind = "start" => i \in DOMAIN client[t]
                  /\ new[t][i].kind = "token" => new[t][i].of = t
  <2>1. /\ client[t] \in Log /\ PayloadsInLog(client[t])
        /\ Len(client[t]) \in Nat /\ DOMAIN client[t] = 1 .. Len(client[t])
        /\ \A i \in DOMAIN client[t] : client[t][i].kind = "token" => client[t][i].of = t
        /\ t \in Active => NoEnd(client[t])
    BY Logs
  <2>2. CASE t \notin Active
    BY <1>1, <2>1, <2>2 DEF Grows
  <2>3. CASE t \in Active
    <3>1. /\ new[t] \in Log /\ Len(new[t]) = Len(client[t]) + 1
          /\ \A i \in 1 .. Len(client[t]) : new[t][i] = client[t][i]
          /\ new[t][Len(client[t]) + 1] = End
      <4>1. new[t] = Append(client[t], End)
        BY <1>1, <2>3
      <4> QED
        BY <1>2, <2>1, <4>1, LogAppend
    <3>2. Grows(client[t], new[t])
      BY <2>1, <3>1 DEF Grows
    <3>3. DOMAIN new[t] = 1 .. Len(client[t]) + 1
      BY <3>1, Domains
    <3>4. PayloadsInLog(new[t])
      BY <2>1, <2>3, <3>1, <3>2, ByEnd
    <3>5. \A i \in DOMAIN new[t] : i \in DOMAIN client[t] \/ new[t][i] = End
      BY <2>1, <3>1, <3>3
    <3> QED
      BY <1>2, <2>1, <3>1, <3>2, <3>4, <3>5
  <2> QED
    BY <2>2, <2>3
<1>5. new \in [Transports -> Log]
    BY <1>3, <1>4
<1> QED
    BY <1>1, <1>4, <1>5 DEF Gains, new, Active

\* maybe_flush_primary_queue
LEMMA FlushGains ==
    ASSUME HandshakeInv, Relaying, primary # 0, Flushes, NEW queue \in Seq(Transports),
           \A i \in DOMAIN queue : queue[i] = primary
    PROVE  /\ Gains(Flushed(queue))
           /\ \A t \in Transports : t # primary => Flushed(queue)[t] = client[t]
           /\ primary \in Active => /\ NoEnd(Flushed(queue)[primary])
                                    /\ Complete(Flushed(queue)[primary])
<1> DEFINE ts == [i \in DOMAIN queue |-> Token(queue[i])]
           new == Flushed(queue)
<1>1. /\ client \in [Transports -> Log] /\ primary \in Transports
      /\ \A t \in Transports :
           /\ client[t] \in Log /\ PayloadsInLog(client[t])
           /\ Len(client[t]) \in Nat /\ DOMAIN client[t] = 1 .. Len(client[t])
           /\ \A i \in DOMAIN client[t] : client[t][i].kind = "token" => client[t][i].of = t
    BY Logs, TwoTransports
<1>2. CASE primary \in gone
  <2>1. new = client
    BY <1>2 DEF Flushed, Send
  <2>2. Gains(client)
    BY <1>1 DEF Gains, Grows
  <2> QED
    BY <1>2, <2>1, <2>2 DEF Active
<1>3. CASE primary \notin gone
  <2>1. primary \in Active /\ ~Receives(primary)
    BY <1>3, TwoTransports DEF Active, Flushes, Receives, Sender, Both
  <2>2. NoEnd(client[primary]) /\ Complete(client[primary])
    BY <2>1, Logs
  <2>3. /\ ts \in Log
        /\ \A i \in DOMAIN ts : ts[i].kind = "token" /\ ts[i].of = primary
    <3>1. Len(queue) \in Nat /\ DOMAIN queue = 1 .. Len(queue)
      OBVIOUS
    <3>2. Token(primary) \in ProxyFrame /\ Token(primary).kind = "token"
            /\ Token(primary).of = primary
      BY <1>1, FrameKinds
    <3>3. \A i \in DOMAIN queue : ts[i] = Token(primary)
      OBVIOUS
    <3>4. ts \in [1 .. Len(queue) -> ProxyFrame]
      BY <3>1, <3>2, <3>3
    <3>5. ts \in Seq(ProxyFrame)
      BY <3>1, <3>4
    <3> QED
      BY <3>2, <3>3, <3>5 DEF Log
  <2>4. new = [client EXCEPT ![primary] = client[primary] \o ts]
    BY <1>3 DEF Flushed, Send
  <2> HIDE DEF ts, new
  <2> DEFINE log == client[primary] \o ts
  <2>5. /\ log \in Log /\ Len(log) = Len(client[primary]) + Len(ts)
        /\ \A i \in Len(client[primary]) + 1 .. Len(log) : log[i].kind = "token" /\ log[i].of = primary
        /\ Grows(client[primary], log)
    BY <1>1, <2>3, LogConcat
  <2>6. /\ new \in [Transports -> Log] /\ new[primary] = log
        /\ \A t \in Transports : t # primary => new[t] = client[t]
    BY <1>1, <2>4, <2>5
  <2> HIDE DEF log
  <2>7. PayloadsInLog(log) /\ Complete(log) /\ NoEnd(log)
    BY <1>1, <2>2, <2>5, ByToken
  <2>8. \A i \in DOMAIN log : i \in DOMAIN client[primary] \/ (log[i].kind = "token" /\ log[i].of = primary)
    BY <1>1, <2>5, Domains
  <2>9. \A i \in DOMAIN client[primary] : log[i] = client[primary][i]
    BY <2>5 DEF Grows
  <2>10. ASSUME NEW t \in Transports
         PROVE  /\ Grows(client[t], new[t]) /\ PayloadsInLog(new[t])
                /\ \A i \in DOMAIN new[t] :
                     /\ new[t][i].kind = "start" => i \in DOMAIN client[t]
                     /\ new[t][i].kind = "token" => new[t][i].of = t
    <3>1. CASE t = primary
      BY <1>1, <2>5, <2>6, <2>7, <2>8, <2>9, <3>1
    <3>2. CASE t # primary
      BY <1>1, <2>6, <3>2 DEF Grows
    <3> QED
      BY <3>1, <3>2
  <2> QED
    BY <2>6, <2>7, <2>10 DEF Gains, new
<1> QED
    BY <1>2, <1>3

\* The tokens that are queued all go to the primary.
LEMMA Queue ==
    ASSUME HandshakeInv
    PROVE  /\ queued_primary_response \in Seq(Transports)
           /\ \A i \in DOMAIN queued_primary_response : queued_primary_response[i] = primary
           /\ primary = 0 => queued_primary_response = <<>>
<1>1. /\ queued_primary_response \in Seq(Transports)
      /\ \A i \in DOMAIN queued_primary_response : queued_primary_response[i] = primary
    BY DEF HandshakeInv, HandshakeTypeOK, TokensToAsker
<1>2. ASSUME primary = 0, queued_primary_response # <<>>
      PROVE  FALSE
  <2>1. Len(queued_primary_response) \in Nat \ {0}
    BY <1>1, <1>2, EmptySeq
  <2>2. /\ 1 \in DOMAIN queued_primary_response
        /\ queued_primary_response[1] \in Transports
    BY <1>1, <2>1
  <2> QED
    BY <1>1, <1>2, <2>2, FrameKinds
<1> QED
    BY <1>1, <1>2

\* A step that only flushes.
LEMMA FlushLogs ==
    ASSUME HandshakeInv, Relaying, Flushes, primary # 0, NEW queue \in Seq(Transports),
           \A i \in DOMAIN queue : queue[i] = primary,
           client' = Flushed(queue),
           UNCHANGED <<primary, secondary, gone, discard_bytes, is_primary_the_current_sender,
                       socket, current_write, mode, dialing, connection_rx>>
    PROVE  LogsFollowWrite' /\ TransportsPlaced'
<1>1. /\ \A t \in Transports : t # primary => client'[t] = client[t]
      /\ primary \in Active => NoEnd(client'[primary]) /\ Complete(client'[primary])
    BY FlushGains
<1>2. ~Receives(primary)
    BY TwoTransports DEF Flushes, Receives, Sender, Both
<1>3. /\ Active' = Active /\ Sender' = Sender /\ (Connected' <=> Connected)
      /\ \A t \in Transports : (Receives(t))' <=> Receives(t)
    BY DEF Active, Sender, Connected, Receives
<1>4. ASSUME NEW t \in Active
      PROVE  /\ \A i \in DOMAIN client'[t] : client'[t][i].kind # "end"
             /\ (Receives(t))' => Lacks(client'[t], socket'[1].of, current_write')
             /\ ~(Receives(t))' => Complete(client'[t])
  <2>1. t \in Transports
    BY Logs
  <2>2. CASE t = primary
    BY <1>1, <1>2, <1>3, <2>1, <2>2 DEF NoEnd
  <2>3. CASE t # primary
    BY <1>1, <1>3, <2>1, <2>3, Logs DEF NoEnd
  <2> QED
    BY <2>2, <2>3
<1>5. Active' = {primary', secondary'} \ ({0} \cup gone')
    BY DEF Active
<1>6. ~Connected => current_write = 0 \/ discard_bytes
    BY DEF HandshakeInv, LogsFollowWrite
<1>7. LogsFollowWrite'
    BY <1>3, <1>4, <1>5, <1>6 DEF LogsFollowWrite
<1>8. TransportsPlaced'
    BY <1>1 DEF HandshakeInv, TransportsPlaced
<1> QED
    BY <1>7, <1>8

\* The proxy ends after it has terminated the transports.
LEMMA TerminateKeeps ==
    ASSUME HandshakeInv, pc = "select", pc' = "cleanup", client' = EndOfAll,
           UNCHANGED <<asker, stateVars, writeVars, serviceVars, dialVars, gone,
                       queued_primary_response>>,
           client_frames' \in 0..MaxClientFrames
    PROVE  HandshakeInv'
<1> USE DEF stateVars, writeVars, serviceVars, dialVars
<1>1. Gains(EndOfAll) /\ \A t \in Transports \ {primary, secondary} : client'[t] = client[t]
    BY EndOfAllGains DEF Relaying
<1>2. /\ PayloadsWhole' /\ SocketWhole' /\ UnreadIsFresh'
      /\ client' \in [Transports -> Seq(ProxyFrame)]
      /\ \A t \in Transports : \A i \in DOMAIN client'[t] :
           client'[t][i].kind = "token" => client'[t][i].of = t
    BY <1>1, GainsKeep
<1>3. HandshakeTypeOK'
    BY <1>2 DEF HandshakeInv, HandshakeTypeOK
<1>4. TokensToAsker'
    BY <1>2 DEF HandshakeInv, TokensToAsker
<1>5. TransportsPlaced'
    BY <1>1 DEF HandshakeInv, TransportsPlaced
<1>6. LogsFollowWrite'
    BY DEF LogsFollowWrite, Relaying
<1> QED
    BY <1>2, <1>3, <1>4, <1>5, <1>6 DEF HandshakeInv

LEMMA ServicePayloadKeeps ==
    ASSUME HandshakeInv, NEW t \in Transports, ServicePayload(t)
    PROVE  HandshakeInv'
<1> USE DEF stateVars, writeVars, serviceVars, dialVars
<1>1. client_frames' \in 0..MaxClientFrames /\ pc = "select" /\ primary \in Nat
    BY HandshakeAssumption, FrameKinds, TwoTransports
    DEF HandshakeInv, HandshakeTypeOK, ServicePayload
<1>2. CASE ~service_up
    BY <1>1, <1>2, TerminateKeeps DEF ServicePayload
<1>3. CASE service_up /\ t = primary /\ Flushes
  <2>1. /\ client' = Flushed(queued_primary_response) /\ queued_primary_response' = <<>>
        /\ primary # 0 /\ Relaying
        /\ UNCHANGED <<pc, asker, stateVars, writeVars, serviceVars, dialVars, gone>>
    BY <1>1, <1>3 DEF ServicePayload, Relaying
  <2>2. Gains(Flushed(queued_primary_response))
    BY <1>3, <2>1, Queue, FlushGains
  <2>3. /\ PayloadsWhole' /\ SocketWhole' /\ UnreadIsFresh'
        /\ client' \in [Transports -> Seq(ProxyFrame)]
        /\ \A u \in Transports : \A i \in DOMAIN client'[u] :
             client'[u][i].kind = "token" => client'[u][i].of = u
    BY <2>1, <2>2, GainsKeep
  <2>4. LogsFollowWrite' /\ TransportsPlaced'
    BY <1>3, <2>1, Queue, FlushLogs
  <2>5. HandshakeTypeOK'
    <3>1. queued_primary_response' \in Seq(Transports)
      BY <2>1
    <3>2. HandshakeTypeOK
      BY DEF HandshakeInv
    <3> QED
      BY <1>1, <2>1, <2>3, <3>1, <3>2 DEF HandshakeTypeOK
  <2>6. TokensToAsker'
    BY <2>1, <2>3 DEF HandshakeInv, TokensToAsker
  <2> QED
    BY <2>3, <2>4, <2>5, <2>6 DEF HandshakeInv
<1>4. CASE service_up /\ ~(t = primary /\ Flushes)
  <2>1. UNCHANGED <<pc, asker, stateVars, writeVars, serviceVars, dialVars, gone, client,
                    queued_primary_response>>
    BY <1>4 DEF ServicePayload
  <2>2. HandshakeTypeOK'
    BY <1>1, <2>1 DEF HandshakeInv, HandshakeTypeOK
  <2>3. TokensToAsker' /\ TransportsPlaced'
    BY <2>1 DEF HandshakeInv, TokensToAsker, TransportsPlaced
  <2>4. LogsFollowWrite'
    BY <2>1 DEF HandshakeInv, LogsFollowWrite, Relaying, Connected, Receives, Sender
  <2> QED
    BY <2>1, <2>2, <2>3, <2>4, QuietParts DEF HandshakeInv
<1> QED
    BY <1>2, <1>3, <1>4

LEMMA ServiceEndedKeeps ==
    ASSUME HandshakeInv, ServiceEnded
    PROVE  HandshakeInv'
BY TerminateKeeps DEF ServiceEnded, HandshakeInv, HandshakeTypeOK

LEMMA ExtendTokenKeeps ==
    ASSUME HandshakeInv, ExtendToken
    PROVE  HandshakeInv'
<1> USE DEF stateVars, writeVars, serviceVars
<1> DEFINE queue == IF asker = 0 THEN queued_primary_response
                                 ELSE Append(queued_primary_response, asker)
<1>1. /\ pc = "extend" /\ pc' = "select" /\ asker' = 0 /\ extended' = TRUE
      /\ IF Flushes
            THEN client' = Flushed(queue) /\ queued_primary_response' = <<>>
            ELSE queued_primary_response' = queue /\ UNCHANGED client
      /\ UNCHANGED <<stateVars, writeVars, serviceVars, mode, dialing, connection_rx,
                     entry, gone, client_frames>>
    BY DEF ExtendToken
<1>2. /\ primary # 0 /\ primary \in Transports /\ asker \in {0, primary} /\ Relaying
    BY <1>1, TwoTransports DEF HandshakeInv, TokensToAsker, Relaying
<1>3. queue \in Seq(Transports) /\ \A i \in DOMAIN queue : queue[i] = primary
  <2>1. CASE asker = 0
    BY <2>1, Queue
  <2>2. CASE asker # 0
    <3>1. asker = primary /\ queue = Append(queued_primary_response, primary)
      BY <1>2, <2>2
    <3> QED
      BY <1>2, <3>1, Queue
  <2> QED
    BY <2>1, <2>2
<1> HIDE DEF queue
<1>4. CASE Flushes
  <2>1. client' = Flushed(queue) /\ queued_primary_response' = <<>>
    BY <1>1, <1>4
  <2>2. Gains(Flushed(queue))
    BY <1>2, <1>3, <1>4, FlushGains
  <2>3. /\ PayloadsWhole' /\ SocketWhole' /\ UnreadIsFresh'
        /\ client' \in [Transports -> Seq(ProxyFrame)]
        /\ \A u \in Transports : \A i \in DOMAIN client'[u] :
             client'[u][i].kind = "token" => client'[u][i].of = u
    BY <1>1, <2>1, <2>2, GainsKeep
  <2>4. LogsFollowWrite' /\ TransportsPlaced'
    BY <1>1, <1>2, <1>3, <1>4, <2>1, FlushLogs
  <2>5. HandshakeTypeOK'
    BY <1>1, <2>1, <2>3 DEF HandshakeInv, HandshakeTypeOK
  <2>6. TokensToAsker'
    BY <1>1, <2>1, <2>3 DEF TokensToAsker
  <2> QED
    BY <2>3, <2>4, <2>5, <2>6 DEF HandshakeInv
<1>5. CASE ~Flushes
  <2>1. client' = client /\ queued_primary_response' = queue
    BY <1>1, <1>5
  <2>2. HandshakeTypeOK'
    BY <1>1, <1>3, <2>1 DEF HandshakeInv, HandshakeTypeOK
  <2>3. TokensToAsker'
    BY <1>1, <1>3, <2>1 DEF HandshakeInv, TokensToAsker
  <2>4. TransportsPlaced'
    BY <1>1, <2>1 DEF HandshakeInv, TransportsPlaced
  <2>5. LogsFollowWrite'
    BY <1>1, <2>1 DEF HandshakeInv, LogsFollowWrite, Relaying, Connected, Receives, Sender
  <2> QED
    BY <1>1, <2>1, <2>2, <2>3, <2>4, <2>5, QuietParts DEF HandshakeInv
<1> QED
    BY <1>4, <1>5

LEMMA AcceptConnectionKeeps ==
    ASSUME HandshakeInv, AcceptConnection
    PROVE  HandshakeInv'
<1> USE DEF serviceVars
<1>1. /\ pc = "select" /\ pc' = "select" /\ connection_rx' = <<>>
      /\ UNCHANGED <<current_write, serviceVars, mode, dialing, gone, entry, extended, asker,
                     client_frames>>
      /\ discard_bytes' \in BOOLEAN /\ is_primary_the_current_sender' \in BOOLEAN
    BY NewcomerKeepsRest
<1>2. PICK t \in Transports :
         /\ connection_rx = <<t>> /\ client[t] = <<>> /\ mode[t] # "new"
         /\ t \notin {primary, secondary} /\ t \notin dialing
         /\ \/ mode[t] = "primary" /\ primary' = t /\ secondary' = secondary
            \/ mode[t] = "secondary" /\ secondary' = t /\ primary' = primary
         /\ \A u \in Active' : \/ u = t /\ ~(Receives(u))'
                               \/ u \in Active /\ u # t /\ (Receives(u) <=> (Receives(u))')
    BY NewcomerKeepsRest
<1>3. Head(connection_rx) = t /\ t # 0
    BY <1>2, FrameKinds
<1>4. /\ queued_primary_response' \in Seq(Transports)
      /\ \A i \in DOMAIN queued_primary_response' : queued_primary_response'[i] = primary'
  <2>1. \/ queued_primary_response' = <<>>
        \/ queued_primary_response' = queued_primary_response /\ primary' = primary
        \/ queued_primary_response' = queued_primary_response /\ primary = 0
    BY <1>2, <1>3 DEF AcceptConnection, ReplacePrimary, ReplaceSecondary, Joins
  <2>2. <<>> \in Seq(Transports) /\ DOMAIN <<>> = {}
    OBVIOUS
  <2>3. queued_primary_response' = <<>> \/ (queued_primary_response' = queued_primary_response
                                              /\ primary' = primary)
    BY <2>1, Queue
  <2> QED
    BY <2>2, <2>3, Queue
<1>5. \/ client' = client
      \/ client' = EndOfAll /\ {primary', secondary'} \subseteq {0, t}
    BY <1>2, <1>3 DEF AcceptConnection, Joins, ReplacePrimary, ReplaceSecondary, Both
<1>6. Gains(client')
  <2>1. Gains(client)
    BY Logs DEF Gains, Grows
  <2> QED
    BY <1>1, <1>5, <2>1, EndOfAllGains DEF Relaying
<1>7. \A u \in Transports \ {primary, secondary} : client'[u] = client[u]
    BY <1>1, <1>5, EndOfAllGains DEF Relaying
<1>8. /\ PayloadsWhole' /\ SocketWhole' /\ UnreadIsFresh'
      /\ client' \in [Transports -> Seq(ProxyFrame)]
      /\ \A u \in Transports : \A i \in DOMAIN client'[u] :
           client'[u][i].kind = "token" => client'[u][i].of = u
    BY <1>1, <1>6, GainsKeep
<1>9. HandshakeTypeOK'
  <2>1. primary' \in Transports \cup {0} /\ secondary' \in Transports \cup {0}
    BY <1>2, TwoTransports
  <2>2. connection_rx' \in Seq(Transports) /\ Len(connection_rx') <= 1
    BY <1>1
  <2> QED
    BY <1>1, <1>4, <1>8, <2>1, <2>2 DEF HandshakeInv, HandshakeTypeOK
<1>10. TokensToAsker'
    BY <1>1, <1>4, <1>8 DEF TokensToAsker
<1>11. TransportsPlaced'
  <2>1. \A u \in Transports : connection_rx' # <<u>>
    BY <1>1
  <2>2. \A u \in Transports : mode[u] = "new" \/ u \in dialing =>
          client[u] = <<>> /\ u \notin {primary, secondary, t}
    BY <1>2 DEF HandshakeInv, TransportsPlaced
  <2>3. \A u \in dialing : mode[u] # "new"
    BY DEF HandshakeInv, TransportsPlaced
  <2>4. /\ primary # 0 => mode[primary] = "primary"
        /\ secondary # 0 => mode[secondary] = "secondary"
    BY DEF HandshakeInv, TransportsPlaced
  <2>5. {primary', secondary'} \subseteq {primary, secondary, t}
    BY <1>2
  <2>6. \A u \in Transports :
          \/ mode'[u] = "new"
          \/ u \in dialing'
          \/ connection_rx' = <<u>>
          => client'[u] = <<>> /\ u \notin {primary', secondary'}
    BY <1>1, <1>7, <2>1, <2>2, <2>5
  <2>7. \A u \in dialing' : mode'[u] # "new" /\ connection_rx' # <<u>>
    BY <1>1, <2>1, <2>3 DEF HandshakeInv, HandshakeTypeOK
  <2>8. /\ primary' # 0 => mode'[primary'] = "primary"
        /\ secondary' # 0 => mode'[secondary'] = "secondary"
    BY <1>1, <1>2, <2>4
  <2> QED
    BY <2>1, <2>6, <2>7, <2>8 DEF TransportsPlaced
<1>12. LogsFollowWrite'
  <2>1. Connected'
    BY <1>2, <1>3 DEF Connected
  <2>2. ASSUME NEW u \in Active'
        PROVE  /\ \A i \in DOMAIN client'[u] : client'[u][i].kind # "end"
               /\ (Receives(u))' => Lacks(client'[u], socket'[1].of, current_write')
               /\ ~(Receives(u))' => Complete(client'[u])
    <3>1. CASE u = t
      <4>1. client'[u] = <<>> /\ ~(Receives(u))'
        BY <1>2, <1>7, <3>1
      <4>2. DOMAIN client'[u] = {}
        BY <4>1
      <4> QED
        BY <4>1, <4>2 DEF Complete
    <3>2. CASE u \in Active /\ u # t /\ (Receives(u) <=> (Receives(u))')
      <4>1. client' = client
        BY <1>5, <3>2 DEF Active
      <4>2. Relaying
        BY <1>1 DEF Relaying
      <4> QED
        BY <1>1, <3>2, <4>1, <4>2, Logs DEF NoEnd
    <3> QED
      BY <1>2, <3>1, <3>2
  <2>3. Active' = {primary', secondary'} \ ({0} \cup gone')
    BY DEF Active
  <2> QED
    BY <2>1, <2>2, <2>3 DEF LogsFollowWrite
<1> QED
    BY <1>8, <1>9, <1>10, <1>11, <1>12 DEF HandshakeInv

LEMMA DialProxyKeeps ==
    ASSUME HandshakeInv, NEW t \in Transports, NEW m \in {"primary", "secondary"},
           DialProxy(t, m)
    PROVE  HandshakeInv'
<1> USE DEF stateVars, writeVars, serviceVars
<1>1. /\ mode[t] = "new" /\ mode' = [mode EXCEPT ![t] = m]
      /\ UNCHANGED <<pc, asker, stateVars, writeVars, queued_primary_response,
                     serviceVars, connection_rx, entry, extended, gone, client_frames>>
      /\ \/ dialing' = dialing \cup {t} /\ client' = client
         \/ client' = Send(client, t, <<End>>) /\ dialing' = dialing
    BY DEF DialProxy
<1>2. /\ client[t] = <<>> /\ t \notin {primary, secondary} /\ t \notin dialing
      /\ connection_rx # <<t>>
    BY <1>1 DEF HandshakeInv, TransportsPlaced
<1>3. /\ mode' \in [Transports -> {"new", "primary", "secondary"}] /\ mode'[t] = m
      /\ \A u \in Transports : u # t => mode'[u] = mode[u]
    BY <1>1 DEF HandshakeInv, HandshakeTypeOK
<1>4. Gains(client') /\ \A u \in Transports : u # t => client'[u] = client[u]
  <2>1. Gains(client)
    BY Logs DEF Gains, Grows
  <2>2. CASE client' = Send(client, t, <<End>>) /\ t \notin gone
    <3> DEFINE log == Append(client[t], End)
    <3>1. /\ End \in ProxyFrame /\ End.kind = "end" /\ client[t] \in Log
          /\ Len(client[t]) = 0 /\ DOMAIN client[t] = {} /\ PayloadsInLog(client[t])
      BY <1>2, FrameKinds, Logs
    <3>2. client' = [client EXCEPT ![t] = log]
      <4>1. client[t] \o <<End>> = log
        BY <3>1, LogAppend
      <4>2. client' = [client EXCEPT ![t] = client[t] \o <<End>>]
        BY <2>2, Zenon DEF Send
      <4> QED
        BY <4>1, <4>2
    <3>3. /\ log \in Log /\ Len(log) = 1 /\ log[1] = End /\ Grows(client[t], log)
      BY <3>1, LogAppend
    <3> HIDE DEF log
    <3>4. PayloadsInLog(log)
      <4>1. Len(log) = Len(client[t]) + 1 /\ log[Len(log)] = End /\ NoEnd(client[t])
        BY <3>1, <3>3 DEF NoEnd
      <4> QED
        BY <3>1, <3>3, <4>1, ByEnd
    <3>5. /\ client' \in [Transports -> Log] /\ client'[t] = log
          /\ \A u \in Transports : u # t => client'[u] = client[u]
      BY <3>2, <3>3, Logs
    <3>6. \A i \in DOMAIN log : log[i] = End
      BY <3>3, Domains
    <3>7. ASSUME NEW u \in Transports
          PROVE  /\ Grows(client[u], client'[u]) /\ PayloadsInLog(client'[u])
                 /\ \A i \in DOMAIN client'[u] :
                      /\ client'[u][i].kind = "start" => i \in DOMAIN client[u]
                      /\ client'[u][i].kind = "token" => client'[u][i].of = u
      <4>1. CASE u = t
        BY <3>1, <3>3, <3>4, <3>5, <3>6, <4>1
      <4>2. CASE u # t
        BY <2>1, <3>5, <4>2 DEF Gains
      <4> QED
        BY <4>1, <4>2
    <3> QED
      BY <3>5, <3>7 DEF Gains
  <2>3. CASE client' = client
    BY <2>1, <2>3
  <2> QED
    BY <1>1, <2>2, <2>3 DEF Send
<1>5. /\ PayloadsWhole' /\ SocketWhole' /\ UnreadIsFresh'
      /\ client' \in [Transports -> Seq(ProxyFrame)]
      /\ \A u \in Transports : \A i \in DOMAIN client'[u] :
           client'[u][i].kind = "token" => client'[u][i].of = u
    BY <1>1, <1>4, GainsKeep
<1>6. HandshakeTypeOK'
  <2>1. dialing' \subseteq Transports
    BY <1>1 DEF HandshakeInv, HandshakeTypeOK
  <2> QED
    BY <1>1, <1>3, <1>5, <2>1 DEF HandshakeInv, HandshakeTypeOK
<1>7. TokensToAsker'
    BY <1>1, <1>5 DEF HandshakeInv, TokensToAsker
<1>8. TransportsPlaced'
  <2>1. t \in dialing' => client'[t] = <<>>
    BY <1>1, <1>2
  <2>2. \A u \in dialing' : u = t \/ u \in dialing
    BY <1>1
  <2>3. \A u \in Transports : u # t =>
          (\/ mode'[u] = "new"
           \/ u \in dialing'
           \/ connection_rx' = <<u>>
           => client'[u] = <<>> /\ u \notin {primary', secondary'})
    BY <1>1, <1>3, <1>4, <2>2 DEF HandshakeInv, TransportsPlaced
  <2>4. (\/ mode'[t] = "new" \/ t \in dialing' \/ connection_rx' = <<t>>)
          => client'[t] = <<>> /\ t \notin {primary', secondary'}
    BY <1>1, <1>2, <1>3, <2>1
  <2>5. \A u \in dialing' : mode'[u] # "new" /\ connection_rx' # <<u>>
    BY <1>1, <1>2, <1>3, <2>2 DEF HandshakeInv, TransportsPlaced, HandshakeTypeOK
  <2>6. \A u \in Transports : connection_rx' = <<u>> => mode'[u] # "new"
    BY <1>1, <1>2, <1>3 DEF HandshakeInv, TransportsPlaced
  <2>7. /\ primary' # 0 => mode'[primary'] = "primary"
        /\ secondary' # 0 => mode'[secondary'] = "secondary"
    BY <1>1, <1>2, <1>3, TwoTransports DEF HandshakeInv, TransportsPlaced
  <2>8. \A u \in Transports :
          \/ mode'[u] = "new"
          \/ u \in dialing'
          \/ connection_rx' = <<u>>
          => client'[u] = <<>> /\ u \notin {primary', secondary'}
    BY <2>3, <2>4
  <2> QED
    BY <2>5, <2>6, <2>7, <2>8 DEF TransportsPlaced
<1>9. LogsFollowWrite'
  <2>1. /\ Active' = Active /\ Active = {primary', secondary'} \ ({0} \cup gone')
        /\ (Relaying' <=> Relaying) /\ (Connected' <=> Connected)
        /\ \A u \in Transports : (Receives(u))' <=> Receives(u)
    BY <1>1 DEF Active, Relaying, Connected, Receives, Sender
  <2>2. \A u \in Active : u \in Transports /\ client'[u] = client[u]
    BY <1>2, <1>4, Logs DEF Active
  <2>3. Relaying => (~Connected => current_write = 0 \/ discard_bytes)
    BY DEF HandshakeInv, LogsFollowWrite
  <2>4. ASSUME Relaying, NEW u \in Active
        PROVE  /\ \A i \in DOMAIN client'[u] : client'[u][i].kind # "end"
               /\ (Receives(u))' => Lacks(client'[u], socket'[1].of, current_write')
               /\ ~(Receives(u))' => Complete(client'[u])
    BY <1>1, <2>1, <2>2, <2>4, Logs DEF NoEnd
  <2> QED
    BY <1>1, <2>1, <2>3, <2>4 DEF LogsFollowWrite
<1> QED
    BY <1>5, <1>6, <1>7, <1>8, <1>9 DEF HandshakeInv

-----------------------------------------------------------------------------
(* The socket.                                                             *)

LEMMA ServiceWritesKeeps ==
    ASSUME HandshakeInv, NEW n \in Lengths, ServiceWrites(n)
    PROVE  HandshakeInv'
<1> USE DEF stateVars, writeVars, dialVars
<1>1. PICK k \in Nat \ {0} : k = payloads + 1 /\ k \in 0..MaxPayloads /\ n \in Nat
    BY HandshakeAssumption DEF HandshakeInv, HandshakeTypeOK, ServiceWrites
<1>2. PICK L \in Nat : L = Len(socket) /\ socket \in Log /\ DOMAIN socket = 1 .. L
    BY Logs, Domains
<1> DEFINE bytes == [i \in 1..n |-> Byte(k)]
           mid == Append(socket, Start(k, n))
<1>3. /\ Start(k, n) \in ProxyFrame /\ Start(k, n).kind = "start" /\ Start(k, n).of = k
      /\ Start(k, n).len = n /\ Byte(k) \in ProxyFrame /\ Byte(k).kind = "byte"
    BY <1>1, FrameKinds
<1>4. /\ bytes \in Log /\ Len(bytes) = n /\ \A i \in 1..n : bytes[i] = Byte(k)
    BY <1>1, <1>3 DEF Log
<1>5. /\ mid \in Log /\ Len(mid) = L + 1 /\ mid[L + 1] = Start(k, n)
      /\ \A i \in 1..L : mid[i] = socket[i]
      /\ mid = socket \o <<Start(k, n)>>
    BY <1>2, <1>3, LogAppend
<1>6. socket' = mid \o bytes /\ payloads' = k
    BY <1>1, <1>5 DEF ServiceWrites
<1> HIDE DEF bytes, mid
<1>7. /\ socket' \in Log /\ Len(socket') = L + 1 + n
      /\ \A i \in 1..L : socket'[i] = socket[i]
      /\ socket'[L + 1] = Start(k, n)
      /\ \A i \in L + 2..L + 1 + n : socket'[i] = Byte(k)
  <2>1. /\ socket' \in Log /\ Len(socket') = L + 1 + n /\ Grows(mid, socket')
        /\ \A i \in L + 2 .. L + 1 + n : socket'[i] = bytes[i - (L + 1)]
    <3>1. /\ socket' \in Log /\ Len(socket') = Len(mid) + Len(bytes) /\ Grows(mid, socket')
          /\ \A i \in Len(mid) + 1 .. Len(mid) + Len(bytes) : socket'[i] = bytes[i - Len(mid)]
      <4>1. mid \in Log /\ bytes \in Log
        BY <1>4, <1>5
      <4>2. /\ mid \o bytes \in Log /\ Len(mid \o bytes) = Len(mid) + Len(bytes)
            /\ Grows(mid, mid \o bytes)
        BY <4>1, LogConcat
      <4>3. \A i \in Len(mid) + 1 .. Len(mid) + Len(bytes) :
              (mid \o bytes)[i] = bytes[i - Len(mid)]
        BY <4>1, LogConcat
      <4> QED
        BY <1>6, <4>2, <4>3
    <3>2. /\ Len(mid) + 1 = L + 2 /\ Len(mid) + Len(bytes) = L + 1 + n
      BY <1>1, <1>4, <1>5
    <3> QED
      BY <1>5, <3>1, <3>2
  <2>2. \A i \in 1 .. L + 1 : socket'[i] = mid[i]
    BY <1>5, <2>1, Domains DEF Grows
  <2>3. \A i \in L + 2 .. L + 1 + n : i - (L + 1) \in 1..n
    BY <1>1
  <2>4. \A i \in L + 2 .. L + 1 + n : socket'[i] = Byte(k)
    BY <1>4, <2>1, <2>3
  <2>5. /\ \A i \in 1 .. L : i \in 1 .. L + 1
        /\ L + 1 \in 1 .. L + 1
    OBVIOUS
  <2>6. (\A i \in 1 .. L : socket'[i] = socket[i]) /\ socket'[L + 1] = Start(k, n)
    BY <1>5, <2>2, <2>5
  <2> QED
    BY <2>1, <2>4, <2>6
<1>8. DOMAIN socket' = 1 .. L + 1 + n
    BY <1>7, Domains
<1>9. /\ current_write \in Nat /\ current_write <= L
      /\ UNCHANGED <<current_write, client, primary, secondary, gone, pc, discard_bytes,
                     is_primary_the_current_sender>>
    BY <1>2, TwoTransports DEF HandshakeInv, SocketWhole, ServiceWrites
<1>10. \A i \in DOMAIN socket' : socket'[i].kind = "start" =>
          \/ i \in DOMAIN socket /\ socket'[i] = socket[i]
          \/ i = L + 1 /\ socket'[i] = Start(k, n)
  <2>1. \A i \in DOMAIN socket' : i \in 1..L \/ i = L + 1 \/ i \in L + 2..L + 1 + n
    BY <1>1, <1>8
  <2> QED
    BY <1>2, <1>3, <1>7, <2>1
<1>11. SocketWhole'
  <2>1. \A i \in 1..current_write : socket'[i] = Byte(socket'[1].of)
    <3>1. \A i \in 1..current_write : i \in 1..L /\ 1 \in 1..L
      BY <1>9
    <3> QED
      BY <1>7, <3>1 DEF HandshakeInv, SocketWhole
  <2>2. socket'[current_write + 1].kind = "start"
    <3>1. CASE current_write < L
      BY <1>2, <1>7, <1>9, <3>1 DEF HandshakeInv, SocketWhole
    <3>2. CASE current_write = L
      BY <1>3, <1>7, <3>2
    <3> QED
      BY <1>9, <3>1, <3>2
  <2>3. ASSUME NEW i \in DOMAIN socket', socket'[i].kind = "start"
        PROVE  /\ i + socket'[i].len <= Len(socket')
               /\ \A j \in i + 1..i + socket'[i].len : socket'[j] = Byte(socket'[i].of)
               /\ i + socket'[i].len < Len(socket') =>
                    socket'[i + socket'[i].len + 1].kind = "start"
    <3>1. CASE i \in DOMAIN socket /\ socket'[i] = socket[i]
      <4>1. /\ i + socket[i].len <= L /\ socket[i].len \in Nat /\ i \in Nat
            /\ \A j \in i + 1..i + socket[i].len : socket[j] = Byte(socket[i].of)
            /\ i + socket[i].len < L => socket[i + socket[i].len + 1].kind = "start"
        BY <1>2, <2>3, <3>1, Domains DEF HandshakeInv, SocketWhole
      <4>2. PICK e \in Nat : e = i + socket[i].len
        BY <4>1
      <4>3. \A j \in i + 1..e : j \in 1..L
        BY <1>2, <3>1, <4>1, <4>2
      <4>4. socket'[e + 1].kind = "start"
        <5>1. CASE e < L
          <6>1. e + 1 \in 1..L
            BY <4>2, <5>1
          <6> QED
            BY <1>7, <4>1, <4>2, <5>1, <6>1
        <5>2. CASE e = L
          BY <1>3, <1>7, <5>2
        <5> QED
          BY <4>1, <4>2, <5>1, <5>2
      <4> QED
        BY <1>1, <1>7, <3>1, <4>1, <4>2, <4>3, <4>4, SMTT(20)
    <3>2. CASE i = L + 1 /\ socket'[i] = Start(k, n)
      BY <1>1, <1>3, <1>7, <3>2
    <3> QED
      BY <1>10, <2>3, <3>1, <3>2
  <2>4. current_write <= Len(socket')
    BY <1>1, <1>7, <1>9
  <2> QED
    BY <1>9, <2>1, <2>2, <2>3, <2>4 DEF SocketWhole
<1>12. UnreadIsFresh'
  <2>1. payloads \in Nat /\ payloads < k
    BY <1>1 DEF HandshakeInv, HandshakeTypeOK
  <2>2. \A i \in DOMAIN socket : socket[i].of \in Nat
    BY <1>2, Domains
  <2>3. \A t \in Transports : \A i \in DOMAIN client[t] : client[t][i].of \in Nat
    BY Logs, Domains
  <2>4. \A i \in DOMAIN socket' : socket'[i].kind = "start" => socket'[i].of <= k
    BY <1>3, <1>10, <2>1, <2>2 DEF HandshakeInv, UnreadIsFresh
  <2>5. \A i, j \in DOMAIN socket' :
          socket'[i].kind = "start" /\ socket'[j].kind = "start" /\ socket'[i].of = socket'[j].of
          => i = j
    BY <1>3, <1>10, <2>1, <2>2 DEF HandshakeInv, UnreadIsFresh
  <2>6. \A t \in Transports : \A i \in DOMAIN client[t] :
          client[t][i].kind = "start" =>
            /\ client[t][i].of <= k
            /\ \A j \in DOMAIN socket' :
                 socket'[j].kind = "start" => socket'[j].of # client[t][i].of
    BY <1>3, <1>10, <2>1, <2>3 DEF HandshakeInv, UnreadIsFresh
  <2> QED
    BY <1>6, <1>9, <2>4, <2>5, <2>6 DEF UnreadIsFresh
<1>13. HandshakeTypeOK'
    BY <1>1, <1>6, <1>7 DEF HandshakeInv, HandshakeTypeOK, ServiceWrites, Log
<1>14. TokensToAsker' /\ TransportsPlaced' /\ PayloadsWhole'
    BY DEF ServiceWrites, HandshakeInv, TokensToAsker, TransportsPlaced, PayloadsWhole
<1>15. LogsFollowWrite'
  <2>1. current_write > 0 => socket'[1] = socket[1]
    <3>1. current_write > 0 => 1 \in 1..L
      BY <1>9
    <3> QED
      BY <1>7, <3>1
  <2> QED
    BY <1>9, <2>1 DEF HandshakeInv, LogsFollowWrite, Relaying, Connected, Receives, Sender
<1> QED
    BY <1>11, <1>12, <1>13, <1>14, <1>15 DEF HandshakeInv

\* Reading one unit: a header when nothing is left of a payload, else a byte.
LEMMA ReadUnit ==
    ASSUME HandshakeInv, socket # <<>>, socket' = Tail(socket), payloads' = payloads,
           current_write' = IF current_write = 0 THEN Head(socket).len ELSE current_write - 1
    PROVE  /\ SocketWhole' /\ socket' \in Log /\ current_write' \in Nat
           /\ Head(socket) = socket[1] /\ socket[1] \in ProxyFrame /\ 1 \in DOMAIN socket
           /\ current_write = 0 => socket[1].kind = "start"
           /\ current_write # 0 => socket[1] = Byte(socket[1].of)
           /\ current_write' > 0 => socket'[1].of = socket[1].of
           /\ \A i \in DOMAIN socket' : i + 1 \in DOMAIN socket /\ socket'[i] = socket[i + 1]
<1>1. PICK L \in Nat \ {0} : L = Len(socket) /\ socket \in Log /\ DOMAIN socket = 1 .. L
    BY Logs, Domains, EmptySeq DEF Log
<1>2. /\ socket' \in Log /\ Len(socket') = L - 1 /\ Head(socket) = socket[1]
      /\ \A i \in 1 .. L - 1 : socket'[i] = socket[i + 1]
    BY <1>1 DEF Log
<1>3. /\ DOMAIN socket' = 1 .. L - 1 /\ socket[1] \in ProxyFrame /\ 1 \in DOMAIN socket
      /\ \A i \in DOMAIN socket : socket[i].len \in Nat /\ socket[i].of \in Nat
    BY <1>1, <1>2, Domains
<1>4. \A i \in DOMAIN socket' : i + 1 \in DOMAIN socket /\ socket'[i] = socket[i + 1]
    BY <1>1, <1>2, <1>3
<1>5. current_write \in Nat /\ current_write <= L
    BY <1>1, TwoTransports DEF HandshakeInv, SocketWhole
<1>6. ASSUME NEW i \in DOMAIN socket', socket'[i].kind = "start"
      PROVE  /\ i + socket'[i].len <= Len(socket')
             /\ \A j \in i + 1..i + socket'[i].len : socket'[j] = Byte(socket'[i].of)
             /\ i + socket'[i].len < Len(socket') =>
                  socket'[i + socket'[i].len + 1].kind = "start"
  <2>1. PICK m \in Nat : m = socket'[i].len /\ m = socket[i + 1].len /\ i \in 1 .. L - 1
    BY <1>3, <1>4
  <2>2. /\ i + 1 + m <= L
        /\ \A j \in i + 2..i + 1 + m : socket[j] = Byte(socket'[i].of)
        /\ i + 1 + m < L => socket[i + 1 + m + 1].kind = "start"
    <3>1. PICK k \in DOMAIN socket : k = i + 1 /\ socket[k] = socket'[i]
      BY <1>4
    <3>2. /\ k + m <= L
          /\ \A j \in k + 1..k + m : socket[j] = Byte(socket[k].of)
          /\ k + m < L => socket[k + m + 1].kind = "start"
      BY <1>1, <1>6, <2>1, <3>1 DEF HandshakeInv, SocketWhole
    <3>3. k + 1 = i + 2
      BY <2>1, <3>1
    <3> QED
      BY <3>1, <3>2, <3>3
  <2>3. i + m <= L - 1
    BY <2>1, <2>2
  <2>4. \A j \in i + 1..i + m : j \in 1 .. L - 1 /\ j + 1 \in i + 2..i + 1 + m
    BY <2>1, <2>3, SMTT(20)
  <2>5. i + m < L - 1 => /\ i + m + 1 \in 1 .. L - 1 /\ i + 1 + m < L
                         /\ i + m + 1 + 1 = i + 1 + m + 1
    <3>1. i \in Nat /\ i >= 1 /\ m \in Nat /\ L \in Nat
      BY <2>1
    <3>2. i + m + 1 + 1 = i + 1 + m + 1
      BY <3>1
    <3>3. ASSUME i + m < L - 1
          PROVE  i + m + 1 >= 1 /\ i + m + 1 <= L - 1 /\ i + m + 1 \in Int /\ i + 1 + m < L
      BY <3>1, <3>3
    <3>4. i + m < L - 1 => i + m + 1 \in 1 .. L - 1
      BY <3>1, <3>3
    <3> QED
      BY <3>2, <3>3, <3>4
  <2>6. i + m < L - 1 => socket'[i + m + 1].kind = "start"
    BY <1>2, <2>1, <2>2, <2>5
  <2>7. \A j \in i + 1..i + m : socket'[j] = Byte(socket'[i].of)
    BY <1>2, <2>2, <2>4
  <2> QED
    BY <1>2, <2>1, <2>3, <2>6, <2>7
<1>7. CASE current_write = 0
  <2>1. PICK n \in Nat : n = socket[1].len /\ current_write' = n
    BY <1>2, <1>3, <1>7
  <2>2. socket[1].kind = "start"
    BY <1>1, <1>7 DEF HandshakeInv, SocketWhole
  <2>3. /\ 1 + n <= L /\ \A j \in 2..1 + n : socket[j] = Byte(socket[1].of)
        /\ 1 + n < L => socket[1 + n + 1].kind = "start"
    BY <1>1, <1>3, <2>1, <2>2, SMTT(20) DEF HandshakeInv, SocketWhole
  <2>4. \A i \in 1..n : i \in 1 .. L - 1 /\ i + 1 \in 2..1 + n
    BY <2>1, <2>3
  <2>5. \A i \in 1..n : socket'[i] = Byte(socket[1].of)
    BY <1>2, <2>3, <2>4
  <2>6. n > 0 => socket'[1].of = socket[1].of
    <3>1. Byte(socket[1].of).of = socket[1].of
      BY <1>3, FrameKinds
    <3>2. n > 0 => 1 \in 1..n
      BY <2>1
    <3> QED
      BY <2>5, <3>1, <3>2
  <2>7. n < L - 1 => socket'[n + 1].kind = "start"
    <3>1. n < L - 1 => n + 1 \in 1 .. L - 1 /\ n + 1 + 1 = 1 + n + 1 /\ 1 + n < L
      BY <2>1
    <3> QED
      BY <1>2, <2>3, <3>1
  <2>8. \A i \in 1..n : n > 0
    BY <2>1
  <2>9. n <= L - 1
    BY <2>1, <2>3
  <2>10. SocketWhole'
    BY <1>2, <1>6, <2>1, <2>5, <2>6, <2>7, <2>8, <2>9 DEF SocketWhole
  <2> QED
    BY <1>2, <1>3, <1>4, <1>7, <2>1, <2>2, <2>6, <2>10
<1>8. CASE current_write # 0
  <2>1. PICK n \in Nat : n = current_write - 1 /\ current_write' = n /\ current_write = n + 1
    BY <1>5, <1>8
  <2>2. /\ \A i \in 1..n + 1 : socket[i] = Byte(socket[1].of)
        /\ n + 1 < L => socket[n + 1 + 1].kind = "start"
    BY <1>1, <2>1 DEF HandshakeInv, SocketWhole
  <2>3. n <= L - 1
    BY <1>5, <2>1
  <2>4. \A i \in 1..n : i \in 1 .. L - 1 /\ i + 1 \in 1..n + 1 /\ n > 0
    BY <2>1, <2>3
  <2>5. \A i \in 1..n : socket'[i] = Byte(socket[1].of)
    BY <1>2, <2>2, <2>4
  <2>6. n > 0 => socket'[1].of = socket[1].of
    <3>1. Byte(socket[1].of).of = socket[1].of
      BY <1>3, FrameKinds
    <3>2. n > 0 => 1 \in 1..n
      BY <2>1
    <3> QED
      BY <2>5, <3>1, <3>2
  <2>7. n < L - 1 => socket'[n + 1].kind = "start"
    <3>1. n < L - 1 => n + 1 \in 1 .. L - 1 /\ n + 1 < L
      BY <2>1
    <3> QED
      BY <1>2, <2>2, <3>1
  <2>8. SocketWhole'
    BY <1>2, <1>6, <2>1, <2>3, <2>4, <2>5, <2>6, <2>7 DEF SocketWhole
  <2>9. socket[1] = Byte(socket[1].of)
    <3>1. 1 \in 1..n + 1
      BY <2>1
    <3> QED
      BY <2>2, <3>1
  <2> QED
    BY <1>2, <1>3, <1>4, <1>8, <2>1, <2>6, <2>8, <2>9
<1> QED
    BY <1>7, <1>8

\* No unread payload has been started after a unit was read, if nothing but what
\* was read was started.
LEMMA ReadFresh ==
    ASSUME HandshakeInv, payloads' = payloads,
           1 \in DOMAIN socket,
           \A i \in DOMAIN socket' : i + 1 \in DOMAIN socket /\ socket'[i] = socket[i + 1],
           DOMAIN socket' \subseteq Nat \ {0},
           \A t \in Transports : \A i \in DOMAIN client'[t] :
             client'[t][i].kind = "start" =>
               \/ i \in DOMAIN client[t] /\ client'[t][i] = client[t][i]
               \/ client'[t][i] = socket[1]
    PROVE  UnreadIsFresh'
<1>1. \A i \in DOMAIN socket' : socket'[i].kind = "start" => socket'[i].of <= payloads
    BY DEF HandshakeInv, UnreadIsFresh
<1>2. \A i, j \in DOMAIN socket' :
        socket'[i].kind = "start" /\ socket'[j].kind = "start" /\ socket'[i].of = socket'[j].of
        => i = j
  <2>1. \A i, j \in DOMAIN socket' : i + 1 = j + 1 => i = j
    OBVIOUS
  <2> QED
    BY <2>1 DEF HandshakeInv, UnreadIsFresh
<1>3. \A j \in DOMAIN socket' : j + 1 # 1
    OBVIOUS
<1>4. \A t \in Transports : \A i \in DOMAIN client'[t] :
        client'[t][i].kind = "start" =>
          /\ client'[t][i].of <= payloads
          /\ \A j \in DOMAIN socket' :
               socket'[j].kind = "start" => socket'[j].of # client'[t][i].of
    BY <1>3 DEF HandshakeInv, UnreadIsFresh
<1> QED
    BY <1>1, <1>2, <1>4 DEF UnreadIsFresh

LEMMA ReadByteKeeps ==
    ASSUME HandshakeInv, ReadByte \/ WriteFails
    PROVE  HandshakeInv'
<1> USE DEF dialVars
<1>1. /\ pc = "select" /\ pc' = "select" /\ Connected /\ socket # <<>> /\ current_write > 0
      /\ socket' = Tail(socket) /\ current_write' = current_write - 1
      /\ UNCHANGED <<asker, is_primary_the_current_sender, payloads, service_up, dialVars, gone,
                     client_frames>>
    BY DEF ReadByte, WriteFails, stateVars
<1>2. current_write \in Nat \ {0} /\ Relaying
    BY <1>1, TwoTransports DEF Relaying
<1>3. /\ SocketWhole' /\ socket' \in Log /\ current_write' \in Nat
      /\ Head(socket) = socket[1] /\ socket[1] \in ProxyFrame /\ 1 \in DOMAIN socket
      /\ socket[1] = Byte(socket[1].of)
      /\ current_write' > 0 => socket'[1].of = socket[1].of
      /\ \A i \in DOMAIN socket' : i + 1 \in DOMAIN socket /\ socket'[i] = socket[i + 1]
    BY <1>1, <1>2, ReadUnit
<1>4. DOMAIN socket' \subseteq Nat \ {0} /\ socket[1].of \in Nat /\ socket[1].kind = "byte"
    BY <1>3, Domains, FrameKinds
<1>5. Sender \in {primary, secondary} /\ Sender # 0 /\ Sender \in Transports
    BY <1>1, TwoTransports DEF Sender, Connected
<1>6. CASE client' = client
  <2>1. /\ primary' \in {0, primary} /\ secondary' \in {0, secondary}
        /\ discard_bytes' \in BOOLEAN
        /\ \/ queued_primary_response' = <<>>
           \/ queued_primary_response' = queued_primary_response /\ primary' = primary
        /\ ReadByte => discard_bytes' = discard_bytes /\ primary' = primary /\ secondary' = secondary
        /\ ~ReadByte => discard_bytes' = TRUE
    <3>1. CASE ReadByte
      BY <3>1, TwoTransports DEF ReadByte, stateVars
    <3>2. CASE ~ReadByte
      <4>1. WriteFails
        BY <3>2
      <4> QED
        BY <3>2, <4>1, <1>5, TwoTransports DEF WriteFails
    <3> QED
      BY <3>1, <3>2
  <2>2. UnreadIsFresh'
    BY <1>1, <1>3, <1>4, <1>6, ReadFresh
  <2>3. PayloadsWhole'
    BY <1>6 DEF HandshakeInv, PayloadsWhole
  <2>4. TokensToAsker'
    BY <1>1, <1>6, <2>1 DEF HandshakeInv, TokensToAsker
  <2>5. TransportsPlaced'
    BY <1>1, <1>6, <2>1, FrameKinds DEF HandshakeInv, TransportsPlaced
  <2>6. HandshakeTypeOK'
    <3>1. queued_primary_response' \in Seq(Transports)
      BY <2>1, Queue, EmptySeq
    <3>2. primary' \in Transports \cup {0} /\ secondary' \in Transports \cup {0}
      BY <2>1, TwoTransports
    <3> QED
      BY <1>1, <1>3, <1>6, <2>1, <3>1, <3>2 DEF HandshakeInv, HandshakeTypeOK, Log
  <2>7. LogsFollowWrite'
    <3>1. Active' \subseteq Active /\ Active' = {primary', secondary'} \ ({0} \cup gone')
      BY <1>1, <2>1 DEF Active
    <3>2. \A t \in Active' : ~Receives(t) /\ ~(Receives(t))'
      <4>1. CASE ReadByte /\ discard_bytes
        BY <2>1, <4>1 DEF Receives
      <4>2. CASE ReadByte /\ ~discard_bytes
        <5>1. Sender \in gone
          <6>1. SUFFICES ASSUME Sender \notin gone
                         PROVE  FALSE
            OBVIOUS
          <6>2. client' = [client EXCEPT ![Sender] = client[Sender] \o <<Head(socket)>>]
            BY <4>2, <6>1 DEF ReadByte, Send
          <6>3. client'[Sender] = client[Sender] \o <<socket[1]>> /\ client[Sender] \in Log
            BY <1>3, <1>5, <6>2, Logs
          <6>4. /\ client[Sender] \o <<socket[1]>> = Append(client[Sender], socket[1])
                /\ Len(Append(client[Sender], socket[1])) = Len(client[Sender]) + 1
                /\ Len(client[Sender]) \in Nat
            BY <1>3, <6>3, LogAppend, Domains
          <6> QED
            BY <1>6, <6>3, <6>4
        <5>2. Sender' = Sender
          BY <1>1, <2>1, <4>2 DEF Sender
        <5> QED
          BY <3>1, <5>1, <5>2 DEF Receives, Active
      <4>3. CASE ~ReadByte
        <5>1. Sender \in gone
          BY <4>3 DEF WriteFails
        <5> QED
          BY <2>1, <3>1, <4>3, <5>1 DEF Receives, Active
      <4> QED
        BY <4>1, <4>2, <4>3
    <3>3. ~Connected' => discard_bytes'
      BY <1>1, <2>1 DEF Connected
    <3>4. \A t \in Active' : /\ \A i \in DOMAIN client'[t] : client'[t][i].kind # "end"
                             /\ Complete(client'[t])
      BY <1>2, <1>6, <3>1, <3>2, Logs DEF NoEnd
    <3> QED
      BY <3>1, <3>2, <3>3, <3>4 DEF LogsFollowWrite
  <2> QED
    BY <1>3, <2>2, <2>3, <2>4, <2>5, <2>6, <2>7 DEF HandshakeInv
<1>7. CASE client' # client
  <2>1. PICK t \in Transports : t = Sender
    BY <1>5
  <2> DEFINE log == Append(client[t], socket[1])
  <2>2. /\ ReadByte /\ ~discard_bytes /\ t \notin gone /\ t \in Active /\ Receives(t)
        /\ client' = [client EXCEPT ![t] = client[t] \o <<socket[1]>>]
    <3>1. ReadByte /\ ~discard_bytes /\ t \notin gone
      BY <1>7, <2>1 DEF ReadByte, WriteFails, Send
    <3>2. client' = [client EXCEPT ![t] = client[t] \o <<socket[1]>>]
      BY <1>3, <2>1, <3>1 DEF ReadByte, Send
    <3>3. t \in Active /\ Receives(t)
      BY <1>1, <1>5, <2>1, <3>1 DEF Active, Receives
    <3> QED
      BY <3>1, <3>2, <3>3
  <2>3. /\ UNCHANGED <<primary, secondary, discard_bytes, queued_primary_response>>
    BY <2>2 DEF ReadByte, stateVars
  <2>4. /\ client[t] \in Log /\ log \in Log /\ Len(log) = Len(client[t]) + 1
        /\ log[Len(log)] = socket[1] /\ Grows(client[t], log)
        /\ client[t] \o <<socket[1]>> = log
        /\ Len(client[t]) \in Nat /\ DOMAIN client[t] = 1 .. Len(client[t])
        /\ DOMAIN log = 1 .. Len(client[t]) + 1
    <3>1. /\ client[t] \in Log /\ Len(client[t]) \in Nat /\ DOMAIN client[t] = 1 .. Len(client[t])
      BY Logs
    <3>2. /\ log \in Log /\ Len(log) = Len(client[t]) + 1
          /\ log[Len(client[t]) + 1] = socket[1] /\ Grows(client[t], log)
          /\ client[t] \o <<socket[1]>> = log
      BY <1>3, <3>1, LogAppend
    <3>3. DOMAIN log = 1 .. Len(log)
      BY <3>2, Domains
    <3> QED
      BY <3>1, <3>2, <3>3
  <2> HIDE DEF log
  <2>5. /\ client' \in [Transports -> Log] /\ client'[t] = log
        /\ \A u \in Transports : u # t => client'[u] = client[u]
    BY <2>2, <2>4, Logs
  <2>6. /\ PayloadsInLog(log) /\ NoEnd(log)
        /\ Lacks(log, socket[1].of, current_write - 1)
        /\ current_write = 1 => Complete(log)
    <3>1. /\ Lacks(client[t], socket[1].of, current_write)
          /\ PayloadsInLog(client[t]) /\ NoEnd(client[t])
      BY <1>2, <2>2, Logs
    <3> QED
      BY <1>2, <1>3, <1>4, <2>4, <3>1, ByByte, SMTT(20)
  <2>7. \A u \in Transports : \A i \in DOMAIN client'[u] :
          \/ i \in DOMAIN client[u] /\ client'[u][i] = client[u][i]
          \/ client'[u][i].kind = "byte"
    <3>1. \A i \in DOMAIN log : \/ i \in DOMAIN client[t] /\ log[i] = client[t][i]
                               \/ log[i] = socket[1]
      BY <2>4 DEF Grows
    <3> QED
      BY <1>4, <2>5, <3>1
  <2>8. UnreadIsFresh'
    BY <1>1, <1>3, <1>4, <2>7, ReadFresh
  <2>9. PayloadsWhole'
    <3>1. \A u \in Transports : PayloadsInLog(client'[u])
      BY <2>5, <2>6, Logs
    <3>2. \A u, v \in Transports : \A i \in DOMAIN client'[u], j \in DOMAIN client'[v] :
            /\ client'[u][i].kind = "start" /\ client'[v][j].kind = "start"
            /\ client'[u][i].of = client'[v][j].of
            => u = v /\ i = j
      BY <2>7 DEF HandshakeInv, PayloadsWhole
    <3> QED
      BY <3>1, <3>2 DEF PayloadsWhole
  <2>10. TokensToAsker'
    BY <1>1, <2>3, <2>7 DEF HandshakeInv, TokensToAsker
  <2>11. TransportsPlaced'
    <3>1. t \in {primary, secondary}
      BY <1>5, <2>1
    <3> QED
      BY <1>1, <2>3, <2>5, <3>1 DEF HandshakeInv, TransportsPlaced
  <2>12. HandshakeTypeOK'
    BY <1>1, <1>3, <2>3, <2>5 DEF HandshakeInv, HandshakeTypeOK, Log
  <2>13. LogsFollowWrite'
    <3>1. /\ Active' = Active /\ Active = {primary', secondary'} \ ({0} \cup gone')
          /\ Sender' = Sender /\ Connected'
      BY <1>1, <2>3 DEF Active, Sender, Connected
    <3>2. ASSUME NEW u \in Active
          PROVE  /\ \A i \in DOMAIN client'[u] : client'[u][i].kind # "end"
                 /\ (Receives(u))' => Lacks(client'[u], socket'[1].of, current_write')
                 /\ ~(Receives(u))' => Complete(client'[u])
      <4>1. CASE u = t
        <5>1. (Receives(u))' <=> current_write' > 0
          BY <2>1, <2>2, <2>3, <3>1, <4>1 DEF Receives
        <5>2. ~(current_write' > 0) => current_write = 1
          BY <1>1, <1>2
        <5> QED
          BY <1>1, <1>3, <2>5, <2>6, <4>1, <5>1, <5>2 DEF NoEnd
      <4>2. CASE u # t
        <5>1. ~Receives(u) /\ ~(Receives(u))' /\ u \in Transports
          BY <2>1, <3>1, <4>2, Logs DEF Receives
        <5> QED
          BY <1>2, <2>5, <4>2, <5>1, Logs DEF NoEnd
      <4> QED
        BY <4>1, <4>2
    <3> QED
      BY <3>1, <3>2 DEF LogsFollowWrite
  <2> QED
    BY <1>3, <2>8, <2>9, <2>10, <2>11, <2>12, <2>13 DEF HandshakeInv
<1> QED
    BY <1>6, <1>7

\* Nobody is in the middle of a payload when the next one starts.
LEMMA ReadHeaderKeeps ==
    ASSUME HandshakeInv, ReadHeader
    PROVE  HandshakeInv'
<1> USE DEF dialVars
<1> DEFINE base == IF primary = 0 THEN client ELSE Flushed(queued_primary_response)
           target == IF secondary # 0 THEN secondary ELSE primary
<1>1. /\ pc = "select" /\ pc' = "select" /\ Connected /\ socket # <<>> /\ current_write = 0
      /\ socket' = Tail(socket) /\ current_write' = Head(socket).len
      /\ discard_bytes' = FALSE /\ is_primary_the_current_sender' = FALSE
      /\ client' = Send(base, target, <<Head(socket)>>)
      /\ queued_primary_response' = IF primary = 0 THEN queued_primary_response ELSE <<>>
      /\ UNCHANGED <<asker, primary, secondary, payloads, service_up, dialVars, gone,
                     client_frames>>
    BY DEF ReadHeader, stateVars
<1>2. /\ SocketWhole' /\ socket' \in Log /\ current_write' \in Nat
      /\ Head(socket) = socket[1] /\ socket[1] \in ProxyFrame /\ 1 \in DOMAIN socket
      /\ socket[1].kind = "start"
      /\ current_write' > 0 => socket'[1].of = socket[1].of
      /\ \A i \in DOMAIN socket' : i + 1 \in DOMAIN socket /\ socket'[i] = socket[i + 1]
    BY <1>1, ReadUnit
<1>3. DOMAIN socket' \subseteq Nat \ {0}
    BY <1>2, Domains
<1>4. target \in Transports /\ target \in {primary, secondary}
    BY <1>1, TwoTransports DEF Connected
<1>5. /\ Gains(base)
      /\ \A t \in Transports : t # primary => base[t] = client[t]
      /\ \A t \in Active : NoEnd(base[t]) /\ Complete(base[t])
  <2>1. Relaying /\ \A t \in Active : t \in Transports /\ ~Receives(t)
    BY <1>1, Logs DEF Relaying, Receives
  <2>2. CASE primary = 0
    <3>1. base = client
      BY <2>2
    <3>2. Gains(client)
      BY Logs DEF Gains, Grows
    <3> QED
      BY <2>1, <3>1, <3>2, Logs
  <2>3. CASE primary # 0
    <3>1. base = Flushed(queued_primary_response)
      BY <2>3
    <3>2. Flushes
      BY <1>1 DEF Flushes
    <3>3. /\ Gains(base)
          /\ \A t \in Transports : t # primary => base[t] = client[t]
          /\ primary \in Active => NoEnd(base[primary]) /\ Complete(base[primary])
      BY <2>1, <2>3, <3>1, <3>2, Queue, FlushGains
    <3>4. \A t \in Active : t # primary => NoEnd(base[t]) /\ Complete(base[t])
      BY <2>1, <3>3, Logs
    <3> QED
      BY <3>3, <3>4
  <2> QED
    BY <2>2, <2>3
<1> HIDE DEF base
<1>6. PICK r \in Transports : r = target
    BY <1>4
<1> HIDE DEF target
<1>7. /\ base \in [Transports -> Log]
      /\ \A t \in Transports :
           /\ base[t] \in Log /\ PayloadsInLog(base[t]) /\ Grows(client[t], base[t])
           /\ Len(base[t]) \in Nat /\ DOMAIN base[t] = 1 .. Len(base[t])
           /\ \A i \in DOMAIN base[t] :
                /\ base[t][i].kind = "start" => i \in DOMAIN client[t] /\ base[t][i] = client[t][i]
                /\ base[t][i].kind = "token" => base[t][i].of = t
    BY <1>5, Domains DEF Gains, Grows
\* What is new in the logs is the start, at the end of the log of the receiver.
<1>8. /\ client' \in [Transports -> Log]
      /\ \A t \in Transports :
           /\ PayloadsInLog(client'[t])
           /\ \A i \in DOMAIN client'[t] :
                \/ i \in DOMAIN base[t] /\ client'[t][i] = base[t][i]
                \/ client'[t][i] = socket[1] /\ t = r /\ i = Len(base[r]) + 1
           /\ t # r => client'[t] = base[t]
      /\ r \in Active => /\ NoEnd(client'[r])
                         /\ Lacks(client'[r], socket[1].of, socket[1].len)
                         /\ socket[1].len = 0 => Complete(client'[r])
  <2>1. CASE r \in gone
    <3>1. client' = base
      BY <1>1, <1>6, <2>1 DEF Send
    <3> QED
      BY <1>7, <2>1, <3>1 DEF Active
  <2>2. CASE r \notin gone
    <3> DEFINE log == Append(base[r], socket[1])
    <3>1. r \in Active
      BY <1>4, <1>6, <2>2, FrameKinds DEF Active
    <3>2. client' = [base EXCEPT ![r] = base[r] \o <<socket[1]>>]
      BY <1>1, <1>2, <1>6, <2>2 DEF Send
    <3>3. /\ log \in Log /\ Len(log) = Len(base[r]) + 1 /\ log[Len(base[r]) + 1] = socket[1]
          /\ Grows(base[r], log) /\ base[r] \o <<socket[1]>> = log
      BY <1>2, <1>7, LogAppend
    <3>4. log[Len(log)] = socket[1] /\ DOMAIN log = 1 .. Len(base[r]) + 1
      BY <3>3, Domains
    <3> HIDE DEF log
    <3>5. /\ client' \in [Transports -> Log] /\ client'[r] = log
          /\ \A t \in Transports : t # r => client'[t] = base[t]
      BY <1>7, <3>2, <3>3
    <3>6. /\ PayloadsInLog(log) /\ NoEnd(log) /\ Lacks(log, socket[1].of, socket[1].len)
          /\ socket[1].len = 0 => Complete(log)
      <4>1. base[r] \in Log /\ PayloadsInLog(base[r]) /\ NoEnd(base[r]) /\ Complete(base[r])
        BY <1>5, <1>7, <3>1
      <4>2. log[Len(log)].kind = "start"
        BY <1>2, <3>4
      <4> QED
        BY <3>3, <3>4, <4>1, <4>2, ByStart
    <3>7. \A i \in DOMAIN log : \/ i \in DOMAIN base[r] /\ log[i] = base[r][i]
                                \/ log[i] = socket[1] /\ i = Len(base[r]) + 1
      BY <1>7, <3>3, <3>4 DEF Grows
    <3> QED
      BY <1>7, <3>5, <3>6, <3>7
  <2> QED
    BY <2>1, <2>2
<1>9. \A t \in Transports : \A i \in DOMAIN client'[t] :
        client'[t][i].kind = "start" =>
          \/ i \in DOMAIN client[t] /\ client'[t][i] = client[t][i]
          \/ client'[t][i] = socket[1] /\ t = r /\ i = Len(base[r]) + 1
    BY <1>7, <1>8
<1>10. UnreadIsFresh'
    BY <1>1, <1>2, <1>3, <1>9, ReadFresh
<1>11. PayloadsWhole'
  <2>1. ASSUME NEW t \in Transports, NEW u \in Transports,
               NEW i \in DOMAIN client'[t], NEW j \in DOMAIN client'[u],
               client'[t][i].kind = "start", client'[u][j].kind = "start",
               client'[t][i].of = client'[u][j].of
        PROVE  t = u /\ i = j
    <3>1. \A v \in Transports : \A l \in DOMAIN client[v] :
            client[v][l].kind = "start" => client[v][l].of # socket[1].of
      BY <1>2 DEF HandshakeInv, UnreadIsFresh
    <3>2. /\ \/ i \in DOMAIN client[t] /\ client'[t][i] = client[t][i]
             \/ client'[t][i] = socket[1] /\ t = r /\ i = Len(base[r]) + 1
          /\ \/ j \in DOMAIN client[u] /\ client'[u][j] = client[u][j]
             \/ client'[u][j] = socket[1] /\ u = r /\ j = Len(base[r]) + 1
      BY <1>9, <2>1
    <3> QED
      BY <2>1, <3>1, <3>2 DEF HandshakeInv, PayloadsWhole
  <2> QED
    BY <1>8, <2>1 DEF PayloadsWhole
<1>12. /\ queued_primary_response' \in Seq(Transports)
       /\ \A i \in DOMAIN queued_primary_response' : queued_primary_response'[i] = primary
  <2>1. queued_primary_response' \in {queued_primary_response, <<>>}
    BY <1>1
  <2>2. <<>> \in Seq(Transports) /\ DOMAIN <<>> = {}
    OBVIOUS
  <2> QED
    BY <2>1, <2>2, Queue
<1>13. HandshakeTypeOK'
    BY <1>1, <1>2, <1>8, <1>12 DEF HandshakeInv, HandshakeTypeOK, Log
<1>14. TokensToAsker'
  <2>1. \A t \in Transports : \A i \in DOMAIN client'[t] :
          client'[t][i].kind = "token" => client'[t][i].of = t
    BY <1>2, <1>7, <1>8
  <2> QED
    BY <1>1, <1>12, <2>1 DEF TokensToAsker
<1>15. TransportsPlaced'
  <2>1. \A t \in Transports : t \notin {primary, secondary} => client'[t] = client[t]
    BY <1>4, <1>5, <1>6, <1>8
  <2> QED
    BY <1>1, <2>1 DEF HandshakeInv, TransportsPlaced
<1>16. LogsFollowWrite'
  <2>1. /\ Active' = Active /\ Active = {primary', secondary'} \ ({0} \cup gone')
        /\ Sender' = r /\ Connected'
    BY <1>1, <1>6 DEF Active, Sender, Connected, target
  <2>2. ASSUME NEW u \in Active
        PROVE  /\ \A i \in DOMAIN client'[u] : client'[u][i].kind # "end"
               /\ (Receives(u))' => Lacks(client'[u], socket'[1].of, current_write')
               /\ ~(Receives(u))' => Complete(client'[u])
    <3>1. u \in Transports
      BY Logs
    <3>2. CASE u = r
      <4>1. (Receives(u))' <=> current_write' > 0
        BY <1>1, <2>1, <3>2 DEF Receives
      <4>2. ~(current_write' > 0) => socket[1].len = 0
        BY <1>1, <1>2
      <4> QED
        BY <1>1, <1>2, <1>8, <2>2, <3>2, <4>1, <4>2 DEF NoEnd
    <3>3. CASE u # r
      BY <1>5, <1>8, <2>1, <2>2, <3>1, <3>3 DEF NoEnd, Receives
    <3> QED
      BY <3>2, <3>3
  <2> QED
    BY <2>1, <2>2 DEF LogsFollowWrite
<1> QED
    BY <1>2, <1>10, <1>11, <1>13, <1>14, <1>15, <1>16 DEF HandshakeInv

-----------------------------------------------------------------------------
LEMMA HandshakeInitHolds ==
    ASSUME HandshakeInit
    PROVE  HandshakeInv
<1> USE DEF HandshakeInit
<1>0. 1 \in Transports
    BY HandshakeAssumption DEF Transports
<1>e. /\ <<>> \in Seq(ProxyFrame) /\ <<>> \in Seq(Transports) /\ Len(<<>>) = 0
      /\ DOMAIN <<>> = {}
    OBVIOUS
<1>1. /\ 1 \in Transports /\ \A t \in Transports : client[t] = <<>> /\ DOMAIN client[t] = {}
      /\ <<>> \in Seq(ProxyFrame) /\ <<>> \in Seq(Transports) /\ Len(<<>>) = 0
      /\ DOMAIN socket = {} /\ DOMAIN queued_primary_response = {}
    BY <1>0, <1>e
<1>2. HandshakeTypeOK
  <2>1. /\ payloads \in 0 .. MaxPayloads /\ client_frames \in 0 .. MaxClientFrames
        /\ Len(connection_rx) <= 1
    BY <1>e, HandshakeAssumption
  <2>2. mode \in [Transports -> {"new", "primary", "secondary"}]
    OBVIOUS
  <2>3. client \in [Transports -> Seq(ProxyFrame)]
    BY <1>e
  <2> QED
    BY <1>0, <1>e, <2>1, <2>2, <2>3 DEF HandshakeTypeOK
<1>3. PayloadsWhole /\ TokensToAsker /\ UnreadIsFresh
    BY <1>1 DEF PayloadsWhole, PayloadsInLog, TokensToAsker, UnreadIsFresh
<1>4. SocketWhole
    BY <1>1 DEF SocketWhole
<1>5. TransportsPlaced
    BY <1>1, FrameKinds DEF TransportsPlaced
<1>6. LogsFollowWrite
    BY <1>1 DEF LogsFollowWrite, Receives, Complete, Connected
<1> QED
    BY <1>2, <1>3, <1>4, <1>5, <1>6 DEF HandshakeInv

LEMMA HandshakeStutterHolds ==
    ASSUME HandshakeInv, UNCHANGED handshakeVars
    PROVE  HandshakeInv'
<1> USE DEF handshakeVars, stateVars, writeVars, serviceVars, dialVars
<1>1. HandshakeTypeOK'
    BY DEF HandshakeInv, HandshakeTypeOK
<1>2. TokensToAsker' /\ TransportsPlaced'
    BY DEF HandshakeInv, TokensToAsker, TransportsPlaced
<1>3. LogsFollowWrite'
    BY DEF HandshakeInv, LogsFollowWrite, Relaying, Connected, Receives, Sender
<1> QED
    BY <1>1, <1>2, <1>3, QuietParts DEF HandshakeInv

\* Every payload reaches one client, whole and in one piece unless the transport
\* ends, and every access token the primary that asked for it, whichever
\* transports join, leave or replace one another: for any number of them, for
\* payloads of any number and length and for every split into reads.
THEOREM HandshakeCorrect == HandshakeSpec => []HandshakeInv
<1>1. HandshakeInit => HandshakeInv
    BY HandshakeInitHolds
<1>2. HandshakeInv /\ [HandshakeNext]_handshakeVars => HandshakeInv'
    BY HandshakeStutterHolds, ServiceEndsKeeps, ExtendTokenKeeps, AcceptConnectionKeeps,
       ReadHeaderKeeps, ReadByteKeeps, ServiceEndedKeeps, NoConnectionTimeoutKeeps,
       CleanUpConnectionKeeps, ServiceWritesKeeps, RequestTokenKeeps, ClientLeavesKeeps,
       SendDialKeeps, ServicePayloadKeeps, WrongFrameKeeps, DialProxyKeeps
    DEF HandshakeNext
<1> QED
    BY <1>1, <1>2, PTL DEF HandshakeSpec
=============================================================================
