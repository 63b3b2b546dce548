------------------------------ MODULE Resolver ------------------------------
(***************************************************************************)
(* The resolver (core/resolver): records that a pointer resolves to a      *)
(* hash, from the gossip of other nodes and from this node's own origins,  *)
(* are stored in two column families that refer to each other.             *)
(*                                                                         *)
(* Abstractions: signatures verify or do not; a record is its pointer and  *)
(* its hash.  The database keeps what was put when the process stops.      *)
(***************************************************************************)
EXTENDS Naturals, Sequences, FiniteSets, SequencesExt

CONSTANTS OriginPointers, ContentHashes,
          NoRecord,
          MaxRecords,      \* bound on records received and published
          MaxResolverStops \* bound on stops of the process

ASSUME ResolverAssumption ==
    /\ NoRecord \notin OriginPointers \cup ContentHashes
    /\ MaxRecords \in Nat /\ MaxResolverStops \in Nat

\* store_mapping runs in the task that receives and in the one that publishes.
Writers == {"receive", "publish"}
Records == [pointer : OriginPointers, hash : ContentHashes]

VARIABLES b3_to_uri,   \* hash -> sequence of pointers
          uri_to_b3,   \* pointer -> hash
          storing,     \* writer -> the record it stores, the entry it read, its step
          overlapped,  \* hashes that both tasks stored for at the same time
          kept,        \* records whose store ended, alone
          records, resolver_stops

resolverVars == <<b3_to_uri, uri_to_b3, storing, overlapped, kept, records, resolver_stops>>

NotStoring == [step |-> "idle", record |-> NoRecord, entry |-> <<>>]

ResolverInit ==
    /\ b3_to_uri = [h \in ContentHashes |-> <<>>]
    /\ uri_to_b3 = [p \in OriginPointers |-> NoRecord]
    /\ storing = [w \in Writers |-> NotStoring]
    /\ overlapped = {} /\ kept = {}
    /\ records = 0 /\ resolver_stops = 0

Busy(w) == storing[w].step # "idle"

\* A record arrives and its signature verifies, or the origin fetcher publishes one.
StoreMapping(w, r) ==
    /\ ~Busy(w) /\ records < MaxRecords
    /\ records' = records + 1
    /\ storing' = [storing EXCEPT ![w] = [step |-> "read", record |-> r, entry |-> <<>>]]
    /\ overlapped' = IF \E v \in Writers \ {w} : Busy(v) /\ storing[v].record.hash = r.hash
                     THEN overlapped \cup {r.hash} ELSE overlapped
    /\ UNCHANGED <<b3_to_uri, uri_to_b3, kept, resolver_stops>>

\* Mutation: a pointer that is listed already is pushed again.
PushAlways(uris, p) == Append(uris, p)

Pushed(uris, p) == IF Contains(uris, p) THEN uris ELSE Append(uris, p)

\* Mutation: the pointer is stored before the list of its hash.
PointerFirst == <<"put_uri", "put_b3">>

Puts == <<"put_b3", "put_uri">>

ReadEntry(w) ==
    LET r == storing[w].record
    IN /\ storing[w].step = "read"
       /\ storing' = [storing EXCEPT ![w].entry = Pushed(b3_to_uri[r.hash], r.pointer),
                                     ![w].step = Puts[1]]
       /\ UNCHANGED <<b3_to_uri, uri_to_b3, overlapped, kept, records, resolver_stops>>

Put(w) ==
    LET r == storing[w].record
        step == storing[w].step
    IN /\ step \in ToSet(Puts)
       /\ b3_to_uri' = IF step = "put_b3" THEN [b3_to_uri EXCEPT ![r.hash] = storing[w].entry]
                       ELSE b3_to_uri
       /\ uri_to_b3' = IF step = "put_uri" THEN [uri_to_b3 EXCEPT ![r.pointer] = r.hash]
                       ELSE uri_to_b3
       /\ storing' = [storing EXCEPT ![w] = IF step = Puts[1] THEN [@ EXCEPT !.step = Puts[2]]
                                            ELSE NotStoring]
       /\ kept' = IF step = Puts[2] THEN kept \cup {r} ELSE kept
       /\ UNCHANGED <<overlapped, records, resolver_stops>>

\* The process stops between two puts; the database is what is left.
StopResolver ==
    /\ resolver_stops < MaxResolverStops
    /\ resolver_stops' = resolver_stops + 1
    /\ storing' = [w \in Writers |-> NotStoring]
    /\ UNCHANGED <<b3_to_uri, uri_to_b3, overlapped, kept, records>>

ResolverNext ==
    \/ \E w \in Writers, r \in Records : StoreMapping(w, r)
    \/ \E w \in Writers : ReadEntry(w) \/ Put(w)
    \/ StopResolver

ResolverSpec == ResolverInit /\ [][ResolverNext]_resolverVars

-----------------------------------------------------------------------------
ResolverTypeOK ==
    /\ b3_to_uri \in [ContentHashes -> Seq(OriginPointers)]
    /\ uri_to_b3 \in [OriginPointers -> ContentHashes \cup {NoRecord}]
    /\ storing \in [Writers -> {NotStoring} \cup
                                [step : {"read"} \cup ToSet(Puts), record : Records,
                                 entry : Seq(OriginPointers)]]
    /\ overlapped \subseteq ContentHashes /\ kept \subseteq Records

\* Two writers that store for one hash are noticed, and an entry that was read is what
\* its hash will have: all it has now and the pointer once, unless they are two.
StoresKeep ==
    \A w \in Writers :
        LET s == storing[w]
            r == s.record
        IN Busy(w) =>
             /\ \A v \in Writers \ {w} :
                  Busy(v) /\ storing[v].record.hash = r.hash => r.hash \in overlapped
             /\ s.step # "read" => IsInjective(s.entry) /\ Contains(s.entry, r.pointer)
             /\ r.hash \notin overlapped =>
                  /\ s.step = "put_b3" => ToSet(b3_to_uri[r.hash]) \subseteq ToSet(s.entry)
                  /\ s.step = "put_uri" => Contains(b3_to_uri[r.hash], r.pointer)

\* A pointer that resolves to a hash is one of its origins, whatever the process was
\* doing when it stopped; only two stores for one hash at the same time can lose it.
ResolvedHasOrigin ==
    \A p \in OriginPointers :
        \/ uri_to_b3[p] \in {NoRecord} \cup overlapped
        \/ Contains(b3_to_uri[uri_to_b3[p]], p)

\* A record whose store ended stays an origin of its hash, and is listed once.
OriginsKept ==
    \A h \in ContentHashes :
        /\ h \notin overlapped =>
             \A r \in kept : r.hash = h => Contains(b3_to_uri[h], r.pointer)
        /\ IsInjective(b3_to_uri[h])

\* The two column families of the resolver agree.
ResolverInv == ResolverTypeOK /\ StoresKeep /\ ResolvedHasOrigin /\ OriginsKept
=============================================================================
