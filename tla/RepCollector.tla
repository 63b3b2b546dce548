---------------------------- MODULE RepCollector ----------------------------
(***************************************************************************)
(* The reputation aggregator (core/rep-collector): components report what  *)
(* they saw of a peer, the aggregator keeps measurements of the peers it   *)
(* heard of last, and submits them before the epoch changes.               *)
(*                                                                         *)
(* Abstractions: of the measurements the optional ones (latency, hops) are *)
(* like interactions, both bandwidths are one and both byte counts are     *)
(* one.  A floating-point sum is a number, infinity or not a number; the   *)
(* local score is left to the summary it is normalised with.               *)
(***************************************************************************)
EXTENDS Integers, Sequences, FiniteSets, Bags, Functions, SequencesExt

CONSTANTS RepPeers,
          MAX_CAPACITY,        \* of the cache of peers
          MIN_NUM_PINGS,
          reporter_buffer_size,
          ChannelSize,         \* 2048
          MaxBandwidth,        \* above it verify refuses a measurement
          Weights,             \* of interactions, negative when unsatisfactory
          ByteCounts, Durations, \* bytes and milliseconds of transfers
          MaxReports           \* bound on reports

ASSUME RepAssumption ==
    /\ IsFiniteSet(RepPeers) /\ MAX_CAPACITY \in Nat \ {0}
    /\ MIN_NUM_PINGS \in Nat /\ reporter_buffer_size \in Nat \ {0}
    /\ ChannelSize \in Nat \ {0} /\ MaxBandwidth \in Nat
    /\ Weights \subseteq Int /\ ByteCounts \subseteq Nat /\ Durations \subseteq Nat /\ MaxReports \in Nat

VARIABLES made,      \* number of reports made
          sending,   \* reports whose task has not sent them
          batches,   \* the channel
          received,  \* the receiver's buffer
          handled,   \* number of reports handled
          recent,    \* the peers of the cache, most recently used first
          stores,    \* their measurements, new ones for a peer outside the cache
          summary,   \* the statistics, a bag of values each
          submitted, \* bytes in the transactions since the start, by peer
          bytes_seen \* bytes of the reports handled, by peer

collectorVars == <<made, sending, batches, received, handled, recent, stores, summary, submitted,
                   bytes_seen>>

NoneYet == [some |-> FALSE, n |-> 0]
Some(n) == [some |-> TRUE, n |-> n]

\* MeasurementStore::default.
NewStore == [interactions |-> NoneYet,
               bytes |-> 0,
               bandwidth |-> [kind |-> "num", sum |-> 0, count |-> 0],
               pings |-> 0, responded |-> 0]
EmptySummary == [interactions |-> EmptyBag, bytes |-> EmptyBag, bandwidth |-> EmptyBag]

RepInit ==
    /\ made = 0 /\ sending = {} /\ batches = <<>> /\ received = <<>> /\ handled = 0
    /\ recent = <<>> /\ stores = [p \in RepPeers |-> NewStore] /\ summary = EmptySummary
    /\ submitted = [p \in RepPeers |-> 0] /\ bytes_seen = [p \in RepPeers |-> 0]

-----------------------------------------------------------------------------
(* Reporters.                                                              *)

Reports ==
    [kind : {"interaction"}, peer : RepPeers, weight : Weights]
      \cup [kind : {"ping"}, peer : RepPeers, responded : BOOLEAN]
      \cup [kind : {"bytes"}, peer : RepPeers, bytes : ByteCounts,
            duration : {NoneYet} \cup {Some(ms) : ms \in Durations}]

\* A transfer may be reported without the time it took.
Timed(r) == r.kind = "bytes" /\ r.duration # NoneYet

\* A report spawns a task with a clone of the sender ...
Report(r) ==
    /\ made < MaxReports
    /\ made' = made + 1
    /\ sending' = sending \cup {[id |-> made, report |-> r]}
    /\ UNCHANGED <<batches, received, handled, recent, stores, summary, submitted, bytes_seen>>

\* Mutation: a buffer is sent when it is longer than its size.
SentWhenOver(n) == n > reporter_buffer_size

\* The condition under which the buffer of a sender is sent.
IsFull(n) == n >= reporter_buffer_size

\* ... whose buffer holds this report only, and is dropped with it.
SendReport(m) ==
    /\ m \in sending
    /\ sending' = sending \ {m}
    /\ IF IsFull(1)
       THEN Len(batches) < ChannelSize /\ batches' = Append(batches, <<m.report>>)
       ELSE UNCHANGED batches
    /\ UNCHANGED <<made, received, handled, recent, stores, summary, submitted, bytes_seen>>

-----------------------------------------------------------------------------
(* The measurement manager.                                                *)

GetBandwidth(b) ==
    CASE b.count = 0 -> NoneYet
      [] b.count > 0 /\ b.kind = "num" -> Some(b.sum \div b.count)
      [] b.count > 0 /\ b.kind = "inf" -> Some(MaxBandwidth + 1)
      [] OTHER -> Some(0)

\* bytes / milliseconds, added to the sum: a duration below a millisecond is zero.
AddRate(b, bytes, ms) ==
    LET kind == CASE ms > 0 -> "num" [] ms = 0 /\ bytes > 0 -> "inf" [] OTHER -> "nan"
    IN [count |-> b.count + 1,
        sum |-> IF ms > 0 THEN b.sum + (bytes \div ms) ELSE b.sum,
        kind |-> IF "nan" \in {b.kind, kind} THEN "nan"
                 ELSE IF "inf" \in {b.kind, kind} THEN "inf" ELSE "num"]

RegisterReport(s, r) ==
    CASE r.kind = "interaction" ->
           [s EXCEPT !.interactions = Some(s.interactions.n + r.weight)]
      [] r.kind = "ping" ->
           [s EXCEPT !.pings = @ + 1, !.responded = IF r.responded THEN @ + 1 ELSE @]
      [] r.kind = "bytes" ->
           [s EXCEPT !.bytes = @ + r.bytes,
                     !.bandwidth = IF Timed(r) THEN AddRate(@, r.bytes, r.duration.n) ELSE @]

OptionBag(o) == IF o.some THEN SetToBag({o.n}) ELSE EmptyBag

Replaced(bag, old, new) == (bag (-) old) (+) new

\* The values of the kind that was reported are replaced in the summary.
Restated(sum, s, t, r) ==
    [interactions |-> IF r.kind = "interaction"
                      THEN Replaced(sum.interactions, OptionBag(s.interactions), OptionBag(t.interactions))
                      ELSE sum.interactions,
     bytes |-> IF r.kind = "bytes"
               THEN Replaced(sum.bytes, SetToBag({s.bytes}), SetToBag({t.bytes}))
               ELSE sum.bytes,
     bandwidth |-> IF Timed(r)
                   THEN Replaced(sum.bandwidth, OptionBag(GetBandwidth(s.bandwidth)),
                                                OptionBag(GetBandwidth(t.bandwidth)))
                   ELSE sum.bandwidth]

\* Mutation: an evicted peer stays in the summary.
KeepEvicted(sum, s) == sum

\* SummaryStatistics::remove, for the peer the cache evicts.
RemovePeer(sum, s) ==
    [interactions |-> sum.interactions (-) OptionBag(s.interactions),
     bytes |-> sum.bytes (-) SetToBag({s.bytes}),
     bandwidth |-> sum.bandwidth (-) OptionBag(GetBandwidth(s.bandwidth))]

Cached == Range(recent)

\* insert_if_not_exists, and the value it registers; the peer is the most recent.
HandleReport(r) ==
    LET p == r.peer
        evicts == p \notin Cached /\ Len(recent) = MAX_CAPACITY
        gone == Last(recent)
        others == IF evicts THEN Front(recent)
                  ELSE IF p \in Cached THEN RemoveAt(recent, CHOOSE i \in DOMAIN recent : recent[i] = p)
                  ELSE recent
        new == RegisterReport(stores[p], r)
        sum == IF evicts THEN RemovePeer(summary, stores[gone]) ELSE summary
    IN /\ recent' = <<p>> \o others
       /\ stores' = [q \in RepPeers |-> IF q = p THEN new
                                       ELSE IF evicts /\ q = gone THEN NewStore ELSE stores[q]]
       /\ summary' = Restated(sum, stores[p], new, r)

\* recv waits for a batch, and takes one report of those it has.
ReceiveReport ==
    /\ batches # <<>>
    /\ LET all == received \o Head(batches)
       IN /\ batches' = Tail(batches)
          /\ received' = Tail(all)
          /\ HandleReport(Head(all))
          /\ bytes_seen' = IF Head(all).kind = "bytes"
                           THEN [bytes_seen EXCEPT ![Head(all).peer] = @ + Head(all).bytes]
                           ELSE bytes_seen
    /\ handled' = handled + 1
    /\ UNCHANGED <<made, sending, submitted>>

\* From<&MeasurementStore>: the uptime needs enough pings.
Measurement(s) ==
    [interactions |-> s.interactions, bytes |-> s.bytes,
     bandwidth |-> GetBandwidth(s.bandwidth),
     uptime |-> IF s.pings < MIN_NUM_PINGS THEN NoneYet
                ELSE Some((100 * s.responded) \div s.pings)]

NoStores == [p \in RepPeers |-> NewStore]

\* Mutation: the statistics outlive the measurements.
ClearPeersOnly == recent' = <<>> /\ stores' = NoStores /\ UNCHANGED summary

\* Mutation: the measurements outlive the statistics.
ClearSummaryOnly == UNCHANGED <<recent, stores>> /\ summary' = EmptySummary

clear_measurements == recent' = <<>> /\ stores' = NoStores /\ summary' = EmptySummary

\* Before the epoch changes: one transaction, which may be lost, of all peers (the
\* cache is smaller than MAX_MEASUREMENTS_PER_TX), then everything is cleared.
SubmitAggregation ==
    /\ LET measurements == [p \in Cached |-> Measurement(stores[p])]
       IN \/ submitted' = [p \in RepPeers |->
                             IF p \in Cached THEN submitted[p] + measurements[p].bytes ELSE submitted[p]]
          \/ UNCHANGED submitted
    /\ clear_measurements
    /\ UNCHANGED <<made, sending, batches, received, handled, bytes_seen>>

RepNext ==
    \/ \E r \in Reports : Report(r)
    \/ \E m \in sending : SendReport(m)
    \/ ReceiveReport
    \/ SubmitAggregation

RepSpec == RepInit /\ [][RepNext]_collectorVars

-----------------------------------------------------------------------------
Options == [some : BOOLEAN, n : Int]
Stores == [interactions : Options, bytes : Nat,
           bandwidth : [kind : {"num", "inf", "nan"}, sum : Nat, count : Nat],
           pings : Nat, responded : Nat]

RepTypeOK ==
    /\ made \in Nat /\ handled \in Nat
    /\ sending \subseteq [id : Nat, report : Reports] /\ IsFiniteSet(sending)
    /\ batches \in Seq(Seq(Reports)) /\ received = <<>>
    /\ recent \in Seq(RepPeers) /\ stores \in [RepPeers -> Stores]
    /\ submitted \in [RepPeers -> Nat] /\ bytes_seen \in [RepPeers -> Nat]
    /\ IsABag(summary.interactions) /\ IsABag(summary.bytes) /\ IsABag(summary.bandwidth)

\* Every task has a report of its own, and a batch is one report.
OneReportEach ==
    /\ \A m \in sending : m.id < made
    /\ \A k \in DOMAIN batches : Len(batches[k]) = 1

\* The cache has a peer once, no more than its capacity, and nothing is measured of
\* another peer.
CacheInOrder ==
    /\ IsInjective(recent) /\ Len(recent) <= MAX_CAPACITY
    /\ \A p \in RepPeers \ Cached : stores[p] = NewStore

\* No report is lost or counted twice on its way through the tasks and the channel,
\* with the size of a sender's buffer that the configuration has unless it is set.
ReportsConserved ==
    reporter_buffer_size = 1 => made = Cardinality(sending) + Len(batches) + handled

Copies(v, bag) == IF BagIn(v, bag) THEN bag[v] ELSE 0

\* A bag has each value as often as the peers have it; of the values that may be
\* missing it has at most as many.
Mirrors(bag, peers, values, missing) ==
    \A v \in BagToSet(bag) \cup {values[p].n : p \in peers} :
        LET n == Cardinality({p \in peers : values[p] = Some(v)})
        IN IF v \in missing THEN Copies(v, bag) <= n ELSE Copies(v, bag) = n

\* The summary holds the values of the cached peers, also after evictions: a peer's
\* own value is within the range it is normalised with.  Of the byte counts a zero
\* may be missing, since a new peer's zero is taken out though it was never put in.
SummaryMirrors ==
    /\ Mirrors(summary.interactions, Cached, [p \in RepPeers |-> stores[p].interactions], {})
    /\ Mirrors(summary.bandwidth, Cached, [p \in RepPeers |-> GetBandwidth(stores[p].bandwidth)], {})
    /\ Mirrors(summary.bytes, Cached, [p \in RepPeers |-> Some(stores[p].bytes)], {0})

\* Bytes of a transfer are submitted in one epoch only: with all that was submitted
\* and all that is still measured, a peer has no more than was reported of it.
BytesCountedOnce == \A p \in RepPeers : submitted[p] + stores[p].bytes <= bytes_seen[p]

\* What is reported reaches the measurements once, and the summary is theirs.
RepInv ==
    /\ RepTypeOK /\ OneReportEach /\ CacheInOrder
    /\ ReportsConserved /\ SummaryMirrors /\ BytesCountedOnce
=============================================================================
