# A TLA+ development for lightning

Lightning is the node of the Fleek network: a proof-of-stake chain ordered by
Narwhal/Bullshark, on top of which nodes deliver content and run services. This
directory holds TLA+ modules for the parts of it that keep state, TLC
configurations that check them on small instances, and TLAPS proofs. Every
definition is a translation of the source; `PROJECT.json` maps each one to its
lines.

## 1. The system

### Components

| Part | State | Operations | Hard behaviour | What makes it correct |
|---|---|---|---|---|
| **Epoch change** (`core/application/src/state/executor/epoch_change.rs`) | beacon phase and table, non-revealing table, `committee_info` | `change_epoch`, beacon commit, reveal, two timeouts, slash, kick, draw, rewards, clean-up | quorum tests with `==` while the committee shrinks; failed rounds in a row | no quorum missed or counted twice; the seed comes from a full reveal; only who did not reveal is slashed |
| **Transactions** (`executor.rs`) | accounts, nodes, tables of measurements, content, jobs | staking, tokens, mints and withdraws, measurements, content registry, jobs | interleave with slashing and the epoch change; tables that mirror each other | FLK is accounted for; tables agree; who leaves is not drawn |
| **Block execution** (`application/src/env.rs`) | last block, sub-dag index, epoch, era | genesis, run a block | the index restarts with a committee | index and state agree |
| **Transition tasks** (`core/consensus/src/epoch_state.rs`) | epoch and round waited for | wait, signal the end of the epoch and of each phase | a remembered round while the chain moves on | every phase ends |
| **Beacon listener** (`core/committee-beacon`) | local database, retry loops | commit, reveal, retry, clean up | crash between saving and submitting | a commit can be revealed; no early reveal |
| **Validator execution** (`consensus/src/execution`, `consensus.rs`) | channel, narwhal instance, notification | filter, queue, execute, notify, restart narwhal | queued outputs at an epoch change; crash with a full channel | one chain, each sub-dag once |
| **Following nodes** (`execution/worker.rs`, `transaction_store.rs`) | parcels and attestations of three epochs, timers, requests | receive, walk back, execute, time out, request | loss, repetition, reordering, restart inside a chain | executes exactly the chain; catches up |
| **Signer, forwarder, transaction client** | nonces, pending transactions, connections | sign, resend, renumber, retry, fill a nonce | a nonce read before the lock; late copies; restarts | executed in the order signed; results are true; calls end |
| **Checkpointer** | attestations and aggregates per epoch | attest, collect, aggregate | attestations before the local epoch change; restart | aggregates are formed and have the true state root |
| **Syncronizer** | epoch, checkpoint | sleep, ask, download, restart | bootstrap nodes behind or gone | catches up; restarts end |
| **Broadcast** | interned digests, pending wants, ring of a topic | advertise, want, deliver, propagate, receive | loss, repetition, eviction, cancelled receives | delivered once, reaches everyone |
| **Pool** | connections, dials, waiting requests, pins | dial, accept, replace, collect, retry | both sides dial; events handled late | requests end; the topology is connected |
| **Fetcher, blockstore server** | requests in progress, subscribers, answers in progress | fetch, download, ask an origin, answer a peer | shared requests, failing peers, peers that leave | a fetch that succeeds is whole; answers are whole or cut off |
| **Blockstore, b3fs** | blocks, headers, write-ahead directories; proofs | write, verify, rename; walk, encode, verify | wrong peers, odd lengths, a stop between renames | the disk holds what its names say; proofs verify exactly the content |
| **Handshake** | connection map, proxy, transports | dial, join, replace, forward payloads, tokens | transports that come and go in a payload | payloads stay whole, tokens reach who asked |
| **Task broker, reputation aggregator, pinger, acknowledgments, firewall, archive, resolver** | calls; cache and summary; pending pings; a file; buckets of tokens; column families | one handler each | peers that fail and disagree, evictions, crossing timeouts, changed rules, stops between puts | each keeps its books; see `ServicesInv` |
| **atomo** (`lib/atomo`) | snapshot list, batch, persistence | update, query, iterate | queries walk the list without a lock | a query sees one version |
| **better-shutdown** (`lib/better-shutdown`) | wait lists, signals | register, poll, trigger, complete | slots reused between threads | no waker lost; completion is real |
| **Others** | | topology, reputation scores, indexer, service executor, rpc, keystore, merklize, blake3-tree, affair, services, SDK | | listed with reasons in `PROJECT.json` |

### Interaction

Listeners, the signer's clients and the services hand transactions to the
signer, the signer to the forwarder, which sends them to the mempool of a
committee member. Narwhal orders them; `Execution` filters its output into a
channel; the execution worker runs each output as a block of the application
(over atomo), broadcasts it as a parcel with an attestation, and notifies the
listeners, the checkpointer, the archive and the pinger of new blocks and
epochs. Nodes outside the committee execute attested parcels instead. A block
that changes the epoch or the committee makes the worker notify the consensus
task, which restarts narwhal and the transition tasks. Clients reach services
through the handshake; services fetch content through the fetcher, which asks
the blockstore server of other nodes (over the pool) or an origin and writes to
the buckets of b3fs.

## 2. Modules

| Module | Models | State and actions |
|---|---|---|
| `Staking` | staking transactions of `executor.rs` | `node_info`, `flk_balance`, `epoch`; one action per transaction, its guard is the list of early returns |
| `CommitteeBeacon` (extends `Staking`) | beacon and epoch change | `phase`, `beacons`, `non_revealing`, `committee`; a timeout is three actions: a signal below the quorum, and the quorum's last signal with one outcome or the other |
| `BeaconProcess` | the process drawn in `core/committee-beacon/README.md`, an abstract specification | `epoch`, `stage`, `round` |
| `BeaconNode` (extends `CommitteeBeacon`) | transition tasks, listeners, databases, queues of signed transactions, crashes | `driver`, `listener`, `db`, `pool` |
| `Ledger` (extends `Staking`) | tokens, mints, withdraws, rewards with `hp-fixed` rounding | accounts, `minted`, the pools; the epoch change distributes |
| `EpochTables` | measurements, content registry, jobs and what the epoch change does to them | one action per transaction and one for the epoch change |
| `ValidatorExecution` | `state.rs`, the validators' half of `worker.rs`, the loop of `consensus.rs` | `channel`, `narwhal`, `task`, the application's `session`, `sub_dag`, `vlog` |
| `EdgeExecution` | the followers' half of `worker.rs`, `transaction_store.rs` | `store`, `pending`, `executed`, `timeouts`, `requests`; the worker goes step by step (`worker.pc`); a parcel is a digest and the epoch its sender stamped it with, which the digest does not cover |
| `Signer`, `Forwarder`, `TransactionClient` | the three of them, with what the application does with a nonce | buffer and nonces; connection cache and cursor; a runner's `pc` |
| `Clients` | transaction client and forwarder side by side | no state of its own |
| `Checkpointer`, `Syncronizer` | listeners and database; the loop of the syncronizer | |
| `Broadcast`, `PubSub` | gossip of a message; ring and receive buffer of a topic | a node's context; `next_index`, `buffer`, calls |
| `Pool` | endpoint loop and event receiver with the logical pool between them | connections, dials, queued events; the early returns of `handle_new_connection` are `RefuseConnection` |
| `ContentFetch`, `BlockServe` | fetcher with the requesting half of the blockstore server; its answering half | calls, subscribers, tasks, the server's queue; an origin gives what was wanted, something else, or an error; `num_responses` and the frames of an answer |
| `Bucket` | the writers of b3fs and the disk | writers, `headers`, `blocks`, `wal`; renames are steps of their own; the number of entries of a directory is the one its peer announces, and may be announced again |
| `ProofStream` | b3fs proofs: walk, encoding, incremental verifier | the algorithms are operators, the verifier is the state |
| `Handshake` | connection map and proxy | proxy state, transports, what each client received |
| `Shutdown` | wait lists, signals, trigger, completion | the critical sections of `trigger_shutdown` are steps |
| `Atomo` | one table: batch, inverse, snapshot list, queries | `StoreData`, `StoreNext`, `MoveHead` are the three stores of `push` |
| `TaskBroker`, `RepCollector`, `Pinger`, `DackAggregator`, `Firewall`, `Archive`, `Resolver` | the component of that name | one action per handler; what a crash can separate is separate; errors that the code logs or drops are actions (`AddFails`, `RemoveFails`, `SubmitFails`, `PutFails`, `TickUnsent`) |
| `EdgeExecutionProofs`, `EpochTablesProofs` | proofs about the module of that name | |
| `BeaconProofs` | proofs about `CommitteeBeacon` and `BeaconNode` | |
| `LibraryProofs` | proofs about `Atomo`, `Shutdown` and `Handshake` | |
| `ChainProofs` | proofs about `Signer`, `Checkpointer`, `ValidatorExecution` and `Clients` | |
| `PeerServicesProofs` | proofs about `TaskBroker`, `RepCollector`, `Pinger` and `DackAggregator` | |
| `ServicesProofs` | proofs about `Firewall`, `Archive`, `Resolver` and all services side by side (`MCServices`) | |
| `NetworkProofs` | proofs about `Broadcast`, `PubSub`, `Pool`, `ContentFetch`, `BlockServe`, `Bucket` and the six side by side (`MCNetwork`) | |
| `MC...` | instances for TLC | |

`MCChain`, `MCSafety`, `MCNetwork` and `MCServices` hold several components
that share no state. A behaviour runs one of them, chosen at the start
(`focus`), and leaves the others in their initial state: the state spaces add up
instead of multiplying, and nothing is lost, since no step of one reads another.
Components that do interact are composed in one module: `BeaconNode` has the
application, the tasks and the listeners; `Signer` and `TransactionClient` have
the application's nonces; `Pool` both loops; `ContentFetch` the fetcher, the
server's loop and the origin fetcher.

Abstractions shared by the modules: amounts are naturals; hashes and digests
are injective (`build` returns its preimage, a digest is a name); a vector that
is pushed to only after a `contains` test is a set; a reverted transaction
changes nothing; timers may fire at any time. The committee drawn by the seed
is any of the right size, uptime below the limit is any set of nodes. In
`BeaconNode` a node's transactions execute in the order it signed them, which
`Signer` shows; after a crash any prefix of the queue survives. In
`ValidatorExecution` narwhal (external) gives all instances of a session one
order and repeats stored outputs from the index it is given. The operators named
as mutations in the modules are wrong variants of the definition after them,
used to see that the properties notice.

## 3. Runs

Passing runs. An invariant that ends in `Inv` is a conjunction of named parts,
given after the table.

| Run | Instance | Shows |
|---|---|---|
| `committee_beacon` | 4 nodes, two with stake 4 and two with 5, minimum 3, slash 2, rounds 0-2, 2 epochs, symmetry | `IInv`, `EpochChangesOnFullReveal`, `PenaltiesDeserved`, and that the executor implements `BeaconProcess` |
| `staking` | 2 nodes, one registered later, amounts of 2 | `OptOutsAreNotDrawn`, `SupplyOnlySlashed` with all staking transactions |
| `beacon_nodes` | 2 nodes, queues of 2, 2 rounds, one crash, fair | `NodeInv`; `BeaconStarts`, `RevealPhaseEnds` |
| `edge_execution` | 3 blocks, the second changes the epoch; follower up to it, validator afterwards; 1 honest validator and 1 diverged one with a block of its own and wrong stamps on two of the chain; a restart | `FollowsChain`, `EdgeInv`, `StoreFollowsEpoch` |
| `chain` | signer: 2 requests, 1 loss, 1 restart; client: 1 runner with retries; checkpointer: 4 attesters, 1 diverged, 3 epochs, 1 restart; syncronizer: 2 bootstrap nodes, 2 epochs; validators: 2, an era and an epoch change, 3 sub-dags a session, channel of 2, 1 crash; shutdown: 3 signals on 2 lists; fair | `SignerInv`, `CkptInv`, `ValidatorInv`; `BufferDrains`, `CallsEnd`, `AggregatesForm`, `SyncSettles`, `FirstSessionEnds`, `ShutdownCompletes` |
| `safety` | ledger: 2 nodes, 2 owners, 3 transactions, 2 epochs, fixed point of one digit; tables: 4 transactions, 2 epochs; atomo: 2 keys, 1 query beside 2 updates; handshake: 2 transports; client: 2 runners; forwarder: 3 committees, 2 outages; proofs: trees to 7 blocks, walks to 600; shutdown: 2 triggers | `LedgerInv`, `TablesInv`, `QueriesSeeSnapshot`, `HandshakeInv`, `ClientsInv`, `StreamInv`, `ShutdownInv`; `RewardsWithinEmissions`, `EpochSettlesTables` |
| `network` | gossip: 3 nodes, 1 lost and 1 extra frame; topic: 2 subscribers, ring of 2, 4 messages; pool: 1 peer that both sides dial, 5 dials, 2 faults (a lost or refused connection); fetch: a directory of 2 files and one of them, 2 peers, 1 origin, 2 requests of the server at a time, 1 panic; answers: 4 requests for 2 slots; buckets: files of 4, 7 and 8 bytes in blocks of 4, a directory of 3 of which the peer announces 0, 2 or 4 besides, 1 stop; fair | `NetworkInv`, `BucketInv`, `MissesOnlyOverwritten`; `MessageReachesAll`, `RecvReturns`, `RequestsEnd`, `TopologyConnects`, `FetchesEnd` |
| `services` | tasks: 2, a cluster of 3; reputation: 3 peers in a cache of 2, 3 reports; pinger: 2 nodes, 3 pings, 1 change of the registry, perhaps to none; acknowledgments: 3 of 2 services, 1 per transaction, 2 stops or failed removals, failing writes and submissions; firewall: 1 address, 3 rule lists (none, a rule of 0 requests, two rules), 8 ticks, 2 commands; archive: 4 blocks, channels of 2, 2 stops; resolver: 2 hashes, 4 records, 1 stop; follower: 2 blocks over an epoch change, 2 validators, fair | `ServicesInv`; `FollowerCatchesUp` |

The parts (each has its own type invariant besides):

- `IInv`: `SignalsBelowThreshold`, `SignalsFollowPhase`, `PhaseOfCurrentEpoch`,
  `BeaconsOfEligibleMembers`, `RevealsOpenThisRound`, `RevealPhaseHasQuorum`;
  `PenaltiesDeserved`: `OnlyNonRevealersAreSlashed`, `MembersOnlyKicked`;
  `NodeInv`: `SecretDurable`, `NoneAhead`, `NoEarlyReveal`; `StoreFollowsEpoch`:
  `SlotsInStep`, `HeadInStep`, `WalkInStep`.
- `SignerInv`: `NoncesAgree`, `ExecutedInOrder`, `OrderedIsOwn` and what makes them
  inductive, `LogIsNumbered`, `NonceIsPast`, `NextIsFresh`, `NumberedInOrder`,
  `GivenUpForGood`; `CkptInv`: `AggregateIsTrue`, `AttestationsHonest`,
  `CountOfSomeEpoch`; `ValidatorInv`: `ExecutedOnce`, `Agreement` and, of each
  validator, `OrderKept`; `SyncSettles`: `SyncCatchesUp`, `RestartsEnd`.
- `LedgerInv`: `FlkAccounted`, `PoolIsRevenue`, `MintedOnceUnlessCleared`;
  `TablesInv`: `RegistryInverse`, `JobsAreListed`, `MeasuredThisEpoch`;
  `EpochSettlesTables`:
  `EpochRepairsJobs`, `SuspendedOnMeasurements`; `QueriesSeeSnapshot`:
  `GetsSeeSnapshot`, `KeysHaveValues`; `HandshakeInv`: `PayloadsWhole`,
  `TokensToAsker` and, for the induction, `SocketWhole`, `UnreadIsFresh`,
  `TransportsPlaced`, `LogsFollowWrite`; `ClientsInv`: `ResultIsTrue` and
  `ReceiptIsTrue` of the transaction client, `RetriesSuffice`, `ListIsCurrent` and
  `FailureClears` of the forwarder; `StreamInv`: `HonestStreamAccepted`,
  `ProofsAreSiblings`, `AcceptsOnlyContent`; `ShutdownInv`: `SlotsKeepSignals`,
  `FreeListIsSound`, `ListsAreCounted`, `WakesAtTheEnd`, `CompletionIsReal`.
- `NetworkInv`: `DeliveredOnce`, `DeliveriesCounted`, `WantsCanBeAnswered`,
  `HoldersAdvertise` (gossip); `ReplyIsMessage`, `RingHolds`, `CallsWereMade`,
  `AwaitsTheNext` (topics); `RedundantBacks`, `HandlesAreLive`, `WaitersHaveDial` with
  `NumbersDiffer`, `DialsUnderWay` (pool); `FetchedIsWhole`, `AnswersAreOwed`,
  `OriginsAreOwed` with `DownloadsCover`, `TasksStored`, `RoundsHaveSources`, `AsksBelow`,
  `ReceiversWait` (fetcher);
  `EosMeansWhole`, `NoSlotLost` with `TasksInStep`, `SlotsBalance` (blockstore server);
  `BucketInv`: `BlocksTile`, `HonestFileAccepted`, `StoredIsContent`,
  `WholeUnlessMoving` with `CallsInStep`, `EntriesVerified`, `MovedInOrder`.
- `ServicesInv`: `ClusterAgrees`, `SingleTriesAll`, `ReportsMatch` and, for the
  induction, `CallsUnderWay` (tasks); `ReportsConserved`, `SummaryMirrors`,
  `BytesCountedOnce` with `OneReportEach`, `CacheInOrder` (reputation);
  `PendingHasTimer`, `ReportedOnce`, `CursorNamesNode` (pinger); `DackAccounted`, `TransactionsFit` with
  `FileHoldsOnce`, `SubmittedOnce`, `NothingLost` (acknowledgments); `RateBounded`,
  `EntriesInForce` with `BucketsHold`, `EntriesMade`, `TokensBalance` (firewall);
  `NothingDangles`, `HandledIsWhole` with `BlocksInOrder`, `StoredSoFar` (archive);
  `ResolvedHasOrigin`, `OriginsKept` with `StoresKeep` (resolver).

Why the bounds are enough: a single failure of each kind already combines with
every interleaving of the rest. Four nodes give a quorum of three, and committees
of every smaller size after kicks, so each remainder of the division by three
occurs. Two failed rounds in a row are needed for the accumulated exclusions and
three rounds contain them. With minimum 3 and slash 2 a node with stake 4 is
kicked at its first failure, one with stake 5 is only excluded, so both outcomes
meet in one committee. A channel of two outputs is full while the block that ends
the session is in it. Three blocks give a chain of two to be walked, interrupted
between its blocks and ended by the epoch change, and a block of the next epoch that
may come, or be stamped, too early or too late. Two nodes suffice for the listeners
and tasks, which meet only in the executor; the executor itself is checked with
four and proved for any number. Two signed transactions of which one is lost are
enough for a resend and a renumbering that meet a late copy. Four attesters with
one diverged are the smallest set whose two thirds can be missed and reached. Two
updates beside a query, each in its steps, let the query stand on a snapshot
while a second one is appended; the proof has no bound. Trees of seven blocks
have every shape of left and right subtrees up to depth three, and the walk is
checked alone around powers of two up to 600. Two requests at a time are fewer than
the three hashes of the fetches, so the server's queue is used. A directory of three
announced as two refuses its last entry, announced as four takes one more. A rule of one
period and a clock of half milliseconds give every rounding of the elapsed time. A cache
of two for three peers evicts; files of four, seven and eight bytes in blocks of four end in, before and
at the end of a block. Runs stop checking for deadlock only where the bounds
(rounds, epochs, blocks, requests) end the behaviour.

Runs that find a disagreement between the code and what it says of itself:

| Run | Property | What happens |
|---|---|---|
| `commit_phase_stalls` | `CommitPhaseEnds` | after a commit phase with too few commits the tasks keep the old round and never signal again: the epoch cannot end |
| `other_epochs` | `OtherEpochsSkipped` | queued outputs of an epoch run in the next one |
| `handshake_deadlock` | `AttemptsTaken` | a connection attempt keeps the map's entry locked while it waits for the proxy, which waits for the entry |
| `responses_unbounded` | `AtMostMaxResponses` | a failed send gives a slot back twice, and more than `max_conc_res` requests are answered at once |

`PROJECT.json` quotes the lines under "findings".

### Observations without a run

Met while modelling; each is in the model, as far as the component is modelled. Where a
property would fail because of one, it names the case as its only exception.

Application and consensus:

- The listener repeats a commit until the chain shows one, without looking at
  the phase again (`listener.rs:232`): it may land in a later round, where it
  cannot be opened, and the node is slashed. The branch of the reveal loop that
  "will never happen" (`listener.rs:317`) does when the phase times out.
- The node registry does not look at the minimum stake (`executor.rs:1090`), so a
  node that was slashed below it and kicked may be drawn again; so may one that
  opted in and was then unstaked, as `unstake` opts out only a participating node
  (`executor.rs:972`); a stake lock is
  counted from an expired one (`executor.rs:909`);
  `only_node_with_sufficient_unlocked_stake` (`executor.rs:1800`) counts locked
  stake.
- The last reveal does not execute the epoch change, as the comment at
  `epoch_change.rs:213` says, the timeout does; exclusions are meant for "the next
  round" (`epoch_change.rs:537`) and accumulate over failed reveal phases.
- A reconfiguration notified while the consensus task is busy is lost
  (`consensus.rs:79`, `notify_waiters`).
- After the block that changes the epoch is committed, `last_epoch_hash` is
  written in a second transaction (`env.rs:193`); a crash in between leaves the
  old one.
- Every block without the receipt starts the timeout of `wait_for_receipt` again
  (`runner.rs:330`): while blocks keep coming, a call whose transaction is never
  ordered does not end, although an error is promised "within a timeout"
  (`client.rs:79`). `CallsEnd` allows exactly this.
- The checkpointer counts attestations against the nodes that are active when it
  counts. A call of the transaction client may execute its method twice when it
  retries after a timeout; nothing promises otherwise.
- The digest of a parcel does not cover its epoch (`parcel.rs:25`), and an attestation's
  epoch is the sender's. A diverged member of the committee that stamps the first block of
  the next epoch with the current one makes a follower keep that parcel in the slot of the
  current epoch, and after the epoch change the walk is rejected there (`worker.rs:630`)
  without a timer or a request: if the honest parcel is lost the follower waits for another. `FollowerCatchesUp` is
  checked without diverged validators.
- `get_raw_value` of atomo (`table.rs:156`) ignores the snapshots.

Network and content:

- A connection of a peer without identity, sufficient stake or index is dropped without
  cancelling the dial that led to it (`endpoint.rs:421-432`, `RefuseConnection`): requests
  that wait for the dial are never answered and the peer is not dialed again.
  `RequestsEnd`, `TopologyConnects` and `WaitersHaveDial` say that this is the only way to
  wait for ever. `MarkInvalidSender` of the last known sender leaves an empty
  queue (`ev.rs:412`), and the digest is never asked for again.
- The counter of responses also wraps below zero, after which every request is
  refused. A request above `max_conc_req` is queued and the queue is never popped
  (`blockstore_server.rs:230`); the run has fewer slots than requests, and `FetchesEnd`
  says that a fetch waits for ever only for such a request or a task that panicked. In a build that unwinds, a task that panics leaves
  its entry in `pending_requests`, and its subscribers wait for ever; the release
  profile aborts.
- A fetch from an origin succeeds with any `Ok(hash)` (`fetcher.rs:169`, `origin.rs:100`),
  also of content that was not asked for, and the b3fs origin answers zeros and stores
  nothing (`origin_b3fs.rs:26`). A directory whose download was given up stays in the
  blockstore without some of its children, and the second look at the blockstore
  (`fetcher.rs:154`), or a later call, reports it as fetched. `FetchedIsWhole` gives each
  return its worth.
- A proof of `257 k + 1` bytes passes `is_valid_proof_len` (`utils.rs:107`) with a
  lone sign byte as its first segment, of which `ProofBufIter` yields no hash, and
  `feed_proof_internal` panics at its `unwrap` (`verifier.rs:239`), although the comment
  above says there are two. `AcceptsOnlyContent` states that no other length panics.
- A file's header is renamed before its blocks (`bucket/file/state/mod.rs:128`):
  after a crash in between `exists` is true and the content is never fetched
  again. `WholeUnlessMoving` says that there is no other way to this. Directories of the
  write-ahead log of dropped writers, and of committed directories, are never removed. An
  untrusted directory may be stored with its entries out of order when its last entry comes
  early.
- The number of entries of an untrusted directory is the one its peer announced
  (`blockstore_server.rs:829`), and the commit compares it with nothing
  (`dir/state/mod.rs:276`): with a larger one the header has a wrong number, and entries that
  were sent as the last before the true last one are kept unverified. A name twice
  makes the search for the perfect hash endless (`dir/phf.rs:43`), and 0 entries panic.
- The time to live of a token is multiplied by 60 and added to milliseconds
  (`handshake.rs:297`).

Services:

- `let _ = lock.acquire().await` drops the permit at once (`task_broker.rs`,
  `local.rs`), so that `max_peer_tasks` and `max_tasks` bound nothing; tasks of
  peers run at depth 0, so `max_depth` bounds the recursion of one node only; the
  timeout covers the request, not the reading of the response.
- With `reporter_buffer_size` above 1 every report is lost: each goes out through a
  clone with a buffer of its own. A new peer's byte count of 0 is taken out of the
  summary though it was never added. A transfer below a millisecond has infinite
  bandwidth, and `verify` then drops all measurements of the peer.
- An empty registry panics the pinger at `node_registry[cursor]` (`pinger.rs:229`,
  `TickPanics`), which `CursorNamesNode` names as the only end of its loop; a random id drawn
  twice for a node ends the second ping with the timeout of the first.
- An acknowledgment is answered before it is written, and a failed write, removal or
  submission is logged only (`dack_aggregator.rs:104,157,177`): the first and the last lose
  it, a failed removal submits it again.
- In the firewall a user's policy with an empty list of rules is dropped by
  `set_global_policy` and by the change from `Global` to `Per`, which the comments
  say keep it (`rate_limiting.rs:89,115`); a bucket polled more often than once a
  millisecond never refills; an earlier rule's token is taken though a later rule refuses;
  `max_requests` 0 admits one request after each period (`rate_limiting.rs:262`), but none
  of an address without an entry; each replacement of an address's rules hands out full
  buckets once more (`rate_limiting.rs:75-83`), which `RateBounded` counts.
- An archive that lags behind its channel, or is down, misses blocks for ever, and so does
  one whose put fails or whose checkpoint is missing, as the loop drops the errors
  (`archive.rs:349,352`); the
  receipt of a transaction that is ordered twice is overwritten by the later,
  reverted one.
- Overlapping `store_mapping` calls for one hash lose a pointer; `publish` sends later
  pointers with the signature of the first and stores only the first.

### Fairness

Fairness is stated per component and holds while the component runs
(`FairChainSpec`, `FairNetworkSpec`, `FairServicesSpec`, `FairNodeSpec`,
`FairHandshakeSpec`). Loops and spawned tasks of tokio that can go on are polled
again: weak fairness of the transition task, listener and execution of a node, of
the runner and the nonce syncer, of the checkpointer's listeners, the
syncronizer, narwhal's delivery and the worker, the event loops of broadcast,
pubsub and pool, fetches, the server's loop and its requests (each has a
timeout), and of tasks that the shutdown woke. Nothing says that a node commits or
reveals in time, that a frame, a parcel or a transaction arrives, or that a dial
succeeds. What is assumed of the surroundings: consensus executes a transaction
that stays in a mempool, blocks keep coming, an honest checkpointer's attestation
arrives once, a bootstrap node that went away comes back. Strong fairness: a send
of the signer succeeds now and then; `select!` picks at random among the
ready branches of the proxy; and in `EdgeExecution` timers, answers to requests and
attestations of honest validators, because these inputs are taken only when the
worker is idle, which it is again and again but not for ever. Its `select!` is
biased: outputs of consensus before messages before timers, so the fairness of
timers also says that the queue of messages is empty again and again. An
attestation is redelivered in the model, which stands for the attestations of later
blocks: the code retries a walk with each of them. Unrequested parcels get no
fairness at all.

## 4. Proofs

`BeaconProofs` proves about `CommitteeBeacon`, from `StakingAssumption`
and `BeaconAssumption` (nodes are finite, amounts and parameters natural, the
null values distinct), for every set of nodes, every parameter and any number of
rounds and epochs:

- `Invariance`: `Spec => []IInv`. None of its parts is inductive alone. The
  equality tests (`SignalsBelowThreshold`) survive a kick only because a new
  round clears the timeout signals and because the epoch signals are tested
  only when no phase runs, when nobody is kicked (`SignalsFollowPhase`); that
  the ended signals stay at quorum needs that a smaller committee has no larger
  quorum (`ThresholdMonotone`). `RevealPhaseHasQuorum` needs that commits are of
  participating members (`BeaconsOfEligibleMembers`), and the rounding division
  of the executor to be the exact two thirds (`EnoughCommits`).
- `TypeCorrect`, `QuorumsNotMissed`, `PhaseEpochCorrect`, `BeaconTableCorrect`:
  its parts.
- `EpochChangeCorrect`: the action property `EpochChangesOnFullReveal`.
- `PenaltiesCorrect`: the action property `PenaltiesDeserved`. No staking transaction
  takes stake without paying it out or locking it and no epoch change takes any, so a
  step that does is the restart after a reveal phase, and the members it slashes and
  kicks are those the table shows without a reveal.
- `OptOutsCorrect`: the action property `OptOutsAreNotDrawn`: the staking transactions
  one by one (`StakingKeepsOptOuts`), the slash, which leaves the flag alone, and the
  epoch change with the registry it reads.
- `Refinement`: every step is a step or a stutter of `BeaconProcess`, under the
  mapping of the phase to its stage and round.

It also proves about `BeaconNode`, in addition from `NodeAssumption`
(there are values to reveal, the bounds are natural), for any number of nodes,
rounds, queued transactions and crashes:

- `ExecutorCorrectWithNodes`: `NodeSpec => []IInv`. The executor's invariant does not
  depend on where transactions come from, but a queue may bring a commit of another
  round or epoch to the chain, so the executor's lemmas are used again for the
  transactions as the nodes send them.
- `NodesCorrect`: `NodeSpec => []NodeInv`. What is said of a commit (its secret is in
  the database, `SecretDurable`; it is of no phase that has not begun, `NoneAhead`)
  and of a reveal (its commit phase is over, `NoEarlyReveal`) is said of the queue,
  of the listener's step before it sends, and of the table on chain together: a
  crash moves none of them ahead, and the phase moves only as `BeaconProcess` says.

`EdgeExecutionProofs` proves about `EdgeExecution`, from `ChainAssumption`, for
every chain, every assignment of epochs and committees to blocks, any number of
restarts and any network:

- `EdgeInvariance`: `Spec => []EdgeInv`. The invariant adds to `FollowsChain`
  that attestations of validators that did not diverge are of chain blocks, that
  a walk stands on a chain block and what it collected is linked up to the
  attested digest (`WalkInv`), and that during submission the head is the block
  before the next one (`SubmitInv`). The step from a quorum to the chain
  (`QuorumAttestsChain`) is where the assumption counts: fewer validators
  diverged than any committee's quorum.
- `FollowsChainCorrect` and `WalkCorrect`, which turns the comment "This case
  cannot happen" of `try_execute_chain` into a theorem.
- `StoreCorrect`: `StoreFollowsEpoch`. A slot holds what is stamped with its epoch, whoever
  stamped it; that a wrong stamp never mixes epochs on the chain rests on the links: a walk
  goes from an attested block to its parents, whose true epochs do not rise, and reaches
  the head, which is of the epoch last read, before it leaves that epoch. The epoch and committee the worker last
  read are the application's whenever it takes a message and until it submits the
  first digest of a walk; after that the application is at most one epoch ahead
  (`HeadInStep`), because the blocks of a walk are all of the epoch that was read
  (`WalkInStep`). So advancing the three slots by one epoch is enough (`SlotsInStep`).

`LibraryProofs` proves about `Atomo`, from `AtomoAssumption` (the null value is no
value of the table), for any number of keys, queries and versions:

- `AtomoInvariant`: `AtomoSpec => []AtomoInv`. A reader that walks the list while
  an update is between two of its stores sees neither the old nor the new version
  by position, so the invariant says what each place yields: the snapshots on the
  list are chained up to the head (`ListShape`), the inverse of the batch is ready
  before the batch touches the persistence (`InverseReady`), the persistence with
  the inverses from a version on gives that version (`Reconstructs`), a query's
  version is not beyond the head (`SnapshotsExist`), a walk has passed only snapshots
  that do not mention its key (`WalkOK`), and the key sets are those of the
  versions (`KeySets`).
- `ViewIsConsistent`: `QueriesSeeSnapshot`, from it.

It also proves `ShutdownCorrect`: `ShutdownSpec => []ShutdownInv`, from
`ShutdownAssumption` (finitely many signals, a capacity above 0), for any number of
signals, lists and triggers. The arena is handled once, in lemmas about `register` and
its inverse: the free entries are an injective chain from `last_freed`
(`FreeListIsSound`), so a freed entry is never one in use. `CompletionIsReal` needs
that the counter equals the number of lists in use, also in the middle of a trigger
that holds some of the locks (`ListsAreCounted`), and that whoever wakes the
completion saw the last signal go (`WakesAtTheEnd`).

And it proves

- `HandshakeCorrect`: `HandshakeSpec => []HandshakeInv`, from `HandshakeAssumption`
  (lengths and bounds are natural), for any number of transports and payloads,
  payloads of any length, zero included, and any split into reads. The proxy remembers
  of a payload only how many bytes are to come, so the invariant ties that number to
  the socket (`SocketWhole`: the rest of one payload, then whole ones) and to the log
  of the client that receives it (`LogsFollowWrite`: it lacks exactly that many bytes,
  the other transports in use lack nothing, and a payload whose receiver went is
  discarded). That a payload starts once needs `UnreadIsFresh`; that a transport which
  replaces another starts with an empty log, `TransportsPlaced`.

`ChainProofs` proves, for each of four components:

- `SignerCorrect`: `SignerSpec => []SignerInv`, from `SignerAssumption` (the bounds
  are natural), for any number of requests, losses, retries and lives. That the chain
  executes a node's requests in order is not inductive: it follows because the log is
  numbered without gaps (`LogIsNumbered`) and because within one life nonces and
  requests rise together over everything that was executed, may still be, or will be
  sent again (`NumberedInOrder`). This in turn holds only because a new request takes
  a nonce above all of them (`NextIsFresh`), which needs that the signer counts from a
  nonce the application has passed (`NonceIsPast`), and because the nonce of a request
  that was given up is never signed for it again (`GivenUpForGood`).
- `CheckpointsCorrect`: `CkptSpec => []CkptInv`, from `CheckpointerAssumption`
  (finite sets of nodes; the diverged ones are at most two thirds of the active nodes
  of every epoch, below the supermajority the code asks for), for every sequence of
  active sets and any number of restarts. The count may be of an epoch that is over
  (`CountOfSomeEpoch`), so the assumption is needed for every epoch at once.
- `ValidatorsCorrect`: `ValidatorSpec => []ValidatorInv`, from `SessionAssumption`
  (committees, epochs and lengths of sessions are arbitrary), for any number of
  validators and crashes. `ExecutedOnce` follows from `OutputsInOrder`: log, channel
  and what narwhal outputs next are one ascending sequence, which a restart keeps
  because the stored index is not behind the log (`IndexNotBehind`) and an instance
  starts only when none runs (`StartsClean`). `Agreement` follows from `NoGaps`: the
  log of a validator that executed every block in its session is the one sequence
  that `Follows` generates.
- `ClientsCorrect`: `ClientsSpec => []ClientsInv`, from `ClientCorrect` and
  `ForwarderCorrect`. The first rests on `ClientAssumption` (bounds are natural,
  a filler's caller is no caller) and holds for any number of callers, losses and
  retries: a receipt that waits in a
  runner's inbox is already true of the chain (`ReceiptIsTrue`), whatever the runner
  gave up, renumbered or sent again meanwhile, so taking it makes a true result. The
  second rests on `ForwarderAssumption`: committees are finite and none consists of
  this node alone, since the worker would index an empty list; it holds for every
  sequence of committees, every shuffle and any number of outages. An attempt that
  fails dropped every connection (`FailureClears`), and from no connections the ring
  visits each index of a list that `refresh_epoch` would build now (`ListIsCurrent`)
  before it gives up, so it meets the member that serves; `min_connections` is never
  0, so it does not stop before it has one.

`EpochTablesProofs` proves about `EpochTables`, from `EpochTablesAssumption` (finite
sets of nodes and jobs, at least one measurement for a score), for any number of nodes, contents, jobs,
transactions and epochs:

- `TablesCorrect`: `EpochTablesSpec => []TablesInv`. The two directions of the content
  registry are inverse after every update and clean-up, and every job is in the list of
  its assignee, also after it was added again for another node and its first entry was
  removed (`RemoveFirstKeeps`). The epoch change deals all jobs in chunks to the workers;
  that no chunk is beyond the last worker is `ChunkFits`, what the dealt lists hold is
  `AddAllKeeps`.
- `EpochChangeSettles`: the action property `EpochSettlesTables`. That the
  stale entries are gone is `AddAllRepairs`; that nobody is taken out on old reports needs
  `MeasuredThisEpoch`: the table of measurements holds exactly what was reported since
  the last epoch change, so participation is decided on this epoch's reports.

`NetworkProofs` proves, for each component:

- `BroadcastCorrect`: `BroadcastSpec => []BroadcastInv`, from `BroadcastAssumption` (the
  peers of a node are nodes), for every network. That a message is delivered once counts
  refusals against deliveries; it holds because an event is only ever of the head of a
  queue that is not empty (`DeliveriesCounted`). That whoever is asked has the message
  needs that advertisements in flight, and peers remembered for later requests, are of
  nodes that have it (`HoldersAdvertise`).
- `PubSubCorrect`: `PubSubSpec => []PubSubInv`, from `PubSubAssumption` (the ring has a
  place), for every capacity. Overwriting a place spares the messages still in the window
  because among `RingCapacity` numbers in a row no two have the same remainder
  (`RingPlacesDiffer`); a call is told from those that were dropped before it by its
  number (`CallsWereMade`), and only of the one that is awaited it is claimed that it asks
  for the first message not seen (`AwaitsTheNext`).
- `MissesCorrect`: the action property `MissesOnlyOverwritten`, from it.
- `PoolTablesAgree`: `PoolSpec => []PoolInv`, from `PoolAssumption` (finitely many peers,
  natural bounds), for any peers, topologies and faults. The two loops talk of connections
  by their numbers, so a number must be of one dial or one connection only
  (`NumbersDiffer`), and what the tables remember must still be there
  (`HandlesAreLive`, `DialsUnderWay`). From this follows what is not obvious in the code: a
  request that waits has a dial that answers it, also when the dial was cancelled or another
  connection came first, unless the last connection of its peer was refused
  (`WaitersHaveDial`), and a redundant connection is never alone.
- `FetchesAreWhole`: `ContentSpec => []ContentInv`, from `ContentAssumption`, for every graph
  of content, any number of calls and any limits. That a fetch is whole is not an invariant
  of a call: it rests on what it has, asks and waits for (`DownloadsCover`), which with
  nothing left to ask is a set of stored content closed under children, and `Whole` is
  in every such set. A directory that lacks a child is traced to the call that asked for it
  (`AsksBelow`, `ReceiversWait`): the child is asked or waited for, or the call gave up.
  Answers are shared between calls, so the tables must owe them to those
  who wait (`AnswersAreOwed`, `OriginsAreOwed`).
- `AnswersAreWhole`: `ServeSpec => []ServeInv`, from `ServeAssumption`, for content of any
  number of blocks, any number of requests and closed streams. `TasksInStep` ties what a
  peer has to the place of the task. The counter is not the number of tasks: a closed stream
  takes it down once or twice too often, depending on the frame it is closed at.
  `SlotsBalance` counts what was and what may still be given back too often.
- `BucketCorrect`: `BucketSpec => []BucketInv`, from `BucketAssumption` (no content is empty,
  a file and a directory never have one root hash, a piece is shorter than a block), for
  contents, directories and blocks of any size, every way to split a file into
  writes, any number of wrong peers and stops. A writer's block files are the blocks of its
  file because each was cut at a multiple of the block size: a piece stays within the block, fills it, or
  runs over its end (`PieceHolds`), and the last block is left to the commit, whatever its size
  (`CommitHolds`; `CallsInStep` says that `last_bytes` comes with the last bytes and no
  others). A header on disk was moved by a writer that has all block files of the content
  (`MovedInOrder`), so when it lacks a block no writer of it has moved all, and the one
  that moved the header is still moving or was stopped (`WholeUnlessMoving`). For directories,
  `EntriesVerified` says what was verified: all entries but those sent as the last, of which
  the commit verifies the one that came last. A peer that announced the true number has room
  for one such entry only, and the directory is exact; otherwise it contains the true one.
- `NetworkCorrect`: `NetworkSpec => []NetworkInv`, and `NetworkStoreCorrect`:
  `NetworkSpec => []BucketInv`. A step of the composition is a step of one
  component and leaves the others alone (`NetworkTakesTurns`).

`PeerServicesProofs` and `ServicesProofs` prove `ServicesKeepTheirPromises`:
`ServicesSpec => []ServicesInv`, the composition of one theorem for each service. A step of
the composition is a step of one service and leaves the others alone
(`ServicesTakeTurns`), so each invariant needs only its own steps:

- `TasksAgreeAndFallBack`: `TaskSpec => []TaskInv`, from `TaskAssumption` (the cluster is
  finite), for every cluster and any answers. What a call returns is decided when its last
  answer comes, so the invariant says what a call that still waits has done
  (`CallsUnderWay`): a single task has failed with exactly the peers of its order before
  the one it asks, a cluster task waits for someone and no payload has its two thirds. That the
  successful payload is the only one then is counting: two disjoint sets of two thirds
  are more than the cluster.
- `ReportsReachTheSummary`: `RepSpec => []RepInv`, from `RepAssumption` (peers are finite,
  sizes natural). The summary is a bag of values beside a cache of peers; that the two
  agree (`SummaryMirrors`) is proved once for a bag, a set of peers and the change of one
  value, and then used for an insertion, an update and an eviction of each statistic. An
  evicted peer starts again from nothing (`CacheInOrder`), which is also why bytes are
  submitted once.
- `PingsReportedOnce`: `PingerSpec => []PingerInv`, from `PingerAssumption` (finitely
  many nodes), for any registries, the empty one included, and delays.
- `DacksSubmittedOnce`: `DackSpec => []DackInv`, from `DackAssumption`. The counts of
  `DackAccounted` are not inductive: the proof is about places (`DackPlaces`: the file
  without what is being removed, the transactions under way, the signed ones, each by the
  number of stops and failed removals before it, and what failures have lost), and the
  counts follow.
- `FirewallKeepsToItsRates`: `FirewallSpec => []FirewallInv`, from `FirewallAssumption`
  (lists of rules, a clock that ticks), with rules of 0 requests and empty lists. `RateBounded`
  speaks of pairs of past requests and of the entries made between them (`EntriesMade`); it
  is inductive only with the balance of a bucket since each of them (`TokensBalance`): what
  was let through and is still held comes out of one full bucket for each entry and what was
  filled in. Its products are handled in lemmas of their own.
- `ArchiveFindsWholeBlocks`: `ArchiveSpec => []ArchiveInv`, from `ArchiveAssumption`, for any
  blocks, lags and stops. A receipt may be overwritten by a later block, so "whole" needs
  that blocks are stored in their order (`BlocksInOrder`); in the middle of a block
  exactly the puts before the next one are done (`StoredSoFar`), and a block whose puts
  failed or were interrupted is not claimed to be whole.
- `ResolverFamiliesAgree`: `ResolverSpec => []ResolverInv`, from `ResolverAssumption`, for any
  records and stops. An entry that was read is still what the hash has when it is written, or
  two writers were noticed (`StoresKeep`).

Where proving changed the model: `CkptInv`, `SignerInv`, `ValidatorInv`,
`ShutdownInv`, `HandshakeInv`, `TablesInv`, `ClientsInv`, `ServicesInv`, `NetworkInv` and
`BucketInv` were strengthened until they were inductive, and the runs check the stronger
forms. Some properties turned out to be true only of the instances: `ClusterAgrees` of a cluster that is not empty (the code returns no answers at
once), `ReportsConserved` of `reporter_buffer_size` 1, `NoSlotLost` of a counter with at least
four values for each stream that is closed (with fewer it comes round again; a usize has
them), and that what a download asks for and what it waits for are disjoint of directories without
shared children. Some state was changed into a form
that can be reasoned about: the archive's unfinished puts are a block and the place of the next put,
the file of acknowledgments is a sequence with the number of entries to be removed,
the cache of the reputation aggregator is the order of use beside the measurements, what
is below a directory is the least set closed under children, and the bytes of a file are one
operator of their first and last place (`Bytes`), which the writers cut and join.

Model-checked only:

- liveness under fairness, which is outside the prover;
- `StreamInv`: what a recursive definition computes for every input needs induction
  over data, which the installed provers cannot do; the same holds of sums over nodes
  and accounts (`SupplyOnlySlashed`, `LedgerInv`, `RewardsWithinEmissions`).

## 5. What is not modelled

- Reputation scores: which node's uptime is below the limit is any choice that
  rests on enough measurements.
- The second transition task that starts when the committee changes within an
  epoch (`BeaconNode` uses stakes that no slash takes below the minimum).
- Transactions that are one guarded write: services, protocol parameters, approval
  of client keys. State roots and checkpoint files.
- The estimates of times between blocks and of response times, which set the
  length of timers and the order of attempts.
- That `StartNarwhal` reads the epoch, the store and the index in one step: the
  code reads them one after the other while the worker may execute queued outputs.
- Queries (rpc, reading of buckets), the directory format, frames and other
  encodings.
- Narwhal and Bullshark, RocksDB, QUIC and cryptography are external.

Of the lines of the repository most are not of this kind. The services and the
SDK (a JavaScript runtime, AI, SGX and their clients), the command line, transports
(TCP, HTTP, WebRTC, WebTransport), origins, types and interfaces, cryptography,
storage backends, the network simulator and `blake3-tree` (the predecessor of the
b3fs proofs) keep no state that several steps or actors share, or only hand bytes
on. The map covers about an eighth of all lines, and nearly every state-changing
handler of the node's core.

## 6. Plan

Extending the model: `BeaconNode` with era changes, two transition tasks of one
epoch; an abstract replicated log that `ValidatorExecution` and `EdgeExecution`
implement; an abstract account sequence "executed in the order signed, each at most
once" that `Signer` implements; the service executor's streams; reads of a
directory while it is replaced.

Proving more: every invariant of the runs but `LedgerInv` and `StreamInv` is proved. The sums of
`LedgerInv` over nodes need a lemma about the change of one summand, the proofs of
`StreamInv` an induction over the tree; both wait for a prover that can instantiate the
library's induction theorems.
