---------------------------- MODULE EdgeExecution ----------------------------
(***************************************************************************)
(* The execution worker of a node that follows the chain by gossip         *)
(* (execution/worker.rs, execution/transaction_store.rs).  Validators      *)
(* broadcast each block they execute as a parcel, with an attestation of   *)
(* its digest.  A node that is not on the committee stores both, and when  *)
(* a digest has a quorum of attestations it walks the parcels back from it *)
(* to its own head and executes what it found.  It asks for a parcel that  *)
(* is missing.                                                             *)
(*                                                                         *)
(* The worker handles one message at a time; its state machine is modelled *)
(* step by step, so that the node may restart between two blocks of one    *)
(* chain.  What a block does is given by constants: the epoch and the      *)
(* committee after it.  A validator stamps a parcel and an attestation     *)
(* with its epoch; the digest does not cover the stamp.                    *)
(*                                                                         *)
(* The network delivers any message of a validator at any time, any number *)
(* of times, in any order, or never.  Some nodes may have diverged: they   *)
(* broadcast parcels that are not on the chain, or not theirs to attest,   *)
(* under any epoch.                                                        *)
(*                                                                         *)
(* Bounds: the digests, the forged messages, MaxRestarts restarts,         *)
(* MaxTimeouts timers and MaxRequests remembered requests (100 each in the *)
(* code).                                                                  *)
(***************************************************************************)
EXTENDS Naturals, Sequences, FiniteSets

CONSTANTS Digests,         \* digests of parcels
          Zero,            \* [0; 32], the head before the first block
          last_executed,   \* the digest of the parcel before a parcel
          EpochAfter,      \* the epoch after a block, or after genesis
          CommitteeAfter,  \* the committee after a block, or after genesis
          Chain,           \* the digests of the blocks consensus ordered
          Nodes,
          Diverged,        \* nodes that may have executed something else
          Forged,          \* what these may broadcast besides
          Self,            \* this node
          MaxTimeouts,     \* MAX_PENDING_TIMEOUTS
          MaxRequests,     \* the capacity of the cache of pending requests
          MaxRestarts

\* The epoch in which a block is executed.
ParcelEpoch(d) == EpochAfter[last_executed[d]]
Threshold(committee) == (Cardinality(committee) * 2) \div 3 + 1

ASSUME ChainAssumption ==
    /\ Zero \notin Digests
    /\ last_executed \in [Digests -> Digests \cup {Zero}]
    /\ EpochAfter \in [Digests \cup {Zero} -> Nat]
    /\ CommitteeAfter \in [Digests \cup {Zero} -> SUBSET Nodes]
    /\ \A d \in Digests : EpochAfter[d] \in {ParcelEpoch(d), ParcelEpoch(d) + 1}
    /\ Chain \subseteq Digests
    /\ \A d \in Chain : last_executed[d] \in Chain \cup {Zero}
    /\ \A d, e \in Chain : last_executed[d] = last_executed[e] => d = e
    /\ IsFiniteSet(Nodes)
    /\ Diverged \subseteq Nodes
    /\ \A h \in Digests \cup {Zero} :
         Cardinality(Diverged) < Threshold(CommitteeAfter[h])
    /\ MaxTimeouts \in Nat /\ MaxRequests \in Nat /\ MaxRestarts \in Nat

\* The epochs that a message can be taken for.
Epochs == UNION {{EpochAfter[h], EpochAfter[h] + 1} : h \in Digests \cup {Zero}}

\* What a validator of the committee broadcasts: the parcel and the attestation
\* of a block it executed, stamped with the epoch it was in.  A diverged node may
\* broadcast anything, also when it is not on the committee.
Message == [digest : Digests, from : Nodes, epoch : Epochs]
Broadcast(m) ==
    /\ m.from # Self
    /\ \/ /\ m.digest \in Chain /\ m.from \in CommitteeAfter[last_executed[m.digest]]
          /\ m.epoch = ParcelEpoch(m.digest)
       \/ m \in Forged /\ m.from \in Diverged

\* A stored parcel.
Parcel == [digest : Digests, epoch : Epochs]

VARIABLES head,     \* Metadata::LastBlockHash
          log,      \* the blocks executed so far
          ctx,      \* the head when committee and threshold were last read
          store,    \* TransactionStore: parcels and attestations of three epochs
          pending,  \* pending_digests
          executed, \* executed_digests
          timeouts, \* pending_timeouts
          requests, \* pending_requests
          worker,   \* what the worker is doing
          restarts

memory == <<ctx, store, pending, executed, timeouts, requests, worker>>
vars == <<head, log, memory, restarts>>

-----------------------------------------------------------------------------
committee == CommitteeAfter[ctx]
on_committee == Self \in committee
current_epoch == EpochAfter[head]

EmptyStore ==
    [prev |-> [parcels |-> {}, attestations |-> {}],
     cur  |-> [parcels |-> {}, attestations |-> {}],
     next |-> [parcels |-> {}, attestations |-> {}]]

\* get_parcel: the parcel of the current epoch, or else of the previous one, if there
\* is any.
get_parcel(d) ==
    LET current == {p \in store.cur.parcels : p.digest = d}
        previous == {p \in store.prev.parcels : p.digest = d}
    IN  IF current # {} THEN current ELSE previous

\* get_attestations: those of the current epoch if there are any, else those of
\* the previous one.
get_attestations(d) ==
    LET current == {m.from : m \in {a \in store.cur.attestations : a.digest = d}}
        previous == {m.from : m \in {a \in store.prev.attestations : a.digest = d}}
    IN  IF current # {} THEN current ELSE previous

\* The parcel of a message.
Stamped(m) == [digest |-> m.digest, epoch |-> m.epoch]

\* Mutation: the slot of the next epoch is not emptied.
ChangeEpochKeepsNext(s, members) ==
    [prev |-> s.cur,
     cur |-> [parcels |-> {Stamped(m) : m \in {p \in s.next.parcels : p.from \in members}},
              attestations |-> {a \in s.next.attestations : a.from \in members}],
     next |-> s.next]

\* change_epoch: what was stored for the next epoch is kept if its sender is on
\* the new committee, the previous epoch is forgotten.
change_epoch(s, members) ==
    [prev |-> s.cur,
     cur |-> [parcels |-> {Stamped(m) : m \in {p \in s.next.parcels : p.from \in members}},
              attestations |-> {a \in s.next.attestations : a.from \in members}],
     next |-> [parcels |-> {}, attestations |-> {}]]

\* The worker reads the committee again after the epoch or the era changed, and
\* the store moves on with the epoch.
Reconfigure(h) ==
    ctx' = IF EpochAfter[h] # EpochAfter[ctx] \/ CommitteeAfter[h] # committee
           THEN h ELSE ctx

StoreAfter(s, h) ==
    IF EpochAfter[h] # EpochAfter[ctx] THEN change_epoch(s, CommitteeAfter[h]) ELSE s

Idle == [pc |-> "idle", digest |-> Zero, first |-> FALSE,
         head |-> Zero, chain |-> << >>, submitted |-> 0, retry |-> {}]

Init ==
    /\ head = Zero
    /\ log = << >>
    /\ ctx = Zero
    /\ store = EmptyStore
    /\ pending = {} /\ executed = {} /\ timeouts = {} /\ requests = {}
    /\ worker = Idle
    /\ restarts = 0

-----------------------------------------------------------------------------
(* Messages.                                                               *)

is_valid_message(m) ==
    \/ m.from \in committee /\ m.epoch = current_epoch
    \/ m.epoch = current_epoch + 1

from_next_epoch(m) == m.epoch = current_epoch + 1

\* Mutations: the number of timers is not bounded; no timer is set.
TimerUnbounded(d) == timeouts \cup {d}
TimerNotSet(d) == timeouts

\* set_parcel_timer
set_parcel_timer(d) ==
    IF Cardinality(timeouts) < MaxTimeouts THEN timeouts \cup {d} ELSE timeouts

\* execute_digest is called by nodes that are not on the committee.
StartExecuteDigest(d) ==
    worker' = IF on_committee THEN worker
              ELSE [Idle EXCEPT !.pc = "try", !.digest = d, !.first = TRUE]

\* store_parcel_internal: a parcel that is stored already is not overwritten.
AddParcel(parcels, p) ==
    IF \E q \in parcels : q.digest = p.digest THEN parcels ELSE parcels \cup {p}

\* store_parcel and store_pending_parcel
StoreParcel(m) ==
    store' = IF from_next_epoch(m)
             THEN [store EXCEPT !.next.parcels = AddParcel(@, m)]
             ELSE [store EXCEPT !.cur.parcels = AddParcel(@, Stamped(m))]

\* handle_parcel.  An invalid message changes nothing here.
ReceiveParcel(m) ==
    /\ worker.pc = "idle"
    /\ Broadcast(m) /\ is_valid_message(m)
    /\ StoreParcel(m)
    /\ requests' = requests \ {m.digest}
    /\ timeouts' = IF m.digest \in requests /\ last_executed[m.digest] # Zero
                   THEN set_parcel_timer(last_executed[m.digest]) ELSE timeouts
    /\ StartExecuteDigest(m.digest)
    /\ UNCHANGED <<head, log, ctx, pending, executed, restarts>>

\* handle_attestation: a validator stores none.
ReceiveAttestation(m) ==
    /\ worker.pc = "idle"
    /\ Broadcast(m) /\ is_valid_message(m)
    /\ ~on_committee
    /\ store' = IF from_next_epoch(m)
                THEN [store EXCEPT !.next.attestations = @ \cup {m}]
                ELSE [store EXCEPT !.cur.attestations = @ \cup {m}]
    /\ StartExecuteDigest(m.digest)
    /\ UNCHANGED <<head, log, ctx, pending, executed, timeouts, requests, restarts>>

\* The cache forgets a request, any of them, when it is full.
KeptRequests(rs) == IF Cardinality(rs) <= MaxRequests THEN {rs} ELSE {rs \ {r} : r \in rs}

\* The timer of a missing parcel: if it is still missing it is requested.
Timeout(d) ==
    /\ worker.pc = "idle"
    /\ d \in timeouts
    /\ timeouts' = timeouts \ {d}
    /\ requests' \in IF get_parcel(d) # {} THEN {requests} ELSE KeptRequests(requests \cup {d})
    /\ UNCHANGED <<head, log, ctx, store, pending, executed, worker, restarts>>

\* handle_consensus_output: a validator executes the next block of consensus and
\* stores its own parcel, and moves to the next epoch if the block does.
ConsensusOutput(d) ==
    /\ worker.pc = "idle"
    /\ on_committee
    /\ d \in Chain /\ last_executed[d] = head
    /\ head' = d
    /\ log' = Append(log, d)
    /\ Reconfigure(d)
    /\ LET own == [digest |-> d, epoch |-> current_epoch] IN
       store' = StoreAfter([store EXCEPT !.cur.parcels = AddParcel(@, own)], d)
    /\ UNCHANGED <<pending, executed, timeouts, requests, worker, restarts>>

-----------------------------------------------------------------------------
(* Execution of an attested digest.                                        *)

\* Mutation: one attestation is enough.
QuorumOfOne(d) == get_attestations(d) # {}

\* try_execute_internal: the quorum of the committee as last read.
HasQuorum(d) == Cardinality(get_attestations(d)) >= Threshold(committee)

\* The first digest is done, or one of the pending ones: on to the next.
\* The pending digests are listed when the first one is done.
Continue(pendingNow) ==
    worker' = [Idle EXCEPT !.pc = "retry",
                 !.retry = IF worker.first THEN pendingNow ELSE worker.retry]

\* An error ends execute_digest for the first digest and is ignored for a
\* pending one.
Fail == worker' = IF worker.first THEN Idle
                  ELSE [Idle EXCEPT !.pc = "retry", !.retry = worker.retry]

TryExecute ==
    /\ worker.pc = "try"
    /\ IF worker.digest \notin executed /\ HasQuorum(worker.digest)
       THEN worker' = [worker EXCEPT !.pc = "walk", !.head = head]
       ELSE Continue(pending)
    /\ UNCHANGED <<head, log, ctx, store, pending, executed, timeouts, requests, restarts>>

\* Mutation: a first block is accepted on top of any head.
RejectedOldEpochOnly(d) == \E p \in get_parcel(d) : p.epoch < current_epoch

\* A parcel of an earlier epoch, or a first block although the node has a head.
Rejected(d) ==
    \/ \E p \in get_parcel(d) : p.epoch < current_epoch
    \/ last_executed[d] = Zero /\ worker.head # Zero

\* try_execute_chain: one round of its loop.
WalkMissing ==
    /\ worker.pc = "walk"
    /\ get_parcel(worker.digest) = {}
    /\ pending' = pending \cup {worker.chain[i] : i \in 1 .. Len(worker.chain)}
    /\ timeouts' = IF worker.first THEN set_parcel_timer(worker.digest) ELSE timeouts
    /\ Fail
    /\ UNCHANGED <<head, log, ctx, store, executed, requests, restarts>>

WalkRejected ==
    /\ worker.pc = "walk"
    /\ get_parcel(worker.digest) # {} /\ Rejected(worker.digest)
    /\ Fail
    /\ UNCHANGED <<head, log, ctx, store, pending, executed, timeouts, requests, restarts>>

WalkBack ==
    /\ worker.pc = "walk"
    /\ get_parcel(worker.digest) # {} /\ ~Rejected(worker.digest)
    /\ worker' = [worker EXCEPT
         !.chain = <<worker.digest>> \o @,
         !.pc = IF last_executed[worker.digest] = worker.head THEN "submit" ELSE @,
         !.digest = last_executed[worker.digest]]
    /\ UNCHANGED <<head, log, ctx, store, pending, executed, timeouts, requests, restarts>>

\* submit_batch: the application executes one parcel of the connected chain.
Submit ==
    /\ worker.pc = "submit"
    /\ worker.submitted < Len(worker.chain)
    /\ LET d == worker.chain[worker.submitted + 1]
       IN  head' = d /\ log' = Append(log, d)
    /\ worker' = [worker EXCEPT !.submitted = @ + 1]
    /\ UNCHANGED <<ctx, store, pending, executed, timeouts, requests, restarts>>

\* All parcels of the chain are marked as executed.
Submitted ==
    /\ worker.pc = "submit"
    /\ worker.submitted = Len(worker.chain)
    /\ LET done == {worker.chain[i] : i \in 1 .. Len(worker.chain)}
       IN  /\ pending' = pending \ done
           /\ executed' = executed \cup done
           /\ Continue(pending \ done)
    /\ UNCHANGED <<head, log, ctx, store, timeouts, requests, restarts>>

\* The digests that were pending are tried as well, in any order.
RetryPending(d) ==
    /\ worker.pc = "retry"
    /\ d \in worker.retry
    /\ worker' = IF d \in pending
                 THEN [worker EXCEPT !.pc = "try", !.digest = d, !.retry = @ \ {d}]
                 ELSE [worker EXCEPT !.retry = @ \ {d}]
    /\ UNCHANGED <<head, log, ctx, store, pending, executed, timeouts, requests, restarts>>

\* execute_digest after a successful try_execute.
FinishExecuteDigest ==
    /\ worker.pc = "retry"
    /\ worker.retry = {}
    /\ Reconfigure(head)
    /\ store' = StoreAfter(store, head)
    /\ worker' = Idle
    /\ UNCHANGED <<head, log, pending, executed, timeouts, requests, restarts>>

\* The node stops and starts again: the application's state survives.
Restart ==
    /\ restarts < MaxRestarts
    /\ restarts' = restarts + 1
    /\ ctx' = head
    /\ store' = EmptyStore
    /\ pending' = {} /\ executed' = {} /\ timeouts' = {} /\ requests' = {}
    /\ worker' = Idle
    /\ UNCHANGED <<head, log>>

-----------------------------------------------------------------------------
WorkerStep ==
    \/ TryExecute \/ WalkMissing \/ WalkRejected \/ WalkBack
    \/ Submit \/ Submitted \/ FinishExecuteDigest
    \/ \E d \in Digests : RetryPending(d)

Next ==
    \/ \E m \in Message : ReceiveParcel(m) \/ ReceiveAttestation(m)
    \/ \E d \in Digests : Timeout(d) \/ ConsensusOutput(d)
    \/ WorkerStep
    \/ Restart

Spec == Init /\ [][Next]_vars

\* A requested parcel arrives from some validator.
ReceiveRequested(d) ==
    /\ d \in requests
    /\ \E v \in Nodes : ReceiveParcel([digest |-> d, from |-> v, epoch |-> ParcelEpoch(d)])

\* The worker is scheduled, and between two messages it gets to each of its
\* inputs (its select is biased towards messages, so for timers this says that
\* it drains them now and then): the attestations of validators that follow the chain, which are heard
\* of again and again with later blocks, timers, and answers to its requests.
\* Parcels that were not requested may all be lost.
FairSpec ==
    /\ Spec
    /\ WF_vars(WorkerStep)
    /\ \A d \in Chain :
         /\ SF_vars(Timeout(d))
         /\ SF_vars(ReceiveRequested(d))
         /\ \A v \in CommitteeAfter[last_executed[d]] \ Diverged :
              SF_vars(ReceiveAttestation([digest |-> d, from |-> v, epoch |-> ParcelEpoch(d)]))

-----------------------------------------------------------------------------
Slot(parcels) == [parcels : parcels, attestations : SUBSET Message]

TypeOK ==
    /\ head \in Digests \cup {Zero} /\ ctx \in Digests \cup {Zero}
    /\ log \in Seq(Digests)
    /\ store \in [prev : Slot(SUBSET Parcel), cur : Slot(SUBSET Parcel),
                  next : Slot(SUBSET Message)]
    /\ pending \subseteq Digests /\ executed \subseteq Digests
    /\ timeouts \subseteq Digests /\ IsFiniteSet(timeouts)
    /\ Cardinality(timeouts) <= MaxTimeouts
    /\ requests \subseteq Digests
    /\ worker \in [pc : {"idle", "try", "walk", "submit", "retry"},
                   digest : Digests \cup {Zero}, first : BOOLEAN,
                   head : Digests \cup {Zero}, chain : Seq(Digests),
                   submitted : Nat, retry : SUBSET Digests]
    /\ restarts \in 0 .. MaxRestarts

\* The node executes exactly the blocks consensus ordered, each once and in
\* order: whatever is lost, repeated, reordered or wrong on the network, across
\* epoch and committee changes, restarts, and changes between following the
\* chain and being a validator.
FollowsChain ==
    /\ head = IF log = << >> THEN Zero ELSE log[Len(log)]
    /\ \A i \in 1 .. Len(log) :
         /\ log[i] \in Chain
         /\ last_executed[log[i]] = IF i = 1 THEN Zero ELSE log[i - 1]

\* "This case cannot happen. `current_digest` cannot be [0; 32]": the walk never
\* leaves the chain at its beginning.
WalkStaysOnParcels == worker.pc = "walk" => worker.digest # Zero

\* What the store holds and what the worker walks and submits: attestations of
\* validators that follow the chain are of its blocks and of their epochs, and a walk
\* goes along the chain down to the head.
Attested(slot) ==
    \A m \in slot.attestations :
        \/ m.digest \in Chain /\ m.epoch = ParcelEpoch(m.digest)
        \/ m.from \in Diverged

Linked(blocks) ==
    /\ \A i \in 1 .. Len(blocks) : blocks[i] \in Chain
    /\ \A i \in 2 .. Len(blocks) : last_executed[blocks[i]] = blocks[i - 1]

WalkInv ==
    worker.pc = "walk" =>
      /\ worker.head = head
      /\ worker.digest \in Chain
      /\ Linked(worker.chain)
      /\ worker.chain # << >> => last_executed[worker.chain[1]] = worker.digest

SubmitInv ==
    worker.pc = "submit" =>
      /\ worker.chain # << >>
      /\ worker.submitted <= Len(worker.chain)
      /\ Linked(worker.chain)
      /\ head = IF worker.submitted = 0 THEN last_executed[worker.chain[1]]
                ELSE worker.chain[worker.submitted]

\* The inductive invariant behind FollowsChain.
EdgeInv ==
    /\ TypeOK
    /\ FollowsChain
    /\ Attested(store.prev) /\ Attested(store.cur) /\ Attested(store.next)
    /\ worker.pc \in {"try", "retry"} => worker.chain = << >>
    /\ worker.pc = "try" => worker.digest \in Digests
    /\ worker.pc # "submit" => worker.submitted = 0
    /\ WalkInv
    /\ SubmitInv

\* The three slots of the store hold what is stamped with the epoch the worker last
\* read, with the one before and with the one after.
SlotsInStep ==
    /\ \A m \in store.cur.parcels \cup store.cur.attestations : m.epoch = EpochAfter[ctx]
    /\ \A m \in store.prev.parcels \cup store.prev.attestations :
         m.epoch + 1 = EpochAfter[ctx]
    /\ \A m \in store.next.parcels \cup store.next.attestations :
         m.epoch = EpochAfter[ctx] + 1

\* The application is in the epoch and has the committee the worker last read.
InStep == EpochAfter[head] = EpochAfter[ctx] /\ CommitteeAfter[head] = committee

\* Until the first digest of a message is submitted the application is in step;
\* then it may be ahead, by one epoch, until the worker reads it again.
HeadInStep ==
    /\ worker.pc = "idle" => InStep
    /\ worker.pc \in {"try", "walk"} /\ worker.first => InStep
    /\ worker.pc = "retry" => ~worker.first
    /\ EpochAfter[head] \in {EpochAfter[ctx], EpochAfter[ctx] + 1}

\* A walk never leads into a later epoch than the worker last read, and what it connects
\* to the head is of this epoch, also where a diverged validator stamped the
\* parcels.
WalkInStep ==
    LET epoch(i) == ParcelEpoch(worker.chain[i])
    IN  /\ worker.pc = "walk" =>
             /\ ParcelEpoch(worker.digest) <= EpochAfter[ctx]
             /\ \A i \in 1 .. Len(worker.chain) : epoch(i) \in epoch(1) .. EpochAfter[ctx]
        /\ worker.pc = "submit" =>
             \A i \in 1 .. Len(worker.chain) : epoch(i) = EpochAfter[ctx]

\* Whenever the worker takes a message, the three slots of the store are in step
\* with the application's epoch: each holds what is stamped with its own epoch, and
\* honest attestations count in the epoch of their block only.  While it executes, the
\* application is at most one epoch ahead, so that moving the store on by one epoch is
\* enough, whatever epochs diverged validators write on blocks of the chain or of
\* their own.
StoreFollowsEpoch == SlotsInStep /\ HeadInStep /\ WalkInStep

\* The node catches up with the chain although every parcel it did not ask for
\* may be lost.
CatchesUp == <>(\A d \in Chain : \E i \in 1 .. Len(log) : log[i] = d)
=============================================================================
