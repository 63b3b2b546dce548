------------------------- MODULE EdgeExecutionProofs -------------------------
(***************************************************************************)
(* Proof that a node following the chain by gossip executes exactly the    *)
(* blocks consensus ordered, for every chain, every assignment of epochs   *)
(* and committees to its blocks, and any number of diverged validators     *)
(* below every committee's quorum.                                         *)
(***************************************************************************)
EXTENDS EdgeExecution, FiniteSetTheorems, TLAPS

\* The quorum of a committee is a natural number.
LEMMA ThresholdType ==
    ASSUME NEW S \in SUBSET Nodes
    PROVE  Threshold(S) \in Nat
<1>1. IsFiniteSet(S)
    BY FS_Subset, ChainAssumption DEF ChainAssumption
<1>2. Cardinality(S) \in Nat
    BY <1>1, FS_CardinalityType
<1> QED
    BY <1>2 DEF Threshold

\* A digest with a quorum of attestations is one of the chain's, and one of them is
\* stamped with its epoch: the quorum is larger than the set of diverged validators.
LEMMA QuorumAttestsChain ==
    ASSUME TypeOK, Attested(store.prev), Attested(store.cur),
           NEW d \in Digests, HasQuorum(d)
    PROVE  /\ d \in Chain
           /\ \E m \in store.cur.attestations \cup store.prev.attestations :
                m.epoch = ParcelEpoch(d)
<1> DEFINE A == get_attestations(d)
<1>1. /\ store.cur.attestations \in SUBSET Message
      /\ store.prev.attestations \in SUBSET Message
    BY DEF TypeOK, Slot
<1>2. A \in SUBSET Nodes
    BY <1>1 DEF get_attestations, Message
<1>3. /\ IsFiniteSet(A) /\ Cardinality(A) \in Nat
      /\ IsFiniteSet(Diverged) /\ Cardinality(Diverged) \in Nat
    BY <1>2, FS_Subset, FS_CardinalityType, ChainAssumption DEF ChainAssumption
<1>4. committee \in SUBSET Nodes /\ Cardinality(Diverged) < Threshold(committee)
    BY ChainAssumption DEF ChainAssumption, TypeOK, committee
<1>5. Threshold(committee) \in Nat
    BY <1>4, ThresholdType
<1>6. Cardinality(Diverged) < Cardinality(A)
    BY <1>3, <1>4, <1>5 DEF HasQuorum
<1>7. ~(A \subseteq Diverged)
    BY <1>3, <1>6, FS_Subset
<1>8. PICK v \in A : v \notin Diverged
    BY <1>7
<1>9. \E m \in store.cur.attestations \cup store.prev.attestations :
        m.digest = d /\ m.from = v
    BY <1>8 DEF get_attestations
<1> QED
    BY <1>8, <1>9 DEF Attested

-----------------------------------------------------------------------------
(* The initial states and the steps that leave the worker alone.           *)

LEMMA IdleType ==
    /\ Idle \in [pc : {"idle", "try", "walk", "submit", "retry"},
                 digest : Digests \cup {Zero}, first : BOOLEAN,
                 head : Digests \cup {Zero}, chain : Seq(Digests),
                 submitted : Nat, retry : SUBSET Digests]
    /\ Idle.pc = "idle" /\ Idle.chain = << >> /\ Idle.submitted = 0
BY DEF Idle

LEMMA EmptyStoreType ==
    /\ EmptyStore \in [prev : Slot(SUBSET Parcel), cur : Slot(SUBSET Parcel),
                       next : Slot(SUBSET Message)]
    /\ Attested(EmptyStore.prev) /\ Attested(EmptyStore.cur) /\ Attested(EmptyStore.next)
BY DEF EmptyStore, Slot, Attested

LEMMA EdgeInit == Init => EdgeInv
<1> SUFFICES ASSUME Init PROVE EdgeInv
    OBVIOUS
<1>1. TypeOK
    BY IdleType, EmptyStoreType, FS_EmptySet, ChainAssumption
    DEF Init, TypeOK, ChainAssumption
<1>2. FollowsChain
    BY DEF Init, FollowsChain
<1> QED
    BY <1>1, <1>2, EmptyStoreType, IdleType DEF Init, EdgeInv, WalkInv, SubmitInv

\* A timer is a digest, and there are never more than the bound.
LEMMA TimerType ==
    ASSUME TypeOK, NEW d \in Digests, NEW T, T = set_parcel_timer(d) \/ T = timeouts
    PROVE  T \subseteq Digests /\ IsFiniteSet(T) /\ Cardinality(T) <= MaxTimeouts
<1>1. CASE T = timeouts \/ d \in timeouts
    BY <1>1 DEF TypeOK, set_parcel_timer
<1>2. CASE T = timeouts \cup {d} /\ d \notin timeouts /\ Cardinality(timeouts) < MaxTimeouts
  <2>1. /\ IsFiniteSet(timeouts \cup {d})
        /\ Cardinality(timeouts \cup {d}) = Cardinality(timeouts) + 1
    BY <1>2, FS_AddElement DEF TypeOK
  <2>2. Cardinality(timeouts) \in Nat
    BY FS_CardinalityType DEF TypeOK
  <2> QED
    BY <1>2, <2>1, <2>2, ChainAssumption DEF TypeOK, ChainAssumption
<1> QED
    BY <1>1, <1>2 DEF set_parcel_timer

\* The store keeps its type and its attestations when the epoch changes.
LEMMA StoreAfterType ==
    ASSUME NEW s \in [prev : Slot(SUBSET Parcel), cur : Slot(SUBSET Parcel),
                      next : Slot(SUBSET Message)],
           Attested(s.prev), Attested(s.cur), Attested(s.next),
           NEW h \in Digests \cup {Zero}
    PROVE  /\ StoreAfter(s, h) \in [prev : Slot(SUBSET Parcel), cur : Slot(SUBSET Parcel),
                                    next : Slot(SUBSET Message)]
           /\ Attested(StoreAfter(s, h).prev) /\ Attested(StoreAfter(s, h).cur)
           /\ Attested(StoreAfter(s, h).next)
<1> DEFINE members == CommitteeAfter[h]
           P == {Stamped(m) : m \in {p \in s.next.parcels : p.from \in members}}
           A == {a \in s.next.attestations : a.from \in members}
<1>1. P \in SUBSET Parcel /\ A \in SUBSET Message
    BY DEF Slot, Message, Parcel, Stamped
<1>2. change_epoch(s, members) =
        [prev |-> s.cur, cur |-> [parcels |-> P, attestations |-> A],
         next |-> [parcels |-> {}, attestations |-> {}]]
    BY DEF change_epoch
<1> HIDE DEF P
<1>3. change_epoch(s, members) \in [prev : Slot(SUBSET Parcel), cur : Slot(SUBSET Parcel),
                                    next : Slot(SUBSET Message)]
    BY <1>1, <1>2 DEF Slot
<1>4. /\ Attested(change_epoch(s, members).prev)
      /\ Attested(change_epoch(s, members).cur)
      /\ Attested(change_epoch(s, members).next)
    BY <1>2 DEF Attested
<1> QED
    BY <1>3, <1>4 DEF StoreAfter

\* The next block of the chain keeps the log a part of it.
LEMMA AppendFollows ==
    ASSUME TypeOK, FollowsChain, NEW d \in Chain, last_executed[d] = head,
           head' = d, log' = Append(log, d)
    PROVE  FollowsChain' /\ log' \in Seq(Digests) /\ head' \in Digests
<1>1. log \in Seq(Digests) /\ d \in Digests
    BY ChainAssumption DEF TypeOK, ChainAssumption
<1>2. /\ log' \in Seq(Digests) /\ Len(log') = Len(log) + 1 /\ Len(log) \in Nat
      /\ \A i \in 1 .. Len(log) : log'[i] = log[i]
      /\ log'[Len(log) + 1] = d
    BY <1>1
<1>3. ASSUME NEW i \in 1 .. Len(log')
      PROVE  /\ log'[i] \in Chain
             /\ last_executed[log'[i]] = IF i = 1 THEN Zero ELSE log'[i - 1]
  <2>1. CASE i <= Len(log)
    <3>1. i \in 1 .. Len(log) /\ (i # 1 => i - 1 \in 1 .. Len(log))
      BY <1>2, <2>1
    <3> QED
      BY <1>2, <3>1 DEF FollowsChain
  <2>2. CASE i = Len(log) + 1
    <3>1. CASE log = << >>
      BY <1>2, <2>2, <3>1 DEF FollowsChain
    <3>2. CASE log # << >>
      <4>1. Len(log) \in 1 .. Len(log) /\ i # 1 /\ i - 1 = Len(log)
        BY <1>1, <1>2, <2>2, <3>2
      <4> QED
        BY <1>2, <2>2, <3>2, <4>1 DEF FollowsChain
    <3> QED
      BY <3>1, <3>2
  <2> QED
    BY <1>2, <2>1, <2>2
<1>4. log' # << >>
    BY <1>2
<1> QED
    BY <1>1, <1>2, <1>3, <1>4 DEF FollowsChain

-----------------------------------------------------------------------------
(* The steps.  A step that does not execute a block keeps FollowsChain; one *)
(* that leaves the worker between two digests keeps what is said of walks. *)

StoreType == [prev : Slot(SUBSET Parcel), cur : Slot(SUBSET Parcel),
              next : Slot(SUBSET Message)]

WorkerType == [pc : {"idle", "try", "walk", "submit", "retry"},
               digest : Digests \cup {Zero}, first : BOOLEAN,
               head : Digests \cup {Zero}, chain : Seq(Digests),
               submitted : Nat, retry : SUBSET Digests]

StoreInv ==
    /\ store \in StoreType
    /\ Attested(store.prev) /\ Attested(store.cur) /\ Attested(store.next)

WorkerInv ==
    /\ worker \in WorkerType
    /\ worker.pc \in {"try", "retry"} => worker.chain = << >>
    /\ worker.pc = "try" => worker.digest \in Digests
    /\ worker.pc # "submit" => worker.submitted = 0
    /\ WalkInv
    /\ SubmitInv

LogInv ==
    /\ head \in Digests \cup {Zero} /\ log \in Seq(Digests)
    /\ FollowsChain

RestInv ==
    /\ ctx \in Digests \cup {Zero}
    /\ pending \subseteq Digests /\ executed \subseteq Digests
    /\ timeouts \subseteq Digests /\ IsFiniteSet(timeouts)
    /\ Cardinality(timeouts) <= MaxTimeouts
    /\ requests \subseteq Digests
    /\ restarts \in 0 .. MaxRestarts

\* The inductive invariant by the part of the state it is about.
LEMMA Parts == EdgeInv <=> StoreInv /\ WorkerInv /\ LogInv /\ RestInv
BY DEF EdgeInv, TypeOK, StoreInv, WorkerInv, LogInv, RestInv, StoreType, WorkerType

LEMMA PartsNext == EdgeInv' <=> StoreInv' /\ WorkerInv' /\ LogInv' /\ RestInv'
BY DEF EdgeInv, TypeOK, StoreInv, WorkerInv, LogInv, RestInv, StoreType, WorkerType

LEMMA SameLog ==
    ASSUME LogInv, head' = head, log' = log
    PROVE  LogInv'
BY DEF LogInv, FollowsChain

LEMMA SameStore ==
    ASSUME StoreInv, store' = store
    PROVE  StoreInv'
BY DEF StoreInv, Attested

\* Between two digests nothing is walked or submitted.
LEMMA Resting ==
    ASSUME NEW w \in WorkerType, worker' = w, w.pc \in {"idle", "try", "retry"},
           w.chain = << >>, w.submitted = 0, w.pc = "try" => w.digest \in Digests
    PROVE  WorkerInv'
BY DEF WorkerInv, WalkInv, SubmitInv

LEMMA StartType ==
    ASSUME WorkerInv, worker.pc = "idle", head' = head,
           NEW d \in Digests, StartExecuteDigest(d)
    PROVE  WorkerInv'
<1>1. CASE on_committee
    BY <1>1 DEF StartExecuteDigest, WorkerInv, WalkInv, SubmitInv
<1>2. CASE ~on_committee
  <2> DEFINE w == [Idle EXCEPT !.pc = "try", !.digest = d, !.first = TRUE]
  <2>1. /\ w \in WorkerType /\ w.pc = "try" /\ w.chain = << >>
        /\ w.submitted = 0 /\ w.digest = d
    BY IdleType DEF WorkerType
  <2>2. worker' = w
    BY <1>2 DEF StartExecuteDigest
  <2> HIDE DEF w
  <2> QED
    BY <2>1, <2>2, Resting
<1> QED
    BY <1>1, <1>2

LEMMA ReceiveParcelStep ==
    ASSUME EdgeInv, NEW m \in Message, ReceiveParcel(m)
    PROVE  EdgeInv'
<1>1. StoreInv /\ WorkerInv /\ LogInv /\ RestInv
    BY Parts
<1>2. m.digest \in Digests /\ last_executed[m.digest] \in Digests \cup {Zero}
    BY ChainAssumption DEF Message, ChainAssumption
<1>3. StoreInv'
  <2> DEFINE N == AddParcel(store.next.parcels, m)
             C == AddParcel(store.cur.parcels, Stamped(m))
  <2>1. store \in StoreType
    BY <1>1 DEF StoreInv
  <2>2. N \in SUBSET Message /\ C \in SUBSET Parcel
    BY <2>1 DEF StoreType, Slot, AddParcel, Stamped, Message, Parcel
  <2>3. store' = [store EXCEPT !.next.parcels = N] \/ store' = [store EXCEPT !.cur.parcels = C]
    BY DEF ReceiveParcel, StoreParcel
  <2> HIDE DEF N, C
  <2>4. store' \in StoreType
    BY <2>1, <2>2, <2>3 DEF StoreType, Slot
  <2>5. /\ store'.prev.attestations = store.prev.attestations
        /\ store'.cur.attestations = store.cur.attestations
        /\ store'.next.attestations = store.next.attestations
    BY <2>1, <2>3 DEF StoreType, Slot
  <2> QED
    BY <1>1, <2>4, <2>5 DEF StoreInv, Attested
<1>4. WorkerInv'
    BY <1>1, <1>2, StartType DEF ReceiveParcel
<1>5. LogInv'
    BY <1>1, SameLog DEF ReceiveParcel
<1>6. /\ timeouts' \subseteq Digests /\ IsFiniteSet(timeouts')
      /\ Cardinality(timeouts') <= MaxTimeouts
  <2>1. CASE m.digest \in requests /\ last_executed[m.digest] # Zero
    BY <1>2, <2>1, TimerType DEF EdgeInv, ReceiveParcel
  <2>2. CASE ~(m.digest \in requests /\ last_executed[m.digest] # Zero)
    BY <1>1, <2>2 DEF RestInv, ReceiveParcel
  <2> QED
    BY <2>1, <2>2
<1>7. RestInv'
    BY <1>1, <1>6 DEF RestInv, ReceiveParcel
<1> QED
    BY <1>3, <1>4, <1>5, <1>7, PartsNext

LEMMA ReceiveAttestationStep ==
    ASSUME EdgeInv, NEW m \in Message, ReceiveAttestation(m)
    PROVE  EdgeInv'
<1>1. StoreInv /\ WorkerInv /\ LogInv /\ RestInv
    BY Parts
<1>2. /\ m.digest \in Digests
      /\ (m.digest \in Chain /\ m.epoch = ParcelEpoch(m.digest)) \/ m.from \in Diverged
    BY DEF Message, ReceiveAttestation, Broadcast
<1>3. StoreInv'
    BY <1>1, <1>2 DEF ReceiveAttestation, StoreInv, StoreType, Slot, Attested
<1>4. WorkerInv'
    BY <1>1, <1>2, StartType DEF ReceiveAttestation
<1>5. LogInv'
    BY <1>1, SameLog DEF ReceiveAttestation
<1>6. RestInv'
    BY <1>1 DEF RestInv, ReceiveAttestation
<1> QED
    BY <1>3, <1>4, <1>5, <1>6, PartsNext

LEMMA TimeoutStep ==
    ASSUME EdgeInv, NEW d \in Digests, Timeout(d)
    PROVE  EdgeInv'
<1>1. StoreInv /\ WorkerInv /\ LogInv /\ RestInv
    BY Parts
<1>2. StoreInv' /\ LogInv'
    BY <1>1, SameLog, SameStore DEF Timeout
<1>3. WorkerInv'
    BY <1>1 DEF Timeout, WorkerInv, WalkInv, SubmitInv
<1>4. IsFiniteSet(timeouts') /\ Cardinality(timeouts') <= MaxTimeouts
  <2>1. /\ IsFiniteSet(timeouts \ {d})
        /\ Cardinality(timeouts \ {d}) = Cardinality(timeouts) - 1
        /\ Cardinality(timeouts) \in Nat
    BY <1>1, FS_RemoveElement, FS_CardinalityType DEF Timeout, RestInv
  <2> QED
    BY <1>1, <2>1, ChainAssumption DEF Timeout, RestInv, ChainAssumption
<1>5. requests' \subseteq Digests
    BY <1>1 DEF Timeout, RestInv, KeptRequests
<1>6. RestInv'
    BY <1>1, <1>4, <1>5 DEF Timeout, RestInv
<1> QED
    BY <1>2, <1>3, <1>6, PartsNext

LEMMA ConsensusOutputStep ==
    ASSUME EdgeInv, NEW d \in Digests, ConsensusOutput(d)
    PROVE  EdgeInv'
<1>1. StoreInv /\ WorkerInv /\ LogInv /\ RestInv
    BY Parts
<1>2. LogInv'
    BY AppendFollows DEF ConsensusOutput, EdgeInv, LogInv
<1>3. StoreInv'
  <2> DEFINE own == [digest |-> d, epoch |-> current_epoch]
             C == AddParcel(store.cur.parcels, own)
             s == [store EXCEPT !.cur.parcels = C]
  <2>0. own \in Parcel
    BY <1>1, ChainAssumption DEF Parcel, Epochs, current_epoch, LogInv, ChainAssumption
  <2>1. s \in StoreType /\ Attested(s.prev) /\ Attested(s.cur) /\ Attested(s.next)
    <3>1. C \in SUBSET Parcel
      BY <1>1, <2>0 DEF StoreInv, StoreType, Slot, AddParcel
    <3> HIDE DEF C
    <3> QED
      BY <1>1, <3>1 DEF StoreInv, StoreType, Slot, Attested
  <2>2. store' = StoreAfter(s, d)
    BY DEF ConsensusOutput
  <2> HIDE DEF s
  <2> QED
    BY <2>1, <2>2, StoreAfterType DEF StoreInv, StoreType
<1>4. WorkerInv'
    BY <1>1 DEF ConsensusOutput, WorkerInv, WalkInv, SubmitInv
<1>5. RestInv'
    BY <1>1 DEF ConsensusOutput, RestInv, Reconfigure
<1> QED
    BY <1>2, <1>3, <1>4, <1>5, PartsNext

\* The worker leaves a digest: for the next pending one, or for good.
LEMMA LeaveDigest ==
    ASSUME WorkerInv, NEW P \in SUBSET Digests, Continue(P) \/ Fail
    PROVE  WorkerInv'
<1> DEFINE w(R) == [Idle EXCEPT !.pc = "retry", !.retry = R]
<1>1. ASSUME NEW R \in SUBSET Digests
      PROVE  /\ w(R) \in WorkerType /\ w(R).pc = "retry"
             /\ w(R).chain = << >> /\ w(R).submitted = 0
    BY IdleType DEF WorkerType
<1>2. worker.retry \in SUBSET Digests
    BY DEF WorkerInv, WorkerType
<1>3. PICK R \in SUBSET Digests : worker' = w(R) \/ worker' = Idle
    BY <1>2 DEF Continue, Fail
<1>4. Idle \in WorkerType
    BY IdleType DEF WorkerType
<1> HIDE DEF w
<1>5. CASE worker' = w(R)
    BY <1>1, <1>5, Resting
<1>6. CASE worker' = Idle
    BY <1>4, <1>6, IdleType, Resting
<1> QED
    BY <1>3, <1>5, <1>6

LEMMA TryExecuteStep ==
    ASSUME EdgeInv, TryExecute
    PROVE  EdgeInv'
<1>1. StoreInv /\ WorkerInv /\ LogInv /\ RestInv
    BY Parts
<1>2. StoreInv' /\ LogInv'
    BY <1>1, SameLog, SameStore DEF TryExecute
<1>3. RestInv'
    BY <1>1 DEF TryExecute, RestInv
<1>4. WorkerInv'
  <2>1. CASE worker' = [worker EXCEPT !.pc = "walk", !.head = head]
             /\ HasQuorum(worker.digest)
    <3>1. worker.digest \in Digests /\ worker.chain = << >> /\ worker.submitted = 0
      BY <1>1 DEF WorkerInv, TryExecute
    <3>2. worker.digest \in Chain
      BY <2>1, <3>1, QuorumAttestsChain DEF EdgeInv
    <3>3. /\ worker' \in WorkerType /\ worker'.pc = "walk" /\ worker'.head = head
          /\ worker'.digest = worker.digest /\ worker'.chain = << >>
          /\ worker'.submitted = 0
      BY <1>1, <2>1, <3>1 DEF WorkerInv, WorkerType, LogInv
    <3>4. head' = head
      BY DEF TryExecute
    <3> QED
      BY <3>2, <3>3, <3>4 DEF WorkerInv, WalkInv, SubmitInv, Linked
  <2>2. CASE Continue(pending)
    BY <1>1, <2>2, LeaveDigest DEF RestInv
  <2> QED
    BY <2>1, <2>2 DEF TryExecute
<1> QED
    BY <1>2, <1>3, <1>4, PartsNext

LEMMA WalkMissingStep ==
    ASSUME EdgeInv, WalkMissing
    PROVE  EdgeInv'
<1>1. StoreInv /\ WorkerInv /\ LogInv /\ RestInv
    BY Parts
<1>2. StoreInv' /\ LogInv'
    BY <1>1, SameLog, SameStore DEF WalkMissing
<1>3. WorkerInv'
    BY <1>1, LeaveDigest DEF WalkMissing
<1>4. worker.digest \in Digests /\ worker.chain \in Seq(Digests)
    BY <1>1, ChainAssumption DEF WorkerInv, WorkerType, WalkInv, WalkMissing, ChainAssumption
<1>5. pending' \subseteq Digests
    BY <1>1, <1>4 DEF RestInv, WalkMissing
<1>6. /\ timeouts' \subseteq Digests /\ IsFiniteSet(timeouts')
      /\ Cardinality(timeouts') <= MaxTimeouts
    BY <1>4, TimerType DEF EdgeInv, WalkMissing
<1>7. RestInv'
    BY <1>1, <1>5, <1>6 DEF RestInv, WalkMissing
<1> QED
    BY <1>2, <1>3, <1>7, PartsNext

LEMMA WalkRejectedStep ==
    ASSUME EdgeInv, WalkRejected
    PROVE  EdgeInv'
<1>1. StoreInv /\ WorkerInv /\ LogInv /\ RestInv
    BY Parts
<1>2. StoreInv' /\ LogInv'
    BY <1>1, SameLog, SameStore DEF WalkRejected
<1>3. WorkerInv'
    BY <1>1, LeaveDigest DEF WalkRejected
<1>4. RestInv'
    BY <1>1 DEF RestInv, WalkRejected
<1> QED
    BY <1>2, <1>3, <1>4, PartsNext

\* Putting the walked block in front of the chain keeps it linked.
LEMMA LinkedFront ==
    ASSUME NEW c \in Seq(Digests), Linked(c), NEW d \in Chain,
           c # << >> => last_executed[c[1]] = d
    PROVE  /\ Linked(<<d>> \o c) /\ <<d>> \o c \in Seq(Digests)
           /\ <<d>> \o c # << >> /\ (<<d>> \o c)[1] = d
<1> DEFINE e == <<d>> \o c
<1>1. /\ e \in Seq(Digests) /\ Len(e) = Len(c) + 1 /\ Len(c) \in Nat
      /\ e[1] = d /\ \A i \in 2 .. Len(e) : e[i] = c[i - 1]
    BY ChainAssumption DEF ChainAssumption
<1> HIDE DEF e
<1>2. ASSUME NEW i \in 1 .. Len(e)
      PROVE  e[i] \in Chain
  <2>1. CASE i = 1
    BY <1>1, <2>1
  <2>2. CASE i # 1
    <3>1. i \in 2 .. Len(e) /\ i - 1 \in 1 .. Len(c)
      BY <1>1, <2>2
    <3> QED
      BY <1>1, <3>1 DEF Linked
  <2> QED
    BY <2>1, <2>2
<1>3. ASSUME NEW i \in 2 .. Len(e)
      PROVE  last_executed[e[i]] = e[i - 1]
  <2>1. CASE i = 2
    <3>1. c # << >> /\ e[2] = c[1]
      BY <1>1, <2>1
    <3> QED
      BY <1>1, <2>1, <3>1
  <2>2. CASE i # 2
    <3>1. i - 1 \in 2 .. Len(e) /\ i - 1 \in 2 .. Len(c)
      BY <1>1, <2>2
    <3>2. e[i] = c[i - 1] /\ e[i - 1] = c[i - 1 - 1]
      BY <1>1, <3>1
    <3> QED
      BY <3>1, <3>2 DEF Linked
  <2> QED
    BY <2>1, <2>2
<1>4. Linked(e) /\ e # << >>
    BY <1>1, <1>2, <1>3 DEF Linked
<1> QED
    BY <1>1, <1>4 DEF e

LEMMA WalkBackStep ==
    ASSUME EdgeInv, WalkBack
    PROVE  EdgeInv'
<1>1. StoreInv /\ WorkerInv /\ LogInv /\ RestInv
    BY Parts
<1>2. StoreInv' /\ LogInv' /\ head' = head
    BY <1>1, SameLog, SameStore DEF WalkBack
<1>3. RestInv'
    BY <1>1 DEF RestInv, WalkBack
<1> DEFINE d == worker.digest
           e == <<d>> \o worker.chain
           q == last_executed[d]
<1>4. /\ worker.pc = "walk" /\ worker.submitted = 0 /\ worker.head = head
      /\ d \in Chain /\ worker.chain \in Seq(Digests) /\ Linked(worker.chain)
      /\ worker.chain # << >> => last_executed[worker.chain[1]] = d
    BY <1>1 DEF WalkBack, WorkerInv, WorkerType, WalkInv
<1>5. Linked(e) /\ e \in Seq(Digests) /\ e # << >> /\ e[1] = d
    BY <1>4, LinkedFront
<1>6. q \in Chain \cup {Zero} /\ (q # head => q \in Chain)
    BY <1>4, ChainAssumption DEF ChainAssumption, WalkBack, Rejected
<1>7. worker' = [worker EXCEPT !.chain = e, !.pc = IF q = worker.head THEN "submit" ELSE @,
                               !.digest = q]
    BY DEF WalkBack
<1>8. q \in Digests \cup {Zero}
    BY <1>6, ChainAssumption DEF ChainAssumption
<1> HIDE DEF d, e, q
<1>9. /\ worker' \in WorkerType
      /\ worker'.chain = e /\ worker'.digest = q /\ worker'.head = head
      /\ worker'.submitted = 0
      /\ worker'.pc = IF q = head THEN "submit" ELSE "walk"
    BY <1>1, <1>4, <1>5, <1>7, <1>8 DEF WorkerInv, WorkerType
<1>10. last_executed[e[1]] = q
    BY <1>5 DEF q
<1>11. 0 <= Len(e)
    BY <1>5
<1>12. WorkerInv'
    BY <1>2, <1>5, <1>6, <1>9, <1>10, <1>11 DEF WorkerInv, WalkInv, SubmitInv
<1> QED
    BY <1>2, <1>3, <1>12, PartsNext

LEMMA SubmitStep ==
    ASSUME EdgeInv, Submit
    PROVE  EdgeInv'
<1>1. StoreInv /\ WorkerInv /\ LogInv /\ RestInv
    BY Parts
<1> DEFINE c == worker.chain
           n == worker.submitted
<1>2. /\ worker.pc = "submit" /\ c \in Seq(Digests) /\ n \in Nat /\ n < Len(c)
      /\ Linked(c)
      /\ head = IF n = 0 THEN last_executed[c[1]] ELSE c[n]
      /\ head' = c[n + 1] /\ log' = Append(log, c[n + 1])
      /\ worker' = [worker EXCEPT !.submitted = n + 1]
    BY <1>1 DEF Submit, WorkerInv, WorkerType, SubmitInv
<1> HIDE DEF c, n
<1>3. n + 1 \in 1 .. Len(c) /\ (n # 0 => n + 1 \in 2 .. Len(c)) /\ n + 1 - 1 = n
    BY <1>2
<1>4. c[n + 1] \in Chain /\ last_executed[c[n + 1]] = head
  <2>1. CASE n = 0
    BY <1>2, <1>3, <2>1 DEF Linked
  <2>2. CASE n # 0
    BY <1>2, <1>3, <2>2 DEF Linked
  <2> QED
    BY <2>1, <2>2
<1>5. LogInv'
    BY <1>2, <1>4, AppendFollows DEF EdgeInv, LogInv
<1>6. /\ worker' \in WorkerType /\ worker'.pc = "submit" /\ worker'.chain = c
      /\ worker'.submitted = n + 1
  <2>1. worker \in WorkerType /\ n + 1 \in Nat /\ worker.chain = c
    BY <1>1, <1>2 DEF WorkerInv, c
  <2> QED
    BY <1>2, <2>1 DEF WorkerType
<1>7. c # << >> /\ n + 1 <= Len(c) /\ n + 1 # 0
    BY <1>2
<1>8. WorkerInv'
    BY <1>2, <1>6, <1>7 DEF WorkerInv, WalkInv, SubmitInv
<1>9. StoreInv' /\ RestInv'
    BY <1>1, SameStore DEF Submit, RestInv
<1> QED
    BY <1>5, <1>8, <1>9, PartsNext

LEMMA SubmittedStep ==
    ASSUME EdgeInv, Submitted
    PROVE  EdgeInv'
<1>1. StoreInv /\ WorkerInv /\ LogInv /\ RestInv
    BY Parts
<1>2. StoreInv' /\ LogInv'
    BY <1>1, SameLog, SameStore DEF Submitted
<1> DEFINE done == {worker.chain[i] : i \in 1 .. Len(worker.chain)}
<1>3. done \subseteq Digests
    BY <1>1 DEF WorkerInv, WorkerType
<1>4. WorkerInv'
    BY <1>1, LeaveDigest DEF RestInv, Submitted
<1>5. RestInv'
    BY <1>1, <1>3 DEF RestInv, Submitted
<1> QED
    BY <1>2, <1>4, <1>5, PartsNext

LEMMA RetryPendingStep ==
    ASSUME EdgeInv, NEW d \in Digests, RetryPending(d)
    PROVE  EdgeInv'
<1>1. StoreInv /\ WorkerInv /\ LogInv /\ RestInv
    BY Parts
<1>2. StoreInv' /\ LogInv'
    BY <1>1, SameLog, SameStore DEF RetryPending
<1>3. RestInv'
    BY <1>1 DEF RestInv, RetryPending
<1>4. worker.chain = << >> /\ worker.submitted = 0 /\ worker.pc = "retry"
    BY <1>1 DEF WorkerInv, RetryPending
<1>5. /\ worker' \in WorkerType /\ worker'.pc \in {"try", "retry"}
      /\ worker'.chain = << >> /\ worker'.submitted = 0
      /\ worker'.pc = "try" => worker'.digest \in Digests
    BY <1>1, <1>4 DEF WorkerInv, WorkerType, RetryPending
<1>6. WorkerInv'
    BY <1>5 DEF WorkerInv, WalkInv, SubmitInv
<1> QED
    BY <1>2, <1>3, <1>6, PartsNext

LEMMA FinishExecuteDigestStep ==
    ASSUME EdgeInv, FinishExecuteDigest
    PROVE  EdgeInv'
<1>1. StoreInv /\ WorkerInv /\ LogInv /\ RestInv
    BY Parts
<1>2. LogInv'
    BY <1>1, SameLog DEF FinishExecuteDigest
<1>3. StoreInv'
    BY <1>1, StoreAfterType DEF FinishExecuteDigest, StoreInv, StoreType, LogInv
<1>4. WorkerInv'
    BY IdleType, Resting DEF FinishExecuteDigest, WorkerType
<1>5. RestInv'
    BY <1>1 DEF FinishExecuteDigest, RestInv, Reconfigure, LogInv
<1> QED
    BY <1>2, <1>3, <1>4, <1>5, PartsNext

LEMMA RestartStep ==
    ASSUME EdgeInv, Restart
    PROVE  EdgeInv'
<1>1. StoreInv /\ WorkerInv /\ LogInv /\ RestInv
    BY Parts
<1>2. LogInv'
    BY <1>1, SameLog DEF Restart
<1>3. StoreInv'
    BY EmptyStoreType DEF Restart, StoreInv, StoreType
<1>4. WorkerInv'
    BY IdleType, Resting DEF Restart, WorkerType
<1>5. RestInv'
    BY <1>1, FS_EmptySet, ChainAssumption DEF Restart, RestInv, LogInv, ChainAssumption
<1> QED
    BY <1>2, <1>3, <1>4, <1>5, PartsNext

-----------------------------------------------------------------------------
LEMMA EdgeNext == EdgeInv /\ [Next]_vars => EdgeInv'
<1> SUFFICES ASSUME EdgeInv, [Next]_vars PROVE EdgeInv'
    OBVIOUS
<1>1. ASSUME NEW m \in Message, ReceiveParcel(m) \/ ReceiveAttestation(m)
      PROVE  EdgeInv'
    BY <1>1, ReceiveParcelStep, ReceiveAttestationStep
<1>2. ASSUME NEW d \in Digests, Timeout(d) \/ ConsensusOutput(d)
      PROVE  EdgeInv'
    BY <1>2, TimeoutStep, ConsensusOutputStep
<1>3. CASE WorkerStep
    BY <1>3, TryExecuteStep, WalkMissingStep, WalkRejectedStep, WalkBackStep,
       SubmitStep, SubmittedStep, FinishExecuteDigestStep, RetryPendingStep
    DEF WorkerStep
<1>4. CASE Restart
    BY <1>4, RestartStep
<1>5. CASE UNCHANGED vars
  <2>1. StoreInv /\ WorkerInv /\ LogInv /\ RestInv
    BY Parts
  <2>2. StoreInv' /\ LogInv' /\ RestInv'
    BY <1>5, <2>1, SameLog, SameStore DEF vars, memory, RestInv
  <2>3. WorkerInv'
    BY <1>5, <2>1 DEF vars, memory, WorkerInv, WalkInv, SubmitInv
  <2> QED
    BY <2>2, <2>3, PartsNext
<1> QED
    BY <1>1, <1>2, <1>3, <1>4, <1>5 DEF Next

\* EdgeInv is an inductive invariant of the worker.
THEOREM EdgeInvariance == Spec => []EdgeInv
BY EdgeInit, EdgeNext, PTL DEF Spec

\* Whatever the network delivers, and whenever the node restarts, its worker
\* (try_execute_chain, submit_batch and handle_consensus_output) executes
\* exactly the blocks consensus ordered, each once and in order.
THEOREM FollowsChainCorrect == Spec => []FollowsChain
<1>1. EdgeInv => FollowsChain
    BY DEF EdgeInv
<1> QED
    BY <1>1, EdgeInvariance, PTL

\* The loop of try_execute_chain never looks for the parcel of the zero digest,
\* the case its comment says cannot happen.
THEOREM WalkCorrect == Spec => []WalkStaysOnParcels
<1>1. EdgeInv => WalkStaysOnParcels
    BY ChainAssumption DEF EdgeInv, WalkInv, WalkStaysOnParcels, ChainAssumption
<1> QED
    BY <1>1, EdgeInvariance, PTL

-----------------------------------------------------------------------------
(* The store and the epoch.                                                *)

\* The slots of a store s are those of the epoch e.
SlotsOf(s, e) ==
    /\ \A m \in s.cur.parcels \cup s.cur.attestations : m.epoch = e
    /\ \A m \in s.prev.parcels \cup s.prev.attestations : m.epoch + 1 = e
    /\ \A m \in s.next.parcels \cup s.next.attestations : m.epoch = e + 1

LEMMA SlotsOfStore == SlotsInStep <=> SlotsOf(store, EpochAfter[ctx])
BY DEF SlotsInStep, SlotsOf

LEMMA SlotsOfStoreNext == SlotsInStep' <=> SlotsOf(store', EpochAfter[ctx'])
BY DEF SlotsInStep, SlotsOf

LEMMA EpochTypes ==
    /\ \A h \in Digests \cup {Zero} : EpochAfter[h] \in Nat
    /\ \A d \in Digests : /\ ParcelEpoch(d) \in Nat
                          /\ EpochAfter[d] \in {ParcelEpoch(d), ParcelEpoch(d) + 1}
BY ChainAssumption DEF ChainAssumption, ParcelEpoch

LEMMA EmptySlots == \A e : SlotsOf(EmptyStore, e)
BY DEF SlotsOf, EmptyStore

\* change_epoch is called when the application is one epoch ahead: the slots move
\* on by one.
LEMMA StoreMovesOn ==
    ASSUME NEW s, NEW h \in Digests \cup {Zero}, ctx \in Digests \cup {Zero},
           SlotsOf(s, EpochAfter[ctx]),
           EpochAfter[h] \in {EpochAfter[ctx], EpochAfter[ctx] + 1}
    PROVE  SlotsOf(StoreAfter(s, h), EpochAfter[h])
<1>1. CASE EpochAfter[h] = EpochAfter[ctx]
    BY <1>1 DEF StoreAfter
<1>2. CASE EpochAfter[h] # EpochAfter[ctx]
  <2> DEFINE members == CommitteeAfter[h]
             P == {Stamped(m) : m \in {p \in s.next.parcels : p.from \in members}}
             A == {a \in s.next.attestations : a.from \in members}
  <2>1. PICK e, f : e = EpochAfter[ctx] /\ f = EpochAfter[h] /\ f = e + 1
    BY <1>2
  <2>2. StoreAfter(s, h) =
          [prev |-> s.cur, cur |-> [parcels |-> P, attestations |-> A],
           next |-> [parcels |-> {}, attestations |-> {}]]
    BY <1>2 DEF StoreAfter, change_epoch
  <2>3. /\ \A m \in P \cup A : m.epoch = f
        /\ \A m \in s.cur.parcels \cup s.cur.attestations : m.epoch + 1 = f
    BY <2>1 DEF SlotsOf, Stamped
  <2> HIDE DEF P, A
  <2> QED
    BY <2>1, <2>2, <2>3 DEF SlotsOf
<1> QED
    BY <1>1, <1>2

\* Reading the committee again puts the worker in step.
LEMMA ReconfigureInStep ==
    ASSUME NEW h, Reconfigure(h)
    PROVE  /\ EpochAfter[ctx'] = EpochAfter[h]
           /\ CommitteeAfter[ctx'] = CommitteeAfter[h]
BY DEF Reconfigure, committee

\* A worker that is idle or between two digests, on an application in step.
LEMMA RestingInStep ==
    ASSUME worker'.pc = "idle" \/ worker'.pc = "try" \/ worker'.pc = "retry",
           worker'.pc = "retry" => ~worker'.first,
           EpochAfter[head'] = EpochAfter[ctx'],
           CommitteeAfter[head'] = CommitteeAfter[ctx']
    PROVE  HeadInStep' /\ WalkInStep'
BY DEF HeadInStep, WalkInStep, InStep, committee

LEMMA StartInStep ==
    ASSUME HeadInStep, worker.pc = "idle", head' = head, ctx' = ctx,
           NEW d, StartExecuteDigest(d)
    PROVE  HeadInStep' /\ WalkInStep'
<1>1. worker'.pc = "idle" \/ worker'.pc = "try"
    BY DEF StartExecuteDigest, Idle
<1>2. EpochAfter[head] = EpochAfter[ctx] /\ CommitteeAfter[head] = CommitteeAfter[ctx]
    BY DEF HeadInStep, InStep, committee
<1> QED
    BY <1>1, <1>2, RestingInStep

\* The worker leaves a digest: an error of the first one finds the application in
\* step, the pending ones are tried in whatever epoch it is in now.
LEMMA LeaveInStep ==
    ASSUME EdgeInv, HeadInStep, head' = head, ctx' = ctx, NEW P,
           \/ Continue(P)
           \/ Fail /\ worker.pc = "walk"
    PROVE  HeadInStep' /\ WalkInStep'
<1>1. \/ worker'.pc = "retry" /\ worker'.first = FALSE
      \/ worker'.pc = "idle" /\ worker.pc = "walk" /\ worker.first
  <2> DEFINE w(R) == [Idle EXCEPT !.pc = "retry", !.retry = R]
  <2>1. \A R : w(R).pc = "retry" /\ w(R).first = FALSE
    BY DEF Idle
  <2>2. Idle.pc = "idle"
    BY IdleType
  <2>3. \/ worker' = Idle /\ worker.pc = "walk" /\ worker.first
        \/ \E R : worker' = w(R)
    BY Zenon DEF Continue, Fail
  <2> HIDE DEF w
  <2> QED
    BY <2>1, <2>2, <2>3
<1>2. EpochAfter[head] \in {EpochAfter[ctx], EpochAfter[ctx] + 1}
    BY DEF HeadInStep
<1>3. CASE worker'.pc = "retry" /\ worker'.first = FALSE
    BY <1>2, <1>3 DEF HeadInStep, WalkInStep
<1>4. CASE worker'.pc = "idle" /\ worker.pc = "walk" /\ worker.first
    BY <1>2, <1>4 DEF HeadInStep, WalkInStep, InStep, committee
<1> QED
    BY <1>1, <1>3, <1>4

LEMMA MessageInStep ==
    ASSUME EdgeInv, StoreFollowsEpoch, NEW m \in Message,
           ReceiveParcel(m) \/ ReceiveAttestation(m)
    PROVE  StoreFollowsEpoch'
<1>1. /\ worker.pc = "idle" /\ head' = head /\ ctx' = ctx
      /\ StartExecuteDigest(m.digest) /\ is_valid_message(m)
    BY DEF ReceiveParcel, ReceiveAttestation
<1>2. HeadInStep' /\ WalkInStep'
    BY <1>1, StartInStep DEF StoreFollowsEpoch
<1>3. PICK e : e = EpochAfter[ctx] /\ e = EpochAfter[head]
    BY <1>1 DEF StoreFollowsEpoch, HeadInStep, InStep
<1>4. /\ from_next_epoch(m) => m.epoch = e + 1
      /\ ~from_next_epoch(m) => m.epoch = e
    BY <1>1, <1>3 DEF is_valid_message, from_next_epoch, current_epoch
<1>5. SlotsOf(store, e) /\ store \in StoreType
    BY <1>3, SlotsOfStore, Parts DEF StoreFollowsEpoch, StoreInv
<1>6. SlotsOf(store', e)
  <2>1. CASE ReceiveParcel(m)
    BY <1>4, <1>5, <2>1
    DEF ReceiveParcel, StoreParcel, AddParcel, Stamped, SlotsOf, StoreType, Slot
  <2>2. CASE ReceiveAttestation(m)
    BY <1>4, <1>5, <2>2 DEF ReceiveAttestation, SlotsOf, StoreType, Slot
  <2> QED
    BY <2>1, <2>2
<1>7. SlotsInStep'
    BY <1>1, <1>3, <1>6, SlotsOfStoreNext
<1> QED
    BY <1>2, <1>7 DEF StoreFollowsEpoch

LEMMA ConsensusOutputInStep ==
    ASSUME EdgeInv, StoreFollowsEpoch, NEW d \in Digests, ConsensusOutput(d)
    PROVE  StoreFollowsEpoch'
<1>1. /\ worker.pc = "idle" /\ head' = d /\ last_executed[d] = head /\ Reconfigure(d)
      /\ worker' = worker
      /\ store' = StoreAfter([store EXCEPT !.cur.parcels =
                    AddParcel(@, [digest |-> d, epoch |-> current_epoch])], d)
    BY DEF ConsensusOutput
<1>2. EpochAfter[head] = EpochAfter[ctx]
    BY <1>1 DEF StoreFollowsEpoch, HeadInStep, InStep
<1>3. ParcelEpoch(d) = EpochAfter[ctx] /\ ctx \in Digests \cup {Zero}
    BY <1>1, <1>2 DEF ParcelEpoch, EdgeInv, TypeOK
<1>4. EpochAfter[d] \in {EpochAfter[ctx], EpochAfter[ctx] + 1}
    BY <1>3, EpochTypes
<1> DEFINE own == [digest |-> d, epoch |-> current_epoch]
           s == [store EXCEPT !.cur.parcels = AddParcel(@, own)]
<1>5. PICK e : e = EpochAfter[ctx]
    OBVIOUS
<1>6. SlotsOf(s, e)
  <2>1. SlotsOf(store, e) /\ store \in StoreType
    BY <1>5, SlotsOfStore, Parts DEF StoreFollowsEpoch, StoreInv
  <2> QED
    BY <1>2, <1>5, <2>1 DEF SlotsOf, StoreType, Slot, AddParcel, current_epoch
<1>7. store' = StoreAfter(s, d)
    BY <1>1
<1> HIDE DEF s
<1>8. SlotsOf(store', EpochAfter[d])
    BY <1>3, <1>4, <1>5, <1>6, <1>7, StoreMovesOn
<1>9. /\ EpochAfter[ctx'] = EpochAfter[d]
      /\ CommitteeAfter[ctx'] = CommitteeAfter[d]
    BY <1>1, ReconfigureInStep
<1>10. HeadInStep' /\ WalkInStep'
    BY <1>1, <1>9, RestingInStep
<1> QED
    BY <1>8, <1>9, <1>10, SlotsOfStoreNext DEF StoreFollowsEpoch

LEMMA FinishInStep ==
    ASSUME EdgeInv, StoreFollowsEpoch, FinishExecuteDigest
    PROVE  StoreFollowsEpoch'
<1>1. head \in Digests \cup {Zero} /\ ctx \in Digests \cup {Zero} /\ head' = head
    BY DEF EdgeInv, TypeOK, FinishExecuteDigest
<1>2. EpochAfter[head] \in {EpochAfter[ctx], EpochAfter[ctx] + 1}
    BY DEF StoreFollowsEpoch, HeadInStep
<1>3. SlotsOf(store, EpochAfter[ctx])
    BY SlotsOfStore DEF StoreFollowsEpoch
<1>4. SlotsOf(store', EpochAfter[head])
    BY <1>1, <1>2, <1>3, StoreMovesOn DEF FinishExecuteDigest
<1>5. /\ EpochAfter[ctx'] = EpochAfter[head]
      /\ CommitteeAfter[ctx'] = CommitteeAfter[head]
    BY ReconfigureInStep DEF FinishExecuteDigest
<1>6. worker'.pc = "idle"
    BY DEF FinishExecuteDigest, Idle
<1>7. HeadInStep' /\ WalkInStep'
    BY <1>1, <1>5, <1>6, RestingInStep
<1> QED
    BY <1>4, <1>5, <1>7, SlotsOfStoreNext DEF StoreFollowsEpoch

LEMMA RestartInStep ==
    ASSUME EdgeInv, StoreFollowsEpoch, Restart
    PROVE  StoreFollowsEpoch'
<1>1. ctx' = head /\ head' = head /\ store' = EmptyStore /\ worker'.pc = "idle"
    BY DEF Restart, Idle
<1>2. SlotsInStep'
    BY <1>1, EmptySlots, SlotsOfStoreNext
<1>3. HeadInStep' /\ WalkInStep'
    BY <1>1, RestingInStep
<1> QED
    BY <1>2, <1>3 DEF StoreFollowsEpoch

\* A step of the worker that leaves the store and what it read alone.
LEMMA SameSlots ==
    ASSUME StoreFollowsEpoch, store' = store, ctx' = ctx
    PROVE  SlotsInStep'
BY DEF StoreFollowsEpoch, SlotsInStep

\* A digest with a quorum is of no later epoch than the worker read.
LEMMA QuorumInStep ==
    ASSUME EdgeInv, StoreFollowsEpoch, NEW d \in Digests, HasQuorum(d)
    PROVE  ParcelEpoch(d) <= EpochAfter[ctx]
<1>1. PICK m \in store.cur.attestations \cup store.prev.attestations :
        m.epoch = ParcelEpoch(d)
    BY QuorumAttestsChain DEF EdgeInv
<1>2. PICK p \in Nat : p = ParcelEpoch(d)
    BY EpochTypes
<1>3. PICK e \in Nat : e = EpochAfter[ctx]
    BY EpochTypes DEF EdgeInv, TypeOK
<1>4. p = e \/ p + 1 = e
    BY <1>1, <1>2, <1>3 DEF StoreFollowsEpoch, SlotsInStep
<1> QED
    BY <1>2, <1>3, <1>4

LEMMA TryInStep ==
    ASSUME EdgeInv, StoreFollowsEpoch, TryExecute
    PROVE  StoreFollowsEpoch'
<1>1. worker.pc = "try" /\ head' = head /\ ctx' = ctx /\ store' = store
    BY DEF TryExecute
<1>2. HeadInStep' /\ WalkInStep'
  <2>1. CASE /\ worker' = [worker EXCEPT !.pc = "walk", !.head = head]
             /\ HasQuorum(worker.digest)
    <3>1. worker \in WorkerType /\ worker.chain = << >>
      BY <1>1, Parts DEF WorkerInv
    <3>2. worker'.pc = "walk" /\ worker'.first = worker.first /\ worker'.chain = << >>
      BY <2>1, <3>1 DEF WorkerType
    <3>3. worker'.digest = worker.digest /\ worker.digest \in Digests
      BY <1>1, <2>1, <3>1, Parts DEF WorkerInv, WorkerType
    <3>4. ParcelEpoch(worker.digest) <= EpochAfter[ctx]
      BY <2>1, <3>3, QuorumInStep
    <3>5. WalkInStep'
      BY <1>1, <3>2, <3>3, <3>4 DEF WalkInStep
    <3> QED
      BY <1>1, <3>2, <3>5 DEF StoreFollowsEpoch, HeadInStep, InStep, committee
  <2>2. CASE Continue(pending)
    BY <1>1, <2>2, LeaveInStep DEF StoreFollowsEpoch
  <2> QED
    BY <2>1, <2>2 DEF TryExecute
<1> QED
    BY <1>1, <1>2, SameSlots DEF StoreFollowsEpoch

\* A walk goes from a block to the one before it, which is of no later epoch.  At the
\* head it has come down to the epoch the worker read, and there all of it is.
LEMMA WalkBackInStep ==
    ASSUME EdgeInv, StoreFollowsEpoch, WalkBack
    PROVE  StoreFollowsEpoch'
<1>1. worker.pc = "walk" /\ head' = head /\ ctx' = ctx /\ store' = store
    BY DEF WalkBack
<1> DEFINE d == worker.digest
           c == worker.chain
           e == <<d>> \o c
           q == last_executed[d]
<1>2. /\ worker \in WorkerType /\ d \in Digests /\ c \in Seq(Digests)
      /\ worker.head = head /\ (c # << >> => last_executed[c[1]] = d)
    BY <1>1, Parts, ChainAssumption DEF WorkerInv, WorkerType, WalkInv, ChainAssumption
<1>3. /\ worker'.pc = (IF q = head THEN "submit" ELSE "walk")
      /\ worker'.first = worker.first /\ worker'.chain = e /\ worker'.digest = q
    BY <1>1, <1>2 DEF WalkBack, WorkerType
<1>4. PICK p \in Nat : p = ParcelEpoch(d)
    BY <1>2, EpochTypes
<1>5. PICK x \in Nat : x = EpochAfter[ctx]
    BY EpochTypes DEF EdgeInv, TypeOK
<1>6. PICK h \in Nat : h = EpochAfter[head]
    BY EpochTypes DEF EdgeInv, TypeOK
<1>7. p <= x /\ (h = x \/ h = x + 1)
    BY <1>1, <1>4, <1>5, <1>6 DEF StoreFollowsEpoch, WalkInStep, HeadInStep
<1>8. ASSUME NEW i \in 1 .. Len(e)
      PROVE  ParcelEpoch(e[i]) \in p .. x
  <2>1. CASE i = 1
    BY <1>2, <1>4, <1>7, <2>1
  <2>2. CASE i # 1
    <3>1. i - 1 \in 1 .. Len(c) /\ e[i] = c[i - 1] /\ 1 \in 1 .. Len(c) /\ c # << >>
      BY <1>2, <2>2
    <3>2. c[1] \in Digests /\ c[i - 1] \in Digests
      BY <1>2, <3>1
    <3>3. PICK f \in Nat : f = ParcelEpoch(c[1])
      BY <3>2, EpochTypes
    <3>4. PICK g \in Nat : g = ParcelEpoch(c[i - 1])
      BY <3>2, EpochTypes
    <3>5. f = EpochAfter[d] /\ EpochAfter[d] \in {p, p + 1}
      BY <1>2, <1>4, <3>1, <3>3, EpochTypes DEF ParcelEpoch
    <3>6. g \in f .. x
      BY <1>1, <1>5, <3>1, <3>3, <3>4 DEF StoreFollowsEpoch, WalkInStep
    <3>7. g \in p .. x
      BY <3>5, <3>6, <1>4
    <3> QED
      BY <3>1, <3>4, <3>7
  <2> QED
    BY <2>1, <2>2
<1>9. e[1] = d
    BY <1>2
<1> HIDE DEF e
<1>10. WalkInStep'
  <2>1. CASE q = head
    <3>1. p = x
      BY <1>4, <1>6, <1>7, <2>1 DEF ParcelEpoch
    <3>2. \A i \in 1 .. Len(e) : ParcelEpoch(e[i]) = x
      BY <1>8, <3>1
    <3> QED
      BY <1>1, <1>3, <1>5, <2>1, <3>2 DEF WalkInStep
  <2>2. CASE q # head
    <3>1. q \in Digests /\ EpochAfter[q] = p
      <4>1. worker'.digest \in Chain
        BY <1>3, <2>2, WalkBackStep DEF EdgeInv, WalkInv
      <4> QED
        BY <1>3, <1>4, <4>1, ChainAssumption DEF ChainAssumption, ParcelEpoch
    <3>2. PICK r \in Nat : r = ParcelEpoch(q)
      BY <3>1, EpochTypes
    <3>3. p = r \/ p = r + 1
      BY <3>1, <3>2, EpochTypes
    <3>4. r <= x
      BY <1>7, <3>3
    <3> QED
      BY <1>1, <1>3, <1>4, <1>5, <1>8, <1>9, <2>2, <3>2, <3>4 DEF WalkInStep
  <2> QED
    BY <2>1, <2>2
<1>11. HeadInStep'
    BY <1>1, <1>3 DEF StoreFollowsEpoch, HeadInStep, InStep, committee
<1> QED
    BY <1>1, <1>10, <1>11, SameSlots DEF StoreFollowsEpoch

LEMMA SubmitInStep ==
    ASSUME EdgeInv, StoreFollowsEpoch, Submit
    PROVE  StoreFollowsEpoch'
<1> DEFINE d == worker.chain[worker.submitted + 1]
<1>1. /\ worker.pc = "submit" /\ ctx' = ctx /\ store' = store /\ head' = d
      /\ worker.submitted < Len(worker.chain)
    BY DEF Submit
<1>2. /\ worker \in WorkerType
      /\ worker.chain \in Seq(Digests) /\ worker.submitted \in Nat
    BY Parts DEF WorkerInv, WorkerType
<1>3. worker.submitted + 1 \in 1 .. Len(worker.chain) /\ d \in Digests
    BY <1>1, <1>2
<1>4. ParcelEpoch(d) = EpochAfter[ctx]
    BY <1>1, <1>3 DEF StoreFollowsEpoch, WalkInStep
<1>5. EpochAfter[d] \in {EpochAfter[ctx], EpochAfter[ctx] + 1}
    BY <1>3, <1>4, EpochTypes
<1>6. worker'.pc = "submit" /\ worker'.chain = worker.chain
    BY <1>1, <1>2 DEF Submit, WorkerType
<1> HIDE DEF d
<1>7. HeadInStep'
    BY <1>1, <1>5, <1>6 DEF HeadInStep
<1>8. WalkInStep'
    BY <1>1, <1>6 DEF StoreFollowsEpoch, WalkInStep
<1> QED
    BY <1>1, <1>7, <1>8, SameSlots DEF StoreFollowsEpoch

LEMMA LeaveSteps ==
    ASSUME EdgeInv, StoreFollowsEpoch, WalkMissing \/ WalkRejected \/ Submitted
    PROVE  StoreFollowsEpoch'
<1>1. ctx' = ctx /\ store' = store /\ head' = head
    BY DEF WalkMissing, WalkRejected, Submitted
<1>2. \/ Fail /\ worker.pc = "walk"
      \/ \E P : Continue(P)
    BY DEF WalkMissing, WalkRejected, Submitted
<1>3. HeadInStep' /\ WalkInStep'
    BY <1>1, <1>2, LeaveInStep DEF StoreFollowsEpoch
<1> QED
    BY <1>1, <1>3, SameSlots DEF StoreFollowsEpoch

LEMMA RetryInStep ==
    ASSUME EdgeInv, StoreFollowsEpoch, NEW d \in Digests, RetryPending(d)
    PROVE  StoreFollowsEpoch'
<1>1. worker.pc = "retry" /\ ctx' = ctx /\ store' = store /\ head' = head
    BY DEF RetryPending
<1>2. worker \in WorkerType /\ ~worker.first
    BY <1>1, Parts DEF WorkerInv, StoreFollowsEpoch, HeadInStep
<1>3. (worker'.pc = "try" \/ worker'.pc = "retry") /\ worker'.first = worker.first
    BY <1>1, <1>2 DEF RetryPending, WorkerType
<1>4. HeadInStep' /\ WalkInStep'
    BY <1>1, <1>2, <1>3 DEF StoreFollowsEpoch, HeadInStep, WalkInStep
<1> QED
    BY <1>1, <1>4, SameSlots DEF StoreFollowsEpoch

LEMMA SameInStep ==
    ASSUME StoreFollowsEpoch, store' = store, ctx' = ctx, head' = head, worker' = worker
    PROVE  StoreFollowsEpoch'
BY DEF StoreFollowsEpoch, SlotsInStep, HeadInStep, WalkInStep, InStep, committee

LEMMA StoreInit == Init => StoreFollowsEpoch
<1> SUFFICES ASSUME Init PROVE StoreFollowsEpoch
    OBVIOUS
<1>1. SlotsInStep
    BY EmptySlots, SlotsOfStore DEF Init
<1> QED
    BY <1>1 DEF Init, Idle, StoreFollowsEpoch, HeadInStep, WalkInStep, InStep, committee

LEMMA StoreNext == EdgeInv /\ StoreFollowsEpoch /\ [Next]_vars => StoreFollowsEpoch'
<1> SUFFICES ASSUME EdgeInv, StoreFollowsEpoch, [Next]_vars PROVE StoreFollowsEpoch'
    OBVIOUS
<1>1. ASSUME NEW m \in Message, ReceiveParcel(m) \/ ReceiveAttestation(m)
      PROVE  StoreFollowsEpoch'
    BY <1>1, MessageInStep
<1>2. ASSUME NEW d \in Digests, ConsensusOutput(d)
      PROVE  StoreFollowsEpoch'
    BY <1>2, ConsensusOutputInStep
<1>3. ASSUME NEW d \in Digests, Timeout(d)
      PROVE  StoreFollowsEpoch'
    BY <1>3, SameInStep DEF Timeout
<1>4. CASE WorkerStep
    BY <1>4, TryInStep, WalkBackInStep, SubmitInStep, LeaveSteps, FinishInStep, RetryInStep
    DEF WorkerStep
<1>5. CASE Restart
    BY <1>5, RestartInStep
<1>6. CASE UNCHANGED vars
    BY <1>6, SameInStep DEF vars, memory
<1> QED
    BY <1>1, <1>2, <1>3, <1>4, <1>5, <1>6 DEF Next

\* Whatever is executed, rejected or retried, for any epochs and committees the
\* blocks lead to: the slots of the TransactionStore are in step with the
\* application whenever the worker takes a message, and change_epoch, which moves
\* the store by one epoch, is never called when the application is two ahead.
THEOREM StoreCorrect == Spec => []StoreFollowsEpoch
BY StoreInit, StoreNext, EdgeInvariance, PTL DEF Spec
=============================================================================
