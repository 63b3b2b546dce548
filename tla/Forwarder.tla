------------------------------ MODULE Forwarder ------------------------------
(***************************************************************************)
(* The forwarder of a node (core/forwarder): it keeps connections to the   *)
(* mempools of committee members and submits every transaction to all of   *)
(* them.  Connections are stored under an index into the shuffled          *)
(* committee, and outlive the epoch and the shuffle they were made in.     *)
(*                                                                         *)
(* Abstractions: members are names; a mempool serves while its member is   *)
(* on the committee of the current epoch and is not down; TARGETED_        *)
(* CONNECTION_NUM is a constant; the caller repeats a failed transaction.  *)
(***************************************************************************)
EXTENDS Naturals, Sequences, FiniteSets, FiniteSetsExt, SequencesExt

CONSTANTS Committees,               \* the committee of each epoch, from epoch 0
          Me,                       \* this node
          TARGETED_CONNECTION_NUM,
          MaxOutages                \* times a member stops or comes back

\* Epoch 0 has a committee, and none consists of this node alone: then the
\* worker indexes an empty list when the node may not take part.
ASSUME ForwarderAssumption ==
    /\ Len(Committees) \in Nat \ {0} /\ DOMAIN Committees = 1 .. Len(Committees)
    /\ \A e \in DOMAIN Committees : IsFiniteSet(Committees[e])
    /\ \A e \in DOMAIN Committees : Committees[e] \ {Me} # {}
    /\ TARGETED_CONNECTION_NUM \in Nat \ {0}

VARIABLES chain_epoch,  \* the epoch of the application
          valid,        \* this node has stake and takes part
          down,         \* members whose mempool does not answer
          worker_fwd,   \* the forwarder's Worker
          failures,     \* failed attempts in a row since the last change, up to two
          outages

forwarderVars == <<chain_epoch, valid, down, worker_fwd, failures, outages>>

CommitteeNow == Committees[chain_epoch + 1]

Serves(m) == m \in CommitteeNow \ down

ForwarderInit ==
    /\ chain_epoch = 0
    /\ valid \in BOOLEAN
    /\ down = {}
    /\ worker_fwd = [epoch |-> 0, committee |-> <<>>, cursor |-> 0,
                     connections |-> <<>>, pc |-> "idle"]
    /\ failures = 0
    /\ outages = 0

-----------------------------------------------------------------------------
max_connections(committee) ==
    IF Len(committee) < TARGETED_CONNECTION_NUM
    THEN Len(committee) ELSE TARGETED_CONNECTION_NUM

min_connections(committee) == (max_connections(committee) \div 3) * 2 + 1

\* The lists refresh_epoch may build: this node alone, or the others shuffled.
Refreshed ==
    IF valid /\ Me \in CommitteeNow
    THEN {<<Me>>}
    ELSE SetToSeqs(CommitteeNow \ {Me})

\* The connections after k steps of the ring: each step tries one index, unless
\* a connection is stored under it.
ConnectedAfter(committee, cursor, conns, k) ==
    LET n == Len(committee)
        tried == {(cursor + j) % n : j \in 0 .. k - 1}
        new == {i \in tried : i \notin DOMAIN conns /\ Serves(committee[i + 1])}
    IN [i \in DOMAIN conns \cup new |->
          IF i \in DOMAIN conns THEN conns[i] ELSE committee[i + 1]]

\* The loop ends with enough connections, or back at the start of the ring.
StepsOfRing(committee, cursor, conns) ==
    Min({k \in 0 .. Len(committee) :
           \/ k = Len(committee)
           \/ Cardinality(DOMAIN ConnectedAfter(committee, cursor, conns, k))
                >= min_connections(committee)})

Fail(worker) ==
    /\ worker_fwd' = [worker EXCEPT !.pc = "idle"]
    /\ failures' = IF failures < 2 THEN failures + 1 ELSE 2

\* First half of handle_forward: refresh in a new epoch, and in every call of
\* epoch 0, then make connections.
handle_forward ==
    /\ worker_fwd.pc = "idle"
    /\ LET refresh == chain_epoch # worker_fwd.epoch \/ chain_epoch = 0
       IN \E committee \in IF refresh THEN Refreshed ELSE {worker_fwd.committee} :
            LET cursor == IF refresh THEN 0 ELSE worker_fwd.cursor
                conns == worker_fwd.connections
                k == StepsOfRing(committee, cursor, conns)
                made == ConnectedAfter(committee, cursor, conns, k)
                worker == [epoch |-> chain_epoch, committee |-> committee,
                           cursor |-> (cursor + k) % Len(committee),
                           connections |-> made, pc |-> "submit"]
            IN IF DOMAIN made = {} THEN Fail(worker)
               ELSE worker_fwd' = worker /\ UNCHANGED failures
    /\ UNCHANGED <<chain_epoch, valid, down, outages>>

\* Mutation: a failed submission leaves the connections as they are.
KeepConnections ==
    /\ worker_fwd.pc = "submit"
    /\ LET conns == worker_fwd.connections
       IN IF \A i \in DOMAIN conns : ~Serves(conns[i])
          THEN Fail(worker_fwd)
          ELSE worker_fwd' = [worker_fwd EXCEPT !.pc = "idle"] /\ failures' = 0
    /\ UNCHANGED <<chain_epoch, valid, down, outages>>

\* Second half: every connection gets the transaction, and the ones that fail
\* are dropped.
SubmitTransaction ==
    /\ worker_fwd.pc = "submit"
    /\ LET conns == worker_fwd.connections
           kept == {i \in DOMAIN conns : Serves(conns[i])}
           worker == [worker_fwd EXCEPT !.connections = [i \in kept |-> conns[i]]]
       IN IF kept = {} THEN Fail(worker)
          ELSE worker_fwd' = [worker EXCEPT !.pc = "idle"] /\ failures' = 0
    /\ UNCHANGED <<chain_epoch, valid, down, outages>>

-----------------------------------------------------------------------------
NextEpoch ==
    /\ chain_epoch + 1 < Len(Committees)
    /\ chain_epoch' = chain_epoch + 1
    /\ valid' \in BOOLEAN
    /\ failures' = 0
    /\ UNCHANGED <<down, worker_fwd, outages>>

\* A member stops or comes back.
Outage(m) ==
    /\ outages < MaxOutages
    /\ outages' = outages + 1
    /\ down' = IF m \in down THEN down \ {m} ELSE down \cup {m}
    /\ failures' = 0
    /\ UNCHANGED <<chain_epoch, valid, worker_fwd>>

ForwarderNext ==
    \/ handle_forward
    \/ SubmitTransaction
    \/ NextEpoch
    \/ \E e \in DOMAIN Committees : \E m \in Committees[e] : Outage(m)

ForwarderSpec == ForwarderInit /\ [][ForwarderNext]_forwarderVars

-----------------------------------------------------------------------------
AllMembers == UNION {Committees[e] : e \in DOMAIN Committees}

ForwarderTypeOK ==
    /\ chain_epoch \in 0 .. Len(Committees) - 1 /\ valid \in BOOLEAN /\ failures \in 0 .. 2
    /\ worker_fwd = [epoch |-> worker_fwd.epoch, committee |-> worker_fwd.committee,
                     cursor |-> worker_fwd.cursor, connections |-> worker_fwd.connections,
                     pc |-> worker_fwd.pc]
    /\ worker_fwd.epoch \in 0 .. chain_epoch
    /\ worker_fwd.committee \in Seq(AllMembers) /\ worker_fwd.cursor \in Nat
    /\ worker_fwd.committee = <<>> \/ worker_fwd.cursor < Len(worker_fwd.committee)
    /\ DOMAIN worker_fwd.connections \subseteq Nat
    /\ worker_fwd.connections \in [DOMAIN worker_fwd.connections -> AllMembers]
    /\ worker_fwd.pc \in {"idle", "submit"}

\* A member that the forwarder may use serves.
Reachable == \E committee \in Refreshed : \E i \in DOMAIN committee : Serves(committee[i])

\* While a member that the forwarder may use serves, and neither the epoch nor a
\* member changes, at most one attempt fails: it meets the connections that an
\* earlier epoch or shuffle left behind under the indices of the new list, or was
\* interrupted by the change.  The attempts of the signer (MAX_FORWARDER_RETRIES)
\* are enough.
RetriesSuffice == Reachable => failures <= 1

\* The list of this epoch is one that refresh_epoch would build now; in epoch 0 it is
\* built in every call.
ListIsCurrent ==
    chain_epoch # 0 /\ worker_fwd.epoch = chain_epoch => worker_fwd.committee \in Refreshed

\* The attempt that failed dropped every connection, and the next one makes one that
\* serves.
FailureClears ==
    Reachable /\ failures > 0 =>
      /\ worker_fwd.pc = "idle" => DOMAIN worker_fwd.connections = {}
      /\ worker_fwd.pc = "submit" =>
           \E i \in DOMAIN worker_fwd.connections : Serves(worker_fwd.connections[i])

\* The state of the connection cache, with which the retries suffice.
ForwarderInv == ForwarderTypeOK /\ ListIsCurrent /\ FailureClears /\ RetriesSuffice
=============================================================================
