----------------------------- MODULE Checkpointer -----------------------------
(***************************************************************************)
(* The checkpointer of one node (core/checkpointer).  At an epoch change   *)
(* the epoch change listener saves and broadcasts the node's attestation   *)
(* of the new state root; the attestation listener collects the others'.   *)
(* Either of them saves an aggregate checkpoint when more than two thirds  *)
(* of the eligible nodes agree.  Eligible are the active nodes of the      *)
(* epoch the application is in at that moment, whatever epoch the          *)
(* attestation is of.                                                      *)
(*                                                                         *)
(* Abstractions: a state root is the true one or a diverged one; an        *)
(* attestation with a wrong signature changes nothing and is left out; the *)
(* other nodes are as far ahead or behind as they like, so that any of     *)
(* their attestations may arrive at any time, repeatedly, in any order.    *)
(***************************************************************************)
EXTENDS Naturals, Sequences, FiniteSets, FiniteSetsExt

CONSTANTS Attester,           \* this node
          ActiveNodes,    \* the active nodes of each epoch, from epoch 0
          DivergedAttesters,       \* nodes whose state differs, or that lie
          MaxCkptRestarts     \* restarts of this node

CkptEpochs == 1 .. Len(ActiveNodes) - 1

Active(e) == ActiveNodes[e + 1]

Attesters == UNION {Active(e) : e \in 0 .. Len(ActiveNodes) - 1}

\* Fewer nodes have diverged than it takes to agree in any epoch.
ASSUME CheckpointerAssumption ==
    /\ Len(ActiveNodes) \in Nat \ {0}
    /\ \A e \in 0 .. Len(ActiveNodes) - 1 : IsFiniteSet(Active(e))
    /\ IsFiniteSet(DivergedAttesters)
    /\ Attester \in Attesters \ DivergedAttesters
    /\ \A e \in 0 .. Len(ActiveNodes) - 1 :
         Cardinality(DivergedAttesters) <= (2 * Cardinality(Active(e))) \div 3

VARIABLES ckpt_epoch,     \* the epoch of the application
          notices,        \* epoch change notifications, oldest first
          listener,       \* where the epoch change listener is
          attestations,   \* the table of attestations, by epoch and node
          aggregates,     \* the table of aggregate checkpoints
          ckpt_restarts

ckptVars == <<ckpt_epoch, notices, listener, attestations, aggregates, ckpt_restarts>>

NoRoot == "none"
Roots == {"true", "diverged"}

AwaitEpochChange == [pc |-> "wait", epoch |-> 0, count |-> 0]

CkptInit ==
    /\ ckpt_epoch = 0
    /\ notices = <<>>
    /\ listener = AwaitEpochChange
    /\ attestations = [e \in CkptEpochs |-> [n \in Attesters |-> NoRoot]]
    /\ aggregates = [e \in CkptEpochs |-> [root |-> NoRoot, nodes |-> {}]]
    /\ ckpt_restarts = 0

-----------------------------------------------------------------------------
get_eligible_nodes == Active(ckpt_epoch)

set_node_checkpoint_attestation(e, n, root) ==
    attestations' = [attestations EXCEPT ![e][n] = root]

\* Mutation: the number of faulty nodes is taken for the quorum.
SupermajorityOfThird(nodes_count) == nodes_count \div 3

\* The size at which a group of attestations becomes an aggregate.
Supermajority(nodes_count) == (2 * nodes_count) \div 3 + 1

\* The table is iterated in no particular order, up to the attestation that
\* completes a group, and the group is what the aggregate is built of.
build_and_save_aggregate_if_supermajority(e, nodes_count, table) ==
    LET Group(root) == {n \in Attesters : table[e][n] = root}
        size == Supermajority(nodes_count)
        agreed == {root \in Roots : Cardinality(Group(root)) >= size}
    IN IF agreed = {} THEN UNCHANGED aggregates
       ELSE \E root \in agreed : \E nodes \in kSubset(size, Group(root)) :
              aggregates' = [aggregates EXCEPT
                               ![e] = [root |-> root, nodes |-> nodes]]

\* An attestation arrives; one of a node that is not eligible is ignored.
handle_incoming_checkpoint_attestation(n, e, root) ==
    /\ n \in get_eligible_nodes
    /\ set_node_checkpoint_attestation(e, n, root)
    /\ build_and_save_aggregate_if_supermajority(
         e, Cardinality(get_eligible_nodes), attestations')
    /\ UNCHANGED <<ckpt_epoch, notices, listener, ckpt_restarts>>

\* First half of the listener: up to the broadcast, which it awaits.  The number
\* of eligible nodes is taken here and used afterwards.
handle_epoch_changed ==
    /\ listener.pc = "wait"
    /\ notices # <<>>
    /\ notices' = Tail(notices)
    /\ LET e == Head(notices)
       IN IF Attester \in get_eligible_nodes /\ attestations[e][Attester] = NoRoot
          THEN /\ set_node_checkpoint_attestation(e, Attester, "true")
               /\ listener' = [pc |-> "send", epoch |-> e,
                               count |-> Cardinality(get_eligible_nodes)]
          ELSE UNCHANGED <<listener, attestations>>
    /\ UNCHANGED <<ckpt_epoch, aggregates, ckpt_restarts>>

\* Mutation: only incoming attestations are looked at for a supermajority.
SentOnly ==
    /\ listener.pc = "send"
    /\ listener' = AwaitEpochChange
    /\ UNCHANGED <<ckpt_epoch, notices, attestations, aggregates, ckpt_restarts>>

SendAttestation ==
    /\ listener.pc = "send"
    /\ listener' = AwaitEpochChange
    /\ build_and_save_aggregate_if_supermajority(
         listener.epoch, listener.count, attestations)
    /\ UNCHANGED <<ckpt_epoch, notices, attestations, ckpt_restarts>>

-----------------------------------------------------------------------------
\* Mutation: the notification carries the epoch that ended.
NotifiesEndedEpoch ==
    /\ ckpt_epoch < Len(ActiveNodes) - 1
    /\ ckpt_epoch' = ckpt_epoch + 1
    /\ notices' = Append(notices, ckpt_epoch)
    /\ UNCHANGED <<listener, attestations, aggregates, ckpt_restarts>>

\* The application executes the last block of an epoch.
EpochChanges ==
    /\ ckpt_epoch < Len(ActiveNodes) - 1
    /\ ckpt_epoch' = ckpt_epoch + 1
    /\ notices' = Append(notices, ckpt_epoch + 1)
    /\ UNCHANGED <<listener, attestations, aggregates, ckpt_restarts>>

\* The tables are durable; notifications and an unsent attestation are not.
CkptRestart ==
    /\ ckpt_restarts < MaxCkptRestarts
    /\ ckpt_restarts' = ckpt_restarts + 1
    /\ notices' = <<>>
    /\ listener' = AwaitEpochChange
    /\ UNCHANGED <<ckpt_epoch, attestations, aggregates>>

\* What the other nodes broadcast: a node attests an epoch if it is active in it,
\* or in a later one when it handles the notification late.
Attests(n, e, root) ==
    /\ n # Attester
    /\ \E later \in e .. Len(ActiveNodes) - 1 : n \in Active(later)
    /\ n \notin DivergedAttesters => root = "true"

Arrives(n, e, root) ==
    Attests(n, e, root) /\ handle_incoming_checkpoint_attestation(n, e, root)

CkptNext ==
    \/ \E n \in Attesters, e \in CkptEpochs, root \in Roots : Arrives(n, e, root)
    \/ handle_epoch_changed
    \/ SendAttestation
    \/ EpochChanges
    \/ CkptRestart

CkptSpec == CkptInit /\ [][CkptNext]_ckptVars

\* The listeners run, and the broadcast delivers what honest nodes attest, once.
FairCkptSpec ==
    /\ CkptSpec
    /\ WF_ckptVars(handle_epoch_changed)
    /\ WF_ckptVars(SendAttestation)
    /\ \A n \in Attesters \ DivergedAttesters, e \in CkptEpochs :
         WF_ckptVars(attestations[e][n] = NoRoot /\ Arrives(n, e, "true"))

-----------------------------------------------------------------------------
CkptTypeOK ==
    /\ ckpt_epoch \in 0 .. Len(ActiveNodes) - 1
    /\ notices \in Seq(CkptEpochs)
    /\ listener \in [pc : {"wait", "send"}, epoch : Nat, count : Nat]
    /\ attestations \in [CkptEpochs -> [Attesters -> Roots \cup {NoRoot}]]
    /\ aggregates \in [CkptEpochs -> [root : Roots \cup {NoRoot}, nodes : SUBSET Attesters]]

\* An aggregate checkpoint is never one of a diverged root, although attestations
\* are counted against the active nodes of whatever epoch the application is in
\* when they arrive, and an aggregate is replaced by later ones.
AggregateIsTrue ==
    \A e \in CkptEpochs : aggregates[e].root # "diverged"

\* The honest nodes whose attestations are never ignored.
AlwaysEligible ==
    {n \in Attesters \ DivergedAttesters : \A e \in 0 .. Len(ActiveNodes) - 1 : n \in Active(e)}

\* When enough honest nodes stay active, the node has an aggregate checkpoint of
\* every epoch it enters without restarting, also when the others' attestations
\* came before its own epoch change.
AggregatesForm ==
    \A e \in CkptEpochs :
       (/\ Attester \in AlwaysEligible
        /\ \A f \in 0 .. Len(ActiveNodes) - 1 :
             Cardinality(AlwaysEligible) >= Supermajority(Cardinality(Active(f))))
       => (ckpt_epoch >= e ~> aggregates[e].root = "true" \/ ckpt_restarts > 0)

\* The table holds a diverged root only for nodes that diverged.
AttestationsHonest ==
    \A e \in CkptEpochs, n \in Attesters :
       attestations[e][n] = "diverged" => n \in DivergedAttesters

\* The count that the listener keeps over its broadcast is that of the active nodes
\* of some epoch, perhaps no longer the current one.
CountOfSomeEpoch ==
    listener.pc = "send" =>
      /\ listener.epoch \in CkptEpochs
      /\ \E e \in 0 .. Len(ActiveNodes) - 1 : listener.count = Cardinality(Active(e))

\* The state of the checkpointer, with aggregates of the true root only, and what
\* makes that inductive.
CkptInv == CkptTypeOK /\ AttestationsHonest /\ CountOfSomeEpoch /\ AggregateIsTrue
=============================================================================
