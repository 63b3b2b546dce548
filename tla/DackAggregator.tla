--------------------------- MODULE DackAggregator ---------------------------
(***************************************************************************)
(* The delivery acknowledgment aggregator (core/dack-aggregator): services *)
(* hand in acknowledgments of deliveries, which are queued in a file and   *)
(* submitted in one transaction per service at an interval.                *)
(*                                                                         *)
(* Abstractions: an acknowledgment is its name; its commodity is one, so   *)
(* that the commodity of a transaction is the number of its proofs, which  *)
(* are kept with their places in the file.                                 *)
(***************************************************************************)
EXTENDS Naturals, Sequences, FiniteSets, Functions

CONSTANTS Dacks,
          ServiceOf,      \* Dacks -> service
          MaxDacksPerTx,  \* MAX_DELIVERY_ACKNOWLEDGMENTS
          NoDack,
          MaxEras         \* bound on stops of the process and on failed removals

ASSUME DackAssumption ==
    /\ DOMAIN ServiceOf = Dacks /\ NoDack \notin Dacks
    /\ MaxDacksPerTx \in Nat \ {0} /\ MaxEras \in Nat

VARIABLES dack,        \* what their senders know: "new", "sent" or "accepted"
          adding,      \* accepted, not yet in the file
          queue,       \* the file
          removing,    \* entries of the file still to be removed
          submits,     \* tasks that hand a transaction to the signer
          signed,      \* transactions the signer took
          era,         \* stops of the process and failed removals so far
          lost         \* accepted, and given up by a step that failed or by a stop

dackVars == <<dack, adding, queue, removing, submits, signed, era, lost>>

DackInit ==
    /\ dack = [d \in Dacks |-> "new"]
    /\ adding = NoDack /\ queue = <<>> /\ removing = 0
    /\ submits = {} /\ signed = <<>>
    /\ era = 0 /\ lost = {}

\* The socket's channel.
SendDack(d) ==
    /\ dack[d] = "new"
    /\ dack' = [dack EXCEPT ![d] = "sent"]
    /\ UNCHANGED <<adding, queue, removing, submits, signed, era, lost>>

\* The loop answers the sender first ...
AcceptDack(d) ==
    /\ dack[d] = "sent" /\ adding = NoDack /\ removing = 0
    /\ dack' = [dack EXCEPT ![d] = "accepted"]
    /\ adding' = d
    /\ UNCHANGED <<queue, removing, submits, signed, era, lost>>

\* ... and then writes to the file, ...
AddToFile ==
    /\ adding # NoDack
    /\ queue' = Append(queue, adding)
    /\ adding' = NoDack
    /\ UNCHANGED <<dack, removing, submits, signed, era, lost>>

\* ... which may fail, and is only logged then.
AddFails ==
    /\ adding # NoDack
    /\ lost' = lost \cup {adding}
    /\ adding' = NoDack
    /\ UNCHANGED <<dack, queue, removing, submits, signed, era>>

\* The ones before the k-th of the same service.
Before(k) == {j \in 1 .. k - 1 : ServiceOf[queue[j]] = ServiceOf[queue[k]]}

\* Mutation: one more than the limit is taken.
OneMoreFits(n) == \A k \in 1 .. n : Cardinality(Before(k)) <= MaxDacksPerTx

\* The first n are taken until one of them is of a service that has its number.
Fits(n) == \A k \in 1 .. n : Cardinality(Before(k)) < MaxDacksPerTx

Taken == CHOOSE n \in 0 .. Len(queue) : Fits(n) /\ (n < Len(queue) => ~Fits(n + 1))

\* Mutation: the last one of the queue is removed with the ones that were taken.
RemoveAll == Len(queue)

NumToRemove == Taken

\* The acknowledgments of a service among the first n.
ProofsOf(service, n) ==
    [i \in {k \in 1 .. n : ServiceOf[queue[k]] = service} |-> queue[i]]

\* The interval: a task per service submits what was taken.
SubmitDacks ==
    /\ adding = NoDack /\ removing = 0 /\ queue # <<>>
    /\ submits' = submits \cup {[proofs |-> ProofsOf(ServiceOf[queue[i]], Taken), era |-> era]
                                 : i \in 1 .. Taken}
    /\ removing' = NumToRemove
    /\ UNCHANGED <<dack, adding, queue, signed, era, lost>>

\* As many are removed from the front of the file as were taken ...
RemoveFromFile ==
    /\ removing > 0
    /\ queue' = Tail(queue)
    /\ removing' = removing - 1
    /\ UNCHANGED <<dack, adding, submits, signed, era, lost>>

\* ... and a removal that fails is only logged: the last one that was taken is left.
RemoveFails ==
    /\ removing > 0 /\ era < MaxEras
    /\ removing' = removing - 1
    /\ era' = era + 1
    /\ UNCHANGED <<dack, adding, queue, submits, signed, lost>>

\* A task reaches the signer ...
SubmitToSigner(tx) ==
    /\ tx \in submits
    /\ submits' = submits \ {tx}
    /\ signed' = Append(signed, tx)
    /\ UNCHANGED <<dack, adding, queue, removing, era, lost>>

Has(tx, d) == \E i \in DOMAIN tx.proofs : tx.proofs[i] = d
UnderWay(d) == \E tx \in submits : Has(tx, d)

\* ... or the signer's socket is closed, which is only logged.
SubmitFails(tx) ==
    /\ tx \in submits
    /\ submits' = submits \ {tx}
    /\ lost' = lost \cup {d \in Dacks : Has(tx, d)}
    /\ UNCHANGED <<dack, adding, queue, removing, signed, era>>

\* The process stops and starts again with the file: what is being written or handed
\* over is given up, unless the file has it.
StopAggregator ==
    /\ era < MaxEras
    /\ era' = era + 1
    /\ lost' = lost \cup {d \in Dacks : /\ adding = d \/ UnderWay(d)
                                        /\ d \notin Range(queue)}
    /\ adding' = NoDack /\ removing' = 0 /\ submits' = {}
    /\ UNCHANGED <<dack, queue, signed>>

DackNext ==
    \/ \E d \in Dacks : SendDack(d) \/ AcceptDack(d)
    \/ AddToFile \/ AddFails \/ SubmitDacks \/ RemoveFromFile \/ RemoveFails
    \/ \E tx \in submits : SubmitToSigner(tx) \/ SubmitFails(tx)
    \/ StopAggregator

DackSpec == DackInit /\ [][DackNext]_dackVars

-----------------------------------------------------------------------------
\* A transaction has proofs of one service, each once, and no more than the
\* application takes.
TransactionFits(tx) ==
    /\ IsFiniteSet(DOMAIN tx.proofs) /\ Cardinality(DOMAIN tx.proofs) \in 1 .. MaxDacksPerTx
    /\ IsInjective(tx.proofs)
    /\ \A i \in DOMAIN tx.proofs : tx.proofs[i] \in Dacks
    /\ \A i, j \in DOMAIN tx.proofs : ServiceOf[tx.proofs[i]] = ServiceOf[tx.proofs[j]]

DackTypeOK ==
    /\ dack \in [Dacks -> {"new", "sent", "accepted"}] /\ adding \in Dacks \cup {NoDack}
    /\ queue \in Seq(Dacks) /\ removing \in 0 .. Len(queue)
    /\ signed \in Seq(Range(signed)) /\ era \in Nat /\ lost \subseteq Dacks

\* The file holds an acknowledgment once, and not the one that is still to be added.
FileHoldsOnce ==
    /\ IsInjective(queue) /\ \A k \in DOMAIN queue : dack[queue[k]] = "accepted"
    /\ adding # NoDack => /\ removing = 0 /\ dack[adding] = "accepted"
                         /\ \A k \in DOMAIN queue : queue[k] # adding

StillQueued(d) == \E k \in removing + 1 .. Len(queue) : queue[k] = d
Signed(d) == \E i \in DOMAIN signed : Has(signed[i], d)

\* Until the process stops, or a removal fails, an acknowledgment gets into one
\* transaction, and is then no longer in what will be left of the file; one that is
\* not yet in the file is in no transaction.
SubmittedOnce ==
    /\ \A tx \in submits : tx.era \in 0 .. era
    /\ \A i \in DOMAIN signed : signed[i].era \in 0 .. era
    /\ \A d \in Dacks :
         /\ \A i, j \in DOMAIN signed :
              Has(signed[i], d) /\ Has(signed[j], d) /\ signed[i].era = signed[j].era => i = j
         /\ \A tx, other \in submits :
              Has(tx, d) /\ Has(other, d) /\ tx.era = other.era => tx = other
         /\ \A i \in DOMAIN signed, tx \in submits :
              ~(Has(signed[i], d) /\ Has(tx, d) /\ signed[i].era = tx.era)
         /\ \A i \in DOMAIN signed : Has(signed[i], d) /\ signed[i].era = era => ~StillQueued(d)
         /\ \A tx \in submits : Has(tx, d) /\ tx.era = era => ~StillQueued(d)
         /\ Signed(d) \/ UnderWay(d) => dack[d] = "accepted" /\ adding # d

\* Nothing else loses an accepted acknowledgment than a write to the file or a
\* submission that fails, or a stop while it is being written or handed over.
NothingLost ==
    \A d \in Dacks : dack[d] = "accepted" =>
        adding = d \/ StillQueued(d) \/ UnderWay(d) \/ Signed(d) \/ d \in lost

\* A transaction the signer took or is to take fits.
TransactionsFit ==
    /\ \A i \in DOMAIN signed : TransactionFits(signed[i])
    /\ \A tx \in submits : TransactionFits(tx)

Times(d) == Cardinality({i \in DOMAIN signed : Has(signed[i], d)})

\* An accepted acknowledgment that no failure and no stop has given up is in one
\* place: to be added, in the file, on its way to the signer, or signed once.  Each stop
\* and each failed removal may have it signed once more, and nothing else does.
DackAccounted ==
    \A d \in Dacks : dack[d] = "accepted" =>
        /\ Times(d) <= 1 + era
        /\ era = 0 /\ d \notin lost =>
             Cardinality({x \in {"adding", "file", "submit", "signed"} :
                            \/ x = "adding" /\ adding = d
                            \/ x = "file" /\ StillQueued(d)
                            \/ x = "submit" /\ UnderWay(d)
                            \/ x = "signed" /\ Times(d) > 0}) = 1

DackPlaces == DackTypeOK /\ FileHoldsOnce /\ SubmittedOnce /\ NothingLost /\ TransactionsFit

\* Acknowledgments are submitted in transactions that fit, and once, but for what failed.
DackInv == DackPlaces /\ DackAccounted
=============================================================================
