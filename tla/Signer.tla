-------------------------------- MODULE Signer --------------------------------
(***************************************************************************)
(* The signer of a node (core/signer): it numbers the node's transactions, *)
(* keeps the ones the chain has not executed, and sends them again after a *)
(* timeout.  The chain executes a transaction only if its nonce is the     *)
(* next one.  The forwarder hands every transaction to several committee   *)
(* members, so the chain may order it twice, late, out of order or never.  *)
(*                                                                         *)
(* Abstractions: a request is its number, in the order the requests came;  *)
(* the nonce of the application is the number of executed transactions;    *)
(* a timeout may have passed at any time; receipts are left out.  `tries`  *)
(* stops at MAX_RETRIES, from where on the code treats all values alike.   *)
(***************************************************************************)
EXTENDS Naturals, Sequences, FiniteSets

CONSTANTS MAX_RETRIES,  \* sends after which a transaction is given up
          MaxRequests,  \* requests explored
          MaxLost,      \* transactions the network loses
          MaxStarts     \* lives of the node: crashes plus one

ASSUME SignerAssumption ==
    /\ MAX_RETRIES \in Nat
    /\ MaxRequests \in Nat
    /\ MaxLost \in Nat
    /\ MaxStarts \in Nat \ {0}

VARIABLES asked,   \* number of requests handled so far
          signer,     \* SignerState
          mempool,    \* transactions that reached some mempool
          own_log,    \* transactions of this node executed by the chain
          new_block,  \* a notification waits for the signer
          queried,    \* the nonce new_block_task holds while it waits for the lock
          lost,       \* transactions lost so far
          life        \* how often the node was started

signerVars == <<asked, signer, mempool, own_log, new_block, queried, lost, life>>

IncrementNonce == 0

\* The nonce the application stores for this node.
application_nonce == Len(own_log)

Tx(nonce, request) == [nonce |-> nonce, request |-> request, life |-> life]

\* A restarted signer asks the application for the last nonce.
init_state(nonce) ==
    [base_nonce |-> nonce, next_nonce |-> nonce + 1, pending |-> <<>>]

SignerInit ==
    /\ asked = 0
    /\ signer = init_state(0)
    /\ mempool = {}
    /\ own_log = <<>>
    /\ new_block = FALSE
    /\ queried = {}
    /\ lost = 0
    /\ life = 1

-----------------------------------------------------------------------------
\* Mutation: the nonce is counted from the last one the application showed.
SignFromBase ==
    LET request == asked + 1
        nonce == signer.base_nonce + 1
    IN /\ request <= MaxRequests
       /\ asked' = request
       /\ mempool' = mempool \cup {Tx(nonce, request)}
       /\ signer' = [signer EXCEPT
            !.next_nonce = nonce + 1,
            !.pending = Append(@, [tx |-> Tx(nonce, request), tries |-> 1])]
       /\ UNCHANGED <<own_log, new_block, queried, lost, life>>

\* A request is signed with the next nonce, sent and remembered.  A failed send
\* is only logged: it is a transaction that the network loses.
sign_new_tx ==
    LET request == asked + 1
        tx == Tx(signer.next_nonce, request)
    IN /\ request <= MaxRequests
       /\ asked' = request
       /\ mempool' = mempool \cup {tx}
       /\ signer' = [signer EXCEPT
            !.next_nonce = @ + 1,
            !.pending = Append(@, [tx |-> tx, tries |-> 1])]
       /\ UNCHANGED <<own_log, new_block, queried, lost, life>>

\* new_block_task: the nonce is read before the lock of the signer is taken,
\* which a request that is being sent may hold for long.
query_nonce ==
    /\ new_block /\ queried = {}
    /\ new_block' = FALSE
    /\ queried' = {application_nonce}
    /\ UNCHANGED <<asked, signer, mempool, own_log, lost, life>>

\* How many transactions are popped from the front of the buffer: up to the first
\* one that the application has not passed yet.
Popped(pending, nonce) ==
    CHOOSE k \in 0 .. Len(pending) :
       /\ \A i \in 1 .. k : pending[i].tx.nonce <= nonce
       /\ k < Len(pending) => pending[k + 1].tx.nonce > nonce

\* The buffer without what was ordered.
NotOrdered(pending, nonce) ==
    SubSeq(pending, Popped(pending, nonce) + 1, Len(pending))

\* Mutation: what was ordered is only removed when the buffer is sent again.
SyncKeepsPending(nonce) ==
    /\ queried = {nonce}
    /\ queried' = {}
    /\ signer' = [signer EXCEPT !.base_nonce = nonce]
    /\ UNCHANGED <<asked, mempool, own_log, new_block, lost, life>>

\* Without a timeout a new block only removes what was ordered.
sync_with_application(nonce) ==
    /\ queried = {nonce}
    /\ queried' = {}
    /\ signer' = [signer EXCEPT
         !.base_nonce = nonce,
         !.pending = NotOrdered(@, nonce)]
    /\ UNCHANGED <<asked, mempool, own_log, new_block, lost, life>>

\* Mutation: what is given up is dropped, and the rest takes its nonce.
RenumberGivenUp(rest, nonce, reverts, sent) ==
    LET keep == SelectSeq(rest, LAMBDA p : ~(p.tx.nonce \in reverts
                                             \/ p.tries >= MAX_RETRIES))
    IN [i \in DOMAIN keep |->
          [tx |-> Tx(nonce + i, keep[i].tx.request), tries |-> keep[i].tries]]

\* The buffer that is sent again: the i-th gets the i-th nonce after the
\* application's.  A transaction that would revert or was tried often enough
\* becomes an IncrementNonce; the others keep the nonce they have, which the
\* code asserts to be the same (NoncesAgree).
Resend(rest, nonce, reverts, sent) ==
    [i \in DOMAIN rest |->
       [tx |-> IF rest[i].tx.nonce \in reverts \/ rest[i].tries >= MAX_RETRIES
               THEN Tx(nonce + i, IncrementNonce)
               ELSE rest[i].tx,
        tries |-> IF i \in sent /\ rest[i].tries < MAX_RETRIES
                  THEN rest[i].tries + 1 ELSE rest[i].tries]]

\* With a timeout the whole buffer is sent again: the simulation finds that the
\* transactions in reverts revert, and only those in sent reach the forwarder.
sync_after_timeout(nonce, reverts, sent) ==
    LET rest == NotOrdered(signer.pending, nonce)
        resent == Resend(rest, nonce, reverts, sent)
    IN /\ queried = {nonce}
       /\ queried' = {}
       /\ rest # <<>>
       /\ signer' = [base_nonce |-> nonce, next_nonce |-> nonce + Len(resent) + 1,
                     pending |-> resent]
       /\ mempool' = mempool \cup {resent[i].tx : i \in sent \cap DOMAIN resent}
       /\ UNCHANGED <<asked, own_log, new_block, lost, life>>

\* Any of the transactions may revert, and sending any of them may fail.
SomeSent(nonce) ==
    LET rest == NotOrdered(signer.pending, nonce)
    IN \E reverts \in SUBSET {rest[i].tx.nonce : i \in DOMAIN rest},
          sent \in SUBSET DOMAIN rest : sync_after_timeout(nonce, reverts, sent)

\* The forwarder takes all of them.
AllSent(nonce) ==
    LET rest == NotOrdered(signer.pending, nonce)
    IN \E reverts \in SUBSET {rest[i].tx.nonce : i \in DOMAIN rest} :
         sync_after_timeout(nonce, reverts, DOMAIN rest)

\* The signer's memory is lost, the transactions it sent are not.
CrashSigner ==
    /\ life < MaxStarts
    /\ life' = life + 1
    /\ signer' = init_state(application_nonce)
    /\ new_block' = FALSE /\ queried' = {}
    /\ UNCHANGED <<asked, mempool, own_log, lost>>

-----------------------------------------------------------------------------
\* Mutation: any nonce that was not used is accepted.
IsNextUnused(tx) == tx.nonce > application_nonce

\* verify_fleek_transaction: a transaction with any other nonce reverts.
IsNext(tx) == tx.nonce = application_nonce + 1

\* The chain orders a transaction; it stays in some mempool, since it was given
\* to several.
ExecuteTransaction(tx) ==
    /\ IsNext(tx)
    /\ own_log' = Append(own_log, tx)
    /\ new_block' = TRUE
    /\ UNCHANGED <<asked, signer, mempool, queried, lost, life>>

\* A block without a transaction of this node that succeeds.
OtherBlock ==
    /\ ~new_block
    /\ new_block' = TRUE
    /\ UNCHANGED <<asked, signer, mempool, own_log, queried, lost, life>>

LoseTransaction(tx) ==
    /\ lost < MaxLost
    /\ lost' = lost + 1
    /\ mempool' = mempool \ {tx}
    /\ UNCHANGED <<asked, signer, own_log, new_block, queried, life>>

\* new_block_task has the lock.
SyncSome == \E nonce \in queried : sync_with_application(nonce) \/ SomeSent(nonce)

ExecuteSome == \E tx \in mempool : ExecuteTransaction(tx)

SignerNext ==
    \/ sign_new_tx
    \/ query_nonce
    \/ SyncSome
    \/ CrashSigner
    \/ ExecuteSome
    \/ OtherBlock
    \/ \E tx \in mempool : LoseTransaction(tx)

SignerSpec == SignerInit /\ [][SignerNext]_signerVars

\* Blocks keep coming, the notified signer runs, its timer and its sends succeed
\* now and then, and a transaction that stays in a mempool is ordered.
FairSignerSpec ==
    /\ SignerSpec
    /\ WF_signerVars(OtherBlock)
    /\ WF_signerVars(query_nonce)
    /\ WF_signerVars(SyncSome)
    /\ SF_signerVars(\E nonce \in queried : AllSent(nonce))
    /\ WF_signerVars(ExecuteSome)

-----------------------------------------------------------------------------
Transactions == [nonce : Nat, request : Nat, life : Nat]

SignerTypeOK ==
    /\ asked \in Nat
    /\ signer \in [base_nonce : Nat, next_nonce : Nat,
                   pending : Seq([tx : Transactions, tries : Nat])]
    /\ mempool \subseteq Transactions
    /\ own_log \in Seq(Transactions)
    /\ new_block \in BOOLEAN /\ queried \subseteq Nat
    /\ lost \in Nat
    /\ life \in Nat

\* The nonces of the buffer are consecutive, the last is the one before the
\* next, and the first leaves no gap to the application's.  This is what the
\* assertion in sync_with_application relies on: after the ordered ones are
\* removed, the i-th has the i-th nonce after the application's.
NoncesAgree ==
    /\ signer.next_nonce <= signer.base_nonce + Len(signer.pending) + 1
    /\ \A i \in DOMAIN signer.pending :
         signer.pending[i].tx.nonce + Len(signer.pending) + 1 = signer.next_nonce + i

\* No request is executed twice, however often it was sent, given up or ordered,
\* and the requests signed in one life of the node are executed in the order in
\* which they were made.
ExecutedInOrder ==
    \A i, j \in DOMAIN own_log :
       /\ i < j
       /\ own_log[i].request # IncrementNonce /\ own_log[j].request # IncrementNonce
       /\ own_log[i].life = own_log[j].life
       => own_log[i].request < own_log[j].request

\* What the signer removes from its buffer as ordered was executed, or the
\* IncrementNonce that the signer put in its place.  Only a transaction that an
\* earlier life of the node left behind can take its nonce instead.
OrderedIsOwn ==
    \A i \in DOMAIN signer.pending :
       LET tx == signer.pending[i].tx
       IN tx.nonce <= application_nonce =>
            \/ own_log[tx.nonce].life < life
            \/ own_log[tx.nonce] = tx
            \/ tx.request = IncrementNonce

-----------------------------------------------------------------------------
(* Why they hold: the parts of the inductive invariant. *)

\* The chain executes this node's transactions in the order of their nonces.
LogIsNumbered == \A i \in DOMAIN own_log : own_log[i].nonce = i

\* The signer counts from a nonce that it read and the application has passed, and
\* the nonce new_block_task holds was read later.
NonceIsPast ==
    /\ signer.base_nonce <= application_nonce
    /\ \A nonce \in queried : signer.base_nonce <= nonce /\ nonce <= application_nonce

\* The transactions that were executed, may still be, or will be sent again.
KnownTxs ==
    mempool \cup {own_log[i] : i \in DOMAIN own_log}
            \cup {signer.pending[i].tx : i \in DOMAIN signer.pending}

\* No nonce of this life is signed again for another request: the next nonce is
\* above all of them.
NextIsFresh ==
    /\ signer.next_nonce > 0
    /\ \A tx \in KnownTxs :
         /\ tx.nonce > 0 /\ tx.life <= life /\ tx.request <= asked
         /\ tx.life = life => tx.nonce < signer.next_nonce
    /\ \A i \in DOMAIN signer.pending : signer.pending[i].tx.life = life

\* In one life the requests are numbered in their order.
NumberedInOrder ==
    \A t, u \in KnownTxs :
       t.life = u.life /\ t.request # IncrementNonce /\ u.request # IncrementNonce =>
          /\ t.nonce < u.nonce => t.request < u.request
          /\ t.nonce = u.nonce => t.request = u.request

\* A request that was given up, so that an IncrementNonce was sent for it, is not in
\* the buffer any more.
GivenUpForGood ==
    \A tx \in KnownTxs : tx.life = life /\ tx.request = IncrementNonce =>
       \A i \in DOMAIN signer.pending :
          signer.pending[i].tx.nonce = tx.nonce => signer.pending[i].tx.request = IncrementNonce

\* What the signer may rely on: its nonces are the application's continued, and
\* what was ordered is its own, executed once and in order, under loss, delay,
\* timeouts, a nonce read too early, and restarts.
SignerInv ==
    /\ SignerTypeOK /\ NoncesAgree /\ ExecutedInOrder /\ OrderedIsOwn
    /\ LogIsNumbered /\ NonceIsPast /\ NextIsFresh /\ NumberedInOrder /\ GivenUpForGood

\* A request does not stay in the buffer for ever: it is executed or given up.
BufferDrains ==
    \A r \in 1 .. MaxRequests :
       (\E i \in DOMAIN signer.pending : signer.pending[i].tx.request = r)
         ~> ~ \E i \in DOMAIN signer.pending : signer.pending[i].tx.request = r
=============================================================================
