------------------------------ MODULE ChainProofs ------------------------------
(***************************************************************************)
(* Proofs about what the nodes agree on through the chain, one part for    *)
(* each component:                                                         *)
(*   Signer              its nonces continue the application's, and what   *)
(*                       the chain executes of a node is executed once and *)
(*                       in order, for every number of requests, losses,   *)
(*                       retries and restarts;                             *)
(*   Checkpointer        it never aggregates a diverged state root, for    *)
(*                       every sequence of active node sets and any number *)
(*                       of restarts;                                      *)
(*   ValidatorExecution  validators execute one chain, each sub-dag once,  *)
(*                       for every set of validators, every sequence of    *)
(*                       committees and any number of crashes;             *)
(*   Clients             the transaction client reports what was executed, *)
(*                       and the forwarder needs one retry at most, for    *)
(*                       every sequence of committees, every shuffle and   *)
(*                       any number of calls, losses and outages.          *)
(***************************************************************************)
EXTENDS Signer, Checkpointer, ValidatorExecution, Clients, Integers, FiniteSetTheorems,
        SequenceTheorems, TLAPS

\* The signer. ExecutedInOrder and OrderedIsOwn follow from the other parts of
\* SignerInv, which are inductive together.

Pending == [tx : Transactions, tries : Nat]

\* The inductive part.
NumberingInv ==
    /\ SignerTypeOK /\ NoncesAgree /\ LogIsNumbered
    /\ NonceIsPast /\ NextIsFresh /\ NumberedInOrder /\ GivenUpForGood

LEMMA SignerTypes ==
    ASSUME SignerTypeOK
    PROVE  /\ signer.base_nonce \in Nat /\ signer.next_nonce \in Nat
           /\ signer.pending \in Seq(Pending) /\ Len(signer.pending) \in Nat
           /\ DOMAIN signer.pending = 1 .. Len(signer.pending)
           /\ \A i \in DOMAIN signer.pending :
                /\ signer.pending[i] \in Pending /\ signer.pending[i].tx \in Transactions
                /\ signer.pending[i].tries \in Nat
           /\ own_log \in Seq(Transactions) /\ Len(own_log) \in Nat
           /\ DOMAIN own_log = 1 .. Len(own_log)
           /\ \A i \in DOMAIN own_log : own_log[i] \in Transactions
<1>1. /\ signer.base_nonce \in Nat /\ signer.next_nonce \in Nat
      /\ signer.pending \in Seq(Pending) /\ own_log \in Seq(Transactions)
    BY DEF SignerTypeOK, Pending
<1>2. /\ Len(signer.pending) \in Nat /\ DOMAIN signer.pending = 1 .. Len(signer.pending)
      /\ \A i \in DOMAIN signer.pending : signer.pending[i] \in Pending
    BY <1>1
<1>3. /\ Len(own_log) \in Nat /\ DOMAIN own_log = 1 .. Len(own_log)
      /\ \A i \in DOMAIN own_log : own_log[i] \in Transactions
    BY <1>1
<1>4. \A x \in Pending : x.tx \in Transactions /\ x.tries \in Nat
    BY DEF Pending
<1> QED
    BY <1>1, <1>2, <1>3, <1>4

LEMMA KnownTypes ==
    ASSUME SignerTypeOK
    PROVE  KnownTxs \subseteq Transactions
BY SignerTypes DEF KnownTxs, SignerTypeOK

LEMMA TransactionTypes ==
    ASSUME NEW tx \in Transactions
    PROVE  tx.nonce \in Nat /\ tx.request \in Nat /\ tx.life \in Nat
BY DEF Transactions

\* What is left of the buffer when everything up to a nonce that the signer has not
\* seen yet is popped: a suffix, which starts right after that nonce.
LEMMA RestOfBuffer ==
    ASSUME SignerTypeOK, NoncesAgree, NEW nonce \in Nat, signer.base_nonce <= nonce
    PROVE  LET p == signer.pending
               k == Popped(p, nonce)
               rest == NotOrdered(p, nonce) IN
           /\ k \in 0 .. Len(p) /\ rest \in Seq(Pending) /\ Len(rest) = Len(p) - k
           /\ DOMAIN rest = 1 .. Len(rest)
           /\ \A i \in DOMAIN rest :
                /\ rest[i] = p[k + i] /\ k + i \in DOMAIN p
                /\ rest[i].tx.nonce = nonce + i
           /\ signer.next_nonce <= nonce + Len(rest) + 1
           /\ rest # << >> => signer.next_nonce = nonce + Len(rest) + 1
<1> DEFINE p == signer.pending
           L == Len(p)
           N == signer.next_nonce
           k == Popped(p, nonce)
           rest == NotOrdered(p, nonce)
           m == nonce + L + 1 - N
           IsCut(j) == /\ \A i \in 1 .. j : p[i].tx.nonce <= nonce
                       /\ j < L => p[j + 1].tx.nonce > nonce
<1>1. /\ L \in Nat /\ N \in Nat /\ signer.base_nonce \in Nat /\ p \in Seq(Pending)
      /\ DOMAIN p = 1 .. L
    BY SignerTypes
<1>2. m \in Nat
    BY <1>1 DEF NoncesAgree
<1>3. ASSUME NEW i \in 1 .. L
      PROVE  p[i].tx.nonce \in Nat /\ p[i].tx.nonce = N + i - L - 1
  <2>1. p[i].tx.nonce + L + 1 = N + i
    BY <1>1 DEF NoncesAgree
  <2>2. p[i].tx.nonce \in Nat
    BY <1>1, SignerTypes, TransactionTypes
  <2> HIDE DEF p, L, N
  <2> QED
    BY <1>1, <2>1, <2>2
<1> HIDE DEF p, L, N
<1>4. \A i \in 1 .. L : p[i].tx.nonce <= nonce <=> i <= m
    BY <1>1, <1>3
<1>5. k \in 0 .. L /\ IsCut(k)
  <2> DEFINE w == IF m <= L THEN m ELSE L
  <2>1. w \in 0 .. L
    BY <1>1, <1>2
  <2>2. IsCut(w)
    <3>1. \A i \in 1 .. w : p[i].tx.nonce <= nonce
      BY <1>1, <1>2, <1>4
    <3>2. w < L => w + 1 \in 1 .. L /\ ~(w + 1 <= m)
      BY <1>1, <1>2
    <3>3. w < L => p[w + 1].tx.nonce > nonce
      BY <1>3, <1>4, <3>2
    <3> QED
      BY <3>1, <3>3
  <2>3. k = CHOOSE j \in 0 .. L : IsCut(j)
    BY DEF Popped, L
  <2> HIDE DEF IsCut, w
  <2> QED
    BY <2>1, <2>2, <2>3
<1>6. k <= m /\ (k < L => k = m)
  <2>1. k # 0 => p[k].tx.nonce <= nonce /\ k \in 1 .. L
    BY <1>5, <1>1
  <2>2. k < L => ~(k + 1 <= m)
    <3>1. k < L => k + 1 \in 1 .. L /\ p[k + 1].tx.nonce > nonce
      BY <1>5, <1>1
    <3> QED
      BY <1>3, <1>4, <3>1
  <2> QED
    BY <1>1, <1>2, <1>4, <1>5, <2>1, <2>2
<1> HIDE DEF k, IsCut
<1>7. /\ rest \in Seq(Pending) /\ Len(rest) = L - k /\ DOMAIN rest = 1 .. Len(rest)
      /\ \A i \in 1 .. L - k : rest[i] = p[k + i]
  <2>1. rest = SubSeq(p, k + 1, L)
    BY DEF NotOrdered, k, L, p
  <2> HIDE DEF rest
  <2> QED
    BY <1>1, <1>5, <2>1, SMTT(20)
<1> HIDE DEF rest
<1>8. ASSUME NEW i \in DOMAIN rest
      PROVE  rest[i] = p[k + i] /\ k + i \in DOMAIN p /\ rest[i].tx.nonce = nonce + i
  <2>1. i \in 1 .. L - k /\ k < L /\ k + i \in 1 .. L /\ rest[i] = p[k + i]
    BY <1>1, <1>5, <1>7
  <2>2. k = m
    BY <1>6, <2>1
  <2> QED
    BY <1>1, <1>3, <2>1, <2>2
<1>9. N <= nonce + Len(rest) + 1
    BY <1>1, <1>5, <1>6, <1>7
<1>10. ASSUME rest # << >> PROVE N = nonce + Len(rest) + 1
  <2>1. Len(rest) # 0
    BY <1>7, <1>10
  <2> QED
    BY <1>1, <1>5, <1>6, <1>7, <2>1
<1> QED
    BY <1>1, <1>5, <1>7, <1>8, <1>9, <1>10 DEF p, L, N, k, rest

-----------------------------------------------------------------------------
LEMMA SignerInitInv ==
    ASSUME SignerInit
    PROVE  NumberingInv
<1>1. /\ signer = [base_nonce |-> 0, next_nonce |-> 1, pending |-> << >>]
      /\ mempool = {} /\ own_log = << >> /\ queried = {} /\ life = 1 /\ asked = 0
      /\ lost = 0 /\ new_block = FALSE
    BY DEF SignerInit, init_state
<1>2. /\ signer.base_nonce = 0 /\ signer.next_nonce = 1 /\ signer.pending = << >>
      /\ DOMAIN signer.pending = {} /\ Len(signer.pending) = 0
      /\ DOMAIN own_log = {} /\ Len(own_log) = 0
    BY <1>1
<1>3. SignerTypeOK
  <2>1. << >> \in Seq([tx : Transactions, tries : Nat]) /\ << >> \in Seq(Transactions)
    OBVIOUS
  <2>2. signer \in [base_nonce : Nat, next_nonce : Nat,
                    pending : Seq([tx : Transactions, tries : Nat])]
    BY <1>1, <2>1
  <2> QED
    BY <1>1, <2>1, <2>2 DEF SignerTypeOK
<1>4. KnownTxs = {}
    BY <1>1, <1>2 DEF KnownTxs
<1> QED
    BY <1>1, <1>2, <1>3, <1>4
    DEF NumberingInv, NoncesAgree, LogIsNumbered, NonceIsPast, NextIsFresh,
        NumberedInOrder, GivenUpForGood, application_nonce

\* What the numbering is for.
LEMMA NumberingSuffices == NumberingInv => SignerInv
<1> SUFFICES ASSUME NumberingInv PROVE ExecutedInOrder /\ OrderedIsOwn
    BY DEF NumberingInv, SignerInv
<1> USE DEF NumberingInv
<1>1. ExecutedInOrder
  <2> SUFFICES ASSUME NEW i \in DOMAIN own_log, NEW j \in DOMAIN own_log, i < j,
                      own_log[i].request # IncrementNonce,
                      own_log[j].request # IncrementNonce,
                      own_log[i].life = own_log[j].life
               PROVE  own_log[i].request < own_log[j].request
    BY DEF ExecutedInOrder
  <2>1. own_log[i] \in KnownTxs /\ own_log[j] \in KnownTxs
    BY DEF KnownTxs
  <2>2. own_log[i].nonce = i /\ own_log[j].nonce = j
    BY DEF LogIsNumbered
  <2> QED
    BY <2>1, <2>2 DEF NumberedInOrder
<1>2. OrderedIsOwn
  <2> SUFFICES ASSUME NEW i \in DOMAIN signer.pending,
                      signer.pending[i].tx.nonce <= application_nonce,
                      ~(own_log[signer.pending[i].tx.nonce].life < life),
                      signer.pending[i].tx.request # IncrementNonce
               PROVE  own_log[signer.pending[i].tx.nonce] = signer.pending[i].tx
    BY DEF OrderedIsOwn
  <2> DEFINE tx == signer.pending[i].tx
             o == own_log[tx.nonce]
  <2>1. tx \in KnownTxs /\ tx \in Transactions /\ tx.life = life
    BY SignerTypes DEF KnownTxs, NextIsFresh
  <2>2. tx.nonce \in DOMAIN own_log
    BY <2>1, SignerTypes, TransactionTypes DEF NextIsFresh, application_nonce
  <2>3. o \in KnownTxs /\ o \in Transactions /\ o.nonce = tx.nonce
    BY <2>2, SignerTypes DEF KnownTxs, LogIsNumbered
  <2>4. o.life = life
    <3>1. o.life <= life /\ o.life \in Nat /\ life \in Nat
      BY <2>3, TransactionTypes DEF NextIsFresh, SignerTypeOK
    <3> QED
      BY <3>1
  <2>5. o.request # IncrementNonce
    BY <2>3, <2>4 DEF GivenUpForGood
  <2>6. o.request = tx.request
    BY <2>1, <2>3, <2>4, <2>5 DEF NumberedInOrder
  <2> HIDE DEF tx, o
  <2> QED
    BY <2>1, <2>3, <2>4, <2>6 DEF Transactions, tx, o
<1> QED
    BY <1>1, <1>2

\* Steps that sign nothing: no transaction is new, and the buffer holds only what
\* it held.
LEMMA NothingSigned ==
    ASSUME NumberingInv, KnownTxs' \subseteq KnownTxs, asked' = asked, life' = life,
           signer'.next_nonce = signer.next_nonce,
           \A i \in DOMAIN signer'.pending : \E j \in DOMAIN signer.pending :
              signer'.pending[i].tx = signer.pending[j].tx
    PROVE  NextIsFresh' /\ NumberedInOrder' /\ GivenUpForGood'
<1>1. NextIsFresh'
    BY DEF NumberingInv, NextIsFresh
<1>2. NumberedInOrder'
    BY DEF NumberingInv, NumberedInOrder, IncrementNonce
<1>3. GivenUpForGood'
    BY DEF NumberingInv, GivenUpForGood, IncrementNonce
<1> QED
    BY <1>1, <1>2, <1>3

LEMMA SignKeeps ==
    ASSUME NumberingInv, sign_new_tx
    PROVE  NumberingInv'
<1> USE DEF NumberingInv
<1> DEFINE p == signer.pending
           tx == Tx(signer.next_nonce, asked + 1)
           e == [tx |-> tx, tries |-> 1]
<1>1. /\ asked' = asked + 1 /\ mempool' = mempool \cup {tx}
      /\ signer' = [signer EXCEPT !.next_nonce = @ + 1, !.pending = Append(@, e)]
      /\ own_log' = own_log /\ new_block' = new_block /\ queried' = queried
      /\ lost' = lost /\ life' = life
    BY DEF sign_new_tx
<1>2. /\ p \in Seq(Pending) /\ Len(p) \in Nat /\ DOMAIN p = 1 .. Len(p)
      /\ signer.next_nonce \in Nat /\ signer.base_nonce \in Nat
      /\ asked \in Nat /\ life \in Nat
    BY SignerTypes DEF SignerTypeOK
<1>3. tx \in Transactions /\ e \in Pending
    BY <1>2 DEF Tx, Transactions, Pending
<1>4. tx.nonce = signer.next_nonce /\ tx.request = asked + 1 /\ tx.life = life
    BY DEF Tx
<1>5. /\ signer'.base_nonce = signer.base_nonce
      /\ signer'.next_nonce = signer.next_nonce + 1
      /\ signer'.pending = Append(p, e)
      /\ signer' = [base_nonce |-> signer.base_nonce, next_nonce |-> signer.next_nonce + 1,
                    pending |-> Append(p, e)]
    BY <1>1 DEF SignerTypeOK
<1> HIDE DEF p, tx
<1>6. /\ Append(p, e) \in Seq(Pending) /\ Len(Append(p, e)) = Len(p) + 1
      /\ DOMAIN Append(p, e) = 1 .. Len(p) + 1
      /\ \A i \in 1 .. Len(p) : Append(p, e)[i] = p[i]
      /\ Append(p, e)[Len(p) + 1] = e
  <2> HIDE DEF e
  <2> QED
    BY <1>2, <1>3
<1>7. \A i \in DOMAIN signer'.pending :
         IF i = Len(p) + 1 THEN signer'.pending[i].tx = tx
         ELSE i \in DOMAIN p /\ signer'.pending[i].tx = p[i].tx
    BY <1>2, <1>5, <1>6
<1>8. KnownTxs' \subseteq KnownTxs \cup {tx}
    BY <1>1, <1>7 DEF KnownTxs, p
<1>9. SignerTypeOK'
  <2>1. signer' \in [base_nonce : Nat, next_nonce : Nat, pending : Seq(Pending)]
    BY <1>2, <1>5, <1>6
  <2>2. mempool' \subseteq Transactions
    BY <1>1, <1>3 DEF SignerTypeOK
  <2>3. own_log' \in Seq(Transactions) /\ new_block' \in BOOLEAN /\ queried' \subseteq Nat
        /\ lost' \in Nat /\ life' \in Nat /\ asked' \in Nat
    BY <1>1 DEF SignerTypeOK
  <2> QED
    BY <2>1, <2>2, <2>3 DEF SignerTypeOK, Pending
<1>10. NoncesAgree'
  <2>1. signer'.next_nonce <= signer'.base_nonce + Len(signer'.pending) + 1
    <3>1. signer.next_nonce <= signer.base_nonce + Len(p) + 1
      BY DEF NoncesAgree, p
    <3>2. signer.next_nonce \in Nat /\ signer.base_nonce \in Nat /\ Len(p) \in Nat
      BY <1>2
    <3>3. signer.next_nonce + 1 <= signer.base_nonce + (Len(p) + 1) + 1
      BY <3>1, <3>2, SMTT(30)
    <3> QED
      BY <1>5, <1>6, <3>3
  <2>2. ASSUME NEW i \in DOMAIN signer'.pending
        PROVE  signer'.pending[i].tx.nonce + Len(signer'.pending) + 1 = signer'.next_nonce + i
    <3>1. CASE i = Len(p) + 1
      BY <1>2, <1>4, <1>5, <1>6, <1>7, <3>1
    <3>2. CASE i # Len(p) + 1
      <4>1. i \in DOMAIN p /\ signer'.pending[i].tx.nonce = p[i].tx.nonce
        BY <1>7, <3>2
      <4>2. p[i].tx.nonce + Len(p) + 1 = signer.next_nonce + i /\ p[i].tx.nonce \in Nat
        BY <4>1, SignerTypes, TransactionTypes DEF NoncesAgree, p
      <4>3. Len(signer'.pending) = Len(p) + 1 /\ i \in Nat
        BY <1>2, <1>5, <1>6, <4>1
      <4>4. p[i].tx.nonce + (Len(p) + 1) + 1 = (signer.next_nonce + 1) + i
        <5>1. PICK x \in Nat : x = p[i].tx.nonce
          BY <4>2
        <5>2. PICK l \in Nat : l = Len(p)
          BY <1>2
        <5>3. PICK n \in Nat : n = signer.next_nonce
          BY <1>2
        <5>4. x + l + 1 = n + i
          BY <4>2, <5>1, <5>2, <5>3
        <5>5. x + (l + 1) + 1 = (n + 1) + i
          BY <4>3, <5>4
        <5> QED
          BY <5>1, <5>2, <5>3, <5>5
      <4> QED
        BY <1>5, <4>1, <4>3, <4>4
    <3> QED
      BY <3>1, <3>2
  <2> QED
    BY <2>1, <2>2 DEF NoncesAgree
<1>11. LogIsNumbered' /\ NonceIsPast'
    BY <1>1, <1>5 DEF LogIsNumbered, NonceIsPast, application_nonce
<1>12. \A t \in KnownTxs : /\ t \in Transactions /\ t.nonce \in Nat /\ t.request \in Nat
                           /\ t.nonce > 0 /\ t.life <= life /\ t.request <= asked
                           /\ t.life = life => t.nonce < signer.next_nonce
    BY KnownTypes, TransactionTypes DEF NextIsFresh
<1>13. NextIsFresh'
  <2>1. \A t \in KnownTxs \cup {tx} :
          /\ t.nonce > 0 /\ t.life <= life /\ t.request <= asked + 1
          /\ t.life = life => t.nonce < signer.next_nonce + 1
    BY <1>2, <1>4, <1>12 DEF NextIsFresh
  <2>2. \A i \in DOMAIN signer'.pending : signer'.pending[i].tx.life = life
    BY <1>4, <1>7 DEF NextIsFresh, p
  <2>3. signer'.next_nonce > 0
    BY <1>2, <1>5
  <2> QED
    BY <1>1, <1>5, <1>8, <2>1, <2>2, <2>3 DEF NextIsFresh
<1>14. NumberedInOrder'
  <2>1. \A t \in KnownTxs \cup {tx}, u \in KnownTxs \cup {tx} :
          t.life = u.life /\ t.request # 0 /\ u.request # 0 =>
             /\ t.nonce < u.nonce => t.request < u.request
             /\ t.nonce = u.nonce => t.request = u.request
    BY <1>2, <1>4, <1>12 DEF NumberedInOrder, IncrementNonce
  <2> QED
    BY <1>8, <2>1 DEF NumberedInOrder, IncrementNonce
<1>15. GivenUpForGood'
  <2> SUFFICES ASSUME NEW t \in KnownTxs \cup {tx}, t.life = life, t.request = 0,
                      NEW i \in DOMAIN signer'.pending, signer'.pending[i].tx.nonce = t.nonce
               PROVE  signer'.pending[i].tx.request = 0
    BY <1>1, <1>8 DEF GivenUpForGood, IncrementNonce
  <2>1. t \in KnownTxs /\ t.nonce < signer.next_nonce
    BY <1>2, <1>4, <1>12
  <2>2. i \in DOMAIN p /\ signer'.pending[i].tx = p[i].tx
    BY <1>2, <1>4, <1>7, <1>12, <2>1
  <2> QED
    BY <2>1, <2>2 DEF GivenUpForGood, IncrementNonce, p
<1> QED
    BY <1>9, <1>10, <1>11, <1>13, <1>14, <1>15

\* Steps that leave the signer's state alone.
LEMMA SignerIdle ==
    ASSUME NumberingInv, signer' = signer, asked' = asked, life' = life,
           mempool' \subseteq mempool, own_log' = own_log,
           new_block' \in BOOLEAN, lost' \in Nat,
           queried' \subseteq queried \cup {application_nonce}
    PROVE  NumberingInv'
<1> USE DEF NumberingInv
<1>1. application_nonce \in Nat /\ signer.base_nonce \in Nat
    BY SignerTypes DEF application_nonce
<1>2. KnownTxs' \subseteq KnownTxs
    BY DEF KnownTxs
<1>3. NextIsFresh' /\ NumberedInOrder' /\ GivenUpForGood'
    BY <1>2, NothingSigned
<1>4. SignerTypeOK'
    BY <1>1 DEF SignerTypeOK
<1>5. NoncesAgree' /\ LogIsNumbered'
    BY DEF NoncesAgree, LogIsNumbered
<1>6. NonceIsPast'
  <2>1. application_nonce' = application_nonce
    BY DEF application_nonce
  <2> QED
    BY <1>1, <2>1 DEF NonceIsPast
<1> QED
    BY <1>3, <1>4, <1>5, <1>6

LEMMA ExecuteKeepsNumbering ==
    ASSUME NumberingInv, NEW tx \in mempool, ExecuteTransaction(tx)
    PROVE  NumberingInv'
<1> USE DEF NumberingInv
<1>1. /\ own_log' = Append(own_log, tx) /\ new_block' = TRUE /\ asked' = asked
      /\ signer' = signer /\ mempool' = mempool /\ queried' = queried
      /\ lost' = lost /\ life' = life /\ tx.nonce = Len(own_log) + 1
    BY DEF ExecuteTransaction, IsNext, application_nonce
<1>2. tx \in Transactions /\ own_log \in Seq(Transactions) /\ Len(own_log) \in Nat
      /\ DOMAIN own_log = 1 .. Len(own_log)
    BY SignerTypes DEF SignerTypeOK
<1>3. /\ own_log' \in Seq(Transactions) /\ Len(own_log') = Len(own_log) + 1
      /\ DOMAIN own_log' = 1 .. Len(own_log) + 1
      /\ \A i \in 1 .. Len(own_log) : own_log'[i] = own_log[i]
      /\ own_log'[Len(own_log) + 1] = tx
    BY <1>1, <1>2
<1>4. \A i \in DOMAIN own_log' :
         IF i = Len(own_log) + 1 THEN own_log'[i] = tx
         ELSE i \in DOMAIN own_log /\ own_log'[i] = own_log[i]
    BY <1>2, <1>3
<1>5. KnownTxs' \subseteq KnownTxs
    BY <1>1, <1>4 DEF KnownTxs
<1>6. NextIsFresh' /\ NumberedInOrder' /\ GivenUpForGood'
    BY <1>1, <1>5, NothingSigned
<1>7. SignerTypeOK'
    BY <1>1, <1>3 DEF SignerTypeOK
<1>8. NoncesAgree'
    BY <1>1 DEF NoncesAgree
<1>9. LogIsNumbered'
    BY <1>1, <1>4 DEF LogIsNumbered
<1>10. NonceIsPast'
  <2>1. signer.base_nonce \in Nat /\ queried \subseteq Nat
    BY SignerTypes DEF SignerTypeOK
  <2> QED
    BY <1>1, <1>2, <1>3, <2>1 DEF NonceIsPast, application_nonce
<1> QED
    BY <1>6, <1>7, <1>8, <1>9, <1>10

LEMMA CrashKeepsNumbering ==
    ASSUME NumberingInv, CrashSigner
    PROVE  NumberingInv'
<1> USE DEF NumberingInv
<1> DEFINE a == Len(own_log)
<1>1. /\ life' = life + 1 /\ new_block' = FALSE /\ queried' = {}
      /\ asked' = asked /\ mempool' = mempool /\ own_log' = own_log /\ lost' = lost
      /\ signer' = [base_nonce |-> a, next_nonce |-> a + 1, pending |-> << >>]
    BY DEF CrashSigner, init_state, application_nonce
<1>2. /\ signer'.base_nonce = a /\ signer'.next_nonce = a + 1
      /\ signer'.pending = << >> /\ DOMAIN signer'.pending = {} /\ Len(signer'.pending) = 0
    BY <1>1
<1>3. a \in Nat /\ life \in Nat /\ asked \in Nat
    BY SignerTypes DEF SignerTypeOK
<1>4. KnownTxs' \subseteq KnownTxs
    BY <1>1, <1>2 DEF KnownTxs
<1>5. SignerTypeOK'
  <2>1. << >> \in Seq([tx : Transactions, tries : Nat])
    OBVIOUS
  <2>2. signer' \in [base_nonce : Nat, next_nonce : Nat,
                     pending : Seq([tx : Transactions, tries : Nat])]
    BY <1>1, <1>3, <2>1
  <2>3. mempool' \subseteq Transactions /\ own_log' \in Seq(Transactions)
        /\ lost' \in Nat /\ asked' \in Nat /\ life' \in Nat
    BY <1>1, <1>3 DEF SignerTypeOK
  <2>4. new_block' \in BOOLEAN /\ queried' \subseteq Nat
    BY <1>1
  <2> QED
    BY <2>2, <2>3, <2>4 DEF SignerTypeOK
<1>6. NoncesAgree' /\ LogIsNumbered' /\ NonceIsPast'
    BY <1>1, <1>2, <1>3 DEF NoncesAgree, LogIsNumbered, NonceIsPast, application_nonce
<1>7. \A t \in KnownTxs : /\ t.nonce > 0 /\ t.life <= life /\ t.request <= asked
                          /\ t.life \in Nat
    BY KnownTypes, TransactionTypes DEF NextIsFresh
<1>8. NextIsFresh' /\ GivenUpForGood'
    BY <1>1, <1>2, <1>3, <1>4, <1>7 DEF NextIsFresh, GivenUpForGood
<1>9. NumberedInOrder'
    BY <1>4 DEF NumberedInOrder, IncrementNonce
<1> QED
    BY <1>5, <1>6, <1>8, <1>9

\* The nonces still agree when the buffer is cut and the nonce that was read becomes
\* the base.
LEMMA CutAgrees ==
    ASSUME NumberingInv, NEW nonce \in queried, queried' = {}, own_log' = own_log,
           signer'.base_nonce = nonce, signer'.next_nonce = signer.next_nonce,
           LET rest == NotOrdered(signer.pending, nonce) IN
              /\ Len(signer'.pending) = Len(rest) /\ DOMAIN signer'.pending = DOMAIN rest
              /\ \A i \in DOMAIN rest : signer'.pending[i].tx.nonce = rest[i].tx.nonce
    PROVE  NoncesAgree' /\ LogIsNumbered' /\ NonceIsPast'
<1> USE DEF NumberingInv
<1> DEFINE rest == NotOrdered(signer.pending, nonce)
<1>1. nonce \in Nat /\ signer.base_nonce <= nonce /\ nonce <= application_nonce
    BY DEF NonceIsPast, SignerTypeOK
<1>2. /\ DOMAIN rest = 1 .. Len(rest) /\ rest \in Seq(Pending)
      /\ \A i \in DOMAIN rest : rest[i].tx.nonce = nonce + i
      /\ signer.next_nonce <= nonce + Len(rest) + 1
      /\ rest # << >> => signer.next_nonce = nonce + Len(rest) + 1
    BY <1>1, RestOfBuffer
<1> HIDE DEF rest
<1>3. Len(rest) \in Nat
    BY <1>2
<1>4. ASSUME NEW i \in DOMAIN signer'.pending
      PROVE  signer'.pending[i].tx.nonce + Len(signer'.pending) + 1 = signer'.next_nonce + i
  <2>1. i \in 1 .. Len(rest) /\ rest # << >>
    BY <1>2, <1>3 DEF rest
  <2>2. signer'.pending[i].tx.nonce = nonce + i /\ Len(signer'.pending) = Len(rest)
        /\ signer'.next_nonce = nonce + Len(rest) + 1
    BY <1>2, <2>1 DEF rest
  <2> QED
    BY <1>1, <1>3, <2>1, <2>2
<1>5. NoncesAgree'
    BY <1>2, <1>4 DEF NoncesAgree, rest
<1>6. LogIsNumbered' /\ NonceIsPast'
    BY <1>1 DEF LogIsNumbered, NonceIsPast, application_nonce
<1> QED
    BY <1>5, <1>6

LEMMA SyncKeepsNumbering ==
    ASSUME NumberingInv, NEW nonce \in queried, sync_with_application(nonce)
    PROVE  NumberingInv'
<1> USE DEF NumberingInv
<1> DEFINE p == signer.pending
           rest == NotOrdered(p, nonce)
           k == Popped(p, nonce)
<1>1. nonce \in Nat /\ signer.base_nonce <= nonce
    BY DEF NonceIsPast, SignerTypeOK
<1>2. /\ rest \in Seq(Pending) /\ DOMAIN rest = 1 .. Len(rest)
      /\ \A i \in DOMAIN rest : rest[i] = p[k + i] /\ k + i \in DOMAIN p
    BY <1>1, RestOfBuffer
<1>3. /\ signer' = [signer EXCEPT !.base_nonce = nonce, !.pending = rest]
      /\ queried' = {} /\ asked' = asked /\ mempool' = mempool /\ own_log' = own_log
      /\ new_block' = new_block /\ lost' = lost /\ life' = life
    BY DEF sync_with_application
<1>4. /\ signer'.base_nonce = nonce /\ signer'.next_nonce = signer.next_nonce
      /\ signer'.pending = rest
      /\ signer' = [base_nonce |-> nonce, next_nonce |-> signer.next_nonce, pending |-> rest]
    BY <1>3 DEF SignerTypeOK
<1>5. NoncesAgree' /\ LogIsNumbered' /\ NonceIsPast'
    BY <1>3, <1>4, CutAgrees
<1> HIDE DEF rest, k
<1>6. KnownTxs' \subseteq KnownTxs
    BY <1>2, <1>3, <1>4 DEF KnownTxs
<1>7. \A i \in DOMAIN signer'.pending : \E j \in DOMAIN signer.pending :
         signer'.pending[i].tx = signer.pending[j].tx
    BY <1>2, <1>4
<1>8. NextIsFresh' /\ NumberedInOrder' /\ GivenUpForGood'
    BY <1>3, <1>4, <1>6, <1>7, NothingSigned
<1>9. SignerTypeOK'
  <2>1. signer' \in [base_nonce : Nat, next_nonce : Nat, pending : Seq(Pending)]
    BY <1>1, <1>2, <1>4, SignerTypes
  <2> QED
    BY <1>3, <2>1 DEF SignerTypeOK, Pending
<1> QED
    BY <1>5, <1>8, <1>9

\* What is sent again has the nonces it had, and is either the request that had the
\* nonce or the IncrementNonce in its place.
LEMMA ResentFacts ==
    ASSUME NumberingInv, NEW nonce \in queried, NEW reverts, NEW again
    PROVE  LET p == signer.pending
               k == Popped(p, nonce)
               rest == NotOrdered(p, nonce)
               resent == Resend(rest, nonce, reverts, again) IN
           /\ resent \in Seq(Pending) /\ Len(resent) = Len(rest) /\ DOMAIN resent = DOMAIN rest
           /\ \A i \in DOMAIN rest :
                /\ i \in Nat /\ k + i \in DOMAIN p
                /\ resent[i].tx.nonce = nonce + i /\ p[k + i].tx.nonce = nonce + i
                /\ resent[i].tx.life = life
                /\ resent[i].tx.request = IncrementNonce \/ resent[i].tx = p[k + i].tx
<1> USE DEF NumberingInv
<1> DEFINE p == signer.pending
           k == Popped(p, nonce)
           rest == NotOrdered(p, nonce)
           resent == Resend(rest, nonce, reverts, again)
<1>1. nonce \in Nat /\ signer.base_nonce <= nonce /\ life \in Nat
    BY DEF NonceIsPast, SignerTypeOK
<1>2. /\ rest \in Seq(Pending) /\ DOMAIN rest = 1 .. Len(rest)
      /\ \A i \in DOMAIN rest :
           rest[i] = p[k + i] /\ k + i \in DOMAIN p /\ rest[i].tx.nonce = nonce + i
    BY <1>1, RestOfBuffer
<1>3. \A i \in DOMAIN p : p[i].tx.life = life /\ p[i].tx \in Transactions /\ p[i].tries \in Nat
    BY SignerTypes DEF NextIsFresh
<1> HIDE DEF p, k, rest
<1>4. /\ DOMAIN resent = DOMAIN rest
      /\ \A i \in DOMAIN rest :
           /\ resent[i] = [tx |-> resent[i].tx, tries |-> resent[i].tries]
           /\ resent[i].tx = Tx(nonce + i, IncrementNonce) \/ resent[i].tx = rest[i].tx
           /\ resent[i].tries = rest[i].tries \/ resent[i].tries = rest[i].tries + 1
    BY DEF Resend
<1>5. Len(rest) \in Nat
    BY <1>2
<1>6. ASSUME NEW i \in DOMAIN rest
      PROVE  /\ i \in Nat /\ k + i \in DOMAIN p
             /\ resent[i] \in Pending
             /\ resent[i].tx.nonce = nonce + i /\ p[k + i].tx.nonce = nonce + i
             /\ resent[i].tx.life = life
             /\ resent[i].tx.request = IncrementNonce \/ resent[i].tx = p[k + i].tx
  <2>1. i \in Nat /\ k + i \in DOMAIN p /\ rest[i] = p[k + i] /\ rest[i].tx.nonce = nonce + i
    BY <1>2, <1>5
  <2>2. /\ Tx(nonce + i, IncrementNonce) \in Transactions
        /\ Tx(nonce + i, IncrementNonce).nonce = nonce + i
        /\ Tx(nonce + i, IncrementNonce).life = life
        /\ Tx(nonce + i, IncrementNonce).request = IncrementNonce
    BY <1>1, <2>1 DEF Tx, Transactions, IncrementNonce
  <2>3. rest[i].tx.life = life /\ rest[i].tx \in Transactions /\ rest[i].tries \in Nat
    BY <1>3, <2>1
  <2>4. resent[i].tx \in Transactions /\ resent[i].tries \in Nat
    BY <1>4, <2>2, <2>3
  <2>5. resent[i] \in Pending
    BY <1>4, <2>4 DEF Pending
  <2> QED
    BY <1>4, <2>1, <2>2, <2>3, <2>5
<1> HIDE DEF resent
<1>7. resent \in Seq(Pending) /\ Len(resent) = Len(rest)
  <2>1. resent = [i \in 1 .. Len(rest) |-> resent[i]]
    BY <1>2 DEF resent, Resend
  <2>2. \A i \in 1 .. Len(rest) : resent[i] \in Pending
    BY <1>2, <1>6
  <2> QED
    BY <1>5, <2>1, <2>2
<1> QED
    BY <1>4, <1>6, <1>7 DEF p, k, rest, resent

LEMMA ResendKeepsNumbering ==
    ASSUME NumberingInv, NEW nonce \in queried, NEW reverts, NEW again,
           sync_after_timeout(nonce, reverts, again)
    PROVE  NumberingInv'
<1> USE DEF NumberingInv
<1> DEFINE p == signer.pending
           k == Popped(p, nonce)
           rest == NotOrdered(p, nonce)
           resent == Resend(rest, nonce, reverts, again)
           New == {resent[i].tx : i \in DOMAIN rest}
<1>1. nonce \in Nat /\ signer.base_nonce <= nonce
    BY DEF NonceIsPast, SignerTypeOK
<1>2. /\ resent \in Seq(Pending) /\ Len(resent) = Len(rest) /\ DOMAIN resent = DOMAIN rest
      /\ \A i \in DOMAIN rest :
           /\ i \in Nat /\ k + i \in DOMAIN p
           /\ resent[i].tx.nonce = nonce + i /\ p[k + i].tx.nonce = nonce + i
           /\ resent[i].tx.life = life
           /\ resent[i].tx.request = IncrementNonce \/ resent[i].tx = p[k + i].tx
    BY ResentFacts
<1>3. rest # << >> /\ queried' = {} /\ asked' = asked /\ own_log' = own_log
      /\ new_block' = new_block /\ lost' = lost /\ life' = life
      /\ mempool' = mempool \cup {resent[i].tx : i \in again \cap DOMAIN resent}
      /\ signer' = [base_nonce |-> nonce, next_nonce |-> nonce + Len(resent) + 1,
                    pending |-> resent]
    BY DEF sync_after_timeout
<1>4. signer.next_nonce = nonce + Len(rest) + 1
      /\ \A i \in DOMAIN rest : rest[i].tx.nonce = nonce + i
    BY <1>1, <1>3, RestOfBuffer
<1>5. /\ signer'.base_nonce = nonce /\ signer'.next_nonce = signer.next_nonce
      /\ signer'.pending = resent
    BY <1>2, <1>3, <1>4
<1>6. NoncesAgree' /\ LogIsNumbered' /\ NonceIsPast'
    BY <1>2, <1>3, <1>4, <1>5, CutAgrees
<1> HIDE DEF p, k, rest, resent
<1>7. KnownTxs' \subseteq KnownTxs \cup New
    BY <1>2, <1>3, <1>5 DEF KnownTxs
<1>8. ASSUME NEW i \in DOMAIN rest
      PROVE  /\ p[k + i].tx \in KnownTxs
             /\ p[k + i].tx.nonce > 0 /\ p[k + i].tx.nonce < signer.next_nonce
  <2>1. p[k + i].tx \in KnownTxs /\ p[k + i].tx.life = life
    BY <1>2 DEF KnownTxs, NextIsFresh, p
  <2> QED
    BY <2>1 DEF NextIsFresh
<1>9. SignerTypeOK'
  <2>1. signer' \in [base_nonce : Nat, next_nonce : Nat, pending : Seq(Pending)]
    BY <1>1, <1>2, <1>3
  <2>2. \A i \in DOMAIN resent : resent[i].tx \in Transactions
    <3>1. \A i \in DOMAIN resent : resent[i] \in Pending
      BY <1>2
    <3> QED
      BY <3>1 DEF Pending
  <2>3. mempool' \subseteq Transactions
    BY <1>3, <2>2 DEF SignerTypeOK
  <2> QED
    BY <1>3, <2>1, <2>3 DEF SignerTypeOK, Pending
<1>10. asked \in Nat /\ life \in Nat
    BY DEF SignerTypeOK
<1>11. NextIsFresh'
  <2>1. \A t \in New : /\ t.nonce > 0 /\ t.life <= life /\ t.request <= asked
                       /\ t.nonce < signer.next_nonce
    <3> SUFFICES ASSUME NEW i \in DOMAIN rest
                 PROVE  /\ resent[i].tx.nonce > 0 /\ resent[i].tx.life <= life
                        /\ resent[i].tx.request <= asked
                        /\ resent[i].tx.nonce < signer.next_nonce
      OBVIOUS
    <3>1. resent[i].tx.nonce > 0 /\ resent[i].tx.nonce < signer.next_nonce
      BY <1>2, <1>8
    <3>2. resent[i].tx.request <= asked
      <4>1. p[k + i].tx.request <= asked
        BY <1>8 DEF NextIsFresh
      <4> QED
        BY <1>2, <1>10, <4>1 DEF IncrementNonce
    <3> QED
      BY <1>2, <1>10, <3>1, <3>2
  <2>2. \A i \in DOMAIN signer'.pending : signer'.pending[i].tx.life = life
    BY <1>2, <1>5
  <2> HIDE DEF New
  <2> QED
    BY <1>3, <1>5, <1>7, <2>1, <2>2 DEF NextIsFresh
<1>12. NumberedInOrder'
  <2>1. \A t \in KnownTxs \cup New : t.request # IncrementNonce => t \in KnownTxs
    BY <1>2, <1>8
  <2> HIDE DEF New
  <2> QED
    BY <1>7, <2>1 DEF NumberedInOrder, IncrementNonce
<1>13. GivenUpForGood'
  <2> SUFFICES ASSUME NEW t \in KnownTxs \cup New, t.life = life, t.request = 0,
                      NEW j \in DOMAIN rest, resent[j].tx.nonce = t.nonce
               PROVE  resent[j].tx.request = 0
    BY <1>2, <1>3, <1>5, <1>7 DEF GivenUpForGood, IncrementNonce
  <2>1. CASE t \in KnownTxs
    <3>1. p[k + j].tx.request = 0
      BY <1>2, <2>1 DEF GivenUpForGood, IncrementNonce, p
    <3> QED
      BY <1>2, <3>1 DEF IncrementNonce
  <2>2. CASE t \in New
    <3>1. PICK i \in DOMAIN rest : t = resent[i].tx
      BY <2>2
    <3>2. i = j
      <4>1. nonce + i = nonce + j /\ i \in Nat /\ j \in Nat
        BY <1>2, <3>1
      <4> QED
        BY <1>1, <4>1
    <3> QED
      BY <3>1, <3>2
  <2> QED
    BY <2>1, <2>2
<1> QED
    BY <1>6, <1>9, <1>11, <1>12, <1>13

-----------------------------------------------------------------------------
LEMMA SignerNextInv ==
    ASSUME NumberingInv, [SignerNext]_signerVars
    PROVE  NumberingInv'
<1>t. new_block \in BOOLEAN /\ lost \in Nat
    BY DEF NumberingInv, SignerTypeOK
<1>1. CASE sign_new_tx
    BY <1>1, SignKeeps
<1>2. CASE query_nonce
    BY <1>2, <1>t, SignerIdle DEF query_nonce
<1>3. CASE SyncSome
  <2>1. PICK nonce \in queried : sync_with_application(nonce) \/ SomeSent(nonce)
    BY <1>3 DEF SyncSome
  <2>2. CASE SomeSent(nonce)
    BY <2>2, ResendKeepsNumbering DEF SomeSent
  <2> QED
    BY <2>1, <2>2, SyncKeepsNumbering
<1>4. CASE CrashSigner
    BY <1>4, CrashKeepsNumbering
<1>5. CASE ExecuteSome
    BY <1>5, ExecuteKeepsNumbering DEF ExecuteSome
<1>6. CASE OtherBlock
    BY <1>6, <1>t, SignerIdle DEF OtherBlock
<1>7. ASSUME NEW tx \in mempool, LoseTransaction(tx) PROVE NumberingInv'
  <2>1. /\ lost' = lost + 1 /\ mempool' \subseteq mempool /\ new_block' = new_block
        /\ signer' = signer /\ asked' = asked /\ life' = life /\ own_log' = own_log
        /\ queried' = queried
    BY <1>7 DEF LoseTransaction
  <2>2. lost' \in Nat /\ new_block' \in BOOLEAN
    BY <1>t, <2>1
  <2> QED
    BY <2>1, <2>2, SignerIdle
<1>8. CASE UNCHANGED signerVars
    BY <1>8, <1>t, SignerIdle DEF signerVars
<1> QED
    BY <1>1, <1>2, <1>3, <1>4, <1>5, <1>6, <1>7, <1>8 DEF SignerNext

\* The signer's nonces continue the application's (the assertion in
\* sync_with_application), no request is executed twice or out of order within a
\* life, and what leaves the buffer as ordered was executed or given up, for every
\* number of requests, losses, retries and restarts.
THEOREM SignerCorrect == SignerSpec => []SignerInv
<1>1. SignerInit => NumberingInv
    BY SignerInitInv
<1>2. NumberingInv /\ [SignerNext]_signerVars => NumberingInv'
    BY SignerNextInv
<1> QED
    BY <1>1, <1>2, NumberingSuffices, PTL DEF SignerSpec

-----------------------------------------------------------------------------
\* The checkpointer.

\* The active nodes of an epoch are attesters, finitely many, and the diverged nodes
\* do not reach their supermajority.
LEMMA ActiveFacts ==
    ASSUME NEW e \in 0 .. Len(ActiveNodes) - 1
    PROVE  /\ Active(e) \subseteq Attesters
           /\ Cardinality(Active(e)) \in Nat
           /\ Cardinality(DivergedAttesters) \in Nat
           /\ Cardinality(DivergedAttesters) < Supermajority(Cardinality(Active(e)))
<1>1. Active(e) \subseteq Attesters
    BY DEF Attesters
<1>2. Cardinality(Active(e)) \in Nat /\ Cardinality(DivergedAttesters) \in Nat
    BY CheckpointerAssumption, FS_CardinalityType DEF CheckpointerAssumption
<1>3. Cardinality(DivergedAttesters) <= (2 * Cardinality(Active(e))) \div 3
    BY CheckpointerAssumption DEF CheckpointerAssumption
<1> DEFINE d == (2 * Cardinality(Active(e))) \div 3
<1>4. d \in Nat
    BY <1>2
<1> HIDE DEF d
<1>5. Cardinality(DivergedAttesters) < d + 1
    BY <1>2, <1>3, <1>4 DEF d
<1> QED
    BY <1>1, <1>2, <1>5 DEF Supermajority, d

\* Whatever group completes a supermajority is one of the true root: the diverged
\* nodes alone are too few, whichever epoch's active nodes are counted.
LEMMA AggregateStep ==
    ASSUME CkptTypeOK, AggregateIsTrue,
           NEW e \in CkptEpochs, NEW f \in 0 .. Len(ActiveNodes) - 1,
           NEW table \in [CkptEpochs -> [Attesters -> Roots \cup {NoRoot}]],
           \A n \in Attesters : table[e][n] = "diverged" => n \in DivergedAttesters,
           build_and_save_aggregate_if_supermajority(e, Cardinality(Active(f)), table)
    PROVE  /\ aggregates' \in
                [CkptEpochs -> [root : Roots \cup {NoRoot}, nodes : SUBSET Attesters]]
           /\ AggregateIsTrue'
<1> DEFINE Group(root) == {n \in Attesters : table[e][n] = root}
           size == Supermajority(Cardinality(Active(f)))
           agreed == {root \in Roots : Cardinality(Group(root)) >= size}
<1>1. "diverged" \notin agreed
  <2>1. Group("diverged") \subseteq DivergedAttesters
    OBVIOUS
  <2>2. Cardinality(Group("diverged")) \in Nat
        /\ Cardinality(Group("diverged")) <= Cardinality(DivergedAttesters)
    BY <2>1, CheckpointerAssumption, FS_Subset, FS_CardinalityType
    DEF CheckpointerAssumption
  <2>3. size \in Nat /\ Cardinality(DivergedAttesters) \in Nat
        /\ Cardinality(DivergedAttesters) < size
    BY ActiveFacts DEF Supermajority
  <2> HIDE DEF Group, size
  <2>4. ~(Cardinality(Group("diverged")) >= size)
    BY <2>2, <2>3
  <2> QED
    BY <2>4
<1>2. CASE agreed = {}
  <2>1. UNCHANGED aggregates
    BY <1>2 DEF build_and_save_aggregate_if_supermajority
  <2> QED
    BY <2>1 DEF CkptTypeOK, AggregateIsTrue
<1>3. CASE agreed # {}
  <2>1. PICK root \in agreed : \E nodes \in kSubset(size, Group(root)) :
               aggregates' = [aggregates EXCEPT ![e] = [root |-> root, nodes |-> nodes]]
    BY <1>3 DEF build_and_save_aggregate_if_supermajority
  <2>2. PICK nodes \in kSubset(size, Group(root)) :
               aggregates' = [aggregates EXCEPT ![e] = [root |-> root, nodes |-> nodes]]
    BY <2>1
  <2>3. root \in Roots /\ root # "diverged" /\ nodes \subseteq Attesters
    BY <1>1, <2>1, <2>2 DEF kSubset
  <2> HIDE DEF agreed, size, Group
  <2> QED
    BY <2>2, <2>3 DEF CkptTypeOK, AggregateIsTrue
<1> QED
    BY <1>2, <1>3

\* The tables start empty.
LEMMA CkptInitInv == CkptInit => CkptInv
<1> SUFFICES ASSUME CkptInit PROVE CkptInv
    OBVIOUS
<1>1. CkptTypeOK
    BY CheckpointerAssumption
    DEF CkptInit, CkptTypeOK, AwaitEpochChange, CheckpointerAssumption
<1> QED
    BY <1>1 DEF CkptInit, CkptInv, AttestationsHonest, CountOfSomeEpoch, AggregateIsTrue,
                NoRoot, AwaitEpochChange

\* One entry of the table is replaced by one that an honest node can have.
LEMMA NewAttestation ==
    ASSUME CkptTypeOK, AttestationsHonest,
           NEW e \in CkptEpochs, NEW n \in Attesters, NEW root \in Roots,
           n \notin DivergedAttesters => root = "true",
           set_node_checkpoint_attestation(e, n, root)
    PROVE  /\ attestations' \in [CkptEpochs -> [Attesters -> Roots \cup {NoRoot}]]
           /\ AttestationsHonest'
<1>1. attestations' = [attestations EXCEPT ![e] = [attestations[e] EXCEPT ![n] = root]]
    BY DEF set_node_checkpoint_attestation
<1>2. [attestations[e] EXCEPT ![n] = root] \in [Attesters -> Roots \cup {NoRoot}]
    BY DEF CkptTypeOK
<1>3. attestations' \in [CkptEpochs -> [Attesters -> Roots \cup {NoRoot}]]
    BY <1>1, <1>2 DEF CkptTypeOK
<1>4. ASSUME NEW f \in CkptEpochs, NEW m \in Attesters, attestations'[f][m] = "diverged"
      PROVE  m \in DivergedAttesters
  <2>1. CASE f = e /\ m = n
    BY <1>1, <1>4, <2>1 DEF CkptTypeOK
  <2>2. CASE ~(f = e /\ m = n)
    <3>1. attestations'[f][m] = attestations[f][m]
      BY <1>1, <2>2 DEF CkptTypeOK
    <3> QED
      BY <1>4, <3>1 DEF AttestationsHonest
  <2> QED
    BY <2>1, <2>2
<1> QED
    BY <1>3, <1>4 DEF AttestationsHonest

\* Every step keeps the invariant.
LEMMA CkptNextInv == CkptInv /\ [CkptNext]_ckptVars => CkptInv'
<1> SUFFICES ASSUME CkptInv, [CkptNext]_ckptVars PROVE CkptInv'
    OBVIOUS
<1>0. /\ CkptTypeOK /\ AttestationsHonest /\ CountOfSomeEpoch /\ AggregateIsTrue
      /\ ckpt_epoch \in 0 .. Len(ActiveNodes) - 1
      /\ Cardinality(get_eligible_nodes) \in Nat
    BY ActiveFacts DEF CkptInv, CkptTypeOK, get_eligible_nodes
<1>1. ASSUME NEW n \in Attesters, NEW e \in CkptEpochs, NEW root \in Roots,
             Arrives(n, e, root)
      PROVE  CkptInv'
  <2>1. /\ set_node_checkpoint_attestation(e, n, root)
        /\ n \notin DivergedAttesters => root = "true"
        /\ build_and_save_aggregate_if_supermajority(
             e, Cardinality(Active(ckpt_epoch)), attestations')
        /\ UNCHANGED <<ckpt_epoch, notices, listener, ckpt_restarts>>
    BY <1>1 DEF Arrives, Attests, handle_incoming_checkpoint_attestation, get_eligible_nodes
  <2>2. /\ attestations' \in [CkptEpochs -> [Attesters -> Roots \cup {NoRoot}]]
        /\ AttestationsHonest'
    BY <1>0, <2>1, NewAttestation
  <2>3. \A m \in Attesters : attestations'[e][m] = "diverged" => m \in DivergedAttesters
    BY <2>2 DEF AttestationsHonest
  <2>4. /\ aggregates' \in
             [CkptEpochs -> [root : Roots \cup {NoRoot}, nodes : SUBSET Attesters]]
        /\ AggregateIsTrue'
    BY <1>0, <2>1, <2>2, <2>3, AggregateStep
  <2> QED
    BY <1>0, <2>1, <2>2, <2>4 DEF CkptInv, CkptTypeOK, CountOfSomeEpoch
<1>2. ASSUME handle_epoch_changed
      PROVE  CkptInv'
  <2> DEFINE e == Head(notices)
  <2>1. /\ notices # <<>> /\ notices' = Tail(notices)
        /\ UNCHANGED <<ckpt_epoch, aggregates, ckpt_restarts>>
    BY <1>2 DEF handle_epoch_changed
  <2>2. e \in CkptEpochs /\ notices' \in Seq(CkptEpochs)
    BY <1>0, <2>1 DEF CkptTypeOK
  <2>3. CASE UNCHANGED <<listener, attestations>>
    BY <1>0, <2>1, <2>2, <2>3
    DEF CkptInv, CkptTypeOK, AttestationsHonest, CountOfSomeEpoch, AggregateIsTrue
  <2>4. CASE /\ set_node_checkpoint_attestation(e, Attester, "true")
             /\ listener' = [pc |-> "send", epoch |-> e,
                             count |-> Cardinality(get_eligible_nodes)]
    <3>1. Attester \in Attesters /\ "true" \in Roots
      BY CheckpointerAssumption DEF CheckpointerAssumption, Roots
    <3>2. /\ attestations' \in [CkptEpochs -> [Attesters -> Roots \cup {NoRoot}]]
          /\ AttestationsHonest'
      BY <1>0, <2>2, <2>4, <3>1, NewAttestation
    <3>3. e \in Nat
      BY <2>2, CheckpointerAssumption DEF CkptEpochs, CheckpointerAssumption
    <3>4. CountOfSomeEpoch' /\ listener' \in [pc : {"wait", "send"}, epoch : Nat, count : Nat]
      BY <1>0, <2>2, <2>4, <3>3 DEF CountOfSomeEpoch, get_eligible_nodes
    <3> QED
      BY <1>0, <2>1, <2>2, <3>2, <3>4 DEF CkptInv, CkptTypeOK, AggregateIsTrue
  <2> QED
    BY <1>2, <2>3, <2>4 DEF handle_epoch_changed
<1>3. ASSUME SendAttestation
      PROVE  CkptInv'
  <2>1. PICK f \in 0 .. Len(ActiveNodes) - 1 : listener.count = Cardinality(Active(f))
    BY <1>0, <1>3 DEF SendAttestation, CountOfSomeEpoch
  <2>2. /\ listener.epoch \in CkptEpochs
        /\ listener' = AwaitEpochChange
        /\ build_and_save_aggregate_if_supermajority(
             listener.epoch, Cardinality(Active(f)), attestations)
        /\ UNCHANGED <<ckpt_epoch, notices, attestations, ckpt_restarts>>
    BY <1>0, <1>3, <2>1 DEF SendAttestation, CountOfSomeEpoch
  <2>3. /\ attestations \in [CkptEpochs -> [Attesters -> Roots \cup {NoRoot}]]
        /\ \A n \in Attesters :
             attestations[listener.epoch][n] = "diverged" => n \in DivergedAttesters
    BY <1>0, <2>2 DEF CkptTypeOK, AttestationsHonest
  <2>4. /\ aggregates' \in
             [CkptEpochs -> [root : Roots \cup {NoRoot}, nodes : SUBSET Attesters]]
        /\ AggregateIsTrue'
    BY <1>0, <2>2, <2>3, AggregateStep
  <2> QED
    BY <1>0, <2>2, <2>4
    DEF CkptInv, CkptTypeOK, AttestationsHonest, CountOfSomeEpoch, AwaitEpochChange
<1>4. CASE EpochChanges
  <2>1. ckpt_epoch + 1 \in CkptEpochs /\ ckpt_epoch' \in 0 .. Len(ActiveNodes) - 1
    BY <1>0, <1>4, CheckpointerAssumption DEF EpochChanges, CkptEpochs, CheckpointerAssumption
  <2>2. notices' \in Seq(CkptEpochs)
    BY <1>0, <1>4, <2>1 DEF EpochChanges, CkptTypeOK
  <2> QED
    BY <1>0, <1>4, <2>1, <2>2
    DEF EpochChanges, CkptInv, CkptTypeOK, AttestationsHonest, CountOfSomeEpoch,
        AggregateIsTrue
<1>5. CASE CkptRestart
    BY <1>0, <1>5
    DEF CkptRestart, CkptInv, CkptTypeOK, AttestationsHonest, CountOfSomeEpoch,
        AggregateIsTrue, AwaitEpochChange
<1>6. CASE UNCHANGED ckptVars
    BY <1>0, <1>6
    DEF ckptVars, CkptInv, CkptTypeOK, AttestationsHonest, CountOfSomeEpoch, AggregateIsTrue
<1> QED
    BY <1>1, <1>2, <1>3, <1>4, <1>5, <1>6 DEF CkptNext

\* The checkpointer only ever saves aggregates of the true state root, although it
\* counts against the active nodes of whatever epoch it is in, keeps a count over an
\* await, replaces aggregates and restarts.
THEOREM CheckpointsCorrect == CkptSpec => []CkptInv
BY CkptInitInv, CkptNextInv, PTL DEF CkptSpec

-----------------------------------------------------------------------------
\* The execution worker of validators. The order of narwhal's output is kept through
\* the channel, the log, the store and the restarts of one validator (OrderKept);
\* that two logs agree follows because each new block is the one after the last.

\* The state of a validator that a step of another one leaves alone.
Untouched(u) ==
    /\ session'[u] = session[u] /\ sub_dag'[u] = sub_dag[u] /\ vlog'[u] = vlog[u]
    /\ channel'[u] = channel[u] /\ narwhal'[u] = narwhal[u] /\ task'[u] = task[u]

\* What a validator keeps to is about its own state only.
LEMMA OthersKeepOrder ==
    ASSUME NEW u \in Validators, Untouched(u), OrderKept(u)
    PROVE  OrderKept(u)'
<1>0. /\ session'[u] = session[u] /\ sub_dag'[u] = sub_dag[u] /\ vlog'[u] = vlog[u]
      /\ channel'[u] = channel[u] /\ narwhal'[u] = narwhal[u] /\ task'[u] = task[u]
    BY DEF Untouched
<1>1. OutputsInOrder(u)'
    BY <1>0 DEF OrderKept, OutputsInOrder, NextOutput, Before
<1>2. StoreIsKept(u)'
    BY <1>0 DEF OrderKept, StoreIsKept, InStore
<1>3. StartsClean(u)'
    BY <1>0 DEF OrderKept, StartsClean
<1>4. IndexNotBehind(u)'
    BY <1>0 DEF OrderKept, IndexNotBehind
<1>5. NoGaps(u)'
  <2>1. InSession(u)' = InSession(u) /\ ChainPosition(u)' = ChainPosition(u)
    BY <1>0 DEF InSession, ChainPosition
  <2> QED
    BY <1>0, <2>1 DEF OrderKept, NoGaps
<1> QED
    BY <1>1, <1>2, <1>3, <1>4, <1>5 DEF OrderKept

\* Types of one validator's state.
LEMMA LocalTypes ==
    ASSUME ValidatorTypeOK, NEW v \in Validators
    PROVE  /\ session[v] \in Sessions /\ sub_dag[v] \in 0 .. SubDags
           /\ vlog[v] \in Seq([batch : OutputBatch, at : Sessions])
           /\ channel[v] \in Seq(OutputBatch) /\ Len(channel[v]) \in Nat
           /\ Len(vlog[v]) \in Nat
           /\ narwhal[v] \in Narwhal
           /\ Sessions \subseteq Nat /\ SubDags \in Nat
<1>1. /\ session[v] \in Sessions /\ sub_dag[v] \in 0 .. SubDags
      /\ vlog[v] \in Seq([batch : OutputBatch, at : Sessions])
      /\ channel[v] \in Seq(OutputBatch) /\ narwhal[v] \in Narwhal
    BY DEF ValidatorTypeOK
<1>2. Len(channel[v]) \in Nat /\ Len(vlog[v]) \in Nat
    BY <1>1
<1>3. Sessions \subseteq Nat /\ SubDags \in Nat
    BY SessionAssumption DEF SessionAssumption, Sessions
<1> QED
    BY <1>1, <1>2, <1>3

LEMMA EntryTypes ==
    ASSUME ValidatorTypeOK, NEW v \in Validators
    PROVE  /\ \A i \in 1 .. Len(vlog[v]) :
                /\ vlog[v][i] \in [batch : OutputBatch, at : Sessions]
                /\ vlog[v][i].batch.session \in Nat /\ vlog[v][i].batch.index \in Nat
           /\ \A i \in 1 .. Len(channel[v]) :
                /\ channel[v][i] \in OutputBatch
                /\ channel[v][i].session \in Nat /\ channel[v][i].index \in Nat
           /\ narwhal[v].session \in Nat /\ narwhal[v].ordered \in Nat
           /\ narwhal[v].next \in Nat /\ narwhal[v].running \in BOOLEAN
           /\ session[v] \in Nat /\ sub_dag[v] \in Nat
<1>0. MaxSession \in Nat /\ SubDags \in Nat
    BY SessionAssumption DEF SessionAssumption
<1>b. ASSUME NEW b \in OutputBatch PROVE b.session \in Nat /\ b.index \in Nat
  <2>1. b.session \in Sessions /\ b.index \in 1 .. SubDags
    BY DEF OutputBatch
  <2> QED
    BY <1>0, <2>1 DEF Sessions
<1> DEFINE Entry == [batch : OutputBatch, at : Sessions]
<1>a. vlog[v] \in Seq(Entry) /\ channel[v] \in Seq(OutputBatch)
    BY LocalTypes
<1>1. ASSUME NEW i \in 1 .. Len(vlog[v]) PROVE vlog[v][i] \in Entry
  <2> HIDE DEF Entry
  <2> QED
    BY <1>a
<1>2. ASSUME NEW i \in 1 .. Len(channel[v]) PROVE channel[v][i] \in OutputBatch
    BY <1>a
<1>3. ASSUME NEW i \in 1 .. Len(vlog[v]) PROVE vlog[v][i].batch \in OutputBatch
    BY <1>1
<1>4. /\ narwhal[v].session \in Sessions /\ narwhal[v].ordered \in 0 .. SubDags
      /\ narwhal[v].next \in 1 .. SubDags + 1 /\ narwhal[v].running \in BOOLEAN
    BY LocalTypes DEF Narwhal
<1>5. narwhal[v].session \in Nat /\ narwhal[v].ordered \in Nat /\ narwhal[v].next \in Nat
    BY <1>0, <1>4 DEF Sessions
<1>6. session[v] \in Nat /\ sub_dag[v] \in Nat
    BY <1>0, LocalTypes DEF Sessions
<1>7. \A i \in 1 .. Len(vlog[v]) :
         vlog[v][i].batch.session \in Nat /\ vlog[v][i].batch.index \in Nat
    BY <1>b, <1>3
<1>8. \A i \in 1 .. Len(channel[v]) :
         channel[v][i].session \in Nat /\ channel[v][i].index \in Nat
    BY <1>b, <1>2
<1> QED
    BY <1>1, <1>2, <1>4, <1>5, <1>6, <1>7, <1>8

LEMMA ValidatorInitInv ==
    ASSUME ValidatorInit
    PROVE  ValidatorInv
<1>1. ValidatorTypeOK
    BY SessionAssumption
    DEF ValidatorInit, ValidatorTypeOK, SessionAssumption, Sessions, Narwhal
<1>2. ASSUME NEW v \in Validators PROVE vlog[v] = << >> /\ channel[v] = << >>
    BY DEF ValidatorInit
<1>3. ExecutedOnce /\ Agreement
    BY <1>2 DEF ExecutedOnce, Agreement
<1>4. ASSUME NEW v \in Validators PROVE OrderKept(v)
    BY <1>2
    DEF ValidatorInit, OrderKept, OutputsInOrder, StoreIsKept, StartsClean,
        IndexNotBehind, NoGaps, ChainPosition
<1> QED
    BY <1>1, <1>3, <1>4 DEF ValidatorInv

LEMMA StartKeeps ==
    ASSUME ValidatorTypeOK, NEW v \in Validators, OrderKept(v), StartNarwhal(v)
    PROVE  /\ ValidatorTypeOK' /\ OrderKept(v)'
           /\ \A u \in Validators \ {v} : Untouched(u)
<1> DEFINE n == narwhal[v]
           ordered == IF n.session = session[v] THEN n.ordered ELSE 0
<1>t. n \in Narwhal /\ session[v] \in Sessions /\ sub_dag[v] \in 0 .. SubDags
      /\ SubDags \in Nat /\ Sessions \subseteq Nat
    BY LocalTypes
<1>1. OpenStore(v) \in Narwhal
    BY <1>t DEF OpenStore, Narwhal, last_executed_sub_dag_index
<1>2. ValidatorTypeOK'
    BY <1>1 DEF ValidatorTypeOK, StartNarwhal, durable
<1>3. \A u \in Validators \ {v} : Untouched(u)
    BY DEF ValidatorTypeOK, StartNarwhal, durable, Untouched
<1>4. session'[v] = session[v] /\ sub_dag'[v] = sub_dag[v] /\ vlog'[v] = vlog[v]
      /\ channel'[v] = channel[v] /\ task'[v] = "started" /\ task[v] = "starting"
    BY DEF StartNarwhal, durable, ValidatorTypeOK
<1>s. InSession(v)' = InSession(v) /\ ChainPosition(v)' = ChainPosition(v)
    BY <1>4 DEF InSession, ChainPosition
<1>5. CASE v \notin Members[session[v]]
  <2>1. narwhal'[v] = narwhal[v]
    BY <1>5 DEF StartNarwhal
  <2>2. OutputsInOrder(v)'
    BY <1>4, <2>1 DEF OrderKept, OutputsInOrder, NextOutput, Before
  <2>3. StoreIsKept(v)'
    BY <1>4, <2>1 DEF OrderKept, StoreIsKept, InStore
  <2>4. StartsClean(v)'
    BY <1>4 DEF StartsClean
  <2>5. IndexNotBehind(v)'
    BY <1>4 DEF OrderKept, IndexNotBehind
  <2>6. NoGaps(v)'
    BY <1>4, <2>1, <1>s DEF OrderKept, NoGaps
  <2> QED
    BY <1>2, <1>3, <2>2, <2>3, <2>4, <2>5, <2>6 DEF OrderKept
<1>6. CASE v \in Members[session[v]]
  <2>1. narwhal'[v] = OpenStore(v)
    BY <1>6 DEF StartNarwhal, ValidatorTypeOK
  <2>2. /\ narwhal'[v].running = TRUE /\ narwhal'[v].session = session[v]
        /\ narwhal'[v].ordered = ordered
        /\ narwhal'[v].next = IF sub_dag[v] + 1 <= ordered
                              THEN sub_dag[v] + 1 ELSE ordered + 1
    BY <2>1 DEF OpenStore, last_executed_sub_dag_index
  <2>3. /\ n.session \in Nat /\ session[v] \in Nat /\ sub_dag[v] \in Nat
        /\ n.ordered \in Nat /\ ordered \in Nat
    BY EntryTypes
  <2>c. n.session < session[v] \/ channel[v] = << >>
    BY <1>4 DEF OrderKept, StartsClean
  <2>4. ASSUME NEW i \in 1 .. Len(vlog[v])
        PROVE  /\ Before(vlog[v][i].batch, NextOutput(v)')
               /\ \/ vlog[v][i].batch.session < session[v]
                  \/ /\ vlog[v][i].batch.session = session[v]
                     /\ vlog[v][i].batch.index <= ordered
    <3>2. vlog[v][i].batch.session \in Nat /\ vlog[v][i].batch.index \in Nat
      BY EntryTypes
    <3>3. InStore(vlog[v][i].batch, v) /\ n.session <= session[v]
      BY DEF OrderKept, StoreIsKept
    <3>4. vlog[v][i].batch.session = session[v] => vlog[v][i].batch.index <= sub_dag[v]
      BY DEF OrderKept, IndexNotBehind
    <3>5. \/ vlog[v][i].batch.session < session[v]
          \/ vlog[v][i].batch.session = session[v] /\ vlog[v][i].batch.index <= ordered
      BY <3>2, <3>3, <2>3 DEF InStore
    <3>6. vlog[v][i].batch.session = session[v] => vlog[v][i].batch.index < narwhal'[v].next
      BY <3>2, <3>4, <3>5, <2>2, <2>3
    <3>7. Before(vlog[v][i].batch, NextOutput(v)')
      BY <3>5, <3>6, <2>2 DEF Before, NextOutput
    <3> QED
      BY <3>5, <3>7
  <2>5. ASSUME NEW i \in 1 .. Len(channel[v])
        PROVE  channel[v][i].session < session[v] /\ v \in Members[channel[v][i].session]
    <3>1. channel[v] # << >>
      OBVIOUS
    <3>2. channel[v][i].session \in Nat /\ channel[v][i].index \in Nat
      BY EntryTypes
    <3>3. InStore(channel[v][i], v) /\ n.session < session[v]
          /\ v \in Members[channel[v][i].session]
      BY <2>c, <3>1 DEF OrderKept, StoreIsKept
    <3> QED
      BY <3>2, <3>3, <2>3 DEF InStore
  <2>6. OutputsInOrder(v)'
    <3>1. \A i \in 1 .. Len(channel[v]) : Before(channel[v][i], NextOutput(v)')
      BY <2>5, <2>2 DEF Before, NextOutput
    <3> QED
      BY <1>4, <2>4, <3>1 DEF OrderKept, OutputsInOrder
  <2>7. StoreIsKept(v)'
    <3>1. \A i \in 1 .. Len(vlog[v]) : InStore(vlog[v][i].batch, v)'
      BY <2>4, <2>2, <1>4 DEF InStore
    <3>2. \A i \in 1 .. Len(channel[v]) : InStore(channel[v][i], v)'
      BY <2>5, <2>2, <1>4 DEF InStore
    <3> QED
      BY <1>4, <1>6, <2>2, <2>3, <2>5, <3>1, <3>2 DEF StoreIsKept
  <2>8. StartsClean(v)' /\ IndexNotBehind(v)'
    BY <1>4 DEF OrderKept, StartsClean, IndexNotBehind
  <2>9. NoGaps(v)'
    <3> SUFFICES ASSUME InSession(v)
                 PROVE  NoGaps(v)'
      BY <1>s DEF NoGaps
    <3>1. sub_dag[v] <= ordered /\ narwhal'[v].next = sub_dag[v] + 1
      BY <2>2, <2>3 DEF OrderKept, NoGaps, StoreIsKept
    <3>2. ASSUME channel[v] # << >> => channel[v][1].session = session[v]
          PROVE  channel[v] = << >>
      BY <2>5, <2>3, LocalTypes, <3>2
    <3>3. channel[v] = << >> => Len(channel[v]) = 0
      OBVIOUS
    <3> QED
      BY <1>4, <1>s, <2>2, <2>3, <3>1, <3>2, <3>3 DEF OrderKept, NoGaps
  <2> QED
    BY <1>2, <1>3, <2>6, <2>7, <2>8, <2>9 DEF OrderKept
<1> QED
    BY <1>5, <1>6

LEMMA AwaitKeeps ==
    ASSUME ValidatorTypeOK, NEW v \in Validators, OrderKept(v), AwaitReconfigure(v)
    PROVE  /\ ValidatorTypeOK' /\ OrderKept(v)'
           /\ \A u \in Validators \ {v} : Untouched(u)
<1>1. ValidatorTypeOK' /\ \A u \in Validators \ {v} : Untouched(u)
    BY DEF ValidatorTypeOK, AwaitReconfigure, durable, Untouched
<1>2. /\ session'[v] = session[v] /\ sub_dag'[v] = sub_dag[v] /\ vlog'[v] = vlog[v]
      /\ channel'[v] = channel[v] /\ narwhal'[v] = narwhal[v] /\ task'[v] = "waiting"
    BY DEF ValidatorTypeOK, AwaitReconfigure, durable
<1>3. OutputsInOrder(v)'
    BY <1>2 DEF OrderKept, OutputsInOrder, NextOutput, Before
<1>6. StoreIsKept(v)'
    BY <1>2 DEF OrderKept, StoreIsKept, InStore
<1>4. StartsClean(v)' /\ IndexNotBehind(v)'
    BY <1>2 DEF OrderKept, StartsClean, IndexNotBehind
<1>5. NoGaps(v)'
  <2>1. InSession(v)' = InSession(v) /\ ChainPosition(v)' = ChainPosition(v)
    BY <1>2 DEF InSession, ChainPosition
  <2> QED
    BY <1>2, <2>1 DEF OrderKept, NoGaps
<1> QED
    BY <1>1, <1>3, <1>4, <1>5, <1>6 DEF OrderKept

\* An instance that stops keeps its store, and queued outputs may be lost.
LEMMA StopKeeps ==
    ASSUME ValidatorTypeOK, NEW v \in Validators, OrderKept(v),
           session'[v] = session[v], sub_dag'[v] = sub_dag[v], vlog'[v] = vlog[v],
           narwhal'[v] = [narwhal[v] EXCEPT !.running = FALSE],
           task'[v] = "starting",
           \/ channel'[v] = << >>
           \/ channel'[v] = channel[v] /\ narwhal[v].session < session[v]
    PROVE  OrderKept(v)'
<1>1. /\ narwhal'[v].running = FALSE /\ narwhal'[v].session = narwhal[v].session
      /\ narwhal'[v].ordered = narwhal[v].ordered /\ narwhal'[v].next = narwhal[v].next
    BY LocalTypes DEF Narwhal
<1>2. channel'[v] = << >> => Len(channel'[v]) = 0
    OBVIOUS
<1>3. OutputsInOrder(v)'
    BY <1>1, <1>2 DEF OrderKept, OutputsInOrder
<1>4. StoreIsKept(v)'
    BY <1>1, <1>2 DEF OrderKept, StoreIsKept, InStore
<1>5. StartsClean(v)' /\ IndexNotBehind(v)'
    BY <1>1 DEF OrderKept, StartsClean, IndexNotBehind
<1>6. NoGaps(v)'
  <2>1. InSession(v)' = InSession(v) /\ ChainPosition(v)' = ChainPosition(v)
    BY DEF InSession, ChainPosition
  <2>2. narwhal[v].session \in Nat /\ session[v] \in Nat
    BY EntryTypes
  <2> QED
    BY <1>1, <1>2, <2>1, <2>2 DEF OrderKept, NoGaps
<1> QED
    BY <1>3, <1>4, <1>5, <1>6 DEF OrderKept

LEMMA ShutdownKeeps ==
    ASSUME ValidatorTypeOK, NEW v \in Validators, OrderKept(v), ShutdownNarwhal(v)
    PROVE  /\ ValidatorTypeOK' /\ OrderKept(v)'
           /\ \A u \in Validators \ {v} : Untouched(u)
<1>1. [narwhal[v] EXCEPT !.running = FALSE] \in Narwhal
    BY LocalTypes DEF Narwhal
<1>2. ValidatorTypeOK'
    BY <1>1 DEF ValidatorTypeOK, ShutdownNarwhal, durable
<1>3. \A u \in Validators \ {v} : Untouched(u)
    BY DEF ValidatorTypeOK, ShutdownNarwhal, durable, Untouched
<1>4. /\ session'[v] = session[v] /\ sub_dag'[v] = sub_dag[v] /\ vlog'[v] = vlog[v]
      /\ channel'[v] = channel[v] /\ task'[v] = "starting" /\ task[v] = "notified"
      /\ narwhal'[v] = [narwhal[v] EXCEPT !.running = FALSE]
    BY DEF ValidatorTypeOK, ShutdownNarwhal, durable
<1>5. narwhal[v].session < session[v]
    BY <1>4 DEF OrderKept, StartsClean
<1> QED
    BY <1>2, <1>3, <1>4, <1>5, StopKeeps

LEMMA CrashKeeps ==
    ASSUME ValidatorTypeOK, NEW v \in Validators, OrderKept(v), Crash(v)
    PROVE  /\ ValidatorTypeOK' /\ OrderKept(v)'
           /\ \A u \in Validators \ {v} : Untouched(u)
<1>1. [narwhal[v] EXCEPT !.running = FALSE] \in Narwhal
    BY LocalTypes DEF Narwhal
<1>2. ValidatorTypeOK'
  <2>1. << >> \in Seq(OutputBatch) /\ Len(<< >>) <= MaxChannel
    BY SessionAssumption DEF SessionAssumption
  <2>2. crashes' \in 0 .. MaxCrashes
    BY SessionAssumption DEF ValidatorTypeOK, Crash, SessionAssumption
  <2>3. \A u \in Validators : Len(channel'[u]) <= MaxChannel
    BY <2>1 DEF ValidatorTypeOK, Crash
  <2> QED
    BY <1>1, <2>1, <2>2, <2>3 DEF ValidatorTypeOK, Crash, durable
<1>3. \A u \in Validators \ {v} : Untouched(u)
    BY DEF ValidatorTypeOK, Crash, durable, Untouched
<1>4. /\ session'[v] = session[v] /\ sub_dag'[v] = sub_dag[v] /\ vlog'[v] = vlog[v]
      /\ channel'[v] = << >> /\ task'[v] = "starting"
      /\ narwhal'[v] = [narwhal[v] EXCEPT !.running = FALSE]
    BY DEF ValidatorTypeOK, Crash, durable
<1> QED
    BY <1>2, <1>3, <1>4, StopKeeps

-----------------------------------------------------------------------------
(* The channel. *)

LEMMA TailFacts ==
    ASSUME NEW S, NEW q \in Seq(S), q # << >>
    PROVE  /\ Len(q) \in Nat \ {0} /\ Head(q) = q[1] /\ q[1] \in S
           /\ Tail(q) \in Seq(S) /\ Len(Tail(q)) = Len(q) - 1
           /\ \A i \in 1 .. Len(Tail(q)) : Tail(q)[i] = q[i + 1] /\ i + 1 \in 1 .. Len(q)
OBVIOUS

LEMMA AppendFacts ==
    ASSUME NEW S, NEW q \in Seq(S), NEW x \in S
    PROVE  /\ Append(q, x) \in Seq(S) /\ Len(q) \in Nat
           /\ Len(Append(q, x)) = Len(q) + 1
           /\ \A i \in 1 .. Len(q) : Append(q, x)[i] = q[i]
           /\ Append(q, x)[Len(q) + 1] = x
OBVIOUS

LEMMA DropKeeps ==
    ASSUME ValidatorTypeOK, NEW v \in Validators, OrderKept(v), DropOutput(v)
    PROVE  /\ ValidatorTypeOK' /\ OrderKept(v)'
           /\ \A u \in Validators \ {v} : Untouched(u)
<1> DEFINE ch == channel[v]
<1>1. ch \in Seq(OutputBatch) /\ ch # << >> /\ Len(ch) \in Nat /\ v \notin Members[session[v]]
    BY LocalTypes DEF DropOutput
<1>2. /\ session'[v] = session[v] /\ sub_dag'[v] = sub_dag[v] /\ vlog'[v] = vlog[v]
      /\ channel'[v] = Tail(ch) /\ narwhal'[v] = narwhal[v] /\ task'[v] = task[v]
    BY DEF ValidatorTypeOK, DropOutput, durable
<1>3. /\ Len(channel'[v]) = Len(ch) - 1 /\ channel'[v] \in Seq(OutputBatch)
      /\ \A i \in 1 .. Len(channel'[v]) : channel'[v][i] = ch[i + 1] /\ i + 1 \in 1 .. Len(ch)
    BY <1>1, <1>2, TailFacts
<1>4. ValidatorTypeOK'
  <2>1. \A u \in Validators : channel'[u] \in Seq(OutputBatch) /\ Len(channel'[u]) <= MaxChannel
    BY <1>1, <1>3, SessionAssumption DEF ValidatorTypeOK, DropOutput, SessionAssumption
  <2> QED
    BY <2>1 DEF ValidatorTypeOK, DropOutput, durable
<1>5. \A u \in Validators \ {v} : Untouched(u)
    BY DEF ValidatorTypeOK, DropOutput, durable, Untouched
<1>6. \A i \in 1 .. Len(ch) : ch[i].session # session[v]
    BY <1>1 DEF OrderKept, StoreIsKept
<1>7. OutputsInOrder(v)'
  <2>1. NextOutput(v)' = NextOutput(v)
    BY <1>2 DEF NextOutput
  <2>2. \A i, j \in 1 .. Len(channel'[v]) : i < j => Before(channel'[v][i], channel'[v][j])
    BY <1>1, <1>3 DEF OrderKept, OutputsInOrder
  <2> QED
    BY <1>2, <1>3, <2>1, <2>2 DEF OrderKept, OutputsInOrder
<1>8. StoreIsKept(v)'
  <2>2. \A i \in 1 .. Len(channel'[v]) :
          InStore(channel[v][i], v)' /\ v \in Members[channel'[v][i].session]
    BY <1>2, <1>3 DEF OrderKept, StoreIsKept, InStore
  <2>3. \A i \in 1 .. Len(vlog'[v]) : InStore(vlog[v][i].batch, v)'
    BY <1>2 DEF OrderKept, StoreIsKept, InStore
  <2> QED
    BY <1>2, <2>2, <2>3 DEF OrderKept, StoreIsKept
<1>9. StartsClean(v)' /\ IndexNotBehind(v)'
    BY <1>1, <1>2 DEF OrderKept, StartsClean, IndexNotBehind
<1>10. NoGaps(v)'
  <2>1. InSession(v)' = InSession(v) /\ ChainPosition(v)' = ChainPosition(v)
    BY <1>2 DEF InSession, ChainPosition
  <2>2. ASSUME channel'[v] # << >> => channel'[v][1].session = session[v]
        PROVE  channel'[v] = << >> /\ Len(channel'[v]) = 0
    <3>1. ASSUME channel'[v] # << >> PROVE FALSE
      <4>1. 1 \in 1 .. Len(channel'[v])
        BY <1>3, <3>1
      <4> QED
        BY <1>3, <1>6, <2>2, <3>1, <4>1
    <3> QED
      BY <3>1
  <2>3. narwhal[v].session = session[v] => ~narwhal[v].running
    BY <1>1 DEF OrderKept, StoreIsKept
  <2>4. NoGaps(v)
    BY DEF OrderKept
  <2> SUFFICES ASSUME InSession(v)
               PROVE  NoGaps(v)'
    BY <2>1 DEF NoGaps
  <2>5. (narwhal[v].session = session[v]
           /\ (channel'[v] # << >> => channel'[v][1].session = session[v]))
        => /\ \A j \in 1 .. Len(channel'[v]) :
                channel'[v][j] = [session |-> session[v], index |-> sub_dag[v] + j]
           /\ narwhal[v].running => narwhal[v].next = sub_dag[v] + Len(channel'[v]) + 1
    BY <2>2, <2>3
  <2> QED
    BY <1>2, <2>1, <2>4, <2>5 DEF NoGaps
<1> QED
    BY <1>4, <1>5, <1>7, <1>8, <1>9, <1>10 DEF OrderKept

LEMMA HandleKeeps ==
    ASSUME ValidatorTypeOK, NEW v \in Validators, OrderKept(v), HandleConsensusOutput(v)
    PROVE  /\ ValidatorTypeOK' /\ OrderKept(v)'
           /\ \A u \in Validators \ {v} : Untouched(u)
<1> DEFINE n == narwhal[v]
           ch == channel[v]
           out == [session |-> n.session, index |-> n.next]
<1>1. /\ n.session \in Sessions /\ n.next \in 1 .. SubDags /\ n.ordered \in 0 .. SubDags
      /\ n.running = TRUE /\ out \in OutputBatch /\ SubDags \in Nat /\ n \in Narwhal
    BY LocalTypes, SessionAssumption DEF Narwhal, HandleConsensusOutput, OutputBatch, SessionAssumption
<1>2. /\ session'[v] = session[v] /\ sub_dag'[v] = sub_dag[v] /\ vlog'[v] = vlog[v]
      /\ task'[v] = task[v]
      /\ narwhal'[v] = [n EXCEPT !.next = @ + 1,
                                 !.ordered = IF @ < n.next THEN n.next ELSE @]
    BY DEF ValidatorTypeOK, HandleConsensusOutput, durable
<1>3. /\ narwhal'[v].running = TRUE /\ narwhal'[v].session = n.session
      /\ narwhal'[v].next = n.next + 1
      /\ narwhal'[v].ordered = IF n.ordered < n.next THEN n.next ELSE n.ordered
    BY <1>1, <1>2 DEF Narwhal
<1>4. narwhal'[v] \in Narwhal
  <2>1. narwhal'[v] = [running |-> TRUE, session |-> n.session, next |-> n.next + 1,
                       ordered |-> IF n.ordered < n.next THEN n.next ELSE n.ordered]
    BY <1>1, <1>2 DEF Narwhal
  <2> QED
    BY <1>1, <2>1 DEF Narwhal
<1>5. \A u \in Validators \ {v} : Untouched(u)
    BY DEF ValidatorTypeOK, HandleConsensusOutput, durable, Untouched
<1>6. \/ /\ channel'[v] = Append(ch, out) /\ Len(ch) < MaxChannel
         /\ EpochOf[n.session] = EpochOf[session[v]]
      \/ channel'[v] = ch /\ EpochOf[n.session] # EpochOf[session[v]]
    BY DEF ValidatorTypeOK, HandleConsensusOutput
<1>7. ch \in Seq(OutputBatch) /\ Len(ch) \in Nat
    BY LocalTypes
<1>8. /\ channel'[v] \in Seq(OutputBatch) /\ Len(channel'[v]) <= MaxChannel
      /\ Len(channel'[v]) \in Len(ch) .. Len(ch) + 1
      /\ \A i \in 1 .. Len(channel'[v]) :
           IF i = Len(ch) + 1 THEN channel'[v][i] = out
           ELSE i \in 1 .. Len(ch) /\ channel'[v][i] = ch[i]
  <2>1. CASE channel'[v] = Append(ch, out) /\ Len(ch) < MaxChannel
    <3>1. /\ Append(ch, out) \in Seq(OutputBatch) /\ Len(Append(ch, out)) = Len(ch) + 1
          /\ \A i \in 1 .. Len(ch) : Append(ch, out)[i] = ch[i]
          /\ Append(ch, out)[Len(ch) + 1] = out
      BY <1>1, <1>7, AppendFacts
    <3>2. MaxChannel \in Nat
      BY SessionAssumption DEF SessionAssumption
    <3> HIDE DEF ch, out
    <3> QED
      BY <1>7, <2>1, <3>1, <3>2
  <2>2. CASE channel'[v] = ch
    BY <1>7, <2>2 DEF ValidatorTypeOK
  <2> QED
    BY <1>6, <2>1, <2>2
<1>9. ValidatorTypeOK'
  <2>1. channel' \in [Validators -> Seq(OutputBatch)]
        /\ \A u \in Validators : Len(channel'[u]) <= MaxChannel
    BY <1>8, <1>5 DEF ValidatorTypeOK, HandleConsensusOutput, Untouched
  <2>2. narwhal' \in [Validators -> Narwhal]
    BY <1>4 DEF ValidatorTypeOK, HandleConsensusOutput
  <2> QED
    BY <2>1, <2>2 DEF ValidatorTypeOK, HandleConsensusOutput, durable
<1>n. /\ n.session \in Nat /\ n.next \in Nat /\ n.ordered \in Nat
      /\ session[v] \in Nat /\ sub_dag[v] \in Nat
      /\ \A i \in 1 .. Len(ch) : ch[i].session \in Nat /\ ch[i].index \in Nat
      /\ \A i \in 1 .. Len(vlog[v]) :
            vlog[v][i].batch.session \in Nat /\ vlog[v][i].batch.index \in Nat
    BY EntryTypes
<1>o. /\ \A i \in 1 .. Len(vlog[v]) : Before(vlog[v][i].batch, out)
      /\ \A i \in 1 .. Len(ch) : Before(ch[i], out)
    BY <1>1 DEF OrderKept, OutputsInOrder, NextOutput
<1> HIDE DEF n, ch
<1>10. OutputsInOrder(v)'
  <2> DEFINE next == [session |-> n.session, index |-> n.next + 1]
  <2>1. NextOutput(v)' = next
    BY <1>3 DEF NextOutput
  <2>2. \A i \in 1 .. Len(vlog'[v]) : Before(vlog'[v][i].batch, next)
    BY <1>2, <1>n, <1>o DEF Before
  <2>3. ASSUME NEW i \in 1 .. Len(channel'[v]) PROVE Before(channel'[v][i], next)
    <3>1. CASE i = Len(ch) + 1
      BY <1>8, <1>n, <3>1 DEF Before
    <3>2. CASE i # Len(ch) + 1
      <4>1. i \in 1 .. Len(ch) /\ channel'[v][i] = ch[i]
        BY <1>8, <3>2
      <4> QED
        BY <4>1, <1>n, <1>o DEF Before
    <3> QED
      BY <3>1, <3>2
  <2>4. \A i, j \in 1 .. Len(channel'[v]) : i < j => Before(channel'[v][i], channel'[v][j])
    <3>1. \A i, j \in 1 .. Len(ch) : i < j => Before(ch[i], ch[j])
      BY DEF OrderKept, OutputsInOrder, ch
    <3> SUFFICES ASSUME NEW i \in 1 .. Len(channel'[v]), NEW j \in 1 .. Len(channel'[v]), i < j
                 PROVE  Before(channel'[v][i], channel'[v][j])
      OBVIOUS
    <3>2. i \in 1 .. Len(ch) /\ channel'[v][i] = ch[i]
      BY <1>7, <1>8
    <3>3. CASE j = Len(ch) + 1
      BY <1>8, <1>o, <3>2, <3>3
    <3>4. CASE j # Len(ch) + 1
      BY <1>8, <3>1, <3>2, <3>4
    <3> QED
      BY <3>3, <3>4
  <2>5. \A i \in 1 .. Len(vlog'[v]), j \in 1 .. Len(channel'[v]) :
           Before(vlog'[v][i].batch, channel'[v][j])
    BY <1>2, <1>8, <1>o DEF OrderKept, OutputsInOrder, ch
  <2>6. \A i, j \in 1 .. Len(vlog'[v]) :
           i < j => Before(vlog'[v][i].batch, vlog'[v][j].batch)
    BY <1>2 DEF OrderKept, OutputsInOrder
  <2> HIDE DEF next
  <2> QED
    BY <2>1, <2>2, <2>3, <2>4, <2>5, <2>6 DEF OutputsInOrder
<1>11. StoreIsKept(v)'
  <2>1. \A i \in 1 .. Len(vlog'[v]) : InStore(vlog[v][i].batch, v)'
    BY <1>2, <1>3, <1>n DEF OrderKept, StoreIsKept, InStore, n
  <2>2. ASSUME NEW i \in 1 .. Len(channel'[v])
        PROVE  InStore(channel[v][i], v)' /\ v \in Members[channel'[v][i].session]
    <3>1. CASE i = Len(ch) + 1
      <4>1. channel'[v][i] = out
        BY <1>8, <3>1
      <4>2. v \in Members[n.session]
        BY <1>1 DEF OrderKept, StoreIsKept, n
      <4> QED
        BY <1>3, <1>n, <4>1, <4>2 DEF InStore
    <3>2. CASE i # Len(ch) + 1
      <4>1. i \in 1 .. Len(ch) /\ channel'[v][i] = ch[i]
        BY <1>8, <3>2
      <4>2. InStore(ch[i], v) /\ v \in Members[ch[i].session]
        BY <4>1 DEF OrderKept, StoreIsKept, ch
      <4>3. ch[i].session < n.session \/ (ch[i].session = n.session /\ ch[i].index <= n.ordered)
        BY <4>2 DEF InStore, n
      <4> QED
        BY <1>3, <1>n, <4>1, <4>2, <4>3 DEF InStore
    <3> QED
      BY <3>1, <3>2
  <2>3. narwhal'[v].session <= session'[v] /\ v \in Members[narwhal'[v].session]
    BY <1>1, <1>2, <1>3 DEF OrderKept, StoreIsKept, n
  <2> QED
    BY <2>1, <2>2, <2>3 DEF StoreIsKept
<1>12. StartsClean(v)' /\ IndexNotBehind(v)'
    BY <1>1, <1>2, <1>3 DEF OrderKept, StartsClean, IndexNotBehind, n
<1>13. NoGaps(v)'
  <2>1. InSession(v)' = InSession(v) /\ ChainPosition(v)' = ChainPosition(v)
    BY <1>2 DEF InSession, ChainPosition
  <2> SUFFICES ASSUME InSession(v)
               PROVE  NoGaps(v)'
    BY <2>1 DEF NoGaps
  <2>2. ASSUME n.session = session[v], channel'[v] # << >> => channel'[v][1].session = session[v]
        PROVE  /\ \A j \in 1 .. Len(channel'[v]) :
                    channel'[v][j] = [session |-> session[v], index |-> sub_dag[v] + j]
               /\ n.next + 1 = sub_dag[v] + Len(channel'[v]) + 1
    <3>1. channel'[v] = Append(ch, out)
      BY <1>6, <2>2
    <3>2. Len(channel'[v]) = Len(ch) + 1
      BY <1>1, <1>7, <3>1, AppendFacts
    <3>3. ch # << >> => ch[1].session = session[v]
      BY <1>7, <1>8, <2>2, <3>2
    <3>4. /\ \A j \in 1 .. Len(ch) : ch[j] = [session |-> session[v], index |-> sub_dag[v] + j]
          /\ n.next = sub_dag[v] + Len(ch) + 1
      BY <1>1, <2>2, <3>3 DEF OrderKept, NoGaps, n, ch
    <3>5. n.next = sub_dag[v] + (Len(ch) + 1)
      <4>1. n.next = sub_dag[v] + Len(ch) + 1
        BY <3>4
      <4>2. Len(ch) \in Nat /\ sub_dag[v] \in Nat
        BY <1>7, <1>n
      <4> QED
        BY <4>1, <4>2
    <3>6. ASSUME NEW j \in 1 .. Len(channel'[v])
          PROVE  channel'[v][j] = [session |-> session[v], index |-> sub_dag[v] + j]
      <4>1. CASE j = Len(ch) + 1
        BY <1>8, <2>2, <3>5, <4>1
      <4>2. CASE j # Len(ch) + 1
        BY <1>8, <3>4, <4>2
      <4> QED
        BY <4>1, <4>2
    <3> QED
      BY <1>7, <1>n, <3>2, <3>5, <3>6
  <2>3. n.session = session[v] => sub_dag[v] <= narwhal'[v].ordered
    BY <1>3, <1>n DEF OrderKept, NoGaps, n
  <2> QED
    BY <1>2, <1>3, <2>1, <2>2, <2>3 DEF OrderKept, NoGaps, n
<1> QED
    BY <1>5, <1>9, <1>10, <1>11, <1>12, <1>13 DEF OrderKept

-----------------------------------------------------------------------------
(* The execution of a block. *)

\* What one execution does to the validator's own state.
LEMMA ExecuteFacts ==
    ASSUME ValidatorTypeOK, NEW v \in Validators, ExecuteOutput(v)
    PROVE  LET b == channel[v][1]
               s == session[v] IN
           /\ channel[v] # << >> /\ Len(channel[v]) \in Nat \ {0} /\ b \in OutputBatch
           /\ 1 \in 1 .. Len(channel[v])
           /\ Len(vlog'[v]) = Len(vlog[v]) + 1 /\ Len(vlog[v]) \in Nat
           /\ \A i \in 1 .. Len(vlog[v]) : vlog'[v][i] = vlog[v][i]
           /\ vlog'[v][Len(vlog[v]) + 1] = [batch |-> b, at |-> s]
           /\ vlog'[v] \in Seq([batch : OutputBatch, at : Sessions])
           /\ sub_dag'[v] = StoredIndex(b, s)
           /\ session'[v] = IF EndsSession(b, s) THEN s + 1 ELSE s
           /\ task'[v] \in {task[v], "notified"}
           /\ ~EndsSession(b, s) => task'[v] = task[v]
           /\ task'[v] = "starting" => task[v] = "starting"
           /\ Len(channel'[v]) = Len(channel[v]) - 1 /\ channel'[v] \in Seq(OutputBatch)
           /\ \A i \in 1 .. Len(channel'[v]) :
                channel'[v][i] = channel[v][i + 1] /\ i + 1 \in 1 .. Len(channel[v])
           /\ narwhal'[v] = narwhal[v] /\ crashes' = crashes
           /\ \A u \in Validators \ {v} : Untouched(u)
<1> DEFINE b == channel[v][1]
           s == session[v]
           ch == channel[v]
           Entry == [batch : OutputBatch, at : Sessions]
           e == [batch |-> b, at |-> s]
<1>1. ch # << >> /\ ch \in Seq(OutputBatch) /\ vlog[v] \in Seq(Entry)
    BY LocalTypes DEF ExecuteOutput
<1>2. /\ Len(ch) \in Nat \ {0} /\ Head(ch) = b /\ b \in OutputBatch
      /\ Tail(ch) \in Seq(OutputBatch) /\ Len(Tail(ch)) = Len(ch) - 1
      /\ \A i \in 1 .. Len(Tail(ch)) : Tail(ch)[i] = ch[i + 1] /\ i + 1 \in 1 .. Len(ch)
    BY <1>1, TailFacts
<1>3. /\ vlog'[v] = Append(vlog[v], e) /\ channel'[v] = Tail(ch)
      /\ sub_dag'[v] = StoredIndex(b, s)
      /\ session'[v] = IF EndsSession(b, s) THEN s + 1 ELSE s
      /\ narwhal'[v] = narwhal[v] /\ crashes' = crashes
      /\ task' = IF EndsSession(b, s) THEN Notify(v) ELSE task
    BY <1>2 DEF ExecuteOutput, ValidatorTypeOK
<1>4. /\ task'[v] \in {task[v], "notified"}
      /\ ~EndsSession(b, s) => task'[v] = task[v]
      /\ task'[v] = "starting" => task[v] = "starting"
    BY <1>3 DEF Notify, ValidatorTypeOK
<1>5. ASSUME NEW u \in Validators \ {v} PROVE Untouched(u)
  <2>1. task'[u] = task[u]
    BY <1>3 DEF Notify, ValidatorTypeOK
  <2> QED
    BY <2>1 DEF ExecuteOutput, ValidatorTypeOK, Untouched
<1>6. e \in Entry
    BY <1>2, LocalTypes
<1> HIDE DEF Entry, e
<1>7. /\ Append(vlog[v], e) \in Seq(Entry) /\ Len(vlog[v]) \in Nat
      /\ Len(Append(vlog[v], e)) = Len(vlog[v]) + 1
      /\ \A i \in 1 .. Len(vlog[v]) : Append(vlog[v], e)[i] = vlog[v][i]
      /\ Append(vlog[v], e)[Len(vlog[v]) + 1] = e
    BY <1>1, <1>6, AppendFacts
<1>8. 1 \in 1 .. Len(ch)
    BY <1>2
<1> QED
    BY <1>1, <1>2, <1>3, <1>4, <1>5, <1>7, <1>8 DEF Entry, e

LEMMA ExecuteTypes ==
    ASSUME ValidatorTypeOK, NEW v \in Validators, ExecuteOutput(v)
    PROVE  ValidatorTypeOK'
<1> DEFINE b == channel[v][1]
           s == session[v]
<1>1. /\ b \in OutputBatch /\ Len(channel'[v]) = Len(channel[v]) - 1
      /\ channel'[v] \in Seq(OutputBatch) /\ Len(channel[v]) \in Nat \ {0}
      /\ vlog'[v] \in Seq([batch : OutputBatch, at : Sessions])
      /\ sub_dag'[v] = StoredIndex(b, s)
      /\ session'[v] = IF EndsSession(b, s) THEN s + 1 ELSE s
      /\ task'[v] \in {task[v], "notified"}
      /\ narwhal'[v] = narwhal[v] /\ crashes' = crashes
      /\ \A u \in Validators \ {v} : Untouched(u)
    BY ExecuteFacts
<1>2. s \in Sessions /\ MaxSession \in Nat /\ MaxChannel \in Nat /\ SubDags \in Nat
    BY LocalTypes, SessionAssumption DEF SessionAssumption
<1> HIDE DEF b, s
<1>3. session'[v] \in Sessions
    BY <1>1, <1>2 DEF EndsSession, Sessions
<1>4. sub_dag'[v] \in 0 .. SubDags
    BY <1>1, <1>2 DEF StoredIndex, OutputBatch
<1>5. Len(channel'[v]) <= MaxChannel
    BY <1>1, <1>2 DEF ValidatorTypeOK
<1>6. session' \in [Validators -> Sessions]
    BY <1>1, <1>3 DEF ExecuteOutput, ValidatorTypeOK, Untouched
<1>7. sub_dag' \in [Validators -> 0 .. SubDags]
    BY <1>1, <1>4 DEF ExecuteOutput, ValidatorTypeOK, Untouched
<1>8. vlog' \in [Validators -> Seq([batch : OutputBatch, at : Sessions])]
    BY <1>1 DEF ExecuteOutput, ValidatorTypeOK, Untouched
<1>9. channel' \in [Validators -> Seq(OutputBatch)]
      /\ \A u \in Validators : Len(channel'[u]) <= MaxChannel
    BY <1>1, <1>5 DEF ExecuteOutput, ValidatorTypeOK, Untouched
<1>10. task' \in [Validators -> {"starting", "started", "waiting", "notified"}]
    BY DEF ExecuteOutput, ValidatorTypeOK, Notify
<1>11. narwhal' = narwhal /\ crashes' = crashes
    BY DEF ExecuteOutput
<1> QED
    BY <1>6, <1>7, <1>8, <1>9, <1>10, <1>11 DEF ValidatorTypeOK

\* Where the executed block stands in narwhal's order.
LEMMA ExecutedBlock ==
    ASSUME ValidatorTypeOK, NEW v \in Validators, OrderKept(v), ExecuteOutput(v)
    PROVE  LET b == channel[v][1] IN
           /\ \A i \in 1 .. Len(vlog[v]) : Before(vlog[v][i].batch, b)
           /\ \A i \in 1 .. Len(channel'[v]) : Before(b, channel'[v][i])
           /\ narwhal[v].running => Before(b, NextOutput(v))
           /\ InStore(b, v) /\ b.session <= session[v]
           /\ b.session = session[v] => narwhal[v].session = session[v]
           /\ b.session \in Nat /\ b.index \in Nat
<1> DEFINE b == channel[v][1]
<1>1. /\ 1 \in 1 .. Len(channel[v]) /\ Len(channel[v]) \in Nat
      /\ \A i \in 1 .. Len(channel'[v]) :
           channel'[v][i] = channel[v][i + 1] /\ i + 1 \in 1 .. Len(channel[v])
    BY ExecuteFacts
<1>2. /\ \A i \in 1 .. Len(vlog[v]) : Before(vlog[v][i].batch, b)
      /\ narwhal[v].running => Before(b, NextOutput(v))
    BY <1>1 DEF OrderKept, OutputsInOrder
<1>3. ASSUME NEW i \in 1 .. Len(channel'[v]) PROVE Before(b, channel'[v][i])
  <2>1. 1 < i + 1 /\ i + 1 \in 1 .. Len(channel[v]) /\ channel'[v][i] = channel[v][i + 1]
    BY <1>1
  <2> QED
    BY <1>1, <2>1 DEF OrderKept, OutputsInOrder
<1>4. InStore(b, v) /\ narwhal[v].session <= session[v]
    BY <1>1 DEF OrderKept, StoreIsKept
<1>5. /\ b.session \in Nat /\ b.index \in Nat
      /\ narwhal[v].session \in Nat /\ session[v] \in Nat
    BY <1>1, EntryTypes
<1>6. b.session <= session[v] /\ (b.session = session[v] => narwhal[v].session = session[v])
    BY <1>4, <1>5 DEF InStore
<1> QED
    BY <1>2, <1>3, <1>4, <1>5, <1>6

\* A validator that keeps to the sessions executes the block its log calls for.
LEMMA ExecutesNext ==
    ASSUME ValidatorTypeOK, NEW v \in Validators, OrderKept(v), ExecuteOutput(v),
           InSession(v)'
    PROVE  /\ InSession(v)
           /\ channel[v][1].session = session[v]
           /\ [batch |-> channel[v][1], at |-> session[v]] = ChainPosition(v)
           /\ \A j \in 1 .. Len(channel[v]) :
                channel[v][j] = [session |-> session[v], index |-> sub_dag[v] + j]
           /\ narwhal[v].running => narwhal[v].next = sub_dag[v] + Len(channel[v]) + 1
<1> DEFINE b == channel[v][1]
           k == Len(vlog[v])
           e == [batch |-> b, at |-> session[v]]
<1>1. /\ k \in Nat /\ Len(vlog'[v]) = k + 1
      /\ \A i \in 1 .. k : vlog'[v][i] = vlog[v][i]
      /\ vlog'[v][k + 1] = e /\ 1 \in 1 .. Len(channel[v])
    BY ExecuteFacts
<1>2. InSession(v)
    BY <1>1 DEF InSession
<1>3. b.session = session[v]
  <2>1. vlog'[v][k + 1].batch.session = vlog'[v][k + 1].at
    BY <1>1 DEF InSession
  <2> QED
    BY <1>1, <2>1
<1>4. narwhal[v].session = session[v]
    BY <1>3, ExecutedBlock
<1>5. /\ ChainPosition(v) = [batch |-> [session |-> session[v], index |-> sub_dag[v] + 1],
                             at |-> session[v]]
      /\ \A j \in 1 .. Len(channel[v]) :
            channel[v][j] = [session |-> session[v], index |-> sub_dag[v] + j]
      /\ narwhal[v].running => narwhal[v].next = sub_dag[v] + Len(channel[v]) + 1
    BY <1>2, <1>3, <1>4 DEF OrderKept, NoGaps
<1>6. b = [session |-> session[v], index |-> sub_dag[v] + 1]
    BY <1>1, <1>5
<1> QED
    BY <1>2, <1>3, <1>5, <1>6

LEMMA ExecuteKeepsOrder ==
    ASSUME ValidatorTypeOK, NEW v \in Validators, OrderKept(v), ExecuteOutput(v)
    PROVE  OutputsInOrder(v)' /\ StoreIsKept(v)' /\ StartsClean(v)' /\ IndexNotBehind(v)'
<1> DEFINE b == channel[v][1]
           s == session[v]
           k == Len(vlog[v])
           Batch(i) == IF i = k + 1 THEN b ELSE vlog[v][i].batch
<1>1. /\ k \in Nat /\ Len(vlog'[v]) = k + 1 /\ 1 \in 1 .. Len(channel[v])
      /\ \A i \in 1 .. k : vlog'[v][i] = vlog[v][i]
      /\ vlog'[v][k + 1] = [batch |-> b, at |-> s]
      /\ sub_dag'[v] = StoredIndex(b, s)
      /\ session'[v] = IF EndsSession(b, s) THEN s + 1 ELSE s
      /\ task'[v] \in {task[v], "notified"}
      /\ ~EndsSession(b, s) => task'[v] = task[v]
      /\ task'[v] = "starting" => task[v] = "starting"
      /\ Len(channel'[v]) = Len(channel[v]) - 1 /\ Len(channel[v]) \in Nat
      /\ channel[v] # << >>
      /\ \A i \in 1 .. Len(channel'[v]) :
           channel'[v][i] = channel[v][i + 1] /\ i + 1 \in 1 .. Len(channel[v])
      /\ narwhal'[v] = narwhal[v]
    BY ExecuteFacts
<1>2. /\ \A i \in 1 .. k : Before(vlog[v][i].batch, b)
      /\ \A i \in 1 .. Len(channel'[v]) : Before(b, channel'[v][i])
      /\ narwhal[v].running => Before(b, NextOutput(v))
      /\ InStore(b, v) /\ b.session <= s /\ b.session \in Nat /\ b.index \in Nat
    BY ExecutedBlock
<1>3. s \in Nat /\ narwhal[v].session \in Nat /\ narwhal[v].session <= s
      /\ sub_dag[v] \in Nat /\ narwhal[v].running \in BOOLEAN
      /\ \A i \in 1 .. k : vlog[v][i].batch.session \in Nat /\ vlog[v][i].batch.index \in Nat
    BY EntryTypes DEF OrderKept, StoreIsKept
<1>4. \A i \in 1 .. k + 1 : vlog'[v][i].batch = Batch(i)
    BY <1>1
<1>5. /\ \A i, j \in 1 .. k : i < j => Before(vlog[v][i].batch, vlog[v][j].batch)
      /\ \A i, j \in 1 .. Len(channel[v]) : i < j => Before(channel[v][i], channel[v][j])
      /\ \A i \in 1 .. k, j \in 1 .. Len(channel[v]) :
           Before(vlog[v][i].batch, channel[v][j])
      /\ narwhal[v].running =>
           /\ \A i \in 1 .. k : Before(vlog[v][i].batch, NextOutput(v))
           /\ \A i \in 1 .. Len(channel[v]) : Before(channel[v][i], NextOutput(v))
    BY DEF OrderKept, OutputsInOrder
<1>6. OutputsInOrder(v)'
  <2>1. NextOutput(v)' = NextOutput(v)
    BY <1>1 DEF NextOutput
  <2> HIDE DEF b, k
  <2>2. \A i, j \in 1 .. k + 1 : i < j => Before(Batch(i), Batch(j))
    BY <1>1, <1>2, <1>5
  <2>3. \A i, j \in 1 .. Len(channel'[v]) : i < j => Before(channel'[v][i], channel'[v][j])
    <3> SUFFICES ASSUME NEW i \in 1 .. Len(channel'[v]), NEW j \in 1 .. Len(channel'[v]), i < j
                 PROVE  Before(channel'[v][i], channel'[v][j])
      OBVIOUS
    <3>1. /\ channel'[v][i] = channel[v][i + 1] /\ i + 1 \in 1 .. Len(channel[v])
          /\ channel'[v][j] = channel[v][j + 1] /\ j + 1 \in 1 .. Len(channel[v])
      BY <1>1
    <3>2. i + 1 < j + 1
      BY <1>1
    <3> QED
      BY <1>5, <3>1, <3>2
  <2>4. \A i \in 1 .. k + 1, j \in 1 .. Len(channel'[v]) : Before(Batch(i), channel'[v][j])
    BY <1>1, <1>2, <1>5
  <2>5. ASSUME narwhal[v].running
        PROVE  /\ \A i \in 1 .. k + 1 : Before(Batch(i), NextOutput(v))
               /\ \A i \in 1 .. Len(channel'[v]) : Before(channel'[v][i], NextOutput(v))
    BY <1>1, <1>2, <1>5, <2>5
  <2> HIDE DEF Batch
  <2>6. narwhal'[v].running = narwhal[v].running
    BY <1>1
  <2>7. \A i, j \in 1 .. Len(vlog'[v]) : i < j => Before(vlog'[v][i].batch, vlog'[v][j].batch)
    BY <1>1, <1>4, <2>2
  <2>8. \A i \in 1 .. Len(vlog'[v]), j \in 1 .. Len(channel'[v]) :
           Before(vlog'[v][i].batch, channel'[v][j])
    BY <1>1, <1>4, <2>4
  <2>9. narwhal[v].running =>
          /\ \A i \in 1 .. Len(vlog'[v]) : Before(vlog'[v][i].batch, NextOutput(v))
          /\ \A i \in 1 .. Len(channel'[v]) : Before(channel'[v][i], NextOutput(v))
    BY <1>1, <1>4, <2>5
  <2> QED
    BY <2>1, <2>3, <2>6, <2>7, <2>8, <2>9 DEF OutputsInOrder
<1>7. session'[v] \in Nat /\ s <= session'[v]
    BY <1>1, <1>3
<1>8. StoreIsKept(v)'
  <2>1. \A i \in 1 .. Len(vlog'[v]) : InStore(vlog[v][i].batch, v)'
    <3>1. \A i \in 1 .. k + 1 : InStore(Batch(i), v)
      BY <1>1, <1>2 DEF OrderKept, StoreIsKept
    <3> HIDE DEF Batch, k
    <3>2. ASSUME NEW i \in 1 .. k + 1 PROVE InStore(vlog[v][i].batch, v)'
      <4>1. vlog'[v][i].batch = Batch(i) /\ narwhal'[v] = narwhal[v] /\ InStore(Batch(i), v)
        BY <1>1, <1>4, <3>1
      <4> QED
        BY <4>1 DEF InStore
    <3> QED
      BY <1>1, <3>2
  <2>2. \A i \in 1 .. Len(channel'[v]) :
          InStore(channel[v][i], v)' /\ v \in Members[channel'[v][i].session]
    BY <1>1 DEF OrderKept, StoreIsKept, InStore
  <2>3. narwhal'[v].session <= session'[v]
    BY <1>1, <1>3, <1>7
  <2>4. narwhal'[v].running => v \in Members[narwhal'[v].session]
    BY <1>1 DEF OrderKept, StoreIsKept
  <2> QED
    BY <2>1, <2>2, <2>3, <2>4 DEF StoreIsKept
<1>9. StartsClean(v)'
  <2>1. CASE EndsSession(b, s)
    <3>1. narwhal'[v].session < session'[v]
      BY <1>1, <1>3, <2>1
    <3>2. task'[v] = "starting" => ~narwhal'[v].running
      BY <1>1 DEF OrderKept, StartsClean
    <3> QED
      BY <3>1, <3>2 DEF StartsClean
  <2>2. CASE ~EndsSession(b, s)
    BY <1>1, <2>2 DEF OrderKept, StartsClean
  <2> QED
    BY <2>1, <2>2
<1>10. IndexNotBehind(v)'
  <2> SUFFICES ASSUME NEW i \in 1 .. k + 1, Batch(i).session = session'[v]
               PROVE  Batch(i).index <= sub_dag'[v]
    BY <1>1, <1>4 DEF IndexNotBehind
  <2>1. Batch(i).session <= b.session /\ Batch(i).session \in Nat
    <3>1. CASE i = k + 1
      BY <1>2, <3>1
    <3>2. CASE i # k + 1
      <4>1. i \in 1 .. k /\ Batch(i) = vlog[v][i].batch
        BY <1>1, <3>2
      <4>2. Before(vlog[v][i].batch, b) /\ vlog[v][i].batch.session \in Nat
        BY <1>2, <1>3, <4>1
      <4> QED
        BY <1>2, <4>1, <4>2 DEF Before
    <3> QED
      BY <3>1, <3>2
  <2>2. ~EndsSession(b, s) /\ session'[v] = s /\ b.session = s
    BY <1>1, <1>2, <1>3, <2>1
  <2>3. sub_dag'[v] = b.index
    BY <1>1, <2>2 DEF StoredIndex
  <2>4. CASE i = k + 1
    BY <1>2, <2>3, <2>4
  <2>5. CASE i # k + 1
    <3>1. i \in 1 .. k /\ Batch(i) = vlog[v][i].batch
      BY <1>1, <2>5
    <3>2. vlog[v][i].batch.index < b.index
      BY <1>2, <1>3, <2>2, <3>1 DEF Before
    <3> QED
      BY <1>2, <1>3, <2>3, <3>1, <3>2
  <2> QED
    BY <2>4, <2>5
<1> QED
    BY <1>6, <1>8, <1>9, <1>10

LEMMA Shift ==
    ASSUME NEW d \in Nat, NEW n \in Nat, NEW x \in Nat, NEW m \in Int, x = d + 1, m = n - 1
    PROVE  d + n + 1 = x + m + 1
OBVIOUS

LEMMA ExecuteKeepsNoGaps ==
    ASSUME ValidatorTypeOK, NEW v \in Validators, OrderKept(v), ExecuteOutput(v)
    PROVE  NoGaps(v)'
<1> DEFINE b == channel[v][1]
           s == session[v]
           d == sub_dag[v]
           k == Len(vlog[v])
           e == [batch |-> b, at |-> s]
           First == [batch |-> [session |-> 0, index |-> 1], at |-> 0]
<1> SUFFICES ASSUME InSession(v)' PROVE NoGaps(v)'
    BY DEF NoGaps
<1>1. /\ k \in Nat /\ Len(vlog'[v]) = k + 1 /\ 1 \in 1 .. Len(channel[v])
      /\ \A i \in 1 .. k : vlog'[v][i] = vlog[v][i]
      /\ vlog'[v][k + 1] = e
      /\ sub_dag'[v] = StoredIndex(b, s)
      /\ session'[v] = IF EndsSession(b, s) THEN s + 1 ELSE s
      /\ Len(channel'[v]) = Len(channel[v]) - 1 /\ Len(channel[v]) \in Nat
      /\ \A i \in 1 .. Len(channel'[v]) :
           channel'[v][i] = channel[v][i + 1] /\ i + 1 \in 1 .. Len(channel[v])
      /\ narwhal'[v] = narwhal[v]
      /\ vlog'[v] \in Seq([batch : OutputBatch, at : Sessions])
    BY ExecuteFacts
<1>2. /\ InSession(v) /\ b.session = s /\ e = ChainPosition(v)
      /\ \A j \in 1 .. Len(channel[v]) : channel[v][j] = [session |-> s, index |-> d + j]
      /\ narwhal[v].running => narwhal[v].next = d + Len(channel[v]) + 1
    BY ExecutesNext
<1>3. /\ narwhal[v].session = s /\ b.session \in Nat /\ b.index \in Nat
      /\ b.index <= narwhal[v].ordered
    BY <1>2, ExecutedBlock, EntryTypes DEF InStore
<1>4. s \in Nat /\ d \in Nat /\ b.index = d + 1 /\ narwhal[v].ordered \in Nat
  <2>1. b = [session |-> s, index |-> d + 1]
    BY <1>1, <1>2
  <2>2. b.index = d + 1
    BY <2>1
  <2> QED
    BY <2>2, EntryTypes
<1>5. \A i \in 1 .. k : vlog[v][i] = IF i = 1 THEN First ELSE Follows(vlog[v][i - 1])
    BY <1>2 DEF OrderKept, NoGaps
<1>6. e = IF k = 0 THEN First ELSE Follows(vlog[v][k])
  <2>1. vlog[v] = << >> <=> k = 0
    BY LocalTypes
  <2> QED
    BY <1>2, <2>1 DEF ChainPosition
<1>7. ChainPosition(v)' = Follows(e)
  <2>1. vlog'[v] # << >>
    BY <1>1
  <2> QED
    BY <1>1, <2>1 DEF ChainPosition
<1> HIDE DEF b, d, s, k, e, First
<1>8. ASSUME NEW i \in 1 .. k + 1
      PROVE  vlog'[v][i] = IF i = 1 THEN First ELSE Follows(vlog'[v][i - 1])
  <2>1. CASE i = k + 1 /\ k = 0
    BY <1>1, <1>6, <2>1
  <2>2. CASE i = k + 1 /\ k # 0
    <3>1. i - 1 \in 1 .. k /\ i # 1 /\ i - 1 = k
      BY <1>1, <2>2
    <3> QED
      BY <1>1, <1>6, <2>2, <3>1
  <2>3. CASE i # k + 1
    <3>1. i \in 1 .. k /\ (i # 1 => i - 1 \in 1 .. k)
      BY <1>1, <2>3
    <3> QED
      BY <1>1, <1>5, <3>1
  <2> QED
    BY <2>1, <2>2, <2>3
<1>9. CASE EndsSession(b, s)
  <2>1. session'[v] = s + 1 /\ sub_dag'[v] = 0
    BY <1>1, <1>9 DEF StoredIndex
  <2>2. Follows(e) = [batch |-> [session |-> s + 1, index |-> 0 + 1], at |-> s + 1]
    BY <1>9 DEF Follows, e
  <2>3. narwhal'[v].session < session'[v]
    BY <1>1, <1>3, <1>4, <2>1
  <2> QED
    BY <1>1, <1>3, <1>4, <1>7, <1>8, <2>1, <2>2, <2>3 DEF NoGaps, First
<1>10. CASE ~EndsSession(b, s)
  <2>1. session'[v] = s /\ sub_dag'[v] = b.index
    BY <1>1, <1>10 DEF StoredIndex
  <2>2. Follows(e) = [batch |-> [session |-> s, index |-> b.index + 1], at |-> s]
    BY <1>10 DEF Follows, e
  <2>3. ASSUME NEW j \in 1 .. Len(channel'[v])
        PROVE  channel'[v][j] = [session |-> s, index |-> b.index + j]
    <3>1. channel'[v][j] = [session |-> s, index |-> d + (j + 1)]
      BY <1>1, <1>2
    <3>2. d + (j + 1) = b.index + j
      BY <1>4
    <3> QED
      BY <3>1, <3>2
  <2>4. narwhal'[v].running => narwhal'[v].next = b.index + Len(channel'[v]) + 1
    <3>1. d + Len(channel[v]) + 1 = b.index + Len(channel'[v]) + 1
      <4>1. /\ Len(channel'[v]) = Len(channel[v]) - 1 /\ Len(channel[v]) \in Nat
            /\ d \in Nat /\ b.index = d + 1 /\ b.index \in Nat /\ Len(channel'[v]) \in Int
        BY <1>1, <1>3, <1>4
      <4> QED
        BY <4>1, Shift
    <3>2. narwhal'[v] = narwhal[v]
      BY <1>1
    <3> QED
      BY <1>2, <3>1, <3>2
  <2>5. narwhal'[v].session = s /\ b.index <= narwhal'[v].ordered
    BY <1>1, <1>3
  <2>6. ~(narwhal'[v].session < session'[v])
    BY <1>4, <2>1, <2>5
  <2> QED
    BY <1>1, <1>7, <1>8, <2>1, <2>2, <2>3, <2>4, <2>5, <2>6 DEF NoGaps, First
<1> QED
    BY <1>9, <1>10

LEMMA ExecuteKeeps ==
    ASSUME ValidatorTypeOK, NEW v \in Validators, OrderKept(v), ExecuteOutput(v)
    PROVE  /\ ValidatorTypeOK' /\ OrderKept(v)'
           /\ \A u \in Validators \ {v} : Untouched(u)
BY ExecuteTypes, ExecuteKeepsOrder, ExecuteKeepsNoGaps, ExecuteFacts DEF OrderKept

-----------------------------------------------------------------------------
(* One chain. *)

AllKeepOrder == \A u \in Validators : OrderKept(u)

\* A log in narwhal's order repeats nothing.
LEMMA OrderedOnce ==
    ValidatorTypeOK /\ AllKeepOrder => ExecutedOnce
<1> SUFFICES ASSUME ValidatorTypeOK, \A v \in Validators : OrderKept(v),
                    NEW v \in Validators,
                    NEW i \in 1 .. Len(vlog[v]), NEW j \in 1 .. Len(vlog[v]),
                    vlog[v][i].batch = vlog[v][j].batch, i # j
             PROVE  FALSE
    BY DEF ExecutedOnce, AllKeepOrder
<1>1. Len(vlog[v]) \in Nat
    BY LocalTypes
<1>2. i < j \/ j < i
    BY <1>1
<1>3. vlog[v][i].batch.session \in Nat /\ vlog[v][i].batch.index \in Nat
    BY EntryTypes
<1>4. ~Before(vlog[v][i].batch, vlog[v][i].batch)
    BY <1>3 DEF Before
<1>5. /\ i < j => Before(vlog[v][i].batch, vlog[v][j].batch)
      /\ j < i => Before(vlog[v][j].batch, vlog[v][i].batch)
    BY DEF OrderKept, OutputsInOrder
<1> QED
    BY <1>2, <1>4, <1>5

\* Two logs without gaps that agree still agree when one of them grows by the
\* block it calls for.
LEMMA GrowsInAgreement ==
    ASSUME ValidatorTypeOK, NEW v \in Validators, NEW w \in Validators \ {v},
           OrderKept(v), OrderKept(w), Agreement, ExecuteOutput(v),
           InSession(v)', InSession(w)',
           NEW i \in Nat, i \in 1 .. Len(vlog'[v]), i \in 1 .. Len(vlog'[w])
    PROVE  vlog'[v][i] = vlog'[w][i]
<1> DEFINE k == Len(vlog[v])
           First == [batch |-> [session |-> 0, index |-> 1], at |-> 0]
<1>1. /\ k \in Nat /\ Len(vlog'[v]) = k + 1
      /\ \A l \in 1 .. k : vlog'[v][l] = vlog[v][l]
      /\ vlog'[v][k + 1] = [batch |-> channel[v][1], at |-> session[v]]
      /\ \A u \in Validators \ {v} : Untouched(u)
    BY ExecuteFacts
<1>2. vlog'[w] = vlog[w] /\ InSession(w) /\ Len(vlog[w]) \in Nat
    BY <1>1, LocalTypes DEF Untouched, InSession
<1>3. InSession(v) /\ vlog'[v][k + 1] = ChainPosition(v)
    BY <1>1, ExecutesNext
<1>4. \A l \in 1 .. k : l <= Len(vlog[w]) => vlog[v][l] = vlog[w][l]
    BY <1>2, <1>3 DEF Agreement
<1>5. vlog[v] = << >> <=> k = 0
    BY LocalTypes
<1>6. \A l \in 1 .. Len(vlog[w]) : vlog[w][l] = IF l = 1 THEN First ELSE Follows(vlog[w][l - 1])
    BY <1>2 DEF OrderKept, NoGaps
<1>7. CASE i \in 1 .. k
    BY <1>1, <1>2, <1>4, <1>7
<1>8. CASE i = k + 1 /\ k = 0
    BY <1>2, <1>3, <1>5, <1>6, <1>8 DEF ChainPosition
<1>9. CASE i = k + 1 /\ k # 0
  <2>1. k \in 1 .. k /\ k <= Len(vlog[w]) /\ i # 1 /\ i - 1 = k /\ i \in 1 .. Len(vlog[w])
    BY <1>1, <1>2, <1>9
  <2>2. vlog'[v][i] = Follows(vlog[v][k])
    BY <1>3, <1>5, <1>9 DEF ChainPosition
  <2>3. vlog[w][i] = Follows(vlog[w][k])
    BY <1>6, <2>1
  <2> QED
    BY <1>2, <1>4, <2>1, <2>2, <2>3
<1> QED
    BY <1>1, <1>7, <1>8, <1>9

LEMMA ValidatorNextInv ==
    ASSUME ValidatorInv, [ValidatorNext]_validatorVars
    PROVE  ValidatorInv'
<1> USE DEF ValidatorInv
<1>1. CASE UNCHANGED validatorVars
  <2>1. ValidatorTypeOK'
    BY <1>1 DEF validatorVars, ValidatorTypeOK
  <2>0. vlog' = vlog
    BY <1>1 DEF validatorVars
  <2>2. ExecutedOnce' /\ Agreement'
    <3>1. ExecutedOnce'
      BY <2>0 DEF ExecutedOnce
    <3>2. \A u \in Validators : InSession(u)' = InSession(u)
      BY <2>0 DEF InSession
    <3> QED
      BY <2>0, <3>1, <3>2 DEF Agreement
  <2>3. \A u \in Validators : OrderKept(u)'
    BY <1>1, OthersKeepOrder DEF validatorVars, Untouched
  <2> QED
    BY <2>1, <2>2, <2>3
<1>2. ASSUME NEW v \in Validators,
             TaskStep(v) \/ HandleConsensusOutput(v) \/ ValidatorStep(v) \/ Crash(v)
      PROVE  ValidatorInv'
  <2>1. /\ ValidatorTypeOK' /\ OrderKept(v)'
        /\ \A u \in Validators \ {v} : Untouched(u)
    BY <1>2, StartKeeps, AwaitKeeps, ShutdownKeeps, HandleKeeps, DropKeeps, CrashKeeps,
       ExecuteKeeps
    DEF TaskStep, ValidatorStep
  <2>2. \A u \in Validators : OrderKept(u)'
    BY <2>1, OthersKeepOrder
  <2>3. ExecutedOnce'
    <3>1. ValidatorTypeOK' /\ AllKeepOrder' => ExecutedOnce'
      BY OrderedOnce, PTL
    <3> QED
      BY <2>1, <2>2, <3>1 DEF AllKeepOrder
  <2>4. Agreement'
    <3> SUFFICES ASSUME NEW u \in Validators, NEW w \in Validators,
                        InSession(u)', InSession(w)',
                        NEW i \in 1 .. Len(vlog'[u]), i <= Len(vlog'[w])
                 PROVE  vlog'[u][i] = vlog'[w][i]
      BY DEF Agreement
    <3>1. CASE ExecuteOutput(v)
      <4>1. Len(vlog'[u]) \in Nat /\ Len(vlog'[w]) \in Nat
        <5>1. /\ vlog'[u] \in Seq([batch : OutputBatch, at : Sessions])
              /\ vlog'[w] \in Seq([batch : OutputBatch, at : Sessions])
          BY <2>1 DEF ValidatorTypeOK
        <5> QED
          BY <5>1
      <4>2. i \in Nat /\ i \in 1 .. Len(vlog'[u]) /\ i \in 1 .. Len(vlog'[w])
        BY <4>1
      <4>3. CASE u = w
        BY <4>3
      <4>4. CASE u # w /\ u = v
        BY <3>1, <4>2, <4>4, GrowsInAgreement
      <4>5. CASE u # w /\ w = v
        BY <3>1, <4>2, <4>5, GrowsInAgreement
      <4>6. CASE u # v /\ w # v
        <5>1. vlog'[u] = vlog[u] /\ vlog'[w] = vlog[w]
          BY <2>1, <4>6 DEF Untouched
        <5>2. InSession(u) /\ InSession(w)
          BY <5>1 DEF InSession
        <5> QED
          BY <5>1, <5>2 DEF Agreement
      <4> QED
        BY <4>3, <4>4, <4>5, <4>6
    <3>2. CASE ~ExecuteOutput(v)
      <4>1. vlog' = vlog
        BY <1>2, <3>2
        DEF TaskStep, ValidatorStep, StartNarwhal, AwaitReconfigure, ShutdownNarwhal,
            HandleConsensusOutput, DropOutput, Crash, durable
      <4>2. InSession(u) /\ InSession(w)
        BY <4>1 DEF InSession
      <4> QED
        BY <4>1, <4>2 DEF Agreement
    <3> QED
      BY <3>1, <3>2
  <2> QED
    BY <2>1, <2>2, <2>3, <2>4
<1> QED
    BY <1>1, <1>2 DEF ValidatorNext

\* Validators execute one chain, each sub-dag once: over crashes, outputs repeated
\* by a restarted narwhal, outputs left in the channel when the committee changes,
\* missed notifications and indices that start again, for every set of validators,
\* every sequence of committees and epochs, and every capacity of the channel.
THEOREM ValidatorsCorrect == ValidatorSpec => []ValidatorInv
<1>1. ValidatorInit => ValidatorInv
    BY ValidatorInitInv
<1>2. ValidatorInv /\ [ValidatorNext]_validatorVars => ValidatorInv'
    BY ValidatorNextInv
<1> QED
    BY <1>1, <1>2, PTL DEF ValidatorSpec

-----------------------------------------------------------------------------
(* The transaction client.                                                 *)

RunnerType ==
    [pc : {"start", "send", "wait", "late", "resend", "again", "ensure", "poll", "done"},
     nonce : Nat, retry : Nat, inner : Nat, after : {"retry", "give up"},
     result : {"none", "success", "error", "executed without receipt"}]
FieldNames == {"pc", "nonce", "retry", "inner", "after", "result"}

\* A field that Goto may set, with a value of its type.
FieldOK(fields) ==
    /\ DOMAIN fields \subseteq FieldNames
    /\ "pc" \in DOMAIN fields => fields["pc"] \in
         {"start", "send", "wait", "late", "resend", "again", "ensure", "poll", "done"}
    /\ "nonce" \in DOMAIN fields => fields["nonce"] \in Nat
    /\ "retry" \in DOMAIN fields => fields["retry"] \in Nat
    /\ "inner" \in DOMAIN fields => fields["inner"] \in Nat
    /\ "after" \in DOMAIN fields => fields["after"] \in {"retry", "give up"}
    /\ "result" \in DOMAIN fields => fields["result"] \in
         {"none", "success", "error", "executed without receipt"}

LEMMA GotoFacts ==
    ASSUME runner \in [Runners -> RunnerType], NEW r \in Runners, NEW fields,
           FieldOK(fields), Goto(r, fields)
    PROVE  /\ runner' \in [Runners -> RunnerType]
           /\ runner'[r].result =
                IF "result" \in DOMAIN fields THEN fields["result"] ELSE runner[r].result
           /\ \A q \in Runners \ {r} : runner'[q] = runner[q]
<1>1. runner[r] \in RunnerType /\ DOMAIN runner[r] = FieldNames
    BY DEF RunnerType, FieldNames
<1>2. PICK new : new = [f \in FieldNames |->
                          IF f \in DOMAIN fields THEN fields[f] ELSE runner[r][f]]
    OBVIOUS
<1>3. runner' = [runner EXCEPT ![r] = new]
    BY <1>1, <1>2 DEF Goto
<1>4. new = [pc |-> new["pc"], nonce |-> new["nonce"], retry |-> new["retry"],
             inner |-> new["inner"], after |-> new["after"], result |-> new["result"]]
    BY <1>2 DEF FieldNames
<1>5. new \in RunnerType
    BY <1>1, <1>2, <1>4 DEF FieldOK, FieldNames, RunnerType
<1> QED
    BY <1>2, <1>3, <1>5 DEF FieldNames

NonceType == [base : Nat, next : Nat]
TxType == [nonce : Nat, method : Runners \cup {NoRunner}]

\* The step of a runner that leaves the given result.
Moves(r, result) ==
    /\ runner' \in [Runners -> RunnerType]
    /\ nonce_state' \in NonceType
    /\ runner'[r].result = result
    /\ \A q \in Runners \ {r} : runner'[q] = runner[q]

ResultHolds(r, result) ==
    /\ result = "success" => Successes(r) # {}
    /\ result = "executed without receipt" => \E i \in DOMAIN chain : chain[i].tx.method = r

LEMMA GotoMoves ==
    ASSUME ClientTypeOK, NEW r \in Runners, NEW fields, FieldOK(fields), Goto(r, fields),
           "result" \notin DOMAIN fields, nonce_state' \in NonceType
    PROVE  Moves(r, runner[r].result)
BY GotoFacts DEF Moves, ClientTypeOK, RunnerType

LEMMA NextNonceMoves ==
    ASSUME ClientTypeOK, NEW r \in Runners, SendWithNextNonce(r)
    PROVE  Moves(r, runner[r].result)
<1> DEFINE fields == [pc |-> "send", nonce |-> nonce_state.next, inner |-> 0, after |-> "retry"]
<1>1. nonce_state.next \in Nat /\ nonce_state.base \in Nat
    BY DEF ClientTypeOK
<1>2. nonce_state' \in NonceType
  <2>1. nonce_state.next + 1 \in Nat
    BY <1>1
  <2> QED
    BY <2>1 DEF ClientTypeOK, NonceType, SendWithNextNonce
<1>3. FieldOK(fields) /\ "result" \notin DOMAIN fields
    BY <1>1 DEF FieldOK, FieldNames
<1>4. Goto(r, fields)
    BY DEF SendWithNextNonce
<1> HIDE DEF fields
<1> QED
    BY <1>2, <1>3, <1>4, GotoMoves

LEMMA DoneMoves ==
    ASSUME ClientTypeOK, NEW r \in Runners,
           NEW result \in {"success", "error", "executed without receipt"},
           Goto(r, Done(result)), UNCHANGED nonce_state
    PROVE  Moves(r, result)
<1>1. FieldOK(Done(result)) /\ "result" \in DOMAIN Done(result)
        /\ Done(result)["result"] = result
    BY DEF FieldOK, FieldNames, Done
<1>2. nonce_state' \in NonceType
    BY DEF ClientTypeOK, NonceType
<1> QED
    BY <1>1, <1>2, GotoFacts DEF Moves, ClientTypeOK, RunnerType

\* Steps of a runner leave the chain, take at most its own receipt and send at most
\* a transaction of its own.
LEMMA MovesKeep ==
    ASSUME ClientInv, NEW r \in Runners, NEW result, Moves(r, result),
           result = runner[r].result \/ ResultHolds(r, result),
           UNCHANGED chain,
           inbox' = inbox \/ inbox' = [inbox EXCEPT ![r] = "none"],
           sent' \subseteq TxType
    PROVE  ClientInv'
<1>1. ClientTypeOK'
  <2>1. inbox' \in [Runners -> Outcomes \cup {"none"}]
    BY DEF ClientInv, ClientTypeOK
  <2> QED
    BY <2>1 DEF ClientInv, ClientTypeOK, Moves, RunnerType, NonceType, TxType
<1>2. \A q \in Runners : (Successes(q))' = Successes(q)
    BY DEF Successes
<1>3. ReceiptIsTrue'
    BY <1>2 DEF ClientInv, ClientTypeOK, ReceiptIsTrue
<1>4. ASSUME NEW q \in Runners
      PROVE  /\ runner'[q].result = "success" => Successes(q) # {}
             /\ runner'[q].result = "executed without receipt" =>
                  \E i \in DOMAIN chain : chain[i].tx.method = q
    BY DEF ClientInv, ResultIsTrue, ResultHolds, Moves
<1>5. ResultIsTrue'
    BY <1>2, <1>4 DEF ResultIsTrue
<1> QED
    BY <1>1, <1>3, <1>5 DEF ClientInv

LEMMA RunnerTypes ==
    ASSUME ClientInv, NEW r \in Runners
    PROVE  /\ ClientTypeOK /\ nonce_state \in NonceType /\ sent \subseteq TxType
           /\ runner[r].retry + 1 \in Nat /\ runner[r].inner + 1 \in Nat
           /\ ClientTx(runner[r].nonce, r) \in TxType
           /\ ClientTx(runner[r].nonce, NoRunner) \in TxType
           /\ ResultHolds(r, "error")
<1>1. runner[r].retry \in Nat /\ runner[r].inner \in Nat /\ runner[r].nonce \in Nat
    BY DEF ClientInv, ClientTypeOK
<1>2. ClientTypeOK /\ nonce_state \in NonceType /\ sent \subseteq TxType
    BY DEF ClientInv, ClientTypeOK, NonceType, TxType
<1>3. ClientTx(runner[r].nonce, r) \in TxType /\ ClientTx(runner[r].nonce, NoRunner) \in TxType
    BY <1>1 DEF TxType, ClientTx
<1>4. runner[r].retry + 1 \in Nat /\ runner[r].inner + 1 \in Nat
    BY <1>1
<1>5. ResultHolds(r, "error")
    BY DEF ResultHolds
<1> QED
    BY <1>2, <1>3, <1>4, <1>5

LEMMA AfterEnsureMoves ==
    ASSUME ClientInv, NEW r \in Runners, AfterEnsure(r)
    PROVE  \E result : Moves(r, result) /\ (result = runner[r].result \/ ResultHolds(r, result))
<1>1. CASE SendWithNextNonce(r)
    BY <1>1, NextNonceMoves, RunnerTypes
<1>2. CASE Finish(r, "error")
    BY <1>2, DoneMoves, RunnerTypes DEF Finish
<1> QED
    BY <1>1, <1>2 DEF AfterEnsure

\* The fields of the steps that go on.
LEMMA GoOnMoves ==
    ASSUME ClientInv, NEW r \in Runners, UNCHANGED nonce_state, NEW n \in Nat,
           \/ Goto(r, [pc |-> "wait"])
           \/ Goto(r, [pc |-> "late"])
           \/ Goto(r, [pc |-> "send"])
           \/ Goto(r, [pc |-> "poll"])
           \/ Goto(r, [pc |-> "resend", retry |-> n])
           \/ Goto(r, [pc |-> "again", retry |-> n])
           \/ Goto(r, [pc |-> "ensure", inner |-> n])
           \/ Goto(r, [inner |-> n])
           \/ \E after \in {"retry", "give up"} :
                Goto(r, [pc |-> "ensure", after |-> after, inner |-> 0, retry |-> n])
    PROVE  Moves(r, runner[r].result)
<1>1. PICK fields : FieldOK(fields) /\ "result" \notin DOMAIN fields /\ Goto(r, fields)
  <2> USE DEF FieldOK, FieldNames
  <2>1. CASE Goto(r, [pc |-> "wait"])
    BY <2>1
  <2>1l. CASE Goto(r, [pc |-> "late"])
    BY <2>1l
  <2>2. CASE Goto(r, [pc |-> "send"])
    BY <2>2
  <2>3. CASE Goto(r, [pc |-> "poll"])
    BY <2>3
  <2>4. CASE Goto(r, [pc |-> "resend", retry |-> n])
    BY <2>4
  <2>5. CASE Goto(r, [pc |-> "again", retry |-> n])
    BY <2>5
  <2>6. CASE Goto(r, [pc |-> "ensure", inner |-> n])
    BY <2>6
  <2>7. CASE Goto(r, [inner |-> n])
    BY <2>7
  <2>8. ASSUME NEW after \in {"retry", "give up"},
               Goto(r, [pc |-> "ensure", after |-> after, inner |-> 0, retry |-> n])
        PROVE  \E fields : FieldOK(fields) /\ "result" \notin DOMAIN fields /\ Goto(r, fields)
    BY <2>8
  <2> QED
    BY <2>1, <2>1l, <2>2, <2>3, <2>4, <2>5, <2>6, <2>7, <2>8
<1>2. nonce_state' \in NonceType
    BY RunnerTypes
<1> QED
    BY <1>1, <1>2, GotoMoves, RunnerTypes

\* The steps of the runner.
LEMMA RunnerStepKeeps ==
    ASSUME ClientInv, NEW r \in Runners, RunnerStep(r) \/ ReceiveOtherBlock(r)
    PROVE  ClientInv'
<1> DEFINE Kept(result) == result = runner[r].result \/ ResultHolds(r, result)
           OldInbox == inbox' = inbox \/ inbox' = [inbox EXCEPT ![r] = "none"]
<1>0. /\ ClientTypeOK /\ nonce_state \in NonceType /\ sent \subseteq TxType
      /\ runner[r].retry + 1 \in Nat /\ runner[r].inner + 1 \in Nat
      /\ ClientTx(runner[r].nonce, r) \in TxType
      /\ ClientTx(runner[r].nonce, NoRunner) \in TxType
      /\ ResultHolds(r, "error")
    BY RunnerTypes
<1>1. PICK retry \in Nat : retry = runner[r].retry + 1
    BY <1>0
<1>2. PICK inner \in Nat : inner = runner[r].inner + 1
    BY <1>0
<1>e. Goto(r, Done("error")) /\ UNCHANGED nonce_state => Moves(r, "error")
    BY <1>0, DoneMoves
<1>3. CASE StartRunner(r)
    BY <1>0, <1>3, NextNonceMoves, MovesKeep DEF StartRunner
<1>4. CASE SendTransaction(r)
  <2>1. Moves(r, runner[r].result)
    BY <1>1, <1>4, GoOnMoves DEF SendTransaction
  <2>2. sent' \subseteq TxType
    BY <1>0, <1>4 DEF SendTransaction
  <2> QED
    BY <1>4, <2>1, <2>2, MovesKeep DEF SendTransaction
<1>5. CASE handle_forwarder_error(r)
  <2>1. sent' \subseteq TxType
    BY <1>0, <1>5 DEF handle_forwarder_error
  <2>2. Moves(r, runner[r].result) \/ Moves(r, "error")
    BY <1>1, <1>e, <1>5, GoOnMoves DEF handle_forwarder_error
  <2> QED
    BY <1>0, <1>5, <2>1, <2>2, MovesKeep DEF handle_forwarder_error
<1>6. CASE RetryAfterDelay(r)
  <2>1. Moves(r, runner[r].result)
    BY <1>0, <1>1, <1>6, GoOnMoves, NextNonceMoves DEF RetryAfterDelay
  <2> QED
    BY <1>0, <1>6, <2>1, MovesKeep DEF RetryAfterDelay
<1>g. ensure_nonce_used_before_giving_up(r, retry) => Moves(r, runner[r].result) \/ Moves(r, "error")
    BY <1>e, GoOnMoves DEF ensure_nonce_used_before_giving_up
<1>7. CASE HandleReceipt(r)
  <2>1. CASE inbox[r] = "success"
    <3>1. ResultHolds(r, "success")
      BY <2>1 DEF ClientInv, ReceiptIsTrue, ResultHolds
    <3>2. Moves(r, "success")
      BY <1>0, <1>7, <2>1, DoneMoves DEF HandleReceipt, Finish
    <3> QED
      BY <1>0, <1>7, <3>1, <3>2, MovesKeep DEF HandleReceipt
  <2>2. CASE inbox[r] # "success"
    <3>1. Moves(r, runner[r].result) \/ Moves(r, "error")
      <4>1. handle_receipt_revert(r)
        BY <1>7, <2>2 DEF HandleReceipt
      <4>2. CASE ensure_nonce_used_before_giving_up(r, retry)
        BY <1>g, <4>2
      <4>3. CASE Goto(r, [pc |-> "again", retry |-> retry]) /\ UNCHANGED nonce_state
        BY <4>3, GoOnMoves
      <4> QED
        BY <1>1, <4>1, <4>2, <4>3 DEF handle_receipt_revert
    <3> QED
      BY <1>0, <1>7, <3>1, MovesKeep DEF HandleReceipt
  <2> QED
    BY <2>1, <2>2
<1>8. CASE RetryInvalidNonce(r)
    BY <1>0, <1>8, NextNonceMoves, MovesKeep DEF RetryInvalidNonce
<1>8s. CASE SleepEnds(r) \/ ReceiveOtherBlock(r)
  <2>1. Moves(r, runner[r].result)
    BY <1>1, <1>8s, GoOnMoves DEF SleepEnds, ReceiveOtherBlock
  <2> QED
    BY <1>0, <1>8s, <2>1, MovesKeep DEF SleepEnds, ReceiveOtherBlock
<1>9. CASE handle_receipt_timeout(r)
  <2>1. Moves(r, runner[r].result) \/ Moves(r, "error")
    BY <1>1, <1>g, <1>9, GoOnMoves DEF handle_receipt_timeout
  <2> QED
    BY <1>0, <1>9, <2>1, MovesKeep DEF handle_receipt_timeout
<1>10. CASE ensure_nonce_used(r)
  <2>1. sent' \subseteq TxType
    BY <1>0, <1>10 DEF ensure_nonce_used
  <2>2. \E result : Moves(r, result) /\ Kept(result)
    BY <1>1, <1>10, GoOnMoves, AfterEnsureMoves DEF ensure_nonce_used
  <2> QED
    BY <1>10, <2>1, <2>2, MovesKeep DEF ensure_nonce_used
<1>11. CASE EnqueueFails(r)
  <2>1. \E result : Moves(r, result) /\ Kept(result)
    BY <1>2, <1>11, GoOnMoves, AfterEnsureMoves DEF EnqueueFails
  <2> QED
    BY <1>0, <1>11, <2>1, MovesKeep DEF EnqueueFails
<1>12. CASE NonceUsed(r)
  <2>1. \E result : Moves(r, result) /\ Kept(result)
    <3>1. CASE \E i \in DOMAIN chain : chain[i].tx = ClientTx(runner[r].nonce, r)
      <4>1. ResultHolds(r, "executed without receipt")
        BY <3>1 DEF ResultHolds, ClientTx
      <4>2. Moves(r, "executed without receipt")
        BY <1>0, <1>12, <3>1, DoneMoves DEF NonceUsed, Finish
      <4> QED
        BY <4>1, <4>2
    <3>2. CASE AfterEnsure(r)
      BY <3>2, AfterEnsureMoves
    <3> QED
      BY <1>12, <3>1, <3>2 DEF NonceUsed
  <2> QED
    BY <1>0, <1>12, <2>1, MovesKeep DEF NonceUsed
<1>13. CASE PollTimeout(r)
  <2>1. Moves(r, runner[r].result) \/ Moves(r, "error")
    BY <1>2, <1>e, <1>13, GoOnMoves DEF PollTimeout
  <2> QED
    BY <1>0, <1>13, <2>1, MovesKeep DEF PollTimeout
<1> QED
    BY <1>3, <1>4, <1>5, <1>6, <1>7, <1>8, <1>8s, <1>9, <1>10, <1>11, <1>12, <1>13
    DEF RunnerStep

\* A block gives a receipt of success only for a transaction that it executes.
LEMMA OrderTransactionKeeps ==
    ASSUME ClientInv, NEW tx \in sent, NEW outcome \in Outcomes, OrderTransaction(tx, outcome)
    PROVE  ClientInv'
<1>1. tx \in TxType
    BY DEF ClientInv, ClientTypeOK, TxType
<1>0. chain \in Seq([tx : TxType, outcome : {"success", "revert"}])
    BY DEF ClientInv, ClientTypeOK, TxType
<1>2. PICK n \in Nat : n = Len(chain) /\ DOMAIN chain = 1 .. n
    BY <1>0
<1>3. /\ \A i \in DOMAIN chain : i \in DOMAIN chain' /\ chain'[i] = chain[i]
      /\ chain' \in Seq([tx : TxType, outcome : {"success", "revert"}])
      /\ outcome = "success" => \E i \in DOMAIN chain' :
                                   chain'[i].tx = tx /\ chain'[i].outcome = "success"
  <2>1. chain \in Seq([tx : TxType, outcome : {"success", "revert"}])
    BY <1>0
  <2>2. CASE ClientExecutes(tx, outcome)
    <3>1. PICK e \in [tx : TxType, outcome : {"success", "revert"}] :
            chain' = Append(chain, e) /\ e.tx = tx /\ e.outcome = outcome
      BY <1>1, <2>2 DEF ClientExecutes
    <3>2. /\ chain' \in Seq([tx : TxType, outcome : {"success", "revert"}])
          /\ DOMAIN chain' = 1 .. n + 1 /\ chain'[n + 1] = e
          /\ \A i \in 1 .. n : chain'[i] = chain[i]
      BY <1>2, <2>1, <3>1
    <3>3. n + 1 \in 1 .. n + 1 /\ \A i \in 1 .. n : i \in 1 .. n + 1
      OBVIOUS
    <3> QED
      BY <1>2, <3>1, <3>2, <3>3
  <2>3. CASE ClientRefuses(tx, outcome)
    BY <2>1, <2>3 DEF ClientRefuses
  <2> QED
    BY <2>2, <2>3 DEF OrderTransaction
<1>4. \A r \in Runners : Successes(r) # {} => (Successes(r))' # {}
    BY <1>3 DEF Successes
<1>5. ASSUME NEW r \in Runners, inbox'[r] = "success"
      PROVE  (Successes(r))' # {}
  <2>1. CASE Awaits(r, tx)
    <3>1. outcome = "success" /\ tx.method = r
      BY <1>5, <2>1 DEF OrderTransaction, Awaits, ClientTx
    <3> QED
      BY <1>3, <3>1 DEF Successes
  <2>2. CASE ~Awaits(r, tx)
    BY <1>4, <1>5, <2>2 DEF OrderTransaction, ClientInv, ReceiptIsTrue
  <2> QED
    BY <2>1, <2>2
<1>6. ClientTypeOK'
  <2>1. inbox' \in [Runners -> Outcomes \cup {"none"}]
    BY DEF OrderTransaction, ClientInv, ClientTypeOK
  <2>2. UNCHANGED <<nonce_state, runner, sent>>
    BY DEF OrderTransaction
  <2> QED
    BY <1>3, <2>1, <2>2 DEF ClientInv, ClientTypeOK, TxType
<1>7. ResultIsTrue'
  <2>1. runner' = runner
    BY DEF OrderTransaction
  <2> QED
    BY <1>3, <1>4, <2>1 DEF ClientInv, ResultIsTrue
<1> QED
    BY <1>5, <1>6, <1>7 DEF ClientInv, ReceiptIsTrue

LEMMA ClientInitHolds ==
    ASSUME ClientInit
    PROVE  ClientInv
<1> USE DEF ClientInit
<1>1. /\ chain \in Seq([tx : [nonce : Nat, method : Runners \cup {NoRunner}],
                        outcome : {"success", "revert"}])
    OBVIOUS
<1>2. ClientTypeOK
    BY <1>1 DEF ClientTypeOK
<1> QED
    BY <1>2 DEF ClientInv, ReceiptIsTrue, ResultIsTrue

LEMMA SyncNonceKeeps ==
    ASSUME ClientInv, SyncNonce
    PROVE  ClientInv'
<1>0. chain \in Seq([tx : TxType, outcome : {"success", "revert"}])
    BY DEF ClientInv, ClientTypeOK, TxType
<1>1. Len(chain) \in Nat /\ Len(chain) + 1 \in Nat
    BY <1>0
<1>2. UNCHANGED <<runner, inbox, sent, chain>> /\ nonce_state' \in [base : Nat, next : Nat]
    BY <1>1 DEF SyncNonce, used_nonce
<1>3. ClientTypeOK'
    BY <1>2 DEF ClientInv, ClientTypeOK
<1> QED
    BY <1>2, <1>3 DEF ClientInv, ReceiptIsTrue, ResultIsTrue, Successes

\* A call of the transaction client that succeeds has a transaction of its own that
\* succeeded on the chain, and one that ends without a receipt was executed, for every
\* set of callers and any number of losses, timeouts, resends and nonce syncs.
THEOREM ClientCorrect == ClientSpec => []ClientInv
<1>1. ClientInv /\ [ClientNext]_clientVars => ClientInv'
  <2>1. ASSUME ClientInv, UNCHANGED clientVars
        PROVE  ClientInv'
    <3>1. ClientTypeOK'
      BY <2>1 DEF ClientInv, ClientTypeOK, clientVars
    <3> QED
      BY <2>1, <3>1 DEF ClientInv, ReceiptIsTrue, ResultIsTrue, Successes, clientVars
  <2> QED
    BY <2>1, RunnerStepKeeps, SyncNonceKeeps, OrderTransactionKeeps DEF ClientNext
<1> QED
    BY <1>1, ClientInitHolds, PTL DEF ClientSpec

-----------------------------------------------------------------------------
(* The forwarder.                                                          *)

LEMMA MinIsLeast ==
    ASSUME NEW S, S \subseteq Nat, S # {}
    PROVE  Min(S) \in S /\ \A y \in S : Min(S) <= y
<1> DEFINE R == {ss \in Nat \X Nat : ss[1] < ss[2]}
<1>1. IsWellFoundedOn(R, Nat)
    BY NatLessThanWellFounded DEF OpToRel
<1>2. PICK x \in S : \A y \in S : ~(<<y, x>> \in R)
  <2> HIDE DEF R
  <2> QED
    BY <1>1, WFMin
<1>3. ASSUME NEW y \in S, ~(x <= y)
      PROVE  FALSE
  <2>1. y \in Nat /\ x \in Nat /\ y < x
    BY <1>3
  <2>2. <<y, x>> \in Nat \X Nat /\ <<y, x>>[1] = y /\ <<y, x>>[2] = x
    BY <2>1
  <2> QED
    BY <1>2, <2>1, <2>2
<1> QED
    BY <1>3 DEF Min

\* Places of a ring of n, counted from 0: a full turn leads back to each.
LEMMA RingPlaces ==
    ASSUME NEW n \in Nat \ {0}, NEW a \in Nat
    PROVE  /\ a % n \in Nat /\ a % n < n
           /\ a < n => \A i \in 0 .. n - 1 : \E j \in 0 .. n - 1 : (a + j) % n = i
<1>1. a % n \in 0 .. n - 1
    OBVIOUS
<1>2. \A i \in 0 .. n - 1 : i % n = i /\ (i + n) % n = i
    OBVIOUS
<1>3. ASSUME a < n, NEW i \in 0 .. n - 1
      PROVE  \E j \in 0 .. n - 1 : (a + j) % n = i
  <2>1. CASE a <= i
    <3>1. i - a \in 0 .. n - 1 /\ a + (i - a) = i
      BY <2>1, <1>3
    <3> QED
      BY <1>2, <3>1
  <2>2. CASE ~(a <= i)
    <3>1. (i + n) - a \in 0 .. n - 1 /\ a + ((i + n) - a) = i + n
      BY <2>2, <1>3
    <3> QED
      BY <1>2, <3>1
  <2> QED
    BY <2>1, <2>2
<1> QED
    BY <1>1, <1>3

\* The members refresh_epoch puts on its list.
Targets == IF valid /\ Me \in CommitteeNow THEN {Me} ELSE CommitteeNow \ {Me}

LEMMA RefreshedFacts ==
    ASSUME ForwarderTypeOK, NEW committee \in Refreshed
    PROVE  /\ committee \in Seq(AllMembers) /\ Len(committee) \in Nat \ {0}
           /\ DOMAIN committee = 1 .. Len(committee)
           /\ \A i \in DOMAIN committee : committee[i] \in Targets
           /\ \A m \in Targets : \E i \in 1 .. Len(committee) : committee[i] = m
<1>0. chain_epoch + 1 \in DOMAIN Committees
  <2>1. PICK n \in Nat \ {0} : n = Len(Committees) /\ DOMAIN Committees = 1 .. n
    BY ForwarderAssumption
  <2>2. chain_epoch \in 0 .. n - 1
    BY <2>1 DEF ForwarderTypeOK
  <2> QED
    BY <2>1, <2>2
<1>1. IsFiniteSet(CommitteeNow) /\ CommitteeNow \ {Me} # {} /\ CommitteeNow \subseteq AllMembers
    BY <1>0, ForwarderAssumption DEF CommitteeNow, AllMembers
<1>2. CASE valid /\ Me \in CommitteeNow
  <2>1. committee = <<Me>>
    BY <1>2 DEF Refreshed
  <2>2. Targets = {Me} /\ Me \in AllMembers
    BY <1>1, <1>2 DEF Targets
  <2> QED
    BY <2>1, <2>2
<1>3. CASE ~(valid /\ Me \in CommitteeNow)
  <2>1. Targets = CommitteeNow \ {Me} /\ committee \in SetToSeqs(Targets)
    BY <1>3 DEF Refreshed, Targets
  <2>2. IsFiniteSet(Targets) /\ Targets # {} /\ Targets \subseteq AllMembers
    BY <1>1, <2>1, FS_Subset
  <2> HIDE DEF Targets
  <2>3. PICK n \in Nat : n = Cardinality(Targets)
    BY <2>2, FS_CardinalityType
  <2>4. n # 0
    BY <2>2, <2>3, FS_EmptySet
  <2>5. committee \in [1 .. n -> Targets] /\ \A i, j \in 1 .. n : i # j => committee[i] # committee[j]
    BY <2>1, <2>3 DEF SetToSeqs
  <2>6. committee \in Injection(1 .. n, Targets)
    BY <2>5 DEF Injection, IsInjective
  <2>7. Cardinality(1 .. n) = n /\ IsFiniteSet(1 .. n)
    BY FS_Interval
  <2>8. committee \in Surjection(1 .. n, Targets)
    BY <2>2, <2>3, <2>6, <2>7, FS_Injection
  <2>9. \A m \in Targets : \E i \in 1 .. n : committee[i] = m
    BY <2>8 DEF Surjection
  <2>10. committee \in Seq(AllMembers) /\ Len(committee) = n
    BY <2>2, <2>5
  <2> QED
    BY <2>4, <2>5, <2>9, <2>10
<1> QED
    BY <1>2, <1>3

\* Reachable does not depend on the shuffle.
LEMMA ReachableInEvery ==
    ASSUME ForwarderTypeOK, Reachable, NEW committee \in Refreshed
    PROVE  \E i \in 1 .. Len(committee) : Serves(committee[i])
<1>1. PICK other \in Refreshed : \E i \in DOMAIN other : Serves(other[i])
    BY DEF Reachable
<1>2. PICK m \in Targets : Serves(m)
    BY <1>1, RefreshedFacts
<1> QED
    BY <1>2, RefreshedFacts

\* What the ring leaves: entries that it found, and new ones that serve.
RingResult(committee, conns, made) ==
    /\ DOMAIN made \subseteq Nat /\ made \in [DOMAIN made -> AllMembers]
    /\ \A i \in DOMAIN made : i \in DOMAIN conns \/ Serves(made[i])

LEMMA RingFacts ==
    ASSUME ForwarderTypeOK, NEW committee \in Refreshed, NEW cursor \in Nat,
           cursor < Len(committee), NEW conns, DOMAIN conns \subseteq Nat,
           conns \in [DOMAIN conns -> AllMembers], NEW k,
           k = StepsOfRing(committee, cursor, conns), NEW made,
           made = ConnectedAfter(committee, cursor, conns, k)
    PROVE  /\ k \in Nat
           /\ (cursor + k) % Len(committee) \in Nat
           /\ (cursor + k) % Len(committee) < Len(committee)
           /\ RingResult(committee, conns, made)
           /\ Reachable => DOMAIN made # {}
<1>1. PICK n \in Nat \ {0} : /\ n = Len(committee) /\ DOMAIN committee = 1 .. n
                             /\ committee \in [1 .. n -> AllMembers]
    BY RefreshedFacts
<1> DEFINE S == {s \in 0 .. n :
                  \/ s = n
                  \/ Cardinality(DOMAIN ConnectedAfter(committee, cursor, conns, s))
                       >= min_connections(committee)}
<1>2. k = Min(S)
    BY <1>1 DEF StepsOfRing
<1>3. S \subseteq Nat /\ n \in S
    OBVIOUS
<1>4. k \in S
  <2> HIDE DEF S
  <2> QED
    BY <1>2, <1>3, MinIsLeast
<1>5. k \in Nat /\ cursor + k \in Nat
    BY <1>4
<1> DEFINE tried == {(cursor + j) % n : j \in 0 .. k - 1}
           new == {i \in tried : i \notin DOMAIN conns /\ Serves(committee[i + 1])}
<1>6. tried \subseteq Nat /\ \A i \in tried : i + 1 \in 1 .. n
  <2>1. ASSUME NEW j \in 0 .. k - 1
        PROVE  (cursor + j) % n \in Nat /\ (cursor + j) % n < n
    <3>1. cursor + j \in Nat
      BY <1>5
    <3> QED
      BY <3>1, RingPlaces
  <2> QED
    BY <2>1
<1>7. made = [i \in DOMAIN conns \cup new |->
                IF i \in DOMAIN conns THEN conns[i] ELSE committee[i + 1]]
    BY <1>1 DEF ConnectedAfter
<1>8. new \subseteq tried /\ \A i \in new : i \notin DOMAIN conns /\ Serves(committee[i + 1])
    OBVIOUS
<1>9. RingResult(committee, conns, made)
  <2> HIDE DEF tried, new
  <2>1. DOMAIN made = DOMAIN conns \cup new
    BY <1>7
  <2>2. ASSUME NEW i \in DOMAIN made
        PROVE  made[i] \in AllMembers /\ (i \in DOMAIN conns \/ Serves(made[i]))
    <3>1. CASE i \in DOMAIN conns
      BY <1>7, <2>1, <3>1
    <3>2. CASE i \notin DOMAIN conns
      <4>1. i \in new /\ made[i] = committee[i + 1] /\ i + 1 \in 1 .. n
        BY <1>6, <1>7, <1>8, <2>1, <3>2
      <4> QED
        BY <1>1, <1>8, <4>1
    <3> QED
      BY <3>1, <3>2
  <2>3. made = [i \in DOMAIN made |-> made[i]]
    BY <1>7
  <2>4. DOMAIN made \subseteq Nat
    BY <1>6, <1>8, <2>1
  <2> QED
    BY <2>2, <2>3, <2>4 DEF RingResult
<1>10. ASSUME Reachable, DOMAIN made = {}
       PROVE  FALSE
  <2>1. CASE k = n
    <3>1. PICK p \in 1 .. n : Serves(committee[p])
      BY <1>1, <1>10, ReachableInEvery
    <3>2. p - 1 \in 0 .. n - 1 /\ (p - 1) + 1 = p /\ cursor < n
      BY <1>1
    <3>3. PICK j \in 0 .. n - 1 : (cursor + j) % n = p - 1
      BY <3>2, RingPlaces
    <3>4. p - 1 \in tried
      BY <2>1, <3>3
    <3>5. DOMAIN made = DOMAIN conns \cup new
      BY <1>7
    <3>6. p - 1 \in new
      BY <1>10, <3>1, <3>2, <3>4, <3>5
    <3> QED
      BY <1>10, <3>5, <3>6
  <2>2. CASE Cardinality(DOMAIN made) >= min_connections(committee)
    <3>1. Cardinality(DOMAIN made) = 0
      BY <1>10, FS_EmptySet
    <3>2. PICK x \in Nat : x = max_connections(committee)
      BY <1>1, ForwarderAssumption DEF max_connections
    <3>3. min_connections(committee) = (x \div 3) * 2 + 1 /\ x \div 3 \in Nat
      BY <3>2 DEF min_connections
    <3>4. PICK q \in Nat : q = x \div 3
      BY <3>3
    <3>5. q * 2 + 1 >= 1
      BY <3>4
    <3> QED
      BY <2>2, <3>1, <3>3, <3>4, <3>5
  <2> QED
    BY <1>4, <2>1, <2>2
<1>11. (cursor + k) % n \in Nat /\ (cursor + k) % n < n
    BY <1>5, RingPlaces
<1> QED
    BY <1>1, <1>5, <1>9, <1>10, <1>11

LEMMA ForwarderInitHolds == ForwarderInit => ForwarderInv
<1> SUFFICES ASSUME ForwarderInit
             PROVE  ForwarderInv
    OBVIOUS
<1>1. PICK n \in Nat \ {0} : n = Len(Committees)
    BY ForwarderAssumption
<1>2. /\ chain_epoch = 0 /\ failures = 0 /\ worker_fwd.epoch = 0
      /\ worker_fwd.committee = <<>> /\ worker_fwd.cursor = 0
      /\ worker_fwd.connections = <<>> /\ worker_fwd.pc = "idle"
    BY DEF ForwarderInit
<1>3. 0 \in 0 .. n - 1
    OBVIOUS
<1>4. DOMAIN <<>> = {} /\ <<>> \in [{} -> AllMembers] /\ <<>> \in Seq(AllMembers)
    OBVIOUS
<1>5. ForwarderTypeOK
    BY <1>1, <1>2, <1>3, <1>4 DEF ForwarderInit, ForwarderTypeOK
<1>6. ListIsCurrent /\ FailureClears /\ RetriesSuffice
    BY <1>2 DEF ListIsCurrent, FailureClears, RetriesSuffice
<1> QED
    BY <1>5, <1>6 DEF ForwarderInv

\* An attempt changes neither the list that refresh_epoch would build nor who serves.
LEMMA AttemptSees ==
    ASSUME UNCHANGED <<chain_epoch, valid, down, outages>>
    PROVE  /\ Refreshed' = Refreshed /\ (Reachable' <=> Reachable)
           /\ \A m : m \in (CommitteeNow \ down)' <=> Serves(m)
    BY DEF Refreshed, Reachable, CommitteeNow, Serves

\* The worker that handle_forward builds.
Prepared(worker, conns) ==
    /\ worker = [epoch |-> chain_epoch, committee |-> worker.committee,
                 cursor |-> worker.cursor, connections |-> worker.connections,
                 pc |-> worker.pc]
    /\ worker.committee \in Refreshed /\ worker.committee \in Seq(AllMembers)
    /\ worker.cursor \in Nat /\ worker.cursor < Len(worker.committee)
    /\ RingResult(worker.committee, conns, worker.connections)
    /\ Reachable => DOMAIN worker.connections # {}

LEMMA PreparedByForward ==
    ASSUME ForwarderTypeOK, ListIsCurrent, handle_forward
    PROVE  \E worker : /\ Prepared(worker, worker_fwd.connections)
                       /\ \/ /\ DOMAIN worker.connections # {} /\ worker.pc = "submit"
                             /\ worker_fwd' = worker /\ failures' = failures
                          \/ /\ DOMAIN worker.connections = {} /\ worker.pc = "idle"
                             /\ worker_fwd' = worker
                             /\ failures' = IF failures < 2 THEN failures + 1 ELSE 2
<1> DEFINE refresh == chain_epoch # worker_fwd.epoch \/ chain_epoch = 0
           cursor == IF refresh THEN 0 ELSE worker_fwd.cursor
           conns == worker_fwd.connections
           k(c) == StepsOfRing(c, cursor, conns)
           made(c) == ConnectedAfter(c, cursor, conns, k(c))
           built(c, pc) == [epoch |-> chain_epoch, committee |-> c,
                            cursor |-> (cursor + k(c)) % Len(c),
                            connections |-> made(c), pc |-> pc]
<1>1. PICK committee \in IF refresh THEN Refreshed ELSE {worker_fwd.committee} :
        IF DOMAIN made(committee) = {} THEN Fail(built(committee, "submit"))
        ELSE worker_fwd' = built(committee, "submit") /\ UNCHANGED failures
    BY DEF handle_forward
<1>2. committee \in Refreshed
    BY <1>1 DEF ListIsCurrent
<1>3. cursor \in Nat /\ cursor < Len(committee)
  <2>1. Len(committee) \in Nat \ {0}
    BY <1>2, RefreshedFacts
  <2>2. CASE refresh
    BY <2>1, <2>2
  <2>3. CASE ~refresh
    <3>1. committee = worker_fwd.committee /\ cursor = worker_fwd.cursor
      BY <1>1, <2>3
    <3>2. committee # <<>>
      BY <2>1
    <3> QED
      BY <3>1, <3>2 DEF ForwarderTypeOK
  <2> QED
    BY <2>2, <2>3
<1>4. DOMAIN conns \subseteq Nat /\ conns \in [DOMAIN conns -> AllMembers]
    BY DEF ForwarderTypeOK
<1>5. committee \in Seq(AllMembers)
    BY <1>2, RefreshedFacts
<1> HIDE DEF refresh, cursor, conns
<1>6. /\ (cursor + k(committee)) % Len(committee) \in Nat
      /\ (cursor + k(committee)) % Len(committee) < Len(committee)
      /\ RingResult(committee, conns, made(committee))
      /\ Reachable => DOMAIN made(committee) # {}
    BY <1>2, <1>3, <1>4, RingFacts
<1> HIDE DEF k, made
<1>7. \A pc : Prepared(built(committee, pc), conns)
    BY <1>2, <1>5, <1>6 DEF Prepared
<1>8. CASE DOMAIN made(committee) = {}
  <2>1. /\ worker_fwd' = [built(committee, "submit") EXCEPT !.pc = "idle"]
        /\ failures' = IF failures < 2 THEN failures + 1 ELSE 2
    BY <1>1, <1>8 DEF Fail
  <2>2. worker_fwd' = built(committee, "idle")
    BY <2>1
  <2>3. built(committee, "idle").connections = made(committee)
        /\ built(committee, "idle").pc = "idle"
    OBVIOUS
  <2> QED
    BY <1>7, <1>8, <2>1, <2>2, <2>3 DEF conns
<1>9. CASE DOMAIN made(committee) # {}
  <2>1. worker_fwd' = built(committee, "submit") /\ failures' = failures
    BY <1>1, <1>9
  <2>2. built(committee, "submit").connections = made(committee)
        /\ built(committee, "submit").pc = "submit"
    OBVIOUS
  <2> QED
    BY <1>7, <1>9, <2>1, <2>2 DEF conns
<1> QED
    BY <1>8, <1>9

LEMMA HandleForwardKeeps == ForwarderInv /\ handle_forward => ForwarderInv'
<1> SUFFICES ASSUME ForwarderInv, handle_forward
             PROVE  ForwarderInv'
    OBVIOUS
<1>0. ForwarderTypeOK /\ ListIsCurrent /\ FailureClears /\ RetriesSuffice
    BY DEF ForwarderInv
<1>1. /\ UNCHANGED <<chain_epoch, valid, down, outages>> /\ worker_fwd.pc = "idle"
    BY DEF handle_forward
<1>2. PICK worker : /\ Prepared(worker, worker_fwd.connections)
                    /\ \/ /\ DOMAIN worker.connections # {} /\ worker.pc = "submit"
                          /\ worker_fwd' = worker /\ failures' = failures
                       \/ /\ DOMAIN worker.connections = {} /\ worker.pc = "idle"
                          /\ worker_fwd' = worker
                          /\ failures' = IF failures < 2 THEN failures + 1 ELSE 2
    BY <1>0, PreparedByForward
<1>3. worker_fwd' = worker /\ failures' \in 0 .. 2 /\ worker.pc \in {"idle", "submit"}
    BY <1>0, <1>2 DEF ForwarderTypeOK
<1>4. ForwarderTypeOK'
  <2>1. worker.epoch = chain_epoch /\ chain_epoch \in 0 .. chain_epoch
    BY <1>0, <1>2, ForwarderAssumption DEF Prepared, ForwarderTypeOK
  <2>2. chain_epoch' \in 0 .. Len(Committees) - 1 /\ valid' \in BOOLEAN
        /\ worker_fwd'.epoch \in 0 .. chain_epoch'
    BY <1>0, <1>1, <1>3, <2>1 DEF ForwarderTypeOK
  <2>3. /\ worker_fwd' = [epoch |-> worker_fwd'.epoch, committee |-> worker_fwd'.committee,
                          cursor |-> worker_fwd'.cursor,
                          connections |-> worker_fwd'.connections, pc |-> worker_fwd'.pc]
        /\ worker_fwd'.committee \in Seq(AllMembers) /\ worker_fwd'.cursor \in Nat
        /\ worker_fwd'.cursor < Len(worker_fwd'.committee)
        /\ DOMAIN worker_fwd'.connections \subseteq Nat
        /\ worker_fwd'.connections \in [DOMAIN worker_fwd'.connections -> AllMembers]
    BY <1>2, <1>3, <2>1 DEF Prepared, RingResult
  <2> QED
    BY <1>3, <2>2, <2>3 DEF ForwarderTypeOK, AllMembers
<1>5. ListIsCurrent'
    BY <1>1, <1>2, <1>3, AttemptSees DEF ListIsCurrent, Prepared
<1>6. ASSUME Reachable'
      PROVE  /\ Reachable /\ failures' = failures /\ worker.pc = "submit"
             /\ DOMAIN worker.connections # {}
    BY <1>1, <1>2, <1>6, AttemptSees DEF Prepared
<1>7. RetriesSuffice'
    BY <1>0, <1>6 DEF RetriesSuffice
<1>8. ASSUME Reachable', failures' > 0
      PROVE  \E i \in DOMAIN worker.connections : Serves(worker.connections[i])
  <2>1. DOMAIN worker_fwd.connections = {}
    BY <1>0, <1>1, <1>6, <1>8 DEF FailureClears
  <2> QED
    BY <1>2, <1>6, <1>8, <2>1 DEF Prepared, RingResult
<1>9. FailureClears'
  <2>1. \A m : Serves(m) => m \in (CommitteeNow \ down)'
    BY <1>1, AttemptSees
  <2> QED
    BY <1>3, <1>6, <1>8, <2>1 DEF FailureClears, Serves
<1> QED
    BY <1>4, <1>5, <1>7, <1>9 DEF ForwarderInv

LEMMA SubmitKeeps == ForwarderInv /\ SubmitTransaction => ForwarderInv'
<1> SUFFICES ASSUME ForwarderInv, SubmitTransaction
             PROVE  ForwarderInv'
    OBVIOUS
<1>0. ForwarderTypeOK /\ ListIsCurrent /\ FailureClears /\ RetriesSuffice
    BY DEF ForwarderInv
<1>1. /\ UNCHANGED <<chain_epoch, valid, down, outages>> /\ worker_fwd.pc = "submit"
    BY DEF SubmitTransaction
<1> DEFINE conns == worker_fwd.connections
           kept == {i \in DOMAIN conns : Serves(conns[i])}
           left == [i \in kept |-> conns[i]]
<1>2. /\ worker_fwd' = [epoch |-> worker_fwd.epoch, committee |-> worker_fwd.committee,
                        cursor |-> worker_fwd.cursor, connections |-> left, pc |-> "idle"]
      /\ failures' = IF kept # {} THEN 0 ELSE IF failures < 2 THEN failures + 1 ELSE 2
  <2> DEFINE w == [worker_fwd EXCEPT !.connections = left]
  <2>1. IF kept = {} THEN Fail(w)
        ELSE worker_fwd' = [w EXCEPT !.pc = "idle"] /\ failures' = 0
    BY DEF SubmitTransaction
  <2>2. [w EXCEPT !.pc = "idle"] =
          [epoch |-> worker_fwd.epoch, committee |-> worker_fwd.committee,
           cursor |-> worker_fwd.cursor, connections |-> left, pc |-> "idle"]
    <3>1. PICK e, c, u, x, p : worker_fwd = [epoch |-> e, committee |-> c, cursor |-> u,
                                             connections |-> x, pc |-> p]
      BY <1>0 DEF ForwarderTypeOK
    <3>2. PICK y : y = left
      OBVIOUS
    <3>3. worker_fwd.epoch = e /\ worker_fwd.committee = c /\ worker_fwd.cursor = u
      BY <3>1
    <3>4. [[worker_fwd EXCEPT !.connections = y] EXCEPT !.pc = "idle"] =
            [epoch |-> e, committee |-> c, cursor |-> u, connections |-> y, pc |-> "idle"]
      <4>1. [worker_fwd EXCEPT !.connections = y] =
              [epoch |-> e, committee |-> c, cursor |-> u, connections |-> y, pc |-> p]
        BY <3>1
      <4>2. [[epoch |-> e, committee |-> c, cursor |-> u, connections |-> y, pc |-> p]
               EXCEPT !.pc = "idle"] =
              [epoch |-> e, committee |-> c, cursor |-> u, connections |-> y, pc |-> "idle"]
        OBVIOUS
      <4> QED
        BY <4>1, <4>2
    <3> HIDE DEF left
    <3> QED
      BY <3>2, <3>3, <3>4
  <2> HIDE DEF w, kept
  <2> QED
    BY <2>1, <2>2 DEF Fail
<1>3. /\ DOMAIN left = kept /\ kept \subseteq DOMAIN conns
      /\ left \in [kept -> AllMembers] /\ kept \subseteq Nat
    BY <1>0 DEF ForwarderTypeOK
<1> HIDE DEF left
<1>4. /\ worker_fwd'.epoch = worker_fwd.epoch /\ worker_fwd'.committee = worker_fwd.committee
      /\ worker_fwd'.cursor = worker_fwd.cursor /\ worker_fwd'.connections = left
      /\ worker_fwd'.pc = "idle"
    BY <1>2
<1>5. ForwarderTypeOK'
  <2>1. failures' \in 0 .. 2
    BY <1>0, <1>2 DEF ForwarderTypeOK
  <2>2. worker_fwd' = [epoch |-> worker_fwd'.epoch, committee |-> worker_fwd'.committee,
                       cursor |-> worker_fwd'.cursor,
                       connections |-> worker_fwd'.connections, pc |-> worker_fwd'.pc]
    BY <1>2
  <2>3. /\ DOMAIN worker_fwd'.connections \subseteq Nat
        /\ worker_fwd'.connections \in [DOMAIN worker_fwd'.connections -> AllMembers]
    BY <1>3, <1>4
  <2> QED
    BY <1>0, <1>1, <1>4, <2>1, <2>2, <2>3 DEF ForwarderTypeOK, AllMembers
<1>6. ListIsCurrent'
    BY <1>0, <1>1, <1>4, AttemptSees DEF ListIsCurrent
<1>7. ASSUME Reachable', failures' > 0
      PROVE  kept = {} /\ failures = 0 /\ failures' = 1
  <2>1. Reachable
    BY <1>1, <1>7, AttemptSees
  <2>2. kept = {}
    BY <1>2, <1>7
  <2>3. ~(failures > 0)
    BY <1>0, <1>1, <2>1, <2>2 DEF FailureClears
  <2>4. failures = 0
    BY <1>0, <2>3 DEF ForwarderTypeOK
  <2> QED
    BY <1>2, <2>2, <2>4
<1>8. FailureClears'
  <2>1. ASSUME Reachable', failures' > 0
        PROVE  DOMAIN worker_fwd'.connections = {}
    BY <1>3, <1>4, <1>7, <2>1
  <2> QED
    BY <1>4, <2>1 DEF FailureClears
<1>9. RetriesSuffice'
  <2>1. failures' \in 0 .. 2
    BY <1>5 DEF ForwarderTypeOK
  <2> QED
    BY <1>7, <2>1 DEF RetriesSuffice
<1> QED
    BY <1>5, <1>6, <1>8, <1>9 DEF ForwarderInv

LEMMA EpochKeepsForwarder == ForwarderInv /\ NextEpoch => ForwarderInv'
<1> SUFFICES ASSUME ForwarderInv, NextEpoch
             PROVE  ForwarderInv'
    OBVIOUS
<1>0. ForwarderTypeOK
    BY DEF ForwarderInv
<1>1. /\ chain_epoch + 1 < Len(Committees) /\ chain_epoch' = chain_epoch + 1
      /\ valid' \in BOOLEAN /\ failures' = 0 /\ worker_fwd' = worker_fwd
    BY DEF NextEpoch
<1>2. PICK n \in Nat : n = Len(Committees)
    BY ForwarderAssumption
<1>3. chain_epoch \in Nat /\ worker_fwd.epoch \in Nat /\ worker_fwd.epoch <= chain_epoch
    BY <1>0, <1>2 DEF ForwarderTypeOK
<1>4. /\ chain_epoch' \in 0 .. n - 1 /\ worker_fwd'.epoch \in 0 .. chain_epoch'
      /\ worker_fwd'.epoch # chain_epoch'
    BY <1>1, <1>2, <1>3
<1>5. ForwarderTypeOK'
    BY <1>0, <1>1, <1>2, <1>4 DEF ForwarderTypeOK, AllMembers
<1>6. ListIsCurrent' /\ FailureClears' /\ RetriesSuffice'
    BY <1>1, <1>4 DEF ListIsCurrent, FailureClears, RetriesSuffice
<1> QED
    BY <1>5, <1>6 DEF ForwarderInv

LEMMA OutageKeepsForwarder ==
    ASSUME ForwarderInv, NEW m, Outage(m)
    PROVE  ForwarderInv'
<1>1. UNCHANGED <<chain_epoch, valid, worker_fwd>> /\ failures' = 0
    BY DEF Outage
<1>2. Refreshed' = Refreshed
    BY <1>1 DEF Refreshed, CommitteeNow
<1>3. ForwarderTypeOK' /\ ListIsCurrent'
    BY <1>1, <1>2 DEF ForwarderInv, ForwarderTypeOK, ListIsCurrent, AllMembers
<1>4. FailureClears' /\ RetriesSuffice'
    BY <1>1 DEF FailureClears, RetriesSuffice
<1> QED
    BY <1>3, <1>4 DEF ForwarderInv

LEMMA ForwarderNextKeeps ==
    ForwarderInv /\ [ForwarderNext]_forwarderVars => ForwarderInv'
<1> SUFFICES ASSUME ForwarderInv, [ForwarderNext]_forwarderVars
             PROVE  ForwarderInv'
    OBVIOUS
<1>1. CASE handle_forward
    BY <1>1, HandleForwardKeeps
<1>2. CASE SubmitTransaction
    BY <1>2, SubmitKeeps
<1>3. CASE NextEpoch
    BY <1>3, EpochKeepsForwarder
<1>4. ASSUME NEW e \in DOMAIN Committees, NEW m \in Committees[e], Outage(m)
      PROVE  ForwarderInv'
    BY <1>4, OutageKeepsForwarder
<1>5. CASE UNCHANGED forwarderVars
    BY <1>5 DEF forwarderVars, ForwarderInv, ForwarderTypeOK, ListIsCurrent, FailureClears,
                RetriesSuffice, Reachable, Refreshed, CommitteeNow, Serves, AllMembers
<1> QED
    BY <1>1, <1>2, <1>3, <1>4, <1>5 DEF ForwarderNext

\* While the epoch and the members stay as they are and one that the forwarder may use
\* serves, at most one attempt fails, for every sequence of committees, every shuffle of
\* them and every number of targeted connections, although handle_forward keeps
\* connections under the indices of an earlier list.
THEOREM ForwarderCorrect == ForwarderSpec => []ForwarderInv
<1> QED
    BY ForwarderInitHolds, ForwarderNextKeeps, PTL DEF ForwarderSpec

\* Both at once: what the transaction runner reports happened, and the forwarder below
\* it fails one attempt at most, in every interleaving of the two.
THEOREM ClientsCorrect == ClientsSpec => []ClientsInv
<1> QED
    BY ClientCorrect, ForwarderCorrect, PTL DEF ClientsSpec, ClientsInv
=============================================================================
