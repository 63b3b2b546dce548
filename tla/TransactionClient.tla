-------------------------- MODULE TransactionClient --------------------------
(***************************************************************************)
(* The transaction client (core/utils/src/transaction): every call of      *)
(* execute_transaction is a runner of its own that takes a nonce from the  *)
(* shared nonce state, sends, waits for the receipt and retries; a syncer  *)
(* resets the nonce state at every block.                                  *)
(*                                                                         *)
(* Abstractions: a method is the runner that executes it; the retry        *)
(* options are the default ones; a wait may run out at any time, also      *)
(* when the receipt has just arrived; a transaction that was sent may be   *)
(* ordered never, late, or several times.  The notifier does not end.      *)
(***************************************************************************)
EXTENDS Naturals, Sequences, FiniteSets

CONSTANTS Runners,         \* calls of execute_transaction
          NoRunner,        \* the sender of IncrementNonce transactions
          MaxRetries,      \* DEFAULT_MAX_RETRIES, also the limit for InvalidNonce
          MaxSendRetries,  \* retries after an error of the forwarder
          MaxExecuted      \* bound: transactions executed

ASSUME ClientAssumption ==
    /\ NoRunner \notin Runners
    /\ MaxRetries \in Nat
    /\ MaxSendRetries \in Nat
    /\ MaxExecuted \in Nat

VARIABLES nonce_state,  \* the base and next nonce all runners share
          runner,       \* the state of each call
          inbox,        \* the receipt of the transaction a runner waits for
          sent,         \* transactions that reached a mempool
          chain         \* transactions executed, with their outcome

clientVars == <<nonce_state, runner, inbox, sent, chain>>

ClientTx(nonce, method) == [nonce |-> nonce, method |-> method]

Outcomes == {"success", "revert", "InvalidNonce", "AlreadyExecutedDigest"}

used_nonce == Len(chain)

ClientInit ==
    /\ nonce_state = [base |-> 0, next |-> 1]
    /\ runner = [r \in Runners |->
                   [pc |-> "start", nonce |-> 0, retry |-> 0, inner |-> 0,
                    after |-> "retry", result |-> "none"]]
    /\ inbox = [r \in Runners |-> "none"]
    /\ sent = {}
    /\ chain = <<>>

-----------------------------------------------------------------------------
Goto(r, fields) ==
    runner' = [runner EXCEPT ![r] = [f \in DOMAIN runner[r] |->
                 IF f \in DOMAIN fields THEN fields[f] ELSE runner[r][f]]]

\* A call that returned has no state but its result.
Done(result) ==
    [pc |-> "done", nonce |-> 0, retry |-> 0, inner |-> 0, after |-> "retry",
     result |-> result]

Finish(r, result) ==
    /\ Goto(r, Done(result))
    /\ UNCHANGED nonce_state

\* get_next_and_increment, under the write lock of the nonce state.
SendWithNextNonce(r) ==
    /\ Goto(r, [pc |-> "send", nonce |-> nonce_state.next,
                inner |-> 0, after |-> "retry"])
    /\ nonce_state' = [nonce_state EXCEPT !.next = @ + 1]

StartRunner(r) ==
    /\ runner[r].pc = "start"
    /\ SendWithNextNonce(r)
    /\ UNCHANGED <<inbox, sent, chain>>

\* The runner subscribes to blocks before it sends.
SendTransaction(r) ==
    /\ runner[r].pc = "send"
    /\ sent' = sent \cup {ClientTx(runner[r].nonce, r)}
    /\ Goto(r, [pc |-> "wait"])
    /\ UNCHANGED <<nonce_state, inbox, chain>>

\* The forwarder reports an error, although the transaction may have reached a
\* mempool.  The runner keeps the nonce while the chain has not used it.
handle_forwarder_error(r) ==
    /\ runner[r].pc = "send"
    /\ sent' = sent \cup {ClientTx(runner[r].nonce, r)}
    /\ Goto(r, IF runner[r].retry + 1 > MaxSendRetries
               THEN Done("error")
               ELSE [pc |-> "resend", retry |-> runner[r].retry + 1])
    /\ UNCHANGED <<nonce_state, inbox, chain>>

RetryAfterDelay(r) ==
    /\ runner[r].pc = "resend"
    /\ IF nonce_state.base < runner[r].nonce
       THEN Goto(r, [pc |-> "send"]) /\ UNCHANGED nonce_state
       ELSE SendWithNextNonce(r)
    /\ UNCHANGED <<inbox, sent, chain>>

\* Giving up needs no IncrementNonce when no later nonce was handed out.
ensure_nonce_used_before_giving_up(r, retry) ==
    /\ IF nonce_state.next <= runner[r].nonce + 1
       THEN Goto(r, Done("error"))
       ELSE Goto(r, [pc |-> "ensure", after |-> "give up",
                     inner |-> 0, retry |-> retry])
    /\ UNCHANGED nonce_state

handle_receipt_revert(r) ==
    LET retry == runner[r].retry + 1
    IN IF inbox[r] = "InvalidNonce" /\ retry <= MaxRetries
       THEN Goto(r, [pc |-> "again", retry |-> retry]) /\ UNCHANGED nonce_state
       ELSE ensure_nonce_used_before_giving_up(r, retry)

\* In wait_for_receipt, the timer still to run or run out.
Waits(r) == runner[r].pc \in {"wait", "late"}

\* Mutation: the response of the receipt is not looked at.
AnyReceiptSucceeds(r) ==
    /\ Waits(r)
    /\ inbox[r] # "none"
    /\ inbox' = [inbox EXCEPT ![r] = "none"]
    /\ Finish(r, "success")
    /\ UNCHANGED <<sent, chain>>

HandleReceipt(r) ==
    /\ Waits(r)
    /\ inbox[r] # "none"
    /\ inbox' = [inbox EXCEPT ![r] = "none"]
    /\ IF inbox[r] = "success" THEN Finish(r, "success") ELSE handle_receipt_revert(r)
    /\ UNCHANGED <<sent, chain>>

\* After the delay a transaction with an invalid nonce gets the next one.
RetryInvalidNonce(r) ==
    /\ runner[r].pc = "again"
    /\ SendWithNextNonce(r)
    /\ UNCHANGED <<inbox, sent, chain>>

\* The sleep of wait_for_receipt runs out.
SleepEnds(r) ==
    /\ runner[r].pc = "wait"
    /\ Goto(r, [pc |-> "late"])
    /\ UNCHANGED <<nonce_state, inbox, sent, chain>>

\* The select takes the notification of a block without the receipt: the loop
\* sleeps the whole timeout again.
ReceiveOtherBlock(r) ==
    /\ runner[r].pc = "late" /\ inbox[r] = "none"
    /\ Goto(r, [pc |-> "wait"])
    /\ UNCHANGED <<nonce_state, inbox, sent, chain>>

handle_receipt_timeout(r) ==
    LET retry == runner[r].retry + 1
    IN /\ runner[r].pc = "late"
       /\ IF retry > MaxRetries
          THEN ensure_nonce_used_before_giving_up(r, retry)
          ELSE /\ Goto(r, [pc |-> "ensure", after |-> "retry",
                           inner |-> 0, retry |-> retry])
               /\ UNCHANGED nonce_state
       /\ inbox' = [inbox EXCEPT ![r] = "none"]
       /\ UNCHANGED <<sent, chain>>

\* What follows a nonce that is used.
AfterEnsure(r) ==
    IF runner[r].after = "retry" THEN SendWithNextNonce(r) ELSE Finish(r, "error")

\* ensure_nonce_used: the loop's first test, and the IncrementNonce transaction.
ensure_nonce_used(r) ==
    /\ runner[r].pc = "ensure"
    /\ IF runner[r].nonce <= nonce_state.base
       THEN AfterEnsure(r) /\ UNCHANGED sent
       ELSE /\ sent' = sent \cup {ClientTx(runner[r].nonce, NoRunner)}
            /\ Goto(r, [pc |-> "poll"])
            /\ UNCHANGED nonce_state
    /\ UNCHANGED <<inbox, chain>>

\* The IncrementNonce transaction cannot be handed to the mempool; in the end the
\* nonce is left unused and the call goes on.
EnqueueFails(r) ==
    /\ runner[r].pc = "ensure" /\ runner[r].nonce > nonce_state.base
    /\ IF runner[r].inner + 1 > MaxRetries
       THEN AfterEnsure(r)
       ELSE Goto(r, [inner |-> runner[r].inner + 1]) /\ UNCHANGED nonce_state
    /\ UNCHANGED <<inbox, sent, chain>>

\* The nonce was used; the transaction itself may have been executed.
NonceUsed(r) ==
    /\ runner[r].pc = "poll"
    /\ nonce_state.base >= runner[r].nonce
    /\ IF \E i \in DOMAIN chain : chain[i].tx = ClientTx(runner[r].nonce, r)
       THEN Finish(r, "executed without receipt")
       ELSE AfterEnsure(r)
    /\ UNCHANGED <<inbox, sent, chain>>

\* Mutation: the attempts to fill the nonce are not counted.
PollForever(r) ==
    /\ runner[r].pc = "poll"
    /\ nonce_state.base < runner[r].nonce
    /\ Goto(r, [pc |-> "ensure"])
    /\ UNCHANGED <<nonce_state, inbox, sent, chain>>

PollTimeout(r) ==
    /\ runner[r].pc = "poll"
    /\ nonce_state.base < runner[r].nonce
    /\ IF runner[r].inner + 1 > MaxRetries
       THEN Goto(r, Done("error"))
       ELSE Goto(r, [pc |-> "ensure", inner |-> runner[r].inner + 1])
    /\ UNCHANGED <<nonce_state, inbox, sent, chain>>

-----------------------------------------------------------------------------
\* TransactionClientNonceSyncer: every block of the network, whosever
\* transactions it has, also lowers a next nonce that ran ahead.
SyncNonce ==
    /\ nonce_state' = [base |-> used_nonce, next |-> used_nonce + 1]
    /\ UNCHANGED <<runner, inbox, sent, chain>>

\* wait_for_receipt compares the hashes.
Awaits(r, tx) ==
    /\ inbox[r] = "none"
    /\ Waits(r)
    /\ tx = ClientTx(runner[r].nonce, r)

ClientExecutes(tx, outcome) ==
    /\ tx.nonce = used_nonce + 1 /\ used_nonce < MaxExecuted
    /\ outcome \in {"success", "revert"}
    /\ chain' = Append(chain, [tx |-> tx, outcome |-> outcome])

\* verify_fleek_transaction refuses everything else, which only who waits sees.
ClientRefuses(tx, outcome) ==
    /\ tx.nonce # used_nonce + 1
    /\ outcome = IF \E i \in DOMAIN chain : chain[i].tx = tx
                 THEN "AlreadyExecutedDigest" ELSE "InvalidNonce"
    /\ \E r \in Runners : Awaits(r, tx)
    /\ UNCHANGED chain

\* A block orders a transaction, any number of times; a runner that waits for it
\* gets the first receipt.
OrderTransaction(tx, outcome) ==
    /\ ClientExecutes(tx, outcome) \/ ClientRefuses(tx, outcome)
    /\ inbox' = [r \in Runners |->
         IF Awaits(r, tx) THEN outcome ELSE inbox[r]]
    /\ UNCHANGED <<nonce_state, runner, sent>>

RunnerStep(r) ==
    \/ StartRunner(r)
    \/ SendTransaction(r)
    \/ handle_forwarder_error(r)
    \/ RetryAfterDelay(r)
    \/ HandleReceipt(r)
    \/ RetryInvalidNonce(r)
    \/ SleepEnds(r)
    \/ handle_receipt_timeout(r)
    \/ ensure_nonce_used(r)
    \/ EnqueueFails(r)
    \/ NonceUsed(r)
    \/ PollTimeout(r)

ClientNext ==
    \/ \E r \in Runners : RunnerStep(r)
    \/ \E r \in Runners : ReceiveOtherBlock(r)
    \/ SyncNonce
    \/ \E tx \in sent, outcome \in Outcomes : OrderTransaction(tx, outcome)

ClientSpec == ClientInit /\ [][ClientNext]_clientVars

\* Runners and the syncer are tasks of their own.
FairClientSpec ==
    /\ ClientSpec
    /\ \A r \in Runners : WF_clientVars(RunnerStep(r))
    /\ WF_clientVars(SyncNonce)

-----------------------------------------------------------------------------
ClientTypeOK ==
    /\ nonce_state \in [base : Nat, next : Nat]
    /\ runner \in [Runners ->
         [pc : {"start", "send", "wait", "late", "resend", "again", "ensure",
                "poll", "done"},
          nonce : Nat, retry : Nat, inner : Nat, after : {"retry", "give up"},
          result : {"none", "success", "error", "executed without receipt"}]]
    /\ inbox \in [Runners -> Outcomes \cup {"none"}]
    /\ sent \subseteq [nonce : Nat, method : Runners \cup {NoRunner}]
    /\ chain \in Seq([tx : [nonce : Nat, method : Runners \cup {NoRunner}],
                      outcome : {"success", "revert"}])

Successes(r) ==
    {i \in DOMAIN chain : chain[i].tx.method = r /\ chain[i].outcome = "success"}

\* A call that returns a receipt of success, or says that the transaction was
\* executed, has executed its method.
ResultIsTrue ==
    \A r \in Runners :
       /\ runner[r].result = "success" => Successes(r) # {}
       /\ runner[r].result = "executed without receipt" =>
            \E i \in DOMAIN chain : chain[i].tx.method = r

\* Every call ends, with a receipt or an error, unless it waits for ever for one
\* receipt while blocks without it keep starting its timeout again.
RunnersEnd ==
    \A r \in Runners :
       \/ <>(runner[r].pc = "done")
       \/ <>[]Waits(r) /\ []<>(runner[r].pc = "wait")

\* So is the receipt that a runner has not looked at yet.
ReceiptIsTrue == \A r \in Runners : inbox[r] = "success" => Successes(r) # {}

\* The state of the calls, with receipts and results that are true of the chain.
ClientInv == ClientTypeOK /\ ReceiptIsTrue /\ ResultIsTrue
=============================================================================
