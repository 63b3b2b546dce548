----------------------------- MODULE BeaconNode ------------------------------
(***************************************************************************)
(* The committee nodes that drive the epoch change, composed with the      *)
(* executor's state machine of CommitteeBeacon.  Each node runs            *)
(*                                                                         *)
(*   - a transition task (epoch_state.rs): waits for the end of the epoch, *)
(*     then for the end of each phase, and signals it with a transaction;  *)
(*   - a beacon listener (listener.rs): on every executed block it commits *)
(*     or reveals when the phase asks for it, and repeats the transaction  *)
(*     until the chain shows it;                                           *)
(*   - a local database of the commits it generated, which survives a      *)
(*     crash.                                                              *)
(*                                                                         *)
(* A node's transactions carry consecutive nonces, so they execute in the  *)
(* order it signed them: `pool[n]` is that queue.  A block holds one       *)
(* transaction; a reverted transaction is dropped.  Timers are not         *)
(* modelled: a wait may be over at any time.  Blocks with transactions of  *)
(* other senders are executed all the time, so the listener may handle a   *)
(* block notification at any time.                                         *)
(*                                                                         *)
(* A kick makes a committee node restart narwhal and start a second        *)
(* transition task; the instances give the nodes stakes that no slash      *)
(* takes below the minimum.                                                *)
(*                                                                         *)
(* Bounds in the guards: a node signs at most MaxPool transactions ahead,  *)
(* never one that is still in its queue (the code repeats one every 10 or  *)
(* 60 seconds), and none from epoch MaxEpoch on; it crashes at most        *)
(* MaxCrashes times; a transaction that would start a round past MaxRound  *)
(* waits.                                                                  *)
(***************************************************************************)
EXTENDS CommitteeBeacon, Sequences

CONSTANTS MaxPool, MaxCrashes, MaxRound, MaxEpoch

ASSUME NodeAssumption ==
    /\ Values # {}
    /\ MaxPool \in Nat /\ MaxCrashes \in Nat /\ MaxRound \in Nat /\ MaxEpoch \in Nat

VARIABLES pool,     \* signed transactions of a node that are not executed yet
          driver,   \* the transition task
          listener, \* the beacon listener
          db,       \* the local beacon database
          crashes   \* crashes so far

nodeVars == <<pool, driver, listener, db, crashes>>
allVars == <<vars, nodeVars>>

\* A reveal names the commit it opens; the chain sees only its value.
Tx == [method : {"ChangeEpoch", "Commit", "Reveal", "CommitTimeout", "RevealTimeout"},
       commit : Commit]

\* Epoch and round of a signal, in the form of a transaction.
Signal(method, e, r) ==
    [method |-> method, commit |-> build(e, r, CHOOSE v \in Values : TRUE)]

NewDriver == [pc |-> "begin", epoch |-> epoch, round |-> 0]
Idle == [pc |-> "idle", tx |-> Signal("Commit", 0, 0)]

NodeInit ==
    /\ Init
    /\ pool = [n \in Nodes |-> << >>]
    /\ driver = [n \in Nodes |-> NewDriver]
    /\ listener = [n \in Nodes |-> Idle]
    /\ db = [n \in Nodes |-> {}]
    /\ crashes = 0

\* The signer signs a transaction with the next nonce.
CanSign(n, tx) ==
    /\ epoch < MaxEpoch
    /\ Len(pool[n]) < MaxPool
    /\ \A i \in 1 .. Len(pool[n]) : pool[n][i] # tx

Sign(n, tx) == pool' = [pool EXCEPT ![n] = Append(@, tx)]

-----------------------------------------------------------------------------
(* Execution of the next transaction of a node.                            *)

TxGuard(n, tx) ==
    CASE tx.method = "ChangeEpoch" -> ChangeEpochGuard(n, tx.commit.epoch)
      [] tx.method = "Commit" -> CommitGuard(n)
      [] tx.method = "Reveal" -> RevealGuard(n, tx.commit.value)
      [] tx.method = "CommitTimeout" ->
           CommitTimeoutGuard(n, tx.commit.epoch, tx.commit.round)
      [] tx.method = "RevealTimeout" ->
           RevealTimeoutGuard(n, tx.commit.epoch, tx.commit.round)

TxEffect(n, tx) ==
    \/ tx.method = "ChangeEpoch" /\ ChangeEpoch(n, tx.commit.epoch)
    \/ tx.method = "Commit" /\ BeaconCommit(n, tx.commit)
    \/ tx.method = "Reveal" /\ BeaconReveal(n, tx.commit.value)
    \/ /\ tx.method = "CommitTimeout"
       /\ \/ CommitTimeoutSignal(n, tx.commit.epoch, tx.commit.round)
          \/ CommitTimeoutQuorum(n, tx.commit.epoch, tx.commit.round)
    \/ /\ tx.method = "RevealTimeout"
       /\ \/ RevealTimeoutSignal(n, tx.commit.epoch, tx.commit.round)
          \/ RevealTimeoutEpochChange(n, tx.commit.epoch, tx.commit.round)
          \/ RevealTimeoutRestart(n, tx.commit.epoch, tx.commit.round)

ExecuteTx(n) ==
    /\ pool[n] # << >>
    /\ LET tx == Head(pool[n])
       IN  \/ TxGuard(n, tx) /\ TxEffect(n, tx)
           \/ ~TxGuard(n, tx) /\ UNCHANGED vars
    /\ phase'.round <= MaxRound
    /\ pool' = [pool EXCEPT ![n] = Tail(@)]
    /\ UNCHANGED <<driver, listener, db, crashes>>

-----------------------------------------------------------------------------
(* The transition task.                                                    *)

Go(n, pc, e, r) ==
    driver' = [driver EXCEPT ![n] = [pc |-> pc, epoch |-> e, round |-> r]]

GoOn(n, pc, r) == Go(n, pc, driver[n].epoch, r)

\* The task starts with narwhal: a phase that is already running is joined.
DriverBegin(n) ==
    /\ driver[n].pc = "begin"
    /\ n \in committee.members
    /\ IF phase.kind = "none"
       THEN Go(n, "epoch", epoch, 0)
       ELSE Go(n, "loop", epoch, phase.round)
    /\ UNCHANGED <<vars, pool, listener, db, crashes>>

\* wait_and_signal_epoch_change: leaves for the commit phase, or gives up when
\* the epoch has changed.
DriverEpochTick(n) ==
    /\ driver[n].pc = "epoch"
    /\ \/ phase.kind = "commit" /\ GoOn(n, "loop", phase.round)
       \/ /\ phase.kind # "commit" /\ epoch # driver[n].epoch
          /\ GoOn(n, "done", 0)
    /\ UNCHANGED <<vars, pool, listener, db, crashes>>

DriverEpochSignal(n) ==
    /\ driver[n].pc = "epoch"
    /\ phase.kind # "commit" /\ epoch = driver[n].epoch
    /\ LET tx == Signal("ChangeEpoch", epoch, 0)
       IN  CanSign(n, tx) /\ Sign(n, tx)
    /\ UNCHANGED <<vars, driver, listener, db, crashes>>

\* The head of the task's loop reads the phase; a commit phase is awaited with
\* the round remembered from before.
DriverLoop(n) ==
    /\ driver[n].pc = "loop"
    /\ \/ phase.kind = "commit" /\ Go(n, "commit", phase.epoch, driver[n].round)
       \/ phase.kind = "reveal" /\ GoOn(n, "middle", driver[n].round)
       \/ phase.kind = "none" /\ GoOn(n, "done", 0)
    /\ UNCHANGED <<vars, pool, listener, db, crashes>>

\* wait_and_signal_commit_phase_timeout: leaves for the reveal phase.
DriverCommitTick(n) ==
    /\ driver[n].pc = "commit"
    /\ \/ phase.kind = "reveal" /\ GoOn(n, "middle", driver[n].round)
       \/ phase.kind = "none" /\ GoOn(n, "done", 0)
       \/ /\ phase.kind = "commit" /\ phase.round <= driver[n].round
          /\ epoch # driver[n].epoch /\ GoOn(n, "done", 0)
    /\ UNCHANGED <<vars, pool, listener, db, crashes>>

\* While the phase has a later round than the one awaited, every tick starts
\* the wait anew and continues the loop before the signal.
AwaitedCommitRound(n) == phase.round <= driver[n].round

DriverCommitSignal(n) ==
    /\ driver[n].pc = "commit"
    /\ phase.kind = "commit" /\ AwaitedCommitRound(n)
    /\ epoch = driver[n].epoch
    /\ LET tx == Signal("CommitTimeout", driver[n].epoch, driver[n].round)
       IN  CanSign(n, tx) /\ Sign(n, tx)
    /\ UNCHANGED <<vars, driver, listener, db, crashes>>

\* The middle of the loop reads the phase again.
DriverMiddle(n) ==
    /\ driver[n].pc = "middle"
    /\ \/ phase.kind = "reveal" /\ Go(n, "reveal", phase.epoch, phase.round)
       \/ phase.kind = "commit" /\ GoOn(n, "loop", phase.round)
       \/ phase.kind = "none" /\ GoOn(n, "done", 0)
    /\ UNCHANGED <<vars, pool, listener, db, crashes>>

\* wait_and_signal_reveal_phase_timeout: leaves for a new commit round, or is
\* done when the epoch has changed.
DriverRevealTick(n) ==
    /\ driver[n].pc = "reveal"
    /\ \/ phase.kind = "commit" /\ GoOn(n, "loop", phase.round)
       \/ /\ phase.kind # "commit" /\ epoch # driver[n].epoch
          /\ GoOn(n, "done", 0)
    /\ UNCHANGED <<vars, pool, listener, db, crashes>>

DriverRevealSignal(n) ==
    /\ driver[n].pc = "reveal"
    /\ phase.kind # "commit" /\ epoch = driver[n].epoch
    /\ LET tx == Signal("RevealTimeout", driver[n].epoch, driver[n].round)
       IN  CanSign(n, tx) /\ Sign(n, tx)
    /\ UNCHANGED <<vars, driver, listener, db, crashes>>

\* move_to_next_epoch: a committee member starts a task for the new epoch.
DriverNextEpoch(n) ==
    /\ driver[n].pc # "begin" /\ driver[n].epoch < epoch
    /\ driver' = [driver EXCEPT ![n] = NewDriver]
    /\ UNCHANGED <<vars, pool, listener, db, crashes>>

-----------------------------------------------------------------------------
(* The beacon listener.                                                    *)

Listen(n, pc, tx) == listener' = [listener EXCEPT ![n] = [pc |-> pc, tx |-> tx]]

CommitTx(c) == [method |-> "Commit", commit |-> c]
RevealTx(c) == [method |-> "Reveal", commit |-> c]

\* get_commit: the commits the node generated for a round.
GeneratedCommits(n, e, r) == {c \in db[n] : c.epoch = e /\ c.round = r}

\* Mutation: the value itself instead of its commit.
CommitsUnhashed(n, e, r) == Values

\* The commit to submit: the one generated before, or one for a fresh value.
CommitsFor(n, e, r) ==
    IF GeneratedCommits(n, e, r) # {}
    THEN GeneratedCommits(n, e, r)
    ELSE {build(e, r, v) : v \in Values}

\* Mutation: the commit is submitted without having been saved.
ListenerCommitUnsaved(n) ==
    /\ listener[n].pc = "idle"
    /\ n \in committee.members
    /\ phase.kind = "commit"
    /\ n \notin non_revealing
    /\ epoch = phase.epoch
    /\ beacons[n] = NoBeacon
    /\ \E c \in CommitsFor(n, epoch, phase.round) : Listen(n, "submit", CommitTx(c))
    /\ UNCHANGED <<vars, pool, driver, db, crashes>>

\* handle_commit_phase up to the submission: the commit is saved first.
ListenerCommit(n) ==
    /\ listener[n].pc = "idle"
    /\ n \in committee.members
    /\ phase.kind = "commit"
    /\ n \notin non_revealing
    /\ epoch = phase.epoch
    /\ beacons[n] = NoBeacon
    /\ \E c \in CommitsFor(n, epoch, phase.round) :
         /\ db' = [db EXCEPT ![n] = @ \cup {c}]
         /\ Listen(n, "submit", CommitTx(c))
    /\ UNCHANGED <<vars, pool, driver, crashes>>

\* Mutation: the commit on chain is opened in any phase.
ListenerRevealAnyPhase(n) ==
    /\ listener[n].pc = "idle"
    /\ n \in committee.members
    /\ n \in Unrevealed
    /\ beacons[n].commit \in db[n] /\ beacons[n].commit.epoch = epoch
    /\ Listen(n, "submit", RevealTx(beacons[n].commit))
    /\ UNCHANGED <<vars, pool, driver, db, crashes>>

\* handle_reveal_phase up to the submission: the value is read from the
\* database with the commit that is on chain.
ListenerReveal(n) ==
    /\ listener[n].pc = "idle"
    /\ n \in committee.members
    /\ phase.kind = "reveal"
    /\ epoch = phase.epoch
    /\ n \in Unrevealed
    /\ beacons[n].commit \in db[n] /\ beacons[n].commit.epoch = epoch
    /\ Listen(n, "submit", RevealTx(beacons[n].commit))
    /\ UNCHANGED <<vars, pool, driver, db, crashes>>

ListenerSubmit(n) ==
    /\ listener[n].pc = "submit"
    /\ CanSign(n, listener[n].tx) /\ Sign(n, listener[n].tx)
    /\ Listen(n, "wait", listener[n].tx)
    /\ UNCHANGED <<vars, driver, db, crashes>>

\* What the listener waits for after a submission: a commit of its node on
\* chain, whichever it is; a reveal, or no commit any more.
SubmissionSettled(n) ==
    IF listener[n].tx.method = "Commit"
    THEN beacons[n] # NoBeacon
    ELSE n \notin Unrevealed

\* The same transaction is submitted again, whatever the phase is now.
ListenerRetry(n) ==
    /\ listener[n].pc = "wait"
    /\ ~SubmissionSettled(n)
    /\ CanSign(n, listener[n].tx) /\ Sign(n, listener[n].tx)
    /\ UNCHANGED <<vars, driver, listener, db, crashes>>

ListenerDone(n) ==
    /\ listener[n].pc = "wait"
    /\ SubmissionSettled(n)
    /\ listener' = [listener EXCEPT ![n] = Idle]
    /\ UNCHANGED <<vars, pool, driver, db, crashes>>

\* The notification of an epoch change: clear_beacons_before_epoch.
ListenerClear(n) ==
    /\ listener[n].pc = "idle"
    /\ \E c \in db[n] : c.epoch < epoch
    /\ db' = [db EXCEPT ![n] = {c \in @ : c.epoch >= epoch}]
    /\ UNCHANGED <<vars, pool, driver, listener, crashes>>

\* A node stops and starts again.  The database survives; of the transactions
\* it signed, those it sent already do.
Crash(n) ==
    /\ crashes < MaxCrashes
    /\ crashes' = crashes + 1
    /\ listener' = [listener EXCEPT ![n] = Idle]
    /\ driver' = [driver EXCEPT ![n] = NewDriver]
    /\ \E k \in 0 .. Len(pool[n]) :
         pool' = [pool EXCEPT ![n] = SubSeq(@, 1, k)]
    /\ UNCHANGED <<vars, db>>

-----------------------------------------------------------------------------
DriverStep(n) ==
    \/ DriverBegin(n) \/ DriverLoop(n) \/ DriverMiddle(n) \/ DriverNextEpoch(n)
    \/ DriverEpochTick(n) \/ DriverCommitTick(n) \/ DriverRevealTick(n)
    \/ DriverEpochSignal(n) \/ DriverCommitSignal(n) \/ DriverRevealSignal(n)

ListenerStep(n) ==
    \/ ListenerCommit(n) \/ ListenerReveal(n) \/ ListenerSubmit(n)
    \/ ListenerRetry(n) \/ ListenerDone(n) \/ ListenerClear(n)

NodeNext ==
    \E n \in Nodes : ExecuteTx(n) \/ DriverStep(n) \/ ListenerStep(n) \/ Crash(n)

NodeSpec == NodeInit /\ [][NodeNext]_allVars

\* Consensus executes what is in the queues, the tasks are scheduled, and their
\* timers fire.
Fairness ==
    \A n \in Nodes :
      WF_allVars(ExecuteTx(n)) /\ WF_allVars(DriverStep(n)) /\ WF_allVars(ListenerStep(n))

FairNodeSpec == NodeSpec /\ Fairness

-----------------------------------------------------------------------------
NodeTypeOK ==
    /\ TypeOK
    /\ pool \in [Nodes -> Seq(Tx)]
    /\ \A n \in Nodes : Len(pool[n]) <= MaxPool
    /\ driver \in [Nodes ->
         [pc : {"begin", "epoch", "loop", "commit", "middle", "reveal", "done"},
          epoch : Nat, round : Nat]]
    /\ listener \in [Nodes -> [pc : {"idle", "submit", "wait"}, tx : Tx]]
    /\ db \in [Nodes -> SUBSET Commit]
    /\ crashes \in 0 .. MaxCrashes

\* The transactions of a node that may still be executed: those it signed, and
\* the one its listener is about to sign, or to sign again.
Queued(n) == {pool[n][i] : i \in 1 .. Len(pool[n])}
InFlight(n) ==
    Queued(n) \cup (IF listener[n].pc = "idle" THEN {} ELSE {listener[n].tx})

\* The commit phase a commit was made for has begun; it is over.
Begun(c) ==
    \/ c.epoch < epoch
    \/ c.epoch = epoch /\ phase.kind # "none" /\ c.round <= phase.round

Over(c) ==
    \/ c.epoch < epoch
    \/ /\ c.epoch = epoch
       /\ \/ phase.kind = "reveal" /\ c.round <= phase.round
          \/ phase.kind = "commit" /\ c.round < phase.round

\* The node can open the commit while it matters.
Saved(n, c) == c.epoch = epoch => c \in db[n]

\* The secret is durable before the commit can be executed: also after a crash
\* between saving, submitting and executing, a node has in its database every
\* commit of the current epoch that is in its queue or on chain.  Without it the
\* node could not reveal and would be slashed.
SecretDurable ==
    \A n \in Nodes :
      /\ \A tx \in InFlight(n) : tx.method = "Commit" => Saved(n, tx.commit)
      /\ n \in Committed => Saved(n, beacons[n].commit)

\* No commit is ahead of the chain, however late the listener acts on a phase:
\* the phase of every commit in a queue or on chain has begun.
NoneAhead ==
    \A n \in Nodes :
      /\ \A tx \in InFlight(n) : tx.method = "Commit" => Begun(tx.commit)
      /\ n \in Committed => Begun(beacons[n].commit)

\* A node never reveals early: a reveal leaves the node only for a commit whose
\* own commit phase is over on chain, so nobody can choose a commit after seeing
\* another node's value for the same round.
NoEarlyReveal ==
    \A n \in Nodes : \A tx \in InFlight(n) :
      tx.method = "Reveal" => Over(tx.commit)

\* A node can open every commit it made, and opens none too early: its queue, its
\* database and the chain agree over retries and crashes.
NodeInv == NodeTypeOK /\ SecretDurable /\ NoneAhead /\ NoEarlyReveal

\* The committee starts the beacon when the epoch is over.
BeaconStarts == (epoch = 0 /\ phase.kind = "none") ~> phase.kind = "commit"

\* A reveal phase ends: the transition tasks time it out whoever reveals.
RevealPhaseEnds ==
    \A r \in 0 .. MaxRound - 1 :
      (phase = RevealPhase(0, r)) ~> (phase # RevealPhase(0, r))

\* A commit phase ends: the transition tasks time it out whoever commits.
CommitPhaseEnds ==
    \A r \in 0 .. MaxRound - 1 :
      (phase = CommitPhase(0, r)) ~> (phase # CommitPhase(0, r))
=============================================================================
