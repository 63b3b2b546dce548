------------------------- MODULE ValidatorExecution --------------------------
(***************************************************************************)
(* How a validator turns narwhal's output into executed blocks.            *)
(*                                                                         *)
(*   narwhal orders sub-dags (external: all instances of a session give    *)
(*     the same order);                                                    *)
(*   `Execution` (execution/state.rs) drops outputs of another epoch and   *)
(*     sends the others into a bounded channel;                            *)
(*   the execution worker (execution/worker.rs) takes them from the        *)
(*     channel and runs them in the application, which stores the index of *)
(*     the last sub-dag with the block;                                    *)
(*   a block that changes the epoch, or the committee within the epoch     *)
(*     (era), makes the worker notify the consensus task (consensus.rs),   *)
(*     which shuts narwhal down and starts it for the new committee.       *)
(*                                                                         *)
(* A session is one pair of epoch and era, in the order they follow each   *)
(* other.  In session s the sub-dag with index EndIndex[s] holds the           *)
(* transaction that ends it; narwhal may order more sub-dags before it is  *)
(* shut down.  A crash loses the channel and narwhal's state in memory.    *)
(*                                                                         *)
(* Bounds: sessions up to MaxSession, whose last one does not end;         *)
(* SubDags sub-dags per session; MaxCrashes crashes.                       *)
(***************************************************************************)
EXTENDS Naturals, Sequences

CONSTANTS Validators,
          MaxSession,
          SubDags,     \* how many sub-dags narwhal orders in a session
          EpochOf,     \* the epoch of a session
          EndIndex,        \* the index of the sub-dag that ends a session
          Members,     \* the committee of a session
          MaxChannel,  \* capacity of the channel, 1000 in the code
          MaxCrashes

Sessions == 0 .. MaxSession

ASSUME SessionAssumption ==
    /\ MaxSession \in Nat /\ SubDags \in Nat /\ MaxCrashes \in Nat
    /\ MaxChannel \in Nat \ {0}
    /\ EpochOf \in [Sessions -> Nat]
    /\ EndIndex \in [Sessions -> 1 .. SubDags]
    /\ Members \in [Sessions -> SUBSET Validators]

VARIABLES session, \* the application's epoch and era
          sub_dag, \* Metadata::SubDagIndex
          vlog,     \* the executed blocks, with the session they ran in
          channel, \* consensus_output_tx / consensus_output_rx
          narwhal, \* the running instance
          task,    \* the consensus task
          crashes

durable == <<session, sub_dag, vlog>>
validatorVars == <<session, sub_dag, vlog, channel, narwhal, task, crashes>>

OutputBatch == [session : Sessions, index : 1 .. SubDags]

\* An instance and its store: the session, the index of the next output, and
\* how many sub-dags of the session are in the store.
Narwhal == [running : BOOLEAN, session : Sessions,
            next : 1 .. SubDags + 1, ordered : 0 .. SubDags]

-----------------------------------------------------------------------------
ValidatorInit ==
    /\ session = [v \in Validators |-> 0]
    /\ sub_dag = [v \in Validators |-> 0]
    /\ vlog = [v \in Validators |-> << >>]
    /\ channel = [v \in Validators |-> << >>]
    /\ narwhal = [v \in Validators |->
                    [running |-> FALSE, session |-> 0, next |-> 1, ordered |-> 0]]
    /\ task = [v \in Validators |-> "starting"]
    /\ crashes = 0

\* Mutations: the index of the last executed sub-dag itself; one too far.
ResumeAtLast(v) == IF sub_dag[v] = 0 THEN 1 ELSE sub_dag[v]
ResumeTooFar(v) == sub_dag[v] + 2

\* last_executed_sub_dag_index: the index narwhal resumes from.
last_executed_sub_dag_index(v) == sub_dag[v] + 1

\* Narwhal opens the store of the session, outputs the sub-dags in it again from
\* the index the application asks for, and goes on with new ones.
OpenStore(v) ==
    LET ordered == IF narwhal[v].session = session[v] THEN narwhal[v].ordered ELSE 0
    IN  [running |-> TRUE, session |-> session[v], ordered |-> ordered,
         next |-> IF last_executed_sub_dag_index(v) <= ordered
                  THEN last_executed_sub_dag_index(v) ELSE ordered + 1]

\* start_current_epoch: a committee member starts narwhal, which outputs
\* sub-dags from now on.
StartNarwhal(v) ==
    /\ task[v] = "starting"
    /\ narwhal' = IF v \in Members[session[v]]
                  THEN [narwhal EXCEPT ![v] = OpenStore(v)] ELSE narwhal
    /\ task' = [task EXCEPT ![v] = "started"]
    /\ UNCHANGED <<durable, channel, crashes>>

\* The consensus task returns to its loop and creates the next `notified`.
AwaitReconfigure(v) ==
    /\ task[v] = "started"
    /\ task' = [task EXCEPT ![v] = "waiting"]
    /\ UNCHANGED <<durable, channel, narwhal, crashes>>

\* move_to_next_epoch, its first part: narwhal is shut down.
ShutdownNarwhal(v) ==
    /\ task[v] = "notified"
    /\ narwhal' = [narwhal EXCEPT ![v].running = FALSE]
    /\ task' = [task EXCEPT ![v] = "starting"]
    /\ UNCHANGED <<durable, channel, crashes>>

\* Execution::handle_consensus_output: an output of another epoch is skipped,
\* an output of this one waits for room in the channel.
HandleConsensusOutput(v) ==
    /\ narwhal[v].running
    /\ narwhal[v].next <= SubDags
    /\ \/ /\ EpochOf[narwhal[v].session] = EpochOf[session[v]]
          /\ Len(channel[v]) < MaxChannel
          /\ channel' = [channel EXCEPT ![v] =
               Append(@, [session |-> narwhal[v].session, index |-> narwhal[v].next])]
       \/ /\ EpochOf[narwhal[v].session] # EpochOf[session[v]]
          /\ UNCHANGED channel
    /\ narwhal' = [narwhal EXCEPT ![v].next = @ + 1,
                      ![v].ordered = IF @ < narwhal[v].next THEN narwhal[v].next ELSE @]
    /\ UNCHANGED <<durable, task, crashes>>

\* Whether a block ends the session it is executed in.
EndsSession(b, s) == b.session = s /\ b.index = EndIndex[s] /\ s < MaxSession

\* Mutation: the index is kept when a new session starts.
StoredIndexKept(b, s) == b.index

\* set_last_block: a new committee starts with sub-dag 0.
StoredIndex(b, s) == IF EndsSession(b, s) THEN 0 ELSE b.index

\* notify_waiters wakes the consensus task only if it waits.
Notify(v) == [task EXCEPT ![v] = IF @ = "waiting" THEN "notified" ELSE @]

\* The worker's handle_consensus_output.
ExecuteOutput(v) ==
    /\ channel[v] # << >>
    /\ v \in Members[session[v]]
    /\ LET b == Head(channel[v])
           s == session[v]
       IN  /\ vlog' = [vlog EXCEPT ![v] = Append(@, [batch |-> b, at |-> s])]
           /\ sub_dag' = [sub_dag EXCEPT ![v] = StoredIndex(b, s)]
           /\ session' = [session EXCEPT ![v] = IF EndsSession(b, s) THEN s + 1 ELSE s]
           /\ task' = IF EndsSession(b, s) THEN Notify(v) ELSE task
    /\ channel' = [channel EXCEPT ![v] = Tail(@)]
    /\ UNCHANGED <<narwhal, crashes>>

\* Output that reaches a node which left the committee is dropped.
DropOutput(v) ==
    /\ channel[v] # << >>
    /\ v \notin Members[session[v]]
    /\ channel' = [channel EXCEPT ![v] = Tail(@)]
    /\ UNCHANGED <<durable, narwhal, task, crashes>>

\* The node stops and starts again with what the application stored.
Crash(v) ==
    /\ crashes < MaxCrashes
    /\ crashes' = crashes + 1
    /\ channel' = [channel EXCEPT ![v] = << >>]
    /\ narwhal' = [narwhal EXCEPT ![v].running = FALSE]
    /\ task' = [task EXCEPT ![v] = "starting"]
    /\ UNCHANGED durable

-----------------------------------------------------------------------------
TaskStep(v) == StartNarwhal(v) \/ AwaitReconfigure(v) \/ ShutdownNarwhal(v)
ValidatorStep(v) == ExecuteOutput(v) \/ DropOutput(v)

ValidatorNext ==
    \E v \in Validators :
      TaskStep(v) \/ HandleConsensusOutput(v) \/ ValidatorStep(v) \/ Crash(v)

ValidatorSpec == ValidatorInit /\ [][ValidatorNext]_validatorVars

\* The consensus task and the worker are scheduled, and narwhal delivers what
\* it ordered.
FairValidatorSpec ==
    /\ ValidatorSpec
    /\ \A v \in Validators :
         /\ WF_validatorVars(TaskStep(v))
         /\ WF_validatorVars(HandleConsensusOutput(v))
         /\ WF_validatorVars(ValidatorStep(v))

-----------------------------------------------------------------------------
ValidatorTypeOK ==
    /\ session \in [Validators -> Sessions]
    /\ sub_dag \in [Validators -> 0 .. SubDags]
    /\ vlog \in [Validators -> Seq([batch : OutputBatch, at : Sessions])]
    /\ channel \in [Validators -> Seq(OutputBatch)]
    /\ \A v \in Validators : Len(channel[v]) <= MaxChannel
    /\ narwhal \in [Validators -> Narwhal]
    /\ task \in [Validators -> {"starting", "started", "waiting", "notified"}]
    /\ crashes \in 0 .. MaxCrashes

\* No sub-dag is executed twice: not when narwhal repeats what was in the
\* channel at a crash, not when outputs are still queued as the committee
\* changes, not when the indices start again.
ExecutedOnce ==
    \A v \in Validators : \A i, j \in 1 .. Len(vlog[v]) :
      vlog[v][i].batch = vlog[v][j].batch => i = j

\* The validator has only executed blocks in the session that ordered them.
InSession(v) ==
    \A i \in 1 .. Len(vlog[v]) : vlog[v][i].batch.session = vlog[v][i].at

\* Validators that executed every block in the session that ordered it agree on
\* the chain, whatever crashes and queued outputs each of them had: of two, one
\* executed a prefix of what the other did, without gaps.
Agreement ==
    \A v, w \in Validators :
      InSession(v) /\ InSession(w) =>
        \A i \in 1 .. Len(vlog[v]) : i <= Len(vlog[w]) => vlog[v][i] = vlog[w][i]

-----------------------------------------------------------------------------
(* Why they hold: the parts of the inductive invariant. *)

\* The order in which narwhal outputs sub-dags.
Before(a, b) == \/ a.session < b.session
                \/ a.session = b.session /\ a.index < b.index

\* What the running instance outputs next.
NextOutput(v) == [session |-> narwhal[v].session, index |-> narwhal[v].next]

\* What was executed, what waits in the channel and what comes next are in the
\* order of narwhal's output, whatever was repeated or is left from an old session.
OutputsInOrder(v) ==
    /\ \A i, j \in 1 .. Len(vlog[v]) :
         i < j => Before(vlog[v][i].batch, vlog[v][j].batch)
    /\ \A i, j \in 1 .. Len(channel[v]) : i < j => Before(channel[v][i], channel[v][j])
    /\ \A i \in 1 .. Len(vlog[v]), j \in 1 .. Len(channel[v]) :
         Before(vlog[v][i].batch, channel[v][j])
    /\ narwhal[v].running =>
         /\ \A i \in 1 .. Len(vlog[v]) : Before(vlog[v][i].batch, NextOutput(v))
         /\ \A i \in 1 .. Len(channel[v]) : Before(channel[v][i], NextOutput(v))

\* A sub-dag narwhal has in its store, or of a session before it.
InStore(b, v) == \/ b.session < narwhal[v].session
                 \/ b.session = narwhal[v].session /\ b.index <= narwhal[v].ordered

\* The store is never ahead of the application's session, and what was output is
\* in it: a new instance does not count a sub-dag again.
StoreIsKept(v) ==
    /\ narwhal[v].session <= session[v]
    /\ \A i \in 1 .. Len(vlog[v]) : InStore(vlog[v][i].batch, v)
    /\ \A i \in 1 .. Len(channel[v]) :
         InStore(channel[v][i], v) /\ v \in Members[channel[v][i].session]
    /\ narwhal[v].running => v \in Members[narwhal[v].session]

\* Narwhal is started when none runs, and only a new session finds outputs in
\* the channel.
StartsClean(v) ==
    /\ task[v] = "starting" =>
         /\ ~narwhal[v].running
         /\ narwhal[v].session < session[v] \/ channel[v] = << >>
    /\ task[v] = "notified" => narwhal[v].session < session[v]

\* The stored index is not below a sub-dag executed in the current session: the
\* instance started after a crash repeats none.
IndexNotBehind(v) ==
    \A i \in 1 .. Len(vlog[v]) :
      vlog[v][i].batch.session = session[v] => vlog[v][i].batch.index <= sub_dag[v]

\* The block that follows a block executed in its own session.
Follows(entry) ==
    IF EndsSession(entry.batch, entry.at)
    THEN [batch |-> [session |-> entry.at + 1, index |-> 1], at |-> entry.at + 1]
    ELSE [batch |-> [session |-> entry.at, index |-> entry.batch.index + 1],
          at |-> entry.at]

\* The block that follows all the blocks the validator executed.
ChainPosition(v) ==
    IF vlog[v] = << >> THEN [batch |-> [session |-> 0, index |-> 1], at |-> 0]
    ELSE Follows(vlog[v][Len(vlog[v])])

\* A validator that executed every block in its session has no gap in its log,
\* stored where it ends, and the outputs of the session, queued or to come, go on
\* from there.
NoGaps(v) ==
    InSession(v) =>
      /\ \A i \in 1 .. Len(vlog[v]) :
           vlog[v][i] = IF i = 1 THEN [batch |-> [session |-> 0, index |-> 1], at |-> 0]
                        ELSE Follows(vlog[v][i - 1])
      /\ ChainPosition(v) = [batch |-> [session |-> session[v], index |-> sub_dag[v] + 1],
                             at |-> session[v]]
      /\ narwhal[v].session < session[v] => sub_dag[v] = 0
      /\ narwhal[v].session = session[v] => sub_dag[v] <= narwhal[v].ordered
      /\ /\ narwhal[v].session = session[v]
         /\ channel[v] # << >> => channel[v][1].session = session[v]
         => /\ \A j \in 1 .. Len(channel[v]) :
                 channel[v][j] = [session |-> session[v], index |-> sub_dag[v] + j]
            /\ narwhal[v].running => narwhal[v].next = sub_dag[v] + Len(channel[v]) + 1

\* What each validator keeps to on its own.
OrderKept(v) ==
    OutputsInOrder(v) /\ StoreIsKept(v) /\ StartsClean(v) /\ IndexNotBehind(v) /\ NoGaps(v)

\* Validators execute one chain, each sub-dag once, over crashes, queued outputs
\* and changes of the committee.
ValidatorInv ==
    /\ ValidatorTypeOK /\ ExecutedOnce /\ Agreement
    /\ \A v \in Validators : OrderKept(v)

\* "Skip over the ones that have a different epoch": what narwhal ordered in one
\* epoch is not executed in another.
OtherEpochsSkipped ==
    \A v \in Validators : \A i \in 1 .. Len(vlog[v]) :
      EpochOf[vlog[v][i].batch.session] = EpochOf[vlog[v][i].at]

\* Every member of the first committee gets to the end of the first session,
\* also when it crashes on the way and narwhal repeats its output.
SessionEnds ==
    \A v \in Members[0] : session[v] = 0 ~> session[v] > 0
=============================================================================
