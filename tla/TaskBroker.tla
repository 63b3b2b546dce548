----------------------------- MODULE TaskBroker -----------------------------
(***************************************************************************)
(* The task broker (core/task-broker): a node runs tasks of its services   *)
(* locally, on one peer of its cluster, or on all of them, and runs tasks  *)
(* for its peers.                                                          *)
(*                                                                         *)
(* Abstractions: a task is a name, a response its payload; reputation      *)
(* reports of one call are a set of peers and weights.  A permit of either *)
(* semaphore is a temporary of the statement that acquires it, so that     *)
(* acquiring it is no step and holds nobody up.                            *)
(***************************************************************************)
EXTENDS Naturals, Sequences, FiniteSets, Functions

CONSTANTS Tasks,        \* calls of run and requests of peers
          ClusterPeers, \* the nodes of the first cluster of the topology
          Payloads,
          max_depth,
          NoPayload

ASSUME TaskAssumption ==
    /\ max_depth \in Nat /\ IsFiniteSet(ClusterPeers) /\ NoPayload \notin Payloads

VARIABLES task,       \* the calls and requests
          unsat, sat  \* reputation reports, by task

taskVars == <<task, unsat, sat>>

NoTask == [st |-> "none", scope |-> "local", depth |-> 0, order |-> <<>>, asked |-> {},
         answers |-> [p \in {} |-> NoPayload], failed |-> {}, result |-> "none"]

TaskInit ==
    /\ task = [t \in Tasks |-> NoTask]
    /\ unsat = [t \in Tasks |-> {}] /\ sat = [t \in Tasks |-> {}]

Orders == {s \in [1 .. Cardinality(ClusterPeers) -> ClusterPeers] : IsInjective(s)}

MinAgreeing == (2 * Cardinality(ClusterPeers) + 2) \div 3

\* run: the depth is checked, then the scope decides.  A single task asks the
\* peers in a random order, a cluster task all of them at once.
Run(t, depth, scope) ==
    /\ task[t].st = "none"
    /\ \E order \in Orders :
         task' = [task EXCEPT ![t] =
           LET call == [@ EXCEPT !.depth = depth, !.scope = scope] IN
           IF depth > max_depth THEN [call EXCEPT !.st = "returned", !.result = "max depth"]
           ELSE IF scope = "local" THEN [call EXCEPT !.st = "executing"]
           ELSE IF ClusterPeers = {} THEN [call EXCEPT !.st = "returned", !.result = "error"]
           ELSE IF scope = "single"
                THEN [call EXCEPT !.st = "waiting", !.order = order, !.asked = {order[1]}]
                ELSE [call EXCEPT !.st = "waiting", !.asked = ClusterPeers]]
    /\ UNCHANGED <<unsat, sat>>

\* A connection of a service starts a call, a task that executes one below itself.
StartTask(t, scope) ==
    \/ Run(t, 0, scope)
    \/ \E s \in Tasks : task[s].st = "executing" /\ Run(t, task[s].depth + 1, scope)

\* handle_incoming_pool_task: a peer's task executes at depth 0; a request that
\* does not decode is held against the peer.
ReceiveTask(t, p) ==
    /\ task[t].st = "none"
    /\ \/ /\ task' = [task EXCEPT ![t].st = "executing", ![t].scope = "peer"]
          /\ UNCHANGED unsat
       \/ /\ task' = [task EXCEPT ![t].st = "returned", ![t].scope = "peer",
                                  ![t].result = "error"]
          /\ unsat' = [unsat EXCEPT ![t] = @ \cup {<<p, "weak">>}]
    /\ UNCHANGED sat

\* The local worker: the service cannot be connected to, or streams its payload.
Execute(t) ==
    /\ task[t].st = "executing"
    /\ \E r \in {"ok", "error"} :
         task' = [task EXCEPT ![t].st = "returned", ![t].result = r]
    /\ UNCHANGED <<unsat, sat>>

Agreeing(answers, v) == {p \in DOMAIN answers : answers[p] = v}

\* Mutation: answers count, whatever they say.
CountAnswers(answers, v) == Cardinality(DOMAIN answers) >= MinAgreeing

HasConsensus(answers, v) == Cardinality(Agreeing(answers, v)) >= MinAgreeing

\* What a cluster task returns after an answer or an error: the agreeing answers,
\* or, when nobody is left, the errors.
ClusterResult(call, v) ==
    IF v # NoPayload /\ HasConsensus(call.answers, v)
    THEN [call EXCEPT !.st = "returned", !.result = "ok",
                      !.answers = Restrict(@, Agreeing(@, v))]
    ELSE IF call.asked = {} THEN [call EXCEPT !.st = "returned", !.result = "error"]
    ELSE call

\* A peer's response is read to its end and decodes.
PeerAnswers(t, p, v) ==
    LET call == [task[t] EXCEPT !.asked = @ \ {p},
                                !.answers = [q \in DOMAIN @ \cup {p} |-> IF q = p THEN v ELSE @[q]]]
    IN /\ task[t].st = "waiting" /\ p \in task[t].asked
       /\ IF task[t].scope = "single"
          THEN /\ task' = [task EXCEPT ![t] = [call EXCEPT !.st = "returned", !.result = "ok"]]
               /\ sat' = [sat EXCEPT ![t] = @ \cup {<<p, "weak">>}]
          ELSE task' = [task EXCEPT ![t] = ClusterResult(call, v)] /\ UNCHANGED sat
       /\ UNCHANGED unsat

\* Mutation: the first peer that fails ends a single task.
NoFallback(call) == [call EXCEPT !.st = "returned", !.result = "error"]

\* The next peer of a single task.
Fallback(call) ==
    LET n == Cardinality(call.failed) + 1
    IN IF n > Len(call.order) THEN [call EXCEPT !.st = "returned", !.result = "error"]
       ELSE [call EXCEPT !.asked = {call.order[n]}]

\* The peer is not connected, disconnects or sends what does not decode (weak), or
\* the request times out (strong).
PeerFailsTask(t, p, weight) ==
    LET call == [task[t] EXCEPT !.asked = @ \ {p}, !.failed = @ \cup {p}]
    IN /\ task[t].st = "waiting" /\ p \in task[t].asked
       /\ task' = [task EXCEPT ![t] = IF call.scope = "single" THEN Fallback(call)
                                      ELSE ClusterResult(call, NoPayload)]
       /\ unsat' = [unsat EXCEPT ![t] = @ \cup {<<p, weight>>}]
       /\ UNCHANGED sat

TaskNext ==
    \E t \in Tasks :
        \/ \E scope \in {"local", "single", "cluster"} : StartTask(t, scope)
        \/ Execute(t)
        \/ \E p \in ClusterPeers :
             \/ ReceiveTask(t, p)
             \/ \E v \in Payloads : PeerAnswers(t, p, v)
             \/ \E weight \in {"weak", "strong"} : PeerFailsTask(t, p, weight)

TaskSpec == TaskInit /\ [][TaskNext]_taskVars

-----------------------------------------------------------------------------
Answers == UNION {[peers -> Payloads] : peers \in SUBSET ClusterPeers}
Blames == SUBSET (ClusterPeers \X {"weak", "strong"})

TaskTypeOK ==
    /\ task \in [Tasks -> [st : {"none", "executing", "waiting", "returned"},
                           scope : {"local", "single", "cluster", "peer"}, depth : Nat,
                           order : Seq(ClusterPeers), asked : SUBSET ClusterPeers,
                           answers : Answers, failed : SUBSET ClusterPeers,
                           result : {"none", "ok", "error", "max depth"}]]
    /\ unsat \in [Tasks -> Blames] /\ sat \in [Tasks -> Blames]

\* A single task that waits asked the peers of its order one by one, and all before
\* the one it asks have failed.
AsksInOrder(c) ==
    LET k == Cardinality(c.failed)
    IN /\ c.order \in Orders /\ k < Len(c.order)
       /\ c.failed = {c.order[i] : i \in 1 .. k} /\ c.asked = {c.order[k + 1]}
       /\ DOMAIN c.answers = {}

\* A cluster task that waits has asked everyone once, waits for someone, and no payload
\* has enough answers yet.
AsksTheCluster(c) ==
    /\ c.asked \cup c.failed \cup DOMAIN c.answers = ClusterPeers
    /\ c.asked \cap (c.failed \cup DOMAIN c.answers) = {} /\ c.asked # {}
    /\ \A v \in Payloads : ~HasConsensus(c.answers, v)

\* What a call has done when it waits, executes or has not begun.
CallsUnderWay ==
    \A t \in Tasks :
        LET c == task[t]
        IN /\ c.st = "none" => c = NoTask
           /\ c.st = "executing" => c.scope \in {"local", "peer"}
           /\ c.st = "waiting" => \/ c.scope = "single" /\ AsksInOrder(c)
                                  \/ c.scope = "cluster" /\ AsksTheCluster(c)

\* What a cluster task returns as successful is one payload that two thirds of the
\* cluster sent; it returns errors only when no payload could still get there, or
\* there is no cluster.
ClusterAgrees ==
    \A t \in Tasks :
        LET c == task[t]
        IN c.scope = "cluster" /\ c.st = "returned" /\ c.result # "max depth" =>
             IF c.result = "ok"
             THEN /\ \A p, q \in DOMAIN c.answers : c.answers[p] = c.answers[q]
                  /\ 3 * Cardinality(DOMAIN c.answers) >= 2 * Cardinality(ClusterPeers)
             ELSE \A v \in Payloads :
                    \/ ClusterPeers = {}
                    \/ 3 * Cardinality(Agreeing(c.answers, v)) < 2 * Cardinality(ClusterPeers)

\* A single task gives up only when every peer of the cluster has failed, and asks
\* nobody after it was answered.
SingleTriesAll ==
    \A t \in Tasks :
        LET c == task[t]
        IN c.scope = "single" /\ c.st = "returned" =>
             /\ c.result = "error" => c.failed = ClusterPeers
             /\ c.result = "ok" => Cardinality(DOMAIN c.answers) = 1 /\ c.asked = {}

\* A peer is held to have failed once per request, and as having served only by
\* the single task it answered.
ReportsMatch ==
    \A t \in Tasks :
        /\ task[t].scope # "peer" =>
             {r[1] : r \in unsat[t]} = task[t].failed /\ Cardinality(unsat[t]) = Cardinality(task[t].failed)
        /\ {r[1] : r \in sat[t]} = IF task[t].scope = "single" THEN DOMAIN task[t].answers ELSE {}

\* Tasks of a cluster agree, single tasks fall back, and peers are held to what they did.
TaskInv == TaskTypeOK /\ CallsUnderWay /\ ClusterAgrees /\ SingleTriesAll /\ ReportsMatch
=============================================================================
