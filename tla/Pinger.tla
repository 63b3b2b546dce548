------------------------------- MODULE Pinger -------------------------------
(***************************************************************************)
(* The pinger (core/pinger): active nodes are pinged in turn over UDP, and *)
(* a ping is reported with its latency or, after a timeout, as unanswered. *)
(*                                                                         *)
(* Abstractions: the round-trip time is left out; datagrams are lost,      *)
(* repeated and delayed by a set they stay in; an id is random out of few. *)
(***************************************************************************)
EXTENDS Naturals, Sequences, FiniteSets, Functions, SequencesExt

CONSTANTS PingedNodes, PingIds,
          Registries,   \* sets of active nodes the chain goes through
          MaxPings,     \* bound on pings
          MaxRegistries \* bound on changes of the registry

ASSUME PingerAssumption ==
    /\ Registries \subseteq SUBSET PingedNodes
    /\ IsFiniteSet(PingedNodes) /\ MaxPings \in Nat /\ MaxRegistries \in Nat

VARIABLES pinging,       \* whether the loop runs
          node_registry, cursor,
          pending_req,   \* pings without an answer
          timers,        \* timeout tasks, by the key they will send
          timed_out,      \* the channel of the tasks that slept
          datagrams,     \* requests and responses on the network
          pings,         \* pings sent, and reports made, per node
          answered, unanswered,
          registries

pingerVars == <<pinging, node_registry, cursor, pending_req, timers, timed_out, datagrams,
                pings, answered, unanswered, registries>>

Zeros == [n \in PingedNodes |-> 0]

\* get_node_registry: the active nodes, shuffled.
Shuffles(S) == {s \in [1 .. Cardinality(S) -> S] : Cardinality(ToSet(s)) = Cardinality(S)}

PingerInit ==
    /\ \E S \in Registries : node_registry \in Shuffles(S)
    /\ pinging = TRUE /\ cursor = 0
    /\ pending_req = {} /\ timers = <<>> /\ timed_out = <<>> /\ datagrams = {}
    /\ pings = Zeros /\ answered = Zeros /\ unanswered = Zeros
    /\ registries = 0

\* The interval: the next node gets a ping, and its timeout a task.
NextNode(n) ==
    /\ pinging /\ cursor < Len(node_registry) /\ n = node_registry[cursor + 1]
    /\ FoldFunction(+, 0, pings) < MaxPings
    /\ cursor' = (cursor + 1) % Len(node_registry)

Tick(n, id) ==
    /\ NextNode(n)
    /\ datagrams' = datagrams \cup {[type |-> "request", node |-> n, id |-> id]}
    /\ pending_req' = pending_req \cup {<<n, id>>}
    /\ timers' = Append(timers, <<n, id>>)
    /\ pings' = [pings EXCEPT ![n] = @ + 1]
    /\ UNCHANGED <<pinging, node_registry, timed_out, answered, unanswered, registries>>

\* The chain does not know the node any more, or the ping could not be sent.
TickUnsent(n) ==
    /\ NextNode(n)
    /\ UNCHANGED <<pinging, node_registry, pending_req, timers, timed_out, datagrams, pings,
                   answered, unanswered, registries>>

\* There is no node at the cursor: the loop ends in a panic.
TickPanics ==
    /\ pinging /\ cursor >= Len(node_registry)
    /\ pinging' = FALSE
    /\ UNCHANGED <<node_registry, cursor, pending_req, timers, timed_out, datagrams, pings,
                   answered, unanswered, registries>>

\* The pinged node answers under its own index, each time it is asked.
RespondToPing(d) ==
    /\ d \in datagrams /\ d.type = "request"
    /\ datagrams' = datagrams \cup {[d EXCEPT !.type = "response"]}
    /\ UNCHANGED <<pinging, node_registry, cursor, pending_req, timers, timed_out, pings,
                   answered, unanswered, registries>>

\* Mutation: an answer leaves the request pending.
AnswerKeepsPending(d) ==
    /\ pinging /\ d \in datagrams /\ d.type = "response"
    /\ <<d.node, d.id>> \in pending_req /\ answered[d.node] < pings[d.node]
    /\ answered' = [answered EXCEPT ![d.node] = @ + 1]
    /\ UNCHANGED <<pinging, node_registry, cursor, pending_req, timers, timed_out, datagrams,
                   pings, unanswered, registries>>

\* A response counts when the request is pending; a late or repeated one does not.
ReceivePong(d) ==
    /\ pinging /\ d \in datagrams /\ d.type = "response"
    /\ <<d.node, d.id>> \in pending_req
    /\ pending_req' = pending_req \ {<<d.node, d.id>>}
    /\ answered' = [answered EXCEPT ![d.node] = @ + 1]
    /\ UNCHANGED <<pinging, node_registry, cursor, timers, timed_out, datagrams, pings,
                   unanswered, registries>>

\* A task has slept for the timeout, a parameter of the chain that may change.
TimerFires(i) ==
    /\ timers' = RemoveAt(timers, i)
    /\ timed_out' = Append(timed_out, timers[i])
    /\ UNCHANGED <<pinging, node_registry, cursor, pending_req, datagrams, pings,
                   answered, unanswered, registries>>

HandleTimeout ==
    /\ pinging /\ timed_out # <<>>
    /\ timed_out' = Tail(timed_out)
    /\ pending_req' = pending_req \ {Head(timed_out)}
    /\ unanswered' = IF Head(timed_out) \in pending_req
                     THEN [unanswered EXCEPT ![Head(timed_out)[1]] = @ + 1] ELSE unanswered
    /\ UNCHANGED <<pinging, node_registry, cursor, timers, datagrams, pings, answered, registries>>

\* Mutation: the cursor stays where it was.
CursorStays(S) ==
    /\ node_registry' \in Shuffles(S)
    /\ UNCHANGED cursor

\* The registry is read again and the cursor starts over.
ReadRegistry(S) ==
    /\ node_registry' \in Shuffles(S)
    /\ cursor' = 0

\* A new epoch, or a block that changed the node registry.
RegistryChanges(S) ==
    /\ pinging /\ registries < MaxRegistries
    /\ registries' = registries + 1
    /\ ReadRegistry(S)
    /\ UNCHANGED <<pinging, pending_req, timers, timed_out, datagrams, pings, answered, unanswered>>

PingerNext ==
    \/ \E n \in PingedNodes : TickUnsent(n) \/ \E id \in PingIds : Tick(n, id)
    \/ TickPanics
    \/ \E d \in datagrams : RespondToPing(d) \/ ReceivePong(d)
    \/ \E i \in DOMAIN timers : TimerFires(i)
    \/ HandleTimeout
    \/ \E S \in Registries : RegistryChanges(S)

PingerSpec == PingerInit /\ [][PingerNext]_pingerVars

-----------------------------------------------------------------------------
PingerTypeOK ==
    /\ pinging \in BOOLEAN /\ node_registry \in Seq(PingedNodes) /\ cursor \in Nat
    /\ pending_req \subseteq PingedNodes \X PingIds /\ IsFiniteSet(pending_req)
    /\ timers \in Seq(PingedNodes \X PingIds) /\ timed_out \in Seq(PingedNodes \X PingIds)
    /\ datagrams \subseteq [type : {"request", "response"}, node : PingedNodes, id : PingIds]
    /\ pings \in [PingedNodes -> Nat]
    /\ answered \in [PingedNodes -> Nat] /\ unanswered \in [PingedNodes -> Nat]

\* Each pending ping has a timeout under way, so that it is reported in the end,
\* also when its id was drawn before.
PendingHasTimer == pending_req \subseteq ToSet(timers) \cup ToSet(timed_out)

\* A ping is reported at most once, as answered or as unanswered.
ReportedOnce ==
    \A n \in PingedNodes :
        answered[n] + unanswered[n] + Cardinality({k \in pending_req : k[1] = n}) <= pings[n]

\* The cursor names a node, whatever registries are read between the intervals, and only
\* a registry without active nodes ends the loop.
CursorNamesNode ==
    IF node_registry = <<>> THEN cursor = 0 ELSE pinging /\ cursor < Len(node_registry)

\* Pings are reported once and the cursor names a node.
PingerInv == PingerTypeOK /\ CursorNamesNode /\ PendingHasTimer /\ ReportedOnce
=============================================================================
