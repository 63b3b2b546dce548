-------------------------------- MODULE Pool --------------------------------
(***************************************************************************)
(* The connection pool of a node (core/pool).  The event receiver keeps    *)
(* the logical pool: the peers it wants, by topology or because a request  *)
(* pinned them.  The endpoint keeps the transport connections, the dials   *)
(* in progress and the requests that wait for a connection.  Each sends to *)
(* the other through spawned tasks, so two messages may change places.     *)
(*                                                                         *)
(* Abstractions: broadcasts and statistics are left out; a dial or a       *)
(* connection is a number; the chain may refuse any connection; delays of  *)
(* a retry take any time.                                                  *)
(***************************************************************************)
EXTENDS Naturals, FiniteSets, Functions

CONSTANTS PoolPeers,
          DialedPeers,     \* peers with an index below ours: we dial them
          Topologies,      \* sets of peers the topology may give us
          Requests,        \* requests of this node's services
          Dst,             \* Requests -> PoolPeers
          MaxTopologies,   \* topology changes explored
          MaxDials,        \* dials and accepted connections explored
          MaxFaults        \* failed dials, refused and closed connections explored

ASSUME PoolAssumption ==
    /\ IsFiniteSet(PoolPeers) /\ DialedPeers \subseteq PoolPeers
    /\ Topologies \subseteq SUBSET PoolPeers
    /\ Dst \in [Requests -> PoolPeers]
    /\ MaxTopologies \in Nat /\ MaxDials \in Nat /\ MaxFaults \in Nat

VARIABLES topology, logical,      \* peer -> [pinned, from_topology]
          ep_tasks,               \* EndpointTasks on their way
          ev_new, ev_ended,       \* events on their way, counted for each peer
          dials,                  \* [peer, n, st]: dials and accepted connections
          pending_dial,           \* peer -> n
          refused,                \* peers whose last connection was refused, with no
                                  \* dial since: nothing answers their requests
          pool, redundant_pool,   \* peer -> n
          open_conns,             \* [peer, n]: connection loops that run
          finished,               \* [peer, n]: loops that ended, not yet collected
          connection_buffer,      \* connections to drop after the grace period
          request,                \* request -> "new", "sent", "waiting" or "ended"
          changes, next_conn, faults

epVars == <<dials, pending_dial, refused, pool, redundant_pool, open_conns, finished,
            connection_buffer, next_conn>>
evVars == <<topology, logical, changes>>
poolVars == <<evVars, ep_tasks, ev_new, ev_ended, epVars, request, faults>>

PutAt(f, x, v) == [y \in DOMAIN f \cup {x} |-> IF y = x THEN v ELSE f[y]]
Minus(f, S) == Restrict(f, DOMAIN f \ S)

PoolInit ==
    /\ topology = {} /\ logical = <<>>
    /\ ep_tasks = {}
    /\ ev_new = [p \in PoolPeers |-> 0] /\ ev_ended = [p \in PoolPeers |-> 0]
    /\ dials = {} /\ pending_dial = <<>> /\ refused = {}
    /\ pool = <<>> /\ redundant_pool = <<>>
    /\ open_conns = {} /\ finished = {} /\ connection_buffer = {}
    /\ request = [r \in Requests |-> "new"]
    /\ changes = 0 /\ next_conn = 0 /\ faults = 0

-----------------------------------------------------------------------------
(* The event receiver and the logical pool.                                *)

pin_connection(lp, p) ==
    IF p \in DOMAIN lp THEN [lp EXCEPT ![p].pinned = TRUE]
    ELSE PutAt(lp, p, [pinned |-> TRUE, from_topology |-> FALSE])

\* update_connections keeps pinned peers, and never takes from_topology back.
UpdateConnections(peers) ==
    /\ changes < MaxTopologies
    /\ changes' = changes + 1
    /\ topology' = peers
    /\ LET kept == {p \in DOMAIN logical : p \in peers \/ logical[p].pinned}
           lp == [p \in kept \cup peers |->
                    [pinned |-> p \in DOMAIN logical /\ logical[p].pinned,
                     from_topology |-> \/ p \in peers
                                       \/ p \in DOMAIN logical /\ logical[p].from_topology]]
       IN /\ logical' = lp
          /\ ep_tasks' = ep_tasks \cup
               {[kind |-> "update", n |-> changes, keep |-> DOMAIN lp,
                 drop |-> DOMAIN logical \ kept]}
    /\ UNCHANGED <<ev_new, ev_ended, epVars, request, faults>>

PoolRequest(r) ==
    /\ request[r] = "new"
    /\ logical' = pin_connection(logical, Dst[r])
    /\ ep_tasks' = ep_tasks \cup {[kind |-> "request", r |-> r]}
    /\ request' = [request EXCEPT ![r] = "sent"]
    /\ UNCHANGED <<topology, changes, ev_new, ev_ended, epVars, faults>>

\* A request of a peer, over any connection with it, pins the connection.
RequestReceived(p) ==
    /\ \E c \in open_conns : c.peer = p
    /\ logical' = pin_connection(logical, p)
    /\ UNCHANGED <<topology, changes, ep_tasks, ev_new, ev_ended, epVars, request, faults>>

HandleNewConnection(p) ==
    /\ ev_new[p] > 0
    /\ ev_new' = [ev_new EXCEPT ![p] = @ - 1]
    /\ logical' = IF p \in DOMAIN logical THEN logical ELSE pin_connection(logical, p)
    /\ UNCHANGED <<topology, changes, ep_tasks, ev_ended, epVars, request, faults>>

clean(p) ==
    CASE p \in DOMAIN logical /\ ~logical[p].from_topology /\ logical[p].pinned ->
           Minus(logical, {p})
      [] p \in DOMAIN logical /\ logical[p].from_topology ->
           [logical EXCEPT ![p].pinned = FALSE]
      [] OTHER -> logical

\* Mutation: the peer is not dialed again.
NoRetry(p) == {}

RetryTask(p) ==
    IF p \in DOMAIN logical /\ logical[p].from_topology
    THEN {[kind |-> "add", peer |-> p]} ELSE {}

HandleClosedConnection(p) ==
    /\ ev_ended[p] > 0
    /\ ev_ended' = [ev_ended EXCEPT ![p] = @ - 1]
    /\ ep_tasks' = ep_tasks \cup RetryTask(p)
    /\ logical' = clean(p)
    /\ UNCHANGED <<topology, changes, ev_new, epVars, request, faults>>

-----------------------------------------------------------------------------
(* The endpoint.                                                           *)

\* enqueue_dial_task for the peers that have no dial in progress.
Dial(peers, ds, pd) ==
    LET new == peers \ DOMAIN pd
    IN /\ next_conn + Cardinality(new) <= MaxDials
       /\ \E order \in Bijection(new, next_conn + 1 .. next_conn + Cardinality(new)) :
            /\ dials' = ds \cup {[peer |-> p, n |-> order[p], st |-> "dialing"] : p \in new}
            /\ pending_dial' = [p \in DOMAIN pd \cup new |->
                                  IF p \in new THEN order[p] ELSE pd[p]]
       /\ next_conn' = next_conn + Cardinality(new)
       /\ refused' = refused \ new

\* cancel_dial: a dial that has not connected fails.
Cancelled(peers) ==
    {IF /\ d.st = "dialing" /\ d.peer \in peers \cap DOMAIN pending_dial
        /\ pending_dial[d.peer] = d.n
     THEN [d EXCEPT !.st = "failed"] ELSE d : d \in dials}

HandleUpdate(t) ==
    /\ t.kind = "update"
    /\ ep_tasks' = ep_tasks \ {t}
    /\ LET dropped == {pool[p] : p \in t.drop \cap DOMAIN pool}
                        \cup {redundant_pool[p] : p \in t.drop \cap DOMAIN redundant_pool}
           stay == Minus(pool, t.drop)
       IN /\ pool' = stay
          /\ redundant_pool' = Minus(redundant_pool, t.drop)
          /\ connection_buffer' = connection_buffer \cup dropped
          /\ Dial((t.keep \cap DialedPeers) \ DOMAIN stay, Cancelled(t.drop),
                  Minus(pending_dial, t.drop))
    /\ UNCHANGED <<evVars, ev_new, ev_ended, open_conns, finished, request, faults>>

HandleAdd(t) ==
    /\ t.kind = "add"
    /\ ep_tasks' = ep_tasks \ {t}
    /\ Dial(({t.peer} \cap DialedPeers) \ DOMAIN pool, dials, pending_dial)
    /\ UNCHANGED <<evVars, ev_new, ev_ended, pool, redundant_pool, open_conns, finished,
                   connection_buffer, request, faults>>

\* A request goes to the connection, or waits for one: every peer is dialed.
HandleOutgoingRequest(t) ==
    /\ t.kind = "request"
    /\ ep_tasks' = ep_tasks \ {t}
    /\ IF Dst[t.r] \in DOMAIN pool
       THEN /\ request' = [request EXCEPT ![t.r] = "ended"]
            /\ UNCHANGED <<dials, pending_dial, next_conn, refused>>
       ELSE /\ request' = [request EXCEPT ![t.r] = "waiting"]
            /\ Dial({Dst[t.r]}, dials, pending_dial)
    /\ UNCHANGED <<evVars, ev_new, ev_ended, pool, redundant_pool, open_conns, finished,
                   connection_buffer, faults>>

Waiting(p) == {r \in Requests : request[r] = "waiting" /\ Dst[r] = p}

EndWaiting(p) == [r \in Requests |-> IF r \in Waiting(p) THEN "ended" ELSE request[r]]

\* The peer answers a dial, or it does not.
DialEnds(d) ==
    /\ d \in dials /\ d.st = "dialing"
    /\ \/ dials' = (dials \ {d}) \cup {[d EXCEPT !.st = "connected"]} /\ UNCHANGED faults
       \/ /\ faults < MaxFaults /\ faults' = faults + 1
          /\ dials' = (dials \ {d}) \cup {[d EXCEPT !.st = "failed"]}
    /\ UNCHANGED <<evVars, ep_tasks, ev_new, ev_ended, pending_dial, refused, pool,
                   redundant_pool, open_conns, finished, connection_buffer, next_conn,
                   request>>

\* A peer dials us.
Accept(p) ==
    /\ faults < MaxFaults /\ faults' = faults + 1
    /\ next_conn < MaxDials
    /\ next_conn' = next_conn + 1
    /\ dials' = dials \cup {[peer |-> p, n |-> next_conn + 1, st |-> "connected"]}
    /\ UNCHANGED <<evVars, ep_tasks, ev_new, ev_ended, pending_dial, refused, pool,
                   redundant_pool, open_conns, finished, connection_buffer, request>>

\* handle_new_connection returns early: no identity, too little stake, or no index.
\* The dial stays remembered, and the requests that wait for it stay.
RefuseConnection(d) ==
    LET others == {e \in dials \ {d} : e.peer = d.peer} IN
    /\ d \in dials /\ d.st = "connected"
    /\ faults < MaxFaults /\ faults' = faults + 1
    /\ dials' = dials \ {d}
    /\ refused' = IF others = {} THEN refused \cup {d.peer} ELSE refused
    /\ UNCHANGED <<evVars, ep_tasks, ev_new, ev_ended, pending_dial, pool, redundant_pool,
                   open_conns, finished, connection_buffer, next_conn, request>>

\* The rest of handle_new_connection: a third connection with a peer is closed.
NewConnection(d) ==
    LET p == d.peer IN
    /\ d \in dials /\ d.st = "connected"
    /\ dials' = Cancelled({p}) \ {d}
    /\ pending_dial' = Minus(pending_dial, {p})
    /\ refused' = refused \ {p}
    /\ IF p \in DOMAIN pool /\ p \in DOMAIN redundant_pool
       THEN UNCHANGED <<pool, redundant_pool, open_conns, request, ev_new>>
       ELSE /\ open_conns' = open_conns \cup {[peer |-> p, n |-> d.n]}
            /\ request' = EndWaiting(p)
            /\ IF p \in DOMAIN pool
               THEN redundant_pool' = PutAt(redundant_pool, p, d.n) /\ UNCHANGED pool
               ELSE pool' = PutAt(pool, p, d.n) /\ UNCHANGED redundant_pool
            /\ ev_new' = [ev_new EXCEPT ![p] = @ + 1]
    /\ UNCHANGED <<evVars, ep_tasks, ev_ended, finished, connection_buffer, next_conn, faults>>

\* Mutation: the requests that wait for the connection are forgotten.
DialFailedSilently(d) ==
    LET p == d.peer IN
    /\ d \in dials /\ d.st = "failed"
    /\ dials' = dials \ {d}
    /\ pending_dial' = Minus(pending_dial, {p})
    /\ refused' = refused \ {p}
    /\ ev_ended' = [ev_ended EXCEPT ![p] = @ + 1]
    /\ UNCHANGED <<evVars, ep_tasks, ev_new, pool, redundant_pool, open_conns, finished,
                   connection_buffer, next_conn, request, faults>>

\* The dial in progress is forgotten whichever dial failed, and the requests
\* that wait for the peer fail.
DialFailed(d) ==
    LET p == d.peer IN
    /\ d \in dials /\ d.st = "failed"
    /\ dials' = dials \ {d}
    /\ pending_dial' = Minus(pending_dial, {p})
    /\ refused' = refused \ {p}
    /\ request' = EndWaiting(p)
    /\ ev_ended' = [ev_ended EXCEPT ![p] = @ + 1]
    /\ UNCHANGED <<evVars, ep_tasks, ev_new, pool, redundant_pool, open_conns, finished,
                   connection_buffer, next_conn, faults>>

\* A loop ends when the peer closes the connection, or when its handle is gone.
HasHandle(c) ==
    \/ c.peer \in DOMAIN pool /\ pool[c.peer] = c.n
    \/ c.peer \in DOMAIN redundant_pool /\ redundant_pool[c.peer] = c.n
    \/ c.n \in connection_buffer

ConnectionEnds(c) ==
    /\ c \in open_conns
    /\ \/ ~HasHandle(c) /\ UNCHANGED faults
       \/ HasHandle(c) /\ faults < MaxFaults /\ faults' = faults + 1
    /\ open_conns' = open_conns \ {c}
    /\ finished' = finished \cup {c}
    /\ UNCHANGED <<evVars, ep_tasks, ev_new, ev_ended, dials, pending_dial, refused, pool,
                   redundant_pool, connection_buffer, next_conn, request>>

\* Mutation: the redundant connection does not take the place of the closed one.
CollectWithoutPromotion(c) ==
    [main |-> IF c.peer \in DOMAIN pool /\ pool[c.peer] = c.n
              THEN Minus(pool, {c.peer}) ELSE pool,
     redundant |-> IF c.peer \in DOMAIN redundant_pool /\ redundant_pool[c.peer] = c.n
                   THEN Minus(redundant_pool, {c.peer}) ELSE redundant_pool]

\* garbage_collect_closed_connections: a redundant connection moves up.
Collect(c) ==
    LET p == c.peer
        main == p \in DOMAIN pool /\ pool[p] = c.n
        spare == p \in DOMAIN redundant_pool
    IN [main |-> CASE main /\ spare -> [pool EXCEPT ![p] = redundant_pool[p]]
                   [] main /\ ~spare -> Minus(pool, {p})
                   [] OTHER -> pool,
        redundant |-> IF spare /\ (main \/ redundant_pool[p] = c.n)
                      THEN Minus(redundant_pool, {p}) ELSE redundant_pool]

ConnectionFinished(c) ==
    /\ c \in finished
    /\ finished' = finished \ {c}
    /\ LET left == Collect(c)
       IN /\ pool' = left.main
          /\ redundant_pool' = left.redundant
          /\ ev_ended' = IF c.peer \in DOMAIN left.main \cup DOMAIN left.redundant
                         THEN ev_ended ELSE [ev_ended EXCEPT ![c.peer] = @ + 1]
    /\ UNCHANGED <<evVars, ep_tasks, ev_new, dials, pending_dial, refused, open_conns,
                   connection_buffer, next_conn, request, faults>>

\* The grace period after an update has passed.
GracePeriodEnds ==
    /\ connection_buffer # {}
    /\ connection_buffer' = {}
    /\ UNCHANGED <<evVars, ep_tasks, ev_new, ev_ended, dials, pending_dial, refused, pool,
                   redundant_pool, open_conns, finished, next_conn, request, faults>>

EndpointStep ==
    \/ \E t \in ep_tasks : HandleUpdate(t) \/ HandleAdd(t) \/ HandleOutgoingRequest(t)
    \/ \E d \in dials : NewConnection(d) \/ DialFailed(d) \/ DialEnds(d)
    \/ \E c \in open_conns : ~HasHandle(c) /\ ConnectionEnds(c)
    \/ \E c \in finished : ConnectionFinished(c)
    \/ GracePeriodEnds

EventStep == \E p \in PoolPeers : HandleNewConnection(p) \/ HandleClosedConnection(p)

PoolNext ==
    \/ \E peers \in Topologies : UpdateConnections(peers)
    \/ \E r \in Requests : PoolRequest(r)
    \/ \E p \in PoolPeers : RequestReceived(p) \/ Accept(p)
    \/ \E c \in open_conns : HasHandle(c) /\ ConnectionEnds(c)
    \/ \E d \in dials : RefuseConnection(d)
    \/ EventStep
    \/ EndpointStep

PoolSpec == PoolInit /\ [][PoolNext]_poolVars

\* Both loops and the tasks they spawn are scheduled; a dial ends by a timeout.
FairPoolSpec == PoolSpec /\ WF_poolVars(EndpointStep) /\ WF_poolVars(EventStep)

-----------------------------------------------------------------------------
Connections == [peer : PoolPeers, n : 1 .. next_conn]
Entries == [pinned : BOOLEAN, from_topology : BOOLEAN]

\* f maps some peers to values of T.
PartlyTo(f, T) == DOMAIN f \subseteq PoolPeers /\ f \in [DOMAIN f -> T]

PoolTypeOK ==
    /\ next_conn \in Nat /\ PartlyTo(logical, Entries)
    /\ \A p \in DOMAIN logical : logical[p].pinned \/ logical[p].from_topology
    /\ \A t \in ep_tasks : /\ t.kind = "update" => t.keep \subseteq PoolPeers
                           /\ t.kind = "add" => t.peer \in PoolPeers
                           /\ t.kind = "request" => t.r \in Requests
    /\ dials \subseteq [peer : PoolPeers, n : 1 .. next_conn,
                       st : {"dialing", "connected", "failed"}]
    /\ PartlyTo(pending_dial, 1 .. next_conn) /\ refused \subseteq PoolPeers
    /\ PartlyTo(pool, 1 .. next_conn) /\ PartlyTo(redundant_pool, 1 .. next_conn)
    /\ open_conns \subseteq Connections /\ finished \subseteq Connections
    /\ request \in [Requests -> {"new", "sent", "waiting", "ended"}]

\* The connections whose loop runs, or ended and was not collected.
Loops == open_conns \cup finished

\* A number is of one dial or of one connection, which has not ended while it runs.
NumbersDiffer ==
    /\ \A d, e \in dials : d.n = e.n => d = e
    /\ \A c, e \in Loops : c.n = e.n => c = e
    /\ \A d \in dials, c \in Loops : d.n # c.n
    /\ open_conns \cap finished = {}

\* The pool hands out no connection that was collected.
HandlesAreLive ==
    /\ \A p \in DOMAIN pool : [peer |-> p, n |-> pool[p]] \in Loops
    /\ \A p \in DOMAIN redundant_pool : [peer |-> p, n |-> redundant_pool[p]] \in Loops

\* A redundant connection always backs another one, so a request finds a
\* connection when there is one, and no peer has two entries of one connection.
RedundantBacks ==
    \A p \in DOMAIN redundant_pool : p \in DOMAIN pool /\ pool[p] # redundant_pool[p]

\* A dial that is remembered is under way, or another one of the peer is, which
\* will take its place; after a refused connection there may be none.
DialsUnderWay ==
    \A p \in DOMAIN pending_dial \ refused : \E d \in dials : d.peer = p

\* A request that waits for a connection has no connection it could have used, and
\* a dial under way that will answer it, also when the dial was cancelled: only a
\* refused connection leaves it waiting with none.
WaitersHaveDial ==
    \A r \in Requests : request[r] = "waiting" =>
        /\ Dst[r] \notin DOMAIN pool
        /\ Dst[r] \in refused \/ \E d \in dials : d.peer = Dst[r]

\* The endpoint's tables agree on connections, dials and the requests that wait.
PoolInv ==
    /\ PoolTypeOK /\ NumbersDiffer /\ HandlesAreLive /\ RedundantBacks
    /\ DialsUnderWay /\ WaitersHaveDial

\* Every request of a service is sent over a connection or fails, whatever
\* happens to the dial it waits for, unless the peer stays refused, or is refused
\* again whenever it is dialed.
RequestsEnd ==
    \A r \in Requests : \/ request[r] # "new" ~> request[r] = "ended"
                        \/ []<>(Dst[r] \in refused)

\* Once the topology and the peers are quiet, every peer of the topology that
\* this node has to dial is connected, unless its connection was refused: the
\* dial stays remembered and the peer is not dialed again.
TopologyConnects ==
    <>[](\A p \in topology \cap DialedPeers : p \in DOMAIN pool \cup refused)
=============================================================================
