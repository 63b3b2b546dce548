---------------------------- MODULE ContentFetch ----------------------------
(***************************************************************************)
(* How a node gets content it does not have: the fetcher                   *)
(* (core/fetcher), which tries a peer and an origin in turn, the requester *)
(* half of the blockstore server (core/blockstore-server) it asks for the  *)
(* peer's copy, and the origin fetcher.  A directory is fetched first, its *)
(* children then together, and the first child that fails drops the        *)
(* receivers of the others.                                                *)
(*                                                                         *)
(* Abstractions: content is a hash with a set of children; the frames of   *)
(* one response are one step with three outcomes; dropping the receivers   *)
(* of a failed directory is part of the failure.  fetch answers Ok(()) in   *)
(* all of Reported; the name of the state says from which return, and      *)
(* whether the origin's hash, which it does not look at, was the wanted one *)
(*                                                                         *)
(* A panic unwinds its task, as in the builds the tests use; the release   *)
(* profile aborts the process, and its behaviours end there.               *)
(***************************************************************************)
EXTENDS Naturals, Sequences, FiniteSets, FiniteSetsExt, SequencesExt, Functions

CONSTANTS Hashes,
          Children,        \* Hashes -> SUBSET Hashes: files have none
          Fetches,         \* calls of Fetcher::fetch
          Want,            \* Fetches -> Hashes
          NumPeers,        \* providers of every hash on the chain
          NumOrigins,      \* origins the resolver knows of every hash
          max_conc_req,    \* of the blockstore server's configuration
          OriginCapacity,  \* max_conc_origin_req of the fetcher's configuration
          MaxPanics        \* bound on commits that fail

ASSUME ContentAssumption ==
    /\ Children \in [Hashes -> SUBSET Hashes]
    /\ Want \in [Fetches -> Hashes]
    /\ NumPeers \in Nat /\ NumOrigins \in Nat
    /\ max_conc_req \in Nat \ {0} /\ OriginCapacity \in Nat \ {0}
    /\ MaxPanics \in Nat

VARIABLES blockstore,     \* hashes the blockstore has
          fetch,          \* the calls in progress
          server_up,      \* the blockstore server's loop has not panicked
          inbox_bs,       \* requests not yet received by that loop
          pending_requests, \* hash -> receivers created for it
          bs_queue,       \* requests beyond the limit
          bs_tasks,       \* hash -> "running" or its result
          orphans,        \* hashes whose task panicked, still in pending_requests
          origin_pending, \* pointer -> calls subscribed to it
          origin_queue, origin_tasks

bsVars == <<server_up, inbox_bs, pending_requests, bs_queue, bs_tasks, orphans>>
originVars == <<origin_pending, origin_queue, origin_tasks>>
contentVars == <<blockstore, fetch, bsVars, originVars>>

Without(f, x) == Restrict(f, DOMAIN f \ {x})
With(f, x, v) == [y \in DOMAIN f \cup {x} |-> IF y = x THEN v ELSE f[y]]

\* A set of content that has the children of whatever it has.
Closed(S) == \A k \in S : Children[k] \subseteq S

\* h with everything below it, which every closed set with h has.
Whole(h) == {k \in Hashes : \A S \in SUBSET Hashes : h \in S /\ Closed(S) => k \in S}

ContentInit ==
    /\ blockstore = {}
    /\ fetch = [f \in Fetches |-> [pc |-> "start", round |-> 0,
                                   ask |-> {}, wait |-> {}]]
    /\ server_up = TRUE
    /\ inbox_bs = {} /\ pending_requests = <<>> /\ bs_queue = <<>> /\ bs_tasks = <<>>
    /\ orphans = {}
    /\ origin_pending = <<>> /\ origin_queue = <<>> /\ origin_tasks = <<>>

-----------------------------------------------------------------------------
(* The fetcher.  A round tries one peer, then one origin.                  *)

\* The step of a round that follows the given point of the call.
PeerStep(fe, h) ==
    CASE fe.round < NumPeers ->
           [fe EXCEPT !.pc = "peer", !.ask = {h}, !.wait = {}]
      [] fe.round >= NumPeers /\ fe.round < NumOrigins ->
           [fe EXCEPT !.pc = "origin", !.ask = {}, !.wait = {}]
      [] OTHER -> [fe EXCEPT !.pc = "failed", !.ask = {}, !.wait = {}]

AfterPeer(fe, h) ==
    IF fe.round < NumOrigins
    THEN [fe EXCEPT !.pc = "origin", !.ask = {}, !.wait = {}]
    ELSE PeerStep([fe EXCEPT !.round = @ + 1], h)

\* fetch: nothing to do when the blockstore has the hash.
FetchStart(f) ==
    /\ fetch[f].pc = "start"
    /\ fetch' = [fetch EXCEPT ![f] =
                   IF Want[f] \in blockstore THEN [@ EXCEPT !.pc = "cached"]
                   ELSE PeerStep(@, Want[f])]
    /\ UNCHANGED <<blockstore, bsVars, originVars>>

\* download_hash sends its request to the server, which subscribes a second one for
\* the same hash to the first.
DownloadAsk(f, h) ==
    /\ fetch[f].pc = "peer" /\ h \in fetch[f].ask
    /\ fetch' = [fetch EXCEPT ![f].ask = @ \ {h},
                              ![f].wait = @ \cup {h}]
    /\ inbox_bs' = IF h \in fetch[f].wait THEN inbox_bs
                   ELSE inbox_bs \cup {[hash |-> h, fetch |-> f, round |-> fetch[f].round]}
    /\ UNCHANGED <<blockstore, server_up, pending_requests, bs_queue, bs_tasks, orphans, originVars>>

\* The last response of the download has arrived.
DownloadDone(f) ==
    /\ fetch[f].pc = "peer" /\ fetch[f].ask = {} /\ fetch[f].wait = {}
    /\ fetch' = [fetch EXCEPT ![f].pc = "from_peer"]
    /\ UNCHANGED <<blockstore, bsVars, originVars>>

\* The server is gone: sending fails, and so does every receiver.
DownloadFails(f) ==
    /\ fetch[f].pc = "peer" /\ ~server_up
    /\ fetch' = [fetch EXCEPT ![f] = AfterPeer(@, Want[f])]
    /\ UNCHANGED <<blockstore, bsVars, originVars>>

-----------------------------------------------------------------------------
(* The loop of the blockstore server: requests of this node to its peers.  *)

\* A receiver is alive while its call still waits for it.
Alive(h, r) ==
    /\ fetch[r.fetch].pc = "peer"
    /\ fetch[r.fetch].round = r.round
    /\ h \in fetch[r.fetch].wait

\* A slot is taken by a task that never ends.
FreeSlot == 1 + Cardinality(DOMAIN bs_tasks) < max_conc_req

ServerReceive(req) ==
    /\ server_up
    /\ req \in inbox_bs
    /\ inbox_bs' = inbox_bs \ {req}
    /\ LET h == req.hash
           me == [fetch |-> req.fetch, round |-> req.round]
       IN IF h \in DOMAIN pending_requests
          THEN /\ pending_requests' = [pending_requests EXCEPT ![h] = @ \cup {me}]
               /\ UNCHANGED <<bs_queue, bs_tasks>>
          ELSE /\ pending_requests' = With(pending_requests, h, {me})
               /\ IF FreeSlot
                  THEN bs_tasks' = With(bs_tasks, h, "running") /\ UNCHANGED bs_queue
                  ELSE bs_queue' = Append(bs_queue, h) /\ UNCHANGED bs_tasks
    /\ UNCHANGED <<blockstore, fetch, server_up, orphans, originVars>>

\* send_request: the response is written and committed, or the peer rejects it,
\* answers late, or stops half-way.  A commit that fails (the last block is
\* not the one of the hash, or the disk is full) panics the task.
SendRequest(h) ==
    /\ h \in DOMAIN bs_tasks /\ bs_tasks[h] = "running"
    /\ \/ bs_tasks' = [bs_tasks EXCEPT ![h] = "ok"] /\ blockstore' = blockstore \cup {h}
       \/ bs_tasks' = [bs_tasks EXCEPT ![h] = "err"] /\ UNCHANGED blockstore
       \/ /\ Cardinality(orphans) < MaxPanics
          /\ bs_tasks' = [bs_tasks EXCEPT ![h] = "panic"] /\ UNCHANGED blockstore
    /\ UNCHANGED <<fetch, server_up, inbox_bs, pending_requests, bs_queue, orphans, originVars>>

\* Mutation: the answer for a directory is taken as the answer for its children.
TakeResultWhole(fe, h, result, want) ==
    IF result = "ok" THEN [fe EXCEPT !.wait = @ \ {h}] ELSE AfterPeer(fe, want)

\* What a live receiver does with the result.
TakeResult(fe, h, result, want) ==
    IF result = "ok"
    THEN [fe EXCEPT !.wait = @ \ {h}, !.ask = @ \cup Children[h]]
    ELSE AfterPeer(fe, want)

\* The loop joins a task and sends its result: with no receiver left it panics.
ServerJoin(h) ==
    /\ server_up
    /\ h \in DOMAIN bs_tasks /\ bs_tasks[h] \in {"ok", "err"}
    /\ bs_tasks' = Without(bs_tasks, h)
    /\ pending_requests' = Without(pending_requests, h)
    /\ LET live == {r \in pending_requests[h] : Alive(h, r)}
           to == {r.fetch : r \in live}
       IN /\ server_up' = (live # {})
          /\ fetch' = [f \in Fetches |->
                         IF f \in to
                         THEN TakeResult(fetch[f], h, bs_tasks[h], Want[f])
                         ELSE fetch[f]]
    /\ UNCHANGED <<blockstore, inbox_bs, bs_queue, orphans, originVars>>

\* A task that panicked does not say for which request: it stays pending, and so
\* do the receivers it has and those that subscribe to it.
ServerJoinPanic(h) ==
    /\ server_up
    /\ h \in DOMAIN bs_tasks /\ bs_tasks[h] = "panic"
    /\ bs_tasks' = Without(bs_tasks, h)
    /\ orphans' = orphans \cup {h}
    /\ UNCHANGED <<blockstore, fetch, server_up, inbox_bs, pending_requests, bs_queue, originVars>>

-----------------------------------------------------------------------------
(* The origin fetcher.                                                     *)

\* Before it asks the origin the fetcher looks at the blockstore again.
OriginAsk(f) ==
    LET p == <<Want[f], fetch[f].round>> IN
    /\ fetch[f].pc = "origin"
    /\ IF Want[f] \in blockstore
       THEN /\ fetch' = [fetch EXCEPT ![f].pc = "found"]
            /\ UNCHANGED originVars
       ELSE /\ fetch' = [fetch EXCEPT ![f].pc = "origin_wait"]
            /\ IF p \in DOMAIN origin_pending
               THEN /\ origin_pending' = [origin_pending EXCEPT ![p] = @ \cup {f}]
                    /\ UNCHANGED <<origin_queue, origin_tasks>>
               ELSE /\ origin_pending' = With(origin_pending, p, {f})
                    /\ IF Cardinality(DOMAIN origin_tasks) < OriginCapacity
                       THEN /\ origin_tasks' = With(origin_tasks, p, "running")
                            /\ UNCHANGED origin_queue
                       ELSE /\ origin_queue' = Append(origin_queue, p)
                            /\ UNCHANGED origin_tasks
    /\ UNCHANGED <<blockstore, bsVars>>

\* The router answers with the hash of what the origin gave, which is stored with
\* all that is below it and need not be what the pointer was published for (the
\* b3fs origin answers with zeros and stores nothing), or it fails, with a part of a
\* directory stored.
OriginRoute(p) ==
    /\ p \in DOMAIN origin_tasks /\ origin_tasks[p] = "running"
    /\ \E given \in {S \in SUBSET Hashes : Closed(S)}, answer \in {"ok", "other", "err"} :
         /\ answer = "ok" => p[1] \in given
         /\ blockstore' = blockstore \cup given
         /\ origin_tasks' = [origin_tasks EXCEPT ![p] = answer]
    /\ UNCHANGED <<fetch, bsVars, origin_pending, origin_queue>>

\* Mutation: the queue is never read.
NeverQueued(tasks) == origin_tasks' = tasks /\ UNCHANGED origin_queue

NextQueued(tasks) ==
    IF origin_queue # <<>> /\ Cardinality(DOMAIN tasks) < OriginCapacity
    THEN /\ origin_tasks' = With(tasks, Head(origin_queue), "running")
         /\ origin_queue' = Tail(origin_queue)
    ELSE origin_tasks' = tasks /\ UNCHANGED origin_queue

\* Any hash is success.
TakeAnswer(fe, answer, want) ==
    CASE answer = "ok" -> [fe EXCEPT !.pc = "from_origin"]
      [] answer = "other" -> [fe EXCEPT !.pc = "from_other"]
      [] OTHER -> PeerStep([fe EXCEPT !.round = @ + 1], want)

OriginJoin(p) ==
    /\ p \in DOMAIN origin_tasks /\ origin_tasks[p] # "running"
    /\ origin_pending' = Without(origin_pending, p)
    /\ fetch' = [f \in Fetches |->
                   IF f \in origin_pending[p]
                   THEN TakeAnswer(fetch[f], origin_tasks[p], Want[f]) ELSE fetch[f]]
    /\ NextQueued(Without(origin_tasks, p))
    /\ UNCHANGED <<blockstore, bsVars>>

Pointers == Hashes \X (0 .. NumOrigins - 1)

FetchStep(f) ==
    \/ FetchStart(f) \/ DownloadDone(f) \/ DownloadFails(f) \/ OriginAsk(f)
    \/ \E h \in Hashes : DownloadAsk(f, h)

ServerStep == \/ \E req \in inbox_bs : ServerReceive(req)
              \/ \E h \in Hashes : ServerJoin(h) \/ ServerJoinPanic(h)

OriginStep == \E p \in Pointers : OriginRoute(p) \/ OriginJoin(p)

ContentNext ==
    \/ \E f \in Fetches : FetchStep(f)
    \/ ServerStep
    \/ \E h \in Hashes : SendRequest(h)
    \/ OriginStep

ContentSpec == ContentInit /\ [][ContentNext]_contentVars

\* The runtime schedules every task; every request to a peer ends by its timeout,
\* every request to an origin ends.
FairContentSpec ==
    /\ ContentSpec
    /\ \A f \in Fetches : WF_contentVars(FetchStep(f))
    /\ WF_contentVars(ServerStep)
    /\ \A h \in Hashes : WF_contentVars(SendRequest(h))
    /\ WF_contentVars(OriginStep)

-----------------------------------------------------------------------------
Reported == {"cached", "found", "from_peer", "from_origin", "from_other"}

Ended == Reported \cup {"failed"}

Receivers == [fetch : Fetches, round : Nat]

ContentTypeOK ==
    /\ blockstore \subseteq Hashes /\ server_up \in BOOLEAN
    /\ fetch \in [Fetches -> [pc : Ended \cup {"start", "peer", "origin", "origin_wait"},
                             round : 0 .. NumPeers + NumOrigins,
                             ask : SUBSET Hashes, wait : SUBSET Hashes]]
    /\ inbox_bs \subseteq [hash : Hashes, fetch : Fetches, round : Nat]
    /\ DOMAIN pending_requests \subseteq Hashes
    /\ \A h \in DOMAIN pending_requests : pending_requests[h] \subseteq Receivers
    /\ bs_queue \in Seq(Hashes)
    /\ DOMAIN bs_tasks \subseteq Hashes
    /\ \A h \in DOMAIN bs_tasks : bs_tasks[h] \in {"running", "ok", "err", "panic"}
    /\ DOMAIN origin_pending \subseteq Pointers
    /\ \A p \in DOMAIN origin_pending : origin_pending[p] \subseteq Fetches
    /\ origin_queue \in Seq(Pointers)
    /\ \A p \in DOMAIN origin_tasks : origin_tasks[p] \in {"running", "ok", "other", "err"}
    /\ IsFiniteSet(DOMAIN origin_tasks) /\ Cardinality(DOMAIN origin_tasks) <= OriginCapacity

\* A round asks a peer, or an origin, that there is.
RoundsHaveSources ==
    \A f \in Fetches :
        /\ fetch[f].pc = "peer" => fetch[f].round < NumPeers
        /\ fetch[f].pc \in {"origin", "origin_wait"} => fetch[f].round < NumOrigins

\* What a task says it stored is there.
TasksStored ==
    /\ \A h \in DOMAIN bs_tasks : bs_tasks[h] = "ok" => h \in blockstore
    /\ \A p \in DOMAIN origin_tasks : origin_tasks[p] = "ok" => Whole(p[1]) \subseteq blockstore

\* What a download has, asks and waits for covers its content: nothing below a
\* directory is left out when answers come in any order.
DownloadsCover ==
    \A f \in Fetches : fetch[f].pc = "peer" =>
        \E S \in SUBSET blockstore :
            LET all == S \cup fetch[f].ask \cup fetch[f].wait
            IN Want[f] \in all /\ \A k \in S : Children[k] \subseteq all

\* A request the server knows of is running, queued, or its task panicked, and an answer
\* that a download waits for is asked for in the round it is in.
AnswersAreOwed ==
    /\ DOMAIN pending_requests = DOMAIN bs_tasks \cup ToSet(bs_queue) \cup orphans
    /\ DOMAIN bs_tasks \cap (ToSet(bs_queue) \cup orphans) = {}
    /\ \A f \in Fetches : fetch[f].pc = "peer" =>
         \A h \in fetch[f].wait :
             \/ [hash |-> h, fetch |-> f, round |-> fetch[f].round] \in inbox_bs
             \/ /\ h \in DOMAIN pending_requests
                /\ [fetch |-> f, round |-> fetch[f].round] \in pending_requests[h]

\* A pointer is asked for by the calls that wait for it and nobody else, and it is
\* running or in the queue, once.
OriginsAreOwed ==
    /\ DOMAIN origin_pending = DOMAIN origin_tasks \cup ToSet(origin_queue)
    /\ DOMAIN origin_tasks \cap ToSet(origin_queue) = {} /\ IsInjective(origin_queue)
    /\ \A p \in DOMAIN origin_pending : \A f \in origin_pending[p] :
         fetch[f].pc = "origin_wait" /\ p = <<Want[f], fetch[f].round>>
    /\ \A f \in Fetches : fetch[f].pc = "origin_wait" =>
         LET p == <<Want[f], fetch[f].round>>
         IN p \in DOMAIN origin_pending /\ f \in origin_pending[p]

\* The download from the peer of the given round has failed.
GaveUp(fe, round) ==
    \/ fe.round > round
    \/ fe.round = round /\ fe.pc \in {"origin", "origin_wait", "found", "from_origin",
                                      "from_other", "failed"}

\* A receiver that the server has is of a call that waits for it, or gave up; and a
\* request for it is received once.
ReceiversWait ==
    LET fine(h, f, round) ==
            /\ h \in Whole(Want[f])
            /\ \/ fetch[f].pc = "peer" /\ fetch[f].round = round /\ h \in fetch[f].wait
               \/ GaveUp(fetch[f], round)
    IN /\ \A req \in inbox_bs :
             /\ fine(req.hash, req.fetch, req.round)
             /\ req.hash \in DOMAIN pending_requests =>
                  [fetch |-> req.fetch, round |-> req.round] \notin pending_requests[req.hash]
       /\ \A h \in DOMAIN pending_requests :
             /\ pending_requests[h] # {}
             /\ \A r \in pending_requests[h] : fine(h, r.fetch, r.round)

\* Nothing is asked for that is not below the wanted hash.
AsksBelow ==
    \A f \in Fetches :
        fetch[f].pc = "peer" => fetch[f].ask \cup fetch[f].wait \subseteq Whole(Want[f])

\* A fetch that reports success has stored the content with everything below it,
\* whatever other fetches shared its requests, when a peer or an origin gave it that
\* content.  One that found the hash has the hash; what is missing below a directory
\* is being downloaded, or a call with that directory below it gave up a download.
\* With the hash of something else from the origin it may have nothing.
FetchedIsWhole ==
    /\ \A f \in Fetches :
         /\ fetch[f].pc \in {"from_peer", "from_origin"} => Whole(Want[f]) \subseteq blockstore
         /\ fetch[f].pc \in {"cached", "found"} => Want[f] \in blockstore
    /\ \A d \in blockstore : \A k \in Children[d] \ blockstore :
         \/ d \in DOMAIN bs_tasks /\ bs_tasks[d] = "ok"
         \/ \E f \in Fetches :
              /\ d \in Whole(Want[f])
              /\ \/ fetch[f].pc = "peer" /\ k \in fetch[f].ask \cup fetch[f].wait
                 \/ GaveUp(fetch[f], 0)

\* A call waits for the result of a task that panicked, or of a request that the
\* server queued: nothing takes a request out of that queue.
Forgotten(f) ==
    fetch[f].pc = "peer" /\ fetch[f].wait \cap (orphans \cup ToSet(bs_queue)) # {}

\* Every fetch ends, or waits for a request that the server has forgotten: the
\* origin fetcher forgets none, and a server that panicked is an error and no wait.
FetchEnds == \A f \in Fetches : <>(fetch[f].pc \in Ended \/ Forgotten(f))

\* The tables of pending requests, with which a fetch that succeeds is whole.
ContentInv ==
    /\ ContentTypeOK /\ RoundsHaveSources /\ TasksStored /\ DownloadsCover
    /\ AnswersAreOwed /\ OriginsAreOwed /\ AsksBelow /\ ReceiversWait /\ FetchedIsWhole
=============================================================================
