------------------------------ MODULE MCNetwork ------------------------------
(***************************************************************************)
(* The components that move messages and content between nodes, and the    *)
(* disk they write content to, for TLC, with the fairness of their tasks.  *)
(* They share no state: a behaviour runs one of them, chosen at the start. *)
(***************************************************************************)
EXTENDS Broadcast, PubSub, Pool, ContentFetch, Bucket, BlockServe, TLC

VARIABLE focus  \* the component that runs, or the file that is written

CONSTANTS dir, file1, file2, fetch1, fetch2, short, exact, long, folder,
          peer1, peer2, peer3, origin3, peer4, origin4,
          whole, broken, list, nothing

Components == {"broadcast", "pubsub", "pool", "fetch", "serve", folder, short, exact, long}

Leave(c) ==
    /\ c # "broadcast" => UNCHANGED broadcastVars
    /\ c # "pubsub" => UNCHANGED pubsubVars
    /\ c # "pool" => UNCHANGED poolVars
    /\ c # "fetch" => UNCHANGED contentVars
    /\ c # "bucket" => UNCHANGED bucketVars
    /\ c # "serve" => UNCHANGED serveVars
    /\ UNCHANGED focus

NetworkInit ==
    /\ focus \in Components
    /\ BroadcastInit
    /\ PubSubInit
    /\ PoolInit
    /\ ContentInit
    /\ BucketInit
    /\ ServeInit
    /\ \A w \in DOMAIN FileWriters : focus # FileWriters[w] => fwriter[w].bad = 0

NetworkNext ==
    \/ focus = "broadcast" /\ BroadcastNext /\ Leave("broadcast")
    \/ focus = "pubsub" /\ PubSubNext /\ Leave("pubsub")
    \/ focus = "pool" /\ PoolNext /\ Leave("pool")
    \/ focus = "fetch" /\ ContentNext /\ Leave("fetch")
    \/ focus = "serve" /\ ServeNext /\ Leave("serve")
    \/ \E w \in DOMAIN FileWriters : focus = FileWriters[w] /\ FileStep(w) /\ Leave("bucket")
    \/ \E w \in DOMAIN DirWriters : focus = DirWriters[w] /\ DirStep(w) /\ Leave("bucket")
    \/ focus \in {short, exact, long, folder} /\ Stop /\ Leave("bucket")

networkVars == <<focus, broadcastVars, pubsubVars, poolVars, contentVars, bucketVars,
                 serveVars>>

NetworkSpec == NetworkInit /\ [][NetworkNext]_networkVars

\* The fairness of each component, while it runs.
FairNetworkSpec ==
    /\ NetworkSpec
    /\ WF_broadcastVars(focus = "broadcast" /\ SendMessage)
    /\ WF_broadcastVars(focus = "broadcast" /\ \E f \in frames : HandleFrame(f))
    /\ \A n \in Gossipers :
         /\ WF_broadcastVars(focus = "broadcast" /\ PendingTick(n))
         /\ WF_broadcastVars(focus = "broadcast" /\ Propagate(n))
    /\ WF_pubsubVars(focus = "pubsub" /\ respond_to_recv_request)
    /\ \A s \in Subscribers : WF_pubsubVars(focus = "pubsub" /\ ReturnFromRecv(s))
    /\ WF_poolVars(focus = "pool" /\ EndpointStep)
    /\ WF_poolVars(focus = "pool" /\ EventStep)
    /\ \A f \in Fetches : WF_contentVars(focus = "fetch" /\ FetchStep(f))
    /\ WF_contentVars(focus = "fetch" /\ ServerStep)
    /\ \A h \in Hashes : WF_contentVars(focus = "fetch" /\ SendRequest(h))
    /\ WF_contentVars(focus = "fetch" /\ OriginStep)

-----------------------------------------------------------------------------
\* Every node is connected to every other.
FullMesh == [n \in Gossipers |-> Gossipers \ {n}]

\* Every request goes to the same peer.
OnePeer == [r \in Requests |-> CHOOSE p \in PoolPeers : TRUE]

\* A directory of two files.
Directory == [h \in Hashes |-> IF h = dir THEN {file1, file2} ELSE {}]

\* One call fetches the directory, one a file of it.
DirectoryAndFile == fetch1 :> dir @@ fetch2 :> file1

\* Files of one full block, of two, and of one and a part; a directory.
SomeFiles == short :> 4 @@ exact :> 8 @@ long :> 7
SomeFolders == folder :> 3

\* The last file is written from a peer and from its origin at the same time.
WritersOfFiles == peer1 :> short @@ peer2 :> exact @@ peer3 :> long @@ origin3 :> long
WritersOfFolders == peer4 :> folder @@ origin4 :> folder

\* A file, one whose second block is missing, a directory, and a hash that is not there.
SomeAsks ==
    LET ask(found, isDir, n, gone) ==
            [found |-> found, dir |-> isDir, blocks |-> n, missing |-> gone]
    IN whole :> ask(TRUE, FALSE, 2, {}) @@ broken :> ask(TRUE, FALSE, 2, {1})
       @@ list :> ask(TRUE, TRUE, 2, {}) @@ nothing :> ask(FALSE, FALSE, 1, {})

\* Gossip delivers once what advertisers can answer for, the ring of a topic
\* answers with the message asked for, the pool's redundant connections back others,
\* a fetch that succeeds is whole, and so is an answer that ends.
NetworkInv ==
    /\ BroadcastInv
    /\ PubSubInv
    /\ PoolInv
    /\ ContentInv
    /\ ServeInv

\* Every node is given the message, also when a frame is lost, or when subscribers
\* refuse to propagate it; only both together may cut a node off.
MessageReachesAll == focus = "broadcast" => EveryoneHears
\* Every fetch ends, but for one whose request the blockstore server has forgotten
\* (its task panicked, or it was queued, and that queue is never read): the origin
\* fetcher forgets none, and a server that panicked is an error and no wait.
FetchesEnd == focus = "fetch" => FetchEnds
=============================================================================
