----------------------------- MODULE Syncronizer -----------------------------
(***************************************************************************)
(* The syncronizer of a node (core/syncronizer): at the start, and when an *)
(* epoch should be over, it asks the bootstrap nodes for their epoch; when *)
(* they are ahead it asks for the hash of their last checkpoint, downloads *)
(* it and has the node restarted from it (core/cli run).  The three        *)
(* requests are made one after the other, each to all bootstrap nodes, of  *)
(* which different ones may answer, while the application goes on.         *)
(*                                                                         *)
(* Abstractions: a checkpoint is the epoch it starts; time is left out, so *)
(* that the timer may fire at any time; the prelude (a wait until the node *)
(* may take part) is left out.                                             *)
(***************************************************************************)
EXTENDS Naturals, FiniteSets, FiniteSetsExt

CONSTANTS Bootstraps,      \* the genesis committee
          LastEpoch,       \* epochs explored
          MaxUnreachable   \* times a bootstrap node becomes unreachable

ASSUME SyncAssumption ==
    /\ Bootstraps # {} /\ IsFiniteSet(Bootstraps)
    /\ LastEpoch \in Nat
    /\ MaxUnreachable \in Nat

VARIABLES sync_epoch,   \* the epoch of this node's application
          boot_epoch,   \* the epoch of each bootstrap node
          reachable,    \* bootstrap nodes that answer
          sync,         \* where try_sync is, and the checkpoint it has chosen
          unreachables

syncVars == <<sync_epoch, boot_epoch, reachable, sync, unreachables>>

Asleep == [pc |-> "sleep", checkpoint |-> 0]

SyncInit ==
    /\ sync_epoch = 0
    /\ boot_epoch \in [Bootstraps -> {0, LastEpoch}]
    /\ reachable = Bootstraps
    /\ sync = [pc |-> "start", checkpoint |-> 0]
    /\ unreachables = 0

-----------------------------------------------------------------------------
Newest(nodes) == Max({boot_epoch[b] : b \in nodes})

\* Mutation: bootstrap nodes in the same epoch count as ahead.
NotBehind(bootstrap_epoch) == bootstrap_epoch >= sync_epoch

IsBehind(bootstrap_epoch) == bootstrap_epoch > sync_epoch

\* try_sync up to the comparison of the epochs; the timer fires or the node has
\* just started.
GetCurrentEpoch ==
    /\ sync.pc \in {"start", "sleep"}
    /\ sync' = IF reachable # {} /\ IsBehind(Newest(reachable))
               THEN [pc |-> "hash", checkpoint |-> 0]
               ELSE Asleep
    /\ UNCHANGED <<sync_epoch, boot_epoch, reachable, unreachables>>

\* The newest checkpoint of those that answer now.
get_latest_checkpoint_hash ==
    /\ sync.pc = "hash"
    /\ sync' = IF reachable # {}
               THEN [pc |-> "download", checkpoint |-> Newest(reachable)]
               ELSE Asleep
    /\ UNCHANGED <<sync_epoch, boot_epoch, reachable, unreachables>>

\* The bootstrap nodes are tried in turn until one has the checkpoint.
download_checkpoint_from_bootstrap ==
    /\ sync.pc = "download"
    /\ sync' = IF \E b \in reachable : boot_epoch[b] >= sync.checkpoint
               THEN [sync EXCEPT !.pc = "send"]
               ELSE Asleep
    /\ UNCHANGED <<sync_epoch, boot_epoch, reachable, unreachables>>

\* Mutation: the node is restarted on its old database.
RestartOnly ==
    /\ sync.pc = "send"
    /\ sync' = [pc |-> "start", checkpoint |-> 0]
    /\ UNCHANGED <<sync_epoch, boot_epoch, reachable, unreachables>>

\* The hash is sent, the node is shut down and started from the checkpoint.
LoadCheckpoint ==
    /\ sync.pc = "send"
    /\ sync_epoch' = sync.checkpoint
    /\ sync' = [pc |-> "start", checkpoint |-> 0]
    /\ UNCHANGED <<boot_epoch, reachable, unreachables>>

\* The application changes the epoch by itself, following the bootstrap nodes.
\* While the syncronizer sleeps it finds out whether the node may go on: it exits
\* without stake or participation.
FollowEpoch(exits) ==
    /\ sync.pc # "exited"
    /\ sync_epoch < Newest(Bootstraps)
    /\ sync_epoch' = sync_epoch + 1
    /\ exits => sync.pc = "sleep"
    /\ sync' = IF exits THEN [sync EXCEPT !.pc = "exited"] ELSE sync
    /\ UNCHANGED <<boot_epoch, reachable, unreachables>>

-----------------------------------------------------------------------------
BootstrapChangesEpoch(b) ==
    /\ boot_epoch[b] < LastEpoch
    /\ boot_epoch' = [boot_epoch EXCEPT ![b] = @ + 1]
    /\ UNCHANGED <<sync_epoch, reachable, sync, unreachables>>

Disconnect(b) ==
    /\ b \in reachable
    /\ unreachables < MaxUnreachable
    /\ unreachables' = unreachables + 1
    /\ reachable' = reachable \ {b}
    /\ UNCHANGED <<sync_epoch, boot_epoch, sync>>

Reconnect(b) ==
    /\ b \notin reachable
    /\ reachable' = reachable \cup {b}
    /\ UNCHANGED <<sync_epoch, boot_epoch, sync, unreachables>>

TrySync ==
    \/ GetCurrentEpoch
    \/ get_latest_checkpoint_hash
    \/ download_checkpoint_from_bootstrap
    \/ LoadCheckpoint

SyncNext ==
    \/ TrySync
    \/ \E exits \in BOOLEAN : FollowEpoch(exits)
    \/ \E b \in Bootstraps : BootstrapChangesEpoch(b) \/ Disconnect(b) \/ Reconnect(b)

SyncSpec == SyncInit /\ [][SyncNext]_syncVars

\* The timer fires and requests end; a node that cannot be reached comes back.
\* Nothing says that blocks reach this node.
FairSyncSpec ==
    /\ SyncSpec
    /\ WF_syncVars(TrySync)
    /\ \A b \in Bootstraps : WF_syncVars(Reconnect(b))

-----------------------------------------------------------------------------
SyncTypeOK ==
    /\ sync_epoch \in 0 .. LastEpoch
    /\ boot_epoch \in [Bootstraps -> 0 .. LastEpoch]
    /\ reachable \subseteq Bootstraps
    /\ sync \in [pc : {"start", "sleep", "hash", "download", "send", "exited"},
                 checkpoint : 0 .. LastEpoch]

\* A node that hears no block still reaches every epoch that a bootstrap node is
\* in, or has exited, although the checkpoint it loads may be older than what it
\* has by then.
SyncCatchesUp ==
    \A e \in 1 .. LastEpoch :
       (\E b \in Bootstraps : boot_epoch[b] >= e)
         ~> (sync_epoch >= e \/ sync.pc = "exited")

\* The node is not restarted for ever.
RestartsEnd == <>[][~LoadCheckpoint]_syncVars

\* The node gets to the epoch of the bootstrap nodes, without restarting for ever.
SyncSettles == []SyncTypeOK /\ SyncCatchesUp /\ RestartsEnd
=============================================================================
