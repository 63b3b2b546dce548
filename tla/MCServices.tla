----------------------------- MODULE MCServices ------------------------------
(***************************************************************************)
(* The services of a node, and the liveness of a node that follows the     *)
(* chain, for TLC.  They share no state: a behaviour runs one of them,     *)
(* chosen at the start, and leaves the others alone.                       *)
(***************************************************************************)
EXTENDS TaskBroker, RepCollector, Pinger, DackAggregator, Firewall, Archive, Resolver,
        EdgeExecution, TLC

VARIABLE focus  \* the component that runs

CONSTANTS dack1, dack2, dack3, e1, e2, p1, p2

Components ==
    {"tasks", "reputation", "pinger", "dacks", "firewall", "archive", "resolver", "edge"}

Leave(c) ==
    /\ c # "tasks" => UNCHANGED taskVars
    /\ c # "reputation" => UNCHANGED collectorVars
    /\ c # "pinger" => UNCHANGED pingerVars
    /\ c # "dacks" => UNCHANGED dackVars
    /\ c # "firewall" => UNCHANGED firewallVars
    /\ c # "archive" => UNCHANGED archiveVars
    /\ c # "resolver" => UNCHANGED resolverVars
    /\ c # "edge" => UNCHANGED vars
    /\ UNCHANGED focus

\* A component that does not run has one initial state.
ServicesInit ==
    /\ focus \in Components
    /\ TaskInit
    /\ RepInit
    /\ PingerInit
    /\ focus # "pinger" => node_registry = CHOOSE s \in Shuffles(PingedNodes) : TRUE
    /\ DackInit
    /\ FirewallInit
    /\ focus # "firewall" => policy.mode = "All" /\ limiting = "None"
    /\ ArchiveInit
    /\ ResolverInit
    /\ Init

ServicesNext ==
    \/ focus = "tasks" /\ TaskNext /\ Leave("tasks")
    \/ focus = "reputation" /\ RepNext /\ Leave("reputation")
    \/ focus = "pinger" /\ PingerNext /\ Leave("pinger")
    \/ focus = "dacks" /\ DackNext /\ Leave("dacks")
    \/ focus = "firewall" /\ FirewallNext /\ Leave("firewall")
    \/ focus = "archive" /\ ArchiveNext /\ Leave("archive")
    \/ focus = "resolver" /\ ResolverNext /\ Leave("resolver")
    \/ focus = "edge" /\ Next /\ Leave("edge")

servicesVars == <<focus, taskVars, collectorVars, pingerVars, dackVars, firewallVars,
                  archiveVars, resolverVars, vars>>

ServicesSpec == ServicesInit /\ [][ServicesNext]_servicesVars

\* The fairness of the node that follows the chain, while it runs.
FairServicesSpec ==
    /\ ServicesSpec
    /\ WF_vars(focus = "edge" /\ WorkerStep)
    /\ \A d \in Chain :
         /\ SF_vars(focus = "edge" /\ Timeout(d))
         /\ SF_vars(focus = "edge" /\ ReceiveRequested(d))
         /\ \A v \in CommitteeAfter[last_executed[d]] :
              SF_vars(focus = "edge" /\ ReceiveAttestation(
                       [digest |-> d, from |-> v, epoch |-> ParcelEpoch(d)]))

-----------------------------------------------------------------------------
\* One satisfactory and one unsatisfactory interaction.
BothWeights == {1, -1}

\* Two services.
TwoServices == dack1 :> 1 @@ dack2 :> 2 @@ dack3 :> 1

\* No rule, one, and two of which the second is the stricter one.
SomeRules ==
    LET rule(p, n) == [period |-> p, max |-> n]
    IN {<<>>, <<rule(1, 0)>>, <<rule(3, 2), rule(2, 1)>>}

\* Empty blocks, and transactions that are ordered more than once.
SomeBlocks == <<<<"t1", "t2">>, <<>>, <<"t1", "t3">>, <<"t3", "t3">>>>

\* Two blocks, the first of which changes the epoch, and two validators.
ShortParent == p1 :> Zero @@ p2 :> p1
ShortEpochAfter == Zero :> 0 @@ p1 :> 1 @@ p2 :> 1
ShortCommittees == [d \in Digests \cup {Zero} |-> {e1, e2}]

\* The services of a node: tasks of the cluster, reputation, pings, acknowledgments,
\* the firewall, the archive and the resolver.
ServicesInv ==
    TaskInv /\ RepInv /\ PingerInv /\ DackInv /\ FirewallInv /\ ArchiveInv /\ ResolverInv

\* A node that hears attestations gets to the head of the chain by its timers and its
\* requests, although every parcel it did not ask for is lost.
FollowerCatchesUp == focus = "edge" => CatchesUp
=============================================================================
