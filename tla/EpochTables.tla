---------------------------- MODULE EpochTables ----------------------------
(***************************************************************************)
(* The tables of the state executor that the epoch change sweeps: the      *)
(* content registry (`uri_to_node`, `node_to_uri`), the jobs and the       *)
(* reputation measurements.  Each is kept twice or counted, and the epoch  *)
(* change settles who participates before it cleans them.                  *)
(*                                                                         *)
(* Abstractions: a node is its participation and whether it has stake      *)
(* (sufficient and staked together); a job has no content or status; the   *)
(* shuffle of the job assignment is any choice; measurements are counted,  *)
(* and enough of them may or may not show a low uptime.                    *)
(***************************************************************************)
EXTENDS Naturals, Sequences, FiniteSets, SequencesExt

CONSTANTS Peers4Epoch,             \* nodes of the node table
          Uris, JobHashes,
          MAX_MEASUREMENTS_SUBMIT,
          MinNumMeasurements,
          MaxTableTx,              \* transactions explored
          LastTableEpoch

ASSUME EpochTablesAssumption ==
    /\ IsFiniteSet(Peers4Epoch) /\ IsFiniteSet(JobHashes)
    /\ MAX_MEASUREMENTS_SUBMIT \in Nat /\ MinNumMeasurements \in Nat \ {0}

VARIABLES table_epoch,
          member,           \* node -> [stake, participation]
          uri_to_node, node_to_uri,
          jobs,             \* job hash -> its assignee, for the jobs that exist
          assigned_jobs,    \* node -> list of job hashes
          rep_measurements, \* node -> measurements of it in the table
          submitted,        \* submitted_rep_measurements
          reported,         \* measurements of a node accepted in this epoch
          halted,           \* assign_jobs panicked
          table_txs

tableVars == <<table_epoch, member, uri_to_node, node_to_uri, jobs, assigned_jobs,
               rep_measurements, submitted, reported, halted, table_txs>>
registryVars == <<uri_to_node, node_to_uri>>
jobVars == <<jobs, assigned_jobs, halted>>
repVars == <<rep_measurements, submitted, reported>>

EpochTablesInit ==
    /\ table_epoch = 0
    /\ member = [n \in Peers4Epoch |-> [stake |-> TRUE, participation |-> "True"]]
    /\ uri_to_node = [u \in Uris |-> {}]
    /\ node_to_uri = [n \in Peers4Epoch |-> {}]
    /\ jobs = <<>>
    /\ assigned_jobs = [n \in Peers4Epoch |-> <<>>]
    /\ rep_measurements = [n \in Peers4Epoch |-> 0]
    /\ submitted = [n \in Peers4Epoch |-> 0]
    /\ reported = [n \in Peers4Epoch |-> 0]
    /\ halted = FALSE
    /\ table_txs = 0

\* only_node_with_sufficient_stake_and_participating.
MaySubmit(n) == member[n].stake /\ member[n].participation \in {"True", "OptedOut"}

\* Staking transactions: opting in or out, and unstaking everything.
MemberChange(n) ==
    /\ \/ /\ member[n].stake
          /\ member' = [member EXCEPT ![n].participation = "OptedIn"]
       \/ /\ MaySubmit(n)
          /\ member' = [member EXCEPT ![n].participation = "OptedOut"]
       \/ /\ member[n].stake
          /\ member' = [member EXCEPT
               ![n] = [stake |-> FALSE,
                       participation |-> IF @.participation \in {"True", "OptedOut"}
                                         THEN "OptedOut" ELSE @.participation]]
       \/ /\ ~member[n].stake
          /\ member' = [member EXCEPT ![n].stake = TRUE]
    /\ UNCHANGED <<registryVars, jobVars, repVars>>

-----------------------------------------------------------------------------
(* The content registry.                                                   *)

\* One transaction updates several URIs, none of them twice, and reverts as a
\* whole when a removal does not fit.
UpdateContentRegistry(n, add, remove) ==
    /\ MaySubmit(n)
    /\ add \cap remove = {}
    /\ \A u \in remove : n \in uri_to_node[u] /\ u \in node_to_uri[n]
    /\ node_to_uri' = [node_to_uri EXCEPT ![n] = (@ \ remove) \cup add]
    /\ uri_to_node' = [u \in Uris |->
         (uri_to_node[u] \ (IF u \in remove THEN {n} ELSE {}))
           \cup (IF u \in add THEN {n} ELSE {})]
    /\ UNCHANGED <<member, jobVars, repVars>>

\* clear_content_registry stages its changes, and makes none when one fails.
ClearFails(n) == \E u \in node_to_uri[n] : n \notin uri_to_node[u]

\* Mutation: the table of URIs is not swept.
CleanUpNodesOnly(info) ==
    /\ UNCHANGED uri_to_node
    /\ node_to_uri' = [n \in Peers4Epoch |->
         IF info[n].stake /\ info[n].participation = "False" THEN {} ELSE node_to_uri[n]]

\* clean_up_content_registry: nodes with stake that do not participate.
clean_up(info) ==
    LET gone == {n \in Peers4Epoch : /\ info[n].stake
                                     /\ info[n].participation = "False"
                                     /\ ~ClearFails(n)}
    IN /\ uri_to_node' = [u \in Uris |->
            uri_to_node[u] \ {n \in gone : u \in node_to_uri[n]}]
       /\ node_to_uri' = [n \in Peers4Epoch |->
            IF n \in gone THEN {} ELSE node_to_uri[n]]

-----------------------------------------------------------------------------
(* Jobs.                                                                   *)

Workers(info) ==
    {n \in Peers4Epoch : info[n].stake /\ info[n].participation = "True"}

\* assign_jobs: the sorted jobs, in chunks, go to the shuffled nodes in turn.
Chunk(J, W) == IF Cardinality(J) < Cardinality(W) THEN 1
               ELSE (Cardinality(J) + Cardinality(W) - 1) \div Cardinality(W)

Assignments(J, W) ==
    LET sorted == SetToSeq(J)
        index(j) == CHOOSE i \in DOMAIN sorted : sorted[i] = j
    IN {[j \in J |-> nodes[(index(j) - 1) \div Chunk(J, W) + 1]] : nodes \in SetToSeqs(W)}

Listed(lists, a) ==
    [n \in Peers4Epoch |->
       lists[n] \o SetToSeq({j \in DOMAIN a : a[j] = n})]

\* add_jobs: with no node to assign to, assign_jobs panics.  A job that exists
\* already is assigned anew.
AddAll(J, before, lists, info) ==
    IF J # {} /\ Workers(info) = {}
    THEN halted' = TRUE /\ jobs' = before /\ assigned_jobs' = lists
    ELSE \E a \in Assignments(J, Workers(info)) :
           /\ jobs' = [j \in DOMAIN before \cup J |-> IF j \in J THEN a[j] ELSE before[j]]
           /\ assigned_jobs' = Listed(lists, a)
           /\ UNCHANGED halted

AddJobs(J) ==
    /\ AddAll(J, jobs, assigned_jobs, member)
    /\ UNCHANGED <<member, registryVars, repVars>>

\* Mutation: the job is removed from the list of the wrong end.
RemoveHead(j) ==
    /\ jobs' = [k \in DOMAIN jobs \ {j} |-> jobs[k]]
    /\ assigned_jobs' = IF j \in DOMAIN jobs /\ assigned_jobs[jobs[j]] # <<>>
                        THEN [assigned_jobs EXCEPT ![jobs[j]] = Tail(@)]
                        ELSE assigned_jobs
    /\ UNCHANGED <<member, registryVars, repVars, halted>>

\* The first entry of the assignee's list is removed with the job.
RemoveJob(j) ==
    /\ jobs' = [k \in DOMAIN jobs \ {j} |-> jobs[k]]
    /\ assigned_jobs' = IF j \in DOMAIN jobs
                        THEN [assigned_jobs EXCEPT ![jobs[j]] = RemoveFirst(@, j)]
                        ELSE assigned_jobs
    /\ UNCHANGED <<member, registryVars, repVars, halted>>

\* Mutation: the jobs are added to the lists of the last epoch.
ReassignOnTop(info) == AddAll(DOMAIN jobs, <<>>, assigned_jobs, info)

reassign_jobs(info) ==
    AddAll(DOMAIN jobs, <<>>, [n \in Peers4Epoch |-> <<>>], info)

-----------------------------------------------------------------------------
(* Reputation.                                                             *)

\* Mutation: one submission more than the limit.
SubmitOneMore(n, peers, tooMany) ==
    /\ MaySubmit(n)
    /\ submitted[n] <= MAX_MEASUREMENTS_SUBMIT
    /\ submitted' = [submitted EXCEPT ![n] = @ + 1]
    /\ UNCHANGED <<member, registryVars, jobVars, rep_measurements, reported>>

\* A transaction of node n with measurements of the given peers; the count goes
\* up although the transaction reverts for naming too many of them.
SubmitMeasurements(n, peers, tooMany) ==
    /\ MaySubmit(n)
    /\ submitted[n] < MAX_MEASUREMENTS_SUBMIT
    /\ submitted' = [submitted EXCEPT ![n] = @ + 1]
    /\ LET taken == IF tooMany THEN {} ELSE {p \in peers \ {n} : member[p].stake}
       IN /\ rep_measurements' = [p \in Peers4Epoch |->
               rep_measurements[p] + (IF p \in taken THEN 1 ELSE 0)]
          /\ reported' = [p \in Peers4Epoch |->
               reported[p] + (IF p \in taken THEN 1 ELSE 0)]
    /\ UNCHANGED <<member, registryVars, jobVars>>

Settle(info, low) ==
    [info EXCEPT !.participation = CASE low -> "False"
                                     [] ~low /\ @ = "OptedIn" -> "True"
                                     [] ~low /\ @ = "OptedOut" -> "False"
                                     [] OTHER -> @]

Measured == {n \in Peers4Epoch : rep_measurements[n] >= MinNumMeasurements}

\* Mutation: the measurements stay in the table.
KeepMeasurements == UNCHANGED rep_measurements

ClearMeasurements == rep_measurements' = [n \in Peers4Epoch |-> 0]

\* execute_epoch_change: scores and participation, the content registry, jobs.
TablesEpochChange ==
    /\ table_epoch < LastTableEpoch
    /\ \E low \in SUBSET Measured :
         LET info == [n \in Peers4Epoch |-> Settle(member[n], n \in low)]
         IN /\ member' = info
            /\ clean_up(info)
            /\ reassign_jobs(info)
    /\ ClearMeasurements
    /\ submitted' = [n \in Peers4Epoch |-> 0]
    /\ reported' = [n \in Peers4Epoch |-> 0]
    /\ table_epoch' = table_epoch + 1
    /\ UNCHANGED table_txs

TableTx ==
    \/ \E n \in Peers4Epoch : MemberChange(n)
    \/ \E n \in Peers4Epoch, add, remove \in SUBSET Uris :
         add \cup remove # {} /\ UpdateContentRegistry(n, add, remove)
    \/ \E J \in SUBSET JobHashes : J # {} /\ AddJobs(J)
    \/ \E j \in JobHashes : RemoveJob(j)
    \/ \E n \in Peers4Epoch, tooMany \in BOOLEAN :
         SubmitMeasurements(n, Peers4Epoch, tooMany)

EpochTablesNext ==
    /\ ~halted
    /\ \/ /\ table_txs < MaxTableTx /\ table_txs' = table_txs + 1
          /\ TableTx /\ UNCHANGED table_epoch
       \/ TablesEpochChange

EpochTablesSpec == EpochTablesInit /\ [][EpochTablesNext]_tableVars

-----------------------------------------------------------------------------
EpochTablesTypeOK ==
    /\ table_epoch \in Nat /\ halted \in BOOLEAN
    /\ member \in [Peers4Epoch -> [stake : BOOLEAN,
                                   participation : {"True", "False", "OptedIn", "OptedOut"}]]
    /\ uri_to_node \in [Uris -> SUBSET Peers4Epoch]
    /\ node_to_uri \in [Peers4Epoch -> SUBSET Uris]
    /\ DOMAIN jobs \subseteq JobHashes /\ jobs \in [DOMAIN jobs -> Peers4Epoch]
    /\ assigned_jobs \in [Peers4Epoch -> Seq(JobHashes)]
    /\ rep_measurements \in [Peers4Epoch -> Nat] /\ reported \in [Peers4Epoch -> Nat]
    /\ submitted \in [Peers4Epoch -> 0 .. MAX_MEASUREMENTS_SUBMIT]

\* The two tables of the content registry are inverses of one another, so that
\* no removal and no clean-up fails half-way: "Unless there is a bug in the
\* content registry system, this operation should not fail."
RegistryInverse ==
    \A n \in Peers4Epoch, u \in Uris : u \in node_to_uri[n] <=> n \in uri_to_node[u]

\* A job is in the list of its assignee, also after it was added a second time.
JobsAreListed ==
    \A j \in DOMAIN jobs : ~halted => \E i \in DOMAIN assigned_jobs[jobs[j]] :
                                         assigned_jobs[jobs[j]][i] = j

\* The table has the measurements of this epoch and no others.
MeasuredThisEpoch == rep_measurements = reported

\* The tables that mirror one another agree after every transaction and epoch
\* change: content with its providers, jobs with their assignees.
TablesInv == EpochTablesTypeOK /\ RegistryInverse /\ JobsAreListed /\ MeasuredThisEpoch

\* The epoch change leaves each job in one list, of a node that participates in
\* the new epoch; the stale entries of jobs added twice are gone.
EpochRepairsJobs ==
    [][table_epoch' # table_epoch /\ ~halted' =>
         /\ \A n \in Peers4Epoch : \A i \in DOMAIN assigned_jobs'[n] :
              /\ assigned_jobs'[n][i] \in DOMAIN jobs'
              /\ jobs'[assigned_jobs'[n][i]] = n
              /\ n \in Workers(member')
         /\ DOMAIN jobs' = DOMAIN jobs]_tableVars

\* A node that would have participated in the new epoch is taken out only on
\* measurements of the epoch that ends.
SuspendedOnMeasurements ==
    [][\A n \in Peers4Epoch :
         /\ table_epoch' # table_epoch
         /\ member[n].participation \in {"True", "OptedIn"}
         /\ member'[n].participation = "False"
         => reported[n] >= MinNumMeasurements]_tableVars

\* What an epoch change does to the tables: it mends the lists of jobs, and takes
\* out a node only on this epoch's measurements.
EpochSettlesTables == EpochRepairsJobs /\ SuspendedOnMeasurements
=============================================================================
