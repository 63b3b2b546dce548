------------------------- MODULE PeerServicesProofs -------------------------
(***************************************************************************)
(* What the services of a node that deal with its peers guarantee, for     *)
(* every set of peers, every configuration and any number of requests: the *)
(* task broker, the reputation aggregator, the pinger and the aggregator   *)
(* of delivery acknowledgments.                                            *)
(***************************************************************************)
EXTENDS TaskBroker, RepCollector, Pinger, DackAggregator, SequenceTheorems, FiniteSetTheorems,
        NaturalsInduction, WellFoundedInduction, TLAPS

\* Removing a place of a sequence leaves what is at the other places.
LEMMA RemovedPlaces ==
    ASSUME NEW S, NEW s \in Seq(S), NEW i \in DOMAIN s
    PROVE  /\ RemoveAt(s, i) \in Seq(S) /\ Len(RemoveAt(s, i)) = Len(s) - 1
           /\ \A j \in 1 .. Len(s) - 1 : RemoveAt(s, i)[j] = IF j < i THEN s[j] ELSE s[j + 1]
<1> DEFINE left == SubSeq(s, 1, i - 1)
           right == SubSeq(s, i + 1, Len(s))
           new == left \o right
<1>1. PICK n \in Nat : n = Len(s) /\ DOMAIN s = 1 .. n /\ i \in 1 .. n
    OBVIOUS
<1>2. left \in Seq(S) /\ Len(left) = i - 1 /\ \A j \in 1 .. i - 1 : left[j] = s[j]
    BY <1>1, SubSeqProperties
<1>3. right \in Seq(S) /\ Len(right) = n - i /\ \A j \in 1 .. n - i : right[j] = s[i + j]
    BY <1>1, SubSeqProperties
<1> HIDE DEF left, right
<1>4. /\ new \in Seq(S) /\ Len(new) = Len(left) + Len(right)
      /\ \A j \in 1 .. Len(left) + Len(right) :
           new[j] = IF j <= Len(left) THEN left[j] ELSE right[j - Len(left)]
    BY <1>2, <1>3, ConcatProperties
<1>5. RemoveAt(s, i) = new
    BY DEF RemoveAt, new, left, right
<1> HIDE DEF new
<1>6. Len(new) = n - 1 /\ DOMAIN new = 1 .. n - 1
    BY <1>1, <1>2, <1>3, <1>4
<1>7. \A j \in 1 .. n - 1 : new[j] = IF j < i THEN s[j] ELSE s[j + 1]
  <2>1. TAKE j \in 1 .. n - 1
  <2>2. CASE j < i
    <3>1. j \in 1 .. i - 1 /\ j <= i - 1 /\ j \in 1 .. (i - 1) + (n - i)
      BY <1>1, <2>2
    <3> QED
      BY <1>2, <1>3, <1>4, <2>2, <3>1
  <2>3. CASE ~(j < i)
    <3>1. ~(j <= i - 1) /\ j \in 1 .. (i - 1) + (n - i) /\ j - (i - 1) \in 1 .. n - i
          /\ i + (j - (i - 1)) = j + 1
      BY <1>1, <2>3
    <3>2. new[j] = right[j - (i - 1)]
      BY <1>2, <1>3, <1>4, <3>1
    <3>3. right[j - (i - 1)] = s[j + 1]
      BY <1>3, <3>1
    <3> QED
      BY <2>3, <3>2, <3>3
  <2> QED
    BY <2>2, <2>3
<1> QED
    BY <1>1, <1>4, <1>5, <1>6, <1>7

-----------------------------------------------------------------------------
(* The task broker.                                                        *)

CallType ==
    [st : {"none", "executing", "waiting", "returned"},
     scope : {"local", "single", "cluster", "peer"}, depth : Nat,
     order : Seq(ClusterPeers), asked : SUBSET ClusterPeers,
     answers : Answers, failed : SUBSET ClusterPeers,
     result : {"none", "ok", "error", "max depth"}]

\* The parts of TaskInv for one call and the reports about it.
UnderWay1(c) ==
    /\ c.st = "none" => c = NoTask
    /\ c.st = "executing" => c.scope \in {"local", "peer"}
    /\ c.st = "waiting" => \/ c.scope = "single" /\ AsksInOrder(c)
                           \/ c.scope = "cluster" /\ AsksTheCluster(c)
Agrees1(c) ==
    c.scope = "cluster" /\ c.st = "returned" /\ c.result # "max depth" =>
        IF c.result = "ok"
        THEN /\ \A p, q \in DOMAIN c.answers : c.answers[p] = c.answers[q]
             /\ 3 * Cardinality(DOMAIN c.answers) >= 2 * Cardinality(ClusterPeers)
        ELSE \A v \in Payloads :
               \/ ClusterPeers = {}
               \/ 3 * Cardinality(Agreeing(c.answers, v)) < 2 * Cardinality(ClusterPeers)
TriesAll1(c) ==
    c.scope = "single" /\ c.st = "returned" =>
        /\ c.result = "error" => c.failed = ClusterPeers
        /\ c.result = "ok" => Cardinality(DOMAIN c.answers) = 1 /\ c.asked = {}
Matches1(c, u, s) ==
    /\ c.scope # "peer" => {r[1] : r \in u} = c.failed /\ Cardinality(u) = Cardinality(c.failed)
    /\ {r[1] : r \in s} = IF c.scope = "single" THEN DOMAIN c.answers ELSE {}
CallOK(c, u, s) == UnderWay1(c) /\ Agrees1(c) /\ TriesAll1(c) /\ Matches1(c, u, s)

LEMMA TaskInvByCall ==
    /\ TaskInv <=> /\ task \in [Tasks -> CallType]
                   /\ unsat \in [Tasks -> Blames] /\ sat \in [Tasks -> Blames]
                   /\ \A t \in Tasks : CallOK(task[t], unsat[t], sat[t])
    /\ TaskInv' <=> /\ task' \in [Tasks -> CallType]
                    /\ unsat' \in [Tasks -> Blames] /\ sat' \in [Tasks -> Blames]
                    /\ \A t \in Tasks : CallOK(task'[t], unsat'[t], sat'[t])
<1>1. TaskTypeOK <=> /\ task \in [Tasks -> CallType]
                     /\ unsat \in [Tasks -> Blames] /\ sat \in [Tasks -> Blames]
    BY DEF TaskTypeOK, CallType
<1>2. TaskTypeOK' <=> /\ task' \in [Tasks -> CallType]
                      /\ unsat' \in [Tasks -> Blames] /\ sat' \in [Tasks -> Blames]
    BY DEF TaskTypeOK, CallType
<1>3. /\ CallsUnderWay <=> \A t \in Tasks : UnderWay1(task[t])
      /\ ClusterAgrees <=> \A t \in Tasks : Agrees1(task[t])
      /\ SingleTriesAll <=> \A t \in Tasks : TriesAll1(task[t])
      /\ ReportsMatch <=> \A t \in Tasks : Matches1(task[t], unsat[t], sat[t])
    BY DEF CallsUnderWay, ClusterAgrees, SingleTriesAll, ReportsMatch, UnderWay1, Agrees1,
           TriesAll1, Matches1
<1>4. /\ CallsUnderWay' <=> \A t \in Tasks : UnderWay1(task'[t])
      /\ ClusterAgrees' <=> \A t \in Tasks : Agrees1(task'[t])
      /\ SingleTriesAll' <=> \A t \in Tasks : TriesAll1(task'[t])
      /\ ReportsMatch' <=> \A t \in Tasks : Matches1(task'[t], unsat'[t], sat'[t])
    BY DEF CallsUnderWay, ClusterAgrees, SingleTriesAll, ReportsMatch, UnderWay1, Agrees1,
           TriesAll1, Matches1
<1>5. TaskInv <=> TaskTypeOK /\ CallsUnderWay /\ ClusterAgrees /\ SingleTriesAll /\ ReportsMatch
    BY DEF TaskInv
<1>6. TaskInv' <=> TaskTypeOK' /\ CallsUnderWay' /\ ClusterAgrees' /\ SingleTriesAll' /\ ReportsMatch'
    BY DEF TaskInv
<1>7. \A c, u, s : CallOK(c, u, s) <=> UnderWay1(c) /\ Agrees1(c) /\ TriesAll1(c) /\ Matches1(c, u, s)
    BY DEF CallOK
<1> QED
    BY <1>1, <1>2, <1>3, <1>4, <1>5, <1>6, <1>7

\* A step changes one call and the reports about it.
LEMMA OneCallChanges ==
    ASSUME TaskInv, NEW t \in Tasks, NEW c \in CallType, NEW u \in Blames, NEW s \in Blames,
           CallOK(c, u, s),
           task' = [task EXCEPT ![t] = c], unsat' = [unsat EXCEPT ![t] = u],
           sat' = [sat EXCEPT ![t] = s]
    PROVE  TaskInv'
<1>1. /\ task \in [Tasks -> CallType] /\ unsat \in [Tasks -> Blames] /\ sat \in [Tasks -> Blames]
      /\ \A x \in Tasks : CallOK(task[x], unsat[x], sat[x])
    BY TaskInvByCall
<1>2. task' \in [Tasks -> CallType] /\ unsat' \in [Tasks -> Blames] /\ sat' \in [Tasks -> Blames]
    BY <1>1
<1>3. \A x \in Tasks : CallOK(task'[x], unsat'[x], sat'[x])
    BY <1>1
<1> QED
    BY <1>2, <1>3, TaskInvByCall

LEMMA NoTaskIs ==
    /\ NoTask \in CallType /\ NoTask.st = "none" /\ NoTask.asked = {} /\ NoTask.failed = {}
    /\ DOMAIN NoTask.answers = {}
<1>1. [p \in {} |-> NoPayload] \in Answers
  <2>1. [p \in {} |-> NoPayload] \in [{} -> Payloads]
    OBVIOUS
  <2> QED
    BY <2>1 DEF Answers
<1>2. <<>> \in Seq(ClusterPeers)
    OBVIOUS
<1>3. PICK Q, A, P : Q = Seq(ClusterPeers) /\ A = Answers /\ P = SUBSET ClusterPeers /\ {} \in P
                     /\ <<>> \in Q /\ [p \in {} |-> NoPayload] \in A
    BY <1>1, <1>2
<1>4. CallType = [st : {"none", "executing", "waiting", "returned"},
                  scope : {"local", "single", "cluster", "peer"}, depth : Nat,
                  order : Q, asked : P, answers : A, failed : P,
                  result : {"none", "ok", "error", "max depth"}]
    BY <1>3 DEF CallType
<1> QED
    BY <1>3, <1>4 DEF NoTask

\* The fields of a call, and what setting some of them leaves.
LEMMA CallFields ==
    ASSUME NEW c \in CallType
    PROVE  /\ c.st \in {"none", "executing", "waiting", "returned"}
           /\ c.scope \in {"local", "single", "cluster", "peer"} /\ c.depth \in Nat
           /\ c.order \in Seq(ClusterPeers) /\ c.asked \subseteq ClusterPeers
           /\ c.failed \subseteq ClusterPeers /\ c.answers \in Answers
           /\ DOMAIN c.answers \subseteq ClusterPeers
           /\ \A p \in DOMAIN c.answers : c.answers[p] \in Payloads
           /\ IsFiniteSet(c.failed) /\ IsFiniteSet(DOMAIN c.answers)
<1>1. /\ c.st \in {"none", "executing", "waiting", "returned"}
      /\ c.scope \in {"local", "single", "cluster", "peer"} /\ c.depth \in Nat
      /\ c.order \in Seq(ClusterPeers) /\ c.asked \subseteq ClusterPeers
      /\ c.failed \subseteq ClusterPeers /\ c.answers \in Answers
    BY DEF CallType
<1>2. PICK D \in SUBSET ClusterPeers : c.answers \in [D -> Payloads]
    BY <1>1 DEF Answers
<1>3. DOMAIN c.answers = D
    BY <1>2
<1> QED
    BY <1>1, <1>2, <1>3, FS_Subset, TaskAssumption

\* A call as it is after some fields were set.
LEMMA SetFields ==
    ASSUME NEW c \in CallType
    PROVE  /\ \A st \in {"none", "executing", "waiting", "returned"} :
                [c EXCEPT !.st = st] \in CallType
           /\ \A r \in {"none", "ok", "error", "max depth"} : [c EXCEPT !.result = r] \in CallType
           /\ \A x \in SUBSET ClusterPeers : [c EXCEPT !.asked = x] \in CallType
           /\ \A x \in SUBSET ClusterPeers : [c EXCEPT !.failed = x] \in CallType
           /\ \A x \in Answers : [c EXCEPT !.answers = x] \in CallType
           /\ \A x \in Seq(ClusterPeers) : [c EXCEPT !.order = x] \in CallType
           /\ \A x \in Nat : [c EXCEPT !.depth = x] \in CallType
           /\ \A x \in {"local", "single", "cluster", "peer"} : [c EXCEPT !.scope = x] \in CallType
<1>1. PICK Q, A, P : Q = Seq(ClusterPeers) /\ A = Answers /\ P = SUBSET ClusterPeers
    OBVIOUS
<1>2. CallType = [st : {"none", "executing", "waiting", "returned"},
                  scope : {"local", "single", "cluster", "peer"}, depth : Nat,
                  order : Q, asked : P, answers : A, failed : P,
                  result : {"none", "ok", "error", "max depth"}]
    BY <1>1 DEF CallType
<1>3. c \in [st : {"none", "executing", "waiting", "returned"},
                  scope : {"local", "single", "cluster", "peer"}, depth : Nat,
                  order : Q, asked : P, answers : A, failed : P,
                  result : {"none", "ok", "error", "max depth"}]
    BY <1>2
<1>4. /\ \A st \in {"none", "executing", "waiting", "returned"} :
                [c EXCEPT !.st = st] \in CallType
      /\ \A r \in {"none", "ok", "error", "max depth"} : [c EXCEPT !.result = r] \in CallType
      /\ \A x \in P : [c EXCEPT !.asked = x] \in CallType
      /\ \A x \in P : [c EXCEPT !.failed = x] \in CallType
    BY <1>2, <1>3
<1>5. /\ \A x \in A : [c EXCEPT !.answers = x] \in CallType
      /\ \A x \in Q : [c EXCEPT !.order = x] \in CallType
      /\ \A x \in Nat : [c EXCEPT !.depth = x] \in CallType
      /\ \A x \in {"local", "single", "cluster", "peer"} : [c EXCEPT !.scope = x] \in CallType
    BY <1>2, <1>3
<1> QED
    BY <1>1, <1>4, <1>5

LEMMA TaskInitInv == TaskInit => TaskInv
<1> SUFFICES ASSUME TaskInit PROVE TaskInv
    OBVIOUS
<1>1. /\ task = [t \in Tasks |-> NoTask]
      /\ unsat = [t \in Tasks |-> {}] /\ sat = [t \in Tasks |-> {}]
    BY DEF TaskInit
<1>2. CallOK(NoTask, {}, {})
    BY NoTaskIs, FS_EmptySet DEF CallOK, UnderWay1, Agrees1, TriesAll1, Matches1
<1>3. task \in [Tasks -> CallType] /\ unsat \in [Tasks -> Blames] /\ sat \in [Tasks -> Blames]
    BY <1>1, NoTaskIs DEF Blames
<1> QED
    BY <1>1, <1>2, <1>3, TaskInvByCall

\* Two thirds of the cluster, rounded up.
LEMMA TwoThirds ==
    ASSUME NEW n \in Nat
    PROVE  /\ n >= MinAgreeing => 3 * n >= 2 * Cardinality(ClusterPeers)
           /\ ~(n >= MinAgreeing) => 3 * n < 2 * Cardinality(ClusterPeers)
           /\ MinAgreeing \in Nat
<1>1. PICK N \in Nat : N = Cardinality(ClusterPeers)
    BY TaskAssumption, FS_CardinalityType
<1>2. MinAgreeing = (2 * N + 2) \div 3
    BY <1>1 DEF MinAgreeing
<1> QED
    BY <1>1, <1>2

\* An order is a sequence of all the peers, each once.
LEMMA OrdersAre ==
    ASSUME NEW order \in Orders
    PROVE  /\ order \in Seq(ClusterPeers) /\ Len(order) = Cardinality(ClusterPeers)
           /\ \A i, j \in 1 .. Len(order) : order[i] = order[j] => i = j
           /\ \A i \in 1 .. Len(order) : order[i] \in ClusterPeers
<1>1. PICK N \in Nat : N = Cardinality(ClusterPeers)
    BY TaskAssumption, FS_CardinalityType
<1>2. order \in [1 .. N -> ClusterPeers] /\ IsInjective(order)
    BY <1>1 DEF Orders
<1>3. order \in Seq(ClusterPeers) /\ Len(order) = N
    BY <1>1, <1>2
<1> QED
    BY <1>1, <1>2, <1>3 DEF IsInjective

LEMMA RunKeeps ==
    ASSUME TaskInv, NEW t \in Tasks, NEW depth \in Nat, NEW scope \in {"local", "single", "cluster"},
           Run(t, depth, scope)
    PROVE  TaskInv'
<1>1. /\ task \in [Tasks -> CallType] /\ unsat \in [Tasks -> Blames] /\ sat \in [Tasks -> Blames]
      /\ CallOK(task[t], unsat[t], sat[t]) /\ task[t].st = "none"
    BY TaskInvByCall DEF Run
<1>2. task[t] = NoTask
    BY <1>1 DEF CallOK, UnderWay1
<1> DEFINE call == [task[t] EXCEPT !.depth = depth, !.scope = scope]
<1>3. PICK order \in Orders :
        /\ task' = [task EXCEPT ![t] =
               IF depth > max_depth THEN [call EXCEPT !.st = "returned", !.result = "max depth"]
               ELSE IF scope = "local" THEN [call EXCEPT !.st = "executing"]
               ELSE IF ClusterPeers = {} THEN [call EXCEPT !.st = "returned", !.result = "error"]
               ELSE IF scope = "single"
                    THEN [call EXCEPT !.st = "waiting", !.order = order, !.asked = {order[1]}]
                    ELSE [call EXCEPT !.st = "waiting", !.asked = ClusterPeers]]
        /\ UNCHANGED <<unsat, sat>>
    BY DEF Run
<1>4. /\ call \in CallType /\ call.asked = {} /\ call.failed = {} /\ DOMAIN call.answers = {}
      /\ call.scope = scope
  <2>1. call = [[task[t] EXCEPT !.depth = depth] EXCEPT !.scope = scope]
    OBVIOUS
  <2>2. [task[t] EXCEPT !.depth = depth] \in CallType
    BY <1>1, SetFields
  <2>3. call \in CallType
    BY <2>1, <2>2, SetFields
  <2> QED
    BY <1>2, <2>3, NoTaskIs DEF CallType
<1> HIDE DEF call
<1>5. order \in Seq(ClusterPeers) /\ Len(order) = Cardinality(ClusterPeers)
      /\ (ClusterPeers # {} => Len(order) \in Nat \ {0} /\ order[1] \in ClusterPeers)
    BY OrdersAre, TaskAssumption, FS_CardinalityType, FS_EmptySet
<1> DEFINE c == task'[t]
<1>6. /\ unsat' = [unsat EXCEPT ![t] = unsat[t]] /\ sat' = [sat EXCEPT ![t] = sat[t]]
      /\ task' = [task EXCEPT ![t] = c]
    BY <1>1, <1>3
<1>7. {r[1] : r \in unsat[t]} = {} /\ Cardinality(unsat[t]) = Cardinality({}) /\ {r[1] : r \in sat[t]} = {}
  <2>1. Matches1(NoTask, unsat[t], sat[t]) /\ NoTask.scope = "local"
    BY <1>1, <1>2 DEF CallOK, NoTask
  <2> QED
    BY <2>1, NoTaskIs DEF Matches1
<1>8. CASE depth > max_depth
  <2>1. c = [[call EXCEPT !.st = "returned"] EXCEPT !.result = "max depth"]
    BY <1>1, <1>3, <1>8
  <2>2. /\ c \in CallType /\ c.st = "returned" /\ c.result = "max depth" /\ c.failed = {}
        /\ DOMAIN c.answers = {} /\ c.scope = scope
    <3>1. [call EXCEPT !.st = "returned"] \in CallType
      BY <1>4, SetFields
    <3>2. c \in CallType
      BY <2>1, <3>1, SetFields
    <3> QED
      BY <1>4, <2>1, <3>2 DEF CallType
  <2> HIDE DEF c
  <2>3. CallOK(c, unsat[t], sat[t])
    BY <1>7, <2>2 DEF CallOK, UnderWay1, Agrees1, TriesAll1, Matches1
  <2> QED
    BY <1>1, <1>6, <2>2, <2>3, OneCallChanges
<1>9. CASE ~(depth > max_depth) /\ scope = "local"
  <2>1. c = [call EXCEPT !.st = "executing"]
    BY <1>1, <1>3, <1>9
  <2>2. /\ c \in CallType /\ c.st = "executing" /\ c.failed = {}
        /\ DOMAIN c.answers = {} /\ c.scope = "local"
    <3>1. [call EXCEPT !.st = "executing"] \in CallType
      BY <1>4, SetFields
    <3>2. c \in CallType
      BY <2>1, <3>1
    <3> QED
      BY <1>4, <1>9, <2>1, <3>2 DEF CallType
  <2> HIDE DEF c
  <2>3. CallOK(c, unsat[t], sat[t])
    BY <1>7, <2>2 DEF CallOK, UnderWay1, Agrees1, TriesAll1, Matches1
  <2> QED
    BY <1>1, <1>6, <2>2, <2>3, OneCallChanges
<1>10. CASE ~(depth > max_depth) /\ scope # "local" /\ ClusterPeers = {}
  <2>1. c = [[call EXCEPT !.st = "returned"] EXCEPT !.result = "error"]
    BY <1>1, <1>3, <1>10
  <2>2. /\ c \in CallType /\ c.st = "returned" /\ c.result = "error" /\ c.failed = {}
        /\ DOMAIN c.answers = {} /\ c.scope = scope
    <3>1. [call EXCEPT !.st = "returned"] \in CallType
      BY <1>4, SetFields
    <3>2. c \in CallType
      BY <2>1, <3>1, SetFields
    <3> QED
      BY <1>4, <2>1, <3>2 DEF CallType
  <2> HIDE DEF c
  <2>3. CallOK(c, unsat[t], sat[t])
    BY <1>7, <1>10, <2>2 DEF CallOK, UnderWay1, Agrees1, TriesAll1, Matches1
  <2> QED
    BY <1>1, <1>6, <2>2, <2>3, OneCallChanges
<1>11. CASE ~(depth > max_depth) /\ scope = "single" /\ ClusterPeers # {}
  <2>1. c = [[[call EXCEPT !.st = "waiting"] EXCEPT !.order = order] EXCEPT !.asked = {order[1]}]
    BY <1>1, <1>3, <1>11
  <2>2. [call EXCEPT !.st = "waiting"] \in CallType
    BY <1>4, SetFields
  <2>3. [[call EXCEPT !.st = "waiting"] EXCEPT !.order = order] \in CallType
    BY <1>5, <2>2, SetFields
  <2>4. c \in CallType
    <3>1. {order[1]} \in SUBSET ClusterPeers
      BY <1>5, <1>11
    <3> QED
      BY <2>1, <2>3, <3>1, SetFields
  <2>5. /\ c.st = "waiting" /\ c.failed = {} /\ c.order = order
        /\ c.asked = {order[1]} /\ DOMAIN c.answers = {} /\ c.scope = "single"
    BY <1>4, <1>11, <2>1 DEF CallType
  <2> HIDE DEF c
  <2>6. AsksInOrder(c)
    <3>1. Cardinality(c.failed) = 0 /\ {order[i] : i \in 1 .. 0} = {}
      BY <2>5, FS_EmptySet
    <3> QED
      BY <1>5, <1>11, <2>5, <3>1 DEF AsksInOrder
  <2>7. CallOK(c, unsat[t], sat[t])
    BY <1>7, <2>5, <2>6 DEF CallOK, UnderWay1, Agrees1, TriesAll1, Matches1
  <2> QED
    BY <1>1, <1>6, <2>4, <2>7, OneCallChanges
<1>12. CASE ~(depth > max_depth) /\ scope = "cluster" /\ ClusterPeers # {}
  <2>1. c = [[call EXCEPT !.st = "waiting"] EXCEPT !.asked = ClusterPeers]
    BY <1>1, <1>3, <1>12
  <2>2. [call EXCEPT !.st = "waiting"] \in CallType
    BY <1>4, SetFields
  <2>3. c \in CallType
    BY ZenonT(30), <2>1, <2>2, SetFields
  <2>4. /\ c.st = "waiting" /\ c.failed = {} /\ c.asked = ClusterPeers
        /\ DOMAIN c.answers = {} /\ c.scope = "cluster"
    BY <1>4, <1>12, <2>1 DEF CallType
  <2> HIDE DEF c
  <2>5. AsksTheCluster(c)
    <3>1. \A v \in Payloads : Agreeing(c.answers, v) = {}
      BY <2>4 DEF Agreeing
    <3>2. ~(0 >= MinAgreeing)
      <4>1. PICK N \in Nat \ {0} : N = Cardinality(ClusterPeers)
        BY <1>12, TaskAssumption, FS_CardinalityType, FS_EmptySet
      <4>2. MinAgreeing = (2 * N + 2) \div 3
        BY <4>1 DEF MinAgreeing
      <4> QED
        BY <4>1, <4>2
    <3>3. \A v \in Payloads : ~HasConsensus(c.answers, v)
      BY <3>1, <3>2, FS_EmptySet DEF HasConsensus
    <3> QED
      BY <1>12, <2>4, <3>3 DEF AsksTheCluster
  <2>6. CallOK(c, unsat[t], sat[t])
    BY <1>7, <2>4, <2>5 DEF CallOK, UnderWay1, Agrees1, TriesAll1, Matches1
  <2> QED
    BY <1>1, <1>6, <2>3, <2>6, OneCallChanges
<1> QED
    BY <1>8, <1>9, <1>10, <1>11, <1>12

LEMMA StartTaskKeeps ==
    ASSUME TaskInv, NEW t \in Tasks, NEW scope \in {"local", "single", "cluster"},
           StartTask(t, scope)
    PROVE  TaskInv'
<1>1. \A s \in Tasks : task[s].depth + 1 \in Nat
    BY TaskInvByCall, CallFields
<1> QED
    BY <1>1, RunKeeps DEF StartTask

LEMMA ReceiveTaskKeeps ==
    ASSUME TaskInv, NEW t \in Tasks, NEW p \in ClusterPeers, ReceiveTask(t, p)
    PROVE  TaskInv'
<1>1. /\ task \in [Tasks -> CallType] /\ unsat \in [Tasks -> Blames] /\ sat \in [Tasks -> Blames]
      /\ CallOK(task[t], unsat[t], sat[t]) /\ task[t].st = "none"
    BY TaskInvByCall DEF ReceiveTask
<1>2. task[t] = NoTask
    BY <1>1 DEF CallOK, UnderWay1
<1>3. {r[1] : r \in sat[t]} = {}
  <2>1. Matches1(NoTask, unsat[t], sat[t]) /\ NoTask.scope = "local"
    BY <1>1, <1>2 DEF CallOK, NoTask
  <2> QED
    BY <2>1 DEF Matches1
<1> DEFINE c == task'[t]
<1>4. CASE /\ task' = [task EXCEPT ![t].st = "executing", ![t].scope = "peer"]
           /\ UNCHANGED <<unsat, sat>>
  <2>1. c = [[task[t] EXCEPT !.st = "executing"] EXCEPT !.scope = "peer"]
    BY <1>1, <1>4
  <2>2. [task[t] EXCEPT !.st = "executing"] \in CallType
    BY <1>1, SetFields
  <2>3. c \in CallType
    BY <2>1, <2>2, SetFields
  <2>4. c.st = "executing" /\ c.scope = "peer"
    BY <1>1, <2>1 DEF CallType
  <2>5. /\ task' = [task EXCEPT ![t] = c] /\ unsat' = [unsat EXCEPT ![t] = unsat[t]]
        /\ sat' = [sat EXCEPT ![t] = sat[t]]
    BY <1>1, <1>4
  <2> HIDE DEF c
  <2>6. CallOK(c, unsat[t], sat[t])
    BY <1>3, <2>4 DEF CallOK, UnderWay1, Agrees1, TriesAll1, Matches1
  <2> QED
    BY <1>1, <2>3, <2>5, <2>6, OneCallChanges
<1>5. CASE /\ task' = [task EXCEPT ![t].st = "returned", ![t].scope = "peer", ![t].result = "error"]
           /\ unsat' = [unsat EXCEPT ![t] = @ \cup {<<p, "weak">>}]
           /\ UNCHANGED sat
  <2>1. c = [[[task[t] EXCEPT !.st = "returned"] EXCEPT !.scope = "peer"] EXCEPT !.result = "error"]
    BY <1>1, <1>5
  <2>2. [task[t] EXCEPT !.st = "returned"] \in CallType
    BY <1>1, SetFields
  <2>3. [[task[t] EXCEPT !.st = "returned"] EXCEPT !.scope = "peer"] \in CallType
    BY <2>2, SetFields
  <2>4. c \in CallType
    BY <2>1, <2>3, SetFields
  <2>5. c.st = "returned" /\ c.scope = "peer"
    BY <1>1, <2>1 DEF CallType
  <2> DEFINE u == unsat[t] \cup {<<p, "weak">>}
  <2>6. /\ task' = [task EXCEPT ![t] = c] /\ unsat' = [unsat EXCEPT ![t] = u]
        /\ sat' = [sat EXCEPT ![t] = sat[t]]
    BY <1>1, <1>5
  <2>7. u \in Blames
    BY <1>1 DEF Blames
  <2> HIDE DEF c, u
  <2>8. CallOK(c, u, sat[t])
    BY <1>3, <2>5 DEF CallOK, UnderWay1, Agrees1, TriesAll1, Matches1
  <2> QED
    BY <1>1, <2>4, <2>6, <2>7, <2>8, OneCallChanges
<1> QED
    BY <1>4, <1>5 DEF ReceiveTask

LEMMA ExecuteTaskKeeps ==
    ASSUME TaskInv, NEW t \in Tasks, Execute(t)
    PROVE  TaskInv'
<1>1. /\ task \in [Tasks -> CallType] /\ unsat \in [Tasks -> Blames] /\ sat \in [Tasks -> Blames]
      /\ CallOK(task[t], unsat[t], sat[t]) /\ task[t].st = "executing"
    BY TaskInvByCall DEF Execute
<1>2. PICK r \in {"ok", "error"} : task' = [task EXCEPT ![t].st = "returned", ![t].result = r]
    BY DEF Execute
<1> DEFINE c == task'[t]
<1>3. c = [[task[t] EXCEPT !.st = "returned"] EXCEPT !.result = r]
    BY <1>1, <1>2
<1>4. [task[t] EXCEPT !.st = "returned"] \in CallType
    BY <1>1, SetFields
<1>5. c \in CallType
    BY <1>3, <1>4, SetFields
<1>6. /\ c.st = "returned" /\ c.scope = task[t].scope /\ c.failed = task[t].failed
      /\ c.answers = task[t].answers
    BY <1>1, <1>3 DEF CallType
<1>7. /\ task' = [task EXCEPT ![t] = c] /\ unsat' = [unsat EXCEPT ![t] = unsat[t]]
      /\ sat' = [sat EXCEPT ![t] = sat[t]]
    BY <1>1, <1>2 DEF Execute
<1> HIDE DEF c
<1>8. CallOK(c, unsat[t], sat[t])
    BY <1>1, <1>6 DEF CallOK, UnderWay1, Agrees1, TriesAll1, Matches1
<1> QED
    BY <1>1, <1>5, <1>7, <1>8, OneCallChanges

\* Answers with one more.
Answered(answers, p, v) == [q \in DOMAIN answers \cup {p} |-> IF q = p THEN v ELSE answers[q]]

LEMMA AnsweredIs ==
    ASSUME NEW a \in Answers, NEW p \in ClusterPeers, NEW v \in Payloads
    PROVE  Answered(a, p, v) \in Answers /\ DOMAIN Answered(a, p, v) = DOMAIN a \cup {p}
<1>1. PICK D \in SUBSET ClusterPeers : a \in [D -> Payloads]
    BY DEF Answers
<1>2. Answered(a, p, v) \in [D \cup {p} -> Payloads]
    BY <1>1 DEF Answered
<1> QED
    BY <1>1, <1>2 DEF Answers

\* A cluster task returns when a payload has enough answers, and what it returns are
\* those; it gives up when nobody is left to answer.
LEMMA ClusterResultOK ==
    ASSUME NEW call \in CallType, NEW v \in Payloads \cup {NoPayload}, NEW u, NEW s,
           call.scope = "cluster", call.st = "waiting",
           call.asked \cup call.failed \cup DOMAIN call.answers = ClusterPeers,
           call.asked \cap (call.failed \cup DOMAIN call.answers) = {},
           \A w \in Payloads \ {v} : ~HasConsensus(call.answers, w),
           Matches1(call, u, s)
    PROVE  ClusterResult(call, v) \in CallType /\ CallOK(ClusterResult(call, v), u, s)
<1> DEFINE c == ClusterResult(call, v)
<1>1. /\ call.answers \in Answers /\ DOMAIN call.answers \subseteq ClusterPeers
      /\ \A p \in DOMAIN call.answers : call.answers[p] \in Payloads
      /\ IsFiniteSet(DOMAIN call.answers)
    BY CallFields
<1>2. \A w : /\ IsFiniteSet(Agreeing(call.answers, w)) /\ Cardinality(Agreeing(call.answers, w)) \in Nat
             /\ Agreeing(call.answers, w) \subseteq DOMAIN call.answers
  <2> TAKE w
  <2>1. Agreeing(call.answers, w) \in SUBSET DOMAIN call.answers
    BY DEF Agreeing
  <2> QED
    BY <1>1, <2>1, FS_Subset, FS_CardinalityType
<1>3. \A w \in Payloads : ~HasConsensus(call.answers, w) =>
        3 * Cardinality(Agreeing(call.answers, w)) < 2 * Cardinality(ClusterPeers)
    BY <1>2, TwoThirds DEF HasConsensus
<1>4. CASE v # NoPayload /\ HasConsensus(call.answers, v)
  <2> DEFINE agreeing == Agreeing(call.answers, v)
             left == Restrict(call.answers, agreeing)
  <2>1. c = [[[call EXCEPT !.st = "returned"] EXCEPT !.result = "ok"] EXCEPT !.answers = left]
    BY <1>4 DEF ClusterResult, CallType
  <2>2. /\ DOMAIN left = agreeing /\ \A p \in agreeing : left[p] = v
        /\ left \in [agreeing -> Payloads] /\ agreeing \in SUBSET ClusterPeers
    BY <1>1, <1>2 DEF Restrict, Agreeing
  <2>3. left \in Answers
    BY <2>2 DEF Answers
  <2> HIDE DEF left
  <2>4. [call EXCEPT !.st = "returned"] \in CallType
    BY SetFields
  <2>5. [[call EXCEPT !.st = "returned"] EXCEPT !.result = "ok"] \in CallType
    BY <2>4, SetFields
  <2>6. c \in CallType
    <3>1. PICK before \in CallType :
             before = [[call EXCEPT !.st = "returned"] EXCEPT !.result = "ok"]
      BY <2>5
    <3>2. [before EXCEPT !.answers = left] \in CallType
      BY <2>3, SetFields
    <3> QED
      BY <2>1, <3>1, <3>2
  <2>7. /\ c.st = "returned" /\ c.result = "ok" /\ c.answers = left /\ c.scope = "cluster"
        /\ c.failed = call.failed
    BY <2>1 DEF CallType
  <2>8. 3 * Cardinality(agreeing) >= 2 * Cardinality(ClusterPeers)
    BY <1>2, <1>4, TwoThirds DEF HasConsensus
  <2> HIDE DEF c, agreeing
  <2>9. UnderWay1(c) /\ Agrees1(c) /\ TriesAll1(c)
    BY <2>2, <2>7, <2>8 DEF UnderWay1, Agrees1, TriesAll1
  <2>10. Matches1(c, u, s)
    BY <2>7 DEF Matches1
  <2> QED
    BY <2>6, <2>9, <2>10 DEF CallOK, c
<1>5. CASE ~(v # NoPayload /\ HasConsensus(call.answers, v)) /\ call.asked = {}
  <2>1. c = [[call EXCEPT !.st = "returned"] EXCEPT !.result = "error"]
    BY <1>5 DEF ClusterResult, CallType
  <2>2. [call EXCEPT !.st = "returned"] \in CallType
    BY SetFields
  <2>3. c \in CallType
    BY <2>1, <2>2, SetFields
  <2>4. /\ c.st = "returned" /\ c.result = "error" /\ c.answers = call.answers /\ c.scope = "cluster"
        /\ c.failed = call.failed
    BY <2>1 DEF CallType
  <2>5. \A w \in Payloads : ~HasConsensus(call.answers, w)
    BY <1>5, TaskAssumption
  <2> HIDE DEF c
  <2>6. UnderWay1(c) /\ Agrees1(c) /\ TriesAll1(c)
    BY <1>3, <2>4, <2>5 DEF UnderWay1, Agrees1, TriesAll1
  <2>7. Matches1(c, u, s)
    BY <2>4 DEF Matches1
  <2> QED
    BY <2>3, <2>6, <2>7 DEF CallOK, c
<1>6. CASE ~(v # NoPayload /\ HasConsensus(call.answers, v)) /\ call.asked # {}
  <2>1. c = call
    BY <1>6 DEF ClusterResult
  <2>2. \A w \in Payloads : ~HasConsensus(call.answers, w)
    BY <1>6, TaskAssumption
  <2>3. AsksTheCluster(call)
    BY <1>6, <2>2 DEF AsksTheCluster
  <2> HIDE DEF c
  <2>4. UnderWay1(c) /\ Agrees1(c) /\ TriesAll1(c)
    BY <2>1, <2>3 DEF UnderWay1, Agrees1, TriesAll1
  <2> QED
    BY <2>1, <2>4 DEF CallOK, c
<1> QED
    BY <1>4, <1>5, <1>6

\* The sum of answers of a payload that did not come does not change.
LEMMA OtherAgree ==
    ASSUME NEW a, NEW p, p \notin DOMAIN a, NEW v, NEW w, w # v
    PROVE  Agreeing(Answered(a, p, v), w) = Agreeing(a, w)
BY DEF Agreeing, Answered

LEMMA PeerAnswersKeeps ==
    ASSUME TaskInv, NEW t \in Tasks, NEW p \in ClusterPeers, NEW v \in Payloads,
           PeerAnswers(t, p, v)
    PROVE  TaskInv'
<1> DEFINE old == task[t]
           first == [old EXCEPT !.asked = old.asked \ {p}]
           call == [first EXCEPT !.answers = Answered(old.answers, p, v)]
<1>1. /\ task \in [Tasks -> CallType] /\ unsat \in [Tasks -> Blames] /\ sat \in [Tasks -> Blames]
      /\ CallOK(old, unsat[t], sat[t]) /\ old.st = "waiting" /\ p \in old.asked /\ old \in CallType
    BY TaskInvByCall DEF PeerAnswers
<1>2. /\ IF old.scope = "single"
         THEN /\ task' = [task EXCEPT ![t] = [call EXCEPT !.st = "returned", !.result = "ok"]]
              /\ sat' = [sat EXCEPT ![t] = @ \cup {<<p, "weak">>}]
         ELSE task' = [task EXCEPT ![t] = ClusterResult(call, v)] /\ UNCHANGED sat
      /\ UNCHANGED unsat
  <2>1. call = [old EXCEPT !.asked = old.asked \ {p},
                           !.answers = [q \in DOMAIN old.answers \cup {p} |->
                                          IF q = p THEN v ELSE old.answers[q]]]
    BY DEF Answered
  <2> HIDE DEF call
  <2> QED
    BY <2>1 DEF PeerAnswers
<1>3. /\ Answered(old.answers, p, v) \in Answers
      /\ DOMAIN Answered(old.answers, p, v) = DOMAIN old.answers \cup {p}
    BY <1>1, AnsweredIs, CallFields
<1>4. first \in CallType
    BY <1>1, SetFields, CallFields
<1>5. call \in CallType
    BY <1>3, <1>4, SetFields
<1>6. /\ call.asked = old.asked \ {p} /\ call.answers = Answered(old.answers, p, v)
      /\ call.scope = old.scope /\ call.failed = old.failed /\ call.st = "waiting"
    BY <1>1 DEF CallType
<1> HIDE DEF call, first, old
<1>7. CASE old.scope = "single"
  <2> DEFINE c == [[call EXCEPT !.st = "returned"] EXCEPT !.result = "ok"]
             s == sat[t] \cup {<<p, "weak">>}
  <2>1. task' = [task EXCEPT ![t] = c] /\ sat' = [sat EXCEPT ![t] = s] /\ unsat' = [unsat EXCEPT ![t] = unsat[t]]
    <3>1. c = [call EXCEPT !.st = "returned", !.result = "ok"]
      OBVIOUS
    <3> HIDE DEF c
    <3> QED
      BY <1>1, <1>2, <1>7, <3>1
  <2>2. [call EXCEPT !.st = "returned"] \in CallType
    BY <1>5, SetFields
  <2>3. c \in CallType
    BY <2>2, SetFields
  <2>4. /\ c.st = "returned" /\ c.result = "ok" /\ c.asked = call.asked /\ c.answers = call.answers
        /\ c.failed = call.failed /\ c.scope = "single"
    BY <1>5, <1>6, <1>7 DEF CallType
  <2>5. s \in Blames
    BY <1>1 DEF Blames
  <2>6. AsksInOrder(old)
    BY <1>1, <1>7 DEF CallOK, UnderWay1
  <2>7. old.asked = {p} /\ DOMAIN old.answers = {}
    BY <1>1, <2>6 DEF AsksInOrder
  <2>8. DOMAIN c.answers = {p} /\ Cardinality(DOMAIN c.answers) = 1 /\ c.asked = {}
    BY <1>3, <1>6, <2>4, <2>7, FS_Singleton
  <2>9. /\ {r[1] : r \in unsat[t]} = old.failed /\ Cardinality(unsat[t]) = Cardinality(old.failed)
        /\ {r[1] : r \in sat[t]} = {}
    BY <1>1, <1>7, <2>7 DEF CallOK, Matches1
  <2>10. {r[1] : r \in s} = {p}
    <3>1. sat[t] = {}
      BY <2>9
    <3> QED
      BY <3>1
  <2> HIDE DEF c, s
  <2>11. CallOK(c, unsat[t], s)
    BY <1>6, <2>4, <2>8, <2>9, <2>10 DEF CallOK, UnderWay1, Agrees1, TriesAll1, Matches1
  <2> QED
    BY <1>1, <2>1, <2>3, <2>5, <2>11, OneCallChanges
<1>8. CASE old.scope # "single"
  <2>1. old.scope = "cluster" /\ AsksTheCluster(old)
    BY <1>1, <1>8 DEF CallOK, UnderWay1
  <2>2. /\ call.asked \cup call.failed \cup DOMAIN call.answers = ClusterPeers
        /\ call.asked \cap (call.failed \cup DOMAIN call.answers) = {}
    BY <1>1, <1>3, <1>6, <2>1 DEF AsksTheCluster
  <2>3. ASSUME NEW w \in Payloads \ {v} PROVE ~HasConsensus(call.answers, w)
    <3>1. p \notin DOMAIN old.answers /\ ~HasConsensus(old.answers, w)
      BY <1>1, <2>1 DEF AsksTheCluster
    <3>2. Agreeing(call.answers, w) = Agreeing(old.answers, w)
      BY <1>6, <3>1, OtherAgree
    <3> QED
      BY <3>1, <3>2 DEF HasConsensus
  <2>4. Matches1(call, unsat[t], sat[t])
    BY <1>1, <1>6, <2>1 DEF CallOK, Matches1
  <2>5. ClusterResult(call, v) \in CallType /\ CallOK(ClusterResult(call, v), unsat[t], sat[t])
    BY <1>5, <1>6, <2>1, <2>2, <2>3, <2>4, ClusterResultOK
  <2>6. /\ task' = [task EXCEPT ![t] = ClusterResult(call, v)]
        /\ unsat' = [unsat EXCEPT ![t] = unsat[t]] /\ sat' = [sat EXCEPT ![t] = sat[t]]
    BY <1>1, <1>2, <1>8
  <2> QED
    BY <1>1, <2>5, <2>6, OneCallChanges
<1> QED
    BY <1>7, <1>8

Blamed(u) == {r[1] : r \in u}
BlamedOnce(u, F) == u \in Blames /\ Blamed(u) = F /\ Cardinality(u) = Cardinality(F)

\* A peer that failed is added to the reports once.
LEMMA BlameOnce ==
    ASSUME NEW u, NEW F, F \subseteq ClusterPeers, NEW p \in ClusterPeers, p \notin F,
           NEW weight \in {"weak", "strong"}, BlamedOnce(u, F)
    PROVE  BlamedOnce(u \cup {<<p, weight>>}, F \cup {p})
<1>9. u \in Blames /\ Blamed(u) = F /\ Cardinality(u) = Cardinality(F)
    BY DEF BlamedOnce
<1> DEFINE b == <<p, weight>>
<1>1. b[1] = p /\ b \in ClusterPeers \X {"weak", "strong"}
    OBVIOUS
<1> HIDE DEF b
<1>2. b \notin u
    BY <1>1, <1>9 DEF Blamed
<1>3. IsFiniteSet(F) /\ IsFiniteSet(u)
  <2>1. IsFiniteSet({"weak", "strong"})
    <3>1. IsFiniteSet({"weak"})
      BY FS_Singleton
    <3>2. IsFiniteSet({"weak"} \cup {"strong"})
      BY <3>1, FS_AddElement
    <3>3. {"weak", "strong"} = {"weak"} \cup {"strong"}
      OBVIOUS
    <3> QED
      BY <3>2, <3>3
  <2>2. IsFiniteSet(ClusterPeers \X {"weak", "strong"})
    BY <2>1, TaskAssumption, FS_Product
  <2>3. u \in SUBSET (ClusterPeers \X {"weak", "strong"})
    BY <1>9 DEF Blames
  <2> QED
    BY <2>2, <2>3, TaskAssumption, FS_Subset
<1>4. Cardinality(u \cup {b}) = Cardinality(u) + 1 /\ Cardinality(F \cup {p}) = Cardinality(F) + 1
    BY <1>2, <1>3, FS_AddElement
<1>5. u \cup {b} \in Blames
    BY <1>1, <1>9 DEF Blames
<1>6. Blamed(u \cup {b}) = F \cup {p}
    BY <1>1, <1>9 DEF Blamed
<1> QED
    BY <1>9, <1>4, <1>5, <1>6 DEF b, BlamedOnce

LEMMA PeerFailsKeeps ==
    ASSUME TaskInv, NEW t \in Tasks, NEW p \in ClusterPeers, NEW weight \in {"weak", "strong"},
           PeerFailsTask(t, p, weight)
    PROVE  TaskInv'
<1> DEFINE old == task[t]
           first == [old EXCEPT !.asked = old.asked \ {p}]
           call == [first EXCEPT !.failed = old.failed \cup {p}]
           u == unsat[t] \cup {<<p, weight>>}
<1>1. /\ task \in [Tasks -> CallType] /\ unsat \in [Tasks -> Blames] /\ sat \in [Tasks -> Blames]
      /\ CallOK(old, unsat[t], sat[t]) /\ old.st = "waiting" /\ p \in old.asked /\ old \in CallType
    BY TaskInvByCall DEF PeerFailsTask
<1>2. /\ task' = [task EXCEPT ![t] = IF call.scope = "single" THEN Fallback(call)
                                     ELSE ClusterResult(call, NoPayload)]
      /\ unsat' = [unsat EXCEPT ![t] = u] /\ sat' = [sat EXCEPT ![t] = sat[t]]
  <2>1. call = [old EXCEPT !.asked = old.asked \ {p}, !.failed = old.failed \cup {p}]
    OBVIOUS
  <2> HIDE DEF call
  <2> QED
    BY <1>1, <2>1 DEF PeerFailsTask
<1>3. first \in CallType
    BY <1>1, SetFields, CallFields
<1>4. call \in CallType
    BY ZenonT(30), <1>1, <1>3, SetFields, CallFields
<1>5. /\ call.asked = old.asked \ {p} /\ call.failed = old.failed \cup {p}
      /\ call.scope = old.scope /\ call.answers = old.answers /\ call.st = "waiting"
      /\ call.order = old.order
    BY <1>1 DEF CallType
<1> HIDE DEF call, first, old
<1>6. /\ old.scope \in {"single", "cluster"}
      /\ old.scope = "single" => AsksInOrder(old)
      /\ old.scope = "cluster" => AsksTheCluster(old)
    BY <1>1 DEF CallOK, UnderWay1
<1>7. /\ {r[1] : r \in unsat[t]} = old.failed /\ Cardinality(unsat[t]) = Cardinality(old.failed)
      /\ {r[1] : r \in sat[t]} = IF old.scope = "single" THEN DOMAIN old.answers ELSE {}
    BY <1>1, <1>6 DEF CallOK, Matches1
<1>8. old.failed \subseteq ClusterPeers /\ IsFiniteSet(old.failed) /\ Cardinality(old.failed) \in Nat
    BY <1>1, CallFields, FS_CardinalityType
<1>20. p \notin old.failed =>
         /\ u \in Blames /\ {r[1] : r \in u} = old.failed \cup {p}
         /\ Cardinality(u) = Cardinality(old.failed \cup {p})
  <2>1. unsat[t] \in Blames
    BY <1>1
  <2>2. BlamedOnce(unsat[t], old.failed)
    BY <1>7, <2>1 DEF BlamedOnce, Blamed
  <2>3. p \notin old.failed => BlamedOnce(u, old.failed \cup {p})
    BY <1>8, <2>2, BlameOnce
  <2> QED
    BY <2>3 DEF BlamedOnce, Blamed
<1> HIDE DEF u
<1>9. CASE old.scope = "single"
  <2>1. PICK k \in Nat : /\ k = Cardinality(old.failed) /\ k < Len(old.order) /\ old.order \in Orders
                         /\ old.failed = {old.order[i] : i \in 1 .. k} /\ p = old.order[k + 1]
                         /\ old.asked = {p} /\ DOMAIN old.answers = {}
    BY <1>1, <1>6, <1>8, <1>9 DEF AsksInOrder
  <2>2. PICK N \in Nat : N = Len(old.order) /\ N = Cardinality(ClusterPeers)
    BY <2>1, OrdersAre, TaskAssumption, FS_CardinalityType
  <2>11. PICK o \in Orders : o = old.order
    BY <2>1
  <2>12. /\ k < N /\ Len(o) = N /\ p = o[k + 1] /\ old.asked = {p} /\ DOMAIN old.answers = {}
         /\ old.failed = {o[i] : i \in 1 .. k}
    BY <2>1, <2>2, <2>11
  <2>13. k + 1 \in 1 .. N /\ \A i \in 1 .. k : i \in 1 .. N /\ i # k + 1
    BY <2>12
  <2>3. \A i, j \in 1 .. N : o[i] = o[j] => i = j
    BY <2>12, OrdersAre
  <2>4. p \notin old.failed
    BY <2>12, <2>13, <2>3
  <2>5. Cardinality(call.failed) = k + 1
    <3>1. Cardinality(old.failed \cup {p}) = Cardinality(old.failed) + 1
      BY <1>8, <2>4, FS_AddElement
    <3> QED
      BY <1>5, <2>1, <3>1
  <2>6. call.failed = {o[i] : i \in 1 .. k + 1}
    <3>1. 1 .. k + 1 = (1 .. k) \cup {k + 1}
      OBVIOUS
    <3> QED
      BY <1>5, <2>12, <3>1
  <2>7. u \in Blames /\ {r[1] : r \in u} = call.failed /\ Cardinality(u) = Cardinality(call.failed)
    BY <1>5, <1>20, <2>4
  <2>8. CASE k + 1 = N
    <3> DEFINE c == [[call EXCEPT !.st = "returned"] EXCEPT !.result = "error"]
    <3>1. Fallback(call) = c
      <4>1. Cardinality(call.failed) + 1 > Len(call.order)
        BY <1>5, <2>2, <2>5, <2>8
      <4> QED
        BY <4>1 DEF Fallback
    <3>2. [call EXCEPT !.st = "returned"] \in CallType
      BY <1>4, SetFields
    <3>3. c \in CallType
      BY <3>2, SetFields
    <3>4. /\ c.st = "returned" /\ c.result = "error" /\ c.failed = call.failed /\ c.scope = "single"
          /\ c.answers = call.answers
      BY <1>4, <1>5, <1>9 DEF CallType
    <3>5. call.failed = ClusterPeers
      <4>1. call.failed \subseteq ClusterPeers /\ Cardinality(call.failed) = Cardinality(ClusterPeers)
        BY <1>4, <2>2, <2>5, <2>8, CallFields
      <4>2. PICK G : G = call.failed
        OBVIOUS
      <4>3. G \in SUBSET ClusterPeers /\ Cardinality(G) = Cardinality(ClusterPeers)
        BY <4>1, <4>2
      <4>4. G = ClusterPeers
        BY <4>3, TaskAssumption, FS_Subset
      <4> QED
        BY <4>2, <4>4
    <3> HIDE DEF c
    <3>6. CallOK(c, u, sat[t])
      BY <1>5, <1>7, <1>9, <2>7, <3>4, <3>5 DEF CallOK, UnderWay1, Agrees1, TriesAll1, Matches1
    <3>7. task' = [task EXCEPT ![t] = c]
      BY <1>2, <1>5, <1>9, <3>1
    <3> QED
      BY <1>1, <1>2, <2>7, <3>3, <3>6, <3>7, OneCallChanges
  <2>9. CASE k + 1 # N
    <3> DEFINE c == [call EXCEPT !.asked = {call.order[k + 2]}]
    <3>1. Fallback(call) = c
      <4>1. ~(Cardinality(call.failed) + 1 > Len(call.order)) /\ Cardinality(call.failed) + 1 = k + 2
        BY <1>5, <2>12, <2>11, <2>5, <2>9
      <4> QED
        BY <4>1 DEF Fallback
    <3>2. k + 2 \in 1 .. N /\ call.order[k + 2] \in ClusterPeers
      <4>1. k + 2 \in 1 .. N
        BY <2>12, <2>9
      <4> QED
        BY <1>5, <2>11, <2>12, <4>1, OrdersAre
    <3>3. c \in CallType
      <4>1. {call.order[k + 2]} \in SUBSET ClusterPeers
        BY <3>2
      <4> QED
        BY <1>4, <4>1, SetFields
    <3>4. /\ c.st = "waiting" /\ c.failed = call.failed /\ c.scope = "single"
          /\ c.answers = call.answers /\ c.order = o /\ c.asked = {o[k + 2]}
      BY <1>4, <1>5, <1>9, <2>11 DEF CallType
    <3> HIDE DEF c
    <3>5. AsksInOrder(c)
      <4>1. Cardinality(c.failed) = k + 1 /\ (k + 1) + 1 = k + 2 /\ k + 1 < Len(c.order)
        BY <2>12, <2>5, <2>9, <3>4
      <4>2. DOMAIN c.answers = {} /\ c.failed = {o[i] : i \in 1 .. k + 1}
        BY <1>5, <2>12, <2>6, <3>4
      <4> QED
        BY <3>4, <4>1, <4>2 DEF AsksInOrder
    <3>6. CallOK(c, u, sat[t])
      BY <1>5, <1>7, <1>9, <2>7, <3>4, <3>5 DEF CallOK, UnderWay1, Agrees1, TriesAll1, Matches1
    <3>7. task' = [task EXCEPT ![t] = c]
      BY <1>2, <1>5, <1>9, <3>1
    <3> QED
      BY <1>1, <1>2, <2>7, <3>3, <3>6, <3>7, OneCallChanges
  <2> QED
    BY <2>8, <2>9
<1>10. CASE old.scope = "cluster"
  <2>1. AsksTheCluster(old)
    BY <1>6, <1>10
  <2>2. p \notin old.failed
    BY <1>1, <2>1 DEF AsksTheCluster
  <2>3. u \in Blames /\ {r[1] : r \in u} = call.failed /\ Cardinality(u) = Cardinality(call.failed)
    BY <1>5, <1>20, <2>2
  <2>4. /\ call.asked \cup call.failed \cup DOMAIN call.answers = ClusterPeers
        /\ call.asked \cap (call.failed \cup DOMAIN call.answers) = {}
    BY <1>1, <1>5, <2>1 DEF AsksTheCluster
  <2>5. \A w \in Payloads \ {NoPayload} : ~HasConsensus(call.answers, w)
    BY <1>5, <2>1 DEF AsksTheCluster
  <2>6. Matches1(call, u, sat[t])
    BY <1>5, <1>7, <1>10, <2>3 DEF Matches1
  <2>7. ClusterResult(call, NoPayload) \in CallType /\ CallOK(ClusterResult(call, NoPayload), u, sat[t])
    BY <1>4, <1>5, <1>10, <2>4, <2>5, <2>6, ClusterResultOK
  <2>8. task' = [task EXCEPT ![t] = ClusterResult(call, NoPayload)]
    BY <1>2, <1>5, <1>10
  <2> QED
    BY <1>1, <1>2, <2>3, <2>7, <2>8, OneCallChanges
<1> QED
    BY <1>6, <1>9, <1>10

LEMMA TaskStepKeeps == TaskInv /\ [TaskNext]_taskVars => TaskInv'
<1> SUFFICES ASSUME TaskInv, [TaskNext]_taskVars PROVE TaskInv'
    OBVIOUS
<1>1. CASE UNCHANGED taskVars
  <2>1. task' = task /\ unsat' = unsat /\ sat' = sat
    BY <1>1 DEF taskVars
  <2> QED
    BY <2>1, TaskInvByCall
<1>2. CASE TaskNext
    BY <1>2, StartTaskKeeps, ReceiveTaskKeeps, ExecuteTaskKeeps, PeerAnswersKeeps,
       PeerFailsKeeps DEF TaskNext
<1> QED
    BY <1>1, <1>2

\* Whatever peers answer, fail or disagree about: what a cluster task returns as
\* successful is one payload of two thirds of the cluster, and errors mean that none had
\* them; a single task gives up only when every peer of the cluster failed; and a peer is
\* reported once for what it did.
THEOREM TasksAgreeAndFallBack == TaskSpec => []TaskInv
BY TaskInitInv, TaskStepKeeps, PTL DEF TaskSpec

-----------------------------------------------------------------------------
(* The pinger.                                                             *)

PingKeys == PingedNodes \X PingIds
PingsTo(P, n) == {k \in P : k[1] = n}

LEMMA PingsToCount ==
    ASSUME NEW P, IsFiniteSet(P), NEW k, NEW n
    PROVE  /\ Cardinality(PingsTo(P, n)) \in Nat
           /\ Cardinality(PingsTo(P \cup {k}, n)) \in Nat
           /\ Cardinality(PingsTo(P \ {k}, n)) \in Nat
           /\ Cardinality(PingsTo(P \cup {k}, n)) <=
                Cardinality(PingsTo(P, n)) + (IF k[1] = n THEN 1 ELSE 0)
           /\ Cardinality(PingsTo(P \ {k}, n)) =
                Cardinality(PingsTo(P, n)) - (IF k \in P /\ k[1] = n THEN 1 ELSE 0)
<1> DEFINE S == PingsTo(P, n)
<1>1. IsFiniteSet(S) /\ Cardinality(S) \in Nat
    BY FS_Subset, FS_CardinalityType DEF PingsTo
<1>2. PingsTo(P \cup {k}, n) = IF k[1] = n THEN S \cup {k} ELSE S
    BY DEF PingsTo
<1>3. PingsTo(P \ {k}, n) = IF k[1] = n THEN S \ {k} ELSE S
    BY DEF PingsTo
<1>4. k[1] = n => (k \in S <=> k \in P)
    BY DEF PingsTo
<1> HIDE DEF S
<1>5. Cardinality(S \cup {k}) \in Nat /\ Cardinality(S \cup {k}) <= Cardinality(S) + 1
  <2>1. IsFiniteSet(S \cup {k})
        /\ Cardinality(S \cup {k}) = IF k \in S THEN Cardinality(S) ELSE Cardinality(S) + 1
    BY <1>1, FS_AddElement
  <2> QED
    BY <1>1, <2>1
<1>6. Cardinality(S \ {k}) \in Nat
      /\ Cardinality(S \ {k}) = IF k \in S THEN Cardinality(S) - 1 ELSE Cardinality(S)
    BY <1>1, FS_RemoveElement, FS_CardinalityType
<1>9. PICK c \in Nat, more \in Nat, less \in Nat :
        /\ c = Cardinality(S) /\ more = Cardinality(S \cup {k}) /\ less = Cardinality(S \ {k})
        /\ more <= c + 1 /\ less = IF k \in S THEN c - 1 ELSE c
    BY <1>1, <1>5, <1>6
<1>7. CASE k[1] = n
  <2>1. /\ Cardinality(PingsTo(P, n)) = c /\ Cardinality(PingsTo(P \cup {k}, n)) = more
        /\ Cardinality(PingsTo(P \ {k}, n)) = less
    BY <1>2, <1>3, <1>7, <1>9 DEF S
  <2> QED
    BY <1>4, <1>7, <1>9, <2>1
<1>8. CASE k[1] # n
    BY <1>1, <1>2, <1>3, <1>8 DEF S
<1> QED
    BY <1>7, <1>8

LEMMA RemoveAtKeeps ==
    ASSUME NEW S, NEW s \in Seq(S), NEW i \in DOMAIN s
    PROVE  RemoveAt(s, i) \in Seq(S) /\ ToSet(s) \subseteq ToSet(RemoveAt(s, i)) \cup {s[i]}
<1>1. PICK n \in Nat : n = Len(s) /\ DOMAIN s = 1 .. n /\ i \in 1 .. n
    OBVIOUS
<1>2. PICK new \in Seq(S) : new = RemoveAt(s, i)
    BY RemovedPlaces
<1>3. DOMAIN new = 1 .. n - 1 /\ \A j \in 1 .. n - 1 : new[j] = IF j < i THEN s[j] ELSE s[j + 1]
  <2>1. Len(new) = n - 1
    BY <1>1, <1>2, RemovedPlaces
  <2>2. \A j \in 1 .. Len(s) - 1 : RemoveAt(s, i)[j] = IF j < i THEN s[j] ELSE s[j + 1]
    BY RemovedPlaces
  <2>3. DOMAIN new = 1 .. n - 1
    BY <2>1
  <2> QED
    BY <1>1, <1>2, <2>2, <2>3
<1>4. ASSUME NEW j \in 1 .. n, j # i PROVE s[j] \in ToSet(new)
  <2>1. PICK k \in 1 .. n - 1 : k = IF j < i THEN j ELSE j - 1
    BY <1>1, <1>4
  <2>2. new[k] = s[j]
    BY <1>1, <1>3, <1>4, <2>1
  <2> QED
    BY <1>3, <2>2 DEF ToSet
<1> QED
    BY <1>1, <1>2, <1>4 DEF ToSet

\* A registry that was read names a node of the chain at each place.
LEMMA ShufflesAre ==
    ASSUME NEW R \in Registries, NEW s \in Shuffles(R)
    PROVE  s \in Seq(PingedNodes) /\ (s # <<>> => 0 < Len(s))
<1>1. R \subseteq PingedNodes /\ IsFiniteSet(R)
  <2>1. R \in SUBSET PingedNodes /\ IsFiniteSet(PingedNodes)
    BY PingerAssumption
  <2> QED
    BY <2>1, FS_Subset
<1>2. PICK n \in Nat : n = Cardinality(R)
    BY <1>1, FS_CardinalityType
<1>3. s \in [1 .. n -> R]
    BY <1>2 DEF Shuffles
<1>4. s \in Seq(PingedNodes)
    BY <1>1, <1>3
<1> QED
    BY <1>4

LEMMA PingerInitInv == PingerInit => PingerInv
<1> SUFFICES ASSUME PingerInit PROVE PingerInv
    OBVIOUS
<1>1. PICK R \in Registries : node_registry \in Shuffles(R)
    BY DEF PingerInit
<1>2. /\ node_registry \in Seq(PingedNodes) /\ (node_registry # <<>> => 0 < Len(node_registry))
      /\ cursor = 0 /\ pinging = TRUE
    BY <1>1, ShufflesAre DEF PingerInit
<1>6. CursorNamesNode
    BY <1>2 DEF CursorNamesNode
<1>3. PingerTypeOK
    BY <1>2, FS_EmptySet DEF PingerInit, PingerTypeOK, Zeros
<1>4. PendingHasTimer
    BY DEF PingerInit, PendingHasTimer
<1>5. ReportedOnce
  <2>1. \A n : {k \in pending_req : k[1] = n} = {}
    BY DEF PingerInit
  <2> QED
    BY <2>1, FS_EmptySet DEF PingerInit, ReportedOnce, Zeros
<1> QED
    BY <1>3, <1>4, <1>5, <1>6 DEF PingerInv

\* The cursor moves on to a node of the registry.
LEMMA NextNodeIs ==
    ASSUME PingerInv, NEW n, NextNode(n)
    PROVE  /\ pinging = TRUE /\ n \in PingedNodes /\ node_registry # <<>>
           /\ cursor' \in Nat /\ cursor' < Len(node_registry)
<1>1. /\ pinging = TRUE /\ node_registry \in Seq(PingedNodes) /\ cursor \in Nat
      /\ cursor < Len(node_registry) /\ n = node_registry[cursor + 1]
      /\ cursor' = (cursor + 1) % Len(node_registry)
    BY DEF PingerInv, PingerTypeOK, NextNode
<1>2. PICK len \in Nat : len = Len(node_registry)
    BY <1>1
<1>3. PICK c \in Nat : c = cursor + 1 /\ c \in 1 .. len /\ len # 0
    BY <1>1, <1>2
<1>7. len \in Nat \ {0}
    BY <1>3
<1>4. n \in PingedNodes
    BY <1>1, <1>2, <1>3, ElementOfSeq
<1>5. c % len \in Nat /\ c % len < len
  <2>1. c % len \in 0 .. len - 1
    BY ONLY c \in Nat, <1>7
  <2> QED
    BY <1>7, <2>1
<1>6. node_registry # <<>>
    BY <1>1, <1>2, <1>3
<1> QED
    BY <1>1, <1>2, <1>3, <1>4, <1>5, <1>6

LEMMA UnsentKeeps ==
    ASSUME PingerInv, NEW n, TickUnsent(n)
    PROVE  PingerInv'
<1>1. NextNode(n) /\ UNCHANGED <<pinging, node_registry, pending_req, timers, timed_out, datagrams,
                                 pings, answered, unanswered>>
    BY DEF TickUnsent
<1>2. pinging = TRUE /\ node_registry # <<>> /\ cursor' \in Nat /\ cursor' < Len(node_registry)
    BY <1>1, NextNodeIs
<1>3. PingerTypeOK' /\ CursorNamesNode'
    BY <1>1, <1>2 DEF PingerInv, PingerTypeOK, CursorNamesNode
<1> QED
    BY <1>1, <1>3 DEF PingerInv, PendingHasTimer, ReportedOnce

LEMMA PanicsKeeps == PingerInv /\ TickPanics => PingerInv'
<1> SUFFICES ASSUME PingerInv, TickPanics PROVE PingerInv'
    OBVIOUS
<1>1. node_registry = <<>> /\ cursor = 0
  <2>1. cursor \in Nat /\ Len(node_registry) \in Nat /\ cursor >= Len(node_registry)
    BY DEF PingerInv, PingerTypeOK, TickPanics
  <2>2. ~(cursor < Len(node_registry))
    BY <2>1
  <2> QED
    BY <2>2 DEF PingerInv, CursorNamesNode
<1>2. /\ pinging' = FALSE
      /\ UNCHANGED <<node_registry, cursor, pending_req, timers, timed_out, datagrams, pings,
                     answered, unanswered>>
    BY DEF TickPanics
<1>3. PingerTypeOK' /\ CursorNamesNode'
    BY <1>1, <1>2 DEF PingerInv, PingerTypeOK, CursorNamesNode
<1> QED
    BY <1>2, <1>3 DEF PingerInv, PendingHasTimer, ReportedOnce

\* ReportedOnce for one node, of a state or of the next one.
Once(n, P, a, u, p) == a[n] + u[n] + Cardinality(PingsTo(P, n)) <= p[n]

LEMMA OnceIs ==
    /\ ReportedOnce <=> \A n \in PingedNodes : Once(n, pending_req, answered, unanswered, pings)
    /\ ReportedOnce' <=> \A n \in PingedNodes : Once(n, pending_req', answered', unanswered', pings')
BY DEF ReportedOnce, Once, PingsTo

LEMMA TickKeeps ==
    ASSUME PingerInv, NEW n \in PingedNodes, NEW id \in PingIds, Tick(n, id)
    PROVE  PingerInv'
<1> DEFINE k == <<n, id>>
           request == [type |-> "request", node |-> n, id |-> id]
<1>1. /\ NextNode(n)
      /\ datagrams' = datagrams \cup {request}
      /\ pending_req' = pending_req \cup {k}
      /\ timers' = Append(timers, k)
      /\ pings' = [pings EXCEPT ![n] = @ + 1]
      /\ UNCHANGED <<pinging, node_registry, timed_out, answered, unanswered>>
    BY DEF Tick
<1>2. /\ node_registry \in Seq(PingedNodes)
      /\ pending_req \subseteq PingKeys /\ IsFiniteSet(pending_req)
      /\ timers \in Seq(PingKeys) /\ timed_out \in Seq(PingKeys)
      /\ datagrams \subseteq [type : {"request", "response"}, node : PingedNodes, id : PingIds]
      /\ pings \in [PingedNodes -> Nat]
      /\ answered \in [PingedNodes -> Nat] /\ unanswered \in [PingedNodes -> Nat]
    BY DEF PingerInv, PingerTypeOK, PingKeys
<1>4. /\ pinging = TRUE /\ node_registry # <<>>
      /\ cursor' \in Nat /\ cursor' < Len(node_registry)
    BY <1>1, NextNodeIs
<1>5. k \in PingKeys
    BY DEF PingKeys
<1>10. request \in [type : {"request", "response"}, node : PingedNodes, id : PingIds] /\ k[1] = n
    OBVIOUS
<1> HIDE DEF k, request
<1>6. /\ timers' \in Seq(PingKeys) /\ ToSet(timers') = ToSet(timers) \cup {k}
  <2>1. /\ timers' \in Seq(PingKeys) /\ Len(timers') = Len(timers) + 1 /\ timers'[Len(timers) + 1] = k
        /\ \A i \in 1 .. Len(timers) : timers'[i] = timers[i]
    BY <1>1, <1>2, <1>5, AppendProperties
  <2>2. DOMAIN timers' = 1 .. Len(timers) + 1 /\ DOMAIN timers = 1 .. Len(timers) /\ Len(timers) \in Nat
    BY <1>2, <2>1
  <2> QED
    BY <2>1, <2>2 DEF ToSet
<1>7. PingerTypeOK'
  <2>1. IsFiniteSet(pending_req')
    BY <1>1, <1>2, FS_AddElement
  <2>2. datagrams' \subseteq [type : {"request", "response"}, node : PingedNodes, id : PingIds]
    BY <1>1, <1>2, <1>10
  <2>3. pings' \in [PingedNodes -> Nat]
    <3>1. pings \in [PingedNodes -> Nat] /\ pings[n] + 1 \in Nat
      BY <1>2, <1>4
    <3> QED
      BY <1>1, <1>4, <3>1
  <2>4. pending_req' \subseteq PingKeys
    BY <1>1, <1>2, <1>5
  <2> QED
    BY <1>1, <1>2, <1>4, <1>6, <2>1, <2>2, <2>3, <2>4 DEF PingerTypeOK, PingKeys
<1>11. CursorNamesNode'
    BY <1>1, <1>4 DEF CursorNamesNode
<1>8. PendingHasTimer'
    BY <1>1, <1>6 DEF PingerInv, PendingHasTimer
<1>9. ReportedOnce'
  <2> SUFFICES ASSUME NEW m \in PingedNodes PROVE Once(m, pending_req', answered', unanswered', pings')
    BY OnceIs
  <2>1. Once(m, pending_req, answered, unanswered, pings)
    BY OnceIs DEF PingerInv
  <2>2. PICK c \in Nat, d \in Nat : /\ c = Cardinality(PingsTo(pending_req, m))
                                    /\ d = Cardinality(PingsTo(pending_req', m))
                                    /\ d <= c + (IF n = m THEN 1 ELSE 0)
    <3>1. /\ Cardinality(PingsTo(pending_req, m)) \in Nat
          /\ Cardinality(PingsTo(pending_req', m)) \in Nat
          /\ Cardinality(PingsTo(pending_req', m)) <=
               Cardinality(PingsTo(pending_req, m)) + (IF k[1] = m THEN 1 ELSE 0)
      BY <1>1, <1>2, PingsToCount
    <3> QED
      BY <1>10, <3>1
  <2>3. PICK a \in Nat, u \in Nat, p \in Nat : a = answered[m] /\ u = unanswered[m] /\ p = pings[m]
    BY <1>2
  <2>4. pings'[m] = IF n = m THEN p + 1 ELSE p
    BY <1>1, <1>2, <1>4, <2>3
  <2>5. (a + u) + d <= pings'[m]
    BY <2>1, <2>2, <2>3, <2>4 DEF Once
  <2> QED
    BY <1>1, <2>2, <2>3, <2>5 DEF Once
<1> QED
    BY <1>7, <1>8, <1>9, <1>11 DEF PingerInv

LEMMA RespondKeeps ==
    ASSUME PingerInv, NEW d \in datagrams, RespondToPing(d)
    PROVE  PingerInv'
<1>1. /\ datagrams' = datagrams \cup {[d EXCEPT !.type = "response"]}
      /\ UNCHANGED <<pinging, node_registry, cursor, pending_req, timers, timed_out, pings, answered, unanswered>>
    BY DEF RespondToPing
<1>2. d \in [type : {"request", "response"}, node : PingedNodes, id : PingIds]
    BY DEF PingerInv, PingerTypeOK
<1>3. [d EXCEPT !.type = "response"] \in [type : {"request", "response"}, node : PingedNodes, id : PingIds]
    BY <1>2
<1> QED
    BY <1>1, <1>3 DEF PingerInv, PingerTypeOK, CursorNamesNode, PendingHasTimer, ReportedOnce

LEMMA PongKeeps ==
    ASSUME PingerInv, NEW d \in datagrams, ReceivePong(d)
    PROVE  PingerInv'
<1> DEFINE k == <<d.node, d.id>>
<1>1. /\ k \in pending_req /\ pending_req' = pending_req \ {k}
      /\ answered' = [answered EXCEPT ![d.node] = @ + 1]
      /\ UNCHANGED <<pinging, node_registry, cursor, timers, timed_out, datagrams, pings, unanswered>>
    BY DEF ReceivePong
<1>2. /\ pending_req \subseteq PingKeys /\ IsFiniteSet(pending_req)
      /\ pings \in [PingedNodes -> Nat]
      /\ answered \in [PingedNodes -> Nat] /\ unanswered \in [PingedNodes -> Nat]
      /\ d \in [type : {"request", "response"}, node : PingedNodes, id : PingIds]
    BY DEF PingerInv, PingerTypeOK, PingKeys
<1>3. PingerTypeOK'
  <2>1. IsFiniteSet(pending_req') /\ pending_req' \subseteq PingKeys
    BY <1>1, <1>2, FS_RemoveElement
  <2>2. answered' \in [PingedNodes -> Nat]
    BY <1>1, <1>2
  <2> QED
    BY <1>1, <2>1, <2>2 DEF PingerInv, PingerTypeOK, PingKeys
<1>4. PendingHasTimer'
    BY <1>1 DEF PingerInv, PendingHasTimer
<1>5. ReportedOnce'
  <2> SUFFICES ASSUME NEW m \in PingedNodes PROVE Once(m, pending_req', answered', unanswered', pings')
    BY OnceIs
  <2>1. Once(m, pending_req, answered, unanswered, pings)
    BY OnceIs DEF PingerInv
  <2>2. PICK c \in Nat, e \in Nat : /\ c = Cardinality(PingsTo(pending_req, m))
                                    /\ e = Cardinality(PingsTo(pending_req', m))
                                    /\ e = c - (IF d.node = m THEN 1 ELSE 0)
    BY <1>1, <1>2, PingsToCount
  <2>3. PICK a \in Nat, u \in Nat, p \in Nat : a = answered[m] /\ u = unanswered[m] /\ p = pings[m]
    BY <1>2
  <2>4. answered'[m] = IF d.node = m THEN a + 1 ELSE a
    BY <1>1, <1>2, <2>3
  <2>5. (answered'[m] + u) + e <= p
    BY <2>1, <2>2, <2>3, <2>4 DEF Once
  <2> QED
    BY <1>1, <2>2, <2>3, <2>5 DEF Once
<1>6. CursorNamesNode'
    BY <1>1 DEF PingerInv, CursorNamesNode
<1> QED
    BY <1>3, <1>4, <1>5, <1>6 DEF PingerInv

LEMMA TimerFiresKeeps ==
    ASSUME PingerInv, NEW i \in DOMAIN timers, TimerFires(i)
    PROVE  PingerInv'
<1>1. /\ timers' = RemoveAt(timers, i) /\ timed_out' = Append(timed_out, timers[i])
      /\ UNCHANGED <<pinging, node_registry, cursor, pending_req, datagrams, pings, answered, unanswered>>
    BY DEF TimerFires
<1>2. timers \in Seq(PingKeys) /\ timed_out \in Seq(PingKeys) /\ timers[i] \in PingKeys
    BY ElementOfSeq DEF PingerInv, PingerTypeOK, PingKeys
<1>3. timers' \in Seq(PingKeys) /\ ToSet(timers) \subseteq ToSet(timers') \cup {timers[i]}
    BY <1>1, <1>2, RemoveAtKeeps
<1>4. /\ timed_out' \in Seq(PingKeys) /\ ToSet(timed_out') = ToSet(timed_out) \cup {timers[i]}
  <2>1. /\ timed_out' \in Seq(PingKeys) /\ Len(timed_out') = Len(timed_out) + 1
        /\ timed_out'[Len(timed_out) + 1] = timers[i]
        /\ \A j \in 1 .. Len(timed_out) : timed_out'[j] = timed_out[j]
    BY <1>1, <1>2, AppendProperties
  <2>2. /\ DOMAIN timed_out' = 1 .. Len(timed_out) + 1 /\ DOMAIN timed_out = 1 .. Len(timed_out)
        /\ Len(timed_out) \in Nat
    BY <1>2, <2>1
  <2> QED
    BY <2>1, <2>2 DEF ToSet
<1>5. PingerTypeOK'
    BY <1>1, <1>3, <1>4 DEF PingerInv, PingerTypeOK, PingKeys
<1>6. PendingHasTimer'
    BY <1>1, <1>3, <1>4 DEF PingerInv, PendingHasTimer
<1>7. ReportedOnce'
    BY <1>1 DEF PingerInv, ReportedOnce
<1>8. CursorNamesNode'
    BY <1>1 DEF PingerInv, CursorNamesNode
<1> QED
    BY <1>5, <1>6, <1>7, <1>8 DEF PingerInv

LEMMA HandleTimeoutKeeps == PingerInv /\ HandleTimeout => PingerInv'
<1> SUFFICES ASSUME PingerInv, HandleTimeout PROVE PingerInv'
    OBVIOUS
<1> DEFINE k == Head(timed_out)
<1>1. /\ timed_out # <<>> /\ timed_out' = Tail(timed_out) /\ pending_req' = pending_req \ {k}
      /\ unanswered' = IF k \in pending_req THEN [unanswered EXCEPT ![k[1]] = @ + 1] ELSE unanswered
      /\ UNCHANGED <<pinging, node_registry, cursor, timers, datagrams, pings, answered>>
    BY DEF HandleTimeout
<1>2. /\ pending_req \subseteq PingKeys /\ IsFiniteSet(pending_req) /\ timed_out \in Seq(PingKeys)
      /\ pings \in [PingedNodes -> Nat]
      /\ answered \in [PingedNodes -> Nat] /\ unanswered \in [PingedNodes -> Nat]
    BY DEF PingerInv, PingerTypeOK, PingKeys
<1>3. /\ timed_out' \in Seq(PingKeys) /\ k \in PingKeys
      /\ ToSet(timed_out) \subseteq ToSet(timed_out') \cup {k}
  <2>1. /\ timed_out' \in Seq(PingKeys) /\ k = timed_out[1] /\ Len(timed_out) \in Nat \ {0}
        /\ DOMAIN timed_out = 1 .. Len(timed_out) /\ DOMAIN timed_out' = 1 .. Len(timed_out) - 1
        /\ \A i \in DOMAIN timed_out' : timed_out'[i] = timed_out[i + 1]
    BY <1>1, <1>2, HeadTailProperties, EmptySeq
  <2>2. k \in PingKeys
    BY <1>2, <2>1, ElementOfSeq
  <2>3. ASSUME NEW i \in DOMAIN timed_out, i # 1 PROVE timed_out[i] \in ToSet(timed_out')
    <3>1. i - 1 \in DOMAIN timed_out' /\ timed_out'[i - 1] = timed_out[i]
      BY <2>1, <2>3
    <3> QED
      BY <3>1 DEF ToSet
  <2> QED
    BY <2>1, <2>2, <2>3 DEF ToSet
<1> HIDE DEF k
<1>4. k[1] \in PingedNodes
    BY <1>3 DEF PingKeys
<1>5. PingerTypeOK'
  <2>1. IsFiniteSet(pending_req') /\ pending_req' \subseteq PingKeys
    BY <1>1, <1>2, FS_RemoveElement
  <2>2. unanswered' \in [PingedNodes -> Nat]
    BY <1>1, <1>2, <1>4
  <2> QED
    BY <1>1, <1>3, <2>1, <2>2 DEF PingerInv, PingerTypeOK, PingKeys
<1>6. PendingHasTimer'
    BY <1>1, <1>3 DEF PingerInv, PendingHasTimer
<1>7. ReportedOnce'
  <2> SUFFICES ASSUME NEW m \in PingedNodes PROVE Once(m, pending_req', answered', unanswered', pings')
    BY OnceIs
  <2>1. Once(m, pending_req, answered, unanswered, pings)
    BY OnceIs DEF PingerInv
  <2>2. PICK c \in Nat, e \in Nat : /\ c = Cardinality(PingsTo(pending_req, m))
                                    /\ e = Cardinality(PingsTo(pending_req', m))
                                    /\ e = c - (IF k \in pending_req /\ k[1] = m THEN 1 ELSE 0)
    <3>1. /\ Cardinality(PingsTo(pending_req, m)) \in Nat
          /\ Cardinality(PingsTo(pending_req', m)) \in Nat
          /\ Cardinality(PingsTo(pending_req', m)) =
               Cardinality(PingsTo(pending_req, m)) - (IF k \in pending_req /\ k[1] = m THEN 1 ELSE 0)
      BY ZenonT(30), <1>1, <1>2, PingsToCount
    <3> QED
      BY <3>1
  <2>3. PICK a \in Nat, u \in Nat, p \in Nat : a = answered[m] /\ u = unanswered[m] /\ p = pings[m]
    BY <1>2
  <2>4. unanswered'[m] = IF k \in pending_req /\ k[1] = m THEN u + 1 ELSE u
    BY <1>1, <1>2, <1>4, <2>3
  <2>5. (a + unanswered'[m]) + e <= p
    BY <2>1, <2>2, <2>3, <2>4 DEF Once
  <2> QED
    BY <1>1, <2>2, <2>3, <2>5 DEF Once
<1>8. CursorNamesNode'
    BY <1>1 DEF PingerInv, CursorNamesNode
<1> QED
    BY <1>5, <1>6, <1>7, <1>8 DEF PingerInv

LEMMA RegistryChangesKeeps ==
    ASSUME PingerInv, NEW S \in Registries, RegistryChanges(S)
    PROVE  PingerInv'
<1>1. /\ node_registry' \in Shuffles(S) /\ cursor' = 0 /\ pinging = TRUE
      /\ UNCHANGED <<pinging, pending_req, timers, timed_out, datagrams, pings, answered, unanswered>>
    BY DEF RegistryChanges, ReadRegistry, PingerInv, PingerTypeOK
<1>2. node_registry' \in Seq(PingedNodes) /\ (node_registry' # <<>> => 0 < Len(node_registry'))
    BY <1>1, ShufflesAre
<1>3. PingerTypeOK' /\ CursorNamesNode'
    BY <1>1, <1>2 DEF PingerInv, PingerTypeOK, CursorNamesNode
<1> QED
    BY <1>1, <1>3 DEF PingerInv, PendingHasTimer, ReportedOnce

LEMMA PingerStepKeeps == PingerInv /\ [PingerNext]_pingerVars => PingerInv'
<1> SUFFICES ASSUME PingerInv, [PingerNext]_pingerVars PROVE PingerInv'
    OBVIOUS
<1>1. CASE UNCHANGED pingerVars
    BY <1>1 DEF pingerVars, PingerInv, PingerTypeOK, CursorNamesNode, PendingHasTimer, ReportedOnce
<1>2. CASE PingerNext
    BY <1>2, TickKeeps, UnsentKeeps, PanicsKeeps, RespondKeeps, PongKeeps, TimerFiresKeeps,
       HandleTimeoutKeeps, RegistryChangesKeeps DEF PingerNext
<1> QED
    BY <1>1, <1>2

\* Every pending ping has its timeout under way, so it leaves the table, and a ping is
\* reported as answered or as unanswered but never twice, although timeouts cross answers.
THEOREM PingsReportedOnce == PingerSpec => []PingerInv
BY PingerInitInv, PingerStepKeeps, PTL DEF PingerSpec

-----------------------------------------------------------------------------
(* The aggregator of delivery acknowledgments.                             *)

\* What DackPlaces says of the types.
LEMMA DackTyped ==
    ASSUME DackPlaces
    PROVE  /\ dack \in [Dacks -> {"new", "sent", "accepted"}] /\ adding \in Dacks \cup {NoDack}
           /\ queue \in Seq(Dacks) /\ Len(queue) \in Nat /\ DOMAIN queue = 1 .. Len(queue)
           /\ \A k \in 1 .. Len(queue) : queue[k] \in Dacks
           /\ removing \in Nat /\ removing <= Len(queue)
           /\ signed \in Seq(Range(signed)) /\ era \in Nat /\ lost \subseteq Dacks
           /\ Len(signed) \in Nat /\ DOMAIN signed = 1 .. Len(signed)
<1>1. DackTypeOK
    BY DEF DackPlaces
<1>2. queue \in Seq(Dacks) /\ removing \in 0 .. Len(queue) /\ signed \in Seq(Range(signed))
    BY <1>1 DEF DackTypeOK
<1>3. Len(queue) \in Nat /\ DOMAIN queue = 1 .. Len(queue) /\ \A k \in 1 .. Len(queue) : queue[k] \in Dacks
    BY <1>2
<1>4. Len(signed) \in Nat /\ DOMAIN signed = 1 .. Len(signed)
    BY <1>2
<1> QED
    BY <1>1, <1>2, <1>3, <1>4 DEF DackTypeOK

LEMMA DackInitPlaces == DackInit => DackPlaces
<1> SUFFICES ASSUME DackInit PROVE DackPlaces
    OBVIOUS
<1>1. /\ dack = [d \in Dacks |-> "new"] /\ adding = NoDack /\ queue = <<>> /\ removing = 0
      /\ submits = {} /\ signed = <<>> /\ era = 0 /\ lost = {}
    BY DEF DackInit
<1>2. DackTypeOK
  <2>1. <<>> \in Seq(Dacks) /\ Len(<<>>) = 0
    OBVIOUS
  <2>2. \A S : <<>> \in Seq(S)
    OBVIOUS
  <2> QED
    BY <1>1, <2>1, <2>2 DEF DackTypeOK
<1>3. DOMAIN queue = {} /\ DOMAIN signed = {}
    BY <1>1
<1>4. FileHoldsOnce
    BY <1>1, <1>3 DEF FileHoldsOnce, IsInjective
<1>5. SubmittedOnce
    BY <1>1, <1>3 DEF SubmittedOnce, UnderWay, Signed
<1>6. NothingLost
    BY <1>1 DEF NothingLost
<1>7. TransactionsFit
    BY <1>1, <1>3 DEF TransactionsFit
<1> QED
    BY <1>2, <1>4, <1>5, <1>6, <1>7 DEF DackPlaces

\* A step that neither accepts nor moves an acknowledgment.
LEMMA PlacesUnchanged ==
    ASSUME DackPlaces, dack' \in [Dacks -> {"new", "sent", "accepted"}],
           \A d \in Dacks : dack'[d] = "accepted" <=> dack[d] = "accepted",
           adding' = adding, queue' = queue, removing' = removing, submits' = submits,
           signed' = signed, era' = era /\ lost' = lost
    PROVE  DackPlaces'
<1>1. DackTypeOK'
    BY DEF DackPlaces, DackTypeOK
<1>2. FileHoldsOnce'
    BY DackTyped DEF DackPlaces, FileHoldsOnce
<1>3. \A d \in Dacks : UnderWay(d)' = UnderWay(d) /\ StillQueued(d)' = StillQueued(d) /\ Signed(d)' = Signed(d)
    BY DEF UnderWay, StillQueued, Signed
<1>4. SubmittedOnce'
    BY <1>3 DEF DackPlaces, SubmittedOnce
<1>5. NothingLost'
    BY <1>3 DEF DackPlaces, NothingLost
<1>6. TransactionsFit'
    BY DEF DackPlaces, TransactionsFit
<1> QED
    BY <1>1, <1>2, <1>4, <1>5, <1>6 DEF DackPlaces

LEMMA SendDackKeeps ==
    ASSUME DackPlaces, NEW d \in Dacks, SendDack(d)
    PROVE  DackPlaces'
<1>1. /\ dack[d] = "new" /\ dack' = [dack EXCEPT ![d] = "sent"]
      /\ adding' = adding /\ queue' = queue /\ removing' = removing /\ submits' = submits
      /\ signed' = signed /\ era' = era /\ lost' = lost
    BY DEF SendDack
<1>2. dack' \in [Dacks -> {"new", "sent", "accepted"}]
    BY <1>1, DackTyped
<1>3. \A x \in Dacks : dack'[x] = "accepted" <=> dack[x] = "accepted"
    BY <1>1, DackTyped
<1> QED
    BY <1>1, <1>2, <1>3, PlacesUnchanged

LEMMA AcceptDackKeeps ==
    ASSUME DackPlaces, NEW d \in Dacks, AcceptDack(d)
    PROVE  DackPlaces'
<1>1. /\ dack[d] = "sent" /\ adding = NoDack /\ removing = 0
      /\ dack' = [dack EXCEPT ![d] = "accepted"] /\ adding' = d
      /\ queue' = queue /\ removing' = removing /\ submits' = submits
      /\ signed' = signed /\ era' = era /\ lost' = lost
    BY DEF AcceptDack
<1>2. dack'[d] = "accepted" /\ \A x \in Dacks \ {d} : dack'[x] = dack[x]
    BY <1>1, DackTyped
<1>3. DackTypeOK'
    BY <1>1 DEF DackPlaces, DackTypeOK
<1>4. FileHoldsOnce'
  <2>1. /\ IsInjective(queue) /\ \A k \in DOMAIN queue : dack[queue[k]] = "accepted" /\ queue[k] \in Dacks
    BY DackTyped DEF DackPlaces, FileHoldsOnce
  <2>2. \A k \in DOMAIN queue : queue[k] # d /\ dack'[queue[k]] = "accepted"
    BY <1>1, <1>2, <2>1
  <2> QED
    BY <1>1, <1>2, <2>1, <2>2 DEF FileHoldsOnce
<1>5. \A x \in Dacks : UnderWay(x)' = UnderWay(x) /\ StillQueued(x)' = StillQueued(x) /\ Signed(x)' = Signed(x)
    BY <1>1 DEF UnderWay, StillQueued, Signed
<1>6. SubmittedOnce'
    BY <1>1, <1>2, <1>5, DackAssumption DEF DackPlaces, SubmittedOnce
<1>7. NothingLost'
    BY <1>1, <1>2, <1>5, DackAssumption DEF DackPlaces, NothingLost
<1>8. TransactionsFit'
    BY <1>1 DEF DackPlaces, TransactionsFit
<1> QED
    BY <1>3, <1>4, <1>6, <1>7, <1>8 DEF DackPlaces

LEMMA AddToFileKeeps ==
    ASSUME DackPlaces, AddToFile
    PROVE  DackPlaces'
<1>1. /\ adding # NoDack /\ queue' = Append(queue, adding) /\ adding' = NoDack
      /\ dack' = dack /\ removing' = removing /\ submits' = submits
      /\ signed' = signed /\ era' = era /\ lost' = lost
    BY DEF AddToFile
<1>2. /\ adding \in Dacks /\ removing = 0 /\ dack[adding] = "accepted"
      /\ \A k \in DOMAIN queue : queue[k] # adding
    BY <1>1, DackTyped DEF DackPlaces, FileHoldsOnce
<1>3. PICK n \in Nat : n = Len(queue) /\ DOMAIN queue = 1 .. n
    BY DackTyped
<1>4. /\ queue' \in Seq(Dacks) /\ Len(queue') = n + 1 /\ DOMAIN queue' = 1 .. n + 1
      /\ queue'[n + 1] = adding /\ \A k \in 1 .. n : queue'[k] = queue[k]
    BY <1>1, <1>2, <1>3, DackTyped
<1>5. DackTypeOK'
  <2>1. removing' \in 0 .. Len(queue') /\ adding' \in Dacks \cup {NoDack}
    BY <1>1, <1>2, <1>4
  <2> QED
    BY <1>1, <1>4, <2>1 DEF DackPlaces, DackTypeOK
<1>6. FileHoldsOnce'
  <2>1. IsInjective(queue) /\ \A k \in 1 .. n : dack[queue[k]] = "accepted" /\ queue[k] # adding
    BY <1>2, <1>3 DEF DackPlaces, FileHoldsOnce
  <2>2. \A k \in 1 .. n + 1 : k = n + 1 \/ k \in 1 .. n
    OBVIOUS
  <2>3. \A k \in DOMAIN queue' : dack'[queue'[k]] = "accepted"
    BY <1>1, <1>2, <1>4, <2>1, <2>2
  <2>4. IsInjective(queue')
    BY <1>3, <1>4, <2>1, <2>2 DEF IsInjective
  <2> QED
    BY <1>1, <2>3, <2>4 DEF FileHoldsOnce
<1>7. \A x \in Dacks : /\ UnderWay(x)' = UnderWay(x) /\ Signed(x)' = Signed(x)
                       /\ StillQueued(x)' <=> StillQueued(x) \/ x = adding
  <2>1. TAKE x \in Dacks
  <2>2. UnderWay(x)' = UnderWay(x) /\ Signed(x)' = Signed(x)
    BY <1>1 DEF UnderWay, Signed
  <2>3. StillQueued(x) <=> \E k \in 1 .. n : queue[k] = x
    BY <1>2, <1>3 DEF StillQueued
  <2>4. StillQueued(x)' <=> \E k \in 1 .. n + 1 : queue'[k] = x
    BY <1>1, <1>2, <1>4 DEF StillQueued
  <2>5. \A k : k \in 1 .. n + 1 <=> k = n + 1 \/ k \in 1 .. n
    OBVIOUS
  <2> QED
    BY <1>4, <2>2, <2>3, <2>4, <2>5
<1>8. SubmittedOnce'
  <2>1. SubmittedOnce
    BY DEF DackPlaces
  <2>2. ~Signed(adding) /\ ~UnderWay(adding)
    BY <1>2, <2>1 DEF SubmittedOnce
  <2>3. \A x \in Dacks, i \in DOMAIN signed : Has(signed[i], x) => (StillQueued(x)' <=> StillQueued(x))
    BY <1>7, <2>2 DEF Signed
  <2>4. \A x \in Dacks, tx \in submits : Has(tx, x) => (StillQueued(x)' <=> StillQueued(x))
    BY <1>7, <2>2 DEF UnderWay
  <2>5. \A x \in Dacks : adding' # x
    BY <1>1, DackAssumption
  <2> QED
    BY <1>1, <1>7, <2>1, <2>3, <2>4, <2>5 DEF SubmittedOnce
<1>9. NothingLost'
    BY <1>1, <1>2, <1>7, DackAssumption DEF DackPlaces, NothingLost
<1>10. TransactionsFit'
    BY <1>1 DEF DackPlaces, TransactionsFit
<1> QED
    BY <1>5, <1>6, <1>8, <1>9, <1>10 DEF DackPlaces

LEMMA RemoveFromFileKeeps ==
    ASSUME DackPlaces, RemoveFromFile
    PROVE  DackPlaces'
<1>1. /\ removing > 0 /\ queue' = Tail(queue) /\ removing' = removing - 1
      /\ dack' = dack /\ adding' = adding /\ submits' = submits
      /\ signed' = signed /\ era' = era /\ lost' = lost
    BY DEF RemoveFromFile
<1>2. PICK n \in Nat : n = Len(queue) /\ DOMAIN queue = 1 .. n /\ n > 0 /\ queue # <<>>
  <2>1. Len(queue) \in Nat /\ Len(queue) > 0 /\ DOMAIN queue = 1 .. Len(queue)
    BY <1>1, DackTyped
  <2>2. queue # <<>>
    BY <2>1
  <2> QED
    BY <2>1, <2>2
<1>3. /\ queue' \in Seq(Dacks) /\ Len(queue') = n - 1 /\ DOMAIN queue' = 1 .. n - 1
      /\ \A k \in 1 .. n - 1 : queue'[k] = queue[k + 1]
    BY <1>1, <1>2, DackTyped
<1>4. PICK r \in Nat : r = removing /\ r > 0 /\ r <= n
    BY <1>1, <1>2, DackTyped
<1>5. DackTypeOK'
  <2>1. removing' \in 0 .. Len(queue')
    BY <1>1, <1>3, <1>4
  <2> QED
    BY <1>1, <1>3, <2>1 DEF DackPlaces, DackTypeOK
<1>6. FileHoldsOnce'
  <2>1. IsInjective(queue) /\ (\A k \in 1 .. n : dack[queue[k]] = "accepted") /\ adding = NoDack
    BY <1>1, <1>2, <1>4 DEF DackPlaces, FileHoldsOnce
  <2>2. \A k \in 1 .. n - 1 : k + 1 \in 1 .. n
    OBVIOUS
  <2>3. \A k \in DOMAIN queue' : dack'[queue'[k]] = "accepted"
    BY <1>1, <1>3, <2>1, <2>2
  <2>4. IsInjective(queue')
    <3>1. SUFFICES ASSUME NEW i \in 1 .. n - 1, NEW j \in 1 .. n - 1, queue'[i] = queue'[j] PROVE i = j
      BY <1>3 DEF IsInjective
    <3>2. queue[i + 1] = queue[j + 1] /\ i + 1 \in 1 .. n /\ j + 1 \in 1 .. n
      BY <1>3, <3>1
    <3>3. i + 1 = j + 1
      BY <1>2, <2>1, <3>2 DEF IsInjective
    <3> QED
      BY <3>3
  <2> QED
    BY <1>1, <2>1, <2>3, <2>4 DEF FileHoldsOnce
<1>7. \A x \in Dacks : /\ UnderWay(x)' = UnderWay(x) /\ Signed(x)' = Signed(x)
                       /\ StillQueued(x)' <=> StillQueued(x)
  <2>1. TAKE x \in Dacks
  <2>2. UnderWay(x)' = UnderWay(x) /\ Signed(x)' = Signed(x)
    BY <1>1 DEF UnderWay, Signed
  <2>3. StillQueued(x) <=> \E k \in r + 1 .. n : queue[k] = x
    BY <1>2, <1>4 DEF StillQueued
  <2>4. StillQueued(x)' <=> \E k \in r .. n - 1 : queue'[k] = x
    BY <1>1, <1>3, <1>4 DEF StillQueued
  <2>5. \A k \in r .. n - 1 : queue'[k] = queue[k + 1] /\ k + 1 \in r + 1 .. n
    BY <1>3, <1>4
  <2>6. \A k \in r + 1 .. n : queue'[k - 1] = queue[k] /\ k - 1 \in r .. n - 1
    <3>1. TAKE k \in r + 1 .. n
    <3>2. k - 1 \in 1 .. n - 1 /\ k - 1 \in r .. n - 1 /\ (k - 1) + 1 = k
      BY <1>4
    <3> QED
      BY <1>3, <3>2
  <2> QED
    BY <2>2, <2>3, <2>4, <2>5, <2>6
<1>8. SubmittedOnce'
    BY <1>1, <1>7 DEF DackPlaces, SubmittedOnce
<1>9. NothingLost'
    BY <1>1, <1>7 DEF DackPlaces, NothingLost
<1>10. TransactionsFit'
    BY <1>1 DEF DackPlaces, TransactionsFit
<1> QED
    BY <1>5, <1>6, <1>8, <1>9, <1>10 DEF DackPlaces

\* A write that fails, and a submission that is refused, only lose.
LEMMA AddFailsKeeps ==
    ASSUME DackPlaces, AddFails
    PROVE  DackPlaces'
<1>1. /\ adding # NoDack /\ adding' = NoDack /\ lost' = lost \cup {adding}
      /\ dack' = dack /\ queue' = queue /\ removing' = removing /\ submits' = submits
      /\ signed' = signed /\ era' = era
    BY DEF AddFails
<1>2. DackTypeOK'
    BY <1>1, DackTyped DEF DackPlaces, DackTypeOK
<1>3. FileHoldsOnce'
    BY <1>1 DEF DackPlaces, FileHoldsOnce
<1>4. \A d \in Dacks : UnderWay(d)' = UnderWay(d) /\ StillQueued(d)' = StillQueued(d) /\ Signed(d)' = Signed(d)
    BY <1>1 DEF UnderWay, StillQueued, Signed
<1>5. SubmittedOnce'
    BY <1>1, <1>4, DackAssumption DEF DackPlaces, SubmittedOnce
<1>6. NothingLost'
    BY <1>1, <1>4 DEF DackPlaces, NothingLost
<1>7. TransactionsFit'
    BY <1>1 DEF DackPlaces, TransactionsFit
<1> QED
    BY <1>2, <1>3, <1>5, <1>6, <1>7 DEF DackPlaces

LEMMA SubmitFailsKeeps ==
    ASSUME DackPlaces, NEW tx \in submits, SubmitFails(tx)
    PROVE  DackPlaces'
<1>1. /\ submits' = submits \ {tx} /\ lost' = lost \cup {d \in Dacks : Has(tx, d)}
      /\ dack' = dack /\ queue' = queue /\ removing' = removing /\ adding' = adding
      /\ signed' = signed /\ era' = era
    BY DEF SubmitFails
<1>2. DackTypeOK'
    BY <1>1, DackTyped DEF DackPlaces, DackTypeOK
<1>3. FileHoldsOnce'
    BY <1>1 DEF DackPlaces, FileHoldsOnce
<1>4. \A d \in Dacks : /\ StillQueued(d)' = StillQueued(d) /\ Signed(d)' = Signed(d)
                       /\ UnderWay(d) <=> UnderWay(d)' \/ Has(tx, d)
    BY <1>1 DEF UnderWay, StillQueued, Signed
<1>5. SubmittedOnce'
    BY <1>1, <1>4 DEF DackPlaces, SubmittedOnce
<1>6. NothingLost'
    BY <1>1, <1>4 DEF DackPlaces, NothingLost
<1>7. TransactionsFit'
    BY <1>1 DEF DackPlaces, TransactionsFit
<1> QED
    BY <1>2, <1>3, <1>5, <1>6, <1>7 DEF DackPlaces

\* A removal that fails leaves more in the file, and no transaction is of the new era.
LEMMA RemoveFailsKeeps ==
    ASSUME DackPlaces, RemoveFails
    PROVE  DackPlaces'
<1>1. /\ removing > 0 /\ removing' = removing - 1 /\ era' = era + 1
      /\ dack' = dack /\ queue' = queue /\ adding' = adding /\ submits' = submits
      /\ signed' = signed /\ lost' = lost
    BY DEF RemoveFails
<1>2. PICK s \in Nat : s = era
    BY DackTyped
<1>3. PICK m \in Nat : m = removing /\ m > 0 /\ m <= Len(queue) /\ Len(queue) \in Nat
    BY <1>1, DackTyped
<1>4. DackTypeOK'
  <2>1. removing' \in 0 .. Len(queue') /\ era' \in Nat
    BY <1>1, <1>2, <1>3
  <2> QED
    BY <1>1, <2>1 DEF DackPlaces, DackTypeOK
<1>5. FileHoldsOnce'
    BY <1>1, <1>3 DEF DackPlaces, FileHoldsOnce
<1>6. \A d \in Dacks : /\ UnderWay(d)' = UnderWay(d) /\ Signed(d)' = Signed(d)
                       /\ StillQueued(d) => StillQueued(d)'
  <2>1. \A k \in m + 1 .. Len(queue) : k \in (m - 1) + 1 .. Len(queue)
    BY <1>3
  <2> QED
    BY <1>1, <1>3, <2>1 DEF UnderWay, StillQueued, Signed
<1>7. /\ \A i \in DOMAIN signed : signed[i].era \in 0 .. s + 1 /\ signed[i].era # s + 1
      /\ \A tx \in submits : tx.era \in 0 .. s + 1 /\ tx.era # s + 1
    BY <1>2 DEF DackPlaces, SubmittedOnce
<1>8. SubmittedOnce'
    BY <1>1, <1>2, <1>6, <1>7 DEF DackPlaces, SubmittedOnce
<1>9. NothingLost'
    BY <1>1, <1>6 DEF DackPlaces, NothingLost
<1>10. TransactionsFit'
    BY <1>1 DEF DackPlaces, TransactionsFit
<1> QED
    BY <1>4, <1>5, <1>8, <1>9, <1>10 DEF DackPlaces

LEMMA StopAggregatorKeeps ==
    ASSUME DackPlaces, StopAggregator
    PROVE  DackPlaces'
<1>1. /\ adding' = NoDack /\ removing' = 0 /\ submits' = {} /\ era' = era + 1
      /\ lost' = lost \cup {d \in Dacks : /\ adding = d \/ UnderWay(d)
                                          /\ d \notin Range(queue)}
      /\ dack' = dack /\ queue' = queue /\ signed' = signed
    BY DEF StopAggregator
<1>2. PICK s \in Nat : s = era
    BY DackTyped
<1>3. DackTypeOK'
  <2>1. /\ removing' \in 0 .. Len(queue') /\ adding' \in Dacks \cup {NoDack} /\ era' \in Nat
        /\ lost' \subseteq Dacks
    BY <1>1, <1>2, DackTyped
  <2> QED
    BY <1>1, <2>1 DEF DackPlaces, DackTypeOK
<1>4. FileHoldsOnce'
    BY <1>1 DEF DackPlaces, FileHoldsOnce
<1>5. \A i \in DOMAIN signed : signed[i].era \in 0 .. s + 1 /\ signed[i].era # s + 1
    BY <1>2 DEF DackPlaces, SubmittedOnce
<1>9. \A d \in Dacks : Signed(d)' = Signed(d) /\ ~UnderWay(d)'
    BY <1>1 DEF Signed, UnderWay
<1>6. SubmittedOnce'
    BY <1>1, <1>2, <1>5, <1>9, DackAssumption DEF DackPlaces, SubmittedOnce
<1>10. \A d \in Dacks : (d \in Range(queue) \/ StillQueued(d)) => StillQueued(d)'
  <2>1. DOMAIN queue = 1 .. Len(queue) /\ Len(queue) \in Nat /\ removing \in Nat
    BY DackTyped
  <2>2. \A k \in removing + 1 .. Len(queue) : k \in 1 .. Len(queue)
    BY <2>1
  <2>3. \A d \in Dacks : StillQueued(d)' <=> \E k \in 1 .. Len(queue) : queue[k] = d
    BY <1>1, <2>1 DEF StillQueued
  <2> QED
    BY <2>1, <2>2, <2>3 DEF Range, StillQueued
<1>7. NothingLost'
    BY <1>1, <1>9, <1>10 DEF DackPlaces, NothingLost
<1>8. TransactionsFit'
    BY <1>1 DEF DackPlaces, TransactionsFit
<1> QED
    BY <1>3, <1>4, <1>6, <1>7, <1>8 DEF DackPlaces

LEMMA SubmitToSignerKeeps ==
    ASSUME DackPlaces, NEW tx \in submits, SubmitToSigner(tx)
    PROVE  DackPlaces'
<1>1. /\ submits' = submits \ {tx} /\ signed' = Append(signed, tx)
      /\ dack' = dack /\ adding' = adding /\ queue' = queue /\ removing' = removing
      /\ era' = era /\ lost' = lost
    BY DEF SubmitToSigner
<1>2. PICK n \in Nat : n = Len(signed) /\ DOMAIN signed = 1 .. n
    BY DackTyped
<1>3. PICK S : S = Range(signed) /\ signed \in Seq(S)
    BY DackTyped
<1>4. /\ signed' \in Seq(S \cup {tx}) /\ Len(signed') = n + 1 /\ DOMAIN signed' = 1 .. n + 1
      /\ signed'[n + 1] = tx /\ \A i \in 1 .. n : signed'[i] = signed[i]
  <2>1. signed \in Seq(S \cup {tx})
    BY <1>3
  <2> QED
    BY <1>1, <1>2, <2>1
<1>5. \A i : i \in 1 .. n + 1 <=> i = n + 1 \/ i \in 1 .. n
    OBVIOUS
<1>6. DackTypeOK'
  <2>1. Range(signed') = S \cup {tx}
    BY <1>2, <1>3, <1>4, <1>5 DEF Range
  <2>2. (Range(signed))' = Range(signed')
    BY DEF Range
  <2> QED
    BY <1>1, <1>4, <2>1, <2>2 DEF DackPlaces, DackTypeOK
<1>7. FileHoldsOnce'
    BY <1>1 DEF DackPlaces, FileHoldsOnce
<1>8. \A d \in Dacks : /\ StillQueued(d)' = StillQueued(d)
                       /\ Signed(d)' <=> Signed(d) \/ Has(tx, d)
                       /\ UnderWay(d) <=> UnderWay(d)' \/ Has(tx, d)
  <2>1. TAKE d \in Dacks
  <2>2. StillQueued(d)' = StillQueued(d)
    BY <1>1 DEF StillQueued
  <2>3. Signed(d)' <=> Signed(d) \/ Has(tx, d)
    BY <1>2, <1>4, <1>5 DEF Signed
  <2>4. UnderWay(d) <=> UnderWay(d)' \/ Has(tx, d)
    BY <1>1 DEF UnderWay
  <2> QED
    BY <2>2, <2>3, <2>4
<1>9. SubmittedOnce
    BY DEF DackPlaces
<1>10. tx.era \in 0 .. era /\ era \in Nat
    BY <1>9, DackTyped DEF SubmittedOnce
<1>11. \A d \in Dacks : Has(tx, d) =>
         /\ dack[d] = "accepted" /\ adding # d /\ (tx.era = era => ~StillQueued(d))
         /\ \A i \in 1 .. n : ~(Has(signed[i], d) /\ signed[i].era = tx.era)
         /\ \A x \in submits' : ~(Has(x, d) /\ x.era = tx.era)
    BY <1>1, <1>2, <1>8, <1>9 DEF SubmittedOnce
<1>12. SubmittedOnce'
  <2>1. \A x \in submits' : x.era \in 0 .. era'
    BY <1>1, <1>9 DEF SubmittedOnce
  <2>2. \A i \in DOMAIN signed' : signed'[i].era \in 0 .. era'
    BY <1>1, <1>2, <1>4, <1>5, <1>9, <1>10 DEF SubmittedOnce
  <2>3. ASSUME NEW d \in Dacks
        PROVE  /\ \A i, j \in DOMAIN signed' :
                    Has(signed'[i], d) /\ Has(signed'[j], d) /\ signed'[i].era = signed'[j].era => i = j
               /\ \A x, other \in submits' :
                    Has(x, d) /\ Has(other, d) /\ x.era = other.era => x = other
    <3>1. \A i, j \in 1 .. n :
             Has(signed[i], d) /\ Has(signed[j], d) /\ signed[i].era = signed[j].era => i = j
      BY <1>2, <1>9 DEF SubmittedOnce
    <3>3. \A i, j \in DOMAIN signed' :
             Has(signed'[i], d) /\ Has(signed'[j], d) /\ signed'[i].era = signed'[j].era => i = j
      BY <1>4, <1>5, <1>11, <3>1
    <3>4. \A x, other \in submits' : Has(x, d) /\ Has(other, d) /\ x.era = other.era => x = other
      BY <1>1, <1>9 DEF SubmittedOnce
    <3> QED
      BY <3>3, <3>4
  <2>4. ASSUME NEW d \in Dacks
        PROVE  /\ \A i \in DOMAIN signed', x \in submits' :
                    ~(Has(signed'[i], d) /\ Has(x, d) /\ signed'[i].era = x.era)
               /\ \A i \in DOMAIN signed' :
                    Has(signed'[i], d) /\ signed'[i].era = era' => ~StillQueued(d)'
               /\ \A x \in submits' : Has(x, d) /\ x.era = era' => ~StillQueued(d)'
               /\ Signed(d)' \/ UnderWay(d)' => dack'[d] = "accepted" /\ adding' # d
    <3>1. /\ \A i \in 1 .. n, x \in submits' :
               ~(Has(signed[i], d) /\ Has(x, d) /\ signed[i].era = x.era)
          /\ \A i \in 1 .. n : Has(signed[i], d) /\ signed[i].era = era => ~StillQueued(d)
          /\ \A x \in submits : Has(x, d) /\ x.era = era => ~StillQueued(d)
          /\ Signed(d) \/ UnderWay(d) => dack[d] = "accepted" /\ adding # d
      BY <1>1, <1>2, <1>9 DEF SubmittedOnce
    <3>2. \A i \in DOMAIN signed', x \in submits' :
             ~(Has(signed'[i], d) /\ Has(x, d) /\ signed'[i].era = x.era)
      BY <1>4, <1>5, <1>11, <3>1
    <3>3. \A i \in DOMAIN signed' :
             Has(signed'[i], d) /\ signed'[i].era = era' => ~StillQueued(d)'
      BY <1>1, <1>4, <1>5, <1>8, <1>11, <3>1
    <3>4. \A x \in submits' : Has(x, d) /\ x.era = era' => ~StillQueued(d)'
      BY <1>1, <1>8, <3>1
    <3>5. Signed(d)' \/ UnderWay(d)' => dack'[d] = "accepted" /\ adding' # d
      BY <1>1, <1>8, <3>1
    <3> QED
      BY <3>2, <3>3, <3>4, <3>5
  <2> QED
    BY <2>1, <2>2, <2>3, <2>4 DEF SubmittedOnce
<1>13. NothingLost'
    BY <1>1, <1>8 DEF DackPlaces, NothingLost
<1>14. TransactionsFit'
  <2>1. (\A i \in 1 .. n : TransactionFits(signed[i])) /\ \A x \in submits : TransactionFits(x)
    BY <1>2 DEF DackPlaces, TransactionsFit
  <2>2. \A i \in 1 .. n + 1 : TransactionFits(signed'[i])
    BY <1>4, <1>5, <2>1
  <2> QED
    BY <1>1, <1>4, <2>1, <2>2 DEF TransactionsFit
<1> QED
    BY <1>6, <1>7, <1>12, <1>13, <1>14 DEF DackPlaces

\* The least number of a set of numbers.
LEMMA LeastOf ==
    ASSUME NEW S, S \subseteq Nat, S # {}
    PROVE  \E x \in S : \A y \in S : x <= y
<1> DEFINE R == {ss \in Nat \X Nat : ss[1] < ss[2]}
<1>1. IsWellFoundedOn(R, Nat)
    BY NatLessThanWellFounded DEF OpToRel
<1>2. PICK x \in S : \A y \in S : ~(<<y, x>> \in R)
  <2> HIDE DEF R
  <2> QED
    BY <1>1, WFMin
<1>3. ASSUME NEW y \in S, ~(x <= y)
      PROVE  FALSE
  <2>1. y \in Nat /\ x \in Nat /\ y < x
    BY <1>3
  <2>2. <<y, x>> \in Nat \X Nat /\ <<y, x>>[1] = y /\ <<y, x>>[2] = x
    BY <2>1
  <2> QED
    BY <1>2, <2>1, <2>2
<1> QED
    BY <1>3

\* What is taken is some of the file, and fits.
LEMMA TakenFits ==
    ASSUME DackPlaces
    PROVE  Taken \in 0 .. Len(queue) /\ Fits(Taken)
<1>1. PICK n \in Nat : n = Len(queue)
    BY DackTyped
<1> DEFINE S == {k \in 1 .. n + 1 : k = n + 1 \/ ~(Cardinality(Before(k)) < MaxDacksPerTx)}
<1>2. PICK m \in S : \A y \in S : m <= y
  <2>1. S \subseteq Nat /\ n + 1 \in S
    OBVIOUS
  <2> HIDE DEF S
  <2> QED
    BY <2>1, LeastOf
<1>3. PICK t \in 0 .. n : t = m - 1
    BY <1>2
<1>4. \A k \in 1 .. t : Cardinality(Before(k)) < MaxDacksPerTx
  <2>1. TAKE k \in 1 .. t
  <2>2. k \in 1 .. n + 1 /\ ~(m <= k)
    BY <1>2, <1>3
  <2> QED
    BY <1>2, <2>2
<1>5. t < n => ~(Cardinality(Before(t + 1)) < MaxDacksPerTx)
  <2>1. t + 1 = m
    BY <1>2, <1>3
  <2> QED
    BY <1>2, <1>3, <2>1
<1>6. Fits(t) /\ (t < n => ~Fits(t + 1))
  <2>1. Fits(t)
    BY <1>4 DEF Fits
  <2>2. t + 1 \in 1 .. t + 1
    BY <1>3
  <2> QED
    BY <1>5, <2>1, <2>2 DEF Fits
<1> QED
    BY <1>1, <1>3, <1>6 DEF Taken

\* The transaction of a service of which some is taken.
LEMMA ProofsFit ==
    ASSUME DackPlaces, NEW t \in 0 .. Len(queue), Fits(t), NEW i \in 1 .. t, NEW stop,
           NEW tx, tx = [proofs |-> ProofsOf(ServiceOf[queue[i]], t), era |-> stop]
    PROVE  /\ TransactionFits(tx) /\ tx.era = stop
           /\ \A d : Has(tx, d) <=> \E k \in 1 .. t : queue[k] = d /\ ServiceOf[d] = ServiceOf[queue[i]]
<1>1. PICK n \in Nat : /\ n = Len(queue) /\ DOMAIN queue = 1 .. n /\ t \in 0 .. n
                       /\ \A k \in 1 .. n : queue[k] \in Dacks
    BY DackTyped
<1>2. \A k \in 1 .. t : k \in 1 .. n
    BY <1>1
<1> DEFINE svc == ServiceOf[queue[i]]
           places == {k \in 1 .. t : ServiceOf[queue[k]] = svc}
<1>3. tx.era = stop /\ tx.proofs = [k \in places |-> queue[k]]
    BY DEF ProofsOf
<1>4. DOMAIN tx.proofs = places /\ \A k \in places : tx.proofs[k] = queue[k]
    BY <1>3
<1>5. \A d : Has(tx, d) <=> \E k \in 1 .. t : queue[k] = d /\ ServiceOf[d] = svc
    BY <1>4 DEF Has
<1>6. i \in places /\ places \subseteq 1 .. t
    OBVIOUS
<1>7. IsFiniteSet(1 .. t) /\ IsFiniteSet(places)
  <2>1. IsFiniteSet(1 .. t)
    BY <1>1, FS_Interval
  <2> QED
    BY <1>6, <2>1, FS_Subset
<1>8. Cardinality(places) \in 1 .. MaxDacksPerTx
  <2> DEFINE bounds == {b \in Nat : places \subseteq 1 .. b}
  <2>1. PICK b \in bounds : \A y \in bounds : b <= y
    <3>1. bounds \subseteq Nat /\ t \in bounds
      BY <1>1, <1>6
    <3> HIDE DEF bounds
    <3> QED
      BY <3>1, LeastOf
  <2>2. b \in Nat /\ places \subseteq 1 .. b /\ b >= 1
    BY <1>6, <2>1
  <2>3. b \in places
    <3>1. SUFFICES ASSUME b \notin places PROVE FALSE
      OBVIOUS
    <3>2. places \subseteq 1 .. b - 1 /\ b - 1 \in Nat
      BY <2>2, <3>1
    <3>3. ~(b <= b - 1)
      BY <2>2
    <3> QED
      BY <2>1, <3>2, <3>3
  <2>4. b \in 1 .. t /\ ServiceOf[queue[b]] = svc
    BY <2>3
  <2>5. Before(b) = places \ {b}
    <3>1. \A j : j \in 1 .. b - 1 => j \in 1 .. t
      BY <2>4, <1>1
    <3>2. \A j \in places : j # b => j \in 1 .. b - 1
      BY <2>2
    <3>3. b \notin 1 .. b - 1
      BY <2>2
    <3>4. Before(b) = {j \in 1 .. b - 1 : ServiceOf[queue[j]] = svc}
      BY <2>4 DEF Before
    <3> QED
      BY <3>1, <3>2, <3>3, <3>4
  <2>6. Cardinality(Before(b)) < MaxDacksPerTx
    BY <2>4 DEF Fits
  <2> HIDE DEF places
  <2>7. Cardinality(places \ {b}) = Cardinality(places) - 1 /\ Cardinality(places) \in Nat
    BY <1>7, <2>3, FS_RemoveElement, FS_CardinalityType
  <2>8. Cardinality(places) # 0
    BY <1>6, <1>7, FS_EmptySet
  <2>9. PICK c \in Nat, max \in Nat : c = Cardinality(places) /\ max = MaxDacksPerTx
    BY <2>7, DackAssumption
  <2>10. c - 1 < max /\ c # 0
    BY <2>5, <2>6, <2>7, <2>8, <2>9
  <2>11. c \in 1 .. max
    BY <2>10
  <2> QED
    BY <2>9, <2>11
<1>9. IsInjective(tx.proofs)
    BY <1>1, <1>2, <1>4 DEF DackPlaces, FileHoldsOnce, IsInjective
<1>10. \A k \in places : queue[k] \in Dacks /\ ServiceOf[queue[k]] = svc
    BY <1>1, <1>2
<1> HIDE DEF places
<1>11. TransactionFits(tx)
    BY <1>4, <1>7, <1>8, <1>9, <1>10 DEF TransactionFits
<1> QED
    BY <1>3, <1>5, <1>11

LEMMA SubmitDacksKeeps ==
    ASSUME DackPlaces, SubmitDacks
    PROVE  DackPlaces'
<1>1. PICK t \in 0 .. Len(queue) : t = Taken /\ Fits(t)
    BY TakenFits
<1> DEFINE built(i) == [proofs |-> ProofsOf(ServiceOf[queue[i]], t), era |-> era]
           new == {built(i) : i \in 1 .. t}
<1>2. /\ adding = NoDack /\ removing = 0 /\ submits' = submits \cup new /\ removing' = t
      /\ dack' = dack /\ adding' = adding /\ queue' = queue /\ signed' = signed
      /\ era' = era /\ lost' = lost
    BY <1>1 DEF SubmitDacks, NumToRemove
<1>3. PICK n \in Nat : /\ n = Len(queue) /\ DOMAIN queue = 1 .. n /\ t \in 0 .. n
                       /\ \A k \in 1 .. n : queue[k] \in Dacks
    BY DackTyped
<1>4. \A i \in 1 .. t :
         /\ TransactionFits(built(i)) /\ built(i).era = era
         /\ \A d : Has(built(i), d) <=>
                     \E k \in 1 .. t : queue[k] = d /\ ServiceOf[d] = ServiceOf[queue[i]]
    BY <1>1, ProofsFit
<1>5. \A i, j \in 1 .. t : ServiceOf[queue[i]] = ServiceOf[queue[j]] => built(i) = built(j)
    OBVIOUS
<1> HIDE DEF built
<1>6. /\ IsInjective(queue) /\ SubmittedOnce /\ FileHoldsOnce /\ DackTypeOK
      /\ \A k \in 1 .. n : dack[queue[k]] = "accepted"
    BY <1>3 DEF DackPlaces, FileHoldsOnce
<1> DEFINE taken(d) == \E k \in 1 .. t : queue[k] = d
<1>7. \A d \in Dacks : UnderWay(d)' <=> UnderWay(d) \/ taken(d)
  <2>1. TAKE d \in Dacks
  <2>2. UnderWay(d)' <=> UnderWay(d) \/ \E i \in 1 .. t : Has(built(i), d)
    BY <1>2 DEF UnderWay
  <2> QED
    BY <1>4, <2>2
<1>8. \A d \in Dacks : /\ StillQueued(d) <=> \E k \in 1 .. n : queue[k] = d
                       /\ StillQueued(d)' <=> \E k \in t + 1 .. n : queue[k] = d
    BY <1>2, <1>3 DEF StillQueued
<1>9. \A k : /\ k \in 1 .. t => k \in 1 .. n /\ k \notin t + 1 .. n
             /\ k \in t + 1 .. n => k \in 1 .. n
             /\ k \in 1 .. n => k \in 1 .. t \/ k \in t + 1 .. n
    BY <1>3
<1>10. \A d \in Dacks : /\ StillQueued(d) <=> taken(d) \/ StillQueued(d)'
                        /\ ~(taken(d) /\ StillQueued(d)')
                        /\ taken(d) => dack[d] = "accepted"
  <2>1. TAKE d \in Dacks
  <2>2. StillQueued(d) <=> taken(d) \/ StillQueued(d)'
    BY <1>8, <1>9
  <2>3. ~(taken(d) /\ StillQueued(d)')
    <3>1. SUFFICES ASSUME NEW k \in 1 .. t, NEW j \in t + 1 .. n, queue[k] = d, queue[j] = d
                   PROVE  FALSE
      BY <1>8
    <3>2. k = j
      BY <1>3, <1>6, <1>9, <3>1 DEF IsInjective
    <3> QED
      BY <1>9, <3>2
  <2>4. taken(d) => dack[d] = "accepted"
    BY <1>6, <1>9
  <2> QED
    BY <2>2, <2>3, <2>4
<1>11. \A d \in Dacks : Signed(d)' = Signed(d)
    BY <1>2 DEF Signed
<1>12. \A i \in 1 .. t, d \in Dacks : Has(built(i), d) => taken(d)
    BY <1>4
<1>13. \A i, j \in 1 .. t, d \in Dacks : Has(built(i), d) /\ Has(built(j), d) => built(i) = built(j)
    BY <1>4, <1>5
<1> HIDE DEF taken
<1>14. DackTypeOK'
    BY <1>2, <1>3, <1>6 DEF DackTypeOK
<1>15. FileHoldsOnce'
    BY <1>2, <1>6 DEF FileHoldsOnce
<1>16. SubmittedOnce'
  <2>1. \A tx \in submits' : tx.era \in 0 .. era'
    BY <1>2, <1>4, <1>6, DackTyped DEF SubmittedOnce
  <2>2. \A i \in DOMAIN signed' : signed'[i].era \in 0 .. era'
    BY <1>2, <1>6 DEF SubmittedOnce
  <2>3. ASSUME NEW d \in Dacks
        PROVE  /\ \A i, j \in DOMAIN signed' :
                    Has(signed'[i], d) /\ Has(signed'[j], d) /\ signed'[i].era = signed'[j].era => i = j
               /\ \A tx, other \in submits' :
                    Has(tx, d) /\ Has(other, d) /\ tx.era = other.era => tx = other
               /\ \A i \in DOMAIN signed', tx \in submits' :
                    ~(Has(signed'[i], d) /\ Has(tx, d) /\ signed'[i].era = tx.era)
               /\ \A tx \in submits' : Has(tx, d) /\ tx.era = era' => ~StillQueued(d)'
    <3>1. /\ \A tx \in submits : Has(tx, d) /\ tx.era = era => ~taken(d) /\ ~StillQueued(d)'
          /\ \A i \in DOMAIN signed : Has(signed[i], d) /\ signed[i].era = era => ~taken(d)
      BY <1>6, <1>10 DEF SubmittedOnce
    <3>3. /\ \A tx, other \in submits :
               Has(tx, d) /\ Has(other, d) /\ tx.era = other.era => tx = other
          /\ \A i \in DOMAIN signed, tx \in submits :
               ~(Has(signed[i], d) /\ Has(tx, d) /\ signed[i].era = tx.era)
      BY <1>6 DEF SubmittedOnce
    <3>4. \A tx \in new : tx.era = era /\ (Has(tx, d) => taken(d) /\ ~StillQueued(d)')
      BY <1>4, <1>10, <1>12
    <3>5. \A tx, other \in new : Has(tx, d) /\ Has(other, d) => tx = other
      BY <1>13
    <3> HIDE DEF new
    <3>6. \A tx, other \in submits' : Has(tx, d) /\ Has(other, d) /\ tx.era = other.era => tx = other
      BY <1>2, <3>1, <3>3, <3>4, <3>5
    <3>7. \A i \in DOMAIN signed', tx \in submits' :
             ~(Has(signed'[i], d) /\ Has(tx, d) /\ signed'[i].era = tx.era)
      BY <1>2, <3>1, <3>3, <3>4
    <3>8. \A tx \in submits' : Has(tx, d) /\ tx.era = era' => ~StillQueued(d)'
      BY <1>2, <3>1, <3>4
    <3> QED
      BY <1>2, <1>6, <3>6, <3>7, <3>8 DEF SubmittedOnce
  <2>4. ASSUME NEW d \in Dacks
        PROVE  /\ \A i \in DOMAIN signed' :
                    Has(signed'[i], d) /\ signed'[i].era = era' => ~StillQueued(d)'
               /\ Signed(d)' \/ UnderWay(d)' => dack'[d] = "accepted" /\ adding' # d
    <3>1. adding' # d
      BY <1>2, DackAssumption
    <3>2. \A i \in DOMAIN signed : Has(signed[i], d) /\ signed[i].era = era => ~StillQueued(d)
      BY <1>6 DEF SubmittedOnce
    <3>3. Signed(d) \/ UnderWay(d) => dack[d] = "accepted"
      BY <1>6 DEF SubmittedOnce
    <3> QED
      BY <1>2, <1>7, <1>10, <1>11, <3>1, <3>2, <3>3
  <2> QED
    BY <2>1, <2>2, <2>3, <2>4 DEF SubmittedOnce
<1>17. NothingLost'
    BY <1>2, <1>7, <1>10, <1>11 DEF DackPlaces, NothingLost
<1>18. TransactionsFit'
    BY <1>2, <1>4 DEF DackPlaces, TransactionsFit
<1> QED
    BY <1>14, <1>15, <1>16, <1>17, <1>18 DEF DackPlaces

LEMMA DackStepKeeps == DackPlaces /\ [DackNext]_dackVars => DackPlaces'
<1> SUFFICES ASSUME DackPlaces, [DackNext]_dackVars PROVE DackPlaces'
    OBVIOUS
<1>1. CASE UNCHANGED dackVars
    BY <1>1, PlacesUnchanged, DackTyped DEF dackVars
<1>2. CASE DackNext
    BY <1>2, SendDackKeeps, AcceptDackKeeps, AddToFileKeeps, AddFailsKeeps, SubmitDacksKeeps,
       RemoveFromFileKeeps, RemoveFailsKeeps, SubmitToSignerKeeps, SubmitFailsKeeps,
       StopAggregatorKeeps DEF DackNext
<1> QED
    BY <1>1, <1>2

\* Where an acknowledgment is follows from the places: the transactions that have it are
\* of different eras, and in the first era it is in one place unless it was given up.
LEMMA PlacesAccount == DackPlaces => DackAccounted
<1> SUFFICES ASSUME DackPlaces, NEW d \in Dacks, dack[d] = "accepted"
             PROVE  /\ Times(d) <= 1 + era
                    /\ era = 0 /\ d \notin lost =>
                         Cardinality({x \in {"adding", "file", "submit", "signed"} :
                            \/ x = "adding" /\ adding = d
                            \/ x = "file" /\ StillQueued(d)
                            \/ x = "submit" /\ UnderWay(d)
                            \/ x = "signed" /\ Times(d) > 0}) = 1
    BY DEF DackAccounted
<1>1. PICK s \in Nat, n \in Nat : s = era /\ n = Len(signed) /\ DOMAIN signed = 1 .. n
    BY DackTyped
<1> DEFINE T == {i \in DOMAIN signed : Has(signed[i], d)}
<1>2. /\ \A i \in T : signed[i].era \in 0 .. s
      /\ \A i, j \in T : signed[i].era = signed[j].era => i = j
    BY <1>1 DEF DackPlaces, SubmittedOnce
<1>3. T \subseteq 1 .. n
    BY <1>1
<1>4. Signed(d) <=> T # {}
    BY DEF Signed
<1>5. Times(d) = Cardinality(T)
    BY DEF Times
<1> HIDE DEF T
<1>6. IsFiniteSet(T)
  <2>1. IsFiniteSet(1 .. n)
    BY FS_Interval
  <2> QED
    BY <1>3, <2>1, FS_Subset
<1>7. IsFiniteSet(0 .. s) /\ Cardinality(0 .. s) = s + 1
    BY FS_Interval
<1>8. Cardinality(T) <= Cardinality(0 .. s)
  <2> DEFINE f == [i \in T |-> signed[i].era]
  <2>1. f \in Injection(T, 0 .. s)
    BY <1>2 DEF Injection, IsInjective
  <2> HIDE DEF f
  <2>3. PICK I : I = 0 .. s /\ IsFiniteSet(I) /\ f \in Injection(T, I)
    BY <1>7, <2>1
  <2>4. Cardinality(T) <= Cardinality(I)
    BY <2>3, FS_Injection
  <2> QED
    BY <2>3, <2>4
<1>9. Times(d) <= 1 + era
    BY <1>1, <1>5, <1>7, <1>8
<1>10. Times(d) > 0 <=> Signed(d)
  <2>1. Cardinality(T) \in Nat /\ (Cardinality(T) = 0 <=> T = {})
    BY <1>6, FS_CardinalityType, FS_EmptySet
  <2> QED
    BY <1>4, <1>5, <2>1
<1>11. ASSUME era = 0, d \notin lost
       PROVE  Cardinality({x \in {"adding", "file", "submit", "signed"} :
                            \/ x = "adding" /\ adding = d
                            \/ x = "file" /\ StillQueued(d)
                            \/ x = "submit" /\ UnderWay(d)
                            \/ x = "signed" /\ Times(d) > 0}) = 1
  <2> DEFINE P == {x \in {"adding", "file", "submit", "signed"} :
                            \/ x = "adding" /\ adding = d
                            \/ x = "file" /\ StillQueued(d)
                            \/ x = "submit" /\ UnderWay(d)
                            \/ x = "signed" /\ Times(d) > 0}
  <2>0. /\ \A i \in DOMAIN signed : signed[i].era = era
        /\ \A tx \in submits : tx.era = era
    BY <1>11 DEF DackPlaces, SubmittedOnce
  <2>1. adding = d \/ StillQueued(d) \/ UnderWay(d) \/ Signed(d)
    BY <1>11 DEF DackPlaces, NothingLost
  <2>2. Signed(d) => adding # d /\ ~StillQueued(d) /\ ~UnderWay(d)
    BY <2>0 DEF DackPlaces, SubmittedOnce, Signed, UnderWay
  <2>3. UnderWay(d) => adding # d /\ ~StillQueued(d)
    BY <2>0 DEF DackPlaces, SubmittedOnce, UnderWay
  <2>4. adding = d => ~StillQueued(d)
    <3>1. SUFFICES ASSUME adding = d PROVE ~StillQueued(d)
      OBVIOUS
    <3>2. adding # NoDack
      BY <3>1, DackAssumption
    <3>3. removing = 0 /\ \A k \in DOMAIN queue : queue[k] # d
      BY <3>1, <3>2 DEF DackPlaces, FileHoldsOnce
    <3> QED
      BY <3>3, DackTyped DEF StillQueued
  <2>5. P = {"adding"} \/ P = {"file"} \/ P = {"submit"} \/ P = {"signed"}
    BY <1>10, <2>1, <2>2, <2>3, <2>4
  <2> HIDE DEF P
  <2>6. Cardinality(P) = 1
    BY <2>5, FS_Singleton
  <2> QED
    BY <2>6 DEF P
<1> QED
    BY <1>9, <1>11

\* An accepted acknowledgment is in one place, to be added, in the file, under way to the
\* signer or signed once, until a removal fails or the process stops; each of these signs
\* it once more at most; only a write or a submission that fails, or a stop, gives it up;
\* and no transaction is larger than the application takes.
THEOREM DacksSubmittedOnce == DackSpec => []DackInv
<1>1. DackSpec => []DackPlaces
    BY DackInitPlaces, DackStepKeeps, PTL DEF DackSpec
<1>2. DackPlaces => DackInv
    BY PlacesAccount DEF DackInv
<1> QED
    BY <1>1, <1>2, PTL

-----------------------------------------------------------------------------
(* The reputation aggregator: bags.                                        *)

LEMMA OptionBags ==
    ASSUME NEW bag, IsABag(bag), NEW o \in Options, NEW v
    PROVE  /\ IsABag(bag (+) OptionBag(o)) /\ IsABag(bag (-) OptionBag(o))
           /\ Copies(v, bag) \in Nat
           /\ Copies(v, bag (+) OptionBag(o)) = Copies(v, bag) + (IF o = Some(v) THEN 1 ELSE 0)
           /\ Copies(v, bag (-) OptionBag(o)) = IF o = Some(v) /\ Copies(v, bag) > 0
                                                THEN Copies(v, bag) - 1 ELSE Copies(v, bag)
<1>1. Copies(v, bag) \in Nat
    BY DEF Copies, BagIn, BagToSet, IsABag
<1>2. o = Some(v) <=> o.some /\ o.n = v
    BY DEF Options, Some
<1>3. CASE o.some
  <2>1. OptionBag(o) = SetToBag({o.n})
    BY <1>3 DEF OptionBag
  <2>2. PICK w : w = o.n
    OBVIOUS
  <2>3. IsABag(bag (+) SetToBag({w})) /\ IsABag(bag (-) SetToBag({w}))
    <3>1. IsABag(bag (+) SetToBag({w}))
      BY DEF SetToBag, (+), IsABag
    <3>2. IsABag(bag (-) SetToBag({w}))
      BY DEF SetToBag, (-), IsABag
    <3> QED
      BY <3>1, <3>2
  <2>4. Copies(v, bag (+) SetToBag({w})) = Copies(v, bag) + (IF v = w THEN 1 ELSE 0)
    BY DEF Copies, BagIn, BagToSet, SetToBag, (+), IsABag
  <2>5. Copies(v, bag (-) SetToBag({w})) = IF v = w /\ Copies(v, bag) > 0
                                           THEN Copies(v, bag) - 1 ELSE Copies(v, bag)
    BY DEF Copies, BagIn, BagToSet, SetToBag, (-), IsABag
  <2> QED
    BY <1>1, <1>2, <1>3, <2>1, <2>2, <2>3, <2>4, <2>5
<1>4. CASE ~o.some
  <2>1. OptionBag(o) = EmptyBag
    BY <1>4 DEF OptionBag
  <2>2. bag = [e \in DOMAIN bag |-> bag[e]] /\ \A e \in DOMAIN bag : bag[e] \in Nat /\ bag[e] > 0
    BY DEF IsABag
  <2>3. bag (+) EmptyBag = bag
    <3>1. bag (+) EmptyBag = [e \in DOMAIN bag |-> bag[e] + 0]
      BY DEF EmptyBag, SetToBag, (+)
    <3>2. \A e \in DOMAIN bag : bag[e] + 0 = bag[e]
      BY <2>2
    <3> QED
      BY <2>2, <3>1, <3>2
  <2>4. bag (-) EmptyBag = bag
    <3>1. bag (-) EmptyBag = [e \in {d \in DOMAIN bag : bag[d] > 0} |-> bag[e]]
      BY DEF EmptyBag, SetToBag, (-)
    <3>2. {d \in DOMAIN bag : bag[d] > 0} = DOMAIN bag
      BY <2>2
    <3> QED
      BY <2>2, <3>1, <3>2
  <2>5. Copies(v, bag) + 0 = Copies(v, bag)
    BY <1>1
  <2> QED
    BY <1>1, <1>2, <1>4, <2>1, <2>3, <2>4, <2>5
<1> QED
    BY <1>3, <1>4

\* Mirrors for any values and any peers, whether the bag has them or not.
Holders(C, f, v) == {p \in C : f[p] = Some(v)}
MirrorsAll(bag, C, f, z) ==
    /\ IsABag(bag)
    /\ \A v : IF v \in z THEN Copies(v, bag) <= Cardinality(Holders(C, f, v))
              ELSE Copies(v, bag) = Cardinality(Holders(C, f, v))
Unset(o, z) == ~o.some \/ o.n \in z

\* A peer is taken out of the bag.
LEMMA MirrorsWithout ==
    ASSUME NEW bag, NEW C, IsFiniteSet(C), NEW f, NEW z, NEW p, f[p] \in Options,
           MirrorsAll(bag, C, f, z), p \in C \/ Unset(f[p], z)
    PROVE  MirrorsAll(bag (-) OptionBag(f[p]), C \ {p}, f, z)
<1>1. IsABag(bag)
    BY DEF MirrorsAll
<1>2. PICK o \in Options : o = f[p]
    OBVIOUS
<1>3. ASSUME NEW v
      PROVE  IF v \in z THEN Copies(v, bag (-) OptionBag(o)) <= Cardinality(Holders(C \ {p}, f, v))
             ELSE Copies(v, bag (-) OptionBag(o)) = Cardinality(Holders(C \ {p}, f, v))
  <2> DEFINE H == Holders(C, f, v)
             G == Holders(C \ {p}, f, v)
  <2>1. G = H \ {p} /\ (p \in H <=> p \in C /\ o = Some(v)) /\ H \subseteq C
    BY <1>2 DEF Holders
  <2>2. IsFiniteSet(H) /\ Cardinality(H) \in Nat
    BY <2>1, FS_Subset, FS_CardinalityType
  <2>3. IF v \in z THEN Copies(v, bag) <= Cardinality(H) ELSE Copies(v, bag) = Cardinality(H)
    BY DEF MirrorsAll
  <2> HIDE DEF H, G
  <2>4. Cardinality(G) = IF p \in H THEN Cardinality(H) - 1 ELSE Cardinality(H)
    BY <2>1, <2>2, FS_RemoveElement
  <2>5. p \in H => Cardinality(H) > 0
    BY <2>2, FS_EmptySet
  <2>6. /\ Copies(v, bag) \in Nat
        /\ Copies(v, bag (-) OptionBag(o)) = IF o = Some(v) /\ Copies(v, bag) > 0
                                             THEN Copies(v, bag) - 1 ELSE Copies(v, bag)
    BY <1>1, OptionBags
  <2>7. o = Some(v) /\ v \notin z => p \in C
    BY <1>2 DEF Unset, Some
  <2>8. PICK c \in Nat, h \in Nat : c = Copies(v, bag) /\ h = Cardinality(H)
    BY <2>2, <2>6
  <2>9. IF v \in z THEN Copies(v, bag (-) OptionBag(o)) <= Cardinality(G)
        ELSE Copies(v, bag (-) OptionBag(o)) = Cardinality(G)
    <3>1. CASE v \in z
      BY <2>1, <2>3, <2>4, <2>5, <2>6, <2>8, <3>1
    <3>2. CASE v \notin z
      BY <2>1, <2>3, <2>4, <2>5, <2>6, <2>7, <2>8, <3>2
    <3> QED
      BY <3>1, <3>2
  <2> QED
    BY <2>9 DEF G
<1> QED
    BY <1>1, <1>2, <1>3, OptionBags DEF MirrorsAll

\* A peer is put into the bag, or is one whose value may be missing.
LEMMA MirrorsWith ==
    ASSUME NEW bag, NEW C, IsFiniteSet(C), NEW f, NEW g, NEW z, NEW p, p \notin C, g[p] \in Options,
           \A q \in C : g[q] = f[q], MirrorsAll(bag, C, f, z)
    PROVE  /\ MirrorsAll(bag (+) OptionBag(g[p]), C \cup {p}, g, z)
           /\ Unset(g[p], z) => MirrorsAll(bag, C \cup {p}, g, z)
<1>1. IsABag(bag)
    BY DEF MirrorsAll
<1>2. PICK o \in Options : o = g[p]
    OBVIOUS
<1>3. ASSUME NEW v
      PROVE  /\ IF v \in z THEN Copies(v, bag (+) OptionBag(o)) <= Cardinality(Holders(C \cup {p}, g, v))
                ELSE Copies(v, bag (+) OptionBag(o)) = Cardinality(Holders(C \cup {p}, g, v))
             /\ Unset(o, z) =>
                  IF v \in z THEN Copies(v, bag) <= Cardinality(Holders(C \cup {p}, g, v))
                  ELSE Copies(v, bag) = Cardinality(Holders(C \cup {p}, g, v))
  <2> DEFINE H == Holders(C, f, v)
             G == Holders(C \cup {p}, g, v)
  <2>1. G = (IF o = Some(v) THEN H \cup {p} ELSE H) /\ p \notin H /\ H \subseteq C
    BY <1>2 DEF Holders
  <2>2. IsFiniteSet(H) /\ Cardinality(H) \in Nat
    BY <2>1, FS_Subset, FS_CardinalityType
  <2>3. IF v \in z THEN Copies(v, bag) <= Cardinality(H) ELSE Copies(v, bag) = Cardinality(H)
    BY DEF MirrorsAll
  <2> HIDE DEF H, G
  <2>4. Cardinality(H \cup {p}) = Cardinality(H) + 1
    BY <2>1, <2>2, FS_AddElement
  <2>5. Cardinality(G) = IF o = Some(v) THEN Cardinality(H) + 1 ELSE Cardinality(H)
    BY <2>1, <2>4
  <2>6. /\ Copies(v, bag) \in Nat
        /\ Copies(v, bag (+) OptionBag(o)) = Copies(v, bag) + (IF o = Some(v) THEN 1 ELSE 0)
    BY <1>1, OptionBags
  <2>7. Unset(o, z) /\ v \notin z => o # Some(v)
    BY DEF Unset, Some
  <2>8. PICK c \in Nat, h \in Nat : c = Copies(v, bag) /\ h = Cardinality(H)
    BY <2>2, <2>6
  <2>9. IF v \in z THEN Copies(v, bag (+) OptionBag(o)) <= Cardinality(G)
        ELSE Copies(v, bag (+) OptionBag(o)) = Cardinality(G)
    BY <2>3, <2>5, <2>6, <2>8
  <2>10. Unset(o, z) => IF v \in z THEN Copies(v, bag) <= Cardinality(G)
                        ELSE Copies(v, bag) = Cardinality(G)
    BY <2>3, <2>5, <2>7, <2>8
  <2> QED
    BY <2>9, <2>10 DEF G
<1> QED
    BY <1>1, <1>2, <1>3, OptionBags DEF MirrorsAll

\* A peer's value is replaced.
LEMMA MirrorsUpdate ==
    ASSUME NEW bag, NEW C, IsFiniteSet(C), NEW f, NEW g, NEW z, NEW p,
           f[p] \in Options, g[p] \in Options, \A q \in C \ {p} : g[q] = f[q],
           MirrorsAll(bag, C, f, z), p \in C \/ Unset(f[p], z)
    PROVE  MirrorsAll(Replaced(bag, OptionBag(f[p]), OptionBag(g[p])), C \cup {p}, g, z)
<1>1. PICK D : D = C \ {p}
    OBVIOUS
<1>2. MirrorsAll(bag (-) OptionBag(f[p]), D, f, z)
    BY <1>1, MirrorsWithout
<1>3. IsFiniteSet(D) /\ p \notin D /\ D \cup {p} = C \cup {p} /\ \A q \in D : g[q] = f[q]
    BY <1>1, FS_Subset
<1>4. MirrorsAll((bag (-) OptionBag(f[p])) (+) OptionBag(g[p]), D \cup {p}, g, z)
    BY <1>2, <1>3, MirrorsWith
<1> QED
    BY <1>3, <1>4 DEF Replaced

\* A peer's value is not touched.
LEMMA MirrorsSame ==
    ASSUME NEW bag, NEW C, IsFiniteSet(C), NEW f, NEW g, NEW z, NEW p,
           f[p] \in Options, \A q \in C \cup {p} : g[q] = f[q],
           MirrorsAll(bag, C, f, z), p \in C \/ Unset(f[p], z)
    PROVE  MirrorsAll(bag, C \cup {p}, g, z)
<1>1. CASE p \in C
  <2>1. C \cup {p} = C /\ \A v : Holders(C, g, v) = Holders(C, f, v)
    BY <1>1 DEF Holders
  <2> QED
    BY <2>1 DEF MirrorsAll
<1>2. CASE p \notin C
  <2>1. g[p] \in Options /\ Unset(g[p], z) /\ \A q \in C : g[q] = f[q]
    BY <1>2
  <2> QED
    BY <1>2, <2>1, MirrorsWith
<1> QED
    BY <1>1, <1>2

-----------------------------------------------------------------------------
(* Its cache.                                                              *)

LEMMA InRange ==
    ASSUME NEW f, NEW x
    PROVE  x \in Range(f) <=> \E j \in DOMAIN f : f[j] = x
BY DEF Range

LEMMA PromoteKeeps ==
    ASSUME NEW S, NEW s \in Seq(S), IsInjective(s), NEW i \in DOMAIN s
    PROVE  /\ RemoveAt(s, i) \in Seq(S) /\ IsInjective(RemoveAt(s, i))
           /\ Len(RemoveAt(s, i)) = Len(s) - 1 /\ Range(RemoveAt(s, i)) = Range(s) \ {s[i]}
<1> DEFINE new == RemoveAt(s, i)
<1>1. PICK n \in Nat : n = Len(s) /\ DOMAIN s = 1 .. n /\ i \in 1 .. n
    OBVIOUS
<1>4. /\ new \in Seq(S) /\ Len(new) = n - 1
      /\ \A j \in 1 .. n - 1 : new[j] = IF j < i THEN s[j] ELSE s[j + 1]
    BY <1>1, RemovedPlaces
<1> HIDE DEF new
<1>6. Len(new) = n - 1 /\ DOMAIN new = 1 .. n - 1
    BY <1>1, <1>4
<1>7. \A j \in 1 .. n - 1 : new[j] = IF j < i THEN s[j] ELSE s[j + 1]
    BY <1>4
<1>8. \A j \in 1 .. n - 1 : j \in 1 .. n /\ j + 1 \in 1 .. n
    OBVIOUS
<1>9. IsInjective(new)
  <2>1. SUFFICES ASSUME NEW j \in 1 .. n - 1, NEW k \in 1 .. n - 1, new[j] = new[k] PROVE j = k
    BY <1>6 DEF IsInjective
  <2>2. PICK x \in 1 .. n : x = (IF j < i THEN j ELSE j + 1) /\ new[j] = s[x]
    BY <1>7, <1>8
  <2>3. PICK y \in 1 .. n : y = (IF k < i THEN k ELSE k + 1) /\ new[k] = s[y]
    BY <1>7, <1>8
  <2>4. x = y
    BY <1>1, <2>1, <2>2, <2>3 DEF IsInjective
  <2> QED
    BY <1>1, <2>2, <2>3, <2>4
<1>10. Range(new) = Range(s) \ {s[i]}
  <2>1. ASSUME NEW j \in 1 .. n - 1 PROVE new[j] \in Range(s) \ {s[i]}
    <3>1. PICK x \in 1 .. n : x = (IF j < i THEN j ELSE j + 1) /\ new[j] = s[x]
      BY <1>7, <1>8
    <3>2. x # i
      BY <1>1, <3>1
    <3>3. s[x] # s[i]
      BY <1>1, <3>2 DEF IsInjective
    <3> QED
      BY <1>1, <3>1, <3>3 DEF Range
  <2>2. ASSUME NEW j \in 1 .. n, s[j] # s[i] PROVE \E k \in 1 .. n - 1 : new[k] = s[j]
    <3>1. j # i
      BY <2>2
    <3>2. CASE j < i
      <4>1. j \in 1 .. n - 1
        BY <1>1, <3>2
      <4> QED
        BY <1>7, <3>2, <4>1
    <3>3. CASE ~(j < i)
      <4>1. j - 1 \in 1 .. n - 1 /\ ~(j - 1 < i) /\ (j - 1) + 1 = j
        BY <1>1, <3>1, <3>3
      <4> QED
        BY <1>7, <4>1
    <3> QED
      BY <3>2, <3>3
  <2>3. ASSUME NEW x PROVE x \in Range(new) <=> x \in Range(s) \ {s[i]}
    <3>1. x \in Range(new) <=> \E j \in 1 .. n - 1 : new[j] = x
      BY <1>6, InRange
    <3>2. x \in Range(s) <=> \E j \in 1 .. n : s[j] = x
      BY <1>1, InRange
    <3> QED
      BY <2>1, <2>2, <3>1, <3>2
  <2> QED
    BY <2>3
<1> QED
    BY <1>1, <1>4, <1>6, <1>9, <1>10 DEF new

LEMMA DropLastKeeps ==
    ASSUME NEW S, NEW s \in Seq(S), IsInjective(s), s # <<>>
    PROVE  /\ Front(s) \in Seq(S) /\ IsInjective(Front(s)) /\ Len(Front(s)) = Len(s) - 1
           /\ Last(s) \in Range(s) /\ Range(Front(s)) = Range(s) \ {Last(s)}
<1>1. PICK n \in Nat : n = Len(s) /\ DOMAIN s = 1 .. n /\ n > 0
    OBVIOUS
<1> DEFINE f == Front(s)
<1>2. f \in Seq(S) /\ Len(f) = n - 1 /\ DOMAIN f = 1 .. n - 1 /\ \A j \in 1 .. n - 1 : f[j] = s[j]
  <2>1. f = SubSeq(s, 1, n - 1)
    BY <1>1 DEF Front
  <2>2. SubSeq(s, 1, n - 1) \in Seq(S) /\ Len(SubSeq(s, 1, n - 1)) = n - 1
        /\ \A j \in 1 .. n - 1 : SubSeq(s, 1, n - 1)[j] = s[j]
    BY <1>1, SubSeqProperties
  <2> HIDE DEF f
  <2>3. f \in Seq(S) /\ Len(f) = n - 1 /\ \A j \in 1 .. n - 1 : f[j] = s[j]
    BY <2>1, <2>2
  <2> QED
    BY <2>3
<1> HIDE DEF f
<1>3. Last(s) = s[n] /\ n \in 1 .. n
    BY <1>1 DEF Last
<1>4. \A j : j \in 1 .. n <=> j \in 1 .. n - 1 \/ j = n
    BY <1>1
<1>5. n \notin 1 .. n - 1
    OBVIOUS
<1>6. IsInjective(f)
    BY <1>1, <1>2, <1>4 DEF IsInjective
<1>7. Range(f) = Range(s) \ {s[n]}
  <2>1. \A j \in 1 .. n - 1 : s[j] # s[n]
    BY <1>1, <1>3, <1>4, <1>5 DEF IsInjective
  <2> QED
    BY <1>1, <1>2, <1>4, <2>1 DEF Range
<1> QED
    BY <1>1, <1>2, <1>3, <1>6, <1>7 DEF f, Range

LEMMA PutFirstKeeps ==
    ASSUME NEW S, NEW s \in Seq(S), IsInjective(s), NEW p \in S, p \notin Range(s)
    PROVE  /\ <<p>> \o s \in Seq(S) /\ IsInjective(<<p>> \o s) /\ Len(<<p>> \o s) = Len(s) + 1
           /\ Range(<<p>> \o s) = Range(s) \cup {p}
<1>1. PICK n \in Nat : n = Len(s) /\ DOMAIN s = 1 .. n
    OBVIOUS
<1>2. <<p>> \in Seq(S) /\ Len(<<p>>) = 1 /\ <<p>>[1] = p
    OBVIOUS
<1>3. PICK one \in Seq(S) : one = <<p>> /\ Len(one) = 1 /\ one[1] = p
    BY <1>2
<1> DEFINE f == one \o s
<1>4. /\ f \in Seq(S) /\ Len(f) = 1 + n
      /\ \A j \in 1 .. 1 + n : f[j] = IF j <= 1 THEN one[j] ELSE s[j - 1]
    BY <1>1, <1>3, ConcatProperties
<1> HIDE DEF f
<1>5. Len(f) = n + 1 /\ DOMAIN f = 1 .. n + 1 /\ f[1] = p /\ \A j \in 1 .. n : f[j + 1] = s[j]
  <2>1. DOMAIN f = 1 .. n + 1 /\ Len(f) = n + 1 /\ 1 \in 1 .. 1 + n
    BY <1>4
  <2>2. \A j \in 1 .. n : j + 1 \in 1 .. 1 + n /\ ~(j + 1 <= 1) /\ (j + 1) - 1 = j
    OBVIOUS
  <2> QED
    BY <1>3, <1>4, <2>1, <2>2
<1>6. \A j : j \in 1 .. n + 1 <=> j = 1 \/ \E k \in 1 .. n : j = k + 1
  <2>1. ASSUME NEW j \in 1 .. n + 1, j # 1 PROVE \E k \in 1 .. n : j = k + 1
    <3>1. j - 1 \in 1 .. n /\ j = (j - 1) + 1
      BY <2>1
    <3> QED
      BY <3>1
  <2>2. 1 \in 1 .. n + 1 /\ \A k \in 1 .. n : k + 1 \in 1 .. n + 1
    OBVIOUS
  <2> QED
    BY <2>1, <2>2
<1>7. \A k \in 1 .. n : s[k] # p
    BY <1>1 DEF Range
<1>8. IsInjective(f)
  <2>1. SUFFICES ASSUME NEW i \in 1 .. n + 1, NEW j \in 1 .. n + 1, f[i] = f[j] PROVE i = j
    BY <1>5 DEF IsInjective
  <2>2. CASE i = 1 \/ j = 1
    <3>1. ASSUME NEW k \in 1 .. n + 1, k # 1 PROVE f[k] # p
      <4>1. PICK l \in 1 .. n : k = l + 1
        BY <1>6, <3>1
      <4> QED
        BY <1>5, <1>7, <4>1
    <3> QED
      BY <1>5, <2>1, <2>2, <3>1
  <2>3. CASE i # 1 /\ j # 1
    <3>1. PICK k \in 1 .. n, l \in 1 .. n : i = k + 1 /\ j = l + 1
      BY <1>6, <2>3
    <3>2. s[k] = s[l]
      BY <1>5, <2>1, <3>1
    <3>3. k = l
      BY <1>1, <3>2 DEF IsInjective
    <3> QED
      BY <3>1, <3>3
  <2> QED
    BY <2>2, <2>3
<1>9. Range(f) = Range(s) \cup {p}
  <2>1. ASSUME NEW j \in 1 .. n + 1, f[j] # p PROVE \E k \in 1 .. n : f[j] = s[k]
    <3>1. PICK k \in 1 .. n : j = k + 1
      BY <1>5, <1>6, <2>1
    <3> QED
      BY <1>5, <3>1
  <2>2. \A k \in 1 .. n : k + 1 \in 1 .. n + 1 /\ f[k + 1] = s[k]
    BY <1>5
  <2>3. 1 \in 1 .. n + 1 /\ f[1] = p
    BY <1>5
  <2>4. ASSUME NEW x PROVE x \in Range(f) <=> x \in Range(s) \cup {p}
    <3>1. x \in Range(f) <=> \E j \in 1 .. n + 1 : f[j] = x
      BY <1>5, InRange
    <3>2. x \in Range(s) <=> \E j \in 1 .. n : s[j] = x
      BY <1>1, InRange
    <3> QED
      BY <2>1, <2>2, <2>3, <3>1, <3>2
  <2> QED
    BY <2>4
<1> QED
    BY <1>1, <1>3, <1>4, <1>5, <1>8, <1>9 DEF f

-----------------------------------------------------------------------------
(* Its measurements.                                                       *)

LEMMA MirrorsMeans ==
    ASSUME NEW bag, IsABag(bag), NEW C, NEW f, NEW z
    PROVE  Mirrors(bag, C, f, z) <=> MirrorsAll(bag, C, f, z)
<1> DEFINE Vs == BagToSet(bag) \cup {f[p].n : p \in C}
<1>1. ASSUME NEW v, v \notin Vs
      PROVE  Copies(v, bag) = 0 /\ Cardinality(Holders(C, f, v)) = 0
  <2>1. Copies(v, bag) = 0
    BY <1>1 DEF Copies, BagIn
  <2>2. Holders(C, f, v) = {}
    BY <1>1 DEF Holders, Some
  <2> QED
    BY <2>1, <2>2, FS_EmptySet
<1>2. Mirrors(bag, C, f, z) <=>
        \A v \in Vs : IF v \in z THEN Copies(v, bag) <= Cardinality(Holders(C, f, v))
                      ELSE Copies(v, bag) = Cardinality(Holders(C, f, v))
    BY DEF Mirrors, Holders
<1> HIDE DEF Vs
<1> QED
    BY <1>1, <1>2 DEF MirrorsAll

LEMMA RegisterTyped ==
    ASSUME NEW s \in Stores, NEW r \in Reports
    PROVE  /\ RegisterReport(s, r) \in Stores
           /\ r.kind # "interaction" => RegisterReport(s, r).interactions = s.interactions
           /\ r.kind # "bytes" => RegisterReport(s, r).bytes = s.bytes
           /\ ~Timed(r) => RegisterReport(s, r).bandwidth = s.bandwidth
           /\ r.kind = "bytes" => r.bytes \in Nat /\ RegisterReport(s, r).bytes = s.bytes + r.bytes
<1> USE RepAssumption
<1> DEFINE Rates == [kind : {"num", "inf", "nan"}, sum : Nat, count : Nat]
<1>0. /\ s = [interactions |-> s.interactions, bytes |-> s.bytes, bandwidth |-> s.bandwidth,
               pings |-> s.pings, responded |-> s.responded]
      /\ s.interactions \in Options /\ s.bytes \in Nat /\ s.bandwidth \in Rates
      /\ s.pings \in Nat /\ s.responded \in Nat
    BY DEF Stores
<1> HIDE DEF Rates
<1>a. \A i \in Options, b \in Nat, w \in Rates, k \in Nat, l \in Nat :
        [interactions |-> i, bytes |-> b, bandwidth |-> w, pings |-> k, responded |-> l] \in Stores
    BY DEF Stores, Rates
<1>1. CASE r \in [kind : {"interaction"}, peer : RepPeers, weight : Weights]
  <2>1. RegisterReport(s, r) = [s EXCEPT !.interactions = Some(s.interactions.n + r.weight)]
    BY <1>1 DEF RegisterReport
  <2>2. Some(s.interactions.n + r.weight) \in Options
    <3>1. s.interactions.n \in Int /\ r.weight \in Int
      BY <1>0, <1>1 DEF Options
    <3>2. PICK x \in Int : x = s.interactions.n + r.weight
      BY <3>1
    <3> QED
      BY <3>2 DEF Some, Options
  <2>3. PICK i \in Options : i = Some(s.interactions.n + r.weight)
    BY <2>2
  <2>4. RegisterReport(s, r) = [interactions |-> i, bytes |-> s.bytes, bandwidth |-> s.bandwidth,
                                pings |-> s.pings, responded |-> s.responded]
    BY <1>0, <2>1, <2>3
  <2>5. r.kind = "interaction" /\ ~Timed(r)
    BY <1>1 DEF Timed
  <2> QED
    BY <1>0, <1>a, <2>4, <2>5
<1>2. CASE r \in [kind : {"ping"}, peer : RepPeers, responded : BOOLEAN]
  <2>1. RegisterReport(s, r) = [s EXCEPT !.pings = @ + 1, !.responded = IF r.responded THEN @ + 1 ELSE @]
    BY <1>2 DEF RegisterReport
  <2>2. PICK k \in Nat, l \in Nat : k = s.pings + 1 /\ l = IF r.responded THEN s.responded + 1 ELSE s.responded
    BY <1>0
  <2>3. RegisterReport(s, r) = [interactions |-> s.interactions, bytes |-> s.bytes,
                                bandwidth |-> s.bandwidth, pings |-> k, responded |-> l]
    BY <1>0, <2>1, <2>2
  <2>4. r.kind = "ping" /\ ~Timed(r)
    BY <1>2 DEF Timed
  <2> QED
    BY <1>0, <1>a, <2>3, <2>4
<1>3. CASE r \in [kind : {"bytes"}, peer : RepPeers, bytes : ByteCounts,
                    duration : {NoneYet} \cup {Some(ms) : ms \in Durations}]
  <2>3. PICK b \in [kind : {"num", "inf", "nan"}, sum : Nat, count : Nat] : b = s.bandwidth
    BY DEF Stores
  <2>7. PICK w : w = IF Timed(r) THEN AddRate(b, r.bytes, r.duration.n) ELSE b
    OBVIOUS
  <2>1. RegisterReport(s, r) = [s EXCEPT !.bytes = s.bytes + r.bytes, !.bandwidth = w]
    BY <1>3, <2>3, <2>7 DEF RegisterReport
  <2>2. r.bytes \in Nat /\ r.kind = "bytes" /\ (Timed(r) => r.duration.n \in Nat)
    <3>1. r.duration = NoneYet \/ \E ms \in Durations : r.duration = Some(ms)
      BY <1>3
    <3>2. ASSUME Timed(r) PROVE r.duration.n \in Durations
      <4>1. r.duration # NoneYet
        BY <3>2 DEF Timed
      <4>2. PICK ms \in Durations : r.duration = Some(ms)
        BY <3>1, <4>1
      <4> QED
        BY <4>2 DEF Some
    <3> QED
      BY <1>3, <3>2
  <2>4. w \in [kind : {"num", "inf", "nan"}, sum : Nat, count : Nat]
    <3>1. CASE ~Timed(r)
      BY <2>7, <3>1
    <3>2. CASE Timed(r)
      <4>1. PICK x \in Nat, y \in Nat : x = r.bytes /\ y = r.duration.n
        BY <2>2, <3>2
      <4>2. y > 0 => x \div y \in Nat
        OBVIOUS
      <4> QED
        BY <2>7, <3>2, <4>1, <4>2 DEF AddRate
    <3> QED
      BY <3>1, <3>2
  <2>5. PICK n \in Nat : n = s.bytes + r.bytes /\ w \in Rates
    BY <1>0, <2>2, <2>4 DEF Rates
  <2>6. RegisterReport(s, r) = [interactions |-> s.interactions, bytes |-> n,
                                bandwidth |-> w, pings |-> s.pings, responded |-> s.responded]
    BY <1>0, <2>1, <2>5
  <2> QED
    BY <1>0, <1>a, <2>2, <2>3, <2>5, <2>6, <2>7
<1> QED
    BY <1>1, <1>2, <1>3 DEF Reports

LEMMA BandwidthTyped ==
    ASSUME NEW s \in Stores
    PROVE  GetBandwidth(s.bandwidth) \in Options
<1>1. PICK b \in [kind : {"num", "inf", "nan"}, sum : Nat, count : Nat] : b = s.bandwidth
    BY DEF Stores
<1>2. b.count > 0 => b.sum \div b.count \in Int
    OBVIOUS
<1> QED
    BY <1>1, <1>2, RepAssumption DEF GetBandwidth, NoneYet, Some, Options

\* What happens to one of the three bags.
Handled(bag, C, f, g, z, p, gone, evicts, touched, left, new, D) ==
    /\ IsFiniteSet(C) /\ evicts \in BOOLEAN /\ touched \in BOOLEAN
    /\ f[p] \in Options /\ g[p] \in Options
    /\ evicts => f[gone] \in Options /\ gone \in C /\ p \notin C
    /\ D = (IF evicts THEN C \ {gone} ELSE C)
    /\ left = (IF evicts THEN bag (-) OptionBag(f[gone]) ELSE bag)
    /\ new = (IF touched THEN Replaced(left, OptionBag(f[p]), OptionBag(g[p])) ELSE left)
    /\ ~touched => g[p] = f[p]
    /\ \A q \in D \ {p} : g[q] = f[q]
    /\ MirrorsAll(bag, C, f, z)
    /\ p \in C \/ Unset(f[p], z)

LEMMA ValueHandled ==
    ASSUME NEW bag, NEW C, NEW f, NEW g, NEW z, NEW p, NEW gone,
           NEW evicts, NEW touched, NEW left, NEW new, NEW D,
           Handled(bag, C, f, g, z, p, gone, evicts, touched, left, new, D)
    PROVE  MirrorsAll(new, D \cup {p}, g, z)
<1> USE DEF Handled
<1>1. MirrorsAll(left, D, f, z)
  <2>1. CASE evicts
    BY <2>1, MirrorsWithout
  <2>2. CASE ~evicts
    BY <2>2
  <2> QED
    BY <2>1, <2>2
<1>2. IsFiniteSet(D) /\ (p \in D \/ Unset(f[p], z))
    BY FS_Subset
<1>3. CASE touched
    BY <1>1, <1>2, <1>3, MirrorsUpdate
<1>4. CASE ~touched
  <2>1. \A q \in D \cup {p} : g[q] = f[q]
    BY <1>4
  <2>2. MirrorsAll(left, D \cup {p}, g, z)
    BY <1>1, <1>2, <2>1, MirrorsSame
  <2> QED
    BY <1>4, <2>2
<1> QED
    BY <1>3, <1>4

\* What a report does to the cache, the measurements and the summary.
RepMeasures == RepTypeOK /\ CacheInOrder /\ SummaryMirrors

LEMMA HandleKeeps ==
    ASSUME RepMeasures, NEW r \in Reports, HandleReport(r)
    PROVE  /\ recent' \in Seq(RepPeers) /\ stores' \in [RepPeers -> Stores]
           /\ IsABag(summary.interactions') /\ IsABag(summary.bytes') /\ IsABag(summary.bandwidth')
           /\ CacheInOrder' /\ SummaryMirrors'
           /\ \A q \in RepPeers : IF q = r.peer /\ r.kind = "bytes"
                                  THEN stores'[q].bytes = stores[q].bytes + r.bytes
                                  ELSE stores'[q].bytes <= stores[q].bytes
<1> DEFINE p == r.peer
           evicts == p \notin Cached /\ Len(recent) = MAX_CAPACITY
           gone == Last(recent)
           place == CHOOSE i \in DOMAIN recent : recent[i] = p
           others == IF evicts THEN Front(recent)
                     ELSE IF p \in Cached THEN RemoveAt(recent, place)
                     ELSE recent
           new == RegisterReport(stores[p], r)
           sum == IF evicts THEN RemovePeer(summary, stores[gone]) ELSE summary
           D == IF evicts THEN Cached \ {gone} ELSE Cached
<1>1. /\ recent' = <<p>> \o others
      /\ stores' = [q \in RepPeers |-> IF q = p THEN new
                                       ELSE IF evicts /\ q = gone THEN NewStore ELSE stores[q]]
      /\ summary' = Restated(sum, stores[p], new, r)
    BY DEF HandleReport
<1>2. p \in RepPeers
    BY DEF Reports
<1>3. recent \in Seq(RepPeers) /\ stores \in [RepPeers -> Stores] /\ IsInjective(recent)
      /\ Len(recent) <= MAX_CAPACITY
    BY DEF RepMeasures, RepTypeOK, CacheInOrder
<1>4. stores[p] \in Stores /\ new \in Stores
    BY <1>2, <1>3, RegisterTyped
<1> HIDE DEF p, new
<1>5. evicts => recent # <<>>
    BY RepAssumption
<1>6. Cached \subseteq RepPeers /\ IsFiniteSet(Cached)
    BY <1>3, RepAssumption, FS_Subset DEF Cached, Range
<1>7. evicts => gone \in Cached /\ gone \in RepPeers /\ p # gone
    BY <1>3, <1>5, <1>6, DropLastKeeps DEF Cached
<1>8. /\ others \in Seq(RepPeers) /\ IsInjective(others) /\ p \notin Range(others)
      /\ Range(others) \cup {p} = D \cup {p} /\ Len(others) < MAX_CAPACITY
  <2>1. CASE evicts
    BY <1>3, <1>5, <2>1, DropLastKeeps, RepAssumption DEF Cached
  <2>2. CASE ~evicts /\ p \in Cached
    <3>1. place \in DOMAIN recent /\ recent[place] = p
      BY <2>2 DEF Cached, Range
    <3> HIDE DEF place
    <3>2. /\ RemoveAt(recent, place) \in Seq(RepPeers) /\ IsInjective(RemoveAt(recent, place))
          /\ Len(RemoveAt(recent, place)) = Len(recent) - 1
          /\ Range(RemoveAt(recent, place)) = Range(recent) \ {recent[place]}
      BY <1>3, <3>1, PromoteKeeps
    <3>3. others = RemoveAt(recent, place) /\ D = Cached
      BY <2>2
    <3> HIDE DEF others, D
    <3>4. Len(others) < MAX_CAPACITY
      BY <1>3, <3>2, <3>3, RepAssumption
    <3> QED
      BY <2>2, <3>1, <3>2, <3>3, <3>4 DEF Cached
  <2>3. CASE ~evicts /\ p \notin Cached
    <3>1. others = recent /\ D = Cached /\ Len(recent) # MAX_CAPACITY
      BY <2>3
    <3> HIDE DEF others, D
    <3>2. Len(others) < MAX_CAPACITY
      BY <1>3, <3>1, RepAssumption
    <3> QED
      BY <1>3, <2>3, <3>1, <3>2 DEF Cached
  <2> QED
    BY <2>1, <2>2, <2>3
<1> HIDE DEF others
<1>9. /\ recent' \in Seq(RepPeers) /\ IsInjective(recent') /\ Len(recent') <= MAX_CAPACITY
      /\ Range(recent') = D \cup {p}
  <2>1. /\ <<p>> \o others \in Seq(RepPeers) /\ IsInjective(<<p>> \o others)
        /\ Len(<<p>> \o others) = Len(others) + 1 /\ Range(<<p>> \o others) = Range(others) \cup {p}
    BY <1>2, <1>8, PutFirstKeeps
  <2>2. PICK t : t = <<p>> \o others
    OBVIOUS
  <2> HIDE DEF D
  <2>3. Len(t) <= MAX_CAPACITY
    BY <1>8, <2>1, <2>2, RepAssumption
  <2> QED
    BY <1>1, <1>8, <2>1, <2>2, <2>3
<1>10. PICK C, E, ev, go : C = Cached /\ E = D /\ ev = evicts /\ go = gone
    OBVIOUS
<1>a. ev \in BOOLEAN
    BY <1>10
<1>11. Cached' = E \cup {p}
    BY <1>9, <1>10 DEF Cached
<1>12. E = (IF ev THEN C \ {go} ELSE C) /\ (ev => go \in C /\ go \in RepPeers /\ p \notin C)
    BY <1>7, <1>10
<1>13. C \subseteq RepPeers /\ IsFiniteSet(C)
    BY <1>6, <1>10
<1>14. NewStore \in Stores
    BY DEF NewStore, NoneYet, Stores, Options
<1>15. /\ stores' = [q \in RepPeers |-> IF q = p THEN new
                                        ELSE IF ev /\ q = go THEN NewStore ELSE stores[q]]
       /\ summary' = Restated(IF ev THEN RemovePeer(summary, stores[go]) ELSE summary,
                              stores[p], new, r)
    BY <1>1, <1>10
<1>16. \A q \in RepPeers \ C : stores[q] = NewStore
    BY <1>10 DEF RepMeasures, CacheInOrder
<1>17. /\ Mirrors(summary.interactions, C, [q \in RepPeers |-> stores[q].interactions], {})
       /\ Mirrors(summary.bandwidth, C, [q \in RepPeers |-> GetBandwidth(stores[q].bandwidth)], {})
       /\ Mirrors(summary.bytes, C, [q \in RepPeers |-> Some(stores[q].bytes)], {0})
       /\ IsABag(summary.interactions) /\ IsABag(summary.bytes) /\ IsABag(summary.bandwidth)
    BY <1>10 DEF RepMeasures, RepTypeOK, SummaryMirrors
<1> HIDE DEF D
<1>18. stores' \in [RepPeers -> Stores]
    BY <1>3, <1>4, <1>14, <1>15
<1>19. \A q \in RepPeers \ Cached' : stores'[q] = NewStore
    BY <1>11, <1>12, <1>15, <1>16
<1>20. /\ stores'[p] = new
       /\ \A q \in E \ {p} : q \in RepPeers /\ stores'[q] = stores[q]
       /\ p \in C \/ stores[p] = NewStore
    BY <1>2, <1>12, <1>13, <1>15, <1>16
<1>21. new = RegisterReport(stores[p], r)
    BY DEF new
<1>22. /\ r.kind # "interaction" => new.interactions = stores[p].interactions
       /\ r.kind # "bytes" => new.bytes = stores[p].bytes
       /\ ~Timed(r) => new.bandwidth = stores[p].bandwidth
       /\ r.kind = "bytes" => r.bytes \in Nat /\ new.bytes = stores[p].bytes + r.bytes
    BY <1>4, <1>21, RegisterTyped
<1>23. MirrorsAll(summary.interactions', E \cup {p}, [q \in RepPeers |-> stores'[q].interactions], {})
  <2> DEFINE f == [q \in RepPeers |-> stores[q].interactions]
             g == [q \in RepPeers |-> stores'[q].interactions]
             bag == summary.interactions
             left == IF ev THEN bag (-) OptionBag(f[go]) ELSE bag
             touched == r.kind = "interaction"
  <2>1. f[p] \in Options /\ g[p] \in Options /\ (ev => f[go] \in Options)
    BY <1>2, <1>3, <1>12, <1>18 DEF Stores
  <2>2. ~touched => g[p] = f[p]
    BY <1>2, <1>20, <1>22
  <2>3. \A q \in E \ {p} : g[q] = f[q]
    BY <1>20
  <2>4. MirrorsAll(bag, C, f, {})
    BY <1>17, MirrorsMeans
  <2>5. p \in C \/ Unset(f[p], {})
    BY <1>2, <1>20 DEF Unset, NewStore, NoneYet
  <2>6. summary.interactions' =
          IF touched THEN Replaced(left, OptionBag(f[p]), OptionBag(g[p])) ELSE left
    BY <1>2, <1>12, <1>15, <1>20 DEF Restated, RemovePeer
  <2> HIDE DEF f, g, bag
  <2>7. touched \in BOOLEAN
    OBVIOUS
  <2>8. left = IF ev THEN bag (-) OptionBag(f[go]) ELSE bag
    OBVIOUS
  <2> HIDE DEF left, touched
  <2>9. Handled(bag, C, f, g, {}, p, go, ev, touched, left, summary.interactions', E)
    BY <1>12, <1>13, <1>a, <2>1, <2>2, <2>3, <2>4, <2>5, <2>6, <2>7, <2>8 DEF Handled
  <2>10. MirrorsAll(summary.interactions', E \cup {p}, g, {})
    BY <2>9, ValueHandled
  <2> QED
    BY <2>10 DEF g
<1>24. MirrorsAll(summary.bandwidth', E \cup {p}, [q \in RepPeers |-> GetBandwidth(stores'[q].bandwidth)], {})
  <2> DEFINE f == [q \in RepPeers |-> GetBandwidth(stores[q].bandwidth)]
             g == [q \in RepPeers |-> GetBandwidth(stores'[q].bandwidth)]
             bag == summary.bandwidth
             left == IF ev THEN bag (-) OptionBag(f[go]) ELSE bag
             touched == Timed(r)
  <2>1. f[p] \in Options /\ g[p] \in Options /\ (ev => f[go] \in Options)
    BY <1>2, <1>3, <1>12, <1>18, BandwidthTyped
  <2>2. ~touched => g[p] = f[p]
    BY <1>2, <1>20, <1>22
  <2>3. \A q \in E \ {p} : g[q] = f[q]
    BY <1>20
  <2>4. MirrorsAll(bag, C, f, {})
    BY <1>17, MirrorsMeans
  <2>5. p \in C \/ Unset(f[p], {})
    BY <1>2, <1>20 DEF Unset, NewStore, NoneYet, GetBandwidth
  <2>6. summary.bandwidth' =
          IF touched THEN Replaced(left, OptionBag(f[p]), OptionBag(g[p])) ELSE left
    BY <1>2, <1>12, <1>15, <1>20 DEF Restated, RemovePeer
  <2> HIDE DEF f, g, bag
  <2>7. touched \in BOOLEAN
    BY DEF Timed
  <2>8. left = IF ev THEN bag (-) OptionBag(f[go]) ELSE bag
    OBVIOUS
  <2> HIDE DEF left, touched
  <2>9. Handled(bag, C, f, g, {}, p, go, ev, touched, left, summary.bandwidth', E)
    BY <1>12, <1>13, <1>a, <2>1, <2>2, <2>3, <2>4, <2>5, <2>6, <2>7, <2>8 DEF Handled
  <2>10. MirrorsAll(summary.bandwidth', E \cup {p}, g, {})
    BY <2>9, ValueHandled
  <2> QED
    BY <2>10 DEF g
<1>25. MirrorsAll(summary.bytes', E \cup {p}, [q \in RepPeers |-> Some(stores'[q].bytes)], {0})
  <2> DEFINE f == [q \in RepPeers |-> Some(stores[q].bytes)]
             g == [q \in RepPeers |-> Some(stores'[q].bytes)]
             bag == summary.bytes
             left == IF ev THEN bag (-) OptionBag(f[go]) ELSE bag
             touched == r.kind = "bytes"
  <2>1. f[p] \in Options /\ g[p] \in Options /\ (ev => f[go] \in Options)
    BY <1>2, <1>3, <1>12, <1>18 DEF Stores, Some, Options
  <2>2. ~touched => g[p] = f[p]
    BY <1>2, <1>20, <1>22
  <2>3. \A q \in E \ {p} : g[q] = f[q]
    BY <1>20
  <2>4. MirrorsAll(bag, C, f, {0})
    BY <1>17, MirrorsMeans
  <2>5. p \in C \/ Unset(f[p], {0})
    BY <1>2, <1>20 DEF Unset, NewStore, Some
  <2>a. \A n : SetToBag({n}) = OptionBag(Some(n))
    BY DEF OptionBag, Some
  <2>6. summary.bytes' =
          IF touched THEN Replaced(left, OptionBag(f[p]), OptionBag(g[p])) ELSE left
    BY <1>2, <1>12, <1>15, <1>20, <2>a DEF Restated, RemovePeer
  <2> HIDE DEF f, g, bag
  <2>7. touched \in BOOLEAN
    OBVIOUS
  <2>8. left = IF ev THEN bag (-) OptionBag(f[go]) ELSE bag
    OBVIOUS
  <2> HIDE DEF left, touched
  <2>9. Handled(bag, C, f, g, {0}, p, go, ev, touched, left, summary.bytes', E)
    BY <1>12, <1>13, <1>a, <2>1, <2>2, <2>3, <2>4, <2>5, <2>6, <2>7, <2>8 DEF Handled
  <2>10. MirrorsAll(summary.bytes', E \cup {p}, g, {0})
    BY <2>9, ValueHandled
  <2> QED
    BY <2>10 DEF g
<1>26. /\ IsABag(summary.interactions') /\ IsABag(summary.bytes') /\ IsABag(summary.bandwidth')
       /\ SummaryMirrors'
  <2>1. IsABag(summary.interactions') /\ IsABag(summary.bytes') /\ IsABag(summary.bandwidth')
    BY <1>23, <1>24, <1>25 DEF MirrorsAll
  <2>2. Mirrors(summary.interactions', E \cup {p}, [q \in RepPeers |-> stores'[q].interactions], {})
    BY <1>23, <2>1, MirrorsMeans
  <2>3. Mirrors(summary.bandwidth', E \cup {p}, [q \in RepPeers |-> GetBandwidth(stores'[q].bandwidth)], {})
    BY <1>24, <2>1, MirrorsMeans
  <2>4. Mirrors(summary.bytes', E \cup {p}, [q \in RepPeers |-> Some(stores'[q].bytes)], {0})
    BY <1>25, <2>1, MirrorsMeans
  <2> QED
    BY <1>11, <2>1, <2>2, <2>3, <2>4 DEF SummaryMirrors
<1>27. CacheInOrder'
    BY <1>9, <1>19 DEF CacheInOrder
<1>28. ASSUME NEW q \in RepPeers
       PROVE  IF q = p /\ r.kind = "bytes" THEN stores'[q].bytes = stores[q].bytes + r.bytes
              ELSE stores'[q].bytes <= stores[q].bytes
  <2>1. stores[q].bytes \in Nat /\ NewStore.bytes = 0
    BY <1>3 DEF Stores, NewStore
  <2>2. CASE q = p
    BY <1>20, <1>22, <2>1, <2>2
  <2>3. CASE q # p
    BY <1>15, <2>1, <2>3
  <2> QED
    BY <2>2, <2>3
<1> QED
    BY <1>9, <1>18, <1>26, <1>27, <1>28 DEF p

-----------------------------------------------------------------------------
(* Its steps.                                                              *)

\* Nothing is measured.
LEMMA NothingMeasured ==
    ASSUME NEW rec, rec = <<>>
    PROVE  /\ Range(rec) = {} /\ rec \in Seq(RepPeers) /\ IsInjective(rec) /\ Len(rec) = 0
           /\ IsABag(EmptyBag) /\ (\A f, z : Mirrors(EmptyBag, {}, f, z))
           /\ NoStores \in [RepPeers -> Stores]
<1>1. DOMAIN rec = {} /\ rec \in Seq(RepPeers) /\ Len(rec) = 0
    OBVIOUS
<1>2. IsABag(EmptyBag) /\ BagToSet(EmptyBag) = {}
    BY DEF EmptyBag, SetToBag, IsABag, BagToSet
<1>3. ASSUME NEW f, NEW z PROVE Mirrors(EmptyBag, {}, f, z)
    BY <1>2 DEF Mirrors
<1>4. NewStore \in Stores
    BY DEF NewStore, NoneYet, Stores, Options
<1> QED
    BY <1>1, <1>2, <1>3, <1>4 DEF Range, IsInjective, NoStores

LEMMA RepInitInv == RepInit => RepInv
<1> SUFFICES ASSUME RepInit PROVE RepInv
    OBVIOUS
<1> USE DEF RepInit
<1>1. stores = NoStores /\ summary.interactions = EmptyBag /\ summary.bytes = EmptyBag
      /\ summary.bandwidth = EmptyBag
    BY DEF NoStores, EmptySummary
<1>2. Cached = {}
    BY NothingMeasured DEF Cached
<1>3. IsFiniteSet(sending) /\ Cardinality(sending) = 0
    BY FS_EmptySet
<1>4. RepTypeOK
  <2>1. batches \in Seq(Seq(Reports)) /\ recent \in Seq(RepPeers)
    OBVIOUS
  <2>2. submitted \in [RepPeers -> Nat] /\ bytes_seen \in [RepPeers -> Nat]
    OBVIOUS
  <2> QED
    BY <1>1, <1>3, <2>1, <2>2, NothingMeasured DEF RepTypeOK
<1>5. OneReportEach
    BY DEF OneReportEach
<1>6. CacheInOrder
  <2>1. IsInjective(recent) /\ Len(recent) <= MAX_CAPACITY
    BY NothingMeasured, RepAssumption
  <2> QED
    BY <1>1, <2>1 DEF CacheInOrder, NoStores
<1>7. ReportsConserved
    BY <1>3 DEF ReportsConserved
<1>8. SummaryMirrors
    BY <1>1, <1>2, NothingMeasured DEF SummaryMirrors
<1>9. BytesCountedOnce
    BY DEF BytesCountedOnce, NewStore
<1> QED
    BY <1>4, <1>5, <1>6, <1>7, <1>8, <1>9 DEF RepInv

\* What the reporters do leaves the measurements alone.
LEMMA MeasuresStay ==
    ASSUME RepInv, UNCHANGED <<received, recent, stores, summary, submitted, bytes_seen>>
    PROVE  /\ CacheInOrder' /\ SummaryMirrors' /\ BytesCountedOnce'
           /\ received' = <<>> /\ recent' \in Seq(RepPeers) /\ stores' \in [RepPeers -> Stores]
           /\ submitted' \in [RepPeers -> Nat] /\ bytes_seen' \in [RepPeers -> Nat]
           /\ IsABag(summary.interactions') /\ IsABag(summary.bytes') /\ IsABag(summary.bandwidth')
BY DEF RepInv, RepTypeOK, CacheInOrder, SummaryMirrors, BytesCountedOnce, Cached

LEMMA ReportKeeps ==
    ASSUME RepInv, NEW r \in Reports, Report(r)
    PROVE  RepInv'
<1>1. /\ made' = made + 1 /\ sending' = sending \cup {[id |-> made, report |-> r]}
      /\ UNCHANGED <<batches, handled>>
      /\ UNCHANGED <<received, recent, stores, summary, submitted, bytes_seen>>
    BY DEF Report
<1>2. /\ made \in Nat /\ handled \in Nat /\ sending \subseteq [id : Nat, report : Reports]
      /\ IsFiniteSet(sending) /\ batches \in Seq(Seq(Reports))
    BY DEF RepInv, RepTypeOK
<1>3. (\A m \in sending : m.id < made) /\ \A k \in DOMAIN batches : Len(batches[k]) = 1
    BY DEF RepInv, OneReportEach
<1>4. PICK m : m = [id |-> made, report |-> r]
    OBVIOUS
<1>5. m \in [id : Nat, report : Reports] /\ m.id = made
    BY <1>2, <1>4
<1>6. m \notin sending
    BY <1>2, <1>3, <1>5
<1>7. IsFiniteSet(sending') /\ Cardinality(sending') = Cardinality(sending) + 1
    BY <1>1, <1>2, <1>4, <1>6, FS_AddElement
<1>8. RepTypeOK'
    BY <1>1, <1>2, <1>4, <1>5, <1>7, MeasuresStay DEF RepTypeOK
<1>9. OneReportEach'
  <2>1. \A x \in sending' : x.id < made'
    BY <1>1, <1>2, <1>3, <1>4, <1>5
  <2> QED
    BY <1>1, <1>3, <2>1 DEF OneReportEach
<1>10. ReportsConserved'
  <2>1. Cardinality(sending) \in Nat /\ Len(batches) \in Nat
    BY <1>2, FS_CardinalityType
  <2> QED
    BY <1>1, <1>2, <1>7, <2>1 DEF RepInv, ReportsConserved
<1> QED
    BY <1>1, <1>8, <1>9, <1>10, MeasuresStay DEF RepInv

LEMMA SendReportKeeps ==
    ASSUME RepInv, NEW m \in sending, SendReport(m)
    PROVE  RepInv'
<1>1. /\ sending' = sending \ {m} /\ UNCHANGED <<made, handled>>
      /\ batches' = IF IsFull(1) THEN Append(batches, <<m.report>>) ELSE batches
      /\ UNCHANGED <<received, recent, stores, summary, submitted, bytes_seen>>
    BY DEF SendReport
<1>2. /\ made \in Nat /\ handled \in Nat /\ sending \subseteq [id : Nat, report : Reports]
      /\ IsFiniteSet(sending) /\ batches \in Seq(Seq(Reports))
    BY DEF RepInv, RepTypeOK
<1>3. (\A x \in sending : x.id < made) /\ \A k \in DOMAIN batches : Len(batches[k]) = 1
    BY DEF RepInv, OneReportEach
<1>4. IsFiniteSet(sending') /\ Cardinality(sending') = Cardinality(sending) - 1
      /\ Cardinality(sending) \in Nat
    BY <1>1, <1>2, FS_RemoveElement, FS_CardinalityType
<1>5. PICK one : one = <<m.report>>
    OBVIOUS
<1>6. one \in Seq(Reports) /\ Len(one) = 1
    BY <1>2, <1>5
<1>7. /\ batches' \in Seq(Seq(Reports))
      /\ \A k \in DOMAIN batches' : Len(batches'[k]) = 1
      /\ Len(batches') = IF IsFull(1) THEN Len(batches) + 1 ELSE Len(batches)
  <2>1. CASE IsFull(1)
    <3>1. /\ Append(batches, one) \in Seq(Seq(Reports)) /\ Len(Append(batches, one)) = Len(batches) + 1
          /\ \A i \in 1 .. Len(batches) : Append(batches, one)[i] = batches[i]
          /\ Append(batches, one)[Len(batches) + 1] = one
      BY <1>2, <1>6, AppendProperties
    <3>a. PICK n \in Nat : n = Len(batches)
      BY <1>2
    <3>b. PICK t \in Seq(Seq(Reports)) : t = Append(batches, one)
      BY <3>1
    <3>2. t = Append(batches, one) /\ n = Len(batches)
      BY <3>a, <3>b
    <3>3. DOMAIN t = 1 .. n + 1 /\ DOMAIN batches = 1 .. n
      BY <1>2, <3>1, <3>2
    <3>4. \A k \in 1 .. n + 1 : k \in 1 .. n \/ k = n + 1
      OBVIOUS
    <3>5. \A k \in DOMAIN t : Len(t[k]) = 1
      BY <1>3, <1>6, <3>1, <3>2, <3>3, <3>4
    <3> QED
      BY <1>1, <1>5, <2>1, <3>1, <3>2, <3>5
  <2>2. CASE ~IsFull(1)
    BY <1>1, <1>2, <1>3, <2>2
  <2> QED
    BY <2>1, <2>2
<1>8. RepTypeOK'
    BY <1>1, <1>2, <1>4, <1>7, MeasuresStay DEF RepTypeOK
<1>9. OneReportEach'
    BY <1>1, <1>3, <1>7 DEF OneReportEach
<1>10. ReportsConserved'
  <2>1. Len(batches) \in Nat
    BY <1>2
  <2>2. reporter_buffer_size = 1 => IsFull(1)
    BY DEF IsFull
  <2> QED
    BY <1>1, <1>2, <1>4, <1>7, <2>1, <2>2 DEF RepInv, ReportsConserved
<1> QED
    BY <1>1, <1>8, <1>9, <1>10, MeasuresStay DEF RepInv

LEMMA ReceiveReportKeeps ==
    ASSUME RepInv, ReceiveReport
    PROVE  RepInv'
<1>1. /\ made \in Nat /\ handled \in Nat /\ sending \subseteq [id : Nat, report : Reports]
      /\ IsFiniteSet(sending) /\ batches \in Seq(Seq(Reports)) /\ received = <<>>
      /\ submitted \in [RepPeers -> Nat] /\ bytes_seen \in [RepPeers -> Nat]
      /\ stores \in [RepPeers -> Stores]
    BY DEF RepInv, RepTypeOK
<1>2. (\A x \in sending : x.id < made) /\ \A k \in DOMAIN batches : Len(batches[k]) = 1
    BY DEF RepInv, OneReportEach
<1>3. batches # <<>> /\ batches' = Tail(batches) /\ handled' = handled + 1
      /\ UNCHANGED <<made, sending, submitted>>
    BY DEF ReceiveReport
<1>4. PICK n \in Nat : n = Len(batches) /\ DOMAIN batches = 1 .. n /\ n > 0
    BY <1>1, <1>3
<1>5. Head(batches) \in Seq(Reports) /\ Len(Head(batches)) = 1
  <2>1. 1 \in 1 .. n /\ Head(batches) = batches[1]
    BY <1>1, <1>3, <1>4
  <2>2. batches[1] \in Seq(Reports)
    BY <1>1, <1>4, <2>1
  <2>3. Len(batches[1]) = 1
    BY <1>2, <1>4, <2>1
  <2> QED
    BY <2>1, <2>2, <2>3
<1>6. PICK all \in Seq(Reports) : all = Head(batches) /\ Len(all) = 1 /\ received \o Head(batches) = all
    BY <1>1, <1>5
<1>7. PICK r \in Reports : r = Head(all)
    BY <1>6
<1>8. /\ received' = Tail(all) /\ HandleReport(r)
      /\ bytes_seen' = IF r.kind = "bytes" THEN [bytes_seen EXCEPT ![r.peer] = @ + r.bytes]
                       ELSE bytes_seen
    BY <1>6, <1>7 DEF ReceiveReport
<1>9. received' = <<>>
    BY <1>6, <1>8
<1>10. /\ batches' \in Seq(Seq(Reports)) /\ Len(batches') = Len(batches) - 1
       /\ \A k \in DOMAIN batches' : Len(batches'[k]) = 1
  <2>1. /\ Tail(batches) \in Seq(Seq(Reports)) /\ Len(Tail(batches)) = Len(batches) - 1
        /\ \A i \in 1 .. Len(Tail(batches)) : Tail(batches)[i] = batches[i + 1]
    BY <1>1, <1>3, HeadTailProperties
  <2>2. DOMAIN batches' = 1 .. n - 1 /\ \A i \in 1 .. n - 1 : i + 1 \in 1 .. n
    BY <1>3, <1>4, <2>1
  <2> QED
    BY <1>2, <1>3, <1>4, <2>1, <2>2
<1>11. r.peer \in RepPeers /\ (r.kind = "bytes" => r.bytes \in Nat)
  <2>1. r.peer \in RepPeers
    BY DEF Reports
  <2>2. r.kind = "bytes" => r.bytes \in Nat
    BY RepAssumption DEF Reports
  <2> QED
    BY <2>1, <2>2
<1>12. bytes_seen' \in [RepPeers -> Nat]
    BY <1>1, <1>8, <1>11
<1>13. RepMeasures
    BY DEF RepInv, RepMeasures
<1>14. /\ recent' \in Seq(RepPeers) /\ stores' \in [RepPeers -> Stores]
       /\ IsABag(summary.interactions') /\ IsABag(summary.bytes') /\ IsABag(summary.bandwidth')
       /\ CacheInOrder' /\ SummaryMirrors'
       /\ \A q \in RepPeers : IF q = r.peer /\ r.kind = "bytes"
                              THEN stores'[q].bytes = stores[q].bytes + r.bytes
                              ELSE stores'[q].bytes <= stores[q].bytes
    BY <1>8, <1>13, HandleKeeps
<1>15. RepTypeOK'
    BY <1>1, <1>3, <1>9, <1>10, <1>12, <1>14 DEF RepTypeOK
<1>16. OneReportEach'
    BY <1>2, <1>3, <1>10 DEF OneReportEach
<1>17. ReportsConserved'
  <2>1. Cardinality(sending) \in Nat
    BY <1>1, FS_CardinalityType
  <2>2. reporter_buffer_size = 1 => made = Cardinality(sending) + n + handled
    BY <1>4 DEF RepInv, ReportsConserved
  <2>3. Len(batches)' = n - 1
    BY <1>4, <1>10
  <2>4. Cardinality(sending)' = Cardinality(sending) /\ made' = made
    BY <1>3
  <2>5. reporter_buffer_size = 1 => made' = Cardinality(sending)' + Len(batches)' + handled'
    <3>1. PICK c \in Nat, h \in Nat : c = Cardinality(sending) /\ h = handled
      BY <1>1, <2>1
    <3>2. n - 1 \in Int /\ c + (n - 1) + (h + 1) = c + n + h
      OBVIOUS
    <3> QED
      BY <1>3, <2>2, <2>3, <2>4, <3>1, <3>2
  <2> QED
    BY <2>5 DEF ReportsConserved
<1>18. BytesCountedOnce'
  <2>1. SUFFICES ASSUME NEW q \in RepPeers PROVE submitted'[q] + stores'[q].bytes <= bytes_seen'[q]
    BY DEF BytesCountedOnce
  <2>2. submitted[q] + stores[q].bytes <= bytes_seen[q] /\ submitted'[q] = submitted[q]
    BY <1>3 DEF RepInv, BytesCountedOnce
  <2>3. /\ submitted[q] \in Nat /\ bytes_seen[q] \in Nat /\ stores[q].bytes \in Nat
        /\ stores'[q].bytes \in Nat
    BY <1>1, <1>14 DEF Stores
  <2>4. CASE q = r.peer /\ r.kind = "bytes"
    <3>1. bytes_seen'[q] = bytes_seen[q] + r.bytes /\ stores'[q].bytes = stores[q].bytes + r.bytes
      BY <1>1, <1>8, <1>14, <2>4
    <3> QED
      BY <1>11, <2>2, <2>3, <2>4, <3>1
  <2>5. CASE ~(q = r.peer /\ r.kind = "bytes")
    <3>1. bytes_seen'[q] = bytes_seen[q] /\ stores'[q].bytes <= stores[q].bytes
      BY <1>1, <1>8, <1>14, <2>5
    <3> QED
      BY <2>2, <2>3, <3>1
  <2> QED
    BY <2>4, <2>5
<1> QED
    BY <1>14, <1>15, <1>16, <1>17, <1>18 DEF RepInv

LEMMA SubmitAggregationKeeps ==
    ASSUME RepInv, SubmitAggregation
    PROVE  RepInv'
<1>1. /\ RepTypeOK /\ OneReportEach /\ ReportsConserved /\ BytesCountedOnce
      /\ UNCHANGED <<made, sending, batches, received, handled, bytes_seen>>
      /\ recent' = <<>> /\ stores' = NoStores /\ summary' = EmptySummary
    BY DEF RepInv, SubmitAggregation, clear_measurements
<1>2. summary.interactions' = EmptyBag /\ summary.bytes' = EmptyBag /\ summary.bandwidth' = EmptyBag
    BY <1>1 DEF EmptySummary
<1>3. stores \in [RepPeers -> Stores] /\ submitted \in [RepPeers -> Nat] /\ bytes_seen \in [RepPeers -> Nat]
    BY <1>1 DEF RepTypeOK
<1>4. /\ submitted' \in [RepPeers -> Nat]
      /\ \A p \in RepPeers : submitted'[p] <= submitted[p] + stores[p].bytes
  <2>1. \A p \in RepPeers : submitted[p] \in Nat /\ stores[p].bytes \in Nat
    BY <1>3 DEF Stores
  <2>2. \/ submitted' = [p \in RepPeers |-> IF p \in Cached THEN submitted[p] + stores[p].bytes ELSE submitted[p]]
        \/ submitted' = submitted
    BY DEF SubmitAggregation, Measurement
  <2>3. CASE submitted' = [p \in RepPeers |-> IF p \in Cached THEN submitted[p] + stores[p].bytes ELSE submitted[p]]
    BY <2>1, <2>3
  <2>4. CASE submitted' = submitted
    BY <1>3, <2>1, <2>4
  <2> QED
    BY <2>2, <2>3, <2>4
<1>5. RepTypeOK'
    BY <1>1, <1>2, <1>4, NothingMeasured DEF RepTypeOK
<1>6. OneReportEach' /\ ReportsConserved'
    BY <1>1 DEF OneReportEach, ReportsConserved
<1>7. CacheInOrder'
  <2>1. IsInjective(recent') /\ Len(recent') <= MAX_CAPACITY
    BY <1>1, NothingMeasured, RepAssumption
  <2> QED
    BY <1>1, <2>1 DEF CacheInOrder, NoStores
<1>8. SummaryMirrors'
  <2>1. Cached' = {}
    BY <1>1, NothingMeasured DEF Cached
  <2> QED
    BY <1>2, <2>1, NothingMeasured DEF SummaryMirrors
<1>9. BytesCountedOnce'
  <2>1. SUFFICES ASSUME NEW p \in RepPeers PROVE submitted'[p] + stores'[p].bytes <= bytes_seen'[p]
    BY DEF BytesCountedOnce
  <2>2. stores'[p].bytes = 0 /\ bytes_seen'[p] = bytes_seen[p]
    BY <1>1 DEF NoStores, NewStore
  <2>3. submitted[p] + stores[p].bytes <= bytes_seen[p] /\ submitted'[p] <= submitted[p] + stores[p].bytes
    BY <1>1, <1>4 DEF BytesCountedOnce
  <2>4. submitted[p] \in Nat /\ stores[p].bytes \in Nat /\ bytes_seen[p] \in Nat /\ submitted'[p] \in Nat
    BY <1>3, <1>4 DEF Stores
  <2> QED
    BY <2>2, <2>3, <2>4
<1> QED
    BY <1>5, <1>6, <1>7, <1>8, <1>9 DEF RepInv

LEMMA RepStepKeeps == RepInv /\ [RepNext]_collectorVars => RepInv'
<1> SUFFICES ASSUME RepInv, [RepNext]_collectorVars PROVE RepInv'
    OBVIOUS
<1>1. ASSUME NEW r \in Reports, Report(r) PROVE RepInv'
    BY <1>1, ReportKeeps
<1>2. ASSUME NEW m \in sending, SendReport(m) PROVE RepInv'
    BY <1>2, SendReportKeeps
<1>3. CASE ReceiveReport
    BY <1>3, ReceiveReportKeeps
<1>4. CASE SubmitAggregation
    BY <1>4, SubmitAggregationKeeps
<1>5. CASE UNCHANGED collectorVars
  <2>1. /\ UNCHANGED <<made, sending, batches, handled>>
        /\ UNCHANGED <<received, recent, stores, summary, submitted, bytes_seen>>
    BY <1>5 DEF collectorVars
  <2>2. CacheInOrder' /\ SummaryMirrors' /\ BytesCountedOnce'
    BY <2>1, MeasuresStay
  <2>3. RepTypeOK' /\ OneReportEach' /\ ReportsConserved'
    BY <2>1 DEF RepInv, RepTypeOK, OneReportEach, ReportsConserved
  <2> QED
    BY <2>2, <2>3 DEF RepInv
<1> QED
    BY <1>1, <1>2, <1>3, <1>4, <1>5 DEF RepNext

\* Every report on its way through the tasks and the channel reaches the measurements
\* once, and the summary statistics mirror the measurements of the cached peers, also
\* after an eviction and after a submission.
THEOREM ReportsReachTheSummary == RepSpec => []RepInv
<1> QED
    BY RepInitInv, RepStepKeeps, PTL DEF RepSpec
=============================================================================
