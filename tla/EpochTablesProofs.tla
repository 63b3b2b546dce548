--------------------------- MODULE EpochTablesProofs ---------------------------
(***************************************************************************)
(* Proof that the tables the epoch change sweeps mirror one another, and   *)
(* of what the epoch change does to them, for every set of nodes, URIs and *)
(* jobs and any number of transactions and epochs.                         *)
(***************************************************************************)
EXTENDS EpochTables, Integers, FiniteSetTheorems, SequenceTheorems, TLAPS

-----------------------------------------------------------------------------
(* Sequences.                                                              *)

LEMMA MinIsLeast ==
    ASSUME NEW S, S \subseteq Nat, S # {}
    PROVE  Min(S) \in S /\ \A y \in S : Min(S) <= y
<1> DEFINE R == {ss \in Nat \X Nat : ss[1] < ss[2]}
<1>1. IsWellFoundedOn(R, Nat)
    BY NatLessThanWellFounded DEF OpToRel
<1>2. PICK x \in S : \A y \in S : ~(<<y, x>> \in R)
  <2> HIDE DEF R
  <2> QED
    BY <1>1, WFMin
<1>3. ASSUME NEW y \in S, ~(x <= y)
      PROVE  FALSE
  <2>1. y \in Nat /\ x \in Nat /\ y < x
    BY <1>3
  <2>2. <<y, x>> \in Nat \X Nat /\ <<y, x>>[1] = y /\ <<y, x>>[2] = x
    BY <2>1
  <2> QED
    BY <1>2, <2>1, <2>2
<1> QED
    BY <1>3 DEF Min

\* The elements of a finite set, each once.
LEMMA SetToSeqFacts ==
    ASSUME NEW S, IsFiniteSet(S)
    PROVE  /\ Cardinality(S) \in Nat
           /\ SetToSeq(S) \in Seq(S) /\ Len(SetToSeq(S)) = Cardinality(S)
           /\ SetToSeq(S) \in [1 .. Cardinality(S) -> S]
           /\ \A x \in S : \E i \in 1 .. Cardinality(S) : SetToSeq(S)[i] = x
<1>1. Cardinality(S) \in Nat /\ ExistsBijection(1 .. Cardinality(S), S)
    BY FS_CardinalityType
<1>2. PICK n \in Nat : n = Cardinality(S)
    BY <1>1
<1>3. \E f \in [1 .. n -> S] : IsInjective(f)
    BY <1>1, <1>2 DEF ExistsBijection, Bijection, Injection
<1>4. SetToSeq(S) \in [1 .. n -> S] /\ IsInjective(SetToSeq(S))
    BY <1>2, <1>3 DEF SetToSeq
<1>5. SetToSeq(S) \in Injection(1 .. n, S)
    BY <1>4 DEF Injection
<1>6. Cardinality(1 .. n) = n
    BY FS_Interval
<1>7. SetToSeq(S) \in Surjection(1 .. n, S)
    BY <1>2, <1>5, <1>6, FS_Injection
<1>8. \A x \in S : \E i \in 1 .. n : SetToSeq(S)[i] = x
    BY <1>7 DEF Surjection
<1>9. SetToSeq(S) \in Seq(S) /\ Len(SetToSeq(S)) = n
    BY <1>4
<1> QED
    BY <1>2, <1>4, <1>8, <1>9

\* Only an entry that equals the element is taken out.
LEMMA RemoveFirstKeeps ==
    ASSUME NEW S, NEW s \in Seq(S), NEW e
    PROVE  /\ RemoveFirst(s, e) \in Seq(S)
           /\ \A i \in 1 .. Len(s) : s[i] # e =>
                \E k \in 1 .. Len(RemoveFirst(s, e)) : RemoveFirst(s, e)[k] = s[i]
<1> DEFINE I == {i \in 1 .. Len(s) : s[i] = e}
<1>n. PICK n \in Nat : n = Len(s) /\ \A i \in 1 .. n : s[i] \in S
    OBVIOUS
<1>1. CASE I = {}
    BY <1>1 DEF RemoveFirst
<1>2. CASE I # {}
  <2>0. I \subseteq Nat
    BY <1>n
  <2>1. Min(I) \in I
    <3> HIDE DEF I
    <3> QED
      BY <1>2, <2>0, MinIsLeast
  <2>2. PICK m \in 1 .. n : m = Min(I) /\ s[m] = e
    BY <1>n, <2>1
  <2>3. RemoveFirst(s, e) = RemoveAt(s, m)
    BY <1>2, <2>2 DEF RemoveFirst, SelectInSeq
  <2>4. /\ SubSeq(s, 1, m - 1) \in Seq(S) /\ Len(SubSeq(s, 1, m - 1)) = m - 1
        /\ \A i \in 1 .. m - 1 : SubSeq(s, 1, m - 1)[i] = s[i]
    <3>1. /\ 1 \in 1 .. Len(s) + 1 /\ m - 1 \in 1 - 1 .. Len(s) /\ m - 1 - 1 + 1 = m - 1
          /\ \A i \in 1 .. m - 1 : 1 + i - 1 = i
      BY <1>n, <2>2
    <3> QED
      BY <3>1, SubSeqProperties
  <2>5. /\ SubSeq(s, m + 1, n) \in Seq(S) /\ Len(SubSeq(s, m + 1, n)) = n - m
        /\ \A i \in 1 .. n - m : SubSeq(s, m + 1, n)[i] = s[i + m]
    <3>0. m \in Int /\ n \in Int /\ 1 <= m /\ m <= n
      BY <1>n, <2>2
    <3>a. n - m = IF m + 1 <= n THEN n - (m + 1) + 1 ELSE 0
      BY <3>0
    <3>b. \A i \in m + 1 .. n : i \in 1 .. n
      BY <3>0
    <3>1. /\ m + 1 \in Int /\ n \in Int /\ n - (m + 1) + 1 = n - m
          /\ \A i \in 1 .. n - m : (m + 1) + i - 1 = i + m
          /\ \A i \in m + 1 .. n : i \in 1 .. n
          /\ n - m = IF m + 1 <= n THEN n - (m + 1) + 1 ELSE 0
      BY <3>0, <3>a, <3>b
    <3>2. \A i \in m + 1 .. n : s[i] \in S
      BY <1>n, <3>1
    <3>3. /\ SubSeq(s, m + 1, n) \in Seq(S)
          /\ Len(SubSeq(s, m + 1, n)) = IF m + 1 <= n THEN n - (m + 1) + 1 ELSE 0
          /\ \A i \in 1 .. n - (m + 1) + 1 : SubSeq(s, m + 1, n)[i] = s[(m + 1) + i - 1]
      BY <3>1, <3>2, SubSeqProperties
    <3> QED
      BY <3>1, <3>3
  <2>6. PICK a \in Seq(S) : /\ a = SubSeq(s, 1, m - 1) /\ Len(a) = m - 1
                            /\ \A i \in 1 .. m - 1 : a[i] = s[i]
    BY <2>4
  <2>7. PICK b \in Seq(S) : /\ b = SubSeq(s, m + 1, n) /\ Len(b) = n - m
                            /\ \A i \in 1 .. n - m : b[i] = s[i + m]
    BY <2>5
  <2>8. PICK c \in Seq(S) : /\ c = a \o b /\ Len(c) = n - 1
                            /\ \A i \in 1 .. m - 1 : c[i] = a[i]
                            /\ \A i \in m .. n - 1 : c[i] = b[i - (m - 1)]
    <3>1. a \o b \in Seq(S) /\ Len(a \o b) = Len(a) + Len(b)
      OBVIOUS
    <3>2. \A i \in 1 .. Len(a) + Len(b) :
            (a \o b)[i] = IF i <= Len(a) THEN a[i] ELSE b[i - Len(a)]
      OBVIOUS
    <3>0. Len(a) = m - 1 /\ Len(b) = n - m /\ m \in Int /\ 1 <= m /\ m <= n /\ n \in Int
      BY <1>n, <2>2, <2>6, <2>7
    <3>3. Len(a) + Len(b) = n - 1 /\ m - 1 <= n - 1
      BY <3>0
    <3>4. \A i \in 1 .. m - 1 : (a \o b)[i] = a[i]
      BY <3>0, <3>2, <3>3
    <3>5. ASSUME NEW i \in m .. n - 1
          PROVE  (a \o b)[i] = b[i - (m - 1)]
      <4>1. i \in 1 .. Len(a) + Len(b) /\ ~(i <= Len(a)) /\ i - Len(a) = i - (m - 1)
        BY <3>0, <3>3
      <4> QED
        BY <3>2, <4>1
    <3> QED
      BY <3>1, <3>3, <3>4, <3>5
  <2>9. RemoveFirst(s, e) = c
    BY <1>n, <2>3, <2>6, <2>7, <2>8 DEF RemoveAt
  <2>10. ASSUME NEW i \in 1 .. n, s[i] # e
         PROVE  \E k \in 1 .. n - 1 : c[k] = s[i]
    <3>0. i \in Nat /\ m \in Nat /\ i >= 1 /\ m >= 1 /\ i <= n /\ m <= n
      BY <1>n, <2>2
    <3>1. CASE i < m
      <4>1. i \in 1 .. m - 1 /\ i \in 1 .. n - 1
        BY <1>n, <3>0, <3>1
      <4> QED
        BY <2>6, <2>8, <4>1
    <3>2. CASE i > m
      <4>1. i - 1 \in m .. n - 1 /\ i - m \in 1 .. n - m /\ i - 1 \in 1 .. n - 1
        BY <1>n, <3>0, <3>2
      <4>2. c[i - 1] = b[(i - 1) - (m - 1)]
        BY <2>8, <4>1
      <4>3. b[i - m] = s[(i - m) + m]
        BY <2>7, <4>1
      <4>4. (i - 1) - (m - 1) = i - m /\ (i - m) + m = i
        BY <3>0
      <4> QED
        BY <4>1, <4>2, <4>3, <4>4
    <3> QED
      BY <2>2, <2>10, <3>0, <3>1, <3>2
  <2> QED
    BY <1>n, <2>8, <2>9, <2>10
<1> QED
    BY <1>1, <1>2

-----------------------------------------------------------------------------
(* The assignment of jobs.                                                 *)

\* The chunks are few enough for the nodes: the index of assign_jobs is in range.
LEMMA ChunkFits ==
    ASSUME NEW n \in Nat, NEW w \in Nat \ {0}, NEW i \in 1 .. n,
           NEW c, c = IF n < w THEN 1 ELSE (n + w - 1) \div w
    PROVE  (i - 1) \div c + 1 \in 1 .. w
<1>1. PICK k \in Nat : k = i - 1 /\ k < n
    OBVIOUS
<1>2. CASE n < w
    BY <1>1, <1>2
<1>3. CASE n >= w
  <2>1. n + w - 1 \in Nat /\ c = (n + w - 1) \div w
    BY <1>3
  <2>2. /\ c \in Nat /\ w * c <= n + w - 1 /\ n + w - 1 < w * c + w
    BY <2>1
  <2>3. n <= w * c /\ c # 0
    BY <1>1, <2>2
  <2>4. PICK q \in Nat : q = k \div c /\ c * q <= k
    BY <1>1, <2>2, <2>3
  <2>5. c * q < w * c
    BY <1>1, <2>2, <2>3, <2>4
  <2>6. q < w
    <3>1. ASSUME q >= w
          PROVE  FALSE
      <4>1. c * q >= c * w
        BY <2>2, <3>1
      <4> QED
        BY <2>2, <2>5, <4>1
    <3> QED
      BY <3>1
  <2> QED
    BY <1>1, <2>4, <2>6
<1> QED
    BY <1>2, <1>3

Info == [stake : BOOLEAN, participation : {"True", "False", "OptedIn", "OptedOut"}]

\* Every job of an assignment goes to one of the nodes.
LEMMA AssignmentType ==
    ASSUME NEW J \in SUBSET JobHashes, NEW W \in SUBSET Peers4Epoch, J = {} \/ W # {},
           NEW a \in Assignments(J, W)
    PROVE  a \in [J -> W]
<1>1. /\ IsFiniteSet(J) /\ IsFiniteSet(W)
      /\ Cardinality(J) \in Nat /\ Cardinality(W) \in Nat
    BY EpochTablesAssumption, FS_Subset, FS_CardinalityType
<1> DEFINE sorted == SetToSeq(J)
           index(j) == CHOOSE i \in DOMAIN sorted : sorted[i] = j
<1>2. PICK nodes \in SetToSeqs(W) :
        a = [j \in J |-> nodes[(index(j) - 1) \div Chunk(J, W) + 1]]
    BY DEF Assignments
<1>3. nodes \in [1 .. Cardinality(W) -> W]
    BY DEF SetToSeqs
<1>4. ASSUME NEW j \in J
      PROVE  nodes[(index(j) - 1) \div Chunk(J, W) + 1] \in W
  <2>1. DOMAIN sorted = 1 .. Cardinality(J) /\ \E i \in 1 .. Cardinality(J) : sorted[i] = j
    BY <1>1, SetToSeqFacts
  <2>2. PICK i \in 1 .. Cardinality(J) : i = index(j)
    BY <2>1
  <2>3. Cardinality(W) # 0
    BY <1>1, FS_EmptySet
  <2>4. (i - 1) \div Chunk(J, W) + 1 \in 1 .. Cardinality(W)
    BY <1>1, <2>3, ChunkFits DEF Chunk
  <2> QED
    BY <1>3, <2>2, <2>4
<1> HIDE DEF index
<1> QED
    BY <1>2, <1>4

\* A list keeps its entries and gets the jobs that are assigned to its node.
Extended(old, new, J, a, n) ==
    /\ new \in Seq(JobHashes)
    /\ \A i \in DOMAIN old : \E k \in DOMAIN new : new[k] = old[i]
    /\ \A j \in J : a[j] = n => \E k \in DOMAIN new : new[k] = j
    /\ old = <<>> => \A k \in DOMAIN new : new[k] \in J /\ a[new[k]] = n

LEMMA ListedFacts ==
    ASSUME NEW lists \in [Peers4Epoch -> Seq(JobHashes)],
           NEW J \in SUBSET JobHashes, NEW a \in [J -> Peers4Epoch],
           NEW n \in Peers4Epoch
    PROVE  Extended(lists[n], Listed(lists, a)[n], J, a, n)
<1> DEFINE mine == {j \in J : a[j] = n}
<1>1. DOMAIN a = J
    OBVIOUS
<1>2. IsFiniteSet(mine)
    BY EpochTablesAssumption, FS_Subset
<1>3. PICK b : b = SetToSeq(mine)
    OBVIOUS
<1>4. /\ b \in Seq(mine) /\ DOMAIN b = 1 .. Len(b) /\ Len(b) \in Nat
      /\ \A x \in mine : \E i \in 1 .. Len(b) : b[i] = x
    <2> HIDE DEF mine
    <2>1. /\ Cardinality(mine) \in Nat /\ b \in Seq(mine) /\ Len(b) = Cardinality(mine)
          /\ \A x \in mine : \E i \in 1 .. Cardinality(mine) : b[i] = x
      BY <1>2, <1>3, SetToSeqFacts
    <2>2. DOMAIN b = 1 .. Len(b)
      BY <2>1
    <2> QED
      BY <2>1, <2>2
<1>5. b \in Seq(JobHashes) /\ \A i \in 1 .. Len(b) : b[i] \in mine
    BY <1>4
<1>6. PICK s \in Seq(JobHashes) : s = lists[n] /\ DOMAIN s = 1 .. Len(s) /\ Len(s) \in Nat
    OBVIOUS
<1>7. PICK c : c = Listed(lists, a)[n] /\ c = s \o b
    BY <1>1, <1>3, <1>6 DEF Listed
<1>8. /\ c \in Seq(JobHashes) /\ DOMAIN c = 1 .. Len(s) + Len(b)
      /\ \A i \in 1 .. Len(s) + Len(b) : c[i] = IF i <= Len(s) THEN s[i] ELSE b[i - Len(s)]
    BY <1>5, <1>6, <1>7, ConcatProperties
<1>9. \A i \in DOMAIN s : i \in DOMAIN c /\ c[i] = s[i]
    BY <1>4, <1>6, <1>8
<1>10. ASSUME NEW i \in DOMAIN b
       PROVE  i + Len(s) \in DOMAIN c /\ c[i + Len(s)] = b[i]
  <2>1. /\ i + Len(s) \in 1 .. Len(s) + Len(b) /\ ~(i + Len(s) <= Len(s))
        /\ i + Len(s) - Len(s) = i
    BY <1>4, <1>6
  <2> QED
    BY <1>8, <2>1
<1>11. ASSUME s = <<>>
       PROVE  \A k \in DOMAIN c : c[k] \in mine
  <2>1. Len(s) = 0
    BY <1>11
  <2>2. \A k \in DOMAIN c : k \in 1 .. Len(b) /\ c[k] = b[k]
    BY <1>4, <1>8, <2>1
  <2> QED
    BY <1>5, <2>2
<1>12. \A j \in J : a[j] = n => \E k \in DOMAIN c : c[k] = j
    BY <1>4, <1>10
<1> QED
    BY <1>6, <1>7, <1>8, <1>9, <1>11, <1>12 DEF Extended

\* add_jobs: the jobs that are added are listed with their new assignees, and the
\* others where they were.
LEMMA AddAllKeeps ==
    ASSUME NEW J \in SUBSET JobHashes, NEW before,
           DOMAIN before \subseteq JobHashes, before \in [DOMAIN before -> Peers4Epoch],
           NEW lists \in [Peers4Epoch -> Seq(JobHashes)],
           \A j \in DOMAIN before \ J : \E i \in DOMAIN lists[before[j]] :
              lists[before[j]][i] = j,
           NEW info \in [Peers4Epoch -> Info], halted \in BOOLEAN,
           AddAll(J, before, lists, info)
    PROVE  /\ DOMAIN jobs' \subseteq JobHashes /\ jobs' \in [DOMAIN jobs' -> Peers4Epoch]
           /\ assigned_jobs' \in [Peers4Epoch -> Seq(JobHashes)]
           /\ halted' \in BOOLEAN
           /\ JobsAreListed'
           /\ halted' \/ DOMAIN jobs' = DOMAIN before \cup J
<1>1. CASE J # {} /\ Workers(info) = {}
    BY <1>1 DEF AddAll, JobsAreListed
<1>2. CASE J = {} \/ Workers(info) # {}
  <2>1. PICK a \in Assignments(J, Workers(info)) :
          /\ jobs' = [j \in DOMAIN before \cup J |-> IF j \in J THEN a[j] ELSE before[j]]
          /\ assigned_jobs' = Listed(lists, a)
          /\ halted' = halted
    BY <1>2 DEF AddAll
  <2>2. a \in [J -> Peers4Epoch]
    <3>1. Workers(info) \in SUBSET Peers4Epoch
      BY DEF Workers
    <3>2. a \in [J -> Workers(info)]
      BY <1>2, <3>1, AssignmentType
    <3> QED
      BY <3>1, <3>2
  <2>3. /\ DOMAIN jobs' = DOMAIN before \cup J
        /\ \A j \in DOMAIN jobs' : /\ jobs'[j] \in Peers4Epoch
                                   /\ j \in J => jobs'[j] = a[j]
                                   /\ j \notin J => jobs'[j] = before[j]
        /\ jobs' \in [DOMAIN jobs' -> Peers4Epoch]
    BY <2>1, <2>2
  <2>4. assigned_jobs' \in [Peers4Epoch -> Seq(JobHashes)]
    <3>1. assigned_jobs' = [n \in Peers4Epoch |-> assigned_jobs'[n]]
      BY <2>1 DEF Listed
    <3>2. \A n \in Peers4Epoch : assigned_jobs'[n] \in Seq(JobHashes)
      BY <2>1, <2>2, ListedFacts DEF Extended
    <3> QED
      BY <3>1, <3>2
  <2>5. ASSUME NEW j \in DOMAIN jobs'
        PROVE  \E i \in DOMAIN assigned_jobs'[jobs'[j]] : assigned_jobs'[jobs'[j]][i] = j
    <3>1. CASE j \in J
      <4>1. PICK n \in Peers4Epoch : n = a[j] /\ n = jobs'[j]
        BY <2>3, <3>1
      <4>2. Extended(lists[n], Listed(lists, a)[n], J, a, n)
        BY <2>2, ListedFacts
      <4> QED
        BY <2>1, <3>1, <4>1, <4>2 DEF Extended
    <3>2. CASE j \notin J
      <4>1. PICK n \in Peers4Epoch : n = before[j] /\ n = jobs'[j]
        BY <2>3, <3>2
      <4>2. PICK i \in DOMAIN lists[n] : lists[n][i] = j
        BY <2>3, <3>2, <4>1
      <4>3. Extended(lists[n], Listed(lists, a)[n], J, a, n)
        BY <2>2, ListedFacts
      <4>4. \E k \in DOMAIN Listed(lists, a)[n] : Listed(lists, a)[n][k] = lists[n][i]
        BY <4>3 DEF Extended
      <4> QED
        BY <2>1, <4>1, <4>2, <4>4
    <3> QED
      BY <3>1, <3>2
  <2> QED
    BY <2>1, <2>3, <2>4, <2>5 DEF JobsAreListed
<1> QED
    BY <1>1, <1>2

\* reassign_jobs: every list has the jobs of its node and nothing else, if no list
\* had anything before.
LEMMA AddAllRepairs ==
    ASSUME NEW J \in SUBSET JobHashes, NEW info \in [Peers4Epoch -> Info],
           AddAll(J, <<>>, [n \in Peers4Epoch |-> <<>>], info), ~halted'
    PROVE  /\ DOMAIN jobs' = J
           /\ \A n \in Peers4Epoch : \A i \in DOMAIN assigned_jobs'[n] :
                /\ assigned_jobs'[n][i] \in DOMAIN jobs'
                /\ jobs'[assigned_jobs'[n][i]] = n
                /\ n \in Workers(info)
<1> DEFINE empty == [n \in Peers4Epoch |-> <<>>]
<1>1. J = {} \/ Workers(info) # {}
    BY DEF AddAll
<1>2. PICK a \in Assignments(J, Workers(info)) :
        /\ jobs' = [j \in DOMAIN <<>> \cup J |-> IF j \in J THEN a[j] ELSE <<>>[j]]
        /\ assigned_jobs' = Listed(empty, a)
    BY <1>1 DEF AddAll
<1>3. Workers(info) \in SUBSET Peers4Epoch
    BY DEF Workers
<1>4. a \in [J -> Workers(info)]
    BY <1>1, <1>3, AssignmentType
<1>5. DOMAIN <<>> = {}
    OBVIOUS
<1>6. DOMAIN jobs' = J /\ \A j \in J : jobs'[j] = a[j]
    BY <1>2, <1>5
<1>7. ASSUME NEW n \in Peers4Epoch
      PROVE  \A i \in DOMAIN assigned_jobs'[n] :
               assigned_jobs'[n][i] \in J /\ a[assigned_jobs'[n][i]] = n
  <2>1. empty \in [Peers4Epoch -> Seq(JobHashes)] /\ empty[n] = <<>>
    OBVIOUS
  <2>2. a \in [J -> Peers4Epoch]
    BY <1>3, <1>4
  <2> HIDE DEF empty
  <2>3. Extended(empty[n], Listed(empty, a)[n], J, a, n)
    BY <2>1, <2>2, ListedFacts
  <2> QED
    BY <1>2, <2>1, <2>3 DEF Extended
<1> QED
    BY <1>4, <1>6, <1>7

-----------------------------------------------------------------------------
(* One lemma per transaction.                                              *)

RegistryType == /\ uri_to_node \in [Uris -> SUBSET Peers4Epoch]
                /\ node_to_uri \in [Peers4Epoch -> SUBSET Uris]
JobsType == /\ halted \in BOOLEAN
            /\ DOMAIN jobs \subseteq JobHashes /\ jobs \in [DOMAIN jobs -> Peers4Epoch]
            /\ assigned_jobs \in [Peers4Epoch -> Seq(JobHashes)]
RepType == /\ rep_measurements \in [Peers4Epoch -> Nat] /\ reported \in [Peers4Epoch -> Nat]
           /\ submitted \in [Peers4Epoch -> 0 .. MAX_MEASUREMENTS_SUBMIT]

LEMMA TypeParts ==
    EpochTablesTypeOK <=> /\ table_epoch \in Nat /\ member \in [Peers4Epoch -> Info]
                          /\ RegistryType /\ JobsType /\ RepType
BY DEF EpochTablesTypeOK, Info, RegistryType, JobsType, RepType

LEMMA TypePartsNext ==
    EpochTablesTypeOK' <=> /\ table_epoch' \in Nat /\ member' \in [Peers4Epoch -> Info]
                           /\ RegistryType' /\ JobsType' /\ RepType'
BY DEF EpochTablesTypeOK, Info, RegistryType, JobsType, RepType

LEMMA MemberChangeType ==
    ASSUME member \in [Peers4Epoch -> Info], NEW n \in Peers4Epoch, MemberChange(n)
    PROVE  member' \in [Peers4Epoch -> Info]
<1> DEFINE Participation == {"True", "False", "OptedIn", "OptedOut"}
<1>1. /\ member[n].stake \in BOOLEAN /\ member[n].participation \in Participation
      /\ member[n] = [stake |-> member[n].stake, participation |-> member[n].participation]
    BY DEF Info
<1>2. PICK new \in Info : member' = [member EXCEPT ![n] = new]
  <2>1. \A s \in BOOLEAN, p \in Participation : [stake |-> s, participation |-> p] \in Info
    BY DEF Info
  <2>2. CASE member' = [member EXCEPT ![n].participation = "OptedIn"]
    BY <1>1, <2>2 DEF Info
  <2>3. CASE member' = [member EXCEPT ![n].participation = "OptedOut"]
    BY <1>1, <2>3 DEF Info
  <2>4. CASE member' = [member EXCEPT
               ![n] = [stake |-> FALSE,
                       participation |-> IF @.participation \in {"True", "OptedOut"}
                                         THEN "OptedOut" ELSE @.participation]]
    <3>1. PICK p \in Participation :
            p = IF member[n].participation \in {"True", "OptedOut"}
                THEN "OptedOut" ELSE member[n].participation
      BY <1>1
    <3> QED
      BY <2>1, <2>4, <3>1
  <2>5. CASE member' = [member EXCEPT ![n].stake = TRUE]
    BY <1>1, <2>5 DEF Info
  <2> QED
    BY <2>2, <2>3, <2>4, <2>5 DEF MemberChange
<1> QED
    BY <1>2

LEMMA UpdateContentRegistryKeeps ==
    ASSUME RegistryType, RegistryInverse, NEW n \in Peers4Epoch,
           NEW add \in SUBSET Uris, NEW remove \in SUBSET Uris,
           UpdateContentRegistry(n, add, remove)
    PROVE  RegistryType' /\ RegistryInverse'
<1>1. /\ add \cap remove = {}
      /\ node_to_uri' = [node_to_uri EXCEPT ![n] = (node_to_uri[n] \ remove) \cup add]
      /\ \A u \in Uris : uri_to_node'[u] =
           (uri_to_node[u] \ (IF u \in remove THEN {n} ELSE {}))
             \cup (IF u \in add THEN {n} ELSE {})
      /\ uri_to_node' = [u \in Uris |-> uri_to_node'[u]]
    BY DEF UpdateContentRegistry, RegistryType
<1>2. RegistryType'
    BY <1>1 DEF RegistryType
<1>3. ASSUME NEW m \in Peers4Epoch, NEW u \in Uris
      PROVE  u \in node_to_uri'[m] <=> m \in uri_to_node'[u]
  <2>1. u \in node_to_uri[m] <=> m \in uri_to_node[u]
    BY DEF RegistryInverse
  <2>2. node_to_uri'[m] = IF m = n THEN (node_to_uri[n] \ remove) \cup add
                          ELSE node_to_uri[m]
    BY <1>1 DEF RegistryType
  <2> QED
    BY <1>1, <2>1, <2>2
<1> QED
    BY <1>2, <1>3 DEF RegistryInverse

\* With the tables inverse no clean-up fails, and they stay inverse.
LEMMA CleanUpKeeps ==
    ASSUME RegistryType, RegistryInverse, NEW info \in [Peers4Epoch -> Info], clean_up(info)
    PROVE  RegistryType' /\ RegistryInverse'
<1>1. PICK gone \in SUBSET Peers4Epoch :
        /\ uri_to_node' = [u \in Uris |-> uri_to_node[u] \ {n \in gone : u \in node_to_uri[n]}]
        /\ node_to_uri' = [n \in Peers4Epoch |->
                             IF n \in gone THEN {} ELSE node_to_uri[n]]
    BY DEF clean_up
<1>2. RegistryType'
    BY <1>1 DEF RegistryType
<1>3. ASSUME NEW m \in Peers4Epoch, NEW u \in Uris
      PROVE  u \in node_to_uri'[m] <=> m \in uri_to_node'[u]
    BY <1>1 DEF RegistryInverse
<1> QED
    BY <1>2, <1>3 DEF RegistryInverse

LEMMA AddJobsKeeps ==
    ASSUME JobsType, ~halted, JobsAreListed, member \in [Peers4Epoch -> Info],
           NEW J \in SUBSET JobHashes, AddJobs(J)
    PROVE  JobsType' /\ JobsAreListed'
<1>1. \A j \in DOMAIN jobs \ J : \E i \in DOMAIN assigned_jobs[jobs[j]] :
         assigned_jobs[jobs[j]][i] = j
    BY DEF JobsAreListed
<1>2. AddAll(J, jobs, assigned_jobs, member)
    BY DEF AddJobs
<1> QED
    BY <1>1, <1>2, AddAllKeeps DEF JobsType

LEMMA RemoveJobKeeps ==
    ASSUME JobsType, ~halted, JobsAreListed, NEW j \in JobHashes, RemoveJob(j)
    PROVE  JobsType' /\ JobsAreListed'
<1>1. /\ DOMAIN jobs' = DOMAIN jobs \ {j} /\ halted' = halted
      /\ \A k \in DOMAIN jobs' : jobs'[k] = jobs[k] /\ jobs[k] \in Peers4Epoch
      /\ jobs' = [k \in DOMAIN jobs' |-> jobs'[k]]
    BY DEF RemoveJob, JobsType
<1>2. CASE j \notin DOMAIN jobs
    BY <1>1, <1>2 DEF JobsType, JobsAreListed, RemoveJob
<1>3. CASE j \in DOMAIN jobs
  <2>1. PICK n \in Peers4Epoch : n = jobs[j]
    BY <1>3 DEF JobsType
  <2>2. PICK s \in Seq(JobHashes) : s = assigned_jobs[n] /\ DOMAIN s = 1 .. Len(s)
    BY DEF JobsType
  <2>3. PICK r \in Seq(JobHashes) :
          /\ r = RemoveFirst(s, j) /\ DOMAIN r = 1 .. Len(r)
          /\ \A i \in 1 .. Len(s) : s[i] # j => \E k \in 1 .. Len(r) : r[k] = s[i]
    BY RemoveFirstKeeps
  <2>4. assigned_jobs' = [assigned_jobs EXCEPT ![n] = r]
    BY <1>3, <2>1, <2>2, <2>3 DEF RemoveJob
  <2>5. JobsType'
    BY <1>1, <2>3, <2>4 DEF JobsType
  <2>6. ASSUME NEW k \in DOMAIN jobs'
        PROVE  \E i \in DOMAIN assigned_jobs'[jobs'[k]] : assigned_jobs'[jobs'[k]][i] = k
    <3>1. PICK m \in Peers4Epoch : m = jobs[k] /\ m = jobs'[k] /\ k # j /\ k \in DOMAIN jobs
      BY <1>1
    <3>2. PICK i \in DOMAIN assigned_jobs[m] : assigned_jobs[m][i] = k
      BY <3>1 DEF JobsAreListed
    <3>3. CASE m = n
      <4>1. assigned_jobs'[m] = r
        BY <2>4, <3>3 DEF JobsType
      <4>2. \E l \in 1 .. Len(r) : r[l] = k
        BY <2>2, <2>3, <3>1, <3>2, <3>3
      <4> QED
        BY <2>3, <3>1, <4>1, <4>2
    <3>4. CASE m # n
      <4>1. assigned_jobs'[m] = assigned_jobs[m]
        BY <2>4, <3>4 DEF JobsType
      <4> QED
        BY <3>1, <3>2, <4>1
    <3> QED
      BY <3>3, <3>4
  <2> QED
    BY <2>5, <2>6 DEF JobsAreListed
<1> QED
    BY <1>2, <1>3

LEMMA SubmitMeasurementsKeeps ==
    ASSUME RepType, MeasuredThisEpoch, NEW n \in Peers4Epoch, NEW peers, NEW tooMany,
           SubmitMeasurements(n, peers, tooMany)
    PROVE  RepType' /\ MeasuredThisEpoch'
<1>1. PICK taken : /\ rep_measurements' = [p \in Peers4Epoch |->
                        rep_measurements[p] + (IF p \in taken THEN 1 ELSE 0)]
                   /\ reported' = [p \in Peers4Epoch |->
                        reported[p] + (IF p \in taken THEN 1 ELSE 0)]
    BY DEF SubmitMeasurements
<1>2. rep_measurements' \in [Peers4Epoch -> Nat] /\ reported' = rep_measurements'
    BY <1>1 DEF RepType, MeasuredThisEpoch
<1>3. submitted[n] + 1 \in 0 .. MAX_MEASUREMENTS_SUBMIT
    BY EpochTablesAssumption DEF RepType, SubmitMeasurements
<1>4. submitted' \in [Peers4Epoch -> 0 .. MAX_MEASUREMENTS_SUBMIT]
    BY <1>3 DEF RepType, SubmitMeasurements
<1> QED
    BY <1>2, <1>4 DEF RepType, MeasuredThisEpoch

\* execute_epoch_change settles who participates, and then sweeps the tables.
LEMMA SettleType ==
    ASSUME member \in [Peers4Epoch -> Info], NEW low,
           NEW info, info = [n \in Peers4Epoch |-> Settle(member[n], n \in low)]
    PROVE  /\ info \in [Peers4Epoch -> Info]
           /\ \A n \in Peers4Epoch :
                member[n].participation \in {"True", "OptedIn"}
                  /\ info[n].participation = "False" => n \in low
<1> DEFINE Participation == {"True", "False", "OptedIn", "OptedOut"}
<1>1. ASSUME NEW m \in Info, NEW l \in BOOLEAN
      PROVE  /\ Settle(m, l) \in Info
             /\ ~l /\ m.participation \in {"True", "OptedIn"}
                  => Settle(m, l).participation # "False"
  <2>1. PICK p \in Participation :
          p = CASE l -> "False"
                [] ~l /\ m.participation = "OptedIn" -> "True"
                [] ~l /\ m.participation = "OptedOut" -> "False"
                [] OTHER -> m.participation
    BY DEF Info
  <2>2. Settle(m, l) = [m EXCEPT !.participation = p]
    BY <2>1 DEF Settle
  <2>3. Settle(m, l) \in Info /\ Settle(m, l).participation = p
    BY <2>2 DEF Info
  <2> QED
    BY <2>1, <2>3
<1>2. ASSUME NEW n \in Peers4Epoch
      PROVE  /\ info[n] \in Info
             /\ member[n].participation \in {"True", "OptedIn"}
                  /\ info[n].participation = "False" => n \in low
  <2>1. member[n] \in Info
    OBVIOUS
  <2>2. CASE n \in low
    <3>1. info[n] = Settle(member[n], TRUE)
      BY <2>2
    <3> QED
      BY <1>1, <2>1, <2>2, <3>1
  <2>3. CASE n \notin low
    <3>0. (n \in low) = FALSE
      BY <2>3
    <3>1. info[n] = Settle(member[n], FALSE)
      BY <3>0
    <3>2. member[n].participation \in {"True", "OptedIn"} => info[n].participation # "False"
      BY <1>1, <2>1, <3>1
    <3> QED
      BY <1>1, <2>1, <3>1, <3>2
  <2> QED
    BY <2>2, <2>3
<1> QED
    BY <1>2

LEMMA TablesEpochChangeKeeps ==
    ASSUME TablesInv, ~halted, TablesEpochChange
    PROVE  /\ TablesInv'
           /\ ~halted' => /\ \A n \in Peers4Epoch : \A i \in DOMAIN assigned_jobs'[n] :
                               /\ assigned_jobs'[n][i] \in DOMAIN jobs'
                               /\ jobs'[assigned_jobs'[n][i]] = n
                               /\ n \in Workers(member')
                          /\ DOMAIN jobs' = DOMAIN jobs
           /\ \A n \in Peers4Epoch :
                member[n].participation \in {"True", "OptedIn"}
                  /\ member'[n].participation = "False" => reported[n] >= MinNumMeasurements
<1>1. /\ table_epoch \in Nat /\ member \in [Peers4Epoch -> Info]
      /\ RegistryType /\ JobsType /\ RepType
      /\ RegistryInverse /\ JobsAreListed /\ MeasuredThisEpoch
    BY TypeParts DEF TablesInv
<1>2. PICK low \in SUBSET Measured :
        LET info == [n \in Peers4Epoch |-> Settle(member[n], n \in low)]
        IN member' = info /\ clean_up(info) /\ reassign_jobs(info)
    BY DEF TablesEpochChange
<1>3. PICK info : /\ info = [n \in Peers4Epoch |-> Settle(member[n], n \in low)]
                  /\ member' = info /\ clean_up(info) /\ reassign_jobs(info)
    BY <1>2
<1>4. /\ info \in [Peers4Epoch -> Info]
      /\ \A n \in Peers4Epoch :
           member[n].participation \in {"True", "OptedIn"}
             /\ info[n].participation = "False" => n \in low
    BY <1>1, <1>3, SettleType
<1>5. RegistryType' /\ RegistryInverse'
    BY <1>1, <1>3, <1>4, CleanUpKeeps
<1>6. AddAll(DOMAIN jobs, <<>>, [n \in Peers4Epoch |-> <<>>], info)
    BY <1>3 DEF reassign_jobs
<1>7. DOMAIN jobs \in SUBSET JobHashes
    BY <1>1 DEF JobsType
<1>8. JobsType' /\ JobsAreListed'
  <2> DEFINE none == <<>>
             lists == [n \in Peers4Epoch |-> <<>>]
  <2>1. DOMAIN none = {} /\ none \in [DOMAIN none -> Peers4Epoch]
    OBVIOUS
  <2>2. lists \in [Peers4Epoch -> Seq(JobHashes)]
    OBVIOUS
  <2>3. /\ DOMAIN none \subseteq JobHashes
        /\ \A j \in DOMAIN none \ DOMAIN jobs : \E i \in DOMAIN lists[none[j]] :
             lists[none[j]][i] = j
    BY <2>1
  <2>4. AddAll(DOMAIN jobs, none, lists, info) /\ halted \in BOOLEAN
    BY <1>1, <1>6 DEF JobsType
  <2> HIDE DEF none, lists
  <2> QED
    BY <1>4, <1>7, <2>1, <2>2, <2>3, <2>4, AddAllKeeps DEF JobsType
<1>9. ~halted' => /\ \A n \in Peers4Epoch : \A i \in DOMAIN assigned_jobs'[n] :
                       /\ assigned_jobs'[n][i] \in DOMAIN jobs'
                       /\ jobs'[assigned_jobs'[n][i]] = n
                       /\ n \in Workers(info)
                  /\ DOMAIN jobs' = DOMAIN jobs
    BY <1>4, <1>6, <1>7, AddAllRepairs
<1>10. RepType' /\ MeasuredThisEpoch' /\ table_epoch' \in Nat
  <2>1. 0 \in 0 .. MAX_MEASUREMENTS_SUBMIT
    BY EpochTablesAssumption
  <2> QED
    BY <1>1, <2>1 DEF TablesEpochChange, ClearMeasurements, RepType, MeasuredThisEpoch
<1>11. \A n \in Peers4Epoch :
         member[n].participation \in {"True", "OptedIn"}
           /\ member'[n].participation = "False" => reported[n] >= MinNumMeasurements
    BY <1>1, <1>3, <1>4 DEF Measured, MeasuredThisEpoch
<1>12. EpochTablesTypeOK'
    BY <1>3, <1>4, <1>5, <1>8, <1>10, TypePartsNext
<1> QED
    BY <1>3, <1>5, <1>8, <1>9, <1>10, <1>11, <1>12 DEF TablesInv

LEMMA TableTxKeeps ==
    ASSUME TablesInv, ~halted, TableTx, UNCHANGED table_epoch
    PROVE  TablesInv'
<1>1. /\ table_epoch \in Nat /\ member \in [Peers4Epoch -> Info]
      /\ RegistryType /\ JobsType /\ RepType
      /\ RegistryInverse /\ JobsAreListed /\ MeasuredThisEpoch
    BY TypeParts DEF TablesInv
<1>2. UNCHANGED registryVars => RegistryType' /\ RegistryInverse'
    BY <1>1 DEF registryVars, RegistryType, RegistryInverse
<1>3. UNCHANGED jobVars => JobsType' /\ JobsAreListed'
    BY <1>1 DEF jobVars, JobsType, JobsAreListed
<1>4. UNCHANGED repVars => RepType' /\ MeasuredThisEpoch'
    BY <1>1 DEF repVars, RepType, MeasuredThisEpoch
<1> DEFINE Goal == /\ table_epoch' \in Nat /\ member' \in [Peers4Epoch -> Info]
                   /\ (RegistryType /\ JobsType /\ RepType)'
                   /\ (RegistryInverse /\ JobsAreListed /\ MeasuredThisEpoch)'
<1>5. ASSUME NEW n \in Peers4Epoch, MemberChange(n)
      PROVE  Goal
    BY <1>1, <1>2, <1>3, <1>4, <1>5, MemberChangeType DEF MemberChange
<1>6. ASSUME NEW n \in Peers4Epoch, NEW add \in SUBSET Uris, NEW remove \in SUBSET Uris,
             UpdateContentRegistry(n, add, remove)
      PROVE  Goal
  <2>1. RegistryType' /\ RegistryInverse'
    BY <1>1, <1>6, UpdateContentRegistryKeeps
  <2> QED
    BY <1>1, <1>3, <1>4, <1>6, <2>1 DEF UpdateContentRegistry
<1>7. ASSUME NEW J \in SUBSET JobHashes, AddJobs(J)
      PROVE  Goal
  <2>1. JobsType' /\ JobsAreListed'
    BY <1>1, <1>7, AddJobsKeeps
  <2> QED
    BY <1>1, <1>2, <1>4, <1>7, <2>1 DEF AddJobs
<1>8. ASSUME NEW j \in JobHashes, RemoveJob(j)
      PROVE  Goal
  <2>1. JobsType' /\ JobsAreListed'
    BY <1>1, <1>8, RemoveJobKeeps
  <2> QED
    BY <1>1, <1>2, <1>4, <1>8, <2>1 DEF RemoveJob
<1>9. ASSUME NEW n \in Peers4Epoch, NEW tooMany \in BOOLEAN,
             SubmitMeasurements(n, Peers4Epoch, tooMany)
      PROVE  Goal
  <2>1. RepType' /\ MeasuredThisEpoch'
    BY <1>1, <1>9, SubmitMeasurementsKeeps
  <2> QED
    BY <1>1, <1>2, <1>3, <1>9, <2>1 DEF SubmitMeasurements
<1>10. Goal
    BY <1>5, <1>6, <1>7, <1>8, <1>9 DEF TableTx
<1>11. EpochTablesTypeOK'
    BY <1>10, TypePartsNext
<1> QED
    BY <1>10, <1>11 DEF TablesInv

LEMMA TablesInitHolds ==
    ASSUME EpochTablesInit
    PROVE  TablesInv
<1> USE DEF EpochTablesInit
<1>1. /\ DOMAIN jobs = {} /\ jobs \in [DOMAIN jobs -> Peers4Epoch]
      /\ assigned_jobs \in [Peers4Epoch -> Seq(JobHashes)]
    OBVIOUS
<1>2. RegistryType /\ RegistryInverse
    BY DEF RegistryType, RegistryInverse
<1>3. JobsType /\ JobsAreListed
    BY <1>1 DEF JobsType, JobsAreListed
<1>4. RepType /\ MeasuredThisEpoch
    BY EpochTablesAssumption DEF RepType, MeasuredThisEpoch
<1>5. member \in [Peers4Epoch -> Info]
    BY DEF Info
<1>6. EpochTablesTypeOK
    BY <1>2, <1>3, <1>4, <1>5, TypeParts
<1> QED
    BY <1>2, <1>3, <1>4, <1>6 DEF TablesInv

\* The two tables of the content registry are inverse to one another, so that no
\* clean-up fails half-way, and every job is in the list of its assignee, after any
\* sequence of transactions and epoch changes and for tables of any size.
THEOREM TablesCorrect == EpochTablesSpec => []TablesInv
<1>1. EpochTablesInit => TablesInv
    BY TablesInitHolds
<1>2. ASSUME TablesInv, EpochTablesNext
      PROVE  TablesInv'
    BY <1>2, TableTxKeeps, TablesEpochChangeKeeps DEF EpochTablesNext
<1>3. TablesInv /\ UNCHANGED tableVars => TablesInv'
    BY DEF TablesInv, EpochTablesTypeOK, RegistryInverse, JobsAreListed, MeasuredThisEpoch,
           tableVars
<1> QED
    BY <1>1, <1>2, <1>3, PTL DEF EpochTablesSpec

\* The epoch change leaves each job in one list, of a node that works in the new
\* epoch, and takes a node out only on measurements of the epoch that ends.
THEOREM EpochChangeSettles == EpochTablesSpec => EpochSettlesTables
<1> DEFINE Repairs == /\ \A n \in Peers4Epoch : \A i \in DOMAIN assigned_jobs'[n] :
                           /\ assigned_jobs'[n][i] \in DOMAIN jobs'
                           /\ jobs'[assigned_jobs'[n][i]] = n
                           /\ n \in Workers(member')
                      /\ DOMAIN jobs' = DOMAIN jobs
           Suspends(n) == /\ table_epoch' # table_epoch
                          /\ member[n].participation \in {"True", "OptedIn"}
                          /\ member'[n].participation = "False"
<1>1. ASSUME TablesInv, [EpochTablesNext]_tableVars, table_epoch' # table_epoch
      PROVE  /\ ~halted' => Repairs
             /\ \A n \in Peers4Epoch : Suspends(n) => reported[n] >= MinNumMeasurements
  <2>1. TablesEpochChange /\ ~halted
    BY <1>1 DEF EpochTablesNext, tableVars
  <2> QED
    BY <1>1, <2>1, TablesEpochChangeKeeps
<1>2. TablesInv /\ [EpochTablesNext]_tableVars =>
        [table_epoch' # table_epoch /\ ~halted' => Repairs]_tableVars
    BY <1>1
<1>3. TablesInv /\ [EpochTablesNext]_tableVars =>
        [\A n \in Peers4Epoch : Suspends(n) => reported[n] >= MinNumMeasurements]_tableVars
    BY <1>1
<1>4. EpochTablesSpec => EpochRepairsJobs
    BY <1>2, TablesCorrect, PTL DEF EpochTablesSpec, EpochRepairsJobs
<1>5. EpochTablesSpec => SuspendedOnMeasurements
    BY <1>3, TablesCorrect, PTL DEF EpochTablesSpec, SuspendedOnMeasurements
<1> QED
    BY <1>4, <1>5 DEF EpochSettlesTables
=============================================================================
