--------------------------- MODULE ServicesProofs ---------------------------
(***************************************************************************)
(* What the firewall, the archive and the resolver guarantee, for every    *)
(* configuration and any number of requests, and that every service of a   *)
(* node keeps to its invariant in the composition.                         *)
(***************************************************************************)
EXTENDS MCServices, PeerServicesProofs

-----------------------------------------------------------------------------
(* The firewall.                                                           *)

\* The parts of FirewallInv for one address, of which e is the entry, all the lists of
\* rules of its entries, and lets the requests that were let through.
HasRule(all, rule, first, last) ==
    \A e \in first .. last : \E i \in DOMAIN all[e] : all[e][i] = rule
Balanced(b, all, lets) ==
    \A from \in DOMAIN lets :
        HasRule(all, b.rule, lets[from].entry, Len(all)) =>
          Spent(b.rule, Len(lets) - from + 1, Held(b))
            <= Supply(b.rule, Len(all) - lets[from].entry + 1, b.last - lets[from].at)
BoundedBy(rule, all, lets, from, to) ==
    Spent(rule, to - from + 1, 0)
      <= Supply(rule, lets[to].entry - lets[from].entry + 1, lets[to].at - lets[from].at)
Bounded(all, lets) ==
    \A from, to \in DOMAIN lets : \A i \in DOMAIN all[lets[from].entry] :
        from <= to /\ HasRule(all, all[lets[from].entry][i], lets[from].entry, lets[to].entry) =>
          BoundedBy(all[lets[from].entry][i], all, lets, from, to)
Holds(b, now) == b.allowed <= b.rule.max * b.rule.period /\ b.last <= now
BucketOK(b, all, lets, now) == Holds(b, now) /\ Balanced(b, all, lets)
RulesIn(e) == [i \in DOMAIN e.buckets |-> e.buckets[i].rule]
InForce(e, u, lim, glob) ==
    /\ e.set /\ e.buckets # <<>> =>
         \/ /\ lim = "Global" /\ RulesIn(e) = glob
            /\ \A i \in DOMAIN e.buckets : e.buckets[i].is_global
         \/ /\ RulesIn(e) = u
            /\ \A i \in DOMAIN e.buckets : ~e.buckets[i].is_global
    /\ u # <<>> => /\ lim # "None" /\ RulesIn(e) = u
                   /\ \A i \in DOMAIN e.buckets : ~e.buckets[i].is_global
IsLast(e, all) ==
    IF e.set THEN all # <<>> /\ RulesIn(e) = all[Len(all)] ELSE e.buckets = <<>>
Past(all, lets, now) ==
    \A i \in DOMAIN lets : lets[i].entry \in DOMAIN all /\ lets[i].at <= now
BucketsOK(e, all, lets, now) == \A i \in DOMAIN e.buckets : BucketOK(e.buckets[i], all, lets, now)
HistoryOK(all, lets, now) == Past(all, lets, now) /\ Bounded(all, lets)
EntryOK(e, u, all, lets, lim, glob, now) ==
    /\ IsLast(e, all) /\ HistoryOK(all, lets, now)
    /\ BucketsOK(e, all, lets, now) /\ InForce(e, u, lim, glob)

LEMMA FirewallInvByIp ==
    /\ FirewallInv <=>
         /\ FirewallTypeOK
         /\ \A ip \in Ips :
              EntryOK(per[ip], user[ip], lists[ip], let_through[ip], limiting, global, time)
    /\ FirewallInv' <=>
         /\ FirewallTypeOK'
         /\ \A ip \in Ips :
              EntryOK(per'[ip], user'[ip], lists'[ip], let_through'[ip], limiting', global', time')
<1>1. /\ EntriesMade <=> \A ip \in Ips : /\ IsLast(per[ip], lists[ip])
                                         /\ Past(lists[ip], let_through[ip], time)
      /\ EntriesMade' <=> \A ip \in Ips : /\ IsLast(per'[ip], lists'[ip])
                                          /\ Past(lists'[ip], let_through'[ip], time')
    BY DEF EntriesMade, IsLast, Past, RulesOf, RulesIn
<1>2. /\ EntriesInForce <=> \A ip \in Ips : InForce(per[ip], user[ip], limiting, global)
      /\ EntriesInForce' <=> \A ip \in Ips : InForce(per'[ip], user'[ip], limiting', global')
    BY DEF EntriesInForce, InForce, RulesOf, RulesIn
<1>3. /\ TokensBalance <=> \A ip \in Ips : \A i \in DOMAIN per[ip].buckets :
                             Balanced(per[ip].buckets[i], lists[ip], let_through[ip])
      /\ TokensBalance' <=> \A ip \in Ips : \A i \in DOMAIN per'[ip].buckets :
                              Balanced(per'[ip].buckets[i], lists'[ip], let_through'[ip])
    BY DEF TokensBalance, Balanced, Throughout, HasRule
<1>4. /\ RateBounded <=> \A ip \in Ips : Bounded(lists[ip], let_through[ip])
      /\ RateBounded' <=> \A ip \in Ips : Bounded(lists'[ip], let_through'[ip])
    BY DEF RateBounded, Bounded, BoundedBy, Throughout, HasRule
<1>5. /\ BucketsHold <=> \A ip \in Ips : \A i \in DOMAIN per[ip].buckets :
                             Holds(per[ip].buckets[i], time)
      /\ BucketsHold' <=> \A ip \in Ips : \A i \in DOMAIN per'[ip].buckets :
                              Holds(per'[ip].buckets[i], time')
    BY DEF BucketsHold, Holds
<1>6. \A e, all, lets, now : BucketsOK(e, all, lets, now) <=>
         /\ \A i \in DOMAIN e.buckets : Holds(e.buckets[i], now)
         /\ \A i \in DOMAIN e.buckets : Balanced(e.buckets[i], all, lets)
    BY DEF BucketsOK, BucketOK
<1>7. \A e, u, all, lets, lim, glob, now : EntryOK(e, u, all, lets, lim, glob, now) <=>
         /\ IsLast(e, all) /\ Past(all, lets, now) /\ Bounded(all, lets)
         /\ BucketsOK(e, all, lets, now) /\ InForce(e, u, lim, glob)
    BY DEF EntryOK, HistoryOK
<1> QED
    BY <1>1, <1>2, <1>3, <1>4, <1>5, <1>6, <1>7 DEF FirewallInv

\* The fields of a rule and of a bucket.
LEMMA RuleFields ==
    ASSUME NEW r \in Rules
    PROVE  /\ r.period \in Nat /\ r.max \in Nat /\ r.period > 0
           /\ Size(r) \in Nat /\ Size(r) > 0 /\ r.max <= Size(r) /\ (r.max > 0 => Size(r) = r.max)
           /\ TicksPerMilli \in Nat /\ TicksPerMilli > 0
           /\ Size(r) * r.period \in Nat /\ r.max * r.period \in Nat
           /\ r.max * r.period <= Size(r) * r.period /\ r.period <= Size(r) * r.period
<1>1. r.period \in Nat /\ r.max \in Nat /\ r.period > 0
    BY DEF Rules
<1>2. PICK m \in Nat, q \in Nat, z \in Nat : /\ m = r.max /\ q = r.period /\ z = Size(r)
                                              /\ z > 0 /\ m <= z /\ (m > 0 => z = m)
    BY <1>1 DEF Size
<1>3. PICK T \in Nat : T = TicksPerMilli /\ T > 0
    BY FirewallAssumption
<1>4. PICK x \in Nat, y \in Nat : x = m * q /\ y = z * q
    OBVIOUS
<1>5. x <= y /\ q <= y
    BY <1>2, <1>4
<1> QED
    BY <1>1, <1>2, <1>3, <1>4, <1>5

LEMMA BucketFields ==
    ASSUME NEW b \in TokenBuckets
    PROVE  /\ b.rule \in Rules /\ b.allowed \in Int /\ b.last \in Nat /\ b.is_global \in BOOLEAN
           /\ Held(b) \in Nat /\ b.allowed <= Held(b)
<1>1. b.rule \in Rules /\ b.allowed \in Int /\ b.last \in Nat /\ b.is_global \in BOOLEAN
    BY DEF TokenBuckets
<1> QED
    BY <1>1 DEF Held

\* A check moves no more from what a bucket held and what was filled in since to the
\* request it allows and what is left, and no more than fits into the bucket.
LEMMA CheckedFields ==
    ASSUME NEW b \in TokenBuckets, time \in Nat, Holds(b, time)
    PROVE  /\ Checked(b) \in TokenBuckets /\ Checked(b).rule = b.rule
           /\ Checked(b).is_global = b.is_global /\ Checked(b).last = time
           /\ Holds(Checked(b), time)
           /\ \E k \in Nat : /\ k = Held(Checked(b)) + (IF Allows(b) THEN b.rule.period ELSE 0)
                             /\ k <= Size(b.rule) * b.rule.period
                             /\ k * TicksPerMilli <= Held(b) * TicksPerMilli
                                                       + (time - b.last) * Size(b.rule)
<1>1. PICK m \in Nat, q \in Nat, z \in Nat, M \in Nat, Z \in Nat :
         /\ m = b.rule.max /\ q = b.rule.period /\ q > 0 /\ z = Size(b.rule) /\ z > 0
         /\ m <= z /\ (m > 0 => z = m) /\ M = m * q /\ Z = z * q /\ M <= Z /\ q <= Z
    BY BucketFields, RuleFields
<1>2. PICK a \in Int, h \in Nat : a = b.allowed /\ h = Held(b) /\ a <= h /\ a <= M
    BY <1>1, BucketFields DEF Holds
<1>3. PICK d \in Nat : d = time - b.last
    BY BucketFields DEF Holds
<1>4. PICK T \in Nat : T = TicksPerMilli /\ T > 0
    BY FirewallAssumption
<1>5. PICK e \in Nat : e = d \div T /\ e * T <= d
    BY <1>4
<1>6. PICK em \in Nat, ez \in Nat : em = e * m /\ ez = e * z /\ em <= ez
    BY <1>1
<1>7. PICK t : t = Tokens(b)
    OBVIOUS
<1>8. Elapsed(b) = e
    BY <1>3, <1>4, <1>5 DEF Elapsed
<1>9. t = IF e > q THEN M ELSE IF a + em < M THEN a + em ELSE M
    BY <1>1, <1>2, <1>6, <1>7, <1>8 DEF Tokens, Topped
<1>10. /\ e > q => em >= M /\ ez >= q
       /\ m = 0 => M = 0
       /\ m > 0 => M >= q
    BY <1>1, <1>6
<1>11. Allows(b) <=> e > q \/ t >= q
    BY <1>1, <1>7, <1>8 DEF Allows
<1>12. PICK w \in Int : w = (IF Allows(b) THEN t - q ELSE t) /\ w <= M /\ t \in Int /\ t <= M
    BY <1>1, <1>2, <1>6, <1>9
<1>13. Checked(b) = [b EXCEPT !.allowed = w, !.last = time]
    BY <1>1, <1>7, <1>12 DEF Checked
<1>14. /\ Checked(b) \in TokenBuckets /\ Checked(b).rule = b.rule
       /\ Checked(b).is_global = b.is_global /\ Checked(b).last = time /\ Checked(b).allowed = w
    BY <1>13 DEF TokenBuckets
<1>15. Holds(Checked(b), time)
    BY <1>1, <1>12, <1>14 DEF Holds
<1>16. PICK k \in Nat : k = Held(Checked(b)) + (IF Allows(b) THEN q ELSE 0)
    BY <1>1, <1>14, BucketFields
<1>17. Held(Checked(b)) = IF w > 0 THEN w ELSE 0
    BY <1>14 DEF Held
<1>18. k <= Z /\ k <= h + ez
  <2>5. t <= h + em
    BY <1>2, <1>6, <1>9, <1>10
  <2>6. t \in Int /\ t <= M /\ M <= Z /\ em <= ez
    BY <1>1, <1>6, <1>12
  <2>1. t <= Z /\ t <= h + ez
    BY <2>5, <2>6
  <2>2. CASE ~Allows(b)
    <3>1. k = IF t > 0 THEN t ELSE 0
      BY <1>12, <1>16, <1>17, <2>2
    <3> QED
      BY <2>1, <2>6, <3>1
  <2>3. CASE Allows(b) /\ m > 0
    <3>1. t >= q
      BY <1>9, <1>10, <1>11, <2>3
    <3>2. k = t
      BY <1>12, <1>16, <1>17, <2>3, <3>1
    <3> QED
      BY <2>1, <3>2
  <2>4. CASE Allows(b) /\ m = 0
    <3>1. e > q /\ w <= 0
      BY <1>1, <1>10, <1>11, <1>12, <2>4
    <3>2. k = q
      BY <1>12, <1>16, <1>17, <2>4, <3>1
    <3> QED
      BY <1>1, <1>2, <1>6, <1>10, <3>1, <3>2
  <2> QED
    BY <1>1, <2>2, <2>3, <2>4
<1>19. k * T <= h * T + d * z
  <2>1. k * T <= (h + ez) * T
    BY <1>4, <1>18
  <2>2. (h + ez) * T = h * T + (e * T) * z
    BY <1>6
  <2>3. (e * T) * z <= d * z
    BY <1>5, <1>1
  <2>4. PICK x \in Int, y \in Int, hT \in Int, v \in Int, u \in Int :
           x = k * T /\ y = (h + ez) * T /\ hT = h * T /\ v = (e * T) * z /\ u = d * z
    OBVIOUS
  <2> QED
    BY <2>1, <2>2, <2>3, <2>4
<1> QED
    BY <1>1, <1>2, <1>3, <1>4, <1>14, <1>15, <1>16, <1>18, <1>19

\* The arithmetic of a rule.
LEMMA RuleNumbers ==
    ASSUME NEW r \in Rules
    PROVE  \E q \in Nat, z \in Nat, T \in Nat, B \in Nat :
             /\ q = r.period /\ z = Size(r) /\ T = TicksPerMilli /\ B = (z * q) * T
             /\ \A n, h : Spent(r, n, h) = (n * q + h) * T
             /\ \A k, d : Supply(r, k, d) = k * B + d * z
<1>1. PICK q \in Nat, z \in Nat, T \in Nat : q = r.period /\ z = Size(r) /\ T = TicksPerMilli
    BY RuleFields
<1>2. PICK B \in Nat : B = (z * q) * T
    OBVIOUS
<1>3. \A n, h : Spent(r, n, h) = (n * q + h) * T
    BY <1>1 DEF Spent
<1>4. \A k, d : Supply(r, k, d) = k * B + d * z
    BY <1>1, <1>2 DEF Supply
<1> QED
    BY <1>1, <1>2, <1>3, <1>4

\* A balance carries over when k tokens are what is left at time now.
LEMMA BalanceCarries ==
    ASSUME NEW r \in Rules, NEW N \in Int, NEW a \in Nat, NEW k \in Nat, NEW K \in Int,
           NEW last \in Nat, NEW now \in Nat, NEW t0 \in Nat,
           Spent(r, N, a) <= Supply(r, K, last - t0),
           k * TicksPerMilli <= a * TicksPerMilli + (now - last) * Size(r)
    PROVE  Spent(r, N, k) <= Supply(r, K, now - t0)
<1>1. PICK q \in Nat, m \in Nat, T \in Nat, B \in Nat :
         /\ m = Size(r) /\ T = TicksPerMilli
         /\ \A n, h : Spent(r, n, h) = (n * q + h) * T
         /\ \A x, d : Supply(r, x, d) = x * B + d * m
    BY RuleNumbers
<1>2. PICK D \in Int, x \in Int : D = K * B /\ x = N * q
    OBVIOUS
<1>3. PICK xT \in Int, aT \in Int, kT \in Int : xT = x * T /\ aT = a * T /\ kT = k * T
    BY <1>2
<1>4. PICK l \in Int, w \in Int, z \in Int : l = last * m /\ w = now * m /\ z = t0 * m
    OBVIOUS
<1>5. (last - t0) * m = l - z /\ (now - last) * m = w - l /\ (now - t0) * m = w - z
    BY <1>4
<1>6. Spent(r, N, a) = xT + aT /\ Spent(r, N, k) = xT + kT
  <2>1. (x + a) * T = xT + aT /\ (x + k) * T = xT + kT
    BY <1>3
  <2> QED
    BY <1>1, <1>2, <2>1
<1>7. Supply(r, K, last - t0) = D + (l - z) /\ Supply(r, K, now - t0) = D + (w - z)
    BY <1>1, <1>2, <1>5
<1>8. kT <= aT + (w - l)
    BY <1>1, <1>3, <1>5
<1>9. xT + aT <= D + (l - z)
    BY <1>6, <1>7
<1>10. xT + kT <= D + (w - z)
    BY <1>8, <1>9
<1> QED
    BY <1>6, <1>7, <1>10

\* What is spent and supplied are numbers, which grow with what they are of.
LEMMA SpentAndSupplied ==
    ASSUME NEW r \in Rules, NEW n \in Int, NEW h \in Int, NEW k \in Int, NEW d \in Int
    PROVE  /\ Spent(r, n, h) \in Int /\ Supply(r, k, d) \in Int
           /\ Spent(r, n + 1, h) = Spent(r, n, h + r.period)
           /\ \A g \in Int : g <= h => Spent(r, n, g) <= Spent(r, n, h)
           /\ \A j, c \in Int : j <= k /\ c <= d => Supply(r, j, c) <= Supply(r, k, d)
<1>1. PICK q \in Nat, z \in Nat, T \in Nat, B \in Nat :
         /\ q = r.period
         /\ \A x, y : Spent(r, x, y) = (x * q + y) * T
         /\ \A x, y : Supply(r, x, y) = x * B + y * z
    BY RuleNumbers
<1>2. Spent(r, n, h) \in Int
    BY <1>1
<1>3. Supply(r, k, d) \in Int
    BY <1>1
<1>4. Spent(r, n + 1, h) = Spent(r, n, h + r.period)
  <2>1. (n + 1) * q + h = n * q + (h + q)
    OBVIOUS
  <2> QED
    BY <1>1, <2>1
<1>5. ASSUME NEW g \in Int, g <= h PROVE Spent(r, n, g) <= Spent(r, n, h)
  <2>1. PICK x \in Int : x = n * q
    OBVIOUS
  <2>2. (x + g) * T <= (x + h) * T
    BY <1>5
  <2> QED
    BY <1>1, <2>1, <2>2
<1>6. ASSUME NEW j \in Int, NEW c \in Int, j <= k, c <= d PROVE Supply(r, j, c) <= Supply(r, k, d)
  <2>1. j * B <= k * B /\ c * z <= d * z
    BY <1>6
  <2>2. PICK x1 \in Int, x2 \in Int, y1 \in Int, y2 \in Int :
           x1 = j * B /\ x2 = k * B /\ y1 = c * z /\ y2 = d * z
    OBVIOUS
  <2>3. x1 + y1 <= x2 + y2
    BY <2>1, <2>2
  <2> QED
    BY <1>1, <2>2, <2>3
<1> QED
    BY <1>2, <1>3, <1>4, <1>5, <1>6

\* A full bucket is what an entry is made with.
LEMMA FullBucket ==
    ASSUME NEW r \in Rules, NEW k \in Nat, k <= Size(r) * r.period
    PROVE  /\ Spent(r, 0, k) <= Supply(r, 1, 0)
           /\ \A n, e, d \in Int : Spent(r, n, 0) <= Supply(r, e, d) =>
                                     Spent(r, n, k) <= Supply(r, e + 1, d)
<1>1. PICK q \in Nat, z \in Nat, T \in Nat, B \in Nat :
         /\ q = r.period /\ z = Size(r) /\ B = (z * q) * T
         /\ \A n, h : Spent(r, n, h) = (n * q + h) * T
         /\ \A x, d : Supply(r, x, d) = x * B + d * z
    BY RuleNumbers
<1>2. k * T <= B
  <2>1. PICK Z \in Nat : Z = z * q
    OBVIOUS
  <2>2. k <= Z /\ B = Z * T
    BY <1>1, <2>1
  <2> QED
    BY <2>2
<1>3. PICK kT \in Int : kT = k * T /\ kT <= B
    BY <1>2
<1>4. Spent(r, 0, k) = kT /\ Supply(r, 1, 0) = B
  <2>1. 0 * q + k = k /\ 1 * B + 0 * z = B
    OBVIOUS
  <2> QED
    BY <1>1, <1>3, <2>1
<1>5. ASSUME NEW n \in Int, NEW e \in Int, NEW d \in Int, Spent(r, n, 0) <= Supply(r, e, d)
      PROVE  Spent(r, n, k) <= Supply(r, e + 1, d)
  <2>1. PICK x \in Int, E \in Int, D \in Int : x = n * q /\ E = e * B /\ D = d * z
    OBVIOUS
  <2>2. (e + 1) * B = E + B
    BY <2>1
  <2>3. PICK xT \in Int : xT = x * T
    OBVIOUS
  <2>4. (x + k) * T = xT + kT /\ (x + 0) * T = xT
    BY <1>3, <2>3
  <2>5. /\ Spent(r, n, 0) = xT /\ Spent(r, n, k) = xT + kT
        /\ Supply(r, e, d) = E + D /\ Supply(r, e + 1, d) = (E + B) + D
    BY <1>1, <2>1, <2>2, <2>4
  <2>6. xT <= E + D
    BY <1>5, <2>5
  <2>7. xT + kT <= (E + B) + D
    BY <1>3, <2>6
  <2> QED
    BY <2>5, <2>7
<1> QED
    BY <1>3, <1>4, <1>5

\* The history of an address.
LEMMA HistoryFields ==
    ASSUME NEW all \in Seq(Seq(Rules)), NEW lets \in Seq(LetThrough), NEW now, Past(all, lets, now)
    PROVE  /\ Len(all) \in Nat /\ DOMAIN all = 1 .. Len(all)
           /\ Len(lets) \in Nat /\ DOMAIN lets = 1 .. Len(lets)
           /\ \A i \in 1 .. Len(lets) : /\ lets[i].at \in Nat /\ lets[i].entry \in Nat
                                        /\ lets[i].entry \in 1 .. Len(all) /\ lets[i].at <= now
<1>1. \A i \in DOMAIN lets : lets[i] \in LetThrough
    OBVIOUS
<1> QED
    BY <1>1 DEF Past, LetThrough

\* n requests, of entries up to L and times up to now; and one more.
Requests(lets, n, L, now) ==
    /\ n = Len(lets) /\ DOMAIN lets = 1 .. n
    /\ \A i \in 1 .. n : /\ lets[i].at \in Nat /\ lets[i].at <= now
                         /\ lets[i].entry \in Nat /\ lets[i].entry <= L /\ lets[i].entry >= 1
Made(all, L) == L = Len(all) /\ DOMAIN all = 1 .. L /\ L >= 1 /\ all # <<>>
Adds(more, lets, n, L, now) ==
    /\ n + 1 = Len(more) /\ DOMAIN more = 1 .. n + 1
    /\ more[n + 1].at = now /\ more[n + 1].entry = L
    /\ \A i \in 1 .. n : more[i] = lets[i]

Grows(all, lets, more, n, L, now) ==
    Made(all, L) /\ Requests(lets, n, L, now) /\ Adds(more, lets, n, L, now)

LEMMA RequestsAre ==
    ASSUME NEW all \in Seq(Seq(Rules)), NEW lets \in Seq(LetThrough), NEW now, Past(all, lets, now),
           NEW n \in Nat, n = Len(lets), NEW L \in Nat, L = Len(all)
    PROVE  Requests(lets, n, L, now)
BY HistoryFields DEF Requests

LEMMA OneMore ==
    ASSUME NEW lets \in Seq(LetThrough), NEW now \in Nat, NEW L \in Nat, NEW n \in Nat, n = Len(lets),
           NEW more, more = Append(lets, [at |-> now, entry |-> L])
    PROVE  more \in Seq(LetThrough) /\ Adds(more, lets, n, L, now)
<1>1. [at |-> now, entry |-> L] \in LetThrough
    BY DEF LetThrough
<1>2. PICK x : x = [at |-> now, entry |-> L]
    OBVIOUS
<1>3. x \in LetThrough /\ x.at = now /\ x.entry = L
    BY <1>1, <1>2
<1>4. /\ more \in Seq(LetThrough) /\ Len(more) = n + 1 /\ DOMAIN more = 1 .. n + 1
      /\ more[n + 1] = x /\ \A i \in 1 .. n : more[i] = lets[i]
    BY <1>2, <1>3
<1> QED
    BY <1>3, <1>4 DEF Adds

LEMMA HistoryIs ==
    ASSUME NEW all \in Seq(Seq(Rules)), all # <<>>, NEW lets \in Seq(LetThrough), NEW now \in Nat,
           HistoryOK(all, lets, now), NEW n \in Nat, n = Len(lets), NEW L \in Nat, L = Len(all),
           NEW more, more = Append(lets, [at |-> now, entry |-> L])
    PROVE  more \in Seq(LetThrough) /\ Grows(all, lets, more, n, L, now)
<1>1. Past(all, lets, now)
    BY DEF HistoryOK
<1>2. Requests(lets, n, L, now)
    BY <1>1, RequestsAre
<1>3. more \in Seq(LetThrough) /\ Adds(more, lets, n, L, now)
    BY OneMore
<1>4. Made(all, L)
    BY DEF Made
<1> QED
    BY <1>2, <1>3, <1>4 DEF Grows

\* A list of rules is added, when an entry is made.
Lengthens(all, more, rules, lets, n, L, S, now) ==
    /\ Requests(lets, n, L, now) /\ Made(more, S) /\ S = L + 1
    /\ more[S] = rules /\ \A e \in 1 .. L : more[e] = all[e]

\* What a balance says of one request, and how it is shown.
LEMMA BalanceOf ==
    ASSUME NEW b, NEW all, NEW lets, NEW n \in Nat, NEW L \in Nat, NEW now, Made(all, L),
           Requests(lets, n, L, now)
    PROVE  Balanced(b, all, lets) <=>
             \A from \in 1 .. n : HasRule(all, b.rule, lets[from].entry, L) =>
               Spent(b.rule, n - from + 1, Held(b))
                 <= Supply(b.rule, L - lets[from].entry + 1, b.last - lets[from].at)
BY DEF Balanced, Requests, Made

LEMMA RequestsAdd ==
    ASSUME NEW lets, NEW more, NEW n \in Nat, NEW L \in Nat, NEW now \in Nat, L >= 1,
           Requests(lets, n, L, now), Adds(more, lets, n, L, now), NEW m \in Nat, m = n + 1
    PROVE  Requests(more, m, L, now)
<1>1. \A i \in 1 .. m : i = m \/ i \in 1 .. n
    OBVIOUS
<1> QED
    BY <1>1 DEF Requests, Adds

\* The numbers of a check.
LEMMA CheckNumbers ==
    ASSUME NEW r \in Rules, NEW N \in Int, NEW K \in Int, NEW last \in Nat, NEW now \in Nat, NEW t0 \in Nat,
           NEW h \in Nat, NEW w \in Nat, NEW k \in Nat, w <= k,
           k * TicksPerMilli <= h * TicksPerMilli + (now - last) * Size(r),
           Spent(r, N, h) <= Supply(r, K, last - t0)
    PROVE  /\ Spent(r, N, k) <= Supply(r, K, now - t0)
           /\ Spent(r, N, w) <= Supply(r, K, now - t0)
<1>1. Spent(r, N, k) <= Supply(r, K, now - t0)
    BY BalanceCarries
<1>2. PICK D \in Int : D = now - t0
    OBVIOUS
<1>3. /\ Spent(r, N, k) \in Int /\ Supply(r, K, D) \in Int
      /\ \A g \in Int : g <= k => Spent(r, N, g) <= Spent(r, N, k)
    BY SpentAndSupplied
<1>4. Spent(r, N, w) \in Int
    BY SpentAndSupplied
<1> QED
    BY <1>1, <1>2, <1>3, <1>4

\* A check keeps what holds of a bucket, also when it lets a request through.
LEMMA CheckKeepsBalance ==
    ASSUME NEW b \in TokenBuckets, NEW all, NEW lets, time \in Nat, Holds(b, time),
           Balanced(b, all, lets), NEW n \in Nat, NEW L \in Nat, NEW more,
           Made(all, L), L >= 1, Requests(lets, n, L, time), Adds(more, lets, n, L, time),
           NEW c, c = Checked(b)
    PROVE  /\ Balanced(c, all, lets)
           /\ Allows(b) => Balanced(c, all, more)
<1>1. /\ c \in TokenBuckets /\ c.rule = b.rule /\ c.last = time /\ Holds(c, time)
      /\ \E k \in Nat : /\ k = Held(c) + (IF Allows(b) THEN b.rule.period ELSE 0)
                        /\ k <= Size(b.rule) * b.rule.period
                        /\ k * TicksPerMilli <= Held(b) * TicksPerMilli
                                                  + (time - b.last) * Size(b.rule)
    BY CheckedFields
<1>2. PICK r \in Rules, p \in Nat : r = b.rule /\ p = r.period
    BY BucketFields, RuleFields
<1>3. PICK h \in Nat, w \in Nat, last \in Nat, now \in Nat :
         h = Held(b) /\ w = Held(c) /\ last = b.last /\ now = time
    BY <1>1, BucketFields
<1>4. PICK k \in Nat : /\ k = w + (IF Allows(b) THEN p ELSE 0) /\ k <= Size(r) * r.period
                       /\ k * TicksPerMilli <= h * TicksPerMilli + (now - last) * Size(r)
    BY <1>1, <1>2, <1>3
<1>5. w <= k
    BY <1>4
<1>6. ASSUME NEW from \in 1 .. n, HasRule(all, r, lets[from].entry, L)
      PROVE  /\ Spent(r, n - from + 1, k) <= Supply(r, L - lets[from].entry + 1, now - lets[from].at)
             /\ Spent(r, n - from + 1, w) <= Supply(r, L - lets[from].entry + 1, now - lets[from].at)
  <2>4. PICK t0 \in Nat, f \in Nat : t0 = lets[from].at /\ f = lets[from].entry
    BY DEF Requests
  <2>5. PICK N \in Int, K \in Int : N = n - from + 1 /\ K = L - f + 1
    OBVIOUS
  <2>1. N = n - from + 1 /\ t0 = lets[from].at /\ f = lets[from].entry /\ K = L - f + 1
    BY <2>4, <2>5
  <2>2. Spent(r, N, h) <= Supply(r, K, last - t0)
    BY <1>2, <1>3, <1>6, <2>1, BalanceOf
  <2>3. Spent(r, N, k) <= Supply(r, K, now - t0) /\ Spent(r, N, w) <= Supply(r, K, now - t0)
    BY <1>4, <1>5, <2>2, CheckNumbers
  <2> QED
    BY <2>1, <2>3
<1>7. Balanced(c, all, lets)
    BY <1>1, <1>2, <1>3, <1>6, BalanceOf
<1>8. ASSUME Allows(b) PROVE Balanced(c, all, more)
  <2>1. k = w + r.period
    BY <1>2, <1>4, <1>8
  <2>5. PICK m \in Nat : m = n + 1
    OBVIOUS
  <2>2. /\ Requests(more, m, L, now) /\ more[m].at = now /\ more[m].entry = L
        /\ \A i \in 1 .. n : more[i] = lets[i]
    <3>1. Requests(lets, n, L, now) /\ Adds(more, lets, n, L, now)
      BY <1>3
    <3>2. Requests(more, m, L, now)
      BY <2>5, <3>1, RequestsAdd
    <3>3. more[m].at = now /\ more[m].entry = L /\ \A i \in 1 .. n : more[i] = lets[i]
      BY <2>5, <3>1 DEF Adds
    <3> QED
      BY <3>2, <3>3
  <2>3. ASSUME NEW from \in 1 .. m, HasRule(all, r, more[from].entry, L)
        PROVE  Spent(r, m - from + 1, w) <= Supply(r, L - more[from].entry + 1, now - more[from].at)
    <3>1. PICK N \in Int : N = n - from + 1 /\ m - from + 1 = N + 1 /\ (from = m => N = 0)
      BY <2>5
    <3>2. Spent(r, N + 1, w) = Spent(r, N, k)
      BY <2>1, SpentAndSupplied
    <3>3. CASE from = m
      <4>1. L - more[from].entry + 1 = 1 /\ now - more[from].at = 0
        BY <2>2, <3>3
      <4>2. Spent(r, 0, k) <= Supply(r, 1, 0)
        BY <1>4, FullBucket
      <4> QED
        BY <3>1, <3>2, <3>3, <4>1, <4>2
    <3>4. CASE from # m
      <4>1. from \in 1 .. n
        BY <2>5, <3>4
      <4>2. more[from] = lets[from]
        BY <2>2, <4>1
      <4>3. Spent(r, n - from + 1, k) <= Supply(r, L - more[from].entry + 1, now - more[from].at)
        BY <1>6, <2>3, <4>1, <4>2
      <4> QED
        BY <3>1, <3>2, <4>3
    <3> QED
      BY <3>3, <3>4
  <2> QED
    BY <1>1, <1>2, <1>3, <2>2, <2>3, BalanceOf
<1> QED
    BY <1>7, <1>8

LEMMA CheckKeepsBucket ==
    ASSUME NEW b \in TokenBuckets, NEW all, NEW lets, time \in Nat, BucketOK(b, all, lets, time),
           NEW n \in Nat, NEW L \in Nat, NEW more, Grows(all, lets, more, n, L, time)
    PROVE  /\ BucketOK(Checked(b), all, lets, time)
           /\ Allows(b) => BucketOK(Checked(b), all, more, time)
<1>1. Made(all, L) /\ L >= 1 /\ Requests(lets, n, L, time) /\ Adds(more, lets, n, L, time)
    BY DEF Grows, Made
<1>2. Holds(b, time) /\ Balanced(b, all, lets)
    BY DEF BucketOK
<1>3. PICK c : c = Checked(b) /\ Holds(c, time)
    BY <1>2, CheckedFields
<1>4. Balanced(c, all, lets) /\ (Allows(b) => Balanced(c, all, more))
    BY <1>1, <1>2, <1>3, CheckKeepsBalance
<1> QED
    BY <1>3, <1>4 DEF BucketOK

\* A request that all buckets of the last entry allow is within every rule that was in
\* force throughout.
LEMMA BoundOf ==
    ASSUME NEW all, NEW lets, NEW n \in Nat, NEW L \in Nat, NEW now \in Nat, Requests(lets, n, L, now)
    PROVE  Bounded(all, lets) <=>
             \A from, to \in 1 .. n : \A i \in DOMAIN all[lets[from].entry] :
               from <= to /\ HasRule(all, all[lets[from].entry][i], lets[from].entry, lets[to].entry) =>
                 BoundedBy(all[lets[from].entry][i], all, lets, from, to)
BY DEF Bounded, Requests

LEMMA BoundGrows ==
    ASSUME NEW all, NEW lets, Bounded(all, lets), NEW now \in Nat,
           NEW n \in Nat, NEW L \in Nat, Made(all, L), L >= 1, Requests(lets, n, L, now),
           NEW more, Adds(more, lets, n, L, now),
           NEW bs, NEW rules, rules = all[L],
           \A j \in DOMAIN rules : /\ bs[j] \in TokenBuckets /\ bs[j].last = now
                                   /\ Balanced(bs[j], all, more) /\ bs[j].rule = rules[j]
    PROVE  Bounded(all, more)
<1>2. PICK m \in Nat : m = n + 1
    OBVIOUS
<1>1. /\ Requests(more, m, L, now) /\ more[m].at = now /\ more[m].entry = L
      /\ \A i \in 1 .. n : more[i] = lets[i]
  <2>1. Requests(more, m, L, now)
    BY <1>2, RequestsAdd
  <2>2. more[m].at = now /\ more[m].entry = L /\ \A i \in 1 .. n : more[i] = lets[i]
    BY <1>2 DEF Adds
  <2> QED
    BY <2>1, <2>2
<1>3. ASSUME NEW from \in 1 .. m, NEW to \in 1 .. m, NEW i \in DOMAIN all[more[from].entry],
             from <= to, HasRule(all, all[more[from].entry][i], more[from].entry, more[to].entry)
      PROVE  BoundedBy(all[more[from].entry][i], all, more, from, to)
  <2>1. CASE to # m
    <3>1. to \in 1 .. n /\ from \in 1 .. n
      BY <1>2, <1>3, <2>1
    <3>2. more[to] = lets[to] /\ more[from] = lets[from]
      BY <1>1, <3>1
    <3>3. BoundedBy(all[lets[from].entry][i], all, lets, from, to)
      BY <1>3, <3>1, <3>2, BoundOf
    <3> QED
      BY <3>2, <3>3 DEF BoundedBy
  <2>2. CASE to = m
    <3>1. PICK r : r = all[more[from].entry][i]
      OBVIOUS
    <3>2. HasRule(all, r, more[from].entry, L)
      BY <1>1, <1>2, <1>3, <2>2, <3>1
    <3>14. PICK t0 \in Nat, f \in Nat : t0 = more[from].at /\ f = more[from].entry /\ f <= L
      BY <1>1 DEF Requests
    <3>15. PICK N \in Int, K \in Int : N = m - from + 1 /\ K = L - f + 1
      OBVIOUS
    <3>3. N = m - from + 1 /\ t0 = more[from].at /\ f = more[from].entry /\ K = L - f + 1 /\ f <= L
      BY <3>14, <3>15
    <3>4. L \in f .. L
      BY <3>3
    <3>5. PICK j \in DOMAIN rules : rules[j] = r
      BY <3>2, <3>3, <3>4 DEF HasRule
    <3>6. PICK b : b = bs[j] /\ b \in TokenBuckets /\ b.rule = r /\ b.last = now /\ Balanced(b, all, more)
      BY <3>5
    <3>7. r \in Rules /\ Held(b) \in Nat
      BY <3>6, BucketFields
    <3>8. PICK w \in Nat, D \in Int : w = Held(b) /\ D = now - t0
      BY <3>7
    <3>9. Spent(r, N, w) <= Supply(r, K, D)
      BY <1>1, <1>2, <3>2, <3>3, <3>6, <3>8, BalanceOf
    <3>10. /\ Spent(r, N, w) \in Int /\ Supply(r, K, D) \in Int
           /\ \A g \in Int : g <= w => Spent(r, N, g) <= Spent(r, N, w)
      BY <3>7, SpentAndSupplied
    <3>11. Spent(r, N, 0) \in Int
      BY <3>7, SpentAndSupplied
    <3>12. Spent(r, N, 0) <= Supply(r, K, D)
      BY <3>9, <3>10, <3>11
    <3>13. N = to - from + 1 /\ K = more[to].entry - f + 1 /\ D = more[to].at - t0
      BY <1>1, <1>2, <2>2, <3>3, <3>8
    <3> QED
      BY <3>1, <3>3, <3>12, <3>13 DEF BoundedBy
  <2> QED
    BY <2>1, <2>2
<1> QED
    BY <1>1, <1>2, <1>3, BoundOf

LEMMA HistoryGrows ==
    ASSUME NEW all, NEW lets, NEW now \in Nat, HistoryOK(all, lets, now),
           NEW n \in Nat, NEW L \in Nat, NEW more, Grows(all, lets, more, n, L, now),
           NEW bs, NEW rules, rules = all[L],
           \A j \in DOMAIN rules : /\ bs[j] \in TokenBuckets /\ bs[j].last = now
                                   /\ Balanced(bs[j], all, more) /\ bs[j].rule = rules[j]
    PROVE  HistoryOK(all, more, now)
<1>1. Made(all, L) /\ L >= 1 /\ Requests(lets, n, L, now) /\ Adds(more, lets, n, L, now)
    BY DEF Grows, Made
<1>2. Bounded(all, lets)
    BY DEF HistoryOK
<1>3. Bounded(all, more)
    BY <1>1, <1>2, BoundGrows
<1>4. PICK m \in Nat : m = n + 1
    OBVIOUS
<1>5. Requests(more, m, L, now)
    BY <1>1, <1>4, RequestsAdd
<1>6. \A i \in DOMAIN more : more[i].entry \in 1 .. L /\ more[i].at <= now
    BY <1>5 DEF Requests
<1>7. Past(all, more, now)
    BY <1>1, <1>6 DEF Past, Made
<1> QED
    BY <1>3, <1>7 DEF HistoryOK

Entries == [set : BOOLEAN, buckets : Seq(TokenBuckets)]
SameShape(c, e) ==
    /\ DOMAIN c.buckets = DOMAIN e.buckets
    /\ \A i \in DOMAIN e.buckets : /\ c.buckets[i].rule = e.buckets[i].rule
                                   /\ c.buckets[i].is_global = e.buckets[i].is_global

LEMMA EntryFields ==
    ASSUME NEW e \in Entries
    PROVE  /\ e.set \in BOOLEAN /\ e.buckets \in Seq(TokenBuckets)
           /\ DOMAIN e.buckets = 1 .. Len(e.buckets) /\ Len(e.buckets) \in Nat
           /\ \A i \in DOMAIN e.buckets : e.buckets[i] \in TokenBuckets
           /\ e.buckets = <<>> <=> DOMAIN e.buckets = {}
<1>1. e.set \in BOOLEAN /\ e.buckets \in Seq(TokenBuckets)
    BY DEF Entries
<1>2. PICK s \in Seq(TokenBuckets) : s = e.buckets
    BY <1>1
<1>3. /\ DOMAIN s = 1 .. Len(s) /\ Len(s) \in Nat /\ \A i \in DOMAIN s : s[i] \in TokenBuckets
      /\ s = <<>> <=> DOMAIN s = {}
    OBVIOUS
<1> QED
    BY <1>1, <1>2, <1>3

LEMMA NoEntryIs ==
    /\ NoEntry \in Entries /\ ~NoEntry.set /\ NoEntry.buckets = <<>>
    /\ RulesIn(NoEntry) = <<>>
<1>1. NoEntry \in Entries /\ ~NoEntry.set /\ NoEntry.buckets = <<>>
    BY DEF NoEntry, Entries
<1>2. RulesIn(NoEntry) = [i \in {} |-> 0]
    BY <1>1 DEF RulesIn
<1>3. <<>> = [i \in {} |-> 0]
    OBVIOUS
<1> QED
    BY <1>1, <1>2, <1>3

LEMMA ShapeInForce ==
    ASSUME NEW c, NEW e, SameShape(c, e), e.buckets = <<>> <=> c.buckets = <<>>, e.set,
           NEW u, NEW lim, NEW glob, InForce(e, u, lim, glob)
    PROVE  InForce(c, u, lim, glob)
<1>1. RulesIn(c) = RulesIn(e)
    BY DEF SameShape, RulesIn
<1> QED
    BY <1>1 DEF SameShape, InForce

\* A list of rules is added to those of the entries that were made.
LEMMA OneMoreList ==
    ASSUME NEW all \in Seq(Seq(Rules)), NEW rules \in Seq(Rules), NEW now \in Nat,
           NEW lets \in Seq(LetThrough), HistoryOK(all, lets, now),
           NEW more, more = Append(all, rules)
    PROVE  /\ more \in Seq(Seq(Rules)) /\ more # <<>> /\ Len(more) = Len(all) + 1 /\ Len(all) \in Nat
           /\ more[Len(more)] = rules
           /\ HistoryOK(more, lets, now)
           /\ \A e \in 1 .. Len(all) : more[e] = all[e]
<1>1. PICK L \in Nat : L = Len(all) /\ DOMAIN all = 1 .. L
    OBVIOUS
<1>2. /\ more \in Seq(Seq(Rules)) /\ Len(more) = L + 1 /\ DOMAIN more = 1 .. L + 1
      /\ more[L + 1] = rules /\ \A e \in 1 .. L : more[e] = all[e]
    BY <1>1
<1>3. more # <<>>
    BY <1>2
<1>4. Past(all, lets, now) /\ Bounded(all, lets)
    BY DEF HistoryOK
<1>5. Past(more, lets, now)
    BY <1>1, <1>2, <1>4 DEF Past
<1>6. \A i \in DOMAIN lets : lets[i].entry \in 1 .. L /\ more[lets[i].entry] = all[lets[i].entry]
    BY <1>1, <1>2, <1>4 DEF Past
<1>7. ASSUME NEW from \in DOMAIN lets, NEW to \in DOMAIN lets, NEW i \in DOMAIN all[lets[from].entry],
             from <= to, HasRule(more, all[lets[from].entry][i], lets[from].entry, lets[to].entry)
      PROVE  BoundedBy(all[lets[from].entry][i], more, lets, from, to)
  <2>1. \A e \in lets[from].entry .. lets[to].entry : more[e] = all[e]
    <3>1. PICK x \in 1 .. L, y \in 1 .. L : x = lets[from].entry /\ y = lets[to].entry
      BY <1>6
    <3>2. \A e \in x .. y : e \in 1 .. L
      OBVIOUS
    <3> QED
      BY <1>2, <3>1, <3>2
  <2>2. HasRule(all, all[lets[from].entry][i], lets[from].entry, lets[to].entry)
    BY <1>7, <2>1 DEF HasRule
  <2>3. BoundedBy(all[lets[from].entry][i], all, lets, from, to)
    BY <1>4, <1>7, <2>2 DEF Bounded
  <2> QED
    BY <2>3 DEF BoundedBy
<1>8. Bounded(more, lets)
    BY <1>6, <1>7 DEF Bounded
<1> QED
    BY <1>1, <1>2, <1>3, <1>5, <1>8 DEF HistoryOK

LEMMA ListMade ==
    ASSUME NEW all \in Seq(Seq(Rules)), NEW rules \in Seq(Rules), NEW now \in Nat,
           NEW lets \in Seq(LetThrough), HistoryOK(all, lets, now),
           NEW n \in Nat, n = Len(lets), NEW L \in Nat, L = Len(all), NEW S \in Nat, S = L + 1,
           NEW more, more = Append(all, rules)
    PROVE  Lengthens(all, more, rules, lets, n, L, S, now)
<1>1. Requests(lets, n, L, now)
    BY RequestsAre DEF HistoryOK
<1>2. /\ Len(more) = L + 1 /\ DOMAIN more = 1 .. L + 1
      /\ more[L + 1] = rules /\ \A e \in 1 .. L : more[e] = all[e]
    BY ONLY all \in Seq(Seq(Rules)), rules \in Seq(Rules), more = Append(all, rules),
            L \in Nat, L = Len(all)
<1>3. more # <<>>
    BY ONLY all \in Seq(Seq(Rules)), rules \in Seq(Rules), more = Append(all, rules)
<1>4. S >= 1
    BY ONLY L \in Nat, S = L + 1
<1> QED
    BY <1>1, <1>2, <1>3, <1>4 DEF Lengthens, Made

\* A full bucket of a new entry: the replacement adds what fits into it.
LEMMA FreshBalance ==
    ASSUME NEW all, NEW lets, Bounded(all, lets), NEW now \in Nat, NEW n \in Nat, NEW L \in Nat,
           NEW S \in Nat, NEW more, NEW rules, Lengthens(all, more, rules, lets, n, L, S, now),
           NEW r \in Rules, NEW b, b.rule = r, NEW M \in Nat, Held(b) = M,
           M <= Size(r) * r.period, b.last = now
    PROVE  Balanced(b, more, lets)
<1>1. /\ Requests(lets, n, L, now) /\ Made(more, S) /\ S = L + 1
      /\ \A e \in 1 .. L : more[e] = all[e]
    BY DEF Lengthens
<1>2. ASSUME NEW from \in 1 .. n, HasRule(more, r, lets[from].entry, S)
      PROVE  Spent(r, n - from + 1, M) <= Supply(r, S - lets[from].entry + 1, now - lets[from].at)
  <2>1. n \in 1 .. n /\ from <= n
    OBVIOUS
  <2>14. PICK t \in Nat, f \in Nat : /\ t = lets[from].at /\ f = lets[from].entry
                                     /\ t <= now /\ f <= L /\ f >= 1
    BY <1>1 DEF Requests
  <2>15. PICK N \in Int, K \in Int : N = n - from + 1 /\ K = L - f + 1
    OBVIOUS
  <2>2. /\ N = n - from + 1 /\ t = lets[from].at /\ f = lets[from].entry /\ K = L - f + 1
        /\ t <= now /\ f <= L /\ f >= 1
    BY <2>14, <2>15
  <2>3. PICK u \in Nat, l \in Nat : u = lets[n].at /\ l = lets[n].entry /\ u <= now /\ l <= L
    BY <1>1, <2>1 DEF Requests
  <2>4. HasRule(all, r, f, l)
    <3>1. ASSUME NEW e \in f .. l PROVE \E i \in DOMAIN all[e] : all[e][i] = r
      <4>1. e \in f .. S /\ e \in 1 .. L
        BY <1>1, <2>2, <2>3
      <4> QED
        BY <1>1, <1>2, <2>2, <4>1 DEF HasRule
    <3> QED
      BY <3>1 DEF HasRule
  <2>5. PICK i \in DOMAIN all[f] : all[f][i] = r
    <3>1. f \in f .. S /\ f \in 1 .. L
      BY <1>1, <2>2
    <3> QED
      BY <1>1, <1>2, <2>2, <3>1 DEF HasRule
  <2>6. BoundedBy(r, all, lets, from, n)
    <3>1. from \in 1 .. n /\ n \in 1 .. n /\ from <= n /\ i \in DOMAIN all[lets[from].entry]
      BY <2>1, <2>2, <2>5
    <3>2. all[lets[from].entry][i] = r /\ HasRule(all, r, lets[from].entry, lets[n].entry)
      BY <2>2, <2>3, <2>4, <2>5
    <3>3. DOMAIN lets = 1 .. n
      BY <1>1 DEF Requests
    <3> QED
      BY <3>1, <3>2, <3>3 DEF Bounded
  <2>7. PICK D \in Int, j \in Int, c \in Int :
           D = now - t /\ j = l - f + 1 /\ c = u - t /\ j <= K /\ c <= D
    BY <2>2, <2>3
  <2>8. Spent(r, N, 0) <= Supply(r, j, c)
    BY <2>2, <2>3, <2>6, <2>7 DEF BoundedBy
  <2>9. /\ Spent(r, N, 0) \in Int /\ Supply(r, K, D) \in Int
        /\ \A x, y \in Int : x <= K /\ y <= D => Supply(r, x, y) <= Supply(r, K, D)
    BY SpentAndSupplied
  <2>10. Supply(r, j, c) \in Int
    BY SpentAndSupplied
  <2>11. Spent(r, N, 0) <= Supply(r, K, D)
    BY <2>7, <2>8, <2>9, <2>10
  <2>12. Spent(r, N, M) <= Supply(r, K + 1, D)
    BY <2>11, FullBucket
  <2>13. S - f + 1 = K + 1
    BY <1>1, <2>2
  <2> QED
    BY <2>2, <2>7, <2>12, <2>13
<1> QED
    BY <1>1, <1>2 DEF Balanced, Requests, Made

LEMMA FreshBucket ==
    ASSUME NEW all, NEW lets, HistoryOK(all, lets, time), time \in Nat, NEW n \in Nat, NEW L \in Nat,
           NEW S \in Nat, NEW more, NEW rules, Lengthens(all, more, rules, lets, n, L, S, time),
           NEW r \in Rules, NEW b \in TokenBuckets,
           b.rule = r, b.allowed = r.max * r.period, b.last = time
    PROVE  BucketOK(b, more, lets, time)
<1>1. Bounded(all, lets)
    BY DEF HistoryOK
<1>2. PICK M \in Nat : M = r.max * r.period /\ M <= Size(r) * r.period
    BY RuleFields
<1>3. Held(b) = M
    BY <1>2 DEF Held
<1>4. Holds(b, time)
    BY <1>2 DEF Holds
<1>5. PICK now \in Nat : now = time
    OBVIOUS
<1>6. Lengthens(all, more, rules, lets, n, L, S, now) /\ b.last = now
    BY <1>5
<1>7. Balanced(b, more, lets)
    BY <1>1, <1>2, <1>3, <1>6, FreshBalance
<1> QED
    BY <1>4, <1>7 DEF BucketOK

\* The buckets of an entry that is made are full.
LEMMA NewEntryOf ==
    ASSUME NEW rules \in Seq(Rules), NEW g \in BOOLEAN, time \in Nat, NEW all, NEW lets,
           HistoryOK(all, lets, time), NEW n \in Nat, NEW L \in Nat, NEW S \in Nat, NEW more,
           Lengthens(all, more, rules, lets, n, L, S, time)
    PROVE  /\ BucketsOf(rules, g) \in Entries /\ BucketsOf(rules, g).set
           /\ DOMAIN BucketsOf(rules, g).buckets = DOMAIN rules
           /\ \A i \in DOMAIN rules : BucketsOf(rules, g).buckets[i].is_global = g
           /\ RulesIn(BucketsOf(rules, g)) = rules
           /\ BucketsOf(rules, g).buckets = <<>> <=> rules = <<>>
           /\ BucketsOK(BucketsOf(rules, g), more, lets, time)
           /\ IsLast(BucketsOf(rules, g), more)
<1> DEFINE fresh(i) == [rule |-> rules[i], allowed |-> rules[i].max * rules[i].period,
                       last |-> time, is_global |-> g]
           s == [i \in DOMAIN rules |-> fresh(i)]
<1>1. \A i \in DOMAIN rules :
         /\ fresh(i) \in TokenBuckets /\ fresh(i).is_global = g /\ fresh(i).rule = rules[i]
         /\ BucketOK(fresh(i), more, lets, time)
  <2>1. TAKE i \in DOMAIN rules
  <2>2. rules[i] \in Rules
    OBVIOUS
  <2>3. PICK r \in Rules, x \in Int : r = rules[i] /\ x = r.max * r.period
    BY <2>2 DEF Rules
  <2>4. PICK b : b = [rule |-> r, allowed |-> x, last |-> time, is_global |-> g] /\ b = fresh(i)
    BY <2>3
  <2>5. b \in TokenBuckets /\ b.is_global = g /\ b.rule = r /\ b.allowed = x /\ b.last = time
    BY <2>4 DEF TokenBuckets
  <2>6. BucketOK(b, more, lets, time)
    BY <2>3, <2>5, FreshBucket
  <2> QED
    BY <2>3, <2>4, <2>5, <2>6
<1> HIDE DEF fresh
<1>2. /\ DOMAIN rules = 1 .. Len(rules) /\ Len(rules) \in Nat
      /\ rules = <<>> <=> DOMAIN rules = {} /\ rules = [i \in DOMAIN rules |-> rules[i]]
    OBVIOUS
<1>3. s \in Seq(TokenBuckets) /\ DOMAIN s = DOMAIN rules /\ \A i \in DOMAIN rules : s[i] = fresh(i)
    BY <1>1, <1>2
<1>4. s = <<>> <=> DOMAIN s = {}
    BY <1>3
<1> HIDE DEF s
<1>5. BucketsOf(rules, g) = [set |-> TRUE, buckets |-> s]
    BY DEF BucketsOf, s, fresh
<1>9. PICK e : e = BucketsOf(rules, g)
    OBVIOUS
<1>10. e = [set |-> TRUE, buckets |-> s]
    BY <1>5, <1>9
<1>6. e \in Entries /\ e.set /\ e.buckets = s
    BY <1>3, <1>10 DEF Entries
<1>7. RulesIn(e) = rules
  <2>1. RulesIn(e) = [i \in DOMAIN rules |-> s[i].rule]
    BY <1>3, <1>6 DEF RulesIn
  <2>2. \A i \in DOMAIN rules : s[i].rule = rules[i]
    BY <1>1, <1>3
  <2> QED
    BY <1>2, <2>1, <2>2
<1>8. BucketsOK(e, more, lets, time)
    BY <1>1, <1>3, <1>6 DEF BucketsOK
<1>11. IsLast(e, more)
    BY <1>6, <1>7 DEF IsLast, Lengthens, Made
<1> QED
    BY <1>1, <1>2, <1>3, <1>4, <1>6, <1>7, <1>8, <1>9, <1>11

LEMMA NewEntry ==
    ASSUME NEW rules \in Seq(Rules), NEW g \in BOOLEAN, time \in Nat, NEW all \in Seq(Seq(Rules)),
           NEW lets \in Seq(LetThrough), HistoryOK(all, lets, time)
    PROVE  /\ BucketsOf(rules, g) \in Entries /\ BucketsOf(rules, g).set
           /\ DOMAIN BucketsOf(rules, g).buckets = DOMAIN rules
           /\ \A i \in DOMAIN rules : BucketsOf(rules, g).buckets[i].is_global = g
           /\ RulesIn(BucketsOf(rules, g)) = rules
           /\ BucketsOf(rules, g).buckets = <<>> <=> rules = <<>>
           /\ BucketsOK(BucketsOf(rules, g), Append(all, rules), lets, time)
           /\ IsLast(BucketsOf(rules, g), Append(all, rules))
<1>1. PICK more : more = Append(all, rules)
    OBVIOUS
<1>2. PICK n \in Nat, L \in Nat, S \in Nat : n = Len(lets) /\ L = Len(all) /\ S = L + 1
    OBVIOUS
<1>3. Lengthens(all, more, rules, lets, n, L, S, time)
    BY <1>1, <1>2, ListMade
<1> QED
    BY <1>1, <1>3, NewEntryOf

\* A check of all buckets of an entry.
LEMMA CheckKeepsEntry ==
    ASSUME NEW e \in Entries, NEW all, NEW lets, time \in Nat,
           BucketsOK(e, all, lets, time), HistoryOK(all, lets, time), e.set, IsLast(e, all),
           NEW c, c = [set |-> TRUE, buckets |-> CheckedAll(e.buckets)],
           NEW n \in Nat, NEW L \in Nat, NEW more, Grows(all, lets, more, n, L, time)
    PROVE  /\ c \in Entries /\ c.set /\ SameShape(c, e) /\ IsLast(c, all)
           /\ e.buckets = <<>> <=> c.buckets = <<>>
           /\ BucketsOK(c, all, lets, time)
           /\ AllowsAll(e.buckets) => BucketsOK(c, all, more, time) /\ HistoryOK(all, more, time)
<1>1. PICK s \in Seq(TokenBuckets) :
         s = e.buckets /\ \A i \in DOMAIN s : s[i] \in TokenBuckets /\ BucketOK(s[i], all, lets, time)
    BY EntryFields DEF BucketsOK
<1> DEFINE t == CheckedAll(s)
<1>2. \A i \in DOMAIN s :
         /\ Checked(s[i]) \in TokenBuckets /\ Checked(s[i]).rule = s[i].rule
         /\ Checked(s[i]).is_global = s[i].is_global
         /\ Checked(s[i]).last = time
         /\ BucketOK(Checked(s[i]), all, lets, time)
         /\ Allows(s[i]) => BucketOK(Checked(s[i]), all, more, time)
  <2>1. TAKE i \in DOMAIN s
  <2>2. PICK b : /\ b = s[i] /\ b \in TokenBuckets /\ BucketOK(b, all, lets, time) /\ Holds(b, time)
    BY <1>1 DEF BucketOK
  <2>3. /\ Checked(b) \in TokenBuckets /\ Checked(b).rule = b.rule
        /\ Checked(b).is_global = b.is_global /\ Checked(b).last = time
    BY <2>2, CheckedFields
  <2>4. /\ BucketOK(Checked(b), all, lets, time)
        /\ Allows(b) => BucketOK(Checked(b), all, more, time)
    BY <2>2, CheckKeepsBucket
  <2> QED
    BY <2>2, <2>3, <2>4
<1>3. /\ DOMAIN s = 1 .. Len(s) /\ Len(s) \in Nat /\ s = <<>> <=> DOMAIN s = {}
    OBVIOUS
<1>4. /\ DOMAIN t = DOMAIN s
      /\ \A i \in DOMAIN s : t[i] = IF Reaches(s, i) THEN Checked(s[i]) ELSE s[i]
    BY DEF CheckedAll
<1>5. t \in Seq(TokenBuckets)
  <2>1. \A i \in DOMAIN s : (IF Reaches(s, i) THEN Checked(s[i]) ELSE s[i]) \in TokenBuckets
    BY <1>1, <1>2
  <2>2. t \in [1 .. Len(s) -> TokenBuckets]
    BY <1>3, <2>1 DEF CheckedAll
  <2> HIDE DEF t
  <2> QED
    BY <1>3, <2>2
<1>6. t = <<>> <=> DOMAIN t = {}
    BY <1>5
<1> HIDE DEF t
<1>7. c \in Entries /\ c.set /\ c.buckets = t
    BY <1>1, <1>5 DEF Entries, t
<1>8. SameShape(c, e) /\ (e.buckets = <<>> <=> c.buckets = <<>>)
    BY SMTT(20), <1>1, <1>2, <1>3, <1>4, <1>6, <1>7 DEF SameShape
<1>9. BucketsOK(c, all, lets, time)
    BY <1>1, <1>2, <1>4, <1>7 DEF BucketsOK
<1>10. IsLast(c, all)
  <2>1. RulesIn(c) = RulesIn(e)
    BY <1>8 DEF SameShape, RulesIn
  <2> QED
    BY <1>7, <2>1 DEF IsLast
<1>11. ASSUME AllowsAll(s)
       PROVE  BucketsOK(c, all, more, time) /\ HistoryOK(all, more, time)
  <2>1. \A i \in DOMAIN s : Allows(s[i]) /\ Reaches(s, i)
    BY <1>3, <1>11 DEF AllowsAll, Reaches
  <2>2. \A i \in DOMAIN s : /\ t[i] \in TokenBuckets /\ t[i].last = time /\ BucketOK(t[i], all, more, time)
    BY <1>2, <1>4, <2>1
  <2>3. \A i \in DOMAIN t : /\ t[i] \in TokenBuckets /\ t[i].last = time /\ Balanced(t[i], all, more)
    BY <1>4, <2>2 DEF BucketOK
  <2>4. RulesIn(c) = all[L]
    BY <1>7, <1>10 DEF IsLast, Grows, Made
  <2>5. PICK rules : rules = all[L] /\ DOMAIN t = DOMAIN rules /\ \A i \in DOMAIN t : t[i].rule = rules[i]
    BY <1>7, <2>4 DEF RulesIn
  <2>6. \A i \in DOMAIN rules : /\ t[i] \in TokenBuckets /\ t[i].last = time
                                /\ Balanced(t[i], all, more) /\ t[i].rule = rules[i]
    BY <2>3, <2>5
  <2>7. HistoryOK(all, more, time)
    BY <2>5, <2>6, HistoryGrows
  <2> QED
    BY <1>4, <1>7, <2>2, <2>7 DEF BucketsOK
<1> QED
    BY <1>1, <1>7, <1>8, <1>9, <1>10, <1>11

LEMMA FirewallInitInv == FirewallInit => FirewallInv
<1> SUFFICES ASSUME FirewallInit PROVE FirewallInv
    OBVIOUS
<1>1. FirewallTypeOK
  <2>1. global \in Seq(Rules) /\ limiting \in {"None", "Per", "Global"}
    <3>1. <<>> \in Seq(Rules)
      OBVIOUS
    <3>2. global = <<>> \/ global \in RuleLists
      BY DEF FirewallInit
    <3>3. limiting \in {"None", "Per", "Global"}
      BY DEF FirewallInit
    <3> QED
      BY <3>1, <3>2, <3>3, FirewallAssumption
  <2>2. per \in [Ips -> Entries]
    BY NoEntryIs DEF FirewallInit
  <2>3. policy \in [mode : {"All", "Whitelist", "Blacklist"}, members : SUBSET Ips]
    BY DEF FirewallInit
  <2>4. /\ user \in [Ips -> Seq(Rules)] /\ time \in Nat /\ commands \in Nat
        /\ lists \in [Ips -> Seq(Seq(Rules))] /\ let_through \in [Ips -> Seq(LetThrough)]
    BY DEF FirewallInit
  <2> QED
    BY <2>1, <2>2, <2>3, <2>4 DEF FirewallTypeOK, Entries
<1>2. \A ip \in Ips : per[ip] = NoEntry /\ user[ip] = <<>> /\ lists[ip] = <<>> /\ let_through[ip] = <<>>
    BY DEF FirewallInit
<1>3. HistoryOK(<<>>, <<>>, time)
    BY DEF HistoryOK, Past, Bounded
<1>4. EntryOK(NoEntry, <<>>, <<>>, <<>>, limiting, global, time)
    BY <1>3, NoEntryIs DEF EntryOK, IsLast, BucketsOK, InForce
<1> QED
    BY <1>1, <1>2, <1>4, FirewallInvByIp

LEMMA FirewallTyped ==
    ASSUME FirewallInv
    PROVE  /\ policy \in [mode : {"All", "Whitelist", "Blacklist"}, members : SUBSET Ips]
           /\ limiting \in {"None", "Per", "Global"} /\ global \in Seq(Rules)
           /\ per \in [Ips -> Entries] /\ user \in [Ips -> Seq(Rules)]
           /\ lists \in [Ips -> Seq(Seq(Rules))]
           /\ let_through \in [Ips -> Seq(LetThrough)] /\ time \in Nat /\ commands \in Nat
           /\ \A ip \in Ips :
                /\ per[ip] \in Entries /\ user[ip] \in Seq(Rules)
                /\ lists[ip] \in Seq(Seq(Rules)) /\ let_through[ip] \in Seq(LetThrough)
                /\ IsLast(per[ip], lists[ip]) /\ HistoryOK(lists[ip], let_through[ip], time)
                /\ BucketsOK(per[ip], lists[ip], let_through[ip], time)
                /\ InForce(per[ip], user[ip], limiting, global)
<1>1. /\ FirewallTypeOK
      /\ \A ip \in Ips :
           EntryOK(per[ip], user[ip], lists[ip], let_through[ip], limiting, global, time)
    BY FirewallInvByIp
<1> QED
    BY <1>1 DEF FirewallTypeOK, Entries, EntryOK

\* An address without rules of its own is left alone: there is nothing to keep to.
LEMMA NoRulesUnset ==
    ASSUME NEW e \in Entries, e.buckets = <<>>, NEW u \in Seq(Rules), NEW lim, NEW glob,
           InForce(e, u, lim, glob)
    PROVE  u = <<>>
<1>1. SUFFICES ASSUME u # <<>> PROVE FALSE
    OBVIOUS
<1>2. RulesIn(e) = u
    BY <1>1 DEF InForce
<1>3. DOMAIN RulesIn(e) = {}
    BY EntryFields DEF RulesIn
<1>4. DOMAIN u # {}
  <2>1. Len(u) \in Nat /\ Len(u) # 0 /\ DOMAIN u = 1 .. Len(u)
    BY <1>1
  <2>2. 1 \in DOMAIN u
    BY <2>1
  <2> QED
    BY <2>2
<1> QED
    BY <1>2, <1>3, <1>4

LEMMA CheckKeeps ==
    ASSUME FirewallInv, NEW ip \in Ips, Check(ip)
    PROVE  FirewallInv'
<1> DEFINE entry == EntryFor(ip)
           ok == AllowsAll(entry.buckets)
           c == [set |-> TRUE, buckets |-> CheckedAll(entry.buckets)]
           old == let_through[ip]
           had == lists[ip]
           all == IF entry.set /\ ~per[ip].set THEN Append(had, global) ELSE had
           more == Append(old, [at |-> time, entry |-> Len(all)])
<1>1. /\ per' = IF entry.set /\ (ok \/ per[ip].set) THEN [per EXCEPT ![ip] = c] ELSE per
      /\ lists' = IF entry.set /\ ok /\ ~per[ip].set
                  THEN [lists EXCEPT ![ip] = Append(had, global)] ELSE lists
      /\ let_through' = IF ok /\ entry.buckets # <<>>
                        THEN [let_through EXCEPT ![ip] = Append(old, [at |-> time, entry |-> Len(lists'[ip])])]
                        ELSE let_through
      /\ policy' = policy /\ limiting' = limiting /\ global' = global /\ time' = time
      /\ user' = user /\ commands' = commands
    BY DEF Check
<1>2. /\ old \in Seq(LetThrough) /\ had \in Seq(Seq(Rules)) /\ time \in Nat
      /\ HistoryOK(had, old, time)
    BY FirewallTyped
<1>3. /\ entry \in Entries /\ all \in Seq(Seq(Rules)) /\ BucketsOK(entry, all, old, time)
      /\ HistoryOK(all, old, time) /\ IsLast(entry, all)
      /\ InForce(entry, user[ip], limiting, global)
  <2>1. CASE limiting = "Global" /\ ~per[ip].set
    <3>1. entry = BucketsOf(global, TRUE)
      BY <2>1 DEF EntryFor
    <3>2. per[ip].buckets = <<>> /\ user[ip] = <<>>
      <4>1. per[ip].buckets = <<>>
        BY <2>1, FirewallTyped DEF IsLast
      <4> QED
        BY <4>1, FirewallTyped, NoRulesUnset
    <3>3. PICK g \in Seq(Rules) : g = global
      BY FirewallTyped
    <3>4. TRUE \in BOOLEAN
      OBVIOUS
    <3>5. /\ BucketsOf(g, TRUE) \in Entries /\ BucketsOf(g, TRUE).set
          /\ RulesIn(BucketsOf(g, TRUE)) = g /\ DOMAIN BucketsOf(g, TRUE).buckets = DOMAIN g
          /\ BucketsOK(BucketsOf(g, TRUE), Append(had, g), old, time)
          /\ IsLast(BucketsOf(g, TRUE), Append(had, g))
      BY <1>2, <3>4, NewEntry
    <3>6. \A i \in DOMAIN g : BucketsOf(g, TRUE).buckets[i].is_global = TRUE
      BY <1>2, <3>4, NewEntry
    <3>7. all = Append(had, g)
      BY <2>1, <3>1, <3>3, <3>5
    <3>8. all \in Seq(Seq(Rules)) /\ HistoryOK(all, old, time)
      BY <1>2, <3>7, OneMoreList
    <3> HIDE DEF entry, all
    <3> QED
      BY <2>1, <3>1, <3>2, <3>3, <3>5, <3>6, <3>7, <3>8 DEF InForce
  <2>2. CASE ~(limiting = "Global" /\ ~per[ip].set)
    <3>1. entry = per[ip] /\ all = had
      BY <2>2 DEF EntryFor
    <3> QED
      BY <1>2, <3>1, FirewallTyped
  <2> QED
    BY <2>1, <2>2
<1>4. all = IF entry.set /\ ~per[ip].set THEN Append(had, global) ELSE had
    OBVIOUS
<1>5. had = lists[ip] /\ old = let_through[ip]
    OBVIOUS
<1>6. more = Append(old, [at |-> time, entry |-> Len(all)])
    OBVIOUS
<1> HIDE DEF entry, old, had, all, more
<1>7. ASSUME entry.set
      PROVE  /\ c \in Entries /\ c.set /\ SameShape(c, entry) /\ IsLast(c, all)
             /\ (entry.buckets = <<>> <=> c.buckets = <<>>)
             /\ BucketsOK(c, all, old, time)
             /\ ok => /\ BucketsOK(c, all, more, time) /\ more \in Seq(LetThrough)
                      /\ HistoryOK(all, more, time)
             /\ InForce(c, user[ip], limiting, global)
  <2>1. /\ c \in Entries /\ c.set /\ SameShape(c, entry) /\ IsLast(c, all)
        /\ (entry.buckets = <<>> <=> c.buckets = <<>>)
        /\ BucketsOK(c, all, old, time)
        /\ ok => /\ BucketsOK(c, all, more, time) /\ more \in Seq(LetThrough)
                 /\ HistoryOK(all, more, time)
    <3>1. all # <<>>
      BY <1>3, <1>7 DEF IsLast
    <3>2. PICK n \in Nat, L \in Nat : n = Len(old) /\ L = Len(all)
      BY <1>2, <1>3
    <3>3. more \in Seq(LetThrough) /\ Grows(all, old, more, n, L, time)
      BY <1>2, <1>3, <1>6, <3>1, <3>2, HistoryIs
    <3>4. PICK x : x = c /\ x = [set |-> TRUE, buckets |-> CheckedAll(entry.buckets)]
      OBVIOUS
    <3> HIDE DEF c
    <3>5. /\ x \in Entries /\ x.set /\ SameShape(x, entry) /\ IsLast(x, all)
          /\ (entry.buckets = <<>> <=> x.buckets = <<>>)
          /\ BucketsOK(x, all, old, time)
          /\ AllowsAll(entry.buckets) => BucketsOK(x, all, more, time) /\ HistoryOK(all, more, time)
      BY <1>2, <1>3, <1>7, <3>3, <3>4, CheckKeepsEntry
    <3> QED
      BY <3>3, <3>4, <3>5
  <2> QED
    BY <1>3, <1>7, <2>1, ShapeInForce
<1> HIDE DEF c, ok
<1>8. CASE ~(entry.set /\ (ok \/ per[ip].set))
  <2>1. ~(ok /\ entry.buckets # <<>>)
    BY <1>3, <1>8 DEF IsLast
  <2>2. per' = per /\ lists' = lists /\ let_through' = let_through
    BY <1>1, <1>8, <2>1
  <2>3. FirewallTypeOK'
    BY <1>1, <2>2, FirewallTyped DEF FirewallTypeOK, Entries
  <2> QED
    BY <1>1, <2>2, <2>3, FirewallInvByIp
<1>9. CASE entry.set /\ (ok \/ per[ip].set)
  <2> DEFINE now == IF ok /\ entry.buckets # <<>> THEN more ELSE old
  <2>1. per'[ip] = c /\ per' \in [Ips -> Entries] /\ \A x \in Ips \ {ip} : per'[x] = per[x]
    BY <1>1, <1>7, <1>9, FirewallTyped
  <2>2. /\ lists'[ip] = all /\ lists' \in [Ips -> Seq(Seq(Rules))]
        /\ \A x \in Ips \ {ip} : lists'[x] = lists[x]
    BY <1>1, <1>3, <1>4, <1>5, <1>9, FirewallTyped
  <2>3. /\ let_through'[ip] = now /\ let_through' \in [Ips -> Seq(LetThrough)]
        /\ \A x \in Ips \ {ip} : let_through'[x] = let_through[x]
    BY <1>1, <1>2, <1>5, <1>6, <1>7, <1>9, <2>2, FirewallTyped
  <2>4. BucketsOK(c, all, now, time) /\ HistoryOK(all, now, time)
    BY <1>3, <1>7, <1>9
  <2> HIDE DEF now
  <2>5. EntryOK(per'[ip], user[ip], lists'[ip], let_through'[ip], limiting, global, time)
    BY <1>7, <1>9, <2>1, <2>2, <2>3, <2>4 DEF EntryOK
  <2>6. FirewallTypeOK'
    BY <1>1, <2>1, <2>2, <2>3, FirewallTyped DEF FirewallTypeOK, Entries
  <2>7. \A x \in Ips :
           EntryOK(per'[x], user'[x], lists'[x], let_through'[x], limiting', global', time')
    BY <1>1, <2>1, <2>2, <2>3, <2>5, FirewallInvByIp
  <2> QED
    BY <2>6, <2>7, FirewallInvByIp
<1> QED
    BY <1>8, <1>9

LEMMA SetPolicyForIpKeeps ==
    ASSUME FirewallInv, NEW ip \in Ips, NEW rules \in RuleLists, SetPolicyForIp(ip, rules)
    PROVE  FirewallInv'
<1> DEFINE e == BucketsOf(rules, FALSE)
           all == Append(lists[ip], rules)
<1>1. /\ per' = [per EXCEPT ![ip] = e] /\ user' = [user EXCEPT ![ip] = rules]
      /\ lists' = [lists EXCEPT ![ip] = all] /\ let_through' = let_through /\ commands' = commands + 1
      /\ policy' = policy /\ limiting' = limiting /\ global' = global /\ time' = time
      /\ limiting # "None"
    BY DEF SetPolicyForIp, Command
<1>2. rules \in Seq(Rules)
    BY FirewallAssumption
<1>3. /\ e \in Entries /\ e.set /\ RulesIn(e) = rules /\ DOMAIN e.buckets = DOMAIN rules
      /\ \A i \in DOMAIN rules : e.buckets[i].is_global = FALSE
      /\ BucketsOK(e, all, let_through[ip], time) /\ IsLast(e, all)
    BY <1>2, FirewallTyped, NewEntry
<1>4. all \in Seq(Seq(Rules)) /\ HistoryOK(all, let_through[ip], time)
    BY <1>2, FirewallTyped, OneMoreList
<1> HIDE DEF e, all
<1>5. FirewallTypeOK'
  <2>1. /\ per' \in [Ips -> Entries] /\ user' \in [Ips -> Seq(Rules)] /\ commands' \in Nat
        /\ lists' \in [Ips -> Seq(Seq(Rules))]
    BY <1>1, <1>2, <1>3, <1>4, FirewallTyped
  <2> QED
    BY <1>1, <2>1, FirewallTyped DEF FirewallTypeOK, Entries
<1>6. EntryOK(e, rules, all, let_through[ip], limiting, global, time)
    BY <1>1, <1>3, <1>4 DEF EntryOK, InForce
<1>7. /\ per'[ip] = e /\ user'[ip] = rules /\ lists'[ip] = all
      /\ \A x \in Ips \ {ip} : per'[x] = per[x] /\ user'[x] = user[x] /\ lists'[x] = lists[x]
    BY <1>1, FirewallTyped
<1>8. \A x \in Ips :
         EntryOK(per'[x], user'[x], lists'[x], let_through'[x], limiting', global', time')
    BY <1>1, <1>6, <1>7, FirewallInvByIp
<1> QED
    BY <1>5, <1>8, FirewallInvByIp

\* Entries that are kept or dropped while the operator's own stay in force.
LEMMA RetainKeeps ==
    ASSUME FirewallInv, NEW lim \in {"None", "Per", "Global"}, NEW glob \in Seq(Rules),
           NEW u \in [Ips -> Seq(Rules)], NEW staying \in SUBSET Ips,
           per' = [ip \in Ips |-> IF ip \in staying THEN per[ip] ELSE NoEntry],
           lists' = lists, let_through' = let_through,
           policy' = policy, limiting' = lim, global' = glob, time' = time, user' = u,
           commands' = commands + 1,
           \A ip \in staying : InForce(per[ip], u[ip], lim, glob),
           \A ip \in Ips \ staying : u[ip] = <<>>
    PROVE  FirewallInv'
<1>1. per' \in [Ips -> Entries]
    BY NoEntryIs, FirewallTyped
<1>3. FirewallTypeOK'
  <2>1. /\ policy' \in [mode : {"All", "Whitelist", "Blacklist"}, members : SUBSET Ips]
        /\ time' \in Nat /\ commands' \in Nat
        /\ lists' \in [Ips -> Seq(Seq(Rules))] /\ let_through' \in [Ips -> Seq(LetThrough)]
    BY FirewallTyped
  <2>2. /\ limiting' \in {"None", "Per", "Global"} /\ global' \in Seq(Rules)
        /\ user' \in [Ips -> Seq(Rules)]
    OBVIOUS
  <2> QED
    BY <1>1, <2>1, <2>2 DEF FirewallTypeOK, Entries
<1>4. ASSUME NEW ip \in staying
      PROVE  EntryOK(per'[ip], u[ip], lists[ip], let_through[ip], lim, glob, time)
  <2>1. per'[ip] = per[ip]
    BY <1>4
  <2> QED
    BY <2>1, FirewallTyped DEF EntryOK
<1>5. ASSUME NEW ip \in Ips \ staying
      PROVE  EntryOK(per'[ip], u[ip], lists[ip], let_through[ip], lim, glob, time)
  <2>1. per'[ip] = NoEntry /\ u[ip] = <<>>
    BY <1>5
  <2>2. HistoryOK(lists[ip], let_through[ip], time)
    BY FirewallTyped
  <2>3. EntryOK(NoEntry, <<>>, lists[ip], let_through[ip], lim, glob, time)
    BY <2>2, NoEntryIs DEF EntryOK, IsLast, BucketsOK, InForce
  <2> QED
    BY <2>1, <2>3
<1>6. \A ip \in Ips :
         EntryOK(per'[ip], user'[ip], lists'[ip], let_through'[ip], limiting', global', time')
    BY <1>4, <1>5
<1> QED
    BY <1>3, <1>6, FirewallInvByIp

\* The entries that are not of the global rules are those of the operator.
LEMMA UserEntriesAre ==
    ASSUME FirewallInv, NEW ip \in Ips
    PROVE  /\ ip \notin UserEntries => user[ip] = <<>>
           /\ ip \in UserEntries =>
                /\ per[ip].set
                /\ \A lim \in {"Per", "Global"} : \A glob : InForce(per[ip], user[ip], lim, glob)
<1> DEFINE e == per[ip]
<1>1. e \in Entries /\ user[ip] \in Seq(Rules) /\ InForce(e, user[ip], limiting, global)
    BY FirewallTyped
<1>2. ~e.set => e.buckets = <<>>
    BY FirewallTyped DEF IsLast
<1>3. ip \in UserEntries <=> e.buckets # <<>> /\ ~e.buckets[1].is_global
    BY DEF UserEntries
<1> HIDE DEF e
<1>4. e.buckets # <<>> => 1 \in DOMAIN e.buckets
    BY <1>1, EntryFields
<1>5. ASSUME user[ip] # <<>> PROVE ip \in UserEntries
  <2>1. \A i \in DOMAIN e.buckets : ~e.buckets[i].is_global
    BY <1>1, <1>5 DEF InForce
  <2>2. e.buckets # <<>>
    BY <1>1, <1>5, NoRulesUnset
  <2> QED
    BY <1>3, <1>4, <2>1, <2>2
<1>6. ASSUME ip \in UserEntries
      PROVE  e.set /\ \A lim \in {"Per", "Global"} : \A glob : InForce(e, user[ip], lim, glob)
  <2>1. e.set /\ e.buckets # <<>> /\ ~e.buckets[1].is_global /\ 1 \in DOMAIN e.buckets
    BY <1>2, <1>3, <1>4, <1>6
  <2>2. RulesIn(e) = user[ip] /\ \A i \in DOMAIN e.buckets : ~e.buckets[i].is_global
    BY <1>1, <2>1 DEF InForce
  <2> QED
    BY <2>1, <2>2 DEF InForce
<1> QED
    BY <1>5, <1>6 DEF e

LEMMA RetainedAre ==
    ASSUME FirewallInv
    PROVE  /\ Retained(UserEntries) = [ip \in Ips |-> IF ip \in UserEntries THEN per[ip] ELSE NoEntry]
           /\ UserEntries \in SUBSET Ips
<1>1. Retained(UserEntries) = [ip \in Ips |-> IF ip \in UserEntries THEN per[ip] ELSE NoEntry]
    BY DEF Retained
<1> QED
    BY <1>1 DEF UserEntries

LEMMA SetGlobalPolicyKeeps ==
    ASSUME FirewallInv, NEW rules \in RuleLists, SetGlobalPolicy(rules)
    PROVE  FirewallInv'
<1>1. /\ per' = Retained(UserEntries) /\ lists' = lists /\ let_through' = let_through
      /\ policy' = policy /\ limiting' = "Global" /\ global' = rules /\ time' = time /\ user' = user
      /\ commands' = commands + 1
    BY DEF SetGlobalPolicy, Command
<1>2. /\ per' = [ip \in Ips |-> IF ip \in UserEntries THEN per[ip] ELSE NoEntry]
      /\ UserEntries \in SUBSET Ips
    BY <1>1, RetainedAre
<1>3. /\ \A ip \in UserEntries : InForce(per[ip], user[ip], "Global", rules)
      /\ \A ip \in Ips \ UserEntries : user[ip] = <<>>
    BY <1>2, UserEntriesAre
<1>4. rules \in Seq(Rules) /\ user \in [Ips -> Seq(Rules)]
    BY FirewallAssumption, FirewallTyped
<1> QED
    BY <1>1, <1>2, <1>3, <1>4, RetainKeeps

LEMMA ChangeTypeKeeps ==
    ASSUME FirewallInv, NEW to \in {"None", "Per", "Global"}, ChangeRateLimitingPolicyType(to)
    PROVE  FirewallInv'
<1> DEFINE u == IF to = "None" THEN [ip \in Ips |-> <<>>] ELSE user
           glob == IF to = limiting THEN global ELSE <<>>
<1>1. /\ per' = Migrated(to) /\ lists' = lists /\ let_through' = let_through
      /\ policy' = policy /\ limiting' = to /\ global' = glob /\ time' = time /\ user' = u
      /\ commands' = commands + 1
    BY DEF ChangeRateLimitingPolicyType, Command
<1>2. glob \in Seq(Rules) /\ u \in [Ips -> Seq(Rules)]
  <2>1. <<>> \in Seq(Rules)
    OBVIOUS
  <2> QED
    BY <2>1, FirewallTyped
<1>4. CASE to = "None" \/ limiting = "None"
  <2>1. per' = [ip \in Ips |-> IF ip \in {} THEN per[ip] ELSE NoEntry]
    BY <1>1, <1>4 DEF Migrated
  <2>2. \A ip \in Ips : u[ip] = <<>>
    <3>1. CASE to = "None"
      BY <3>1
    <3>2. CASE to # "None"
      BY <1>4, <3>2, FirewallTyped DEF InForce
    <3> QED
      BY <3>1, <3>2
  <2> HIDE DEF u, glob
  <2>3. {} \in SUBSET Ips /\ \A ip \in {} : InForce(per[ip], u[ip], to, glob)
    OBVIOUS
  <2> QED
    BY <1>1, <1>2, <2>1, <2>2, <2>3, RetainKeeps
<1>5. CASE ~(to = "None" \/ limiting = "None") /\ to = "Per" /\ limiting = "Global"
  <2>1. per' = [ip \in Ips |-> IF ip \in UserEntries THEN per[ip] ELSE NoEntry]
    BY <1>1, <1>5, RetainedAre DEF Migrated
  <2>2. u = user
    BY <1>5
  <2>3. /\ \A ip \in UserEntries : InForce(per[ip], u[ip], to, glob)
        /\ \A ip \in Ips \ UserEntries : u[ip] = <<>>
    BY <1>5, <2>2, RetainedAre, UserEntriesAre
  <2> HIDE DEF u, glob
  <2> QED
    BY <1>1, <1>2, <2>1, <2>3, RetainedAre, RetainKeeps
<1>6. CASE ~(to = "None" \/ limiting = "None") /\ ~(to = "Per" /\ limiting = "Global")
  <2>1. per' = per
    BY <1>1, <1>6 DEF Migrated
  <2>2. per' = [ip \in Ips |-> IF ip \in Ips THEN per[ip] ELSE NoEntry]
    BY <2>1, FirewallTyped
  <2>3. u = user
    BY <1>6
  <2>4. \A ip \in Ips : InForce(per[ip], u[ip], to, glob)
    <3>1. TAKE ip \in Ips
    <3>2. InForce(per[ip], user[ip], limiting, global) /\ limiting \in {"Per", "Global"}
      BY <1>6, FirewallTyped
    <3>3. CASE to = limiting
      BY <2>3, <3>2, <3>3
    <3>4. CASE to # limiting
      <4>1. limiting = "Per" /\ to = "Global"
        BY <1>6, <3>2, <3>4
      <4> QED
        BY <2>3, <3>2, <4>1 DEF InForce
    <3> QED
      BY <3>3, <3>4
  <2> HIDE DEF u, glob
  <2>5. Ips \in SUBSET Ips /\ \A ip \in Ips \ Ips : u[ip] = <<>>
    OBVIOUS
  <2> QED
    BY <1>1, <1>2, <2>2, <2>4, <2>5, RetainKeeps
<1> QED
    BY <1>4, <1>5, <1>6

LEMMA ToggleKeeps ==
    ASSUME FirewallInv, NEW ip \in Ips, Toggle(ip)
    PROVE  FirewallInv'
<1>1. /\ limiting' = limiting /\ global' = global /\ per' = per /\ time' = time /\ user' = user
      /\ lists' = lists /\ let_through' = let_through /\ commands' = commands + 1
      /\ policy' = [policy EXCEPT !.members = IF ip \in policy.members THEN policy.members \ {ip}
                                              ELSE policy.members \cup {ip}]
    BY DEF Toggle, Command
<1>2. FirewallTypeOK'
  <2>1. policy' \in [mode : {"All", "Whitelist", "Blacklist"}, members : SUBSET Ips]
    BY <1>1, FirewallTyped
  <2>2. commands' \in Nat
    BY <1>1, FirewallTyped
  <2> QED
    BY <1>1, <2>1, <2>2, FirewallTyped DEF FirewallTypeOK, Entries
<1> QED
    BY <1>1, <1>2, FirewallInvByIp

LEMMA TimePassesKeeps ==
    ASSUME FirewallInv, TimePasses
    PROVE  FirewallInv'
<1>1. /\ limiting' = limiting /\ global' = global /\ per' = per /\ time' = time + 1 /\ user' = user
      /\ lists' = lists /\ let_through' = let_through /\ commands' = commands /\ policy' = policy
    BY DEF TimePasses
<1>2. FirewallTypeOK'
    BY <1>1, FirewallTyped DEF FirewallTypeOK, Entries
<1>3. \A b \in TokenBuckets : \A all, lets : BucketOK(b, all, lets, time) => BucketOK(b, all, lets, time + 1)
  <2>1. \A b \in TokenBuckets : Holds(b, time) => Holds(b, time + 1)
    BY FirewallTyped, BucketFields DEF Holds
  <2> QED
    BY <2>1 DEF BucketOK
<1>4. ASSUME NEW ip \in Ips PROVE BucketsOK(per[ip], lists[ip], let_through[ip], time + 1)
  <2>1. /\ BucketsOK(per[ip], lists[ip], let_through[ip], time)
        /\ \A i \in DOMAIN per[ip].buckets : per[ip].buckets[i] \in TokenBuckets
    BY FirewallTyped, EntryFields
  <2> QED
    BY <1>3, <2>1 DEF BucketsOK
<1>5. ASSUME NEW ip \in Ips PROVE HistoryOK(lists[ip], let_through[ip], time + 1)
  <2>1. PICK all \in Seq(Seq(Rules)), lets \in Seq(LetThrough) :
           all = lists[ip] /\ lets = let_through[ip] /\ HistoryOK(all, lets, time)
    BY FirewallTyped
  <2>2. Past(all, lets, time) /\ Bounded(all, lets)
    BY <2>1 DEF HistoryOK
  <2>3. \A i \in DOMAIN lets : lets[i].at \in Nat /\ lets[i].at <= time
    BY <2>2, HistoryFields
  <2>4. \A i \in DOMAIN lets : lets[i].at <= time + 1
    BY <2>3, FirewallTyped
  <2>5. Past(all, lets, time + 1)
    BY <2>2, <2>4 DEF Past
  <2> QED
    BY <2>1, <2>2, <2>5 DEF HistoryOK
<1>6. \A ip \in Ips :
         EntryOK(per'[ip], user'[ip], lists'[ip], let_through'[ip], limiting', global', time')
    BY <1>1, <1>4, <1>5, FirewallTyped DEF EntryOK
<1> QED
    BY <1>2, <1>6, FirewallInvByIp

LEMMA FirewallStepKeeps == FirewallInv /\ [FirewallNext]_firewallVars => FirewallInv'
<1> SUFFICES ASSUME FirewallInv, [FirewallNext]_firewallVars PROVE FirewallInv'
    OBVIOUS
<1>1. CASE UNCHANGED firewallVars
  <2>1. /\ limiting' = limiting /\ global' = global /\ per' = per /\ time' = time /\ user' = user
        /\ lists' = lists /\ let_through' = let_through /\ commands' = commands /\ policy' = policy
    BY <1>1 DEF firewallVars
  <2>2. FirewallTypeOK'
    BY <2>1, FirewallTyped DEF FirewallTypeOK, Entries
  <2> QED
    BY <2>1, <2>2, FirewallInvByIp
<1>2. CASE FirewallNext
    BY <1>2, CheckKeeps, ToggleKeeps, SetPolicyForIpKeeps, SetGlobalPolicyKeeps, ChangeTypeKeeps,
       TimePassesKeeps DEF FirewallNext
<1> QED
    BY <1>1, <1>2

\* In any stretch of time in which a rule is in force for an address, its buckets let
\* through no more than the number of the rule for each entry that was made for it then
\* and what refills meanwhile (a rule of none counts as one of one); and the rules an
\* operator sets for an address, unless they are empty, stay in force until they are
\* replaced, for every list of rules and any order of commands and requests.
THEOREM FirewallKeepsToItsRates == FirewallSpec => []FirewallInv
BY FirewallInitInv, FirewallStepKeeps, PTL DEF FirewallSpec

-----------------------------------------------------------------------------
(* The archive.                                                            *)

LEMMA ArchiveBlocks ==
    /\ BlockNumbers = 1 .. Len(BlockTxs) /\ Len(BlockTxs) \in Nat
    /\ \A b \in BlockNumbers :
         /\ BlockTxs[b] \in Seq(Transactions)
         /\ DOMAIN BlockTxs[b] = 1 .. Len(BlockTxs[b]) /\ Len(BlockTxs[b]) \in Nat
         /\ \A i \in DOMAIN BlockTxs[b] : BlockTxs[b][i] \in Transactions
         /\ \A t \in ToSet(BlockTxs[b]) : \E i \in DOMAIN BlockTxs[b] : BlockTxs[b][i] = t
<1>1. BlockTxs \in Seq(Seq(Transactions))
    BY ArchiveAssumption
<1>2. BlockNumbers = 1 .. Len(BlockTxs) /\ Len(BlockTxs) \in Nat
    BY <1>1 DEF BlockNumbers
<1>3. \A b \in BlockNumbers : BlockTxs[b] \in Seq(Transactions)
    BY <1>1, <1>2, ElementOfSeq
<1>4. \A b \in BlockNumbers :
        /\ DOMAIN BlockTxs[b] = 1 .. Len(BlockTxs[b]) /\ Len(BlockTxs[b]) \in Nat
        /\ \A i \in DOMAIN BlockTxs[b] : BlockTxs[b][i] \in Transactions
    BY <1>3, ElementOfSeq
<1>5. \A b \in BlockNumbers : \A t \in ToSet(BlockTxs[b]) :
        \E i \in DOMAIN BlockTxs[b] : BlockTxs[b][i] = t
    BY DEF ToSet
<1> QED
    BY <1>2, <1>3, <1>4, <1>5

\* The puts of a block: the block, its bounds and its hash, then its receipts.
LEMMA PutsInOrder ==
    ASSUME NEW b \in BlockNumbers
    PROVE  /\ Len(PutsOf(b)) = Len(BlockTxs[b]) + 4
           /\ PutsOf(b)[1] = <<"block", 0>> /\ PutsOf(b)[2] = <<"earliest", 0>>
           /\ PutsOf(b)[3] = <<"latest", 0>> /\ PutsOf(b)[4] = <<"hash", 0>>
           /\ \A i \in DOMAIN BlockTxs[b] : PutsOf(b)[i + 4] = <<"receipt", i>>
<1> DEFINE n == Len(BlockTxs[b])
           APut == {"block", "earliest", "latest", "hash", "receipt"} \X Nat
           first == <<<<"block", 0>>, <<"earliest", 0>>, <<"latest", 0>>, <<"hash", 0>>>>
           second == [i \in DOMAIN BlockTxs[b] |-> <<"receipt", i>>]
<1>1. n \in Nat /\ DOMAIN BlockTxs[b] = 1 .. n
    BY ArchiveBlocks
<1>2. first \in Seq(APut) /\ Len(first) = 4
      /\ first[1] = <<"block", 0>> /\ first[2] = <<"earliest", 0>>
      /\ first[3] = <<"latest", 0>> /\ first[4] = <<"hash", 0>>
    OBVIOUS
<1>3. second \in Seq(APut) /\ Len(second) = n /\ \A i \in 1 .. n : second[i] = <<"receipt", i>>
  <2>1. second \in [1 .. n -> APut]
    BY <1>1
  <2> QED
    BY <1>1, <2>1, IsASeq
<1> HIDE DEF first, second, APut, n
<1>4. /\ Len(first \o second) = 4 + n
      /\ \A i \in 1 .. 4 + n : (first \o second)[i] =
            IF i <= 4 THEN first[i] ELSE second[i - 4]
  <2>1. /\ Len(first \o second) = Len(first) + Len(second)
        /\ \A i \in 1 .. Len(first) + Len(second) : (first \o second)[i] =
              IF i <= Len(first) THEN first[i] ELSE second[i - Len(first)]
    BY <1>2, <1>3, ConcatProperties
  <2> QED
    BY <1>1, <1>2, <1>3, <2>1
<1>5. PutsOf(b) = first \o second
    BY DEF PutsOf, first, second
<1> QED
    BY SMTT(20), <1>1, <1>2, <1>3, <1>4, <1>5 DEF n

LEMMA ArchiveInitInv == ArchiveInit => ArchiveInv
<1> SUFFICES ASSUME ArchiveInit PROVE ArchiveInv
    OBVIOUS
<1> USE ArchiveBlocks DEF ArchiveInit
<1>1. ArchiveTypeOK
    BY DEF ArchiveTypeOK, NoReceipt
<1>2. BlocksInOrder
    BY DEF BlocksInOrder
<1>3. StoredSoFar
    BY DEF StoredSoFar
<1>4. NothingDangles
    BY DEF NothingDangles
<1>5. HandledIsWhole
    BY DEF HandledIsWhole
<1> QED
    BY <1>1, <1>2, <1>3, <1>4, <1>5 DEF ArchiveInv

\* A broadcast keeps what it had, except the oldest item when it is full, and the
\* new item is last.
AfterBroadcast(S, ch, size, x, new) ==
    /\ new \in Seq(S)
    /\ ToSet(ch) \subseteq ToSet(new) \cup Overwritten(ch, size)
    /\ x \in ToSet(new)
    /\ \E shift \in {0, 1} :
         \A i \in DOMAIN new :
             \/ i + shift \in DOMAIN ch /\ new[i] = ch[i + shift]
             \/ i = Len(new) /\ new[i] = x

LEMMA BroadcastKeeps ==
    ASSUME NEW S, NEW ch \in Seq(S), NEW size \in Nat \ {0}, NEW x \in S
    PROVE  AfterBroadcast(S, ch, size, x, Broadcasted(ch, size, x))
<1> DEFINE new == Broadcasted(ch, size, x)
<1>1. CASE Len(ch) < size
  <2>1. new = Append(ch, x)
    BY <1>1 DEF Broadcasted
  <2>2. new \in Seq(S) /\ Len(new) = Len(ch) + 1 /\ new[Len(ch) + 1] = x
        /\ \A i \in 1 .. Len(ch) : new[i] = ch[i]
    BY <2>1, AppendProperties
  <2> HIDE DEF new
  <2>3. DOMAIN new = 1 .. Len(ch) + 1 /\ DOMAIN ch = 1 .. Len(ch) /\ Len(ch) \in Nat
    BY <2>2
  <2>4. \A i \in DOMAIN new :
            \/ i + 0 \in DOMAIN ch /\ new[i] = ch[i + 0]
            \/ i = Len(new) /\ new[i] = x
    BY <2>2, <2>3
  <2>5. x \in ToSet(new) /\ ToSet(ch) \subseteq ToSet(new)
    BY <2>2, <2>3 DEF ToSet
  <2> QED
    BY <2>2, <2>4, <2>5 DEF new, AfterBroadcast
<1>2. CASE ~(Len(ch) < size)
  <2>1. new = Append(Tail(ch), x) /\ Overwritten(ch, size) = {Head(ch)}
    BY <1>2 DEF Broadcasted, Overwritten
  <2>2. ch # <<>> /\ Len(ch) \in Nat \ {0}
    BY <1>2, EmptySeq
  <2>3. Tail(ch) \in Seq(S) /\ Len(Tail(ch)) = Len(ch) - 1 /\ Head(ch) = ch[1]
        /\ \A i \in 1 .. Len(ch) - 1 : Tail(ch)[i] = ch[i + 1]
    BY <2>2, HeadTailProperties
  <2>4. new \in Seq(S) /\ Len(new) = Len(ch) /\ new[Len(ch)] = x
        /\ \A i \in 1 .. Len(ch) - 1 : new[i] = ch[i + 1]
    BY <2>1, <2>2, <2>3, AppendProperties
  <2> HIDE DEF new
  <2>5. DOMAIN new = 1 .. Len(ch) /\ DOMAIN ch = 1 .. Len(ch)
    BY <2>4
  <2>6. \A i \in DOMAIN new :
            \/ i + 1 \in DOMAIN ch /\ new[i] = ch[i + 1]
            \/ i = Len(new) /\ new[i] = x
    BY <2>2, <2>4, <2>5
  <2>7. x \in ToSet(new)
    BY <2>2, <2>4, <2>5 DEF ToSet
  <2>8. ASSUME NEW i \in DOMAIN ch PROVE ch[i] \in ToSet(new) \cup {Head(ch)}
    <3>1. CASE i = 1
      BY <3>1, <2>3
    <3>2. CASE i # 1
      <4>1. i - 1 \in DOMAIN new /\ new[i - 1] = ch[i] 
        BY <3>2, <2>2, <2>4, <2>5
      <4> QED
        BY <4>1 DEF ToSet
    <3> QED
      BY <3>1, <3>2
  <2>9. ToSet(ch) \subseteq ToSet(new) \cup {Head(ch)}
    BY <2>8 DEF ToSet
  <2> QED
    BY <2>1, <2>4, <2>6, <2>7, <2>9 DEF new, AfterBroadcast
<1> QED
    BY <1>1, <1>2


LEMMA ExecuteBlockKeeps == ArchiveInv /\ ExecuteBlock => ArchiveInv'
<1> SUFFICES ASSUME ArchiveInv, ExecuteBlock PROVE ArchiveInv'
    OBVIOUS
<1> USE ArchiveBlocks
<1> DEFINE b == last_block + 1
<1>1. /\ b \in BlockNumbers /\ last_block' = b
      /\ block_executed' = Broadcasted(block_executed, BlockChannel, b)
      /\ missed' = missed \cup Overwritten(block_executed, BlockChannel)
      /\ UNCHANGED <<blknum_to_blk, blkhash_to_blknum, txhash_to_txrct, earliest, latest,
                     inserting>>
    BY DEF ExecuteBlock
<1>2. last_block \in Nat /\ b \in Nat /\ b = last_block + 1 /\ last_block \in 0 .. b
      /\ 1 .. last_block \subseteq 1 .. b /\ 0 .. last_block \subseteq 0 .. b
      /\ 1 .. b = (1 .. last_block) \cup {b}
    BY DEF ArchiveInv, ArchiveTypeOK
<1> HIDE DEF b
<1>3. block_executed \in Seq(1 .. b)
    BY <1>2, SeqMonotonic DEF ArchiveInv, ArchiveTypeOK
<1>4. /\ block_executed' \in Seq(1 .. b)
      /\ ToSet(block_executed) \subseteq ToSet(block_executed') \cup Overwritten(block_executed, BlockChannel)
      /\ b \in ToSet(block_executed')
      /\ \E shift \in {0, 1} :
           \A i \in DOMAIN block_executed' :
               \/ i + shift \in DOMAIN block_executed /\ block_executed'[i] = block_executed[i + shift]
               \/ i = Len(block_executed') /\ block_executed'[i] = b
  <2>1. PICK S : S = 1 .. b /\ block_executed \in Seq(S) /\ b \in S /\ BlockChannel \in Nat \ {0}
    BY <1>2, <1>3, ArchiveAssumption
  <2>2. AfterBroadcast(S, block_executed, BlockChannel, b, block_executed')
    BY <1>1, <2>1, BroadcastKeeps
  <2> QED
    BY <2>1, <2>2 DEF AfterBroadcast
<1>5. ArchiveTypeOK'
  <2>1. txhash_to_txrct' \in [Transactions -> [block : 0 .. b, index : Nat]]
    <3>1. [block : 0 .. last_block, index : Nat] \subseteq [block : 0 .. b, index : Nat]
      BY <1>2
    <3>2. txhash_to_txrct \in [Transactions -> [block : 0 .. last_block, index : Nat]]
      BY DEF ArchiveInv, ArchiveTypeOK
    <3> QED
      BY <1>1, <3>1, <3>2
  <2>2. inserting' # NoInsert => 
            inserting' \in [block : 1 .. b, next : 1 .. Len(PutsOf(inserting'.block))]
    BY <1>1, <1>2 DEF ArchiveInv, ArchiveTypeOK
  <2> QED
    BY <1>1, <1>2, <1>4, <2>1, <2>2 DEF ArchiveInv, ArchiveTypeOK
<1>6. StoredUpTo(b)
    BY <1>2 DEF ArchiveInv, ArchiveTypeOK, StoredUpTo
<1>7. inserting.block <= b
    BY <1>2 DEF ArchiveInv, ArchiveTypeOK, NoInsert
<1>8. \A x : StoredUpTo(x)' <=> StoredUpTo(x)
    BY <1>1 DEF StoredUpTo
<1>9. BlocksInOrder'
  <2>1. PICK shift \in {0, 1} :
           \A i \in DOMAIN block_executed' :
               \/ i + shift \in DOMAIN block_executed /\ block_executed'[i] = block_executed[i + shift]
               \/ i = Len(block_executed') /\ block_executed'[i] = b
    BY <1>4
  <2>2. /\ \A i \in DOMAIN block_executed : block_executed[i] \in 1 .. last_block
        /\ DOMAIN block_executed' = 1 .. Len(block_executed') /\ Len(block_executed') \in Nat
        /\ DOMAIN block_executed = 1 .. Len(block_executed) /\ Len(block_executed) \in Nat
    BY <1>4, ElementOfSeq DEF ArchiveInv, ArchiveTypeOK
  <2>3. \A i \in DOMAIN block_executed' :
            StoredUpTo(block_executed'[i]) /\ inserting.block <= block_executed'[i]
    BY <1>6, <1>7, <2>1 DEF ArchiveInv, BlocksInOrder
  <2>4. ASSUME NEW i \in DOMAIN block_executed', NEW j \in DOMAIN block_executed', i <= j
        PROVE  block_executed'[i] <= block_executed'[j]
    <3>1. CASE block_executed'[j] = b
      BY <3>1, <1>2, <2>1, <2>2
    <3>2. CASE block_executed'[j] # b
      <4>1. j + shift \in DOMAIN block_executed /\ block_executed'[j] = block_executed[j + shift]
        BY <3>2, <2>1
      <4>2. i + shift \in DOMAIN block_executed /\ block_executed'[i] = block_executed[i + shift]
        BY <2>1, <2>2, <2>4, <4>1
      <4>3. i + shift <= j + shift
        BY <2>2, <2>4
      <4> QED
        BY <4>1, <4>2, <4>3 DEF ArchiveInv, BlocksInOrder
    <3> QED
      BY <3>1, <3>2
  <2>5. inserting' # NoInsert => StoredUpTo(inserting'.block)
    BY <1>1 DEF ArchiveInv, BlocksInOrder
  <2> QED
    BY <1>1, <2>4, <2>5, <2>3 DEF BlocksInOrder, StoredUpTo
<1>10. StoredSoFar'
    BY <1>1 DEF ArchiveInv, StoredSoFar
<1>11. NothingDangles'
    BY <1>1 DEF ArchiveInv, NothingDangles
<1>12. HandledIsWhole'
    BY <1>1, <1>2, <1>4 DEF ArchiveInv, HandledIsWhole
<1> QED
    BY <1>5, <1>9, <1>10, <1>11, <1>12 DEF ArchiveInv

LEMMA HandleEpochKeeps == ArchiveInv /\ HandleEpoch => ArchiveInv'
<1> SUFFICES ASSUME ArchiveInv, HandleEpoch PROVE ArchiveInv'
    OBVIOUS
<1>1. UNCHANGED <<last_block, block_executed, blknum_to_blk, blkhash_to_blknum,
                  txhash_to_txrct, earliest, latest, inserting, missed>>
    BY DEF HandleEpoch
<1> QED
    BY <1>1 DEF ArchiveInv, ArchiveTypeOK, BlocksInOrder, StoredUpTo, StoredSoFar,
                NothingDangles, HandledIsWhole

LEMMA HandleBlockKeeps == ArchiveInv /\ HandleBlock => ArchiveInv'
<1> SUFFICES ASSUME ArchiveInv, HandleBlock PROVE ArchiveInv'
    OBVIOUS
<1> USE ArchiveBlocks
<1> DEFINE b == Head(block_executed)
<1>1. /\ inserting = NoInsert /\ block_executed # <<>>
      /\ inserting' = [block |-> b, next |-> 1]
      /\ block_executed' = Tail(block_executed)
      /\ UNCHANGED <<last_block, blknum_to_blk, blkhash_to_blknum, txhash_to_txrct, earliest,
                     latest, missed>>
    BY DEF HandleBlock
<1>2. block_executed \in Seq(1 .. last_block) /\ last_block \in 0 .. Len(BlockTxs)
    BY DEF ArchiveInv, ArchiveTypeOK
<1>3. /\ block_executed' \in Seq(1 .. last_block) /\ b = block_executed[1] /\ b \in 1 .. last_block
      /\ DOMAIN block_executed = 1 .. Len(block_executed) /\ Len(block_executed) \in Nat \ {0}
      /\ DOMAIN block_executed' = 1 .. Len(block_executed) - 1
      /\ \A i \in DOMAIN block_executed' : block_executed'[i] = block_executed[i + 1]
    BY <1>1, <1>2, HeadTailProperties, EmptySeq, ElementOfSeq
<1> HIDE DEF b
<1>4. b \in BlockNumbers /\ inserting' # NoInsert /\ inserting'.block = b /\ inserting'.next = 1
    BY <1>1, <1>2, <1>3 DEF NoInsert
<1>5. ArchiveTypeOK'
  <2>1. inserting' \in [block : 1 .. last_block, next : 1 .. Len(PutsOf(b))]
    <3>1. Len(PutsOf(b)) = Len(BlockTxs[b]) + 4 /\ Len(BlockTxs[b]) \in Nat
      BY <1>4, PutsInOrder
    <3>2. 1 \in 1 .. Len(PutsOf(b))
      BY <3>1
    <3> QED
      BY <1>1, <1>3, <3>2
  <2> QED
    BY <1>1, <1>3, <1>4, <2>1 DEF ArchiveInv, ArchiveTypeOK
<1>6. BlocksInOrder'
  <2>1. \A i \in DOMAIN block_executed' : i + 1 \in DOMAIN block_executed
    BY <1>3
  <2>2. 1 \in DOMAIN block_executed /\ \A i \in DOMAIN block_executed : 1 <= i
    BY <1>3
  <2>3. \A i, j \in DOMAIN block_executed' : i <= j => block_executed'[i] <= block_executed'[j]
    <3>1. \A i, j \in DOMAIN block_executed' : i <= j => i + 1 <= j + 1
      BY <1>3
    <3> QED
      BY <1>3, <2>1, <3>1 DEF ArchiveInv, BlocksInOrder
  <2>4. \A i \in DOMAIN block_executed' :
          StoredUpTo(block_executed'[i]) /\ b <= block_executed'[i]
    BY <1>3, <2>1, <2>2 DEF ArchiveInv, BlocksInOrder
  <2>5. StoredUpTo(b)
    BY <1>3, <2>2 DEF ArchiveInv, BlocksInOrder
  <2> QED
    BY <1>1, <1>4, <2>3, <2>4, <2>5 DEF BlocksInOrder, StoredUpTo
<1>7. StoredSoFar'
    BY <1>1, <1>3, <1>4 DEF StoredSoFar
<1>8. NothingDangles'
    BY <1>1 DEF ArchiveInv, NothingDangles
<1>9. ToSet(block_executed) \subseteq ToSet(block_executed') \cup {b}
  <2>1. ASSUME NEW i \in DOMAIN block_executed
        PROVE  block_executed[i] \in ToSet(block_executed') \cup {b}
    <3>1. CASE i = 1
      BY <3>1, <1>3
    <3>2. CASE i # 1
      <4>1. i - 1 \in DOMAIN block_executed' /\ block_executed'[i - 1] = block_executed[i]
        BY <3>2, <1>3
      <4> QED
        BY <4>1 DEF ToSet
    <3> QED
      BY <3>1, <3>2
  <2> QED
    BY <2>1 DEF ToSet
<1>10. HandledIsWhole'
  <2>1. \A x \in 1 .. last_block : x # inserting.block
    BY <1>1 DEF NoInsert
  <2> QED
    BY <1>1, <1>4, <1>9, <2>1 DEF ArchiveInv, HandledIsWhole
<1> QED
    BY <1>5, <1>6, <1>7, <1>8, <1>10 DEF ArchiveInv

LEMMA StopArchiveKeeps == ArchiveInv /\ StopArchive => ArchiveInv'
<1> SUFFICES ASSUME ArchiveInv, StopArchive PROVE ArchiveInv'
    OBVIOUS
<1> USE ArchiveBlocks
<1>1. /\ missed' = missed \cup ToSet(block_executed) \cup ({inserting.block} \ {0})
      /\ block_executed' = <<>> /\ inserting' = NoInsert
      /\ UNCHANGED <<last_block, blknum_to_blk, blkhash_to_blknum, txhash_to_txrct, earliest,
                     latest>>
    BY DEF StopArchive
<1>2. ArchiveTypeOK'
    BY <1>1 DEF ArchiveInv, ArchiveTypeOK
<1>3. BlocksInOrder' /\ StoredSoFar'
    BY <1>1 DEF BlocksInOrder, StoredSoFar
<1>4. NothingDangles'
    BY <1>1 DEF ArchiveInv, NothingDangles
<1>5. HandledIsWhole'
  <2>1. \A x \in 1 .. last_block : x # 0
    BY DEF ArchiveInv, ArchiveTypeOK
  <2> QED
    BY <1>1, <2>1 DEF ArchiveInv, HandledIsWhole
<1> QED
    BY <1>2, <1>3, <1>4, <1>5 DEF ArchiveInv

LEMMA PutFailsKeeps == ArchiveInv /\ PutFails => ArchiveInv'
<1> SUFFICES ASSUME ArchiveInv, PutFails PROVE ArchiveInv'
    OBVIOUS
<1> USE ArchiveBlocks
<1>1. /\ inserting # NoInsert /\ missed' = missed \cup {inserting.block} /\ inserting' = NoInsert
      /\ UNCHANGED <<last_block, block_executed, blknum_to_blk, blkhash_to_blknum, txhash_to_txrct,
                     earliest, latest>>
    BY DEF PutFails
<1>2. ArchiveTypeOK'
    BY <1>1 DEF ArchiveInv, ArchiveTypeOK
<1>3. \A x \in 1 .. last_block : 0 <= x /\ x # 0
    BY DEF ArchiveInv, ArchiveTypeOK
<1>4. BlocksInOrder'
  <2>1. \A i \in DOMAIN block_executed : block_executed[i] \in 1 .. last_block
    BY DEF ArchiveInv, ArchiveTypeOK
  <2> QED
    BY <1>1, <1>3, <2>1 DEF ArchiveInv, BlocksInOrder, StoredUpTo, NoInsert
<1>5. StoredSoFar'
    BY <1>1 DEF StoredSoFar
<1>6. NothingDangles'
    BY <1>1 DEF ArchiveInv, NothingDangles
<1>7. HandledIsWhole'
    BY <1>1, <1>3 DEF ArchiveInv, HandledIsWhole, NoInsert
<1> QED
    BY <1>2, <1>4, <1>5, <1>6, <1>7 DEF ArchiveInv

\* One put: the five kinds of puts come in the order that NothingDangles needs.
LEMMA PutNextKeeps == ArchiveInv /\ PutNext => ArchiveInv'
<1> SUFFICES ASSUME ArchiveInv, PutNext PROVE ArchiveInv'
    OBVIOUS
<1> USE ArchiveBlocks
<1> DEFINE b == inserting.block
           next == inserting.next
           put == PutsOf(b)[next]
           n == Len(BlockTxs[b])
<1>1. /\ inserting # NoInsert
      /\ blknum_to_blk' = blknum_to_blk \cup {x \in {b} : put[1] = "block"}
      /\ blkhash_to_blknum' = blkhash_to_blknum \cup {x \in {b} : put[1] = "hash"}
      /\ earliest' = IF put[1] = "earliest" THEN EarliestAfter(b) ELSE earliest
      /\ latest' = IF put[1] = "latest" THEN b ELSE latest
      /\ txhash_to_txrct' =
            IF put[1] = "receipt"
            THEN [txhash_to_txrct EXCEPT ![BlockTxs[b][put[2]]] = [block |-> b, index |-> put[2]]]
            ELSE txhash_to_txrct
      /\ inserting' = IF next = Len(PutsOf(b)) THEN NoInsert
                       ELSE [inserting EXCEPT !.next = next + 1]
      /\ UNCHANGED <<last_block, block_executed, missed>>
    BY DEF PutNext
<1>2. /\ inserting \in [block : 1 .. last_block, next : 1 .. Len(PutsOf(b))]
      /\ last_block \in 0 .. Len(BlockTxs)
    BY <1>1 DEF ArchiveInv, ArchiveTypeOK
<1>3. /\ b \in BlockNumbers /\ b \in 1 .. last_block /\ n \in Nat
      /\ Len(PutsOf(b)) = n + 4 /\ next \in 1 .. n + 4 /\ DOMAIN BlockTxs[b] = 1 .. n
    BY <1>2, PutsInOrder
<1>4. /\ next = 1 => put = <<"block", 0>>
      /\ next = 2 => put = <<"earliest", 0>>
      /\ next = 3 => put = <<"latest", 0>>
      /\ next = 4 => put = <<"hash", 0>>
      /\ next > 4 => next - 4 \in DOMAIN BlockTxs[b] /\ put = <<"receipt", next - 4>>
  <2>1. /\ PutsOf(b)[1] = <<"block", 0>> /\ PutsOf(b)[2] = <<"earliest", 0>>
        /\ PutsOf(b)[3] = <<"latest", 0>> /\ PutsOf(b)[4] = <<"hash", 0>>
        /\ \A i \in 1 .. n : PutsOf(b)[i + 4] = <<"receipt", i>>
    BY <1>3, PutsInOrder
  <2>2. next > 4 => next - 4 \in 1 .. n /\ (next - 4) + 4 = next
    BY <1>3
  <2> HIDE DEF next, n, b
  <2>3. next > 4 => put = <<"receipt", next - 4>>
    BY <2>1, <2>2
  <2> QED
    BY <1>3, <2>1, <2>2, <2>3
<1>5. /\ StoredUpTo(b)
      /\ next > 1 => b \in blknum_to_blk
      /\ next > 2 => earliest # 0
      /\ next > 3 => latest = b
      /\ next > 4 => b \in blkhash_to_blknum
      /\ \A i \in DOMAIN BlockTxs[b] : next > i + 4 => txhash_to_txrct[BlockTxs[b][i]].block = b
    BY <1>1 DEF ArchiveInv, BlocksInOrder, StoredSoFar
<1>6. /\ blknum_to_blk \subseteq 1 .. last_block /\ blkhash_to_blknum \subseteq 1 .. last_block
      /\ earliest \in 0 .. last_block /\ latest \in 0 .. last_block
      /\ txhash_to_txrct \in [Transactions -> [block : 0 .. last_block, index : Nat]]
    BY DEF ArchiveInv, ArchiveTypeOK
<1>7. earliest \in 0 .. b /\ latest \in 0 .. b
    BY <1>3, <1>5, <1>6 DEF StoredUpTo
<1> HIDE DEF put
<1>8. /\ blknum_to_blk' = IF next = 1 THEN blknum_to_blk \cup {b} ELSE blknum_to_blk
      /\ blkhash_to_blknum' = IF next = 4 THEN blkhash_to_blknum \cup {b} ELSE blkhash_to_blknum
      /\ earliest' = IF next = 2 /\ earliest = 0 THEN b ELSE earliest
      /\ latest' = IF next = 3 THEN b ELSE latest
      /\ txhash_to_txrct' =
            IF next > 4
            THEN [txhash_to_txrct EXCEPT ![BlockTxs[b][next - 4]] = [block |-> b, index |-> next - 4]]
            ELSE txhash_to_txrct
  <2> HIDE DEF b, next, n
  <2>1. next \in {1, 2, 3, 4} \/ next > 4
    BY <1>3
  <2>2. /\ put[1] = "block" <=> next = 1
        /\ put[1] = "earliest" <=> next = 2
        /\ put[1] = "latest" <=> next = 3
        /\ put[1] = "hash" <=> next = 4
        /\ put[1] = "receipt" <=> next > 4
        /\ next > 4 => put[2] = next - 4
    BY <1>3, <1>4, <2>1
  <2>3. EarliestAfter(b) = IF earliest = 0 THEN b ELSE earliest
    BY DEF EarliestAfter
  <2>4. earliest' = IF next = 2 /\ earliest = 0 THEN b ELSE earliest
    BY <1>1, <2>2, <2>3
  <2> QED
    BY <1>1, <2>2, <2>4
<1>9. /\ txhash_to_txrct' \in [Transactions -> [block : 0 .. last_block, index : Nat]]
      /\ \A t \in Transactions :
            \/ txhash_to_txrct'[t] = txhash_to_txrct[t]
            \/ /\ next > 4 /\ t = BlockTxs[b][next - 4]
               /\ txhash_to_txrct'[t] = [block |-> b, index |-> next - 4]
      /\ next > 4 => txhash_to_txrct'[BlockTxs[b][next - 4]].block = b
  <2>1. CASE next > 4
    <3>1. BlockTxs[b][next - 4] \in Transactions
          /\ [block |-> b, index |-> next - 4] \in [block : 0 .. last_block, index : Nat]
      BY <2>1, <1>3, <1>4
    <3> QED
      BY <2>1, <3>1, <1>6, <1>8
  <2>2. CASE ~(next > 4)
    BY <2>2, <1>6, <1>8
  <2> QED
    BY <2>1, <2>2
<1>10. \/ inserting' = NoInsert /\ inserting'.block = 0 /\ next = n + 4
       \/ /\ inserting' # NoInsert /\ inserting'.block = b /\ inserting'.next = next + 1
          /\ inserting' \in [block : 1 .. last_block, next : 1 .. Len(PutsOf(b))]
          /\ next < n + 4
    BY <1>1, <1>2, <1>3 DEF NoInsert
<1> HIDE DEF b, next, n
<1>11. ArchiveTypeOK'
  <2>1. earliest' \in 0 .. last_block /\ latest' \in 0 .. last_block
    BY <1>3, <1>6, <1>8
  <2>2. blknum_to_blk' \cup blkhash_to_blknum' \subseteq 1 .. last_block
    BY <1>3, <1>6, <1>8
  <2> QED
    BY <1>1, <1>9, <1>10, <2>1, <2>2 DEF ArchiveInv, ArchiveTypeOK
<1> DEFINE Later(x) == /\ \A y \in blknum_to_blk' \cup {earliest', latest'} : y <= x
                        /\ \A t \in Transactions : txhash_to_txrct'[t].block <= x
<1>12. \A x \in Nat : b <= x /\ StoredUpTo(x) => Later(x)
  <2> SUFFICES ASSUME NEW x \in Nat, b <= x, StoredUpTo(x) PROVE Later(x)
    OBVIOUS
  <2>1. \A y \in blknum_to_blk' \cup {earliest', latest'} : y <= x
    BY <1>8 DEF StoredUpTo
  <2>2. \A t \in Transactions : txhash_to_txrct'[t].block <= x
    BY <1>9 DEF StoredUpTo
  <2> QED
    BY <2>1, <2>2
<1>13. BlocksInOrder'
  <2> HIDE DEF Later
  <2>1. Later(b)
    BY <1>3, <1>5, <1>12
  <2>2. \A i \in DOMAIN block_executed : block_executed[i] \in Nat
    BY ElementOfSeq DEF ArchiveInv, ArchiveTypeOK
  <2>3. \A i \in DOMAIN block_executed :
          b <= block_executed[i] /\ StoredUpTo(block_executed[i])
    BY DEF ArchiveInv, BlocksInOrder, b
  <2>4. \A i \in DOMAIN block_executed : Later(block_executed[i])
    BY <1>12, <2>2, <2>3
  <2>5. \A i \in DOMAIN block_executed : inserting'.block <= block_executed[i]
    <3>1. \A i \in DOMAIN block_executed : 0 <= block_executed[i]
      BY <2>2
    <3> QED
      BY <1>10, <2>3, <3>1
  <2>6. inserting' # NoInsert => Later(inserting'.block)
    BY <1>10, <2>1
  <2>7. \A i, j \in DOMAIN block_executed : i <= j => block_executed[i] <= block_executed[j]
    BY DEF ArchiveInv, BlocksInOrder
  <2>8. block_executed' = block_executed
    BY <1>1
  <2> QED
    BY <2>4, <2>5, <2>6, <2>7, <2>8 DEF BlocksInOrder, StoredUpTo, Later
<1>14. StoredSoFar'
  <2> SUFFICES ASSUME inserting' # NoInsert PROVE StoredSoFar'
    BY DEF StoredSoFar
  <2>1. inserting'.block = b /\ inserting'.next = next + 1
    BY <1>10
  <2>2. /\ next + 1 > 1 => b \in blknum_to_blk'
        /\ next + 1 > 2 => earliest' # 0
        /\ next + 1 > 3 => latest' = b
        /\ next + 1 > 4 => b \in blkhash_to_blknum'
    BY <1>3, <1>5, <1>8
  <2>3. ASSUME NEW i \in DOMAIN BlockTxs[b], next + 1 > i + 4
        PROVE  txhash_to_txrct'[BlockTxs[b][i]].block = b
    <3>1. BlockTxs[b][i] \in Transactions
      BY <1>3
    <3>2. next > i + 4 \/ i = next - 4
      BY <1>3, <2>3
    <3>3. CASE i = next - 4
      BY <1>3, <1>9, <2>3, <3>3
    <3>4. CASE next > i + 4
      <4>1. txhash_to_txrct[BlockTxs[b][i]].block = b
        BY <1>5, <3>4
      <4> QED
        BY <1>9, <3>1, <4>1
    <3> QED
      BY <3>2, <3>3, <3>4
  <2> QED
    BY <2>1, <2>2, <2>3 DEF StoredSoFar
<1>15. NothingDangles'
  <2>1. {earliest', latest'} \ {0} \subseteq blknum_to_blk'
    BY <1>3, <1>5, <1>8 DEF ArchiveInv, NothingDangles
  <2>2. blkhash_to_blknum' \subseteq blknum_to_blk'
    BY <1>3, <1>5, <1>8 DEF ArchiveInv, NothingDangles
  <2>3. ASSUME NEW t \in Transactions, txhash_to_txrct'[t] # NoReceipt
        PROVE  LET r == txhash_to_txrct'[t]
               IN  /\ r.block \in blkhash_to_blknum' /\ r.index \in DOMAIN BlockTxs[r.block]
                   /\ BlockTxs[r.block][r.index] = t
    <3>1. CASE txhash_to_txrct'[t] = txhash_to_txrct[t]
      BY <3>1, <2>3, <1>8 DEF ArchiveInv, NothingDangles
    <3>2. CASE txhash_to_txrct'[t] # txhash_to_txrct[t]
      BY <3>2, <1>4, <1>5, <1>8, <1>9
    <3> QED
      BY <3>1, <3>2
  <2> QED
    BY <2>1, <2>2, <2>3 DEF NothingDangles
<1>16. HandledIsWhole'
  <2> SUFFICES ASSUME NEW c \in (1 .. last_block) \ (missed \cup ToSet(block_executed)
                                                       \cup {inserting'.block})
               PROVE  /\ c \in blknum_to_blk' \cap blkhash_to_blknum'
                      /\ earliest' \in 1 .. c /\ c <= latest'
                      /\ \A t \in ToSet(BlockTxs[c]) : txhash_to_txrct'[t].block >= c
    BY <1>1 DEF HandledIsWhole
  <2>1. CASE c = b
    <3>1. next = n + 4
      BY <2>1, <1>10
    <3>2. b \in blknum_to_blk' /\ b \in blkhash_to_blknum' /\ earliest' \in 1 .. b /\ latest' = b
      BY <3>1, <1>3, <1>5, <1>7, <1>8
    <3>3. ASSUME NEW t \in ToSet(BlockTxs[b]) PROVE txhash_to_txrct'[t].block = b
      <4>1. PICK i \in DOMAIN BlockTxs[b] : BlockTxs[b][i] = t
        BY <1>3
      <4>2. t \in Transactions /\ (next > i + 4 \/ i = next - 4)
        BY <1>3, <3>1, <4>1
      <4>3. CASE i = next - 4
        BY <1>3, <1>9, <4>1, <4>3
      <4>4. CASE next > i + 4
        <5>1. txhash_to_txrct[t].block = b
          BY <1>5, <4>1, <4>4
        <5> QED
          BY <1>9, <4>2, <5>1
      <4> QED
        BY <4>2, <4>3, <4>4
    <3> QED
      BY <2>1, <3>2, <3>3, <1>3
  <2>2. CASE c # b
    <3>1. /\ c \in blknum_to_blk \cap blkhash_to_blknum
          /\ earliest \in 1 .. c /\ c <= latest
          /\ \A t \in ToSet(BlockTxs[c]) : txhash_to_txrct[t].block >= c
      BY <2>2 DEF ArchiveInv, HandledIsWhole, b
    <3>2. c <= b /\ c \in BlockNumbers
      BY <1>2, <1>3, <1>7, <3>1
    <3>3. earliest' \in 1 .. c /\ c <= latest'
      BY <1>8, <3>1, <3>2
    <3>4. ASSUME NEW t \in ToSet(BlockTxs[c]) PROVE t \in Transactions
      <4>1. PICK i \in DOMAIN BlockTxs[c] : BlockTxs[c][i] = t
        BY <3>2
      <4> QED
        BY <3>2, <4>1
    <3> QED
      BY <1>8, <1>9, <3>1, <3>2, <3>3, <3>4
  <2> QED
    BY <2>1, <2>2
<1> QED
    BY <1>11, <1>13, <1>14, <1>15, <1>16 DEF ArchiveInv

LEMMA ArchiveStepKeeps == ArchiveInv /\ [ArchiveNext]_archiveVars => ArchiveInv'
<1> SUFFICES ASSUME ArchiveInv, [ArchiveNext]_archiveVars PROVE ArchiveInv'
    OBVIOUS
<1>1. CASE UNCHANGED archiveVars
    BY <1>1 DEF archiveVars, ArchiveInv, ArchiveTypeOK, BlocksInOrder, StoredUpTo, StoredSoFar,
                NothingDangles, HandledIsWhole
<1> QED
    BY <1>1, ExecuteBlockKeeps, HandleEpochKeeps, HandleBlockKeeps, PutNextKeeps,
       PutFailsKeeps, StopArchiveKeeps DEF ArchiveNext

\* What a query of the archive finds leads to a stored block, and a block that was handled
\* is whole unless a put of it failed, whichever blocks the archive missed and whichever
\* put it stopped at.
THEOREM ArchiveFindsWholeBlocks == ArchiveSpec => []ArchiveInv
BY ArchiveInitInv, ArchiveStepKeeps, PTL DEF ArchiveSpec

-----------------------------------------------------------------------------
(* The resolver.                                                           *)

StoringType ==
    {NotStoring} \cup [step : {"read", "put_b3", "put_uri"}, record : Records,
                       entry : Seq(OriginPointers)]

LEMMA PutsAre == Puts[1] = "put_b3" /\ Puts[2] = "put_uri" /\ ToSet(Puts) = {"put_b3", "put_uri"}
<1>1. Puts = <<"put_b3", "put_uri">> /\ DOMAIN Puts = {1, 2}
    BY DEF Puts
<1> QED
    BY <1>1 DEF ToSet

LEMMA StoringStates ==
    ASSUME ResolverTypeOK
    PROVE  /\ storing \in [Writers -> StoringType]
           /\ \A w \in Writers :
                Busy(w) => /\ storing[w].step \in {"read", "put_b3", "put_uri"}
                           /\ storing[w].record \in Records
                           /\ storing[w].record.hash \in ContentHashes
                           /\ storing[w].record.pointer \in OriginPointers
                           /\ storing[w].entry \in Seq(OriginPointers)
<1>1. storing \in [Writers -> StoringType]
  <2>1. {"read"} \cup ToSet(Puts) = {"read", "put_b3", "put_uri"}
    BY PutsAre
  <2> QED
    BY <2>1 DEF ResolverTypeOK, StoringType
<1> QED
    BY <1>1 DEF StoringType, Busy, NotStoring, Records

\* A pointer is pushed once, and what was listed stays.
LEMMA PushedKeeps ==
    ASSUME NEW uris \in Seq(OriginPointers), NEW p \in OriginPointers, IsInjective(uris)
    PROVE  /\ Pushed(uris, p) \in Seq(OriginPointers) /\ IsInjective(Pushed(uris, p))
           /\ Contains(Pushed(uris, p), p) /\ ToSet(uris) \subseteq ToSet(Pushed(uris, p))
<1>1. CASE Contains(uris, p)
    BY <1>1 DEF Pushed
<1>2. CASE ~Contains(uris, p)
  <2> DEFINE new == Append(uris, p)
  <2>1. /\ new \in Seq(OriginPointers) /\ Len(new) = Len(uris) + 1 /\ new[Len(uris) + 1] = p
        /\ \A i \in 1 .. Len(uris) : new[i] = uris[i]
    BY AppendProperties
  <2> HIDE DEF new
  <2>2. /\ DOMAIN new = 1 .. Len(uris) + 1 /\ DOMAIN uris = 1 .. Len(uris) /\ Len(uris) \in Nat
    BY <2>1
  <2>3. \A i \in 1 .. Len(uris) : uris[i] # p
    BY <1>2 DEF Contains
  <2>4. IsInjective(new)
    BY <2>1, <2>2, <2>3 DEF IsInjective
  <2>5. Contains(new, p)
    BY <2>1, <2>2 DEF Contains
  <2>6. ToSet(uris) \subseteq ToSet(new)
    BY <2>1, <2>2 DEF ToSet
  <2>7. Pushed(uris, p) = new
    BY <1>2 DEF Pushed, new
  <2> QED
    BY <2>1, <2>4, <2>5, <2>6, <2>7
<1> QED
    BY <1>1, <1>2

LEMMA ContainsIsMember ==
    ASSUME NEW S, NEW s \in Seq(S), NEW e
    PROVE  Contains(s, e) <=> e \in ToSet(s)
BY DEF Contains, ToSet

LEMMA ResolverInitInv == ResolverInit => ResolverInv
<1> SUFFICES ASSUME ResolverInit PROVE ResolverInv
    OBVIOUS
<1>1. ResolverTypeOK
    BY DEF ResolverInit, ResolverTypeOK
<1>2. StoresKeep
    BY DEF ResolverInit, StoresKeep, Busy, NotStoring
<1>3. ResolvedHasOrigin
    BY DEF ResolverInit, ResolvedHasOrigin
<1>4. OriginsKept
    BY DEF ResolverInit, OriginsKept, IsInjective
<1> QED
    BY <1>1, <1>2, <1>3, <1>4 DEF ResolverInv

LEMMA StoreMappingKeeps ==
    ASSUME ResolverInv, NEW w \in Writers, NEW r \in Records, StoreMapping(w, r)
    PROVE  ResolverInv'
<1> DEFINE new == [step |-> "read", record |-> r, entry |-> <<>>]
<1>1. /\ ~Busy(w) /\ storing' = [storing EXCEPT ![w] = new]
      /\ overlapped' = IF \E v \in Writers \ {w} : Busy(v) /\ storing[v].record.hash = r.hash
                       THEN overlapped \cup {r.hash} ELSE overlapped
      /\ UNCHANGED <<b3_to_uri, uri_to_b3, kept>>
    BY DEF StoreMapping
<1>2. storing \in [Writers -> StoringType]
    BY StoringStates DEF ResolverInv
<1>3. new \in StoringType /\ new.record = r /\ new.step = "read" /\ new.record.hash = r.hash
      /\ r.hash \in ContentHashes
    BY DEF StoringType, Records
<1> HIDE DEF new
<1>4. /\ storing' \in [Writers -> StoringType] /\ storing'[w] = new
      /\ \A v \in Writers \ {w} : storing'[v] = storing[v]
    BY <1>1, <1>2, <1>3
<1>5. overlapped \subseteq overlapped' /\ overlapped' \subseteq overlapped \cup {r.hash}
    BY <1>1
<1>6. ResolverTypeOK'
  <2>1. {"read"} \cup ToSet(Puts) = {"read", "put_b3", "put_uri"}
    BY PutsAre
  <2> QED
    BY <1>1, <1>3, <1>4, <1>5, <2>1 DEF ResolverInv, ResolverTypeOK, StoringType
<1>7. StoresKeep'
  <2> SUFFICES ASSUME NEW x \in Writers, storing'[x].step # "idle"
               PROVE  /\ \A v \in Writers \ {x} :
                           storing'[v].step # "idle" /\ storing'[v].record.hash = storing'[x].record.hash
                             => storing'[x].record.hash \in overlapped'
                      /\ storing'[x].step # "read" =>
                           IsInjective(storing'[x].entry) /\ Contains(storing'[x].entry, storing'[x].record.pointer)
                      /\ storing'[x].record.hash \notin overlapped' =>
                          /\ storing'[x].step = "put_b3" =>
                               ToSet(b3_to_uri'[storing'[x].record.hash]) \subseteq ToSet(storing'[x].entry)
                          /\ storing'[x].step = "put_uri" =>
                               Contains(b3_to_uri'[storing'[x].record.hash], storing'[x].record.pointer)
    BY DEF StoresKeep, Busy
  <2>1. CASE x = w
    <3>1. storing'[x].step = "read" /\ storing'[x].record.hash = r.hash
      BY <2>1, <1>3, <1>4
    <3>2. ASSUME NEW v \in Writers \ {x}, storing'[v].step # "idle", storing'[v].record.hash = r.hash
          PROVE  r.hash \in overlapped'
      BY <2>1, <3>2, <1>1, <1>4 DEF Busy
    <3> QED
      BY <3>1, <3>2
  <2>2. CASE x # w
    <3>1. storing'[x] = storing[x] /\ Busy(x) /\ b3_to_uri' = b3_to_uri
      BY <2>2, <1>1, <1>4 DEF Busy
    <3>2. ASSUME NEW v \in Writers \ {x}, storing'[v].step # "idle",
                 storing'[v].record.hash = storing[x].record.hash
          PROVE  storing[x].record.hash \in overlapped'
      <4>1. CASE v = w
        BY <4>1, <3>1, <3>2, <2>2, <1>1, <1>3, <1>4
      <4>2. CASE v # w
        BY <4>2, <3>1, <3>2, <1>4, <1>5 DEF ResolverInv, StoresKeep, Busy
      <4> QED
        BY <4>1, <4>2
    <3> QED
      BY <3>1, <3>2, <1>5 DEF ResolverInv, StoresKeep
  <2> QED
    BY <2>1, <2>2
<1>8. ResolvedHasOrigin'
    BY <1>1, <1>5 DEF ResolverInv, ResolvedHasOrigin
<1>9. OriginsKept'
    BY <1>1, <1>5 DEF ResolverInv, OriginsKept
<1> QED
    BY <1>6, <1>7, <1>8, <1>9 DEF ResolverInv

LEMMA ReadEntryKeeps ==
    ASSUME ResolverInv, NEW w \in Writers, ReadEntry(w)
    PROVE  ResolverInv'
<1> DEFINE r == storing[w].record
           entry == Pushed(b3_to_uri[r.hash], r.pointer)
           new == [storing[w] EXCEPT !.entry = entry, !.step = Puts[1]]
<1>1. /\ storing[w].step = "read" /\ storing' = [storing EXCEPT ![w] = new]
      /\ UNCHANGED <<b3_to_uri, uri_to_b3, overlapped, kept>>
    BY DEF ReadEntry
<1>2. /\ storing \in [Writers -> StoringType]
      /\ storing[w] \in [step : {"read", "put_b3", "put_uri"}, record : Records,
                         entry : Seq(OriginPointers)]
    BY <1>1, StoringStates DEF ResolverInv, StoringType, NotStoring
<1>3. r \in Records /\ r.hash \in ContentHashes /\ r.pointer \in OriginPointers /\ Busy(w)
    BY <1>1, <1>2 DEF Records, Busy
<1>4. b3_to_uri[r.hash] \in Seq(OriginPointers) /\ IsInjective(b3_to_uri[r.hash])
    BY <1>3 DEF ResolverInv, ResolverTypeOK, OriginsKept
<1>5. /\ entry \in Seq(OriginPointers) /\ IsInjective(entry)
      /\ Contains(entry, r.pointer) /\ ToSet(b3_to_uri[r.hash]) \subseteq ToSet(entry)
    BY <1>3, <1>4, PushedKeeps
<1> HIDE DEF entry
<1>6. /\ new \in [step : {"read", "put_b3", "put_uri"}, record : Records, entry : Seq(OriginPointers)]
      /\ new.step = "put_b3" /\ new.record = r /\ new.entry = entry
    BY <1>2, <1>5, PutsAre
<1> HIDE DEF new
<1>7. /\ storing' \in [Writers -> StoringType] /\ storing'[w] = new
      /\ \A v \in Writers \ {w} : storing'[v] = storing[v]
    BY <1>1, <1>2, <1>6 DEF StoringType
<1>8. ResolverTypeOK'
  <2>1. {"read"} \cup ToSet(Puts) = {"read", "put_b3", "put_uri"}
    BY PutsAre
  <2> QED
    BY <1>1, <1>7, <2>1 DEF ResolverInv, ResolverTypeOK, StoringType
<1>9. StoresKeep'
  <2>1. \A x \in Writers : storing'[x].step # "idle" => Busy(x) /\ storing'[x].record = storing[x].record
    BY <1>3, <1>6, <1>7 DEF Busy
  <2> SUFFICES ASSUME NEW x \in Writers, storing'[x].step # "idle"
               PROVE  /\ \A v \in Writers \ {x} :
                           storing'[v].step # "idle" /\ storing'[v].record.hash = storing'[x].record.hash
                             => storing'[x].record.hash \in overlapped'
                      /\ storing'[x].step # "read" =>
                           IsInjective(storing'[x].entry) /\ Contains(storing'[x].entry, storing'[x].record.pointer)
                      /\ storing'[x].record.hash \notin overlapped' =>
                          /\ storing'[x].step = "put_b3" =>
                               ToSet(b3_to_uri'[storing'[x].record.hash]) \subseteq ToSet(storing'[x].entry)
                          /\ storing'[x].step = "put_uri" =>
                               Contains(b3_to_uri'[storing'[x].record.hash], storing'[x].record.pointer)
    BY DEF StoresKeep, Busy
  <2>2. \A v \in Writers \ {x} :
           storing'[v].step # "idle" /\ storing'[v].record.hash = storing'[x].record.hash
             => storing'[x].record.hash \in overlapped'
    BY <2>1, <1>1 DEF ResolverInv, StoresKeep
  <2>3. CASE x = w
    BY <2>2, <2>3, <1>1, <1>5, <1>6, <1>7
  <2>4. CASE x # w
    BY <2>1, <2>2, <2>4, <1>1, <1>7 DEF ResolverInv, StoresKeep
  <2> QED
    BY <2>3, <2>4
<1>10. ResolvedHasOrigin' /\ OriginsKept'
    BY <1>1 DEF ResolverInv, ResolvedHasOrigin, OriginsKept
<1> QED
    BY <1>8, <1>9, <1>10 DEF ResolverInv

\* A put into the list of a hash leaves out nothing unless two stored for it.
LEMMA PutKeeps ==
    ASSUME ResolverInv, NEW w \in Writers, Put(w)
    PROVE  ResolverInv'
<1> DEFINE r == storing[w].record
           step == storing[w].step
           entry == storing[w].entry
           new == IF step = "put_b3" THEN [storing[w] EXCEPT !.step = "put_uri"] ELSE NotStoring
<1>1. /\ step \in {"put_b3", "put_uri"}
      /\ b3_to_uri' = IF step = "put_b3" THEN [b3_to_uri EXCEPT ![r.hash] = entry] ELSE b3_to_uri
      /\ uri_to_b3' = IF step = "put_uri" THEN [uri_to_b3 EXCEPT ![r.pointer] = r.hash] ELSE uri_to_b3
      /\ storing' = [storing EXCEPT ![w] = new]
      /\ kept' = IF step = "put_uri" THEN kept \cup {r} ELSE kept
      /\ UNCHANGED overlapped
    BY PutsAre DEF Put
<1>2. /\ storing \in [Writers -> StoringType]
      /\ storing[w] \in [step : {"read", "put_b3", "put_uri"}, record : Records,
                         entry : Seq(OriginPointers)]
    BY <1>1, StoringStates DEF ResolverInv, StoringType, NotStoring
<1>3. /\ r \in Records /\ r.hash \in ContentHashes /\ r.pointer \in OriginPointers /\ Busy(w)
      /\ entry \in Seq(OriginPointers)
    BY <1>1, <1>2 DEF Records, Busy
<1>4. /\ IsInjective(entry) /\ Contains(entry, r.pointer)
      /\ r.hash \notin overlapped =>
           /\ step = "put_b3" => ToSet(b3_to_uri[r.hash]) \subseteq ToSet(entry)
           /\ step = "put_uri" => Contains(b3_to_uri[r.hash], r.pointer)
      /\ \A v \in Writers \ {w} : Busy(v) /\ storing[v].record.hash = r.hash => r.hash \in overlapped
    BY <1>1, <1>3 DEF ResolverInv, StoresKeep
<1>5. b3_to_uri \in [ContentHashes -> Seq(OriginPointers)]
      /\ uri_to_b3 \in [OriginPointers -> ContentHashes \cup {NoRecord}]
    BY DEF ResolverInv, ResolverTypeOK
<1>6. /\ new \in StoringType
      /\ step = "put_b3" => new.step = "put_uri" /\ new.record = r /\ new.entry = entry
      /\ step = "put_uri" => new.step = "idle"
    BY <1>1, <1>2 DEF StoringType, NotStoring
<1> HIDE DEF new
<1>7. /\ storing' \in [Writers -> StoringType] /\ storing'[w] = new
      /\ \A v \in Writers \ {w} : storing'[v] = storing[v]
    BY <1>1, <1>2, <1>6
<1>8. /\ b3_to_uri' \in [ContentHashes -> Seq(OriginPointers)]
      /\ \A h \in ContentHashes \ {r.hash} : b3_to_uri'[h] = b3_to_uri[h]
      /\ b3_to_uri'[r.hash] = IF step = "put_b3" THEN entry ELSE b3_to_uri[r.hash]
    BY <1>1, <1>3, <1>5
<1>9. \A h \in ContentHashes \ overlapped : ToSet(b3_to_uri[h]) \subseteq ToSet(b3_to_uri'[h])
    BY <1>1, <1>4, <1>8
<1>10. r.hash \notin overlapped => r.pointer \in ToSet(b3_to_uri'[r.hash])
  <2>1. CASE step = "put_b3"
    BY <2>1, <1>3, <1>4, <1>8, ContainsIsMember
  <2>2. CASE step = "put_uri"
    BY <2>2, <1>3, <1>4, <1>5, <1>8, ContainsIsMember
  <2> QED
    BY <1>1, <2>1, <2>2
<1>11. /\ \A h \in ContentHashes : \A p : Contains(b3_to_uri[h], p) <=> p \in ToSet(b3_to_uri[h])
       /\ \A h \in ContentHashes : \A p : Contains(b3_to_uri'[h], p) <=> p \in ToSet(b3_to_uri'[h])
    BY <1>5, <1>8, ContainsIsMember
<1>12. ResolverTypeOK'
  <2>1. {"read"} \cup ToSet(Puts) = {"read", "put_b3", "put_uri"}
    BY PutsAre
  <2>2. uri_to_b3' \in [OriginPointers -> ContentHashes \cup {NoRecord}]
    BY <1>1, <1>3, <1>5
  <2>3. overlapped' \subseteq ContentHashes /\ kept' \subseteq Records
    BY <1>1, <1>3 DEF ResolverInv, ResolverTypeOK
  <2> QED
    BY <1>7, <1>8, <2>1, <2>2, <2>3 DEF ResolverTypeOK, StoringType
<1>13. StoresKeep'
  <2>1. \A x \in Writers : storing'[x].step # "idle" => Busy(x) /\ storing'[x].record = storing[x].record
                                                        /\ storing'[x].entry = storing[x].entry
    BY <1>1, <1>3, <1>6, <1>7 DEF Busy
  <2> SUFFICES ASSUME NEW x \in Writers, storing'[x].step # "idle"
               PROVE  /\ \A v \in Writers \ {x} :
                           storing'[v].step # "idle" /\ storing'[v].record.hash = storing'[x].record.hash
                             => storing'[x].record.hash \in overlapped'
                      /\ storing'[x].step # "read" =>
                           IsInjective(storing'[x].entry) /\ Contains(storing'[x].entry, storing'[x].record.pointer)
                      /\ storing'[x].record.hash \notin overlapped' =>
                          /\ storing'[x].step = "put_b3" =>
                               ToSet(b3_to_uri'[storing'[x].record.hash]) \subseteq ToSet(storing'[x].entry)
                          /\ storing'[x].step = "put_uri" =>
                               Contains(b3_to_uri'[storing'[x].record.hash], storing'[x].record.pointer)
    BY DEF StoresKeep, Busy
  <2>2. \A v \in Writers \ {x} :
           storing'[v].step # "idle" /\ storing'[v].record.hash = storing'[x].record.hash
             => storing'[x].record.hash \in overlapped'
    BY <2>1, <1>1 DEF ResolverInv, StoresKeep
  <2>3. CASE x = w
    <3>1. step = "put_b3" /\ storing'[x].step = "put_uri" /\ storing'[x].record = r /\ storing'[x].entry = entry
      BY <2>3, <1>1, <1>6, <1>7
    <3>2. r.hash \notin overlapped => Contains(b3_to_uri'[r.hash], r.pointer)
      BY <1>3, <1>10, <1>11
    <3>3. storing'[x].record.hash = r.hash /\ storing'[x].record.pointer = r.pointer
          /\ overlapped' = overlapped
      BY <3>1, <1>1
    <3> QED
      BY <2>2, <3>1, <3>2, <3>3, <1>4
  <2>4. CASE x # w
    <3>1. storing'[x] = storing[x] /\ Busy(x)
      BY <2>1, <2>4, <1>7
    <3>2. /\ storing[x].step # "read" =>
                IsInjective(storing[x].entry) /\ Contains(storing[x].entry, storing[x].record.pointer)
          /\ storing[x].record.hash \notin overlapped =>
                /\ storing[x].step = "put_b3" =>
                    ToSet(b3_to_uri[storing[x].record.hash]) \subseteq ToSet(storing[x].entry)
                /\ storing[x].step = "put_uri" =>
                    Contains(b3_to_uri[storing[x].record.hash], storing[x].record.pointer)
      BY <3>1 DEF ResolverInv, StoresKeep
    <3>3. storing[x].record.hash \in ContentHashes
      BY <3>1, StoringStates DEF ResolverInv
    <3>4. storing[x].record.hash \notin overlapped => b3_to_uri'[storing[x].record.hash] = b3_to_uri[storing[x].record.hash]
      BY <2>4, <3>1, <3>3, <1>4, <1>8
    <3> QED
      BY <2>2, <3>1, <3>2, <3>4, <1>1
  <2> QED
    BY <2>3, <2>4
<1>14. ResolvedHasOrigin'
  <2> SUFFICES ASSUME NEW p \in OriginPointers, uri_to_b3'[p] \notin {NoRecord} \cup overlapped
               PROVE  Contains(b3_to_uri'[uri_to_b3'[p]], p)
    BY <1>1 DEF ResolvedHasOrigin
  <2>1. CASE uri_to_b3'[p] = uri_to_b3[p]
    <3>1. uri_to_b3[p] \in ContentHashes \ overlapped /\ Contains(b3_to_uri[uri_to_b3[p]], p)
      BY <2>1, <1>5 DEF ResolverInv, ResolvedHasOrigin
    <3> QED
      BY <2>1, <3>1, <1>9, <1>11
  <2>2. CASE uri_to_b3'[p] # uri_to_b3[p]
    <3>1. p = r.pointer /\ uri_to_b3'[p] = r.hash
      BY <2>2, <1>1, <1>3, <1>5
    <3> QED
      BY <3>1, <1>3, <1>10, <1>11
  <2> QED
    BY <2>1, <2>2
<1>15. OriginsKept'
  <2> SUFFICES ASSUME NEW h \in ContentHashes
               PROVE  /\ h \notin overlapped =>
                           \A x \in kept' : x.hash = h => Contains(b3_to_uri'[h], x.pointer)
                      /\ IsInjective(b3_to_uri'[h])
    BY <1>1 DEF OriginsKept
  <2>1. IsInjective(b3_to_uri'[h])
    BY <1>4, <1>8 DEF ResolverInv, OriginsKept
  <2>2. ASSUME h \notin overlapped, NEW x \in kept', x.hash = h
        PROVE  Contains(b3_to_uri'[h], x.pointer)
    <3>1. CASE x \in kept
      <4>1. Contains(b3_to_uri[h], x.pointer)
        BY <2>2, <3>1 DEF ResolverInv, OriginsKept
      <4> QED
        BY <2>2, <4>1, <1>9, <1>11
    <3>2. CASE x \notin kept
      <4>1. x = r
        BY <3>2, <2>2, <1>1
      <4> QED
        BY <2>2, <4>1, <1>3, <1>10, <1>11
    <3> QED
      BY <3>1, <3>2
  <2> QED
    BY <2>1, <2>2
<1> QED
    BY <1>12, <1>13, <1>14, <1>15 DEF ResolverInv

LEMMA StopResolverKeeps == ResolverInv /\ StopResolver => ResolverInv'
<1> SUFFICES ASSUME ResolverInv, StopResolver PROVE ResolverInv'
    OBVIOUS
<1>1. storing' = [w \in Writers |-> NotStoring] /\ UNCHANGED <<b3_to_uri, uri_to_b3, overlapped, kept>>
    BY DEF StopResolver
<1>2. ResolverTypeOK'
    BY <1>1 DEF ResolverInv, ResolverTypeOK
<1>3. StoresKeep'
    BY <1>1 DEF StoresKeep, Busy, NotStoring
<1>4. ResolvedHasOrigin' /\ OriginsKept'
    BY <1>1 DEF ResolverInv, ResolvedHasOrigin, OriginsKept
<1> QED
    BY <1>2, <1>3, <1>4 DEF ResolverInv

LEMMA ResolverStepKeeps == ResolverInv /\ [ResolverNext]_resolverVars => ResolverInv'
<1> SUFFICES ASSUME ResolverInv, [ResolverNext]_resolverVars PROVE ResolverInv'
    OBVIOUS
<1>1. CASE UNCHANGED resolverVars
    BY <1>1 DEF resolverVars, ResolverInv, ResolverTypeOK, StoresKeep, Busy, ResolvedHasOrigin,
                OriginsKept
<1>2. CASE ResolverNext
    BY <1>2, StoreMappingKeeps, ReadEntryKeeps, PutKeeps, StopResolverKeeps DEF ResolverNext
<1> QED
    BY <1>1, <1>2

\* A pointer that resolves to a hash is among the pointers of the hash, and a mapping whose
\* store ended is kept, whichever put the process stops at; only two stores for one hash at
\* the same time can lose one.
THEOREM ResolverFamiliesAgree == ResolverSpec => []ResolverInv
BY ResolverInitInv, ResolverStepKeeps, PTL DEF ResolverSpec

-----------------------------------------------------------------------------
(* The services of a node together.                                        *)

\* The composition holds what each service needs: of the acknowledgments the places
\* they are in, from which DackInv follows.
ServicesHold ==
    TaskInv /\ RepInv /\ PingerInv /\ DackPlaces /\ FirewallInv /\ ArchiveInv /\ ResolverInv

LEMMA ServicesInitHold == ServicesInit => ServicesHold
<1> SUFFICES ASSUME ServicesInit PROVE ServicesHold
    OBVIOUS
<1>1. /\ TaskInit /\ RepInit /\ PingerInit /\ DackInit /\ FirewallInit /\ ArchiveInit
      /\ ResolverInit
    BY DEF ServicesInit
<1> QED
    BY <1>1, TaskInitInv, RepInitInv, PingerInitInv, DackInitPlaces, FirewallInitInv,
       ArchiveInitInv, ResolverInitInv DEF ServicesHold

\* A step of the composition is a step of each service or leaves its state alone.
LEMMA ServicesTakeTurns ==
    ASSUME [ServicesNext]_servicesVars
    PROVE  /\ [TaskNext]_taskVars /\ [RepNext]_collectorVars /\ [PingerNext]_pingerVars
           /\ [DackNext]_dackVars /\ [FirewallNext]_firewallVars /\ [ArchiveNext]_archiveVars
           /\ [ResolverNext]_resolverVars
<1>1. CASE focus = "tasks" /\ TaskNext /\ Leave("tasks")
    BY <1>1 DEF Leave
<1>2. CASE focus = "reputation" /\ RepNext /\ Leave("reputation")
    BY <1>2 DEF Leave
<1>3. CASE focus = "pinger" /\ PingerNext /\ Leave("pinger")
    BY <1>3 DEF Leave
<1>4. CASE focus = "dacks" /\ DackNext /\ Leave("dacks")
    BY <1>4 DEF Leave
<1>5. CASE focus = "firewall" /\ FirewallNext /\ Leave("firewall")
    BY <1>5 DEF Leave
<1>6. CASE focus = "archive" /\ ArchiveNext /\ Leave("archive")
    BY <1>6 DEF Leave
<1>7. CASE focus = "resolver" /\ ResolverNext /\ Leave("resolver")
    BY <1>7 DEF Leave
<1>8. CASE focus = "edge" /\ Next /\ Leave("edge")
    BY <1>8 DEF Leave
<1>9. CASE UNCHANGED servicesVars
    BY <1>9 DEF servicesVars
<1> QED
    BY <1>1, <1>2, <1>3, <1>4, <1>5, <1>6, <1>7, <1>8, <1>9 DEF ServicesNext

LEMMA ServicesStepKeeps == ServicesHold /\ [ServicesNext]_servicesVars => ServicesHold'
<1> SUFFICES ASSUME ServicesHold, [ServicesNext]_servicesVars PROVE ServicesHold'
    OBVIOUS
<1>1. TaskInv'
    BY ServicesTakeTurns, TaskStepKeeps DEF ServicesHold
<1>2. RepInv'
    BY ServicesTakeTurns, RepStepKeeps DEF ServicesHold
<1>3. PingerInv'
    BY ServicesTakeTurns, PingerStepKeeps DEF ServicesHold
<1>4. DackPlaces'
    BY ServicesTakeTurns, DackStepKeeps DEF ServicesHold
<1>5. FirewallInv'
    BY ServicesTakeTurns, FirewallStepKeeps DEF ServicesHold
<1>6. ArchiveInv'
    BY ServicesTakeTurns, ArchiveStepKeeps DEF ServicesHold
<1>7. ResolverInv'
    BY ServicesTakeTurns, ResolverStepKeeps DEF ServicesHold
<1> QED
    BY <1>1, <1>2, <1>3, <1>4, <1>5, <1>6, <1>7 DEF ServicesHold

\* Every service of a node keeps to its invariant, whatever the others do: tasks of the
\* cluster agree, reports reach the summary, pings and acknowledgments are counted
\* once, the firewall keeps to its rates, and what the archive and the resolver store
\* is complete and agrees.
THEOREM ServicesKeepTheirPromises == ServicesSpec => []ServicesInv
<1>1. ServicesHold => ServicesInv
    BY PlacesAccount DEF ServicesHold, ServicesInv, DackInv
<1> QED
    BY <1>1, ServicesInitHold, ServicesStepKeeps, PTL DEF ServicesSpec
=============================================================================
