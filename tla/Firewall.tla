------------------------------ MODULE Firewall ------------------------------
(***************************************************************************)
(* The firewall of an endpoint (core/firewall): a connection policy, and   *)
(* token buckets per address that come from a policy of the address or     *)
(* from the global one, changed by an operator while requests arrive.      *)
(*                                                                         *)
(* Abstractions: tokens are counted in units of one request divided by the *)
(* period in milliseconds, which makes the code's floats integers; time    *)
(* runs in parts of a millisecond, as the code truncates what elapsed.     *)
(* lists and let_through are the history of an address, over all its       *)
(* entries: the code keeps neither.                                        *)
(***************************************************************************)
EXTENDS Integers, Sequences, FiniteSets, SequencesExt

CONSTANTS Ips,
          RuleLists,     \* sequences of rules [period, max], as an operator sets them
          TicksPerMilli,
          MaxTime,       \* bound on time, in ticks
          MaxCommands    \* bound on commands of the operator

Rules == [period : Nat \ {0}, max : Nat]

ASSUME FirewallAssumption ==
    /\ RuleLists \subseteq Seq(Rules)
    /\ TicksPerMilli \in Nat \ {0} /\ MaxTime \in Nat /\ MaxCommands \in Nat

VARIABLES policy,    \* the connection policy: its mode and its members
          limiting,  \* the type of rate limiting: "None", "Per" or "Global"
          global,    \* the global rules
          per,       \* address -> the entry of its buckets
          time,
          user,      \* the rules the operator set for an address and did not replace
          lists,     \* address -> the rules of the entries that were made for it
          let_through, \* address -> the requests its buckets let through: when, and which entry
          commands

firewallVars == <<policy, limiting, global, per, time, user, lists, let_through, commands>>

NoEntry == [set |-> FALSE, buckets |-> <<>>]

\* Buckets are full when they are made.
BucketsOf(rules, is_global) ==
    [set |-> TRUE,
     buckets |-> [i \in DOMAIN rules |->
                    [rule |-> rules[i], allowed |-> rules[i].max * rules[i].period,
                     last |-> time, is_global |-> is_global]]]

FirewallInit ==
    /\ policy \in {[mode |-> "All", members |-> {}], [mode |-> "Whitelist", members |-> {}],
                   [mode |-> "Blacklist", members |-> {}]}
    /\ \/ limiting \in {"None", "Per"} /\ global = <<>>
       \/ limiting = "Global" /\ global \in RuleLists
    /\ per = [ip \in Ips |-> NoEntry]
    /\ time = 0
    /\ user = [ip \in Ips |-> <<>>]
    /\ lists = [ip \in Ips |-> <<>>]
    /\ let_through = [ip \in Ips |-> <<>>]
    /\ commands = 0

-----------------------------------------------------------------------------
\* ConnectionPolicy::check.
MayConnect(ip) ==
    CASE policy.mode = "All" -> TRUE
      [] policy.mode = "Whitelist" -> ip \in policy.members
      [] policy.mode = "Blacklist" -> ip \notin policy.members

\* Mutation: the bucket is topped up beyond its size.
ToppedForEver(b, elapsed) == b.allowed + elapsed * b.rule.max

\* What a bucket holds after the time that elapsed.
Topped(b, elapsed) ==
    LET most == b.rule.max * b.rule.period
    IN IF elapsed > b.rule.period THEN most
       ELSE IF b.allowed + elapsed * b.rule.max < most THEN b.allowed + elapsed * b.rule.max
            ELSE most

Elapsed(b) == (time - b.last) \div TicksPerMilli
Tokens(b) == Topped(b, Elapsed(b))

\* After its period a bucket allows a request without a look at what it holds: also one
\* of a rule of no requests, which then holds less than nothing.
Allows(b) == Elapsed(b) > b.rule.period \/ Tokens(b) >= b.rule.period

\* A check takes a request out of the bucket if it can, and sets the time either way.
Checked(b) ==
    [b EXCEPT !.allowed = IF Allows(b) THEN Tokens(b) - b.rule.period ELSE Tokens(b),
              !.last = time]

\* The buckets are checked in order up to the first that refuses.
Reaches(buckets, i) == \A j \in 1 .. i - 1 : Allows(buckets[j])
CheckedAll(buckets) ==
    [i \in DOMAIN buckets |-> IF Reaches(buckets, i) THEN Checked(buckets[i]) ELSE buckets[i]]
AllowsAll(buckets) == \A i \in DOMAIN buckets : Allows(buckets[i])

\* The entry a check uses: the one of the address, or a new one of the global rules.
EntryFor(ip) ==
    IF limiting = "Global" /\ ~per[ip].set THEN BucketsOf(global, TRUE) ELSE per[ip]

\* A request: Firewall::check.  An entry of the global rules is made by a request that
\* they allow.
Check(ip) ==
    LET entry == EntryFor(ip)
        ok == AllowsAll(entry.buckets)
    IN /\ MayConnect(ip)
       /\ per' = IF entry.set /\ (ok \/ per[ip].set)
                 THEN [per EXCEPT ![ip] = [set |-> TRUE, buckets |-> CheckedAll(entry.buckets)]]
                 ELSE per
       /\ lists' = IF entry.set /\ ok /\ ~per[ip].set
                  THEN [lists EXCEPT ![ip] = Append(@, global)] ELSE lists
       /\ let_through' =
            IF ok /\ entry.buckets # <<>>
            THEN [let_through EXCEPT ![ip] = Append(@, [at |-> time, entry |-> Len(lists'[ip])])]
            ELSE let_through
       /\ UNCHANGED <<policy, limiting, global, time, user, commands>>

-----------------------------------------------------------------------------
\* The commands of the operator.
Command == commands < MaxCommands /\ commands' = commands + 1

\* The new entry starts with full buckets, whatever the old one had let through.
SetPolicyForIp(ip, rules) ==
    /\ Command /\ limiting # "None"
    /\ per' = [per EXCEPT ![ip] = BucketsOf(rules, FALSE)]
    /\ user' = [user EXCEPT ![ip] = rules]
    /\ lists' = [lists EXCEPT ![ip] = Append(@, rules)]
    /\ UNCHANGED <<policy, limiting, global, time, let_through>>

\* Mutation: the entries that came from the old global rules are kept.
KeepAll == Ips

\* The entries that are not global by their first bucket.
UserEntries == {ip \in Ips : per[ip].buckets # <<>> /\ ~per[ip].buckets[1].is_global}

Retained(ips) == [ip \in Ips |-> IF ip \in ips THEN per[ip] ELSE NoEntry]

SetGlobalPolicy(rules) ==
    /\ Command /\ limiting = "Global"
    /\ global' = rules
    /\ per' = Retained(UserEntries)
    /\ UNCHANGED <<policy, limiting, time, user, lists, let_through>>

\* Mutation: the entries of the global mode are all taken over.
TakeAll(to) ==
    IF to = "None" \/ limiting = "None" THEN [ip \in Ips |-> NoEntry] ELSE per

\* What is left of the entries when the type of rate limiting changes.
Migrated(to) ==
    CASE to = "None" \/ limiting = "None" -> [ip \in Ips |-> NoEntry]
      [] to = "Per" /\ limiting = "Global" -> Retained(UserEntries)
      [] OTHER -> per

ChangeRateLimitingPolicyType(to) ==
    /\ Command
    /\ limiting' = to
    /\ per' = Migrated(to)
    /\ global' = IF to = limiting THEN global ELSE <<>>
    /\ user' = IF to = "None" THEN [ip \in Ips |-> <<>>] ELSE user
    /\ UNCHANGED <<policy, time, lists, let_through>>

\* ToggleBlacklist and ToggleWhitelist.
Toggle(ip) ==
    /\ Command /\ policy.mode # "All"
    /\ policy' = [policy EXCEPT !.members = IF ip \in @ THEN @ \ {ip} ELSE @ \cup {ip}]
    /\ UNCHANGED <<limiting, global, per, time, user, lists, let_through>>

TimePasses ==
    /\ time < MaxTime
    /\ time' = time + 1
    /\ UNCHANGED <<policy, limiting, global, per, user, lists, let_through, commands>>

FirewallNext ==
    \/ \E ip \in Ips :
         \/ Check(ip) \/ Toggle(ip)
         \/ \E rules \in RuleLists : SetPolicyForIp(ip, rules)
    \/ \E rules \in RuleLists : SetGlobalPolicy(rules)
    \/ \E to \in {"None", "Per", "Global"} : ChangeRateLimitingPolicyType(to)
    \/ TimePasses

FirewallSpec == FirewallInit /\ [][FirewallNext]_firewallVars

-----------------------------------------------------------------------------
TokenBuckets == [rule : Rules, allowed : Int, last : Nat, is_global : BOOLEAN]
LetThrough == [at : Nat, entry : Nat]

FirewallTypeOK ==
    /\ policy \in [mode : {"All", "Whitelist", "Blacklist"}, members : SUBSET Ips]
    /\ limiting \in {"None", "Per", "Global"} /\ global \in Seq(Rules)
    /\ per \in [Ips -> [set : BOOLEAN, buckets : Seq(TokenBuckets)]]
    /\ user \in [Ips -> Seq(Rules)] /\ time \in Nat /\ commands \in Nat
    /\ lists \in [Ips -> Seq(Seq(Rules))] /\ let_through \in [Ips -> Seq(LetThrough)]

\* A bucket holds no more than fits into it.
BucketsHold ==
    \A ip \in Ips : \A i \in DOMAIN per[ip].buckets :
        LET b == per[ip].buckets[i]
        IN b.allowed <= b.rule.max * b.rule.period /\ b.last <= time

RulesOf(ip) == [i \in DOMAIN per[ip].buckets |-> per[ip].buckets[i].rule]

\* An entry is the last that was made, and every request was let through by one of them.
EntriesMade ==
    \A ip \in Ips :
        /\ IF per[ip].set THEN /\ lists[ip] # <<>>
                               /\ RulesOf(ip) = lists[ip][Len(lists[ip])]
                          ELSE per[ip].buckets = <<>>
        /\ \A i \in DOMAIN let_through[ip] : /\ let_through[ip][i].entry \in DOMAIN lists[ip]
                                             /\ let_through[ip][i].at <= time

\* A rule of no requests allows one after each period.
Size(rule) == IF rule.max = 0 THEN 1 ELSE rule.max
Held(b) == IF b.allowed > 0 THEN b.allowed ELSE 0

\* What n requests take and what is still held; and what a number of entries were made
\* with and what ticks of time fill in.
Spent(rule, n, held) == (n * rule.period + held) * TicksPerMilli
Supply(rule, entries, ticks) ==
    entries * (Size(rule) * rule.period * TicksPerMilli) + ticks * Size(rule)

\* The entries of an address from one to another all have the rule.
Throughout(ip, rule, first, last) ==
    \A e \in first .. last : \E i \in DOMAIN lists[ip][e] : lists[ip][e][i] = rule

\* The requests let through since some request, and what a bucket still holds, come out
\* of what the buckets of its rule held when they were made and what was filled in since.
TokensBalance ==
    \A ip \in Ips : \A i \in DOMAIN per[ip].buckets : \A from \in DOMAIN let_through[ip] :
        LET b == per[ip].buckets[i]
            start == let_through[ip][from]
        IN Throughout(ip, b.rule, start.entry, Len(lists[ip])) =>
             Spent(b.rule, Len(let_through[ip]) - from + 1, Held(b))
               <= Supply(b.rule, Len(lists[ip]) - start.entry + 1, b.last - start.at)

\* In any stretch of time in which a rule is in force, the requests let through are at
\* most its number and what refills while it lasts; a replacement of the entry hands out
\* the number once more, as the buckets of the new entry are full, and nothing else does.
RateBounded ==
    \A ip \in Ips : \A from, to \in DOMAIN let_through[ip] :
        LET start == let_through[ip][from]
            end == let_through[ip][to]
        IN \A i \in DOMAIN lists[ip][start.entry] :
             LET rule == lists[ip][start.entry][i]
             IN from <= to /\ Throughout(ip, rule, start.entry, end.entry) =>
                  Spent(rule, to - from + 1, 0)
                    <= Supply(rule, end.entry - start.entry + 1, end.at - start.at)

\* The buckets of an address are all global, with the rules that are in force, or
\* none is, with the rules last set for the address; and those it keeps, whatever
\* happens to the global ones, until they are replaced or rate limiting ends.  Only an
\* empty list of rules is not kept: the address falls back to the global rules when
\* these are set, or to none when they end.
EntriesInForce ==
    \A ip \in Ips :
        /\ per[ip].set /\ per[ip].buckets # <<>> =>
             \/ /\ limiting = "Global" /\ RulesOf(ip) = global
                /\ \A i \in DOMAIN per[ip].buckets : per[ip].buckets[i].is_global
             \/ /\ RulesOf(ip) = user[ip]
                /\ \A i \in DOMAIN per[ip].buckets : ~per[ip].buckets[i].is_global
        /\ user[ip] # <<>> => /\ limiting # "None" /\ RulesOf(ip) = user[ip]
                             /\ \A i \in DOMAIN per[ip].buckets : ~per[ip].buckets[i].is_global

\* The firewall keeps to the rates of the rules in force.
FirewallInv ==
    /\ FirewallTypeOK /\ BucketsHold /\ EntriesMade /\ TokensBalance
    /\ RateBounded /\ EntriesInForce
=============================================================================
