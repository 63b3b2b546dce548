------------------------------- MODULE Shutdown -------------------------------
(***************************************************************************)
(* The shutdown of a node (lib/better-shutdown).  Every task waits for a   *)
(* signal future that registers in one of several wait lists when it is    *)
(* first polled; the controller closes all lists, wakes the registered and *)
(* waits until they have been dropped.                                     *)
(*                                                                         *)
(* Abstractions: the hash of its address puts a signal in any list; shared *)
(* and dedicated lists are alike, the dedicated ones created at the start; *)
(* one CompletionFuture.  A step holds the lock of the list it works on,   *)
(* except where `holder` or `dropping` says who keeps it longer.           *)
(***************************************************************************)
EXTENDS Naturals, Sequences, FiniteSets

CONSTANTS Signals,        \* futures that wait for the shutdown
          NumLists,       \* wait lists
          InitialCapacity, \* of the arena of a list
          MaxTriggers     \* bound: calls of trigger_shutdown

ASSUME ShutdownAssumption ==
    /\ IsFiniteSet(Signals)
    /\ NumLists \in Nat /\ MaxTriggers \in Nat /\ InitialCapacity \in Nat \ {0}

VARIABLES wait_list,      \* list -> [state, len, last_freed, capacity, arena]
          signal,         \* signal -> [st, list, pos, woken]
          pending_waiting_lists,
          trigger,        \* the running call of trigger_shutdown
          waiting_for_drop, \* whether that list woke up
          completion,     \* the CompletionFuture: "new", "pending" or "ready"
          triggers

shutdownVars == <<wait_list, signal, pending_waiting_lists, trigger,
                  waiting_for_drop, completion, triggers>>

Lists == 1 .. NumLists

\* An entry of the arena is an item, or free with the index freed before it
\* (0 for none).
Item(s) == [kind |-> "item", of |-> s]
Link(i) == [kind |-> "link", of |-> i]
IsItem(e) == e.kind = "item"

NoTrigger == [pc |-> "idle", locked |-> 0, alive |-> 0]

ShutdownInit ==
    /\ wait_list = [l \in Lists |-> [state |-> "open", len |-> 0, last_freed |-> 0,
                                     capacity |-> InitialCapacity, arena |-> <<>>]]
    /\ signal = [s \in Signals |-> [st |-> "new", list |-> 0, pos |-> 0, woken |-> FALSE]]
    /\ pending_waiting_lists = 0
    /\ trigger = NoTrigger
    /\ waiting_for_drop = FALSE
    /\ completion = "new"
    /\ triggers = 0

\* The lock of a list is held by trigger_shutdown, or by a signal that is dropped.
Locked(l) ==
    \/ trigger.pc = "lock" /\ l <= trigger.locked
    \/ \E s \in Signals : signal[s].st = "dropping" /\ signal[s].list = l

-----------------------------------------------------------------------------
\* Mutation: the list of free entries is not advanced.
RegisterSameSlot(wl, s) ==
    IF Len(wl.arena) = wl.capacity /\ wl.last_freed # 0
    THEN [wl EXCEPT !.len = @ + 1, !.arena[wl.last_freed] = Item(s)]
    ELSE [wl EXCEPT !.len = @ + 1, !.arena = Append(@, Item(s)),
                    !.capacity = IF Len(wl.arena) = @ THEN 2 * @ ELSE @]

\* WaitList::register: a freed entry is used again only when the vector is full.
register(wl, s) ==
    IF Len(wl.arena) = wl.capacity /\ wl.last_freed # 0
    THEN [wl EXCEPT !.len = @ + 1,
                    !.last_freed = wl.arena[@].of,
                    !.arena[wl.last_freed] = Item(s)]
    ELSE [wl EXCEPT !.len = @ + 1,
                    !.arena = Append(@, Item(s)),
                    !.capacity = IF Len(wl.arena) = @ THEN 2 * @ ELSE @]

SlotOf(wl) ==
    IF Len(wl.arena) = wl.capacity /\ wl.last_freed # 0
    THEN wl.last_freed ELSE Len(wl.arena) + 1

deregister(wl, i) ==
    [wl EXCEPT !.len = @ - 1, !.arena[i] = Link(wl.last_freed), !.last_freed = i]

\* The first poll chooses the list and registers, unless the list is closed.
PollSignal(s, l) ==
    /\ signal[s].st = "new"
    /\ ~Locked(l)
    /\ IF wait_list[l].state # "open"
       THEN /\ signal' = [signal EXCEPT ![s] = [@ EXCEPT !.st = "ready", !.list = l]]
            /\ UNCHANGED wait_list
       ELSE /\ signal' = [signal EXCEPT ![s] =
                 [st |-> "pending", list |-> l, pos |-> SlotOf(wait_list[l]),
                  woken |-> FALSE]]
            /\ wait_list' = [wait_list EXCEPT ![l] = register(@, s)]
    /\ UNCHANGED <<pending_waiting_lists, trigger, waiting_for_drop, completion, triggers>>

\* A woken signal is polled again and finds its list closed.
PollWoken(s) ==
    /\ signal[s].st = "pending" /\ signal[s].woken
    /\ ~Locked(signal[s].list)
    /\ wait_list[signal[s].list].state # "open"
    /\ signal' = [signal EXCEPT ![s].st = "ready"]
    /\ UNCHANGED <<wait_list, pending_waiting_lists, trigger, waiting_for_drop,
                   completion, triggers>>

\* Mutation: an empty list is done, whether or not the shutdown has begun.
IsEmpty(wl) == wl.len = 0

is_done(wl) == wl.state = "woke_up" /\ wl.len = 0

\* Drop of a signal, first part: a signal that was never registered has nothing
\* to do.  Who empties a list after the shutdown takes one from the counter, and
\* keeps the lock if it has to wake the completion.
DropSignal(s) ==
    /\ signal[s].st \in {"new", "pending", "ready"}
    /\ IF signal[s].pos = 0
       THEN /\ signal' = [signal EXCEPT ![s].st = "dropped"]
            /\ UNCHANGED <<wait_list, pending_waiting_lists>>
       ELSE LET l == signal[s].list
                wl == deregister(wait_list[l], signal[s].pos)
            IN /\ ~Locked(l)
               /\ wait_list' = [wait_list EXCEPT ![l] = wl]
               /\ pending_waiting_lists' =
                    IF is_done(wl) THEN pending_waiting_lists - 1 ELSE pending_waiting_lists
               /\ signal' = [signal EXCEPT ![s] =
                    [@ EXCEPT !.st = IF is_done(wl) /\ pending_waiting_lists = 1
                                     THEN "dropping" ELSE "dropped",
                              !.pos = 0]]
    /\ UNCHANGED <<trigger, waiting_for_drop, completion, triggers>>

\* The rest of decrement_pending_wait_list_count.
WakeCompletion(s) ==
    /\ signal[s].st = "dropping"
    /\ waiting_for_drop' = TRUE
    /\ signal' = [signal EXCEPT ![s].st = "dropped"]
    /\ UNCHANGED <<wait_list, pending_waiting_lists, trigger, completion, triggers>>

-----------------------------------------------------------------------------
\* trigger_shutdown: one call runs at a time, which has the lock of the dedicated
\* lists.
BeginTrigger ==
    /\ trigger.pc = "idle" /\ triggers < MaxTriggers
    /\ trigger' = [pc |-> "lock", locked |-> 0, alive |-> 0]
    /\ triggers' = triggers + 1
    /\ UNCHANGED <<wait_list, signal, pending_waiting_lists, waiting_for_drop, completion>>

\* It takes the locks one after the other and counts the lists that are in use.
LockList ==
    LET l == trigger.locked + 1
    IN /\ trigger.pc = "lock" /\ l <= NumLists
       /\ ~Locked(l)
       /\ trigger' = [trigger EXCEPT !.locked = l,
                        !.alive = IF wait_list[l].len > 0 THEN @ + 1 ELSE @]
       /\ UNCHANGED <<wait_list, signal, pending_waiting_lists, waiting_for_drop,
                      completion, triggers>>

\* Mutation: only the first entry is woken.
WokenFirst == {s \in Signals : signal[s].st = "pending" /\ signal[s].pos = 1}

\* The signals whose wakers are in the lists.
Woken ==
    {s \in Signals : \E l \in Lists : \E i \in DOMAIN wait_list[l].arena :
                        wait_list[l].arena[i] = Item(s)}

\* With all locks held the counter is set, every list closed and everyone woken.
CloseAndWake ==
    /\ trigger.pc = "lock" /\ trigger.locked = NumLists
    /\ pending_waiting_lists' = trigger.alive
    /\ wait_list' = [l \in Lists |-> [wait_list[l] EXCEPT !.state = "woke_up"]]
    /\ signal' = [s \in Signals |->
                    IF s \in Woken THEN [signal[s] EXCEPT !.woken = TRUE] ELSE signal[s]]
    /\ trigger' = [trigger EXCEPT !.pc = "unlocked"]
    /\ UNCHANGED <<waiting_for_drop, completion, triggers>>

\* Mutation: the completion is woken by the trigger itself.
EndTriggerWakes ==
    /\ trigger.pc = "unlocked"
    /\ waiting_for_drop' = TRUE
    /\ trigger' = NoTrigger
    /\ UNCHANGED <<wait_list, signal, pending_waiting_lists, completion, triggers>>

\* Without a list in use no drop will wake the completion.
EndTrigger ==
    /\ trigger.pc = "unlocked"
    /\ waiting_for_drop' = (waiting_for_drop \/ trigger.alive = 0)
    /\ trigger' = NoTrigger
    /\ UNCHANGED <<wait_list, signal, pending_waiting_lists, completion, triggers>>

\* CompletionFuture::poll; a registered one is polled again when it is woken.
PollCompletion ==
    /\ completion # "ready"
    /\ completion = "pending" => waiting_for_drop
    /\ completion' = IF waiting_for_drop THEN "ready" ELSE "pending"
    /\ UNCHANGED <<wait_list, signal, pending_waiting_lists, trigger, waiting_for_drop,
                   triggers>>

TriggerStep == LockList \/ CloseAndWake \/ EndTrigger

ShutdownNext ==
    \/ \E s \in Signals :
         \/ \E l \in Lists : PollSignal(s, l)
         \/ PollWoken(s) \/ DropSignal(s) \/ WakeCompletion(s)
    \/ BeginTrigger \/ TriggerStep \/ PollCompletion

ShutdownSpec == ShutdownInit /\ [][ShutdownNext]_shutdownVars

\* Woken tasks are polled and then drop their signal; the call that triggers the
\* shutdown and a drop in progress run to their end.
FairShutdownSpec ==
    /\ ShutdownSpec
    /\ \A s \in Signals :
         /\ WF_shutdownVars(PollWoken(s))
         /\ WF_shutdownVars(signal[s].st = "ready" /\ DropSignal(s))
         /\ WF_shutdownVars(WakeCompletion(s))
    /\ WF_shutdownVars(TriggerStep)
    /\ WF_shutdownVars(PollCompletion)

-----------------------------------------------------------------------------
Entry == [kind : {"item"}, of : Signals] \cup [kind : {"link"}, of : Nat]

ShutdownTypeOK ==
    /\ wait_list \in [Lists -> [state : {"open", "woke_up"}, len : Nat, last_freed : Nat,
                                capacity : Nat \ {0}, arena : Seq(Entry)]]
    /\ \A l \in Lists : Len(wait_list[l].arena) <= wait_list[l].capacity
    /\ signal \in [Signals -> [st : {"new", "pending", "ready", "dropping", "dropped"},
                               list : 0 .. NumLists, pos : Nat, woken : BOOLEAN]]
    /\ pending_waiting_lists \in 0 .. NumLists
    /\ trigger \in [pc : {"idle", "lock", "unlocked"}, locked : 0 .. NumLists, alive : Nat]
    /\ waiting_for_drop \in BOOLEAN
    /\ completion \in {"new", "pending", "ready"}
    /\ triggers \in 0 .. MaxTriggers

\* The signals that are registered in a list.
WaitingIn(l) == {s \in Signals : signal[s].pos # 0 /\ signal[s].list = l}

\* Every registered signal is found at its place in its list, and nothing else
\* is counted there: no waker is lost or overwritten when entries are freed and
\* used again, which the panic "wrong index!" relies on.
SlotsKeepSignals ==
    /\ \A s \in Signals :
         /\ signal[s].st = "new" => signal[s].pos = 0
         /\ signal[s].pos # 0 =>
              /\ signal[s].list \in Lists
              /\ signal[s].pos \in DOMAIN wait_list[signal[s].list].arena
              /\ wait_list[signal[s].list].arena[signal[s].pos] = Item(s)
    /\ \A l \in Lists : wait_list[l].len = Cardinality(WaitingIn(l))

\* The free entries of a list are chained from last_freed: no entry that is in
\* use is reached, and none twice.
Free(arena) == {i \in DOMAIN arena : ~IsItem(arena[i])}

ChainedFree(wl) ==
    LET free == Free(wl.arena)
    IN  /\ wl.last_freed \in free \cup {0}
        /\ \A i \in free : /\ wl.arena[i].of \in free \cup {0}
                           /\ wl.arena[i].of # wl.last_freed
        /\ \A i, k \in free : wl.arena[i].of = wl.arena[k].of => i = k

FreeListIsSound == \A l \in Lists : ChainedFree(wait_list[l])

\* The lists with a registered signal.
InUse == {l \in Lists : wait_list[l].len > 0}

Closed == \A l \in Lists : wait_list[l].state = "woke_up"

\* All lists are closed together; from then on the counter says how many are in
\* use, and a trigger has counted those whose lock it holds.
ListsAreCounted ==
    /\ \A l, k \in Lists : wait_list[l].state = wait_list[k].state
    /\ pending_waiting_lists = IF Closed THEN Cardinality(InUse) ELSE 0
    /\ trigger.pc = "lock" =>
         trigger.alive = Cardinality({l \in InUse : l <= trigger.locked})

\* Everything is closed and nobody is registered any more.
AllDropped == Closed /\ \A s \in Signals : signal[s].pos = 0

\* Who wakes the completion has seen the last registered signal go.
WakesAtTheEnd ==
    /\ completion = "ready" => waiting_for_drop
    /\ waiting_for_drop => AllDropped
    /\ \A s \in Signals : signal[s].st = "dropping" => AllDropped
    /\ trigger.pc = "unlocked" /\ trigger.alive = 0 => AllDropped

\* "a future that is resolved as soon as all of the futures waiting for shutdown
\* have dropped": it is not resolved while one that was registered lives, however
\* drops race with the trigger, and although a second trigger counts again.
CompletionIsReal ==
    completion = "ready" => \A s \in Signals : signal[s].pos = 0

\* Once the shutdown is triggered, it completes.
ShutdownCompletes == triggers > 0 ~> completion = "ready"

\* Wakers are kept where they are looked for, and completion is reported only when
\* all of them are gone.
ShutdownInv ==
    /\ ShutdownTypeOK
    /\ SlotsKeepSignals /\ FreeListIsSound
    /\ ListsAreCounted /\ WakesAtTheEnd
    /\ CompletionIsReal
=============================================================================
