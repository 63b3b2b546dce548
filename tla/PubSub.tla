-------------------------------- MODULE PubSub --------------------------------
(***************************************************************************)
(* The receiving side of a topic (core/broadcast: MessageRing, RecvBuffer, *)
(* PubSubI::recv_event).  The event loop pushes the messages of the topic  *)
(* into a ring that overwrites the oldest ones; subscribers ask for the    *)
(* first message after the last one they have seen, through the command    *)
(* channel, and are answered at once or at the next push.  A subscriber    *)
(* that awaits a message in a select! may drop the call at any time: the   *)
(* answer is then lost, and asked for again by the next call.              *)
(*                                                                         *)
(* Abstractions: a message is its number, from 0; messages that do not     *)
(* decode are left out; a call is its number within the subscriber.        *)
(***************************************************************************)
EXTENDS Naturals, Sequences, FiniteSets

CONSTANTS Subscribers,
          RingCapacity,     \* of the topic's ring
          MaxPushed,    \* messages explored
          MaxCalls      \* calls of recv of each subscriber

ASSUME PubSubAssumption ==
    /\ RingCapacity \in Nat \ {0}
    /\ MaxPushed \in Nat
    /\ MaxCalls \in Nat

VARIABLES next_index,     \* of the ring
          buffer,         \* the ring's cells
          recv_commands,  \* Command::Recv in the command channel
          waiters,        \* the channels that wait for the next push
          replies,        \* answers on their way
          subscriber      \* what each has seen, and the call it awaits

pubsubVars == <<next_index, buffer, recv_commands, waiters, replies, subscriber>>

\* Positions are shifted by one: a subscriber that has seen nothing is at zero, and
\* `seen` is the index it desires next.
PubSubInit ==
    /\ next_index = 0
    /\ buffer = <<>>
    /\ recv_commands = <<>>
    /\ waiters = {}
    /\ replies = {}
    /\ subscriber = [s \in Subscribers |-> [seen |-> 0, calls |-> 0, awaits |-> FALSE]]

Reply(call, index, message) == [call |-> call, index |-> index, message |-> message]

-----------------------------------------------------------------------------
\* Mutation: the ring grows.
PushUnbounded(cells, message) == Append(cells, message)

\* Mutation: the position is taken from the number of cells in use.
PushAtEnd(cells, message) ==
    IF Len(cells) < RingCapacity
    THEN Append(cells, message)
    ELSE [cells EXCEPT ![Len(cells)] = message]

\* MessageRing::push
push(cells, message) ==
    IF Len(cells) < RingCapacity
    THEN Append(cells, message)
    ELSE [cells EXCEPT ![(next_index % RingCapacity) + 1] = message]

\* Mutation: a push leaves the channels that wait without an answer.
InsertWithoutAnswer ==
    /\ next_index < MaxPushed
    /\ buffer' = push(buffer, next_index)
    /\ next_index' = next_index + 1
    /\ waiters' = {}
    /\ UNCHANGED <<recv_commands, replies, subscriber>>

\* RecvBuffer::insert: all channels that wait are answered.
insert ==
    /\ next_index < MaxPushed
    /\ buffer' = push(buffer, next_index)
    /\ next_index' = next_index + 1
    /\ replies' = replies \cup {Reply(w, next_index, next_index) : w \in waiters}
    /\ waiters' = {}
    /\ UNCHANGED <<recv_commands, subscriber>>

\* Mutation: the newest message is handed out.
RecvNewest(desired) == next_index - 1

\* MessageRing::recv: the index that is handed out.
recv(desired) ==
    IF next_index > RingCapacity /\ next_index - RingCapacity > desired
    THEN next_index - RingCapacity ELSE desired

\* Command::Recv
respond_to_recv_request ==
    /\ recv_commands # <<>>
    /\ recv_commands' = Tail(recv_commands)
    /\ LET command == Head(recv_commands)
           index == recv(command.desired)
       IN IF command.desired >= next_index
          THEN waiters' = waiters \cup {command.call} /\ UNCHANGED replies
          ELSE /\ replies' = replies \cup
                    {Reply(command.call, index, buffer[(index % RingCapacity) + 1])}
               /\ UNCHANGED waiters
    /\ UNCHANGED <<next_index, buffer, subscriber>>

-----------------------------------------------------------------------------
CurrentCall(s) == [who |-> s, number |-> subscriber[s].calls]

CallRecv(s) ==
    /\ ~subscriber[s].awaits
    /\ subscriber[s].calls < MaxCalls
    /\ subscriber' = [subscriber EXCEPT ![s].awaits = TRUE, ![s].calls = @ + 1]
    /\ recv_commands' = Append(recv_commands,
         [call |-> [who |-> s, number |-> subscriber[s].calls + 1],
          desired |-> subscriber[s].seen])
    /\ UNCHANGED <<next_index, buffer, waiters, replies>>

\* The call is dropped; the event loop does not know.
CancelRecv(s) ==
    /\ subscriber[s].awaits
    /\ subscriber' = [subscriber EXCEPT ![s].awaits = FALSE]
    /\ UNCHANGED <<next_index, buffer, recv_commands, waiters, replies>>

ReturnFromRecv(s) ==
    /\ subscriber[s].awaits
    /\ \E r \in replies :
         /\ r.call = CurrentCall(s)
         /\ subscriber' = [subscriber EXCEPT ![s].awaits = FALSE,
                                             ![s].seen = r.index + 1]
    /\ UNCHANGED <<next_index, buffer, recv_commands, waiters, replies>>

PubSubNext ==
    \/ insert
    \/ respond_to_recv_request
    \/ \E s \in Subscribers : CallRecv(s)
    \/ \E s \in Subscribers : CancelRecv(s)
    \/ \E s \in Subscribers : ReturnFromRecv(s)

PubSubSpec == PubSubInit /\ [][PubSubNext]_pubsubVars

\* The event loop runs, and a call that was answered returns.
FairPubSubSpec ==
    /\ PubSubSpec
    /\ WF_pubsubVars(respond_to_recv_request)
    /\ \A s \in Subscribers : WF_pubsubVars(ReturnFromRecv(s))

-----------------------------------------------------------------------------
Calls == [who : Subscribers, number : Nat]

PubSubTypeOK ==
    /\ next_index \in Nat
    /\ buffer \in Seq(Nat)
    /\ recv_commands \in Seq([call : Calls, desired : Nat])
    /\ waiters \subseteq Calls
    /\ replies \subseteq [call : Calls, index : Nat, message : Nat]
    /\ subscriber \in [Subscribers -> [seen : Nat, calls : Nat, awaits : BOOLEAN]]

\* A reply carries the message of the index it names, also after the ring has
\* been overwritten several times.
ReplyIsMessage == \A r \in replies : r.message = r.index

\* The ring has the last messages, each at its place.
RingHolds ==
    /\ Len(buffer) = IF next_index < RingCapacity THEN next_index ELSE RingCapacity
    /\ \A i \in 0 .. next_index - 1 :
         next_index <= i + RingCapacity => buffer[(i % RingCapacity) + 1] = i

Made(call) == call.number <= subscriber[call.who].calls
Awaited(call) == subscriber[call.who].awaits /\ call.number = subscriber[call.who].calls

\* Nothing is under way for a call that was not made yet.
CallsWereMade ==
    /\ \A i \in DOMAIN recv_commands : Made(recv_commands[i].call)
    /\ \A w \in waiters : Made(w)
    /\ \A r \in replies : Made(r.call)

\* A call that was not dropped asks for the first message its subscriber has not seen,
\* waits only while there is none, and is answered with it or, when that one is
\* overwritten, with one behind nothing but overwritten ones.
AwaitsTheNext ==
    /\ \A s \in Subscribers : subscriber[s].seen <= next_index
    /\ \A i \in DOMAIN recv_commands : Awaited(recv_commands[i].call) =>
         recv_commands[i].desired = subscriber[recv_commands[i].call.who].seen
    /\ \A w \in waiters : Awaited(w) => subscriber[w.who].seen = next_index
    /\ \A r \in replies :
         /\ r.index < next_index
         /\ Awaited(r.call) =>
              /\ r.index >= subscriber[r.call.who].seen
              /\ r.index > subscriber[r.call.who].seen => r.index + RingCapacity <= next_index

\* The ring, the calls and what answers them.
PubSubInv ==
    PubSubTypeOK /\ RingHolds /\ ReplyIsMessage /\ CallsWereMade /\ AwaitsTheNext

\* A subscriber sees the messages in order, and misses only those that were
\* overwritten before it asked: none is lost with a call that was dropped or
\* with one that waited for the next push.
MissesOnlyOverwritten ==
    [][\A s \in Subscribers :
         subscriber'[s].seen # subscriber[s].seen =>
           /\ subscriber'[s].seen > subscriber[s].seen
           /\ subscriber'[s].seen - 1 > subscriber[s].seen
                => subscriber'[s].seen - 1 + RingCapacity <= next_index]_pubsubVars

\* A call that waits while there is a message it has not seen returns, unless it
\* is dropped.
RecvReturns ==
    \A s \in Subscribers :
       (subscriber[s].awaits /\ subscriber[s].seen < next_index) ~> ~subscriber[s].awaits
=============================================================================
