----------------------------- MODULE NetworkProofs -----------------------------
(***************************************************************************)
(* Proofs about what reaches other nodes, one part for each component:     *)
(*   Broadcast  a message is delivered once and asked for where it is, for *)
(*              every network and any number of lost frames and refusals;  *)
(*   PubSub     a subscriber misses only what was overwritten, for every   *)
(*              capacity of the ring and any number of dropped calls;      *)
(*   Pool       the tables of connections and dials agree, for any peers,  *)
(*              topologies and faults;                                     *)
(*   ContentFetch  a fetch that succeeds is whole, for every tree of       *)
(*              content and any number of calls that share requests;       *)
(*   BlockServe an answer that ends is whole and its slot comes back, for  *)
(*              content of any length;                                     *)
(*   Bucket     what is on disk is what its name says, for files and       *)
(*              directories of any size and any crashes;                   *)
(* and of all these side by side (MCNetwork).                              *)
(***************************************************************************)
EXTENDS MCNetwork, Integers, SequenceTheorems, FiniteSetTheorems, TLAPS

-----------------------------------------------------------------------------
(* The gossip of a message.                                                *)

FrameType == [kind : {"advr", "want", "message"}, from : Gossipers, to : Gossipers]

\* DeliveredOnce and DeliveriesCounted of one context.
ContextOK(ctx) ==
    /\ ctx.delivered <= ctx.refused + 1
    /\ ctx.processing = NoQueue \/ ctx.processing \in Seq(Gossipers)
    /\ ctx.event => ctx.processing \notin {NoQueue, <<>>}
    /\ ~ctx.event /\ ~ctx.stored => ctx.delivered <= ctx.refused

LEMMA ContextFacts ==
    ASSUME BroadcastInv, NEW n \in Gossipers
    PROVE  gossip[n] \in GossipContext /\ ContextOK(gossip[n])
           /\ \A p \in gossip[n].pending : p \in Gossipers /\ gossip[p].stored
<1>1. gossip[n] \in GossipContext
    BY DEF BroadcastInv, BroadcastTypeOK
<1>2. ContextOK(gossip[n])
    BY DEF BroadcastInv, DeliveredOnce, DeliveriesCounted, ContextOK
<1>3. \A p \in gossip[n].pending : p \in Gossipers /\ gossip[p].stored
    BY <1>1 DEF BroadcastInv, HoldersAdvertise, GossipContext
<1> QED
    BY <1>1, <1>2, <1>3

\* The type of a context, with the sets of its fields left unopened.
LEMMA ContextShape ==
    \E Q, P, L :
       /\ Q = Seq(Gossipers \cup {NoGossiper}) /\ P = SUBSET Gossipers
       /\ L = Gossipers \cup {NoGossiper}
       /\ GossipContext =
            [interned : BOOLEAN, stored : BOOLEAN, processing : Q, event : BOOLEAN,
             delivered : Nat, refused : Nat, advertisers : P, pending : P, last_request : L]
    BY DEF GossipContext

\* A frame that may be sent when node n takes a step, with it having the message or not.
MaySend(n, has, f) ==
    /\ f \in FrameType
    /\ f.kind = "advr" => f.from = n /\ has
    /\ f.kind = "want" => gossip[f.to].stored

\* A step of node n.
LEMMA GossipStep ==
    ASSUME BroadcastInv, NEW n \in Gossipers, NEW ctx \in GossipContext, ContextOK(ctx),
           gossip' = [gossip EXCEPT ![n] = ctx],
           gossip[n].stored => ctx.stored,
           \A p \in ctx.pending : gossip[p].stored,
           \A f \in frames' : f \in frames \/ MaySend(n, ctx.stored, f)
    PROVE  BroadcastInv'
<1>1. BroadcastTypeOK
    BY DEF BroadcastInv
<1>2. gossip' \in [Gossipers -> GossipContext] /\ gossip'[n] = ctx
      /\ \A q \in Gossipers \ {n} : gossip'[q] = gossip[q]
    BY <1>1 DEF BroadcastTypeOK
<1>3. \A q \in Gossipers : gossip[q].stored => gossip'[q].stored
    BY <1>2
<1>4. \A f \in frames' : f \in FrameType
    BY <1>1 DEF BroadcastTypeOK, MaySend, FrameType
<1>5. BroadcastTypeOK'
    BY <1>2, <1>4 DEF BroadcastTypeOK, FrameType, GossipContext
<1>6. ASSUME NEW q \in Gossipers
      PROVE  ContextOK(gossip'[q])
    BY <1>2, ContextFacts
<1>7. DeliveredOnce' /\ DeliveriesCounted'
    BY <1>6 DEF ContextOK, DeliveredOnce, DeliveriesCounted, NoQueue
<1>8. WantsCanBeAnswered'
  <2>1. ASSUME NEW f \in frames', f.kind = "want"
        PROVE  gossip'[f.to].stored
    <3>1. f.to \in Gossipers
      BY <1>4 DEF FrameType
    <3>2. gossip[f.to].stored
      BY <2>1 DEF BroadcastInv, WantsCanBeAnswered, MaySend
    <3> QED
      BY <1>3, <3>1, <3>2
  <2> QED
    BY <2>1 DEF WantsCanBeAnswered
<1>9. HoldersAdvertise'
  <2>1. ASSUME NEW f \in frames', f.kind = "advr"
        PROVE  gossip'[f.from].stored
    <3>1. f.from \in Gossipers
      BY <1>4 DEF FrameType
    <3>2. CASE f \in frames
      BY <1>3, <2>1, <3>1, <3>2 DEF BroadcastInv, HoldersAdvertise
    <3>3. CASE MaySend(n, ctx.stored, f)
      BY <1>2, <2>1, <3>3 DEF MaySend
    <3> QED
      BY <3>2, <3>3
  <2>2. ASSUME NEW q \in Gossipers, NEW p \in gossip'[q].pending
        PROVE  gossip'[p].stored
    <3>1. p \in Gossipers
      BY <1>2 DEF GossipContext
    <3>2. gossip[p].stored
      BY <1>2, ContextFacts
    <3> QED
      BY <1>3, <3>1, <3>2
  <2> QED
    BY <2>1, <2>2 DEF HoldersAdvertise
<1> QED
    BY <1>5, <1>7, <1>8, <1>9 DEF BroadcastInv

\* A step that only sends or takes frames.
LEMMA FramesStep ==
    ASSUME BroadcastInv, UNCHANGED gossip,
           \A f \in frames' : f \in frames \/ (f \in FrameType /\ f.kind = "message")
    PROVE  BroadcastInv'
<1>1. BroadcastTypeOK'
    BY DEF BroadcastInv, BroadcastTypeOK, FrameType, GossipContext
<1>2. DeliveredOnce' /\ DeliveriesCounted'
    BY DEF BroadcastInv, DeliveredOnce, DeliveriesCounted, NoQueue
<1>3. WantsCanBeAnswered' /\ HoldersAdvertise'
    BY DEF BroadcastInv, WantsCanBeAnswered, HoldersAdvertise
<1> QED
    BY <1>1, <1>2, <1>3 DEF BroadcastInv

LEMMA BroadcastInitHolds == BroadcastInit => BroadcastInv
<1> SUFFICES ASSUME BroadcastInit
             PROVE  BroadcastInv
    OBVIOUS
<1>1. FreshContext \in GossipContext
    BY DEF FreshContext, GossipContext, NoQueue
<1>2. \A n \in Gossipers : gossip[n] = FreshContext
    BY DEF BroadcastInit
<1>3. BroadcastTypeOK
    BY <1>1 DEF BroadcastInit, BroadcastTypeOK
<1>4. DeliveredOnce /\ DeliveriesCounted
    BY <1>2 DEF DeliveredOnce, DeliveriesCounted, FreshContext
<1>5. WantsCanBeAnswered /\ HoldersAdvertise
    BY <1>2 DEF BroadcastInit, WantsCanBeAnswered, HoldersAdvertise, FreshContext
<1> QED
    BY <1>3, <1>4, <1>5 DEF BroadcastInv

LEMMA SendMessageKeeps == BroadcastInv /\ SendMessage => BroadcastInv'
<1> SUFFICES ASSUME BroadcastInv, SendMessage
             PROVE  BroadcastInv'
    OBVIOUS
<1>0. Origin \in Gossipers /\ Peers[Origin] \subseteq Gossipers
    BY BroadcastAssumption
<1>1. gossip[Origin] \in GossipContext /\ ContextOK(gossip[Origin])
      /\ \A p \in gossip[Origin].pending : gossip[p].stored
    BY <1>0, ContextFacts
<1> DEFINE ctx == [gossip[Origin] EXCEPT !.interned = TRUE, !.stored = TRUE]
<1>2. ctx \in GossipContext /\ ctx.stored /\ ctx.pending = gossip[Origin].pending
    BY <1>1 DEF GossipContext
<1>3. ContextOK(ctx)
    BY <1>1 DEF ContextOK, GossipContext
<1>4. gossip' = [gossip EXCEPT ![Origin] = ctx]
    BY <1>0, <1>1 DEF SendMessage, BroadcastInv, BroadcastTypeOK
<1>5. \A f \in frames' : f \in frames \/ MaySend(Origin, TRUE, f)
    BY <1>0 DEF SendMessage, advertise, Frame, MaySend, FrameType
<1> HIDE DEF ctx
<1> QED
    BY <1>0, <1>1, <1>2, <1>3, <1>4, <1>5, GossipStep

LEMMA AdvrKeeps ==
    ASSUME BroadcastInv, NEW f \in frames, handle_advr(f)
    PROVE  BroadcastInv'
<1>0. f \in FrameType /\ f.to \in Gossipers /\ f.from \in Gossipers /\ gossip[f.from].stored
    BY DEF BroadcastInv, BroadcastTypeOK, FrameType, HoldersAdvertise, handle_advr
<1>1. gossip[f.to] \in GossipContext /\ ContextOK(gossip[f.to])
      /\ \A p \in gossip[f.to].pending : gossip[p].stored
    BY <1>0, ContextFacts
<1>2. CASE gossip[f.to].stored
    BY <1>2, FramesStep DEF handle_advr
<1>3. CASE ~gossip[f.to].stored
  <2> DEFINE first == ~gossip[f.to].interned
             last == IF first THEN f.from ELSE gossip[f.to].last_request
             ctx == [gossip[f.to] EXCEPT !.interned = TRUE, !.advertisers = @ \cup {f.from},
                                         !.pending = @ \cup {f.from}, !.last_request = last]
  <2>1. last \in Gossipers \cup {NoGossiper}
    BY <1>0, <1>1 DEF GossipContext
  <2>2. gossip' = [gossip EXCEPT ![f.to] = ctx]
    BY <1>0, <1>1, <1>3 DEF handle_advr, BroadcastInv, BroadcastTypeOK
  <2>3. \A g \in frames' : g \in frames \/ MaySend(f.to, gossip[f.to].stored, g)
    BY <1>0, <1>3 DEF handle_advr, Frame, MaySend, FrameType
  <2> HIDE DEF last
  <2>4. /\ ctx \in GossipContext /\ ctx.stored = gossip[f.to].stored
        /\ ctx.pending = gossip[f.to].pending \cup {f.from}
    BY <1>0, <1>1, <2>1 DEF GossipContext
  <2>5. ContextOK(ctx)
    BY <1>1 DEF ContextOK, GossipContext
  <2> HIDE DEF ctx
  <2> QED
    BY <1>0, <1>1, <2>2, <2>3, <2>4, <2>5, GossipStep
<1> QED
    BY <1>2, <1>3

LEMMA WantKeeps ==
    ASSUME BroadcastInv, NEW f \in frames, handle_want(f)
    PROVE  BroadcastInv'
<1>0. f.to \in Gossipers /\ f.from \in Gossipers
    BY DEF BroadcastInv, BroadcastTypeOK
<1> QED
    BY <1>0, FramesStep DEF handle_want, Frame, FrameType

LEMMA MessageKeeps ==
    ASSUME BroadcastInv, NEW f \in frames, handle_message(f)
    PROVE  BroadcastInv'
<1>0. f.to \in Gossipers /\ f.from \in Gossipers /\ f.from # NoGossiper
    BY BroadcastAssumption DEF BroadcastInv, BroadcastTypeOK
<1> DEFINE c == gossip[f.to]
<1>1. c \in GossipContext /\ ContextOK(c) /\ \A p \in c.pending : gossip[p].stored
    BY <1>0, ContextFacts
<1>2. \A g \in frames' : g \in frames
    BY DEF handle_message
<1>3. CASE c.stored \/ ~c.interned
    BY <1>2, <1>3, FramesStep DEF handle_message
<1>4. CASE ~c.stored /\ c.interned /\ c.processing # NoQueue
  <2> DEFINE queue == Append(c.processing, f.from)
             ctx == [c EXCEPT !.processing = queue]
  <2>1. gossip' = [gossip EXCEPT ![f.to] = ctx]
    BY <1>0, <1>1, <1>4 DEF handle_message, BroadcastInv, BroadcastTypeOK
  <2>2. queue \in Seq(Gossipers) /\ Len(queue) # 0 /\ queue \in Seq(Gossipers \cup {NoGossiper})
    <3>1. c.processing \in Seq(Gossipers)
      BY <1>1, <1>4 DEF ContextOK
    <3> HIDE DEF c
    <3> QED
      BY <1>0, <3>1
  <2>3. queue \notin {NoQueue, <<>>}
    <3>1. NoQueue \notin Seq(Gossipers)
      <4>1. Len(NoQueue) = 1 /\ NoQueue[1] = NoGossiper
        BY DEF NoQueue
      <4> QED
        BY <4>1, ElementOfSeq, BroadcastAssumption
    <3> HIDE DEF queue
    <3> QED
      BY <2>2, <3>1
  <2> HIDE DEF queue
  <2>4. /\ ctx \in GossipContext /\ ctx.stored = c.stored /\ ctx.pending = c.pending
        /\ ctx.processing = queue /\ ctx.delivered = c.delivered /\ ctx.refused = c.refused
        /\ ctx.event = c.event
    BY <1>1, <2>2 DEF GossipContext
  <2> HIDE DEF ctx
  <2>5. ContextOK(ctx)
    BY <1>1, <2>2, <2>3, <2>4 DEF ContextOK
  <2> QED
    BY <1>0, <1>1, <1>2, <2>1, <2>4, <2>5, GossipStep
<1>5. CASE ~c.stored /\ c.interned /\ c.processing = NoQueue
  <2> DEFINE ctx == [c EXCEPT !.processing = <<f.from>>, !.event = TRUE,
                              !.delivered = c.delivered + 1]
  <2>1. gossip' = [gossip EXCEPT ![f.to] = ctx]
    BY <1>0, <1>1, <1>5 DEF handle_message, BroadcastInv, BroadcastTypeOK
  <2>2. <<f.from>> \in Seq(Gossipers) /\ <<f.from>> \in Seq(Gossipers \cup {NoGossiper})
        /\ <<f.from>> # NoQueue /\ <<f.from>> # <<>>
    BY <1>0 DEF NoQueue
  <2>3. c.delivered \in Nat /\ c.refused \in Nat
    BY <1>1 DEF GossipContext
  <2>4. /\ ctx \in GossipContext /\ ctx.stored = c.stored /\ ctx.pending = c.pending
        /\ ctx.processing = <<f.from>> /\ ctx.delivered = c.delivered + 1
        /\ ctx.refused = c.refused /\ ctx.event
    <3>1. PICK Q, P, L :
          /\ Q = Seq(Gossipers \cup {NoGossiper}) /\ P = SUBSET Gossipers
          /\ L = Gossipers \cup {NoGossiper}
          /\ GossipContext =
               [interned : BOOLEAN, stored : BOOLEAN, processing : Q, event : BOOLEAN,
                delivered : Nat, refused : Nat, advertisers : P, pending : P, last_request : L]
      BY ContextShape
    <3>2. <<f.from>> \in Q /\ c.delivered + 1 \in Nat
      BY <2>2, <2>3, <3>1
    <3>3. c \in GossipContext
      BY <1>1
    <3> HIDE DEF c
    <3> QED
      BY <3>1, <3>2, <3>3
  <2> HIDE DEF ctx
  <2>5. c.delivered <= c.refused
    BY <1>1, <1>5 DEF ContextOK
  <2>6. ContextOK(ctx)
    BY <2>2, <2>3, <2>4, <2>5 DEF ContextOK
  <2> QED
    BY <1>0, <1>1, <1>2, <2>1, <2>4, <2>6, GossipStep
<1> QED
    BY <1>3, <1>4, <1>5

LEMMA PendingTickKeeps ==
    ASSUME BroadcastInv, NEW n \in Gossipers, PendingTick(n)
    PROVE  BroadcastInv'
<1>1. gossip[n] \in GossipContext /\ ContextOK(gossip[n])
      /\ \A q \in gossip[n].pending : q \in Gossipers /\ gossip[q].stored
    BY ContextFacts
<1>2. PICK p \in gossip[n].pending :
        /\ gossip' = [gossip EXCEPT ![n].pending = @ \ {p}, ![n].last_request = p]
        /\ frames' = frames \cup {Frame("want", n, p)}
    BY DEF PendingTick, select_request_receivers
<1> DEFINE ctx == [gossip[n] EXCEPT !.pending = @ \ {p}, !.last_request = p]
<1>3. gossip' = [gossip EXCEPT ![n] = ctx]
    BY <1>1, <1>2 DEF BroadcastInv, BroadcastTypeOK
<1>4. /\ ctx \in GossipContext /\ ctx.stored = gossip[n].stored
      /\ ctx.pending \subseteq gossip[n].pending
    BY <1>1, <1>2 DEF GossipContext
<1>5. ContextOK(ctx)
    BY <1>1 DEF ContextOK, GossipContext
<1>6. \A f \in frames' : f \in frames \/ MaySend(n, ctx.stored, f)
    BY <1>1, <1>2 DEF Frame, MaySend, FrameType
<1> HIDE DEF ctx
<1> QED
    BY <1>1, <1>3, <1>4, <1>5, <1>6, GossipStep

LEMMA PropagateKeeps ==
    ASSUME BroadcastInv, NEW n \in Gossipers, Propagate(n)
    PROVE  BroadcastInv'
<1>0. Peers[n] \subseteq Gossipers
    BY BroadcastAssumption
<1>1. gossip[n] \in GossipContext /\ ContextOK(gossip[n])
    BY ContextFacts
<1> DEFINE ctx == Forget([gossip[n] EXCEPT !.event = FALSE, !.stored = TRUE,
                                           !.processing = NoQueue])
<1>2. gossip' = [gossip EXCEPT ![n] = ctx]
    BY DEF Propagate
<1>3. /\ ctx \in GossipContext /\ ctx.stored /\ ctx.pending = {} /\ ~ctx.event
      /\ ctx.processing = NoQueue /\ ctx.delivered = gossip[n].delivered
      /\ ctx.refused = gossip[n].refused
  <2>1. PICK Q, P, L :
        /\ Q = Seq(Gossipers \cup {NoGossiper}) /\ P = SUBSET Gossipers
        /\ L = Gossipers \cup {NoGossiper}
        /\ GossipContext =
             [interned : BOOLEAN, stored : BOOLEAN, processing : Q, event : BOOLEAN,
              delivered : Nat, refused : Nat, advertisers : P, pending : P, last_request : L]
    BY ContextShape
  <2>2. NoQueue \in Q /\ {} \in P /\ NoGossiper \in L
    BY <2>1 DEF NoQueue
  <2>3. PICK c \in GossipContext : c = gossip[n]
    BY <1>1
  <2> QED
    BY <2>1, <2>2, <2>3 DEF Forget
<1> HIDE DEF ctx
<1>4. ContextOK(ctx)
    BY <1>1, <1>3 DEF ContextOK
<1>5. \A f \in frames' : f \in frames \/ MaySend(n, ctx.stored, f)
    BY <1>0, <1>3 DEF Propagate, advertise, Frame, MaySend, FrameType
<1> QED
    BY <1>2, <1>3, <1>4, <1>5, GossipStep

LEMMA RepropagateKeeps ==
    ASSUME BroadcastInv, NEW n \in Gossipers, NEW nodes, Repropagate(n, nodes)
    PROVE  BroadcastInv'
<1>0. Peers[n] \subseteq Gossipers /\ gossip[n].stored
    BY BroadcastAssumption DEF Repropagate
<1>1. gossip[n] \in GossipContext /\ ContextOK(gossip[n])
    BY ContextFacts
<1> DEFINE ctx == Forget(gossip[n])
<1>2. gossip' = [gossip EXCEPT ![n] = ctx]
    BY DEF Repropagate
<1>3. /\ ctx \in GossipContext /\ ctx.stored = gossip[n].stored /\ ctx.pending = {}
    BY <1>1 DEF GossipContext, Forget
<1>4. ContextOK(ctx)
    BY <1>1 DEF ContextOK, GossipContext, Forget
<1> HIDE DEF ctx
<1>5. \A f \in frames' : f \in frames \/ MaySend(n, ctx.stored, f)
    BY <1>0, <1>3 DEF Repropagate, Frame, MaySend, FrameType
<1> QED
    BY <1>2, <1>3, <1>4, <1>5, GossipStep

LEMMA CleanUpKeeps ==
    ASSUME BroadcastInv, NEW n \in Gossipers, CleanUp(n)
    PROVE  BroadcastInv'
<1>1. gossip[n] \in GossipContext /\ ContextOK(gossip[n])
    BY ContextFacts
<1> DEFINE ctx == Forget([gossip[n] EXCEPT !.event = FALSE, !.refused = @ + 1,
                                           !.processing = NoQueue])
<1>2. gossip' = [gossip EXCEPT ![n] = ctx] /\ frames' = frames
    BY DEF CleanUp
<1>3. gossip[n].refused \in Nat /\ gossip[n].delivered \in Nat
    BY <1>1 DEF GossipContext
<1>4. /\ ctx \in GossipContext /\ ctx.stored = gossip[n].stored /\ ctx.pending = {}
      /\ ~ctx.event /\ ctx.processing = NoQueue /\ ctx.delivered = gossip[n].delivered
      /\ ctx.refused = gossip[n].refused + 1
  <2>1. PICK Q, P, L :
        /\ Q = Seq(Gossipers \cup {NoGossiper}) /\ P = SUBSET Gossipers
        /\ L = Gossipers \cup {NoGossiper}
        /\ GossipContext =
             [interned : BOOLEAN, stored : BOOLEAN, processing : Q, event : BOOLEAN,
              delivered : Nat, refused : Nat, advertisers : P, pending : P, last_request : L]
    BY ContextShape
  <2>2. NoQueue \in Q /\ {} \in P /\ NoGossiper \in L
    BY <2>1 DEF NoQueue
  <2>3. PICK c \in GossipContext : c = gossip[n] /\ c.refused + 1 \in Nat
    BY <1>1, <1>3
  <2> QED
    BY <2>1, <2>2, <2>3 DEF Forget
<1> HIDE DEF ctx
<1>5. ContextOK(ctx)
    BY <1>1, <1>3, <1>4 DEF ContextOK
<1> QED
    BY <1>2, <1>4, <1>5, GossipStep

LEMMA MarkInvalidKeeps ==
    ASSUME BroadcastInv, NEW n \in Gossipers, MarkInvalidSender(n)
    PROVE  BroadcastInv'
<1> DEFINE c == gossip[n]
           rest == Tail(c.processing)
           count == IF rest # <<>> THEN c.delivered + 1 ELSE c.delivered
           ctx == [c EXCEPT !.processing = rest, !.refused = c.refused + 1,
                            !.event = (rest # <<>>), !.delivered = count]
<1>1. c \in GossipContext /\ ContextOK(c) /\ \A p \in c.pending : gossip[p].stored
    BY ContextFacts
<1>2. c.event /\ gossip' = [gossip EXCEPT ![n] = ctx] /\ frames' = frames
    BY DEF MarkInvalidSender, BroadcastInv, BroadcastTypeOK
<1>3. c.refused \in Nat /\ c.delivered \in Nat /\ count \in Nat
    BY <1>1 DEF GossipContext
<1>4. rest \in Seq(Gossipers) /\ rest \in Seq(Gossipers \cup {NoGossiper})
  <2>1. PICK s \in Seq(Gossipers) : s = c.processing /\ s # <<>>
    BY <1>1, <1>2 DEF ContextOK
  <2>2. Tail(s) \in Seq(Gossipers) /\ Tail(s) \in Seq(Gossipers \cup {NoGossiper})
    BY <2>1
  <2> QED
    BY <2>1, <2>2
<1>5. rest # NoQueue
  <2>1. Len(NoQueue) = 1 /\ NoQueue[1] = NoGossiper
    BY DEF NoQueue
  <2> HIDE DEF rest
  <2> QED
    BY <1>4, <2>1, ElementOfSeq, BroadcastAssumption
<1>6. c.delivered <= c.refused + 1
    BY <1>1 DEF ContextOK
<1>7. count <= (c.refused + 1) + 1 /\ (rest = <<>> => count <= c.refused + 1)
  <2>1. PICK d \in Nat, x \in Nat : d = c.delivered /\ x = c.refused
    BY <1>3
  <2>2. count = IF rest # <<>> THEN d + 1 ELSE d
    BY <2>1
  <2> HIDE DEF count, rest, c
  <2> QED
    BY <1>6, <2>1, <2>2
<1> HIDE DEF rest, count
<1>8. /\ ctx \in GossipContext /\ ctx.stored = c.stored /\ ctx.pending = c.pending
      /\ ctx.processing = rest /\ ctx.delivered = count /\ ctx.refused = c.refused + 1
      /\ ctx.event = (rest # <<>>)
  <2>1. PICK Q, P, L :
        /\ Q = Seq(Gossipers \cup {NoGossiper}) /\ P = SUBSET Gossipers
        /\ L = Gossipers \cup {NoGossiper}
        /\ GossipContext =
             [interned : BOOLEAN, stored : BOOLEAN, processing : Q, event : BOOLEAN,
              delivered : Nat, refused : Nat, advertisers : P, pending : P, last_request : L]
    BY ContextShape
  <2>2. rest \in Q /\ (rest # <<>>) \in BOOLEAN /\ c \in GossipContext /\ c.refused + 1 \in Nat
    BY <1>1, <1>3, <1>4, <2>1
  <2> HIDE DEF c
  <2> QED
    BY <1>3, <2>1, <2>2
<1> HIDE DEF ctx
<1>9. ContextOK(ctx)
    BY <1>4, <1>5, <1>7, <1>8 DEF ContextOK
<1> QED
    BY <1>1, <1>2, <1>8, <1>9, GossipStep

LEMMA BroadcastNextKeeps == BroadcastInv /\ [BroadcastNext]_broadcastVars => BroadcastInv'
<1> SUFFICES ASSUME BroadcastInv, [BroadcastNext]_broadcastVars
             PROVE  BroadcastInv'
    OBVIOUS
<1>1. CASE UNCHANGED broadcastVars
    BY <1>1, FramesStep DEF broadcastVars
<1>2. ASSUME NEW f \in frames, LoseFrame(f)
      PROVE  BroadcastInv'
    BY <1>2, FramesStep DEF LoseFrame
<1>3. ASSUME NEW f \in frames, handle_advr(f) \/ handle_want(f) \/ handle_message(f)
      PROVE  BroadcastInv'
    BY <1>3, AdvrKeeps, WantKeeps, MessageKeeps
<1>4. ASSUME NEW n \in Gossipers,
             \/ PendingTick(n) \/ Propagate(n) \/ CleanUp(n) \/ MarkInvalidSender(n)
             \/ \E nodes \in SUBSET Gossipers : Repropagate(n, nodes)
      PROVE  BroadcastInv'
    BY <1>4, PendingTickKeeps, PropagateKeeps, CleanUpKeeps, MarkInvalidKeeps,
       RepropagateKeeps
<1> QED
    BY <1>1, <1>2, <1>3, <1>4, SendMessageKeeps DEF BroadcastNext

\* A subscriber is given a message again only after it refused it, and whoever is asked
\* for it has it (handle_message, handle_want), for every network of nodes and any
\* number of lost frames, timed out requests and refusals.
THEOREM BroadcastCorrect == BroadcastSpec => []BroadcastInv
<1> QED
    BY BroadcastInitHolds, BroadcastNextKeeps, PTL DEF BroadcastSpec

-----------------------------------------------------------------------------
(* The ring of a topic.                                                    *)

\* Among n numbers in a row no two have the same place in a ring of n.
LEMMA RingPlacesDiffer ==
    ASSUME NEW n \in Nat \ {0}, NEW i \in Nat, NEW j \in Nat, i < j, j < i + n
    PROVE  i % n # j % n
<1>1. \A k \in Nat : \E q \in Int, r \in Int : r = k % n /\ k = n * q + r
  <2>1. ASSUME NEW k \in Nat
        PROVE  \E q \in Int, r \in Int : r = k % n /\ k = n * q + r
    <3>1. k \div n \in Int /\ k % n \in Int /\ k = n * (k \div n) + (k % n)
      OBVIOUS
    <3> QED
      BY <3>1
  <2> QED
    BY <2>1
<1>2. PICK a \in Int, b \in Int, r \in Int, t \in Int :
        r = i % n /\ t = j % n /\ i = n * a + r /\ j = n * b + t
  <2>1. PICK a \in Int, r \in Int : r = i % n /\ i = n * a + r
    BY <1>1
  <2>2. PICK b \in Int, t \in Int : t = j % n /\ j = n * b + t
    BY <1>1
  <2> QED
    BY <2>1, <2>2
<1>3. SUFFICES ASSUME r = t
               PROVE  FALSE
    BY <1>2
<1>4. n * b - n * a > 0 /\ n * b - n * a < n
    BY <1>2, <1>3
<1>5. PICK c \in Int : c = b - a
    OBVIOUS
<1>6. n * b - n * a = n * c
    BY <1>5
<1>7. n * c > 0 /\ n * c < n
    BY <1>4, <1>6
<1>8. CASE c <= 0
  <2>1. n * c <= 0
    BY <1>8
  <2> QED
    BY <1>7, <2>1
<1>9. CASE c >= 1
  <2>1. n * c >= n
    BY <1>9
  <2> QED
    BY <1>7, <2>1
<1> QED
    BY <1>8, <1>9

LEMMA RingPlaceType ==
    ASSUME NEW n \in Nat \ {0}, NEW i \in Nat
    PROVE  i % n \in Nat /\ i % n < n /\ (i < n => i % n = i)
    OBVIOUS

\* push puts the message at its place and leaves those that are not overwritten.
LEMMA PushKeepsRing ==
    ASSUME PubSubTypeOK, RingHolds, NEW cells, cells = push(buffer, next_index),
           NEW next, next = next_index + 1
    PROVE  /\ cells \in Seq(Nat)
           /\ Len(cells) = IF next < RingCapacity THEN next ELSE RingCapacity
           /\ \A i \in 0 .. next - 1 :
                next <= i + RingCapacity => cells[(i % RingCapacity) + 1] = i
<1>1. PICK n \in Nat \ {0} : n = RingCapacity
    BY PubSubAssumption
<1>2. PICK m \in Nat : m = next_index /\ next = m + 1
    BY DEF PubSubTypeOK
<1>3. /\ buffer \in Seq(Nat) /\ Len(buffer) = IF m < n THEN m ELSE n
      /\ \A i \in 0 .. m - 1 : m <= i + n => buffer[(i % n) + 1] = i
    BY <1>1, <1>2 DEF PubSubTypeOK, RingHolds
<1>4. CASE m < n
  <2>1. Len(buffer) = m /\ cells = Append(buffer, m)
    BY <1>1, <1>2, <1>3, <1>4 DEF push
  <2>2. cells \in Seq(Nat) /\ Len(cells) = m + 1 /\ cells[m + 1] = m
        /\ \A k \in 1 .. m : cells[k] = buffer[k]
    BY <1>3, <2>1
  <2>3. ASSUME NEW i \in 0 .. m
        PROVE  cells[(i % n) + 1] = i
    <3>1. i \in Nat /\ i < n /\ i % n = i
      BY <1>4, RingPlaceType
    <3>2. CASE i = m
      BY <2>2, <3>1, <3>2
    <3>3. CASE i # m
      <4>1. i \in 0 .. m - 1 /\ m <= i + n /\ i + 1 \in 1 .. m
        BY <1>4, <3>1, <3>3
      <4> QED
        BY <1>3, <2>2, <3>1, <4>1
    <3> QED
      BY <3>2, <3>3
  <2>4. /\ m + 1 = IF m + 1 < n THEN m + 1 ELSE n
        /\ (m + 1) - 1 = m
    BY <1>4
  <2> QED
    BY <1>1, <1>2, <2>2, <2>3, <2>4
<1>5. CASE ~(m < n)
  <2> DEFINE place(i) == (i % n) + 1
  <2>1. Len(buffer) = n /\ cells = [buffer EXCEPT ![place(m)] = m]
    BY <1>1, <1>2, <1>3, <1>5 DEF push
  <2>2. \A i \in Nat : place(i) \in 1 .. n
    <3>1. ASSUME NEW i \in Nat PROVE place(i) \in 1 .. n
      <4>1. i % n \in Nat /\ i % n < n
        BY RingPlaceType
      <4> QED
        BY <4>1
    <3> QED
      BY <3>1
  <2> HIDE DEF place
  <2>3. /\ cells \in Seq(Nat) /\ Len(cells) = n /\ cells[place(m)] = m
        /\ \A k \in 1 .. n : k # place(m) => cells[k] = buffer[k]
    BY <1>3, <2>1, <2>2
  <2>4. ASSUME NEW i \in 0 .. m, m + 1 <= i + n
        PROVE  cells[place(i)] = i
    <3>1. CASE i = m
      BY <2>3, <3>1
    <3>2. CASE i # m
      <4>1. i \in Nat /\ i < m /\ m < i + n /\ i \in 0 .. m - 1 /\ m <= i + n
        BY <2>4, <3>2
      <4>2. i % n # m % n
        BY <4>1, RingPlacesDiffer
      <4>3. place(i) # place(m)
        <5>1. i % n \in Nat /\ m % n \in Nat
          BY <4>1, RingPlaceType
        <5> QED
          BY <4>2, <5>1 DEF place
      <4>4. buffer[place(i)] = i
        BY <1>3, <4>1 DEF place
      <4> QED
        BY <2>2, <2>3, <4>1, <4>3, <4>4
    <3> QED
      BY <3>1, <3>2
  <2>5. \A i \in 0 .. m : m + 1 <= i + n => cells[(i % n) + 1] = i
    BY <2>4 DEF place
  <2>6. ~(m + 1 < n) /\ (m + 1) - 1 = m
    BY <1>5
  <2> QED
    BY <1>1, <1>2, <2>3, <2>5, <2>6
<1> QED
    BY <1>4, <1>5

LEMMA CommandTypes ==
    ASSUME PubSubTypeOK
    PROVE  /\ DOMAIN recv_commands = 1 .. Len(recv_commands) /\ Len(recv_commands) \in Nat
           /\ recv_commands = <<>> <=> Len(recv_commands) = 0
           /\ \A i \in DOMAIN recv_commands :
                /\ recv_commands[i] \in [call : Calls, desired : Nat]
                /\ recv_commands[i].call \in Calls /\ recv_commands[i].desired \in Nat
<1>1. PICK Command : Command = [call : Calls, desired : Nat] /\ recv_commands \in Seq(Command)
    BY DEF PubSubTypeOK
<1>2. DOMAIN recv_commands = 1 .. Len(recv_commands) /\ Len(recv_commands) \in Nat
    BY <1>1
<1>3. recv_commands = <<>> <=> Len(recv_commands) = 0
    BY <1>1, EmptySeq
<1>4. \A i \in DOMAIN recv_commands : recv_commands[i] \in Command
    BY <1>1, <1>2, ElementOfSeq
<1> QED
    BY <1>1, <1>2, <1>3, <1>4

\* Awaited, CallsWereMade and AwaitsTheNext in the next state.
Later(call) == subscriber'[call.who].awaits /\ call.number = subscriber'[call.who].calls

LEMMA MadeNext ==
    ASSUME \A i \in DOMAIN recv_commands' :
             recv_commands'[i].call.number <= subscriber'[recv_commands'[i].call.who].calls,
           \A w \in waiters' : w.number <= subscriber'[w.who].calls,
           \A r \in replies' : r.call.number <= subscriber'[r.call.who].calls
    PROVE  CallsWereMade'
    BY DEF CallsWereMade, Made

LEMMA AwaitsNext ==
    ASSUME \A s \in Subscribers : subscriber'[s].seen <= next_index',
           \A i \in DOMAIN recv_commands' : Later(recv_commands'[i].call) =>
             recv_commands'[i].desired = subscriber'[recv_commands'[i].call.who].seen,
           \A w \in waiters' : Later(w) => subscriber'[w.who].seen = next_index',
           \A r \in replies' :
             /\ r.index < next_index'
             /\ Later(r.call) =>
                  /\ r.index >= subscriber'[r.call.who].seen
                  /\ r.index > subscriber'[r.call.who].seen =>
                       r.index + RingCapacity <= next_index'
    PROVE  AwaitsTheNext'
    BY DEF AwaitsTheNext, Awaited, Later

LEMMA PubSubInitHolds == PubSubInit => PubSubInv
<1> SUFFICES ASSUME PubSubInit
             PROVE  PubSubInv
    OBVIOUS
<1>1. RingCapacity \in Nat \ {0}
    BY PubSubAssumption
<1>2. PubSubTypeOK
    BY DEF PubSubInit, PubSubTypeOK
<1>3. RingHolds /\ ReplyIsMessage /\ CallsWereMade
    BY <1>1 DEF PubSubInit, RingHolds, ReplyIsMessage, CallsWereMade
<1>4. AwaitsTheNext
    BY DEF PubSubInit, AwaitsTheNext
<1> QED
    BY <1>2, <1>3, <1>4 DEF PubSubInv

LEMMA InsertKeeps == PubSubInv /\ insert => PubSubInv'
<1> SUFFICES ASSUME PubSubInv, insert
             PROVE  PubSubInv'
    OBVIOUS
<1>0. PubSubTypeOK /\ RingHolds /\ ReplyIsMessage /\ CallsWereMade /\ AwaitsTheNext
    BY DEF PubSubInv
<1>1. PICK m \in Nat : m = next_index /\ next_index' = m + 1
    BY <1>0 DEF PubSubTypeOK, insert
<1>2. PICK n \in Nat \ {0} : n = RingCapacity
    BY PubSubAssumption
<1>3. UNCHANGED <<recv_commands, subscriber>> /\ waiters' = {}
      /\ buffer' = push(buffer, next_index)
    BY DEF insert
<1>4. \A r \in replies' : r \in replies \/ (r.call \in waiters /\ r.index = m /\ r.message = m
                                           /\ r \in [call : Calls, index : Nat, message : Nat])
    BY <1>0, <1>1 DEF insert, Reply, PubSubTypeOK
<1>5. PubSubTypeOK' /\ RingHolds'
  <2>1. /\ buffer' \in Seq(Nat)
        /\ Len(buffer') = IF next_index' < RingCapacity THEN next_index' ELSE RingCapacity
        /\ \A i \in 0 .. next_index' - 1 :
             next_index' <= i + RingCapacity => buffer'[(i % RingCapacity) + 1] = i
    BY <1>0, <1>1, <1>3, PushKeepsRing
  <2>2. PubSubTypeOK'
    BY <1>0, <1>1, <1>3, <1>4, <2>1 DEF PubSubTypeOK, Calls
  <2> QED
    BY <2>1, <2>2 DEF RingHolds
<1>6. ReplyIsMessage'
    BY <1>0, <1>4 DEF ReplyIsMessage
<1>7. CallsWereMade'
    BY <1>0, <1>3, <1>4, MadeNext DEF CallsWereMade, Made
<1>8. AwaitsTheNext'
  <2>0. \A call : Later(call) <=> Awaited(call)
    BY <1>3 DEF Awaited, Later
  <2>1. ASSUME NEW s \in Subscribers
        PROVE  subscriber'[s].seen <= next_index'
    <3>1. subscriber[s].seen \in Nat /\ subscriber[s].seen <= m
      BY <1>0, <1>1 DEF PubSubTypeOK, AwaitsTheNext
    <3> QED
      BY <1>1, <1>3, <3>1
  <2>2. \A i \in DOMAIN recv_commands' : Later(recv_commands'[i].call) =>
          recv_commands'[i].desired = subscriber'[recv_commands'[i].call.who].seen
    BY <1>0, <1>3, <2>0 DEF AwaitsTheNext
  <2>3. ASSUME NEW r \in replies'
        PROVE  /\ r.index < next_index'
               /\ Later(r.call) =>
                    /\ r.index >= subscriber'[r.call.who].seen
                    /\ r.index > subscriber'[r.call.who].seen =>
                         r.index + RingCapacity <= next_index'
    <3>0. r.call \in Calls /\ r.index \in Nat /\ subscriber[r.call.who].seen \in Nat
      BY <1>5, <1>3, <1>0 DEF PubSubTypeOK, Calls
    <3>1. CASE r \in replies
      <4>1. r.index < m /\ (Awaited(r.call) =>
                              /\ r.index >= subscriber[r.call.who].seen
                              /\ r.index > subscriber[r.call.who].seen => r.index + n <= m)
        BY <1>0, <1>1, <1>2, <3>1 DEF AwaitsTheNext
      <4> QED
        BY <1>1, <1>2, <1>3, <2>0, <3>0, <4>1
    <3>2. CASE r.call \in waiters /\ r.index = m
      <4>1. Awaited(r.call) => subscriber[r.call.who].seen = m
        BY <1>0, <1>1, <3>2 DEF AwaitsTheNext
      <4> QED
        BY <1>1, <1>2, <1>3, <2>0, <3>0, <3>2, <4>1
    <3> QED
      BY <1>4, <3>1, <3>2
  <2> QED
    BY <1>3, <2>1, <2>2, <2>3, AwaitsNext
<1> QED
    BY <1>5, <1>6, <1>7, <1>8 DEF PubSubInv

\* What recv hands out is in the ring, and behind nothing but overwritten messages.
LEMMA RecvFacts ==
    ASSUME PubSubTypeOK, RingHolds, NEW desired \in Nat, desired < next_index,
           NEW index, index = recv(desired)
    PROVE  /\ index \in Nat /\ index < next_index /\ index >= desired
           /\ index > desired => index + RingCapacity <= next_index
           /\ buffer[(index % RingCapacity) + 1] = index
<1>1. PICK m \in Nat : m = next_index
    BY DEF PubSubTypeOK
<1>2. PICK n \in Nat \ {0} : n = RingCapacity
    BY PubSubAssumption
<1>3. index = IF m > n /\ m - n > desired THEN m - n ELSE desired
    BY <1>1, <1>2 DEF recv
<1>4. /\ index \in Nat /\ index < m /\ index >= desired
      /\ index > desired => index + n <= m
      /\ m <= index + n
    BY <1>1, <1>2, <1>3
<1>5. index \in 0 .. next_index - 1 /\ next_index <= index + RingCapacity
    BY <1>1, <1>2, <1>4
<1> QED
    BY <1>1, <1>2, <1>4, <1>5 DEF RingHolds

LEMMA RespondKeeps == PubSubInv /\ respond_to_recv_request => PubSubInv'
<1> SUFFICES ASSUME PubSubInv, respond_to_recv_request
             PROVE  PubSubInv'
    OBVIOUS
<1>0. PubSubTypeOK /\ RingHolds /\ ReplyIsMessage /\ CallsWereMade /\ AwaitsTheNext
    BY DEF PubSubInv
<1>1. UNCHANGED <<next_index, buffer, subscriber>> /\ recv_commands # <<>>
      /\ recv_commands' = Tail(recv_commands)
    BY DEF respond_to_recv_request
<1>2. PICK command \in [call : Calls, desired : Nat] :
        command = Head(recv_commands) /\ command = recv_commands[1] /\ 1 \in DOMAIN recv_commands
  <2>1. 1 \in DOMAIN recv_commands /\ recv_commands[1] \in [call : Calls, desired : Nat]
    BY <1>0, <1>1, CommandTypes
  <2>2. Head(recv_commands) = recv_commands[1]
    BY <1>1, <2>1
  <2> QED
    BY <2>1, <2>2
<1>3. /\ recv_commands' \in Seq([call : Calls, desired : Nat])
      /\ \A i \in DOMAIN recv_commands' :
           i + 1 \in DOMAIN recv_commands /\ recv_commands'[i] = recv_commands[i + 1]
    BY <1>0, <1>1 DEF PubSubTypeOK
<1>4. next_index \in Nat /\ command.desired \in Nat /\ command.call \in Calls
      /\ command.call.who \in Subscribers /\ subscriber[command.call.who].seen \in Nat
    BY <1>0, <1>2 DEF PubSubTypeOK, Calls
<1>5. /\ command.call.number <= subscriber[command.call.who].calls
      /\ Awaited(command.call) => command.desired = subscriber[command.call.who].seen
      /\ subscriber[command.call.who].seen <= next_index
    BY <1>0, <1>2, <1>4 DEF CallsWereMade, Made, AwaitsTheNext
<1> DEFINE index == recv(command.desired)
           answer == Reply(command.call, index, buffer[(index % RingCapacity) + 1])
<1>6. \/ /\ command.desired >= next_index
         /\ waiters' = waiters \cup {command.call} /\ replies' = replies
      \/ /\ command.desired < next_index
         /\ waiters' = waiters /\ replies' = replies \cup {answer}
    BY <1>2, <1>4 DEF respond_to_recv_request
<1>7. command.desired < next_index =>
        /\ answer.call = command.call /\ answer.index \in Nat /\ answer.message = answer.index
        /\ answer \in [call : Calls, index : Nat, message : Nat]
        /\ answer.index < next_index /\ answer.index >= command.desired
        /\ answer.index > command.desired => answer.index + RingCapacity <= next_index
  <2> HIDE DEF index
  <2>1. command.desired < next_index =>
          /\ index \in Nat /\ index < next_index /\ index >= command.desired
          /\ index > command.desired => index + RingCapacity <= next_index
          /\ buffer[(index % RingCapacity) + 1] = index
    BY <1>0, <1>4, RecvFacts DEF index
  <2> QED
    BY <1>4, <2>1 DEF Reply
<1> HIDE DEF answer, index
<1>8. PubSubTypeOK'
    BY <1>0, <1>1, <1>3, <1>4, <1>6, <1>7 DEF PubSubTypeOK, Calls
<1>9. RingHolds' /\ ReplyIsMessage'
    BY <1>0, <1>1, <1>6, <1>7 DEF RingHolds, ReplyIsMessage
<1>10. CallsWereMade'
    BY <1>0, <1>1, <1>3, <1>5, <1>6, <1>7, MadeNext DEF CallsWereMade, Made
<1>11. AwaitsTheNext'
  <2>0. \A call : Later(call) <=> Awaited(call)
    BY <1>1 DEF Awaited, Later
  <2>1. \A i \in DOMAIN recv_commands' : Later(recv_commands'[i].call) =>
          recv_commands'[i].desired = subscriber'[recv_commands'[i].call.who].seen
    BY <1>0, <1>1, <1>3, <2>0 DEF AwaitsTheNext
  <2>2. command.desired >= next_index /\ Awaited(command.call) =>
          subscriber[command.call.who].seen = next_index
    BY <1>4, <1>5
  <2>3. \A w \in waiters' : Later(w) => subscriber'[w.who].seen = next_index'
    BY <1>0, <1>1, <1>6, <2>0, <2>2 DEF AwaitsTheNext
  <2>4. command.desired < next_index /\ Awaited(command.call) =>
          /\ answer.index >= subscriber[command.call.who].seen
          /\ answer.index > subscriber[command.call.who].seen =>
               answer.index + RingCapacity <= next_index
    BY <1>5, <1>7
  <2>5. \A r \in replies' :
          /\ r.index < next_index'
          /\ Later(r.call) =>
               /\ r.index >= subscriber'[r.call.who].seen
               /\ r.index > subscriber'[r.call.who].seen =>
                    r.index + RingCapacity <= next_index'
    BY <1>0, <1>1, <1>6, <1>7, <2>0, <2>4 DEF AwaitsTheNext
  <2>6. \A s \in Subscribers : subscriber'[s].seen <= next_index'
    BY <1>0, <1>1 DEF AwaitsTheNext
  <2> QED
    BY <2>1, <2>3, <2>5, <2>6, AwaitsNext
<1> QED
    BY <1>8, <1>9, <1>10, <1>11 DEF PubSubInv

LEMMA CallKeeps ==
    ASSUME PubSubInv, NEW s \in Subscribers, CallRecv(s)
    PROVE  PubSubInv'
<1>0. PubSubTypeOK /\ RingHolds /\ ReplyIsMessage /\ CallsWereMade /\ AwaitsTheNext
    BY DEF PubSubInv
<1>1. PICK seen \in Nat, calls \in Nat :
        /\ subscriber[s].seen = seen /\ subscriber[s].calls = calls
        /\ subscriber'[s].seen = seen /\ subscriber'[s].calls = calls + 1
        /\ \A q \in Subscribers \ {s} : subscriber'[q] = subscriber[q]
        /\ subscriber' \in [Subscribers -> [seen : Nat, calls : Nat, awaits : BOOLEAN]]
    BY <1>0 DEF CallRecv, PubSubTypeOK
<1>2. UNCHANGED <<next_index, buffer, waiters, replies>>
    BY DEF CallRecv
<1> DEFINE new == [call |-> [who |-> s, number |-> calls + 1], desired |-> seen]
<1>3. new \in [call : Calls, desired : Nat] /\ recv_commands' = Append(recv_commands, new)
    BY <1>1 DEF CallRecv, Calls
<1>4. new.call.who = s /\ new.call.number = calls + 1 /\ new.desired = seen
    OBVIOUS
<1> HIDE DEF new
<1>5. /\ recv_commands' \in Seq([call : Calls, desired : Nat])
      /\ \A i \in DOMAIN recv_commands' :
           \/ i \in DOMAIN recv_commands /\ recv_commands'[i] = recv_commands[i]
           \/ recv_commands'[i] = new
    BY <1>0, <1>3 DEF PubSubTypeOK
<1>6. PubSubTypeOK'
    BY <1>0, <1>1, <1>2, <1>5 DEF PubSubTypeOK, Calls
<1>7. RingHolds' /\ ReplyIsMessage'
    BY <1>0, <1>2 DEF RingHolds, ReplyIsMessage
<1>8. ASSUME NEW call \in Calls, call.number <= subscriber[call.who].calls
      PROVE  /\ call.number <= subscriber'[call.who].calls
             /\ Later(call) => Awaited(call) /\ call.who # s
             /\ subscriber'[call.who].seen = subscriber[call.who].seen
  <2>1. call.who \in Subscribers /\ call.number \in Nat
    BY DEF Calls
  <2>2. CASE call.who = s
    BY <1>1, <1>8, <2>1, <2>2 DEF Awaited, Later
  <2>3. CASE call.who # s
    BY <1>1, <1>8, <2>1, <2>3 DEF Awaited, Later
  <2> QED
    BY <2>2, <2>3
<1>9. CallsWereMade'
  <2>1. new.call.number <= subscriber'[new.call.who].calls
    BY <1>1, <1>4
  <2>2. ASSUME NEW i \in DOMAIN recv_commands'
        PROVE  recv_commands'[i].call.number <= subscriber'[recv_commands'[i].call.who].calls
    <3>1. CASE i \in DOMAIN recv_commands /\ recv_commands'[i] = recv_commands[i]
      <4>1. recv_commands[i].call \in Calls
        BY <1>0, <3>1, CommandTypes
      <4> QED
        BY <1>0, <1>8, <3>1, <4>1 DEF CallsWereMade, Made
    <3>2. CASE recv_commands'[i] = new
      BY <2>1, <3>2
    <3> QED
      BY <1>5, <3>1, <3>2
  <2>3. \A w \in waiters : w \in Calls
    BY <1>0 DEF PubSubTypeOK
  <2>4. \A r \in replies : r.call \in Calls
    BY <1>0 DEF PubSubTypeOK
  <2> QED
    BY <1>0, <1>2, <1>8, <2>2, <2>3, <2>4, MadeNext DEF CallsWereMade, Made
<1>10. AwaitsTheNext'
  <2>1. \A q \in Subscribers : subscriber'[q].seen = subscriber[q].seen
    BY <1>1
  <2>2. ASSUME NEW i \in DOMAIN recv_commands', Later(recv_commands'[i].call)
        PROVE  recv_commands'[i].desired = subscriber'[recv_commands'[i].call.who].seen
    <3>1. CASE i \in DOMAIN recv_commands /\ recv_commands'[i] = recv_commands[i]
      <4>1. recv_commands[i].call \in Calls
            /\ recv_commands[i].call.number <= subscriber[recv_commands[i].call.who].calls
        BY <1>0, <3>1, CommandTypes DEF CallsWereMade, Made
      <4>2. Later(recv_commands[i].call)
        BY <2>2, <3>1
      <4>3. /\ Awaited(recv_commands[i].call)
            /\ subscriber'[recv_commands[i].call.who].seen =
                 subscriber[recv_commands[i].call.who].seen
        BY <1>8, <4>1, <4>2
      <4> QED
        BY <1>0, <3>1, <4>3 DEF AwaitsTheNext
    <3>2. CASE recv_commands'[i] = new
      BY <1>1, <1>4, <3>2
    <3> QED
      BY <1>5, <3>1, <3>2
  <2>3. ASSUME NEW w \in waiters', Later(w)
        PROVE  subscriber'[w.who].seen = next_index'
    <3>1. w \in waiters /\ w \in Calls /\ w.number <= subscriber[w.who].calls
      BY <1>0, <1>2 DEF PubSubTypeOK, CallsWereMade, Made
    <3> QED
      BY <1>0, <1>2, <1>8, <2>3, <3>1 DEF AwaitsTheNext
  <2>4. ASSUME NEW r \in replies'
        PROVE  /\ r.index < next_index'
               /\ Later(r.call) =>
                    /\ r.index >= subscriber'[r.call.who].seen
                    /\ r.index > subscriber'[r.call.who].seen =>
                         r.index + RingCapacity <= next_index'
    <3>1. r \in replies /\ r.call \in Calls /\ r.call.number <= subscriber[r.call.who].calls
      BY <1>0, <1>2 DEF PubSubTypeOK, CallsWereMade, Made
    <3> QED
      BY <1>0, <1>2, <1>8, <3>1 DEF AwaitsTheNext
  <2> QED
    BY <1>0, <1>2, <2>1, <2>2, <2>3, <2>4, AwaitsNext DEF AwaitsTheNext
<1> QED
    BY <1>6, <1>7, <1>9, <1>10 DEF PubSubInv

\* A call ends, with the message or without one.
LEMMA EndOfCallKeeps ==
    ASSUME PubSubInv, NEW s \in Subscribers, NEW seen \in Nat, seen <= next_index,
           subscriber' \in [Subscribers -> [seen : Nat, calls : Nat, awaits : BOOLEAN]],
           ~subscriber'[s].awaits, subscriber'[s].seen = seen,
           subscriber'[s].calls = subscriber[s].calls,
           \A q \in Subscribers \ {s} : subscriber'[q] = subscriber[q],
           UNCHANGED <<next_index, buffer, recv_commands, waiters, replies>>
    PROVE  PubSubInv'
<1>0. PubSubTypeOK /\ RingHolds /\ ReplyIsMessage /\ CallsWereMade /\ AwaitsTheNext
    BY DEF PubSubInv
<1>1. PubSubTypeOK' /\ RingHolds' /\ ReplyIsMessage'
    BY <1>0 DEF PubSubTypeOK, Calls, RingHolds, ReplyIsMessage
<1>2. \A call \in Calls : /\ subscriber'[call.who].calls = subscriber[call.who].calls
                          /\ Later(call) => Awaited(call) /\ call.who # s
                          /\ call.who # s => subscriber'[call.who] = subscriber[call.who]
    BY DEF Calls, Awaited, Later
<1>3. /\ \A i \in DOMAIN recv_commands : recv_commands[i].call \in Calls
      /\ \A w \in waiters : w \in Calls
      /\ \A r \in replies : r.call \in Calls
    BY <1>0, CommandTypes DEF PubSubTypeOK
<1>4. CallsWereMade'
    BY <1>0, <1>2, <1>3, MadeNext DEF CallsWereMade, Made
<1>5. AwaitsTheNext'
  <2>1. \A q \in Subscribers : subscriber'[q].seen <= next_index'
    BY <1>0 DEF AwaitsTheNext
  <2>2. \A i \in DOMAIN recv_commands' : Later(recv_commands'[i].call) =>
          recv_commands'[i].desired = subscriber'[recv_commands'[i].call.who].seen
    <3>1. ASSUME NEW i \in DOMAIN recv_commands, Later(recv_commands[i].call)
          PROVE  recv_commands[i].desired = subscriber'[recv_commands[i].call.who].seen
      BY <1>0, <1>2, <1>3, <3>1 DEF AwaitsTheNext
    <3> QED
      BY <3>1
  <2>3. \A w \in waiters' : Later(w) => subscriber'[w.who].seen = next_index'
    BY <1>0, <1>2, <1>3 DEF AwaitsTheNext
  <2>4. \A r \in replies' :
          /\ r.index < next_index'
          /\ Later(r.call) =>
               /\ r.index >= subscriber'[r.call.who].seen
               /\ r.index > subscriber'[r.call.who].seen =>
                    r.index + RingCapacity <= next_index'
    BY <1>0, <1>2, <1>3 DEF AwaitsTheNext
  <2> QED
    BY <2>1, <2>2, <2>3, <2>4, AwaitsNext
<1> QED
    BY <1>1, <1>4, <1>5 DEF PubSubInv

LEMMA CancelKeeps ==
    ASSUME PubSubInv, NEW s \in Subscribers, CancelRecv(s)
    PROVE  PubSubInv'
<1>1. subscriber[s].seen \in Nat /\ subscriber[s].seen <= next_index
    BY DEF PubSubInv, PubSubTypeOK, AwaitsTheNext
<1>2. /\ subscriber' \in [Subscribers -> [seen : Nat, calls : Nat, awaits : BOOLEAN]]
      /\ ~subscriber'[s].awaits /\ subscriber'[s].seen = subscriber[s].seen
      /\ subscriber'[s].calls = subscriber[s].calls
      /\ \A q \in Subscribers \ {s} : subscriber'[q] = subscriber[q]
      /\ UNCHANGED <<next_index, buffer, recv_commands, waiters, replies>>
    BY DEF PubSubInv, PubSubTypeOK, CancelRecv
<1> QED
    BY <1>1, <1>2, EndOfCallKeeps

\* What a call returns.
LEMMA ReturnFacts ==
    ASSUME PubSubInv, NEW s \in Subscribers, ReturnFromRecv(s)
    PROVE  \E index \in Nat :
             /\ index < next_index /\ index >= subscriber[s].seen
             /\ index > subscriber[s].seen => index + RingCapacity <= next_index
             /\ subscriber' \in [Subscribers -> [seen : Nat, calls : Nat, awaits : BOOLEAN]]
             /\ ~subscriber'[s].awaits /\ subscriber'[s].seen = index + 1
             /\ subscriber'[s].calls = subscriber[s].calls
             /\ \A q \in Subscribers \ {s} : subscriber'[q] = subscriber[q]
             /\ UNCHANGED <<next_index, buffer, recv_commands, waiters, replies>>
<1>1. PICK r \in replies :
        /\ r.call = CurrentCall(s) /\ subscriber[s].awaits
        /\ subscriber' = [subscriber EXCEPT ![s].awaits = FALSE, ![s].seen = r.index + 1]
        /\ UNCHANGED <<next_index, buffer, recv_commands, waiters, replies>>
    BY DEF ReturnFromRecv
<1>2. r.index \in Nat /\ r.index + 1 \in Nat
    BY DEF PubSubInv, PubSubTypeOK
<1>3. Awaited(r.call) /\ r.call.who = s
    BY <1>1 DEF Awaited, CurrentCall
<1>4. /\ r.index < next_index /\ r.index >= subscriber[s].seen
      /\ r.index > subscriber[s].seen => r.index + RingCapacity <= next_index
    BY <1>3 DEF PubSubInv, AwaitsTheNext
<1>5. /\ subscriber' \in [Subscribers -> [seen : Nat, calls : Nat, awaits : BOOLEAN]]
      /\ ~subscriber'[s].awaits /\ subscriber'[s].seen = r.index + 1
      /\ subscriber'[s].calls = subscriber[s].calls
      /\ \A q \in Subscribers \ {s} : subscriber'[q] = subscriber[q]
    BY <1>1, <1>2 DEF PubSubInv, PubSubTypeOK
<1> QED
    BY <1>1, <1>2, <1>4, <1>5

LEMMA ReturnKeeps ==
    ASSUME PubSubInv, NEW s \in Subscribers, ReturnFromRecv(s)
    PROVE  PubSubInv'
<1>1. PICK index \in Nat :
        /\ index < next_index
        /\ subscriber' \in [Subscribers -> [seen : Nat, calls : Nat, awaits : BOOLEAN]]
        /\ ~subscriber'[s].awaits /\ subscriber'[s].seen = index + 1
        /\ subscriber'[s].calls = subscriber[s].calls
        /\ \A q \in Subscribers \ {s} : subscriber'[q] = subscriber[q]
        /\ UNCHANGED <<next_index, buffer, recv_commands, waiters, replies>>
    BY ReturnFacts
<1>2. index + 1 \in Nat /\ index + 1 <= next_index
    BY <1>1 DEF PubSubInv, PubSubTypeOK
<1> QED
    BY <1>1, <1>2, EndOfCallKeeps

LEMMA PubSubNextKeeps == PubSubInv /\ [PubSubNext]_pubsubVars => PubSubInv'
<1> SUFFICES ASSUME PubSubInv, [PubSubNext]_pubsubVars
             PROVE  PubSubInv'
    OBVIOUS
<1>1. CASE UNCHANGED pubsubVars
    BY <1>1 DEF pubsubVars, PubSubInv, PubSubTypeOK, Calls, RingHolds, ReplyIsMessage,
                CallsWereMade, AwaitsTheNext, Made, Awaited
<1> QED
    BY <1>1, InsertKeeps, RespondKeeps, CallKeeps, CancelKeeps, ReturnKeeps DEF PubSubNext

\* The ring of a topic answers with the message asked for, and a call that was not
\* dropped with the first one its subscriber can still have (MessageRing, RecvBuffer),
\* for every capacity and any number of messages, subscribers, calls and dropped calls.
THEOREM PubSubCorrect == PubSubSpec => []PubSubInv
<1> QED
    BY PubSubInitHolds, PubSubNextKeeps, PTL DEF PubSubSpec

\* Over recv calls that are dropped at any time a subscriber sees the messages in order
\* and misses only those that were overwritten before it asked.
THEOREM MissesCorrect == PubSubSpec => MissesOnlyOverwritten
<1> DEFINE A == \A s \in Subscribers :
                  subscriber'[s].seen # subscriber[s].seen =>
                    /\ subscriber'[s].seen > subscriber[s].seen
                    /\ subscriber'[s].seen - 1 > subscriber[s].seen
                         => subscriber'[s].seen - 1 + RingCapacity <= next_index
<1>1. ASSUME PubSubInv, [PubSubNext]_pubsubVars
      PROVE  [A]_pubsubVars
  <2>0. \A q \in Subscribers : subscriber[q].seen \in Nat
    BY <1>1 DEF PubSubInv, PubSubTypeOK
  <2>1. CASE UNCHANGED subscriber
    BY <2>1
  <2>2. ASSUME NEW s \in Subscribers, CallRecv(s) \/ CancelRecv(s)
        PROVE  A
    <3>0. subscriber \in [Subscribers -> [seen : Nat, calls : Nat, awaits : BOOLEAN]]
      BY <1>1 DEF PubSubInv, PubSubTypeOK
    <3>1. \A q \in Subscribers : subscriber'[q].seen = subscriber[q].seen
      <4>1. CASE CallRecv(s)
        <5>1. subscriber' = [subscriber EXCEPT ![s].awaits = TRUE, ![s].calls = @ + 1]
          BY <4>1 DEF CallRecv
        <5> QED
          BY <3>0, <5>1
      <4>2. CASE CancelRecv(s)
        <5>1. subscriber' = [subscriber EXCEPT ![s].awaits = FALSE]
          BY <4>2 DEF CancelRecv
        <5> QED
          BY <3>0, <5>1
      <4> QED
        BY <2>2, <4>1, <4>2
    <3> QED
      BY <3>1
  <2>3. ASSUME NEW s \in Subscribers, ReturnFromRecv(s)
        PROVE  A
    <3>1. PICK index \in Nat :
            /\ index >= subscriber[s].seen
            /\ index > subscriber[s].seen => index + RingCapacity <= next_index
            /\ subscriber'[s].seen = index + 1
            /\ \A q \in Subscribers \ {s} : subscriber'[q] = subscriber[q]
      BY <1>1, <2>3, ReturnFacts
    <3>2. (index + 1) - 1 = index /\ index + 1 > subscriber[s].seen
      BY <2>0, <3>1
    <3> QED
      BY <3>1, <3>2
  <2>4. insert \/ respond_to_recv_request => UNCHANGED subscriber
    BY DEF insert, respond_to_recv_request
  <2> HIDE DEF A
  <2> QED
    BY <1>1, <2>1, <2>2, <2>3, <2>4 DEF PubSubNext, pubsubVars
<1> QED
    BY <1>1, PubSubCorrect, PTL DEF PubSubSpec, MissesOnlyOverwritten

-----------------------------------------------------------------------------
(* The pool.                                                               *)

LEMMA PoolInitInv == PoolInit => PoolInv
<1> SUFFICES ASSUME PoolInit PROVE PoolInv
    OBVIOUS
<1>1. PoolTypeOK
    BY DEF PoolInit, PoolTypeOK, PartlyTo, Connections
<1>2. /\ NumbersDiffer /\ HandlesAreLive /\ RedundantBacks /\ DialsUnderWay
      /\ WaitersHaveDial
    BY DEF PoolInit, NumbersDiffer, Loops, HandlesAreLive, RedundantBacks, DialsUnderWay,
           WaitersHaveDial
<1> QED
    BY <1>1, <1>2 DEF PoolInv

\* The event receiver changes the logical pool, its messages and nothing else.
LEMMA EventsKeep ==
    ASSUME PoolInv, UNCHANGED epVars,
           \/ UNCHANGED request
           \/ \E r \in Requests : request' = [request EXCEPT ![r] = "sent"],
           PartlyTo(logical', Entries),
           \A p \in DOMAIN logical' : logical'[p].pinned \/ logical'[p].from_topology,
           \A t \in ep_tasks' : /\ t.kind = "update" => t.keep \subseteq PoolPeers
                                /\ t.kind = "add" => t.peer \in PoolPeers
                                /\ t.kind = "request" => t.r \in Requests
    PROVE  PoolInv'
<1>1. PoolTypeOK'
    BY DEF PoolInv, PoolTypeOK, PartlyTo, Connections, epVars, Entries
<1>2. /\ NumbersDiffer' /\ HandlesAreLive' /\ RedundantBacks' /\ DialsUnderWay'
    BY DEF PoolInv, epVars, NumbersDiffer, Loops, HandlesAreLive, RedundantBacks, DialsUnderWay
<1>3. WaitersHaveDial'
    BY DEF PoolInv, epVars, WaitersHaveDial, PoolTypeOK
<1> QED
    BY <1>1, <1>2, <1>3 DEF PoolInv

LEMMA PinKeeps ==
    ASSUME NEW lp, PartlyTo(lp, Entries), NEW p \in PoolPeers,
           \A q \in DOMAIN lp : lp[q].pinned \/ lp[q].from_topology
    PROVE  LET new == pin_connection(lp, p)
           IN /\ PartlyTo(new, Entries)
              /\ \A q \in DOMAIN new : new[q].pinned \/ new[q].from_topology
    BY DEF PartlyTo, Entries, pin_connection, PutAt

LEMMA UpdateConnectionsKeeps ==
    ASSUME PoolInv, NEW peers \in Topologies, UpdateConnections(peers)
    PROVE  PoolInv'
<1> DEFINE staying == {p \in DOMAIN logical : p \in peers \/ logical[p].pinned}
           lp == [p \in staying \cup peers |->
                    [pinned |-> p \in DOMAIN logical /\ logical[p].pinned,
                     from_topology |-> \/ p \in peers
                                       \/ p \in DOMAIN logical /\ logical[p].from_topology]]
<1>1. peers \subseteq PoolPeers
    BY PoolAssumption
<1>2. logical' = lp
    BY DEF UpdateConnections
<1>3. /\ PartlyTo(logical, Entries)
      /\ \A p \in DOMAIN logical : logical[p].pinned \/ logical[p].from_topology
    BY DEF PoolInv, PoolTypeOK
<1>4. PartlyTo(lp, Entries)
    BY <1>1, <1>3 DEF PartlyTo, Entries
<1>5. \A p \in DOMAIN lp : lp[p].pinned \/ lp[p].from_topology
    BY <1>3
<1>6. \A t \in ep_tasks' : t \in ep_tasks \/ (t.kind = "update" /\ t.keep = DOMAIN lp)
    BY DEF UpdateConnections
<1>7. DOMAIN lp \subseteq PoolPeers
    BY <1>4 DEF PartlyTo
<1>8. \A t \in ep_tasks' : /\ t.kind = "update" => t.keep \subseteq PoolPeers
                           /\ t.kind = "add" => t.peer \in PoolPeers
                           /\ t.kind = "request" => t.r \in Requests
    BY <1>6, <1>7 DEF PoolInv, PoolTypeOK
<1>9. UNCHANGED epVars /\ UNCHANGED request
    BY DEF UpdateConnections
<1> QED
    BY <1>2, <1>4, <1>5, <1>8, <1>9, EventsKeep

LEMMA PoolRequestKeeps ==
    ASSUME PoolInv, NEW r \in Requests, PoolRequest(r)
    PROVE  PoolInv'
<1>1. Dst[r] \in PoolPeers
    BY PoolAssumption
<1>2. /\ PartlyTo(logical, Entries)
      /\ \A p \in DOMAIN logical : logical[p].pinned \/ logical[p].from_topology
    BY DEF PoolInv, PoolTypeOK
<1>3. /\ PartlyTo(logical', Entries)
      /\ \A p \in DOMAIN logical' : logical'[p].pinned \/ logical'[p].from_topology
    BY <1>1, <1>2, PinKeeps DEF PoolRequest
<1>4. \A t \in ep_tasks' : /\ t.kind = "update" => t.keep \subseteq PoolPeers
                           /\ t.kind = "add" => t.peer \in PoolPeers
                           /\ t.kind = "request" => t.r \in Requests
    BY DEF PoolInv, PoolTypeOK, PoolRequest
<1>5. UNCHANGED epVars /\ request' = [request EXCEPT ![r] = "sent"]
    BY DEF PoolRequest
<1> QED
    BY <1>3, <1>4, <1>5, EventsKeep

LEMMA RequestReceivedKeeps ==
    ASSUME PoolInv, NEW p \in PoolPeers, RequestReceived(p) \/ HandleNewConnection(p)
    PROVE  PoolInv'
<1>1. /\ PartlyTo(logical, Entries)
      /\ \A q \in DOMAIN logical : logical[q].pinned \/ logical[q].from_topology
    BY DEF PoolInv, PoolTypeOK
<1>2. \/ logical' = pin_connection(logical, p)
      \/ logical' = logical
    BY DEF RequestReceived, HandleNewConnection
<1>3. /\ PartlyTo(logical', Entries)
      /\ \A q \in DOMAIN logical' : logical'[q].pinned \/ logical'[q].from_topology
    BY <1>1, <1>2, PinKeeps
<1>4. \A t \in ep_tasks' : /\ t.kind = "update" => t.keep \subseteq PoolPeers
                           /\ t.kind = "add" => t.peer \in PoolPeers
                           /\ t.kind = "request" => t.r \in Requests
    BY DEF PoolInv, PoolTypeOK, RequestReceived, HandleNewConnection
<1>5. UNCHANGED epVars /\ UNCHANGED request
    BY DEF RequestReceived, HandleNewConnection
<1> QED
    BY <1>3, <1>4, <1>5, EventsKeep

LEMMA HandleClosedKeeps ==
    ASSUME PoolInv, NEW p \in PoolPeers, HandleClosedConnection(p)
    PROVE  PoolInv'
<1>1. /\ PartlyTo(logical, Entries)
      /\ \A q \in DOMAIN logical : logical[q].pinned \/ logical[q].from_topology
    BY DEF PoolInv, PoolTypeOK
<1>2. logical' = clean(p)
    BY DEF HandleClosedConnection
<1>3. /\ PartlyTo(clean(p), Entries)
      /\ \A q \in DOMAIN clean(p) : clean(p)[q].pinned \/ clean(p)[q].from_topology
    BY <1>1 DEF clean, PartlyTo, Entries, Minus, Restrict
<1>4. \A t \in ep_tasks' : /\ t.kind = "update" => t.keep \subseteq PoolPeers
                           /\ t.kind = "add" => t.peer \in PoolPeers
                           /\ t.kind = "request" => t.r \in Requests
    BY DEF PoolInv, PoolTypeOK, HandleClosedConnection, RetryTask
<1>5. UNCHANGED epVars /\ UNCHANGED request
    BY DEF HandleClosedConnection
<1> QED
    BY <1>2, <1>3, <1>4, <1>5, EventsKeep

DialRecords(last) == [peer : PoolPeers, n : 1 .. last, st : {"dialing", "connected", "failed"}]

\* The dials of ds are those in progress, whatever became of them.
Redialed(ds) ==
    /\ ds \subseteq DialRecords(next_conn)
    /\ \A d, e \in ds : d.n = e.n => d = e
    /\ \A e \in ds : \E d \in dials : e.peer = d.peer /\ e.n = d.n
    /\ \A d \in dials : \E e \in ds : e.peer = d.peer /\ e.n = d.n

\* pd remembers some of the dials that are remembered.
Remembers(pd) ==
    /\ DOMAIN pd \subseteq DOMAIN pending_dial /\ pd \in [DOMAIN pd -> 1 .. next_conn]
    /\ \A p \in DOMAIN pd : pd[p] = pending_dial[p]

LEMMA DialsAreRedialed == PoolInv => Redialed(dials) /\ Remembers(pending_dial)
    BY DEF PoolInv, PoolTypeOK, NumbersDiffer, Redialed, Remembers, DialRecords, PartlyTo

LEMMA CancelledRedials ==
    ASSUME PoolInv, NEW S
    PROVE  Redialed(Cancelled(S)) /\ Remembers(Minus(pending_dial, S))
<1>1. /\ dials \subseteq DialRecords(next_conn)
      /\ \A d, e \in dials : d.n = e.n => d = e
    BY DEF PoolInv, PoolTypeOK, NumbersDiffer, DialRecords
<1> DEFINE hit(d) == /\ d.st = "dialing" /\ d.peer \in S \cap DOMAIN pending_dial
                     /\ pending_dial[d.peer] = d.n
           after(d) == IF hit(d) THEN [d EXCEPT !.st = "failed"] ELSE d
<1>2. Cancelled(S) = {after(d) : d \in dials}
    BY DEF Cancelled
<1>3. \A d \in dials : /\ after(d) \in DialRecords(next_conn)
                       /\ after(d).peer = d.peer /\ after(d).n = d.n
    BY <1>1 DEF DialRecords
<1> HIDE DEF after
<1>4. Redialed(Cancelled(S))
    BY <1>1, <1>2, <1>3 DEF Redialed
<1>5. Remembers(Minus(pending_dial, S))
    BY DEF PoolInv, PoolTypeOK, PartlyTo, Remembers, Minus, Restrict
<1> QED
    BY <1>4, <1>5

\* The new peers are dialed under the numbers that order gives them.
Numbered(new, order, ds, pd) ==
    /\ order \in [new -> next_conn + 1 .. next_conn'] /\ IsInjective(order)
    /\ next_conn' \in Nat /\ next_conn <= next_conn'
    /\ dials' = ds \cup {[peer |-> p, n |-> order[p], st |-> "dialing"] : p \in new}
    /\ pending_dial' = [p \in DOMAIN pd \cup new |-> IF p \in new THEN order[p] ELSE pd[p]]
    /\ refused' = refused \ new

\* A dial of some peers numbers the new dials from next_conn on.
LEMMA DialAdds ==
    ASSUME PoolInv, NEW peers \in SUBSET PoolPeers, NEW ds, NEW pd, Dial(peers, ds, pd)
    PROVE  \E order : Numbered(peers \ DOMAIN pd, order, ds, pd)
<1> DEFINE new == peers \ DOMAIN pd
<1>1. IsFiniteSet(new)
  <2>1. new \in SUBSET PoolPeers
    OBVIOUS
  <2> QED
    BY <2>1, FS_Subset, PoolAssumption
<1>2. PICK k \in Nat : k = Cardinality(new)
    BY <1>1, FS_CardinalityType
<1>3. PICK order \in Bijection(new, next_conn + 1 .. next_conn + Cardinality(new)) :
         /\ dials' = ds \cup {[peer |-> p, n |-> order[p], st |-> "dialing"] : p \in new}
         /\ pending_dial' = [p \in DOMAIN pd \cup new |-> IF p \in new THEN order[p] ELSE pd[p]]
    BY DEF Dial
<1>4. next_conn' = next_conn + k /\ next_conn \in Nat
    BY <1>2 DEF Dial, PoolInv, PoolTypeOK
<1>5. order \in [new -> next_conn + 1 .. next_conn'] /\ IsInjective(order)
    BY <1>2, <1>3, <1>4 DEF Bijection, Injection
<1>6. next_conn' \in Nat /\ next_conn <= next_conn' /\ refused' = refused \ new
    BY <1>4 DEF Dial
<1> QED
    BY <1>3, <1>5, <1>6 DEF Numbered

\* What a handler that dials leaves behind.
LEMMA DialKeeps ==
    ASSUME PoolInv, NEW peers \in SUBSET PoolPeers, NEW ds, NEW pd, Dial(peers, ds, pd),
           Redialed(ds), Remembers(pd),
           PartlyTo(pool', 1 .. next_conn), PartlyTo(redundant_pool', 1 .. next_conn),
           \A p \in DOMAIN pool' : p \in DOMAIN pool /\ pool'[p] = pool[p],
           \A p \in DOMAIN redundant_pool' :
               p \in DOMAIN redundant_pool /\ redundant_pool'[p] = redundant_pool[p],
           \A p \in DOMAIN redundant_pool' : p \in DOMAIN pool => p \in DOMAIN pool',
           request' \in [Requests -> {"new", "sent", "waiting", "ended"}],
           \A r \in Requests : request'[r] = "waiting" =>
               Dst[r] \notin DOMAIN pool' /\ (request[r] = "waiting" \/ Dst[r] \in peers),
           ep_tasks' \subseteq ep_tasks, UNCHANGED <<logical, open_conns, finished>>
    PROVE  PoolInv'
<1> DEFINE new == peers \ DOMAIN pd
<1>0. PICK order : Numbered(new, order, ds, pd)
    BY DialAdds
<1>1. /\ order \in [new -> next_conn + 1 .. next_conn'] /\ IsInjective(order)
      /\ next_conn' \in Nat /\ next_conn <= next_conn'
      /\ dials' = ds \cup {[peer |-> p, n |-> order[p], st |-> "dialing"] : p \in new}
      /\ pending_dial' = [p \in DOMAIN pd \cup new |->
                               IF p \in new THEN order[p] ELSE pd[p]]
      /\ refused' = refused \ new
    BY <1>0 DEF Numbered
<1>2. next_conn \in Nat /\ 1 .. next_conn \subseteq 1 .. next_conn'
    BY <1>1 DEF PoolInv, PoolTypeOK
<1>3. \A p \in new : /\ order[p] \in 1 .. next_conn' /\ order[p] \notin 1 .. next_conn
                     /\ [peer |-> p, n |-> order[p], st |-> "dialing"] \in DialRecords(next_conn')
    BY <1>1, <1>2 DEF DialRecords
<1>4. dials' \subseteq DialRecords(next_conn')
    BY <1>1, <1>2, <1>3 DEF DialRecords, Redialed
<1>5. PartlyTo(pending_dial', 1 .. next_conn')
    BY <1>1, <1>2, <1>3 DEF PartlyTo, Remembers, PoolInv, PoolTypeOK
<1>6. PartlyTo(pool', 1 .. next_conn') /\ PartlyTo(redundant_pool', 1 .. next_conn')
    BY <1>2 DEF PartlyTo
<1>7. open_conns' \subseteq Connections' /\ finished' \subseteq Connections'
    BY <1>2 DEF Connections, PoolInv, PoolTypeOK
<1>8. PoolTypeOK'
    BY <1>1, <1>4, <1>5, <1>6, <1>7 DEF PoolTypeOK, PoolInv, DialRecords, PartlyTo, Entries
<1>9. NumbersDiffer'
  <2>1. \A c \in Loops : c.n \in 1 .. next_conn
    BY DEF Loops, PoolInv, PoolTypeOK, Connections
  <2>2. \A d \in ds : d.n \in 1 .. next_conn /\ \A c \in Loops : d.n # c.n
    BY DEF Redialed, DialRecords, PoolInv, NumbersDiffer
  <2>3. \A d, e \in dials' : d.n = e.n => d = e
    BY <1>1, <1>3, <2>2 DEF Redialed, IsInjective
  <2>4. \A d \in dials' : \A c \in Loops : d.n # c.n
    BY <1>1, <1>3, <2>1, <2>2
  <2>5. Loops' = Loops
    BY DEF Loops
  <2> QED
    BY <2>3, <2>4, <2>5 DEF NumbersDiffer, PoolInv
<1>10. HandlesAreLive' /\ RedundantBacks'
    BY DEF HandlesAreLive, RedundantBacks, PoolInv, Loops
<1>11. DialsUnderWay'
  <2> SUFFICES ASSUME NEW p \in DOMAIN pending_dial' \ refused'
               PROVE  \E d \in dials' : d.peer = p
    BY DEF DialsUnderWay
  <2>1. CASE p \in new
    <3> DEFINE d == [peer |-> p, n |-> order[p], st |-> "dialing"]
    <3>1. d \in dials' /\ d.peer = p
      BY <1>1, <2>1
    <3> QED
      BY <3>1
  <2>2. CASE p \notin new
    <3>1. p \in DOMAIN pending_dial \ refused
      BY <1>1, <2>2 DEF Remembers
    <3>2. PICK d \in dials : d.peer = p
      BY <3>1 DEF PoolInv, DialsUnderWay
    <3>3. PICK e \in ds : e.peer = d.peer
      BY DEF Redialed
    <3> QED
      BY <1>1, <3>2, <3>3
  <2> QED
    BY <2>1, <2>2
<1>12. WaitersHaveDial'
  <2> SUFFICES ASSUME NEW r \in Requests, request'[r] = "waiting", Dst[r] \notin refused'
               PROVE  \E d \in dials' : d.peer = Dst[r]
    BY DEF WaitersHaveDial
  <2>0. Dst[r] \in new \/ Dst[r] \notin refused
    BY <1>1
  <2>1. CASE request[r] = "waiting" /\ Dst[r] \notin new
    <3>1. PICK d \in dials : d.peer = Dst[r]
      BY <2>0, <2>1 DEF PoolInv, WaitersHaveDial
    <3>2. PICK e \in ds : e.peer = d.peer
      BY DEF Redialed
    <3> QED
      BY <1>1, <3>1, <3>2
  <2>2. CASE Dst[r] \in new
    <3> DEFINE d == [peer |-> Dst[r], n |-> order[Dst[r]], st |-> "dialing"]
    <3>1. d \in dials' /\ d.peer = Dst[r]
      BY <1>1, <2>2
    <3> QED
      BY <3>1
  <2>3. CASE Dst[r] \in DOMAIN pd
    <3>1. Dst[r] \in DOMAIN pending_dial \ refused
      BY <2>0, <2>3 DEF Remembers
    <3>2. PICK d \in dials : d.peer = Dst[r]
      BY <3>1 DEF PoolInv, DialsUnderWay
    <3>3. PICK e \in ds : e.peer = d.peer
      BY DEF Redialed
    <3> QED
      BY <1>1, <3>2, <3>3
  <2> QED
    BY <2>1, <2>2, <2>3
<1> QED
    BY <1>8, <1>9, <1>10, <1>11, <1>12 DEF PoolInv

LEMMA HandleUpdateKeeps ==
    ASSUME PoolInv, NEW t \in ep_tasks, HandleUpdate(t)
    PROVE  PoolInv'
<1> DEFINE stay == Minus(pool, t.drop)
           peers == (t.keep \cap DialedPeers) \ DOMAIN stay
<1>1. peers \in SUBSET PoolPeers
    BY PoolAssumption
<1>2. Dial(peers, Cancelled(t.drop), Minus(pending_dial, t.drop))
    BY DEF HandleUpdate
<1>3. Redialed(Cancelled(t.drop)) /\ Remembers(Minus(pending_dial, t.drop))
    BY CancelledRedials
<1>4. pool' = Minus(pool, t.drop) /\ redundant_pool' = Minus(redundant_pool, t.drop)
    BY DEF HandleUpdate
<1>5. PartlyTo(pool', 1 .. next_conn) /\ PartlyTo(redundant_pool', 1 .. next_conn)
    BY <1>4 DEF PoolInv, PoolTypeOK, PartlyTo, Minus, Restrict
<1>6. /\ \A p \in DOMAIN pool' : p \in DOMAIN pool /\ pool'[p] = pool[p]
      /\ \A p \in DOMAIN redundant_pool' :
               p \in DOMAIN redundant_pool /\ redundant_pool'[p] = redundant_pool[p]
      /\ \A p \in DOMAIN redundant_pool' : p \in DOMAIN pool => p \in DOMAIN pool'
    BY <1>4 DEF Minus, Restrict
<1>7. request' = request /\ request \in [Requests -> {"new", "sent", "waiting", "ended"}]
    BY DEF HandleUpdate, PoolInv, PoolTypeOK
<1>8. \A r \in Requests : request'[r] = "waiting" =>
               Dst[r] \notin DOMAIN pool' /\ (request[r] = "waiting" \/ Dst[r] \in peers)
    BY <1>6, <1>7 DEF PoolInv, WaitersHaveDial
<1>9. ep_tasks' \subseteq ep_tasks /\ UNCHANGED <<logical, open_conns, finished>>
    BY DEF HandleUpdate, evVars
<1> HIDE DEF peers
<1> QED
    BY <1>1, <1>2, <1>3, <1>5, <1>6, <1>7, <1>8, <1>9, DialKeeps

LEMMA HandleAddKeeps ==
    ASSUME PoolInv, NEW t \in ep_tasks, HandleAdd(t)
    PROVE  PoolInv'
<1> DEFINE peers == ({t.peer} \cap DialedPeers) \ DOMAIN pool
<1>1. peers \in SUBSET PoolPeers
    BY PoolAssumption
<1>2. Dial(peers, dials, pending_dial)
    BY DEF HandleAdd
<1>3. UNCHANGED <<pool, redundant_pool, request, logical, open_conns, finished>>
    BY DEF HandleAdd, evVars
<1>4. /\ PartlyTo(pool', 1 .. next_conn) /\ PartlyTo(redundant_pool', 1 .. next_conn)
      /\ request' \in [Requests -> {"new", "sent", "waiting", "ended"}]
    BY <1>3 DEF PoolInv, PoolTypeOK
<1>5. \A r \in Requests : request'[r] = "waiting" =>
               Dst[r] \notin DOMAIN pool' /\ (request[r] = "waiting" \/ Dst[r] \in peers)
    BY <1>3 DEF PoolInv, WaitersHaveDial
<1>6. ep_tasks' \subseteq ep_tasks
    BY DEF HandleAdd
<1> HIDE DEF peers
<1> QED
    BY <1>1, <1>2, <1>3, <1>4, <1>5, <1>6, DialKeeps, DialsAreRedialed

LEMMA HandleOutgoingRequestKeeps ==
    ASSUME PoolInv, NEW t \in ep_tasks, HandleOutgoingRequest(t)
    PROVE  PoolInv'
<1>1. t.r \in Requests /\ Dst[t.r] \in PoolPeers
    BY PoolAssumption DEF HandleOutgoingRequest, PoolInv, PoolTypeOK
<1>2. /\ UNCHANGED <<pool, redundant_pool, logical, open_conns, finished, connection_buffer>>
      /\ ep_tasks' \subseteq ep_tasks
      /\ request \in [Requests -> {"new", "sent", "waiting", "ended"}]
    BY DEF HandleOutgoingRequest, evVars, PoolInv, PoolTypeOK
<1>3. CASE Dst[t.r] \in DOMAIN pool
  <2>1. /\ request' = [request EXCEPT ![t.r] = "ended"]
        /\ UNCHANGED <<dials, pending_dial, next_conn, refused>>
    BY <1>3 DEF HandleOutgoingRequest
  <2>2. PoolTypeOK'
    BY <1>2, <2>1 DEF PoolInv, PoolTypeOK, PartlyTo, Connections, Entries
  <2>3. NumbersDiffer' /\ HandlesAreLive' /\ RedundantBacks' /\ DialsUnderWay'
    BY <1>2, <2>1 DEF PoolInv, NumbersDiffer, HandlesAreLive, RedundantBacks, DialsUnderWay, Loops
  <2>4. WaitersHaveDial'
    BY <1>2, <2>1 DEF PoolInv, WaitersHaveDial
  <2> QED
    BY <2>2, <2>3, <2>4 DEF PoolInv
<1>4. CASE Dst[t.r] \notin DOMAIN pool
  <2> DEFINE peers == {Dst[t.r]}
  <2>1. /\ request' = [request EXCEPT ![t.r] = "waiting"]
        /\ Dial(peers, dials, pending_dial)
    BY <1>4 DEF HandleOutgoingRequest
  <2>2. peers \in SUBSET PoolPeers
    BY <1>1
  <2>3. /\ PartlyTo(pool', 1 .. next_conn) /\ PartlyTo(redundant_pool', 1 .. next_conn)
        /\ request' \in [Requests -> {"new", "sent", "waiting", "ended"}]
    BY <1>2, <2>1 DEF PoolInv, PoolTypeOK
  <2>4. \A r \in Requests : request'[r] = "waiting" =>
               Dst[r] \notin DOMAIN pool' /\ (request[r] = "waiting" \/ Dst[r] \in peers)
    BY <1>2, <1>4, <2>1 DEF PoolInv, WaitersHaveDial
  <2> HIDE DEF peers
  <2> QED
    BY <1>2, <2>1, <2>2, <2>3, <2>4, DialKeeps, DialsAreRedialed
<1> QED
    BY <1>3, <1>4

\* The parts that a step of one dial or one connection leaves alone.
LEMMA DialEndsKeeps ==
    ASSUME PoolInv, NEW d \in dials, DialEnds(d)
    PROVE  PoolInv'
<1>1. PICK st \in {"connected", "failed"} :
          dials' = (dials \ {d}) \cup {[d EXCEPT !.st = st]}
    BY DEF DialEnds
<1> DEFINE new == [d EXCEPT !.st = st]
<1>2. dials \subseteq DialRecords(next_conn)
    BY DEF PoolInv, PoolTypeOK, DialRecords
<1>3. new \in DialRecords(next_conn) /\ new.peer = d.peer /\ new.n = d.n
    BY <1>2 DEF DialRecords
<1>4. UNCHANGED <<logical, ep_tasks, pending_dial, refused, pool, redundant_pool, open_conns,
                  finished, next_conn, request>>
    BY DEF DialEnds, evVars
<1> HIDE DEF new
<1>5. PoolTypeOK'
    BY <1>1, <1>2, <1>3, <1>4 DEF PoolInv, PoolTypeOK, PartlyTo, Connections, Entries, DialRecords, new
<1>6. /\ \A e \in dials' : \E x \in dials : x.peer = e.peer /\ x.n = e.n
      /\ \A x \in dials : \E e \in dials' : x.peer = e.peer /\ x.n = e.n
  <2>1. dials' = (dials \ {d}) \cup {new}
    BY <1>1 DEF new
  <2>2. ASSUME NEW e \in dials' PROVE \E x \in dials : x.peer = e.peer /\ x.n = e.n
    BY <1>3, <2>1
  <2>3. ASSUME NEW x \in dials PROVE \E e \in dials' : x.peer = e.peer /\ x.n = e.n
    BY <1>3, <2>1
  <2> QED
    BY <2>2, <2>3
<1>7. \A x, e \in dials' : x.n = e.n => x = e
  <2>1. dials' = (dials \ {d}) \cup {new}
    BY <1>1 DEF new
  <2>2. \A x \in dials \ {d} : x.n # d.n
    BY DEF PoolInv, NumbersDiffer
  <2>3. \A x, e \in dials \ {d} : x.n = e.n => x = e
    BY DEF PoolInv, NumbersDiffer
  <2> QED
    BY <1>3, <2>1, <2>2, <2>3
<1>8. NumbersDiffer' /\ HandlesAreLive' /\ RedundantBacks'
    BY <1>4, <1>6, <1>7 DEF PoolInv, NumbersDiffer, HandlesAreLive, RedundantBacks, Loops
<1>9. DialsUnderWay' /\ WaitersHaveDial'
    BY <1>4, <1>6 DEF PoolInv, DialsUnderWay, WaitersHaveDial
<1> QED
    BY <1>5, <1>8, <1>9 DEF PoolInv

LEMMA AcceptKeeps ==
    ASSUME PoolInv, NEW p \in PoolPeers, Accept(p)
    PROVE  PoolInv'
<1> DEFINE new == [peer |-> p, n |-> next_conn + 1, st |-> "connected"]
<1>1. /\ dials' = dials \cup {new} /\ next_conn' = next_conn + 1 /\ next_conn \in Nat
      /\ UNCHANGED <<logical, ep_tasks, pending_dial, refused, pool, redundant_pool,
                     open_conns, finished, request>>
    BY DEF Accept, evVars, PoolInv, PoolTypeOK
<1>2. 1 .. next_conn \subseteq 1 .. next_conn' /\ next_conn + 1 \in 1 .. next_conn'
    BY <1>1
<1>3. new \in DialRecords(next_conn') /\ new.n = next_conn + 1
    BY <1>2 DEF DialRecords
<1> HIDE DEF new
<1>4. dials' \subseteq DialRecords(next_conn')
    BY <1>1, <1>2, <1>3 DEF DialRecords, PoolInv, PoolTypeOK
<1>5. open_conns' \subseteq Connections' /\ finished' \subseteq Connections'
    BY <1>1, <1>2 DEF Connections, PoolInv, PoolTypeOK
<1>6. /\ PartlyTo(pending_dial', 1 .. next_conn')
      /\ PartlyTo(pool', 1 .. next_conn') /\ PartlyTo(redundant_pool', 1 .. next_conn')
    BY <1>1, <1>2 DEF PartlyTo, PoolInv, PoolTypeOK
<1>7. PoolTypeOK'
    BY <1>1, <1>4, <1>5, <1>6 DEF PoolTypeOK, PoolInv, DialRecords, PartlyTo, Entries
<1>8. NumbersDiffer'
  <2>1. /\ \A c \in Loops : c.n \in 1 .. next_conn
        /\ \A d \in dials : d.n \in 1 .. next_conn
    BY DEF Loops, PoolInv, PoolTypeOK, Connections
  <2>2. next_conn + 1 \notin 1 .. next_conn
    BY <1>1
  <2>3. Loops' = Loops
    BY <1>1 DEF Loops
  <2> QED
    BY <1>1, <1>3, <2>1, <2>2, <2>3 DEF NumbersDiffer, PoolInv
<1>9. HandlesAreLive' /\ RedundantBacks' /\ DialsUnderWay' /\ WaitersHaveDial'
    BY <1>1 DEF PoolInv, HandlesAreLive, RedundantBacks, Loops, DialsUnderWay, WaitersHaveDial
<1> QED
    BY <1>7, <1>8, <1>9 DEF PoolInv

\* A dial ended: those of other peers are still there.
LEMMA OtherDialsStay ==
    ASSUME PoolInv, NEW ds, Redialed(ds), NEW d \in dials,
           \A e \in ds : e \in dials' \/ e.n = d.n,
           pending_dial' = Minus(pending_dial, {d.peer}), refused' = refused \ {d.peer}
    PROVE  /\ DialsUnderWay'
           /\ \A p \in PoolPeers \ {d.peer} :
                (\E e \in dials : e.peer = p) => \E e \in dials' : e.peer = p
<1>1. \A e \in dials : e.peer # d.peer => \E x \in dials' : x.peer = e.peer /\ x.n = e.n
  <2> SUFFICES ASSUME NEW e \in dials, e.peer # d.peer
               PROVE  \E x \in dials' : x.peer = e.peer /\ x.n = e.n
    OBVIOUS
  <2>1. PICK x \in ds : x.peer = e.peer /\ x.n = e.n
    BY DEF Redialed
  <2>2. e.n # d.n
    BY DEF PoolInv, NumbersDiffer
  <2> QED
    BY <2>1, <2>2
<1>2. DialsUnderWay'
    BY <1>1 DEF PoolInv, DialsUnderWay, Minus, Restrict
<1> QED
    BY <1>1, <1>2

LEMMA DialFailedKeeps ==
    ASSUME PoolInv, NEW d \in dials, DialFailed(d)
    PROVE  PoolInv'
<1>1. /\ dials' = dials \ {d} /\ pending_dial' = Minus(pending_dial, {d.peer})
      /\ request' = EndWaiting(d.peer) /\ refused' = refused \ {d.peer}
      /\ UNCHANGED <<logical, ep_tasks, pool, redundant_pool, open_conns, finished, next_conn>>
    BY DEF DialFailed, evVars
<1>2. PartlyTo(pending_dial', 1 .. next_conn)
    BY <1>1 DEF PoolInv, PoolTypeOK, PartlyTo, Minus, Restrict
<1>3. request' \in [Requests -> {"new", "sent", "waiting", "ended"}]
    BY <1>1 DEF EndWaiting, PoolInv, PoolTypeOK
<1>4. PoolTypeOK'
    BY <1>1, <1>2, <1>3 DEF PoolTypeOK, PoolInv, PartlyTo, Entries, Connections
<1>5. NumbersDiffer' /\ HandlesAreLive' /\ RedundantBacks'
    BY <1>1 DEF PoolInv, NumbersDiffer, HandlesAreLive, RedundantBacks, Loops
<1>6. /\ DialsUnderWay'
      /\ \A p \in PoolPeers \ {d.peer} :
                (\E e \in dials : e.peer = p) => \E e \in dials' : e.peer = p
    BY <1>1, OtherDialsStay, DialsAreRedialed
<1>7. \A r \in Requests : request'[r] = "waiting" => request[r] = "waiting" /\ Dst[r] # d.peer
    BY <1>1 DEF EndWaiting, Waiting
<1>8. \A r \in Requests : Dst[r] \in PoolPeers
    BY PoolAssumption
<1>9. WaitersHaveDial'
    BY <1>1, <1>6, <1>7, <1>8 DEF PoolInv, WaitersHaveDial
<1> QED
    BY <1>4, <1>5, <1>6, <1>9 DEF PoolInv

\* A refused connection takes a dial away; what waits for it may be left without one.
LEMMA RefuseConnectionKeeps ==
    ASSUME PoolInv, NEW d \in dials, RefuseConnection(d)
    PROVE  PoolInv'
<1>1. /\ dials' = dials \ {d}
      /\ refused' = IF {e \in dials \ {d} : e.peer = d.peer} = {}
                    THEN refused \cup {d.peer} ELSE refused
      /\ UNCHANGED <<logical, ep_tasks, pending_dial, pool, redundant_pool, open_conns,
                     finished, next_conn, request>>
    BY DEF RefuseConnection, evVars
<1>2. d.peer \in PoolPeers /\ refused \subseteq PoolPeers
    BY DEF PoolInv, PoolTypeOK
<1>3. PoolTypeOK'
    BY <1>1, <1>2 DEF PoolTypeOK, PoolInv, PartlyTo, Entries, Connections
<1>4. NumbersDiffer' /\ HandlesAreLive' /\ RedundantBacks'
    BY <1>1 DEF PoolInv, NumbersDiffer, HandlesAreLive, RedundantBacks, Loops
<1>5. \A p : p \notin refused' /\ (\E e \in dials : e.peer = p) =>
              \E e \in dials' : e.peer = p
    BY <1>1
<1>6. refused \subseteq refused'
    BY <1>1
<1>7. DialsUnderWay' /\ WaitersHaveDial'
    BY <1>1, <1>5, <1>6 DEF PoolInv, DialsUnderWay, WaitersHaveDial
<1> QED
    BY <1>3, <1>4, <1>7 DEF PoolInv

LEMMA NewConnectionKeeps ==
    ASSUME PoolInv, NEW d \in dials, NewConnection(d)
    PROVE  PoolInv'
<1> DEFINE p == d.peer
           c == [peer |-> p, n |-> d.n]
           ds == Cancelled({p})
<1>1. /\ dials' = ds \ {d} /\ pending_dial' = Minus(pending_dial, {p})
      /\ refused' = refused \ {p}
      /\ UNCHANGED <<logical, ep_tasks, finished, next_conn>> /\ d.st = "connected"
    BY DEF NewConnection, evVars
<1>2. Redialed(ds)
    BY CancelledRedials
<1>3. p \in PoolPeers /\ d.n \in 1 .. next_conn /\ c \in Connections
    BY DEF PoolInv, PoolTypeOK, Connections
<1>4. c.peer = p /\ c.n = d.n
    OBVIOUS
<1>5. \A e \in ds : e.n = d.n => e = d
  <2>1. d \in ds
    <3>1. d = IF /\ d.st = "dialing" /\ d.peer \in {p} \cap DOMAIN pending_dial
                 /\ pending_dial[d.peer] = d.n
              THEN [d EXCEPT !.st = "failed"] ELSE d
      BY <1>1
    <3> QED
      BY <3>1 DEF Cancelled
  <2> QED
    BY <1>2, <2>1 DEF Redialed
<1> HIDE DEF ds, c
<1>6. /\ dials' \subseteq DialRecords(next_conn) /\ PartlyTo(pending_dial', 1 .. next_conn)
      /\ \A e, x \in dials' : e.n = x.n => e = x
      /\ \A e \in dials' : \E x \in dials : e.n = x.n /\ e.peer = x.peer
      /\ \A e \in dials' : e.n # d.n
    BY <1>1, <1>2, <1>5 DEF Redialed, PoolInv, PoolTypeOK, PartlyTo, Minus, Restrict
<1>7. /\ DialsUnderWay'
      /\ \A q \in PoolPeers \ {p} :
                (\E e \in dials : e.peer = q) => \E e \in dials' : e.peer = q
  <2>1. \A e \in ds : e \in dials' \/ e.n = d.n
    BY <1>1
  <2> QED
    BY <1>1, <1>2, <2>1, OtherDialsStay
<1>8. \A e \in dials' : \A x \in Loops : e.n # x.n
    BY <1>6 DEF PoolInv, NumbersDiffer
<1>9. \A x \in Loops : x.n # d.n
    BY DEF PoolInv, NumbersDiffer
<1>10. CASE p \in DOMAIN pool /\ p \in DOMAIN redundant_pool
  <2>1. UNCHANGED <<pool, redundant_pool, open_conns, request, ev_new>>
    BY <1>10 DEF NewConnection
  <2>2. PoolTypeOK'
    BY <1>1, <1>6, <2>1 DEF PoolTypeOK, PoolInv, PartlyTo, Entries, Connections, DialRecords
  <2>3. NumbersDiffer' /\ HandlesAreLive' /\ RedundantBacks'
    BY <1>1, <1>6, <1>8, <2>1 DEF PoolInv, NumbersDiffer, HandlesAreLive, RedundantBacks, Loops
  <2>4. \A r \in Requests : Dst[r] \in PoolPeers
    BY PoolAssumption
  <2>5. WaitersHaveDial'
    BY <1>1, <1>7, <1>10, <2>1, <2>4 DEF PoolInv, WaitersHaveDial
  <2> QED
    BY <1>7, <2>2, <2>3, <2>5 DEF PoolInv
<1>11. CASE ~(p \in DOMAIN pool /\ p \in DOMAIN redundant_pool)
  <2>1. /\ open_conns' = open_conns \cup {c} /\ request' = EndWaiting(p)
        /\ IF p \in DOMAIN pool
           THEN redundant_pool' = PutAt(redundant_pool, p, d.n) /\ UNCHANGED pool
           ELSE pool' = PutAt(pool, p, d.n) /\ UNCHANGED redundant_pool
    BY <1>11 DEF NewConnection, c
  <2>2. PartlyTo(pool', 1 .. next_conn) /\ PartlyTo(redundant_pool', 1 .. next_conn)
    BY <1>3, <2>1 DEF PoolInv, PoolTypeOK, PartlyTo, PutAt
  <2>3. request' \in [Requests -> {"new", "sent", "waiting", "ended"}]
    BY <2>1 DEF EndWaiting, PoolInv, PoolTypeOK
  <2>4. PoolTypeOK'
    BY <1>1, <1>3, <1>6, <2>1, <2>2, <2>3
       DEF PoolTypeOK, PoolInv, PartlyTo, Entries, Connections, DialRecords
  <2>5. Loops' = Loops \cup {c} /\ c \notin Loops
    BY <1>1, <1>4, <1>9, <2>1 DEF Loops
  <2>6. NumbersDiffer'
    BY <1>1, <1>4, <1>6, <1>8, <1>9, <2>1, <2>5 DEF PoolInv, NumbersDiffer, Loops
  <2>7. HandlesAreLive' /\ RedundantBacks'
    <3>1. CASE p \in DOMAIN pool
      <4>1. /\ pool' = pool /\ DOMAIN redundant_pool' = DOMAIN redundant_pool \cup {p}
            /\ redundant_pool'[p] = d.n
            /\ \A q \in DOMAIN redundant_pool : q # p => redundant_pool'[q] = redundant_pool[q]
        BY <2>1, <3>1 DEF PutAt
      <4>2. [peer |-> p, n |-> pool[p]] \in Loops
        BY <3>1 DEF PoolInv, HandlesAreLive
      <4>3. pool[p] # d.n
        BY <1>9, <4>2
      <4> QED
        BY <2>5, <3>1, <4>1, <4>3 DEF PoolInv, HandlesAreLive, RedundantBacks, c
    <3>2. CASE p \notin DOMAIN pool
      <4>1. /\ redundant_pool' = redundant_pool /\ DOMAIN pool' = DOMAIN pool \cup {p}
            /\ pool'[p] = d.n
            /\ \A q \in DOMAIN pool : pool'[q] = pool[q]
        BY <2>1, <3>2 DEF PutAt
      <4> QED
        BY <2>5, <3>2, <4>1 DEF PoolInv, HandlesAreLive, RedundantBacks, c
    <3> QED
      BY <3>1, <3>2
  <2>8. \A r \in Requests : request'[r] = "waiting" => request[r] = "waiting" /\ Dst[r] # p
    BY <2>1 DEF EndWaiting, Waiting
  <2>9. \A r \in Requests : Dst[r] \in PoolPeers
    BY PoolAssumption
  <2>10. \A q \in DOMAIN pool' : q = p \/ q \in DOMAIN pool
    BY <2>1 DEF PutAt
  <2>11. WaitersHaveDial'
    BY <1>1, <1>7, <2>8, <2>9, <2>10 DEF PoolInv, WaitersHaveDial
  <2> QED
    BY <1>7, <2>4, <2>6, <2>7, <2>11 DEF PoolInv
<1> QED
    BY <1>10, <1>11

LEMMA ConnectionEndsKeeps ==
    ASSUME PoolInv, NEW c \in open_conns, ConnectionEnds(c)
    PROVE  PoolInv'
<1>1. /\ open_conns' = open_conns \ {c} /\ finished' = finished \cup {c}
      /\ UNCHANGED <<logical, ep_tasks, dials, pending_dial, refused, pool, redundant_pool,
                     next_conn, request>>
    BY DEF ConnectionEnds, evVars
<1>2. PoolTypeOK'
    BY <1>1 DEF PoolTypeOK, PoolInv, PartlyTo, Entries, Connections
<1>3. Loops' = Loops /\ open_conns' \cap finished' = {}
    BY <1>1 DEF Loops, PoolInv, NumbersDiffer
<1>4. NumbersDiffer' /\ HandlesAreLive'
    BY <1>1, <1>3 DEF PoolInv, NumbersDiffer, HandlesAreLive
<1>5. RedundantBacks' /\ DialsUnderWay' /\ WaitersHaveDial'
    BY <1>1 DEF PoolInv, RedundantBacks, DialsUnderWay, WaitersHaveDial
<1> QED
    BY <1>2, <1>4, <1>5 DEF PoolInv

LEMMA ConnectionFinishedKeeps ==
    ASSUME PoolInv, NEW c \in finished, ConnectionFinished(c)
    PROVE  PoolInv'
<1> DEFINE p == c.peer
           main == p \in DOMAIN pool /\ pool[p] = c.n
           spare == p \in DOMAIN redundant_pool
<1>1. /\ finished' = finished \ {c}
      /\ UNCHANGED <<logical, ep_tasks, dials, pending_dial, refused, open_conns, next_conn,
                     request>>
      /\ pool' = Collect(c).main /\ redundant_pool' = Collect(c).redundant
    BY DEF ConnectionFinished, evVars
<1>2. pool' = CASE main /\ spare -> [pool EXCEPT ![p] = redundant_pool[p]]
                [] main /\ ~spare -> Minus(pool, {p})
                [] OTHER -> pool
    BY <1>1 DEF Collect
<1>3. redundant_pool' = IF spare /\ (main \/ redundant_pool[p] = c.n)
                        THEN Minus(redundant_pool, {p}) ELSE redundant_pool
    BY <1>1 DEF Collect
<1>4. /\ PartlyTo(pool, 1 .. next_conn) /\ PartlyTo(redundant_pool, 1 .. next_conn)
      /\ HandlesAreLive /\ RedundantBacks
    BY DEF PoolInv, PoolTypeOK
<1>5. PartlyTo(pool', 1 .. next_conn) /\ PartlyTo(redundant_pool', 1 .. next_conn)
    BY <1>2, <1>3, <1>4 DEF PartlyTo, Minus, Restrict
<1>6. PoolTypeOK'
    BY <1>1, <1>5 DEF PoolTypeOK, PoolInv, PartlyTo, Entries, Connections
<1>7. c \in Loops /\ c \notin open_conns /\ Loops' = Loops \ {c}
    BY <1>1 DEF Loops, PoolInv, NumbersDiffer
<1>8. NumbersDiffer'
    BY <1>1, <1>7 DEF PoolInv, NumbersDiffer, Loops
<1>9. DialsUnderWay'
    BY <1>1 DEF PoolInv, DialsUnderWay
<1>10. DOMAIN pool' \subseteq DOMAIN pool
    BY <1>2 DEF Minus, Restrict
<1>11. WaitersHaveDial'
    BY <1>1, <1>10 DEF PoolInv, WaitersHaveDial
<1>12. \A q \in PoolPeers, n \in 1 .. next_conn :
          [peer |-> q, n |-> n] \in Loops /\ ~(q = p /\ n = c.n) => [peer |-> q, n |-> n] \in Loops'
  <2>1. c = [peer |-> p, n |-> c.n]
    BY DEF PoolInv, PoolTypeOK, Connections
  <2> QED
    BY <1>7, <2>1
<1>13. HandlesAreLive' /\ RedundantBacks'
  <2>1. CASE main /\ spare
    <3>1. /\ DOMAIN pool' = DOMAIN pool /\ pool'[p] = redundant_pool[p]
          /\ \A q \in DOMAIN pool : q # p => pool'[q] = pool[q]
          /\ DOMAIN redundant_pool' = DOMAIN redundant_pool \ {p}
          /\ \A q \in DOMAIN redundant_pool' : redundant_pool'[q] = redundant_pool[q]
          /\ redundant_pool[p] # c.n
      BY <1>2, <1>3, <1>4, <2>1 DEF Minus, Restrict, RedundantBacks
    <3>2. HandlesAreLive'
      BY <1>4, <1>12, <2>1, <3>1 DEF HandlesAreLive, PartlyTo
    <3> QED
      BY <1>4, <3>1, <3>2 DEF RedundantBacks
  <2>2. CASE main /\ ~spare
    <3>1. /\ DOMAIN pool' = DOMAIN pool \ {p}
          /\ \A q \in DOMAIN pool' : pool'[q] = pool[q]
          /\ redundant_pool' = redundant_pool
      BY <1>2, <1>3, <2>2 DEF Minus, Restrict
    <3>2. HandlesAreLive'
      BY <1>4, <1>12, <2>2, <3>1 DEF HandlesAreLive, PartlyTo
    <3> QED
      BY <1>4, <2>2, <3>1, <3>2 DEF RedundantBacks
  <2>3. CASE ~main
    <3>1. /\ pool' = pool
          /\ DOMAIN redundant_pool' \subseteq DOMAIN redundant_pool
          /\ \A q \in DOMAIN redundant_pool' : redundant_pool'[q] = redundant_pool[q]
          /\ p \in DOMAIN redundant_pool' => redundant_pool[p] # c.n
      BY <1>2, <1>3, <2>3 DEF Minus, Restrict
    <3>2. HandlesAreLive'
      BY <1>4, <1>12, <2>3, <3>1 DEF HandlesAreLive, PartlyTo
    <3> QED
      BY <1>4, <3>1, <3>2 DEF RedundantBacks
  <2> QED
    BY <2>1, <2>2, <2>3
<1> QED
    BY <1>6, <1>8, <1>9, <1>11, <1>13 DEF PoolInv

LEMMA PoolStutters ==
    ASSUME PoolInv,
           UNCHANGED <<logical, ep_tasks, dials, pending_dial, refused, pool, redundant_pool,
                       open_conns, finished, next_conn, request>>
    PROVE  PoolInv'
    BY DEF PoolInv, PoolTypeOK, PartlyTo, Connections, Entries, NumbersDiffer, Loops,
           HandlesAreLive, RedundantBacks, DialsUnderWay, WaitersHaveDial

LEMMA PoolStepKeeps == PoolInv /\ [PoolNext]_poolVars => PoolInv'
<1> SUFFICES ASSUME PoolInv, [PoolNext]_poolVars PROVE PoolInv'
    OBVIOUS
<1>1. CASE UNCHANGED poolVars
    BY <1>1, PoolStutters DEF poolVars, evVars, epVars
<1>2. CASE EventStep
    BY <1>2, RequestReceivedKeeps, HandleClosedKeeps DEF EventStep
<1>3. CASE EndpointStep
  <2>1. CASE GracePeriodEnds
    BY <2>1, PoolStutters DEF GracePeriodEnds, evVars
  <2>2. CASE \E t \in ep_tasks : HandleUpdate(t) \/ HandleAdd(t) \/ HandleOutgoingRequest(t)
    BY <2>2, HandleUpdateKeeps, HandleAddKeeps, HandleOutgoingRequestKeeps
  <2>3. CASE \E d \in dials : NewConnection(d) \/ DialFailed(d) \/ DialEnds(d)
    BY <2>3, NewConnectionKeeps, DialFailedKeeps, DialEndsKeeps
  <2>4. CASE \E c \in open_conns : ~HasHandle(c) /\ ConnectionEnds(c)
    BY <2>4, ConnectionEndsKeeps
  <2>5. CASE \E c \in finished : ConnectionFinished(c)
    BY <2>5, ConnectionFinishedKeeps
  <2> QED
    BY <1>3, <2>1, <2>2, <2>3, <2>4, <2>5 DEF EndpointStep
<1>4. CASE \E peers \in Topologies : UpdateConnections(peers)
    BY <1>4, UpdateConnectionsKeeps
<1>5. CASE \E r \in Requests : PoolRequest(r)
    BY <1>5, PoolRequestKeeps
<1>6. CASE \E p \in PoolPeers : RequestReceived(p) \/ Accept(p)
    BY <1>6, RequestReceivedKeeps, AcceptKeeps
<1>7. CASE \E c \in open_conns : HasHandle(c) /\ ConnectionEnds(c)
    BY <1>7, ConnectionEndsKeeps
<1>8. CASE \E d \in dials : RefuseConnection(d)
    BY <1>8, RefuseConnectionKeeps
<1> QED
    BY <1>1, <1>2, <1>3, <1>4, <1>5, <1>6, <1>7, <1>8 DEF PoolNext

\* The endpoint's tables agree, whatever is dialed, accepted, refused, cancelled, closed or
\* dropped and in whatever order the two loops hear of it: a request that waits has a dial
\* that will answer it unless a connection of its peer was refused, a redundant connection backs another one, and the pool hands out no
\* connection that was collected.
THEOREM PoolTablesAgree == PoolSpec => []PoolInv
<1> QED
    BY PoolInitInv, PoolStepKeeps, PTL DEF PoolSpec

-----------------------------------------------------------------------------
(* The fetcher.                                                            *)

FetchCalls == [pc : Ended \cup {"start", "peer", "origin", "origin_wait"},
          round : 0 .. NumPeers + NumOrigins, ask : SUBSET Hashes, wait : SUBSET Hashes]

\* What the invariant says of one call, given what is stored and who was asked.
CoversContent(fe, h, bs) ==
    \E S \in SUBSET bs : /\ h \in S \cup fe.ask \cup fe.wait
                         /\ \A k \in S : Children[k] \subseteq S \cup fe.ask \cup fe.wait

Owed(h, f, round, inbox, pend) ==
    \/ [hash |-> h, fetch |-> f, round |-> round] \in inbox
    \/ h \in DOMAIN pend /\ [fetch |-> f, round |-> round] \in pend[h]

CallHolds(f, fe, bs, inbox, pend) ==
    /\ fe \in FetchCalls
    /\ fe.pc = "peer" => /\ fe.round < NumPeers /\ CoversContent(fe, Want[f], bs)
                         /\ \A h \in fe.wait : Owed(h, f, fe.round, inbox, pend)
    /\ fe.pc \in {"origin", "origin_wait"} => fe.round < NumOrigins
    /\ fe.pc \in {"from_peer", "from_origin"} => Whole(Want[f]) \subseteq bs
    /\ fe.pc \in {"cached", "found"} => Want[f] \in bs

Linked(f, fe, op) ==
    /\ \A p \in DOMAIN op : f \in op[p] => fe.pc = "origin_wait" /\ p = <<Want[f], fe.round>>
    /\ fe.pc = "origin_wait" => /\ <<Want[f], fe.round>> \in DOMAIN op
                                /\ f \in op[<<Want[f], fe.round>>]

\* What it says of the server's tables and of the origin fetcher's.
ServerTables(bs, inbox, pend, queue, tasks, orph) ==
    /\ bs \subseteq Hashes /\ inbox \subseteq [hash : Hashes, fetch : Fetches, round : Nat]
    /\ DOMAIN pend \subseteq Hashes /\ \A h \in DOMAIN pend : pend[h] \subseteq Receivers
    /\ queue \in Seq(Hashes) /\ DOMAIN tasks \subseteq Hashes
    /\ \A h \in DOMAIN tasks : tasks[h] \in {"running", "ok", "err", "panic"}
    /\ \A h \in DOMAIN tasks : tasks[h] = "ok" => h \in bs
    /\ DOMAIN pend = DOMAIN tasks \cup ToSet(queue) \cup orph
    /\ DOMAIN tasks \cap (ToSet(queue) \cup orph) = {}

OriginTables(bs, op, queue, tasks) ==
    /\ DOMAIN op \subseteq Pointers /\ \A p \in DOMAIN op : op[p] \subseteq Fetches
    /\ queue \in Seq(Pointers)
    /\ \A p \in DOMAIN tasks : tasks[p] \in {"running", "ok", "other", "err"}
    /\ \A p \in DOMAIN tasks : tasks[p] = "ok" => Whole(p[1]) \subseteq bs
    /\ IsFiniteSet(DOMAIN tasks) /\ Cardinality(DOMAIN tasks) <= OriginCapacity
    /\ DOMAIN op = DOMAIN tasks \cup ToSet(queue)
    /\ DOMAIN tasks \cap ToSet(queue) = {} /\ IsInjective(queue)

ContentHolds ==
    /\ server_up \in BOOLEAN /\ fetch \in [Fetches -> FetchCalls]
    /\ ServerTables(blockstore, inbox_bs, pending_requests, bs_queue, bs_tasks, orphans)
    /\ OriginTables(blockstore, origin_pending, origin_queue, origin_tasks)
    /\ \A f \in Fetches :
         /\ CallHolds(f, fetch[f], blockstore, inbox_bs, pending_requests)
         /\ Linked(f, fetch[f], origin_pending)

\* What is missing below a directory is owed to somebody.
OwesChild(d, k, calls, tasks) ==
    \/ d \in DOMAIN tasks /\ tasks[d] = "ok"
    \/ \E f \in Fetches :
         /\ d \in Whole(Want[f])
         /\ \/ calls[f].pc = "peer" /\ k \in calls[f].ask \cup calls[f].wait
            \/ GaveUp(calls[f], 0)

ChildrenOwed == \A d \in blockstore : \A k \in Children[d] \ blockstore : OwesChild(d, k, fetch, bs_tasks)

FineReceiver(h, f, round, calls) ==
    /\ h \in Whole(Want[f])
    /\ \/ calls[f].pc = "peer" /\ calls[f].round = round /\ h \in calls[f].wait
       \/ GaveUp(calls[f], round)

FineRequests(inbox, pend, calls) ==
    /\ \A req \in inbox :
         /\ FineReceiver(req.hash, req.fetch, req.round, calls)
         /\ req.hash \in DOMAIN pend => [fetch |-> req.fetch, round |-> req.round] \notin pend[req.hash]
    /\ \A h \in DOMAIN pend :
         pend[h] # {} /\ \A r \in pend[h] : FineReceiver(h, r.fetch, r.round, calls)

OwesHolds == AsksBelow /\ FineRequests(inbox_bs, pending_requests, fetch) /\ ChildrenOwed

LEMMA ContentByPart == ContentInv <=> ContentHolds /\ OwesHolds
<1>0. ReceiversWait <=> FineRequests(inbox_bs, pending_requests, fetch)
    BY DEF ReceiversWait, FineRequests, FineReceiver
<1>1. ASSUME ContentInv PROVE ContentHolds /\ OwesHolds
  <2>1. /\ server_up \in BOOLEAN /\ fetch \in [Fetches -> FetchCalls]
    BY <1>1 DEF ContentInv, ContentTypeOK, FetchCalls
  <2>2. ServerTables(blockstore, inbox_bs, pending_requests, bs_queue, bs_tasks, orphans)
    BY <1>1 DEF ContentInv, ContentTypeOK, ServerTables, AnswersAreOwed, TasksStored
  <2>3. OriginTables(blockstore, origin_pending, origin_queue, origin_tasks)
    BY <1>1 DEF ContentInv, ContentTypeOK, OriginTables, OriginsAreOwed, TasksStored
  <2>4. ASSUME NEW f \in Fetches
        PROVE  CallHolds(f, fetch[f], blockstore, inbox_bs, pending_requests)
    BY <1>1, <2>1 DEF ContentInv, RoundsHaveSources, DownloadsCover, AnswersAreOwed, FetchedIsWhole,
                CallHolds, CoversContent, Owed
  <2>5. ASSUME NEW f \in Fetches
        PROVE  Linked(f, fetch[f], origin_pending)
    BY <1>1 DEF ContentInv, OriginsAreOwed, Linked
  <2>6. OwesHolds
    BY <1>0, <1>1 DEF ContentInv, OwesHolds, FetchedIsWhole, ChildrenOwed, OwesChild
  <2> QED
    BY <2>1, <2>2, <2>3, <2>4, <2>5, <2>6 DEF ContentHolds
<1>2. ASSUME ContentHolds, OwesHolds PROVE ContentInv
  <2>1. \A f \in Fetches : /\ CallHolds(f, fetch[f], blockstore, inbox_bs, pending_requests)
                           /\ Linked(f, fetch[f], origin_pending)
    BY <1>2 DEF ContentHolds
  <2>2. ContentTypeOK /\ TasksStored
    BY <1>2 DEF ContentHolds, ContentTypeOK, TasksStored, ServerTables, OriginTables, FetchCalls
  <2>3. RoundsHaveSources /\ FetchedIsWhole
    BY <1>2, <2>1 DEF CallHolds, RoundsHaveSources, FetchedIsWhole, OwesHolds, ChildrenOwed, OwesChild
  <2>4. DownloadsCover
    BY <2>1 DEF CallHolds, CoversContent, DownloadsCover
  <2>5. AnswersAreOwed
    BY <1>2, <2>1 DEF ContentHolds, ServerTables, CallHolds, Owed, AnswersAreOwed
  <2>6. OriginsAreOwed
    BY <1>2, <2>1 DEF ContentHolds, OriginTables, Linked, OriginsAreOwed
  <2> QED
    BY <1>0, <1>2, <2>2, <2>3, <2>4, <2>5, <2>6 DEF ContentInv, OwesHolds
<1> QED
    BY <1>1, <1>2

LEMMA ContentInitInv == ContentInit => ContentHolds /\ OwesHolds
<1> SUFFICES ASSUME ContentInit PROVE ContentHolds /\ OwesHolds
    OBVIOUS
<1> DEFINE fe == [pc |-> "start", round |-> 0, ask |-> {}, wait |-> {}]
<1>1. fe \in FetchCalls /\ fe.pc = "start"
    BY ContentAssumption DEF FetchCalls
<1>2. fetch = [f \in Fetches |-> fe]
    BY DEF ContentInit
<1> HIDE DEF fe
<1>3. ServerTables(blockstore, inbox_bs, pending_requests, bs_queue, bs_tasks, orphans)
    BY DEF ContentInit, ServerTables, ToSet
<1>4. OriginTables(blockstore, origin_pending, origin_queue, origin_tasks)
    BY FS_EmptySet, ContentAssumption DEF ContentInit, OriginTables, ToSet, IsInjective
<1>5. \A f \in Fetches :
         /\ CallHolds(f, fetch[f], blockstore, inbox_bs, pending_requests)
         /\ Linked(f, fetch[f], origin_pending)
  <2>1. DOMAIN origin_pending = {}
    BY DEF ContentInit
  <2> QED
    BY <1>1, <1>2, <2>1 DEF CallHolds, Linked
<1>6. OwesHolds
  <2>1. inbox_bs = {} /\ DOMAIN pending_requests = {} /\ blockstore = {}
    BY DEF ContentInit
  <2>2. AsksBelow
    BY <1>1, <1>2 DEF AsksBelow
  <2> QED
    BY <2>1, <2>2 DEF OwesHolds, FineRequests, ChildrenOwed
<1> QED
    BY <1>1, <1>2, <1>3, <1>4, <1>5, <1>6 DEF ContentHolds, ContentInit

\* More content and more requests do not hurt a call.
LEMMA CallStays ==
    ASSUME NEW f, NEW fe, NEW bs, NEW inbox, NEW pend, CallHolds(f, fe, bs, inbox, pend),
           NEW bs2, NEW inbox2, NEW pend2, bs \subseteq bs2,
           \A h \in fe.wait : Owed(h, f, fe.round, inbox, pend) => Owed(h, f, fe.round, inbox2, pend2)
    PROVE  CallHolds(f, fe, bs2, inbox2, pend2)
    BY DEF CallHolds, CoversContent

\* A round begins with what it needs.
LEMMA PeerStepHolds ==
    ASSUME NEW f \in Fetches, NEW fe \in FetchCalls, NEW bs, NEW inbox, NEW pend
    PROVE  /\ CallHolds(f, PeerStep(fe, Want[f]), bs, inbox, pend)
           /\ PeerStep(fe, Want[f]).pc # "origin_wait"
<1> DEFINE h == Want[f]
           peer == [fe EXCEPT !.pc = "peer", !.ask = {h}, !.wait = {}]
           origin == [fe EXCEPT !.pc = "origin", !.ask = {}, !.wait = {}]
           fail == [fe EXCEPT !.pc = "failed", !.ask = {}, !.wait = {}]
<1>1. h \in Hashes
    BY ContentAssumption
<1>2. /\ peer \in FetchCalls /\ peer.pc = "peer" /\ peer.ask = {h} /\ peer.wait = {}
      /\ peer.round = fe.round
    BY <1>1 DEF FetchCalls
<1>3. origin \in FetchCalls /\ origin.pc = "origin" /\ origin.round = fe.round
    BY DEF FetchCalls
<1>4. fail \in FetchCalls /\ fail.pc = "failed"
    BY DEF FetchCalls, Ended, Reported
<1>5. CASE fe.round < NumPeers
  <2>1. PeerStep(fe, h) = peer
    BY <1>5, ContentAssumption DEF PeerStep, FetchCalls
  <2> HIDE DEF peer, h
  <2>2. CoversContent(peer, h, bs)
    <3>1. {} \in SUBSET bs /\ h \in {} \cup peer.ask \cup peer.wait
      BY <1>2
    <3> QED
      BY <3>1 DEF CoversContent
  <2> QED
    BY <1>2, <1>5, <2>1, <2>2 DEF CallHolds, h
<1>6. CASE ~(fe.round < NumPeers) /\ fe.round < NumOrigins
  <2>1. PeerStep(fe, h) = origin
    BY <1>6, ContentAssumption DEF PeerStep, FetchCalls
  <2> HIDE DEF origin
  <2> QED
    BY <1>3, <1>6, <2>1 DEF CallHolds
<1>7. CASE ~(fe.round < NumPeers) /\ ~(fe.round < NumOrigins)
  <2>1. PeerStep(fe, h) = fail
    BY <1>7, ContentAssumption DEF PeerStep, FetchCalls
  <2> HIDE DEF fail
  <2> QED
    BY <1>4, <2>1 DEF CallHolds
<1> QED
    BY <1>5, <1>6, <1>7

LEMMA NextRound ==
    ASSUME NEW fe \in FetchCalls, fe.round < NumPeers \/ fe.round < NumOrigins
    PROVE  [fe EXCEPT !.round = @ + 1] \in FetchCalls
<1>1. fe.round + 1 \in 0 .. NumPeers + NumOrigins
    BY ContentAssumption DEF FetchCalls
<1> QED
    BY <1>1 DEF FetchCalls

LEMMA AfterPeerHolds ==
    ASSUME NEW f \in Fetches, NEW fe \in FetchCalls, fe.round < NumPeers, NEW bs, NEW inbox, NEW pend
    PROVE  /\ CallHolds(f, AfterPeer(fe, Want[f]), bs, inbox, pend)
           /\ AfterPeer(fe, Want[f]).pc # "origin_wait"
<1> DEFINE origin == [fe EXCEPT !.pc = "origin", !.ask = {}, !.wait = {}]
           later == [fe EXCEPT !.round = @ + 1]
<1>1. CASE fe.round < NumOrigins
  <2>1. origin \in FetchCalls /\ origin.pc = "origin" /\ origin.round = fe.round
    BY DEF FetchCalls
  <2>2. AfterPeer(fe, Want[f]) = origin
    BY <1>1 DEF AfterPeer
  <2> HIDE DEF origin
  <2> QED
    BY <1>1, <2>1, <2>2 DEF CallHolds
<1>2. CASE ~(fe.round < NumOrigins)
  <2>1. later \in FetchCalls
    BY NextRound
  <2>2. AfterPeer(fe, Want[f]) = PeerStep(later, Want[f])
    BY <1>2 DEF AfterPeer
  <2> HIDE DEF later
  <2> QED
    BY <2>1, <2>2, PeerStepHolds
<1> QED
    BY <1>1, <1>2

-----------------------------------------------------------------------------
\* A step of one call that leaves the tables alone.
LEMMA OneCallSteps ==
    ASSUME ContentHolds, NEW f \in Fetches, NEW fe,
           fetch' = [fetch EXCEPT ![f] = fe], fetch[f].pc # "origin_wait", fe.pc # "origin_wait",
           CallHolds(f, fe, blockstore, inbox_bs, pending_requests),
           UNCHANGED <<blockstore, bsVars, originVars>>
    PROVE  ContentHolds'
<1>1. fe \in FetchCalls /\ fetch' \in [Fetches -> FetchCalls]
    BY DEF ContentHolds, CallHolds
<1>2. /\ ServerTables(blockstore, inbox_bs, pending_requests, bs_queue, bs_tasks, orphans)'
      /\ OriginTables(blockstore, origin_pending, origin_queue, origin_tasks)'
      /\ (server_up \in BOOLEAN)'
    BY DEF ContentHolds, bsVars, originVars
<1>3. ASSUME NEW g \in Fetches
      PROVE  /\ CallHolds(g, fetch'[g], blockstore', inbox_bs', pending_requests')
             /\ Linked(g, fetch'[g], origin_pending')
  <2>1. UNCHANGED <<blockstore, inbox_bs, pending_requests, origin_pending>>
    BY DEF bsVars, originVars
  <2>2. CASE g # f
    <3>1. fetch'[g] = fetch[g]
      BY <2>2
    <3> QED
      BY <2>1, <3>1 DEF ContentHolds
  <2>3. CASE g = f
    <3>1. fetch'[g] = fe
      BY <2>3 DEF ContentHolds
    <3>2. Linked(f, fetch[f], origin_pending)
      BY DEF ContentHolds
    <3>3. Linked(f, fe, origin_pending)
      BY <3>2 DEF Linked
    <3> QED
      BY <2>1, <2>3, <3>1, <3>3
  <2> QED
    BY <2>2, <2>3
<1> QED
    BY <1>1, <1>2, <1>3 DEF ContentHolds

LEMMA FetchStartKeeps ==
    ASSUME ContentHolds, NEW f \in Fetches, FetchStart(f)
    PROVE  ContentHolds'
<1> DEFINE cached == [fetch[f] EXCEPT !.pc = "cached"]
<1>1. fetch[f] \in FetchCalls /\ fetch[f].pc = "start" /\ UNCHANGED <<blockstore, bsVars, originVars>>
    BY DEF FetchStart, ContentHolds
<1>2. CASE Want[f] \in blockstore
  <2>1. cached \in FetchCalls /\ cached.pc = "cached"
    BY <1>1 DEF FetchCalls, Ended, Reported
  <2>2. fetch' = [fetch EXCEPT ![f] = cached]
    BY <1>2 DEF FetchStart
  <2> HIDE DEF cached
  <2>3. CallHolds(f, cached, blockstore, inbox_bs, pending_requests)
    BY <1>2, <2>1 DEF CallHolds
  <2> QED
    BY <1>1, <2>1, <2>2, <2>3, OneCallSteps
<1>3. CASE Want[f] \notin blockstore
  <2>1. fetch' = [fetch EXCEPT ![f] = PeerStep(fetch[f], Want[f])]
    BY <1>3 DEF FetchStart
  <2> QED
    BY <1>1, <2>1, PeerStepHolds, OneCallSteps
<1> QED
    BY <1>2, <1>3

LEMMA DownloadFailsKeeps ==
    ASSUME ContentHolds, NEW f \in Fetches, DownloadFails(f)
    PROVE  ContentHolds'
<1>1. /\ fetch[f] \in FetchCalls /\ fetch[f].pc = "peer" /\ UNCHANGED <<blockstore, bsVars, originVars>>
      /\ CallHolds(f, fetch[f], blockstore, inbox_bs, pending_requests)
    BY DEF DownloadFails, ContentHolds
<1>2. fetch[f].round < NumPeers
    BY <1>1 DEF CallHolds
<1>3. fetch' = [fetch EXCEPT ![f] = AfterPeer(fetch[f], Want[f])]
    BY DEF DownloadFails
<1> QED
    BY <1>1, <1>2, <1>3, AfterPeerHolds, OneCallSteps

\* Content that is closed under children holds everything below its members.
LEMMA ClosedIsWhole ==
    ASSUME NEW S \in SUBSET Hashes, NEW h \in S, \A k \in S : Children[k] \subseteq S
    PROVE  Whole(h) \subseteq S
    BY DEF Whole, Closed

LEMMA DownloadDoneKeeps ==
    ASSUME ContentHolds, NEW f \in Fetches, DownloadDone(f)
    PROVE  ContentHolds'
<1> DEFINE fe == [fetch[f] EXCEPT !.pc = "from_peer"]
<1>1. /\ fetch[f] \in FetchCalls /\ fetch[f].pc = "peer" /\ UNCHANGED <<blockstore, bsVars, originVars>>
      /\ CallHolds(f, fetch[f], blockstore, inbox_bs, pending_requests)
      /\ fetch[f].ask = {} /\ fetch[f].wait = {} /\ blockstore \subseteq Hashes
    BY DEF DownloadDone, ContentHolds, ServerTables
<1>2. PICK S \in SUBSET blockstore : Want[f] \in S /\ \A k \in S : Children[k] \subseteq S
    BY <1>1 DEF CallHolds, CoversContent
<1>3. Whole(Want[f]) \subseteq blockstore
    BY <1>1, <1>2, ClosedIsWhole
<1>4. fe \in FetchCalls /\ fe.pc = "from_peer"
    BY <1>1 DEF FetchCalls, Ended, Reported
<1>5. fetch' = [fetch EXCEPT ![f] = fe]
    BY DEF DownloadDone
<1> HIDE DEF fe
<1>6. CallHolds(f, fe, blockstore, inbox_bs, pending_requests)
    BY <1>3, <1>4 DEF CallHolds
<1> QED
    BY <1>1, <1>4, <1>5, <1>6, OneCallSteps

LEMMA DownloadAskKeeps ==
    ASSUME ContentHolds, NEW f \in Fetches, NEW h \in Hashes, DownloadAsk(f, h)
    PROVE  ContentHolds'
<1> DEFINE old == fetch[f]
           fe == [old EXCEPT !.ask = old.ask \ {h}, !.wait = old.wait \cup {h}]
           req == [hash |-> h, fetch |-> f, round |-> old.round]
<1>1. /\ old \in FetchCalls /\ old.pc = "peer" /\ h \in old.ask
      /\ CallHolds(f, old, blockstore, inbox_bs, pending_requests)
      /\ UNCHANGED <<blockstore, server_up, pending_requests, bs_queue, bs_tasks, orphans>>
      /\ UNCHANGED <<origin_pending, origin_queue, origin_tasks>>
      /\ fetch \in [Fetches -> FetchCalls]
    BY DEF DownloadAsk, ContentHolds, originVars
<1>2. /\ inbox_bs \subseteq inbox_bs' /\ inbox_bs' \subseteq inbox_bs \cup {req}
      /\ h \in old.wait \/ req \in inbox_bs'
    BY DEF DownloadAsk
<1>3. /\ fe \in FetchCalls /\ fe.pc = "peer" /\ fe.round = old.round
      /\ fe.ask = old.ask \ {h} /\ fe.wait = old.wait \cup {h}
    BY <1>1 DEF FetchCalls
<1>4. fetch' = [fetch EXCEPT ![f] = fe]
    BY <1>1 DEF DownloadAsk
<1>5. req \in [hash : Hashes, fetch : Fetches, round : Nat]
    BY <1>1, ContentAssumption DEF FetchCalls
<1>6. ServerTables(blockstore', inbox_bs', pending_requests', bs_queue', bs_tasks', orphans')
    BY <1>1, <1>2, <1>5 DEF ContentHolds, ServerTables
<1>7. OriginTables(blockstore', origin_pending', origin_queue', origin_tasks')
    BY <1>1 DEF ContentHolds
<1> HIDE DEF fe
<1>8. CallHolds(f, fe, blockstore', inbox_bs', pending_requests')
  <2>1. CoversContent(fe, Want[f], blockstore')
    <3>1. PICK S \in SUBSET blockstore :
             /\ Want[f] \in S \cup old.ask \cup old.wait
             /\ \A k \in S : Children[k] \subseteq S \cup old.ask \cup old.wait
      BY <1>1 DEF CallHolds, CoversContent
    <3>2. S \cup old.ask \cup old.wait = S \cup fe.ask \cup fe.wait
      BY <1>1, <1>3
    <3> QED
      BY <1>1, <3>1, <3>2 DEF CoversContent
  <2>2. \A k \in fe.wait : Owed(k, f, fe.round, inbox_bs', pending_requests')
    BY <1>1, <1>2, <1>3 DEF CallHolds, Owed
  <2> QED
    BY <1>1, <1>3, <2>1, <2>2 DEF CallHolds
<1>9. ASSUME NEW g \in Fetches
      PROVE  /\ CallHolds(g, fetch'[g], blockstore', inbox_bs', pending_requests')
             /\ Linked(g, fetch'[g], origin_pending')
  <2>1. CASE g = f
    <3>1. fetch'[g] = fe
      BY <1>1, <1>4, <2>1
    <3>2. Linked(f, old, origin_pending)
      BY DEF ContentHolds
    <3>3. Linked(f, fe, origin_pending)
      BY <1>1, <1>3, <3>2 DEF Linked
    <3> QED
      BY <1>1, <1>8, <2>1, <3>1, <3>3
  <2>2. CASE g # f
    <3>1. fetch'[g] = fetch[g]
      BY <1>4, <2>2
    <3>2. /\ CallHolds(g, fetch[g], blockstore, inbox_bs, pending_requests)
          /\ Linked(g, fetch[g], origin_pending)
      BY DEF ContentHolds
    <3>3. \A k \in fetch[g].wait : Owed(k, g, fetch[g].round, inbox_bs, pending_requests) =>
                                    Owed(k, g, fetch[g].round, inbox_bs', pending_requests')
      BY <1>1, <1>2 DEF Owed
    <3> QED
      BY <1>1, <3>1, <3>2, <3>3, CallStays
  <2> QED
    BY <2>1, <2>2
<1>10. fetch' \in [Fetches -> FetchCalls] /\ server_up' \in BOOLEAN
    BY <1>1, <1>3, <1>4 DEF ContentHolds
<1> QED
    BY <1>6, <1>7, <1>9, <1>10 DEF ContentHolds

-----------------------------------------------------------------------------
LEMMA QueueAppend ==
    ASSUME NEW T, NEW q \in Seq(T), NEW x \in T
    PROVE  /\ Append(q, x) \in Seq(T) /\ ToSet(Append(q, x)) = ToSet(q) \cup {x}
           /\ IsInjective(q) /\ x \notin ToSet(q) => IsInjective(Append(q, x))
<1> DEFINE r == Append(q, x)
<1>1. /\ r \in Seq(T) /\ DOMAIN q = 1 .. Len(q) /\ Len(q) \in Nat /\ DOMAIN r = 1 .. Len(q) + 1
      /\ \A i \in 1 .. Len(q) : r[i] = q[i]
      /\ r[Len(q) + 1] = x
    OBVIOUS
<1>2. PICK n \in Nat : n = Len(q)
    BY <1>1
<1> HIDE DEF r
<1>3. ToSet(r) = ToSet(q) \cup {x}
  <2>1. \A i \in DOMAIN r : i \in DOMAIN q \/ i = n + 1
    BY <1>1, <1>2
  <2>2. n + 1 \in DOMAIN r /\ DOMAIN q \subseteq DOMAIN r
    BY <1>1, <1>2
  <2> QED
    BY <1>1, <1>2, <2>1, <2>2 DEF ToSet
<1>4. IsInjective(q) /\ x \notin ToSet(q) => IsInjective(r)
  <2>1. \A i \in DOMAIN r : i \in DOMAIN q \/ i = n + 1
    BY <1>1, <1>2
  <2> QED
    BY <1>1, <1>2, <2>1 DEF ToSet, IsInjective
<1> QED
    BY <1>1, <1>3, <1>4 DEF r

LEMMA QueueTail ==
    ASSUME NEW T, NEW q \in Seq(T), q # <<>>, IsInjective(q)
    PROVE  /\ Head(q) \in T /\ Tail(q) \in Seq(T) /\ IsInjective(Tail(q))
           /\ ToSet(q) = ToSet(Tail(q)) \cup {Head(q)} /\ Head(q) \notin ToSet(Tail(q))
<1> DEFINE r == Tail(q)
<1>1. /\ Len(q) \in Nat \ {0} /\ Head(q) = q[1] /\ q[1] \in T /\ r \in Seq(T)
      /\ DOMAIN q = 1 .. Len(q) /\ DOMAIN r = 1 .. Len(q) - 1
      /\ \A i \in 1 .. Len(q) - 1 : r[i] = q[i + 1]
    OBVIOUS
<1>2. PICK n \in Nat \ {0} : n = Len(q)
    BY <1>1
<1> HIDE DEF r
<1>3. /\ \A i \in DOMAIN r : i + 1 \in DOMAIN q /\ r[i] = q[i + 1] /\ i + 1 # 1 /\ i \in Int
      /\ \A i \in DOMAIN q : i = 1 \/ (i - 1 \in DOMAIN r /\ r[i - 1] = q[i])
      /\ 1 \in DOMAIN q
    BY <1>1, <1>2
<1>4. ToSet(q) = ToSet(r) \cup {q[1]}
  <2>1. \A i \in DOMAIN q : q[i] = q[1] \/ \E j \in DOMAIN r : r[j] = q[i]
    BY <1>3
  <2>2. \A j \in DOMAIN r : \E i \in DOMAIN q : r[j] = q[i]
    BY <1>3
  <2> QED
    BY <1>3, <2>1, <2>2 DEF ToSet
<1>5. q[1] \notin ToSet(r)
    BY <1>3 DEF ToSet, IsInjective
<1>6. IsInjective(r)
    BY <1>3 DEF IsInjective
<1> QED
    BY <1>1, <1>4, <1>5, <1>6 DEF r

\* A step of the server's loop or of a request that changes no call.
LEMMA ServerSteps ==
    ASSUME ContentHolds, UNCHANGED <<fetch, server_up, originVars>>,
           blockstore \subseteq blockstore',
           ServerTables(blockstore', inbox_bs', pending_requests', bs_queue', bs_tasks', orphans'),
           \A f \in Fetches : \A h \in fetch[f].wait :
               Owed(h, f, fetch[f].round, inbox_bs, pending_requests) =>
               Owed(h, f, fetch[f].round, inbox_bs', pending_requests')
    PROVE  ContentHolds'
<1>1. OriginTables(blockstore', origin_pending', origin_queue', origin_tasks')
    BY DEF ContentHolds, originVars, OriginTables
<1>2. ASSUME NEW f \in Fetches
      PROVE  /\ CallHolds(f, fetch'[f], blockstore', inbox_bs', pending_requests')
             /\ Linked(f, fetch'[f], origin_pending')
  <2>1. /\ CallHolds(f, fetch[f], blockstore, inbox_bs, pending_requests)
        /\ Linked(f, fetch[f], origin_pending)
    BY DEF ContentHolds
  <2> QED
    BY <2>1, CallStays DEF originVars
<1> QED
    BY <1>1, <1>2 DEF ContentHolds

LEMMA ServerReceiveKeeps ==
    ASSUME ContentHolds, NEW req \in inbox_bs, ServerReceive(req)
    PROVE  ContentHolds'
<1> DEFINE h == req.hash
           me == [fetch |-> req.fetch, round |-> req.round]
<1>1. /\ UNCHANGED <<blockstore, fetch, server_up, orphans, originVars>>
      /\ inbox_bs' = inbox_bs \ {req}
    BY DEF ServerReceive
<1>2. ServerTables(blockstore, inbox_bs, pending_requests, bs_queue, bs_tasks, orphans)
    BY DEF ContentHolds
<1>3. h \in Hashes /\ me \in Receivers /\ req = [hash |-> h, fetch |-> me.fetch, round |-> me.round]
    BY <1>2 DEF ServerTables, Receivers
<1>4. /\ DOMAIN pending_requests' = DOMAIN pending_requests \cup {h}
      /\ me \in pending_requests'[h]
      /\ \A k \in DOMAIN pending_requests : pending_requests[k] \subseteq pending_requests'[k]
      /\ \A k \in DOMAIN pending_requests' : pending_requests'[k] \subseteq Receivers
  <2>1. CASE h \in DOMAIN pending_requests
    <3>1. pending_requests' = [pending_requests EXCEPT ![h] = @ \cup {me}]
      BY <2>1 DEF ServerReceive
    <3> QED
      BY <1>2, <1>3, <2>1, <3>1 DEF ServerTables
  <2>2. CASE h \notin DOMAIN pending_requests
    <3>1. pending_requests' = With(pending_requests, h, {me})
      BY <2>2 DEF ServerReceive
    <3> QED
      BY <1>2, <1>3, <2>2, <3>1 DEF ServerTables, With
  <2> QED
    BY <2>1, <2>2
<1>5. ServerTables(blockstore', inbox_bs', pending_requests', bs_queue', bs_tasks', orphans')
  <2>1. CASE h \in DOMAIN pending_requests
    <3>1. UNCHANGED <<bs_queue, bs_tasks>>
      BY <2>1 DEF ServerReceive
    <3> QED
      BY <1>1, <1>2, <1>4, <2>1, <3>1 DEF ServerTables
  <2>2. CASE h \notin DOMAIN pending_requests /\ FreeSlot
    <3>1. bs_tasks' = With(bs_tasks, h, "running") /\ UNCHANGED bs_queue
      BY <2>2 DEF ServerReceive
    <3>2. /\ DOMAIN bs_tasks' = DOMAIN bs_tasks \cup {h} /\ bs_tasks'[h] = "running"
          /\ \A k \in DOMAIN bs_tasks : bs_tasks'[k] = bs_tasks[k] \/ bs_tasks'[k] = "running"
      BY <3>1 DEF With
    <3> QED
      BY <1>1, <1>2, <1>3, <1>4, <2>2, <3>1, <3>2 DEF ServerTables
  <2>3. CASE h \notin DOMAIN pending_requests /\ ~FreeSlot
    <3>1. bs_queue' = Append(bs_queue, h) /\ UNCHANGED bs_tasks
      BY <2>3 DEF ServerReceive
    <3>2. bs_queue' \in Seq(Hashes) /\ ToSet(bs_queue') = ToSet(bs_queue) \cup {h}
      BY <1>2, <1>3, <3>1, QueueAppend DEF ServerTables
    <3> QED
      BY <1>1, <1>2, <1>3, <1>4, <2>3, <3>1, <3>2 DEF ServerTables
  <2> QED
    BY <2>1, <2>2, <2>3
<1>6. ASSUME NEW f \in Fetches, NEW k \in fetch[f].wait,
             Owed(k, f, fetch[f].round, inbox_bs, pending_requests)
      PROVE  Owed(k, f, fetch[f].round, inbox_bs', pending_requests')
  <2> DEFINE mine == [hash |-> k, fetch |-> f, round |-> fetch[f].round]
  <2>1. CASE mine = req
    <3>1. k = h /\ [fetch |-> f, round |-> fetch[f].round] = me
      BY <2>1
    <3> QED
      BY <1>4, <3>1 DEF Owed
  <2>2. CASE mine # req
    BY <1>1, <1>4, <1>6, <2>2 DEF Owed
  <2> QED
    BY <2>1, <2>2
<1> QED
    BY <1>1, <1>5, <1>6, ServerSteps

LEMMA SendRequestKeeps ==
    ASSUME ContentHolds, NEW h \in Hashes, SendRequest(h)
    PROVE  ContentHolds'
<1>1. /\ UNCHANGED <<fetch, server_up, inbox_bs, pending_requests, bs_queue, orphans, originVars>>
      /\ h \in DOMAIN bs_tasks
    BY DEF SendRequest
<1>2. PICK result \in {"ok", "err", "panic"} : bs_tasks' = [bs_tasks EXCEPT ![h] = result]
    BY DEF SendRequest
<1>3. /\ blockstore \subseteq blockstore' /\ blockstore' \subseteq blockstore \cup {h}
      /\ result = "ok" => h \in blockstore'
    BY <1>1, <1>2 DEF SendRequest
<1>4. ServerTables(blockstore, inbox_bs, pending_requests, bs_queue, bs_tasks, orphans)
    BY DEF ContentHolds
<1>5. ServerTables(blockstore', inbox_bs', pending_requests', bs_queue', bs_tasks', orphans')
    BY <1>1, <1>2, <1>3, <1>4 DEF ServerTables
<1> QED
    BY <1>1, <1>3, <1>5, ServerSteps

LEMMA ServerJoinPanicKeeps ==
    ASSUME ContentHolds, NEW h \in Hashes, ServerJoinPanic(h)
    PROVE  ContentHolds'
<1>1. /\ UNCHANGED <<blockstore, fetch, server_up, inbox_bs, pending_requests, bs_queue, originVars>>
      /\ h \in DOMAIN bs_tasks /\ bs_tasks' = Without(bs_tasks, h) /\ orphans' = orphans \cup {h}
    BY DEF ServerJoinPanic
<1>2. DOMAIN bs_tasks' = DOMAIN bs_tasks \ {h} /\ \A k \in DOMAIN bs_tasks' : bs_tasks'[k] = bs_tasks[k]
    BY <1>1 DEF Without, Restrict
<1>3. ServerTables(blockstore, inbox_bs, pending_requests, bs_queue, bs_tasks, orphans)
    BY DEF ContentHolds
<1>4. ServerTables(blockstore', inbox_bs', pending_requests', bs_queue', bs_tasks', orphans')
    BY <1>1, <1>2, <1>3 DEF ServerTables
<1> QED
    BY <1>1, <1>4, ServerSteps

LEMMA TakeResultHolds ==
    ASSUME NEW f \in Fetches, NEW fe, NEW bs, NEW inbox, NEW pend, NEW pend2, NEW h \in Hashes,
           NEW result \in {"ok", "err"}, fe.pc = "peer", CallHolds(f, fe, bs, inbox, pend),
           result = "ok" => h \in bs, pend2 = Without(pend, h)
    PROVE  /\ CallHolds(f, TakeResult(fe, h, result, Want[f]), bs, inbox, pend2)
           /\ TakeResult(fe, h, result, Want[f]).pc # "origin_wait"
<1>1. fe \in FetchCalls /\ fe.round < NumPeers /\ CoversContent(fe, Want[f], bs)
    BY DEF CallHolds
<1>2. CASE result = "ok"
  <2> DEFINE new == [fe EXCEPT !.wait = fe.wait \ {h}, !.ask = fe.ask \cup Children[h]]
  <2>1. TakeResult(fe, h, result, Want[f]) = new
    BY <1>2 DEF TakeResult
  <2>2. Children[h] \subseteq Hashes
    BY ContentAssumption
  <2>3. /\ new \in FetchCalls /\ new.pc = "peer" /\ new.round = fe.round
        /\ new.wait = fe.wait \ {h} /\ new.ask = fe.ask \cup Children[h]
    BY <1>1, <2>2 DEF FetchCalls
  <2> HIDE DEF new
  <2>4. CoversContent(new, Want[f], bs)
    <3>1. PICK S \in SUBSET bs :
             /\ Want[f] \in S \cup fe.ask \cup fe.wait
             /\ \A k \in S : Children[k] \subseteq S \cup fe.ask \cup fe.wait
      BY <1>1 DEF CoversContent
    <3> DEFINE T == S \cup {h}
    <3>2. T \in SUBSET bs
      BY <1>2
    <3>3. S \cup fe.ask \cup fe.wait \subseteq T \cup new.ask \cup new.wait
      BY <2>3
    <3>4. \A k \in T : Children[k] \subseteq T \cup new.ask \cup new.wait
      BY <2>3, <3>1, <3>3
    <3>5. Want[f] \in T \cup new.ask \cup new.wait
      BY <3>1, <3>3
    <3> HIDE DEF T
    <3> QED
      BY <3>2, <3>4, <3>5 DEF CoversContent
  <2>5. \A k \in new.wait : Owed(k, f, new.round, inbox, pend2)
    <3>1. \A k \in DOMAIN pend \ {h} : k \in DOMAIN pend2 /\ pend2[k] = pend[k]
      BY DEF Without, Restrict
    <3> QED
      BY <2>3, <3>1 DEF CallHolds, Owed
  <2> QED
    BY <1>1, <2>1, <2>3, <2>4, <2>5 DEF CallHolds
<1>3. CASE result # "ok"
    BY <1>1, <1>3, AfterPeerHolds DEF TakeResult
<1> QED
    BY <1>2, <1>3

LEMMA ServerJoinKeeps ==
    ASSUME ContentHolds, NEW h \in Hashes, ServerJoin(h)
    PROVE  ContentHolds'
<1> DEFINE live == {r \in pending_requests[h] : Alive(h, r)}
           to == {r.fetch : r \in live}
<1>1. /\ UNCHANGED <<blockstore, inbox_bs, bs_queue, orphans>> /\ UNCHANGED originVars
      /\ h \in DOMAIN bs_tasks /\ bs_tasks[h] \in {"ok", "err"}
      /\ bs_tasks' = Without(bs_tasks, h) /\ pending_requests' = Without(pending_requests, h)
      /\ server_up' = (live # {})
      /\ fetch' = [f \in Fetches |->
                     IF f \in to THEN TakeResult(fetch[f], h, bs_tasks[h], Want[f]) ELSE fetch[f]]
    BY DEF ServerJoin
<1>2. ServerTables(blockstore, inbox_bs, pending_requests, bs_queue, bs_tasks, orphans)
    BY DEF ContentHolds
<1>3. /\ DOMAIN bs_tasks' = DOMAIN bs_tasks \ {h}
      /\ \A k \in DOMAIN bs_tasks' : bs_tasks'[k] = bs_tasks[k]
      /\ DOMAIN pending_requests' = DOMAIN pending_requests \ {h}
      /\ \A k \in DOMAIN pending_requests' : pending_requests'[k] = pending_requests[k]
    BY <1>1 DEF Without, Restrict
<1>4. ServerTables(blockstore', inbox_bs', pending_requests', bs_queue', bs_tasks', orphans')
    BY <1>1, <1>2, <1>3 DEF ServerTables
<1>5. OriginTables(blockstore', origin_pending', origin_queue', origin_tasks')
    BY <1>1 DEF ContentHolds, originVars, OriginTables
<1>6. bs_tasks[h] = "ok" => h \in blockstore
    BY <1>1, <1>2 DEF ServerTables
<1>7. h \in DOMAIN pending_requests /\ pending_requests[h] \subseteq Receivers
    BY <1>1, <1>2 DEF ServerTables
<1>8. ASSUME NEW f \in Fetches
      PROVE  /\ CallHolds(f, fetch'[f], blockstore', inbox_bs', pending_requests')
             /\ Linked(f, fetch'[f], origin_pending')
  <2>1. /\ CallHolds(f, fetch[f], blockstore, inbox_bs, pending_requests)
        /\ Linked(f, fetch[f], origin_pending) /\ origin_pending' = origin_pending
    BY <1>1 DEF ContentHolds, originVars
  <2>2. CASE f \in to
    <3>1. PICK r \in pending_requests[h] : Alive(h, r) /\ r.fetch = f
      BY <2>2
    <3>2. fetch[f].pc = "peer"
      BY <3>1 DEF Alive
    <3> DEFINE new == TakeResult(fetch[f], h, bs_tasks[h], Want[f])
    <3>3. fetch'[f] = new
      BY <1>1, <2>2
    <3>4. CallHolds(f, new, blockstore, inbox_bs, pending_requests') /\ new.pc # "origin_wait"
      BY <1>1, <1>6, <2>1, <3>2, TakeResultHolds
    <3> HIDE DEF new
    <3>5. Linked(f, new, origin_pending)
      BY <2>1, <3>2, <3>4 DEF Linked
    <3> QED
      BY <1>1, <2>1, <3>3, <3>4, <3>5
  <2>3. CASE f \notin to
    <3>1. fetch'[f] = fetch[f]
      BY <1>1, <2>3
    <3> DEFINE me == [fetch |-> f, round |-> fetch[f].round]
    <3>2. ~(fetch[f].pc = "peer" /\ h \in fetch[f].wait /\ me \in pending_requests[h])
      <4>1. me.fetch = f /\ me.round = fetch[f].round
        OBVIOUS
      <4> HIDE DEF me
      <4>2. ASSUME fetch[f].pc = "peer", h \in fetch[f].wait, me \in pending_requests[h]
            PROVE  FALSE
        <5>1. Alive(h, me)
          BY <4>1, <4>2 DEF Alive
        <5> QED
          BY <2>3, <4>1, <4>2, <5>1
      <4> QED
        BY <4>2
    <3>3. CallHolds(f, fetch[f], blockstore, inbox_bs, pending_requests')
      <4>1. CASE fetch[f].pc # "peer"
        BY <2>1, <4>1 DEF CallHolds
      <4>2. CASE fetch[f].pc = "peer"
        <5>1. \A k \in fetch[f].wait : Owed(k, f, fetch[f].round, inbox_bs, pending_requests) =>
                                       Owed(k, f, fetch[f].round, inbox_bs, pending_requests')
          BY <1>3, <3>2, <4>2 DEF Owed
        <5> QED
          BY <2>1, <5>1, CallStays
      <4> QED
        BY <4>1, <4>2
    <3> QED
      BY <1>1, <2>1, <3>1, <3>3
  <2> QED
    BY <2>2, <2>3
<1>9. fetch' \in [Fetches -> FetchCalls]
  <2>1. \A f \in Fetches : fetch'[f] \in FetchCalls
    BY <1>8 DEF CallHolds
  <2> QED
    BY <1>1, <2>1
<1>10. server_up' \in BOOLEAN
    BY <1>1
<1> QED
    BY <1>4, <1>5, <1>8, <1>9, <1>10 DEF ContentHolds

-----------------------------------------------------------------------------
LEMMA OriginRouteKeeps ==
    ASSUME ContentHolds, NEW p \in Pointers, OriginRoute(p)
    PROVE  ContentHolds'
<1>1. /\ UNCHANGED <<fetch, origin_pending, origin_queue>> /\ UNCHANGED bsVars
      /\ p \in DOMAIN origin_tasks
    BY DEF OriginRoute
<1>2. PICK given \in SUBSET Hashes, result \in {"ok", "other", "err"} :
         /\ Closed(given)
         /\ result = "ok" => p[1] \in given
         /\ blockstore' = blockstore \cup given
         /\ origin_tasks' = [origin_tasks EXCEPT ![p] = result]
    BY DEF OriginRoute
<1>3. blockstore \subseteq blockstore' /\ (result = "ok" => Whole(p[1]) \subseteq blockstore')
  <2>1. \A k \in given : Children[k] \subseteq given
    BY <1>2 DEF Closed
  <2>2. result = "ok" => Whole(p[1]) \subseteq given
    BY <1>2, <2>1, ClosedIsWhole
  <2> QED
    BY <1>2, <2>2
<1>4. blockstore' \subseteq blockstore \cup Hashes
    BY <1>2
<1>5. /\ ServerTables(blockstore, inbox_bs, pending_requests, bs_queue, bs_tasks, orphans)
      /\ OriginTables(blockstore, origin_pending, origin_queue, origin_tasks)
    BY DEF ContentHolds
<1>6. ServerTables(blockstore', inbox_bs', pending_requests', bs_queue', bs_tasks', orphans')
    BY <1>1, <1>3, <1>4, <1>5 DEF ServerTables, bsVars
<1>7. OriginTables(blockstore', origin_pending', origin_queue', origin_tasks')
  <2>1. DOMAIN origin_tasks' = DOMAIN origin_tasks
    BY <1>2
  <2>2. \A x \in DOMAIN origin_tasks' : x # p => origin_tasks'[x] = origin_tasks[x]
    BY <1>2
  <2>3. origin_tasks'[p] = result
    BY <1>1, <1>2
  <2> QED
    BY <1>1, <1>3, <1>5, <2>1, <2>2, <2>3 DEF OriginTables
<1>8. ASSUME NEW f \in Fetches
      PROVE  /\ CallHolds(f, fetch'[f], blockstore', inbox_bs', pending_requests')
             /\ Linked(f, fetch'[f], origin_pending')
  <2>1. /\ CallHolds(f, fetch[f], blockstore, inbox_bs, pending_requests)
        /\ Linked(f, fetch[f], origin_pending)
    BY DEF ContentHolds
  <2> QED
    BY <1>1, <1>3, <2>1, CallStays DEF bsVars
<1> QED
    BY <1>1, <1>6, <1>7, <1>8 DEF ContentHolds, bsVars

\* A pointer that gets a place runs at once or is queued.
LEMMA RunOrQueue ==
    ASSUME NEW bs, NEW op, NEW q, NEW tasks, OriginTables(bs, op, q, tasks),
           NEW p \in Pointers, p \notin DOMAIN op, NEW f \in Fetches,
           NEW q2, NEW tasks2,
           IF Cardinality(DOMAIN tasks) < OriginCapacity
           THEN tasks2 = With(tasks, p, "running") /\ q2 = q
           ELSE q2 = Append(q, p) /\ tasks2 = tasks
    PROVE  OriginTables(bs, With(op, p, {f}), q2, tasks2)
<1> DEFINE op2 == With(op, p, {f})
<1>1. /\ DOMAIN op2 = DOMAIN op \cup {p} /\ op2[p] = {f}
      /\ \A x \in DOMAIN op : op2[x] = op[x]
    BY DEF With
<1> HIDE DEF op2
<1>2. /\ p \notin DOMAIN tasks /\ p \notin ToSet(q) /\ q \in Seq(Pointers) /\ IsInjective(q)
      /\ IsFiniteSet(DOMAIN tasks)
    BY DEF OriginTables
<1>3. DOMAIN op2 \subseteq Pointers /\ \A x \in DOMAIN op2 : op2[x] \subseteq Fetches
    BY <1>1 DEF OriginTables
<1>4. CASE Cardinality(DOMAIN tasks) < OriginCapacity
  <2>1. /\ DOMAIN tasks2 = DOMAIN tasks \cup {p} /\ tasks2[p] = "running"
        /\ \A x \in DOMAIN tasks : tasks2[x] = tasks[x] /\ q2 = q
    BY <1>2, <1>4 DEF With
  <2>2. IsFiniteSet(DOMAIN tasks2) /\ Cardinality(DOMAIN tasks2) = Cardinality(DOMAIN tasks) + 1
    BY <1>2, <2>1, FS_AddElement
  <2>3. Cardinality(DOMAIN tasks) \in Nat
    BY <1>2, FS_CardinalityType
  <2>4. Cardinality(DOMAIN tasks2) <= OriginCapacity
    BY <1>4, <2>2, <2>3, ContentAssumption
  <2>5. q2 = q
    BY <1>4
  <2> QED
    BY <1>1, <1>2, <1>3, <2>1, <2>2, <2>4, <2>5 DEF OriginTables, op2
<1>5. CASE ~(Cardinality(DOMAIN tasks) < OriginCapacity)
  <2>1. q2 = Append(q, p) /\ tasks2 = tasks
    BY <1>5
  <2>2. q2 \in Seq(Pointers) /\ ToSet(q2) = ToSet(q) \cup {p} /\ IsInjective(q2)
    BY <1>2, <2>1, QueueAppend
  <2>3. /\ DOMAIN op2 = DOMAIN tasks2 \cup ToSet(q2)
        /\ DOMAIN tasks2 \cap ToSet(q2) = {}
    BY <1>1, <1>2, <2>1, <2>2 DEF OriginTables
  <2> QED
    BY <1>3, <2>1, <2>2, <2>3 DEF OriginTables, op2
<1> QED
    BY <1>4, <1>5

LEMMA OriginAskKeeps ==
    ASSUME ContentHolds, NEW f \in Fetches, OriginAsk(f)
    PROVE  ContentHolds'
<1> DEFINE old == fetch[f]
           p == <<Want[f], old.round>>
<1>1. /\ old \in FetchCalls /\ old.pc = "origin" /\ UNCHANGED blockstore /\ UNCHANGED bsVars
      /\ CallHolds(f, old, blockstore, inbox_bs, pending_requests)
      /\ Linked(f, old, origin_pending)
      /\ fetch \in [Fetches -> FetchCalls]
    BY DEF OriginAsk, ContentHolds
<1>2. CASE Want[f] \in blockstore
  <2> DEFINE fe == [old EXCEPT !.pc = "found"]
  <2>1. fe \in FetchCalls /\ fe.pc = "found"
    BY <1>1 DEF FetchCalls, Ended, Reported
  <2>2. fetch' = [fetch EXCEPT ![f] = fe] /\ UNCHANGED originVars
    BY <1>2 DEF OriginAsk
  <2> HIDE DEF fe
  <2>3. CallHolds(f, fe, blockstore, inbox_bs, pending_requests)
    BY <1>2, <2>1 DEF CallHolds
  <2> QED
    BY <1>1, <2>1, <2>2, <2>3, OneCallSteps
<1>3. CASE Want[f] \notin blockstore
  <2> DEFINE fe == [old EXCEPT !.pc = "origin_wait"]
  <2>1. fe \in FetchCalls /\ fe.pc = "origin_wait" /\ fe.round = old.round
    BY <1>1 DEF FetchCalls, Ended, Reported
  <2>2. fetch' = [fetch EXCEPT ![f] = fe]
    BY <1>3 DEF OriginAsk
  <2>3. old.round < NumOrigins /\ p \in Pointers
    BY <1>1, ContentAssumption DEF CallHolds, FetchCalls, Pointers
  <2>4. OriginTables(blockstore, origin_pending, origin_queue, origin_tasks)
    BY DEF ContentHolds
  <2> HIDE DEF fe, p
  <2>5. /\ OriginTables(blockstore, origin_pending', origin_queue', origin_tasks')
        /\ DOMAIN origin_pending' = DOMAIN origin_pending \cup {p}
        /\ f \in origin_pending'[p]
        /\ p \in DOMAIN origin_pending => origin_pending'[p] = origin_pending[p] \cup {f}
        /\ p \notin DOMAIN origin_pending => origin_pending'[p] = {f}
        /\ \A x \in DOMAIN origin_pending : x # p => origin_pending'[x] = origin_pending[x]
    <3>1. CASE p \in DOMAIN origin_pending
      <4>1. /\ origin_pending' = [origin_pending EXCEPT ![p] = @ \cup {f}]
            /\ UNCHANGED <<origin_queue, origin_tasks>>
        BY <1>3, <3>1 DEF OriginAsk, p
      <4> QED
        BY <2>4, <3>1, <4>1 DEF OriginTables
    <3>2. CASE p \notin DOMAIN origin_pending
      <4>1. origin_pending' = With(origin_pending, p, {f})
        BY <1>3, <3>2 DEF OriginAsk, p
      <4>2. IF Cardinality(DOMAIN origin_tasks) < OriginCapacity
            THEN origin_tasks' = With(origin_tasks, p, "running") /\ origin_queue' = origin_queue
            ELSE origin_queue' = Append(origin_queue, p) /\ origin_tasks' = origin_tasks
        BY <1>3, <3>2 DEF OriginAsk, p
      <4>3. OriginTables(blockstore, origin_pending', origin_queue', origin_tasks')
        BY <2>3, <2>4, <3>2, <4>1, <4>2, RunOrQueue
      <4> QED
        BY <3>2, <4>1, <4>3 DEF With
    <3> QED
      BY <3>1, <3>2
  <2>6. ASSUME NEW g \in Fetches
        PROVE  /\ CallHolds(g, fetch'[g], blockstore', inbox_bs', pending_requests')
               /\ Linked(g, fetch'[g], origin_pending')
    <3>1. UNCHANGED <<blockstore, inbox_bs, pending_requests>>
      BY <1>1 DEF bsVars
    <3>2. CASE g = f
      <4>1. fetch'[g] = fe
        BY <1>1, <2>2, <3>2
      <4>2. CallHolds(f, fe, blockstore, inbox_bs, pending_requests)
        BY <2>1, <2>3 DEF CallHolds
      <4>3. Linked(f, fe, origin_pending')
        BY <1>1, <2>1, <2>5 DEF Linked, p
      <4> QED
        BY <3>1, <3>2, <4>1, <4>2, <4>3
    <3>3. CASE g # f
      <4>1. fetch'[g] = fetch[g]
        BY <2>2, <3>3
      <4>2. /\ CallHolds(g, fetch[g], blockstore, inbox_bs, pending_requests)
            /\ Linked(g, fetch[g], origin_pending)
        BY DEF ContentHolds
      <4>3. Linked(g, fetch[g], origin_pending')
        BY <2>5, <3>3, <4>2 DEF Linked
      <4> QED
        BY <3>1, <4>1, <4>2, <4>3
    <3> QED
      BY <3>2, <3>3
  <2>7. fetch' \in [Fetches -> FetchCalls]
    BY <1>1, <2>1, <2>2
  <2>8. /\ ServerTables(blockstore, inbox_bs, pending_requests, bs_queue, bs_tasks, orphans)'
        /\ (server_up \in BOOLEAN)'
    BY <1>1 DEF ContentHolds, bsVars
  <2> QED
    BY <1>1, <2>5, <2>6, <2>7, <2>8 DEF ContentHolds
<1> QED
    BY <1>2, <1>3

\* A pointer that ended makes room for the next one.
LEMMA QueueMoves ==
    ASSUME NEW bs, NEW op, NEW q, NEW tasks, OriginTables(bs, op, q, tasks), NEW p \in DOMAIN tasks,
           NEW q2, NEW tasks2,
           IF q # <<>> /\ Cardinality(DOMAIN Without(tasks, p)) < OriginCapacity
           THEN tasks2 = With(Without(tasks, p), Head(q), "running") /\ q2 = Tail(q)
           ELSE tasks2 = Without(tasks, p) /\ q2 = q
    PROVE  OriginTables(bs, Without(op, p), q2, tasks2)
<1> DEFINE op2 == Without(op, p)
           rest == Without(tasks, p)
<1>1. /\ DOMAIN op2 = DOMAIN op \ {p} /\ \A x \in DOMAIN op2 : op2[x] = op[x]
      /\ DOMAIN rest = DOMAIN tasks \ {p} /\ \A x \in DOMAIN rest : rest[x] = tasks[x]
    BY DEF Without, Restrict
<1> HIDE DEF op2
<1>2. /\ q \in Seq(Pointers) /\ IsInjective(q) /\ IsFiniteSet(DOMAIN tasks)
      /\ Cardinality(DOMAIN tasks) <= OriginCapacity
      /\ DOMAIN op = DOMAIN tasks \cup ToSet(q) /\ DOMAIN tasks \cap ToSet(q) = {}
    BY DEF OriginTables
<1>3. /\ IsFiniteSet(DOMAIN rest) /\ Cardinality(DOMAIN rest) = Cardinality(DOMAIN tasks) - 1
    BY <1>1, <1>2, FS_RemoveElement
<1>4. Cardinality(DOMAIN tasks) \in Nat /\ Cardinality(DOMAIN rest) \in Nat
    BY <1>2, <1>3, FS_CardinalityType
<1>5. CASE ~(q # <<>> /\ Cardinality(DOMAIN rest) < OriginCapacity)
  <2>1. tasks2 = rest /\ q2 = q
    BY <1>5
  <2>2. Cardinality(DOMAIN rest) <= OriginCapacity
    BY <1>2, <1>3, <1>4, ContentAssumption
  <2> HIDE DEF rest
  <2> QED
    BY <1>1, <1>2, <1>3, <2>1, <2>2 DEF OriginTables, op2
<1>6. CASE q # <<>> /\ Cardinality(DOMAIN rest) < OriginCapacity
  <2> DEFINE x == Head(q)
  <2>1. tasks2 = With(rest, x, "running") /\ q2 = Tail(q)
    BY <1>6
  <2>2. /\ x \in Pointers /\ q2 \in Seq(Pointers) /\ IsInjective(q2)
        /\ ToSet(q) = ToSet(q2) \cup {x} /\ x \notin ToSet(q2)
    BY <1>2, <1>6, <2>1, QueueTail
  <2> HIDE DEF rest, x
  <2>3. /\ DOMAIN tasks2 = DOMAIN rest \cup {x} /\ tasks2[x] = "running" /\ x \notin DOMAIN rest
        /\ \A y \in DOMAIN rest : tasks2[y] = rest[y]
    BY <1>1, <1>2, <2>1, <2>2 DEF With
  <2>4. IsFiniteSet(DOMAIN tasks2) /\ Cardinality(DOMAIN tasks2) = Cardinality(DOMAIN rest) + 1
    BY <1>3, <2>3, FS_AddElement
  <2>5. Cardinality(DOMAIN tasks2) <= OriginCapacity
    BY <1>4, <1>6, <2>4, ContentAssumption
  <2>6. /\ DOMAIN op2 = DOMAIN tasks2 \cup ToSet(q2) /\ DOMAIN tasks2 \cap ToSet(q2) = {}
    BY <1>1, <1>2, <2>2, <2>3
  <2>7. \A y \in DOMAIN tasks2 : /\ tasks2[y] \in {"running", "ok", "other", "err"}
                                 /\ tasks2[y] = "ok" => Whole(y[1]) \subseteq bs
    BY <1>1, <2>3 DEF OriginTables
  <2>8. DOMAIN op2 \subseteq Pointers /\ \A y \in DOMAIN op2 : op2[y] \subseteq Fetches
    BY <1>1 DEF OriginTables
  <2> QED
    BY <2>2, <2>4, <2>5, <2>6, <2>7, <2>8 DEF OriginTables, op2
<1> QED
    BY <1>5, <1>6

LEMMA OriginJoinKeeps ==
    ASSUME ContentHolds, NEW p \in Pointers, OriginJoin(p)
    PROVE  ContentHolds'
<1>1. /\ p \in DOMAIN origin_tasks /\ origin_tasks[p] # "running"
      /\ UNCHANGED blockstore /\ UNCHANGED bsVars
      /\ origin_pending' = Without(origin_pending, p)
      /\ fetch \in [Fetches -> FetchCalls]
    BY DEF OriginJoin, ContentHolds
<1>2. OriginTables(blockstore, origin_pending, origin_queue, origin_tasks)
    BY DEF ContentHolds
<1>3. OriginTables(blockstore', origin_pending', origin_queue', origin_tasks')
  <2>1. IF origin_queue # <<>> /\ Cardinality(DOMAIN Without(origin_tasks, p)) < OriginCapacity
        THEN /\ origin_tasks' = With(Without(origin_tasks, p), Head(origin_queue), "running")
             /\ origin_queue' = Tail(origin_queue)
        ELSE origin_tasks' = Without(origin_tasks, p) /\ origin_queue' = origin_queue
    BY DEF OriginJoin, NextQueued
  <2> QED
    BY <1>1, <1>2, <2>1, QueueMoves
<1>4. /\ p \in DOMAIN origin_pending
      /\ DOMAIN origin_pending' = DOMAIN origin_pending \ {p}
      /\ \A x \in DOMAIN origin_pending' : origin_pending'[x] = origin_pending[x]
    BY <1>1, <1>2 DEF OriginTables, Without, Restrict
<1>5. ASSUME NEW f \in Fetches
      PROVE  /\ CallHolds(f, fetch'[f], blockstore', inbox_bs', pending_requests')
             /\ Linked(f, fetch'[f], origin_pending')
  <2>1. /\ CallHolds(f, fetch[f], blockstore, inbox_bs, pending_requests)
        /\ Linked(f, fetch[f], origin_pending) /\ fetch[f] \in FetchCalls
        /\ UNCHANGED <<blockstore, inbox_bs, pending_requests>>
    BY <1>1 DEF ContentHolds, bsVars
  <2>2. CASE f \notin origin_pending[p]
    <3>1. fetch'[f] = fetch[f]
      BY <2>2 DEF OriginJoin
    <3>2. Linked(f, fetch[f], origin_pending')
      BY <1>4, <2>1, <2>2 DEF Linked
    <3> QED
      BY <2>1, <3>1, <3>2
  <2>3. CASE f \in origin_pending[p]
    <3>1. fetch[f].pc = "origin_wait" /\ p = <<Want[f], fetch[f].round>>
      BY <1>4, <2>1, <2>3 DEF Linked
    <3>2. fetch[f].round < NumOrigins
      BY <2>1, <3>1 DEF CallHolds
    <3>3. ASSUME NEW fe, fe.pc # "origin_wait"
          PROVE  Linked(f, fe, origin_pending')
      BY <1>4, <2>1, <3>1, <3>3 DEF Linked
    <3>4. CASE origin_tasks[p] = "ok"
      <4> DEFINE fe == [fetch[f] EXCEPT !.pc = "from_origin"]
      <4>1. fetch'[f] = fe
        BY <2>3, <3>4 DEF OriginJoin, TakeAnswer
      <4>2. fe \in FetchCalls /\ fe.pc = "from_origin"
        BY <2>1 DEF FetchCalls, Ended, Reported
      <4>3. Whole(Want[f]) \subseteq blockstore
        BY <1>1, <1>2, <3>1, <3>4 DEF OriginTables
      <4> HIDE DEF fe
      <4>4. CallHolds(f, fe, blockstore, inbox_bs, pending_requests)
        BY <4>2, <4>3 DEF CallHolds
      <4> QED
        BY <2>1, <3>3, <4>1, <4>2, <4>4
    <3>6. CASE origin_tasks[p] = "other"
      <4> DEFINE fe == [fetch[f] EXCEPT !.pc = "from_other"]
      <4>1. fetch'[f] = fe
        BY <2>3, <3>6 DEF OriginJoin, TakeAnswer
      <4>2. fe \in FetchCalls /\ fe.pc = "from_other"
        BY <2>1 DEF FetchCalls, Ended, Reported
      <4> HIDE DEF fe
      <4>3. CallHolds(f, fe, blockstore, inbox_bs, pending_requests)
        BY <4>2 DEF CallHolds
      <4> QED
        BY <2>1, <3>3, <4>1, <4>2, <4>3
    <3>5. CASE origin_tasks[p] \notin {"ok", "other"}
      <4> DEFINE later == [fetch[f] EXCEPT !.round = @ + 1]
      <4>1. fetch'[f] = PeerStep(later, Want[f])
        BY <2>3, <3>5 DEF OriginJoin, TakeAnswer
      <4>2. later \in FetchCalls
        BY <2>1, <3>2, NextRound
      <4> HIDE DEF later
      <4>3. /\ CallHolds(f, PeerStep(later, Want[f]), blockstore, inbox_bs, pending_requests)
            /\ PeerStep(later, Want[f]).pc # "origin_wait"
        BY <4>2, PeerStepHolds
      <4> QED
        BY <2>1, <3>3, <4>1, <4>3
    <3> QED
      BY <3>4, <3>5, <3>6
  <2> QED
    BY <2>2, <2>3
<1>6. fetch' \in [Fetches -> FetchCalls]
  <2>1. \A f \in Fetches : fetch'[f] \in FetchCalls
    BY <1>5 DEF CallHolds
  <2>2. fetch' = [f \in Fetches |-> fetch'[f]]
    BY DEF OriginJoin
  <2> QED
    BY <2>1, <2>2
<1>7. /\ ServerTables(blockstore, inbox_bs, pending_requests, bs_queue, bs_tasks, orphans)'
      /\ (server_up \in BOOLEAN)'
    BY <1>1 DEF ContentHolds, bsVars
<1> QED
    BY <1>3, <1>5, <1>6, <1>7 DEF ContentHolds

-----------------------------------------------------------------------------
\* What is owed.
LEMMA WholeFacts ==
    ASSUME NEW h \in Hashes
    PROVE  /\ h \in Whole(h) /\ Whole(h) \subseteq Hashes
           /\ \A k \in Whole(h) : Children[k] \subseteq Whole(h)
<1>1. h \in Whole(h) /\ Whole(h) \subseteq Hashes
    BY DEF Whole
<1>2. ASSUME NEW k \in Whole(h), NEW c \in Children[k] PROVE c \in Whole(h)
  <2>1. k \in Hashes /\ c \in Hashes
    BY <1>1, ContentAssumption
  <2>2. ASSUME NEW S \in SUBSET Hashes, h \in S, Closed(S) PROVE c \in S
    <3>1. k \in S
      BY <2>2 DEF Whole
    <3> QED
      BY <2>2, <3>1 DEF Closed
  <2> QED
    BY <2>1, <2>2 DEF Whole
<1> QED
    BY <1>1, <1>2

\* A call that gave up a round gave up one.
LEMMA GaveUpFirst ==
    ASSUME NEW fe \in FetchCalls, NEW n \in Nat, GaveUp(fe, n)
    PROVE  GaveUp(fe, 0)
    BY ContentAssumption DEF GaveUp, FetchCalls

\* It does not take that back, and what it asks for next is what it wants.
GoesOn(fe, fe2, h) ==
    /\ \A n \in Nat : GaveUp(fe, n) => GaveUp(fe2, n)
    /\ fe2.pc = "peer" => fe2.ask \cup fe2.wait \subseteq {h}

LEMMA PeerStepAsks ==
    ASSUME NEW fe \in FetchCalls, NEW h
    PROVE  PeerStep(fe, h).round = fe.round /\ PeerStep(fe, h).ask \cup PeerStep(fe, h).wait \subseteq {h}
<1> DEFINE peer == [fe EXCEPT !.pc = "peer", !.ask = {h}, !.wait = {}]
           origin == [fe EXCEPT !.pc = "origin", !.ask = {}, !.wait = {}]
           fail == [fe EXCEPT !.pc = "failed", !.ask = {}, !.wait = {}]
<1>1. PeerStep(fe, h) \in {peer, origin, fail}
    BY ContentAssumption DEF PeerStep, FetchCalls
<1>2. /\ peer.round = fe.round /\ peer.ask = {h} /\ peer.wait = {}
      /\ origin.round = fe.round /\ origin.ask = {} /\ origin.wait = {}
      /\ fail.round = fe.round /\ fail.ask = {} /\ fail.wait = {}
    BY DEF FetchCalls
<1> HIDE DEF peer, origin, fail
<1> QED
    BY <1>1, <1>2

LEMMA NextRoundGoesOn ==
    ASSUME NEW fe \in FetchCalls, fe.round < NumPeers \/ fe.round < NumOrigins, NEW h
    PROVE  LET fe2 == PeerStep([fe EXCEPT !.round = @ + 1], h)
           IN GoesOn(fe, fe2, h) /\ GaveUp(fe2, fe.round)
<1> DEFINE later == [fe EXCEPT !.round = @ + 1]
           fe2 == PeerStep(later, h)
<1>1. later \in FetchCalls /\ later.round = fe.round + 1 /\ fe.round \in Nat
    BY NextRound, ContentAssumption DEF FetchCalls
<1> HIDE DEF later
<1>2. fe2.round = fe.round + 1 /\ fe2.ask \cup fe2.wait \subseteq {h}
    BY <1>1, PeerStepAsks
<1> HIDE DEF fe2
<1>3. GaveUp(fe2, fe.round) /\ \A n \in Nat : GaveUp(fe, n) => GaveUp(fe2, n)
    BY <1>1, <1>2 DEF GaveUp
<1> QED
    BY <1>2, <1>3 DEF GoesOn, later, fe2

LEMMA AfterPeerGoesOn ==
    ASSUME NEW fe \in FetchCalls, fe.round < NumPeers, NEW h
    PROVE  GoesOn(fe, AfterPeer(fe, h), h) /\ GaveUp(AfterPeer(fe, h), fe.round)
<1> DEFINE origin == [fe EXCEPT !.pc = "origin", !.ask = {}, !.wait = {}]
<1>1. CASE fe.round < NumOrigins
  <2>1. origin.pc = "origin" /\ origin.round = fe.round
    BY DEF FetchCalls
  <2>2. AfterPeer(fe, h) = origin
    BY <1>1 DEF AfterPeer
  <2> HIDE DEF origin
  <2> QED
    BY <2>1, <2>2 DEF GoesOn, GaveUp
<1>2. CASE ~(fe.round < NumOrigins)
  <2>1. AfterPeer(fe, h) = PeerStep([fe EXCEPT !.round = @ + 1], h)
    BY <1>2 DEF AfterPeer
  <2> QED
    BY <2>1, NextRoundGoesOn
<1> QED
    BY <1>1, <1>2

LEMMA ReceiverStays ==
    ASSUME NEW h, NEW f \in Fetches, NEW n \in Nat, NEW calls, NEW calls2, FineReceiver(h, f, n, calls),
           GaveUp(calls[f], n) => GaveUp(calls2[f], n),
           calls[f].pc = "peer" /\ calls[f].round = n /\ h \in calls[f].wait =>
             \/ calls2[f].pc = "peer" /\ calls2[f].round = n /\ h \in calls2[f].wait
             \/ GaveUp(calls2[f], n)
    PROVE  FineReceiver(h, f, n, calls2)
    BY DEF FineReceiver

\* Steps of calls that leave the server alone.
LEMMA CallsGoOn ==
    ASSUME ContentHolds, OwesHolds, fetch' \in [Fetches -> FetchCalls], UNCHANGED blockstore, UNCHANGED bsVars,
           \A f \in Fetches :
               \/ fetch'[f] = fetch[f]
               \/ GoesOn(fetch[f], fetch'[f], Want[f])
                  /\ (fetch[f].pc = "peer" => GaveUp(fetch'[f], fetch[f].round))
               \/ /\ fetch[f].pc = "peer" /\ fetch[f].ask = {} /\ fetch[f].wait = {}
                  /\ fetch'[f].pc = "from_peer" /\ fetch'[f].round = fetch[f].round
    PROVE  OwesHolds'
<1>1. /\ fetch \in [Fetches -> FetchCalls] /\ AsksBelow /\ ChildrenOwed
      /\ FineRequests(inbox_bs, pending_requests, fetch)
      /\ ServerTables(blockstore, inbox_bs, pending_requests, bs_queue, bs_tasks, orphans)
      /\ UNCHANGED <<inbox_bs, pending_requests, bs_tasks>>
    BY DEF ContentHolds, OwesHolds, bsVars
<1>2. \A f \in Fetches : /\ fetch[f].round \in Nat /\ fetch[f] \in FetchCalls
                         /\ fetch'[f] \in FetchCalls /\ Want[f] \in Hashes
    BY <1>1, ContentAssumption DEF FetchCalls
<1>3. \A f \in Fetches : \A n \in Nat : GaveUp(fetch[f], n) => GaveUp(fetch'[f], n)
    BY <1>2 DEF GoesOn, GaveUp
<1>4. \A f \in Fetches : fetch[f].pc = "peer" /\ (fetch[f].ask # {} \/ fetch[f].wait # {}) =>
         fetch'[f] = fetch[f] \/ GaveUp(fetch'[f], fetch[f].round)
    OBVIOUS
<1>5. AsksBelow'
  <2>1. ASSUME NEW f \in Fetches, fetch'[f].pc = "peer"
        PROVE  fetch'[f].ask \cup fetch'[f].wait \subseteq Whole(Want[f])
    <3>1. Want[f] \in Whole(Want[f])
      BY <1>2, WholeFacts
    <3> QED
      BY <1>1, <2>1, <3>1 DEF GoesOn, AsksBelow
  <2> QED
    BY <2>1 DEF AsksBelow
<1>6. ASSUME NEW h, NEW f \in Fetches, NEW n \in Nat, FineReceiver(h, f, n, fetch)
      PROVE  FineReceiver(h, f, n, fetch')
  <2>1. fetch[f].pc = "peer" /\ fetch[f].round = n /\ h \in fetch[f].wait =>
             \/ fetch'[f].pc = "peer" /\ fetch'[f].round = n /\ h \in fetch'[f].wait
             \/ GaveUp(fetch'[f], n)
    BY <1>4
  <2> QED
    BY <1>3, <1>6, <2>1, ReceiverStays
<1>7. FineRequests(inbox_bs', pending_requests', fetch')
    BY <1>1, <1>6 DEF FineRequests, ServerTables, Receivers
<1>8. ASSUME NEW d, NEW k, OwesChild(d, k, fetch, bs_tasks)
      PROVE  OwesChild(d, k, fetch', bs_tasks)
  <2>1. CASE d \in DOMAIN bs_tasks /\ bs_tasks[d] = "ok"
    BY <2>1 DEF OwesChild
  <2>2. ASSUME NEW f \in Fetches, d \in Whole(Want[f]),
               fetch[f].pc = "peer", k \in fetch[f].ask \cup fetch[f].wait
        PROVE  OwesChild(d, k, fetch', bs_tasks)
    <3>1. CASE fetch'[f] = fetch[f]
      BY <2>2, <3>1 DEF OwesChild
    <3>2. CASE GaveUp(fetch'[f], fetch[f].round)
      BY <1>2, <2>2, <3>2, GaveUpFirst DEF OwesChild
    <3> QED
      BY <1>4, <2>2, <3>1, <3>2
  <2>3. ASSUME NEW f \in Fetches, d \in Whole(Want[f]), GaveUp(fetch[f], 0)
        PROVE  OwesChild(d, k, fetch', bs_tasks)
    BY <1>3, <2>3 DEF OwesChild
  <2> QED
    BY <1>8, <2>1, <2>2, <2>3 DEF OwesChild
<1>9. ChildrenOwed'
    BY <1>1, <1>8 DEF ChildrenOwed
<1> QED
    BY <1>5, <1>7, <1>9 DEF OwesHolds

LEMMA OneCallOwes ==
    ASSUME ContentHolds, OwesHolds, NEW f \in Fetches, NEW fe \in FetchCalls, fetch' = [fetch EXCEPT ![f] = fe],
           UNCHANGED blockstore, UNCHANGED bsVars, GoesOn(fetch[f], fe, Want[f]),
           fetch[f].pc = "peer" => GaveUp(fe, fetch[f].round)
    PROVE  OwesHolds'
<1>1. fetch \in [Fetches -> FetchCalls]
    BY DEF ContentHolds
<1>2. fetch' \in [Fetches -> FetchCalls] /\ fetch'[f] = fe /\ \A g \in Fetches : g # f => fetch'[g] = fetch[g]
    BY <1>1
<1> QED
    BY <1>2, CallsGoOn

LEMMA FetchStepOwes ==
    ASSUME ContentHolds, OwesHolds, NEW f \in Fetches,
           FetchStart(f) \/ DownloadDone(f) \/ DownloadFails(f) \/ OriginAsk(f)
    PROVE  OwesHolds'
<1> DEFINE fe == fetch[f]
<1>1. /\ fe \in FetchCalls /\ fetch \in [Fetches -> FetchCalls] /\ Want[f] \in Hashes
      /\ CallHolds(f, fe, blockstore, inbox_bs, pending_requests)
    BY ContentAssumption DEF ContentHolds
<1>2. UNCHANGED blockstore /\ UNCHANGED bsVars
    BY DEF FetchStart, DownloadDone, DownloadFails, OriginAsk
<1>3. ASSUME NEW pc \in Ended \cup {"origin_wait"}, pc \in {"cached", "found", "origin_wait"},
             fe.pc \in {"start", "origin"}, fe.pc = "origin" => pc # "cached",
             fetch' = [fetch EXCEPT ![f] = [fe EXCEPT !.pc = pc]]
      PROVE  OwesHolds'
  <2> DEFINE new == [fe EXCEPT !.pc = pc]
  <2>1. new \in FetchCalls /\ new.pc = pc /\ new.round = fe.round
    BY <1>1, <1>3 DEF FetchCalls, Ended, Reported
  <2>2. fetch' = [fetch EXCEPT ![f] = new]
    BY <1>3
  <2> HIDE DEF new
  <2>3. GoesOn(fe, new, Want[f])
    BY <1>3, <2>1 DEF GoesOn, GaveUp
  <2> QED
    BY <1>2, <1>3, <2>1, <2>2, <2>3, OneCallOwes
<1>4. CASE FetchStart(f)
  <2>1. CASE Want[f] \in blockstore
    <3>1. fetch' = [fetch EXCEPT ![f] = [fe EXCEPT !.pc = "cached"]] /\ fe.pc = "start"
      BY <1>4, <2>1 DEF FetchStart
    <3> QED
      BY <1>3, <3>1 DEF Ended, Reported
  <2>2. CASE Want[f] \notin blockstore
    <3>1. fetch' = [fetch EXCEPT ![f] = PeerStep(fe, Want[f])] /\ fe.pc = "start"
      BY <1>4, <2>2 DEF FetchStart
    <3>2. PeerStep(fe, Want[f]) \in FetchCalls
      BY <1>1, PeerStepHolds DEF CallHolds
    <3>3. GoesOn(fe, PeerStep(fe, Want[f]), Want[f])
      BY <1>1, <3>1, PeerStepAsks DEF GoesOn, GaveUp
    <3> QED
      BY <1>2, <3>1, <3>2, <3>3, OneCallOwes
  <2> QED
    BY <2>1, <2>2
<1>5. CASE DownloadDone(f)
  <2> DEFINE new == [fe EXCEPT !.pc = "from_peer"]
  <2>1. fetch' = [fetch EXCEPT ![f] = new] /\ fe.pc = "peer" /\ fe.ask = {} /\ fe.wait = {}
    BY <1>5 DEF DownloadDone
  <2>2. new \in FetchCalls /\ new.pc = "from_peer" /\ new.round = fe.round
    BY <1>1 DEF FetchCalls, Ended, Reported
  <2> HIDE DEF new
  <2>3. fetch' \in [Fetches -> FetchCalls] /\ fetch'[f] = new /\ \A g \in Fetches : g # f => fetch'[g] = fetch[g]
    BY <1>1, <2>1, <2>2
  <2> QED
    BY <1>2, <2>1, <2>2, <2>3, CallsGoOn
<1>6. CASE DownloadFails(f)
  <2>1. fetch' = [fetch EXCEPT ![f] = AfterPeer(fe, Want[f])] /\ fe.pc = "peer"
    BY <1>6 DEF DownloadFails
  <2>2. fe.round < NumPeers
    BY <1>1, <2>1 DEF CallHolds
  <2>3. AfterPeer(fe, Want[f]) \in FetchCalls
    BY <1>1, <2>2, AfterPeerHolds DEF CallHolds
  <2> QED
    BY <1>1, <1>2, <2>1, <2>2, <2>3, AfterPeerGoesOn, OneCallOwes
<1>7. CASE OriginAsk(f)
  <2>1. fe.pc = "origin" /\ \E pc \in {"found", "origin_wait"} : fetch' = [fetch EXCEPT ![f] = [fe EXCEPT !.pc = pc]]
    BY <1>7 DEF OriginAsk
  <2> QED
    BY <1>3, <2>1 DEF Ended, Reported
<1> QED
    BY <1>4, <1>5, <1>6, <1>7

LEMMA DownloadAskOwes ==
    ASSUME ContentHolds, OwesHolds, NEW f \in Fetches, NEW h \in Hashes, DownloadAsk(f, h)
    PROVE  OwesHolds'
<1> DEFINE old == fetch[f]
           fe == [old EXCEPT !.ask = old.ask \ {h}, !.wait = old.wait \cup {h}]
           req == [hash |-> h, fetch |-> f, round |-> old.round]
<1>1. /\ old \in FetchCalls /\ old.pc = "peer" /\ h \in old.ask /\ fetch \in [Fetches -> FetchCalls]
      /\ UNCHANGED <<blockstore, pending_requests, bs_tasks>>
      /\ AsksBelow /\ ChildrenOwed /\ FineRequests(inbox_bs, pending_requests, fetch)
      /\ ServerTables(blockstore, inbox_bs, pending_requests, bs_queue, bs_tasks, orphans)
    BY DEF DownloadAsk, ContentHolds, OwesHolds
<1>2. /\ fe \in FetchCalls /\ fe.pc = "peer" /\ fe.round = old.round
      /\ fe.ask = old.ask \ {h} /\ fe.wait = old.wait \cup {h}
    BY <1>1 DEF FetchCalls
<1>13. old.round \in Nat
    BY <1>1, ContentAssumption DEF FetchCalls
<1>3. fetch' = [fetch EXCEPT ![f] = fe]
    BY <1>1 DEF DownloadAsk
<1>4. inbox_bs' = inbox_bs \/ (h \notin old.wait /\ inbox_bs' = inbox_bs \cup {req})
    BY DEF DownloadAsk
<1> HIDE DEF fe
<1>5. fetch'[f] = fe /\ \A g \in Fetches : g # f => fetch'[g] = fetch[g]
    BY <1>1, <1>3
<1>6. old.ask \cup old.wait = fe.ask \cup fe.wait
    BY <1>1, <1>2
<1>7. AsksBelow'
    BY <1>1, <1>2, <1>5, <1>6 DEF AsksBelow
<1>8. ASSUME NEW k, NEW g \in Fetches, NEW n \in Nat, FineReceiver(k, g, n, fetch)
      PROVE  FineReceiver(k, g, n, fetch')
  <2>1. GaveUp(fetch[g], n) => GaveUp(fetch'[g], n)
    BY <1>1, <1>2, <1>5 DEF GaveUp
  <2> QED
    BY <1>1, <1>2, <1>5, <1>8, <2>1, ReceiverStays
<1>9. FineReceiver(h, f, old.round, fetch')
    BY <1>1, <1>2, <1>5, <1>13 DEF FineReceiver, AsksBelow
<1>10. h \notin old.wait /\ h \in DOMAIN pending_requests => [fetch |-> f, round |-> old.round] \notin pending_requests[h]
  <2>1. ASSUME h \notin old.wait, h \in DOMAIN pending_requests,
               NEW r \in pending_requests[h], r = [fetch |-> f, round |-> old.round]
        PROVE  FALSE
    <3>1. FineReceiver(h, f, old.round, fetch)
      BY <1>1, <2>1 DEF FineRequests
    <3> QED
      BY <1>1, <1>13, <2>1, <3>1 DEF FineReceiver, GaveUp
  <2> QED
    BY <2>1
<1>11. FineRequests(inbox_bs', pending_requests', fetch')
  <2>1. ASSUME NEW q \in inbox_bs'
        PROVE  /\ FineReceiver(q.hash, q.fetch, q.round, fetch')
               /\ q.hash \in DOMAIN pending_requests =>
                    [fetch |-> q.fetch, round |-> q.round] \notin pending_requests[q.hash]
    <3>1. CASE q \in inbox_bs
      BY <1>1, <1>8, <3>1 DEF FineRequests, ServerTables
    <3>2. CASE q = req /\ h \notin old.wait
      BY <1>9, <1>10, <3>2
    <3> QED
      BY <1>4, <3>1, <3>2
  <2>2. ASSUME NEW k \in DOMAIN pending_requests
        PROVE  /\ pending_requests[k] # {}
               /\ \A r \in pending_requests[k] : FineReceiver(k, r.fetch, r.round, fetch')
    BY <1>1, <1>8 DEF FineRequests, ServerTables, Receivers
  <2> QED
    BY <1>1, <2>1, <2>2 DEF FineRequests
<1>12. ChildrenOwed'
  <2>1. ASSUME NEW d, NEW k, OwesChild(d, k, fetch, bs_tasks)
        PROVE  OwesChild(d, k, fetch', bs_tasks)
    <3>1. \A g \in Fetches : GaveUp(fetch[g], 0) => GaveUp(fetch'[g], 0)
      BY <1>1, <1>2, <1>5 DEF GaveUp
    <3>2. \A g \in Fetches : fetch[g].pc = "peer" =>
             fetch'[g].pc = "peer" /\ fetch'[g].ask \cup fetch'[g].wait = fetch[g].ask \cup fetch[g].wait
      BY <1>2, <1>5, <1>6
    <3> QED
      BY <2>1, <3>1, <3>2 DEF OwesChild
  <2> QED
    BY <1>1, <2>1 DEF ChildrenOwed
<1> QED
    BY <1>7, <1>11, <1>12 DEF OwesHolds

LEMMA ServerReceiveOwes ==
    ASSUME ContentHolds, OwesHolds, NEW req \in inbox_bs, ServerReceive(req)
    PROVE  OwesHolds'
<1> DEFINE h == req.hash
           me == [fetch |-> req.fetch, round |-> req.round]
<1>1. /\ UNCHANGED <<blockstore, fetch>> /\ inbox_bs' = inbox_bs \ {req}
      /\ AsksBelow /\ ChildrenOwed /\ FineRequests(inbox_bs, pending_requests, fetch)
      /\ ServerTables(blockstore, inbox_bs, pending_requests, bs_queue, bs_tasks, orphans)
    BY DEF ServerReceive, ContentHolds, OwesHolds
<1>2. /\ DOMAIN pending_requests' = DOMAIN pending_requests \cup {h}
      /\ h \in DOMAIN pending_requests => pending_requests'[h] = pending_requests[h] \cup {me}
      /\ h \notin DOMAIN pending_requests => pending_requests'[h] = {me}
      /\ \A k \in DOMAIN pending_requests : k # h => pending_requests'[k] = pending_requests[k]
    BY DEF ServerReceive, With
<1>3. \A d \in DOMAIN bs_tasks : d \in DOMAIN bs_tasks' /\ bs_tasks'[d] = bs_tasks[d]
  <2>1. h \notin DOMAIN pending_requests => h \notin DOMAIN bs_tasks
    BY <1>1 DEF ServerTables
  <2> QED
    BY <2>1 DEF ServerReceive, With
<1>4. \A q \in inbox_bs' : q # req /\ q = [hash |-> q.hash, fetch |-> q.fetch, round |-> q.round]
    BY <1>1 DEF ServerTables
<1>5. req = [hash |-> h, fetch |-> me.fetch, round |-> me.round]
    BY <1>1 DEF ServerTables
<1> HIDE DEF h, me
<1>6. FineReceiver(h, me.fetch, me.round, fetch)
    BY <1>1 DEF FineRequests, h, me
<1>7. \A q \in inbox_bs' : q.hash = h => [fetch |-> q.fetch, round |-> q.round] # me
    BY <1>4, <1>5
<1>8. FineRequests(inbox_bs', pending_requests', fetch)
  <2>1. ASSUME NEW q \in inbox_bs'
        PROVE  /\ FineReceiver(q.hash, q.fetch, q.round, fetch)
               /\ q.hash \in DOMAIN pending_requests' =>
                    [fetch |-> q.fetch, round |-> q.round] \notin pending_requests'[q.hash]
    BY <1>1, <1>2, <1>7 DEF FineRequests
  <2>2. ASSUME NEW k \in DOMAIN pending_requests'
        PROVE  /\ pending_requests'[k] # {}
               /\ \A r \in pending_requests'[k] : FineReceiver(k, r.fetch, r.round, fetch)
    BY <1>1, <1>2, <1>6 DEF FineRequests
  <2> QED
    BY <2>1, <2>2 DEF FineRequests
<1>9. ChildrenOwed'
    BY <1>1, <1>3 DEF ChildrenOwed, OwesChild
<1>10. AsksBelow'
    BY <1>1 DEF AsksBelow
<1> QED
    BY <1>1, <1>8, <1>9, <1>10 DEF OwesHolds

\* A task stores what it was asked for, or ends with nothing.
LEMMA TaskOwes ==
    ASSUME ContentHolds, OwesHolds, NEW h \in Hashes, SendRequest(h) \/ ServerJoinPanic(h)
    PROVE  OwesHolds'
<1>1. /\ UNCHANGED <<fetch, inbox_bs, pending_requests>>
      /\ h \in DOMAIN bs_tasks /\ bs_tasks[h] \in {"running", "panic"}
      /\ AsksBelow /\ ChildrenOwed /\ FineRequests(inbox_bs, pending_requests, fetch)
    BY DEF SendRequest, ServerJoinPanic, OwesHolds
<1>2. \A d \in DOMAIN bs_tasks : d # h => d \in DOMAIN bs_tasks' /\ bs_tasks'[d] = bs_tasks[d]
    BY DEF SendRequest, ServerJoinPanic, Without, Restrict
<1>3. \/ blockstore' = blockstore
      \/ blockstore' = blockstore \cup {h} /\ h \in DOMAIN bs_tasks' /\ bs_tasks'[h] = "ok"
    BY <1>1 DEF SendRequest, ServerJoinPanic
<1>4. ASSUME NEW d \in blockstore', NEW k \in Children[d] \ blockstore'
      PROVE  OwesChild(d, k, fetch, bs_tasks')
  <2>1. CASE d \in blockstore
    <3>1. OwesChild(d, k, fetch, bs_tasks)
      BY <1>1, <1>3, <2>1 DEF ChildrenOwed
    <3> QED
      BY <1>1, <1>2, <3>1 DEF OwesChild
  <2>2. CASE d \notin blockstore
    BY <1>3, <2>2 DEF OwesChild
  <2> QED
    BY <2>1, <2>2
<1>5. ChildrenOwed' /\ AsksBelow'
    BY <1>1, <1>4 DEF ChildrenOwed, AsksBelow
<1> QED
    BY <1>1, <1>5 DEF OwesHolds

LEMMA OriginRouteOwes ==
    ASSUME ContentHolds, OwesHolds, NEW p \in Pointers, OriginRoute(p)
    PROVE  OwesHolds'
<1>1. /\ UNCHANGED <<fetch, inbox_bs, pending_requests, bs_tasks>>
      /\ AsksBelow /\ ChildrenOwed /\ FineRequests(inbox_bs, pending_requests, fetch)
    BY DEF OriginRoute, OwesHolds, bsVars
<1>2. PICK given \in SUBSET Hashes : Closed(given) /\ blockstore' = blockstore \cup given
    BY DEF OriginRoute
<1>3. ChildrenOwed' /\ AsksBelow'
    BY <1>1, <1>2 DEF ChildrenOwed, AsksBelow, Closed
<1> QED
    BY <1>1, <1>3 DEF OwesHolds

LEMMA OriginJoinOwes ==
    ASSUME ContentHolds, ContentHolds', OwesHolds, NEW p \in Pointers, OriginJoin(p)
    PROVE  OwesHolds'
<1>1. /\ UNCHANGED blockstore /\ UNCHANGED bsVars /\ p \in DOMAIN origin_pending
      /\ fetch \in [Fetches -> FetchCalls] /\ fetch' \in [Fetches -> FetchCalls]
    BY DEF OriginJoin, ContentHolds, OriginTables
<1>2. ASSUME NEW f \in Fetches
      PROVE  \/ fetch'[f] = fetch[f]
             \/ GoesOn(fetch[f], fetch'[f], Want[f]) /\ fetch[f].pc # "peer"
  <2> DEFINE fe == fetch[f]
  <2>1. fe \in FetchCalls /\ CallHolds(f, fe, blockstore, inbox_bs, pending_requests) /\ Linked(f, fe, origin_pending)
    BY <1>1 DEF ContentHolds
  <2>2. CASE f \notin origin_pending[p]
    BY <2>2 DEF OriginJoin
  <2>3. CASE f \in origin_pending[p]
    <3>1. fe.pc = "origin_wait" /\ fe.round < NumOrigins
      BY <1>1, <2>1, <2>3 DEF Linked, CallHolds
    <3>2. fetch'[f] = TakeAnswer(fe, origin_tasks[p], Want[f])
      BY <2>3 DEF OriginJoin
    <3>3. ASSUME NEW pc \in {"from_origin", "from_other"}
          PROVE  GoesOn(fe, [fe EXCEPT !.pc = pc], Want[f])
      <4> DEFINE new == [fe EXCEPT !.pc = pc]
      <4>1. new.pc = pc /\ new.round = fe.round
        BY <2>1 DEF FetchCalls
      <4> HIDE DEF new
      <4>2. GoesOn(fe, new, Want[f])
        BY <3>1, <3>3, <4>1 DEF GoesOn, GaveUp
      <4> QED
        BY <4>2 DEF new
    <3>4. GoesOn(fe, PeerStep([fe EXCEPT !.round = @ + 1], Want[f]), Want[f])
      BY <2>1, <3>1, NextRoundGoesOn
    <3> QED
      BY <3>1, <3>2, <3>3, <3>4 DEF TakeAnswer
  <2> QED
    BY <2>2, <2>3
<1> QED
    BY <1>1, <1>2, CallsGoOn

LEMMA ServerJoinOwes ==
    ASSUME ContentHolds, ContentHolds', OwesHolds, NEW h \in Hashes, ServerJoin(h)
    PROVE  OwesHolds'
<1> DEFINE to == {r.fetch : r \in {x \in pending_requests[h] : Alive(h, x)}}
           result == bs_tasks[h]
<1>1. /\ UNCHANGED <<blockstore, inbox_bs>> /\ h \in DOMAIN bs_tasks /\ result \in {"ok", "err"}
      /\ bs_tasks' = Without(bs_tasks, h) /\ pending_requests' = Without(pending_requests, h)
      /\ \A f \in Fetches : fetch'[f] = IF f \in to THEN TakeResult(fetch[f], h, result, Want[f]) ELSE fetch[f]
    BY DEF ServerJoin
<1>2. /\ fetch \in [Fetches -> FetchCalls] /\ AsksBelow /\ ChildrenOwed
      /\ FineRequests(inbox_bs, pending_requests, fetch)
      /\ ServerTables(blockstore, inbox_bs, pending_requests, bs_queue, bs_tasks, orphans)
    BY DEF ContentHolds, OwesHolds
<1>3. /\ \A k \in DOMAIN bs_tasks : k # h => k \in DOMAIN bs_tasks' /\ bs_tasks'[k] = bs_tasks[k]
      /\ \A k \in DOMAIN pending_requests' : k # h /\ k \in DOMAIN pending_requests
                                             /\ pending_requests'[k] = pending_requests[k]
      /\ h \in DOMAIN pending_requests /\ (result = "ok" => h \in blockstore)
    BY <1>1, <1>2 DEF ServerTables, Without, Restrict
<1>4. ASSUME NEW f \in to
      PROVE  /\ f \in Fetches /\ fetch[f].pc = "peer" /\ fetch[f] \in FetchCalls /\ fetch[f].round < NumPeers
             /\ fetch[f].round \in Nat /\ h \in fetch[f].wait
             /\ [fetch |-> f, round |-> fetch[f].round] \in pending_requests[h]
  <2>1. PICK r \in pending_requests[h] : Alive(h, r) /\ r.fetch = f
    BY <1>4
  <2>2. r \in Receivers
    BY <1>2, <1>3 DEF ServerTables
  <2>3. f \in Fetches /\ fetch[f].pc = "peer" /\ fetch[f].round = r.round /\ h \in fetch[f].wait
    BY <2>1, <2>2 DEF Alive, Receivers
  <2>4. r = [fetch |-> f, round |-> fetch[f].round]
    BY <2>1, <2>2, <2>3 DEF Receivers
  <2>5. CallHolds(f, fetch[f], blockstore, inbox_bs, pending_requests)
    BY <2>3 DEF ContentHolds
  <2> QED
    BY <1>2, <2>1, <2>2, <2>3, <2>4, <2>5 DEF CallHolds, Receivers
<1> HIDE DEF to, result
\* What becomes of a call that is answered.
<1>5. ASSUME NEW f \in to, result = "ok"
      PROVE  /\ fetch'[f].pc = "peer" /\ fetch'[f].round = fetch[f].round
             /\ fetch'[f].wait = fetch[f].wait \ {h} /\ fetch'[f].ask = fetch[f].ask \cup Children[h]
  <2>1. fetch[f] \in FetchCalls /\ f \in Fetches /\ fetch[f].pc = "peer"
    BY <1>4
  <2>2. fetch'[f] = [fetch[f] EXCEPT !.wait = fetch[f].wait \ {h}, !.ask = fetch[f].ask \cup Children[h]]
    BY <1>1, <1>5, <2>1 DEF TakeResult
  <2> QED
    BY <2>1, <2>2 DEF FetchCalls
<1>6. ASSUME NEW f \in to, result # "ok"
      PROVE  GoesOn(fetch[f], fetch'[f], Want[f]) /\ GaveUp(fetch'[f], fetch[f].round)
  <2>1. f \in Fetches /\ fetch[f] \in FetchCalls /\ fetch[f].round < NumPeers
    BY <1>4
  <2>2. fetch'[f] = AfterPeer(fetch[f], Want[f])
    BY <1>1, <1>6, <2>1 DEF TakeResult
  <2> QED
    BY <2>1, <2>2, AfterPeerGoesOn
<1>7. ASSUME NEW f \in Fetches, NEW n \in Nat, GaveUp(fetch[f], n) PROVE GaveUp(fetch'[f], n)
  <2>1. CASE f \notin to
    BY <1>1, <1>7, <2>1
  <2>2. CASE f \in to /\ result = "ok"
    BY <1>4, <1>5, <1>7, <2>2 DEF GaveUp
  <2>3. CASE f \in to /\ result # "ok"
    BY <1>6, <1>7, <2>3 DEF GoesOn
  <2> QED
    BY <2>1, <2>2, <2>3
<1>8. AsksBelow'
  <2>1. ASSUME NEW f \in Fetches, fetch'[f].pc = "peer"
        PROVE  fetch'[f].ask \cup fetch'[f].wait \subseteq Whole(Want[f])
    <3>0. Want[f] \in Hashes
      BY ContentAssumption
    <3>1. CASE f \notin to
      BY <1>1, <1>2, <2>1, <3>1 DEF AsksBelow
    <3>2. CASE f \in to /\ result = "ok"
      <4>1. fetch[f].ask \cup fetch[f].wait \subseteq Whole(Want[f]) /\ h \in fetch[f].wait
        BY <1>2, <1>4, <3>2 DEF AsksBelow
      <4>2. Children[h] \subseteq Whole(Want[f])
        BY <3>0, <4>1, WholeFacts
      <4> QED
        BY <1>5, <3>2, <4>1, <4>2
    <3>3. CASE f \in to /\ result # "ok"
      BY <1>6, <2>1, <3>0, <3>3, WholeFacts DEF GoesOn
    <3> QED
      BY <3>1, <3>2, <3>3
  <2> QED
    BY <2>1 DEF AsksBelow
<1>9. ASSUME NEW k, NEW f \in Fetches, NEW n \in Nat, FineReceiver(k, f, n, fetch),
             k = h => [fetch |-> f, round |-> n] \notin pending_requests[h]
      PROVE  FineReceiver(k, f, n, fetch')
  <2>1. ASSUME fetch[f].pc = "peer", fetch[f].round = n, k \in fetch[f].wait
        PROVE  \/ fetch'[f].pc = "peer" /\ fetch'[f].round = n /\ k \in fetch'[f].wait
               \/ GaveUp(fetch'[f], n)
    <3>1. CASE f \notin to
      BY <1>1, <2>1, <3>1
    <3>2. CASE f \in to /\ result = "ok"
      <4>1. k # h
        BY <1>4, <1>9, <2>1, <3>2
      <4> QED
        BY <1>5, <2>1, <3>2, <4>1
    <3>3. CASE f \in to /\ result # "ok"
      BY <1>6, <2>1, <3>3
    <3> QED
      BY <3>1, <3>2, <3>3
  <2> QED
    BY <1>7, <1>9, <2>1, ReceiverStays
<1>10. FineRequests(inbox_bs', pending_requests', fetch')
  <2>1. ASSUME NEW q \in inbox_bs
        PROVE  /\ FineReceiver(q.hash, q.fetch, q.round, fetch')
               /\ q.hash \in DOMAIN pending_requests' =>
                    [fetch |-> q.fetch, round |-> q.round] \notin pending_requests'[q.hash]
    <3>1. q.fetch \in Fetches /\ q.round \in Nat
      BY <1>2 DEF ServerTables
    <3> QED
      BY <1>2, <1>3, <1>9, <3>1 DEF FineRequests
  <2>2. ASSUME NEW k \in DOMAIN pending_requests'
        PROVE  /\ pending_requests'[k] # {}
               /\ \A r \in pending_requests'[k] : FineReceiver(k, r.fetch, r.round, fetch')
    <3>1. \A r \in pending_requests[k] : r.fetch \in Fetches /\ r.round \in Nat
      BY <1>2, <1>3 DEF ServerTables, Receivers
    <3> QED
      BY <1>2, <1>3, <1>9, <3>1 DEF FineRequests
  <2> QED
    BY <1>1, <2>1, <2>2 DEF FineRequests
<1>11. ASSUME NEW d, NEW k \in Children[d], k \notin blockstore, OwesChild(d, k, fetch, bs_tasks)
       PROVE  OwesChild(d, k, fetch', bs_tasks')
  <2>1. ASSUME NEW f \in Fetches, d \in Whole(Want[f]), NEW n \in Nat, GaveUp(fetch[f], n)
        PROVE  OwesChild(d, k, fetch', bs_tasks')
    <3>1. GaveUp(fetch[f], 0)
      BY <1>2, <2>1, GaveUpFirst
    <3> QED
      BY <1>7, <2>1, <3>1 DEF OwesChild
  <2>2. CASE d \in DOMAIN bs_tasks /\ bs_tasks[d] = "ok" /\ d # h
    BY <1>3, <2>2 DEF OwesChild
  <2>3. CASE d = h /\ result = "ok"
    <3>1. PICK r \in pending_requests[h] : TRUE
      BY <1>2, <1>3 DEF FineRequests
    <3>2. FineReceiver(h, r.fetch, r.round, fetch) /\ r \in Receivers
      BY <1>2, <1>3 DEF FineRequests, ServerTables
    <3>3. r.fetch \in Fetches /\ r.round \in Nat /\ h \in Whole(Want[r.fetch])
      BY <3>2 DEF Receivers, FineReceiver
    <3>4. CASE GaveUp(fetch[r.fetch], r.round)
      BY <2>1, <2>3, <3>3, <3>4
    <3>5. CASE ~GaveUp(fetch[r.fetch], r.round)
      <4>1. Alive(h, r)
        BY <3>2, <3>5 DEF FineReceiver, Alive
      <4>2. r.fetch \in to
        BY <4>1 DEF to
      <4> QED
        BY <1>5, <2>3, <3>3, <4>2 DEF OwesChild
    <3> QED
      BY <3>4, <3>5
  <2>4. ASSUME NEW f \in Fetches, d \in Whole(Want[f]), fetch[f].pc = "peer",
               k \in fetch[f].ask \cup fetch[f].wait
        PROVE  OwesChild(d, k, fetch', bs_tasks')
    <3>1. CASE f \notin to
      BY <1>1, <2>4, <3>1 DEF OwesChild
    <3>2. CASE f \in to /\ result = "ok"
      <4>1. k # h
        BY <1>3, <1>11, <3>2
      <4> QED
        BY <1>5, <2>4, <3>2, <4>1 DEF OwesChild
    <3>3. CASE f \in to /\ result # "ok"
      <4>1. GaveUp(fetch'[f], fetch[f].round) /\ fetch[f].round \in Nat /\ fetch'[f] \in FetchCalls
        BY <1>4, <1>6, <3>3 DEF ContentHolds
      <4> QED
        BY <2>4, <4>1, GaveUpFirst DEF OwesChild
    <3> QED
      BY <3>1, <3>2, <3>3
  <2> QED
    BY <1>11, <2>1, <2>2, <2>3, <2>4 DEF OwesChild, result
<1>12. ChildrenOwed'
    BY <1>1, <1>2, <1>11 DEF ChildrenOwed
<1> QED
    BY <1>8, <1>10, <1>12 DEF OwesHolds

ContentAll == ContentHolds /\ OwesHolds

LEMMA ContentStepKeeps == ContentAll /\ [ContentNext]_contentVars => ContentAll'
<1> SUFFICES ASSUME ContentHolds, OwesHolds, [ContentNext]_contentVars PROVE ContentHolds' /\ OwesHolds'
    BY DEF ContentAll
<1>1. CASE UNCHANGED contentVars
    BY <1>1 DEF contentVars, bsVars, originVars, ContentHolds, OwesHolds, AsksBelow, ChildrenOwed
<1>2. CASE \E f \in Fetches : FetchStep(f)
    BY <1>2, FetchStartKeeps, DownloadDoneKeeps, DownloadFailsKeeps, OriginAskKeeps,
       DownloadAskKeeps, FetchStepOwes, DownloadAskOwes DEF FetchStep
<1>3. CASE ServerStep
    BY <1>3, ServerReceiveKeeps, ServerJoinKeeps, ServerJoinPanicKeeps, ServerReceiveOwes,
       ServerJoinOwes, TaskOwes DEF ServerStep
<1>4. CASE \E h \in Hashes : SendRequest(h)
    BY <1>4, SendRequestKeeps, TaskOwes
<1>5. CASE OriginStep
    BY <1>5, OriginRouteKeeps, OriginJoinKeeps, OriginRouteOwes, OriginJoinOwes DEF OriginStep
<1> QED
    BY <1>1, <1>2, <1>3, <1>4, <1>5 DEF ContentNext

\* A fetch that a peer or an origin gave its content has stored it with everything below
\* it, for directories of any depth and however many calls share the requests of the
\* blockstore server and of the origin fetcher; one that found its hash has the hash, and
\* what is missing below a stored directory is being downloaded or was given up; every
\* answer a call waits for is running, queued, or of a task that panicked.
THEOREM FetchesAreWhole == ContentSpec => []ContentInv
<1>1. ContentInit => ContentAll
    BY ContentInitInv DEF ContentAll
<1>2. ContentAll => ContentInv
    BY ContentByPart DEF ContentAll
<1> QED
    BY <1>1, <1>2, ContentStepKeeps, PTL DEF ContentSpec

-----------------------------------------------------------------------------
(* The responder of the blockstore server.                                 *)

Kinds == {"prelude", "proof", "chunk", "last", "eos"}

LEMMA Halves ==
    ASSUME NEW m \in Nat
    PROVE  /\ m \div 2 \in Nat
           /\ m = 2 * (m \div 2) \/ m = 2 * (m \div 2) + 1
BY SMT

\* The frames of an answer: which one follows which, and where a block's are.
LEMMA FrameFacts ==
    ASSUME NEW a \in Askable, NEW i \in 1 .. FrameCount(a)
    PROVE  /\ FrameCount(a) \in Nat \ {0}
           /\ Frames(a)[i] \in [kind : Kinds, block : Nat]
           /\ Frames(a)[i].kind = "eos" <=> i = FrameCount(a)
           /\ Frames(a)[i].kind \in {"prelude", "chunk"} => Frames(a)[i + 1].kind = "proof"
           /\ Frames(a)[i].kind = "last" => Frames(a)[i + 1].kind = "eos"
<1>1. PICK p \in {0, 1} : p = Prelude(a)
    BY DEF Prelude
<1>2. PICK n \in Nat \ {0} : n = a.blocks
    BY DEF Askable
<1>3. FrameCount(a) = p + 2 * n + 1
    BY <1>1, <1>2 DEF FrameCount
<1>4. \A k \in Nat : k > p /\ k <= p + 2 * n + 1 =>
        \E b \in Nat : /\ b = (k - p - 1) \div 2
                       /\ \/ k = p + 2 * b + 1
                          \/ k = p + 2 * b + 2
  <2> SUFFICES ASSUME NEW k \in Nat, k > p, k <= p + 2 * n + 1
               PROVE  \E b \in Nat : /\ b = (k - p - 1) \div 2
                                     /\ k = p + 2 * b + 1 \/ k = p + 2 * b + 2
    OBVIOUS
  <2>1. k - p - 1 \in Nat
    BY <1>1
  <2>2. PICK m \in Nat : m = k - p - 1
    BY <2>1
  <2>3. PICK b \in Nat : b = m \div 2
    BY Halves
  <2>4. m = 2 * b \/ m = 2 * b + 1
    BY <2>3, Halves
  <2>5. k = p + 2 * b + 1 \/ k = p + 2 * b + 2
    BY <1>1, <2>2, <2>4
  <2>6. b = (k - p - 1) \div 2
    BY <2>2, <2>3
  <2> QED
    BY <2>5, <2>6
<1>5. \A k \in 1 .. FrameCount(a) : Frames(a)[k] = FrameAt(a, k)
    BY DEF Frames
<1>6. \A k \in 1 .. p : FrameAt(a, k) = [kind |-> "prelude", block |-> 0]
    BY <1>1 DEF FrameAt
<1>7. \A k \in Nat, b \in Nat :
        k > p /\ k <= p + 2 * n + 1 /\ b = (k - p - 1) \div 2 =>
          FrameAt(a, k) = [kind |-> IF k = p + 2 * n + 1 THEN "eos"
                                    ELSE IF k = p + 2 * b + 1 THEN "proof"
                                    ELSE IF b = n - 1 THEN "last" ELSE "chunk",
                           block |-> b]
    BY <1>1, <1>2, <1>3 DEF FrameAt
<1>8. i \in Nat /\ i >= 1 /\ i <= p + 2 * n + 1
    BY <1>3
<1>9. CASE i <= p
  <2>1. Frames(a)[i] = [kind |-> "prelude", block |-> 0]
    BY <1>3, <1>5, <1>6, <1>8, <1>9
  <2>2. i = 1 /\ p = 1
    BY <1>1, <1>8, <1>9
  <2>3. PICK c \in Nat : c = (2 - p - 1) \div 2 /\ (2 = p + 2 * c + 1 \/ 2 = p + 2 * c + 2)
    BY <1>4, <2>2
  <2>4. FrameAt(a, 2).kind = "proof"
    BY <1>7, <2>2, <2>3
  <2>5. Frames(a)[i + 1].kind = "proof"
    BY <1>3, <1>5, <2>2, <2>4
  <2> QED
    BY <1>3, <2>1, <2>2, <2>5 DEF Kinds
<1>10. CASE i > p
  <2>1. PICK b \in Nat : /\ b = (i - p - 1) \div 2
                         /\ i = p + 2 * b + 1 \/ i = p + 2 * b + 2
    BY <1>4, <1>8, <1>10
  <2>2. Frames(a)[i] = [kind |-> IF i = p + 2 * n + 1 THEN "eos"
                                 ELSE IF i = p + 2 * b + 1 THEN "proof"
                                 ELSE IF b = n - 1 THEN "last" ELSE "chunk",
                        block |-> b]
    BY <1>3, <1>5, <1>7, <1>8, <1>10, <2>1
  <2>3. ASSUME Frames(a)[i].kind \in {"chunk", "last"}
        PROVE  /\ i = p + 2 * b + 2 /\ i + 1 \in Nat /\ i + 1 > p /\ i + 1 <= p + 2 * n + 1
               /\ b = n - 1 <=> Frames(a)[i].kind = "last"
    BY <1>1, <1>8, <2>1, <2>2, <2>3
  <2>4. ASSUME Frames(a)[i].kind \in {"chunk", "last"}
        PROVE  Frames(a)[i + 1].kind = IF Frames(a)[i].kind = "last" THEN "eos" ELSE "proof"
    <3>1. PICK c \in Nat : /\ c = ((i + 1) - p - 1) \div 2
                           /\ i + 1 = p + 2 * c + 1 \/ i + 1 = p + 2 * c + 2
      BY <1>4, <2>3, <2>4
    <3>2. c = b + 1
      BY <1>1, <2>3, <2>4, <3>1
    <3>3. Frames(a)[i + 1] = FrameAt(a, i + 1)
      BY <1>3, <1>5, <2>3, <2>4
    <3>4. FrameAt(a, i + 1) = [kind |-> IF i + 1 = p + 2 * n + 1 THEN "eos"
                                        ELSE IF i + 1 = p + 2 * c + 1 THEN "proof"
                                        ELSE IF c = n - 1 THEN "last" ELSE "chunk",
                               block |-> c]
      BY <1>7, <2>3, <2>4, <3>1
    <3> QED
      BY <1>1, <2>3, <2>4, <3>1, <3>2, <3>3, <3>4
  <2>5. Frames(a)[i] \in [kind : Kinds, block : Nat]
    BY <2>2 DEF Kinds
  <2>6. Frames(a)[i].kind = "eos" <=> i = FrameCount(a)
    BY <1>3, <2>2
  <2>7. Frames(a)[i].kind # "prelude"
    BY <2>2
  <2> QED
    BY <1>3, <2>4, <2>5, <2>6, <2>7
<1> QED
    BY <1>1, <1>8, <1>9, <1>10

\* A block that is missing has its frame among those of the answer.
LEMMA MissingHasFrame ==
    ASSUME NEW a \in Askable, a.missing \subseteq 0 .. a.blocks - 1, a.dir => a.missing = {},
           a.missing # {}
    PROVE  \E i \in 1 .. FrameCount(a) : IsMissing(a, Frames(a)[i])
<1>1. PICK b \in a.missing : TRUE
    OBVIOUS
<1>2. Prelude(a) = 0
    BY DEF Prelude
<1>3. PICK n \in Nat \ {0} : n = a.blocks
    BY DEF Askable
<1>4. FrameCount(a) = 2 * n + 1 /\ b \in Nat /\ b <= n - 1
    BY <1>1, <1>2, <1>3 DEF FrameCount
<1>5. (2 * b + 2 - 0 - 1) \div 2 = b
    BY <1>4
<1>6. 2 * b + 2 \in 1 .. FrameCount(a) /\ 2 * b + 2 # FrameCount(a) /\ ~(2 * b + 2 <= 0)
      /\ 2 * b + 2 # 0 + 2 * b + 1
    BY <1>3, <1>4
<1>7. /\ FrameAt(a, 2 * b + 2).kind \in {"chunk", "last"}
      /\ FrameAt(a, 2 * b + 2).block = b
    BY <1>2, <1>5, <1>6 DEF FrameAt
<1>8. Frames(a)[2 * b + 2] = FrameAt(a, 2 * b + 2)
    BY <1>6 DEF Frames
<1> QED
    BY <1>1, <1>6, <1>7, <1>8 DEF IsMissing

\* What holds of the task of a response.
TaskHolds(r, t) ==
    /\ t \in Replies
    /\ t.st = "none" => t.next = 1 /\ t.open
    /\ t.st = "serving" => t.next <= FrameCount(Asks[r])
    /\ t.open /\ t.st \in {"none", "serving"} => Len(t.got) = t.next - 1
    /\ Len(t.got) < t.next
    /\ \A i \in 1 .. t.next - 1 :
         i <= FrameCount(Asks[r]) /\ ~IsMissing(Asks[r], Frames(Asks[r])[i])
    /\ \A i \in DOMAIN t.got : i <= FrameCount(Asks[r]) /\ t.got[i] = Frames(Asks[r])[i]

\* The tasks of each sort, and their number.
Busy(t) == t.st \in {"serving", "ending"}
Owes(r, t) ==
    t.st = "serving" /\ ~t.open /\ Frames(Asks[r])[t.next].kind # "eos"
OwesTwice(r, t) == Owes(r, t) /\ Frames(Asks[r])[t.next].kind = "chunk"

BusyIn(f) == {r \in Responses : Busy(f[r])}
OwingIn(f) == {r \in Responses : Owes(r, f[r])}
OwingTwiceIn(f) == {r \in Responses : OwesTwice(r, f[r])}

Balance(num, lv, busy, owing, twice) ==
    \E over \in 0 .. 2 * lv :
        /\ num + over = busy \/ num + over = busy + CounterSize
        /\ over + owing + twice <= 2 * lv

SlotsHold(num, lv, f) ==
    /\ IsFiniteSet(BusyIn(f))
    /\ Balance(num, lv, Cardinality(BusyIn(f)), Cardinality(OwingIn(f)),
               Cardinality(OwingTwiceIn(f)))

ServeHolds ==
    /\ num_responses \in 0 .. CounterSize - 1
    /\ leaves \in 0 .. MaxLeaves
    /\ response \in [Responses -> Replies]
    /\ \A r \in Responses : TaskHolds(r, response[r])
    /\ SlotsHold(num_responses, leaves, response)

Counted(f) ==
    /\ Cardinality(BusyIn(f)) \in Nat /\ Cardinality(OwingIn(f)) \in Nat
    /\ Cardinality(OwingTwiceIn(f)) \in Nat

One(b) == IF b THEN 1 ELSE 0

\* A set that changes at one element.
LEMMA CountAt ==
    ASSUME NEW S, NEW T, NEW x, IsFiniteSet(S), S \ {x} = T \ {x}
    PROVE  /\ IsFiniteSet(T) /\ Cardinality(S) \in Nat /\ Cardinality(T) \in Nat
           /\ Cardinality(T) + One(x \in S) = Cardinality(S) + One(x \in T)
<1> DEFINE K == S \ {x}
<1>1. IsFiniteSet(K)
    BY FS_RemoveElement
<1> HIDE DEF K
<1>2. ASSUME NEW U, U \ {x} = K
      PROVE  IsFiniteSet(U) /\ Cardinality(U) \in Nat /\ Cardinality(K) \in Nat
             /\ Cardinality(U) = Cardinality(K) + One(x \in U)
  <2>1. CASE x \in U
    <3>1. U = K \cup {x} /\ x \notin K
      BY <1>2, <2>1
    <3>2. IsFiniteSet(U) /\ Cardinality(U) = Cardinality(K) + 1
      BY <1>1, <3>1, FS_AddElement
    <3>3. Cardinality(U) \in Nat /\ Cardinality(K) \in Nat
      BY <1>1, <3>2, FS_CardinalityType
    <3> QED
      BY <2>1, <3>2, <3>3 DEF One
  <2>2. CASE x \notin U
    <3>1. U = K
      BY <1>2, <2>2
    <3>2. Cardinality(K) \in Nat
      BY <1>1, FS_CardinalityType
    <3> QED
      BY <1>1, <2>2, <3>1, <3>2 DEF One
  <2> QED
    BY <2>1, <2>2
<1>3. IsFiniteSet(S) /\ Cardinality(S) \in Nat /\ Cardinality(K) \in Nat
      /\ Cardinality(S) = Cardinality(K) + One(x \in S)
    BY <1>2 DEF K
<1>4. T \ {x} = K
    BY DEF K
<1>5. IsFiniteSet(T) /\ Cardinality(T) \in Nat
      /\ Cardinality(T) = Cardinality(K) + One(x \in T)
    BY <1>2, <1>4
<1>6. One(x \in S) \in {0, 1} /\ One(x \in T) \in {0, 1}
    BY DEF One
<1> QED
    BY <1>3, <1>5, <1>6

TaskChanges(f, g, r, t) ==
    /\ f \in [Responses -> Replies] /\ IsFiniteSet(BusyIn(f)) /\ r \in Responses
    /\ g = [f EXCEPT ![r] = t]

\* How a step of one task changes the numbers of tasks of each sort.
LEMMA CountsAt ==
    ASSUME NEW f, NEW g, NEW r, NEW t, TaskChanges(f, g, r, t)
    PROVE  /\ IsFiniteSet(BusyIn(g))
           /\ Counted(f) /\ Counted(g)
           /\ Cardinality(BusyIn(g)) + One(Busy(f[r])) = Cardinality(BusyIn(f)) + One(Busy(t))
           /\ Cardinality(OwingIn(g)) + One(Owes(r, f[r])) = Cardinality(OwingIn(f)) + One(Owes(r, t))
           /\ Cardinality(OwingTwiceIn(g)) + One(OwesTwice(r, f[r]))
                = Cardinality(OwingTwiceIn(f)) + One(OwesTwice(r, t))
<1>1. g[r] = t /\ (\A q \in Responses : q # r => g[q] = f[q]) /\ r \in Responses
      /\ IsFiniteSet(BusyIn(f))
    BY DEF TaskChanges
<1>2. /\ BusyIn(f) \ {r} = BusyIn(g) \ {r}
      /\ OwingIn(f) \ {r} = OwingIn(g) \ {r}
      /\ OwingTwiceIn(f) \ {r} = OwingTwiceIn(g) \ {r}
    BY <1>1 DEF BusyIn, OwingIn, OwingTwiceIn
<1>3. /\ r \in BusyIn(f) <=> Busy(f[r])
      /\ r \in BusyIn(g) <=> Busy(t)
      /\ r \in OwingIn(f) <=> Owes(r, f[r])
      /\ r \in OwingIn(g) <=> Owes(r, t)
      /\ r \in OwingTwiceIn(f) <=> OwesTwice(r, f[r])
      /\ r \in OwingTwiceIn(g) <=> OwesTwice(r, t)
    BY <1>1 DEF BusyIn, OwingIn, OwingTwiceIn
<1>4. OwingIn(f) \subseteq BusyIn(f) /\ OwingTwiceIn(f) \subseteq BusyIn(f)
    BY DEF BusyIn, OwingIn, OwingTwiceIn, Owes, OwesTwice, Busy
<1>5. IsFiniteSet(OwingIn(f)) /\ IsFiniteSet(OwingTwiceIn(f))
    BY <1>1, <1>4, FS_Subset
<1>6. /\ IsFiniteSet(BusyIn(g)) /\ Cardinality(BusyIn(f)) \in Nat /\ Cardinality(BusyIn(g)) \in Nat
      /\ Cardinality(BusyIn(g)) + One(r \in BusyIn(f)) = Cardinality(BusyIn(f)) + One(r \in BusyIn(g))
    BY <1>1, <1>2, CountAt
<1>7. /\ Cardinality(OwingIn(f)) \in Nat /\ Cardinality(OwingIn(g)) \in Nat
      /\ Cardinality(OwingIn(g)) + One(r \in OwingIn(f)) = Cardinality(OwingIn(f)) + One(r \in OwingIn(g))
    BY <1>2, <1>5, CountAt
<1>8. /\ Cardinality(OwingTwiceIn(f)) \in Nat /\ Cardinality(OwingTwiceIn(g)) \in Nat
      /\ Cardinality(OwingTwiceIn(g)) + One(r \in OwingTwiceIn(f))
           = Cardinality(OwingTwiceIn(f)) + One(r \in OwingTwiceIn(g))
    BY <1>2, <1>5, CountAt
<1>9. /\ One(r \in BusyIn(f)) = One(Busy(f[r])) /\ One(r \in BusyIn(g)) = One(Busy(t))
      /\ One(r \in OwingIn(f)) = One(Owes(r, f[r])) /\ One(r \in OwingIn(g)) = One(Owes(r, t))
      /\ One(r \in OwingTwiceIn(f)) = One(OwesTwice(r, f[r]))
      /\ One(r \in OwingTwiceIn(g)) = One(OwesTwice(r, t))
    BY <1>3 DEF One
<1> QED
    BY <1>6, <1>7, <1>8, <1>9 DEF Counted

\* The kinds of step a task takes: it is counted, it goes on without touching the
\* counter, it gives a slot back too often, it ends, its stream is closed.
SlotMove(num, numx, lv, lvx, r, t, tx) ==
    \/ /\ num < max_conc_res /\ numx = num + 1 /\ lvx = lv
       /\ ~Busy(t) /\ Busy(tx) /\ ~Owes(r, tx)
    \/ /\ numx = num /\ lvx = lv /\ (Busy(tx) <=> Busy(t))
       /\ Owes(r, tx) => Owes(r, t)
       /\ OwesTwice(r, tx) => OwesTwice(r, t)
    \/ /\ numx = Decremented(num) /\ lvx = lv /\ (Busy(tx) <=> Busy(t)) /\ Owes(r, t)
       /\ Owes(r, tx) => OwesTwice(r, t)
       /\ ~OwesTwice(r, tx)
    \/ /\ numx = Decremented(num) /\ lvx = lv /\ Busy(t) /\ ~Busy(tx)
    \/ /\ numx = num /\ lvx = lv + 1 /\ (Busy(tx) <=> Busy(t))

\* Every such step keeps the balance; the counter wraps below zero and never above.
LEMMA BalanceMoves ==
    ASSUME NEW num \in 0 .. CounterSize - 1, NEW numx, NEW lv \in 0 .. MaxLeaves, NEW lvx \in 0 .. MaxLeaves,
           NEW r, NEW t, NEW tx, SlotMove(num, numx, lv, lvx, r, t, tx),
           NEW b \in Nat, NEW o \in Nat, NEW w \in Nat, NEW bx \in Nat, NEW ox \in Nat, NEW wx \in Nat,
           Balance(num, lv, b, o, w),
           bx + One(Busy(t)) = b + One(Busy(tx)),
           ox + One(Owes(r, t)) = o + One(Owes(r, tx)),
           wx + One(OwesTwice(r, t)) = w + One(OwesTwice(r, tx))
    PROVE  numx \in 0 .. CounterSize - 1 /\ Balance(numx, lvx, bx, ox, wx)
<1>1. /\ CounterSize \in Nat /\ max_conc_res \in Nat /\ CounterSize > 2 * max_conc_res
      /\ MaxLeaves \in Nat /\ CounterSize >= 4 * MaxLeaves /\ max_conc_res >= 1
    BY ServeAssumption
<1>2. PICK e \in 0 .. 2 * lv : /\ num + e = b \/ num + e = b + CounterSize
                               /\ e + o + w <= 2 * lv
    BY DEF Balance
<1>3. lv \in Nat /\ lvx \in Nat /\ lv <= MaxLeaves /\ lvx <= MaxLeaves /\ num \in Nat
      /\ num <= CounterSize - 1 /\ e \in Nat
    BY <1>1, <1>2
<1>4. e < CounterSize
    BY <1>1, <1>2, <1>3
<1>5. /\ OwesTwice(r, t) => Owes(r, t)
      /\ OwesTwice(r, tx) => Owes(r, tx)
      /\ Owes(r, t) => Busy(t)
      /\ Owes(r, tx) => Busy(tx)
    BY DEF Owes, OwesTwice, Busy
<1>6. ASSUME num > 0 \/ num + e = b PROVE Decremented(num) \in 0 .. CounterSize - 1
    BY <1>1, <1>3, <1>6 DEF Decremented
<1>7. num = 0 => num + e = b
    BY <1>1, <1>2, <1>3, <1>4
<1>8. Decremented(num) \in 0 .. CounterSize - 1
    BY <1>3, <1>6, <1>7
<1>9. CASE /\ num < max_conc_res /\ numx = num + 1 /\ lvx = lv
           /\ ~Busy(t) /\ Busy(tx) /\ ~Owes(r, tx)
  <2>1. bx = b + 1 /\ ox = o /\ wx = w
    BY <1>5, <1>9 DEF One
  <2>2. numx \in 0 .. CounterSize - 1
    BY <1>1, <1>3, <1>9
  <2> QED
    BY <1>1, <1>2, <1>3, <1>9, <2>1, <2>2 DEF Balance
<1>10. CASE /\ numx = num /\ lvx = lv /\ (Busy(tx) <=> Busy(t))
            /\ Owes(r, tx) => Owes(r, t)
            /\ OwesTwice(r, tx) => OwesTwice(r, t)
  <2>1. bx = b /\ ox <= o /\ wx <= w
    BY <1>10 DEF One
  <2>2. e + ox + wx <= 2 * lv
    BY <1>2, <1>3, <2>1
  <2> QED
    BY <1>2, <1>10, <2>1, <2>2 DEF Balance
<1>11. CASE /\ numx = Decremented(num) /\ lvx = lv /\ (Busy(tx) <=> Busy(t)) /\ Owes(r, t)
            /\ Owes(r, tx) => OwesTwice(r, t)
            /\ ~OwesTwice(r, tx)
  <2>1. bx = b /\ o + w >= ox + wx + 1
    BY <1>5, <1>11 DEF One
  <2>2. e + 1 \in 0 .. 2 * lvx /\ (e + 1) + ox + wx <= 2 * lvx
    BY <1>2, <1>3, <1>11, <2>1
  <2>3. numx + (e + 1) = bx \/ numx + (e + 1) = bx + CounterSize
    BY <1>1, <1>2, <1>3, <1>7, <1>11, <2>1 DEF Decremented
  <2> QED
    BY <1>8, <1>11, <2>2, <2>3 DEF Balance
<1>12. CASE numx = Decremented(num) /\ lvx = lv /\ Busy(t) /\ ~Busy(tx)
  <2>1. b = bx + 1 /\ ox <= o /\ wx <= w
    BY <1>5, <1>12 DEF One
  <2>2. e + ox + wx <= 2 * lv
    BY <1>2, <1>3, <2>1
  <2>3. numx + e = bx \/ numx + e = bx + CounterSize
    BY <1>1, <1>2, <1>3, <1>7, <1>12, <2>1 DEF Decremented
  <2> QED
    BY <1>2, <1>8, <1>12, <2>2, <2>3 DEF Balance
<1>13. CASE numx = num /\ lvx = lv + 1 /\ (Busy(tx) <=> Busy(t))
  <2>1. bx = b /\ ox <= o + 1 /\ wx <= w + 1
    BY <1>13 DEF One
  <2>2. e \in 0 .. 2 * lvx /\ e + ox + wx <= 2 * lvx
    BY <1>2, <1>3, <1>13, <2>1
  <2> QED
    BY <1>2, <1>13, <2>1, <2>2 DEF Balance
<1> QED
    BY <1>9, <1>10, <1>11, <1>12, <1>13 DEF SlotMove

LEMMA ServeStepHolds ==
    ASSUME ServeHolds, NEW r \in Responses, NEW t, response' = [response EXCEPT ![r] = t],
           TaskHolds(r, t), leaves' \in 0 .. MaxLeaves,
           SlotMove(num_responses, num_responses', leaves, leaves', r, response[r], t)
    PROVE  ServeHolds'
<1> DEFINE f == response
           g == response'
<1>1. t \in Replies /\ f \in [Responses -> Replies] /\ IsFiniteSet(BusyIn(f))
    BY DEF TaskHolds, ServeHolds, SlotsHold
<1>2. g \in [Responses -> Replies] /\ TaskChanges(f, g, r, t)
    BY <1>1 DEF TaskChanges
<1>3. \A q \in Responses : TaskHolds(q, g[q])
    BY <1>1 DEF ServeHolds
<1> HIDE DEF f, g
<1>4. /\ IsFiniteSet(BusyIn(g))
      /\ Counted(f) /\ Counted(g)
      /\ Cardinality(BusyIn(g)) + One(Busy(f[r])) = Cardinality(BusyIn(f)) + One(Busy(t))
      /\ Cardinality(OwingIn(g)) + One(Owes(r, f[r])) = Cardinality(OwingIn(f)) + One(Owes(r, t))
      /\ Cardinality(OwingTwiceIn(g)) + One(OwesTwice(r, f[r]))
           = Cardinality(OwingTwiceIn(f)) + One(OwesTwice(r, t))
    BY <1>2, CountsAt
<1>5. SlotMove(num_responses, num_responses', leaves, leaves', r, f[r], t)
    BY DEF f
<1>6. /\ Balance(num_responses, leaves, Cardinality(BusyIn(f)), Cardinality(OwingIn(f)),
                 Cardinality(OwingTwiceIn(f)))
      /\ num_responses \in 0 .. CounterSize - 1
      /\ leaves \in 0 .. MaxLeaves
    BY DEF ServeHolds, SlotsHold, f
<1>7. /\ num_responses' \in 0 .. CounterSize - 1
      /\ Balance(num_responses', leaves', Cardinality(BusyIn(g)), Cardinality(OwingIn(g)),
                 Cardinality(OwingTwiceIn(g)))
    BY <1>4, <1>5, <1>6, BalanceMoves DEF Counted
<1>8. SlotsHold(num_responses', leaves', response')
    BY <1>4, <1>7 DEF SlotsHold, g
<1> QED
    BY <1>2, <1>3, <1>7, <1>8 DEF ServeHolds, g

LEMMA AskFacts ==
    ASSUME NEW r \in Responses
    PROVE  /\ Asks[r] \in Askable /\ FrameCount(Asks[r]) \in Nat \ {0}
           /\ Asks[r].missing \subseteq 0 .. Asks[r].blocks - 1
           /\ Asks[r].dir => Asks[r].missing = {}
<1>1. Asks[r] \in Askable
    BY ServeAssumption
<1>2. FrameCount(Asks[r]) \in Nat \ {0}
    BY <1>1 DEF Askable, FrameCount, Prelude
<1> QED
    BY <1>1, <1>2, ServeAssumption

LEMMA ReceiveResponseKeeps ==
    ASSUME ServeHolds, NEW r \in Responses, ReceiveResponse(r) PROVE ServeHolds'
<1> DEFINE old == response[r]
<1>1. /\ TaskHolds(r, old) /\ response \in [Responses -> Replies] /\ leaves' \in 0 .. MaxLeaves
      /\ old.st = "none" /\ leaves' = leaves
    BY DEF ServeHolds, ReceiveResponse
<1>2. PICK t : /\ response' = [response EXCEPT ![r] = t]
               /\ \/ t = [old EXCEPT !.st = "serving"] /\ num_responses < max_conc_res
                     /\ num_responses' = num_responses + 1
                  \/ t = [old EXCEPT !.st = "ending", !.rejected = TRUE]
                     /\ num_responses < max_conc_res /\ num_responses' = num_responses + 1
                  \/ t = [old EXCEPT !.st = "refused"] /\ num_responses' = num_responses
    BY DEF ReceiveResponse
<1> HIDE DEF old
<1>3. FrameCount(Asks[r]) \in Nat \ {0}
    BY AskFacts
<1>4. TaskHolds(r, t)
  <2>1. old \in Replies
    BY <1>1 DEF TaskHolds
  <2>2. t \in Replies
    BY <1>2, <2>1 DEF Replies
  <2>3. t.next = old.next /\ t.got = old.got /\ t.open = old.open /\ t.st # "none"
    BY <1>2, <2>1 DEF Replies
  <2>4. old.next = 1 /\ old.open /\ old.st = "none"
    BY <1>1 DEF TaskHolds
  <2> QED
    BY <1>1, <1>3, <2>2, <2>3, <2>4 DEF TaskHolds
<1>5. t.open /\ old.st = "none" /\ t.st \in {"serving", "ending", "refused"}
    BY <1>1, <1>2 DEF TaskHolds, Replies
<1>6. /\ t.st = "refused" => num_responses' = num_responses
      /\ t.st # "refused" => num_responses < max_conc_res /\ num_responses' = num_responses + 1
    BY <1>1, <1>2 DEF TaskHolds, Replies
<1>7. SlotMove(num_responses, num_responses', leaves, leaves', r, old, t)
    BY <1>1, <1>5, <1>6 DEF SlotMove, Busy, Owes, OwesTwice
<1> QED
    BY <1>1, <1>2, <1>4, <1>7, ServeStepHolds DEF old

LEMMA SendFrameKeeps ==
    ASSUME ServeHolds, NEW r \in Responses, SendFrame(r) PROVE ServeHolds'
<1> DEFINE old == response[r]
           fr == Frames(Asks[r])[old.next]
<1>1. /\ TaskHolds(r, old) /\ response \in [Responses -> Replies] /\ leaves' \in 0 .. MaxLeaves
      /\ old.st = "serving" /\ old.open /\ leaves' = leaves /\ num_responses' = num_responses
      /\ ~IsMissing(Asks[r], fr)
    BY DEF ServeHolds, SendFrame, Missing_, Frame_
<1>2. PICK t : /\ response' = [response EXCEPT ![r] = t]
               /\ t = [old EXCEPT !.next = old.next + 1, !.got = Append(old.got, fr),
                                  !.st = IF fr.kind = "eos" THEN "ending" ELSE old.st]
    BY DEF SendFrame, Frame_
<1>3. PICK i \in Nat \ {0} : i = old.next
    BY <1>1 DEF TaskHolds, Replies
<1>4. PICK n \in Nat \ {0} : n = FrameCount(Asks[r])
    BY AskFacts
<1>5. i <= n /\ Len(old.got) = i - 1 /\ i \in 1 .. FrameCount(Asks[r])
    BY <1>1, <1>3, <1>4 DEF TaskHolds
<1>6. fr \in [kind : Kinds, block : Nat] /\ (fr.kind = "eos" <=> i = n)
    BY <1>3, <1>4, <1>5, AskFacts, FrameFacts
<1>7. old \in Replies /\ old.got \in Seq([kind : Kinds, block : Nat])
    BY <1>1 DEF TaskHolds, Replies, Kinds
<1> HIDE DEF old, fr
<1>8. /\ Append(old.got, fr) \in Seq([kind : Kinds, block : Nat])
      /\ Len(Append(old.got, fr)) = i
      /\ DOMAIN Append(old.got, fr) = 1 .. i
      /\ \A k \in 1 .. i : Append(old.got, fr)[k] = IF k = i THEN fr ELSE old.got[k]
    BY <1>5, <1>6, <1>7
<1>9. /\ t.next = i + 1 /\ t.open /\ t.rejected \in BOOLEAN
      /\ t.got = Append(old.got, fr)
      /\ t.st = (IF fr.kind = "eos" THEN "ending" ELSE "serving")
      /\ t.st \in {"ending", "serving"}
    BY <1>1, <1>2, <1>3, <1>7 DEF Replies
<1>10. t \in Replies
  <2>1. t = [st |-> t.st, next |-> t.next, open |-> t.open, rejected |-> t.rejected, got |-> t.got]
    BY <1>2, <1>7 DEF Replies
  <2>2. t.next \in Nat \ {0}
    BY <1>9
  <2>3. t.got \in Seq([kind : Kinds, block : Nat])
    BY <1>8, <1>9
  <2> QED
    BY <1>9, <2>1, <2>2, <2>3 DEF Replies, Kinds
<1>11. \A k \in 1 .. i :
         k <= FrameCount(Asks[r]) /\ ~IsMissing(Asks[r], Frames(Asks[r])[k])
  <2>1. \A k \in 1 .. i - 1 :
         k <= FrameCount(Asks[r]) /\ ~IsMissing(Asks[r], Frames(Asks[r])[k])
    BY <1>1, <1>3 DEF TaskHolds
  <2>2. i <= FrameCount(Asks[r]) /\ ~IsMissing(Asks[r], Frames(Asks[r])[i])
    BY <1>1, <1>3, <1>5 DEF fr
  <2> QED
    BY <2>1, <2>2
<1>12. \A k \in DOMAIN t.got : k <= FrameCount(Asks[r]) /\ t.got[k] = Frames(Asks[r])[k]
  <2>1. \A k \in 1 .. i - 1 : old.got[k] = Frames(Asks[r])[k]
    BY <1>1, <1>5, <1>7 DEF TaskHolds
  <2>2. fr = Frames(Asks[r])[i]
    BY <1>3 DEF fr
  <2> QED
    BY <1>4, <1>5, <1>8, <1>9, <2>1, <2>2
<1>13. TaskHolds(r, t)
    BY <1>4, <1>5, <1>6, <1>8, <1>9, <1>10, <1>11, <1>12 DEF TaskHolds
<1>14. SlotMove(num_responses, num_responses', leaves, leaves', r, old, t)
    BY <1>1, <1>9 DEF SlotMove, Busy, Owes, OwesTwice
<1> QED
    BY <1>1, <1>2, <1>13, <1>14, ServeStepHolds DEF old

LEMMA SendFailsKeeps ==
    ASSUME ServeHolds, NEW r \in Responses, SendFails(r) PROVE ServeHolds'
<1> DEFINE old == response[r]
           fr == Frames(Asks[r])[old.next]
<1>1. /\ TaskHolds(r, old) /\ response \in [Responses -> Replies] /\ leaves' \in 0 .. MaxLeaves
      /\ old.st = "serving" /\ ~old.open /\ leaves' = leaves
      /\ num_responses' = IF fr.kind \in {"proof", "chunk", "last"}
                          THEN Decremented(num_responses) ELSE num_responses
      /\ ~IsMissing(Asks[r], fr)
    BY DEF ServeHolds, SendFails, Missing_, Frame_
<1>2. PICK t : /\ response' = [response EXCEPT ![r] = t]
               /\ t = [old EXCEPT !.next = old.next + 1,
                                  !.st = IF fr.kind \in {"proof", "eos"} THEN "ending" ELSE old.st]
    BY DEF SendFails, Frame_
<1>3. PICK i \in Nat \ {0} : i = old.next
    BY <1>1 DEF TaskHolds, Replies
<1>4. PICK n \in Nat \ {0} : n = FrameCount(Asks[r])
    BY AskFacts
<1>5. i <= n /\ Len(old.got) < i /\ i \in 1 .. FrameCount(Asks[r])
    BY <1>1, <1>3, <1>4 DEF TaskHolds
<1> DEFINE nx == Frames(Asks[r])[i + 1]
<1>6. /\ fr \in [kind : Kinds, block : Nat] /\ (fr.kind = "eos" <=> i = n)
      /\ fr.kind \in {"prelude", "chunk"} => nx.kind = "proof"
      /\ fr.kind = "last" => nx.kind = "eos"
    BY <1>3, <1>4, <1>5, AskFacts, FrameFacts
<1>7. old \in Replies /\ Len(old.got) \in Nat
    BY <1>1 DEF TaskHolds, Replies
<1> HIDE DEF old, fr, nx
<1>9. /\ t.next = i + 1 /\ ~t.open /\ t.got = old.got
      /\ t.st = (IF fr.kind \in {"proof", "eos"} THEN "ending" ELSE "serving")
      /\ t.st \in {"ending", "serving"}
    BY <1>1, <1>2, <1>3, <1>7 DEF Replies
<1>10. t \in Replies
  <2>1. /\ t = [st |-> t.st, next |-> t.next, open |-> t.open, rejected |-> t.rejected,
                got |-> t.got]
        /\ t.open = old.open /\ t.rejected = old.rejected
    BY <1>2, <1>7 DEF Replies
  <2>2. t.next \in Nat \ {0}
    BY <1>9
  <2> QED
    BY <1>7, <1>9, <2>1, <2>2 DEF Replies
<1>11. \A k \in 1 .. i :
         k <= FrameCount(Asks[r]) /\ ~IsMissing(Asks[r], Frames(Asks[r])[k])
  <2>1. \A k \in 1 .. i - 1 :
         k <= FrameCount(Asks[r]) /\ ~IsMissing(Asks[r], Frames(Asks[r])[k])
    BY <1>1, <1>3 DEF TaskHolds
  <2>2. i <= FrameCount(Asks[r]) /\ ~IsMissing(Asks[r], Frames(Asks[r])[i])
    BY <1>1, <1>3, <1>5 DEF fr
  <2> QED
    BY <2>1, <2>2
<1>12. \A k \in DOMAIN t.got : k <= FrameCount(Asks[r]) /\ t.got[k] = Frames(Asks[r])[k]
    BY <1>1, <1>9 DEF TaskHolds
<1>13. TaskHolds(r, t)
    BY <1>4, <1>5, <1>6, <1>7, <1>9, <1>10, <1>11, <1>12 DEF TaskHolds
<1>14. /\ Owes(r, old) <=> fr.kind # "eos"
       /\ OwesTwice(r, old) <=> fr.kind = "chunk"
       /\ Owes(r, t) => fr.kind \notin {"proof", "eos"} /\ nx.kind # "eos"
       /\ OwesTwice(r, t) => fr.kind \notin {"proof", "eos"} /\ nx.kind = "chunk"
       /\ Busy(t) /\ Busy(old)
    BY <1>1, <1>3, <1>9 DEF Busy, Owes, OwesTwice, fr, nx
<1>15. SlotMove(num_responses, num_responses', leaves, leaves', r, old, t)
    BY <1>1, <1>6, <1>14 DEF SlotMove, Kinds
<1> QED
    BY <1>1, <1>2, <1>13, <1>15, ServeStepHolds DEF old

LEMMA BlockMissingKeeps ==
    ASSUME ServeHolds, NEW r \in Responses, BlockMissing(r) PROVE ServeHolds'
<1> DEFINE old == response[r]
<1>1. /\ TaskHolds(r, old) /\ response \in [Responses -> Replies] /\ leaves' \in 0 .. MaxLeaves
      /\ old.st = "serving" /\ leaves' = leaves /\ num_responses' = num_responses
    BY DEF ServeHolds, BlockMissing
<1>2. PICK t : /\ response' = [response EXCEPT ![r] = t]
               /\ t = [old EXCEPT !.st = "ending", !.rejected = old.open]
    BY DEF BlockMissing
<1> HIDE DEF old
<1>3. TaskHolds(r, t) /\ t.st = "ending"
    BY <1>1, <1>2 DEF TaskHolds, Replies
<1>4. SlotMove(num_responses, num_responses', leaves, leaves', r, old, t)
    BY <1>1, <1>3 DEF SlotMove, Busy, Owes, OwesTwice
<1> QED
    BY <1>1, <1>2, <1>3, <1>4, ServeStepHolds DEF old

LEMMA EndResponseKeeps ==
    ASSUME ServeHolds, NEW r \in Responses, EndResponse(r) PROVE ServeHolds'
<1> DEFINE old == response[r]
<1>1. /\ TaskHolds(r, old) /\ response \in [Responses -> Replies] /\ leaves' \in 0 .. MaxLeaves
      /\ old.st = "ending" /\ leaves' = leaves /\ num_responses' = Decremented(num_responses)
    BY DEF ServeHolds, EndResponse
<1>2. PICK t : response' = [response EXCEPT ![r] = t] /\ t = [old EXCEPT !.st = "ended"]
    BY DEF EndResponse
<1> HIDE DEF old
<1>3. TaskHolds(r, t) /\ t.st = "ended"
    BY <1>1, <1>2 DEF TaskHolds, Replies
<1>4. SlotMove(num_responses, num_responses', leaves, leaves', r, old, t)
    BY <1>1, <1>3 DEF SlotMove, Busy
<1> QED
    BY <1>1, <1>2, <1>3, <1>4, ServeStepHolds DEF old

LEMMA PeerLeavesKeeps ==
    ASSUME ServeHolds, NEW r \in Responses, PeerLeaves(r) PROVE ServeHolds'
<1> DEFINE old == response[r]
<1>1. /\ TaskHolds(r, old) /\ response \in [Responses -> Replies]
      /\ old.st = "serving" /\ leaves' = leaves + 1 /\ num_responses' = num_responses
      /\ leaves < MaxLeaves /\ leaves \in 0 .. MaxLeaves
    BY DEF ServeHolds, PeerLeaves
<1>2. leaves' \in 0 .. MaxLeaves
    BY <1>1, ServeAssumption
<1>3. PICK t : response' = [response EXCEPT ![r] = t] /\ t = [old EXCEPT !.open = FALSE]
    BY DEF PeerLeaves
<1> HIDE DEF old
<1>4. TaskHolds(r, t) /\ t.st = "serving"
    BY <1>1, <1>3 DEF TaskHolds, Replies
<1>5. SlotMove(num_responses, num_responses', leaves, leaves', r, old, t)
    BY <1>1, <1>4 DEF SlotMove, Busy
<1> QED
    BY <1>2, <1>3, <1>4, <1>5, ServeStepHolds DEF old

LEMMA ServeStepKeeps == ServeHolds /\ [ServeNext]_serveVars => ServeHolds'
<1> SUFFICES ASSUME ServeHolds, [ServeNext]_serveVars PROVE ServeHolds'
    OBVIOUS
<1>1. CASE UNCHANGED serveVars
    BY <1>1 DEF serveVars, ServeHolds
<1>2. CASE ServeNext
    BY <1>2, ReceiveResponseKeeps, SendFrameKeeps, SendFailsKeeps, BlockMissingKeeps,
       EndResponseKeeps, PeerLeavesKeeps DEF ServeNext
<1> QED
    BY <1>1, <1>2

LEMMA ServeInitHolds == ServeInit => ServeHolds
<1> SUFFICES ASSUME ServeInit PROVE ServeHolds
    OBVIOUS
<1>1. \A r \in Responses : response[r] =
        [st |-> "none", next |-> 1, open |-> TRUE, got |-> <<>>, rejected |-> FALSE]
    BY DEF ServeInit
<1>2. \A r \in Responses : response[r] \in Replies /\ TaskHolds(r, response[r])
  <2> TAKE r \in Responses
  <2> DEFINE t == [st |-> "none", next |-> 1, open |-> TRUE, got |-> <<>>, rejected |-> FALSE]
  <2>1. t \in Replies
    BY DEF Replies
  <2>2. Len(t.got) = 0 /\ DOMAIN t.got = {} /\ t.next = 1 /\ t.st = "none" /\ t.open
    OBVIOUS
  <2> HIDE DEF t
  <2>3. TaskHolds(r, t)
    BY <2>1, <2>2 DEF TaskHolds
  <2> QED
    BY <1>1, <2>1, <2>3 DEF t
<1>3. response \in [Responses -> Replies]
    BY <1>2 DEF ServeInit
<1>4. BusyIn(response) = {} /\ OwingIn(response) = {} /\ OwingTwiceIn(response) = {}
    BY <1>1 DEF BusyIn, OwingIn, OwingTwiceIn, Busy, Owes, OwesTwice
<1>5. num_responses = 0 /\ leaves = 0
    BY DEF ServeInit
<1>6. IsFiniteSet({}) /\ Cardinality({}) = 0
    BY FS_EmptySet
<1>7. Balance(0, 0, 0, 0, 0)
    BY DEF Balance
<1>8. SlotsHold(num_responses, leaves, response)
    BY <1>4, <1>5, <1>6, <1>7 DEF SlotsHold
<1> QED
    BY <1>2, <1>3, <1>5, <1>8, ServeAssumption DEF ServeHolds

LEMMA ServeByPart == ServeHolds => ServeInv
<1> SUFFICES ASSUME ServeHolds PROVE ServeInv
    OBVIOUS
<1>1. ServeTypeOK
    BY DEF ServeHolds, ServeTypeOK
<1>2. TasksInStep
    BY DEF ServeHolds, TaskHolds, TasksInStep
<1>3. EosMeansWhole
  <2> SUFFICES ASSUME NEW r \in Responses, Asks[r].missing # {}
               PROVE  Len(response[r].got) < FrameCount(Asks[r])
    BY DEF ServeHolds, TaskHolds, EosMeansWhole
  <2>1. PICK i \in 1 .. FrameCount(Asks[r]) : IsMissing(Asks[r], Frames(Asks[r])[i])
    BY AskFacts, MissingHasFrame
  <2>2. ~(i \in 1 .. response[r].next - 1) /\ Len(response[r].got) < response[r].next
    BY <2>1 DEF ServeHolds, TaskHolds
  <2>3. response[r].next \in Nat /\ Len(response[r].got) \in Nat /\ FrameCount(Asks[r]) \in Nat
    BY AskFacts DEF ServeHolds, Replies
  <2> QED
    BY <2>1, <2>2, <2>3
<1>4. /\ BusyIn(response) = Serving /\ OwingIn(response) = Overdrawing
      /\ OwingTwiceIn(response) = OverdrawingTwice
    BY DEF BusyIn, OwingIn, OwingTwiceIn, Busy, Owes, OwesTwice, Serving, Overdrawing,
           OverdrawingTwice, Frame_
<1>5. SlotsBalance
    BY <1>4 DEF ServeHolds, SlotsHold, Balance, SlotsBalance
<1>6. NoSlotLost
  <2>1. Cardinality(Serving) \in Nat
    BY <1>5, FS_CardinalityType DEF SlotsBalance
  <2>2. PICK b \in Nat : b = Cardinality(Serving)
    BY <2>1
  <2>3. PICK e \in 0 .. 2 * leaves : num_responses + e = b \/ num_responses + e = b + CounterSize
    BY <1>5, <2>2 DEF SlotsBalance
  <2>4. /\ num_responses \in Nat /\ leaves \in Nat /\ leaves <= MaxLeaves /\ MaxLeaves \in Nat
        /\ CounterSize \in Nat /\ CounterSize >= 4 * MaxLeaves /\ CounterSize > 0
    BY ServeAssumption DEF ServeHolds
  <2>5. PICK h \in Nat : h = CounterSize \div 2
    BY <2>4, Halves
  <2>6. CounterSize = 2 * h \/ CounterSize = 2 * h + 1
    BY <2>4, <2>5, Halves
  <2>7. num_responses < h => num_responses <= b
    BY <2>3, <2>4, <2>6
  <2> QED
    BY <2>2, <2>5, <2>7 DEF NoSlotLost
<1> QED
    BY <1>1, <1>2, <1>3, <1>5, <1>6 DEF ServeInv

\* A peer that reads the end of an answer of the blockstore server has all of it, and
\* no slot of num_responses is lost, however many streams are closed while send_file and
\* send_dir use them.
THEOREM AnswersAreWhole == ServeSpec => []ServeInv
<1> QED
    BY ServeInitHolds, ServeStepKeeps, ServeByPart, PTL DEF ServeSpec

-----------------------------------------------------------------------------
(* The content store on disk.                                              *)

LEMMA Division ==
    ASSUME NEW a \in Nat, NEW b \in Nat \ {0}
    PROVE  /\ a \div b \in Nat
           /\ (a \div b) * b <= a
           /\ a < (a \div b) * b + b
BY SMT

LEMMA Multiples ==
    ASSUME NEW n \in Nat, NEW k \in Nat, NEW m \in Nat \ {0}
    PROVE  /\ n * m \in Nat /\ (n + 1) * m = n * m + m
           /\ n < k => n * m + m <= k * m
           /\ n * m < k * m => n < k
BY SMT

LEMMA MinOfTwo ==
    ASSUME NEW a \in Nat, NEW b \in Nat
    PROVE  Min({a, b}) = IF a <= b THEN a ELSE b
BY SMT DEF Min

\* The bytes of a part of a file, and of the parts of a part.
AreBytes(s, b, x, n) ==
    /\ s \in Seq(Nat) /\ Len(s) = n
    /\ \A i \in 1 .. n : s[i] = IF b = x + i THEN 0 ELSE x + i

LEMMA BytesAre ==
    ASSUME NEW b \in Nat, NEW x \in Nat, NEW y \in Nat, NEW n \in Nat, y = x + n
    PROVE  AreBytes(Bytes(b, x, y), b, x, n)
<1>1. y - x = n
    OBVIOUS
<1>2. Bytes(b, x, y) = [i \in 1 .. n |-> IF b = x + i THEN 0 ELSE x + i]
    BY <1>1 DEF Bytes
<1>3. \A i \in 1 .. n : (IF b = x + i THEN 0 ELSE x + i) \in Nat
    OBVIOUS
<1> QED
    BY <1>2, <1>3 DEF AreBytes

LEMMA BytesFacts ==
    ASSUME NEW b \in Nat, NEW x \in Nat, NEW y \in Nat, x <= y
    PROVE  Bytes(b, x, y) \in Seq(Nat) /\ Len(Bytes(b, x, y)) = y - x
<1>1. PICK n \in Nat : n = y - x
    OBVIOUS
<1>2. AreBytes(Bytes(b, x, y), b, x, n)
    BY <1>1, BytesAre
<1> QED
    BY <1>1, <1>2 DEF AreBytes

InOrder(b, x, y, z) ==
    b \in Nat /\ x \in Nat /\ y \in Nat /\ z \in Nat /\ x <= y /\ y <= z

LEMMA BytesJoin ==
    ASSUME NEW b, NEW x, NEW y, NEW z, InOrder(b, x, y, z)
    PROVE  Bytes(b, x, y) \o Bytes(b, y, z) = Bytes(b, x, z)
<1> USE DEF InOrder
<1>1. PICK p \in Nat, q \in Nat : p = y - x /\ q = z - y
    OBVIOUS
<1>0. y = x + p /\ z = y + q /\ z = x + (p + q) /\ p + q \in Nat
    BY <1>1
<1>2. /\ Bytes(b, x, y) \in Seq(Nat) /\ Len(Bytes(b, x, y)) = p
      /\ \A i \in 1 .. p : Bytes(b, x, y)[i] = IF b = x + i THEN 0 ELSE x + i
  <2>1. AreBytes(Bytes(b, x, y), b, x, p)
    BY <1>0, BytesAre
  <2> QED
    BY <2>1 DEF AreBytes
<1>3. /\ Bytes(b, y, z) \in Seq(Nat) /\ Len(Bytes(b, y, z)) = q
      /\ \A i \in 1 .. q : Bytes(b, y, z)[i] = IF b = y + i THEN 0 ELSE y + i
  <2>1. AreBytes(Bytes(b, y, z), b, y, q)
    BY <1>0, BytesAre
  <2> QED
    BY <2>1 DEF AreBytes
<1>4. /\ Bytes(b, x, z) \in Seq(Nat) /\ Len(Bytes(b, x, z)) = p + q
      /\ \A i \in 1 .. p + q : Bytes(b, x, z)[i] = IF b = x + i THEN 0 ELSE x + i
  <2>1. AreBytes(Bytes(b, x, z), b, x, p + q)
    BY <1>0, BytesAre
  <2> QED
    BY <2>1 DEF AreBytes
<1> DEFINE s == Bytes(b, x, y)
           t == Bytes(b, y, z)
<1> HIDE DEF s, t
<1>5. /\ s \o t \in Seq(Nat) /\ Len(s \o t) = p + q
      /\ \A i \in 1 .. p + q : (s \o t)[i] = IF i <= p THEN s[i] ELSE t[i - p]
  <2>1. s \in Seq(Nat) /\ Len(s) = p /\ t \in Seq(Nat) /\ Len(t) = q
    BY <1>2, <1>3 DEF s, t
  <2>2. /\ s \o t \in Seq(Nat) /\ Len(s \o t) = Len(s) + Len(t)
        /\ \A i \in 1 .. Len(s) + Len(t) : (s \o t)[i] = IF i <= Len(s) THEN s[i] ELSE t[i - Len(s)]
    BY ONLY <2>1, ConcatProperties
  <2> QED
    BY <2>1, <2>2, Zenon
<1>6. ASSUME NEW i \in 1 .. p + q
      PROVE  (s \o t)[i] = Bytes(b, x, z)[i]
  <2>1. CASE i <= p
    <3>1. i \in 1 .. p
      BY <2>1
    <3>2. PICK v : v = IF b = x + i THEN 0 ELSE x + i
      OBVIOUS
    <3>3. s[i] = v
      BY <1>2, <3>1, <3>2 DEF s
    <3>4. Bytes(b, x, z)[i] = v
      BY <1>4, <3>2
    <3>5. (s \o t)[i] = s[i]
      BY <1>5, <2>1
    <3> QED
      BY <3>3, <3>4, <3>5
  <2>2. CASE ~(i <= p)
    <3>1. i - p \in 1 .. q /\ y + (i - p) = x + i /\ ~(i <= p)
      BY <1>1, <2>2
    <3> QED
      BY <1>3, <1>4, <1>5, <3>1 DEF t
  <2> QED
    BY <2>1, <2>2
<1>7. s \o t = Bytes(b, x, z)
    BY <1>4, <1>5, <1>6, SeqEqual
<1> QED
    BY <1>7 DEF s, t

LEMMA BytesPart ==
    ASSUME NEW b \in Nat, NEW x \in Nat, NEW y \in Nat, NEW z \in Nat, x <= y, y <= z
    PROVE  /\ SubSeq(Bytes(b, x, z), 1, y - x) = Bytes(b, x, y)
           /\ SubSeq(Bytes(b, x, z), y - x + 1, z - x) = Bytes(b, y, z)
<1>1. PICK p \in Nat, q \in Nat : p = y - x /\ q = z - y
    OBVIOUS
<1>0. y = x + p /\ z = y + q /\ z = x + (p + q) /\ p + q \in Nat
    BY <1>1
<1>2. /\ Bytes(b, x, y) \in Seq(Nat) /\ Len(Bytes(b, x, y)) = p
      /\ \A i \in 1 .. p : Bytes(b, x, y)[i] = IF b = x + i THEN 0 ELSE x + i
  <2>1. AreBytes(Bytes(b, x, y), b, x, p)
    BY <1>0, BytesAre
  <2> QED
    BY <2>1 DEF AreBytes
<1>3. /\ Bytes(b, y, z) \in Seq(Nat) /\ Len(Bytes(b, y, z)) = q
      /\ \A i \in 1 .. q : Bytes(b, y, z)[i] = IF b = y + i THEN 0 ELSE y + i
  <2>1. AreBytes(Bytes(b, y, z), b, y, q)
    BY <1>0, BytesAre
  <2> QED
    BY <2>1 DEF AreBytes
<1> DEFINE all == Bytes(b, x, z)
<1>4. /\ all \in Seq(Nat) /\ Len(all) = p + q
      /\ \A i \in 1 .. p + q : all[i] = IF b = x + i THEN 0 ELSE x + i
  <2>1. AreBytes(all, b, x, p + q)
    BY <1>0, BytesAre
  <2> QED
    BY <2>1 DEF AreBytes
<1> HIDE DEF all
<1>5. SubSeq(all, 1, p) = Bytes(b, x, y)
  <2>1. /\ SubSeq(all, 1, p) \in Seq(Nat) /\ Len(SubSeq(all, 1, p)) = p
        /\ \A i \in 1 .. p : SubSeq(all, 1, p)[i] = all[i]
    BY <1>4
  <2>2. ASSUME NEW i \in 1 .. p PROVE SubSeq(all, 1, p)[i] = Bytes(b, x, y)[i]
    <3>1. i \in 1 .. p + q
      OBVIOUS
    <3>2. PICK v : v = IF b = x + i THEN 0 ELSE x + i
      OBVIOUS
    <3>3. Bytes(b, x, y)[i] = v /\ all[i] = v /\ SubSeq(all, 1, p)[i] = all[i]
      BY <1>2, <1>4, <2>1, <3>1, <3>2
    <3> QED
      BY <3>3
  <2> QED
    BY <1>2, <2>1, <2>2, SeqEqual
<1>6. SubSeq(all, p + 1, p + q) = Bytes(b, y, z)
  <2>1. /\ SubSeq(all, p + 1, p + q) \in Seq(Nat) /\ Len(SubSeq(all, p + 1, p + q)) = q
        /\ \A i \in 1 .. q : SubSeq(all, p + 1, p + q)[i] = all[p + i]
    BY <1>4
  <2>2. \A i \in 1 .. q : p + i \in 1 .. p + q /\ x + (p + i) = y + i
    BY <1>1
  <2>3. ASSUME NEW i \in 1 .. q PROVE SubSeq(all, p + 1, p + q)[i] = Bytes(b, y, z)[i]
    <3>1. PICK j, v : j = p + i /\ v = IF b = y + i THEN 0 ELSE y + i
      OBVIOUS
    <3>2. j \in 1 .. p + q /\ x + j = y + i
      BY <2>2, <3>1
    <3>3. all[j] = v
      BY <1>4, <3>1, <3>2
    <3>4. Bytes(b, y, z)[i] = v
      BY <1>3, <3>1
    <3> QED
      BY <2>1, <3>1, <3>3, <3>4
  <2> QED
    BY <1>3, <2>1, <2>3, SeqEqual
<1>7. y - x = p /\ z - x = p + q
    BY <1>1
<1> QED
    BY <1>5, <1>6, <1>7 DEF all

LEMMA BucketFacts ==
    /\ MaxBlock \in Nat \ {0} /\ Piece \in Nat \ {0} /\ Piece < MaxBlock
    /\ \A w \in DOMAIN FileWriters : /\ FileWriters[w] \in DOMAIN Contents
                                     /\ Contents[FileWriters[w]] \in Nat \ {0}
    /\ Preludes \subseteq Nat /\ DOMAIN Contents \cap DOMAIN Folders = {}
    /\ \A w \in DOMAIN DirWriters : /\ DirWriters[w] \in DOMAIN Folders
                                    /\ DirWriters[w] \notin DOMAIN Contents
                                    /\ Folders[DirWriters[w]] \in Nat \ {0}
    /\ \A f \in DOMAIN Contents : Contents[f] \in Nat \ {0}
BY BucketAssumption

\* How many blocks a file has, and what is in them.
LEMMA BlockCount ==
    ASSUME NEW f \in DOMAIN Contents, NEW n \in Nat
    PROVE  /\ NumBlocks(f) \in Nat
           /\ n * MaxBlock < Contents[f] /\ Contents[f] <= n * MaxBlock + MaxBlock
                => NumBlocks(f) = n + 1
           /\ n * MaxBlock + MaxBlock < Contents[f] => NumBlocks(f) > n + 1
<1>1. PICK m \in Nat \ {0} : m = MaxBlock
    BY BucketFacts
<1>2. PICK c \in Nat \ {0} : c = Contents[f]
    BY BucketFacts
<1>3. PICK k \in Nat : k = c + m - 1
    OBVIOUS
<1>4. PICK b \in Nat : b = k \div m
    BY Division
<1>5. b * m <= k /\ k < b * m + m
    BY <1>4, Division
<1>6. NumBlocks(f) = b
    BY <1>1, <1>2, <1>3, <1>4 DEF NumBlocks
<1>7. /\ b * m \in Nat /\ n * m \in Nat
      /\ n * m < b * m => n < b
      /\ (n + 1) * m = n * m + m /\ (n + 2) * m = n * m + m + m
      /\ b * m < (n + 2) * m => b < n + 2
      /\ (n + 1) * m < b * m => n + 1 < b
  <2>1. n + 1 \in Nat /\ n + 2 \in Nat /\ (n + 1) + 1 = n + 2
    OBVIOUS
  <2>2. (n + 1) * m = n * m + m /\ b * m \in Nat /\ n * m \in Nat /\ (n * m < b * m => n < b)
    BY Multiples
  <2>3. (n + 2) * m = (n + 1) * m + m
    BY <2>1, Multiples
  <2>4. (b * m < (n + 2) * m => b < n + 2) /\ ((n + 1) * m < b * m => n + 1 < b)
    BY <2>1, Multiples
  <2> QED
    BY <2>2, <2>3, <2>4
<1> DEFINE nm == n * m
           bm == b * m
<1>8. nm \in Nat /\ bm \in Nat /\ bm <= k /\ k < bm + m
    BY <1>5, <1>7
<1>9. (nm < bm => n < b) /\ (bm < nm + m + m => b < n + 2) /\ (nm + m < bm => n + 1 < b)
    BY <1>7
<1>10. n * MaxBlock = nm
    BY <1>1
<1> HIDE DEF nm, bm
<1>11. nm < c /\ c <= nm + m => b = n + 1
    BY <1>3, <1>8, <1>9
<1>12. nm + m < c => b > n + 1
    BY <1>3, <1>8, <1>9
<1> QED
    BY <1>1, <1>2, <1>6, <1>10, <1>11, <1>12

LEMMA TrueBytes ==
    ASSUME NEW f \in DOMAIN Contents, NEW n \in Nat
    PROVE  /\ n * MaxBlock \in Nat
           /\ n * MaxBlock + MaxBlock <= Contents[f] =>
                TrueHash(f, n) = BlockHash(f, n, Bytes(0, n * MaxBlock, n * MaxBlock + MaxBlock))
           /\ Contents[f] <= n * MaxBlock + MaxBlock =>
                TrueHash(f, n) = BlockHash(f, n, Bytes(0, n * MaxBlock, Contents[f]))
<1>1. PICK m \in Nat \ {0} : m = MaxBlock
    BY BucketFacts
<1>2. PICK c \in Nat \ {0} : c = Contents[f]
    BY BucketFacts
<1>3. n * m \in Nat /\ (n + 1) * m = n * m + m
    BY Multiples
<1>4. PICK k \in Nat : k = n * m
    BY <1>3
<1>5. Min({k + m, c}) = IF k + m <= c THEN k + m ELSE c
    BY MinOfTwo
<1>6. TrueHash(f, n) = BlockHash(f, n, Bytes(0, k, Min({k + m, c})))
    BY <1>1, <1>2, <1>3, <1>4 DEF TrueHash
<1>7. k + m <= c => Min({k + m, c}) = k + m
    BY <1>5
<1>8. c <= k + m => Min({k + m, c}) = c
    BY <1>5
<1> QED
    BY <1>1, <1>2, <1>4, <1>6, <1>7, <1>8

-----------------------------------------------------------------------------
(* One writer of a file.                                                   *)

FileWriterType == [st : FileStates, bad : Nat, given : Nat, todo : Nat, last : BOOLEAN, file : BOOLEAN,
             cur : Seq(Nat), buffer : Seq(Nat), cut : Seq(BlockFile), moved : Nat]

\* The calls of its caller.
Called(w, s) ==
    /\ s.given + s.todo <= Contents[FileWriters[w]]
    /\ s.last <=> s.given + s.todo = Contents[FileWriters[w]]
    /\ w \notin Untrusted => s.bad = 0

\* Its block files: they are those of the file, and follow each other while it is open.
Named(w, s) == \A i \in DOMAIN s.cut : s.cut[i] = BlockOf(FileWriters[w], i - 1)

Buffered(w, s) == s.buffer = IF w \in Untrusted THEN s.cur ELSE <<>>

Cutting(w, s) ==
    /\ \A i \in DOMAIN s.cut :
         s.cut[i].bytes = Bytes(s.bad, (i - 1) * MaxBlock, i * MaxBlock)
    /\ Len(s.cut) * MaxBlock < Contents[FileWriters[w]] /\ Len(s.cut) * MaxBlock <= s.given
    /\ s.cur = Bytes(s.bad, Len(s.cut) * MaxBlock, s.given)
    /\ s.given <= Len(s.cut) * MaxBlock + MaxBlock
    /\ Buffered(w, s)
    /\ s.file <=> s.given > 0

FileHolds(w, s) ==
    /\ s \in FileWriterType /\ Called(w, s)
    /\ s.st # "refused" => Named(w, s)
    /\ s.st \in {"new", "open"} => Cutting(w, s)
    /\ s.st \in {"header", "blocks", "done"} => Len(s.cut) = NumBlocks(FileWriters[w])
    /\ s.bad = 0 => s.st # "refused"

\* The numbers of a writer that is open.
LEMMA OpenNumbers ==
    ASSUME NEW w \in DOMAIN FileWriters, NEW s, FileHolds(w, s), s.st \in {"new", "open"}
    PROVE  /\ Len(s.cut) \in Nat /\ Len(s.cut) * MaxBlock \in Nat /\ s.given \in Nat /\ s.bad \in Nat
           /\ s.todo \in Nat /\ s \in FileWriterType /\ Cutting(w, s) /\ Called(w, s) /\ Named(w, s)
           /\ s.cut \in Seq(BlockFile)
<1>1. s \in FileWriterType /\ Cutting(w, s) /\ Called(w, s) /\ Named(w, s)
    BY DEF FileHolds
<1>2. s.cut \in Seq(BlockFile) /\ s.given \in Nat /\ s.bad \in Nat /\ s.todo \in Nat
    BY <1>1 DEF FileWriterType
<1>3. Len(s.cut) \in Nat
    BY <1>2
<1>4. Len(s.cut) * MaxBlock \in Nat
    BY <1>3, BucketFacts, Multiples
<1> QED
    BY <1>1, <1>2, <1>3, <1>4

\* The piece stays in the current block.
LEMMA PieceStays ==
    ASSUME NEW w \in DOMAIN FileWriters, NEW s, FileHolds(w, s), s.st = "open",
           NEW k \in Nat \ {0}, k <= s.todo,
           NEW t \in FileWriterType, t.st = "open", t.bad = s.bad, t.given = s.given + k, t.todo = s.todo - k,
           t.last = s.last, t.file, t.cut = s.cut,
           t.cur = Bytes(s.bad, Len(s.cut) * MaxBlock, s.given + k), Buffered(w, t),
           s.given + k <= Len(s.cut) * MaxBlock + MaxBlock
    PROVE  FileHolds(w, t)
<1>1. /\ Len(s.cut) \in Nat /\ Len(s.cut) * MaxBlock \in Nat /\ s.given \in Nat /\ s.bad \in Nat
      /\ s.todo \in Nat /\ s \in FileWriterType /\ Cutting(w, s) /\ Called(w, s) /\ Named(w, s)
    BY OpenNumbers
<1>2. t.given + t.todo = s.given + s.todo
    BY <1>1
<1>3. Called(w, t) /\ Named(w, t)
    BY <1>1, <1>2 DEF Called, Named
<1>4. Cutting(w, t)
  <2>1. PICK nm \in Nat : nm = Len(s.cut) * MaxBlock
    BY <1>1
  <2>2. nm <= s.given /\ nm <= s.given + k /\ s.given + k > 0
    BY <1>1, <2>1 DEF Cutting
  <2> QED
    BY <1>1, <2>1, <2>2 DEF Cutting
<1> QED
    BY <1>3, <1>4 DEF FileHolds

LEMMA SequenceEnd ==
    ASSUME NEW S, NEW q \in Seq(S), NEW e \in S
    PROVE  /\ Append(q, e) \in Seq(S) /\ Len(Append(q, e)) = Len(q) + 1 /\ Len(q) \in Nat
           /\ \A i \in DOMAIN Append(q, e) : /\ i \in Nat \ {0}
                                             /\ i # Len(q) + 1 => i \in DOMAIN q /\ Append(q, e)[i] = q[i]
                                             /\ i = Len(q) + 1 => Append(q, e)[i] = e
OBVIOUS

\* A block is cut, and verified when the bytes are from a peer.
LEMMA PieceCuts ==
    ASSUME NEW w \in DOMAIN FileWriters, NEW s, FileHolds(w, s), s.st = "open",
           NEW k \in Nat \ {0}, k <= s.todo, NEW h, NEW ok \in BOOLEAN, NEW from, NEW to,
           from = Len(s.cut) * MaxBlock, to = Len(s.cut) * MaxBlock + MaxBlock,
           NEW t \in FileWriterType, t.st = (IF ok THEN "open" ELSE "refused"), t.bad = s.bad,
           t.given = s.given + k, t.todo = s.todo - k,
           t.last = s.last, t.file, [hash |-> h, bytes |-> Bytes(s.bad, from, to)] \in BlockFile,
           t.cut = Append(s.cut, [hash |-> h, bytes |-> Bytes(s.bad, from, to)]),
           t.cur = Bytes(s.bad, to, s.given + k), Buffered(w, t),
           to <= s.given + k, to < Contents[FileWriters[w]],
           s.given + k <= to + MaxBlock,
           ok => h = TrueHash(FileWriters[w], Len(s.cut)) /\ h.bytes = Bytes(s.bad, from, to),
           s.bad = 0 => ok
    PROVE  FileHolds(w, t)
<1> DEFINE f == FileWriters[w]
           b == [hash |-> h, bytes |-> Bytes(s.bad, from, to)]
<1>1. /\ Len(s.cut) \in Nat /\ Len(s.cut) * MaxBlock \in Nat /\ s.given \in Nat /\ s.bad \in Nat
      /\ s.todo \in Nat /\ s \in FileWriterType /\ Cutting(w, s) /\ Called(w, s) /\ Named(w, s)
      /\ s.cut \in Seq(BlockFile)
    BY OpenNumbers
<1>2. t.given + t.todo = s.given + s.todo
    BY <1>1
<1>3. Called(w, t)
    BY <1>1, <1>2 DEF Called
<1>4. PICK n \in Nat : n = Len(s.cut)
    BY <1>1
<1> HIDE DEF b
<1>5. /\ Len(t.cut) = n + 1
      /\ \A i \in DOMAIN t.cut : /\ i \in Nat \ {0}
                                 /\ i # n + 1 => i \in DOMAIN s.cut /\ t.cut[i] = s.cut[i]
                                 /\ i = n + 1 => t.cut[i] = b
    BY <1>1, <1>4, SequenceEnd DEF b
<1>6. ((n + 1) - 1) * MaxBlock = from /\ (n + 1) * MaxBlock = to /\ (n + 1) - 1 = n
    BY <1>4, BucketFacts, Multiples
<1>7. ASSUME ok PROVE Named(w, t) /\ Cutting(w, t)
  <2>1. b = BlockOf(f, n) /\ b.bytes = Bytes(s.bad, from, to)
    BY <1>4, <1>7 DEF BlockOf, b
  <2>2. Named(w, t)
    BY <1>1, <1>5, <1>6, <2>1 DEF Named
  <2>3. \A i \in DOMAIN t.cut :
          t.cut[i].bytes = Bytes(t.bad, (i - 1) * MaxBlock, i * MaxBlock)
    BY <1>1, <1>5, <1>6, <2>1 DEF Cutting
  <2>4. t.given > 0
    BY <1>1
  <2> QED
    BY <1>5, <1>6, <2>2, <2>3, <2>4 DEF Cutting
<1>8. CASE ok
    BY <1>3, <1>7, <1>8 DEF FileHolds
<1>9. CASE ~ok
    BY <1>3, <1>9 DEF FileHolds
<1> QED
    BY <1>8, <1>9

\* The writer with a piece of k bytes in its collector.
Collected(w, s, k) ==
    [s EXCEPT !.given = @ + k, !.todo = @ - k,
              !.buffer = IF w \in Untrusted THEN @ \o Bytes(s.bad, s.given, s.given + k) ELSE @]

\* Its block file up to the block's end, and what is beyond.
Filled(s, bytes) == [s EXCEPT !.cur = @ \o SubSeq(bytes, 1, MaxBlock - Len(s.cur))]
Beyond(s, bytes) == SubSeq(bytes, MaxBlock - Len(s.cur) + 1, Len(bytes))

\* The numbers of a piece: nm is where the block begins, g where the piece ends.
PieceOf(w, s, k, n, nm, g) ==
    /\ k \in Nat \ {0} /\ k <= s.todo /\ k < MaxBlock
    /\ n \in Nat /\ n = Len(s.cut) /\ nm \in Nat /\ nm = n * MaxBlock
    /\ g \in Nat /\ g = s.given + k /\ nm <= s.given /\ s.given <= nm + MaxBlock
    /\ s.given \in Nat /\ s.bad \in Nat /\ s.todo \in Nat
    /\ s.given + s.todo <= Contents[FileWriters[w]]
    /\ s \in FileWriterType /\ s.st = "open" /\ FileHolds(w, s)

LEMMA PieceFacts ==
    ASSUME NEW w \in DOMAIN FileWriters, NEW s, NEW k, NEW n, NEW nm, NEW g,
           PieceOf(w, s, k, n, nm, g), NEW by, by = Bytes(s.bad, s.given, g),
           NEW c, c = Collected(w, s, k)
    PROVE  /\ c \in FileWriterType /\ c.st = "open" /\ c.bad = s.bad /\ c.given = g /\ c.todo = s.todo - k
           /\ c.last = s.last /\ c.file = s.file /\ c.cur = s.cur /\ c.cut = s.cut /\ c.moved = s.moved
           /\ by \in Seq(Nat) /\ Len(by) = k /\ s.cur = Bytes(s.bad, nm, s.given)
           /\ s.cur \in Seq(Nat) /\ Len(s.cur) = s.given - nm
           /\ s.cur \o by = Bytes(s.bad, nm, g)
           /\ c.buffer = IF w \in Untrusted THEN Bytes(s.bad, nm, g) ELSE <<>>
           /\ s.file <=> s.given > 0
           /\ g <= Contents[FileWriters[w]]
           /\ s.last <=> s.given + s.todo = Contents[FileWriters[w]]
<1>1. PieceOf(w, s, k, n, nm, g) /\ Cutting(w, s) /\ Called(w, s)
    BY OpenNumbers DEF PieceOf
<1>2. /\ s.given \in Nat /\ s.bad \in Nat /\ g \in Nat /\ nm \in Nat /\ nm <= s.given
      /\ s.given <= g /\ g - s.given = k
    BY <1>1 DEF PieceOf
<1>3. by \in Seq(Nat) /\ Len(by) = k
    BY <1>2, BytesFacts
<1>4. s.cur = Bytes(s.bad, nm, s.given) /\ (s.file <=> s.given > 0) /\ Buffered(w, s)
    BY <1>1 DEF Cutting, PieceOf
<1> DEFINE b == s.bad
           x == s.given
<1>0. b \in Nat /\ x \in Nat /\ nm <= x /\ x <= g /\ nm <= g
    BY <1>2
<1> HIDE DEF b, x
<1>5. s.cur \in Seq(Nat) /\ Len(s.cur) = s.given - nm
  <2>1. Bytes(b, nm, x) \in Seq(Nat) /\ Len(Bytes(b, nm, x)) = x - nm
    BY <1>0, <1>2, BytesFacts
  <2> QED
    BY <1>4, <2>1 DEF b, x
<1>6. s.cur \o by = Bytes(s.bad, nm, g)
  <2>1. Bytes(b, nm, x) \o Bytes(b, x, g) = Bytes(b, nm, g)
    <3>1. InOrder(b, nm, x, g)
      BY <1>0, <1>2 DEF InOrder
    <3> QED
      BY <3>1, BytesJoin
  <2> QED
    BY <1>4, <2>1 DEF b, x
<1>7. /\ s \in FileWriterType /\ s.st = "open" /\ k \in Nat /\ s.todo \in Nat /\ k <= s.todo
      /\ g = s.given + k
    BY <1>1 DEF PieceOf
<1>8. s.todo - k \in Nat
    BY <1>7
<1>9. /\ c.st = "open" /\ c.bad = s.bad /\ c.given = g /\ c.todo = s.todo - k
      /\ c.last = s.last /\ c.file = s.file /\ c.cur = s.cur /\ c.cut = s.cut /\ c.moved = s.moved
      /\ c.buffer = IF w \in Untrusted THEN s.buffer \o by ELSE s.buffer
      /\ c = [st |-> c.st, bad |-> c.bad, given |-> c.given, todo |-> c.todo, last |-> c.last,
              file |-> c.file, cur |-> c.cur, buffer |-> c.buffer, cut |-> c.cut, moved |-> c.moved]
    BY <1>7 DEF Collected, FileWriterType
<1>10. c.buffer = IF w \in Untrusted THEN Bytes(s.bad, nm, g) ELSE <<>>
    BY <1>4, <1>6, <1>9 DEF Buffered
<1>11. c.buffer \in Seq(Nat)
  <2>1. Bytes(b, nm, g) \in Seq(Nat)
    BY <1>0, <1>2, BytesFacts
  <2> QED
    BY <1>10, <2>1 DEF b
<1>12. c \in FileWriterType
    BY <1>2, <1>7, <1>8, <1>9, <1>11 DEF FileWriterType
<1>13. g <= Contents[FileWriters[w]]
  <2>1. PICK size \in Nat : size = Contents[FileWriters[w]]
    BY BucketFacts
  <2> QED
    BY <1>1, <1>7, <2>1 DEF PieceOf
<1>14. s.last <=> s.given + s.todo = Contents[FileWriters[w]]
    BY <1>1 DEF Called
<1> QED
    BY <1>3, <1>4, <1>5, <1>6, <1>9, <1>10, <1>12, <1>13, <1>14

KeptAs(s, nm, g, c, by, t) ==
    \/ ~c.file /\ t = [c EXCEPT !.file = TRUE, !.cur = by]
    \/ c.file /\ g <= nm + MaxBlock /\ t = [c EXCEPT !.cur = Bytes(s.bad, nm, g)]

\* The first piece opens the block file; a piece that does not reach its end is added.
LEMMA PieceKept ==
    ASSUME NEW w \in DOMAIN FileWriters, NEW s, NEW k, NEW n, NEW nm, NEW g,
           PieceOf(w, s, k, n, nm, g), NEW by, by = Bytes(s.bad, s.given, g),
           NEW c, c = Collected(w, s, k), NEW t, KeptAs(s, nm, g, c, by, t)
    PROVE  FileHolds(w, t) /\ t.moved = s.moved /\ t.cut = s.cut /\ t.st = "open"
<1>1. /\ c \in FileWriterType /\ c.st = "open" /\ c.bad = s.bad /\ c.given = g /\ c.todo = s.todo - k
      /\ c.last = s.last /\ c.file = s.file /\ c.cur = s.cur /\ c.cut = s.cut /\ c.moved = s.moved
      /\ c.buffer = IF w \in Untrusted THEN Bytes(s.bad, nm, g) ELSE <<>>
      /\ s.file <=> s.given > 0
    BY PieceFacts
<1>2. /\ k \in Nat \ {0} /\ k <= s.todo /\ k < MaxBlock /\ nm \in Nat /\ nm = Len(s.cut) * MaxBlock
      /\ g = s.given + k /\ g \in Nat /\ nm <= s.given /\ s.given \in Nat /\ s.bad \in Nat
      /\ s.st = "open" /\ FileHolds(w, s)
    BY DEF PieceOf
<1>3. MaxBlock \in Nat
    BY BucketFacts
<1>4. t = [c EXCEPT !.file = TRUE, !.cur = Bytes(s.bad, nm, g)] /\ g <= nm + MaxBlock
  <2>1. CASE ~c.file /\ t = [c EXCEPT !.file = TRUE, !.cur = by]
    <3>1. s.given = 0
      BY <1>1, <1>2, <2>1
    <3>2. nm = 0 /\ g <= nm + MaxBlock /\ by = Bytes(s.bad, nm, g)
      BY <1>2, <1>3, <3>1
    <3> QED
      BY <2>1, <3>2
  <2>2. CASE c.file /\ g <= nm + MaxBlock /\ t = [c EXCEPT !.cur = Bytes(s.bad, nm, g)]
    <3>1. c.file = TRUE
      BY <1>1, <2>2 DEF FileWriterType
    <3>2. [c EXCEPT !.file = TRUE, !.cur = Bytes(s.bad, nm, g)]
            = [c EXCEPT !.cur = Bytes(s.bad, nm, g)]
      BY <1>1, <3>1 DEF FileWriterType
    <3> QED
      BY <2>2, <3>2
  <2> QED
    BY <2>1, <2>2 DEF KeptAs
<1>5. Bytes(s.bad, nm, g) \in Seq(Nat)
  <2>1. nm <= g
    BY <1>2
  <2> QED
    BY <1>2, <2>1, BytesFacts
<1>6. /\ t \in FileWriterType /\ t.st = "open" /\ t.bad = s.bad /\ t.given = g /\ t.todo = s.todo - k
      /\ t.last = s.last /\ t.file /\ t.cut = s.cut /\ t.moved = s.moved
      /\ t.cur = Bytes(s.bad, nm, g) /\ t.buffer = c.buffer
    BY <1>1, <1>4, <1>5 DEF FileWriterType
<1>7. Buffered(w, t)
    BY <1>1, <1>6 DEF Buffered
<1>8. FileHolds(w, t)
  <2>1. /\ t.given = s.given + k
        /\ t.cur = Bytes(s.bad, Len(s.cut) * MaxBlock, s.given + k)
        /\ s.given + k <= Len(s.cut) * MaxBlock + MaxBlock
    BY <1>2, <1>4, <1>6
  <2> QED
    BY <1>2, <1>6, <1>7, <2>1, PieceStays
<1> QED
    BY <1>6, <1>8

\* The piece reaches the end e of the block; b is the wrong byte.
ReachOf(w, s, k, n, nm, g, x, e, b) ==
    /\ PieceOf(w, s, k, n, nm, g) /\ x = s.given /\ b = s.bad /\ e = nm + MaxBlock /\ e <= g

LEMMA ReachNumbers ==
    ASSUME NEW w \in DOMAIN FileWriters, NEW s, NEW k, NEW n, NEW nm, NEW g, NEW x, NEW e, NEW b,
           ReachOf(w, s, k, n, nm, g, x, e, b)
    PROVE  /\ k \in Nat \ {0} /\ n \in Nat /\ nm \in Nat /\ g \in Nat /\ x \in Nat /\ e \in Nat
           /\ b \in Nat /\ nm <= x /\ x <= e /\ e <= g /\ nm <= e /\ nm <= g /\ x <= g /\ g = x + k
           /\ e - nm = MaxBlock /\ MaxBlock \in Nat \ {0} /\ g <= e + MaxBlock /\ e = nm + MaxBlock
<1>1. PieceOf(w, s, k, n, nm, g) /\ x = s.given /\ b = s.bad /\ e = nm + MaxBlock /\ e <= g
    BY DEF ReachOf
<1>2. /\ k \in Nat \ {0} /\ nm \in Nat /\ g \in Nat /\ n \in Nat /\ k < MaxBlock
      /\ g = x + k /\ nm <= x /\ x \in Nat /\ b \in Nat /\ x <= nm + MaxBlock
    BY <1>1 DEF PieceOf
<1>3. MaxBlock \in Nat \ {0}
    BY BucketFacts
<1> QED
    BY <1>1, <1>2, <1>3

\* A piece from x to g crosses the end e of the block that begins at nm.
Crosses(b, nm, x, e, g) ==
    /\ b \in Nat /\ nm \in Nat /\ x \in Nat /\ e \in Nat /\ g \in Nat
    /\ nm <= x /\ x <= e /\ e <= g /\ nm <= e /\ nm <= g /\ x <= g

CrossedParts(b, nm, x, e, g) ==
    /\ SubSeq(Bytes(b, x, g), 1, e - x) = Bytes(b, x, e)
    /\ SubSeq(Bytes(b, x, g), e - x + 1, g - x) = Bytes(b, e, g)
    /\ Bytes(b, nm, x) \o Bytes(b, x, e) = Bytes(b, nm, e)
    /\ Bytes(b, nm, e) \o Bytes(b, e, g) = Bytes(b, nm, g)
    /\ SubSeq(Bytes(b, nm, g), 1, e - nm) = Bytes(b, nm, e)
    /\ SubSeq(Bytes(b, nm, g), e - nm + 1, g - nm) = Bytes(b, e, g)

LEMMA BytesAtEnd ==
    ASSUME NEW b, NEW nm, NEW x, NEW e, NEW g, Crosses(b, nm, x, e, g)
    PROVE  CrossedParts(b, nm, x, e, g)
<1> USE DEF Crosses
<1>1. SubSeq(Bytes(b, x, g), 1, e - x) = Bytes(b, x, e)
    BY BytesPart
<1>2. SubSeq(Bytes(b, x, g), e - x + 1, g - x) = Bytes(b, e, g)
    BY BytesPart
<1>7. InOrder(b, nm, x, e) /\ InOrder(b, nm, e, g)
    BY DEF InOrder
<1>3. Bytes(b, nm, x) \o Bytes(b, x, e) = Bytes(b, nm, e)
    BY ONLY <1>7, BytesJoin
<1>4. Bytes(b, nm, e) \o Bytes(b, e, g) = Bytes(b, nm, g)
    BY ONLY <1>7, BytesJoin
<1>5. SubSeq(Bytes(b, nm, g), 1, e - nm) = Bytes(b, nm, e)
    BY BytesPart
<1>6. SubSeq(Bytes(b, nm, g), e - nm + 1, g - nm) = Bytes(b, e, g)
    BY BytesPart
<1> QED
    BY <1>1, <1>2, <1>3, <1>4, <1>5, <1>6 DEF CrossedParts

LEMMA FilledFacts ==
    ASSUME NEW w \in DOMAIN FileWriters, NEW s, NEW k, NEW n, NEW nm, NEW g, NEW x, NEW e, NEW b,
           ReachOf(w, s, k, n, nm, g, x, e, b), NEW by, by = Bytes(b, x, g),
           NEW c, c = Collected(w, s, k)
    PROVE  /\ Filled(c, by) = [c EXCEPT !.cur = Bytes(b, nm, e)]
           /\ Beyond(c, by) = Bytes(b, e, g)
           /\ Bytes(b, nm, e) \o Bytes(b, e, g) = Bytes(b, nm, g)
           /\ Bytes(b, nm, e) \in Seq(Nat)
           /\ Bytes(b, e, g) \in Seq(Nat)
           /\ SubSeq(Bytes(b, nm, g), 1, MaxBlock) = Bytes(b, nm, e)
           /\ SubSeq(Bytes(b, nm, g), MaxBlock + 1, Len(Bytes(b, nm, g))) = Bytes(b, e, g)
           /\ Len(Bytes(b, nm, g)) = g - nm
<1>1. /\ k \in Nat \ {0} /\ n \in Nat /\ nm \in Nat /\ g \in Nat /\ x \in Nat /\ e \in Nat
      /\ b \in Nat /\ nm <= x /\ x <= e /\ e <= g /\ nm <= e /\ nm <= g /\ x <= g /\ g = x + k
      /\ e - nm = MaxBlock /\ MaxBlock \in Nat \ {0}
    BY ReachNumbers
<1>2. PieceOf(w, s, k, n, nm, g) /\ x = s.given /\ b = s.bad
    BY DEF ReachOf
<1>3. /\ c.cur = Bytes(b, nm, x) /\ Len(by) = k /\ Len(c.cur) = x - nm
  <2>1. by = Bytes(s.bad, s.given, g)
    BY <1>2
  <2>2. /\ c.cur = s.cur /\ Len(by) = k /\ s.cur = Bytes(s.bad, nm, s.given)
        /\ Len(s.cur) = s.given - nm
    BY <1>2, <2>1, PieceFacts
  <2> QED
    BY <1>2, <2>2
<1>4. MaxBlock - Len(c.cur) = e - x /\ Len(by) = g - x
    BY <1>1, <1>3
<1>5. /\ SubSeq(Bytes(b, x, g), 1, e - x) = Bytes(b, x, e)
      /\ SubSeq(Bytes(b, x, g), e - x + 1, g - x) = Bytes(b, e, g)
      /\ Bytes(b, nm, x) \o Bytes(b, x, e) = Bytes(b, nm, e)
      /\ Bytes(b, nm, e) \o Bytes(b, e, g) = Bytes(b, nm, g)
      /\ SubSeq(Bytes(b, nm, g), 1, e - nm) = Bytes(b, nm, e)
      /\ SubSeq(Bytes(b, nm, g), e - nm + 1, g - nm) = Bytes(b, e, g)
  <2>1. Crosses(b, nm, x, e, g)
    BY <1>1 DEF Crosses
  <2>2. CrossedParts(b, nm, x, e, g)
    BY <2>1, BytesAtEnd
  <2> QED
    BY <2>2, Zenon DEF CrossedParts
<1>6. SubSeq(by, 1, e - x) = Bytes(b, x, e) /\ SubSeq(by, e - x + 1, g - x) = Bytes(b, e, g)
    BY <1>5, Zenon
<1>7. c.cur \o SubSeq(by, 1, MaxBlock - Len(c.cur)) = Bytes(b, nm, e)
    BY <1>3, <1>4, <1>5, <1>6, Zenon
<1>8. Filled(c, by) = [c EXCEPT !.cur = Bytes(b, nm, e)]
    BY <1>7 DEF Filled
<1>9. Beyond(c, by) = Bytes(b, e, g)
    BY <1>4, <1>6 DEF Beyond
<1>10. Bytes(b, nm, e) \o Bytes(b, e, g) = Bytes(b, nm, g)
    BY <1>5
<1>11. Bytes(b, nm, e) \in Seq(Nat)
    BY <1>1, BytesFacts
<1>12. Bytes(b, e, g) \in Seq(Nat)
    BY <1>1, BytesFacts
<1>13. Len(Bytes(b, nm, g)) = g - nm
    BY <1>1, BytesFacts
<1>14. /\ SubSeq(Bytes(b, nm, g), 1, e - nm) = Bytes(b, nm, e)
       /\ SubSeq(Bytes(b, nm, g), e - nm + 1, g - nm) = Bytes(b, e, g)
    BY <1>5
<1>15. /\ SubSeq(Bytes(b, nm, g), 1, MaxBlock) = Bytes(b, nm, e)
       /\ SubSeq(Bytes(b, nm, g), MaxBlock + 1, Len(Bytes(b, nm, g))) = Bytes(b, e, g)
    BY <1>1, <1>13, <1>14
<1> QED
    BY <1>8, <1>9, <1>10, <1>11, <1>12, <1>13, <1>15

\* A block that is full is cut, with the hash h.
CutWith(w, c, by, h, ok) ==
    [new_block(Filled(c, by), h) EXCEPT
       !.cur = Beyond(c, by),
       !.buffer = IF w \in Untrusted THEN SubSeq(@, MaxBlock + 1, Len(@)) ELSE @,
       !.st = IF ok THEN @ ELSE "refused"]

\* Its parts: the block file cu, the next one re, the buffer bu, and the block bl.
CutParts(w, c, by, h, ok, cu, re, bu, bl) ==
    /\ c \in FileWriterType /\ c.st = "open" /\ ok \in BOOLEAN
    /\ bl = [hash |-> h, bytes |-> cu] /\ bl \in BlockFile
    /\ cu \in Seq(Nat) /\ re \in Seq(Nat) /\ bu \in Seq(Nat)
    /\ Filled(c, by) = [c EXCEPT !.cur = cu] /\ Beyond(c, by) = re
    /\ bu = IF w \in Untrusted THEN SubSeq(c.buffer, MaxBlock + 1, Len(c.buffer)) ELSE c.buffer

CutFields(t, c, ok, re, bu, bl) ==
    /\ t \in FileWriterType /\ t.st = (IF ok THEN "open" ELSE "refused") /\ t.bad = c.bad
    /\ t.given = c.given /\ t.todo = c.todo /\ t.last = c.last /\ t.file = c.file
    /\ t.cut = Append(c.cut, bl) /\ t.moved = c.moved /\ t.buffer = bu /\ t.cur = re

LEMMA CutRecord ==
    ASSUME NEW w, NEW c, NEW by, NEW h, NEW ok, NEW cu, NEW re, NEW bu, NEW bl,
           CutParts(w, c, by, h, ok, cu, re, bu, bl),
           NEW t, t = CutWith(w, c, by, h, ok)
    PROVE  CutFields(t, c, ok, re, bu, bl)
<1> USE DEF CutParts
<1> DEFINE fu == [c EXCEPT !.cur = cu]
           st == IF ok THEN "open" ELSE "refused"
<1>1. fu.cur = cu /\ fu.cut = c.cut /\ fu \in FileWriterType /\ fu.buffer = c.buffer /\ fu.st = "open"
      /\ fu.bad = c.bad /\ fu.given = c.given /\ fu.todo = c.todo /\ fu.last = c.last
      /\ fu.file = c.file /\ fu.moved = c.moved
    BY DEF FileWriterType
<1> HIDE DEF fu
<1>2. c.cut \in Seq(BlockFile)
    BY DEF FileWriterType
<1> DEFINE cut == Append(c.cut, bl)
<1>3. cut \in Seq(BlockFile)
    BY <1>2, SequenceEnd
<1> HIDE DEF cut
<1> DEFINE nb == [fu EXCEPT !.cut = cut]
<1>4. new_block(fu, h) = nb
    BY <1>1 DEF new_block, cut
<1>5. nb \in FileWriterType /\ nb.cut = cut /\ nb.buffer = c.buffer /\ nb.st = "open"
      /\ nb.bad = c.bad /\ nb.given = c.given /\ nb.todo = c.todo /\ nb.last = c.last
      /\ nb.file = c.file /\ nb.moved = c.moved
    BY <1>1, <1>3 DEF FileWriterType
<1> HIDE DEF nb
<1>6. t = [nb EXCEPT !.cur = re,
                     !.buffer = IF w \in Untrusted THEN SubSeq(@, MaxBlock + 1, Len(@)) ELSE @,
                     !.st = IF ok THEN @ ELSE "refused"]
    BY <1>4 DEF CutWith, fu
<1>7. /\ (IF w \in Untrusted THEN SubSeq(nb.buffer, MaxBlock + 1, Len(nb.buffer)) ELSE nb.buffer) = bu
      /\ (IF ok THEN nb.st ELSE "refused") = st
    BY <1>5
<1>8. st \in FileStates
    BY DEF FileStates
<1> HIDE DEF st
<1>9. t = [nb EXCEPT !.cur = re, !.buffer = bu, !.st = st]
    BY <1>5, <1>6, <1>7 DEF FileWriterType
<1>10. /\ t \in FileWriterType /\ t.st = st /\ t.bad = c.bad
       /\ t.given = c.given /\ t.todo = c.todo /\ t.last = c.last /\ t.file = c.file
       /\ t.cut = cut /\ t.moved = c.moved /\ t.buffer = bu /\ t.cur = re
    BY <1>5, <1>8, <1>9 DEF FileWriterType
<1> QED
    BY <1>10 DEF st, cut, CutFields

LEMMA PieceCut ==
    ASSUME NEW w \in DOMAIN FileWriters, NEW s, NEW k, NEW n, NEW nm, NEW g, NEW x, NEW e, NEW b,
           ReachOf(w, s, k, n, nm, g, x, e, b), NEW by, by = Bytes(b, x, g),
           NEW c, c = Collected(w, s, k), c.file, e < Contents[FileWriters[w]],
           NEW h \in [file : DOMAIN Contents, block : Nat, bytes : Seq(Nat)], NEW ok \in BOOLEAN,
           ok => h = TrueHash(FileWriters[w], n) /\ h.bytes = Bytes(b, nm, e),
           b = 0 => ok,
           NEW t, t = CutWith(w, c, by, h, ok)
    PROVE  /\ FileHolds(w, t) /\ t.moved = s.moved /\ Len(t.cut) = Len(s.cut) + 1
           /\ t.st \in {"open", "refused"}
<1> DEFINE cu == Bytes(b, nm, e)
           re == Bytes(b, e, g)
           bl == [hash |-> h, bytes |-> cu]
           bu == IF w \in Untrusted THEN re ELSE <<>>
<1>1. /\ k \in Nat \ {0} /\ n \in Nat /\ nm \in Nat /\ g \in Nat /\ x \in Nat /\ e \in Nat
      /\ b \in Nat /\ nm <= x /\ x <= e /\ e <= g /\ nm <= e /\ nm <= g /\ x <= g /\ g = x + k
      /\ e - nm = MaxBlock /\ MaxBlock \in Nat \ {0} /\ g <= e + MaxBlock /\ e = nm + MaxBlock
    BY ReachNumbers
<1>2. PieceOf(w, s, k, n, nm, g) /\ x = s.given /\ b = s.bad
    BY DEF ReachOf
<1>3. /\ k <= s.todo /\ n = Len(s.cut) /\ nm = n * MaxBlock /\ s \in FileWriterType /\ FileHolds(w, s)
      /\ s.st = "open"
    BY <1>2 DEF PieceOf
<1>4. /\ c \in FileWriterType /\ c.st = "open" /\ c.bad = s.bad /\ c.given = g /\ c.todo = s.todo - k
      /\ c.last = s.last /\ c.file = s.file /\ c.cur = s.cur /\ c.cut = s.cut /\ c.moved = s.moved
      /\ c.buffer = IF w \in Untrusted THEN Bytes(b, nm, g) ELSE <<>>
  <2>1. by = Bytes(s.bad, s.given, g)
    BY <1>2
  <2>2. /\ c \in FileWriterType /\ c.st = "open" /\ c.bad = s.bad /\ c.given = g /\ c.todo = s.todo - k
        /\ c.last = s.last /\ c.file = s.file /\ c.cur = s.cur /\ c.cut = s.cut /\ c.moved = s.moved
        /\ c.buffer = IF w \in Untrusted THEN Bytes(s.bad, nm, g) ELSE <<>>
    <3> HIDE DEF cu, re, bl, bu
    <3> QED
      BY ONLY w \in DOMAIN FileWriters, <1>2, <2>1, c = Collected(w, s, k), PieceFacts
  <2> QED
    BY <1>2, <2>2
<1>5. /\ Filled(c, by) = [c EXCEPT !.cur = cu] /\ Beyond(c, by) = re /\ cu \in Seq(Nat)
      /\ re \in Seq(Nat)
      /\ SubSeq(Bytes(b, nm, g), MaxBlock + 1, Len(Bytes(b, nm, g))) = re
    BY FilledFacts
<1>6. bl \in BlockFile
    BY <1>5 DEF BlockFile
<1>7. bu \in Seq(Nat)
    BY <1>5
<1>8. bu = IF w \in Untrusted THEN SubSeq(c.buffer, MaxBlock + 1, Len(c.buffer)) ELSE c.buffer
    BY <1>4, <1>5
<1> HIDE DEF cu, re, bl, bu
<1>9. /\ t \in FileWriterType /\ t.st = (IF ok THEN "open" ELSE "refused") /\ t.bad = c.bad
      /\ t.given = c.given /\ t.todo = c.todo /\ t.last = c.last /\ t.file = c.file
      /\ t.cut = Append(c.cut, bl) /\ t.moved = c.moved /\ t.buffer = bu /\ t.cur = re
  <2>1. bl = [hash |-> h, bytes |-> cu]
    BY DEF bl
  <2>2. /\ c \in FileWriterType /\ c.st = "open" /\ Filled(c, by) = [c EXCEPT !.cur = cu]
        /\ Beyond(c, by) = re /\ cu \in Seq(Nat) /\ re \in Seq(Nat)
    BY <1>4, <1>5
  <2>3. CutParts(w, c, by, h, ok, cu, re, bu, bl)
    BY <2>1, <2>2, <1>6, <1>7, <1>8 DEF CutParts
  <2>4. CutFields(t, c, ok, re, bu, bl)
    BY <2>3, CutRecord
  <2> QED
    BY <2>4 DEF CutFields
<1>10. Buffered(w, t)
    BY <1>9 DEF Buffered, bu
<1>11. Len(t.cut) = Len(s.cut) + 1
  <2>1. s.cut \in Seq(BlockFile)
    BY <1>3 DEF FileWriterType
  <2> QED
    BY <1>4, <1>6, <1>9, <2>1, SequenceEnd
<1>12. FileHolds(w, t)
  <2>1. nm = Len(s.cut) * MaxBlock /\ e = Len(s.cut) * MaxBlock + MaxBlock
    BY <1>1, <1>3
  <2>2. t.bad = s.bad /\ t.given = s.given + k /\ t.todo = s.todo - k /\ t.last = s.last /\ t.file
    BY <1>1, <1>2, <1>4, <1>9
  <2>3. /\ [hash |-> h, bytes |-> Bytes(s.bad, nm, e)] \in BlockFile
        /\ t.cut = Append(s.cut, [hash |-> h, bytes |-> Bytes(s.bad, nm, e)])
        /\ t.cur = Bytes(s.bad, e, s.given + k)
    BY <1>1, <1>2, <1>4, <1>6, <1>9 DEF bl, re, cu
  <2>4. /\ e <= s.given + k /\ e < Contents[FileWriters[w]] /\ s.given + k <= e + MaxBlock
        /\ ok => h = TrueHash(FileWriters[w], Len(s.cut)) /\ h.bytes = Bytes(s.bad, nm, e)
        /\ s.bad = 0 => ok
    BY <1>1, <1>2, <1>3
  <2> QED
    BY <1>1, <1>3, <1>9, <1>10, <2>1, <2>2, <2>3, <2>4, PieceCuts
<1> QED
    BY <1>9, <1>11, <1>12, <1>4

\* The fields of the writer whose block file is full.
LEMMA FilledFields ==
    ASSUME NEW w \in DOMAIN FileWriters, NEW s, NEW k, NEW n, NEW nm, NEW g, NEW x, NEW e, NEW b,
           ReachOf(w, s, k, n, nm, g, x, e, b), NEW by, by = Bytes(b, x, g),
           NEW c, c = Collected(w, s, k), NEW fu, fu = Filled(c, by)
    PROVE  /\ Len(fu.cut) = n /\ fu.given = g /\ fu.last = s.last
           /\ fu.buffer = IF w \in Untrusted THEN Bytes(b, nm, g) ELSE <<>>
<1>1. PieceOf(w, s, k, n, nm, g) /\ x = s.given /\ b = s.bad
    BY DEF ReachOf
<1>2. n = Len(s.cut)
    BY <1>1 DEF PieceOf
<1>3. /\ c \in FileWriterType /\ c.given = g /\ c.last = s.last /\ c.cut = s.cut
      /\ c.buffer = IF w \in Untrusted THEN Bytes(b, nm, g) ELSE <<>>
  <2>1. by = Bytes(s.bad, s.given, g)
    BY <1>1
  <2>2. /\ c \in FileWriterType /\ c.given = g /\ c.last = s.last /\ c.cut = s.cut
        /\ c.buffer = IF w \in Untrusted THEN Bytes(s.bad, nm, g) ELSE <<>>
    BY ONLY w \in DOMAIN FileWriters, <1>1, <2>1, c = Collected(w, s, k), PieceFacts
  <2> QED
    BY <1>1, <2>2
<1>4. Filled(c, by) = [c EXCEPT !.cur = Bytes(b, nm, e)]
    BY FilledFacts
<1>5. fu.cut = c.cut /\ fu.given = c.given /\ fu.last = c.last /\ fu.buffer = c.buffer
    BY <1>3, <1>4 DEF FileWriterType
<1> QED
    BY <1>2, <1>3, <1>5

\* The tree of a trusted writer has the hash of a block that is followed by a byte.
LEMMA TrustedReach ==
    ASSUME NEW w \in DOMAIN FileWriters, w \notin Untrusted, NEW fu, NEW n \in Nat, NEW g \in Nat,
           Len(fu.cut) = n, fu.given = g, g > n * MaxBlock + MaxBlock
    PROVE  on_reach_full_block(w, fu) = [cut |-> TRUE, ok |-> TRUE, hash |-> TrueHash(FileWriters[w], n)]
<1>1. (n + 1) * MaxBlock = n * MaxBlock + MaxBlock
    BY BucketFacts, Multiples
<1>2. HashedByTree(w, Len(fu.cut), fu.given)
    BY <1>1 DEF HashedByTree
<1> QED
    BY <1>2 DEF on_reach_full_block

\* An untrusted writer hashes the block, unless it may be the last.
PeerAnswer(w, reach, size, last, h, n) ==
    /\ size < MaxBlock \/ (size = MaxBlock /\ last) => ~reach.cut
    /\ ~(size < MaxBlock \/ (size = MaxBlock /\ last)) =>
         /\ reach.cut /\ reach.hash = h
         /\ reach.ok = (h = TrueHash(FileWriters[w], n) /\ NumBlocks(FileWriters[w]) > 1)

LEMMA PeerReach ==
    ASSUME NEW w \in Untrusted, NEW fu, NEW n, Len(fu.cut) = n,
           NEW h, h = BlockHash(FileWriters[w], n, SubSeq(fu.buffer, 1, MaxBlock)),
           NEW reach, reach = on_reach_full_block(w, fu)
    PROVE  PeerAnswer(w, reach, Len(fu.buffer), fu.last, h, n)
BY DEF on_reach_full_block, PeerAnswer

\* A full block of the file has the bytes its hash is of.
LEMMA FullBlock ==
    ASSUME NEW f \in DOMAIN Contents, NEW n \in Nat, NEW nm \in Nat, NEW e \in Nat,
           nm = n * MaxBlock, e = nm + MaxBlock, e < Contents[f]
    PROVE  /\ TrueHash(f, n) = BlockHash(f, n, Bytes(0, nm, e))
           /\ TrueHash(f, n).bytes = Bytes(0, nm, e)
           /\ TrueHash(f, n) \in [file : DOMAIN Contents, block : Nat, bytes : Seq(Nat)]
           /\ NumBlocks(f) > 1
<1>1. Contents[f] \in Nat /\ e <= Contents[f]
    BY BucketFacts
<1>2. TrueHash(f, n) = BlockHash(f, n, Bytes(0, nm, e))
    BY <1>1, TrueBytes
<1>3. Bytes(0, nm, e) \in Seq(Nat)
  <2>1. nm <= e
    BY BucketFacts
  <2> QED
    BY <2>1, BytesFacts
<1>4. NumBlocks(f) > n + 1 /\ NumBlocks(f) \in Nat
    BY BlockCount
<1>5. NumBlocks(f) > 1
    BY <1>4
<1> QED
    BY <1>2, <1>3, <1>5 DEF BlockHash

CutHolds(w, s, c, by, reach) ==
    /\ reach.cut
    /\ \A t : t = CutWith(w, c, by, reach.hash, reach.ok) =>
                 /\ FileHolds(w, t) /\ t.moved = s.moved /\ Len(t.cut) = Len(s.cut) + 1
                 /\ t.st \in {"open", "refused"}

UncutAs(nm, g, b, c, by, reach) ==
    /\ ~reach.cut /\ g <= nm + MaxBlock
    /\ [Filled(c, by) EXCEPT !.cur = @ \o Beyond(c, by)] = [c EXCEPT !.cur = Bytes(b, nm, g)]

\* write_block_file where the piece reaches the end of the block.
LEMMA ReachHolds ==
    ASSUME NEW w \in DOMAIN FileWriters, NEW s, NEW k, NEW n, NEW nm, NEW g, NEW x, NEW e, NEW b,
           ReachOf(w, s, k, n, nm, g, x, e, b), NEW by, by = Bytes(b, x, g),
           NEW c, c = Collected(w, s, k), c.file, w \notin Untrusted => e < g,
           NEW reach, reach = on_reach_full_block(w, Filled(c, by))
    PROVE  UncutAs(nm, g, b, c, by, reach) \/ CutHolds(w, s, c, by, reach)
<1> DEFINE f == FileWriters[w]
           fu == Filled(c, by)
<1>1. /\ k \in Nat \ {0} /\ n \in Nat /\ nm \in Nat /\ g \in Nat /\ x \in Nat /\ e \in Nat
      /\ b \in Nat /\ nm <= x /\ x <= e /\ e <= g /\ nm <= e /\ nm <= g /\ x <= g /\ g = x + k
      /\ e - nm = MaxBlock /\ MaxBlock \in Nat \ {0} /\ g <= e + MaxBlock /\ e = nm + MaxBlock
    BY ReachNumbers
<1>2. PieceOf(w, s, k, n, nm, g) /\ x = s.given /\ b = s.bad
    BY DEF ReachOf
<1>3. k <= s.todo /\ nm = n * MaxBlock /\ FileHolds(w, s) /\ s.st = "open" /\ s.todo \in Nat
    BY <1>2 DEF PieceOf
<1>4. Len(fu.cut) = n /\ fu.given = g /\ fu.last = s.last
      /\ fu.buffer = IF w \in Untrusted THEN Bytes(b, nm, g) ELSE <<>>
    BY FilledFields
<1>5. /\ fu = [c EXCEPT !.cur = Bytes(b, nm, e)] /\ Beyond(c, by) = Bytes(b, e, g)
      /\ Bytes(b, nm, e) \o Bytes(b, e, g) = Bytes(b, nm, g)
      /\ Bytes(b, nm, e) \in Seq(Nat)
      /\ SubSeq(Bytes(b, nm, g), 1, MaxBlock) = Bytes(b, nm, e)
      /\ Len(Bytes(b, nm, g)) = g - nm
    BY FilledFacts
<1>6. Called(w, s) /\ f \in DOMAIN Contents /\ Contents[f] \in Nat
    BY <1>3, OpenNumbers, BucketFacts
<1>7. x + s.todo <= Contents[f] /\ (s.last <=> x + s.todo = Contents[f]) /\ (w \notin Untrusted => b = 0)
    BY <1>2, <1>6 DEF Called
<1>8. g <= x + s.todo /\ g <= Contents[f]
    BY <1>1, <1>3, <1>6, <1>7
<1> HIDE DEF fu
<1>9. CASE w \notin Untrusted
  <2>1. g > n * MaxBlock + MaxBlock
    BY <1>1, <1>3, <1>9
  <2>2. reach = [cut |-> TRUE, ok |-> TRUE, hash |-> TrueHash(f, n)]
    BY <1>1, <1>4, <1>9, <2>1, TrustedReach DEF fu
  <2>3. e < Contents[f]
    BY <1>1, <1>6, <1>8, <1>9
  <2>4. /\ TrueHash(f, n).bytes = Bytes(0, nm, e)
        /\ TrueHash(f, n) \in [file : DOMAIN Contents, block : Nat, bytes : Seq(Nat)]
    <3>1. n \in Nat /\ nm \in Nat /\ e \in Nat /\ nm = n * MaxBlock /\ e = nm + MaxBlock
      BY <1>1, <1>3
    <3> QED
      BY <1>6, <2>3, <3>1, FullBlock
  <2>5. b = 0 /\ reach.cut /\ reach.ok = TRUE /\ reach.hash = TrueHash(f, n)
    BY <1>7, <1>9, <2>2
  <2>6. /\ reach.hash \in [file : DOMAIN Contents, block : Nat, bytes : Seq(Nat)]
        /\ reach.ok \in BOOLEAN /\ (b = 0 => reach.ok)
        /\ reach.ok => reach.hash = TrueHash(f, n) /\ reach.hash.bytes = Bytes(b, nm, e)
    BY <2>4, <2>5
  <2>7. \A t : t = CutWith(w, c, by, reach.hash, reach.ok) =>
                          /\ FileHolds(w, t) /\ t.moved = s.moved /\ Len(t.cut) = Len(s.cut) + 1
                          /\ t.st \in {"open", "refused"}
    BY <2>3, <2>6, PieceCut
  <2> QED
    BY <2>5, <2>7 DEF CutHolds
<1>10. CASE w \in Untrusted
  <2> DEFINE h == BlockHash(f, n, Bytes(b, nm, e))
  <2>1. fu.buffer = Bytes(b, nm, g)
    BY <1>4, <1>10
  <2>2. ~(Len(Bytes(b, nm, g)) < MaxBlock) /\ (Len(Bytes(b, nm, g)) = MaxBlock <=> g = e)
    <3>1. PICK m \in Nat : m = MaxBlock
      BY <1>1
    <3>2. PICK l \in Nat : l = Len(Bytes(b, nm, g)) /\ l = g - nm
      BY <1>1, <1>5
    <3>3. ~(l < m) /\ (l = m <=> g = e)
      BY <1>1, <3>1, <3>2
    <3> QED
      BY <3>1, <3>2, <3>3
  <2>3. /\ g = e /\ s.last => ~reach.cut
        /\ ~(g = e /\ s.last) =>
             /\ reach.cut /\ reach.hash = h
             /\ reach.ok = (h = TrueHash(f, n) /\ NumBlocks(f) > 1)
    <3> DEFINE all == Bytes(b, nm, g)
               part == Bytes(b, nm, e)
    <3>1. Len(fu.cut) = n /\ fu.last = s.last /\ fu.buffer = all /\ SubSeq(all, 1, MaxBlock) = part
      BY <1>4, <1>5, <2>1
    <3>2. h = BlockHash(FileWriters[w], n, SubSeq(fu.buffer, 1, MaxBlock)) /\ reach = on_reach_full_block(w, fu)
      BY <3>1 DEF fu
    <3> HIDE DEF all, part, h
    <3>4. PeerAnswer(w, reach, Len(fu.buffer), fu.last, h, n)
      BY <1>10, <3>1, <3>2, PeerReach
    <3>3. /\ Len(all) < MaxBlock \/ (Len(all) = MaxBlock /\ fu.last) => ~reach.cut
          /\ ~(Len(all) < MaxBlock \/ (Len(all) = MaxBlock /\ fu.last)) =>
               /\ reach.cut /\ reach.hash = h
               /\ reach.ok = (h = TrueHash(FileWriters[w], n) /\ NumBlocks(FileWriters[w]) > 1)
      BY <3>1, <3>4 DEF PeerAnswer
    <3> QED
      BY <2>2, <3>1, <3>3 DEF all
  <2>4. CASE g = e /\ s.last
    <3>1. [fu EXCEPT !.cur = @ \o Beyond(c, by)] = [c EXCEPT !.cur = Bytes(b, nm, g)]
      <4>1. c \in FileWriterType
        <5>1. by = Bytes(s.bad, s.given, g)
          BY <1>2
        <5> QED
          BY ONLY w \in DOMAIN FileWriters, <1>2, <5>1, c = Collected(w, s, k), PieceFacts
      <4>2. fu.cur = Bytes(b, nm, e)
        BY <1>5, <4>1 DEF FileWriterType
      <4>3. fu.cur \o Beyond(c, by) = Bytes(b, nm, g)
        BY <1>5, <4>2
      <4>4. [fu EXCEPT !.cur = @ \o Beyond(c, by)] = [fu EXCEPT !.cur = Bytes(b, nm, g)]
        BY <4>3
      <4>5. [fu EXCEPT !.cur = Bytes(b, nm, g)] = [c EXCEPT !.cur = Bytes(b, nm, g)]
        BY <1>5, <4>1 DEF FileWriterType
      <4> QED
        BY <4>4, <4>5
    <3> QED
      BY <1>1, <2>3, <2>4, <3>1 DEF fu, UncutAs
  <2>5. CASE ~(g = e /\ s.last)
    <3>1. e < Contents[f]
      BY <1>1, <1>3, <1>6, <1>7, <1>8, <2>5
    <3>2. /\ TrueHash(f, n) = BlockHash(f, n, Bytes(0, nm, e)) /\ NumBlocks(f) > 1
      BY <1>1, <1>3, <1>6, <3>1, FullBlock
    <3>3. h \in [file : DOMAIN Contents, block : Nat, bytes : Seq(Nat)] /\ h.bytes = Bytes(b, nm, e)
      BY <1>1, <1>5, <1>6 DEF BlockHash
    <3>4. b = 0 => h = TrueHash(f, n)
      BY <3>2
    <3> HIDE DEF h
    <3>5. /\ reach.hash \in [file : DOMAIN Contents, block : Nat, bytes : Seq(Nat)]
          /\ reach.ok \in BOOLEAN /\ (b = 0 => reach.ok) /\ reach.cut
          /\ reach.ok => reach.hash = TrueHash(f, n) /\ reach.hash.bytes = Bytes(b, nm, e)
      BY <2>3, <2>5, <3>2, <3>3, <3>4
    <3>6. \A t : t = CutWith(w, c, by, reach.hash, reach.ok) =>
                          /\ FileHolds(w, t) /\ t.moved = s.moved /\ Len(t.cut) = Len(s.cut) + 1
                          /\ t.st \in {"open", "refused"}
      BY <3>1, <3>5, PieceCut
    <3> QED
      BY <3>5, <3>6 DEF CutHolds
  <2> QED
    BY <2>4, <2>5
<1> QED
    BY <1>9, <1>10

\* What process_block returns, by case.
LEMMA ProcessCases ==
    ASSUME NEW w, NEW c, NEW by, NEW reach, reach = on_reach_full_block(w, Filled(c, by)),
           NEW t, t = process_block(w, c, by)
    PROVE  /\ ~c.file => t = [c EXCEPT !.file = TRUE, !.cur = by]
           /\ c.file /\ ~has_reach_block(w, Len(c.cur) + Len(by)) => t = [c EXCEPT !.cur = @ \o by]
           /\ c.file /\ has_reach_block(w, Len(c.cur) + Len(by)) /\ ~reach.cut =>
                t = [Filled(c, by) EXCEPT !.cur = @ \o Beyond(c, by)]
           /\ c.file /\ has_reach_block(w, Len(c.cur) + Len(by)) /\ reach.cut =>
                t = CutWith(w, c, by, reach.hash, reach.ok)
BY DEF process_block, Filled, Beyond, CutWith

\* One turn of write's loop keeps what holds of the writer.
LEMMA PieceHolds ==
    ASSUME NEW w \in DOMAIN FileWriters, NEW s, FileHolds(w, s), s.st = "open", s.todo > 0,
           NEW k, k = Min({Piece, s.todo}),
           NEW t, t = process_block(w, Collected(w, s, k), Bytes(s.bad, s.given, s.given + k))
    PROVE  /\ FileHolds(w, t) /\ t.moved = s.moved /\ Len(t.cut) >= Len(s.cut)
           /\ t.st \in {"open", "refused"}
<1>1. /\ Len(s.cut) \in Nat /\ Len(s.cut) * MaxBlock \in Nat /\ s.given \in Nat /\ s.bad \in Nat
      /\ s.todo \in Nat /\ s \in FileWriterType /\ Cutting(w, s) /\ Called(w, s)
    BY OpenNumbers
<1>2. k \in Nat \ {0} /\ k <= s.todo /\ k < MaxBlock
  <2>1. PICK td \in Nat : td = s.todo
    BY <1>1
  <2>2. PICK pl \in Nat \ {0} : pl = Piece
    BY BucketFacts
  <2>3. k = IF pl <= td THEN pl ELSE td
    BY <2>1, <2>2, MinOfTwo
  <2>4. PICK mb \in Nat : mb = MaxBlock /\ pl < mb
    BY <2>2, BucketFacts
  <2>5. td > 0
    BY <2>1
  <2>6. k \in Nat \ {0} /\ k <= td /\ k < mb
    BY <2>2, <2>3, <2>4, <2>5
  <2> QED
    BY <2>1, <2>4, <2>6
<1>22. PICK n, nm, x, g, b, e : /\ n = Len(s.cut) /\ nm = n * MaxBlock /\ x = s.given
                                /\ g = x + k /\ b = s.bad /\ e = nm + MaxBlock
    BY Zenon
<1>3. /\ n = Len(s.cut) /\ nm = n * MaxBlock /\ x = s.given /\ g = x + k /\ b = s.bad
      /\ n \in Nat /\ nm \in Nat /\ x \in Nat /\ g \in Nat /\ b \in Nat
    BY <1>1, <1>2, <1>22
<1>4. e = nm + MaxBlock /\ e \in Nat
    BY <1>3, <1>22, BucketFacts
<1>5. PieceOf(w, s, k, n, nm, g)
  <2>1. nm <= s.given /\ s.given <= nm + MaxBlock
    BY <1>1, <1>3 DEF Cutting
  <2>2. s.given + s.todo <= Contents[FileWriters[w]]
    BY <1>1 DEF Called
  <2> QED
    BY <1>1, <1>2, <1>3, <2>1, <2>2 DEF PieceOf
<1>6. PICK c : c = Collected(w, s, k)
    OBVIOUS
<1>17. PICK by : by = Bytes(b, x, g)
    OBVIOUS
<1>18. by = Bytes(s.bad, s.given, g)
    BY <1>3, <1>17
<1>23. t = process_block(w, c, by)
    BY <1>3, <1>6, <1>18
<1>19. PICK reach : reach = on_reach_full_block(w, Filled(c, by))
    OBVIOUS
<1>7. /\ c \in FileWriterType /\ c.cur = s.cur /\ Len(by) = k /\ Len(s.cur) = s.given - nm
      /\ s.cur \o by = Bytes(s.bad, nm, g)
  <2>1. c \in FileWriterType /\ c.cur = s.cur
    BY ONLY w \in DOMAIN FileWriters, <1>5, <1>6, <1>18, PieceFacts
  <2>2. Len(by) = k /\ Len(s.cur) = s.given - nm
    BY ONLY w \in DOMAIN FileWriters, <1>5, <1>6, <1>18, PieceFacts
  <2>3. s.cur \o by = Bytes(s.bad, nm, g)
    <3>1. s.cur = Bytes(b, nm, x)
      BY <1>1, <1>3 DEF Cutting
    <3>2. b \in Nat /\ nm \in Nat /\ x \in Nat /\ g \in Nat /\ nm <= x /\ x <= g
      BY <1>2, <1>3, <1>5 DEF PieceOf
    <3>3. Bytes(b, nm, x) \o Bytes(b, x, g) = Bytes(b, nm, g)
      <4>1. InOrder(b, nm, x, g)
        BY <3>2 DEF InOrder
      <4> QED
        BY ONLY <4>1, BytesJoin
    <3> QED
      BY <1>3, <1>17, <3>1, <3>3
  <2> QED
    BY <2>1, <2>2, <2>3
<1>8. ASSUME KeptAs(s, nm, g, c, by, t)
      PROVE  FileHolds(w, t) /\ t.moved = s.moved /\ Len(t.cut) >= Len(s.cut) /\ t.st = "open"
  <2>1. FileHolds(w, t) /\ t.moved = s.moved /\ t.cut = s.cut /\ t.st = "open"
    BY ONLY w \in DOMAIN FileWriters, <1>5, <1>6, <1>8, <1>18, PieceKept
  <2> QED
    BY <1>1, <2>1
<1> DEFINE reached == has_reach_block(w, Len(c.cur) + Len(by))
<1>9. /\ ~c.file => t = [c EXCEPT !.file = TRUE, !.cur = by]
      /\ c.file /\ ~reached => t = [c EXCEPT !.cur = @ \o by]
      /\ c.file /\ reached /\ ~reach.cut => t = [Filled(c, by) EXCEPT !.cur = @ \o Beyond(c, by)]
      /\ c.file /\ reached /\ reach.cut => t = CutWith(w, c, by, reach.hash, reach.ok)
    BY ONLY <1>23, <1>19, ProcessCases
<1>10. PICK size \in Nat : size = Len(c.cur) + Len(by) /\ size = g - nm
  <2>1. Len(c.cur) = x - nm /\ Len(by) = k /\ g = x + k /\ nm <= x
    BY <1>3, <1>5, <1>7 DEF PieceOf
  <2>2. PICK lc : lc = Len(c.cur)
    OBVIOUS
  <2>3. lc = x - nm /\ x \in Nat /\ nm \in Nat /\ k \in Nat /\ g \in Nat
    BY <1>2, <1>3, <2>1, <2>2
  <2>4. lc \in Nat /\ lc + k = g - nm /\ lc + k \in Nat
    BY <2>1, <2>3
  <2> QED
    BY <2>1, <2>2, <2>4
<1>11. PICK m \in Nat : m = MaxBlock /\ e = nm + m
    BY <1>4, BucketFacts
<1>20. reached <=> IF w \in Untrusted THEN size >= m ELSE size > m
    BY <1>10, <1>11 DEF has_reach_block
<1> HIDE DEF reached
<1>21. size = g - nm /\ e = nm + m
    BY <1>10, <1>11
<1>24. g \in Nat /\ nm \in Nat /\ e \in Nat
    BY <1>3, <1>4
<1>12. reached => e <= g /\ (w \notin Untrusted => e < g)
    BY ONLY size \in Nat, m \in Nat, <1>20, <1>21, <1>24
<1>25. ~reached => g <= nm + m
    BY ONLY size \in Nat, m \in Nat, <1>20, <1>21, <1>24
<1>13. ~reached => g <= nm + MaxBlock
    BY <1>11, <1>25
<1>14. CASE ~c.file
    BY <1>8, <1>9, <1>14 DEF KeptAs
<1>15. CASE c.file /\ ~reached
  <2>1. t = [c EXCEPT !.cur = Bytes(s.bad, nm, g)]
    BY <1>7, <1>9, <1>15
  <2> QED
    BY <1>8, <1>13, <1>15, <2>1 DEF KeptAs
<1>16. CASE c.file /\ reached
  <2>1. ReachOf(w, s, k, n, nm, g, x, e, b)
    BY <1>3, <1>4, <1>5, <1>12, <1>16 DEF ReachOf
  <2>2. UncutAs(nm, g, b, c, by, reach) \/ CutHolds(w, s, c, by, reach)
    <3>1. c.file /\ (w \notin Untrusted => e < g)
      BY <1>12, <1>16
    <3> QED
      BY ONLY w \in DOMAIN FileWriters, <1>6, <1>17, <1>19, <2>1, <3>1, ReachHolds
  <2>3. CASE reach.cut
    <3>1. /\ FileHolds(w, t) /\ t.moved = s.moved /\ Len(t.cut) = Len(s.cut) + 1
          /\ t.st \in {"open", "refused"}
      BY <1>9, <1>16, <2>2, <2>3 DEF CutHolds, UncutAs
    <3> QED
      BY <1>1, <3>1
  <2>4. CASE ~reach.cut
    <3>1. t = [c EXCEPT !.cur = Bytes(s.bad, nm, g)] /\ g <= nm + MaxBlock
      BY <1>3, <1>9, <1>16, <2>2, <2>4 DEF CutHolds, UncutAs
    <3> QED
      BY <1>8, <1>16, <3>1 DEF KeptAs
  <2> QED
    BY <2>3, <2>4
<1> QED
    BY <1>14, <1>15, <1>16

\* What commit makes of the writer.
Committed(w, s) ==
    LET f == FileWriters[w]
        fin == final_block(w, s)
        s1 == IF fin.some THEN new_block(s, fin.hash) ELSE s
        s2 == IF Len(s1.cut) = 0 THEN new_block(s1, TrueHash(f, 0)) ELSE s1
        ended == fin.st /\ (w \in Untrusted => Len(s1.cut) = NumBlocks(f))
    IN IF ended THEN [s2 EXCEPT !.st = "header"] ELSE [s EXCEPT !.st = "refused"]

\* The writer with the block named h.
LEMMA NewBlockCut ==
    ASSUME NEW s \in FileWriterType, NEW h, NEW nb, nb = new_block(s, h)
    PROVE  nb.cut = Append(s.cut, [hash |-> h, bytes |-> s.cur])
BY DEF new_block, FileWriterType

LEMMA AppendLength ==
    ASSUME NEW S, NEW q \in Seq(S), NEW v, NEW n, n = Len(q)
    PROVE  Len(Append(q, v)) = n + 1 /\ n \in Nat /\ n + 1 # 0
OBVIOUS

LEMMA CommitTrusted ==
    ASSUME NEW w, w \notin Untrusted, NEW s \in FileWriterType, NEW n, n = Len(s.cut)
    PROVE  Committed(w, s) = [new_block(s, TrueHash(FileWriters[w], n)) EXCEPT !.st = "header"]
<1> DEFINE f == FileWriters[w]
           fin == final_block(w, s)
           nb == new_block(s, TrueHash(f, n))
<1>1. s.cut \in Seq(BlockFile) /\ n \in Nat
    BY DEF FileWriterType
<1>2. fin.st = TRUE /\ fin.some = (n > 0) /\ fin.hash = TrueHash(f, n)
    BY DEF final_block
<1>3. nb.cut = Append(s.cut, [hash |-> TrueHash(f, n), bytes |-> s.cur])
    BY NewBlockCut
<1>4. Len(nb.cut) = n + 1 /\ Len(nb.cut) # 0
    BY <1>1, <1>3, AppendLength
<1> HIDE DEF fin, nb
<1>5. CASE n > 0
    BY <1>2, <1>4, <1>5 DEF Committed, fin, nb
<1>6. CASE ~(n > 0)
  <2>1. n = 0 /\ Len(s.cut) = 0
    BY <1>1, <1>6
  <2> QED
    BY <1>2, <1>6, <2>1 DEF Committed, fin, nb
<1> QED
    BY <1>5, <1>6

LEMMA CommitUntrusted ==
    ASSUME NEW w \in Untrusted, NEW s \in FileWriterType, NEW n, n = Len(s.cut), s.buffer # <<>>,
           NumBlocks(FileWriters[w]) = n + 1,
           NEW h, h = BlockHash(FileWriters[w], n, s.buffer)
    PROVE  Committed(w, s) = IF h = TrueHash(FileWriters[w], n)
                             THEN [new_block(s, h) EXCEPT !.st = "header"]
                             ELSE [s EXCEPT !.st = "refused"]
<1> DEFINE f == FileWriters[w]
           fin == final_block(w, s)
           nb == new_block(s, h)
<1>1. s.cut \in Seq(BlockFile) /\ n \in Nat
    BY DEF FileWriterType
<1>2. fin.st = (h = TrueHash(f, n)) /\ fin.some = TRUE /\ fin.hash = h
    BY <1>1 DEF final_block
<1>3. nb.cut = Append(s.cut, [hash |-> h, bytes |-> s.cur])
    BY NewBlockCut
<1>4. Len(nb.cut) = n + 1 /\ Len(nb.cut) # 0
    BY <1>1, <1>3, AppendLength
<1> HIDE DEF fin, nb
<1> QED
    BY <1>2, <1>4 DEF Committed, fin, nb

\* The last block of a file, and that it is the last.
LEMMA LastBlock ==
    ASSUME NEW f \in DOMAIN Contents, NEW n \in Nat, NEW nm \in Nat, NEW z \in Nat, NEW b \in Nat,
           nm = n * MaxBlock, z = Contents[f], nm < z, z <= nm + MaxBlock
    PROVE  /\ TrueHash(f, n) = BlockHash(f, n, Bytes(0, nm, z)) /\ NumBlocks(f) = n + 1
           /\ Bytes(b, nm, z) \in Seq(Nat) /\ Bytes(b, nm, z) # <<>>
<1>1. TrueHash(f, n) = BlockHash(f, n, Bytes(0, nm, z))
    BY TrueBytes
<1>2. NumBlocks(f) = n + 1
    BY BlockCount
<1>3. nm <= z /\ z - nm # 0
    OBVIOUS
<1>4. Bytes(b, nm, z) \in Seq(Nat) /\ Len(Bytes(b, nm, z)) = z - nm
    BY <1>3, BytesFacts
<1>5. Bytes(b, nm, z) # <<>>
    BY <1>3, <1>4
<1> QED
    BY <1>1, <1>2, <1>4, <1>5

\* All blocks are there when the commit succeeds, and only wrong bytes make it fail.
LEMMA CommitHolds ==
    ASSUME NEW w \in DOMAIN FileWriters, NEW s, FileHolds(w, s), s.st = "open", s.todo = 0,
           s.given = Contents[FileWriters[w]], NEW t, t = Committed(w, s)
    PROVE  /\ FileHolds(w, t) /\ t.moved = s.moved /\ Len(t.cut) >= Len(s.cut)
           /\ t.st \in {"header", "refused"}
<1> DEFINE f == FileWriters[w]
<1>1. /\ Len(s.cut) \in Nat /\ Len(s.cut) * MaxBlock \in Nat /\ s.given \in Nat /\ s.bad \in Nat
      /\ s.todo \in Nat /\ s \in FileWriterType /\ Cutting(w, s) /\ Called(w, s) /\ Named(w, s)
      /\ s.cut \in Seq(BlockFile)
    BY OpenNumbers
<1>2. PICK n, nm, z, b : n = Len(s.cut) /\ nm = n * MaxBlock /\ z = s.given /\ b = s.bad
    BY Zenon
<1>3. /\ n \in Nat /\ nm \in Nat /\ z \in Nat /\ b \in Nat /\ nm = n * MaxBlock /\ z = Contents[f]
      /\ n = Len(s.cut)
    BY <1>1, <1>2
<1>4. nm < z /\ z <= nm + MaxBlock /\ s.cur = Bytes(b, nm, z) /\ Buffered(w, s)
    BY <1>1, <1>2, <1>3 DEF Cutting
<1>5. f \in DOMAIN Contents
    BY BucketFacts
<1> DEFINE cu == Bytes(b, nm, z)
           h == BlockHash(f, n, cu)
           bl == [hash |-> h, bytes |-> cu]
<1>6. /\ TrueHash(f, n) = BlockHash(f, n, Bytes(0, nm, z)) /\ NumBlocks(f) = n + 1
      /\ cu \in Seq(Nat) /\ cu # <<>>
    BY <1>3, <1>4, <1>5, LastBlock
<1>7. bl \in BlockFile /\ h.bytes = cu
    BY <1>3, <1>5, <1>6 DEF BlockFile, BlockHash
<1>8. b = 0 => h = TrueHash(f, n)
    BY <1>6
<1> HIDE DEF cu, h, bl, f
<1>9. \/ h = TrueHash(f, n) /\ t = [new_block(s, h) EXCEPT !.st = "header"]
      \/ b # 0 /\ t = [s EXCEPT !.st = "refused"]
  <2>1. CASE w \notin Untrusted
    <3>1. b = 0
      BY <1>1, <1>2, <2>1 DEF Called
    <3> QED
      BY <1>1, <1>3, <1>8, <2>1, <3>1, CommitTrusted DEF f
  <2>2. CASE w \in Untrusted
    <3>1. s.buffer = cu
      BY <1>4, <2>2 DEF Buffered, cu
    <3>2. s.buffer # <<>> /\ h = BlockHash(f, n, s.buffer) /\ s \in FileWriterType /\ n = Len(s.cut)
      BY <1>1, <1>3, <1>6, <3>1 DEF h
    <3>3. t = IF h = TrueHash(f, n) THEN [new_block(s, h) EXCEPT !.st = "header"]
              ELSE [s EXCEPT !.st = "refused"]
      <4>1. /\ NumBlocks(FileWriters[w]) = n + 1
            /\ h = BlockHash(FileWriters[w], n, s.buffer)
        BY <1>6, <3>2 DEF f
      <4>2. Committed(w, s) = IF h = TrueHash(FileWriters[w], n)
                              THEN [new_block(s, h) EXCEPT !.st = "header"]
                              ELSE [s EXCEPT !.st = "refused"]
        BY ONLY <2>2, <3>2, <4>1, CommitUntrusted
      <4> QED
        BY <4>2 DEF f
    <3> QED
      BY <1>8, <3>3
  <2> QED
    BY <2>1, <2>2
<1>10. CASE b # 0 /\ t = [s EXCEPT !.st = "refused"]
  <2>1. /\ t \in FileWriterType /\ t.st = "refused" /\ t.bad = s.bad /\ t.given = s.given /\ t.todo = s.todo
        /\ t.last = s.last /\ t.moved = s.moved /\ t.cut = s.cut
    BY <1>1, <1>10 DEF FileWriterType, FileStates
  <2>2. Called(w, t)
    BY <1>1, <2>1 DEF Called
  <2>3. FileHolds(w, t)
    BY <1>2, <1>10, <2>1, <2>2 DEF FileHolds
  <2> QED
    BY <1>1, <2>1, <2>3
<1>11. CASE h = TrueHash(f, n) /\ t = [new_block(s, h) EXCEPT !.st = "header"]
  <2>1. new_block(s, h) = [s EXCEPT !.cut = Append(s.cut, bl)]
    BY <1>4 DEF new_block, bl, cu
  <2> DEFINE cut == Append(s.cut, bl)
  <2>2. /\ cut \in Seq(BlockFile) /\ Len(cut) = n + 1
        /\ \A i \in DOMAIN cut : /\ i \in Nat \ {0}
                                 /\ i # n + 1 => i \in DOMAIN s.cut /\ cut[i] = s.cut[i]
                                 /\ i = n + 1 => cut[i] = bl
    BY <1>1, <1>3, <1>7, SequenceEnd
  <2> HIDE DEF cut
  <2>3. t = [[s EXCEPT !.cut = cut] EXCEPT !.st = "header"]
    BY <1>11, <2>1 DEF cut
  <2>4. /\ t \in FileWriterType /\ t.st = "header" /\ t.bad = s.bad /\ t.given = s.given /\ t.todo = s.todo
        /\ t.last = s.last /\ t.moved = s.moved /\ t.cut = cut
    BY <1>1, <2>2, <2>3 DEF FileWriterType, FileStates
  <2>5. Called(w, t)
    BY <1>1, <2>4 DEF Called
  <2>6. bl = BlockOf(f, n)
    BY <1>7, <1>11 DEF BlockOf, bl
  <2>7. Named(w, t)
    <3>1. (n + 1) - 1 = n
      BY <1>3
    <3> QED
      BY <1>1, <2>2, <2>4, <2>6, <3>1 DEF Named, f
  <2>8. FileHolds(w, t)
    BY <1>6, <2>2, <2>4, <2>5, <2>7 DEF FileHolds, f
  <2> QED
    BY <1>3, <2>2, <2>4, <2>8
<1> QED
    BY <1>9, <1>10, <1>11

-----------------------------------------------------------------------------
(* One writer of a directory.                                              *)

DirWriterType ==
    [st : {"new", "open", "searching", "done", "refused", "stopped"},
     num : Nat, insertions : Nat, entries : Seq(Nat), verified : Nat, last : Nat]

\* What a trusted writer was given.
Given(s, size) ==
    /\ ToSet(s.entries) \subseteq 1 .. size /\ IsFiniteSet(ToSet(s.entries))
    /\ Cardinality(ToSet(s.entries)) = Len(s.entries)
    /\ s.st # "new" => s.num = size

\* What an untrusted writer has verified, and the entry it was told is the last.
Verified(s) ==
    /\ Len(s.entries) = s.insertions /\ s.insertions <= s.num
    /\ 1 .. s.verified \subseteq ToSet(s.entries)
    /\ s.last = 0 => Len(s.entries) = s.verified /\ ToSet(s.entries) = 1 .. s.verified
    /\ s.last # 0 => s.verified < Len(s.entries) /\ s.last \in ToSet(s.entries)
    /\ s.last # 0 /\ Len(s.entries) = s.verified + 1 =>
         ToSet(s.entries) = 1 .. s.verified \cup {s.last}

\* What is in a directory that was moved into place.
HasItsEntries(s, size) ==
    /\ 1 .. size \subseteq ToSet(s.entries) /\ size <= s.num
    /\ s.num = size => ToSet(s.entries) = 1 .. size /\ Len(s.entries) = size

DirHolds(w, s) ==
    /\ s \in DirWriterType /\ s.verified <= Folders[DirWriters[w]]
    /\ w \notin Untrusted => Given(s, Folders[DirWriters[w]])
    /\ w \in Untrusted /\ s.st \in {"new", "open"} => Verified(s)
    /\ s.st = "done" => HasItsEntries(s, Folders[DirWriters[w]])

LEMMA AppendSet ==
    ASSUME NEW q \in Seq(Nat), NEW e \in Nat
    PROVE  /\ Append(q, e) \in Seq(Nat) /\ Len(Append(q, e)) = Len(q) + 1 /\ Len(q) \in Nat
           /\ ToSet(Append(q, e)) = ToSet(q) \cup {e}
<1>1. /\ Append(q, e) \in Seq(Nat) /\ Len(Append(q, e)) = Len(q) + 1 /\ Len(q) \in Nat
      /\ DOMAIN Append(q, e) = 1 .. Len(q) + 1 /\ DOMAIN q = 1 .. Len(q)
      /\ \A i \in 1 .. Len(q) : Append(q, e)[i] = q[i]
      /\ Append(q, e)[Len(q) + 1] = e
    OBVIOUS
<1>2. PICK n \in Nat : n = Len(q)
    BY <1>1
<1>3. 1 .. n + 1 = 1 .. n \cup {n + 1}
    OBVIOUS
<1>4. ToSet(Append(q, e)) = {Append(q, e)[i] : i \in 1 .. n + 1} /\ ToSet(q) = {q[i] : i \in 1 .. n}
    BY <1>1, <1>2 DEF ToSet
<1>5. ToSet(Append(q, e)) = ToSet(q) \cup {e}
    BY <1>1, <1>2, <1>3, <1>4
<1> QED
    BY <1>1, <1>5

LEMMA InsertSet ==
    ASSUME NEW q \in Seq(Nat), NEW e \in Nat, NEW k \in 1 .. Len(q) + 1
    PROVE  /\ InsertAt(q, k, e) \in Seq(Nat) /\ Len(InsertAt(q, k, e)) = Len(q) + 1 /\ Len(q) \in Nat
           /\ ToSet(InsertAt(q, k, e)) = ToSet(q) \cup {e}
<1>1. PICK n \in Nat : n = Len(q)
    OBVIOUS
<1>2. k \in 1 .. n + 1 /\ k - 1 \in 0 .. n /\ k \in Nat
    BY <1>1
<1> DEFINE a == SubSeq(q, 1, k - 1)
           m == Append(a, e)
           z == SubSeq(q, k, n)
           t == m \o z
<1>3. /\ a \in Seq(Nat) /\ Len(a) = k - 1 /\ \A i \in 1 .. k - 1 : a[i] = q[i]
    BY <1>1, <1>2
<1>4. /\ z \in Seq(Nat) /\ Len(z) = n - (k - 1) /\ \A i \in 1 .. n - (k - 1) : z[i] = q[(k - 1) + i]
  <2>1. /\ z \in Seq(Nat) /\ Len(z) = IF k <= n THEN n - k + 1 ELSE 0
        /\ \A i \in 1 .. Len(z) : z[i] = q[k + i - 1]
    <3>1. k \in Int /\ n \in Int /\ \A i \in k .. n : q[i] \in Nat
      BY <1>1, <1>2
    <3>2. /\ z \in Seq(Nat) /\ Len(z) = IF k <= n THEN n - k + 1 ELSE 0
          /\ \A i \in 1 .. n - k + 1 : z[i] = q[k + i - 1]
      BY ONLY <3>1, SubSeqProperties
    <3>3. 1 .. Len(z) \subseteq 1 .. n - k + 1
      BY <1>2, <3>2
    <3> QED
      BY <3>2, <3>3
  <2>2. Len(z) = n - (k - 1)
    BY <1>2, <2>1
  <2>3. \A i \in Nat : k + i - 1 = (k - 1) + i
    BY <1>2
  <2> QED
    BY <2>1, <2>2, <2>3
<1> HIDE DEF a, z
<1>5. /\ m \in Seq(Nat) /\ Len(m) = k /\ (\A i \in 1 .. k - 1 : m[i] = q[i]) /\ m[k] = e
    BY <1>2, <1>3
<1>6. InsertAt(q, k, e) = t
  <2>1. a \o <<e>> = m
    BY <1>3
  <2> QED
    BY <1>1, <2>1 DEF InsertAt, a, z
<1> HIDE DEF m
<1>7. /\ t \in Seq(Nat) /\ Len(t) = Len(m) + Len(z)
      /\ \A i \in 1 .. Len(m) + Len(z) : t[i] = IF i <= Len(m) THEN m[i] ELSE z[i - Len(m)]
    BY <1>4, <1>5, ConcatProperties
<1> HIDE DEF t
<1>8. Len(m) + Len(z) = n + 1
    BY <1>2, <1>4, <1>5
<1>9. DOMAIN t = 1 .. n + 1 /\ DOMAIN q = 1 .. n
    BY <1>1, <1>7, <1>8
<1>10. t[k] = e /\ k \in 1 .. n + 1
    BY <1>2, <1>5, <1>7, <1>8
<1>11. \A i \in 1 .. n + 1 : i < k => t[i] = q[i] /\ i \in 1 .. n
    BY <1>2, <1>5, <1>7, <1>8
<1>12. ASSUME NEW i \in 1 .. n + 1, i > k PROVE t[i] = q[i - 1] /\ i - 1 \in 1 .. n
  <2>1. i - 1 \in 1 .. n /\ i - k \in 1 .. n - (k - 1) /\ (k - 1) + (i - k) = i - 1 /\ ~(i <= k)
    BY <1>2, <1>12
  <2>2. t[i] = z[i - k]
    BY <1>5, <1>7, <1>8, <2>1
  <2> QED
    BY <1>4, <2>1, <2>2
<1>13. ASSUME NEW i \in 1 .. n PROVE \E j \in 1 .. n + 1 : t[j] = q[i]
  <2>1. CASE i < k
    BY <1>11, <2>1
  <2>2. CASE ~(i < k)
    <3>1. i + 1 \in 1 .. n + 1 /\ i + 1 > k /\ (i + 1) - 1 = i
      BY <1>2, <2>2
    <3> QED
      BY <1>12, <3>1
  <2> QED
    BY <2>1, <2>2
<1>14. ToSet(t) = ToSet(q) \cup {e}
  <2>1. ASSUME NEW v \in ToSet(t) PROVE v \in ToSet(q) \cup {e}
    <3>1. PICK i \in 1 .. n + 1 : v = t[i]
      BY <1>9 DEF ToSet
    <3>2. i < k \/ i = k \/ i > k
      BY <1>2
    <3> QED
      BY <1>9, <1>10, <1>11, <1>12, <3>1, <3>2 DEF ToSet
  <2>2. ASSUME NEW v \in ToSet(q) \cup {e} PROVE v \in ToSet(t)
    BY <1>9, <1>10, <1>13 DEF ToSet
  <2> QED
    BY <2>1, <2>2
<1>15. Len(t) = Len(q) + 1 /\ Len(q) \in Nat
    BY <1>1, <1>7, <1>8
<1> QED
    BY <1>6, <1>7, <1>14, <1>15

\* An entry that a peer sends.
Inserted(w, s, e, last) ==
    LET s1 == [s EXCEPT !.insertions = @ + 1]
        s2 == [s1 EXCEPT !.entries = Append(@, e)]
    IN IF s1.insertions > s.num THEN [s1 EXCEPT !.st = "refused"]
       ELSE IF last THEN [s2 EXCEPT !.last = e]
       ELSE IF e = s.verified + 1 /\ e <= Folders[DirWriters[w]] /\ Folders[DirWriters[w]] > 1
       THEN [s2 EXCEPT !.verified = e]
       ELSE [s2 EXCEPT !.st = "refused"]

LEMMA UntrustedHolds ==
    ASSUME NEW w \in DOMAIN DirWriters, w \in Untrusted, NEW s, DirHolds(w, s), s.st = "open",
           NEW e \in Nat \ {0}, NEW last \in BOOLEAN, NEW t,
           t = Inserted(w, s, e, last)
    PROVE  DirHolds(w, t) /\ t.st # "done"
<1>1. PICK z \in Nat : z = Folders[DirWriters[w]]
    BY BucketFacts
<1>2. s \in DirWriterType /\ s.verified <= z /\ Verified(s)
    BY <1>1 DEF DirHolds
<1>3. /\ s.entries \in Seq(Nat) /\ s.insertions \in Nat /\ s.verified \in Nat /\ s.last \in Nat
      /\ s.num \in Nat /\ Len(s.entries) \in Nat
    BY <1>2 DEF DirWriterType
<1> DEFINE q == Append(s.entries, e)
<1>4. q \in Seq(Nat) /\ Len(q) = Len(s.entries) + 1 /\ ToSet(q) = ToSet(s.entries) \cup {e}
    BY <1>3, AppendSet
<1>5. PICK ins \in Nat : ins = s.insertions + 1
    BY <1>3
<1>14. q \in Seq(Nat) /\ ins \in Nat /\ e \in Nat
    BY <1>3, <1>4, <1>5
<1> HIDE DEF q
<1>6. \/ ins > s.num /\ t = [s EXCEPT !.insertions = ins, !.st = "refused"]
      \/ ~(ins > s.num) /\ t = [s EXCEPT !.insertions = ins, !.entries = q, !.last = e]
      \/ /\ ~(ins > s.num) /\ e = s.verified + 1 /\ e <= z
         /\ t = [s EXCEPT !.insertions = ins, !.entries = q, !.verified = e]
      \/ ~(ins > s.num) /\ t = [s EXCEPT !.insertions = ins, !.entries = q, !.st = "refused"]
    BY <1>1, <1>2, <1>5 DEF q, DirWriterType, Inserted
<1>7. ASSUME t \in DirWriterType, t.verified <= z, t.st \in {"open", "refused"},
             t.st = "open" => Verified(t)
      PROVE  DirHolds(w, t) /\ t.st # "done"
    BY <1>1, <1>7 DEF DirHolds
<1>8. CASE ins > s.num /\ t = [s EXCEPT !.insertions = ins, !.st = "refused"]
  <2>1. t \in DirWriterType /\ t.st = "refused" /\ t.verified = s.verified
    BY <1>2, <1>5, <1>8 DEF DirWriterType
  <2> QED
    BY <1>2, <1>7, <2>1
<1>11. CASE ~(ins > s.num) /\ t = [s EXCEPT !.insertions = ins, !.entries = q, !.last = e]
  <2>1. /\ t \in DirWriterType /\ t.st = "open" /\ t.entries = q /\ t.last = e /\ t.verified = s.verified
        /\ t.insertions = ins /\ t.num = s.num
    BY <1>2, <1>14, <1>11 DEF DirWriterType
  <2>3. Len(t.entries) = t.insertions /\ t.insertions <= t.num
    BY <1>2, <1>3, <1>4, <1>5, <1>11, <2>1 DEF Verified
  <2>4. t.last # 0 /\ t.verified < Len(t.entries)
    BY <1>2, <1>3, <1>4, <2>1 DEF Verified
  <2>2. t.last \in ToSet(t.entries) /\ 1 .. t.verified \subseteq ToSet(t.entries)
    BY <1>2, <1>4, <2>1 DEF Verified
  <2>5. ASSUME Len(t.entries) = t.verified + 1
        PROVE  ToSet(t.entries) = 1 .. t.verified \cup {t.last}
    <3>1. Len(s.entries) = s.verified /\ s.last = 0
      BY <1>2, <1>3, <1>4, <2>1, <2>5 DEF Verified
    <3>2. ToSet(s.entries) = 1 .. s.verified
      BY <1>2, <3>1 DEF Verified
    <3> QED
      BY <1>4, <2>1, <3>2
  <2>6. Verified(t)
    BY <2>2, <2>3, <2>4, <2>5 DEF Verified
  <2> QED
    BY <1>2, <1>7, <2>1, <2>6
<1>12. CASE /\ ~(ins > s.num) /\ e = s.verified + 1 /\ e <= z
            /\ t = [s EXCEPT !.insertions = ins, !.entries = q, !.verified = e]
  <2>1. /\ t \in DirWriterType /\ t.st = "open" /\ t.entries = q /\ t.last = s.last /\ t.verified = e
        /\ t.insertions = ins /\ t.num = s.num
    BY <1>2, <1>14, <1>12 DEF DirWriterType
  <2>3. Len(t.entries) = t.insertions /\ t.insertions <= t.num
    BY <1>2, <1>3, <1>4, <1>5, <1>12, <2>1 DEF Verified
  <2>4. 1 .. e = 1 .. s.verified \cup {e}
    BY <1>3, <1>12
  <2>2. 1 .. t.verified \subseteq ToSet(t.entries)
    BY <1>2, <1>4, <2>1, <2>4 DEF Verified
  <2>5. CASE s.last = 0
    <3>1. Len(s.entries) = s.verified /\ ToSet(s.entries) = 1 .. s.verified
      BY <1>2, <2>5 DEF Verified
    <3>2. Len(t.entries) = t.verified
      BY <1>4, <1>12, <2>1, <3>1
    <3>3. ToSet(t.entries) = 1 .. t.verified
      BY <1>4, <2>1, <2>4, <3>1
    <3>4. Verified(t)
      BY <2>1, <2>2, <2>3, <2>5, <3>2, <3>3 DEF Verified
    <3> QED
      BY <1>7, <1>12, <2>1, <3>4
  <2>6. CASE s.last # 0
    <3>1. s.verified < Len(s.entries) /\ s.last \in ToSet(s.entries)
      BY <1>2, <2>6 DEF Verified
    <3>2. t.verified < Len(t.entries)
      <4>1. PICK l \in Nat, v \in Nat : l = Len(s.entries) /\ v = s.verified
        BY <1>3
      <4>2. v < l /\ e = v + 1 /\ t.verified = e /\ Len(t.entries) = l + 1
        BY <1>4, <1>12, <2>1, <3>1, <4>1
      <4> QED
        BY <4>2
    <3>3. ASSUME Len(t.entries) = t.verified + 1
          PROVE  ToSet(t.entries) = 1 .. t.verified \cup {t.last}
      <4>1. Len(s.entries) = s.verified + 1
        <5>1. PICK l \in Nat, v \in Nat : l = Len(s.entries) /\ v = s.verified
          BY <1>3
        <5>2. l + 1 = e + 1 /\ e = v + 1
          BY <1>4, <1>12, <2>1, <3>3, <5>1
        <5> QED
          BY <5>1, <5>2
      <4>2. ToSet(s.entries) = 1 .. s.verified \cup {s.last}
        BY <1>2, <2>6, <4>1 DEF Verified
      <4> QED
        BY <1>4, <2>1, <2>4, <4>2
    <3>5. t.last \in ToSet(t.entries)
      BY <1>4, <2>1, <3>1
    <3>4. Verified(t)
      BY <2>1, <2>2, <2>3, <2>6, <3>2, <3>3, <3>5 DEF Verified
    <3> QED
      BY <1>7, <1>12, <2>1, <3>4
  <2> QED
    BY <2>5, <2>6
<1>13. CASE ~(ins > s.num) /\ t = [s EXCEPT !.insertions = ins, !.entries = q, !.st = "refused"]
  <2>1. t \in DirWriterType /\ t.st = "refused" /\ t.verified = s.verified
    BY <1>2, <1>14, <1>13 DEF DirWriterType
  <2> QED
    BY <1>2, <1>7, <2>1
<1> QED
    BY <1>6, <1>8, <1>11, <1>12, <1>13

\* An entry that a trusted caller gives goes to its place by name.
LEMMA TrustedHolds ==
    ASSUME NEW w \in DOMAIN DirWriters, w \notin Untrusted, NEW s, DirHolds(w, s), s.st = "open",
           NEW e \in Nat \ {0}, e <= Folders[DirWriters[w]], NEW k \in 1 .. Len(s.entries) + 1,
           \A i \in 1 .. k - 1 : s.entries[i] < e,
           \A i \in k .. Len(s.entries) : s.entries[i] > e,
           NEW t, t = [s EXCEPT !.entries = InsertAt(s.entries, k, e)]
    PROVE  DirHolds(w, t) /\ t.st # "done"
<1>1. PICK z \in Nat : z = Folders[DirWriters[w]]
    BY BucketFacts
<1>2. s \in DirWriterType /\ s.verified <= z /\ Given(s, z)
    BY <1>1 DEF DirHolds
<1>3. s.entries \in Seq(Nat) /\ e \in 1 .. z /\ e \in Nat
    BY <1>1, <1>2 DEF DirWriterType
<1> DEFINE q == InsertAt(s.entries, k, e)
<1>4. q \in Seq(Nat) /\ Len(q) = Len(s.entries) + 1 /\ ToSet(q) = ToSet(s.entries) \cup {e}
    BY <1>3, InsertSet
<1> HIDE DEF q
<1>5. e \notin ToSet(s.entries)
  <2>1. SUFFICES ASSUME NEW i \in 1 .. Len(s.entries), s.entries[i] = e PROVE FALSE
    <3>1. DOMAIN s.entries = 1 .. Len(s.entries)
      BY <1>3
    <3> QED
      BY <3>1 DEF ToSet
  <2>2. i \in 1 .. k - 1 \/ i \in k .. Len(s.entries)
    BY <1>3
  <2> QED
    BY <1>3, <2>1, <2>2
<1>6. IsFiniteSet(ToSet(q)) /\ Cardinality(ToSet(q)) = Cardinality(ToSet(s.entries)) + 1
  <2>1. /\ IsFiniteSet(ToSet(s.entries) \cup {e})
        /\ Cardinality(ToSet(s.entries) \cup {e}) = Cardinality(ToSet(s.entries)) + 1
    BY <1>2, <1>5, FS_AddElement DEF Given
  <2> QED
    BY <1>4, <2>1
<1>7. t \in DirWriterType /\ t.st = "open" /\ t.entries = q /\ t.num = s.num /\ t.verified = s.verified
    BY <1>2, <1>4 DEF DirWriterType, q
<1>8. Given(t, z)
    BY <1>2, <1>3, <1>4, <1>6, <1>7 DEF Given
<1> QED
    BY <1>1, <1>2, <1>7, <1>8 DEF DirHolds

\* A directory that is committed has its entries.
LEMMA DirCommitHolds ==
    ASSUME NEW w \in DOMAIN DirWriters, NEW s, DirHolds(w, s), s.st = "open",
           w \notin Untrusted => Len(s.entries) = s.num,
           w \in Untrusted => /\ s.last # 0 => s.last = s.verified + 1
                              /\ s.verified + (IF s.last # 0 THEN 1 ELSE 0) = Folders[DirWriters[w]]
    PROVE  HasItsEntries(s, Folders[DirWriters[w]])
<1>1. PICK z \in Nat : z = Folders[DirWriters[w]] /\ z # 0
    BY BucketFacts
<1>2. s \in DirWriterType
    BY <1>1 DEF DirHolds
<1>3. s.entries \in Seq(Nat) /\ s.verified \in Nat /\ s.last \in Nat /\ s.insertions \in Nat
      /\ Len(s.entries) \in Nat /\ s.num \in Nat
    BY <1>2 DEF DirWriterType
<1>4. CASE w \notin Untrusted
  <2>0. Given(s, z)
    BY <1>1, <1>4 DEF DirHolds
  <2>1. /\ IsFiniteSet(ToSet(s.entries)) /\ Cardinality(ToSet(s.entries)) = z /\ Len(s.entries) = z
        /\ s.num = z /\ ToSet(s.entries) \subseteq 1 .. z
    BY <1>4, <2>0 DEF Given
  <2>3. IsFiniteSet(1 .. z) /\ Cardinality(1 .. z) = z
    <3>2. 1 \in Int /\ z \in Int
      OBVIOUS
    <3>1. /\ IsFiniteSet(1 .. z)
          /\ Cardinality(1 .. z) = IF 1 > z THEN 0 ELSE z - 1 + 1
      BY ONLY <3>2, FS_Interval
    <3> QED
      BY <1>1, <3>1
  <2>4. ToSet(s.entries) = 1 .. z
    BY <2>1, <2>3, FS_Subset
  <2> QED
    BY <1>1, <2>1, <2>4 DEF HasItsEntries
<1>5. CASE w \in Untrusted
  <2>1. Verified(s)
    BY <1>1, <1>5 DEF DirHolds
  <2>2. CASE s.last = 0
    <3>1. s.verified = z
      BY <1>1, <1>3, <1>5, <2>2
    <3>2. Len(s.entries) = z /\ ToSet(s.entries) = 1 .. z /\ z <= s.num
      BY <2>1, <2>2, <3>1 DEF Verified
    <3> QED
      BY <1>1, <3>2 DEF HasItsEntries
  <2>3. CASE s.last # 0
    <3>1. PICK v \in Nat, l \in Nat : v = s.verified /\ l = Len(s.entries)
      BY <1>3
    <3>2. v + 1 = z /\ s.last = z /\ v < l /\ l <= s.num
      BY <1>1, <1>3, <1>5, <2>1, <2>3, <3>1 DEF Verified
    <3>3. z <= s.num
      BY <1>3, <3>1, <3>2
    <3>4. 1 .. v \cup {z} = 1 .. z
      BY <3>2
    <3>5. 1 .. z \subseteq ToSet(s.entries)
      BY <2>1, <2>3, <3>1, <3>2, <3>4 DEF Verified
    <3>6. ASSUME s.num = z PROVE ToSet(s.entries) = 1 .. z /\ Len(s.entries) = z
      <4>1. l = z /\ l = v + 1
        BY <3>2, <3>6
      <4>2. ToSet(s.entries) = 1 .. v \cup {z}
        BY <2>1, <2>3, <3>1, <3>2, <4>1 DEF Verified
      <4> QED
        BY <3>1, <3>4, <4>1, <4>2
    <3> QED
      BY <1>1, <3>3, <3>5, <3>6 DEF HasItsEntries
  <2> QED
    BY <2>2, <2>3
<1> QED
    BY <1>4, <1>5

\* A writer that ends, is refused or stopped.
LEMMA DirTurn ==
    ASSUME NEW w \in DOMAIN DirWriters, NEW s, DirHolds(w, s), s.st # "new",
           NEW x, NEW t, t = [s EXCEPT !.st = x],
           \/ x \in {"refused", "stopped", "searching"}
           \/ x = "done" /\ HasItsEntries(s, Folders[DirWriters[w]])
    PROVE  DirHolds(w, t) /\ t.st = x /\ t.num = s.num
<1>1. s \in DirWriterType
    BY DEF DirHolds
<1>2. /\ t \in DirWriterType /\ t.st = x /\ t.entries = s.entries /\ t.last = s.last
      /\ t.verified = s.verified /\ t.insertions = s.insertions /\ t.num = s.num
    BY <1>1 DEF DirWriterType
<1>3. \A z : (Given(s, z) => Given(t, z)) /\ (HasItsEntries(s, z) => HasItsEntries(t, z))
    BY <1>2 DEF Given, HasItsEntries
<1> QED
    BY <1>2, <1>3 DEF DirHolds

\* A writer that is opened, or cannot be.
NewDir(num) ==
    [st |-> IF num = 0 THEN "refused" ELSE "open", num |-> num,
     insertions |-> 0, entries |-> <<>>, verified |-> 0, last |-> 0]

LEMMA DirOpens ==
    ASSUME NEW w \in DOMAIN DirWriters, NEW s, NEW num \in Nat,
           \/ s = NewDir(num) /\ (w \notin Untrusted => num = Folders[DirWriters[w]])
           \/ s = [NewDir(num) EXCEPT !.st = "new"]
    PROVE  DirHolds(w, s) /\ s.st \in {"new", "open", "refused"}
<1>1. /\ s.st \in {"new", "open", "refused"} /\ s.num = num /\ s.insertions = 0
      /\ s.entries = <<>> /\ s.verified = 0 /\ s.last = 0
      /\ s.st # "new" /\ w \notin Untrusted => num = Folders[DirWriters[w]]
  <2>1. CASE s = NewDir(num) /\ (w \notin Untrusted => num = Folders[DirWriters[w]])
    <3>1. /\ s.st = (IF num = 0 THEN "refused" ELSE "open") /\ s.num = num /\ s.insertions = 0
          /\ s.entries = <<>> /\ s.verified = 0 /\ s.last = 0
      BY <2>1 DEF NewDir
    <3> QED
      BY <2>1, <3>1
  <2>2. CASE s = [NewDir(num) EXCEPT !.st = "new"]
    BY <2>2 DEF NewDir
  <2> QED
    BY <2>1, <2>2
<1>2. s \in DirWriterType
  <2>1. NewDir(num) \in DirWriterType
    <3>1. <<>> \in Seq(Nat) /\ (IF num = 0 THEN "refused" ELSE "open") \in {"open", "refused"}
      OBVIOUS
    <3> QED
      BY <3>1, Zenon DEF DirWriterType, NewDir
  <2> QED
    BY <2>1 DEF DirWriterType
<1>3. ToSet(s.entries) = {} /\ Len(s.entries) = 0 /\ 1 .. 0 = {}
    BY <1>1 DEF ToSet
<1>4. IsFiniteSet(ToSet(s.entries)) /\ Cardinality(ToSet(s.entries)) = Len(s.entries)
    BY <1>3, FS_EmptySet
<1>5. Folders[DirWriters[w]] \in Nat
    BY BucketFacts
<1>6. Verified(s)
    BY <1>1, <1>3 DEF Verified
<1>7. w \notin Untrusted => Given(s, Folders[DirWriters[w]])
    BY <1>1, <1>3, <1>4 DEF Given
<1> QED
    BY <1>1, <1>2, <1>5, <1>6, <1>7 DEF DirHolds

\* The same of a writer of a file.
MayTurn(s, x) ==
    \/ x = "open" /\ s.st = "new"
    \/ x \in {"dropped", "rolled back", "stopped"} /\ s.st # "refused"
    \/ x = "blocks" /\ s.st = "header"
    \/ x = "done" /\ s.st = "blocks"

TurnTo(s, x) == [s EXCEPT !.st = x]

LEMMA FileTurn ==
    ASSUME NEW w \in DOMAIN FileWriters, NEW s, FileHolds(w, s), NEW x, MayTurn(s, x),
           NEW t, t = TurnTo(s, x)
    PROVE  FileHolds(w, t) /\ t.st = x /\ t.cut = s.cut /\ t.moved = s.moved
<1>1. s \in FileWriterType
    BY DEF FileHolds
<1>2. /\ t \in FileWriterType /\ t.st = x /\ t.bad = s.bad /\ t.given = s.given /\ t.todo = s.todo
      /\ t.last = s.last /\ t.file = s.file /\ t.cur = s.cur /\ t.buffer = s.buffer
      /\ t.cut = s.cut /\ t.moved = s.moved
    BY <1>1 DEF FileWriterType, FileStates, MayTurn, TurnTo
<1>3. (Called(w, s) => Called(w, t)) /\ (Named(w, s) => Named(w, t)) /\ (Cutting(w, s) => Cutting(w, t))
    BY <1>2 DEF Called, Named, Cutting, Buffered
<1> QED
    BY <1>2, <1>3 DEF FileHolds, MayTurn

\* write is called.
CallTo(s, n, l) == [s EXCEPT !.todo = n, !.last = l]

LEMMA WriteIsCalled ==
    ASSUME NEW w \in DOMAIN FileWriters, NEW s, FileHolds(w, s), s.st = "open", s.todo = 0,
           NEW n \in Nat, s.given + n <= Contents[FileWriters[w]], NEW l \in BOOLEAN,
           l <=> s.given + n = Contents[FileWriters[w]],
           NEW t, t = CallTo(s, n, l)
    PROVE  FileHolds(w, t) /\ t.st = "open" /\ t.cut = s.cut /\ t.moved = s.moved
<1>1. s \in FileWriterType /\ Called(w, s) /\ Named(w, s) /\ Cutting(w, s)
    BY DEF FileHolds
<1>2. /\ t \in FileWriterType /\ t.st = "open" /\ t.bad = s.bad /\ t.given = s.given /\ t.todo = n
      /\ t.last = l /\ t.file = s.file /\ t.cur = s.cur /\ t.buffer = s.buffer
      /\ t.cut = s.cut /\ t.moved = s.moved
    BY <1>1 DEF FileWriterType, CallTo
<1>3. Called(w, t) /\ Named(w, t) /\ Cutting(w, t)
    BY <1>1, <1>2 DEF Called, Named, Cutting, Buffered
<1> QED
    BY <1>2, <1>3 DEF FileHolds

-----------------------------------------------------------------------------
(* All writers and the disk.                                               *)

FilesHold(fw) ==
    /\ fw \in [DOMAIN FileWriters -> FileWriterType]
    /\ \A w \in DOMAIN FileWriters : FileHolds(w, fw[w])

DirsHold(dw) ==
    /\ dw \in [DOMAIN DirWriters -> DirWriterType]
    /\ \A w \in DOMAIN DirWriters : DirHolds(w, dw[w])

\* What is on the disk has the names of its contents.
DiskHolds(hd, bl) ==
    /\ DOMAIN hd \subseteq DOMAIN Contents \cup DOMAIN Folders
    /\ \A b \in DOMAIN bl : b = TrueHash(b.file, b.block) /\ bl[b] = b.bytes
    /\ \A f \in DOMAIN hd \cap DOMAIN Contents : hd[f] = NumBlocks(f)

\* A directory on the disk was moved there by a writer, which has ended.
ListedBy(w, s, d, n) == DirWriters[w] = d /\ s.st = "done" /\ n = s.num

ListsHold(dw, hd) ==
    \A d \in DOMAIN hd \cap DOMAIN Folders :
        \E w \in DOMAIN DirWriters : ListedBy(w, dw[w], d, hd[d])

\* The blocks of a writer that were moved, and the writer that moved a header.
MovedHolds(w, s, bl) ==
    /\ s.moved <= Len(s.cut)
    /\ s.st = "done" => s.moved = Len(s.cut)
    /\ \A i \in 1 .. s.moved : TrueHash(FileWriters[w], i - 1) \in DOMAIN bl

HasMoved(w, s, f) ==
    /\ FileWriters[w] = f /\ s.st \in {"blocks", "stopped", "done"}
    /\ Len(s.cut) = NumBlocks(f)

MovesHold(fw, hd, bl) ==
    /\ \A w \in DOMAIN FileWriters : MovedHolds(w, fw[w], bl)
    /\ \A f \in DOMAIN hd \cap DOMAIN Contents : \E w \in DOMAIN FileWriters : HasMoved(w, fw[w], f)

LogHolds(wl) == wl \subseteq DOMAIN FileWriters \cup DOMAIN DirWriters

BucketHolds ==
    /\ FilesHold(fwriter) /\ DirsHold(dwriter) /\ DiskHolds(headers, blocks)
    /\ ListsHold(dwriter, headers)
    /\ MovesHold(fwriter, headers, blocks) /\ LogHolds(wal)

\* A file without its blocks has a writer that has not moved them.
LEMMA MovedWhole ==
    ASSUME BucketHolds
    PROVE  WholeUnlessMoving
<1>1. SUFFICES ASSUME NEW f \in DOMAIN headers \cap DOMAIN Contents, Missing(f) # {}
               PROVE  \E w \in DOMAIN FileWriters :
                        /\ FileWriters[w] = f
                        /\ fwriter[w].st \in {"blocks", "stopped"}
                        /\ fwriter[w].moved < Len(fwriter[w].cut)
    BY DEF WholeUnlessMoving
<1>2. PICK w \in DOMAIN FileWriters : HasMoved(w, fwriter[w], f)
    BY DEF BucketHolds, MovesHold
<1>3. MovedHolds(w, fwriter[w], blocks) /\ fwriter[w] \in FileWriterType
    BY DEF BucketHolds, MovesHold, FilesHold
<1>4. /\ FileWriters[w] = f /\ fwriter[w].st \in {"blocks", "stopped", "done"}
      /\ Len(fwriter[w].cut) = NumBlocks(f)
    BY <1>2 DEF HasMoved
<1>5. fwriter[w].moved \in Nat /\ Len(fwriter[w].cut) \in Nat
    BY <1>3 DEF FileWriterType
<1>6. fwriter[w].moved # Len(fwriter[w].cut)
  <2>1. SUFFICES ASSUME fwriter[w].moved = NumBlocks(f) PROVE FALSE
    BY <1>4
  <2>2. PICK i \in 0 .. NumBlocks(f) - 1 : TrueHash(f, i) \notin DOMAIN blocks
    BY <1>1 DEF Missing
  <2>3. NumBlocks(f) \in Nat
    BY <1>4, <1>5
  <2>4. i + 1 \in 1 .. NumBlocks(f) /\ (i + 1) - 1 = i
    BY <2>3
  <2>5. \A j \in 1 .. NumBlocks(f) : TrueHash(f, j - 1) \in DOMAIN blocks
    BY <1>3, <1>4, <2>1 DEF MovedHolds
  <2> QED
    BY <2>2, <2>4, <2>5
<1>7. fwriter[w].moved < Len(fwriter[w].cut)
    BY <1>3, <1>5, <1>6 DEF MovedHolds
<1>8. fwriter[w].st \in {"blocks", "stopped"}
    BY <1>3, <1>4, <1>6 DEF MovedHolds
<1> QED
    BY <1>4, <1>7, <1>8

\* What holds of the writers and of the disk is the invariant.
LEMMA BucketHoldsInv ==
    ASSUME BucketHolds
    PROVE  BucketInv
<1>1. /\ FilesHold(fwriter) /\ DirsHold(dwriter) /\ DiskHolds(headers, blocks)
      /\ ListsHold(dwriter, headers) /\ MovesHold(fwriter, headers, blocks) /\ LogHolds(wal)
    BY DEF BucketHolds
<1>2. BucketTypeOK
    BY <1>1, Zenon DEF FilesHold, DirsHold, DiskHolds, LogHolds, BucketTypeOK, FileWriterType, DirWriterType
<1>3. CallsInStep
    BY <1>1 DEF CallsInStep, FilesHold, FileHolds, Called
<1>4. BlocksTile
  <2>1. SUFFICES ASSUME NEW w \in DOMAIN FileWriters
                 PROVE  LET s == fwriter[w]
                            f == FileWriters[w]
                            cutoff == Len(s.cut) * MaxBlock
                        IN /\ s.st # "refused" => \A i \in DOMAIN s.cut : s.cut[i] = BlockOf(f, i - 1)
                           /\ s.st \in {"new", "open"} =>
                                /\ \A i \in DOMAIN s.cut :
                                     s.cut[i].bytes = Bytes(s.bad, (i - 1) * MaxBlock, i * MaxBlock)
                                /\ cutoff < Contents[f] /\ cutoff <= s.given
                                /\ s.cur = Bytes(s.bad, cutoff, s.given) /\ s.given <= cutoff + MaxBlock
                                /\ s.buffer = IF w \in Untrusted THEN s.cur ELSE <<>>
                                /\ s.file <=> s.given > 0
                           /\ s.st \in {"header", "blocks", "done"} => Len(s.cut) = NumBlocks(f)
    BY Zenon DEF BlocksTile
  <2>2. FileHolds(w, fwriter[w])
    BY <1>1 DEF FilesHold
  <2> QED
    BY <2>2, Zenon DEF FileHolds, Named, Cutting, Buffered
<1>5. HonestFileAccepted
    BY <1>1 DEF HonestFileAccepted, FilesHold, FileHolds
<1>6. EntriesVerified
  <2>1. SUFFICES ASSUME NEW w \in DOMAIN DirWriters
                 PROVE  LET s == dwriter[w]
                            size == Folders[DirWriters[w]]
                            all == ToSet(s.entries)
                        IN /\ s.verified <= size
                           /\ w \notin Untrusted =>
                                /\ all \subseteq 1 .. size /\ IsFiniteSet(all)
                                /\ Cardinality(all) = Len(s.entries)
                                /\ s.st # "new" => s.num = size
                           /\ w \in Untrusted /\ s.st \in {"new", "open"} =>
                                /\ Len(s.entries) = s.insertions /\ s.insertions <= s.num
                                /\ 1 .. s.verified \subseteq all
                                /\ s.last = 0 => Len(s.entries) = s.verified /\ all = 1 .. s.verified
                                /\ s.last # 0 => s.verified < Len(s.entries) /\ s.last \in all
                                /\ s.last # 0 /\ Len(s.entries) = s.verified + 1 =>
                                     all = 1 .. s.verified \cup {s.last}
    BY Zenon DEF EntriesVerified
  <2>2. DirHolds(w, dwriter[w])
    BY <1>1 DEF DirsHold
  <2> QED
    BY <2>2, Zenon DEF DirHolds, Given, Verified
<1>7. StoredIsContent
    BY <1>1 DEF StoredIsContent, DiskHolds, ListsHold, ListedBy, DirsHold, DirHolds, HasItsEntries
<1>8. MovedInOrder
    BY <1>1 DEF MovedInOrder, MovesHold, MovedHolds, HasMoved
<1>9. WholeUnlessMoving
    BY MovedWhole
<1> QED
    BY <1>2, <1>3, <1>4, <1>5, <1>6, <1>7, <1>8, <1>9 DEF BucketInv

WriterSet(fw, w, t) == [fw EXCEPT ![w] = t]

LEMMA FileChange ==
    ASSUME NEW fw, FilesHold(fw), NEW w \in DOMAIN FileWriters, NEW t, FileHolds(w, t),
           NEW fw2, fw2 = WriterSet(fw, w, t)
    PROVE  /\ FilesHold(fw2) /\ fw2[w] = t
           /\ \A u \in DOMAIN FileWriters : u # w => fw2[u] = fw[u]
<1>1. fw \in [DOMAIN FileWriters -> FileWriterType] /\ t \in FileWriterType
    BY DEF FilesHold, FileHolds
<1>2. /\ fw2 \in [DOMAIN FileWriters -> FileWriterType] /\ fw2[w] = t
      /\ \A u \in DOMAIN FileWriters : u # w => fw2[u] = fw[u]
    BY <1>1 DEF WriterSet
<1>3. ASSUME NEW u \in DOMAIN FileWriters PROVE FileHolds(u, fw2[u])
  <2>1. CASE u = w
    BY <1>2, <2>1
  <2>2. CASE u # w
    BY <1>2, <2>2 DEF FilesHold
  <2> QED
    BY <2>1, <2>2
<1> QED
    BY <1>2, <1>3 DEF FilesHold

\* A writer that has moved nothing goes on.
LEMMA MovesKept ==
    ASSUME NEW fw, FilesHold(fw), NEW w \in DOMAIN FileWriters, NEW t, FileHolds(w, t),
           NEW fw2, fw2 = WriterSet(fw, w, t), NEW hd, NEW bl, MovesHold(fw, hd, bl),
           fw[w].st \in {"new", "open"}, t.st # "done", t.moved = fw[w].moved,
           Len(t.cut) >= Len(fw[w].cut)
    PROVE  FilesHold(fw2) /\ MovesHold(fw2, hd, bl)
<1>1. /\ FilesHold(fw2) /\ fw2[w] = t
      /\ \A u \in DOMAIN FileWriters : u # w => fw2[u] = fw[u]
    BY ONLY FilesHold(fw), w \in DOMAIN FileWriters, FileHolds(w, t), fw2 = WriterSet(fw, w, t), FileChange
<1>2. MovedHolds(w, t, bl)
  <2>1. fw[w] \in FileWriterType /\ t \in FileWriterType /\ MovedHolds(w, fw[w], bl)
    <3>1. MovedHolds(w, fw[w], bl)
      BY DEF MovesHold
    <3>2. t \in FileWriterType
      BY DEF FileHolds
    <3>3. FileHolds(w, fw[w])
      BY DEF FilesHold
    <3>4. fw[w] \in FileWriterType
      BY <3>3 DEF FileHolds
    <3> QED
      BY <3>1, <3>2, <3>4
  <2>2. Len(fw[w].cut) \in Nat /\ Len(t.cut) \in Nat /\ t.moved \in Nat
    <3>1. fw[w].cut \in Seq(BlockFile) /\ t.cut \in Seq(BlockFile) /\ t.moved \in Nat
      BY <2>1 DEF FileWriterType
    <3> QED
      BY <3>1
  <2>3. t.moved <= Len(t.cut)
    BY <2>1, <2>2 DEF MovedHolds
  <2> QED
    BY <2>1, <2>3 DEF MovedHolds
<1>3. ASSUME NEW u \in DOMAIN FileWriters PROVE MovedHolds(u, fw2[u], bl)
    BY <1>1, <1>2 DEF MovesHold
<1>4. ASSUME NEW f \in DOMAIN hd \cap DOMAIN Contents
      PROVE  \E u \in DOMAIN FileWriters : HasMoved(u, fw2[u], f)
  <2>1. PICK u \in DOMAIN FileWriters : HasMoved(u, fw[u], f)
    BY DEF MovesHold
  <2>2. u # w
    BY <2>1 DEF HasMoved
  <2> QED
    BY <1>1, <2>1, <2>2
<1> QED
    BY <1>1, <1>3, <1>4 DEF MovesHold

LEMMA OpenGoesOn ==
    ASSUME BucketHolds, NEW w \in DOMAIN FileWriters, NEW t, FileHolds(w, t),
           fwriter' = [fwriter EXCEPT ![w] = t], fwriter[w].st \in {"new", "open"}, t.st # "done",
           t.moved = fwriter[w].moved, Len(t.cut) >= Len(fwriter[w].cut),
           wal' \subseteq wal \cup {w}, UNCHANGED <<dwriter, headers, blocks>>
    PROVE  BucketHolds'
<1>1. FilesHold(fwriter) /\ MovesHold(fwriter, headers, blocks)
    BY DEF BucketHolds
<1>2. FilesHold(fwriter') /\ MovesHold(fwriter', headers, blocks)
  <2>1. fwriter' = WriterSet(fwriter, w, t)
    BY DEF WriterSet
  <2> QED
    BY <1>1, <2>1, MovesKept
<1>3. LogHolds(wal')
    BY DEF BucketHolds, LogHolds
<1>4. dwriter' = dwriter /\ headers' = headers /\ blocks' = blocks
    OBVIOUS
<1> QED
    BY <1>2, <1>3, <1>4 DEF BucketHolds

LEMMA WriterHolds ==
    ASSUME BucketHolds, NEW w \in DOMAIN FileWriters
    PROVE  /\ FileHolds(w, fwriter[w]) /\ fwriter[w] \in FileWriterType
           /\ fwriter[w].cut \in Seq(BlockFile) /\ Len(fwriter[w].cut) \in Nat
           /\ Len(fwriter[w].cut) >= Len(fwriter[w].cut) /\ fwriter[w].moved \in Nat
           /\ fwriter \in [DOMAIN FileWriters -> FileWriterType]
<1>1. /\ FileHolds(w, fwriter[w]) /\ fwriter[w] \in FileWriterType
      /\ fwriter \in [DOMAIN FileWriters -> FileWriterType]
    BY DEF BucketHolds, FilesHold
<1>2. fwriter[w].cut \in Seq(BlockFile) /\ fwriter[w].moved \in Nat
    BY <1>1 DEF FileWriterType
<1>3. Len(fwriter[w].cut) \in Nat
    BY <1>2
<1> QED
    BY <1>1, <1>2, <1>3

LEMMA NewFileHolds ==
    ASSUME BucketHolds, NEW w \in DOMAIN FileWriters, NewFileWriter(w)
    PROVE  BucketHolds'
<1>1. FileHolds(w, fwriter[w]) /\ Len(fwriter[w].cut) >= Len(fwriter[w].cut)
    BY WriterHolds
<1>2. PICK t : t = TurnTo(fwriter[w], "open")
    OBVIOUS
<1>3. /\ fwriter[w].st = "new" /\ fwriter' = [fwriter EXCEPT ![w] = t]
      /\ wal' \subseteq wal \cup {w} /\ UNCHANGED <<dwriter, headers, blocks>>
    BY <1>2 DEF NewFileWriter, TurnTo
<1>4. FileHolds(w, t) /\ t.st = "open" /\ t.cut = fwriter[w].cut /\ t.moved = fwriter[w].moved
  <2>1. MayTurn(fwriter[w], "open")
    BY <1>3 DEF MayTurn
  <2> QED
    BY ONLY w \in DOMAIN FileWriters, <1>1, <1>2, <2>1, FileTurn
<1> QED
    BY <1>1, <1>3, <1>4, OpenGoesOn

LEMMA WriteCallHolds ==
    ASSUME BucketHolds, NEW w \in DOMAIN FileWriters, NEW n \in WriteSizes, WriteCall(w, n)
    PROVE  BucketHolds'
<1>1. FileHolds(w, fwriter[w]) /\ Len(fwriter[w].cut) >= Len(fwriter[w].cut)
    BY WriterHolds
<1>2. PICK l \in BOOLEAN : l = (fwriter[w].given + n = Contents[FileWriters[w]])
    OBVIOUS
<1>3. PICK t : t = CallTo(fwriter[w], n, l)
    OBVIOUS
<1>4. /\ fwriter[w].st = "open" /\ fwriter[w].todo = 0
      /\ fwriter[w].given + n <= Contents[FileWriters[w]]
      /\ wal' \subseteq wal \cup {w} /\ UNCHANGED <<dwriter, headers, blocks>>
    BY DEF WriteCall
<1>5. fwriter' = [fwriter EXCEPT ![w] = t]
    BY <1>2, <1>3, Zenon DEF WriteCall, CallTo
<1>6. n \in Nat
    BY BucketAssumption
<1>7. FileHolds(w, t) /\ t.st = "open" /\ t.cut = fwriter[w].cut /\ t.moved = fwriter[w].moved
  <2>1. PICK s : s = fwriter[w]
    OBVIOUS
  <2>2. /\ FileHolds(w, s) /\ s.st = "open" /\ s.todo = 0 /\ s.given + n <= Contents[FileWriters[w]]
        /\ l \in BOOLEAN /\ (l <=> s.given + n = Contents[FileWriters[w]])
        /\ t = CallTo(s, n, l)
    BY <1>1, <1>2, <1>3, <1>4, <2>1
  <2>3. FileHolds(w, t) /\ t.st = "open" /\ t.cut = s.cut /\ t.moved = s.moved
    BY ONLY w \in DOMAIN FileWriters, <1>6, <2>2, WriteIsCalled
  <2> QED
    BY <2>1, <2>3
<1> QED
    BY <1>1, <1>4, <1>5, <1>7, OpenGoesOn

LEMMA WritePieceHolds ==
    ASSUME BucketHolds, NEW w \in DOMAIN FileWriters, WritePiece(w)
    PROVE  BucketHolds'
<1>1. FileHolds(w, fwriter[w])
    BY WriterHolds
<1>2. PICK s : s = fwriter[w]
    OBVIOUS
<1>3. PICK k : k = Min({Piece, s.todo})
    OBVIOUS
<1>4. PICK t : t = process_block(w, Collected(w, s, k), Bytes(s.bad, s.given, s.given + k))
    OBVIOUS
<1>5. /\ s.st = "open" /\ s.todo > 0
      /\ wal' \subseteq wal \cup {w} /\ UNCHANGED <<dwriter, headers, blocks>>
    BY <1>2 DEF WritePiece
<1>6. fwriter' = [fwriter EXCEPT ![w] = t]
    BY <1>2, <1>3, <1>4 DEF WritePiece, Collected
<1>7. /\ FileHolds(w, t) /\ t.moved = s.moved /\ Len(t.cut) >= Len(s.cut)
      /\ t.st \in {"open", "refused"}
    BY <1>1, <1>2, <1>3, <1>4, <1>5, PieceHolds
<1> QED
    BY <1>2, <1>5, <1>6, <1>7, OpenGoesOn

LEMMA CommitFileHolds ==
    ASSUME BucketHolds, NEW w \in DOMAIN FileWriters, CommitFile(w)
    PROVE  BucketHolds'
<1>1. FileHolds(w, fwriter[w])
    BY WriterHolds
<1>2. PICK s : s = fwriter[w]
    OBVIOUS
<1>3. PICK t : t = Committed(w, s)
    OBVIOUS
<1>5. /\ s.st = "open" /\ s.todo = 0 /\ s.given = Contents[FileWriters[w]]
      /\ wal' \subseteq wal \cup {w} /\ UNCHANGED <<dwriter, headers, blocks>>
    BY <1>2 DEF CommitFile
<1>6. fwriter' = [fwriter EXCEPT ![w] = t]
    BY <1>2, <1>3 DEF CommitFile, Committed
<1>7. /\ FileHolds(w, t) /\ t.moved = s.moved /\ Len(t.cut) >= Len(s.cut)
      /\ t.st \in {"header", "refused"}
    BY <1>1, <1>2, <1>3, <1>5, CommitHolds
<1> QED
    BY <1>2, <1>5, <1>6, <1>7, OpenGoesOn

LEMMA DropFileHolds ==
    ASSUME BucketHolds, NEW w \in DOMAIN FileWriters, DropFileWriter(w) \/ RollbackFile(w)
    PROVE  BucketHolds'
<1>1. FileHolds(w, fwriter[w]) /\ Len(fwriter[w].cut) >= Len(fwriter[w].cut)
    BY WriterHolds
<1>2. PICK x :
        /\ x \in {"dropped", "rolled back"} /\ fwriter[w].st = "open" /\ fwriter' = [fwriter EXCEPT ![w].st = x]
        /\ wal' \subseteq wal \cup {w} /\ UNCHANGED <<dwriter, headers, blocks>>
    BY DEF DropFileWriter, RollbackFile
<1>3. PICK t : t = TurnTo(fwriter[w], x)
    OBVIOUS
<1>4. fwriter' = [fwriter EXCEPT ![w] = t]
    BY <1>2, <1>3 DEF TurnTo
<1>5. FileHolds(w, t) /\ t.st = x /\ t.cut = fwriter[w].cut /\ t.moved = fwriter[w].moved
  <2>1. MayTurn(fwriter[w], x)
    BY <1>2 DEF MayTurn
  <2> QED
    BY ONLY w \in DOMAIN FileWriters, <1>1, <1>3, <2>1, FileTurn
<1> QED
    BY <1>1, <1>2, <1>4, <1>5, OpenGoesOn

\* The header of a file with all its block files.
LEMMA RenameHeaderHolds ==
    ASSUME BucketHolds, NEW w \in DOMAIN FileWriters, RenameHeader(w)
    PROVE  BucketHolds'
<1>1. FileHolds(w, fwriter[w]) /\ FilesHold(fwriter)
    BY WriterHolds DEF BucketHolds
<1>2. PICK t : t = TurnTo(fwriter[w], "blocks")
    OBVIOUS
<1>3. /\ fwriter[w].st = "header" /\ fwriter' = WriterSet(fwriter, w, t)
      /\ headers' = Put(headers, FileWriters[w], Len(fwriter[w].cut))
      /\ dwriter' = dwriter /\ blocks' = blocks /\ wal' = wal
    BY <1>2 DEF RenameHeader, TurnTo, WriterSet
<1>4. FileHolds(w, t) /\ t.st = "blocks" /\ t.cut = fwriter[w].cut /\ t.moved = fwriter[w].moved
  <2>1. MayTurn(fwriter[w], "blocks")
    BY <1>3 DEF MayTurn
  <2> QED
    BY ONLY w \in DOMAIN FileWriters, <1>1, <1>2, <2>1, FileTurn
<1>5. /\ FilesHold(fwriter') /\ fwriter'[w] = t
      /\ \A u \in DOMAIN FileWriters : u # w => fwriter'[u] = fwriter[u]
    BY <1>1, <1>3, <1>4, FileChange
<1>6. Len(fwriter[w].cut) = NumBlocks(FileWriters[w])
    BY <1>1, <1>3 DEF FileHolds
<1>7. FileWriters[w] \in DOMAIN Contents
    BY BucketFacts
<1>8. /\ DOMAIN headers' = DOMAIN headers \cup {FileWriters[w]}
      /\ headers'[FileWriters[w]] = NumBlocks(FileWriters[w])
      /\ \A y \in DOMAIN headers : y # FileWriters[w] => headers'[y] = headers[y]
  <2>1. headers' = Put(headers, FileWriters[w], NumBlocks(FileWriters[w]))
    BY <1>3, <1>6
  <2> QED
    BY <2>1 DEF Put
<1>9. DiskHolds(headers', blocks')
  <2>1. DiskHolds(headers, blocks)
    BY DEF BucketHolds
  <2> QED
    BY <1>3, <1>7, <1>8, <2>1 DEF DiskHolds
<1>10. MovesHold(fwriter', headers', blocks')
  <2>1. MovesHold(fwriter, headers, blocks)
    BY DEF BucketHolds
  <2>2. MovedHolds(w, t, blocks)
    BY <1>4, <2>1 DEF MovesHold, MovedHolds
  <2>3. \A u \in DOMAIN FileWriters : MovedHolds(u, fwriter'[u], blocks)
    BY <1>5, <2>1, <2>2 DEF MovesHold
  <2>4. HasMoved(w, t, FileWriters[w])
    BY <1>4, <1>6 DEF HasMoved
  <2>5. ASSUME NEW f \in DOMAIN headers' \cap DOMAIN Contents
        PROVE  \E u \in DOMAIN FileWriters : HasMoved(u, fwriter'[u], f)
    <3>1. CASE f = FileWriters[w]
      BY <1>5, <2>4, <3>1
    <3>2. CASE f # FileWriters[w]
      <4>1. f \in DOMAIN headers \cap DOMAIN Contents
        BY <1>8, <2>5, <3>2
      <4>2. PICK u \in DOMAIN FileWriters : HasMoved(u, fwriter[u], f)
        BY <2>1, <4>1 DEF MovesHold
      <4>3. u # w
        BY <1>3, <4>2 DEF HasMoved
      <4> QED
        BY <1>5, <4>2, <4>3
    <3> QED
      BY <3>1, <3>2
  <2> QED
    BY <1>3, <2>3, <2>5 DEF MovesHold
<1>11. ListsHold(dwriter, headers')
    BY <1>7, <1>8, BucketFacts DEF BucketHolds, ListsHold
<1> QED
    BY <1>3, <1>5, <1>9, <1>10, <1>11 DEF BucketHolds

\* A block file that is moved is the next of the file.
LEMMA RenameBlockHolds ==
    ASSUME BucketHolds, NEW w \in DOMAIN FileWriters, RenameBlock(w)
    PROVE  BucketHolds'
<1> DEFINE f == FileWriters[w]
<1>1. /\ FileHolds(w, fwriter[w]) /\ FilesHold(fwriter) /\ fwriter[w] \in FileWriterType
      /\ fwriter[w].cut \in Seq(BlockFile)
    BY WriterHolds DEF BucketHolds
<1>2. PICK n \in Nat : n = fwriter[w].moved
    BY <1>1 DEF FileWriterType
<1>3. PICK b : b = fwriter[w].cut[n + 1]
    OBVIOUS
<1>4. PICK t : t = [fwriter[w] EXCEPT !.moved = n + 1]
    OBVIOUS
<1>5. /\ fwriter[w].st = "blocks" /\ n < Len(fwriter[w].cut) /\ fwriter' = WriterSet(fwriter, w, t)
      /\ blocks' = Put(blocks, b.hash, b.bytes)
      /\ dwriter' = dwriter /\ headers' = headers /\ wal' = wal
    BY <1>2, <1>3, <1>4 DEF RenameBlock, WriterSet
<1>6. /\ t \in FileWriterType /\ t.st = "blocks" /\ t.bad = fwriter[w].bad /\ t.given = fwriter[w].given
      /\ t.todo = fwriter[w].todo /\ t.last = fwriter[w].last /\ t.cut = fwriter[w].cut
      /\ t.moved = n + 1
  <2>1. PICK m \in Nat : m = n + 1
    OBVIOUS
  <2>2. PICK s \in FileWriterType : s = fwriter[w]
    BY <1>1
  <2>3. t = [s EXCEPT !.moved = m]
    BY <1>4, <2>1, <2>2
  <2>4. /\ t \in FileWriterType /\ t.st = s.st /\ t.bad = s.bad /\ t.given = s.given
        /\ t.todo = s.todo /\ t.last = s.last /\ t.cut = s.cut /\ t.moved = m
    BY <2>3 DEF FileWriterType
  <2> QED
    BY <1>5, <2>1, <2>2, <2>4
<1>7. FileHolds(w, t)
    BY <1>1, <1>5, <1>6 DEF FileHolds, Called, Named
<1>8. /\ FilesHold(fwriter') /\ fwriter'[w] = t
      /\ \A u \in DOMAIN FileWriters : u # w => fwriter'[u] = fwriter[u]
    BY <1>1, <1>5, <1>7, FileChange
<1>9. b = BlockOf(f, n)
  <2>1. n + 1 \in DOMAIN fwriter[w].cut /\ (n + 1) - 1 = n
    BY <1>1, <1>5
  <2>2. Named(w, fwriter[w])
    BY <1>1, <1>5 DEF FileHolds
  <2> QED
    BY <1>3, <2>1, <2>2 DEF Named
<1>10. /\ b.hash = TrueHash(f, n) /\ b.bytes = TrueHash(f, n).bytes
       /\ TrueHash(f, n).file = f /\ TrueHash(f, n).block = n
    BY <1>9 DEF BlockOf, TrueHash, BlockHash
<1>11. /\ DOMAIN blocks' = DOMAIN blocks \cup {TrueHash(f, n)}
       /\ blocks'[TrueHash(f, n)] = TrueHash(f, n).bytes
       /\ \A y \in DOMAIN blocks : y # TrueHash(f, n) => blocks'[y] = blocks[y]
  <2>1. blocks' = Put(blocks, TrueHash(f, n), TrueHash(f, n).bytes)
    BY <1>5, <1>10
  <2> QED
    BY <2>1 DEF Put
<1>12. DiskHolds(headers', blocks')
  <2>1. DiskHolds(headers, blocks)
    BY DEF BucketHolds
  <2>2. ASSUME NEW y \in DOMAIN blocks' PROVE y = TrueHash(y.file, y.block) /\ blocks'[y] = y.bytes
    <3>1. CASE y = TrueHash(f, n)
      BY <1>10, <1>11, <3>1
    <3>2. CASE y # TrueHash(f, n)
      BY <1>11, <2>1, <2>2, <3>2 DEF DiskHolds
    <3> QED
      BY <3>1, <3>2
  <2> QED
    BY <1>5, <2>1, <2>2 DEF DiskHolds
<1>13. MovesHold(fwriter', headers', blocks')
  <2>1. MovesHold(fwriter, headers, blocks)
    BY DEF BucketHolds
  <2>2. ASSUME NEW u \in DOMAIN FileWriters PROVE MovedHolds(u, fwriter'[u], blocks')
    <3>1. MovedHolds(u, fwriter[u], blocks)
      BY <2>1 DEF MovesHold
    <3>2. CASE u # w
      BY <1>8, <1>11, <3>1, <3>2 DEF MovedHolds
    <3>3. CASE u = w
      <4>1. fwriter'[u] = t /\ t.moved <= Len(t.cut) /\ t.st # "done"
        <5>1. Len(fwriter[w].cut) \in Nat
          BY <1>1
        <5> QED
          BY <1>5, <1>6, <1>8, <3>3, <5>1
      <4>2. ASSUME NEW i \in 1 .. t.moved PROVE TrueHash(f, i - 1) \in DOMAIN blocks'
        <5>1. i \in 1 .. n \/ i - 1 = n
          BY <1>6
        <5>2. \A j \in 1 .. n : TrueHash(f, j - 1) \in DOMAIN blocks
          BY <1>2, <3>1, <3>3 DEF MovedHolds
        <5> QED
          BY <1>11, <5>1, <5>2
      <4> QED
        BY <3>3, <4>1, <4>2 DEF MovedHolds
    <3> QED
      BY <3>2, <3>3
  <2>3. ASSUME NEW g \in DOMAIN headers' \cap DOMAIN Contents
        PROVE  \E u \in DOMAIN FileWriters : HasMoved(u, fwriter'[u], g)
    <3>1. PICK u \in DOMAIN FileWriters : HasMoved(u, fwriter[u], g)
      BY <1>5, <2>1, <2>3 DEF MovesHold
    <3>2. HasMoved(u, fwriter'[u], g)
      BY <1>6, <1>8, <3>1 DEF HasMoved
    <3> QED
      BY <3>2
  <2> QED
    BY <2>2, <2>3 DEF MovesHold
<1> QED
    BY <1>5, <1>8, <1>12, <1>13 DEF BucketHolds

LEMMA FlushEndHolds ==
    ASSUME BucketHolds, NEW w \in DOMAIN FileWriters, FlushEnd(w)
    PROVE  BucketHolds'
<1>1. FileHolds(w, fwriter[w]) /\ FilesHold(fwriter)
    BY WriterHolds DEF BucketHolds
<1>2. PICK t : t = TurnTo(fwriter[w], "done")
    OBVIOUS
<1>3. /\ fwriter[w].st = "blocks" /\ fwriter' = WriterSet(fwriter, w, t)
      /\ fwriter[w].moved = Len(fwriter[w].cut)
      /\ dwriter' = dwriter /\ blocks' = blocks /\ headers' = headers /\ wal' \subseteq wal
    BY <1>2 DEF FlushEnd, TurnTo, WriterSet
<1>4. FileHolds(w, t) /\ t.st = "done" /\ t.cut = fwriter[w].cut /\ t.moved = fwriter[w].moved
  <2>1. MayTurn(fwriter[w], "done")
    BY <1>3 DEF MayTurn
  <2> QED
    BY ONLY w \in DOMAIN FileWriters, <1>1, <1>2, <2>1, FileTurn
<1>5. /\ FilesHold(fwriter') /\ fwriter'[w] = t
      /\ \A u \in DOMAIN FileWriters : u # w => fwriter'[u] = fwriter[u]
    BY <1>1, <1>3, <1>4, FileChange
<1>6. MovesHold(fwriter', headers, blocks)
  <2>1. MovesHold(fwriter, headers, blocks)
    BY DEF BucketHolds
  <2>2. MovedHolds(w, t, blocks)
    BY <1>3, <1>4, <2>1 DEF MovesHold, MovedHolds
  <2>3. \A u \in DOMAIN FileWriters : MovedHolds(u, fwriter'[u], blocks)
    BY <1>5, <2>1, <2>2 DEF MovesHold
  <2>4. ASSUME NEW f \in DOMAIN headers \cap DOMAIN Contents
        PROVE  \E u \in DOMAIN FileWriters : HasMoved(u, fwriter'[u], f)
    <3>1. PICK u \in DOMAIN FileWriters : HasMoved(u, fwriter[u], f)
      BY <2>1, <2>4 DEF MovesHold
    <3>2. HasMoved(u, fwriter'[u], f)
      BY <1>4, <1>5, <3>1 DEF HasMoved
    <3> QED
      BY <3>2
  <2> QED
    BY <2>3, <2>4 DEF MovesHold
<1>7. LogHolds(wal')
    BY <1>3 DEF BucketHolds, LogHolds
<1> QED
    BY <1>3, <1>5, <1>6, <1>7 DEF BucketHolds

LEMMA FileStepHolds ==
    ASSUME BucketHolds, NEW w \in DOMAIN FileWriters, FileStep(w)
    PROVE  BucketHolds'
<1>1. CASE NewFileWriter(w)
    BY <1>1, NewFileHolds
<1>2. CASE WritePiece(w)
    BY <1>2, WritePieceHolds
<1>3. CASE CommitFile(w)
    BY <1>3, CommitFileHolds
<1>4. CASE RenameHeader(w)
    BY <1>4, RenameHeaderHolds
<1>5. CASE RenameBlock(w)
    BY <1>5, RenameBlockHolds
<1>6. CASE FlushEnd(w)
    BY <1>6, FlushEndHolds
<1>7. CASE DropFileWriter(w) \/ RollbackFile(w)
    BY <1>7, DropFileHolds
<1>8. CASE \E n \in WriteSizes : WriteCall(w, n)
    BY <1>8, WriteCallHolds
<1> QED
    BY <1>1, <1>2, <1>3, <1>4, <1>5, <1>6, <1>7, <1>8 DEF FileStep

\* A writer of a directory goes on, and leaves the disk alone.
LEMMA DirGoesOn ==
    ASSUME BucketHolds, NEW w \in DOMAIN DirWriters, NEW t, DirHolds(w, t),
           dwriter' = [dwriter EXCEPT ![w] = t]
    PROVE  DirsHold(dwriter')
<1>1. DirsHold(dwriter) /\ t \in DirWriterType
    BY DEF BucketHolds, DirHolds
<1>2. dwriter \in [DOMAIN DirWriters -> DirWriterType]
    BY <1>1 DEF DirsHold
<1>3. /\ dwriter' \in [DOMAIN DirWriters -> DirWriterType] /\ dwriter'[w] = t
      /\ \A u \in DOMAIN DirWriters : u # w => dwriter'[u] = dwriter[u]
    BY <1>1, <1>2
<1>4. ASSUME NEW u \in DOMAIN DirWriters PROVE DirHolds(u, dwriter'[u])
  <2>1. CASE u = w
    BY <1>3, <2>1
  <2>2. CASE u # w
    BY <1>1, <1>3, <2>2 DEF DirsHold
  <2> QED
    BY <2>1, <2>2
<1> QED
    BY <1>3, <1>4 DEF DirsHold

LEMMA DirAlone ==
    ASSUME BucketHolds, NEW w \in DOMAIN DirWriters, NEW t, DirHolds(w, t),
           dwriter' = [dwriter EXCEPT ![w] = t], dwriter[w].st # "done",
           UNCHANGED <<fwriter, headers, blocks>>, wal' \subseteq wal \cup {w}
    PROVE  BucketHolds'
<1>1. fwriter' = fwriter /\ headers' = headers /\ blocks' = blocks
    OBVIOUS
<1>2. LogHolds(wal')
    BY DEF BucketHolds, LogHolds
<1>3. DirsHold(dwriter')
    BY DirGoesOn
<1>4. ListsHold(dwriter', headers)
  <2>1. SUFFICES ASSUME NEW d \in DOMAIN headers \cap DOMAIN Folders
                 PROVE  \E u \in DOMAIN DirWriters : ListedBy(u, dwriter'[u], d, headers[d])
    BY DEF ListsHold
  <2>2. PICK u \in DOMAIN DirWriters : ListedBy(u, dwriter[u], d, headers[d])
    BY DEF BucketHolds, ListsHold
  <2>3. u # w
    BY <2>2 DEF ListedBy
  <2>4. dwriter'[u] = dwriter[u]
    BY <2>3 DEF BucketHolds, DirsHold
  <2> QED
    BY <2>2, <2>4
<1> QED
    BY <1>1, <1>2, <1>3, <1>4 DEF BucketHolds

LEMMA NewDirHolds ==
    ASSUME BucketHolds, NEW w \in DOMAIN DirWriters,
           NEW num \in Preludes \cup {Folders[DirWriters[w]]}, NewDirWriter(w, num)
    PROVE  BucketHolds'
<1>1. num \in Nat
    BY BucketFacts
<1>2. PICK t : t = NewDir(num)
    OBVIOUS
<1>3. /\ dwriter[w].st \in {"new", "open"} /\ dwriter' = [dwriter EXCEPT ![w] = t]
      /\ w \notin Untrusted => num = Folders[DirWriters[w]]
      /\ UNCHANGED <<fwriter, headers, blocks>> /\ wal' \subseteq wal \cup {w}
    BY <1>2 DEF NewDirWriter, NewDir
<1>4. DirHolds(w, t)
    BY <1>1, <1>2, <1>3, DirOpens
<1> QED
    BY <1>3, <1>4, DirAlone

LEMMA InsertHolds ==
    ASSUME BucketHolds, NEW w \in DOMAIN DirWriters, NEW e \in Nat \ {0},
           InsertTrusted(w, e) \/ \E last \in BOOLEAN : InsertUntrusted(w, e, last)
    PROVE  BucketHolds'
<1>1. DirHolds(w, dwriter[w])
    BY DEF BucketHolds, DirsHold
<1>2. CASE InsertTrusted(w, e)
  <2>1. /\ w \notin Untrusted /\ dwriter[w].st = "open" /\ e <= Folders[DirWriters[w]]
        /\ UNCHANGED <<fwriter, headers, blocks, wal>>
    BY <1>2 DEF InsertTrusted
  <2>2. PICK k \in 1 .. Len(dwriter[w].entries) + 1 :
         /\ \A i \in 1 .. k - 1 : dwriter[w].entries[i] < e
         /\ \A i \in k .. Len(dwriter[w].entries) : dwriter[w].entries[i] > e
         /\ dwriter' = [dwriter EXCEPT ![w].entries = InsertAt(@, k, e)]
    BY <1>2 DEF InsertTrusted
  <2>3. PICK t : t = [dwriter[w] EXCEPT !.entries = InsertAt(dwriter[w].entries, k, e)]
    OBVIOUS
  <2>4. dwriter' = [dwriter EXCEPT ![w] = t]
    BY <2>2, <2>3
  <2>5. DirHolds(w, t)
    BY <1>1, <2>1, <2>2, <2>3, TrustedHolds
  <2> QED
    BY <2>1, <2>4, <2>5, DirAlone
<1>3. ASSUME NEW last \in BOOLEAN, InsertUntrusted(w, e, last) PROVE BucketHolds'
  <2>1. w \in Untrusted /\ dwriter[w].st = "open" /\ UNCHANGED <<fwriter, headers, blocks, wal>>
    BY <1>3 DEF InsertUntrusted
  <2>2. PICK s : s = dwriter[w]
    OBVIOUS
  <2>3. PICK t : t = Inserted(w, s, e, last)
    OBVIOUS
  <2>4. dwriter' = [dwriter EXCEPT ![w] = t]
    <3>1. dwriter' = [dwriter EXCEPT ![w] = Inserted(w, dwriter[w], e, last)]
      BY <1>3 DEF InsertUntrusted, Inserted
    <3> QED
      BY <2>2, <2>3, <3>1
  <2>5. DirHolds(w, t)
    <3>1. DirHolds(w, s) /\ s.st = "open"
      BY <1>1, <2>1, <2>2
    <3> QED
      BY <2>1, <2>3, <3>1, UntrustedHolds
  <2> QED
    BY <2>1, <2>4, <2>5, DirAlone
<1> QED
    BY <1>2, <1>3

LEMMA CommitDirHolds ==
    ASSUME BucketHolds, NEW w \in DOMAIN DirWriters, CommitDir(w)
    PROVE  BucketHolds'
<1>1. DirHolds(w, dwriter[w])
    BY DEF BucketHolds, DirsHold
<1>2. /\ dwriter[w].st = "open"
      /\ w \notin Untrusted => Len(dwriter[w].entries) = dwriter[w].num
      /\ fwriter' = fwriter /\ blocks' = blocks /\ wal' = wal
    BY DEF CommitDir
<1>5. \/ headers' = headers /\ dwriter' = [dwriter EXCEPT ![w].st = "refused"]
      \/ headers' = headers /\ dwriter' = [dwriter EXCEPT ![w].st = "searching"]
      \/ /\ CommitVerifies(w) /\ headers' = Put(headers, DirWriters[w], dwriter[w].num)
         /\ dwriter' = [dwriter EXCEPT ![w].st = "done"]
    BY DEF CommitDir
<1>3. ASSUME NEW x \in {"refused", "searching"}, headers' = headers,
             dwriter' = [dwriter EXCEPT ![w].st = x]
      PROVE  BucketHolds'
  <2>2. PICK t : t = [dwriter[w] EXCEPT !.st = x]
    OBVIOUS
  <2>3. dwriter' = [dwriter EXCEPT ![w] = t]
    BY <1>3, <2>2
  <2>4. DirHolds(w, t)
    BY <1>1, <1>2, <2>2, DirTurn
  <2> QED
    BY <1>2, <1>3, <2>3, <2>4, DirAlone
<1>4. CASE /\ CommitVerifies(w) /\ headers' = Put(headers, DirWriters[w], dwriter[w].num)
           /\ dwriter' = [dwriter EXCEPT ![w].st = "done"]
  <2>2. HasItsEntries(dwriter[w], Folders[DirWriters[w]])
    BY <1>1, <1>2, <1>4, DirCommitHolds DEF CommitVerifies
  <2>3. PICK t : t = [dwriter[w] EXCEPT !.st = "done"]
    OBVIOUS
  <2>4. dwriter' = [dwriter EXCEPT ![w] = t]
    BY <1>4, <2>3
  <2>5. DirHolds(w, t) /\ t.st = "done" /\ t.num = dwriter[w].num
    BY <1>1, <1>2, <2>2, <2>3, DirTurn
  <2>6. DirsHold(dwriter')
    BY <2>4, <2>5, DirGoesOn
  <2>7. DirWriters[w] \in DOMAIN Folders /\ DirWriters[w] \notin DOMAIN Contents
    BY BucketFacts
  <2>8. /\ DOMAIN headers' = DOMAIN headers \cup {DirWriters[w]}
        /\ headers'[DirWriters[w]] = t.num
        /\ \A y \in DOMAIN headers : y # DirWriters[w] => headers'[y] = headers[y]
    BY <1>4, <2>5 DEF Put
  <2>9. DiskHolds(headers', blocks)
    <3>1. DiskHolds(headers, blocks)
      BY DEF BucketHolds
    <3> QED
      BY <2>7, <2>8, <3>1 DEF DiskHolds
  <2>10. MovesHold(fwriter, headers', blocks)
    <3>1. MovesHold(fwriter, headers, blocks)
      BY DEF BucketHolds
    <3>2. DOMAIN headers' \cap DOMAIN Contents = DOMAIN headers \cap DOMAIN Contents
      BY <2>7, <2>8
    <3> QED
      BY <3>1, <3>2 DEF MovesHold
  <2>11. ListsHold(dwriter', headers')
    <3>1. SUFFICES ASSUME NEW d \in DOMAIN headers' \cap DOMAIN Folders
                   PROVE  \E u \in DOMAIN DirWriters : ListedBy(u, dwriter'[u], d, headers'[d])
      BY DEF ListsHold
    <3>2. /\ dwriter'[w] = t
          /\ \A u \in DOMAIN DirWriters : u # w => dwriter'[u] = dwriter[u]
      BY <2>4 DEF BucketHolds, DirsHold
    <3>3. CASE d = DirWriters[w]
      <4>1. ListedBy(w, dwriter'[w], d, headers'[d])
        BY <2>5, <2>8, <3>2, <3>3 DEF ListedBy
      <4> QED
        BY <4>1
    <3>4. CASE d # DirWriters[w]
      <4>1. d \in DOMAIN headers /\ headers'[d] = headers[d]
        BY <2>8, <3>4
      <4>2. PICK u \in DOMAIN DirWriters : ListedBy(u, dwriter[u], d, headers[d])
        BY <4>1 DEF BucketHolds, ListsHold
      <4>3. u # w
        BY <1>2, <4>2 DEF ListedBy
      <4> QED
        BY <3>2, <4>1, <4>2, <4>3
    <3> QED
      BY <3>3, <3>4
  <2>12. FilesHold(fwriter) /\ LogHolds(wal)
    BY DEF BucketHolds
  <2> QED
    BY <1>2, <2>6, <2>9, <2>10, <2>11, <2>12 DEF BucketHolds
<1> QED
    BY <1>3, <1>4, <1>5

LEMMA DirStepHolds ==
    ASSUME BucketHolds, NEW w \in DOMAIN DirWriters, DirStep(w)
    PROVE  BucketHolds'
<1>1. CASE \E num \in Preludes \cup {Folders[DirWriters[w]]} : NewDirWriter(w, num)
    BY <1>1, NewDirHolds
<1>2. CASE CommitDir(w)
    BY <1>2, CommitDirHolds
<1>3. CASE \E e \in 1 .. Folders[DirWriters[w]] + 1 :
             InsertTrusted(w, e) \/ \E last \in BOOLEAN : InsertUntrusted(w, e, last)
  <2>1. PICK e \in 1 .. Folders[DirWriters[w]] + 1 :
            InsertTrusted(w, e) \/ \E last \in BOOLEAN : InsertUntrusted(w, e, last)
    BY <1>3
  <2>2. e \in Nat \ {0}
    BY BucketFacts
  <2> QED
    BY <2>1, <2>2, InsertHolds
<1> QED
    BY <1>1, <1>2, <1>3 DEF DirStep

\* The process stops: the writers are gone, what they moved stays.
LEMMA StopHolds ==
    ASSUME BucketHolds, Stop
    PROVE  BucketHolds'
<1> DEFINE Live == {"open", "header", "blocks"}
<1>1. /\ FilesHold(fwriter) /\ DirsHold(dwriter) /\ DiskHolds(headers, blocks)
      /\ ListsHold(dwriter, headers) /\ MovesHold(fwriter, headers, blocks) /\ LogHolds(wal)
    BY DEF BucketHolds
<1>2. /\ fwriter' = [w \in DOMAIN fwriter |->
                       IF fwriter[w].st \in Live
                       THEN [fwriter[w] EXCEPT !.st = "stopped"] ELSE fwriter[w]]
      /\ dwriter' = [w \in DOMAIN dwriter |->
                       IF dwriter[w].st \in {"open", "searching"}
                       THEN [dwriter[w] EXCEPT !.st = "stopped"] ELSE dwriter[w]]
      /\ headers' = headers /\ blocks' = blocks /\ wal' = wal
    BY DEF Stop
<1>3. DOMAIN fwriter = DOMAIN FileWriters /\ DOMAIN dwriter = DOMAIN DirWriters
    BY <1>1 DEF FilesHold, DirsHold
<1>4. ASSUME NEW w \in DOMAIN FileWriters
      PROVE  /\ FileHolds(w, fwriter'[w])
             /\ fwriter'[w].cut = fwriter[w].cut /\ fwriter'[w].moved = fwriter[w].moved
             /\ fwriter'[w].st = fwriter[w].st \/ fwriter'[w].st = "stopped"
  <2>1. FileHolds(w, fwriter[w])
    BY <1>1 DEF FilesHold
  <2>2. CASE fwriter[w].st \in Live
    <3>1. fwriter'[w] = TurnTo(fwriter[w], "stopped")
      BY <1>2, <1>3, <2>2 DEF TurnTo
    <3>2. MayTurn(fwriter[w], "stopped")
      BY <2>2 DEF MayTurn
    <3> QED
      BY <2>1, <3>1, <3>2, FileTurn
  <2>3. CASE fwriter[w].st \notin Live
    <3>1. fwriter'[w] = fwriter[w]
      BY <1>2, <1>3, <2>3
    <3> QED
      BY <2>1, <3>1
  <2> QED
    BY <2>2, <2>3
<1>5. FilesHold(fwriter')
  <2>1. \A w \in DOMAIN FileWriters : fwriter'[w] \in FileWriterType
    BY <1>4 DEF FileHolds
  <2>2. fwriter' \in [DOMAIN FileWriters -> FileWriterType]
    BY <1>2, <1>3, <2>1
  <2> QED
    BY <1>4, <2>2 DEF FilesHold
<1>6. ASSUME NEW w \in DOMAIN DirWriters PROVE DirHolds(w, dwriter'[w])
  <2>1. DirHolds(w, dwriter[w])
    BY <1>1 DEF DirsHold
  <2>2. CASE dwriter[w].st \in {"open", "searching"}
    <3>1. PICK t : t = [dwriter[w] EXCEPT !.st = "stopped"]
      OBVIOUS
    <3>2. dwriter'[w] = t
      BY <1>2, <1>3, <2>2, <3>1
    <3>3. DirHolds(w, t)
      BY <2>1, <2>2, <3>1, DirTurn
    <3> QED
      BY <3>2, <3>3
  <2>3. CASE dwriter[w].st \notin {"open", "searching"}
    <3>1. dwriter'[w] = dwriter[w]
      BY <1>2, <1>3, <2>3
    <3> QED
      BY <2>1, <3>1
  <2> QED
    BY <2>2, <2>3
<1>7. DirsHold(dwriter')
  <2>1. \A w \in DOMAIN DirWriters : dwriter'[w] \in DirWriterType
    BY <1>6 DEF DirHolds
  <2>2. dwriter' \in [DOMAIN DirWriters -> DirWriterType]
    BY <1>2, <1>3, <2>1
  <2> QED
    BY <1>6, <2>2 DEF DirsHold
<1>8. MovesHold(fwriter', headers, blocks)
  <2>1. ASSUME NEW w \in DOMAIN FileWriters PROVE MovedHolds(w, fwriter'[w], blocks)
    <3>1. MovedHolds(w, fwriter[w], blocks)
      BY <1>1 DEF MovesHold
    <3>2. fwriter'[w].st = "done" => fwriter[w].st = "done"
      BY <1>4
    <3> QED
      BY <1>4, <3>1, <3>2 DEF MovedHolds
  <2>2. ASSUME NEW f \in DOMAIN headers \cap DOMAIN Contents
        PROVE  \E w \in DOMAIN FileWriters : HasMoved(w, fwriter'[w], f)
    <3>1. PICK w \in DOMAIN FileWriters : HasMoved(w, fwriter[w], f)
      BY <1>1, <2>2 DEF MovesHold
    <3>2. HasMoved(w, fwriter'[w], f)
      BY <1>4, <3>1 DEF HasMoved
    <3> QED
      BY <3>2
  <2> QED
    BY <2>1, <2>2 DEF MovesHold
<1>9. ListsHold(dwriter', headers)
  <2>1. SUFFICES ASSUME NEW d \in DOMAIN headers \cap DOMAIN Folders
                 PROVE  \E w \in DOMAIN DirWriters : ListedBy(w, dwriter'[w], d, headers[d])
    BY DEF ListsHold
  <2>2. PICK w \in DOMAIN DirWriters : ListedBy(w, dwriter[w], d, headers[d])
    BY <1>1 DEF ListsHold
  <2>3. dwriter'[w] = dwriter[w]
    BY <1>2, <1>3, <2>2 DEF ListedBy
  <2> QED
    BY <2>2, <2>3
<1> QED
    BY <1>1, <1>2, <1>5, <1>7, <1>8, <1>9 DEF BucketHolds

LEMMA BucketInitHolds ==
    ASSUME BucketInit
    PROVE  BucketHolds
<1>1. PICK bad \in [DOMAIN FileWriters -> UNION {0 .. Contents[f] : f \in DOMAIN Contents}] :
         /\ \A w \in DOMAIN FileWriters :
              bad[w] <= (IF w \in Untrusted THEN Contents[FileWriters[w]] ELSE 0)
         /\ fwriter = [w \in DOMAIN FileWriters |->
                         [st |-> "new", bad |-> bad[w], given |-> 0, todo |-> 0,
                          last |-> FALSE, file |-> FALSE, cur |-> <<>>, buffer |-> <<>>,
                          cut |-> <<>>, moved |-> 0]]
    BY DEF BucketInit
<1>2. /\ dwriter = [w \in DOMAIN DirWriters |->
                      [st |-> "new", num |-> 0, insertions |-> 0, entries |-> <<>>,
                       verified |-> 0, last |-> 0]]
      /\ headers = <<>> /\ blocks = <<>> /\ wal = {}
    BY DEF BucketInit
<1>3. ASSUME NEW w \in DOMAIN FileWriters
      PROVE  /\ FileHolds(w, fwriter[w]) /\ fwriter[w].moved = 0 /\ fwriter[w].st = "new"
             /\ Len(fwriter[w].cut) = 0
  <2>1. PICK s : s = fwriter[w]
    OBVIOUS
  <2>2. bad[w] \in Nat /\ (w \notin Untrusted => bad[w] = 0)
    <3>1. PICK f \in DOMAIN Contents : bad[w] \in 0 .. Contents[f]
      BY <1>1
    <3>2. Contents[f] \in Nat
      BY BucketFacts
    <3>3. bad[w] \in Nat
      BY <3>1, <3>2
    <3> QED
      BY <1>1, <3>3
  <2>3. s = [st |-> "new", bad |-> bad[w], given |-> 0, todo |-> 0,
             last |-> FALSE, file |-> FALSE, cur |-> <<>>, buffer |-> <<>>,
             cut |-> <<>>, moved |-> 0]
    BY <1>1, <2>1
  <2>4. /\ s.st = "new" /\ s.bad = bad[w] /\ s.given = 0 /\ s.todo = 0 /\ s.last = FALSE
        /\ s.file = FALSE /\ s.cur = <<>> /\ s.buffer = <<>> /\ s.cut = <<>> /\ s.moved = 0
    BY <2>3
  <2>5. s \in FileWriterType
    BY <2>2, <2>3 DEF FileWriterType, FileStates
  <2>6. PICK z \in Nat \ {0} : z = Contents[FileWriters[w]]
    BY BucketFacts
  <2>7. Called(w, s)
    BY <2>2, <2>4, <2>6 DEF Called
  <2>8. DOMAIN s.cut = {} /\ Len(s.cut) = 0
    BY <2>4
  <2>9. Named(w, s)
    BY <2>8 DEF Named
  <2>10. PICK m \in Nat \ {0} : m = MaxBlock
    BY BucketFacts
  <2>11. Len(s.cut) * MaxBlock = 0
    BY <2>8, <2>10
  <2>12. Bytes(s.bad, 0, 0) = <<>>
    <3>1. PICK b \in Nat : b = s.bad
      BY <2>2, <2>4
    <3>2. 0 \in Nat /\ 0 <= 0
      OBVIOUS
    <3>3. Bytes(b, 0, 0) \in Seq(Nat) /\ Len(Bytes(b, 0, 0)) = 0 - 0
      BY <3>2, BytesFacts
    <3>4. Bytes(b, 0, 0) = <<>>
      BY <3>3
    <3> QED
      BY <3>1, <3>4
  <2>13. Cutting(w, s)
    BY <2>4, <2>6, <2>8, <2>10, <2>11, <2>12 DEF Cutting, Buffered
  <2>14. FileHolds(w, s)
    BY <2>4, <2>5, <2>7, <2>9, <2>13 DEF FileHolds
  <2> QED
    BY <2>1, <2>4, <2>8, <2>14
<1>4. FilesHold(fwriter)
  <2>1. \A w \in DOMAIN FileWriters : fwriter[w] \in FileWriterType
    BY <1>3 DEF FileHolds
  <2>2. fwriter \in [DOMAIN FileWriters -> FileWriterType]
    BY <1>1, <2>1
  <2> QED
    BY <1>3, <2>2 DEF FilesHold
<1>5. ASSUME NEW w \in DOMAIN DirWriters PROVE DirHolds(w, dwriter[w])
  <2>1. dwriter[w] = [NewDir(0) EXCEPT !.st = "new"]
    BY <1>2 DEF NewDir
  <2> QED
    BY <2>1, DirOpens
<1>6. DirsHold(dwriter)
  <2>1. \A w \in DOMAIN DirWriters : dwriter[w] \in DirWriterType
    BY <1>5 DEF DirHolds
  <2>2. dwriter \in [DOMAIN DirWriters -> DirWriterType]
    BY <1>2, <2>1
  <2> QED
    BY <1>5, <2>2 DEF DirsHold
<1>7. DOMAIN headers = {} /\ DOMAIN blocks = {}
    BY <1>2
<1>8. DiskHolds(headers, blocks)
    BY <1>7 DEF DiskHolds
<1>9. MovesHold(fwriter, headers, blocks)
  <2>1. ASSUME NEW w \in DOMAIN FileWriters PROVE MovedHolds(w, fwriter[w], blocks)
    <3>1. 1 .. 0 = {}
      OBVIOUS
    <3> QED
      BY <1>3, <3>1 DEF MovedHolds
  <2> QED
    BY <1>7, <2>1 DEF MovesHold
<1>10. ListsHold(dwriter, headers)
    BY <1>7 DEF ListsHold
<1> QED
    BY <1>2, <1>4, <1>6, <1>8, <1>9, <1>10 DEF BucketHolds, LogHolds

LEMMA BucketStutters ==
    ASSUME BucketHolds, UNCHANGED bucketVars
    PROVE  BucketHolds'
BY DEF BucketHolds, bucketVars

LEMMA BucketStepKeeps == BucketHolds /\ [BucketNext]_bucketVars => BucketHolds'
<1>1. SUFFICES ASSUME BucketHolds, [BucketNext]_bucketVars PROVE BucketHolds'
    OBVIOUS
<1>2. CASE BucketNext
    BY <1>1, <1>2, FileStepHolds, DirStepHolds, StopHolds DEF BucketNext
<1>3. CASE UNCHANGED bucketVars
    BY <1>1, <1>3, BucketStutters
<1> QED
    BY <1>1, <1>2, <1>3

\* The content store on disk: however write splits a file, block files tile it; what is
\* under a name is what the name says, whatever a peer sent, but for a directory whose
\* peer announced more entries than it has, which holds all of them and perhaps others;
\* and a header without all its blocks has a writer that is moving them, or was when the
\* process stopped.
THEOREM BucketCorrect == BucketSpec => []BucketInv
<1> QED
    BY BucketInitHolds, BucketStepKeeps, BucketHoldsInv, PTL DEF BucketSpec

-----------------------------------------------------------------------------
(* The components together.                                                *)

\* The composition holds what each component needs.
NetworkHold ==
    BroadcastInv /\ PubSubInv /\ PoolInv /\ ContentAll /\ ServeHolds /\ BucketHolds

LEMMA NetworkInitHold == NetworkInit => NetworkHold
<1> SUFFICES ASSUME NetworkInit PROVE NetworkHold
    OBVIOUS
<1>1. BroadcastInit /\ PubSubInit /\ PoolInit /\ ContentInit /\ ServeInit /\ BucketInit
    BY DEF NetworkInit
<1> QED
    BY <1>1, BroadcastInitHolds, PubSubInitHolds, PoolInitInv, ContentInitInv, ContentByPart,
       ServeInitHolds, BucketInitHolds DEF NetworkHold, ContentAll

\* A step of the composition is a step of each component or leaves its state alone.
LEMMA NetworkTakesTurns ==
    ASSUME [NetworkNext]_networkVars
    PROVE  /\ [BroadcastNext]_broadcastVars /\ [PubSubNext]_pubsubVars /\ [PoolNext]_poolVars
           /\ [ContentNext]_contentVars /\ [ServeNext]_serveVars /\ [BucketNext]_bucketVars
<1>1. CASE focus = "broadcast" /\ BroadcastNext /\ Leave("broadcast")
    BY <1>1 DEF Leave
<1>2. CASE focus = "pubsub" /\ PubSubNext /\ Leave("pubsub")
    BY <1>2 DEF Leave
<1>3. CASE focus = "pool" /\ PoolNext /\ Leave("pool")
    BY <1>3 DEF Leave
<1>4. CASE focus = "fetch" /\ ContentNext /\ Leave("fetch")
    BY <1>4 DEF Leave
<1>5. CASE focus = "serve" /\ ServeNext /\ Leave("serve")
    BY <1>5 DEF Leave
<1>6. CASE \E w \in DOMAIN FileWriters : focus = FileWriters[w] /\ FileStep(w) /\ Leave("bucket")
    BY <1>6 DEF Leave, BucketNext
<1>8. CASE \E w \in DOMAIN DirWriters : focus = DirWriters[w] /\ DirStep(w) /\ Leave("bucket")
    BY <1>8 DEF Leave, BucketNext
<1>9. CASE focus \in {short, exact, long, folder} /\ Stop /\ Leave("bucket")
    BY <1>9 DEF Leave, BucketNext
<1>7. CASE UNCHANGED networkVars
    BY <1>7 DEF networkVars
<1> QED
    BY <1>1, <1>2, <1>3, <1>4, <1>5, <1>6, <1>7, <1>8, <1>9 DEF NetworkNext

LEMMA NetworkStepKeeps == NetworkHold /\ [NetworkNext]_networkVars => NetworkHold'
<1> SUFFICES ASSUME NetworkHold, [NetworkNext]_networkVars PROVE NetworkHold'
    OBVIOUS
<1>1. /\ [BroadcastNext]_broadcastVars /\ [PubSubNext]_pubsubVars /\ [PoolNext]_poolVars
      /\ [ContentNext]_contentVars /\ [ServeNext]_serveVars /\ [BucketNext]_bucketVars
    BY NetworkTakesTurns
<1>2. BroadcastInv /\ PubSubInv /\ PoolInv /\ ContentAll /\ ServeHolds /\ BucketHolds
    BY DEF NetworkHold
<1> QED
    BY <1>1, <1>2, BroadcastNextKeeps, PubSubNextKeeps, PoolStepKeeps, ContentStepKeeps,
       ServeStepKeeps, BucketStepKeeps DEF NetworkHold

\* The network run's invariant, for every value of the constants of its components.
THEOREM NetworkCorrect == NetworkSpec => []NetworkInv
<1>1. NetworkHold => NetworkInv
    BY ContentByPart, ServeByPart DEF NetworkHold, NetworkInv, ContentAll
<1> QED
    BY <1>1, NetworkInitHold, NetworkStepKeeps, PTL DEF NetworkSpec

\* The same of the content store among them, which the run checks on the files of its
\* configuration.
THEOREM NetworkStoreCorrect == NetworkSpec => []BucketInv
<1>1. NetworkHold => BucketInv
    BY BucketHoldsInv DEF NetworkHold
<1> QED
    BY <1>1, NetworkInitHold, NetworkStepKeeps, PTL DEF NetworkSpec
=============================================================================
