------------------------------ MODULE Broadcast ------------------------------
(***************************************************************************)
(* The gossip of one message (core/broadcast): its origin advertises it to *)
(* its peers; a node that hears of it for the first time asks the          *)
(* advertiser for it, hands it to the subscriber of its topic, and         *)
(* advertises it in turn when the subscriber says so.  A subscriber may    *)
(* also drop the message, or mark it as sent by the wrong node.            *)
(*                                                                         *)
(* Abstractions: messages do not share anything but the ring of their      *)
(* topic (see PubSub) and the interned ids, which are taken not to wrap    *)
(* around, so one message is enough; its signature is valid; the caches    *)
(* evict nothing; a request may have timed out at any time; frames arrive  *)
(* in any order.                                                           *)
(***************************************************************************)
EXTENDS Naturals, Sequences, FiniteSets, SequencesExt

CONSTANTS Gossipers,    \* nodes
          Peers,        \* the peers each is connected to
          Origin,       \* the node that sends the message
          NoGossiper,   \* no request was sent
          MaxFrameLoss, \* frames the network loses
          MaxExtras     \* times a subscriber drops, marks or repropagates

ASSUME BroadcastAssumption ==
    /\ Origin \in Gossipers
    /\ NoGossiper \notin Gossipers
    /\ Peers \in [Gossipers -> SUBSET Gossipers]
    /\ MaxFrameLoss \in Nat
    /\ MaxExtras \in Nat

VARIABLES gossip,     \* the Context of each node, as far as it is about the message
          frames,     \* frames in flight
          frame_loss,
          extras

broadcastVars == <<gossip, frames, frame_loss, extras>>

NoQueue == <<NoGossiper>>

\* interned: the database has an id; stored: and the message; processing: who sent
\* the copies that await the subscriber; event: the subscriber has an event or will
\* find one in the ring; delivered: events so far; advertisers: the peers that
\* advertised it; pending: those that were not asked; last_request: who was asked.
FreshContext ==
    [interned |-> FALSE, stored |-> FALSE, processing |-> NoQueue, event |-> FALSE,
     delivered |-> 0, refused |-> 0, advertisers |-> {}, pending |-> {},
     last_request |-> NoGossiper]

BroadcastInit ==
    /\ gossip = [n \in Gossipers |-> FreshContext]
    /\ frames = {}
    /\ frame_loss = 0
    /\ extras = 0

Frame(kind, from, to) == [kind |-> kind, from |-> from, to |-> to]

-----------------------------------------------------------------------------
\* Peers that advertised the message are left out, unless the caller names the
\* nodes itself.
advertise(n, advertisers) ==
    {Frame("advr", n, p) : p \in Peers[n] \ advertisers}

\* Command::Send
SendMessage ==
    /\ ~gossip[Origin].stored
    /\ gossip' = [gossip EXCEPT ![Origin].interned = TRUE, ![Origin].stored = TRUE]
    /\ frames' = frames \cup advertise(Origin, gossip[Origin].advertisers)
    /\ UNCHANGED <<frame_loss, extras>>

\* Mutation: only the node that is asked at once is remembered.
AdvrFirstOnly(f) ==
    LET n == f.to
        first == ~gossip[n].interned
    IN /\ f.kind = "advr"
       /\ IF gossip[n].stored \/ ~first
          THEN gossip' = gossip /\ frames' = frames \ {f}
          ELSE /\ gossip' = [gossip EXCEPT
                    ![n].interned = TRUE,
                    ![n].advertisers = @ \cup {f.from},
                    ![n].last_request = f.from]
               /\ frames' = (frames \ {f}) \cup {Frame("want", n, f.from)}
       /\ UNCHANGED <<frame_loss, extras>>

\* The first advertisement is answered with a request, all are remembered.
handle_advr(f) ==
    LET n == f.to
        first == ~gossip[n].interned
    IN /\ f.kind = "advr"
       /\ IF gossip[n].stored
          THEN gossip' = gossip /\ frames' = frames \ {f}
          ELSE /\ gossip' = [gossip EXCEPT
                    ![n].interned = TRUE,
                    ![n].advertisers = @ \cup {f.from},
                    ![n].pending = @ \cup {f.from},
                    ![n].last_request = IF first THEN f.from ELSE @]
               /\ frames' = (frames \ {f}) \cup
                    (IF first THEN {Frame("want", n, f.from)} ELSE {})
       /\ UNCHANGED <<frame_loss, extras>>

handle_want(f) ==
    /\ f.kind = "want"
    /\ frames' = (frames \ {f}) \cup
         (IF gossip[f.to].stored THEN {Frame("message", f.to, f.from)} ELSE {})
    /\ UNCHANGED <<gossip, frame_loss, extras>>

\* Mutation: a copy that arrives while another is processed is handed over too.
MessageAlwaysDelivered(f) ==
    LET n == f.to
    IN /\ f.kind = "message"
       /\ frames' = frames \ {f}
       /\ gossip' =
            IF gossip[n].stored \/ ~gossip[n].interned THEN gossip
            ELSE [gossip EXCEPT ![n].processing = <<f.from>>,
                                ![n].event = TRUE,
                                ![n].delivered = @ + 1]
       /\ UNCHANGED <<frame_loss, extras>>

\* A copy is handed to the subscriber unless one is being processed.
handle_message(f) ==
    LET n == f.to
    IN /\ f.kind = "message"
       /\ frames' = frames \ {f}
       /\ gossip' =
            CASE gossip[n].stored \/ ~gossip[n].interned -> gossip
              [] ~gossip[n].stored /\ gossip[n].interned
                   /\ gossip[n].processing # NoQueue ->
                   [gossip EXCEPT ![n].processing = Append(@, f.from)]
              [] OTHER ->
                   [gossip EXCEPT ![n].processing = <<f.from>>,
                                  ![n].event = TRUE,
                                  ![n].delivered = @ + 1]
       /\ UNCHANGED <<frame_loss, extras>>

\* The candidates of a request: not the node that was asked last, unless it is the
\* only one.
select_request_receivers(n) ==
    LET others == gossip[n].pending \ {gossip[n].last_request}
    IN IF Cardinality(gossip[n].pending) > 1 THEN others ELSE gossip[n].pending

\* The last request has timed out, or there is none.
PendingTick(n) ==
    \E p \in select_request_receivers(n) :
       /\ gossip' = [gossip EXCEPT ![n].pending = @ \ {p}, ![n].last_request = p]
       /\ frames' = frames \cup {Frame("want", n, p)}
       /\ UNCHANGED <<frame_loss, extras>>

-----------------------------------------------------------------------------
\* remove_message of the pending store
Forget(ctx) == [ctx EXCEPT !.pending = {}, !.last_request = NoGossiper]

\* Mutation: the message is advertised without being kept.
PropagateUnstored(n) ==
    /\ gossip[n].event
    /\ gossip' = [gossip EXCEPT ![n] = Forget([@ EXCEPT !.event = FALSE,
                                                        !.processing = NoQueue])]
    /\ frames' = frames \cup advertise(n, gossip[n].advertisers)
    /\ UNCHANGED <<frame_loss, extras>>

\* Command::Propagate for the event the subscriber has.
Propagate(n) ==
    /\ gossip[n].event
    /\ gossip' = [gossip EXCEPT ![n] = Forget([@ EXCEPT !.event = FALSE,
                                                        !.stored = TRUE,
                                                        !.processing = NoQueue])]
    /\ frames' = frames \cup advertise(n, gossip[n].advertisers)
    /\ UNCHANGED <<frame_loss, extras>>

\* Command::Propagate with a filter, for a message that was propagated before.
Repropagate(n, nodes) ==
    /\ gossip[n].stored
    /\ extras < MaxExtras
    /\ extras' = extras + 1
    /\ gossip' = [gossip EXCEPT ![n] = Forget(@)]
    /\ frames' = frames \cup {Frame("advr", n, p) : p \in Peers[n] \cap nodes}
    /\ UNCHANGED frame_loss

\* Command::CleanUp: the event was dropped without a decision.
CleanUp(n) ==
    /\ gossip[n].event
    /\ extras < MaxExtras
    /\ extras' = extras + 1
    /\ gossip' = [gossip EXCEPT ![n] = Forget([@ EXCEPT !.event = FALSE,
                                                        !.refused = gossip[n].refused + 1,
                                                        !.processing = NoQueue])]
    /\ UNCHANGED <<frames, frame_loss>>

\* Command::MarkInvalidSender: the next copy is handed over.  Without one the empty
\* queue stays, and later copies are queued behind nothing.
MarkInvalidSender(n) ==
    /\ gossip[n].event
    /\ extras < MaxExtras
    /\ extras' = extras + 1
    /\ LET rest == Tail(gossip[n].processing)
       IN gossip' = [gossip EXCEPT
            ![n].processing = rest,
            ![n].refused = @ + 1,
            ![n].event = rest # <<>>,
            ![n].delivered = IF rest # <<>> THEN @ + 1 ELSE @]
    /\ UNCHANGED <<frames, frame_loss>>

LoseFrame(f) ==
    /\ frame_loss < MaxFrameLoss
    /\ frame_loss' = frame_loss + 1
    /\ frames' = frames \ {f}
    /\ UNCHANGED <<gossip, extras>>

HandleFrame(f) == handle_advr(f) \/ handle_want(f) \/ handle_message(f)

BroadcastNext ==
    \/ SendMessage
    \/ \E f \in frames : handle_advr(f)
    \/ \E f \in frames : handle_want(f)
    \/ \E f \in frames : handle_message(f)
    \/ \E n \in Gossipers : PendingTick(n)
    \/ \E n \in Gossipers : Propagate(n)
    \/ \E n \in Gossipers, nodes \in SUBSET Gossipers : Repropagate(n, nodes)
    \/ \E n \in Gossipers : CleanUp(n)
    \/ \E n \in Gossipers : MarkInvalidSender(n)
    \/ \E f \in frames : LoseFrame(f)

BroadcastSpec == BroadcastInit /\ [][BroadcastNext]_broadcastVars

\* The event loops handle what arrives, timers run, subscribers decide.
FairBroadcastSpec ==
    /\ BroadcastSpec
    /\ WF_broadcastVars(SendMessage)
    /\ WF_broadcastVars(\E f \in frames : HandleFrame(f))
    /\ \A n \in Gossipers : WF_broadcastVars(PendingTick(n))
    /\ \A n \in Gossipers : WF_broadcastVars(Propagate(n))

-----------------------------------------------------------------------------
GossipContext ==
    [interned : BOOLEAN, stored : BOOLEAN,
     processing : Seq(Gossipers \cup {NoGossiper}), event : BOOLEAN,
     delivered : Nat, refused : Nat,
     advertisers : SUBSET Gossipers, pending : SUBSET Gossipers,
     last_request : Gossipers \cup {NoGossiper}]

BroadcastTypeOK ==
    /\ gossip \in [Gossipers -> GossipContext]
    /\ frames \subseteq [kind : {"advr", "want", "message"},
                         from : Gossipers, to : Gossipers]

\* A subscriber is given the message again only after it refused it, however many
\* peers send a copy while it decides or after it has propagated the message.
DeliveredOnce ==
    \A n \in Gossipers : gossip[n].delivered <= gossip[n].refused + 1

\* Whoever is asked for the message has it: the path that logs "failed to find
\* message" is not taken.
WantsCanBeAnswered ==
    \A f \in frames : f.kind = "want" => gossip[f.to].stored

\* The event of a subscriber is of the first copy that was queued, and one that it has
\* no event of and that was not propagated, it refused.
DeliveriesCounted ==
    \A n \in Gossipers :
       /\ gossip[n].processing = NoQueue \/ gossip[n].processing \in Seq(Gossipers)
       /\ gossip[n].event => gossip[n].processing \notin {NoQueue, <<>>}
       /\ ~gossip[n].event /\ ~gossip[n].stored => gossip[n].delivered <= gossip[n].refused

\* Whoever advertises the message has it.
HoldersAdvertise ==
    /\ \A f \in frames : f.kind = "advr" => gossip[f.from].stored
    /\ \A n \in Gossipers : \A p \in gossip[n].pending : gossip[p].stored

\* A message is delivered once, and whoever is asked for it has it.
BroadcastInv ==
    /\ BroadcastTypeOK
    /\ DeliveredOnce /\ DeliveriesCounted
    /\ WantsCanBeAnswered /\ HoldersAdvertise

\* Every node is given the message, also when a frame is lost, or when subscribers
\* refuse to propagate it; only both together may cut a node off.
EveryoneHears ==
    \A n \in Gossipers \ {Origin} :
       <>(gossip[n].delivered > 0 \/ (frame_loss > 0 /\ extras > 0))
=============================================================================
