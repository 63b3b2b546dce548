----------------------------- MODULE Handshake -------------------------------
(***************************************************************************)
(* The proxy of one client connection to a service (core/handshake): it    *)
(* relays between the service's socket and a primary and a secondary       *)
(* transport of the client, which come, go and are replaced while payloads *)
(* are on their way.  Context::handle_new_connection hands a new transport *)
(* to the proxy through a channel of one place.                            *)
(*                                                                         *)
(* Transports are numbered; 1 is the primary the connection starts with.   *)
(* A payload of n units is its header and n bytes in the socket, and each  *)
(* is read by a step of its own, so any split into reads is covered.       *)
(* Context.connections is a lock: a dial holds it for reading until its    *)
(* send is done, extending the access token and cleaning up need it for    *)
(* writing.                                                                *)
(***************************************************************************)
EXTENDS Naturals, Sequences, FiniteSets

CONSTANTS Lengths,     \* sizes of payloads
          MaxPayloads, \* bound: payloads the service sends
          MaxTransports, \* bound: transports after the first
          MaxClientFrames \* bound: frames the clients send, besides the payloads

ASSUME HandshakeAssumption ==
    /\ Lengths \subseteq Nat
    /\ MaxPayloads \in Nat /\ MaxTransports \in Nat /\ MaxClientFrames \in Nat

VARIABLES pc,               \* where Proxy::run is
          asker,            \* the transport that asks for a token, 0: extend only
          primary, secondary, \* State: the transports in use, 0 for none
          current_write, discard_bytes,
          is_primary_the_current_sender,
          queued_primary_response,
          socket, payloads, \* what the service wrote, the unread part and how many
          service_up,
          mode,             \* transport -> how it was dialed
          dialing,          \* dials that wait for a place in the channel
          connection_rx,
          entry,            \* the connection is in Context.connections,
          extended,         \* and its access token was extended
          gone,             \* transports whose client has left
          client,           \* transport -> frames its client has received
          client_frames     \* frames the clients have sent

writeVars == <<current_write, discard_bytes, is_primary_the_current_sender>>
stateVars == <<primary, secondary>>
serviceVars == <<socket, payloads, service_up>>
dialVars == <<mode, dialing, connection_rx, entry, extended>>
handshakeVars == <<pc, asker, stateVars, writeVars, queued_primary_response,
                   serviceVars, dialVars, gone, client, client_frames>>

Transports == 1..MaxTransports + 1
Start(k, n) == [kind |-> "start", of |-> k, len |-> n]
Byte(k) == [kind |-> "byte", of |-> k, len |-> 0]
Token(t) == [kind |-> "token", of |-> t, len |-> 0]
End == [kind |-> "end", of |-> 0, len |-> 0]
ProxyFrame == [kind : {"start", "byte", "token", "end"}, of : Nat, len : Nat]

HandshakeTypeOK ==
    /\ pc \in {"select", "extend", "cleanup", "done"}
    /\ asker \in Transports \cup {0}
    /\ primary \in Transports \cup {0} /\ secondary \in Transports \cup {0}
    /\ current_write \in Nat
    /\ discard_bytes \in BOOLEAN /\ is_primary_the_current_sender \in BOOLEAN
    /\ queued_primary_response \in Seq(Transports)
    /\ socket \in Seq(ProxyFrame) /\ payloads \in 0..MaxPayloads /\ service_up \in BOOLEAN
    /\ mode \in [Transports -> {"new", "primary", "secondary"}]
    /\ dialing \subseteq Transports
    /\ connection_rx \in Seq(Transports) /\ Len(connection_rx) <= 1
    /\ entry \in BOOLEAN /\ extended \in BOOLEAN
    /\ gone \subseteq Transports
    /\ client \in [Transports -> Seq(ProxyFrame)]
    /\ client_frames \in 0..MaxClientFrames

\* handle_new_connection without retry: the proxy runs with the first primary.
HandshakeInit ==
    /\ pc = "select" /\ asker = 0
    /\ primary = 1 /\ secondary = 0
    /\ current_write = 0 /\ discard_bytes = FALSE
    /\ is_primary_the_current_sender = FALSE
    /\ queued_primary_response = <<>>
    /\ socket = <<>> /\ payloads = 0 /\ service_up = TRUE
    /\ mode = [t \in Transports |-> IF t = 1 THEN "primary" ELSE "new"]
    /\ dialing = {} /\ connection_rx = <<>> /\ entry = TRUE /\ extended = FALSE
    /\ gone = {} /\ client = [t \in Transports |-> <<>>] /\ client_frames = 0

-----------------------------------------------------------------------------
\* The service and the clients.

ServiceWrites(n) ==
    /\ service_up /\ payloads < MaxPayloads
    /\ payloads' = payloads + 1
    /\ socket' = socket \o <<Start(payloads + 1, n)>>
                        \o [i \in 1..n |-> Byte(payloads + 1)]
    /\ UNCHANGED <<pc, asker, stateVars, writeVars, queued_primary_response,
                   service_up, dialVars, gone, client, client_frames>>

ServiceEnds ==
    /\ service_up
    /\ service_up' = FALSE
    /\ UNCHANGED <<pc, asker, stateVars, writeVars, queued_primary_response,
                   socket, payloads, dialVars, gone, client, client_frames>>

ClientLeaves(t) ==
    /\ mode[t] # "new" /\ t \notin gone
    /\ gone' = gone \cup {t}
    /\ UNCHANGED <<pc, asker, stateVars, writeVars, queued_primary_response,
                   serviceVars, dialVars, client, client_frames>>

\* A client that has left receives nothing.
Send(log, t, fs) == IF t \in gone THEN log ELSE [log EXCEPT ![t] = @ \o fs]

-----------------------------------------------------------------------------
\* Context::handle_new_connection

\* A retry of the primary, or a join with the access token.  Without an entry,
\* or with a token that was never extended, the transport is terminated.
DialProxy(t, m) ==
    /\ mode[t] = "new" /\ \A u \in Transports : u < t => mode[u] # "new"
    /\ mode' = [mode EXCEPT ![t] = m]
    /\ IF entry /\ (m = "secondary" => extended)
         THEN dialing' = dialing \cup {t} /\ UNCHANGED client
         ELSE client' = Send(client, t, <<End>>) /\ UNCHANGED dialing
    /\ UNCHANGED <<pc, asker, stateVars, writeVars, queued_primary_response,
                   serviceVars, connection_rx, entry, extended, gone, client_frames>>

SendDial(t) ==
    /\ t \in dialing /\ connection_rx = <<>>
    /\ connection_rx' = <<t>>
    /\ dialing' = dialing \ {t}
    /\ UNCHANGED <<pc, asker, stateVars, writeVars, queued_primary_response,
                   serviceVars, mode, entry, extended, gone, client, client_frames>>

-----------------------------------------------------------------------------
\* Proxy::run

Both == primary # 0 /\ secondary # 0
Connected == primary # 0 \/ secondary # 0

\* Every branch that loses or replaces a transport: the bytes left of the
\* payload that was going to it are garbage.
DropPrimary ==
    /\ primary' = 0 /\ UNCHANGED secondary
    /\ discard_bytes' = (discard_bytes \/ (Both => is_primary_the_current_sender))
    /\ queued_primary_response' = <<>>
    /\ UNCHANGED <<current_write, is_primary_the_current_sender>>

DropSecondary ==
    /\ secondary' = 0 /\ UNCHANGED primary
    /\ discard_bytes' = (discard_bytes \/ (Both => ~is_primary_the_current_sender))
    /\ queued_primary_response' = IF Both THEN queued_primary_response ELSE <<>>
    /\ UNCHANGED <<current_write, is_primary_the_current_sender>>

DropTransport(t) == IF t = primary THEN DropPrimary ELSE DropSecondary

\* maybe_flush_primary_queue: not in the middle of a payload to the primary.
Flushes == \/ Both /\ ~is_primary_the_current_sender
           \/ current_write = 0
           \/ discard_bytes
Flushed(queue) == Send(client, primary, [i \in DOMAIN queue |-> Token(queue[i])])

\* sender.terminate on the transports in use.
EndOfAll ==
    [t \in Transports |->
       IF t \in {primary, secondary} \ gone THEN Append(client[t], End) ELSE client[t]]

\* A frame of the client: only payloads to the service are free of effects here.
ServicePayload(t) ==
    /\ pc = "select" /\ t \in {primary, secondary} \ ({0} \cup gone)
    /\ client_frames < MaxClientFrames /\ client_frames' = client_frames + 1
    /\ IF service_up
         THEN /\ IF t = primary /\ Flushes
                   THEN /\ client' = Flushed(queued_primary_response)
                        /\ queued_primary_response' = <<>>
                   ELSE UNCHANGED <<client, queued_primary_response>>
              /\ UNCHANGED pc
         ELSE /\ client' = EndOfAll
              /\ pc' = "cleanup"
              /\ UNCHANGED queued_primary_response
    /\ UNCHANGED <<asker, stateVars, writeVars, serviceVars, dialVars, gone>>

\* AccessToken (answered) and ExtendAccessToken of the primary: on to the lock.
RequestToken(answered) ==
    /\ pc = "select" /\ primary \notin {0} \cup gone
    /\ client_frames < MaxClientFrames /\ client_frames' = client_frames + 1
    /\ pc' = "extend" /\ asker' = IF answered THEN primary ELSE 0
    /\ UNCHANGED <<stateVars, writeVars, queued_primary_response, serviceVars,
                   dialVars, gone, client>>

\* extend_access_token has the lock; the response is sent now or queued.
ExtendToken ==
    /\ pc = "extend" /\ dialing = {}
    /\ pc' = "select" /\ asker' = 0 /\ extended' = TRUE
    /\ LET queue == IF asker = 0 THEN queued_primary_response
                                 ELSE Append(queued_primary_response, asker)
       IN IF Flushes
            THEN client' = Flushed(queue) /\ queued_primary_response' = <<>>
            ELSE queued_primary_response' = queue /\ UNCHANGED client
    /\ UNCHANGED <<stateVars, writeVars, serviceVars, mode, dialing, connection_rx,
                   entry, gone, client_frames>>

\* A frame the transport may not send: a token request of the secondary, or a
\* delivery acknowledgment.
WrongFrame(t) ==
    /\ pc = "select" /\ t \in {primary, secondary} \ ({0} \cup gone)
    /\ client_frames < MaxClientFrames /\ client_frames' = client_frames + 1
    /\ DropTransport(t)
    /\ UNCHANGED <<pc, asker, serviceVars, dialVars, gone, client>>

\* receiver.recv() returns None.
ReceiverEnds(t) ==
    /\ pc = "select" /\ t \in ({primary, secondary} \ {0}) \cap gone
    /\ DropTransport(t)
    /\ UNCHANGED <<pc, asker, serviceVars, dialVars, gone, client, client_frames>>

\* connection_rx.recv(): a transport of a mode in use replaces the old one.
\* Mutation: the tokens queued for the old primary stay.
ReplaceKeepsQueue(t) ==
    /\ primary' = t /\ UNCHANGED secondary
    /\ discard_bytes' = (discard_bytes \/ (Both => is_primary_the_current_sender))
    /\ UNCHANGED queued_primary_response

ReplacePrimary(t) ==
    /\ primary' = t /\ UNCHANGED secondary
    /\ discard_bytes' = (discard_bytes \/ (Both => is_primary_the_current_sender))
    /\ queued_primary_response' = <<>>

ReplaceSecondary(t) ==
    /\ secondary' = t /\ UNCHANGED primary
    /\ discard_bytes' = (discard_bytes \/ (Both => ~is_primary_the_current_sender))
    /\ UNCHANGED queued_primary_response

\* Mutation: the newcomer is taken for the receiver of the current payload.
SenderIsNewcomer(t) == mode[t] = "primary"

\* The transport that was alone remains the sender of the current payload.
SenderRemains(t) == mode[t] = "secondary"

Joins(t) ==
    /\ IF mode[t] = "primary" THEN primary' = t /\ UNCHANGED secondary
                              ELSE secondary' = t /\ UNCHANGED primary
    /\ is_primary_the_current_sender' =
         IF Connected THEN SenderRemains(t) ELSE is_primary_the_current_sender
    /\ UNCHANGED <<discard_bytes, queued_primary_response, client>>

AcceptConnection ==
    /\ pc = "select" /\ connection_rx # <<>>
    /\ connection_rx' = <<>>
    /\ LET t == Head(connection_rx) IN
         CASE mode[t] = "primary" /\ primary # 0 ->
                /\ ReplacePrimary(t)
                /\ client' = IF Both THEN client ELSE EndOfAll
                /\ UNCHANGED is_primary_the_current_sender
           [] mode[t] = "secondary" /\ secondary # 0 ->
                /\ ReplaceSecondary(t)
                /\ client' = IF Both THEN client ELSE EndOfAll
                /\ UNCHANGED is_primary_the_current_sender
           [] OTHER -> Joins(t)
    /\ UNCHANGED <<pc, asker, current_write, serviceVars, mode, dialing, entry,
                   extended, gone, client_frames>>

\* A header: the queue of the primary is flushed before start_write on the
\* secondary, if there is one.
ReadHeader ==
    /\ pc = "select" /\ Connected /\ socket # <<>> /\ current_write = 0
    /\ socket' = Tail(socket)
    /\ current_write' = Head(socket).len
    /\ discard_bytes' = FALSE /\ is_primary_the_current_sender' = FALSE
    /\ LET flushed == IF primary = 0 THEN client ELSE Flushed(queued_primary_response)
       IN client' = Send(flushed, IF secondary # 0 THEN secondary ELSE primary,
                         <<Head(socket)>>)
    /\ queued_primary_response' = IF primary = 0 THEN queued_primary_response ELSE <<>>
    /\ UNCHANGED <<pc, asker, stateVars, payloads, service_up, dialVars, gone,
                   client_frames>>

\* The transport that the bytes of the current payload go to.
Sender == IF primary # 0 /\ (secondary = 0 \/ is_primary_the_current_sender)
            THEN primary ELSE secondary

\* A byte is written to the sender, or discarded.
ReadByte ==
    /\ pc = "select" /\ Connected /\ socket # <<>> /\ current_write > 0
    /\ socket' = Tail(socket)
    /\ current_write' = current_write - 1
    /\ client' = IF discard_bytes THEN client ELSE Send(client, Sender, <<Head(socket)>>)
    /\ UNCHANGED <<pc, asker, stateVars, discard_bytes, is_primary_the_current_sender,
                   queued_primary_response, payloads, service_up, dialVars, gone,
                   client_frames>>

\* The write to a client that has left fails.
WriteFails ==
    /\ pc = "select" /\ Connected /\ socket # <<>> /\ current_write > 0
    /\ ~discard_bytes /\ Sender \in gone
    /\ socket' = Tail(socket)
    /\ current_write' = current_write - 1
    /\ discard_bytes' = TRUE
    /\ IF Sender = primary THEN primary' = 0 /\ UNCHANGED secondary
                           ELSE secondary' = 0 /\ UNCHANGED primary
    /\ queued_primary_response' =
         IF Both /\ Sender = secondary THEN queued_primary_response ELSE <<>>
    /\ UNCHANGED <<pc, asker, is_primary_the_current_sender, payloads, service_up,
                   dialVars, gone, client, client_frames>>

\* The socket is at its end.
ServiceEnded ==
    /\ pc = "select" /\ Connected /\ socket = <<>> /\ ~service_up
    /\ client' = EndOfAll
    /\ pc' = "cleanup"
    /\ UNCHANGED <<asker, stateVars, writeVars, queued_primary_response, serviceVars,
                   dialVars, gone, client_frames>>

\* run_with_no_connection gives up.
NoConnectionTimeout ==
    /\ pc = "select" /\ ~Connected /\ connection_rx = <<>>
    /\ pc' = "cleanup"
    /\ UNCHANGED <<asker, stateVars, writeVars, queued_primary_response, serviceVars,
                   dialVars, gone, client, client_frames>>

\* Drop for Proxy has the lock; the channel and what is in it are dropped.
CleanUpConnection ==
    /\ pc = "cleanup" /\ dialing = {}
    /\ pc' = "done"
    /\ entry' = FALSE /\ connection_rx' = <<>>
    /\ primary' = 0 /\ secondary' = 0 /\ queued_primary_response' = <<>>
    /\ UNCHANGED <<asker, writeVars, serviceVars, mode, dialing,
                   extended, gone, client, client_frames>>

-----------------------------------------------------------------------------
HandshakeNext ==
    \/ ServiceEnds \/ ExtendToken \/ AcceptConnection \/ ReadHeader \/ ReadByte
    \/ WriteFails \/ ServiceEnded \/ NoConnectionTimeout \/ CleanUpConnection
    \/ \E n \in Lengths : ServiceWrites(n)
    \/ \E answered \in BOOLEAN : RequestToken(answered)
    \/ \E t \in Transports :
         \/ ClientLeaves(t) \/ SendDial(t) \/ ServicePayload(t)
         \/ WrongFrame(t) \/ ReceiverEnds(t)
         \/ \E m \in {"primary", "secondary"} : DialProxy(t, m)

HandshakeSpec == HandshakeInit /\ [][HandshakeNext]_handshakeVars

\* The runtime polls the proxy and every dial again when it can go on, and
\* tokio::select! picks at random among the branches that are ready.
FairHandshakeSpec ==
    /\ HandshakeSpec
    /\ WF_handshakeVars(ExtendToken) /\ SF_handshakeVars(AcceptConnection)
    /\ WF_handshakeVars(CleanUpConnection)
    /\ \A t \in Transports : SF_handshakeVars(SendDial(t))

-----------------------------------------------------------------------------
\* In what a client receives nothing comes between the start of a payload and its
\* last byte (only a termination may cut it), and no byte without its start.
PayloadsInLog(log) ==
    \A i \in DOMAIN log :
        /\ log[i].kind = "start" =>
             \A j \in i + 1..i + log[i].len :
                 j <= Len(log) => \/ log[j] = Byte(log[i].of)
                                  \/ log[j] = End /\ j = Len(log)
        /\ log[i].kind = "byte" =>
             \E j \in 1..i - 1 : log[j].kind = "start" /\ log[j].of = log[i].of
                                   /\ i - j <= log[j].len

\* A client receives a payload whole and in one piece, whichever transports come
\* and go meanwhile; and no payload starts on two transports (proxy.rs:33,
\* proxy.rs:39).
PayloadsWhole ==
    /\ \A t \in Transports : PayloadsInLog(client[t])
    /\ \A t, u \in Transports : \A i \in DOMAIN client[t], j \in DOMAIN client[u] :
         /\ client[t][i].kind = "start" /\ client[u][j].kind = "start"
         /\ client[t][i].of = client[u][j].of
         => t = u /\ i = j

\* An access token reaches only the primary that asked for it, and is never
\* queued for one that has been lost or replaced (proxy.rs:44).
TokensToAsker ==
    /\ \A t \in Transports : \A i \in DOMAIN client[t] :
         client[t][i].kind = "token" => client[t][i].of = t
    /\ \A i \in DOMAIN queued_primary_response : queued_primary_response[i] = primary
    /\ pc = "extend" => primary # 0 /\ asker \in {0, primary}

\* The unread part of the socket is the rest of the payload that is being relayed
\* and then whole payloads.
SocketWhole ==
    /\ current_write <= Len(socket)
    /\ \A i \in 1..current_write : socket[i] = Byte(socket[1].of)
    /\ current_write < Len(socket) => socket[current_write + 1].kind = "start"
    /\ \A i \in DOMAIN socket : socket[i].kind = "start" =>
         /\ i + socket[i].len <= Len(socket)
         /\ \A j \in i + 1..i + socket[i].len : socket[j] = Byte(socket[i].of)
         /\ i + socket[i].len < Len(socket) => socket[i + socket[i].len + 1].kind = "start"

\* No payload that is still to be read has been started, and none is there twice.
UnreadIsFresh ==
    /\ \A i \in DOMAIN socket : socket[i].kind = "start" => socket[i].of <= payloads
    /\ \A i, j \in DOMAIN socket :
         socket[i].kind = "start" /\ socket[j].kind = "start" /\ socket[i].of = socket[j].of
         => i = j
    /\ \A t \in Transports : \A i \in DOMAIN client[t] :
         client[t][i].kind = "start" =>
           /\ client[t][i].of <= payloads
           /\ \A j \in DOMAIN socket :
                socket[j].kind = "start" => socket[j].of # client[t][i].of

\* A transport has one place: new, dialing, in the channel or in use in its mode.
\* Its client has received nothing before it is in use.
TransportsPlaced ==
    /\ primary # 0 => mode[primary] = "primary"
    /\ secondary # 0 => mode[secondary] = "secondary"
    /\ \A t \in Transports :
         \/ mode[t] = "new"
         \/ t \in dialing
         \/ connection_rx = <<t>>
         => client[t] = <<>> /\ t \notin {primary, secondary}
    /\ \A t \in dialing : mode[t] # "new" /\ connection_rx # <<t>>
    /\ \A t \in Transports : connection_rx = <<t>> => mode[t] # "new"

Complete(log) == \A i \in DOMAIN log : log[i].kind = "start" => i + log[i].len <= Len(log)

\* All but the last n bytes of payload k are there, and nothing else is missing.
Lacks(log, k, n) ==
    \E i \in DOMAIN log :
        /\ log[i].kind = "start" /\ log[i].of = k /\ i + log[i].len = Len(log) + n
        /\ \A j \in DOMAIN log :
             log[j].kind = "start" /\ j # i => j + log[j].len <= Len(log)

Relaying == pc \in {"select", "extend"}
Receives(t) == current_write > 0 /\ ~discard_bytes /\ t = Sender

\* Of the transports in use, the one the current payload goes to lacks exactly
\* what is still to be read of it, unless the rest is discarded; the others lack
\* nothing.
LogsFollowWrite ==
    Relaying =>
      /\ ~Connected => current_write = 0 \/ discard_bytes
      /\ \A t \in {primary, secondary} \ ({0} \cup gone) :
           /\ \A i \in DOMAIN client[t] : client[t][i].kind # "end"
           /\ Receives(t) => Lacks(client[t], socket[1].of, current_write)
           /\ ~Receives(t) => Complete(client[t])

\* What the service writes and the tokens asked for reach whom they are meant for,
\* whole, whichever transports join, leave or replace one another.
HandshakeInv ==
    /\ HandshakeTypeOK
    /\ PayloadsWhole /\ TokensToAsker
    /\ SocketWhole /\ UnreadIsFresh /\ TransportsPlaced /\ LogsFollowWrite

\* proxy.rs:209: "Drop the previous connection if a new attempt is being made to
\* reuse the same connection mode".  Every attempt that reached the connection
\* is handed to the proxy, or the connection ends.
AttemptsTaken == \A t \in Transports : t \in dialing ~> t \notin dialing
==============================================================================
