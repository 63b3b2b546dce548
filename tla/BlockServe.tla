----------------------------- MODULE BlockServe -----------------------------
(***************************************************************************)
(* The responder half of the blockstore server (core/blockstore-server):   *)
(* requests of peers are counted, refused above max_conc_res, and answered *)
(* frame by frame from the bucket.                                         *)
(*                                                                         *)
(* Abstractions: a frame is its kind and its block; reading a header or a  *)
(* proof of content that is there succeeds.  The counter is a usize, here  *)
(* of CounterSize values, and its fetch_sub wraps.                         *)
(***************************************************************************)
EXTENDS Naturals, Sequences, FiniteSets

CONSTANTS Responses,     \* requests of peers
          Asks,          \* Responses -> what is asked for, a record below
          max_conc_res,  \* of the configuration
          CounterSize,   \* values of num_responses
          MaxLeaves      \* bound on peers that close their stream

\* Content: whether its header is there, a file or a directory, its number of
\* blocks, and the blocks of a file that are not on disk (see Bucket).
Askable == [found : BOOLEAN, dir : BOOLEAN, blocks : Nat \ {0}, missing : SUBSET Nat]

\* A stream that is closed takes the counter down up to two times too often: it has
\* more values than that, as a usize has.
ASSUME ServeAssumption ==
    /\ Asks \in [Responses -> Askable]
    /\ \A r \in Responses : /\ Asks[r].missing \subseteq 0 .. Asks[r].blocks - 1
                            /\ Asks[r].dir => Asks[r].missing = {}
    /\ max_conc_res \in Nat \ {0}
    /\ MaxLeaves \in Nat
    /\ CounterSize \in Nat /\ CounterSize > 2 * max_conc_res /\ CounterSize >= 4 * MaxLeaves

VARIABLES num_responses, \* the counter
          response,      \* the tasks of handle_request
          leaves

serveVars == <<num_responses, response, leaves>>

Decremented(n) == IF n = 0 THEN CounterSize - 1 ELSE n - 1

\* The frames of a complete answer, as send_file and send_dir send them: a directory
\* begins with its prelude, a block is its proof and its chunk, the last one marked.
Prelude(a) == IF a.dir THEN 1 ELSE 0
FrameCount(a) == Prelude(a) + 2 * a.blocks + 1

FrameAt(a, i) ==
    IF i <= Prelude(a) THEN [kind |-> "prelude", block |-> 0]
    ELSE LET b == (i - Prelude(a) - 1) \div 2
         IN [kind |-> IF i = FrameCount(a) THEN "eos"
                      ELSE IF i = Prelude(a) + 2 * b + 1 THEN "proof"
                      ELSE IF b = a.blocks - 1 THEN "last" ELSE "chunk",
             block |-> b]

Frames(a) == [i \in 1 .. FrameCount(a) |-> FrameAt(a, i)]

ServeInit ==
    /\ num_responses = 0
    /\ response = [r \in Responses |->
                     [st |-> "none", next |-> 1, open |-> TRUE, got |-> <<>>,
                      rejected |-> FALSE]]
    /\ leaves = 0

\* The loop of the server: a request is counted, and refused when there are
\* max_conc_res before it.  handle_request looks the content up.
ReceiveResponse(r) ==
    /\ response[r].st = "none"
    /\ IF num_responses < max_conc_res
       THEN /\ num_responses' = num_responses + 1
            /\ response' = [response EXCEPT ![r] =
                              IF Asks[r].found THEN [@ EXCEPT !.st = "serving"]
                              ELSE [@ EXCEPT !.st = "ending", !.rejected = TRUE]]
       ELSE /\ response' = [response EXCEPT ![r].st = "refused"]
            /\ UNCHANGED num_responses
    /\ UNCHANGED leaves

IsMissing(a, frame) == frame.kind \in {"chunk", "last"} /\ frame.block \in a.missing

Frame_(r) == Frames(Asks[r])[response[r].next]
Missing_(r) == IsMissing(Asks[r], Frame_(r))

\* A frame is sent on a stream that is open.
SendFrame(r) ==
    /\ response[r].st = "serving" /\ response[r].open /\ ~Missing_(r)
    /\ response' = [response EXCEPT
                      ![r].next = @ + 1,
                      ![r].got = Append(@, Frame_(r)),
                      ![r].st = IF Frame_(r).kind = "eos" THEN "ending" ELSE @]
    /\ UNCHANGED <<num_responses, leaves>>

\* Sending fails.  A proof ends the answer and gives the slot back, a chunk gives
\* it back and goes on, the others are logged.
SendFails(r) ==
    /\ response[r].st = "serving" /\ ~response[r].open /\ ~Missing_(r)
    /\ num_responses' = IF Frame_(r).kind \in {"proof", "chunk", "last"}
                        THEN Decremented(num_responses) ELSE num_responses
    /\ response' = [response EXCEPT
                      ![r].next = @ + 1,
                      ![r].st = IF Frame_(r).kind \in {"proof", "eos"} THEN "ending" ELSE @]
    /\ UNCHANGED leaves

\* Mutation: a block that cannot be read is left out.
SkipBlock(r) ==
    /\ response[r].st = "serving" /\ Missing_(r)
    /\ response' = [response EXCEPT ![r].next = @ + 1]
    /\ UNCHANGED <<num_responses, leaves>>

\* A block that is not on disk: the request is rejected, in the middle of the
\* answer when the proof has gone out already.
BlockMissing(r) ==
    /\ response[r].st = "serving" /\ Missing_(r)
    /\ response' = [response EXCEPT
                      ![r].st = "ending",
                      ![r].rejected = response[r].open]
    /\ UNCHANGED <<num_responses, leaves>>

\* Mutation: a rejected request keeps its slot.
KeepSlot(r) ==
    /\ response[r].st = "ending"
    /\ num_responses' = IF response[r].rejected THEN num_responses ELSE Decremented(num_responses)
    /\ response' = [response EXCEPT ![r].st = "ended"]
    /\ UNCHANGED leaves

\* The end of handle_request.
EndResponse(r) ==
    /\ response[r].st = "ending"
    /\ num_responses' = Decremented(num_responses)
    /\ response' = [response EXCEPT ![r].st = "ended"]
    /\ UNCHANGED leaves

\* The peer closes the stream, or its connection ends.
PeerLeaves(r) ==
    /\ leaves < MaxLeaves
    /\ response[r].st = "serving" /\ response[r].open
    /\ response' = [response EXCEPT ![r].open = FALSE]
    /\ leaves' = leaves + 1
    /\ UNCHANGED num_responses

ServeNext ==
    \E r \in Responses :
        \/ ReceiveResponse(r) \/ SendFrame(r) \/ SendFails(r)
        \/ BlockMissing(r) \/ EndResponse(r) \/ PeerLeaves(r)

ServeSpec == ServeInit /\ [][ServeNext]_serveVars

-----------------------------------------------------------------------------
Serving == {r \in Responses : response[r].st \in {"serving", "ending"}}

Replies == [st : {"none", "serving", "ending", "ended", "refused"}, next : Nat \ {0},
            open : BOOLEAN, rejected : BOOLEAN,
            got : Seq([kind : {"prelude", "proof", "chunk", "last", "eos"}, block : Nat])]

ServeTypeOK ==
    /\ num_responses \in 0 .. CounterSize - 1
    /\ response \in [Responses -> Replies]
    /\ leaves \in 0 .. MaxLeaves

\* While the stream is open a task has sent what it has passed, it passes no block
\* that is missing, and it does not run over the end of the answer.
TasksInStep ==
    \A r \in Responses :
        LET task == response[r]
        IN /\ task.st = "none" => task.next = 1 /\ task.open
           /\ task.st = "serving" => task.next <= FrameCount(Asks[r])
           /\ task.open /\ task.st \in {"none", "serving"} => Len(task.got) = task.next - 1
           /\ Len(task.got) < task.next
           /\ \A i \in 1 .. task.next - 1 :
                i <= FrameCount(Asks[r]) /\ ~IsMissing(Asks[r], Frames(Asks[r])[i])

\* A peer that reads the end of the stream has every proof and every block before
\* it, in order, the last one marked; otherwise it has a prefix and can tell.
EosMeansWhole ==
    \A r \in Responses :
        LET got == response[r].got
        IN /\ \A i \in DOMAIN got : i <= FrameCount(Asks[r]) /\ got[i] = Frames(Asks[r])[i]
           /\ Asks[r].missing # {} => Len(got) < FrameCount(Asks[r])

\* The tasks whose stream is closed and that will still give a slot back too often,
\* and the ones among them that will twice: a chunk does and goes on to a proof.
Overdrawing == {r \in Responses : /\ response[r].st = "serving" /\ ~response[r].open
                                  /\ Frame_(r).kind # "eos"}
OverdrawingTwice == {r \in Overdrawing : Frame_(r).kind = "chunk"}

\* The counter is the number of tasks less what was given back too often, as a number
\* that wraps: at most two for each stream that was closed.
SlotsBalance ==
    /\ IsFiniteSet(Serving)
    /\ \E over \in 0 .. 2 * leaves :
         /\ \/ num_responses + over = Cardinality(Serving)
            \/ num_responses + over = Cardinality(Serving) + CounterSize
         /\ over + Cardinality(Overdrawing) + Cardinality(OverdrawingTwice) <= 2 * leaves

\* No slot is lost: whatever the answers that were rejected or broken off, at most
\* the ones in progress are counted, read as a signed number.
NoSlotLost ==
    num_responses < CounterSize \div 2 => num_responses <= Cardinality(Serving)

\* The answers and the slots they give back.
ServeInv == ServeTypeOK /\ TasksInStep /\ EosMeansWhole /\ SlotsBalance /\ NoSlotLost

\* What the configuration says of max_conc_res: the maximum number of concurrent
\* peer requests we respond to.
AtMostMaxResponses == Cardinality(Serving) <= max_conc_res
=============================================================================
