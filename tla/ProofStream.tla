----------------------------- MODULE ProofStream -----------------------------
(***************************************************************************)
(* The proofs that go with the blocks of a content (lib/b3fs, stream): the *)
(* walk through the hash tree that picks the nodes of a proof, the packed  *)
(* encoding of the proof, and the incremental verifier which a node feeds  *)
(* with the proofs and blocks an untrusted peer sends.                     *)
(*                                                                         *)
(* Abstractions: a digest stands for the blocks below it, so that merging  *)
(* two digests that are not neighbours of a tree gives a digest of nothing;*)
(* a block is its number, and the digest of a block is never one of a      *)
(* parent (blake3 separates the two).  The writers use the collecting      *)
(* verifier; the other one may start at any block.                         *)
(***************************************************************************)
EXTENDS Naturals, Sequences, FiniteSets, FiniteSetsExt, SequencesExt

CONSTANTS MaxBlocks,  \* bound: blocks of the content that is streamed
          WalkSizes,  \* sizes of trees whose walks are compared
          RawLengths, \* lengths in bytes of buffers that are no proof at all
          MaxFed      \* bound: proofs that are fed

ASSUME ProofStreamAssumption == MaxBlocks \in Nat \ {0} /\ MaxFed \in Nat

VARIABLES num_blocks,  \* of the content
          collect,     \* the verifier collects the tree
          verifier,    \* IncrementalVerifier
          accepted,    \* blocks it has accepted
          fed,
          panicked,    \* length of the proof that feed_proof panicked on, or 0
          pop_failed   \* advance popped an empty stack

streamVars == <<num_blocks, collect, verifier, accepted, fed, panicked, pop_failed>>

-----------------------------------------------------------------------------
\* utils.rs

count_ones[n \in Nat] == IF n = 0 THEN 0 ELSE (n % 2) + count_ones[n \div 2]

trailing_zeros[n \in Nat] == IF n % 2 = 1 THEN 0 ELSE 1 + trailing_zeros[n \div 2]

next_power_of_two[n \in Nat] ==
    IF n <= 1 THEN 1 ELSE 2 * next_power_of_two[(n + 1) \div 2]

previous_pow_of_two(n) == next_power_of_two[n] \div 2

\* usize::BITS less the leading zeros.
bits[n \in Nat] == IF n = 0 THEN 0 ELSE 1 + bits[n \div 2]

tree_index(block) == 2 * block - count_ones[block]

SegmentSize == 32 * 8 + 1

\* Mutation: a proof of one hash passes.
ValidForOneHash(n) ==
    LET s == n % SegmentSize
    IN s = 0 \/ (s - 1) % 32 = 0

is_valid_proof_len(n) ==
    LET s == n % SegmentSize
    IN s = 0 \/ (n > 64 /\ (s - 1) % 32 = 0)

-----------------------------------------------------------------------------
(* Digests and trees.                                                      *)

Digest(lo, size, root) == [lo |-> lo, size |-> size, root |-> root]

NoDigest == Digest(0, 0, FALSE)

\* The digest of a block: the only block of a content is its root.
BlockDigest(b, n) == Digest(b, 1, n = 1)

\* iv.merge: the first block of the right is the one after the left, and the left
\* has the largest power of two of blocks that leaves some for the right.
merge(left, right, root) ==
    IF /\ left.size > 0 /\ right.size > 0 /\ ~left.root /\ ~right.root
       /\ left.lo + left.size = right.lo
       /\ left.size = previous_pow_of_two(left.size + right.size)
    THEN Digest(left.lo, left.size + right.size, root)
    ELSE NoDigest

\* The array of a tree over `size` blocks from block lo, of n in all: children
\* before their parent.
PostOrder(n) ==
    LET array[lo \in 0 .. n, size \in 1 .. n] ==
          LET left == previous_pow_of_two(size)
          IN IF size = 1 THEN <<BlockDigest(lo, n)>>
             ELSE array[lo, left] \o array[lo + left, size - left]
                    \o <<Digest(lo, size, size = n)>>
    IN array[0, n]

-----------------------------------------------------------------------------
(* TreeWalker.                                                             *)

NoWalker == [target |-> 0, current |-> 0, subtree_size |-> 0]

InitialWalker(target, tree_len) ==
    IF tree_len <= 1 \/ tree_index(target) > tree_len - 1 THEN NoWalker
    ELSE [target |-> tree_index(target), current |-> tree_len - 1,
          subtree_size |-> (tree_len + 2) \div 2]

\* Mutation: a later block is walked to from the root again.
ProceedFromRoot(target, tree_len) == InitialWalker(target, tree_len)

ProceedingWalker(target, tree_len) ==
    LET size == Min({2 ^ trailing_zeros[target], (tree_len + 2) \div 2 - target})
    IN IF tree_index(target) >= tree_len \/ tree_len < 3 \/ size <= 1 THEN NoWalker
       ELSE [target |-> tree_index(target), current |-> tree_index(target) + 2 * size - 2,
             subtree_size |-> size]

\* All that TreeWalker::next returns, from the top down.
Walk(walker) ==
    LET steps[current \in Nat, size \in Nat] ==
          LET left_size == previous_pow_of_two(size)
              right_size == size - left_size
              left == current - (right_size * 2 - 1) - 1
              right == current - 1
          IN IF size = 0 \/ walker.target > current THEN <<>>
             ELSE IF current = walker.target
             THEN <<[direction |-> "target", index |-> current]>>
             ELSE IF left >= walker.target
             THEN <<[direction |-> "right", index |-> right]>> \o steps[left, left_size]
             ELSE <<[direction |-> "left", index |-> left]>> \o steps[right, right_size]
    IN steps[walker.current, walker.subtree_size]

\* Mutation: the block itself is not counted.
SizeHintLow(walker) == IF walker.subtree_size = 0 THEN 0 ELSE bits[walker.subtree_size - 1]

\* size_hint: the number of bits of one less than the size, and one.
size_hint(walker) ==
    IF walker.subtree_size = 0 THEN 0
    ELSE bits[walker.subtree_size - 1] + 1

-----------------------------------------------------------------------------
(* ProofEncoder and ProofBufIter: segments of eight digests behind a sign  *)
(* byte, filled from the back.                                             *)

EmptyEncoder == [size |-> 0, segments |-> <<>>]

insert_proof(encoder, item) ==
    LET bit == IF item.direction = "left" THEN 2 ^ (encoder.size % 8) ELSE 0
        open == encoder.size % 8 # 0
        first == IF open THEN Head(encoder.segments) ELSE [sign |-> 0, hashes |-> <<>>]
    IN [size |-> encoder.size + 1,
        segments |-> <<[sign |-> first.sign + bit,
                        hashes |-> <<item.hash>> \o first.hashes]>>
                     \o (IF open THEN Tail(encoder.segments) ELSE encoder.segments)]

finalize_proof(encoder) ==
    IF encoder.size % 8 = 0 THEN encoder.segments
    ELSE [encoder.segments EXCEPT ![1].sign = @ * 2 ^ (8 - (encoder.size % 8))]

\* The sign bits are read from the highest down.
ReadSegment(segment) ==
    [i \in DOMAIN segment.hashes |->
       [flip |-> (segment.sign \div 2 ^ (8 - i)) % 2 = 1, hash |-> segment.hashes[i]]]

ReadProof(segments) == FoldLeft(LAMBDA items, s : items \o ReadSegment(s), <<>>, segments)

\* ProofBuf::new and what its receiver reads.
generate_proof(walker, tree) ==
    ReadProof(finalize_proof(
      FoldLeft(LAMBDA e, step : insert_proof(e, [direction |-> step.direction,
                                                 hash |-> tree[step.index + 1]]),
               EmptyEncoder, Walk(walker))))

Proof(initial, block, n) ==
    generate_proof(IF initial THEN InitialWalker(block, 2 * n - 1)
                   ELSE ProceedingWalker(block, 2 * n - 1), PostOrder(n))

\* Hashes that ProofBufIter yields from a buffer of n bytes: it stops at an empty
\* segment.
HashesRead(n) ==
    LET first == IF n % SegmentSize = 0 THEN SegmentSize ELSE n % SegmentSize
    IN IF n = 0 \/ first = 1 THEN 0
       ELSE (first - 1) \div 32 + 8 * ((n - first) \div SegmentSize)

-----------------------------------------------------------------------------
(* IncrementalVerifier.                                                    *)

NewVerifier(n) ==
    [stack |-> <<Digest(0, n, TRUE)>>, parent_count |-> 0, counter |-> 0, tree |-> <<>>]

is_finished(v, coll) ==
    IF coll THEN Len(v.stack) = v.parent_count ELSE v.stack = <<>>

is_root(v, coll) ==
    Len(v.stack) = 1 /\ IF coll THEN v.counter = 0 ELSE v.parent_count = 0

\* Mutation: a digest on the left is taken while the tree is collected.
FlipWhileCollecting(acc, item, coll) ==
    LET full == Len(acc.pair) = 2
        top == IF full THEN <<merge(acc.pair[1], acc.pair[2], FALSE)>> ELSE acc.pair
        pushed == IF full /\ coll THEN Append(acc.stack, top[1]) ELSE acc.stack
        count == IF full /\ coll THEN acc.count + 1 ELSE acc.count
    IN IF ~acc.ok THEN acc
       ELSE IF item.flip
       THEN [acc EXCEPT !.ok = top # <<>>, !.pair = <<item.hash>> \o top,
                        !.stack = pushed, !.count = count]
       ELSE [acc EXCEPT !.pair = Append(top, item.hash),
                        !.stack = Append(pushed, item.hash), !.count = count]

\* The loop of feed_proof_internal; `pair` is its stack of two.
FeedItem(acc, item, coll) ==
    LET full == Len(acc.pair) = 2
        top == IF full THEN <<merge(acc.pair[1], acc.pair[2], FALSE)>> ELSE acc.pair
        pushed == IF full /\ coll THEN Append(acc.stack, top[1]) ELSE acc.stack
        count == IF full /\ coll THEN acc.count + 1 ELSE acc.count
    IN IF ~acc.ok THEN acc
       ELSE IF item.flip
       THEN [acc EXCEPT !.ok = ~coll /\ top # <<>>, !.pair = <<item.hash>> \o top,
                        !.stack = pushed, !.count = count]
       ELSE [acc EXCEPT !.pair = Append(top, item.hash),
                        !.stack = Append(pushed, item.hash), !.count = count]

\* feed_proof: the verifier after a proof that fits, else the one it was.
feed_proof(v, coll, proof) ==
    LET expected == Last(v.stack)
        old == IF coll THEN v.stack ELSE Front(v.stack)
        acc == FoldLeft(LAMBDA a, item : FeedItem(a, item, coll),
                        [ok |-> TRUE, pair |-> <<>>, stack |-> <<>>,
                         count |-> v.parent_count], proof)
    IN IF /\ ~is_finished(v, coll)
          /\ Len(proof) >= 2
          /\ acc.ok
          /\ merge(acc.pair[1], acc.pair[2], is_root(v, coll)) = expected
       THEN [v EXCEPT !.stack = old \o Reverse(acc.stack),
                      !.parent_count = IF coll THEN acc.count + 1 ELSE 1]
       ELSE v

\* What VerifierCollector::advance pops: the block, and for the collector every
\* subtree that the block completes.
Popped(v, coll) == IF coll THEN 1 + trailing_zeros[v.counter + 1] ELSE 1

\* verify_hash, for a digest that is the expected one.
advance(v, coll) ==
    LET rest == SubSeq(v.stack, 1, Len(v.stack) - Popped(v, coll))
        taken == SubSeq(v.stack, Len(rest) + 1, Len(v.stack))
    IN IF coll
       THEN [stack |-> rest, counter |-> v.counter + 1, tree |-> v.tree \o Reverse(taken),
             parent_count |-> v.parent_count + 1 - Len(taken)]
       ELSE [v EXCEPT !.stack = rest]

-----------------------------------------------------------------------------
StreamInit ==
    /\ num_blocks \in 1 .. MaxBlocks
    /\ collect \in BOOLEAN
    /\ verifier = NewVerifier(num_blocks)
    /\ accepted = <<>>
    /\ fed = 0
    /\ panicked = 0
    /\ pop_failed = FALSE

TreeNodes(n) == Range(PostOrder(n)) \cup {NoDigest}

\* Proofs of other blocks, of the other mode, with one sign or digest changed or
\* one item missing, and any two digests.
SentProofs(n) ==
    LET honest == {Proof(initial, b, n) : initial \in BOOLEAN, b \in 1 .. n - 1}
                    \cup {Proof(TRUE, 0, n)}
    IN honest
       \cup UNION {{[p EXCEPT ![i].flip = ~@] : i \in DOMAIN p} : p \in honest}
       \cup UNION {{[p EXCEPT ![i].hash = d] : i \in DOMAIN p, d \in TreeNodes(n)} : p \in honest}
       \cup UNION {{RemoveAt(p, i) : i \in DOMAIN p} : p \in honest}
       \cup {<<[flip |-> FALSE, hash |-> d], [flip |-> flip, hash |-> e]>> :
               d \in TreeNodes(n), e \in TreeNodes(n), flip \in BOOLEAN}

\* The verifier is usable: no call panicked and it is not finished.
Open == panicked = 0 /\ ~pop_failed /\ ~is_finished(verifier, collect)

FeedProof(p) ==
    /\ Open
    /\ fed < MaxFed /\ fed' = fed + 1
    /\ verifier' = feed_proof(verifier, collect, p)
    /\ UNCHANGED <<num_blocks, collect, accepted, panicked, pop_failed>>

\* A buffer of unrelated bytes: of a length that is refused, or with hashes that
\* do not fit and are taken back.  The two digests of the last merge are
\* unwrapped, so that fewer hashes are a panic.
FeedRaw(len) ==
    /\ Open
    /\ fed < MaxFed /\ fed' = fed + 1
    /\ panicked' = IF is_valid_proof_len(len) /\ HashesRead(len) < 2 THEN len ELSE 0
    /\ UNCHANGED <<num_blocks, collect, verifier, accepted, pop_failed>>

VerifyBlock(b) ==
    /\ Open
    /\ Last(verifier.stack) = BlockDigest(b, num_blocks)
    /\ IF Popped(verifier, collect) > Len(verifier.stack)
       THEN pop_failed' = TRUE /\ UNCHANGED <<verifier, accepted>>
       ELSE /\ verifier' = advance(verifier, collect)
            /\ accepted' = Append(accepted, b)
            /\ UNCHANGED pop_failed
    /\ UNCHANGED <<num_blocks, collect, fed, panicked>>

StreamNext ==
    \/ \E p \in SentProofs(num_blocks) : FeedProof(p)
    \/ \E len \in RawLengths : FeedRaw(len)
    \/ \E b \in 0 .. num_blocks - 1 : VerifyBlock(b)

StreamSpec == StreamInit /\ [][StreamNext]_streamVars

-----------------------------------------------------------------------------
StreamTypeOK ==
    /\ num_blocks \in 1 .. MaxBlocks /\ collect \in BOOLEAN
    /\ panicked \in RawLengths \cup {0} /\ pop_failed \in BOOLEAN
    /\ Range(verifier.stack) \subseteq TreeNodes(num_blocks) \ {NoDigest}
    /\ verifier.parent_count \in Nat /\ verifier.counter \in 0 .. num_blocks

\* The steps of an honest stream from block s, with the verifier after each.
HonestStream(s, n, coll) ==
    FoldLeft(LAMBDA v, b :
               LET w == feed_proof(v, coll, Proof(b = s, b, n))
               IN IF ~is_finished(w, coll) /\ Last(w.stack) = BlockDigest(b, n)
                  THEN advance(w, coll) ELSE [w EXCEPT !.stack = <<NoDigest>> \o @],
             NewVerifier(n), [i \in 1 .. n - s |-> s + i - 1])

\* What an honest peer sends is accepted to the end, from any block on, and the
\* collected tree is the tree of the content.
HonestStreamAccepted ==
    fed = 0 /\ accepted = <<>> =>
      /\ \A s \in 0 .. num_blocks - 1 :
           is_finished(HonestStream(s, num_blocks, FALSE), FALSE)
      /\ LET v == HonestStream(0, num_blocks, TRUE)
         IN is_finished(v, TRUE) /\ v.tree \o Reverse(v.stack) = PostOrder(num_blocks)

\* Whatever a peer sends, the collecting verifier accepts the blocks of the
\* content one after the other from the first, the other one in their order; it
\* is finished only at the last block, and pops no more than its stack holds.  A
\* proof is refused rather than unwrapped when it has fewer than two hashes, but
\* for the lengths with a lone sign byte in front, which panic.
AcceptsOnlyContent ==
    /\ ~pop_failed
    /\ panicked # 0 => panicked % SegmentSize = 1
    /\ \A i \in 2 .. Len(accepted) : accepted[i - 1] < accepted[i]
    /\ collect => \A i \in DOMAIN accepted : accepted[i] = i - 1
    /\ is_finished(verifier, collect) =>
         /\ Last(accepted) = num_blocks - 1
         /\ collect => verifier.tree \o Reverse(verifier.stack) = PostOrder(num_blocks)

\* The siblings on the way from the root to a block, with their sides.
Siblings(block, n) ==
    LET path[lo \in 0 .. n, size \in 1 .. n] ==
          LET left == previous_pow_of_two(size)
          IN IF size = 1 THEN <<>>
             ELSE IF block < lo + left
             THEN Append(path[lo, left],
                         [flip |-> FALSE, hash |-> Digest(lo + left, size - left, FALSE)])
             ELSE Append(path[lo + left, size - left],
                         [flip |-> TRUE, hash |-> Digest(lo, left, FALSE)])
    IN path[0, n]

\* A proof has the block and then its siblings from the bottom up, also when it
\* takes more than one segment, and fits the buffer made for it.
ProofsAreSiblings ==
    fed = 0 /\ num_blocks = MaxBlocks => \A n \in WalkSizes :
      \A b \in {0, 1, n \div 2, n - 2, n - 1} :
        /\ Proof(TRUE, b, n)
             = <<[flip |-> FALSE, hash |-> BlockDigest(b, n)]>> \o Siblings(b, n)
        /\ Len(Proof(TRUE, b, n)) <= size_hint(InitialWalker(b, 2 * n - 1))

\* A proof is the path of its block, an honest stream is accepted to the end, and
\* whatever else is fed nothing but the content is accepted.
StreamInv == StreamTypeOK /\ HonestStreamAccepted /\ ProofsAreSiblings /\ AcceptsOnlyContent
=============================================================================
