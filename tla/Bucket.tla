------------------------------- MODULE Bucket -------------------------------
(***************************************************************************)
(* The content store on disk (lib/b3fs, bucket): files and directories are *)
(* written into a directory of the log, cut into blocks, and moved into    *)
(* place by renames.  The untrusted writers get their bytes from a peer    *)
(* and verify block by block, the trusted ones compute the hash.           *)
(*                                                                         *)
(* Abstractions: a file is the sequence of the numbers of its bytes; a     *)
(* block's hash is the file, the block's index and its bytes, so that two  *)
(* hashes are equal when what was hashed is; proofs are those of           *)
(* ProofStream; of a directory's bloom filter and perfect hash there is    *)
(* only that the search for the hash never ends when a name repeats.       *)
(***************************************************************************)
EXTENDS Naturals, Sequences, FiniteSets, FiniteSetsExt, SequencesExt, Functions

CONSTANTS Contents,       \* file -> its length
          Folders,        \* directory -> the number of its entries
          FileWriters,    \* writer -> the file it is given
          DirWriters,     \* writer -> the directory it is given
          Untrusted,      \* the writers that are fed by peers
          MaxBlock,       \* MAX_BLOCK_SIZE_IN_BYTES
          Piece,          \* BLOCK_SIZE_IN_CHUNKS, the bytes taken at a time
          WriteSizes,     \* lengths a caller passes to write
          Preludes,       \* numbers of entries a peer may announce
          MaxStops        \* bound on crashes of the process

ASSUME BucketAssumption ==
    /\ \A f \in DOMAIN Contents : Contents[f] \in Nat \ {0}
    /\ \A d \in DOMAIN Folders : Folders[d] \in Nat \ {0}
    /\ DOMAIN Contents \cap DOMAIN Folders = {}
    /\ FileWriters \in [DOMAIN FileWriters -> DOMAIN Contents]
    /\ DirWriters \in [DOMAIN DirWriters -> DOMAIN Folders]
    /\ Untrusted \subseteq DOMAIN FileWriters \cup DOMAIN DirWriters
    /\ MaxBlock \in Nat /\ Piece \in 1 .. MaxBlock - 1
    /\ WriteSizes \subseteq Nat \ {0} /\ Preludes \subseteq Nat /\ MaxStops \in Nat

VARIABLES fwriter,     \* the file writers
          dwriter,     \* the directory writers
          headers,     \* root hash -> num_entries of the header on disk
          blocks,      \* names of block files on disk -> their bytes
          wal,         \* writers that have a directory in the log
          stops

bucketVars == <<fwriter, dwriter, headers, blocks, wal, stops>>

\* The bytes of a file after the first `from` up to `to`, with a wrong one instead of
\* byte `bad` when that is not 0.
Bytes(bad, from, to) ==
    [i \in 1 .. to - from |-> IF bad = from + i THEN 0 ELSE from + i]

NumBlocks(f) == (Contents[f] + MaxBlock - 1) \div MaxBlock
BlockHash(f, i, bytes) == [file |-> f, block |-> i, bytes |-> bytes]
TrueHash(f, i) ==
    BlockHash(f, i, Bytes(0, i * MaxBlock, Min({(i + 1) * MaxBlock, Contents[f]})))

\* Nobody has opened a writer.  Peers of untrusted writers may send a wrong byte.
BucketInit ==
    /\ \E bad \in [DOMAIN FileWriters -> UNION {0 .. Contents[f] : f \in DOMAIN Contents}] :
         /\ \A w \in DOMAIN FileWriters :
              bad[w] <= (IF w \in Untrusted THEN Contents[FileWriters[w]] ELSE 0)
         /\ fwriter = [w \in DOMAIN FileWriters |->
                         [st |-> "new", bad |-> bad[w], given |-> 0, todo |-> 0,
                          last |-> FALSE, file |-> FALSE, cur |-> <<>>, buffer |-> <<>>,
                          cut |-> <<>>, moved |-> 0]]
    /\ dwriter = [w \in DOMAIN DirWriters |->
                    [st |-> "new", num |-> 0, insertions |-> 0, entries |-> <<>>,
                     verified |-> 0, last |-> 0]]
    /\ headers = <<>> /\ blocks = <<>> /\ wal = {} /\ stops = 0

Put(f, x, v) == [y \in DOMAIN f \cup {x} |-> IF y = x THEN v ELSE f[y]]

-----------------------------------------------------------------------------
(* Files.                                                                  *)

\* InnerWriterState::new: a directory of the log with a header in it.  The
\* fetcher asks no peer for content the bucket has.
NewFileWriter(w) ==
    /\ fwriter[w].st = "new"
    /\ w \in Untrusted => FileWriters[w] \notin DOMAIN headers
    /\ fwriter' = [fwriter EXCEPT ![w].st = "open"]
    /\ wal' = wal \cup {w}
    /\ UNCHANGED <<dwriter, headers, blocks, stops>>

\* write is called with the next n bytes, the flag with those that end the file.
WriteCall(w, n) ==
    /\ fwriter[w].st = "open" /\ fwriter[w].todo = 0
    /\ fwriter[w].given + n <= Contents[FileWriters[w]]
    /\ fwriter' = [fwriter EXCEPT
                     ![w].todo = n,
                     ![w].last = fwriter[w].given + n = Contents[FileWriters[w]]]
    /\ UNCHANGED <<dwriter, headers, blocks, wal, stops>>

\* has_reach_block: the trusted writer waits for one more byte.
has_reach_block(w, size) == IF w \in Untrusted THEN size >= MaxBlock ELSE size > MaxBlock

\* The blocks whose hash the trusted writer's tree holds: those followed by a byte.
HashedByTree(w, i, given) == given > (i + 1) * MaxBlock

\* Mutation: the last block of a file is cut like any other.
CutLast(w, s) ==
    IF w \notin Untrusted
    THEN IF HashedByTree(w, Len(s.cut), s.given)
         THEN [cut |-> TRUE, ok |-> TRUE, hash |-> TrueHash(FileWriters[w], Len(s.cut))]
         ELSE [cut |-> FALSE, ok |-> TRUE]
    ELSE IF Len(s.buffer) < MaxBlock
         THEN [cut |-> FALSE, ok |-> TRUE]
         ELSE LET h == BlockHash(FileWriters[w], Len(s.cut), SubSeq(s.buffer, 1, MaxBlock))
              IN [cut |-> TRUE, hash |-> h,
                  ok |-> h = TrueHash(FileWriters[w], Len(s.cut))
                         /\ NumBlocks(FileWriters[w]) > 1]

\* on_reach_full_block: the trusted writer's tree has the hash of the block; the
\* untrusted one hashes MAX_BLOCK_SIZE_IN_BYTES of its buffer as a block that is
\* not the root, and verifies it, unless these are the last bytes.
on_reach_full_block(w, s) ==
    IF w \notin Untrusted
    THEN IF HashedByTree(w, Len(s.cut), s.given)
         THEN [cut |-> TRUE, ok |-> TRUE, hash |-> TrueHash(FileWriters[w], Len(s.cut))]
         ELSE [cut |-> FALSE, ok |-> TRUE]
    ELSE IF Len(s.buffer) < MaxBlock \/ (Len(s.buffer) = MaxBlock /\ s.last)
         THEN [cut |-> FALSE, ok |-> TRUE]
         ELSE LET h == BlockHash(FileWriters[w], Len(s.cut), SubSeq(s.buffer, 1, MaxBlock))
              IN [cut |-> TRUE, hash |-> h,
                  ok |-> h = TrueHash(FileWriters[w], Len(s.cut))
                         /\ NumBlocks(FileWriters[w]) > 1]

\* new_block: the file gets the name of the hash, within the log.
new_block(s, hash) == [s EXCEPT !.cut = Append(@, [hash |-> hash, bytes |-> s.cur])]

\* process_block and write_block_file, for bytes the collector has.
process_block(w, s, bytes) ==
    IF ~s.file THEN [s EXCEPT !.file = TRUE, !.cur = bytes]
    ELSE IF ~has_reach_block(w, Len(s.cur) + Len(bytes))
    THEN [s EXCEPT !.cur = @ \o bytes]
    ELSE LET remaining == MaxBlock - Len(s.cur)
             full == [s EXCEPT !.cur = @ \o SubSeq(bytes, 1, remaining)]
             rest == SubSeq(bytes, remaining + 1, Len(bytes))
             reach == on_reach_full_block(w, full)
         IN IF ~reach.cut THEN [full EXCEPT !.cur = @ \o rest]
            ELSE [new_block(full, reach.hash) EXCEPT
                    !.cur = rest,
                    !.buffer = IF w \in Untrusted THEN SubSeq(@, MaxBlock + 1, Len(@)) ELSE @,
                    !.st = IF reach.ok THEN @ ELSE "refused"]

\* One turn of write's loop.  When the verifier refuses a block the response is
\* given up, its directory in the log stays.
WritePiece(w) ==
    LET s == fwriter[w]
        n == Min({Piece, s.todo})
        bytes == Bytes(s.bad, s.given, s.given + n)
        collected == [s EXCEPT !.given = @ + n, !.todo = @ - n,
                               !.buffer = IF w \in Untrusted THEN @ \o bytes ELSE @]
    IN /\ s.st = "open" /\ s.todo > 0
       /\ fwriter' = [fwriter EXCEPT ![w] = process_block(w, collected, bytes)]
       /\ UNCHANGED <<dwriter, headers, blocks, wal, stops>>

\* Mutation: the last block of the buffer is not verified.
UncheckedFinalBlock(w, s) ==
    [st |-> TRUE, some |-> w \in Untrusted \/ Len(s.cut) > 0,
     hash |-> TrueHash(FileWriters[w], Len(s.cut))]

\* final_block: the tree has the last block's hash when it is not the only one;
\* the untrusted writer verifies what is left in its buffer.
final_block(w, s) ==
    LET f == FileWriters[w]
        i == Len(s.cut)
        h == BlockHash(f, i, s.buffer)
    IN IF w \notin Untrusted
       THEN [st |-> TRUE, some |-> i > 0, hash |-> TrueHash(f, i)]
       ELSE IF s.buffer = <<>> THEN [st |-> TRUE, some |-> FALSE]
       ELSE [st |-> h = TrueHash(f, i) /\ (i = 0 => NumBlocks(f) = 1), some |-> TRUE, hash |-> h]

\* commit up to the renames: the last block, and the only block of a short file
\* under the root hash.  An unfinished or wrong stream panics the writer's task.
CommitFile(w) ==
    LET s == fwriter[w]
        f == FileWriters[w]
        fin == final_block(w, s)
        s1 == IF fin.some THEN new_block(s, fin.hash) ELSE s
        s2 == IF Len(s1.cut) = 0 THEN new_block(s1, TrueHash(f, 0)) ELSE s1
        finished == fin.st /\ (w \in Untrusted => Len(s1.cut) = NumBlocks(f))
    IN /\ s.st = "open" /\ s.todo = 0 /\ s.given = Contents[f]
       /\ fwriter' = [fwriter EXCEPT ![w] =
                        IF finished THEN [s2 EXCEPT !.st = "header"]
                        ELSE [s EXCEPT !.st = "refused"]]
       /\ UNCHANGED <<dwriter, headers, blocks, wal, stops>>

\* HeaderFile::flush moves the header first ...
RenameHeader(w) ==
    /\ fwriter[w].st = "header"
    /\ headers' = Put(headers, FileWriters[w], Len(fwriter[w].cut))
    /\ fwriter' = [fwriter EXCEPT ![w].st = "blocks"]
    /\ UNCHANGED <<dwriter, blocks, wal, stops>>

\* ... then the blocks one by one ...
RenameBlock(w) ==
    LET b == fwriter[w].cut[fwriter[w].moved + 1] IN
    /\ fwriter[w].st = "blocks" /\ fwriter[w].moved < Len(fwriter[w].cut)
    /\ blocks' = Put(blocks, b.hash, b.bytes)
    /\ fwriter' = [fwriter EXCEPT ![w].moved = @ + 1]
    /\ UNCHANGED <<dwriter, headers, wal, stops>>

\* Mutation: the log's directory goes before the last block was moved.
FlushEarly(w) ==
    /\ fwriter[w].st = "blocks" /\ fwriter[w].moved + 1 = Len(fwriter[w].cut)
    /\ fwriter' = [fwriter EXCEPT ![w].st = "done"]
    /\ wal' = wal \ {w}
    /\ UNCHANGED <<dwriter, headers, blocks, stops>>

\* ... and the writer's directory in the log goes.
FlushEnd(w) ==
    /\ fwriter[w].st = "blocks" /\ fwriter[w].moved = Len(fwriter[w].cut)
    /\ fwriter' = [fwriter EXCEPT ![w].st = "done"]
    /\ wal' = wal \ {w}
    /\ UNCHANGED <<dwriter, headers, blocks, stops>>

\* The connection ends before the stream: the writer is dropped.
DropFileWriter(w) ==
    /\ w \in Untrusted /\ fwriter[w].st = "open" /\ fwriter[w].todo = 0
    /\ fwriter' = [fwriter EXCEPT ![w].st = "dropped"]
    /\ UNCHANGED <<dwriter, headers, blocks, wal, stops>>

\* rollback removes what the writer wrote.
RollbackFile(w) ==
    /\ fwriter[w].st = "open" /\ fwriter[w].todo = 0
    /\ fwriter' = [fwriter EXCEPT ![w].st = "rolled back"]
    /\ wal' = wal \ {w}
    /\ UNCHANGED <<dwriter, headers, blocks, stops>>

-----------------------------------------------------------------------------
(* Directories.  An entry is its number in the order of the names; a peer  *)
(* may send one that the directory does not have.                          *)

\* InnerDirState::new, for num_entries entries.  The number comes from the caller, or
\* from the Prelude of a peer, which may send another one and begins a new writer
\* then; the layout of the header panics for no entries.
NewDirWriter(w, num) ==
    /\ \/ /\ dwriter[w].st = "new"
          /\ IF w \in Untrusted THEN DirWriters[w] \notin DOMAIN headers
             ELSE num = Folders[DirWriters[w]]
       \/ w \in Untrusted /\ dwriter[w].st = "open"
    /\ dwriter' = [dwriter EXCEPT ![w] =
                     [st |-> IF num = 0 THEN "refused" ELSE "open", num |-> num,
                      insertions |-> 0, entries |-> <<>>, verified |-> 0, last |-> 0]]
    /\ wal' = wal \cup {w}
    /\ UNCHANGED <<fwriter, headers, blocks, stops>>

\* insert_entry of the untrusted writer: entries of a peer, verified as they
\* come except the last, which waits for the commit.
InsertUntrusted(w, e, last) ==
    LET s == dwriter[w]
        s1 == [s EXCEPT !.insertions = @ + 1]
        s2 == [s1 EXCEPT !.entries = Append(@, e)]
    IN /\ w \in Untrusted /\ s.st = "open"
       /\ dwriter' = [dwriter EXCEPT ![w] =
            IF s1.insertions > s.num THEN [s1 EXCEPT !.st = "refused"]
            ELSE IF last THEN [s2 EXCEPT !.last = e]
            ELSE IF e = s.verified + 1 /\ e <= Folders[DirWriters[w]] /\ Folders[DirWriters[w]] > 1
            THEN [s2 EXCEPT !.verified = e]
            ELSE [s2 EXCEPT !.st = "refused"]]
       /\ UNCHANGED <<fwriter, headers, blocks, wal, stops>>

\* The trusted writer of the blockstore keeps the entries by name and inserts
\* them in that order when it commits.
InsertTrusted(w, e) ==
    /\ w \notin Untrusted /\ dwriter[w].st = "open" /\ e <= Folders[DirWriters[w]]
    /\ \E k \in 1 .. Len(dwriter[w].entries) + 1 :
         /\ \A i \in 1 .. k - 1 : dwriter[w].entries[i] < e
         /\ \A i \in k .. Len(dwriter[w].entries) : dwriter[w].entries[i] > e
         /\ dwriter' = [dwriter EXCEPT ![w].entries = InsertAt(@, k, e)]
    /\ UNCHANGED <<fwriter, headers, blocks, wal, stops>>

\* Mutation: the last entry is not verified when the writer commits.
LastUnverified(w) == TRUE

\* on_commit verifies the last entry, finalize that it was the end of the tree.
CommitVerifies(w) ==
    LET s == dwriter[w] IN
    w \in Untrusted =>
        /\ s.last # 0 => s.last = s.verified + 1
        /\ s.verified + (IF s.last # 0 THEN 1 ELSE 0) = Folders[DirWriters[w]]

\* The perfect hash has no place for a name twice, but takes an offset of 0, the
\* first entry's, for a free place.
HasNoHash(entries) ==
    \E i, j \in 2 .. Len(entries) : i # j /\ entries[i] = entries[j]

\* commit moves the header, with num_entries and what was inserted; the directory in
\* the log is left behind.  A peer says when its stream ends, a trusted caller asks
\* ready_to_commit.  The search for the hash does not give up.
CommitDir(w) ==
    LET s == dwriter[w] IN
    /\ s.st = "open"
    /\ w \notin Untrusted => Len(s.entries) = s.num
    /\ \/ /\ ~CommitVerifies(w)
          /\ dwriter' = [dwriter EXCEPT ![w].st = "refused"]
          /\ UNCHANGED headers
       \/ /\ CommitVerifies(w) /\ HasNoHash(s.entries)
          /\ dwriter' = [dwriter EXCEPT ![w].st = "searching"]
          /\ UNCHANGED headers
       \/ /\ CommitVerifies(w) /\ ~HasNoHash(s.entries)
          /\ headers' = Put(headers, DirWriters[w], s.num)
          /\ dwriter' = [dwriter EXCEPT ![w].st = "done"]
    /\ UNCHANGED <<fwriter, blocks, wal, stops>>

-----------------------------------------------------------------------------
\* The process stops: writers are gone, the disk stays as it is.  Opening the
\* bucket again creates missing directories and looks at nothing else.
Stop ==
    /\ stops < MaxStops
    /\ stops' = stops + 1
    /\ fwriter' = [w \in DOMAIN fwriter |->
                     IF fwriter[w].st \in {"open", "header", "blocks"}
                     THEN [fwriter[w] EXCEPT !.st = "stopped"] ELSE fwriter[w]]
    /\ dwriter' = [w \in DOMAIN dwriter |->
                     IF dwriter[w].st \in {"open", "searching"}
                     THEN [dwriter[w] EXCEPT !.st = "stopped"] ELSE dwriter[w]]
    /\ UNCHANGED <<headers, blocks, wal>>

FileStep(w) ==
    \/ NewFileWriter(w) \/ WritePiece(w) \/ CommitFile(w)
    \/ RenameHeader(w) \/ RenameBlock(w) \/ FlushEnd(w)
    \/ DropFileWriter(w) \/ RollbackFile(w)
    \/ \E n \in WriteSizes : WriteCall(w, n)

DirStep(w) ==
    \/ CommitDir(w)
    \/ \E num \in Preludes \cup {Folders[DirWriters[w]]} : NewDirWriter(w, num)
    \/ \E e \in 1 .. Folders[DirWriters[w]] + 1 :
         InsertTrusted(w, e) \/ \E last \in BOOLEAN : InsertUntrusted(w, e, last)

BucketNext ==
    \/ \E w \in DOMAIN FileWriters : FileStep(w)
    \/ \E w \in DOMAIN DirWriters : DirStep(w)
    \/ Stop

BucketSpec == BucketInit /\ [][BucketNext]_bucketVars

-----------------------------------------------------------------------------
FileStates == {"new", "open", "header", "blocks", "done", "dropped", "rolled back",
               "refused", "stopped"}
BlockFile == [hash : [file : DOMAIN Contents, block : Nat, bytes : Seq(Nat)],
              bytes : Seq(Nat)]

BucketTypeOK ==
    /\ DOMAIN headers \subseteq DOMAIN Contents \cup DOMAIN Folders
    /\ wal \subseteq DOMAIN FileWriters \cup DOMAIN DirWriters
    /\ fwriter \in [DOMAIN FileWriters ->
                    [st : FileStates, bad : Nat, given : Nat, todo : Nat, last : BOOLEAN,
                     file : BOOLEAN, cur : Seq(Nat), buffer : Seq(Nat), cut : Seq(BlockFile),
                     moved : Nat]]
    /\ dwriter \in [DOMAIN DirWriters ->
                    [st : {"new", "open", "searching", "done", "refused", "stopped"},
                     num : Nat, insertions : Nat, entries : Seq(Nat), verified : Nat,
                     last : Nat]]

\* A caller passes the bytes of the file, and the flag with those that end it.
CallsInStep ==
    \A w \in DOMAIN FileWriters :
        LET s == fwriter[w]
            size == Contents[FileWriters[w]]
        IN /\ s.given + s.todo <= size /\ (s.last <=> s.given + s.todo = size)
           /\ w \notin Untrusted => s.bad = 0

\* The block file i of a file, from 0.
BlockOf(f, i) == [hash |-> TrueHash(f, i), bytes |-> TrueHash(f, i).bytes]

\* However the calls of write split the file, the block files of a writer are the
\* bytes it was given, cut at the block size, and each has the bytes its name is
\* the hash of.  A last block is left for the commit.
BlocksTile ==
    \A w \in DOMAIN FileWriters :
        LET s == fwriter[w]
            f == FileWriters[w]
            cutoff == Len(s.cut) * MaxBlock
        IN /\ s.st # "refused" => \A i \in DOMAIN s.cut : s.cut[i] = BlockOf(f, i - 1)
           /\ s.st \in {"new", "open"} =>
                /\ \A i \in DOMAIN s.cut :
                     s.cut[i].bytes = Bytes(s.bad, (i - 1) * MaxBlock, i * MaxBlock)
                /\ cutoff < Contents[f] /\ cutoff <= s.given
                /\ s.cur = Bytes(s.bad, cutoff, s.given) /\ s.given <= cutoff + MaxBlock
                /\ s.buffer = IF w \in Untrusted THEN s.cur ELSE <<>>
                /\ s.file <=> s.given > 0
           /\ s.st \in {"header", "blocks", "done"} => Len(s.cut) = NumBlocks(f)

\* A peer that sends the file is never refused, whatever the lengths of the file
\* and of its frames.
HonestFileAccepted ==
    \A w \in DOMAIN FileWriters : fwriter[w].bad = 0 => fwriter[w].st # "refused"

\* What is under a name on disk is what the name says: blocks have the bytes of the
\* file, headers count all its blocks.  A directory that was moved into place has every
\* entry of its hash, and nothing else, each once, if the peer announced as many as there
\* are; one that announced more may have added others to it, and its number is the one
\* on disk.
StoredIsContent ==
    /\ \A b \in DOMAIN blocks :
         b = TrueHash(b.file, b.block) /\ blocks[b] = b.bytes
    /\ \A f \in DOMAIN headers \cap DOMAIN Contents : headers[f] = NumBlocks(f)
    /\ \A d \in DOMAIN headers \cap DOMAIN Folders :
         \E w \in DOMAIN DirWriters :
             DirWriters[w] = d /\ dwriter[w].st = "done" /\ headers[d] = dwriter[w].num
    /\ \A w \in DOMAIN DirWriters :
         LET s == dwriter[w]
             size == Folders[DirWriters[w]]
         IN s.st = "done" =>
              /\ 1 .. size \subseteq ToSet(s.entries) /\ size <= s.num
              /\ s.num = size => ToSet(s.entries) = 1 .. size /\ Len(s.entries) = size

\* The entries of a directory: verified ones in their order, and while a peer has
\* sent no more than one as the last, that one.  A caller announces what there is.
EntriesVerified ==
    \A w \in DOMAIN DirWriters :
        LET s == dwriter[w]
            size == Folders[DirWriters[w]]
            all == ToSet(s.entries)
        IN /\ s.verified <= size
           /\ w \notin Untrusted =>
                /\ all \subseteq 1 .. size /\ IsFiniteSet(all) /\ Cardinality(all) = Len(s.entries)
                /\ s.st # "new" => s.num = size
           /\ w \in Untrusted /\ s.st \in {"new", "open"} =>
                /\ Len(s.entries) = s.insertions /\ s.insertions <= s.num
                /\ 1 .. s.verified \subseteq all
                /\ s.last = 0 => Len(s.entries) = s.verified /\ all = 1 .. s.verified
                /\ s.last # 0 => s.verified < Len(s.entries) /\ s.last \in all
                /\ s.last # 0 /\ Len(s.entries) = s.verified + 1 =>
                     all = 1 .. s.verified \cup {s.last}

Missing(f) == {i \in 0 .. NumBlocks(f) - 1 : TrueHash(f, i) \notin DOMAIN blocks}

\* A header on disk was moved by a writer with all block files, and a block file that
\* was moved stays.
MovedInOrder ==
    /\ \A w \in DOMAIN FileWriters :
         /\ fwriter[w].moved <= Len(fwriter[w].cut)
         /\ fwriter[w].st = "done" => fwriter[w].moved = Len(fwriter[w].cut)
         /\ \A i \in 1 .. fwriter[w].moved : TrueHash(FileWriters[w], i - 1) \in DOMAIN blocks
    /\ \A f \in DOMAIN headers \cap DOMAIN Contents :
         \E w \in DOMAIN FileWriters :
             /\ FileWriters[w] = f /\ fwriter[w].st \in {"blocks", "stopped", "done"}
             /\ Len(fwriter[w].cut) = NumBlocks(f)

\* exists looks at the header only.  Content whose header is there has its blocks,
\* unless a writer is moving them or the process stopped while one was.
WholeUnlessMoving ==
    \A f \in DOMAIN headers \cap DOMAIN Contents :
        Missing(f) # {} =>
            \E w \in DOMAIN FileWriters :
                /\ FileWriters[w] = f
                /\ fwriter[w].st \in {"blocks", "stopped"}
                /\ fwriter[w].moved < Len(fwriter[w].cut)

\* The blocks of a file tile it, the disk holds what its names say.
BucketInv ==
    /\ BucketTypeOK /\ CallsInStep /\ BlocksTile /\ HonestFileAccepted
    /\ EntriesVerified /\ StoredIsContent /\ MovedInOrder /\ WholeUnlessMoving
=============================================================================
