------------------------------ MODULE Archive -------------------------------
(***************************************************************************)
(* The archive (core/archive): blocks, receipts and the state of each      *)
(* epoch, taken from the notifications of executed blocks and epoch        *)
(* changes, which a slow subscriber misses and a stopped one never gets.   *)
(*                                                                         *)
(* Abstractions: a block is its number, its hash too; a receipt says in    *)
(* which block and where the transaction was, as that is what              *)
(* get_transaction follows.  The database keeps each put that succeeds.    *)
(***************************************************************************)
EXTENDS Naturals, Sequences, FiniteSets, SequencesExt

CONSTANTS BlockTxs,        \* sequence of blocks, each a sequence of transactions
          EpochEnds,       \* blocks that change the epoch
          BlockChannel,    \* capacity of the broadcast of blocks
          EpochChannel,    \* capacity of the broadcast of epochs
          MaxArchiveStops  \* bound on stops of the process

BlockNumbers == DOMAIN BlockTxs
Transactions == UNION {ToSet(BlockTxs[b]) : b \in BlockNumbers}

ASSUME ArchiveAssumption ==
    /\ BlockTxs \in Seq(Seq(Transactions))
    /\ EpochEnds \subseteq DOMAIN BlockTxs
    /\ BlockChannel \in Nat \ {0} /\ EpochChannel \in Nat \ {0} /\ MaxArchiveStops \in Nat

VARIABLES last_block,        \* the number of blocks the application executed
          block_executed, epoch_changed,  \* the receiver's parts of the channels
          blknum_to_blk,   \* blocks stored
          blkhash_to_blknum,
          txhash_to_txrct, \* transaction -> its block and place, or none
          earliest, latest,
          historical,      \* epochs whose state was stored
          inserting,       \* the block being stored and the next of its puts
          missed,          \* blocks whose notification was overwritten or lost by a stop,
                           \* or of which a put failed
          archive_stops

archiveVars == <<last_block, block_executed, epoch_changed, blknum_to_blk, blkhash_to_blknum,
                 txhash_to_txrct, earliest, latest, historical, inserting, missed,
                 archive_stops>>

NoReceipt == [block |-> 0, index |-> 0]
NoInsert == [block |-> 0, next |-> 0]

ArchiveInit ==
    /\ last_block = 0 /\ block_executed = <<>> /\ epoch_changed = <<>>
    /\ blknum_to_blk = {} /\ blkhash_to_blknum = {}
    /\ txhash_to_txrct = [t \in Transactions |-> NoReceipt]
    /\ earliest = 0 /\ latest = 0 /\ historical = {}
    /\ inserting = NoInsert
    /\ missed = {} /\ archive_stops = 0

\* A broadcast channel overwrites the oldest item when it is full; recv goes on
\* after the gap.
Broadcasted(ch, size, x) == IF Len(ch) < size THEN Append(ch, x) ELSE Append(Tail(ch), x)
Overwritten(ch, size) == IF Len(ch) < size THEN {} ELSE {Head(ch)}

\* The epoch that begins after block b.
EpochBegun(b) == Cardinality({e \in EpochEnds : e <= b})

\* The application executed a block; the notifications are sent after it is committed.
ExecuteBlock ==
    LET b == last_block + 1
        ends == b \in EpochEnds
    IN /\ b \in BlockNumbers
       /\ last_block' = b
       /\ block_executed' = Broadcasted(block_executed, BlockChannel, b)
       /\ epoch_changed' = IF ends THEN Broadcasted(epoch_changed, EpochChannel, EpochBegun(b))
                           ELSE epoch_changed
       /\ missed' = missed \cup Overwritten(block_executed, BlockChannel)
       /\ UNCHANGED <<blknum_to_blk, blkhash_to_blknum, txhash_to_txrct, earliest, latest,
                      historical, inserting, archive_stops>>

\* The loop is biased: a change of the epoch is handled before a block.  Without its
\* checkpoint in the blockstore nothing is stored, and the loop drops the error.
HandleEpoch ==
    /\ inserting = NoInsert /\ epoch_changed # <<>>
    /\ epoch_changed' = Tail(epoch_changed)
    /\ \/ historical' = historical \cup {Head(epoch_changed)}
       \/ UNCHANGED historical
    /\ UNCHANGED <<last_block, block_executed, blknum_to_blk, blkhash_to_blknum,
                   txhash_to_txrct, earliest, latest, inserting, missed, archive_stops>>

\* Mutation: receipts and the hash are stored before the block they lead to.
ReferencesFirst(b) ==
    [i \in DOMAIN BlockTxs[b] |-> <<"receipt", i>>]
    \o <<<<"hash", 0>>, <<"block", 0>>, <<"earliest", 0>>, <<"latest", 0>>>>

\* What is put for a block, in order.
PutsOf(b) ==
    <<<<"block", 0>>, <<"earliest", 0>>, <<"latest", 0>>, <<"hash", 0>>>>
    \o [i \in DOMAIN BlockTxs[b] |-> <<"receipt", i>>]

HandleBlock ==
    /\ inserting = NoInsert /\ epoch_changed = <<>> /\ block_executed # <<>>
    /\ inserting' = [block |-> Head(block_executed), next |-> 1]
    /\ block_executed' = Tail(block_executed)
    /\ UNCHANGED <<last_block, epoch_changed, blknum_to_blk, blkhash_to_blknum,
                   txhash_to_txrct, earliest, latest, historical, missed, archive_stops>>

\* Mutation: every block is stored as the earliest.
EarliestAlways(b) == b

EarliestAfter(b) == IF earliest = 0 THEN b ELSE earliest

PutNext ==
    LET b == inserting.block
        put == PutsOf(b)[inserting.next]
    IN /\ inserting # NoInsert
       /\ blknum_to_blk' = blknum_to_blk \cup {x \in {b} : put[1] = "block"}
       /\ blkhash_to_blknum' = blkhash_to_blknum \cup {x \in {b} : put[1] = "hash"}
       /\ earliest' = IF put[1] = "earliest" THEN EarliestAfter(b) ELSE earliest
       /\ latest' = IF put[1] = "latest" THEN b ELSE latest
       /\ txhash_to_txrct' =
            IF put[1] = "receipt"
            THEN [txhash_to_txrct EXCEPT ![BlockTxs[b][put[2]]] = [block |-> b, index |-> put[2]]]
            ELSE txhash_to_txrct
       /\ inserting' = IF inserting.next = Len(PutsOf(b)) THEN NoInsert
                       ELSE [inserting EXCEPT !.next = @ + 1]
       /\ UNCHANGED <<last_block, block_executed, epoch_changed, historical, missed, archive_stops>>

\* A put fails: the others of the block are left out, and the loop drops the error.
PutFails ==
    /\ inserting # NoInsert
    /\ missed' = missed \cup {inserting.block}
    /\ inserting' = NoInsert
    /\ UNCHANGED <<last_block, block_executed, epoch_changed, blknum_to_blk, blkhash_to_blknum,
                   txhash_to_txrct, earliest, latest, historical, archive_stops>>

\* The node stops; the channels are new when it starts again.
StopArchive ==
    /\ archive_stops < MaxArchiveStops
    /\ archive_stops' = archive_stops + 1
    /\ missed' = missed \cup ToSet(block_executed) \cup ({inserting.block} \ {0})
    /\ block_executed' = <<>> /\ epoch_changed' = <<>> /\ inserting' = NoInsert
    /\ UNCHANGED <<last_block, blknum_to_blk, blkhash_to_blknum, txhash_to_txrct, earliest,
                   latest, historical>>

ArchiveNext ==
    \/ ExecuteBlock \/ HandleEpoch \/ HandleBlock \/ PutNext \/ PutFails \/ StopArchive

ArchiveSpec == ArchiveInit /\ [][ArchiveNext]_archiveVars

-----------------------------------------------------------------------------
ArchiveTypeOK ==
    /\ last_block \in 0 .. Len(BlockTxs)
    /\ block_executed \in Seq(1 .. last_block)
    /\ blknum_to_blk \cup blkhash_to_blknum \subseteq 1 .. last_block
    /\ txhash_to_txrct \in [Transactions -> [block : 0 .. last_block, index : Nat]]
    /\ earliest \in 0 .. last_block /\ latest \in 0 .. last_block
    /\ inserting # NoInsert =>
         inserting \in [block : 1 .. last_block, next : 1 .. Len(PutsOf(inserting.block))]

\* Nothing that is stored is of a later block than b.
StoredUpTo(b) ==
    /\ \A x \in blknum_to_blk \cup {earliest, latest} : x <= b
    /\ \A t \in Transactions : txhash_to_txrct[t].block <= b

\* Blocks are announced and stored in their order.
BlocksInOrder ==
    /\ \A i, j \in DOMAIN block_executed : i <= j => block_executed[i] <= block_executed[j]
    /\ \A i \in DOMAIN block_executed :
         StoredUpTo(block_executed[i]) /\ inserting.block <= block_executed[i]
    /\ inserting # NoInsert => StoredUpTo(inserting.block)

\* The puts of a block that were done can be found.
StoredSoFar ==
    LET b == inserting.block
        next == inserting.next
    IN inserting # NoInsert =>
         /\ next > 1 => b \in blknum_to_blk
         /\ next > 2 => earliest # 0
         /\ next > 3 => latest = b
         /\ next > 4 => b \in blkhash_to_blknum
         /\ \A i \in DOMAIN BlockTxs[b] : next > i + 4 => txhash_to_txrct[BlockTxs[b][i]].block = b

\* What a query finds leads to a block: the latest and the earliest block, a hash, and
\* a receipt, whose place in the block holds the transaction it is of.
NothingDangles ==
    /\ {earliest, latest} \ {0} \subseteq blknum_to_blk
    /\ blkhash_to_blknum \subseteq blknum_to_blk
    /\ \A t \in Transactions :
         LET r == txhash_to_txrct[t]
         IN r # NoReceipt => /\ r.block \in blkhash_to_blknum
                             /\ r.index \in DOMAIN BlockTxs[r.block]
                             /\ BlockTxs[r.block][r.index] = t

\* A block whose notification the archive got to handle, and of which no put failed, is
\* stored as a whole, between the earliest and the latest; its receipts are there, or
\* those of a later block.
HandledIsWhole ==
    \A b \in (1 .. last_block) \ (missed \cup ToSet(block_executed) \cup {inserting.block}) :
        /\ b \in blknum_to_blk \cap blkhash_to_blknum
        /\ earliest \in 1 .. b /\ b <= latest
        /\ \A t \in ToSet(BlockTxs[b]) : txhash_to_txrct[t].block >= b

\* Queries of the archive find whole blocks, whatever the archive missed.
ArchiveInv ==
    /\ ArchiveTypeOK /\ BlocksInOrder /\ StoredSoFar
    /\ NothingDangles /\ HandledIsWhole
=============================================================================
