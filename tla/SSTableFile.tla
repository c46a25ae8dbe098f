---------------------------- MODULE SSTableFile ----------------------------
(***************************************************************************)
(* An SSTable file: SSTableBuilder writes it, SSTableReader opens it and    *)
(* searches it, SSTableIterator scans it (sstable_builder.cpp,              *)
(* sstable_reader.cpp, iterator.cpp).                                       *)
(*                                                                         *)
(* A file is a sequence of items: the pairs of the data blocks, the entries *)
(* of the index block, the footer.  Offsets and sizes count items; only the *)
(* end of a data block depends on bytes (SizeOf).  A block that cannot be   *)
(* read stays so from the time the file is opened.                          *)
(***************************************************************************)
EXTENDS TableEntries

CONSTANTS
    SizeOf,         \* bytes of a pair with each entry
    BlockSize       \* block_size_: bytes that end a block

ASSUME FileAssumption == SizeOf \in [Entry -> Nat \ {0}] /\ BlockSize \in Nat \ {0}

VARIABLES
    file,           \* the items written
    buffer,         \* block_buffer_, a sequence of pairs
    lastKey,        \* last_key_in_block_
    written,        \* index_entries_ of the builder
    index,          \* index_entries_ of the reader, or NotOpen
    bad,            \* blocks that cannot be read
    cursor          \* SSTableIterator: [valid, block, offset, pair]

builderVars == <<file, buffer, lastKey, written>>
readerVars == <<index, bad>>
fileVars == <<builderVars, readerVars, cursor>>
-----------------------------------------------------------------------------
\* An index that was read has an entry: Finish writes no footer behind an empty one.
NotOpen == <<>>
NoKey == -1

DataItem(pair) == [kind |-> "data", pair |-> pair]
IndexItem(maxKey, offset, size) ==
    [kind |-> "index", maxKey |-> maxKey, offset |-> offset, size |-> size]
Footer(offset, size) == [kind |-> "footer", offset |-> offset, size |-> size]
Torn == [kind |-> "torn"]

NoCursor == [valid |-> FALSE, block |-> 1, offset |-> 0, pair |-> {}]

FileInit ==
    /\ file = <<>> /\ buffer = <<>> /\ lastKey = NoKey /\ written = <<>>
    /\ index = NotOpen
    /\ bad = {}
    /\ cursor = NoCursor

(* SSTableBuilder *)

\* The constructor: an empty file.
NewBuilder == file' = <<>> /\ buffer' = <<>> /\ lastKey' = NoKey /\ written' = <<>>

Bytes(pairs) == MapThenFoldSet(+, 0, LAMBDA i : SizeOf[pairs[i].entry],
                               LAMBDA S : CHOOSE i \in S : TRUE, DOMAIN pairs)

\* FlushBlock, of pairs whose last key is maxKey.
FlushBlock(pairs, maxKey) ==
    /\ written' = Append(written, IndexItem(maxKey, Len(file), Len(pairs)))
    /\ file' = file \o [i \in DOMAIN pairs |-> DataItem(pairs[i])]
    /\ buffer' = <<>>

\* (Mutant: the last key is taken after the block was flushed.)
AddKeyLate(pair) ==
    LET pairs == Append(buffer, pair)
    IN  /\ lastKey' = pair.key
        /\ \/ /\ Bytes(pairs) < BlockSize
              /\ buffer' = pairs
              /\ UNCHANGED <<file, written>>
           \/ /\ Bytes(pairs) >= BlockSize
              /\ FlushBlock(pairs, lastKey)

Add(pair) ==
    LET pairs == Append(buffer, pair)
    IN  /\ lastKey' = pair.key
        /\ \/ /\ Bytes(pairs) < BlockSize
              /\ buffer' = pairs
              /\ UNCHANGED <<file, written>>
           \/ /\ Bytes(pairs) >= BlockSize
              /\ FlushBlock(pairs, pair.key)

\* (Mutant: what is left in the buffer is not written.)
FinishedWithoutRest ==
    [file |-> file \o written \o <<Footer(Len(file), Len(written))>>,
     written |-> written]

\* What Finish leaves: the rest of the buffer, the index, the footer.
Finished ==
    LET data == file \o [i \in DOMAIN buffer |-> DataItem(buffer[i])]
        entries == IF buffer = <<>> THEN written
                   ELSE Append(written, IndexItem(lastKey, Len(file), Len(buffer)))
    IN  [file |-> IF entries = <<>> THEN data
                  ELSE data \o entries \o <<Footer(Len(data), Len(entries))>>,
         written |-> entries]

Finish ==
    /\ file' = Finished.file
    /\ written' = Finished.written
    /\ buffer' = <<>>
    /\ UNCHANGED lastKey

(* SSTableReader *)

\* ReadFooter: the last bytes are a footer only if they hold the magic number.
HasFooter(items) == items # <<>> /\ items[Len(items)].kind = "footer"

\* Open and LoadIndexBlock.
OpenedIndex(items) ==
    IF HasFooter(items)
    THEN LET footer == items[Len(items)]
         IN  SubSeq(items, footer.offset + 1, footer.offset + footer.size)
    ELSE NotOpen

IsOpen == index # NotOpen
Blocks == DOMAIN index

\* ReadDataBlock: nothing if the read fails.
BlockPairs(b, unreadable) ==
    IF b \in unreadable THEN <<>>
    ELSE [i \in 1 .. index[b].size |-> file[index[b].offset + i].pair]

\* FindBlockIndex, lower_bound over the index: the first block whose largest key is
\* not below k.
CandidateBlocks(k) == {b \in Blocks : index[b].maxKey >= k}

\* Get: one block, searched up to the first larger key.
GetReading(k, unreadable) ==
    IF CandidateBlocks(k) = {} THEN Absent
    ELSE LET pairs == BlockPairs(Min(CandidateBlocks(k)), unreadable)
             hits == {i \in DOMAIN pairs : /\ pairs[i].key = k
                                           /\ \A j \in 1 .. i - 1 : pairs[j].key <= k}
         IN  IF hits = {} THEN Absent ELSE pairs[Min(hits)].entry
GetFromFile(k) == GetReading(k, bad)

(* SSTableIterator *)

\* Places from (block, offset) on, offset pairs of that block being parsed.
Places(block, offset) ==
    {p \in Blocks \X (1 .. Len(file)) :
        /\ p[2] \in DOMAIN BlockPairs(p[1], bad)
        /\ p[1] > block \/ (p[1] = block /\ p[2] > offset)}
First(places) ==
    CHOOSE p \in places :
        \A q \in places : p[1] < q[1] \/ (p[1] = q[1] /\ p[2] <= q[2])
Invalid == [cursor EXCEPT !.valid = FALSE]

\* ParseNextEntry, over blocks that are empty or cannot be read.
ParsedAt(places) ==
    IF places = {} THEN Invalid
    ELSE LET p == First(places)
         IN  [valid |-> TRUE, block |-> p[1], offset |-> p[2],
              pair |-> BlockPairs(p[1], bad)[p[2]]]

\* The constructor (ParseCurrentBlock).
NewCursor == cursor' = ParsedAt(Places(1, 0))

\* (Mutant: Seek stays inside the block that it chose.)
SeekInBlock(target) ==
    cursor' = IF CandidateBlocks(target) = {} THEN Invalid
              ELSE LET block == Min(CandidateBlocks(target))
                   IN  ParsedAt({p \in Places(block, 0) :
                                    p[1] = block /\ BlockPairs(p[1], bad)[p[2]].key >= target})

\* The chosen block, then entry by entry up to the first not below target.
Seek(target) ==
    cursor' = IF CandidateBlocks(target) = {} THEN Invalid
              ELSE ParsedAt({p \in Places(Min(CandidateBlocks(target)), 0) :
                                BlockPairs(p[1], bad)[p[2]].key >= target})

NextEntry ==
    /\ cursor.valid
    /\ cursor' = ParsedAt(Places(cursor.block, cursor.offset))
=============================================================================
