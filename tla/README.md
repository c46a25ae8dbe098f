# LightKV: a verification project

TLA+ models of LightKV (`src/`), a sharded LSM-tree key-value store in C++17,
with the TLC runs that check them and the theorems TLAPS proves about them.

| Module | Models |
|---|---|
| `KVMap` | abstract: a `KVEngine` is a map from keys to the last write |
| `KVEngine`, `KVEngineProperties`, `MCKVEngine` | one engine: MemTable, log, flush, compaction, crash, restart; what should hold of it |
| `KVEngineReadInv` | the two inductive invariants behind fresh reads, each checked by a run and proved |
| `KVEngineProofs`, `KVEngineRestartProofs` | theorems: types, numbers and logs, reads; and, extending them, restarts, one crash anywhere, and refinement |
| `TableEntries` | keys and entries that MemTable and files share |
| `SkipList` | the linked levels of the MemTable |
| `SSTableFile` | builder, reader and iterator of one file |
| `FlushedTable` | abstract: a flush happens at once or not at all |
| `TableFlush`, `MCTableFlush`, `TableFlushProofs` | composes the last three: skip list, to file, to reader; theorems about list, file, reads and refinement |
| `OrderedStream` | abstract: what an iterator shows |
| `MergingIterator`, `MergingIteratorProofs` | the heap of children, loop by loop; theorems |
| `ShardRouting` | ranges, `GetShard`, pruning |
| `RangeQuery`, `MCRangeQuery`, `RangeQueryProofs` | a query over all shards beside their writers, and its theorems |
| `ShardScheduler`, `ShardSchedulerProofs` | background thread, `CompactAll`, destructor; theorems |
| `MortonCode` | `SplitBy2`, `Encode`, `Decode` |
| `MortonRanges`, `MCMortonRanges`, `MortonRangesProofs` | `GenerateRanges` and `MergeRanges`; theorems about them and about the codes |
| `Extremes` | lemmas: least and greatest elements, cited by the proofs |

## 1. The system

| Component | State | Operations | Used by | Hard part | What makes it correct |
|---|---|---|---|---|---|
| `KVEngine` (`kv_engine.*`) | MemTable, list of SSTable readers, file counter, active log, `rw_mutex_`; files on disk | `put`, `erase`, `get`, `force_flush`, `FlushMemTable`, `Compact`, `NewIterator`, loading and replay in the constructor | shards, tests | flush and unlocked compaction interleave; crash between file operations; failed writes | reads see the last accepted write, before and after a restart; nothing reachable is deleted, nothing unreachable stays |
| `WalLogger` (`wal_logger.*`) | append stream, path | `Open`, `Append`, `Recover`, `RemoveWalFile` | `KVEngine` | torn tail, append after a torn tail, unlinked file | replay gives exactly the records appended |
| `SSTableBuilder` (`sstable_builder.*`) | block buffer, index, offset | `Add`, `FlushBlock`, `Finish` | flush, compaction | block boundaries, empty table, crash in between | the file holds the entries that were added, or is no table |
| `SSTableReader` (`sstable_reader.*`) | descriptor, index, sequence | `Open`, `Get`, `ReadDataBlock`, `FindBlockIndex` | `KVEngine`, iterators | binary search at block borders, failed `pread` | `Get` finds a key exactly if a readable block holds it |
| `SkipList` (`skip_list.h`) | linked levels, node count | `put`, `get`, `erase`, `clear`, `dump_all`, `find_greater_or_equal` | MemTable | levels stay sorted sub-lists; shared random generator | behaves as a sorted map |
| Iterators (`iterator.*`) | block position; snapshot; heap | `Valid`, `Next`, `Seek`, `entry` | `Compact`, range queries | eager advance in `FindMin`, nesting | every key once, in order, newest version |
| `ShardedKVEngine` (`sharded_kv_engine.h`) | shards, ranges, stop flag, thread | `Put`, `Get`, `Delete`, `RangeQuery`, `CompactAll`, scheduler | clients | routing at boundaries, scheduler beside `CompactAll`, snapshots taken shard by shard, shutdown | a range query finds what was put; every shard's backlog is heeded; nobody is inside a destroyed shard |
| `SpatialKey3D`, Morton (`spatial_key.h`) | none | `Encode`, `Decode`, `GenerateRanges`, `MergeRanges` | clients | box splitting, bit interleaving | the ranges cover the box |
| `VoxelBlockValue` (`voxel_value.h`) | none | `Serialize`, `Parse` | clients | 16-bit point count | round trip |
| `Slice`, `TableValue` | bytes | comparison | everything | none | none |

Interactions. A client calls the sharded engine, which routes to one `KVEngine`;
that engine appends to its log, updates its MemTable and, at the threshold,
flushes while it still holds the exclusive lock. The scheduler thread and any
caller of `CompactAll` run `Compact`, which takes the lock only for the snapshot
of the reader list (shared) and for the swap (exclusive). `RangeQuery` asks each
shard for a merging iterator and merges those. The files are the interface between
one process and the next. PROJECT.json lists what is hard to test, line by line
(`hazards`).

How the models fit together: `TableFlush` opens what is one step in `KVEngine`
(write the file, open it, clear the MemTable); `MergingIterator` opens what is one
read in `KVEngine` and `RangeQuery` (the newest entry of every key); `KVEngine`
opens what is one step in `RangeQuery` (a flush, a compaction) and two in
`ShardScheduler` (snapshot and swap).

## 2. The models

### 2.1 `KVEngine`

**State.** `skiplist` is the MemTable as a function from keys to slots (nothing,
a value, a tombstone). `sstables` is the list of readers as a set; `rank` is a
reader's distance from the back of the list, which never changes because readers
are only inserted at the front, and `installed` is the next rank. `sst_counter`
and `current_wal` are the fields of that name. `sstFiles` and `walFiles` are the
directory, by number. `flush` and `compact[c]` are the program counter and the
local variables of a thread in `FlushMemTable` and in `Compact`. `latest` and
`writes` are history: the last accepted write of each key and the number of
writes. A value is the number of the write that stored it.

**Actions.** `Put`, `Erase` and `ForceFlush` are the critical sections of the
functions of the same name; a put that reaches the threshold continues with the
flush and keeps the lock (`flush.pc # "idle"`). `FlushMemTable` is seven steps,
cut where an unlocked thread can interfere or a crash leaves a different
directory: load and store of the counter, the builder's constructor, `Finish`,
`Open`, the new log, and `clear` with the removal of the old log. `Compact` is
eight: snapshot, load, store, constructor, `Finish`, swap or giving up, and one
step per removed file. `Crash` ends the process between any two steps (and stands
for the orderly end: the destructor closes the log and leaves the MemTable);
`CrashAfterAppend` and `CrashInsideAppend` end it inside `Append`, with a complete
or with a torn record. `Start` is the constructor. `get`, `NewIterator` and a
restart only read: they are the operators `GetSlot`, `IteratorSlot` and
`RestartSlot`.

**Granularity.** The counter is a plain `size_t` that `Compact` increments
without the lock, so its increment is a load and a store. Everything else that is
shared is under the lock or is a file with one owner, as long as numbers are. An iterator copies the
MemTable and takes references to readers when it is made, so its later steps
cannot see later states; it is one read. An unlinked file stays readable through
its reader: a reader carries its data.

**Left out.** The byte formats (a record is torn or not, a file broken or
whole; CRC collisions and a torn header that announces a huge length count as a
stop of the replay). A failing `Append`. A start that cannot open a whole file.
Calls of the public `FlushMemTable` without the lock. A file that is truncated while
a reader has it open: this needs two activities with one number, which `FreshFile`,
`find_counter_race.cfg` and `find_peer_numbers.cfg` are about, and what happens after
that is not followed. A crash inside the
constructor, which writes nothing but an empty log. Power loss: what was handed to
the kernel survives. Two readers with the same sequence (merged readers have 0)
are only possible with two compactors; the model then takes one of them.

**Switches.** The program is the model with `Overlap`, `CrashPoint` and
`DiskFault` at their largest and `PeerRace` true. Because the program has defects
that are reported below, the properties that do hold are checked on the
sub-behaviours in which those defects cannot act, and each switch says which events
are left out:

* `Overlap` is about flushes: the parts of a compaction during which one may run
  (`"snapshot"`: between the snapshot and the increment; `"counter"`: during the
  increment; `"build"`: merge and swap).
* `PeerRace` is about compactions: whether two of them may be in the increment of the
  counter (`kv_engine.cpp:274`, which has no lock) at the same time. It is false only
  in `engine_two_compactors` and `find_two_compactors`; `find_peer_numbers` has two
  compactors and the race; with one compactor the switch changes nothing.
* `CrashPoint` names the activities a crash may interrupt.
* `DiskFault` says what may fail: `"flush"`, to write or to open the file of a flush;
  `"compact"`, to write a merged file; `"open"`, to open a merged file that is whole.

**Bounds.** `MaxWrite` accepted writes, `MaxFile` file numbers, `MaxCrash`
crashes. `NumbersLeft` admits a new flush or compaction only while a number is
left for it and for every compaction already started, so nothing that has started
is ever stopped by the bound.

### 2.2 `SkipList`, `SSTableFile`, `TableFlush`

**SkipList.** A node is an address; `cell` is what it holds and `forward[n]` its
links, as many as its height. `Predecessors` is the `update` array of `put` and
`erase`, `FindGreaterOrEqual` the search of every read. `Insert` takes the lowest
free address, so a stale link would be followed into a new node, and any height:
`random_level` can return each. A call is one step, since the engine makes it under
its lock. `erase` is modelled although `KVEngine::erase` never calls it (it puts a
tombstone).

**SSTableFile.** A file is a sequence of items: pairs, index entries, the footer.
Offsets and sizes count items, so a block is found by its index entry exactly as in
the code; bytes matter only for the end of a block (`SizeOf`, `BlockSize`). `Add`
and `Finish` are the builder; `OpenedIndex` is `Open` with `ReadFooter` and
`LoadIndexBlock`; `GetReading` and `Seek` both start at `CandidateBlocks`, the
binary search. `ParsedAt` is `ParseNextEntry`: it walks over the blocks that give
nothing. `bad` are the blocks whose `pread` fails, from the time the file was
opened (a block that fails once and is read later is not modelled; neither is a
file whose bytes changed, since nothing in the format would notice).

**TableFlush.** `Change` calls the list, `BeginFlush` to `ClearMemTable` are the
steps of `FlushMemTable` that touch table and list, in their order.
`CrashAndRestart` leaves any prefix of what was or was about to be written, perhaps
with a torn item at its end, because the stream is flushed when it likes; after
`Finish` the file is whole. `OpenFile` may fail, and then the list is cleared all the
same (`kv_engine.cpp:146-158`): `FlushedTable` lets its table be refused (`Refuse`), and
what the MemTable held is lost; but it must have been tried first. `Damage` makes blocks unreadable, then get and scans
read. Logs, numbers and the list of files are `KVEngine`'s. `Finish` with nothing
added is met only in `Compact` and is modelled there.

### 2.3 `MergingIterator`

A child is where it is in its own set of keys (`at`), which is what `Seek` and
`Next` of both leaf iterators do; the version of an entry is its child's sequence,
and children have different ones (two readers with sequence 0 need two compactions
at once; the children of a range query share sequences but no keys). The
constructor, `Seek`, `Next` and `FindMin` are cut at their loops: `PushChild` per
child, `Skip` and `Clear` per dropped version, `Take` for the top. The heap is a set
of which the top is taken. `Skip` is reachable, but its loop never drops anything:
`FindMin` already has (`ChildrenAhead` says so). Nested merges are covered because a
merging iterator is, by `IsOrderedStream`, a child like any other.

### 2.4 `ShardRouting`, `RangeQuery`

A serialised key is the sequence of its fields, since all are big-endian and
compared with `memcmp`; a string shorter than a spatial key has fewer fields.
`GetShard` divides by `Step + 1`, the ranges are multiples of `Step`, as in the
code. `RangeQuery` interleaves `Write`, `ForceFlush` and `Compact` of any shard
between the copies the query takes (`TakeShard`), its `Seek` and its loop. `cut[s]`
is history: how many writes there were when shard `s` was looked at.

### 2.5 `ShardScheduler`

`at[t]` is the place of a thread: the scheduler's two nested loops with a test of
the flag at each place where the code has one, a caller's loop over the shards.
A reader remembers only whether it has puts, perhaps beside tombstones. A merge may
leave something if one of its readers has a put; it may always leave nothing (all its
entries may be deleted by newer tombstones), or a file that cannot be opened, and then
`Compact` returns early. `late` counts compactions that the scheduler began after the flag was set.
The engine's owner destroys it only when no other thread is calling it, as any C++
object demands; that the *scheduler* is out is what `Join` is for.

### 2.6 `MortonCode`, `MortonRanges`

`MortonRanges` is the loop over the explicit stack (`Emit`, `Split`) and the
merging loop (`BeginMerge`, `Extend`, `NextRange`, `Finish`). The eight pushes with
their conditions are the octants of a box, an octant being the set of the axes
along which it is the upper half. `IsLeaf` multiplies the differences of the
corners, as the code does: a flat box is a leaf however large it is. Ranges with
the same start come out of `std::sort` in any order. `SplitBy2` is a parameter of
which only monotony is assumed; `MortonCode` supplies it for a few bits, and TLC
evaluates the assumption. `MaxDepth` bounds the stack only if that many halvings
make a leaf of the whole world: `Halves` says so, and `MCMortonRanges` states it of
its instance as `EnoughHalvings`. Left out: the rounding of doubles; coordinates beyond the
world (undefined or cut to 21 bits, see the hazards and `WorldWraps`).

## 3. Runs

| Run | Instance | Shows |
|---|---|---|
| `engine_concurrent` | flushes before and after the increment of one compaction, whose file may fail to be written; with fairness | `TypeOK`, `IteratorFresh`, `ReadInv`, `ReadsMoveForward`, `WalMirrorsMemTable`, `NoGarbageForever`, `EveryCallReturns` |
| `engine_one_crash` | one crash anywhere in a write, a flush or a compaction before its removals; no flush before the compaction has its number | `ImplementsMap`: the engine refines `KVMap` through the crash; `FreshFile`, `ActiveWalLinked`, `NumberedByAge` |
| `engine_two_compactors` | two compactions that overlap anywhere but in the increment of the counter (`PeerRace` off), their files may fail to be written or opened, no flush beside them | `GetFresh`, `PeerInv` |
| `engine_restarts` | three restarts between writes, no compaction | `CrashNowIsSafe`, `ImplementsMap` |
| `table_flush` | three keys, three levels, blocks of one or two entries, one crash, a file that may fail to open, any bad blocks | `LevelsLinked`, `MemTableReads`; `GetLosesOnlyBadBlocks`, `ScanLosesOnlyBadBlocks`; `FlushIsAtomic`: refines `FlushedTable` |
| `merging_iterator` | three children with any subsets of three keys, calls without end | `HeapMirrors`, `ChildrenAhead`; `IsOrderedStream`: refines `OrderedStream`, fairness included |
| `range_query` | two shards, two spatial keys and a short one, three writes | `QueryAnswers`: each key as it was when its shard was copied, each once, in order; `QueryReturns` |
| `scheduler` | two shards, one caller, threshold 2, one more reader | `NobodyInside`, `ShutdownIsPrompt`, `DestructorReturns`, `BacklogHeeded` |
| `morton` | 8 x 8 x 8 voxels, corners at 0, 2, 5, 7 of each axis, leaves below 8 | `NothingLost`, `BoxCovered`, `RangesApart`, `EndsInBox`, `StackBounded`, `GeneratorEnds` |

The `TypeOK` of each state machine is among the properties of one run.
`CHECK_DEADLOCK FALSE` where a state without a successor is a quiet system (the cfg says
why); that no operation hangs is stated by a liveness property of a run.

**Bounds, and why they are enough.** *Engine*: two keys (one to overwrite, one to
fill the MemTable), a threshold of 2 nodes, four writes (one compaction needs two
flushed tables; with two keys and a `force_flush` three tables and a write beside
the compaction fit), five file numbers, one or two compactors. *table_flush*: three
keys give a node between two others on a level, three levels a level that two
insertions skip; entries of two sizes give blocks that end early, exactly and late.
*merging_iterator*: three children give a key in one, two and all of them; keys
before, at and behind a target. *range_query*: three writes give two files and a
MemTable in one shard while the other shard changes; the bounds are none, between
and on the keys. *scheduler*: a threshold of two and room for a third reader let a
flush come in between snapshot and swap. *morton*: with leaves below 8 the boxes
need no, one or two halvings, flat and long ones included.

**Violations.** Three runs find a disagreement between the code and what is said
of it (PROJECT.json, `findings`):

| Run | Violated | Because |
|---|---|---|
| `find_list_order` | `NewestFirst` | the merged reader is put in front of a newer, flushed one (`kv_engine.cpp:334`); `get` then returns the older write |
| `find_stale_log` | `IteratorFresh` | a compaction has moved the counter past the log's number, so the next start opens another log; the old one is never removed, and a later restart replays its put over a newer file in which the key is erased |
| `find_lost_range` | `QueryAnswers` | the ranges are those of layer 1 and LOD 0 (`sharded_kv_engine.h:133`), `GetShard` ignores both; a query for another layer prunes shards that hold its keys |

## 4. Further configurations

These are kept beside the code to reproduce further disagreements by hand, with
`tlc -config <file> <module>`; each ends with the violation it names. They are not
among the runs of PROJECT.json.

| Configuration (module) | Violated | Because |
|---|---|---|
| `find_number_order.cfg` (`MCKVEngine`) | `NumberedByAge` | the number is taken after the snapshot (`kv_engine.cpp:274`) |
| `find_crash_in_delete.cfg` (`MCKVEngine`) | `CrashNowIsSafe` | inputs are removed newest first (`kv_engine.cpp:343`); the trace shows the directory between two removals |
| `find_torn_tail.cfg` (`MCKVEngine`) | `IteratorFresh` | records appended behind a torn record are never replayed |
| `find_counter_race.cfg` (`MCKVEngine`) | `ActiveWalLinked` | the unlocked increment makes a flush remove the log it writes to |
| `find_peer_numbers.cfg` (`MCKVEngine`) | `FreshFile` | two compactions increment the counter together, without any flush, and get one number: the second truncates the file of the first |
| `find_orphan_table.cfg` (`MCKVEngine`) | `IteratorFresh` | `Open` of a whole merged file fails (`kv_engine.cpp:312`): it stays on disk, outlives its inputs and the tombstones of a later compaction, and a restart brings an erased key back |
| `find_two_compactors.cfg` (`MCKVEngine`) | `IteratorFresh` | with flushes beside two compactions, a tombstone is dropped while another compaction installs an older value |
| `find_failed_flush.cfg` (`MCKVEngine`) | `GetFresh` | a failed flush still clears the MemTable and removes the log |
| `find_lost_boundary.cfg` (`MCRangeQuery`) | `QueryAnswers` | range `i` begins at code `i * step`, `GetShard` divides by `step + 1`: the codes from `i * step` up to `i * (step + 1) - 1` are stored one shard lower, which a query that begins there prunes |

**Why the engine's sub-behaviours.** Merging reads rank by sequence, and a merged
reader has sequence 0, so `IteratorFresh` survives a flush beside a compaction
while `GetFresh`, which trusts the list, does not. After a restart the sequence is
the number, so refinement through a crash needs the order `NumberedByAge`, which
holds only if no flush slips in before the increment. One crash is the most that
`ImplementsMap` survives with compactions (`find_stale_log` needs two), and three
restarts are harmless without. Two compactions beside each other do no harm to `get`
once each has a number of its own; that the code gives them one is not assured, and
`PeerRace` keeps the two questions apart. `NoGarbageForever` is asked where whole
files can be opened: one that cannot stays on disk, unlisted. `range_query` uses keys of layer 1 and LOD 0 and no
code on which range and `GetShard` differ, for the same reason.

**Other things met while modelling.** `Decode` gives `x` the bits that `Encode`
gives to `z` (`DecodeExchanges`). The loop of `MergingIterator::Next` that drops
older versions never finds one. The leaf test's product is not the number of
voxels its comment speaks of; the result still covers the box (theorem
`GeneratorCovers`) but holds more codes than asked for.

## 5. Fairness

*Engine.* `FairSpec` assumes weak fairness of a flush step and of each
compactor's step: a thread that runs is scheduled again. Compactor steps that
need the lock are disabled only while a flush holds it; writers are single
actions that leave the lock free afterwards, so weak fairness says that a thread
that waits on `rw_mutex_` gets it at last, which `std::shared_mutex` with a finite
number of writes (`MaxWrite`) gives. Starvation by writers that never stop is
therefore not met; nothing in the code excludes it. *Range query*, *merging iterator*, *range
generator*: the thread inside the call is scheduled again; nobody is obliged to
call. *Scheduler*: the background thread, each thread inside `CompactAll` and the
destructor's `join` go on when they can; the two seconds of sleep end. Nobody has
to flush, call or destroy, and shards may be flushed for ever.

## 6. Proofs

Every theorem is about `Spec` (two of `RangeQueryProofs` are about keys alone, five of
`MortonRangesProofs` about codes) with any values of the constants that satisfy the
module's assumptions: any number of keys, shards, callers, children, writes, files, nodes
and voxels, not the small sets of the runs. A further hypothesis is named in the table.
Those of the engine and of the range query are each the absence of an event that breaks
the property in a run or a configuration, shown in the last column, and each is a setting
of a passing run; those of the range generator are about the size of the world and hold
of the 21 bits and the leaves of the code.

| Theorem | States | Hypothesis | Without it |
|---|---|---|---|
| *`KVEngineProofs`* | | | |
| `TypeCorrect` | `TypeOK` | none | |
| `FilesAreFresh` | `FreshFile` | `CounterAlone` | `find_counter_race`, `find_peer_numbers` |
| `ActiveWalStaysLinked` | `ActiveWalLinked` | no flush during a compaction's increment | `find_counter_race` |
| `ReadInvHolds`, `IteratorAlwaysFresh` | `ReadInv`, `IteratorFresh` | `Undisturbed` | `find_two_compactors`, `find_counter_race`, `find_failed_flush`, `find_stale_log` |
| `GetMovesForward` | `ReadsMoveForward` | `CounterAlone`, and flushes succeed | `find_counter_race`, `find_peer_numbers`, `find_failed_flush` |
| `PeerInvHolds`, `PeersReadFresh` | `PeerInv`; `GetFresh` and `IteratorFresh` | `FlushesApart` (with `CounterAlone`), no crash | `find_list_order`, `find_two_compactors`, `find_peer_numbers`, `find_failed_flush`, `find_stale_log` |
| *`KVEngineRestartProofs`* | | | |
| `LogMirrorsMemTable` | `WalMirrorsMemTable` | `CounterAlone`; no crash, or `RestartsOnly` | `find_counter_race`, `find_torn_tail` |
| `CrashAlwaysSafe` | `CrashNowIsSafe` | `CounterAlone`, `RestartsOnly`, flushes succeed | `find_crash_in_delete`, `find_failed_flush` |
| `RestartedReadsFresh` | `IteratorFresh`, `GetFresh` | same | `find_stale_log`, `find_failed_flush` |
| `ConcurrentEngineIsMap` | `ImplementsMap` | `Undisturbed` | as `IteratorFresh` |
| `PeersEngineIsMap` | `ImplementsMap` | `FlushesApart` (with `CounterAlone`), no crash | as `PeersReadFresh` |
| `RestartedEngineIsMap` | `ImplementsMap` | as `CrashAlwaysSafe` | as `CrashNowIsSafe` |
| `OnceCrashedEngineIsMap` | `ImplementsMap` | `OneCrash` | `find_crash_in_delete`, `find_stale_log`, `find_number_order`, `find_failed_flush`, `find_orphan_table` |
| `FilesNumberedByAge` | `NumberedByAge` | `OneCrash` | `find_number_order` |
| `OnceCrashedGetFresh` | `GetFresh` | `OneCrash`, and no flush beside a compaction | `find_list_order`, and as above |
| *`TableFlushProofs`* | | | |
| `FlushTypes` | `TypeOK` | none | |
| `LinksHold`, `ListReadsHold` | `LevelsLinked`, `MemTableReads` | none | |
| `GetReadsGoodBlocks`, `ScanReadsGoodBlocks` | `GetLosesOnlyBadBlocks`, `ScanLosesOnlyBadBlocks` | none | |
| `FlushRefinesTable` | `FlushIsAtomic` | none | |
| `FlushInvHolds` | `FlushInv`, the invariant behind the others | none | |
| *`MergingIteratorProofs`* | | | |
| `MergeTyped`, `HeapNeverStale`, `ChildrenStayAhead` | `TypeOK`, `HeapMirrors`, `ChildrenAhead` | none | |
| `MergeIsStream` | `Stream!StreamSafe`, the safety part of `IsOrderedStream` | none | |
| *`MortonRangesProofs`* | | | |
| `GeneratorTyped`, `GeneratorLosesNothing`, `GeneratorCovers`, `GeneratorApart`, `GeneratorEndsInBox` | `TypeOK`, `NothingLost`, `BoxCovered`, `RangesApart`, `EndsInBox` | none | |
| `GeneratorStackBounded` | `StackBounded` | `Halves(e)`: the sides shrink to a leaf in `MaxDepth` halvings | the bound would be no bound |
| `WorldStackBounded` | `StackBounded` | the world has 2 bits or more, leaves 28 voxels or more, `MaxDepth = Bits - 2` | |
| `SplitBitsGrows`, `WorldIsCut`, `DecodeExchangesAxes`, `EncodeOneToOne`, `EncodeFits` | what the codes are, for any number of bits | none | |
| *`RangeQueryProofs`* | | | |
| `QueryTyped`, `CollectsLive` | `TypeOK`; what is returned is live, right and in order | none | |
| `QueryAlwaysAnswers` | `QueryAnswers` | `SpatialKeysAgree` | `find_lost_range`, `find_lost_boundary` |
| `LayerOneAgrees`, `HigherLayersDisagree` | which spatial keys agree | none | |
| *`ShardSchedulerProofs`* | | | |
| `NobodyIsInside`, `OnlyOneLate`, `ShardIndexInBounds`, `SchedulerTypes` | `NobodyInside`, `ShutdownIsPrompt`, `ShardInBounds`, `TypeOK` | none | |

The named hypotheses, all but the last from the switches of section 2.1 (`find_stale_log`
needs two crashes, the other configurations of the engine one event each):

* `CounterAlone`: increments of the counter come one at a time, that is, while one
  compaction is between load and store neither a flush (`"counter" \notin Overlap`) nor
  another compaction (`~PeerRace`, or there is one thread only) is there. No lock of the
  code gives either half: this is an assumption about how the threads happen to run.
* `LoneCompaction`: one compaction thread, no flush while it increments the counter, no
  failing flush. `Undisturbed`: that, and no crash. The compaction's own file may fail,
  and flushes run before and after the increment, during the merge and beside the swap.
* `FlushesApart`: `CounterAlone`, no flush beside a compaction, no failing flush. There
  may be any number of compaction threads at any distance from each other but for the
  increment, and their files may fail to be written or opened.
* `RestartsOnly`: no compaction, and the process ends or dies only outside a flush and
  with whole records in its log; it may do so any number of times.
* `OneCrash`: one compaction thread, no flush between its snapshot and its number, no
  failing flush, no whole merged file that cannot be opened, and one crash at most, at any step but those that remove inputs: in a
  torn or complete record, anywhere in a flush, anywhere in a compaction up to the swap.
* `SpatialKeysAgree`: each key of four fields or more lies in the range of the shard that
  `GetShard` gives it, as the keys of the run `range_query` do.

### 6.1 Engine

**Types.** `TypeOK` is not inductive: the counter and the registers start at 0,
which is no file's number, and a store may use a register older than the counter.
`NumbersOK` adds what is missing: a register that is about to be stored is below
`MaxFile`, and a file number in use is above 0. The lemmas before it give the types
of what the helpers return; those that CHOOSE or take a `Max` rest on
`GreatestExists` of `Extremes`.

**Fresh reads.** The argument is `ReadInv`, which TLC also checks in
`engine_concurrent`:

* the MemTable has the last write of the keys it holds, and the other keys are
  *covered* by the readers: the holder with the highest sequence has the last
  write, or nobody holds the key and its last write is no put;
* files and sequences are distinct, so "highest" is one reader;
* a flush under way has a number above every number in use, so what it opens is
  what it wrote, and the new reader is the highest: this is why the MemTable may be
  cleared;
* the inputs of a compaction stay listed until the swap, and every reader listed
  since has a higher sequence. So at the swap either a kept reader covers the key
  and still does, or only inputs held it, and the merged reader (sequence 0, below
  all that are kept) has what they had; if that was a tombstone nothing is left,
  which is right because nothing older is left either.

**Numbers and logs.** `NumberInv` is `TypeInv` with three parts. `CounterInv`:
whoever is between load and store is alone there and has what it loaded; this is
where `CounterAlone` is used, and it is the only place. `FileInv`: no file has a
number above the counter, and the number just made is above all files. `LogInv`: the
active log is linked, its number is at most one above the counter and, behind a
flush's store, not above it, so the new log is another file than the one the flush
removes. `LogInv` holds on the first half of `CounterAlone` alone: compactions that race
each other may set the counter back, but not while a flush is between its own load and
store. `NumberInv` survives every crash, torn records and failed
files included, since `Start` counts from the highest file it finds.

**`get` moves forward.** A flush prepends the reader of a MemTable that held writes
younger than those below it; for `get` this needs `ReaderInv` (no two readers have a
rank, and ranks are below the next), `InstallInv` (the file to be opened has what
the MemTable has, and its reader stays in front until the MemTable is cleared) and
`WriteInv` (no entry anywhere is of a write not yet accepted). The step in which a
compaction installs its file is excluded because there it is false
(`find_list_order`).

**Restarts.** `MirrorInv` says which log counts: `LogNum` is the active one, the one
a flush is about to remove, or the one the next process will go on with; it rebuilds
the MemTable, and every other log is empty (`LogMirror`). That other logs are empty
is why the replay, which runs through *all* logs, finds one only (`OneLogRecovers`);
a compaction before two restarts would break it (`find_stale_log`).
`RestartInv` adds `Durable` (for each key either that log's record is the last write,
or the files' newest holder has it; a file under construction does no harm, being
absent, broken, or equal to the MemTable) and `Listed` (the readers are the whole
files, ranked as they are numbered). `CrashNowIsSafe` follows at every point of a
flush, although a crash there is outside the hypothesis for what happens *after* it.

**Compactions at the same time.** With two compactions `ReadInv` is lost: both merged
readers have sequence 0, and the second swap leaves the first one's reader listed, which
was never among its inputs. `PeerInv` says why that does no harm, and TLC checks it in
`engine_two_compactors`. `Live` is what `get` finds below the MemTable, tombstones left
out. Every compaction that is merging writes exactly `Live`, however long ago it took
its snapshot, and every reader it does not merge has sequence 0 and is `Live` too, put
there by another compaction (`Peer`). So a swap puts `Live` in front of readers which are
all `Live`, and whatever it takes away, `Live` stays the same; the others' promise is
kept (`SwapPeers`). A file under construction is nobody else's (`Own`), which rests on
`NumberInv` and so on `CounterAlone`. `InOrder` is what makes list order and sequence order agree, so `get` and
the iterator see one thing. A flush changes `Live`, and that is why it must not run
beside a merge (`FlushAlone`).

**One crash.** While the process lives, `ReadInv` holds as above, and `DiskInv` says how
the directory lags behind the list of readers: every reader has its file (`Filed`); a
whole file that no reader has is about to be installed or about to be removed
(`Accounted`; that whole files can be opened is needed here); a merged file is numbered above its inputs and below everything flushed
since the increment (`Between`), so the numbers, by which a restart ranks, agree with the
sequences, by which the merge of the living process ranks (`Ordered`). Before the crash
`LogMirror` holds. The crash turns the two into `Recoverable`: for every key the replayed
logs have the last write or the whole files' newest holder has it. At each step of a
flush the log and the new file overlap rather than leave a gap, and a merged file that
lies beside its inputs hides none of their last writes
(`DeathRecoverable`). The removals are left out because there the files are a subset of
the inputs and `Recoverable` is false (`find_crash_in_delete`). The start makes readers of the
files, and `ReadInv` and `DiskInv` hold again (`StartReads`); of the logs nothing more is
asked, since no second crash will read them. `OnceInv` is these cases together.

**Numbers and age.** `NumberedByAge` needs `LatestAge`, no file has an entry newer than
the last write of its key, because a flush writes last writes above everything on disk. A
merge writes for each key the entry of its newest input, below the files flushed beside
it: by `Between` the files with higher numbers are not inputs and were there later.

**Refinement.** `InitIsMap` and `StepIsMap` reduce `ImplementsMap` to one fact:
what a reader or, when the process is down, a restart would see is the last write of
every key (`SeenFresh`). Given it before and after a step, a put or an erase is the
abstract write, a crash and a start are the abstract ones, and all else is a stutter.
The fact comes from `ReadInv` in `ConcurrentEngineIsMap`, from `PeerInv` in
`PeersEngineIsMap`, from `RestartInv` in `RestartedEngineIsMap` and from `OnceInv`
(`ReadInv` or `Recoverable`) in `OnceCrashedEngineIsMap`.

### 6.2 List, file, scan and flush

Nothing here is bounded: keys, nodes, levels, entries, the size of an entry and of a
block are any. Assumed is that keys are numbers (for their order) and that no value is
the tombstone or the mark of a search that finds nothing. Since the
provers cannot do induction, each walk is reasoned about by a witness: what a walk
returns satisfies a relation, because the first place where it would not
(`LeastExists`) leads to a contradiction with the place before.

**Order.** `IsInOrder(s, pairs)` fixes `s` (`InOrderUnique`), so it is enough to show of
each sequence that it shows a set in order: `dump_all`, an iterator's copy, the pairs of
a file, what a scan has shown.

**List.** `ListInv` says of each link that it leads to the nearest node of its level
(`Follows`), that no key is in two nodes, and that `level` is the height of the tallest
node. `IsLast` is what the search keeps from level to level: the node before the key,
or the head; that it may go on one level below from there is that the node is on that
level too. `Insert` and `EraseFromList` change a link exactly where the new or old node
is the nearest; a freed node is in no link, so its address may be used again.

**File.** `Building` relates the items written, the block buffer and the index to the
position in the pairs up to which they have been added; `Whole` is its end. A restart
opens a file exactly if it is whole (`TableOf`): a prefix without the footer, or with a
torn last item, is refused. In a whole file the blocks are consecutive, none is empty
and the index has the last key of each, so the first of `CandidateBlocks` is the only
block that can hold a key.

**Scan.** A place (block, offset) is a position among all pairs of the file, and
`ParsedAt` is the first readable position behind it. `ScanShows` says that what was
shown are the readable pairs from the bound to the cursor, which every `Next` extends
by one.

**Flush.** `FlushInv` is `ListInv` with one of six phases: nothing begun, being built,
built, opened or refused, and, at the end, with or without a file. In each the pairs
saved are those of the list, until it is cleared. `FlushRefinesTable` maps the list to
the map, the opened file to the table and the place in the flush to a stage: calls of
the list are stores and removals, `OpenFile` publishes or is refused, `ClearMemTable`
releases, and a crash is `Stop`, with the table if the file was finished and without it
otherwise; all else are stutters.

### 6.3 Merging iterator

`Inv` adds to the three invariants where the thread can be and what its locals then
are (`Placed`), that what is shown was in the heap (`ShownIsItem`), and what holds
*inside* a call, where `ChildrenAhead` does not: `PastShown` (until `Next`
has taken a new entry, every child is at its first key past the one shown),
`AtTarget` (a child that `Seek` has visited is at its first key from the target on)
and `Clearing` (while `FindMin` drops older versions, a child is at the key shown or
past it). The
refinement maps the stream's table to `NewestVersion`, its question to the call under
way and its answer to the entry shown; all loop steps but the last one of a call are
stutters, and for that one `TopIsFirst` and `TakeShowsFirst` say that the top of
the heap is the newest version of the first key asked for. The number of children is
finite but not bounded: a least key among them and a newest version exist by
`LeastExists` and `GreatestExists`.

### 6.4 Range generator

For every monotone `SplitBy2` (`MortonAssumption`), so in particular for 21 bits and
leaves of 64. `BoxCovered` speaks of the end only; what every step preserves is
`NothingLost`. Its two halves rest on two facts about one box: `OctantOfVoxel`, the
octants that are pushed leave no voxel out (also when a middle is the upper bound and
some are not pushed), and `CodeInRange`, the code of a voxel lies between the codes
of the corners, by monotony. `RangesApart` needs `MergeInOrder`: what is merged lies,
with a gap, before the current range, and the current range starts no later than any
range not yet merged; sorting by start is enough for that, whatever the ends.
`EndsInBox` needs `WithinInv`: every box on the stack is a non-empty part of the
given box, and every range so far has its ends at voxels of it. `StackBounded` needs
`StackInv`: the box at place `i` of the stack needs at most `d` halvings for some `d`
with `i <= 7 * (MaxDepth - d) + 1`. A split takes one box away and pushes at most
eight that need one halving less, so the places grow as the boxes shrink.
`WorldHalves` gives the lengths that the hypothesis asks for, powers of two less one.

The codes of `MortonCode` are recursive functions over the bits. That there is such a
function at all is `ComputesAll` (a finite piece of it for each number, which agree);
what it returns follows by `Descent`: what holds of a number if it holds of the half,
or the eighth, of it, holds of all numbers. So `SpreadGrows` compares the halves first
and the lowest bits only if these are equal, `DecodeSpreads` takes three bits off the
code and one off each coordinate (`ThreeBits`), and `SpreadFits` counts bits.
`SplitBitsGrows` is the assumption under which the ranges were proved to cover.

### 6.5 Range query

The order of strings is total (`LessTotal`, `LessTransitive`), so of the ranges that
begin no later than a key the last one holds it: no string is outside all ranges, and
a short key is always stored in a shard whose range holds it (`ShortKeyInRange`). A
pruned shard whose keys agree with its range has no key of the interval
(`PrunedIsEmpty`).

The invariant has two halves. `StoreInv` is about the shards: each key's own shard
shows its last write, or nothing where that was an erase (`ShowsLast`). A flush keeps
it because the new file is the youngest (`FlushedShard`), a compaction because a
tombstone shows what its absence shows (`MergedShard`) and because the merged file,
with sequence 0, is then alone. `QueryOK` is about the query, with the log as a
parameter: a write leaves what the log answers up to `cut` alone (`WriteLogged`), so
the copies stay right whatever happens behind them (`WrittenMeanwhile`). Each key is
once in `rest`, with the write its shard showed; what is collected comes before all of
`rest`; and, if the spatial keys agree, a wanted key of a copied shard is in `rest` or
collected (`NothingLost`). Only that last conjunct needs the hypothesis, so nothing
wrong is ever returned (`CollectsLive`), though keys may be missing.

`LayerOneAgrees` and `HigherLayersDisagree` say what the hypothesis costs: occupancy
cells satisfy it but for the few codes behind the end of their shard's range (`i + 1`
codes in shard `i`), keys of a higher layer satisfy it in the last shard only.

### 6.6 Scheduler

`NobodyInside` follows from `Ending`: once the flag is set every caller is idle and
stays so, and the owner destroys only behind the scheduler's exit.
`ShutdownIsPrompt` follows from `OneLate`: behind a late compaction the scheduler is
at no place from which another begins without a test of the flag. It holds for any
number of shards, which is the point: one shutdown does not wait for a round over all
of them. `ShardInBounds` is the part of `TypeOK` about indices: each loop leaves
before it calls a shard past the last. The rest of `TypeOK` is about the lists, and of
it only the filter of the swap takes an argument: `RemainingTyped`, by the first reader
behind which what is kept would be none.

### 6.7 Only model-checked

* Liveness: `EveryCallReturns`, `NoGarbageForever`, `QueryReturns`,
  `DestructorReturns`, `BacklogHeeded`, `GeneratorEnds`, and the fairness part of
  `IsOrderedStream`. TLAPS has no rule for WF.

## 7. Plan

Done: the modules above with the theorems above. Every invariant that a run checks is
stated by a theorem, under the hypotheses of the table.

Next: one crash with any number of compaction threads (`OneCrash` with `FlushesApart`
instead of one thread).

## 8. Not modelled

* Power loss (`wal_logger.cpp:92`): crashes are those of the process.
* A failing `Append`, and the byte format of the log.
* The data races on the CRC table (`wal_logger.cpp:10`) and on the random generator
  (`skip_list.h:32`): both are about memory seen late or torn, not about an order of
  steps; `SkipList` allows any height a race could give.
* `VoxelBlockValue`, `Slice`: byte copies without a state (the 16-bit count is
  listed as a hazard). `main.cpp`, the benchmark and the tests are callers.
