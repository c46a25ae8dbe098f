------------------------------ MODULE KVEngine ------------------------------
(***************************************************************************)
(* One KVEngine (src/src/kv_engine.cpp): the MemTable, the list of SSTable *)
(* readers, the write-ahead log, the flush that every writer may run while *)
(* it holds the exclusive lock, the compaction that runs mostly without    *)
(* the lock, and the files a new process finds after a crash.              *)
(*                                                                         *)
(* Granularity.  A critical section of rw_mutex_ that touches nothing an   *)
(* unlocked step can touch is one action (put, erase, the snapshot and the *)
(* swap of Compact).  FlushMemTable runs under the exclusive lock, but     *)
(* Compact increments sst_counter_ without it and a crash may come between *)
(* any two file operations, so a flush is a sequence of steps; the lock is *)
(* held exactly while flush.pc # "idle".                                   *)
(*                                                                         *)
(* Data.  A value is the number of the write that stored it, its stamp.    *)
(***************************************************************************)
EXTENDS Naturals, FiniteSets, FiniteSetsExt, Sequences

CONSTANTS
    Key,            \* keys
    Compactor,      \* threads that may be inside Compact at the same time
    MaxMem,         \* max_mem_nodes_
    MaxWrite,       \* bound: writes accepted in a behaviour
    MaxFile,        \* bound: largest SSTable number
    MaxCrash,       \* bound: crashes in a behaviour
    Overlap,        \* parts of a compaction during which a flush may run
    PeerRace,       \* may two compactions increment the counter at the same time?
    CrashPoint,     \* activities that a crash may interrupt
    DiskFault       \* what may fail: "flush", to write or open the file of a flush;
                    \* "compact", to write a merged file; "open", to open
                    \* one that is whole

ASSUME EngineAssumption ==
    /\ MaxMem \in Nat \ {0}
    /\ MaxWrite \in Nat
    /\ MaxFile \in Nat
    /\ MaxCrash \in Nat
    /\ IsFiniteSet(Key)
    /\ IsFiniteSet(Compactor)
    \* The program is the one with PeerRace and every part of Overlap, CrashPoint
    \* and DiskFault; less keeps the behaviours without those events.
    /\ PeerRace \in BOOLEAN
    /\ Overlap \subseteq {"snapshot", "counter", "build"}
    /\ CrashPoint \subseteq {"append", "torn", "flush", "compact", "delete"}
    /\ DiskFault \subseteq {"flush", "compact", "open"}

VARIABLES
    up,             \* is the process running?
    skiplist,       \* MemTable: what it holds for each key
    sstables,       \* readers of sstables_
    installed,      \* readers put in front of sstables_ so far
    sst_counter,    \* sst_counter_
    current_wal,    \* number in current_wal_path_
    flush,          \* FlushMemTable of the thread that holds the lock
    compact,        \* compact[c]: local state of thread c in Compact
    sstFiles,       \* sstFiles[n]: the file NNNNNN.sst
    walFiles,       \* walFiles[n]: the file wal_NNNNNN.log
    latest,         \* history: last write accepted for each key
    writes,         \* history: number of writes accepted
    crashes         \* history: number of crashes

memory == <<skiplist, sstables, installed, sst_counter, current_wal>>
disk == <<sstFiles, walFiles>>
history == <<latest, writes, crashes>>
vars == <<up, memory, flush, compact, disk, history>>
-----------------------------------------------------------------------------
(* Slots, tables, files.                                                   *)

SstNum == 1 .. MaxFile
WalNum == 1 .. MaxFile + 1

\* What a table holds for a key: nothing, a value, or a tombstone.
Slot == [type : {"none", "put", "erase"}, write : 0 .. MaxWrite]
NoSlot == [type |-> "none", write |-> 0]
Table == [Key -> Slot]
EmptyTable == [k \in Key |-> NoSlot]
Has(table, k) == table[k].type # "none"
TableSize(table) == Cardinality({k \in Key : Has(table, k)})

\* What a caller is told: the stamp of the value, or 0 for "not found".
Answer(slot) == IF slot.type = "put" THEN slot.write ELSE 0

\* "broken": SSTableReader::Open refuses it (empty, cut short, bad footer).
SstFile == [state : {"missing", "broken", "whole"}, data : Table]
MissingSst == [state |-> "missing", data |-> EmptyTable]
BrokenSst == [state |-> "broken", data |-> EmptyTable]
WholeSst(table) == [state |-> "whole", data |-> table]

\* A record whose header or payload is incomplete has the type "torn".
LogRecord == [type : {"put", "erase", "torn"}, key : Key, write : 0 .. MaxWrite]
WalFile == [linked : BOOLEAN, log : Seq(LogRecord)]
MissingWal == [linked |-> FALSE, log |-> <<>>]

\* An open reader keeps its file readable after the file is unlinked.  rank is
\* its distance from the back of sstables_: readers are only put in front.
Reader == [file : SstNum, seq : 0 .. MaxFile, rank : Nat, data : Table]

\* Where the thread in FlushMemTable is; reg holds the counter it has loaded,
\* then the number of the log to remove.
FlushState ==
    [pc : {"idle", "load", "store", "path", "finish", "open", "rotate", "remove"},
     reg : 0 .. MaxFile + 1, file : 0 .. MaxFile]

\* Where a thread in Compact is, and the readers it merges or has yet to delete.
CompactState ==
    [pc : {"idle", "load", "store", "path", "merge", "swap", "delete"},
     inputs : SUBSET Reader, reg : 0 .. MaxFile, file : 0 .. MaxFile]

IdleFlush == [pc |-> "idle", reg |-> 0, file |-> 0]
IdleCompact == [pc |-> "idle", inputs |-> {}, reg |-> 0, file |-> 0]

LockFree == up /\ flush.pc = "idle"
-----------------------------------------------------------------------------
(* Reading: get, the merging iterator, and what a restart would find.      *)

Holders(readers, k) == {r \in readers : Has(r.data, k)}

\* SSTables are searched from sstables_[0] on: the first holder decides.
FrontMost(readers) == CHOOSE r \in readers : \A s \in readers : s.rank <= r.rank

\* (Mutant: the comparison of HeapItem the wrong way round.)
LowestSeq(readers) == CHOOSE r \in readers : \A s \in readers : s.seq >= r.seq

\* Entries of one key come out of the merge heap by descending sequence.
HighestSeq(readers) == CHOOSE r \in readers : \A s \in readers : s.seq <= r.seq

GetSlot(k) ==
    IF Has(skiplist, k) THEN skiplist[k]
    ELSE IF Holders(sstables, k) = {} THEN NoSlot
    ELSE FrontMost(Holders(sstables, k)).data[k]

\* The entry a MergingIterator over these readers keeps for k.
MergedSlot(readers, k) ==
    IF Holders(readers, k) = {} THEN NoSlot
    ELSE HighestSeq(Holders(readers, k)).data[k]

\* NewIterator gives the MemTable the sequence SIZE_MAX.
IteratorSlot(k) ==
    IF Has(skiplist, k) THEN skiplist[k] ELSE MergedSlot(sstables, k)

\* Compact writes the newest entry of each key and drops tombstones.
CompactedTable(readers) ==
    [k \in Key |-> IF MergedSlot(readers, k).type = "put"
                   THEN MergedSlot(readers, k) ELSE NoSlot]

\* (Mutant: replay keeps the first record of a key.)
FirstReplayedSlot(log, k) ==
    LET hits == {i \in DOMAIN log : log[i].key = k /\ log[i].type # "torn"}
    IN  IF hits = {} THEN NoSlot
        ELSE [type |-> log[Min(hits)].type, write |-> log[Min(hits)].write]

\* Recover stops at the first torn record; the last record of a key wins.
Replayable(log, k) ==
    {i \in DOMAIN log : log[i].key = k /\ \A j \in 1 .. i : log[j].type # "torn"}
ReplayedSlot(log, k) ==
    IF Replayable(log, k) = {} THEN NoSlot
    ELSE LET last == log[Max(Replayable(log, k))]
         IN  [type |-> last.type, write |-> last.write]

\* RecoverAllWals replays every log file in ascending order.
RecoveredMemTable(wals) ==
    [k \in Key |->
        LET logs == {n \in WalNum : wals[n].linked /\ Replayable(wals[n].log, k) # {}}
        IN  IF logs = {} THEN NoSlot ELSE ReplayedSlot(wals[Max(logs)].log, k)]

\* (Mutants: Open without a sequence; broken files not counted; files counted
\* instead of taking the largest number.)
LoadedReadersUnnumbered(ssts) ==
    {[file |-> n, seq |-> 0, rank |-> n, data |-> ssts[n].data] :
        n \in {m \in SstNum : ssts[m].state = "whole"}}
LoadedCounterOfWhole(ssts) == Max({0} \cup {n \in SstNum : ssts[n].state = "whole"})
LoadedCounterByCount(ssts) == Cardinality({n \in SstNum : ssts[n].state # "missing"})

\* LoadExistingSSTables: the number in a file's name is its sequence and its
\* place in the list; a file that Open refuses is skipped, its number is not.
LoadedReaders(ssts) ==
    {[file |-> n, seq |-> n, rank |-> n, data |-> ssts[n].data] :
        n \in {m \in SstNum : ssts[m].state = "whole"}}
LoadedCounter(ssts) == Max({0} \cup {n \in SstNum : ssts[n].state # "missing"})

\* What a process started on the present files would answer for k.
RestartSlot(k) ==
    IF Has(RecoveredMemTable(walFiles), k) THEN RecoveredMemTable(walFiles)[k]
    ELSE MergedSlot(LoadedReaders(sstFiles), k)
-----------------------------------------------------------------------------
(* Which part of Compact a thread is in, and what may run beside it.       *)

CompactPart(pc) ==
    CASE pc = "load" -> "snapshot"
      [] pc \in {"store", "path"} -> "counter"
      [] pc \in {"merge", "swap"} -> "build"
      [] pc = "delete" -> "delete"
      [] pc = "idle" -> "idle"

FlushMayRun ==
    \A c \in Compactor :
        CompactPart(compact[c].pc) \in Overlap \cup {"idle", "delete"}

\* The two switches: a flush beside this part, another compaction at the counter.
MayEnter(c, pc) ==
    /\ flush.pc = "idle" \/ CompactPart(pc) \in Overlap
    /\ PeerRace \/ CompactPart(pc) # "counter"
          \/ \A d \in Compactor \ {c} : CompactPart(compact[d].pc) # "counter"

\* Bound: numbers are left for the file of every activity already started.
NumbersLeft == sst_counter + Cardinality(Compactor) < MaxFile
-----------------------------------------------------------------------------
(* Initially: a new process on an empty directory.                         *)

Init ==
    /\ up = TRUE
    /\ skiplist = EmptyTable
    /\ sstables = {}
    /\ installed = 0
    /\ sst_counter = 0
    /\ current_wal = 1
    /\ flush = IdleFlush
    /\ compact = [c \in Compactor |-> IdleCompact]
    /\ sstFiles = [n \in SstNum |-> MissingSst]
    /\ walFiles = [n \in WalNum |-> [linked |-> n = 1, log |-> <<>>]]
    /\ latest = EmptyTable
    /\ writes = 0
    /\ crashes = 0
-----------------------------------------------------------------------------
(* Writers.                                                                *)

\* Append goes to the open stream: lost if the file has been unlinked.
AppendRecord(record) ==
    walFiles' = IF walFiles[current_wal].linked
                THEN [walFiles EXCEPT ![current_wal].log = Append(@, record)]
                ELSE walFiles

Accept(op, k) ==
    /\ writes < MaxWrite
    /\ writes' = writes + 1
    /\ latest' = [latest EXCEPT ![k] = [type |-> op, write |-> writes + 1]]
    /\ AppendRecord([type |-> op, key |-> k, write |-> writes + 1])

Put(k) ==
    /\ LockFree
    /\ Accept("put", k)
    /\ skiplist' = [skiplist EXCEPT ![k] = [type |-> "put", write |-> writes + 1]]
    /\ IF TableSize(skiplist') >= MaxMem
       THEN /\ FlushMayRun
            /\ NumbersLeft
            /\ flush' = [flush EXCEPT !.pc = "load"]
       ELSE flush' = flush
    /\ UNCHANGED <<up, sstables, installed, sst_counter, current_wal, compact,
                   sstFiles, crashes>>

\* erase never checks the size of the MemTable.
Erase(k) ==
    /\ LockFree
    /\ Accept("erase", k)
    /\ skiplist' = [skiplist EXCEPT ![k] = [type |-> "erase", write |-> writes + 1]]
    /\ UNCHANGED <<up, sstables, installed, sst_counter, current_wal, flush,
                   compact, sstFiles, crashes>>

ForceFlush ==
    /\ LockFree
    /\ TableSize(skiplist) # 0
    /\ FlushMayRun
    /\ NumbersLeft
    /\ flush' = [flush EXCEPT !.pc = "load"]
    /\ UNCHANGED <<up, memory, compact, disk, history>>
-----------------------------------------------------------------------------
(* FlushMemTable, under the exclusive lock of its caller.                  *)

\* ++sst_counter_: the load and the store of a plain size_t.
FlushLoad ==
    /\ flush.pc = "load"
    /\ sst_counter < MaxFile
    /\ flush' = [flush EXCEPT !.pc = "store", !.reg = sst_counter]
    /\ UNCHANGED <<up, memory, compact, disk, history>>

FlushStore ==
    /\ flush.pc = "store"
    /\ sst_counter' = flush.reg + 1
    /\ flush' = [flush EXCEPT !.pc = "path", !.reg = 0]
    /\ UNCHANGED <<up, skiplist, sstables, installed, current_wal, compact, disk,
                   history>>

\* The builder's constructor creates, or truncates, the file.
FlushCreate ==
    /\ flush.pc = "path"
    /\ sstFiles' = [sstFiles EXCEPT ![sst_counter] = BrokenSst]
    /\ flush' = [flush EXCEPT !.pc = "finish", !.file = sst_counter]
    /\ UNCHANGED <<up, memory, compact, walFiles, history>>

\* Add for every entry of the MemTable, then Finish; its result is ignored.
FlushFinish ==
    /\ flush.pc = "finish"
    /\ \E ok \in BOOLEAN :
          /\ ~ok => "flush" \in DiskFault
          /\ sstFiles' = [sstFiles EXCEPT ![flush.file] =
                             IF ok THEN WholeSst(skiplist) ELSE BrokenSst]
    /\ flush' = [flush EXCEPT !.pc = "open"]
    /\ UNCHANGED <<up, memory, compact, walFiles, history>>

\* (Mutant: push_back instead of insertion at the front.)
FlushOpenAtBack ==
    /\ flush.pc = "open"
    /\ sstables' = sstables \cup
           {[file |-> flush.file, seq |-> sst_counter, rank |-> 0,
             data |-> sstFiles[flush.file].data]}
    /\ flush' = [flush EXCEPT !.pc = "rotate", !.file = 0]
    /\ UNCHANGED <<up, skiplist, installed, sst_counter, current_wal, compact,
                   disk, history>>

\* (Mutant: Open without a sequence, as Compact calls it.)
FlushOpenUnnumbered ==
    /\ flush.pc = "open"
    /\ IF sstFiles[flush.file].state = "whole"
       THEN /\ sstables' = sstables \cup
                  {[file |-> flush.file, seq |-> 0,
                    rank |-> installed + 1, data |-> sstFiles[flush.file].data]}
            /\ installed' = installed + 1
       ELSE UNCHANGED <<sstables, installed>>
    /\ flush' = [flush EXCEPT !.pc = "rotate", !.file = 0]
    /\ UNCHANGED <<up, skiplist, sst_counter, current_wal, compact, disk, history>>

\* The reader's sequence is sst_counter_ as it is now.  Without a reader the flush
\* goes on all the same.
FlushOpen ==
    /\ flush.pc = "open"
    /\ \/ /\ sstFiles[flush.file].state = "whole"
          /\ sstables' = sstables \cup
                {[file |-> flush.file, seq |-> sst_counter,
                  rank |-> installed + 1, data |-> sstFiles[flush.file].data]}
          /\ installed' = installed + 1
       \/ /\ sstFiles[flush.file].state = "whole" => "flush" \in DiskFault
          /\ UNCHANGED <<sstables, installed>>
    /\ flush' = [flush EXCEPT !.pc = "rotate", !.file = 0]
    /\ UNCHANGED <<up, skiplist, sst_counter, current_wal, compact, disk, history>>

\* A new log file is opened; the number of the old one is kept for the removal.
FlushRotate ==
    /\ flush.pc = "rotate"
    /\ current_wal' = sst_counter + 1
    /\ walFiles' = [walFiles EXCEPT ![sst_counter + 1].linked = TRUE]
    /\ flush' = [flush EXCEPT !.pc = "remove", !.reg = current_wal]
    /\ UNCHANGED <<up, skiplist, sstables, installed, sst_counter, compact,
                   sstFiles, history>>

\* (Mutant: the log removed is the new one.)
FlushRemoveNew ==
    /\ flush.pc = "remove"
    /\ skiplist' = EmptyTable
    /\ walFiles' = [walFiles EXCEPT ![current_wal] = MissingWal]
    /\ flush' = IdleFlush
    /\ UNCHANGED <<up, sstables, installed, sst_counter, current_wal, compact,
                   sstFiles, history>>

\* skiplist_.clear() and RemoveWalFile(old); then the caller unlocks.
FlushRemove ==
    /\ flush.pc = "remove"
    /\ skiplist' = EmptyTable
    /\ walFiles' = [walFiles EXCEPT ![flush.reg] = MissingWal]
    /\ flush' = IdleFlush
    /\ UNCHANGED <<up, sstables, installed, sst_counter, current_wal, compact,
                   sstFiles, history>>

FlushStep ==
    \/ FlushLoad \/ FlushStore \/ FlushCreate \/ FlushFinish
    \/ FlushOpen \/ FlushRotate \/ FlushRemove
-----------------------------------------------------------------------------
(* Compact, by thread c.                                                   *)

\* Stage 1, under the shared lock: the readers to merge.
CompactSnapshot(c) ==
    /\ LockFree
    /\ compact[c].pc = "idle"
    /\ Cardinality(sstables) > 1
    /\ NumbersLeft
    /\ MayEnter(c, "load")
    /\ compact' = [compact EXCEPT ![c].pc = "load", ![c].inputs = sstables]
    /\ UNCHANGED <<up, memory, flush, disk, history>>

\* Stage 2, without the lock: ++sst_counter_ ...
CompactLoad(c) ==
    /\ compact[c].pc = "load"
    /\ MayEnter(c, "store")
    /\ sst_counter < MaxFile
    /\ compact' = [compact EXCEPT ![c].pc = "store", ![c].reg = sst_counter]
    /\ UNCHANGED <<up, memory, flush, disk, history>>

\* (Mutant: the path is made with a second increment, GetSstPath(++sst_counter_).)
CompactStoreTwice(c) ==
    /\ compact[c].pc = "store"
    /\ MayEnter(c, "path")
    /\ sst_counter' = compact[c].reg + 2
    /\ compact' = [compact EXCEPT ![c].pc = "path", ![c].reg = 0]
    /\ UNCHANGED <<up, skiplist, sstables, installed, current_wal, flush, disk,
                   history>>

CompactStore(c) ==
    /\ compact[c].pc = "store"
    /\ MayEnter(c, "path")
    /\ sst_counter' = compact[c].reg + 1
    /\ compact' = [compact EXCEPT ![c].pc = "path", ![c].reg = 0]
    /\ UNCHANGED <<up, skiplist, sstables, installed, current_wal, flush, disk,
                   history>>

\* ... then GetSstPath(sst_counter_) and the builder's constructor ...
CompactCreate(c) ==
    /\ compact[c].pc = "path"
    /\ MayEnter(c, "merge")
    /\ sstFiles' = [sstFiles EXCEPT ![sst_counter] = BrokenSst]
    /\ compact' = [compact EXCEPT ![c].pc = "merge", ![c].file = sst_counter]
    /\ UNCHANGED <<up, memory, flush, walFiles, history>>

\* ... then the merge and Finish, which writes nothing for an empty table.
CompactFinish(c) ==
    /\ compact[c].pc = "merge"
    /\ MayEnter(c, "swap")
    /\ LET merged == CompactedTable(compact[c].inputs)
       IN  \E ok \in BOOLEAN :
              /\ ~ok => "compact" \in DiskFault
              /\ sstFiles' = [sstFiles EXCEPT ![compact[c].file] =
                     IF ok /\ merged # EmptyTable THEN WholeSst(merged) ELSE BrokenSst]
    /\ compact' = [compact EXCEPT ![c].pc = "swap"]
    /\ UNCHANGED <<up, memory, flush, walFiles, history>>

\* (Mutant: a failed Open makes Compact merge again.)
CompactTryAgain(c) ==
    /\ compact[c].pc = "swap"
    /\ sstFiles[compact[c].file].state # "whole"
    /\ compact' = [compact EXCEPT ![c].pc = "merge"]
    /\ UNCHANGED <<up, memory, flush, disk, history>>

\* Open fails: Compact returns; the readers, their files and the new one stay.
CompactGiveUp(c) ==
    /\ compact[c].pc = "swap"
    /\ sstFiles[compact[c].file].state = "whole" => "open" \in DiskFault
    /\ compact' = [compact EXCEPT ![c] = IdleCompact]
    /\ UNCHANGED <<up, memory, flush, disk, history>>

\* Stage 3, under the exclusive lock: the merged reader goes in front, with
\* Open's default sequence 0, and replaces the readers with an input's path.
CompactSwap(c) ==
    LET file == compact[c].file
        old == {r.file : r \in compact[c].inputs}
    IN  /\ LockFree
        /\ compact[c].pc = "swap"
        /\ sstFiles[file].state = "whole"
        /\ sstables' = {r \in sstables : r.file \notin old} \cup
              {[file |-> file, seq |-> 0, rank |-> installed + 1,
                data |-> sstFiles[file].data]}
        /\ installed' = installed + 1
        /\ compact' = [compact EXCEPT ![c].pc = "delete"]
        /\ UNCHANGED <<up, skiplist, sst_counter, current_wal, flush, disk, history>>

\* (Mutant: only the first of the old files is removed.)
CompactDeleteOne(c) ==
    /\ compact[c].pc = "delete"
    /\ sstFiles' = [sstFiles EXCEPT ![FrontMost(compact[c].inputs).file] = MissingSst]
    /\ compact' = [compact EXCEPT ![c] = IdleCompact]
    /\ UNCHANGED <<up, memory, flush, walFiles, history>>

\* Stage 4, without the lock: the inputs' files go one by one, front to back.
CompactDelete(c) ==
    LET next == FrontMost(compact[c].inputs)
        rest == compact[c].inputs \ {next}
    IN  /\ compact[c].pc = "delete"
        /\ sstFiles' = IF next.file = compact[c].file THEN sstFiles
                       ELSE [sstFiles EXCEPT ![next.file] = MissingSst]
        /\ compact' = [compact EXCEPT ![c] =
                          IF rest = {} THEN IdleCompact ELSE [@ EXCEPT !.inputs = rest]]
        /\ UNCHANGED <<up, memory, flush, walFiles, history>>

CompactStep(c) ==
    \/ CompactLoad(c) \/ CompactStore(c) \/ CompactCreate(c) \/ CompactFinish(c)
    \/ CompactGiveUp(c) \/ CompactSwap(c) \/ CompactDelete(c)
-----------------------------------------------------------------------------
(* The process dies; what it had handed to the kernel stays in the files.  *)

CrashMayHit ==
    /\ up
    /\ crashes < MaxCrash
    /\ flush.pc # "idle" => "flush" \in CrashPoint
    /\ \A c \in Compactor :
          CASE compact[c].pc = "idle" -> TRUE
            [] compact[c].pc = "delete" -> "delete" \in CrashPoint
            [] OTHER -> "compact" \in CrashPoint

LoseMemory ==
    /\ up' = FALSE
    /\ crashes' = crashes + 1
    /\ skiplist' = EmptyTable
    /\ sstables' = {}
    /\ installed' = 0
    /\ sst_counter' = 0
    /\ current_wal' = 1
    /\ flush' = IdleFlush
    /\ compact' = [c \in Compactor |-> IdleCompact]

\* Between two operations on files; also the orderly end in ~KVEngine, which
\* closes the log and leaves the MemTable unflushed.
Crash ==
    /\ CrashMayHit
    /\ LoseMemory
    /\ UNCHANGED <<disk, latest, writes>>

\* Inside put or erase: the record is complete but was never acknowledged ...
CrashAfterAppend(op, k) ==
    /\ LockFree
    /\ "append" \in CrashPoint
    /\ CrashMayHit
    /\ Accept(op, k)
    /\ LoseMemory
    /\ UNCHANGED sstFiles

\* ... or only part of it has been written.
CrashInsideAppend(k) ==
    /\ LockFree
    /\ "torn" \in CrashPoint
    /\ CrashMayHit
    /\ AppendRecord([type |-> "torn", key |-> k, write |-> 0])
    /\ LoseMemory
    /\ UNCHANGED <<sstFiles, latest, writes>>

\* (Mutant: the log is opened with std::ios::trunc.)
StartTruncating ==
    /\ ~up
    /\ up' = TRUE
    /\ sst_counter' = LoadedCounter(sstFiles)
    /\ sstables' = LoadedReaders(sstFiles)
    /\ installed' = LoadedCounter(sstFiles)
    /\ skiplist' = RecoveredMemTable(walFiles)
    /\ current_wal' = LoadedCounter(sstFiles) + 1
    /\ walFiles' = [walFiles EXCEPT ![LoadedCounter(sstFiles) + 1] =
                        [linked |-> TRUE, log |-> <<>>]]
    /\ UNCHANGED <<flush, compact, sstFiles, history>>

\* The constructor, before the engine serves anyone.
Start ==
    /\ ~up
    /\ up' = TRUE
    /\ sst_counter' = LoadedCounter(sstFiles)
    /\ sstables' = LoadedReaders(sstFiles)
    /\ installed' = LoadedCounter(sstFiles)
    /\ skiplist' = RecoveredMemTable(walFiles)
    /\ current_wal' = LoadedCounter(sstFiles) + 1
    /\ walFiles' = [walFiles EXCEPT ![LoadedCounter(sstFiles) + 1].linked = TRUE]
    /\ UNCHANGED <<flush, compact, sstFiles, history>>
-----------------------------------------------------------------------------
Client == (\E k \in Key : Put(k) \/ Erase(k)) \/ ForceFlush

Failure ==
    \/ Crash
    \/ \E k \in Key : CrashInsideAppend(k) \/ \E op \in {"put", "erase"} : CrashAfterAppend(op, k)

Next ==
    \/ Client
    \/ FlushStep
    \/ \E c \in Compactor : CompactSnapshot(c) \/ CompactStep(c)
    \/ Failure
    \/ Start

Spec == Init /\ [][Next]_vars

\* A thread inside FlushMemTable or Compact is scheduled again and again, and
\* one that waits for the lock gets it; nobody is obliged to call anything.
Fairness ==
    /\ WF_vars(FlushStep)
    /\ \A c \in Compactor : WF_vars(CompactStep(c))

FairSpec == Spec /\ Fairness
=============================================================================
