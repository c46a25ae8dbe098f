----------------------------- MODULE TableFlush -----------------------------
(***************************************************************************)
(* From the MemTable to a file that is read: FlushMemTable (kv_engine.cpp)  *)
(* copies the skip list, adds the pairs to a builder, finishes and opens    *)
(* the file, then clears the list; the file is searched and scanned.  The   *)
(* engine's lock keeps other calls out of a flush, so only the end of the   *)
(* process falls between its steps.  Logs, numbers and the list of files    *)
(* are in module KVEngine.                                                  *)
(***************************************************************************)
EXTENDS SkipList, SSTableFile

VARIABLES
    pc,             \* "fill", "build", "built", "opened", "done"
    pending,        \* what is left of all_kv
    saved,          \* the pairs of the MemTable when the flush began
    lo,             \* lower bound of the scan: the target of Seek
    seen            \* what the scan has shown

vars == <<listVars, fileVars, pc, pending, saved, lo, seen>>
-----------------------------------------------------------------------------
NoScan == -1

Init ==
    /\ ListInit
    /\ FileInit
    /\ pc = "fill"
    /\ pending = <<>>
    /\ saved = {}
    /\ lo = NoScan
    /\ seen = <<>>

\* The calls of the list.  (The engine has no use for erase.)
Change ==
    /\ pc = "fill"
    /\ \/ \E k \in Key, e \in Entry : PutInList(k, e)
       \/ \E k \in Key : EraseFromList(k)
    /\ UNCHANGED <<fileVars, pc, pending, saved, lo, seen>>

\* FlushMemTable, unless the list is empty.
BeginFlush ==
    /\ pc = "fill"
    /\ count > 0
    /\ NewBuilder
    /\ pending' = DumpAll
    /\ saved' = Contents
    /\ pc' = "build"
    /\ UNCHANGED <<listVars, readerVars, cursor, lo, seen>>

AddNext ==
    /\ pc = "build"
    /\ pending # <<>>
    /\ Add(pending[1])
    /\ pending' = Tail(pending)
    /\ UNCHANGED <<listVars, readerVars, cursor, pc, saved, lo, seen>>

FinishFile ==
    /\ pc = "build"
    /\ pending = <<>>
    /\ Finish
    /\ pc' = "built"
    /\ UNCHANGED <<listVars, readerVars, cursor, pending, saved, lo, seen>>

\* Open may fail although the file is whole; the flush goes on without a reader.
OpenFile ==
    /\ pc = "built"
    /\ index' \in {OpenedIndex(file), NotOpen}
    /\ pc' = "opened"
    /\ UNCHANGED <<listVars, builderVars, bad, cursor, pending, saved, lo, seen>>

\* The end of FlushMemTable, whether or not the file could be opened.
ClearMemTable ==
    /\ pc = "opened"
    /\ ClearList
    /\ pc' = "done"
    /\ UNCHANGED <<fileVars, pending, saved, lo, seen>>

\* The process ends and starts again: of what it has written, or was about to
\* write, some part is in the file, the last item perhaps torn, and the restart
\* opens it.  A file that Finish has closed is whole.
PartsOf(items) ==
    {SubSeq(items, 1, n) : n \in 0 .. Len(items)} \cup
    {Append(SubSeq(items, 1, n), Torn) : n \in 0 .. Len(items) - 1}

FilesAfterCrash ==
    IF pc # "build" THEN {file}
    ELSE PartsOf(IF pending = <<>> THEN Finished.file ELSE file)

CrashAndRestart ==
    /\ pc \in {"build", "built", "opened"}
    /\ file' \in FilesAfterCrash
    /\ index' = OpenedIndex(file')
    /\ ClearList
    /\ buffer' = <<>> /\ lastKey' = NoKey /\ written' = <<>>
    /\ pending' = <<>>
    /\ pc' = "done"
    /\ UNCHANGED <<bad, cursor, saved, lo, seen>>

\* Before it is read, blocks of the open file may have become unreadable.
Damage ==
    /\ pc = "done" /\ IsOpen /\ bad = {} /\ lo = NoScan
    /\ bad' \in SUBSET Blocks
    /\ UNCHANGED <<listVars, builderVars, index, cursor, pc, pending, saved, lo, seen>>

\* A scan: an iterator is made, positioned perhaps, and advanced.
Shown(c) == IF c.valid THEN <<c.pair>> ELSE <<>>

BeginScan ==
    /\ pc = "done" /\ IsOpen
    /\ NewCursor
    /\ lo' = 0
    /\ seen' = Shown(cursor')
    /\ UNCHANGED <<listVars, builderVars, readerVars, pc, pending, saved>>

SeekScan ==
    /\ pc = "done" /\ IsOpen
    /\ \E target \in Key :
          /\ Seek(target)
          /\ lo' = target
    /\ seen' = Shown(cursor')
    /\ UNCHANGED <<listVars, builderVars, readerVars, pc, pending, saved>>

AdvanceScan ==
    /\ pc = "done"
    /\ NextEntry
    /\ seen' = seen \o Shown(cursor')
    /\ UNCHANGED <<listVars, builderVars, readerVars, pc, pending, saved, lo>>

Next ==
    \/ Change \/ BeginFlush \/ AddNext \/ FinishFile \/ OpenFile \/ ClearMemTable
    \/ CrashAndRestart \/ Damage \/ BeginScan \/ SeekScan \/ AdvanceScan

Spec == Init /\ [][Next]_vars
-----------------------------------------------------------------------------
(* Properties (LevelsLinked and MemTableReads are those of SkipList).      *)

\* Every variable keeps its type.
TypeOK ==
    /\ ListTypeOK
    /\ buffer \in Seq(Pair)
    /\ index # NotOpen => \A b \in Blocks : index[b].kind = "index"
    /\ bad \subseteq (IF IsOpen THEN Blocks ELSE {})
    /\ cursor.valid => cursor.pair \in Pair
    /\ pc \in {"fill", "build", "built", "opened", "done"}
    /\ pending \in Seq(Pair)
    /\ saved \subseteq Pair
    /\ seen \in Seq(Pair)

\* The pairs that a flush saved and that are in a block that can be read.
BadPairs ==
    {file[index[p[1]].offset + p[2]].pair :
        p \in {q \in bad \X (1 .. Len(file)) : q[2] <= index[q[1]].size}}
ReadablePairs == saved \ BadPairs

\* A block that cannot be read costs its own entries and no other: get finds every
\* key of the other blocks, with the entry of the MemTable (SSTableReader::Get).
GetLosesOnlyBadBlocks ==
    (pc = "done" /\ IsOpen) =>
        \A k \in Key : GetFromFile(k) = Lookup(ReadablePairs, k)

\* A scan shows, in order, the entries from its lower bound on that are in blocks
\* that can be read, each once, and when it ends it has shown them all: blocks are
\* crossed and skipped, at the start too (SSTableIterator::Seek, Next).
ScanLosesOnlyBadBlocks ==
    lo # NoScan =>
        LET expected == From(ReadablePairs, lo)
        IN  IF cursor.valid
            THEN /\ Last(seen) = cursor.pair
                 /\ IsInOrder(seen, UpTo(expected, cursor.pair.key))
            ELSE IsInOrder(seen, expected)

\* A flush that returned is told from a crash by its builder: the index it collected is
\* not empty and stays, that of a process that died is gone.
Stage ==
    CASE pc \in {"fill", "build", "built"} -> "before"
      [] pc = "opened" -> "tried"
      [] pc = "done" -> IF written = <<>> THEN "stopped" ELSE "flushed"

Flushed == INSTANCE FlushedTable WITH
    stage <- Stage,
    mem <- AsMap(Contents),
    table <- IF IsOpen
             THEN {[k \in {x \in Key : GetReading(x, {}) # Absent} |-> GetReading(k, {})]}
             ELSE {}

\* The flush does what it promises (FlushedTable): the file appears with all of the
\* MemTable or not at all, also after a crash, and the MemTable is cleared behind it, or
\* without it if Open has refused it.
FlushIsAtomic == Flushed!FlushSpec
=============================================================================
