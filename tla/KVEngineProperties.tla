------------------------- MODULE KVEngineProperties -------------------------
(***************************************************************************)
(* What KVEngine should guarantee.  The .cfg of each run names the ones it *)
(* checks; README.md says which schedules each of them survives.           *)
(***************************************************************************)
EXTENDS KVEngine

\* Every variable keeps its type, and no number leaves its range.
TypeOK ==
    /\ up \in BOOLEAN
    /\ skiplist \in Table
    /\ sstables \subseteq Reader
    /\ installed \in Nat
    /\ sst_counter \in 0 .. MaxFile
    /\ current_wal \in WalNum
    /\ flush \in FlushState
    /\ compact \in [Compactor -> CompactState]
    /\ sstFiles \in [SstNum -> SstFile]
    /\ walFiles \in [WalNum -> WalFile]
    /\ latest \in Table
    /\ writes \in 0 .. MaxWrite
    /\ crashes \in 0 .. MaxCrash
-----------------------------------------------------------------------------
(* Reads.                                                                  *)

\* A merging iterator, the reader that range queries use, yields for every key
\* its last accepted write, whatever flush and compaction are doing.
IteratorFresh ==
    up => \A k \in Key : Answer(IteratorSlot(k)) = Answer(latest[k])

\* get, which trusts the order of sstables_, does the same.
GetFresh ==
    LockFree => \A k \in Key : Answer(GetSlot(k)) = Answer(latest[k])

\* sstables_ is sorted from new to old (kv_engine.h:68): of two readers that
\* hold a key, the one nearer to the front has the newer entry.
NewestFirst ==
    \A r, s \in sstables : \A k \in Key :
        (Has(r.data, k) /\ Has(s.data, k) /\ r.rank > s.rank)
            => r.data[k].write >= s.data[k].write

\* Only the swap of a compaction, or a restart, may make get answer with an
\* older write than before.
SwapInstalls ==
    \E c \in Compactor : compact[c].pc = "swap" /\ compact'[c].pc = "delete"

ReadsMoveForward ==
    [][ \A k \in Key :
          (up /\ up' /\ ~SwapInstalls) => GetSlot(k)'.write >= GetSlot(k).write ]_vars

\* The engine implements the map its callers expect: the store is what an
\* iterator shows, or, while the process is down, what a restart will show.
KV == INSTANCE KVMap WITH
        store <- [k \in Key |-> Answer(IF up THEN IteratorSlot(k) ELSE RestartSlot(k))],
        clock <- writes

ImplementsMap == KV!MapSpec
-----------------------------------------------------------------------------
(* Files.                                                                  *)

\* A builder never truncates a file that exists: the number is a new one.
FreshFile ==
    /\ flush.pc = "path" => sstFiles[sst_counter].state = "missing"
    /\ \A c \in Compactor :
          compact[c].pc = "path" => sstFiles[sst_counter].state = "missing"

\* The smaller the number of a file, the older its entries (iterator.h:19): this
\* is the order in which a restart lists the files and an iterator ranks them.
NumberedByAge ==
    \A m, n \in SstNum : \A k \in Key :
        /\ m < n
        /\ sstFiles[m].state = "whole" /\ Has(sstFiles[m].data, k)
        /\ sstFiles[n].state = "whole" /\ Has(sstFiles[n].data, k)
        => sstFiles[m].data[k].write <= sstFiles[n].data[k].write

\* The log being written is a file a restart will find.
ActiveWalLinked == up => walFiles[current_wal].linked

\* While no flush is under way, replaying the active log rebuilds the MemTable.
WalMirrorsMemTable ==
    LockFree => \A k \in Key : ReplayedSlot(walFiles[current_wal].log, k) = skiplist[k]

\* If the process died now, the next one would answer with the last accepted
\* write of every key.
CrashNowIsSafe == \A k \in Key : Answer(RestartSlot(k)) = Answer(latest[k])
-----------------------------------------------------------------------------
(* Progress.                                                               *)

\* A data file that no reader, flush or compaction needs any more, because a
\* compaction replaced it, is eventually unlinked.
Referenced(n) ==
    \/ \E r \in sstables : r.file = n
    \/ flush.file = n
    \/ \E c \in Compactor : compact[c].pc \in {"merge", "swap"} /\ compact[c].file = n

NoGarbageForever ==
    \A n \in SstNum :
        (sstFiles[n].state = "whole" /\ ~Referenced(n)) ~> (sstFiles[n].state = "missing")

\* A flush gives the lock back, and a compaction ends although it needs the
\* lock that writers keep taking and although its file may fail to open.
EveryCallReturns ==
    /\ (flush.pc # "idle") ~> (flush.pc = "idle")
    /\ \A c \in Compactor : (compact[c].pc # "idle") ~> (compact[c].pc = "idle")
=============================================================================
