--------------------------- MODULE KVEngineReadInv ---------------------------
(***************************************************************************)
(* Why reads are fresh: an inductive invariant that implies IteratorFresh, *)
(* for one compaction that no flush overtakes while it increments the      *)
(* counter; and one that implies GetFresh as well, for any number of       *)
(* compactions that no flush overtakes at all and of which only one at a   *)
(* time is at the counter.                                                 *)
(***************************************************************************)
EXTENDS KVEngineProperties

\* The MemTable has the last write of the keys it holds.
MemTableLatest == \A k \in Key : Has(skiplist, k) => skiplist[k] = latest[k]

\* The newest of these readers that holds k has its last write; if none holds
\* k there is nothing to find.
Covers(readers, k) ==
    IF Holders(readers, k) = {}
    THEN latest[k].type # "put"
    ELSE \E r \in Holders(readers, k) :
            /\ r.data[k] = latest[k]
            /\ \A s \in Holders(readers, k) : s.seq <= r.seq

ReadersCover == \A k \in Key : ~Has(skiplist, k) => Covers(sstables, k)

\* No two readers share a file or a sequence.
Distinct ==
    \A r, s \in sstables : r.file = s.file \/ r.seq = s.seq => r = s

\* Nothing is numbered beyond the counters.
Numbered ==
    \A r \in sstables :
        r.file <= sst_counter /\ r.seq <= sst_counter /\ r.rank <= installed

\* A flush has a number above everything in use, and installs the MemTable.
FlushFresh ==
    /\ flush.pc = "store" => flush.reg = sst_counter
    /\ flush.pc \in {"path", "finish", "open"} =>
          /\ \A r \in sstables : r.file < sst_counter /\ r.seq < sst_counter
          /\ \A c \in Compactor :
                /\ compact[c].file < sst_counter
                /\ \A r \in compact[c].inputs : r.file < sst_counter
    /\ flush.pc \in {"finish", "open"} => flush.file = sst_counter
    /\ flush.pc = "open" => sstFiles[sst_counter] = WholeSst(skiplist)
    /\ flush.pc \in {"rotate", "remove"} =>
          \E r \in sstables : r.data = skiplist /\ \A s \in sstables \ {r} : s.seq < r.seq

\* The readers being merged are still listed, and whatever has been listed
\* since is newer.
Merging(c) == compact[c].pc \in {"load", "store", "path", "merge", "swap"}

CompactFresh(c) ==
    /\ compact[c].file <= sst_counter
    /\ \A r \in compact[c].inputs : r.file <= sst_counter /\ r.rank <= installed
    /\ compact[c].pc # "idle" => compact[c].inputs # {}
    /\ Merging(c) =>
          /\ compact[c].inputs \subseteq sstables
          /\ \A r \in compact[c].inputs, s \in sstables \ compact[c].inputs : r.seq < s.seq
    /\ compact[c].pc \in {"store", "path"} => flush.pc = "idle"
    /\ compact[c].pc = "store" => compact[c].reg = sst_counter
    /\ compact[c].pc = "path" => \A r \in sstables : r.file < sst_counter
    /\ compact[c].pc \in {"merge", "swap"} =>
          \A r \in sstables : r.file # compact[c].file
    /\ (compact[c].pc = "swap" /\ sstFiles[compact[c].file].state = "whole") =>
          sstFiles[compact[c].file].data = CompactedTable(compact[c].inputs)

\* All of it: what FlushMemTable and Compact rely on of each other so that a
\* reader with a higher sequence always has newer data.
ReadInv ==
    /\ up
    /\ MemTableLatest /\ ReadersCover
    /\ Distinct /\ Numbered
    /\ FlushFresh
    /\ \A c \in Compactor : CompactFresh(c)
-----------------------------------------------------------------------------
(* Compactions at the same time: they all merge to the same table.         *)

\* What get finds below the MemTable, and the table of what is found.
FrontSlot(k) ==
    IF Holders(sstables, k) = {} THEN NoSlot ELSE FrontMost(Holders(sstables, k)).data[k]
Live == [k \in Key |-> IF FrontSlot(k).type = "put" THEN FrontSlot(k) ELSE NoSlot]

\* The list is ordered: a reader further in front has the higher sequence, or the same
\* entries.
InOrder ==
    \A r, s \in sstables :
       /\ r.file = s.file \/ r.rank = s.rank => r = s
       /\ r.rank > s.rank => r.seq > s.seq \/ (r.seq = s.seq /\ r.data = s.data)
       /\ r.seq <= r.file

\* The MemTable has the last write of what it holds, the list that of the rest.
Beneath ==
    \A k \in Key : IF Has(skiplist, k) THEN skiplist[k] = latest[k]
                   ELSE Answer(FrontSlot(k)) = Answer(latest[k])

\* Nobody merges beside a flush, whose file has a number above those of all readers.
FlushAlone ==
    /\ flush.pc # "idle" => \A c \in Compactor : ~Merging(c)
    /\ flush.pc \in {"path", "finish", "open"} => \A r \in sstables : r.file < sst_counter
    /\ flush.pc \in {"finish", "open"} => flush.file = sst_counter

\* All that are merging write the same table, and those that are done have installed it.
Peer(c) ==
    Merging(c) =>
       /\ CompactedTable(compact[c].inputs) = Live
       /\ \A r \in sstables \ compact[c].inputs :
             /\ r.seq = 0 /\ r.data = Live
             /\ \A i \in compact[c].inputs : i.file # r.file

\* The file a compaction writes is nobody else's: true while only one compaction at a
\* time increments the counter (find_peer_numbers.cfg shows what two do to it).
Own(c) ==
    compact[c].pc \in {"merge", "swap"} =>
       /\ \A r \in sstables : r.file # compact[c].file
       /\ \A d \in Compactor \ {c} :
             /\ compact[d].pc \in {"merge", "swap"} => compact[d].file # compact[c].file
             /\ Merging(d) => \A i \in compact[d].inputs : i.file # compact[c].file
       /\ (compact[c].pc = "swap" /\ sstFiles[compact[c].file].state = "whole") =>
             sstFiles[compact[c].file].data = CompactedTable(compact[c].inputs)

\* All of it: compactions that started from the same data may install and remove it in
\* each other's way.
PeerInv == up /\ InOrder /\ Beneath /\ FlushAlone /\ \A c \in Compactor : Peer(c) /\ Own(c)
=============================================================================
