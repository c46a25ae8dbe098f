----------------------------- MODULE RangeQuery -----------------------------
(***************************************************************************)
(* A range query over all shards (ShardedKVEngine::RangeQuery) beside the  *)
(* writes, flushes and compactions of the shards.  The query looks at one  *)
(* shard after the other, each under that shard's lock only; what it gets  *)
(* are copies and references that no later write touches.                  *)
(*                                                                         *)
(* What one engine does inside a flush or a compaction is KVEngine.tla, so *)
(* each operation of a shard is one step here.  That a merging iterator    *)
(* yields each key of its children once, in order and in its newest        *)
(* version is MergingIterator.tla, so the iterator of a shard, and the one *)
(* over the shards' iterators, is the set of the entries it has yet to     *)
(* yield.  A value is the number of the write that stored it, its index in *)
(* log.                                                                    *)
(***************************************************************************)
EXTENDS ShardRouting, FiniteSets, SequencesExt

CONSTANTS
    Key,        \* the keys that are written
    Bound,      \* the bounds that queries are called with
    MaxMem,     \* max_mem_nodes_
    MaxWrite,   \* bound: writes in a behaviour
    MaxFile     \* bound: file numbers a shard uses up

ASSUME QueryAssumption ==
    /\ Key \subseteq Seq(Nat)
    /\ Bound \subseteq Seq(Nat)
    /\ MaxMem \in Nat \ {0}
    /\ MaxWrite \in Nat
    /\ MaxFile \in Nat

VARIABLES
    log,        \* history: the writes accepted, in order
    mem,        \* mem[s]: MemTable of shard s, the write it holds for each key
    files,      \* files[s]: its sstables_, newest first
    counter,    \* counter[s]: its sst_counter_
    query       \* the thread in RangeQuery

vars == <<log, mem, files, counter, query>>
-----------------------------------------------------------------------------
(* Tables: the write held for each key, 0 for none.                        *)

WriteNum == 0 .. MaxWrite
Table == [Key -> WriteNum]
EmptyTable == [k \in Key |-> 0]
Held(table) == {k \in Key : table[k] # 0}
IsTombstone(w) == log[w].op = "erase"

File == [seq : 0 .. MaxFile, data : Table]

\* The write of k that shard s shows: of its MemTable, else of the file with the
\* highest sequence among those that hold k.
Slot(s, k) ==
    LET holders == {f \in ToSet(files[s]) : f.data[k] # 0}
        newest == CHOOSE f \in holders : \A g \in holders : f.seq >= g.seq
    IN  IF mem[s][k] # 0 THEN mem[s][k]
        ELSE IF holders = {} THEN 0 ELSE newest.data[k]

\* NewIterator: the newest entry of every key, tombstones included.
NewIterator(s) ==
    {[key |-> k, write |-> Slot(s, k)] : k \in {j \in Key : Slot(s, j) # 0}}
-----------------------------------------------------------------------------
(* The shards.                                                             *)

Idle == [pc |-> "idle", lo |-> <<>>, hi |-> <<>>, shard |-> 0,
         cut |-> [s \in Shard |-> 0], rest |-> {}, result |-> <<>>]

Init ==
    /\ log = <<>>
    /\ mem = [s \in Shard |-> EmptyTable]
    /\ files = [s \in Shard |-> <<>>]
    /\ counter = [s \in Shard |-> 0]
    /\ query = Idle

\* (Mutant: the counter is incremented for the path and for the sequence.)
FlushTableTwice(s, table) ==
    /\ counter[s] < MaxFile
    /\ counter' = [counter EXCEPT ![s] = @ + 2]
    /\ files' = [files EXCEPT ![s] = <<[seq |-> counter[s] + 2, data |-> table]>> \o @]
    /\ mem' = [mem EXCEPT ![s] = EmptyTable]

\* FlushMemTable of shard s, whose MemTable is the given table.
FlushTable(s, table) ==
    /\ counter[s] < MaxFile
    /\ counter' = [counter EXCEPT ![s] = @ + 1]
    /\ files' = [files EXCEPT ![s] = <<[seq |-> counter[s] + 1, data |-> table]>> \o @]
    /\ mem' = [mem EXCEPT ![s] = EmptyTable]

\* Put, Delete and Erase: one shard, chosen by GetShard; only put flushes.
Write(op, k) ==
    LET s == GetShard(k)
        table == [mem[s] EXCEPT ![k] = Len(log) + 1]
    IN  /\ Len(log) < MaxWrite
        /\ log' = Append(log, [op |-> op, key |-> k])
        /\ IF op = "put" /\ Cardinality(Held(table)) >= MaxMem
           THEN FlushTable(s, table)
           ELSE /\ mem' = [mem EXCEPT ![s] = table]
                /\ UNCHANGED <<files, counter>>
        /\ UNCHANGED query

ForceFlush(s) ==
    /\ Held(mem[s]) # {}
    /\ FlushTable(s, mem[s])
    /\ UNCHANGED <<log, query>>

\* What the files of s hold for k once merged: the newest, without tombstones.
Compacted(s) ==
    [k \in Key |->
        LET holders == {f \in ToSet(files[s]) : f.data[k] # 0}
            w == (CHOOSE f \in holders : \A g \in holders : f.seq >= g.seq).data[k]
        IN  IF holders = {} \/ IsTombstone(w) THEN 0 ELSE w]

\* Compact opens its file without a sequence, and cannot open an empty one.
Compact(s) ==
    /\ Len(files[s]) > 1
    /\ counter[s] < MaxFile
    /\ counter' = [counter EXCEPT ![s] = @ + 1]
    /\ files' = IF Held(Compacted(s)) = {} THEN files
                ELSE [files EXCEPT ![s] = <<[seq |-> 0, data |-> Compacted(s)]>>]
    /\ UNCHANGED <<log, mem, query>>
-----------------------------------------------------------------------------
(* The query.                                                              *)

Call(lo, hi) ==
    /\ query.pc = "idle"
    /\ query' = [query EXCEPT !.pc = "snapshot", !.lo = lo, !.hi = hi]
    /\ UNCHANGED <<log, mem, files, counter>>

\* The next range: pruned, or the iterator of its shard.
TakeShard ==
    LET s == query.shard IN
    /\ query.pc = "snapshot"
    /\ query' = [query EXCEPT
            !.shard = s + 1,
            !.cut[s] = Len(log),
            !.rest = IF Pruned(s, query.lo, query.hi) THEN @
                     ELSE @ \cup NewIterator(s),
            !.pc = IF s = ShardNum - 1 THEN "seek" ELSE "snapshot"]
    /\ UNCHANGED <<log, mem, files, counter>>

\* The global iterator and its Seek to the start of the interval.
SeekStart ==
    /\ query.pc = "seek"
    /\ query' = [query EXCEPT !.pc = "collect",
                     !.rest = {e \in @ : StringLeq(query.lo, e.key)}]
    /\ UNCHANGED <<log, mem, files, counter>>

\* (Mutant: a tombstone is passed over without the call of Next.)
CollectStuck ==
    /\ query.pc = "collect"
    /\ \/ /\ \A e \in query.rest : StringLess(query.hi, e.key)
          /\ query' = [query EXCEPT !.pc = "done", !.rest = {}]
       \/ \E e \in query.rest :
             /\ \A f \in query.rest : StringLeq(e.key, f.key)
             /\ StringLeq(e.key, query.hi)
             /\ query' = IF IsTombstone(e.write) THEN query
                         ELSE [query EXCEPT !.rest = @ \ {e}, !.result = Append(@, e)]
    /\ UNCHANGED <<log, mem, files, counter>>

\* One round of the loop: it ends when the iterator does or with the first key
\* behind the interval; a tombstone is passed over.
Collect ==
    /\ query.pc = "collect"
    /\ \/ /\ \A e \in query.rest : StringLess(query.hi, e.key)
          /\ query' = [query EXCEPT !.pc = "done", !.rest = {}]
       \/ \E e \in query.rest :
             /\ \A f \in query.rest : StringLeq(e.key, f.key)
             /\ StringLeq(e.key, query.hi)
             /\ query' = [query EXCEPT
                     !.rest = @ \ {e},
                     !.result = IF IsTombstone(e.write) THEN @ ELSE Append(@, e)]
    /\ UNCHANGED <<log, mem, files, counter>>

\* The caller takes the result, and may call again.
Return ==
    /\ query.pc = "done"
    /\ query' = Idle
    /\ UNCHANGED <<log, mem, files, counter>>

QueryStep == TakeShard \/ SeekStart \/ Collect \/ Return

Next ==
    \/ \E k \in Key : Write("put", k) \/ Write("erase", k)
    \/ \E s \in Shard : ForceFlush(s) \/ Compact(s)
    \/ \E lo, hi \in Bound : Call(lo, hi)
    \/ QueryStep

Spec == Init /\ [][Next]_vars

\* The thread inside RangeQuery is scheduled again and again.
FairSpec == Spec /\ WF_vars(QueryStep)
-----------------------------------------------------------------------------
(* Properties.                                                             *)

\* Every variable keeps its type; of the query, what the steps rely on.
TypeOK ==
    /\ log \in Seq([op : {"put", "erase"}, key : Key])
    /\ mem \in [Shard -> Table]
    /\ files \in [Shard -> Seq(File)]
    /\ counter \in [Shard -> 0 .. MaxFile]
    /\ query.pc \in {"idle", "snapshot", "seek", "collect", "done"}
    /\ query.cut \in [Shard -> 0 .. Len(log)]
    /\ \A i \in DOMAIN query.result : query.result[i].write \in DOMAIN log

\* The write a key answers with after the first n writes, 0 for "not found".
AnswerAfter(n, k) ==
    LET hits == {w \in 1 .. n : log[w].key = k}
        last == CHOOSE w \in hits : \A v \in hits : v <= w
    IN  IF hits = {} THEN 0 ELSE IF IsTombstone(last) THEN 0 ELSE last

\* What a query should show of k: its value when the query copied k's shard.
Live(k) == /\ StringLeq(query.lo, k) /\ StringLeq(k, query.hi)
           /\ AnswerAfter(query.cut[GetShard(k)], k) # 0

\* "Precise range query over the shards" (sharded_kv_engine.h:80): RangeQuery
\* returns every live key of the interval once, in ascending order, with the
\* value it had when the query copied the key's shard, and nothing else.  Each
\* of these moments lies between the call and the return; they need not be the
\* same for two shards.
QueryAnswers ==
    query.pc = "done" =>
        /\ \A i \in DOMAIN query.result :
              LET e == query.result[i]
              IN  Live(e.key) /\ e.write = AnswerAfter(query.cut[GetShard(e.key)], e.key)
        /\ \A k \in Key : Live(k) => \E i \in DOMAIN query.result : query.result[i].key = k
        /\ \A i, j \in DOMAIN query.result :
              i < j => StringLess(query.result[i].key, query.result[j].key)

\* A query ends, whatever the writers do meanwhile.
QueryReturns == (query.pc # "idle") ~> (query.pc = "idle")
=============================================================================
