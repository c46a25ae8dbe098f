---------------------------- MODULE ShardRouting ----------------------------
(***************************************************************************)
(* How ShardedKVEngine (src/include/sharded_kv_engine.h) places keys: the  *)
(* ranges it computes at the start, the shard that put, get and erase use, *)
(* and the shards that a range query looks into.                           *)
(*                                                                         *)
(* A key is a string of bytes, seen as the sequence of its fields: a       *)
(* serialised SpatialKey3D is <<layer, lod, code, timestamp>>, all fields  *)
(* big-endian, so memcmp compares field by field.  A key of fewer fields   *)
(* stands for an ordinary string that is shorter than a spatial key, one   *)
(* of more for a spatial key with bytes behind it.                         *)
(***************************************************************************)
EXTENDS Naturals, Sequences

CONSTANTS
    MaxCode,    \* the largest Morton code, UINT64_MAX
    ShardNum    \* shard_num_

\* One shard divides by zero in GetShard: MaxCode + 1 is 0 in the code's width.
ASSUME RoutingAssumption ==
    /\ MaxCode \in Nat
    /\ ShardNum \in 2 .. MaxCode

Shard == 0 .. ShardNum - 1
SpatialFields == 4
-----------------------------------------------------------------------------
(* The order of std::string.                                               *)

StringLess(a, b) ==
    \/ /\ Len(a) < Len(b)
       /\ \A i \in DOMAIN a : a[i] = b[i]
    \/ \E i \in DOMAIN a \cap DOMAIN b :
          /\ a[i] < b[i]
          /\ \A j \in 1 .. i - 1 : a[j] = b[j]

StringLeq(a, b) == a = b \/ StringLess(a, b)
-----------------------------------------------------------------------------
(* InitUniformRanges.                                                      *)

Step == MaxCode \div ShardNum

\* The serialised spatial key of layer 1 and LOD 0 at which shard i begins.
Boundary(i) == <<1, 0, i * Step, 0>>

\* An empty bound is none: the first range has no start, the last no end.
StartKey(i) == IF i = 0 THEN <<>> ELSE Boundary(i)
EndKey(i) == IF i = ShardNum - 1 THEN <<>> ELSE Boundary(i + 1)

InRange(i, key) ==
    /\ StartKey(i) = <<>> \/ StringLeq(StartKey(i), key)
    /\ EndKey(i) = <<>> \/ StringLess(key, EndKey(i))
-----------------------------------------------------------------------------
(* GetShard.                                                               *)

\* The quotient, with the clamp to the last shard.
CodeShard(code) ==
    IF code \div (Step + 1) >= ShardNum THEN ShardNum - 1
    ELSE code \div (Step + 1)

\* The first range that holds a short key, else the last shard.
ScannedShard(key) ==
    LET hits == {i \in Shard : InRange(i, key)}
    IN  IF hits = {} THEN ShardNum - 1
        ELSE CHOOSE i \in hits : \A j \in hits : i <= j

\* A long key goes by its code alone: layer, LOD and timestamp do not count.
GetShard(key) ==
    IF Len(key) >= SpatialFields THEN CodeShard(key[3]) ELSE ScannedShard(key)
-----------------------------------------------------------------------------
(* The pruning of RangeQuery(lo, hi).                                      *)

\* (Mutant: the start of the interval compared with the start of the range.)
PrunedByStart(i, lo, hi) ==
    \/ EndKey(i) # <<>> /\ StringLeq(EndKey(i), lo)
    \/ StartKey(i) # <<>> /\ StringLess(lo, StartKey(i))

Pruned(i, lo, hi) ==
    \/ EndKey(i) # <<>> /\ StringLeq(EndKey(i), lo)
    \/ StartKey(i) # <<>> /\ StringLess(hi, StartKey(i))
=============================================================================
