-------------------------- MODULE RangeQueryProofs --------------------------
(***************************************************************************)
(* A range query returns nothing wrong, for every number of shards, keys,  *)
(* writes and files, and it loses nothing if the ranges hold the spatial   *)
(* keys that GetShard places in them; which keys these are.                *)
(***************************************************************************)
EXTENDS RangeQuery, TLAPS, Extremes, SequenceTheorems

-----------------------------------------------------------------------------
(* The order of std::string is a total order.                              *)

\* No string is less than itself.
LEMMA LessIrreflexive ==
    ASSUME NEW a \in Seq(Nat)
    PROVE  ~StringLess(a, a)
BY DEF StringLess

\* What the next two lemmas use of strings.
LEMMA StringTypes ==
    ASSUME NEW a \in Seq(Nat)
    PROVE  /\ Len(a) \in Nat
           /\ \A i : i \in DOMAIN a <=> i \in Nat /\ 1 <= i /\ i <= Len(a)
           /\ \A i \in DOMAIN a : a[i] \in Nat
OBVIOUS

\* Of two strings that differ one is less.
LEMMA LessTotal ==
    ASSUME NEW a \in Seq(Nat), NEW b \in Seq(Nat), a # b
    PROVE  StringLess(a, b) \/ StringLess(b, a)
<1> DEFINE Differ == {i \in DOMAIN a \cap DOMAIN b : a[i] # b[i]}
<1>1. CASE Differ # {}
  <2>1. PICK m \in Differ : \A i \in Differ : m <= i
    <3>1. Differ \in SUBSET Nat
      BY StringTypes
    <3> HIDE DEF Differ
    <3> QED BY <1>1, <3>1, LeastExists
  <2>2. ASSUME NEW j \in 1 .. m - 1 PROVE a[j] = b[j]
    <3>1. m \in Nat /\ m <= Len(a) /\ m <= Len(b) /\ Len(a) \in Nat /\ Len(b) \in Nat
      BY <2>1, StringTypes
    <3>2. j \in Nat /\ 1 <= j /\ j <= Len(a) /\ j <= Len(b) /\ ~(m <= j)
      BY <3>1
    <3>3. j \in DOMAIN a \cap DOMAIN b
      BY <3>2, StringTypes
    <3> QED BY <2>1, <3>2, <3>3
  <2>3. m \in DOMAIN a \cap DOMAIN b /\ (a[m] < b[m] \/ b[m] < a[m])
    BY <2>1, StringTypes
  <2> QED BY <2>2, <2>3 DEF StringLess
<1>2. CASE Differ = {}
  <2>1. \A i \in DOMAIN a \cap DOMAIN b : a[i] = b[i]
    BY <1>2
  <2>2. Len(a) # Len(b)
    BY <2>1, SeqEqual
  <2>3. CASE Len(a) < Len(b)
    <3>1. \A i \in DOMAIN a : i \in DOMAIN b
      BY <2>3, StringTypes
    <3> QED BY <2>1, <2>3, <3>1 DEF StringLess
  <2>4. CASE Len(b) < Len(a)
    <3>1. \A i \in DOMAIN b : i \in DOMAIN a
      BY <2>4, StringTypes
    <3> QED BY <2>1, <2>4, <3>1 DEF StringLess
  <2> QED BY <2>2, <2>3, <2>4, StringTypes
<1> QED BY <1>1, <1>2

\* What is less than a lesser string is less: at the first place where one of the two pairs
\* differs, or because it is shorter.
LEMMA LessTransitive ==
    ASSUME NEW a \in Seq(Nat), NEW b \in Seq(Nat), NEW c \in Seq(Nat),
           StringLess(a, b), StringLess(b, c)
    PROVE  StringLess(a, c)
<1> DEFINE Shorter(u, v) == Len(u) < Len(v) /\ \A i \in DOMAIN u : u[i] = v[i]
           First(u, v, i) == /\ i \in DOMAIN u /\ i \in DOMAIN v /\ u[i] < v[i]
                             /\ \A j \in 1 .. i - 1 : u[j] = v[j]
<1>1. /\ Shorter(a, b) \/ \E i \in DOMAIN a \cap DOMAIN b : First(a, b, i)
      /\ Shorter(b, c) \/ \E i \in DOMAIN b \cap DOMAIN c : First(b, c, i)
  BY DEF StringLess
<1>2. Shorter(a, c) \/ (\E i : First(a, c, i)) => StringLess(a, c)
  BY DEF StringLess
<1>3. ASSUME Shorter(a, b), Shorter(b, c) PROVE Shorter(a, c)
  <2>1. \A i \in DOMAIN a : i \in DOMAIN b
    BY <1>3, StringTypes
  <2> QED BY <1>3, <2>1, StringTypes
<1>4. ASSUME Shorter(a, b), NEW i \in DOMAIN b \cap DOMAIN c, First(b, c, i)
      PROVE  Shorter(a, c) \/ First(a, c, i)
  <2>1. i \in Nat /\ i <= Len(c) /\ Len(a) \in Nat /\ Len(c) \in Nat
    BY StringTypes
  <2>2. CASE i <= Len(a)
    <3>1. i \in DOMAIN a /\ \A j \in 1 .. i - 1 : j \in DOMAIN a
      <4>1. \A j \in 1 .. i : j \in Nat /\ 1 <= j /\ j <= Len(a)
        BY <2>1, <2>2
      <4>2. 1 <= i /\ \A j \in 1 .. i - 1 : j \in 1 .. i
        BY <2>1, StringTypes
      <4> QED BY <2>1, <2>2, <4>1, <4>2, StringTypes
    <3> QED BY <1>4, <3>1
  <2>3. CASE Len(a) < i
    <3>1. \A j \in DOMAIN a : j \in 1 .. i - 1
      <4>1. \A j \in DOMAIN a : j \in Nat /\ 1 <= j /\ j <= Len(a)
        BY StringTypes
      <4> QED BY <2>1, <2>3, <4>1
    <3>2. Len(a) < Len(c)
      BY <2>1, <2>3
    <3> QED BY <1>4, <3>1, <3>2
  <2> QED BY <2>1, <2>2, <2>3
<1>5. ASSUME NEW i \in DOMAIN a \cap DOMAIN b, First(a, b, i), Shorter(b, c)
      PROVE  First(a, c, i)
  <2>1. i \in DOMAIN c /\ \A j \in 1 .. i - 1 : j \in DOMAIN b
    <3>1. i \in Nat /\ 1 <= i /\ i <= Len(b) /\ Len(b) \in Nat /\ Len(c) \in Nat
      BY StringTypes
    <3>2. i <= Len(c) /\ \A j \in 1 .. i - 1 : j \in Nat /\ 1 <= j /\ j <= Len(b)
      BY <1>5, <3>1
    <3> QED BY <3>1, <3>2, StringTypes
  <2> QED BY <1>5, <2>1
<1>6. ASSUME NEW i \in DOMAIN a \cap DOMAIN b, First(a, b, i),
             NEW k \in DOMAIN b \cap DOMAIN c, First(b, c, k)
      PROVE  First(a, c, i) \/ First(a, c, k)
  <2>0. /\ i \in Nat /\ 1 <= i /\ i <= Len(a) /\ k \in Nat /\ 1 <= k /\ k <= Len(c)
        /\ Len(a) \in Nat /\ Len(c) \in Nat
        /\ a[i] \in Nat /\ b[i] \in Nat /\ b[k] \in Nat /\ c[k] \in Nat
    BY StringTypes
  <2>1. CASE i < k
    <3>1. i \in 1 .. k - 1 /\ \A j \in 1 .. i - 1 : j \in 1 .. k - 1
      BY <2>0, <2>1
    <3>2. i <= Len(c)
      BY <2>0, <2>1
    <3>3. i \in DOMAIN c
      BY <2>0, <3>2, StringTypes
    <3> QED BY <1>6, <3>1, <3>3
  <2>2. CASE i = k
    <3>1. a[i] < c[i]
      BY <1>6, <2>0, <2>2
    <3> QED BY <1>6, <2>2, <3>1
  <2>3. CASE k < i
    <3>1. k \in 1 .. i - 1 /\ \A j \in 1 .. k - 1 : j \in 1 .. i - 1
      BY <2>0, <2>3
    <3>2. k <= Len(a)
      BY <2>0, <2>3
    <3>3. k \in DOMAIN a
      BY <2>0, <3>2, StringTypes
    <3> QED BY <1>6, <3>1, <3>3
  <2> QED BY <2>0, <2>1, <2>2, <2>3
<1> HIDE DEF Shorter, First
<1> QED BY <1>1, <1>2, <1>3, <1>4, <1>5, <1>6
-----------------------------------------------------------------------------
(* Routing.                                                                *)

\* Ranges and GetShard agree on the spatial keys that are written.  Of keys that are none
\* this need not be said, see ShortKeyInRange.
SpatialKeysAgree ==
    \A k \in Key : Len(k) >= SpatialFields => InRange(CodeShard(k[3]), k)

\* The types of the routing.
LEMMA RoutingTypes ==
    /\ Step \in Nat /\ ShardNum \in Nat /\ ShardNum >= 2
    /\ \A i \in Shard : StartKey(i) \in Seq(Nat) /\ EndKey(i) \in Seq(Nat)
    /\ \A code \in Nat : CodeShard(code) \in Shard
<1>1. MaxCode \in Nat /\ ShardNum \in Nat /\ ShardNum >= 2
  BY RoutingAssumption
<1>2. Step \in Nat
  BY <1>1 DEF Step
<1>3. ASSUME NEW i \in Nat PROVE Boundary(i) \in Seq(Nat)
  <2>1. i * Step \in Nat
    BY <1>2
  <2> QED BY <2>1 DEF Boundary
<1>4. ASSUME NEW i \in Shard PROVE StartKey(i) \in Seq(Nat) /\ EndKey(i) \in Seq(Nat)
  <2>1. i \in Nat /\ i + 1 \in Nat
    BY <1>1 DEF Shard
  <2>2. <<>> \in Seq(Nat)
    OBVIOUS
  <2> QED BY <1>3, <2>1, <2>2 DEF StartKey, EndKey
<1>5. ASSUME NEW code \in Nat PROVE CodeShard(code) \in Shard
  <2>1. code \div (Step + 1) \in Nat
    BY <1>2
  <2> QED BY <1>1, <2>1 DEF CodeShard, Shard
<1> QED BY <1>1, <1>2, <1>4, <1>5

\* The ranges leave no string out: the last one that begins no later holds it.
LEMMA EveryStringInRange ==
    ASSUME NEW k \in Seq(Nat)
    PROVE  \E i \in Shard : InRange(i, k)
<1> DEFINE Begun == {i \in Shard : StartKey(i) = <<>> \/ StringLeq(StartKey(i), k)}
<1>1. PICK last \in Begun : \A i \in Begun : i <= last
  <2>1. ShardNum \in Nat /\ \A i \in Shard : i \in Nat /\ i <= ShardNum
    BY RoutingTypes DEF Shard
  <2>2. 0 \in Begun
    BY RoutingTypes DEF Shard, StartKey
  <2>3. Begun \in SUBSET Nat /\ Begun # {} /\ \A i \in Begun : i <= ShardNum
    BY <2>1, <2>2
  <2> HIDE DEF Begun
  <2> QED BY <2>1, <2>3, GreatestExists
<1>2. ASSUME last # ShardNum - 1 PROVE StringLess(k, EndKey(last))
  <2>1. last \in Nat /\ last + 1 \in Shard /\ ~(last + 1 <= last) /\ last + 1 # 0
    BY <1>2, RoutingTypes DEF Shard
  <2>2. last + 1 \notin Begun
    BY <1>1, <2>1
  <2>3. ~StringLeq(StartKey(last + 1), k) /\ StartKey(last + 1) \in Seq(Nat)
    BY <2>1, <2>2, RoutingTypes
  <2>4. StartKey(last + 1) = EndKey(last)
    BY <1>2, <2>1 DEF StartKey, EndKey
  <2> QED BY <2>3, <2>4, LessTotal DEF StringLeq
<1>3. last = ShardNum - 1 => EndKey(last) = <<>>
  BY DEF EndKey
<1> QED BY <1>1, <1>2, <1>3 DEF InRange

\* A short key is stored in a shard whose range holds it.
LEMMA ShortKeyInRange ==
    ASSUME NEW k \in Seq(Nat)
    PROVE  ScannedShard(k) \in Shard /\ InRange(ScannedShard(k), k)
<1> DEFINE hits == {i \in Shard : InRange(i, k)}
<1>1. hits \in SUBSET Nat /\ hits # {}
  BY EveryStringInRange DEF Shard
<1>2. \E i \in hits : \A j \in hits : i <= j
  <2> HIDE DEF hits
  <2> QED BY <1>1, LeastExists
<1>3. ScannedShard(k) \in hits
  BY <1>1, <1>2 DEF ScannedShard
<1> QED BY <1>3

\* Every key has a shard, and if spatial keys are where the ranges say, so is every key.
LEMMA KeysRouted ==
    ASSUME NEW k \in Key
    PROVE  /\ GetShard(k) \in Shard
           /\ SpatialKeysAgree => InRange(GetShard(k), k)
<1>1. k \in Seq(Nat)
  BY QueryAssumption
<1>2. CASE Len(k) >= SpatialFields
  <2>1. k[3] \in Nat
    BY <1>1, <1>2 DEF SpatialFields
  <2> QED BY <1>2, <2>1, RoutingTypes DEF GetShard, SpatialKeysAgree
<1>3. CASE ~(Len(k) >= SpatialFields)
  BY <1>1, <1>3, ShortKeyInRange DEF GetShard
<1> QED BY <1>2, <1>3

\* A shard that is pruned has no key of the interval.
LEMMA PrunedIsEmpty ==
    ASSUME SpatialKeysAgree, NEW k \in Key, NEW lo \in Seq(Nat), NEW hi \in Seq(Nat),
           StringLeq(lo, k), StringLeq(k, hi)
    PROVE  ~Pruned(GetShard(k), lo, hi)
<1> DEFINE s == GetShard(k)
<1>1. s \in Shard /\ InRange(s, k) /\ k \in Seq(Nat)
  BY KeysRouted, QueryAssumption
<1>2. StartKey(s) \in Seq(Nat) /\ EndKey(s) \in Seq(Nat)
  BY <1>1, RoutingTypes
<1>3. ASSUME EndKey(s) # <<>>, StringLeq(EndKey(s), lo) PROVE FALSE
  <2>1. StringLess(k, EndKey(s))
    BY <1>1, <1>3 DEF InRange
  <2>2. StringLess(k, lo)
    <3> HIDE DEF s
    <3> QED BY <1>1, <1>2, <1>3, <2>1, LessTransitive DEF StringLeq
  <2>3. StringLess(k, k)
    BY <1>1, <2>2, LessTransitive DEF StringLeq
  <2> QED BY <1>1, <2>3, LessIrreflexive
<1>4. ASSUME StartKey(s) # <<>>, StringLess(hi, StartKey(s)) PROVE FALSE
  <2>1. StringLeq(StartKey(s), k)
    BY <1>1, <1>4 DEF InRange
  <2>2. StringLess(hi, k)
    <3> HIDE DEF s
    <3> QED BY <1>1, <1>2, <1>4, <2>1, LessTransitive DEF StringLeq
  <2>3. StringLess(k, k)
    BY <1>1, <2>2, LessTransitive DEF StringLeq
  <2> QED BY <1>1, <2>3, LessIrreflexive
<1> QED BY <1>3, <1>4 DEF Pruned

-----------------------------------------------------------------------------
(* What a shard shows.                                                     *)

\* The write of k in the newest of these files, and of those among them that hold k.
NewestOf(holders, k) ==
    IF holders = {} THEN 0
    ELSE (CHOOSE f \in holders : \A g \in holders : f.seq >= g.seq).data[k]

FileWrite(readers, k) == NewestOf({f \in readers : f.data[k] # 0}, k)

SeqsApart(readers) == \A f, g \in readers : f.seq = g.seq => f = g

\* The newest file is the one its sequence says.
LEMMA NewestWrite ==
    ASSUME NEW readers \in SUBSET File, SeqsApart(readers), NEW k \in Key,
           NEW f \in readers, f.data[k] # 0,
           \A g \in readers : g.data[k] # 0 => f.seq >= g.seq
    PROVE  FileWrite(readers, k) = f.data[k]
<1> DEFINE holders == {g \in readers : g.data[k] # 0}
<1>1. \A g \in holders : (\A h \in holders : g.seq >= h.seq) => g = f
  BY QueryAssumption DEF SeqsApart, File
<1>2. (CHOOSE g \in holders : \A h \in holders : g.seq >= h.seq) = f
  BY <1>1
<1> QED BY <1>2 DEF FileWrite, NewestOf

\* If a file holds k there is a newest one that does.
LEMMA NewestExists ==
    ASSUME NEW readers \in SUBSET File, NEW k \in Key, \E f \in readers : f.data[k] # 0
    PROVE  \E f \in readers : f.data[k] # 0 /\ \A g \in readers : g.data[k] # 0 => f.seq >= g.seq
<1> DEFINE seqs == {f.seq : f \in {g \in readers : g.data[k] # 0}}
<1>1. seqs \in SUBSET Nat /\ seqs # {} /\ \A n \in seqs : n <= MaxFile
  BY QueryAssumption DEF File
<1>2. PICK m \in seqs : \A n \in seqs : n <= m
  <2> HIDE DEF seqs
  <2> QED BY <1>1, QueryAssumption, GreatestExists
<1>3. PICK f \in readers : f.data[k] # 0 /\ f.seq = m
  BY <1>2
<1>4. \A g \in readers : g.data[k] # 0 => f.seq >= g.seq
  BY <1>1, <1>2, <1>3
<1> QED BY <1>3, <1>4

\* What files show is in one of them, and nothing only if none has it.
LEMMA FileWriteHeld ==
    ASSUME NEW readers \in SUBSET File, SeqsApart(readers), NEW k \in Key
    PROVE  /\ FileWrite(readers, k) = 0 <=> \A f \in readers : f.data[k] = 0
           /\ FileWrite(readers, k) # 0 => \E f \in readers : f.data[k] = FileWrite(readers, k)
<1>1. CASE \E f \in readers : f.data[k] # 0
  <2>1. PICK f \in readers :
            f.data[k] # 0 /\ \A g \in readers : g.data[k] # 0 => f.seq >= g.seq
    BY <1>1, NewestExists
  <2>2. FileWrite(readers, k) = f.data[k]
    BY <2>1, NewestWrite
  <2> QED BY <2>1, <2>2
<1>2. CASE \A f \in readers : f.data[k] = 0
  BY <1>2 DEF FileWrite, NewestOf
<1> QED BY <1>1, <1>2

\* One file more, with the highest sequence.
Younger(all, new, readers) ==
    all = {new} \cup readers /\ \A g \in readers : g.seq < new.seq

\* A younger file hides the others where it has an entry, and nothing elsewhere.
LEMMA YoungerFile ==
    ASSUME NEW readers \in SUBSET File, NEW new \in File, NEW k \in Key,
           SeqsApart(readers), NEW all, Younger(all, new, readers)
    PROVE  /\ SeqsApart(all)
           /\ FileWrite(all, k) = IF new.data[k] # 0 THEN new.data[k] ELSE FileWrite(readers, k)
<1>0. /\ new.seq \in Nat /\ \A g \in readers : g.seq \in Nat
      /\ all = {new} \cup readers /\ all \in SUBSET File
      /\ \A g \in readers : g.seq < new.seq
  BY QueryAssumption DEF File, Younger
<1>1. SeqsApart(all)
  BY <1>0 DEF SeqsApart
<1>2. CASE new.data[k] # 0
  <2>1. new \in all /\ \A g \in all : g.data[k] # 0 => new.seq >= g.seq
    BY <1>0
  <2>2. FileWrite(all, k) = new.data[k]
    BY <1>0, <1>1, <1>2, <2>1, NewestWrite
  <2> QED BY <1>1, <1>2, <2>2
<1>3. CASE new.data[k] = 0
  <2>1. {f \in all : f.data[k] # 0} = {f \in readers : f.data[k] # 0}
    BY <1>0, <1>3
  <2>2. FileWrite(all, k) = FileWrite(readers, k)
    BY <2>1 DEF FileWrite
  <2> QED BY <1>1, <1>3, <2>2
<1> QED BY <1>2, <1>3

\* What one file shows.
LEMMA OneFile ==
    ASSUME NEW f \in File, NEW k \in Key
    PROVE  SeqsApart({f}) /\ FileWrite({f}, k) = f.data[k]
<1>1. SeqsApart({f}) /\ {f} \in SUBSET File
  BY DEF SeqsApart
<1> QED BY <1>1, FileWriteHeld

\* A shard shows what its MemTable has, and what its files show of the rest.
LEMMA SlotIs ==
    ASSUME NEW s \in Shard, NEW k \in Key
    PROVE  Slot(s, k) = IF mem[s][k] # 0 THEN mem[s][k] ELSE FileWrite(ToSet(files[s]), k)
BY DEF Slot, FileWrite, NewestOf

\* The files of a list with one more in front.
LEMMA PrependedFile ==
    ASSUME NEW fs \in Seq(File), NEW f \in File
    PROVE  /\ <<f>> \o fs \in Seq(File) /\ ToSet(<<f>> \o fs) = {f} \cup ToSet(fs)
           /\ <<f>> \in Seq(File) /\ ToSet(<<f>>) = {f} /\ ToSet(fs) \in SUBSET File
<1> DEFINE both == <<f>> \o fs
<1>1. <<f>> \in Seq(File) /\ Len(<<f>>) = 1 /\ <<f>>[1] = f
  OBVIOUS
<1>2. /\ both \in Seq(File) /\ Len(both) = 1 + Len(fs)
      /\ \A i \in 1 .. 1 + Len(fs) : both[i] = IF i <= 1 THEN f ELSE fs[i - 1]
  BY <1>1, ConcatProperties
<1>3. Len(fs) \in Nat /\ DOMAIN fs = 1 .. Len(fs) /\ DOMAIN both = 1 .. 1 + Len(fs)
  BY <1>2, LenProperties
<1>4. \A i \in DOMAIN both : both[i] = f \/ \E j \in DOMAIN fs : both[i] = fs[j]
  <2> HIDE DEF both
  <2> TAKE i \in DOMAIN both
  <2>1. i = 1 \/ i - 1 \in 1 .. Len(fs)
    BY <1>3
  <2> QED BY <1>2, <1>3, <2>1
<1>5. both[1] = f /\ 1 \in DOMAIN both
  BY <1>2, <1>3
<1>6. ASSUME NEW j \in DOMAIN fs PROVE j + 1 \in DOMAIN both /\ both[j + 1] = fs[j]
  <2> HIDE DEF both
  <2>1. j \in Nat /\ j + 1 \in 1 .. 1 + Len(fs) /\ ~(j + 1 <= 1) /\ (j + 1) - 1 = j
    BY <1>3
  <2> QED BY <1>2, <1>3, <2>1
<1>7. ToSet(both) = {f} \cup ToSet(fs)
  <2> HIDE DEF both
  <2> QED BY <1>4, <1>5, <1>6 DEF ToSet
<1>8. ToSet(<<f>>) = {f}
  BY DEF ToSet
<1>9. ToSet(fs) \in SUBSET File
  BY DEF ToSet
<1> QED BY <1>1, <1>2, <1>7, <1>8, <1>9

-----------------------------------------------------------------------------
(* What the writes so far answer.                                          *)

Op == [op : {"put", "erase"}, key : Key]

\* What a reader sees of a write it finds, the writes of a key among the first n, and what
\* they answer; for any sequence of writes, so that it can be that of the next state.
Shown(writes, w) == IF w = 0 \/ writes[w].op = "erase" THEN 0 ELSE w
Hits(writes, n, k) == {w \in 1 .. n : writes[w].key = k}
LastHit(hits) == CHOOSE w \in hits : \A v \in hits : v <= w
Answer(writes, n, k) ==
    IF Hits(writes, n, k) = {} THEN 0 ELSE Shown(writes, LastHit(Hits(writes, n, k)))

\* A greatest element is the last hit.
LEMMA LastHitIs ==
    ASSUME NEW hits \in SUBSET Nat, NEW w \in hits, \A v \in hits : v <= w
    PROVE  LastHit(hits) = w
<1>1. \A u \in hits : (\A v \in hits : v <= u) => u = w
  OBVIOUS
<1> QED BY <1>1 DEF LastHit

\* A key that was written has a last write.
LEMMA LastHitHeld ==
    ASSUME NEW n \in Nat, NEW hits \in SUBSET (1 .. n), hits # {}
    PROVE  LastHit(hits) \in hits
<1>1. hits \in SUBSET Nat /\ \A w \in hits : w <= n
  OBVIOUS
<1>2. PICK m \in hits : \A w \in hits : w <= m
  BY <1>1, GreatestExists
<1> QED BY <1>1, <1>2, LastHitIs

\* The specification's answer is this one.
LEMMA AnswerIs ==
    /\ \A n \in Nat, k \in Key : AnswerAfter(n, k) = Answer(log, n, k)
    /\ \A n \in Nat, k \in Key : AnswerAfter(n, k)' = Answer(log', n, k)
<1>1. ASSUME NEW writes, NEW n \in Nat, NEW k \in Key, Hits(writes, n, k) # {}
      PROVE  LastHit(Hits(writes, n, k)) # 0
  <2>1. Hits(writes, n, k) \in SUBSET (1 .. n)
    BY DEF Hits
  <2>2. LastHit(Hits(writes, n, k)) \in Hits(writes, n, k)
    BY <1>1, <2>1, LastHitHeld
  <2>3. LastHit(Hits(writes, n, k)) \in 1 .. n
    BY <2>1, <2>2
  <2> QED BY <2>3
<1>2. \A n \in Nat, k \in Key : AnswerAfter(n, k) = Answer(log, n, k)
  BY <1>1 DEF AnswerAfter, IsTombstone, Answer, Hits, LastHit, Shown
<1>3. \A n \in Nat, k \in Key : AnswerAfter(n, k)' = Answer(log', n, k)
  BY <1>1 DEF AnswerAfter, IsTombstone, Answer, Hits, LastHit, Shown
<1> QED BY <1>2, <1>3

\* The log before and after a write of k.
Logs(old, new, k) ==
    old \in Seq(Op) /\ \E e \in Op : e.key = k /\ new = Append(old, e)

\* One more write changes what is answered after it, and only of its key.
LEMMA WriteLogged ==
    ASSUME NEW old, NEW new, NEW k \in Key, Logs(old, new, k)
    PROVE  /\ new \in Seq(Op) /\ Len(new) = Len(old) + 1
           /\ \A w \in 0 .. Len(old) : Shown(new, w) = Shown(old, w)
           /\ \A n \in 0 .. Len(old) : \A j \in Key : Answer(new, n, j) = Answer(old, n, j)
           /\ \A j \in Key : Answer(new, Len(new), j) =
                 IF j = k THEN Shown(new, Len(new)) ELSE Answer(old, Len(old), j)
<1>0. old \in Seq(Op) /\ Len(old) \in Nat
  BY LenProperties DEF Logs
<1>1. /\ new \in Seq(Op) /\ Len(new) = Len(old) + 1
      /\ \A w \in 1 .. Len(old) : new[w] = old[w]
      /\ new[Len(old) + 1].key = k
  BY <1>0 DEF Logs
<1>2. \A w \in 0 .. Len(old) : Shown(new, w) = Shown(old, w)
  <2> TAKE w \in 0 .. Len(old)
  <2>1. w = 0 \/ w \in 1 .. Len(old)
    BY <1>0
  <2> QED BY <1>1, <2>1 DEF Shown
<1>3. ASSUME NEW n \in 0 .. Len(old), NEW m \in Nat, NEW j \in Key,
             Hits(new, m, j) = Hits(old, n, j)
      PROVE  Answer(new, m, j) = Answer(old, n, j)
  <2>1. CASE Hits(old, n, j) = {}
    BY <1>3, <2>1 DEF Answer
  <2>2. CASE Hits(old, n, j) # {}
    <3>1. Hits(old, n, j) \in SUBSET (1 .. n) /\ n \in Nat
      BY <1>0 DEF Hits
    <3>2. LastHit(Hits(old, n, j)) \in 1 .. n
      BY <2>2, <3>1, LastHitHeld
    <3>3. LastHit(Hits(old, n, j)) \in 0 .. Len(old)
      BY <1>0, <3>2
    <3> QED BY <1>2, <1>3, <2>2, <3>3 DEF Answer
  <2> QED BY <2>1, <2>2
<1>4. ASSUME NEW n \in 0 .. Len(old), NEW j \in Key
      PROVE  Answer(new, n, j) = Answer(old, n, j)
  <2>1. Hits(new, n, j) = Hits(old, n, j) /\ n \in Nat
    BY <1>0, <1>1 DEF Hits
  <2> QED BY <1>3, <2>1
<1>5. ASSUME NEW j \in Key, j # k
      PROVE  Answer(new, Len(old) + 1, j) = Answer(old, Len(old), j)
  <2>1. Hits(new, Len(old) + 1, j) = Hits(old, Len(old), j)
    <3>1. \A w \in 1 .. Len(old) + 1 : w = Len(old) + 1 \/ w \in 1 .. Len(old)
      BY <1>0
    <3>2. \A w \in 1 .. Len(old) : w \in 1 .. Len(old) + 1
      BY <1>0
    <3> QED BY <1>1, <1>5, <3>1, <3>2 DEF Hits
  <2> QED BY <1>0, <1>3, <2>1
<1>6. Answer(new, Len(old) + 1, k) = Shown(new, Len(old) + 1)
  <2> DEFINE hits == Hits(new, Len(old) + 1, k)
  <2>1. hits \in SUBSET Nat /\ Len(old) + 1 \in hits /\ \A v \in hits : v <= Len(old) + 1
    BY <1>0, <1>1 DEF Hits
  <2>2. LastHit(hits) = Len(old) + 1 /\ hits # {}
    <3> HIDE DEF hits
    <3> QED BY <2>1, LastHitIs
  <2> QED BY <2>2 DEF Answer
<1>7. \A j \in Key : Answer(new, Len(new), j) =
         IF j = k THEN Shown(new, Len(new)) ELSE Answer(old, Len(old), j)
  BY <1>1, <1>5, <1>6
<1> QED BY <1>1, <1>2, <1>4, <1>7

-----------------------------------------------------------------------------
(* The shards hold what was written.                                       *)

SlotOf(table, readers, k) == IF table[k] # 0 THEN table[k] ELSE FileWrite(readers, k)

\* A shard with this MemTable, these files and this counter, when there have been total
\* writes: its files are told apart by their sequences, and it has only keys of its own.
ShardOK(s, table, readers, count, total) ==
    /\ SeqsApart(readers) /\ \A f \in readers : f.seq <= count
    /\ \A k \in Key : table[k] <= total /\ (table[k] # 0 => GetShard(k) = s)
    /\ \A f \in readers : \A k \in Key :
          f.data[k] <= total /\ (f.data[k] # 0 => GetShard(k) = s)

StoreTypes ==
    /\ log \in Seq(Op) /\ Len(log) <= MaxWrite
    /\ mem \in [Shard -> Table]
    /\ files \in [Shard -> Seq(File)]
    /\ counter \in [Shard -> 0 .. MaxFile]

ShardsOK == \A s \in Shard : ShardOK(s, mem[s], ToSet(files[s]), counter[s], Len(log))

\* Each key's own shard shows its last write, or nothing where that was an erase.
ShowsLast ==
    \A k \in Key : Shown(log, SlotOf(mem[GetShard(k)], ToSet(files[GetShard(k)]), k))
                      = Answer(log, Len(log), k)

StoreInv == StoreTypes /\ ShardsOK /\ ShowsLast

\* What a shard shows is a write of a key of its own.
LEMMA SlotHeld ==
    ASSUME NEW s \in Shard, NEW table \in Table, NEW readers \in SUBSET File, NEW count,
           NEW total \in Nat, ShardOK(s, table, readers, count, total), NEW k \in Key
    PROVE  /\ SlotOf(table, readers, k) \in 0 .. total
           /\ SlotOf(table, readers, k) # 0 => GetShard(k) = s
<1>1. table[k] \in Nat /\ \A f \in readers : f.data[k] \in Nat
  BY QueryAssumption DEF Table, File, WriteNum
<1>2. FileWrite(readers, k) # 0 => \E f \in readers : f.data[k] = FileWrite(readers, k)
  BY FileWriteHeld DEF ShardOK
<1>3. CASE table[k] # 0
  BY <1>1, <1>3 DEF ShardOK, SlotOf
<1>4. CASE table[k] = 0 /\ FileWrite(readers, k) # 0
  BY <1>1, <1>2, <1>4 DEF ShardOK, SlotOf
<1>5. CASE table[k] = 0 /\ FileWrite(readers, k) = 0
  BY <1>5 DEF SlotOf
<1> QED BY <1>3, <1>4, <1>5

\* A table before and after the write w of k.
Overwritten(old, new, k, w) == \A j \in Key : new[j] = IF j = k THEN w ELSE old[j]

\* A write leaves a shard with keys of its own only.
LEMMA WrittenShard ==
    ASSUME NEW s \in Shard, NEW table \in Table, NEW readers \in SUBSET File, NEW count,
           NEW total \in Nat, total < MaxWrite, ShardOK(s, table, readers, count, total),
           NEW k \in Key, GetShard(k) = s, NEW new \in Table,
           Overwritten(table, new, k, total + 1)
    PROVE  ShardOK(s, new, readers, count, total + 1)
<1>1. \A j \in Key : /\ table[j] \in Nat
                     /\ \A f \in readers : f.data[j] \in Nat
                     /\ new[j] = IF j = k THEN total + 1 ELSE table[j]
  BY QueryAssumption DEF Table, File, WriteNum, Overwritten
<1> QED BY <1>1 DEF ShardOK

\* A list of files before and after the flush of a table as number n.
Prepended(old, new, n, table) ==
    \E f \in File : f.seq = n /\ f.data = table /\ new = <<f>> \o old

\* A flush moves the MemTable into the newest file; the shard shows what it showed.
LEMMA FlushedShard ==
    ASSUME NEW s \in Shard, NEW table \in Table, NEW fs \in Seq(File),
           NEW count \in 0 .. MaxFile, count < MaxFile, NEW total \in Nat,
           ShardOK(s, table, ToSet(fs), count, total),
           NEW new, Prepended(fs, new, count + 1, table)
    PROVE  /\ new \in Seq(File) /\ count + 1 \in 0 .. MaxFile /\ EmptyTable \in Table
           /\ ShardOK(s, EmptyTable, ToSet(new), count + 1, total)
           /\ \A k \in Key : SlotOf(EmptyTable, ToSet(new), k) = SlotOf(table, ToSet(fs), k)
<1>1. count + 1 \in 0 .. MaxFile /\ count \in Nat
  BY QueryAssumption
<1>0. PICK f \in File : f.seq = count + 1 /\ f.data = table /\ new = <<f>> \o fs
  BY DEF Prepended
<1>2. /\ new \in Seq(File) /\ ToSet(new) = {f} \cup ToSet(fs) /\ ToSet(fs) \in SUBSET File
      /\ f.seq = count + 1 /\ f.data = table
  BY <1>0, PrependedFile
<1>3. EmptyTable \in Table /\ \A k \in Key : EmptyTable[k] = 0
  BY QueryAssumption DEF EmptyTable, Table, WriteNum
<1>4. \A g \in ToSet(fs) : g.seq < f.seq /\ g.seq <= count + 1
  <2>1. \A g \in ToSet(fs) : g.seq \in Nat /\ g.seq <= count
    BY <1>2, QueryAssumption DEF File, ShardOK
  <2> QED BY <1>1, <1>2, <2>1
<1>5. \A k \in Key : /\ SeqsApart(ToSet(new))
                     /\ FileWrite(ToSet(new), k) =
                           IF table[k] # 0 THEN table[k] ELSE FileWrite(ToSet(fs), k)
  <2> TAKE k \in Key
  <2>1. SeqsApart(ToSet(fs)) /\ Younger(ToSet(new), f, ToSet(fs))
    BY <1>2, <1>4 DEF ShardOK, Younger
  <2> QED BY <1>2, <1>4, <2>1, YoungerFile
<1>6. SeqsApart(ToSet(new))
  <2>1. \A g \in ToSet(fs) : g.seq # f.seq
    BY <1>1, <1>2, <1>4, QueryAssumption DEF File
  <2> QED BY <1>2, <2>1 DEF SeqsApart, ShardOK
<1>7. ShardOK(s, EmptyTable, ToSet(new), count + 1, total)
  <2>1. \A g \in ToSet(new) : g.seq <= count + 1
    BY <1>1, <1>2, <1>4
  <2>2. \A g \in ToSet(new) : \A k \in Key :
           g.data[k] <= total /\ (g.data[k] # 0 => GetShard(k) = s)
    <3>1. \A k \in Key : f.data[k] <= total /\ (f.data[k] # 0 => GetShard(k) = s)
      BY <1>2 DEF ShardOK
    <3> QED BY <1>2, <3>1 DEF ShardOK
  <2>3. \A k \in Key : EmptyTable[k] <= total /\ (EmptyTable[k] # 0 => GetShard(k) = s)
    BY <1>3
  <2> QED BY <1>6, <2>1, <2>2, <2>3 DEF ShardOK
<1>8. \A k \in Key : SlotOf(EmptyTable, ToSet(new), k) = SlotOf(table, ToSet(fs), k)
  BY <1>3, <1>5 DEF SlotOf
<1> QED BY <1>1, <1>2, <1>3, <1>7, <1>8

\* A compaction keeps what the files show, but for tombstones, which show nothing.
LEMMA MergedShard ==
    ASSUME StoreInv, NEW s \in Shard, counter[s] < MaxFile,
           NEW new, new = IF Held(Compacted(s)) = {} THEN files[s]
                          ELSE <<[seq |-> 0, data |-> Compacted(s)]>>
    PROVE  /\ new \in Seq(File)
           /\ ShardOK(s, mem[s], ToSet(new), counter[s] + 1, Len(log))
           /\ \A k \in Key : Shown(log, SlotOf(mem[s], ToSet(new), k)) =
                                Shown(log, SlotOf(mem[s], ToSet(files[s]), k))
<1> DEFINE readers == ToSet(files[s])
           f == [seq |-> 0, data |-> Compacted(s)]
<1>1. /\ files[s] \in Seq(File) /\ mem[s] \in Table /\ counter[s] \in Nat /\ Len(log) \in Nat
      /\ ShardOK(s, mem[s], readers, counter[s], Len(log))
  BY QueryAssumption, LenProperties DEF StoreInv, StoreTypes, ShardsOK
<1>2. readers \in SUBSET File /\ SeqsApart(readers)
  BY <1>1 DEF ToSet, ShardOK
<1>3. \A k \in Key : Compacted(s)[k] = Shown(log, FileWrite(readers, k))
  <2> TAKE k \in Key
  <2> DEFINE holders == {g \in readers : g.data[k] # 0}
             w == (CHOOSE g \in holders : \A h \in holders : g.seq >= h.seq).data[k]
  <2>1. Compacted(s)[k] = IF holders = {} \/ IsTombstone(w) THEN 0 ELSE w
    BY DEF Compacted
  <2>2. FileWrite(readers, k) = IF holders = {} THEN 0 ELSE w
    BY DEF FileWrite, NewestOf
  <2> HIDE DEF holders, w
  <2> QED BY <2>1, <2>2 DEF IsTombstone, Shown
<1>4. \A k \in Key : /\ FileWrite(readers, k) \in 0 .. Len(log)
                     /\ FileWrite(readers, k) \in WriteNum
                     /\ FileWrite(readers, k) # 0 => GetShard(k) = s
  <2> TAKE k \in Key
  <2>1. CASE FileWrite(readers, k) = 0
    BY <1>1, <2>1, QueryAssumption DEF WriteNum
  <2>2. CASE FileWrite(readers, k) # 0
    <3>1. PICK g \in readers : g.data[k] = FileWrite(readers, k)
      BY <1>2, <2>2, FileWriteHeld
    <3>2. g.data[k] \in WriteNum /\ g.data[k] <= Len(log) /\ GetShard(k) = s
      BY <1>1, <1>2, <2>2, <3>1 DEF ShardOK, File, Table
    <3> HIDE DEF readers
    <3> QED BY <1>1, <3>1, <3>2 DEF WriteNum
  <2> QED BY <2>1, <2>2
<1>5. CASE Held(Compacted(s)) = {}
  <2>1. new = files[s]
    BY <1>5
  <2>2. \A g \in readers : g.seq <= counter[s] + 1
    BY <1>1, <1>2, QueryAssumption DEF ShardOK, File
  <2> QED BY <1>1, <2>1, <2>2 DEF ShardOK
<1>6. CASE Held(Compacted(s)) # {}
  <2>0. \A k \in Key : /\ Compacted(s)[k] \in WriteNum /\ Compacted(s)[k] <= Len(log)
                       /\ Compacted(s)[k] # 0 => GetShard(k) = s
    <3> HIDE DEF readers
    <3> QED BY <1>1, <1>3, <1>4, QueryAssumption DEF Shown, WriteNum
  <2>1. f \in File
    <3>1. Compacted(s) \in Table
      BY <2>0 DEF Compacted, Table
    <3> QED BY <3>1, QueryAssumption DEF File
  <2>2. new \in Seq(File) /\ ToSet(new) = {f}
    <3>1. new = <<f>>
      BY <1>6
    <3> HIDE DEF f
    <3> QED BY <1>1, <2>1, <3>1, PrependedFile
  <2>3. \A k \in Key : SeqsApart({f}) /\ FileWrite({f}, k) = Compacted(s)[k]
    <3>1. \A k \in Key : f.data[k] = Compacted(s)[k]
      OBVIOUS
    <3> HIDE DEF f
    <3> QED BY <2>1, <3>1, OneFile
  <2>4. ShardOK(s, mem[s], {f}, counter[s] + 1, Len(log))
    <3>1. SeqsApart({f}) /\ f.seq <= counter[s] + 1
      BY <1>1 DEF SeqsApart
    <3> QED BY <1>1, <2>0, <3>1 DEF ShardOK
  <2>5. \A k \in Key : Shown(log, Shown(log, FileWrite(readers, k)))
                           = Shown(log, FileWrite(readers, k))
    BY DEF Shown
  <2> HIDE DEF readers, f
  <2>6. \A k \in Key : Shown(log, SlotOf(mem[s], {f}, k)) = Shown(log, SlotOf(mem[s], readers, k))
    BY <1>3, <2>3, <2>5 DEF SlotOf
  <2> QED BY <2>2, <2>4, <2>6 DEF readers
<1> QED BY <1>5, <1>6

\* What is known of a shard stays so when another one is written.
LEMMA MoreWrites ==
    ASSUME NEW s, NEW table \in Table, NEW readers \in SUBSET File, NEW count,
           NEW total \in Nat, ShardOK(s, table, readers, count, total)
    PROVE  ShardOK(s, table, readers, count, total + 1)
<1>1. \A k \in Key : table[k] \in Nat /\ \A f \in readers : f.data[k] \in Nat
  BY QueryAssumption DEF Table, File, WriteNum
<1> QED BY <1>1 DEF ShardOK

\* Empty shards show nothing.
LEMMA InitStore ==
    ASSUME Init
    PROVE  StoreInv
<1>1. StoreTypes
  <2>1. EmptyTable \in Table
    BY QueryAssumption DEF EmptyTable, Table, WriteNum
  <2>2. log = <<>> /\ <<>> \in Seq(Op) /\ Len(<<>>) = 0 /\ <<>> \in Seq(File)
    BY DEF Init
  <2> QED BY <2>1, <2>2, QueryAssumption DEF Init, StoreTypes
<1>2. \A s \in Shard : mem[s] = EmptyTable /\ ToSet(files[s]) = {}
  BY DEF Init, ToSet
<1>3. Len(log) = 0
  BY DEF Init
<1>4. ShardsOK
  <2>1. \A s \in Shard : ShardOK(s, EmptyTable, {}, counter[s], 0)
    BY DEF ShardOK, SeqsApart, EmptyTable
  <2> QED BY <1>2, <1>3, <2>1 DEF ShardsOK
<1>5. ShowsLast
  <2> SUFFICES ASSUME NEW k \in Key
               PROVE  Shown(log, SlotOf(mem[GetShard(k)], ToSet(files[GetShard(k)]), k))
                         = Answer(log, Len(log), k)
    BY DEF ShowsLast
  <2>1. GetShard(k) \in Shard
    BY KeysRouted
  <2>2. SlotOf(EmptyTable, {}, k) = 0
    BY DEF SlotOf, EmptyTable, FileWrite, NewestOf
  <2>3. Hits(log, 0, k) = {}
    BY DEF Hits
  <2> QED BY <1>2, <1>3, <2>1, <2>2, <2>3 DEF Shown, Answer
<1> QED BY <1>1, <1>4, <1>5 DEF StoreInv

\* A write: what the key's shard shows afterwards is that write.
LEMMA WriteStore ==
    ASSUME StoreInv, NEW op \in {"put", "erase"}, NEW k \in Key, Write(op, k)
    PROVE  StoreInv'
<1> DEFINE s == GetShard(k)
           table == [mem[s] EXCEPT ![k] = Len(log) + 1]
<1>1. /\ s \in Shard /\ Len(log) \in Nat /\ Len(log) < MaxWrite
      /\ mem[s] \in Table /\ files[s] \in Seq(File) /\ ToSet(files[s]) \in SUBSET File
      /\ counter[s] \in 0 .. MaxFile
      /\ ShardOK(s, mem[s], ToSet(files[s]), counter[s], Len(log))
  <2>1. s \in Shard /\ Len(log) < MaxWrite
    BY KeysRouted DEF Write
  <2>2. log \in Seq(Op)
    BY DEF StoreInv, StoreTypes
  <2>3. files[s] \in Seq(File)
    BY <2>1 DEF StoreInv, StoreTypes
  <2>4. ToSet(files[s]) \in SUBSET File
    BY <2>3 DEF ToSet
  <2>5. /\ mem[s] \in Table /\ counter[s] \in 0 .. MaxFile
        /\ ShardOK(s, mem[s], ToSet(files[s]), counter[s], Len(log))
    BY <2>1 DEF StoreInv, StoreTypes, ShardsOK
  <2> HIDE DEF s
  <2> QED BY <2>1, <2>2, <2>3, <2>4, <2>5, LenProperties
<1>2. /\ log' \in Seq(Op) /\ Len(log') = Len(log) + 1
      /\ \A w \in 0 .. Len(log) : Shown(log', w) = Shown(log, w)
      /\ \A j \in Key : Answer(log', Len(log'), j) =
            IF j = k THEN Shown(log', Len(log')) ELSE Answer(log, Len(log), j)
  <2>1. Logs(log, log', k)
    <3>1. [op |-> op, key |-> k] \in Op
      BY DEF Op
    <3> QED BY <3>1 DEF StoreInv, StoreTypes, Write, Logs
  <2> QED BY <2>1, WriteLogged
<1>3. /\ table \in Table
      /\ ShardOK(s, table, ToSet(files[s]), counter[s], Len(log) + 1)
      /\ \A j \in Key : SlotOf(table, ToSet(files[s]), j) =
            IF j = k THEN Len(log) + 1 ELSE SlotOf(mem[s], ToSet(files[s]), j)
  <2>1. GetShard(k) = s
    OBVIOUS
  <2>2. table \in Table /\ Overwritten(mem[s], table, k, Len(log) + 1)
    BY <1>1, QueryAssumption DEF Table, WriteNum, Overwritten
  <2> HIDE DEF s, table
  <2>3. ShardOK(s, table, ToSet(files[s]), counter[s], Len(log) + 1)
    BY <1>1, <2>1, <2>2, WrittenShard
  <2>4. ASSUME NEW j \in Key
        PROVE  SlotOf(table, ToSet(files[s]), j) =
            IF j = k THEN Len(log) + 1 ELSE SlotOf(mem[s], ToSet(files[s]), j)
    BY <1>1, <2>2 DEF SlotOf, Overwritten
  <2> QED BY <2>2, <2>3, <2>4
<1>4. /\ mem' \in [Shard -> Table] /\ files' \in [Shard -> Seq(File)]
      /\ counter' \in [Shard -> 0 .. MaxFile]
      /\ \A r \in Shard \ {s} :
            mem'[r] = mem[r] /\ files'[r] = files[r] /\ counter'[r] = counter[r]
      /\ ShardOK(s, mem'[s], ToSet(files'[s]), counter'[s], Len(log) + 1)
      /\ \A j \in Key : SlotOf(mem'[s], ToSet(files'[s]), j) = SlotOf(table, ToSet(files[s]), j)
  <2> HIDE DEF s, table
  <2>0. /\ mem \in [Shard -> Table] /\ files \in [Shard -> Seq(File)]
        /\ counter \in [Shard -> 0 .. MaxFile]
    BY DEF StoreInv, StoreTypes
  <2>1. CASE FlushTable(s, table)
    <3>1. counter[s] < MaxFile
      BY <2>1 DEF FlushTable
    <3> DEFINE f == [seq |-> counter[s] + 1, data |-> table]
               new == <<f>> \o files[s]
    <3>2. /\ new \in Seq(File) /\ counter[s] + 1 \in 0 .. MaxFile /\ EmptyTable \in Table
          /\ ShardOK(s, EmptyTable, ToSet(new), counter[s] + 1, Len(log) + 1)
          /\ \A j \in Key : SlotOf(EmptyTable, ToSet(new), j) = SlotOf(table, ToSet(files[s]), j)
      <4>1. f \in File /\ f.seq = counter[s] + 1 /\ f.data = table /\ Len(log) + 1 \in Nat
        BY <1>1, <1>3, <3>1, QueryAssumption DEF File
      <4>2. Prepended(files[s], new, counter[s] + 1, table)
        <5> HIDE DEF f
        <5> QED BY <4>1 DEF Prepended
      <4> HIDE DEF f, new
      <4> QED BY <1>1, <1>3, <3>1, <4>1, <4>2, FlushedShard
    <3>3. /\ mem' = [mem EXCEPT ![s] = EmptyTable] /\ files' = [files EXCEPT ![s] = new]
          /\ counter' = [counter EXCEPT ![s] = counter[s] + 1]
      BY <2>1 DEF FlushTable
    <3> HIDE DEF f, new
    <3> QED BY <1>1, <2>0, <3>2, <3>3
  <2>2. CASE mem' = [mem EXCEPT ![s] = table] /\ UNCHANGED <<files, counter>>
    BY <1>1, <1>3, <2>0, <2>2
  <2>3. FlushTable(s, table) \/ (mem' = [mem EXCEPT ![s] = table] /\ UNCHANGED <<files, counter>>)
    BY DEF Write, s, table
  <2> QED BY <2>1, <2>2, <2>3
<1>5. StoreTypes'
  BY <1>1, <1>2, <1>4, QueryAssumption DEF StoreTypes
<1> HIDE DEF s, table
<1>6. ShardsOK'
  <2> SUFFICES ASSUME NEW r \in Shard
               PROVE  ShardOK(r, mem'[r], ToSet(files'[r]), counter'[r], Len(log'))
    BY DEF ShardsOK
  <2>1. CASE r = s
    BY <1>2, <1>4, <2>1
  <2>2. CASE r # s
    <3>1. /\ mem[r] \in Table /\ ToSet(files[r]) \in SUBSET File
          /\ ShardOK(r, mem[r], ToSet(files[r]), counter[r], Len(log))
      BY DEF StoreInv, StoreTypes, ShardsOK, ToSet
    <3>2. ShardOK(r, mem[r], ToSet(files[r]), counter[r], Len(log) + 1)
      BY <1>1, <3>1, MoreWrites
    <3> QED BY <1>2, <1>4, <2>2, <3>2
  <2> QED BY <2>1, <2>2
<1>7. ShowsLast'
  <2> SUFFICES ASSUME NEW j \in Key
               PROVE  Shown(log', SlotOf(mem'[GetShard(j)], ToSet(files'[GetShard(j)]), j))
                         = Answer(log', Len(log'), j)
    BY DEF ShowsLast
  <2> DEFINE r == GetShard(j)
             before == SlotOf(mem[r], ToSet(files[r]), j)
  <2>1. r \in Shard
    BY KeysRouted
  <2>2. CASE j = k
    BY <1>2, <1>3, <1>4, <2>2 DEF s
  <2>3. CASE j # k
    <3>1. SlotOf(mem'[r], ToSet(files'[r]), j) = before
      <4>1. CASE r = s
        BY <1>3, <1>4, <2>3, <4>1
      <4>2. CASE r # s
        BY <1>4, <2>1, <4>2
      <4> QED BY <4>1, <4>2
    <3>2. before \in 0 .. Len(log)
      <4>1. /\ mem[r] \in Table /\ ToSet(files[r]) \in SUBSET File
            /\ ShardOK(r, mem[r], ToSet(files[r]), counter[r], Len(log))
        BY <2>1 DEF StoreInv, StoreTypes, ShardsOK, ToSet
      <4> HIDE DEF r
      <4> QED BY <1>1, <2>1, <4>1, SlotHeld
    <3>3. Shown(log, before) = Answer(log, Len(log), j)
      BY DEF StoreInv, ShowsLast
    <3> HIDE DEF before
    <3> QED BY <1>2, <2>3, <3>1, <3>2, <3>3
  <2> QED BY <2>2, <2>3
<1> QED BY <1>5, <1>6, <1>7 DEF StoreInv

\* A step of one shard that shows what it showed.
LEMMA SameShown ==
    ASSUME StoreInv, NEW s \in Shard, log' = log,
           NEW table \in Table, NEW fs \in Seq(File), NEW count \in 0 .. MaxFile,
           mem' = [mem EXCEPT ![s] = table], files' = [files EXCEPT ![s] = fs],
           counter' = [counter EXCEPT ![s] = count],
           ShardOK(s, table, ToSet(fs), count, Len(log)),
           \A k \in Key : Shown(log, SlotOf(table, ToSet(fs), k))
                             = Shown(log, SlotOf(mem[s], ToSet(files[s]), k))
    PROVE  StoreInv'
<1>1. /\ mem \in [Shard -> Table] /\ files \in [Shard -> Seq(File)]
      /\ counter \in [Shard -> 0 .. MaxFile]
  BY DEF StoreInv, StoreTypes
<1>2. /\ mem'[s] = table /\ files'[s] = fs /\ counter'[s] = count
      /\ \A r \in Shard \ {s} :
            mem'[r] = mem[r] /\ files'[r] = files[r] /\ counter'[r] = counter[r]
  BY <1>1
<1>3. StoreTypes'
  BY <1>1 DEF StoreInv, StoreTypes
<1>4. ShardsOK'
  <2> SUFFICES ASSUME NEW r \in Shard
               PROVE  ShardOK(r, mem'[r], ToSet(files'[r]), counter'[r], Len(log))
    BY DEF ShardsOK
  <2>1. CASE r = s
    BY <1>2, <2>1
  <2>2. CASE r # s
    BY <1>2, <2>2 DEF StoreInv, ShardsOK
  <2> QED BY <2>1, <2>2
<1>5. ShowsLast'
  <2> SUFFICES ASSUME NEW k \in Key
               PROVE  Shown(log, SlotOf(mem'[GetShard(k)], ToSet(files'[GetShard(k)]), k))
                         = Answer(log, Len(log), k)
    BY DEF ShowsLast
  <2>1. GetShard(k) \in Shard
    BY KeysRouted
  <2>2. Shown(log, SlotOf(mem[GetShard(k)], ToSet(files[GetShard(k)]), k))
           = Answer(log, Len(log), k)
    BY DEF StoreInv, ShowsLast
  <2>3. CASE GetShard(k) = s
    BY <1>2, <2>2, <2>3
  <2>4. CASE GetShard(k) # s
    BY <1>2, <2>1, <2>2, <2>4
  <2> QED BY <2>3, <2>4
<1> QED BY <1>3, <1>4, <1>5 DEF StoreInv

\* A flush by itself.
LEMMA ForceFlushStore ==
    ASSUME StoreInv, NEW s \in Shard, ForceFlush(s)
    PROVE  StoreInv'
<1>1. /\ Len(log) \in Nat /\ log' = log
      /\ mem \in [Shard -> Table] /\ files \in [Shard -> Seq(File)]
      /\ counter \in [Shard -> 0 .. MaxFile] /\ counter[s] < MaxFile
      /\ ShardOK(s, mem[s], ToSet(files[s]), counter[s], Len(log))
  BY LenProperties DEF StoreInv, StoreTypes, ShardsOK, ForceFlush, FlushTable
<1> DEFINE f == [seq |-> counter[s] + 1, data |-> mem[s]]
           new == <<f>> \o files[s]
<1>2. /\ new \in Seq(File) /\ counter[s] + 1 \in 0 .. MaxFile /\ EmptyTable \in Table
      /\ ShardOK(s, EmptyTable, ToSet(new), counter[s] + 1, Len(log))
      /\ \A j \in Key : SlotOf(EmptyTable, ToSet(new), j) = SlotOf(mem[s], ToSet(files[s]), j)
  <2>1. f \in File /\ f.seq = counter[s] + 1 /\ f.data = mem[s]
    BY <1>1, QueryAssumption DEF File
  <2>2. Prepended(files[s], new, counter[s] + 1, mem[s])
    <3> HIDE DEF f
    <3> QED BY <2>1 DEF Prepended
  <2>3. mem[s] \in Table /\ files[s] \in Seq(File) /\ counter[s] \in 0 .. MaxFile
    BY <1>1
  <2> HIDE DEF f, new
  <2> QED BY <1>1, <2>2, <2>3, FlushedShard
<1>3. /\ mem' = [mem EXCEPT ![s] = EmptyTable] /\ files' = [files EXCEPT ![s] = new]
      /\ counter' = [counter EXCEPT ![s] = counter[s] + 1]
  BY DEF ForceFlush, FlushTable
<1> HIDE DEF f, new
<1> QED BY <1>1, <1>2, <1>3, SameShown

\* A compaction.
LEMMA CompactStore ==
    ASSUME StoreInv, NEW s \in Shard, Compact(s)
    PROVE  StoreInv'
<1> DEFINE new == IF Held(Compacted(s)) = {} THEN files[s]
                  ELSE <<[seq |-> 0, data |-> Compacted(s)]>>
<1>1. /\ log' = log /\ mem' = mem /\ counter[s] < MaxFile
      /\ mem \in [Shard -> Table] /\ files \in [Shard -> Seq(File)]
      /\ counter \in [Shard -> 0 .. MaxFile]
      /\ counter' = [counter EXCEPT ![s] = counter[s] + 1]
  BY DEF StoreInv, StoreTypes, Compact
<1>2. counter[s] + 1 \in 0 .. MaxFile /\ mem' = [mem EXCEPT ![s] = mem[s]] /\ mem[s] \in Table
  BY <1>1, QueryAssumption
<1>3. files' = [files EXCEPT ![s] = new]
  BY <1>1 DEF Compact
<1>4. /\ new \in Seq(File)
      /\ ShardOK(s, mem[s], ToSet(new), counter[s] + 1, Len(log))
      /\ \A k \in Key : Shown(log, SlotOf(mem[s], ToSet(new), k))
                           = Shown(log, SlotOf(mem[s], ToSet(files[s]), k))
  BY <1>1, MergedShard
<1> HIDE DEF new
<1> QED BY <1>1, <1>2, <1>3, <1>4, SameShown

-----------------------------------------------------------------------------
(* The query.                                                              *)

Entry == [key : Key, write : WriteNum]

QueryState ==
    [pc : {"idle", "snapshot", "seek", "collect", "done"}, lo : Seq(Nat), hi : Seq(Nat),
     shard : 0 .. ShardNum, cut : [Shard -> Nat], rest : SUBSET Entry, result : Seq(Entry)]

\* What k answered when the query q copied its shard, and whether q should return it; for
\* any query and any sequence of writes, so that they can be those of the next state.
Value(q, writes, k) == Answer(writes, q.cut[GetShard(k)], k)
Wanted(q, writes, k) ==
    StringLeq(q.lo, k) /\ StringLeq(k, q.hi) /\ Value(q, writes, k) # 0

Phases(q) ==
    /\ q.pc = "idle" => q = Idle
    /\ q.pc = "snapshot" => q.shard < ShardNum
    /\ q.pc \in {"seek", "collect", "done"} => q.shard = ShardNum
    /\ q.pc \notin {"collect", "done"} => q.result = <<>>
    /\ q.pc = "done" => q.rest = {}

\* What the iterators have yet to yield is of the shards copied so far, each key once, and
\* answers what the key answered then.
Copies(q, writes) ==
    /\ \A s \in Shard : q.cut[s] <= Len(writes)
    /\ \A e \in q.rest : /\ GetShard(e.key) < q.shard /\ e.write \in 1 .. Len(writes)
                         /\ Shown(writes, e.write) = Value(q, writes, e.key)
                         /\ q.pc = "collect" => StringLeq(q.lo, e.key)
    /\ \A e, f \in q.rest : e.key = f.key => e = f

\* What is collected is wanted, in order and before all that is left.
Collected(q, writes) ==
    /\ \A i \in DOMAIN q.result : /\ Wanted(q, writes, q.result[i].key)
                                  /\ q.result[i].write = Value(q, writes, q.result[i].key)
                                  /\ q.result[i].write \in 1 .. Len(writes)
    /\ \A i, j \in DOMAIN q.result : i < j => StringLess(q.result[i].key, q.result[j].key)
    /\ \A i \in DOMAIN q.result, e \in q.rest : StringLess(q.result[i].key, e.key)

\* A wanted key of a shard that is copied is collected, or left to collect.
NothingLost(q, writes) ==
    \A k \in Key : Wanted(q, writes, k) /\ GetShard(k) < q.shard =>
        \/ \E e \in q.rest : e.key = k
        \/ \E i \in DOMAIN q.result : q.result[i].key = k

QueryOK(q, writes) ==
    /\ q \in QueryState /\ Phases(q) /\ Copies(q, writes) /\ Collected(q, writes)
    /\ SpatialKeysAgree => NothingLost(q, writes)

\* A query that is not running.
LEMMA IdleQuery ==
    ASSUME NEW writes, Len(writes) \in Nat
    PROVE  QueryOK(Idle, writes)
<1>1. Idle \in QueryState
  BY RoutingTypes DEF Idle, QueryState
<1>2. Phases(Idle)
  BY DEF Idle, Phases
<1>3. Copies(Idle, writes) /\ Collected(Idle, writes)
  BY DEF Idle, Copies, Collected
<1>4. NothingLost(Idle, writes)
  BY KeysRouted DEF Idle, NothingLost, Shard
<1> QED BY <1>1, <1>2, <1>3, <1>4 DEF QueryOK

\* The keys a query holds are keys that are written.
LEMMA QueryKeys ==
    ASSUME NEW q \in QueryState
    PROVE  /\ \A e \in q.rest : e \in Entry /\ e.key \in Key
           /\ \A i \in DOMAIN q.result : q.result[i] \in Entry /\ q.result[i].key \in Key
<1>1. q.rest \in SUBSET Entry /\ q.result \in Seq(Entry)
  BY DEF QueryState
<1>2. \A i \in DOMAIN q.result : q.result[i] \in Entry
  BY <1>1
<1> QED BY <1>1, <1>2 DEF Entry

\* A write changes nothing of what a query has copied.
LEMMA WrittenMeanwhile ==
    ASSUME NEW q, NEW old, NEW new, NEW k \in Key, Logs(old, new, k), QueryOK(q, old)
    PROVE  QueryOK(q, new)
<1>1. /\ Len(old) \in Nat /\ Len(new) = Len(old) + 1
      /\ \A w \in 0 .. Len(old) : Shown(new, w) = Shown(old, w)
      /\ \A n \in 0 .. Len(old) : \A j \in Key : Answer(new, n, j) = Answer(old, n, j)
  <2>1. old \in Seq(Op)
    BY DEF Logs
  <2> QED BY <2>1, WriteLogged, LenProperties
<1>2. ASSUME NEW s \in Shard PROVE q.cut[s] \in 0 .. Len(old) /\ q.cut[s] <= Len(new)
  BY <1>1 DEF QueryOK, QueryState, Copies
<1>3. ASSUME NEW j \in Key PROVE Value(q, new, j) = Value(q, old, j)
  BY <1>1, <1>2, KeysRouted DEF Value
<1>4. \A w \in 1 .. Len(old) : w \in 1 .. Len(new) /\ Shown(new, w) = Shown(old, w)
  BY <1>1
<1>5. /\ q \in QueryState /\ Phases(q) /\ Copies(q, old) /\ Collected(q, old)
      /\ \A e \in q.rest : e.key \in Key
      /\ \A i \in DOMAIN q.result : q.result[i].key \in Key
  BY QueryKeys DEF QueryOK
<1>6. Copies(q, new)
  BY <1>2, <1>3, <1>4, <1>5 DEF Copies
<1>7. \A j \in Key : Wanted(q, new, j) <=> Wanted(q, old, j)
  BY <1>3 DEF Wanted
<1>8. Collected(q, new)
  BY <1>3, <1>4, <1>5, <1>7 DEF Collected
<1>9. SpatialKeysAgree => NothingLost(q, new)
  BY <1>7 DEF QueryOK, NothingLost
<1> QED BY <1>5, <1>6, <1>8, <1>9 DEF QueryOK

\* The call of a query.
LEMMA CallQuery ==
    ASSUME QueryOK(query, log), NEW lo \in Bound, NEW hi \in Bound, Call(lo, hi)
    PROVE  QueryOK(query', log)
<1>1. /\ query = Idle /\ query \in QueryState /\ lo \in Seq(Nat) /\ hi \in Seq(Nat)
      /\ query' = [query EXCEPT !.pc = "snapshot", !.lo = lo, !.hi = hi]
  BY QueryAssumption DEF Call, QueryOK, Phases
<1>2. /\ query' \in QueryState /\ query'.pc = "snapshot" /\ query'.shard = 0
      /\ query'.cut = query.cut /\ query'.rest = {} /\ query'.result = <<>>
  BY <1>1, RoutingTypes DEF QueryState, Idle
<1>3. Phases(query')
  BY <1>2, RoutingTypes DEF Phases
<1>4. Copies(query', log)
  BY <1>2 DEF Copies, QueryOK
<1>5. Collected(query', log)
  BY <1>2 DEF Collected
<1>6. NothingLost(query', log)
  BY <1>2, KeysRouted DEF NothingLost, Shard
<1> QED BY <1>2, <1>3, <1>4, <1>5, <1>6 DEF QueryOK

\* What a shard has for an iterator: each key of its own that was written, with its last
\* write, or, of a key whose last write was an erase, perhaps none.
Yields(new, writes, s) ==
    /\ new \in SUBSET Entry
    /\ \A e \in new : /\ GetShard(e.key) = s /\ e.write \in 1 .. Len(writes)
                      /\ Shown(writes, e.write) = Answer(writes, Len(writes), e.key)
    /\ \A e, f \in new : e.key = f.key => e = f
    /\ \A k \in Key : GetShard(k) = s /\ Answer(writes, Len(writes), k) # 0 =>
          \E e \in new : e.key = k

\* The iterator of a shard yields this.
LEMMA IteratorYields ==
    ASSUME StoreInv, NEW s \in Shard
    PROVE  Yields(NewIterator(s), log, s)
<1> DEFINE readers == ToSet(files[s])
<1>1. /\ mem[s] \in Table /\ readers \in SUBSET File /\ Len(log) \in Nat /\ Len(log) <= MaxWrite
      /\ ShardOK(s, mem[s], readers, counter[s], Len(log))
  BY LenProperties DEF StoreInv, StoreTypes, ShardsOK, ToSet
<1>2. \A k \in Key : Slot(s, k) = SlotOf(mem[s], readers, k)
  BY SlotIs DEF SlotOf
<1> HIDE DEF readers
<1>3. ASSUME NEW k \in Key, Slot(s, k) # 0
      PROVE  /\ Slot(s, k) \in 1 .. Len(log) /\ Slot(s, k) \in WriteNum /\ GetShard(k) = s
  <2>1. Slot(s, k) \in 0 .. Len(log) /\ GetShard(k) = s
    <3>1. /\ SlotOf(mem[s], readers, k) \in 0 .. Len(log)
          /\ SlotOf(mem[s], readers, k) # 0 => GetShard(k) = s
      BY <1>1, SlotHeld
    <3> QED BY <1>2, <1>3, <3>1
  <2> QED BY <1>1, <1>3, <2>1, QueryAssumption DEF WriteNum
<1>4. ASSUME NEW k \in Key, GetShard(k) = s
      PROVE  Shown(log, Slot(s, k)) = Answer(log, Len(log), k)
  BY <1>2, <1>4 DEF StoreInv, ShowsLast, readers
<1>5. NewIterator(s) \in SUBSET Entry
  BY <1>3 DEF NewIterator, Entry
<1>6. \A e \in NewIterator(s) : e.key \in Key /\ e.write = Slot(s, e.key) /\ Slot(s, e.key) # 0
  BY DEF NewIterator
<1>7. ASSUME NEW e \in NewIterator(s)
      PROVE  /\ GetShard(e.key) = s /\ e.write \in 1 .. Len(log)
             /\ Shown(log, e.write) = Answer(log, Len(log), e.key)
  BY <1>3, <1>4, <1>6
<1>8. \A e, f \in NewIterator(s) : e.key = f.key => e = f
  BY DEF NewIterator
<1>9. ASSUME NEW k \in Key, GetShard(k) = s, Answer(log, Len(log), k) # 0
      PROVE  \E e \in NewIterator(s) : e.key = k
  <2>1. Slot(s, k) # 0
    BY <1>4, <1>9 DEF Shown
  <2>2. [key |-> k, write |-> Slot(s, k)] \in NewIterator(s)
    BY <2>1 DEF NewIterator
  <2> QED BY <2>2
<1> QED BY <1>5, <1>7, <1>8, <1>9 DEF Yields

\* The next shard: what it has is taken over, or, where it is pruned, has no wanted key.
LEMMA TakeShardQuery ==
    ASSUME StoreInv, QueryOK(query, log), TakeShard
    PROVE  QueryOK(query', log)
<1> DEFINE s == query.shard
           pruned == Pruned(s, query.lo, query.hi)
           rest == IF pruned THEN query.rest ELSE query.rest \cup NewIterator(s)
<1>1. /\ query \in QueryState /\ query.pc = "snapshot" /\ query.result = <<>>
      /\ s \in Shard /\ s \in Nat /\ ShardNum \in Nat /\ s + 1 \in 0 .. ShardNum
      /\ Len(log) \in Nat /\ query.rest \in SUBSET Entry /\ Copies(query, log)
      /\ \A e \in query.rest : GetShard(e.key) < s
  <2>1. query \in QueryState /\ query.pc = "snapshot" /\ Phases(query) /\ Copies(query, log)
    BY DEF QueryOK, TakeShard
  <2>2. s < ShardNum /\ query.result = <<>> /\ s \in 0 .. ShardNum /\ query.rest \in SUBSET Entry
    BY <2>1 DEF Phases, QueryState
  <2>3. log \in Seq(Op)
    BY DEF StoreInv, StoreTypes
  <2>4. Len(log) \in Nat
    BY <2>3, LenProperties
  <2>5. \A e \in query.rest : GetShard(e.key) < s
    BY <2>1 DEF Copies
  <2>6. ShardNum \in Nat
    BY RoutingTypes
  <2> HIDE DEF s
  <2>7. s \in Shard /\ s \in Nat /\ s + 1 \in 0 .. ShardNum
    BY <2>2, <2>6 DEF Shard
  <2> QED BY <2>1, <2>2, <2>4, <2>5, <2>6, <2>7
<1>2. Yields(NewIterator(s), log, s)
  BY <1>1, IteratorYields
<1>3. query' = [query EXCEPT !.shard = s + 1, !.cut[s] = Len(log), !.rest = rest,
                             !.pc = IF s = ShardNum - 1 THEN "seek" ELSE "snapshot"]
  BY DEF TakeShard
<1> HIDE DEF s, rest, pruned
<1>4. rest \in SUBSET Entry
  BY <1>1, <1>2 DEF rest, Yields
<1>5. /\ query' \in QueryState /\ query'.shard = s + 1 /\ query'.rest = rest
      /\ query'.result = <<>> /\ query'.lo = query.lo /\ query'.hi = query.hi
      /\ query'.pc = IF s = ShardNum - 1 THEN "seek" ELSE "snapshot"
      /\ query'.cut = [query.cut EXCEPT ![s] = Len(log)]
  <2>1. [query.cut EXCEPT ![s] = Len(log)] \in [Shard -> Nat]
    BY <1>1 DEF QueryState
  <2> QED BY <1>1, <1>3, <1>4, <2>1 DEF QueryState
<1>6. Phases(query')
  BY <1>1, <1>5 DEF Phases, Shard
<1>7. \A k \in Key : Value(query', log, k) =
         IF GetShard(k) = s THEN Answer(log, Len(log), k) ELSE Value(query, log, k)
  <2>1. query.cut \in [Shard -> Nat]
    BY <1>1 DEF QueryState
  <2> QED BY <1>1, <1>5, <2>1, KeysRouted DEF Value
<1>8. \A k \in Key : GetShard(k) < s => Value(query', log, k) = Value(query, log, k)
  BY <1>1, <1>7 DEF Shard
<1>9. Copies(query', log)
  <2>1. \A r \in Shard : query'.cut[r] <= Len(log)
    BY <1>1, <1>5 DEF Copies, QueryState
  <2>2. ASSUME NEW e \in query'.rest
        PROVE  /\ GetShard(e.key) < s + 1 /\ e.write \in 1 .. Len(log)
               /\ Shown(log, e.write) = Value(query', log, e.key)
    <3>1. e.key \in Key /\ GetShard(e.key) \in Nat
      BY <1>5, QueryKeys, KeysRouted DEF Shard
    <3>2. CASE e \in query.rest
      BY <1>1, <1>8, <3>1, <3>2 DEF Copies, Shard
    <3>3. CASE e \in NewIterator(s)
      BY <1>1, <1>2, <1>7, <3>1, <3>3 DEF Yields, Shard
    <3> QED BY <1>5, <3>2, <3>3 DEF rest
  <2>3. ASSUME NEW e \in query'.rest, NEW f \in query'.rest, e.key = f.key
        PROVE  e = f
    <3>1. \A g \in query.rest : GetShard(g.key) # s
      BY <1>1, QueryKeys, KeysRouted DEF Copies, Shard
    <3>2. \A g \in NewIterator(s) : GetShard(g.key) = s
      BY <1>2 DEF Yields
    <3> QED BY <1>1, <1>2, <1>5, <2>3, <3>1, <3>2 DEF Copies, Yields, rest
  <2> QED BY <1>5, <2>1, <2>2, <2>3 DEF Copies
<1>10. Collected(query', log)
  BY <1>5 DEF Collected
<1>11. ASSUME SpatialKeysAgree PROVE NothingLost(query', log)
  <2> SUFFICES ASSUME NEW k \in Key, Wanted(query', log, k), GetShard(k) < s + 1
               PROVE  \E e \in rest : e.key = k
    BY <1>5 DEF NothingLost
  <2>1. GetShard(k) \in Nat /\ s \in Nat
    BY <1>1, KeysRouted DEF Shard
  <2>2. CASE GetShard(k) = s
    <3>1. ~pruned
      <4>1. query.lo \in Seq(Nat) /\ query.hi \in Seq(Nat)
        BY <1>1 DEF QueryState
      <4>2. StringLeq(query.lo, k) /\ StringLeq(k, query.hi)
        BY <1>5 DEF Wanted
      <4> QED BY <1>11, <2>2, <4>1, <4>2, PrunedIsEmpty DEF pruned
    <3>2. Answer(log, Len(log), k) # 0
      BY <1>7, <2>2 DEF Wanted
    <3> QED BY <1>2, <2>2, <3>1, <3>2 DEF Yields, rest
  <2>3. CASE GetShard(k) < s
    <3>1. Wanted(query, log, k)
      BY <1>5, <1>8, <2>3 DEF Wanted
    <3>2. \E e \in query.rest : e.key = k
      BY <1>1, <1>11, <2>3, <3>1 DEF QueryOK, NothingLost, s
    <3> QED BY <3>2 DEF rest
  <2> QED BY <1>1, <2>1, <2>2, <2>3
<1> QED BY <1>5, <1>6, <1>9, <1>10, <1>11 DEF QueryOK

\* The seek: no key from the start of the interval on is passed over.
LEMMA SeekQuery ==
    ASSUME QueryOK(query, log), SeekStart
    PROVE  QueryOK(query', log)
<1> DEFINE rest == {e \in query.rest : StringLeq(query.lo, e.key)}
<1>1. /\ query \in QueryState /\ query.pc = "seek" /\ query.result = <<>>
      /\ query.shard = ShardNum /\ Copies(query, log)
      /\ query' = [query EXCEPT !.pc = "collect", !.rest = rest]
  BY DEF QueryOK, Phases, SeekStart
<1> HIDE DEF rest
<1>2. rest \in SUBSET Entry
  BY <1>1 DEF rest, QueryState
<1>3. /\ query' \in QueryState /\ query'.pc = "collect" /\ query'.rest = rest
      /\ query'.shard = ShardNum /\ query'.cut = query.cut /\ query'.result = <<>>
      /\ query'.lo = query.lo /\ query'.hi = query.hi
  BY <1>1, <1>2 DEF QueryState
<1>4. \A k \in Key : /\ Value(query', log, k) = Value(query, log, k)
                     /\ Wanted(query', log, k) <=> Wanted(query, log, k)
  BY <1>3 DEF Wanted, Value
<1>5. Phases(query')
  BY <1>3 DEF Phases
<1>6. Copies(query', log)
  BY <1>1, <1>3, <1>4, QueryKeys DEF Copies, rest
<1>7. Collected(query', log)
  BY <1>3 DEF Collected
<1>8. ASSUME SpatialKeysAgree PROVE NothingLost(query', log)
  <2> SUFFICES ASSUME NEW k \in Key, Wanted(query', log, k), GetShard(k) < query'.shard
               PROVE  \E e \in rest : e.key = k
    BY <1>3 DEF NothingLost
  <2>1. \E e \in query.rest : e.key = k
    BY <1>1, <1>3, <1>4, <1>8 DEF QueryOK, NothingLost
  <2>2. StringLeq(query.lo, k)
    BY <1>4 DEF Wanted
  <2> QED BY <2>1, <2>2 DEF rest
<1> QED BY <1>3, <1>5, <1>6, <1>7, <1>8 DEF QueryOK

\* The end of the loop: every key that is left is behind the interval.
LEMMA EndQuery ==
    ASSUME QueryOK(query, log), query.pc = "collect",
           \A e \in query.rest : StringLess(query.hi, e.key),
           query' = [query EXCEPT !.pc = "done", !.rest = {}]
    PROVE  QueryOK(query', log)
<1>1. query \in QueryState /\ query.shard = ShardNum /\ Copies(query, log) /\ Collected(query, log)
  BY DEF QueryOK, Phases
<1>2. /\ query' \in QueryState /\ query'.pc = "done" /\ query'.rest = {}
      /\ query'.shard = ShardNum /\ query'.cut = query.cut /\ query'.result = query.result
      /\ query'.lo = query.lo /\ query'.hi = query.hi
  BY <1>1 DEF QueryState
<1>3. \A k \in Key : /\ Value(query', log, k) = Value(query, log, k)
                     /\ Wanted(query', log, k) <=> Wanted(query, log, k)
  BY <1>2 DEF Wanted, Value
<1>4. Phases(query') /\ Copies(query', log)
  BY <1>1, <1>2 DEF Phases, Copies
<1>5. Collected(query', log)
  BY <1>1, <1>2, <1>3, QueryKeys DEF Collected
<1>6. ASSUME SpatialKeysAgree PROVE NothingLost(query', log)
  <2> SUFFICES ASSUME NEW k \in Key, Wanted(query', log, k), GetShard(k) < query'.shard
               PROVE  \E i \in DOMAIN query.result : query.result[i].key = k
    BY <1>2 DEF NothingLost
  <2>1. \/ \E e \in query.rest : e.key = k
        \/ \E i \in DOMAIN query.result : query.result[i].key = k
    BY <1>1, <1>2, <1>3, <1>6 DEF QueryOK, NothingLost
  <2>2. ASSUME \E e \in query.rest : e.key = k PROVE FALSE
    <3>1. StringLess(query.hi, k) /\ StringLeq(k, query.hi)
      BY <1>2, <2>2 DEF Wanted
    <3>2. k \in Seq(Nat) /\ query.hi \in Seq(Nat)
      BY <1>1, QueryAssumption DEF QueryState
    <3>3. StringLess(k, k)
      BY <3>1, <3>2, LessTransitive DEF StringLeq
    <3> QED BY <3>2, <3>3, LessIrreflexive
  <2> QED BY <2>1, <2>2
<1> QED BY <1>2, <1>4, <1>5, <1>6 DEF QueryOK

\* One round: the least key that is left is a tombstone and not wanted, or is collected.
LEMMA RoundQuery ==
    ASSUME QueryOK(query, log), query.pc = "collect", NEW e \in query.rest,
           \A f \in query.rest : StringLeq(e.key, f.key), StringLeq(e.key, query.hi),
           query' = [query EXCEPT
                        !.rest = @ \ {e},
                        !.result = IF IsTombstone(e.write) THEN @ ELSE Append(@, e)]
    PROVE  QueryOK(query', log)
<1> DEFINE result == IF IsTombstone(e.write) THEN query.result ELSE Append(query.result, e)
<1>1. /\ query \in QueryState /\ query.shard = ShardNum /\ query.result \in Seq(Entry)
      /\ Copies(query, log) /\ Collected(query, log) /\ e \in Entry /\ e.key \in Key
      /\ query' = [query EXCEPT !.rest = query.rest \ {e}, !.result = result]
  BY QueryKeys DEF QueryOK, Phases, QueryState
<1>2. /\ result \in Seq(Entry) /\ Len(query.result) \in Nat
      /\ DOMAIN query.result = 1 .. Len(query.result)
      /\ \A i \in DOMAIN query.result : i \in DOMAIN result /\ result[i] = query.result[i]
      /\ IsTombstone(e.write) => result = query.result
      /\ ~IsTombstone(e.write) =>
            /\ DOMAIN result = 1 .. Len(query.result) + 1
            /\ result[Len(query.result) + 1] = e
  BY <1>1, LenProperties, AppendProperties
<1> HIDE DEF result
<1>3. /\ query' \in QueryState /\ query'.pc = "collect" /\ query'.rest = query.rest \ {e}
      /\ query'.shard = ShardNum /\ query'.cut = query.cut /\ query'.result = result
      /\ query'.lo = query.lo /\ query'.hi = query.hi
  BY <1>1, <1>2 DEF QueryState
<1>4. \A k \in Key : /\ Value(query', log, k) = Value(query, log, k)
                     /\ Wanted(query', log, k) <=> Wanted(query, log, k)
  BY <1>3 DEF Wanted, Value
<1>5. Phases(query')
  BY <1>3 DEF Phases
<1>6. Copies(query', log)
  BY <1>1, <1>3, <1>4, QueryKeys DEF Copies
<1>7. IF IsTombstone(e.write) THEN ~Wanted(query, log, e.key)
      ELSE /\ Wanted(query, log, e.key) /\ e.write = Value(query, log, e.key)
           /\ e.write \in 1 .. Len(log)
  BY <1>1 DEF Copies, Wanted, Shown, IsTombstone
<1>8. \A f \in query.rest \ {e} : StringLess(e.key, f.key)
  BY <1>1 DEF Copies, StringLeq
<1>9. CASE IsTombstone(e.write)
  <2>1. Collected(query', log)
    BY <1>1, <1>2, <1>3, <1>4, <1>9, QueryKeys DEF Collected
  <2>2. SpatialKeysAgree => NothingLost(query', log)
    BY <1>1, <1>2, <1>3, <1>4, <1>7, <1>9 DEF QueryOK, NothingLost
  <2> QED BY <1>3, <1>5, <1>6, <2>1, <2>2 DEF QueryOK
<1>10. CASE ~IsTombstone(e.write)
  <2> DEFINE n == Len(query.result) + 1
  <2>1. /\ DOMAIN result = 1 .. n /\ result[n] = e
        /\ \A i \in 1 .. n : i = n \/ i \in DOMAIN query.result
    BY <1>2, <1>10
  <2>2. \A i \in DOMAIN query.result : i < n
    BY <1>2
  <2>3. Collected(query', log)
    <3>1. ASSUME NEW i \in 1 .. n
          PROVE  /\ Wanted(query', log, result[i].key)
                 /\ result[i].write = Value(query', log, result[i].key)
                 /\ result[i].write \in 1 .. Len(log)
      <4>1. CASE i = n
        BY <1>1, <1>4, <1>7, <1>10, <2>1, <4>1
      <4>2. CASE i \in DOMAIN query.result
        BY <1>1, <1>2, <1>4, <4>2, QueryKeys DEF Collected
      <4> QED BY <2>1, <4>1, <4>2
    <3>2. ASSUME NEW i \in 1 .. n, NEW j \in 1 .. n, i < j
          PROVE  StringLess(result[i].key, result[j].key)
      <4>1. i \in DOMAIN query.result
        BY <1>2, <3>2
      <4>2. CASE j = n
        BY <1>1, <1>2, <2>1, <4>1, <4>2 DEF Collected
      <4>3. CASE j \in DOMAIN query.result
        BY <1>1, <1>2, <3>2, <4>1, <4>3 DEF Collected
      <4> QED BY <2>1, <4>2, <4>3
    <3>3. ASSUME NEW i \in 1 .. n, NEW f \in query.rest \ {e}
          PROVE  StringLess(result[i].key, f.key)
      BY <1>1, <1>2, <1>8, <2>1 DEF Collected
    <3> QED BY <1>3, <2>1, <3>1, <3>2, <3>3 DEF Collected
  <2>4. SpatialKeysAgree => NothingLost(query', log)
    <3> HIDE DEF n
    <3>1. n \in DOMAIN result
      BY <1>2, <2>1 DEF n
    <3> QED BY <1>1, <1>2, <1>3, <1>4, <2>1, <3>1 DEF QueryOK, NothingLost
  <2> QED BY <1>3, <1>5, <1>6, <2>3, <2>4 DEF QueryOK
<1> QED BY <1>9, <1>10

-----------------------------------------------------------------------------
(* The theorems.                                                           *)

RangeInv == StoreInv /\ QueryOK(query, log)

\* The beginning.
LEMMA InitRange == Init => RangeInv
<1> SUFFICES ASSUME Init PROVE RangeInv
  OBVIOUS
<1>1. query = Idle /\ log = <<>>
  BY DEF Init
<1>2. QueryOK(query, log)
  BY <1>1, IdleQuery
<1> QED BY <1>2, InitStore DEF RangeInv

\* A step of a writer, while a query may be running.
LEMMA WriterStep ==
    ASSUME RangeInv, \/ \E k \in Key : Write("put", k) \/ Write("erase", k)
                     \/ \E s \in Shard : ForceFlush(s) \/ Compact(s)
    PROVE  RangeInv'
<1>1. ASSUME NEW k \in Key, NEW op \in {"put", "erase"}, Write(op, k)
      PROVE  RangeInv'
  <2>1. StoreInv'
    BY <1>1, WriteStore DEF RangeInv
  <2>2. Logs(log, log', k)
    <3>1. [op |-> op, key |-> k] \in Op
      BY DEF Op
    <3> QED BY <1>1, <3>1 DEF RangeInv, StoreInv, StoreTypes, Write, Logs
  <2>3. QueryOK(query, log')
    BY <2>2, WrittenMeanwhile DEF RangeInv
  <2>4. query' = query
    BY <1>1 DEF Write
  <2> QED BY <2>1, <2>3, <2>4 DEF RangeInv
<1>2. ASSUME NEW s \in Shard, ForceFlush(s)
      PROVE  RangeInv'
  BY <1>2, ForceFlushStore DEF RangeInv, ForceFlush
<1>3. ASSUME NEW s \in Shard, Compact(s)
      PROVE  RangeInv'
  BY <1>3, CompactStore DEF RangeInv, Compact
<1> QED BY <1>1, <1>2, <1>3

\* A step of the query, which writes nothing.
LEMMA ReaderStep ==
    ASSUME RangeInv, (\E lo, hi \in Bound : Call(lo, hi)) \/ QueryStep
    PROVE  RangeInv'
<1>1. log' = log /\ mem' = mem /\ files' = files /\ counter' = counter
  BY DEF QueryStep, Call, TakeShard, SeekStart, Collect, Return
<1>2. StoreInv'
  BY <1>1 DEF RangeInv, StoreInv, StoreTypes, ShardsOK, ShowsLast
<1>3. QueryOK(query, log)
  BY DEF RangeInv
<1>4. ASSUME Collect PROVE QueryOK(query', log)
  <2>1. CASE \A e \in query.rest : StringLess(query.hi, e.key)
             /\ query' = [query EXCEPT !.pc = "done", !.rest = {}]
    BY <1>3, <1>4, <2>1, EndQuery DEF Collect
  <2>2. ASSUME NEW e \in query.rest, \A f \in query.rest : StringLeq(e.key, f.key),
               StringLeq(e.key, query.hi),
               query' = [query EXCEPT
                     !.rest = @ \ {e},
                     !.result = IF IsTombstone(e.write) THEN @ ELSE Append(@, e)]
        PROVE  QueryOK(query', log)
    BY <1>3, <1>4, <2>2, RoundQuery DEF Collect
  <2> QED BY <1>4, <2>1, <2>2 DEF Collect
<1>5. ASSUME Return PROVE QueryOK(query', log)
  <2>1. log \in Seq(Op)
    BY DEF RangeInv, StoreInv, StoreTypes
  <2> QED BY <1>5, <2>1, LenProperties, IdleQuery DEF Return
<1>6. QueryOK(query', log)
  BY <1>3, <1>4, <1>5, CallQuery, TakeShardQuery, SeekQuery DEF RangeInv, QueryStep
<1> QED BY <1>1, <1>2, <1>6 DEF RangeInv

\* Whatever the writers do between two of its steps, a query keeps what it has copied.
THEOREM RangeInvHolds == Spec => []RangeInv
<1>1. ASSUME RangeInv, [Next]_vars PROVE RangeInv'
  <2>1. CASE UNCHANGED vars
    BY <1>1, <2>1
       DEF vars, RangeInv, StoreInv, StoreTypes, ShardsOK, ShowsLast
  <2>2. CASE Next
    BY <1>1, <2>2, WriterStep, ReaderStep DEF Next
  <2> QED BY <1>1, <2>1, <2>2
<1> QED BY <1>1, InitRange, PTL DEF Spec

\* The states are typed.
THEOREM QueryTyped == Spec => []TypeOK
<1>1. RangeInv => TypeOK
  <2> SUFFICES ASSUME RangeInv PROVE TypeOK
    OBVIOUS
  <2>1. StoreTypes /\ query \in QueryState /\ Copies(query, log) /\ Collected(query, log)
    BY DEF RangeInv, StoreInv, QueryOK
  <2>2. log \in Seq(Op) /\ Len(log) \in Nat /\ DOMAIN log = 1 .. Len(log)
    BY <2>1, LenProperties DEF StoreTypes
  <2>3. query.cut \in [Shard -> 0 .. Len(log)]
    <3>1. query.cut \in [Shard -> Nat] /\ \A s \in Shard : query.cut[s] <= Len(log)
      BY <2>1 DEF QueryState, Copies
    <3> QED BY <2>2, <3>1
  <2>4. \A i \in DOMAIN query.result : query.result[i].write \in DOMAIN log
    BY <2>1, <2>2 DEF Collected
  <2>5. query.pc \in {"idle", "snapshot", "seek", "collect", "done"}
    BY <2>1 DEF QueryState
  <2> QED BY <2>1, <2>2, <2>3, <2>4, <2>5 DEF StoreTypes, TypeOK, Op
<1> QED BY <1>1, RangeInvHolds, PTL

\* What a query has collected so far it may return: keys of the interval, in order, each
\* with the value it had when its shard was copied; whether or not the ranges and GetShard
\* agree on any key.
CollectsOnlyLive ==
    /\ \A i \in DOMAIN query.result :
          LET e == query.result[i]
          IN  Live(e.key) /\ e.write = AnswerAfter(query.cut[GetShard(e.key)], e.key)
    /\ \A i, j \in DOMAIN query.result :
          i < j => StringLess(query.result[i].key, query.result[j].key)

\* Live keys are the wanted ones.
LEMMA LiveIsWanted ==
    ASSUME RangeInv, NEW k \in Key
    PROVE  /\ AnswerAfter(query.cut[GetShard(k)], k) = Value(query, log, k)
           /\ Live(k) <=> Wanted(query, log, k)
<1>1. query.cut[GetShard(k)] \in Nat
  BY KeysRouted DEF RangeInv, QueryOK, QueryState
<1>2. AnswerAfter(query.cut[GetShard(k)], k) = Value(query, log, k)
  BY <1>1, AnswerIs DEF Value
<1> QED BY <1>2 DEF Live, Wanted

\* A query returns nothing that is deleted, outdated, outside the interval or out of order.
THEOREM CollectsLive == Spec => []CollectsOnlyLive
<1>1. RangeInv => CollectsOnlyLive
  <2> SUFFICES ASSUME RangeInv PROVE CollectsOnlyLive
    OBVIOUS
  <2>1. query \in QueryState /\ Collected(query, log)
    BY DEF RangeInv, QueryOK
  <2>2. \A i \in DOMAIN query.result : query.result[i].key \in Key
    BY <2>1, QueryKeys
  <2> QED BY <2>1, <2>2, LiveIsWanted DEF CollectsOnlyLive, Collected
<1> QED BY <1>1, RangeInvHolds, PTL

\* RangeQuery returns every live key of the interval, if the ranges hold the spatial keys
\* that GetShard places in them.
THEOREM QueryAlwaysAnswers ==
    ASSUME SpatialKeysAgree
    PROVE  Spec => []QueryAnswers
<1>1. RangeInv => QueryAnswers
  <2> SUFFICES ASSUME RangeInv, query.pc = "done" PROVE QueryAnswers
    BY DEF QueryAnswers
  <2>1. /\ query \in QueryState /\ Phases(query)
        /\ Collected(query, log) /\ NothingLost(query, log)
    BY DEF RangeInv, QueryOK
  <2>2. \A i \in DOMAIN query.result : query.result[i].key \in Key
    BY <2>1, QueryKeys
  <2>3. ASSUME NEW k \in Key, Live(k)
        PROVE  \E i \in DOMAIN query.result : query.result[i].key = k
    <3>1. GetShard(k) < query.shard /\ query.rest = {}
      <4>1. GetShard(k) \in 0 .. ShardNum - 1
        BY KeysRouted DEF Shard
      <4>2. GetShard(k) < ShardNum
        BY <4>1, RoutingTypes
      <4>3. query.shard = ShardNum /\ query.rest = {}
        BY <2>1 DEF Phases
      <4> QED BY <4>2, <4>3
    <3> QED BY <2>1, <2>3, <3>1, LiveIsWanted DEF NothingLost
  <2> QED BY <2>1, <2>2, <2>3, LiveIsWanted DEF QueryAnswers, Collected
<1> QED BY <1>1, RangeInvHolds, PTL

-----------------------------------------------------------------------------
(* Which spatial keys agree.                                               *)

\* The order of two spatial keys, field by field.
LEMMA FieldOrder ==
    ASSUME NEW a \in Seq(Nat), NEW b \in Seq(Nat), Len(a) = 4, Len(b) = 4
    PROVE  StringLess(a, b) <=>
              \/ a[1] < b[1]
              \/ a[1] = b[1] /\ a[2] < b[2]
              \/ a[1] = b[1] /\ a[2] = b[2] /\ a[3] < b[3]
              \/ a[1] = b[1] /\ a[2] = b[2] /\ a[3] = b[3] /\ a[4] < b[4]
<1>1. DOMAIN a = 1 .. 4 /\ DOMAIN b = 1 .. 4
  BY LenProperties
<1>2. StringLess(a, b) <=> \E i \in 1 .. 4 : a[i] < b[i] /\ \A j \in 1 .. i - 1 : a[j] = b[j]
  BY <1>1 DEF StringLess
<1>3. \A i \in 1 .. 4 : i = 1 \/ i = 2 \/ i = 3 \/ i = 4
  OBVIOUS
<1>4. 1 .. 0 = {} /\ 1 .. 1 = {1} /\ 1 .. 2 = {1, 2} /\ 1 .. 3 = {1, 2, 3}
  OBVIOUS
<1>5. \A i \in 1 .. 4 : (\A j \in 1 .. i - 1 : a[j] = b[j]) <=>
         /\ i > 1 => a[1] = b[1]
         /\ i > 2 => a[2] = b[2]
         /\ i > 3 => a[3] = b[3]
  BY <1>3, <1>4
<1> QED BY <1>2, <1>3, <1>5

\* The order of a spatial key and the boundary at code n.
LEMMA BoundaryOrder ==
    ASSUME NEW layer \in Nat, NEW lod \in Nat, NEW code \in Nat, NEW time \in Nat, NEW n \in Nat
    PROVE  /\ StringLess(<<1, 0, n, 0>>, <<layer, lod, code, time>>) <=>
                 \/ 1 < layer
                 \/ layer = 1 /\ 0 < lod
                 \/ layer = 1 /\ lod = 0 /\ n < code
                 \/ layer = 1 /\ lod = 0 /\ n = code /\ 0 < time
           /\ StringLess(<<layer, lod, code, time>>, <<1, 0, n, 0>>) <=>
                 layer < 1 \/ (layer = 1 /\ lod = 0 /\ code < n)
<1> DEFINE key == <<layer, lod, code, time>>
           start == <<1, 0, n, 0>>
<1>1. /\ key \in Seq(Nat) /\ Len(key) = 4
      /\ key[1] = layer /\ key[2] = lod /\ key[3] = code /\ key[4] = time
  OBVIOUS
<1>2. /\ start \in Seq(Nat) /\ Len(start) = 4
      /\ start[1] = 1 /\ start[2] = 0 /\ start[3] = n /\ start[4] = 0
  OBVIOUS
<1> HIDE DEF key, start
<1>3. StringLess(start, key) <=>
                 \/ 1 < layer
                 \/ layer = 1 /\ 0 < lod
                 \/ layer = 1 /\ lod = 0 /\ n < code
                 \/ layer = 1 /\ lod = 0 /\ n = code /\ 0 < time
  BY <1>1, <1>2, FieldOrder
<1>4. StringLess(key, start) <=> layer < 1 \/ (layer = 1 /\ lod = 0 /\ code < n)
  BY <1>1, <1>2, FieldOrder
<1> QED BY <1>3, <1>4 DEF key, start

\* GetShard divides by Step + 1 where InitUniformRanges multiplies Step: of an occupancy cell
\* (layer 1, LOD 0) the two agree unless its code lies behind the end of its shard's range.
THEOREM LayerOneAgrees ==
    ASSUME NEW code \in Nat, NEW time \in Nat
    PROVE  InRange(CodeShard(code), <<1, 0, code, time>>) <=>
              CodeShard(code) = ShardNum - 1 \/ code < (CodeShard(code) + 1) * Step
<1> DEFINE i == CodeShard(code)
           key == <<1, 0, code, time>>
<1>1. Step \in Nat /\ ShardNum \in Nat /\ i \in Nat /\ i <= ShardNum - 1
  BY RoutingTypes DEF Shard
<1>2. i * Step \in Nat /\ (i + 1) * Step \in Nat /\ i * Step <= code
  <2>1. code \div (Step + 1) \in Nat /\ (code \div (Step + 1)) * (Step + 1) <= code
    BY <1>1
  <2>2. i <= code \div (Step + 1)
    BY <1>1, <2>1 DEF CodeShard
  <2>3. i * Step <= (code \div (Step + 1)) * (Step + 1)
    BY <1>1, <2>1, <2>2
  <2> QED BY <1>1, <2>1, <2>3
<1>3. StringLeq(Boundary(i), key)
  <2> DEFINE low == i * Step
  <2>1. low \in Nat /\ low <= code
    BY <1>2
  <2> HIDE DEF low
  <2>2. StringLeq(<<1, 0, low, 0>>, <<1, 0, code, time>>)
    <3>1. low < code \/ (low = code /\ (time = 0 \/ 0 < time))
      BY <2>1
    <3> QED BY <2>1, <3>1, BoundaryOrder DEF StringLeq
  <2> QED BY <2>2 DEF Boundary, low
<1>4. StringLess(key, Boundary(i + 1)) <=> code < (i + 1) * Step
  <2> DEFINE high == (i + 1) * Step
  <2>1. high \in Nat
    BY <1>2
  <2> HIDE DEF high
  <2>2. StringLess(<<1, 0, code, time>>, <<1, 0, high, 0>>) <=> code < high
    BY <2>1, BoundaryOrder
  <2> QED BY <2>2 DEF Boundary, high
<1>5. Boundary(i + 1) # <<>>
  BY DEF Boundary
<1> HIDE DEF i, key
<1>6. InRange(i, key) <=> i = ShardNum - 1 \/ StringLess(key, Boundary(i + 1))
  BY <1>3, <1>5 DEF InRange, StartKey, EndKey
<1> QED BY <1>4, <1>6 DEF i, key

\* Of the keys of higher layers (point clouds) they agree in the last shard only.
THEOREM HigherLayersDisagree ==
    ASSUME NEW layer \in Nat, layer > 1, NEW lod \in Nat, NEW code \in Nat, NEW time \in Nat
    PROVE  InRange(CodeShard(code), <<layer, lod, code, time>>) <=>
              CodeShard(code) = ShardNum - 1
<1> DEFINE i == CodeShard(code)
           key == <<layer, lod, code, time>>
<1>1. Step \in Nat /\ ShardNum \in Nat /\ i \in Nat
  BY RoutingTypes DEF Shard
<1>2. i * Step \in Nat /\ (i + 1) * Step \in Nat
  BY <1>1
<1>3. ASSUME NEW b \in Nat
      PROVE  /\ StringLeq(<<1, 0, b, 0>>, <<layer, lod, code, time>>)
             /\ ~StringLess(<<layer, lod, code, time>>, <<1, 0, b, 0>>)
  <2>1. StringLess(<<1, 0, b, 0>>, <<layer, lod, code, time>>)
    BY BoundaryOrder
  <2>2. ~(layer < 1) /\ layer # 1
    OBVIOUS
  <2>3. ~StringLess(<<layer, lod, code, time>>, <<1, 0, b, 0>>)
    BY <2>2, BoundaryOrder
  <2> QED BY <2>1, <2>3 DEF StringLeq
<1>4. /\ StringLeq(Boundary(i), key) /\ ~StringLess(key, Boundary(i + 1))
      /\ Boundary(i + 1) # <<>>
  BY <1>2, <1>3 DEF Boundary
<1> HIDE DEF i, key
<1>5. InRange(i, key) <=> i = ShardNum - 1
  BY <1>4 DEF InRange, StartKey, EndKey
<1> QED BY <1>5 DEF i, key
=============================================================================
