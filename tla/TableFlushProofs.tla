-------------------------- MODULE TableFlushProofs --------------------------
(***************************************************************************)
(* Theorems about TableFlush: the skip list, the file, the scan and the     *)
(* flush, for every set of keys, number of nodes and levels, size of an     *)
(* entry and of a block.                                                    *)
(*                                                                         *)
(* 1. Pairs in order: there is one way to show a set of pairs.              *)
(* 2. The list: its invariant ListInv, what the walks from level to level   *)
(*    find, what dump_all shows, and that put, erase and clear keep it.     *)
(* 3. The file: what Add and Finish write and what a restart opens.         *)
(* 4. Reading: a place in a block is a position among all pairs; get, the   *)
(*    iterator, and what a scan has shown.                                  *)
(* 5. The flush: its invariant FlushInv, phase by phase, and the steps of   *)
(*    FlushedTable that its steps are.                                      *)
(***************************************************************************)
EXTENDS TableFlush, TLAPS, Extremes, FiniteSetTheorems, SequenceTheorems

-----------------------------------------------------------------------------
(* Pairs in the order of their keys.                                       *)

\* A pair has a natural number for a key, and an entry that is not Absent.
LEMMA PairTypes ==
    ASSUME NEW p \in Pair
    PROVE  /\ p.key \in Key /\ p.key \in Nat
           /\ p.entry \in Entry /\ p.entry # Absent
BY EntriesAssumption DEF Pair

\* Two sequences that show the same pairs in order agree as far as both go: at the
\* first difference each would have to show the pair of the other later.
LEMMA InOrderAgree ==
    ASSUME NEW P, NEW s \in Seq(Pair), NEW t \in Seq(Pair),
           IsInOrder(s, P), IsInOrder(t, P)
    PROVE  \A i \in DOMAIN s \cap DOMAIN t : s[i] = t[i]
<1> DEFINE Bad == {i \in DOMAIN s \cap DOMAIN t : s[i] # t[i]}
<1>1. DOMAIN s = 1 .. Len(s) /\ DOMAIN t = 1 .. Len(t) /\ Len(s) \in Nat /\ Len(t) \in Nat
  BY LenProperties
<1> SUFFICES ASSUME Bad # {} PROVE FALSE
  OBVIOUS
<1>2. Bad \in SUBSET Nat
  BY <1>1
<1>3. PICK m \in Bad : \A i \in Bad : m <= i
  <2> HIDE DEF Bad
  <2> QED BY <1>2, LeastExists
<1>4. m \in DOMAIN s /\ m \in DOMAIN t /\ m \in Nat /\ s[m] # t[m]
  BY <1>2
<1>5. \A i \in 1 .. m - 1 : i \in DOMAIN s /\ i \in DOMAIN t /\ s[i] = t[i]
  <2> SUFFICES ASSUME NEW i \in 1 .. m - 1
               PROVE i \in DOMAIN s /\ i \in DOMAIN t /\ s[i] = t[i]
    OBVIOUS
  <2>1. i \in DOMAIN s /\ i \in DOMAIN t /\ ~(m <= i)
    BY <1>1, <1>4
  <2>2. i \notin Bad
    <3> HIDE DEF Bad
    <3> QED BY <1>3, <2>1
  <2> QED BY <2>1, <2>2
<1>6. PICK j \in DOMAIN t : t[j] = s[m]
  BY <1>4 DEF IsInOrder, ToSet
<1>7. PICK h \in DOMAIN s : s[h] = t[m]
  BY <1>4 DEF IsInOrder, ToSet
<1> HIDE DEF Bad
<1>8. s[m] \in Pair /\ t[m] \in Pair
  BY <1>4, ElementOfSeq, <1>1
<1>9. s[m].key \in Nat /\ t[m].key \in Nat
  BY <1>8, PairTypes
<1>10. t[m].key < s[m].key
  <2>1. j \in Nat /\ j >= 1
    BY <1>1
  <2>2. CASE j < m
    <3>1. s[j] = t[j] /\ j \in DOMAIN s
      BY <1>5, <2>1, <2>2, <1>4
    <3>2. s[j].key < s[m].key
      BY <1>4, <3>1, <2>2 DEF IsInOrder
    <3> QED BY <3>1, <3>2, <1>6, <1>9
  <2>3. CASE j = m
    BY <2>3, <1>4, <1>6
  <2>4. CASE j > m
    <3>1. t[m].key < t[j].key
      BY <1>4, <2>1, <2>4 DEF IsInOrder
    <3> QED BY <3>1, <1>6
  <2> QED BY <2>1, <2>2, <2>3, <2>4, <1>4
<1>11. s[m].key < t[m].key
  <2>1. h \in Nat /\ h >= 1
    BY <1>1
  <2>2. CASE h < m
    <3>1. s[h] = t[h] /\ h \in DOMAIN t
      BY <1>5, <2>1, <2>2, <1>4
    <3>2. t[h].key < t[m].key
      BY <1>4, <3>1, <2>2 DEF IsInOrder
    <3> QED BY <3>1, <3>2, <1>7, <1>9
  <2>3. CASE h = m
    BY <2>3, <1>4, <1>7
  <2>4. CASE h > m
    <3>1. s[m].key < s[h].key
      BY <1>4, <2>1, <2>4 DEF IsInOrder
    <3> QED BY <3>1, <1>7
  <2> QED BY <2>1, <2>2, <2>3, <2>4, <1>4
<1> QED BY <1>9, <1>10, <1>11

\* Neither of them is shorter.
LEMMA InOrderNotShorter ==
    ASSUME NEW P, NEW s \in Seq(Pair), NEW t \in Seq(Pair),
           IsInOrder(s, P), IsInOrder(t, P)
    PROVE  ~(Len(s) < Len(t))
<1> SUFFICES ASSUME Len(s) < Len(t) PROVE FALSE
  OBVIOUS
<1> DEFINE m == Len(s) + 1
<1>1. DOMAIN s = 1 .. Len(s) /\ DOMAIN t = 1 .. Len(t) /\ Len(s) \in Nat /\ Len(t) \in Nat
  BY LenProperties
<1>2. m \in DOMAIN t
  BY <1>1
<1>3. PICK j \in DOMAIN s : s[j] = t[m]
  BY <1>2 DEF IsInOrder, ToSet
<1>4. j \in DOMAIN t /\ j < m /\ s[j] = t[j]
  BY <1>1, <1>2, InOrderAgree
<1>5. t[j].key < t[m].key
  BY <1>2, <1>4 DEF IsInOrder
<1>6. t[m].key \in Nat
  BY <1>2, <1>1, ElementOfSeq, PairTypes
<1> QED BY <1>3, <1>4, <1>5, <1>6

\* There is one way to show pairs in order.
LEMMA InOrderUnique ==
    ASSUME NEW P, NEW s \in Seq(Pair), NEW t \in Seq(Pair),
           IsInOrder(s, P), IsInOrder(t, P)
    PROVE  s = t
<1>1. Len(s) = Len(t)
  <2>1. ~(Len(s) < Len(t)) /\ ~(Len(t) < Len(s))
    BY InOrderNotShorter
  <2>2. Len(s) \in Nat /\ Len(t) \in Nat
    BY LenProperties
  <2> QED BY <2>1, <2>2
<1>2. \A i \in 1 .. Len(s) : s[i] = t[i]
  BY <1>1, InOrderAgree, LenProperties
<1> QED BY <1>1, <1>2, SeqEqual

\* Nothing is shown in order by the empty sequence.
LEMMA InOrderEmpty ==
    <<>> \in Seq(Pair) /\ IsInOrder(<<>>, {})
BY DEF IsInOrder, ToSet

\* A smaller pair may be put in front.
LEMMA InOrderFront ==
    ASSUME NEW P, NEW s \in Seq(Pair), IsInOrder(s, P),
           NEW p \in Pair, \A q \in P : p.key < q.key
    PROVE  /\ <<p>> \o s \in Seq(Pair)
           /\ IsInOrder(<<p>> \o s, {p} \cup P)
<1> DEFINE r == <<p>> \o s
<1>1. DOMAIN s = 1 .. Len(s) /\ Len(s) \in Nat
  BY LenProperties
<1>2. /\ r \in Seq(Pair)
      /\ DOMAIN r = 1 .. Len(s) + 1 /\ r[1] = p
      /\ \A i \in 2 .. Len(s) + 1 : r[i] = s[i - 1]
  OBVIOUS
<1> HIDE DEF r
<1>3. ToSet(r) = {p} \cup P
  <2>1. \A i \in DOMAIN r : r[i] \in {p} \cup P
    <3> SUFFICES ASSUME NEW i \in DOMAIN r PROVE r[i] \in {p} \cup P
      OBVIOUS
    <3>1. i = 1 \/ (i \in 2 .. Len(s) + 1 /\ i - 1 \in DOMAIN s)
      BY <1>1, <1>2
    <3> QED BY <3>1, <1>2 DEF IsInOrder, ToSet
  <2>2. \A q \in P : \E i \in DOMAIN r : r[i] = q
    <3> SUFFICES ASSUME NEW q \in P PROVE \E i \in DOMAIN r : r[i] = q
      OBVIOUS
    <3>1. PICK i \in DOMAIN s : s[i] = q
      BY DEF IsInOrder, ToSet
    <3>2. i + 1 \in 2 .. Len(s) + 1 /\ i + 1 \in DOMAIN r /\ i + 1 - 1 = i
      BY <1>1, <1>2
    <3>3. r[i + 1] = q
      BY <1>2, <3>1, <3>2
    <3> QED BY <3>2, <3>3
  <2>3. 1 \in DOMAIN r
    BY <1>1, <1>2
  <2> QED BY <2>1, <2>2, <2>3, <1>2 DEF ToSet
<1>4. ASSUME NEW i \in DOMAIN r, NEW j \in DOMAIN r, i < j PROVE r[i].key < r[j].key
  <2>1. j \in 2 .. Len(s) + 1 /\ j - 1 \in DOMAIN s
    BY <1>1, <1>2, <1>4
  <2>2. r[j] = s[j - 1] /\ s[j - 1] \in P
    BY <1>2, <2>1 DEF IsInOrder, ToSet
  <2>3. CASE i = 1
    BY <1>2, <2>2, <2>3
  <2>4. CASE i # 1
    <3>1. i \in 2 .. Len(s) + 1 /\ i - 1 \in DOMAIN s /\ i - 1 < j - 1
      BY <1>1, <1>2, <1>4, <2>4
    <3>2. s[i - 1].key < s[j - 1].key
      BY <2>1, <3>1 DEF IsInOrder
    <3> QED BY <1>2, <2>2, <3>1, <3>2
  <2> QED BY <2>3, <2>4
<1> QED BY <1>2, <1>3, <1>4 DEF IsInOrder, r

\* A greater pair may be put behind.
LEMMA InOrderBehind ==
    ASSUME NEW P, NEW s \in Seq(Pair), IsInOrder(s, P),
           NEW p \in Pair, \A q \in P : q.key < p.key
    PROVE  /\ s \o <<p>> \in Seq(Pair) /\ Last(s \o <<p>>) = p
           /\ IsInOrder(s \o <<p>>, P \cup {p})
<1> DEFINE r == s \o <<p>>
<1>1. DOMAIN s = 1 .. Len(s) /\ Len(s) \in Nat
  BY LenProperties
<1>2. /\ r \in Seq(Pair) /\ Len(r) = Len(s) + 1
      /\ DOMAIN r = 1 .. Len(s) + 1 /\ r[Len(s) + 1] = p
      /\ \A i \in 1 .. Len(s) : r[i] = s[i]
  OBVIOUS
<1> HIDE DEF r
<1>3. ToSet(r) = P \cup {p}
  <2>1. \A i \in DOMAIN r : r[i] \in P \cup {p}
    <3> SUFFICES ASSUME NEW i \in DOMAIN r PROVE r[i] \in P \cup {p}
      OBVIOUS
    <3>1. i = Len(s) + 1 \/ i \in 1 .. Len(s)
      BY <1>1, <1>2
    <3> QED BY <3>1, <1>1, <1>2 DEF IsInOrder, ToSet
  <2>2. \A q \in P : \E i \in DOMAIN r : r[i] = q
    <3> SUFFICES ASSUME NEW q \in P PROVE \E i \in DOMAIN r : r[i] = q
      OBVIOUS
    <3>1. PICK i \in DOMAIN s : s[i] = q
      BY DEF IsInOrder, ToSet
    <3>2. i \in 1 .. Len(s) /\ i \in DOMAIN r
      BY <1>1, <1>2
    <3> QED BY <3>1, <3>2, <1>2
  <2>3. Len(s) + 1 \in DOMAIN r
    BY <1>1, <1>2
  <2> QED BY <2>1, <2>2, <2>3, <1>2 DEF ToSet
<1>4. ASSUME NEW i \in DOMAIN r, NEW j \in DOMAIN r, i < j PROVE r[i].key < r[j].key
  <2>1. i \in 1 .. Len(s) /\ i \in DOMAIN s /\ r[i] = s[i] /\ s[i] \in P
    BY <1>1, <1>2, <1>4 DEF IsInOrder, ToSet
  <2>2. CASE j = Len(s) + 1
    BY <1>2, <2>1, <2>2
  <2>3. CASE j # Len(s) + 1
    <3>1. j \in 1 .. Len(s) /\ j \in DOMAIN s /\ r[j] = s[j]
      BY <1>1, <1>2, <2>3
    <3> QED BY <2>1, <3>1, <1>4 DEF IsInOrder
  <2> QED BY <2>2, <2>3
<1>5. Last(r) = p
  BY <1>1, <1>2 DEF Last
<1> QED BY <1>2, <1>3, <1>4, <1>5 DEF IsInOrder, r

-----------------------------------------------------------------------------
(* The levels, as relations on the cells c and the links f.                *)

\* Where a node is in the order; the head is before all keys.
Rank(c, n) == IF n = HeadNode THEN -1 ELSE c[n].key

OnLevel(c, f, i) == {n \in DOMAIN c : i <= Len(f[n])}

\* x is the node that follows n on level i, or Null when there is none.
Follows(c, f, i, n, x) ==
    \/ /\ x = Null
       /\ \A m \in OnLevel(c, f, i) : c[m].key <= Rank(c, n)
    \/ /\ x \in OnLevel(c, f, i)
       /\ Rank(c, n) < c[x].key
       /\ \A m \in OnLevel(c, f, i) : Rank(c, n) < c[m].key => c[x].key <= c[m].key

\* The cells, and the nodes with their links.
Shape(c, f) ==
    /\ DOMAIN c \subseteq Node
    /\ \A n \in DOMAIN c : c[n] \in Pair
    /\ DOMAIN f = DOMAIN c \cup {HeadNode}
    /\ \A n \in DOMAIN f : f[n] \in Seq(Node \cup {Null}) /\ Len(f[n]) \in 1 .. MaxLevel
    /\ Len(f[HeadNode]) = MaxLevel

OneNodePerKey(c) == \A m, n \in DOMAIN c : c[m].key = c[n].key => m = n

Linked(c, f) == \A n \in DOMAIN f : \A i \in 1 .. Len(f[n]) : Follows(c, f, i, n, f[n][i])

\* The level is that of the tallest node.
Highest(c, f, top) ==
    /\ top \in 1 .. MaxLevel
    /\ \A n \in DOMAIN c : Len(f[n]) <= top
    /\ top = 1 \/ \E n \in DOMAIN c : Len(f[n]) = top

ListOf(c, f) == Shape(c, f) /\ OneNodePerKey(c) /\ Linked(c, f)

\* The invariant of the list.
ListInv ==
    /\ ListOf(cell, forward)
    /\ Highest(cell, forward, level)
    /\ count = Cardinality(DOMAIN cell)

\* m is the last node of level i before key k, or the head.
IsLast(c, f, i, k, m) ==
    /\ m = HeadNode \/ (m \in OnLevel(c, f, i) /\ c[m].key < k)
    /\ \A x \in OnLevel(c, f, i) : c[x].key < k => c[x].key <= Rank(c, m)

\* x is the first node whose key is not below k, or Null when there is none.
IsFirst(c, k, x) ==
    \/ x = Null /\ \A m \in DOMAIN c : c[m].key < k
    \/ /\ x \in DOMAIN c /\ k <= c[x].key
       /\ \A m \in DOMAIN c : k <= c[m].key => c[x].key <= c[m].key

\* The head and Null are no addresses of nodes, and ranks are numbers.
LEMMA Ranks ==
    ASSUME NEW c, NEW f, Shape(c, f)
    PROVE  /\ HeadNode \notin DOMAIN c /\ Null \notin DOMAIN c
           /\ \A n \in DOMAIN c : /\ c[n].key \in Nat /\ Rank(c, n) = c[n].key
                                  /\ n \in DOMAIN f /\ n # HeadNode /\ n # Null
           /\ \A n \in DOMAIN f : Rank(c, n) \in Int /\ Rank(c, n) >= -1
           /\ Rank(c, HeadNode) = -1 /\ HeadNode \in DOMAIN f
<1>1. \A n \in DOMAIN c : n \in 1 .. MaxNode /\ n # 0 /\ n # -1
  BY SkipListAssumption DEF Shape, Node
<1>2. \A n \in DOMAIN c : c[n].key \in Nat
  BY PairTypes DEF Shape
<1>3. Rank(c, HeadNode) = -1
  BY DEF Rank
<1>4. \A n \in DOMAIN c : Rank(c, n) = c[n].key
  BY <1>1 DEF Rank, HeadNode
<1>5. DOMAIN f = DOMAIN c \cup {HeadNode}
  BY DEF Shape
<1> QED BY <1>1, <1>2, <1>3, <1>4, <1>5 DEF HeadNode, Null

\* The links of a node are as many as its height.
LEMMA Heights ==
    ASSUME NEW c, NEW f, Shape(c, f), NEW n \in DOMAIN f
    PROVE  /\ Len(f[n]) \in Nat /\ Len(f[n]) >= 1 /\ Len(f[n]) <= MaxLevel
           /\ DOMAIN f[n] = 1 .. Len(f[n])
           /\ \A i \in 1 .. Len(f[n]) : f[n][i] \in Node \cup {Null}
BY LenProperties, ElementOfSeq, SkipListAssumption DEF Shape

\* Of some nodes, one has the greatest key.
LEMMA GreatestNode ==
    ASSUME NEW c, NEW f, Shape(c, f), NEW S \in SUBSET DOMAIN c, S # {}
    PROVE  \E m \in S : \A n \in S : c[n].key <= c[m].key
<1> DEFINE Keys == {c[n].key : n \in S}
<1>1. Keys \in SUBSET Nat /\ Keys # {}
  BY Ranks
<1>2. IsFiniteSet(S)
  <2>1. IsFiniteSet(Node)
    BY FS_Interval, SkipListAssumption DEF Node
  <2> QED BY <2>1, FS_Subset DEF Shape
<1>3. IsFiniteSet(Keys)
  <2> DEFINE key == [n \in S |-> c[n].key]
  <2>1. key \in Surjection(S, Keys)
    BY DEF Surjection
  <2> HIDE DEF key, Keys
  <2> QED BY <1>2, <2>1, FS_Surjection
<1>4. PICK h \in Keys : \A g \in Keys : g <= h
  <2> HIDE DEF Keys
  <2> QED BY <1>1, <1>3, FiniteGreatest
<1> QED BY <1>4

\* Of some nodes, one has the least key.
LEMMA LeastNode ==
    ASSUME NEW c, NEW f, Shape(c, f), NEW S \in SUBSET DOMAIN c, S # {}
    PROVE  \E m \in S : \A n \in S : c[m].key <= c[n].key
<1> DEFINE Keys == {c[n].key : n \in S}
<1>1. Keys \in SUBSET Nat /\ Keys # {}
  BY Ranks
<1>2. PICK h \in Keys : \A g \in Keys : h <= g
  <2> HIDE DEF Keys
  <2> QED BY <1>1, LeastExists
<1> QED BY <1>2

\* There is a last node before k on each level.
LEMMA LastExistsOnce ==
    ASSUME NEW c, NEW f, Shape(c, f), OneNodePerKey(c), NEW i \in 1 .. MaxLevel, NEW k \in Nat
    PROVE  /\ \E m : IsLast(c, f, i, k, m)
           /\ \A m, n : IsLast(c, f, i, k, m) /\ IsLast(c, f, i, k, n) => m = n
<1> DEFINE S == {n \in OnLevel(c, f, i) : c[n].key < k}
<1>1. \E m : IsLast(c, f, i, k, m)
  <2>1. CASE S = {}
    <3>1. IsLast(c, f, i, k, HeadNode)
      BY <2>1 DEF IsLast
    <3> QED BY <3>1
  <2>2. CASE S # {}
    <3>1. S \in SUBSET DOMAIN c
      BY DEF OnLevel
    <3>2. PICK m \in S : \A n \in S : c[n].key <= c[m].key
      BY <2>2, <3>1, GreatestNode
    <3>3. IsLast(c, f, i, k, m)
      BY <3>1, <3>2, Ranks DEF IsLast
    <3> QED BY <3>3
  <2> QED BY <2>1, <2>2
<1>2. ASSUME NEW m, NEW n, IsLast(c, f, i, k, m), IsLast(c, f, i, k, n) PROVE m = n
  <2>1. m \in DOMAIN c \cup {HeadNode} /\ n \in DOMAIN c \cup {HeadNode}
    BY <1>2 DEF IsLast, OnLevel
  <2>2. /\ \A x \in DOMAIN c : c[x].key \in Nat /\ Rank(c, x) = c[x].key
        /\ Rank(c, HeadNode) = -1
    BY Ranks
  <2>3. /\ m = HeadNode \/ Rank(c, m) <= Rank(c, n)
        /\ n = HeadNode \/ Rank(c, n) <= Rank(c, m)
    BY <1>2, <2>2 DEF IsLast, OnLevel
  <2>4. CASE m = HeadNode
    BY <2>1, <2>2, <2>3, <2>4
  <2>5. CASE n = HeadNode
    BY <2>1, <2>2, <2>3, <2>5
  <2>6. CASE m # HeadNode /\ n # HeadNode
    <3>1. m \in DOMAIN c /\ n \in DOMAIN c /\ c[m].key = c[n].key
      BY <2>1, <2>2, <2>3, <2>6
    <3> QED BY <3>1 DEF OneNodePerKey
  <2> QED BY <2>4, <2>5, <2>6
<1> QED BY <1>1, <1>2

-----------------------------------------------------------------------------
(* The walks of the searches.                                              *)

\* The loop of one level: what it does at a node, and where it ends.  (The function of
\* LastBefore is the one with this equation, since each step goes to a greater key.)
LEMMA WalkEnds ==
    ASSUME NEW c, NEW f, ListOf(c, f), NEW i \in 1 .. MaxLevel, NEW k \in Nat,
           NEW m \in DOMAIN f, i <= Len(f[m]), Rank(c, m) < k,
           NEW x, x = f[m][i], ~(x # Null /\ c[x].key < k)
    PROVE  IsLast(c, f, i, k, m)
<1>0. Shape(c, f)
  BY DEF ListOf
<1>1. Follows(c, f, i, m, x)
  BY DEF ListOf, Linked
<1>2. /\ \A n \in DOMAIN c : c[n].key \in Nat /\ Rank(c, n) = c[n].key
      /\ Rank(c, m) \in Int
      /\ m = HeadNode \/ m \in DOMAIN c
  BY <1>0, Ranks DEF Shape
<1>3. m = HeadNode \/ (m \in OnLevel(c, f, i) /\ c[m].key < k)
  BY <1>2 DEF OnLevel
<1>4. \A n \in OnLevel(c, f, i) : c[n].key \in Nat
  BY <1>2 DEF OnLevel
<1>5. ASSUME NEW n \in OnLevel(c, f, i), c[n].key < k PROVE c[n].key <= Rank(c, m)
  <2>1. CASE x = Null /\ \A p \in OnLevel(c, f, i) : c[p].key <= Rank(c, m)
    BY <2>1
  <2>2. CASE /\ x \in OnLevel(c, f, i)
             /\ \A p \in OnLevel(c, f, i) : Rank(c, m) < c[p].key => c[x].key <= c[p].key
    <3>1. x # Null /\ c[x].key \in Nat
      BY <2>2, <1>0, <1>4, Ranks DEF OnLevel
    <3>2. ~(c[x].key < k) /\ ~(c[x].key <= c[n].key)
      BY <3>1, <1>4, <1>5
    <3>3. ~(Rank(c, m) < c[n].key)
      BY <2>2, <3>2
    <3> QED BY <1>2, <1>4, <3>3
  <2> QED BY <1>1, <2>1, <2>2 DEF Follows
<1> QED BY <1>3, <1>5 DEF IsLast

\* If it goes on, it goes to a node of the level that is before k.
LEMMA WalkGoesOn ==
    ASSUME NEW c, NEW f, ListOf(c, f), NEW i \in 1 .. MaxLevel, NEW k \in Nat,
           NEW m \in DOMAIN f, i <= Len(f[m]),
           NEW x, x = f[m][i], x # Null, c[x].key < k
    PROVE  /\ x \in OnLevel(c, f, i) /\ x \in DOMAIN f /\ i <= Len(f[x])
           /\ Rank(c, m) < Rank(c, x) /\ Rank(c, x) < k
<1>0. Shape(c, f)
  BY DEF ListOf
<1>1. Follows(c, f, i, m, x)
  BY DEF ListOf, Linked
<1>2. x \in OnLevel(c, f, i) /\ Rank(c, m) < c[x].key
  BY <1>1 DEF Follows
<1> QED BY <1>0, <1>2, Ranks DEF OnLevel

\* A walk on level i ends at the last node before k, wherever it begins before k.
LEMMA LastBeforeIsLast ==
    ASSUME ListInv, NEW k \in Nat, NEW i \in 1 .. MaxLevel,
           NEW n \in DOMAIN forward, i <= Len(forward[n]), Rank(cell, n) < k
    PROVE  IsLast(cell, forward, i, k, LastBefore(k, i, n))
<1> DEFINE S == {x \in DOMAIN forward : i <= Len(forward[x])}
           Goes(m) == forward[m][i] # Null /\ cell[forward[m][i]].key < k
           L == CHOOSE m : IsLast(cell, forward, i, k, m)
           witness == [m \in S |-> IF Rank(cell, m) < k THEN L ELSE m]
           along == CHOOSE g : g = [m \in S |-> IF Goes(m) THEN g[forward[m][i]] ELSE m]
<1>1. ListOf(cell, forward) /\ Shape(cell, forward) /\ OneNodePerKey(cell)
  BY DEF ListInv, ListOf
<1>2. IsLast(cell, forward, i, k, L) /\ \A m : IsLast(cell, forward, i, k, m) => m = L
  BY <1>1, LastExistsOnce
<1> HIDE DEF L
<1>3. \A m \in DOMAIN forward : Rank(cell, m) \in Int
  BY <1>1, Ranks
<1>4. ASSUME NEW m \in S, Goes(m)
      PROVE  /\ forward[m][i] \in S /\ Rank(cell, m) < k
             /\ Rank(cell, m) < Rank(cell, forward[m][i]) /\ Rank(cell, forward[m][i]) < k
  <2>1. /\ forward[m][i] \in DOMAIN forward /\ i <= Len(forward[forward[m][i]])
        /\ Rank(cell, m) < Rank(cell, forward[m][i]) /\ Rank(cell, forward[m][i]) < k
    BY <1>1, <1>4, WalkGoesOn
  <2> QED BY <2>1, <1>3
<1>5. ASSUME NEW m \in S, ~Goes(m), Rank(cell, m) < k PROVE m = L
  BY <1>1, <1>2, <1>5, WalkEnds
<1> HIDE DEF Goes
<1>6. witness = [m \in S |-> IF Goes(m) THEN witness[forward[m][i]] ELSE m]
  <2>1. ASSUME NEW m \in S
        PROVE  witness[m] = IF Goes(m) THEN witness[forward[m][i]] ELSE m
    BY <1>4, <1>5, <2>1
  <2> HIDE DEF S
  <2>2. witness = [m \in S |-> witness[m]]
    OBVIOUS
  <2> HIDE DEF witness
  <2> QED BY <2>1, <2>2
<1>7. along = [m \in S |-> IF Goes(m) THEN along[forward[m][i]] ELSE m]
  <2> HIDE DEF witness, S
  <2> QED BY <1>6
<1>8. LastBefore(k, i, n) = along[n]
  BY DEF LastBefore, Goes
<1> HIDE DEF along
<1> DEFINE Bad == {m \in DOMAIN cell : m \in S /\ Rank(cell, m) < k /\ along[m] # L}
<1>9. Bad = {}
  <2> SUFFICES ASSUME Bad # {} PROVE FALSE
    OBVIOUS
  <2>1. PICK m \in Bad : \A x \in Bad : cell[x].key <= cell[m].key
    <3>1. Bad \in SUBSET DOMAIN cell
      OBVIOUS
    <3> HIDE DEF Bad
    <3> QED BY <1>1, <3>1, GreatestNode
  <2>2. m \in DOMAIN cell /\ m \in S /\ Rank(cell, m) < k /\ along[m] # L
    OBVIOUS
  <2>3. Goes(m)
    BY <2>2, <1>5, <1>7
  <2> DEFINE x == forward[m][i]
  <2>4. along[m] = along[x]
    BY <2>2, <2>3, <1>7
  <2>5. x \in S /\ Rank(cell, m) < Rank(cell, x) /\ Rank(cell, x) < k
    BY <2>2, <2>3, <1>4
  <2>6. x \in DOMAIN cell
    <3>1. Rank(cell, HeadNode) = -1 /\ Rank(cell, m) >= -1 /\ Rank(cell, m) \in Int
      BY <1>1, <2>2, Ranks
    <3>2. x # HeadNode
      BY <3>1, <2>5
    <3> QED BY <2>5, <3>2, <1>1 DEF Shape
  <2>7. x \in Bad
    BY <2>2, <2>4, <2>5, <2>6
  <2>8. cell[x].key <= cell[m].key
    BY <2>1, <2>7
  <2>9. Rank(cell, x) = cell[x].key /\ Rank(cell, m) = cell[m].key /\ cell[x].key \in Nat /\ cell[m].key \in Nat
    BY <1>1, <2>2, <2>6, Ranks
  <2> HIDE DEF Bad, x
  <2> QED BY <2>5, <2>8, <2>9
<1>10. \A m \in S : Rank(cell, m) < k => along[m] = L
  <2> SUFFICES ASSUME NEW m \in S, Rank(cell, m) < k PROVE along[m] = L
    OBVIOUS
  <2>1. CASE m \in DOMAIN cell
    BY <1>9, <2>1
  <2>2. CASE m \notin DOMAIN cell
    <3>1. m = HeadNode
      BY <2>2, <1>1 DEF Shape
    <3>2. CASE ~Goes(m)
      BY <3>2, <1>5, <1>7
    <3>3. CASE Goes(m)
      <4> DEFINE x == forward[m][i]
      <4>1. x \in S /\ Rank(cell, m) < Rank(cell, x) /\ Rank(cell, x) < k /\ along[m] = along[x]
        BY <3>3, <1>4, <1>7
      <4>2. x # HeadNode
        <5>1. Rank(cell, m) \in Int
          BY <1>3
        <5> QED BY <4>1, <3>1, <5>1
      <4>3. x \in DOMAIN cell
        BY <4>1, <4>2, <1>1 DEF Shape
      <4> QED BY <1>9, <4>1, <4>3
    <3> QED BY <3>2, <3>3
  <2> QED BY <2>1, <2>2
<1>11. LastBefore(k, i, n) = L
  <2>1. n \in S
    OBVIOUS
  <2> HIDE DEF S
  <2> QED BY <1>8, <1>10, <2>1
<1> QED BY <1>2, <1>11

\* The search from the top level down has the last node before k on each level.
LEMMA PredecessorsAreLast ==
    ASSUME ListInv, NEW k \in Nat
    PROVE  \A i \in 1 .. level : IsLast(cell, forward, i, k, Predecessors(k)[i])
<1> DEFINE L(i) == CHOOSE m : IsLast(cell, forward, i, k, m)
           Begin(g, i) == IF i = level THEN HeadNode ELSE g[i + 1]
           witness == [i \in 1 .. level |-> L(i)]
           update == CHOOSE g : g = [i \in 1 .. level |-> LastBefore(k, i, Begin(g, i))]
<1>1. ListOf(cell, forward) /\ Shape(cell, forward) /\ OneNodePerKey(cell) /\ level \in 1 .. MaxLevel
  BY DEF ListInv, ListOf, Highest
<1>2. /\ \A i \in 1 .. level : i \in 1 .. MaxLevel /\ i \in Nat /\ i <= MaxLevel
      /\ level \in Nat
  BY <1>1, SkipListAssumption
<1>3. \A i \in 1 .. level :
         /\ IsLast(cell, forward, i, k, L(i))
         /\ \A m : IsLast(cell, forward, i, k, m) => m = L(i)
  <2> SUFFICES ASSUME NEW i \in 1 .. level
               PROVE /\ IsLast(cell, forward, i, k, L(i))
                     /\ \A m : IsLast(cell, forward, i, k, m) => m = L(i)
    OBVIOUS
  <2>1. i \in 1 .. MaxLevel
    BY <1>2
  <2> QED BY <1>1, <2>1, LastExistsOnce
<1> HIDE DEF L
<1>4. ASSUME NEW i \in 1 .. level, NEW n, n = HeadNode \/ (i # level /\ n = L(i + 1))
      PROVE  LastBefore(k, i, n) = L(i)
  <2>1. i \in 1 .. MaxLevel /\ i \in Nat /\ i <= MaxLevel
    BY <1>2
  <2>2. n \in DOMAIN forward /\ i <= Len(forward[n]) /\ Rank(cell, n) < k
    <3>1. CASE n = HeadNode
      <4>1. HeadNode \in DOMAIN forward /\ Rank(cell, HeadNode) = -1 /\ Len(forward[HeadNode]) = MaxLevel
        BY <1>1, Ranks DEF Shape
      <4> QED BY <2>1, <3>1, <4>1
    <3>2. CASE n # HeadNode
      <4>1. i + 1 \in 1 .. level
        BY <1>2, <1>4, <3>2
      <4>2. IsLast(cell, forward, i + 1, k, n)
        BY <1>3, <1>4, <3>2, <4>1
      <4>3. n \in DOMAIN cell /\ i + 1 <= Len(forward[n]) /\ cell[n].key < k
        BY <3>2, <4>2 DEF IsLast, OnLevel
      <4>4. n \in DOMAIN forward /\ Rank(cell, n) = cell[n].key
        BY <1>1, <4>3, Ranks
      <4>5. Len(forward[n]) \in Nat
        BY <1>1, <4>4, Heights
      <4> QED BY <2>1, <4>3, <4>4, <4>5
    <3> QED BY <3>1, <3>2
  <2>3. IsLast(cell, forward, i, k, LastBefore(k, i, n))
    BY <2>1, <2>2, LastBeforeIsLast
  <2> QED BY <1>3, <2>3
<1>5. witness = [i \in 1 .. level |-> LastBefore(k, i, Begin(witness, i))]
  <2>1. ASSUME NEW i \in 1 .. level
        PROVE  witness[i] = LastBefore(k, i, Begin(witness, i))
    <3>1. Begin(witness, i) = HeadNode \/ (i # level /\ Begin(witness, i) = L(i + 1))
      <4>1. i # level => i + 1 \in 1 .. level
        BY <1>2
      <4> QED BY <4>1
    <3> QED BY <1>4, <3>1
  <2>2. witness = [i \in 1 .. level |-> witness[i]]
    OBVIOUS
  <2> HIDE DEF witness, Begin
  <2> QED BY <2>1, <2>2
<1>6. update = [i \in 1 .. level |-> LastBefore(k, i, Begin(update, i))]
  <2> HIDE DEF witness, Begin
  <2> QED BY <1>5
<1>7. Predecessors(k) = update
  BY DEF Predecessors
<1> HIDE DEF update, witness
<1> DEFINE Bad == {i \in 1 .. level : update[i] # L(i)}
<1>8. Bad = {}
  <2> SUFFICES ASSUME Bad # {} PROVE FALSE
    OBVIOUS
  <2>1. PICK i \in Bad : \A j \in Bad : j <= i
    <3>1. Bad \in SUBSET Nat /\ \A j \in Bad : j <= level
      BY <1>2
    <3> HIDE DEF Bad
    <3> QED BY <1>2, <3>1, GreatestExists
  <2>2. i \in 1 .. level /\ update[i] # L(i)
    OBVIOUS
  <2>3. Begin(update, i) = HeadNode \/ (i # level /\ Begin(update, i) = L(i + 1))
    <3>1. CASE i = level
      BY <3>1
    <3>2. CASE i # level
      <4>1. i + 1 \in 1 .. level /\ ~(i + 1 <= i)
        BY <1>2, <2>2, <3>2
      <4>2. i + 1 \notin Bad
        <5> HIDE DEF Bad
        <5> QED BY <2>1, <4>1
      <4> QED BY <3>2, <4>1, <4>2
    <3> QED BY <3>1, <3>2
  <2>4. update[i] = LastBefore(k, i, Begin(update, i))
    <3> HIDE DEF Begin
    <3> QED BY <1>6, <2>2
  <2>5. LastBefore(k, i, Begin(update, i)) = L(i)
    <3> HIDE DEF Begin
    <3> QED BY <1>4, <2>2, <2>3
  <2> QED BY <2>2, <2>4, <2>5
<1> QED BY <1>3, <1>7, <1>8

\* What follows the last node before k on level 1 is the first node from k on.
LEMMA SearchFindsFirst ==
    ASSUME ListInv, NEW k \in Nat
    PROVE  IsFirst(cell, k, FindGreaterOrEqual(k))
<1> DEFINE m == Predecessors(k)[1]
           x == forward[m][1]
<1>1. ListOf(cell, forward) /\ Shape(cell, forward) /\ level \in 1 .. MaxLevel /\ MaxLevel \in Nat
  BY SkipListAssumption DEF ListInv, ListOf, Highest
<1>2. 1 \in 1 .. level
  BY <1>1
<1>3. IsLast(cell, forward, 1, k, m)
  BY <1>2, PredecessorsAreLast
<1>4. FindGreaterOrEqual(k) = x
  BY DEF FindGreaterOrEqual
<1> HIDE DEF m
<1>5. OnLevel(cell, forward, 1) = DOMAIN cell
  <2>1. \A n \in DOMAIN cell : 1 <= Len(forward[n])
    BY <1>1, Ranks, Heights
  <2> QED BY <2>1 DEF OnLevel
<1>6. m \in DOMAIN forward /\ (m = HeadNode \/ (m \in DOMAIN cell /\ cell[m].key < k))
  BY <1>1, <1>3, <1>5 DEF IsLast, Shape
<1>7. Follows(cell, forward, 1, m, x)
  <2>1. 1 \in 1 .. Len(forward[m])
    BY <1>1, <1>6, Heights
  <2> QED BY <1>1, <1>6, <2>1 DEF ListOf, Linked
<1>8. /\ \A n \in DOMAIN cell : cell[n].key \in Nat /\ Rank(cell, n) = cell[n].key
      /\ Rank(cell, HeadNode) = -1
      /\ Rank(cell, m) \in Int
  BY <1>1, <1>6, Ranks
<1>9. Rank(cell, m) < k
  BY <1>6, <1>8
<1>10. \A n \in DOMAIN cell : Rank(cell, m) < cell[n].key <=> k <= cell[n].key
  <2> SUFFICES ASSUME NEW n \in DOMAIN cell
               PROVE Rank(cell, m) < cell[n].key <=> k <= cell[n].key
    OBVIOUS
  <2>1. cell[n].key \in Nat
    BY <1>8
  <2>2. cell[n].key < k => cell[n].key <= Rank(cell, m)
    BY <1>3, <1>5 DEF IsLast
  <2> QED BY <1>8, <1>9, <2>1, <2>2
<1> HIDE DEF x
<1>11. CASE x = Null /\ \A n \in DOMAIN cell : cell[n].key <= Rank(cell, m)
  <2>1. \A n \in DOMAIN cell : cell[n].key < k
    BY <1>8, <1>9, <1>11
  <2> QED BY <1>4, <1>11, <2>1 DEF IsFirst
<1>12. CASE /\ x \in DOMAIN cell /\ Rank(cell, m) < cell[x].key
            /\ \A n \in DOMAIN cell : Rank(cell, m) < cell[n].key => cell[x].key <= cell[n].key
  BY <1>4, <1>10, <1>12 DEF IsFirst
<1> QED BY <1>5, <1>7, <1>11, <1>12 DEF Follows

\* So a search for k finds the node that holds k, if one does.
LEMMA SearchHits ==
    ASSUME ListInv, NEW k \in Nat
    PROVE  LET n == FindGreaterOrEqual(k)
           IN  /\ Holds(n, k) => n \in DOMAIN cell /\ cell[n].key = k
               /\ \A m \in DOMAIN cell : cell[m].key = k => n = m /\ Holds(n, k)
<1> DEFINE n == FindGreaterOrEqual(k)
<1>1. IsFirst(cell, k, n)
  BY SearchFindsFirst
<1>2. Shape(cell, forward) /\ OneNodePerKey(cell)
  BY DEF ListInv, ListOf
<1>3. \A m \in DOMAIN cell : cell[m].key \in Nat /\ m # Null
  BY <1>2, Ranks
<1> HIDE DEF n
<1>4. ASSUME Holds(n, k) PROVE n \in DOMAIN cell /\ cell[n].key = k
  BY <1>1, <1>4 DEF Holds, IsFirst
<1>5. ASSUME NEW m \in DOMAIN cell, cell[m].key = k PROVE n = m /\ Holds(n, k)
  <2>1. n \in DOMAIN cell /\ k <= cell[n].key /\ cell[n].key <= cell[m].key
    BY <1>1, <1>3, <1>5 DEF IsFirst
  <2>2. cell[n].key = k
    BY <1>3, <1>5, <2>1
  <2> QED BY <1>2, <1>3, <1>5, <2>1, <2>2 DEF Holds, OneNodePerKey
<1> QED BY <1>4, <1>5 DEF n

-----------------------------------------------------------------------------
(* What the searches return.                                               *)

OnePairPerKey(P) == \A p, q \in P : p.key = q.key => p = q

\* Lookup returns the entry of the pair with the key, or Absent.
LEMMA LookupFinds ==
    ASSUME NEW P, OnePairPerKey(P), NEW k
    PROVE  /\ \A p \in P : p.key = k => Lookup(P, k) = p.entry
           /\ (\A p \in P : p.key # k) => Lookup(P, k) = Absent
<1>1. ASSUME NEW p \in P, p.key = k PROVE Lookup(P, k) = p.entry
  <2> DEFINE q == CHOOSE r \in P : r.key = k
  <2>1. q \in P /\ q.key = k
    BY <1>1
  <2>2. q = p
    BY <1>1, <2>1 DEF OnePairPerKey
  <2>3. Lookup(P, k) = q.entry
    BY <1>1 DEF Lookup
  <2> QED BY <2>2, <2>3
<1>2. ASSUME \A p \in P : p.key # k PROVE Lookup(P, k) = Absent
  BY <1>2 DEF Lookup
<1> QED BY <1>1, <1>2

\* The list holds one pair per key.
LEMMA ContentsTyped ==
    ASSUME ListInv
    PROVE  Contents \subseteq Pair /\ OnePairPerKey(Contents)
BY DEF ListInv, ListOf, Shape, OneNodePerKey, Contents, OnePairPerKey

\* get of the list is a lookup in what it holds.
LEMMA GetIsLookup ==
    ASSUME ListInv, NEW k \in Nat
    PROVE  GetFromList(k) = Lookup(Contents, k)
<1> DEFINE n == FindGreaterOrEqual(k)
<1>1. /\ Holds(n, k) => n \in DOMAIN cell /\ cell[n].key = k
      /\ \A m \in DOMAIN cell : cell[m].key = k => n = m /\ Holds(n, k)
  BY SearchHits
<1>2. GetFromList(k) = IF Holds(n, k) THEN cell[n].entry ELSE Absent
  BY DEF GetFromList
<1> HIDE DEF n
<1>3. CASE Holds(n, k)
  <2>1. cell[n] \in Contents /\ cell[n].key = k
    BY <1>1, <1>3 DEF Contents
  <2> QED BY <1>2, <1>3, <2>1, ContentsTyped, LookupFinds
<1>4. CASE ~Holds(n, k)
  <2>1. \A p \in Contents : p.key # k
    BY <1>1, <1>4 DEF Contents
  <2> QED BY <1>2, <1>4, <2>1, ContentsTyped, LookupFinds
<1> QED BY <1>3, <1>4

\* The pairs of a node and of those that follow it on level 1.
FromNode(n) == IF n = Null THEN {} ELSE From(Contents, cell[n].key)

\* What comes after a node on level 1, and that it is the rest of the pairs.
LEMMA NextOnLevel1 ==
    ASSUME ListInv, NEW n \in DOMAIN cell
    PROVE  /\ forward[n][1] \in DOMAIN cell \cup {Null}
           /\ FromNode(n) = {cell[n]} \cup FromNode(forward[n][1])
           /\ \A p \in FromNode(forward[n][1]) : cell[n].key < p.key
           /\ forward[n][1] # Null => cell[n].key < cell[forward[n][1]].key
<1> DEFINE x == forward[n][1]
<1>1. ListOf(cell, forward) /\ Shape(cell, forward) /\ OneNodePerKey(cell)
  BY DEF ListInv, ListOf
<1>2. /\ \A m \in DOMAIN cell : cell[m].key \in Nat /\ Rank(cell, m) = cell[m].key /\ m # Null
      /\ n \in DOMAIN forward
  BY <1>1, Ranks
<1>3. OnLevel(cell, forward, 1) = DOMAIN cell
  <2>1. \A m \in DOMAIN cell : 1 <= Len(forward[m])
    BY <1>1, Ranks, Heights
  <2> QED BY <2>1 DEF OnLevel
<1>4. Follows(cell, forward, 1, n, x)
  <2>1. 1 \in 1 .. Len(forward[n])
    BY <1>1, <1>2, Heights
  <2> QED BY <1>1, <1>2, <2>1 DEF ListOf, Linked
<1> HIDE DEF x
<1>5. FromNode(n) = {cell[m] : m \in {m \in DOMAIN cell : cell[m].key >= cell[n].key}}
  BY <1>2 DEF FromNode, From, Contents
<1>6. CASE x = Null /\ \A m \in DOMAIN cell : cell[m].key <= cell[n].key
  <2>1. \A m \in DOMAIN cell : cell[m].key >= cell[n].key => m = n
    BY <1>1, <1>2, <1>6 DEF OneNodePerKey
  <2>2. FromNode(n) = {cell[n]}
    BY <1>2, <1>5, <2>1
  <2>3. FromNode(x) = {}
    BY <1>6 DEF FromNode
  <2> QED BY <1>6, <2>2, <2>3 DEF x
<1>7. CASE /\ x \in DOMAIN cell /\ cell[n].key < cell[x].key
           /\ \A m \in DOMAIN cell : cell[n].key < cell[m].key => cell[x].key <= cell[m].key
  <2>1. FromNode(x) = {cell[m] : m \in {m \in DOMAIN cell : cell[m].key >= cell[x].key}}
    BY <1>2, <1>7 DEF FromNode, From, Contents
  <2>2. \A m \in DOMAIN cell : cell[m].key >= cell[n].key <=> m = n \/ cell[m].key >= cell[x].key
    <3> SUFFICES ASSUME NEW m \in DOMAIN cell
                 PROVE cell[m].key >= cell[n].key <=> m = n \/ cell[m].key >= cell[x].key
      OBVIOUS
    <3>1. cell[m].key = cell[n].key => m = n
      BY <1>1 DEF OneNodePerKey
    <3> QED BY <1>2, <1>7, <3>1
  <2>3. FromNode(n) = {cell[n]} \cup FromNode(x)
    BY <1>5, <2>1, <2>2
  <2>4. \A p \in FromNode(x) : cell[n].key < p.key
    BY <1>2, <1>7, <2>1
  <2> QED BY <1>7, <2>3, <2>4 DEF x
<1> QED BY <1>2, <1>3, <1>4, <1>6, <1>7 DEF Follows

\* From every node on, its pairs can be shown in order.
LEMMA OrderExists ==
    ASSUME ListInv
    PROVE  \A n \in DOMAIN cell \cup {Null} : \E s \in Seq(Pair) : IsInOrder(s, FromNode(n))
<1> DEFINE Displayed(n) == \E s \in Seq(Pair) : IsInOrder(s, FromNode(n))
           Bad == {n \in DOMAIN cell : ~Displayed(n)}
<1>1. Shape(cell, forward)
  BY DEF ListInv, ListOf
<1>2. Displayed(Null)
  <2>1. FromNode(Null) = {}
    BY DEF FromNode
  <2> QED BY <2>1, InOrderEmpty
<1>3. Bad = {}
  <2> SUFFICES ASSUME Bad # {} PROVE FALSE
    OBVIOUS
  <2>1. PICK n \in Bad : \A m \in Bad : cell[m].key <= cell[n].key
    <3>1. Bad \in SUBSET DOMAIN cell
      OBVIOUS
    <3> HIDE DEF Bad
    <3> QED BY <1>1, <3>1, GreatestNode
  <2>2. n \in DOMAIN cell /\ ~Displayed(n)
    OBVIOUS
  <2> DEFINE x == forward[n][1]
  <2>3. /\ x \in DOMAIN cell \cup {Null}
        /\ FromNode(n) = {cell[n]} \cup FromNode(x)
        /\ \A p \in FromNode(x) : cell[n].key < p.key
        /\ x # Null => cell[n].key < cell[x].key
    BY <2>2, NextOnLevel1
  <2>4. \A m \in DOMAIN cell : cell[m].key \in Nat /\ cell[m] \in Pair
    BY <1>1, Ranks DEF Shape
  <2> HIDE DEF x, Displayed
  <2>5. Displayed(x)
    <3>1. CASE x = Null
      BY <1>2, <3>1
    <3>2. CASE x # Null
      <4>1. x \in DOMAIN cell /\ ~(cell[x].key <= cell[n].key)
        BY <2>2, <2>3, <2>4, <3>2
      <4>2. x \notin Bad
        <5> HIDE DEF Bad
        <5> QED BY <2>1, <4>1
      <4> QED BY <4>1, <4>2
    <3> QED BY <3>1, <3>2
  <2>6. PICK s \in Seq(Pair) : IsInOrder(s, FromNode(x))
    BY <2>5 DEF Displayed
  <2>7. /\ <<cell[n]>> \o s \in Seq(Pair)
        /\ IsInOrder(<<cell[n]>> \o s, FromNode(n))
    BY <2>2, <2>3, <2>4, <2>6, InOrderFront
  <2>8. Displayed(n)
    BY <2>7 DEF Displayed
  <2> QED BY <2>2, <2>8
<1> QED BY <1>2, <1>3

\* Following level 1 from a node shows its pairs and those after it in order.
LEMMA FollowShowsRest ==
    ASSUME ListInv, NEW n \in DOMAIN cell \cup {Null}
    PROVE  /\ FollowLevel1(n) \in Seq(Pair)
           /\ IsInOrder(FollowLevel1(n), FromNode(n))
<1> DEFINE S == DOMAIN cell \cup {Null}
           O(m) == CHOOSE s \in Seq(Pair) : IsInOrder(s, FromNode(m))
           witness == [m \in S |-> O(m)]
           rest == CHOOSE g : g = [m \in S |-> IF m = Null THEN <<>> ELSE <<cell[m]>> \o g[forward[m][1]]]
<1>1. Shape(cell, forward)
  BY DEF ListInv, ListOf
<1>2. \A m \in S : O(m) \in Seq(Pair) /\ IsInOrder(O(m), FromNode(m))
  BY OrderExists
<1>3. \A m \in S : \A s \in Seq(Pair) : IsInOrder(s, FromNode(m)) => s = O(m)
  BY <1>2, InOrderUnique
<1> HIDE DEF O
<1>4. /\ \A m \in DOMAIN cell : m # Null /\ cell[m] \in Pair /\ cell[m].key \in Nat
      /\ O(Null) = <<>>
  <2>1. FromNode(Null) = {}
    BY DEF FromNode
  <2>2. O(Null) = <<>>
    BY <1>3, <2>1, InOrderEmpty
  <2> QED BY <1>1, <2>2, Ranks DEF Shape
<1>5. ASSUME NEW m \in DOMAIN cell, NEW s \in Seq(Pair), IsInOrder(s, FromNode(forward[m][1]))
      PROVE  <<cell[m]>> \o s = O(m)
  <2>1. /\ FromNode(m) = {cell[m]} \cup FromNode(forward[m][1])
        /\ \A p \in FromNode(forward[m][1]) : cell[m].key < p.key
    BY NextOnLevel1
  <2>2. <<cell[m]>> \o s \in Seq(Pair) /\ IsInOrder(<<cell[m]>> \o s, FromNode(m))
    BY <1>4, <1>5, <2>1, InOrderFront
  <2> QED BY <1>3, <2>2
<1>6. \A m \in DOMAIN cell : <<cell[m]>> \o O(forward[m][1]) = O(m)
  BY <1>2, <1>5, NextOnLevel1
<1>7. witness = [m \in S |-> IF m = Null THEN <<>> ELSE <<cell[m]>> \o witness[forward[m][1]]]
  <2>1. ASSUME NEW m \in S
        PROVE  witness[m] = IF m = Null THEN <<>> ELSE <<cell[m]>> \o witness[forward[m][1]]
    <3>1. CASE m = Null
      BY <1>4, <3>1
    <3>2. CASE m # Null
      <4>1. m \in DOMAIN cell /\ forward[m][1] \in S
        BY <3>2, NextOnLevel1
      <4>2. witness[forward[m][1]] = O(forward[m][1]) /\ witness[m] = O(m)
        BY <4>1
      <4> QED BY <1>6, <3>2, <4>1, <4>2
    <3> QED BY <3>1, <3>2
  <2>2. witness = [m \in S |-> witness[m]]
    <3> HIDE DEF S
    <3> QED OBVIOUS
  <2> HIDE DEF witness, S
  <2> QED BY <2>1, <2>2
<1>8. rest = [m \in S |-> IF m = Null THEN <<>> ELSE <<cell[m]>> \o rest[forward[m][1]]]
  <2> HIDE DEF witness, S
  <2> QED BY <1>7, Zenon
<1>9. FollowLevel1(n) = rest[n]
  BY DEF FollowLevel1
<1> HIDE DEF rest, witness
<1>10. rest[Null] = O(Null)
  BY <1>4, <1>8
<1> DEFINE Bad == {m \in DOMAIN cell : rest[m] # O(m)}
<1>11. Bad = {}
  <2> SUFFICES ASSUME Bad # {} PROVE FALSE
    OBVIOUS
  <2>1. PICK m \in Bad : \A l \in Bad : cell[l].key <= cell[m].key
    <3>1. Bad \in SUBSET DOMAIN cell
      OBVIOUS
    <3> HIDE DEF Bad
    <3> QED BY <1>1, <3>1, GreatestNode
  <2>2. m \in DOMAIN cell /\ rest[m] # O(m)
    OBVIOUS
  <2> DEFINE x == forward[m][1]
  <2>3. x \in S /\ (x # Null => cell[m].key < cell[x].key)
    <3> HIDE DEF Bad
    <3> QED BY <2>2, NextOnLevel1
  <2>4. rest[m] = <<cell[m]>> \o rest[x]
    BY <1>4, <1>8, <2>2
  <2>5. O(m) = <<cell[m]>> \o O(x)
    BY <1>6, <2>2
  <2> HIDE DEF x
  <2>6. CASE x = Null
    BY <1>10, <2>2, <2>4, <2>5, <2>6
  <2>7. CASE x # Null
    <3>1. x \in DOMAIN cell /\ ~(cell[x].key <= cell[m].key)
      BY <1>4, <2>2, <2>3, <2>7
    <3>2. x \notin Bad
      <4> HIDE DEF Bad
      <4> QED BY <2>1, <3>1
    <3> QED BY <2>2, <2>4, <2>5, <3>1, <3>2
  <2> QED BY <2>6, <2>7
<1> QED BY <1>2, <1>9, <1>10, <1>11

\* dump_all shows all pairs in order, a copy from k on those from k on.
LEMMA CopiesInOrder ==
    ASSUME ListInv
    PROVE  /\ DumpAll \in Seq(Pair) /\ IsInOrder(DumpAll, Contents)
           /\ \A k \in Nat : IsInOrder(SnapshotFrom(k), From(Contents, k))
<1>1. Shape(cell, forward) /\ ListOf(cell, forward)
  BY DEF ListInv, ListOf
<1>2. \A m \in DOMAIN cell : cell[m].key \in Nat /\ m # Null
  BY <1>1, Ranks
<1>3. DumpAll \in Seq(Pair) /\ IsInOrder(DumpAll, Contents)
  <2> DEFINE x == forward[HeadNode][1]
  <2>1. Follows(cell, forward, 1, HeadNode, x)
    <3>1. HeadNode \in DOMAIN forward /\ 1 \in 1 .. Len(forward[HeadNode])
      BY <1>1, Ranks, Heights
    <3> QED BY <1>1, <3>1 DEF ListOf, Linked
  <2>2. OnLevel(cell, forward, 1) = DOMAIN cell
    <3>1. \A n \in DOMAIN cell : 1 <= Len(forward[n])
      BY <1>1, Ranks, Heights
    <3> QED BY <3>1 DEF OnLevel
  <2>3. Rank(cell, HeadNode) = -1
    BY <1>1, Ranks
  <2>4. DumpAll = FollowLevel1(x)
    BY DEF DumpAll
  <2> HIDE DEF x
  <2>5. x \in DOMAIN cell \cup {Null} /\ FromNode(x) = Contents
    <3>1. CASE x = Null /\ \A m \in DOMAIN cell : cell[m].key <= -1
      <4>1. DOMAIN cell = {}
        BY <1>2, <3>1
      <4> QED BY <3>1, <4>1 DEF FromNode, Contents
    <3>2. CASE /\ x \in DOMAIN cell
               /\ \A m \in DOMAIN cell : -1 < cell[m].key => cell[x].key <= cell[m].key
      <4>1. \A m \in DOMAIN cell : cell[m].key >= cell[x].key
        BY <1>2, <3>2
      <4> QED BY <1>2, <3>2, <4>1 DEF FromNode, From, Contents
    <3> QED BY <2>1, <2>2, <2>3, <3>1, <3>2 DEF Follows
  <2> QED BY <2>4, <2>5, FollowShowsRest
<1>4. ASSUME NEW k \in Nat PROVE IsInOrder(SnapshotFrom(k), From(Contents, k))
  <2> DEFINE x == FindGreaterOrEqual(k)
  <2>1. IsFirst(cell, k, x)
    BY SearchFindsFirst
  <2>2. SnapshotFrom(k) = FollowLevel1(x)
    BY DEF SnapshotFrom
  <2> HIDE DEF x
  <2>3. x \in DOMAIN cell \cup {Null} /\ FromNode(x) = From(Contents, k)
    <3>1. CASE x = Null /\ \A m \in DOMAIN cell : cell[m].key < k
      <4>1. \A m \in DOMAIN cell : ~(cell[m].key >= k)
        BY <1>2, <3>1
      <4> QED BY <3>1, <4>1 DEF FromNode, From, Contents
    <3>2. CASE /\ x \in DOMAIN cell /\ k <= cell[x].key
               /\ \A m \in DOMAIN cell : k <= cell[m].key => cell[x].key <= cell[m].key
      <4>1. \A m \in DOMAIN cell : cell[m].key >= cell[x].key <=> cell[m].key >= k
        BY <1>2, <3>2
      <4> QED BY <1>2, <3>2, <4>1 DEF FromNode, From, Contents
    <3> QED BY <2>1, <3>1, <3>2 DEF IsFirst
  <2> QED BY <2>2, <2>3, FollowShowsRest
<1> QED BY <1>3, <1>4

\* The invariant gives what a reader of the list relies on.
LEMMA ListInvReads ==
    ListInv => MemTableReads
<1> SUFFICES ASSUME ListInv PROVE MemTableReads
  OBVIOUS
<1>1. \A k \in Key : k \in Nat
  BY EntriesAssumption
<1>2. \A k \in Nat : GetFromList(k) = Lookup(Contents, k)
  BY GetIsLookup
<1> QED BY <1>1, <1>2, CopiesInOrder DEF MemTableReads

\* And that each link leads to the nearest node of its height.
LEMMA ListInvLinks ==
    ListInv => LevelsLinked
<1> SUFFICES ASSUME ListInv PROVE LevelsLinked
  OBVIOUS
<1>1. /\ ListOf(cell, forward) /\ Shape(cell, forward) /\ OneNodePerKey(cell)
      /\ Highest(cell, forward, level)
  BY DEF ListInv, ListOf
<1>2. ASSUME NEW n \in DOMAIN forward, NEW i \in DOMAIN forward[n]
      PROVE  forward[n][i] = Nearest(Beyond(n) \cap Tall(i))
  <2> DEFINE x == forward[n][i]
             N == Beyond(n) \cap Tall(i)
  <2>1. Follows(cell, forward, i, n, x)
    <3>1. i \in 1 .. Len(forward[n])
      BY <1>1, Heights
    <3> QED BY <1>1, <3>1 DEF ListOf, Linked
  <2>2. /\ \A m \in DOMAIN cell : cell[m].key \in Nat /\ Len(forward[m]) \in Nat /\ m # Null
        /\ Rank(cell, HeadNode) = -1
        /\ n # HeadNode => n \in DOMAIN cell /\ Rank(cell, n) = cell[n].key
        /\ Rank(cell, n) \in Int
    BY <1>1, Ranks, Heights DEF Shape
  <2>3. i \in Nat
    BY <1>1, Heights
  <2>4. N = {m \in OnLevel(cell, forward, i) : Rank(cell, n) < cell[m].key}
    <3>1. \A m \in DOMAIN cell : m \in Beyond(n) <=> Rank(cell, n) < cell[m].key
      BY <2>2 DEF Beyond
    <3>2. \A m \in DOMAIN cell : m \in Tall(i) <=> i <= Len(forward[m])
      BY <2>2, <2>3 DEF Tall
    <3> QED BY <3>1, <3>2 DEF OnLevel, Beyond, Tall
  <2>5. \A m \in OnLevel(cell, forward, i) : m \in DOMAIN cell
    BY DEF OnLevel
  <2> HIDE DEF x, N
  <2>6. CASE x = Null /\ \A m \in OnLevel(cell, forward, i) : cell[m].key <= Rank(cell, n)
    <3>1. N = {}
      BY <2>2, <2>4, <2>5, <2>6
    <3> QED BY <2>6, <3>1 DEF Nearest, x, N
  <2>7. CASE /\ x \in OnLevel(cell, forward, i) /\ Rank(cell, n) < cell[x].key
             /\ \A m \in OnLevel(cell, forward, i) : Rank(cell, n) < cell[m].key => cell[x].key <= cell[m].key
    <3>1. x \in N /\ \A m \in N : cell[x].key <= cell[m].key
      BY <2>4, <2>7
    <3>2. \A y \in N : (\A m \in N : cell[y].key <= cell[m].key) => y = x
      <4> SUFFICES ASSUME NEW y \in N, \A m \in N : cell[y].key <= cell[m].key PROVE y = x
        OBVIOUS
      <4>1. y \in DOMAIN cell /\ x \in DOMAIN cell
        BY <2>4, <2>5, <3>1
      <4>2. cell[x].key <= cell[y].key /\ cell[y].key <= cell[x].key
        BY <3>1
      <4> QED BY <1>1, <2>2, <4>1, <4>2 DEF OneNodePerKey
    <3>3. Nearest(N) = x
      BY <3>1, <3>2 DEF Nearest
    <3> QED BY <3>3 DEF x, N
  <2> QED BY <2>1, <2>6, <2>7 DEF Follows
<1>3. level = Max({1} \cup {Len(forward[n]) : n \in DOMAIN cell})
  <2> DEFINE M == {1} \cup {Len(forward[n]) : n \in DOMAIN cell}
  <2>1. \A n \in DOMAIN cell : Len(forward[n]) \in Nat
    BY <1>1, Ranks, Heights
  <2>2. M \in SUBSET Nat /\ level \in M /\ level \in Nat /\ \A y \in M : level >= y
    BY <1>1, <2>1, SkipListAssumption DEF Highest
  <2>3. \A y \in M : (\A z \in M : y >= z) => y = level
    BY <2>2
  <2> HIDE DEF M
  <2>4. Max(M) = level
    BY <2>2, <2>3 DEF Max
  <2> QED BY <2>4 DEF M
<1>4. count = Cardinality(DOMAIN cell)
  BY DEF ListInv
<1> QED BY <1>1, <1>2, <1>3, <1>4 DEF LevelsLinked, OneNodePerKey

\* The nodes of a list are finitely many.
LEMMA NodesFinite ==
    ASSUME NEW S \in SUBSET Node
    PROVE  IsFiniteSet(S) /\ Cardinality(S) \in Nat
<1>1. IsFiniteSet(Node)
  BY FS_Interval, SkipListAssumption DEF Node
<1> QED BY <1>1, FS_Subset, FS_CardinalityType

\* And the types.
LEMMA ListInvTypes ==
    ListInv => ListTypeOK
<1> SUFFICES ASSUME ListInv PROVE ListTypeOK
  OBVIOUS
<1>1. Shape(cell, forward) /\ Highest(cell, forward, level)
  BY DEF ListInv, ListOf
<1>2. \A n \in DOMAIN forward : /\ Len(forward[n]) \in 1 .. MaxLevel
                                /\ \A i \in DOMAIN forward[n] : forward[n][i] \in Node \cup {Null}
  BY <1>1, Heights DEF Shape
<1>3. count \in Nat
  BY <1>1, NodesFinite DEF ListInv, Shape
<1> QED BY <1>1, <1>2, <1>3 DEF Shape, Highest, ListTypeOK

-----------------------------------------------------------------------------
(* What the operations leave.                                              *)

\* A rearranged tuple of links has the same height.
LEMMA LinksTyped ==
    ASSUME NEW h \in Nat, NEW S, NEW g \in [1 .. h -> S]
    PROVE  g \in Seq(S) /\ Len(g) = h
<1>1. g \in Seq(S)
  BY IsASeq
<1>2. Len(g) \in Nat /\ DOMAIN g = 1 .. Len(g) /\ DOMAIN g = 1 .. h
  BY <1>1, LenProperties
<1>3. CASE Len(g) > h
  <2>1. Len(g) \in 1 .. Len(g) /\ Len(g) \notin 1 .. h
    BY <1>2, <1>3
  <2> QED BY <1>2, <2>1
<1>4. CASE Len(g) < h
  <2>1. h \in 1 .. h /\ h \notin 1 .. Len(g)
    BY <1>2, <1>4
  <2> QED BY <1>2, <2>1
<1> QED BY <1>1, <1>2, <1>3, <1>4

\* What Insert does to the links for a node n of height h, and EraseFromList for n.
LinksInserted(f, n, h, after, g) ==
    /\ DOMAIN g = DOMAIN f \cup {n}
    /\ g[n] = [i \in 1 .. h |-> f[after[i]][i]]
    /\ \A m \in DOMAIN f :
          g[m] = [i \in DOMAIN f[m] |-> IF i <= h /\ after[i] = m THEN n ELSE f[m][i]]

CellInserted(c, n, p, d) ==
    DOMAIN d = DOMAIN c \cup {n} /\ d[n] = p /\ \A m \in DOMAIN c : d[m] = c[m]

LinksErased(f, n, update, g) ==
    /\ DOMAIN g = DOMAIN f \ {n}
    /\ \A m \in DOMAIN g :
          g[m] = [i \in DOMAIN f[m] |->
                    IF i <= Len(f[n]) /\ update[i] = m /\ f[m][i] = n
                    THEN f[n][i] ELSE f[m][i]]

CellErased(c, n, d) == DOMAIN d = DOMAIN c \ {n} /\ \A m \in DOMAIN d : d[m] = c[m]

\* On each of these levels, the last node before k.
AllLast(c, f, h, k, before) == \A i \in 1 .. h : IsLast(c, f, i, k, before[i])

\* A node put behind the last node before its key on each of its levels leaves a list.
LEMMA LinkedAfterInsert ==
    ASSUME NEW c, NEW f, ListOf(c, f),
           NEW n \in Node \ DOMAIN c, NEW p \in Pair, \A m \in DOMAIN c : c[m].key # p.key,
           NEW h \in 1 .. MaxLevel, NEW after, AllLast(c, f, h, p.key, after),
           NEW d, CellInserted(c, n, p, d),
           NEW g, LinksInserted(f, n, h, after, g)
    PROVE  /\ ListOf(d, g)
           /\ Len(g[n]) = h /\ \A m \in DOMAIN f : Len(g[m]) = Len(f[m])
<1> DEFINE k == p.key
<1>0. /\ DOMAIN g = DOMAIN f \cup {n}
      /\ g[n] = [i \in 1 .. h |-> f[after[i]][i]]
      /\ \A m \in DOMAIN f :
            g[m] = [i \in DOMAIN f[m] |-> IF i <= h /\ after[i] = m THEN n ELSE f[m][i]]
      /\ DOMAIN d = DOMAIN c \cup {n} /\ d[n] = p /\ \A m \in DOMAIN c : d[m] = c[m]
      /\ \A i \in 1 .. h : IsLast(c, f, i, k, after[i])
  BY DEF LinksInserted, CellInserted, AllLast
<1>1. Shape(c, f) /\ OneNodePerKey(c) /\ Linked(c, f)
  BY DEF ListOf
<1>2. /\ h \in Nat /\ h >= 1 /\ h <= MaxLevel /\ k \in Nat
      /\ n # HeadNode /\ n # Null /\ n \in Node /\ n \notin DOMAIN c /\ n \notin DOMAIN f
  BY <1>1, PairTypes, SkipListAssumption DEF Node, HeadNode, Null, Shape
<1>3. /\ \A m \in DOMAIN c : /\ c[m].key \in Nat /\ Rank(c, m) = c[m].key
                             /\ m \in DOMAIN f /\ m # HeadNode /\ m # Null
      /\ \A m \in DOMAIN f : Rank(c, m) \in Int
      /\ Rank(c, HeadNode) = -1 /\ HeadNode \in DOMAIN f
  BY <1>1, Ranks
<1>4. \A m \in DOMAIN f : /\ Len(f[m]) \in Nat /\ Len(f[m]) >= 1 /\ Len(f[m]) <= MaxLevel
                          /\ DOMAIN f[m] = 1 .. Len(f[m])
                          /\ \A i \in 1 .. Len(f[m]) : f[m][i] \in Node \cup {Null}
  BY <1>1, Heights
<1>5. \A i \in 1 .. h : /\ after[i] \in DOMAIN f /\ i <= Len(f[after[i]])
                        /\ Rank(c, after[i]) < k
  <2> SUFFICES ASSUME NEW i \in 1 .. h
               PROVE  /\ after[i] \in DOMAIN f /\ i <= Len(f[after[i]])
                      /\ Rank(c, after[i]) < k
    OBVIOUS
  <2>1. after[i] = HeadNode \/ (after[i] \in OnLevel(c, f, i) /\ c[after[i]].key < k)
    BY <1>0 DEF IsLast
  <2>2. Len(f[HeadNode]) = MaxLevel
    BY <1>1 DEF Shape
  <2> QED BY <1>2, <1>3, <2>1, <2>2 DEF OnLevel
<1>6. g[n] \in Seq(Node \cup {Null}) /\ Len(g[n]) = h
  <2>1. \A i \in 1 .. h : f[after[i]][i] \in Node \cup {Null}
    BY <1>4, <1>5
  <2>2. g[n] \in [1 .. h -> Node \cup {Null}]
    BY <1>0, <2>1
  <2> QED BY <1>2, <2>2, LinksTyped
<1>7. \A m \in DOMAIN f : g[m] \in Seq(Node \cup {Null}) /\ Len(g[m]) = Len(f[m])
  <2> SUFFICES ASSUME NEW m \in DOMAIN f
               PROVE  g[m] \in Seq(Node \cup {Null}) /\ Len(g[m]) = Len(f[m])
    OBVIOUS
  <2>1. g[m] \in [1 .. Len(f[m]) -> Node \cup {Null}]
    BY <1>0, <1>2, <1>4
  <2> QED BY <1>4, <2>1, LinksTyped
<1>8. Shape(d, g)
  <2>1. DOMAIN d \subseteq Node /\ \A m \in DOMAIN d : d[m] \in Pair
    BY <1>0, <1>1 DEF Shape
  <2>2. DOMAIN g = DOMAIN d \cup {HeadNode}
    BY <1>0, <1>1 DEF Shape
  <2>3. \A m \in DOMAIN g : g[m] \in Seq(Node \cup {Null}) /\ Len(g[m]) \in 1 .. MaxLevel
    BY <1>0, <1>1, <1>6, <1>7 DEF Shape
  <2>4. Len(g[HeadNode]) = MaxLevel
    BY <1>1, <1>3, <1>7 DEF Shape
  <2> QED BY <2>1, <2>2, <2>3, <2>4 DEF Shape
<1>9. OneNodePerKey(d)
  BY <1>0, <1>1 DEF OneNodePerKey
<1>10. /\ Rank(d, n) = k
       /\ \A m \in DOMAIN f : Rank(d, m) = Rank(c, m)
  BY <1>0, <1>1, <1>2 DEF Rank, Shape
<1>11. \A i : \A m : m \in OnLevel(d, g, i) <=>
                m \in OnLevel(c, f, i) \/ (m = n /\ i <= h)
  BY <1>0, <1>3, <1>6, <1>7, <1>2 DEF OnLevel
<1>12. \A i : \A m \in OnLevel(c, f, i) : /\ m \in DOMAIN c /\ d[m] = c[m] /\ c[m].key \in Nat
                                          /\ c[m].key # k /\ m \in DOMAIN f
  BY <1>0, <1>3 DEF OnLevel
<1>13. ASSUME NEW i \in 1 .. h PROVE Follows(d, g, i, n, g[n][i])
  <2> DEFINE a == after[i]
             x == f[a][i]
  <2>1. g[n][i] = x
    BY <1>0
  <2>2. Follows(c, f, i, a, x) /\ IsLast(c, f, i, k, a)
    BY <1>0, <1>1, <1>2, <1>5 DEF Linked
  <2>3. Rank(c, a) \in Int /\ Rank(c, a) < k
    BY <1>3, <1>5
  <2>4. \A m \in OnLevel(c, f, i) : Rank(c, a) < c[m].key <=> k < c[m].key
    <3> SUFFICES ASSUME NEW m \in OnLevel(c, f, i)
                 PROVE Rank(c, a) < c[m].key <=> k < c[m].key
      OBVIOUS
    <3>1. c[m].key < k => c[m].key <= Rank(c, a)
      BY <2>2 DEF IsLast
    <3> QED BY <1>2, <1>12, <2>3, <3>1
  <2> HIDE DEF a, x
  <2>5. CASE x = Null /\ \A m \in OnLevel(c, f, i) : c[m].key <= Rank(c, a)
    <3>1. \A m \in OnLevel(d, g, i) : d[m].key <= Rank(d, n)
      <4> SUFFICES ASSUME NEW m \in OnLevel(d, g, i) PROVE d[m].key <= Rank(d, n)
        OBVIOUS
      <4>1. CASE m = n
        BY <1>0, <1>2, <1>10, <4>1
      <4>2. CASE m \in OnLevel(c, f, i)
        <5>1. c[m].key <= Rank(c, a) /\ c[m].key \in Nat /\ d[m] = c[m]
          BY <1>12, <2>5, <4>2
        <5> QED BY <1>2, <1>10, <2>3, <5>1
      <4> QED BY <1>11, <4>1, <4>2
    <3> QED BY <2>1, <2>5, <3>1 DEF Follows
  <2>6. CASE /\ x \in OnLevel(c, f, i) /\ Rank(c, a) < c[x].key
             /\ \A m \in OnLevel(c, f, i) : Rank(c, a) < c[m].key => c[x].key <= c[m].key
    <3>1. x \in OnLevel(d, g, i) /\ Rank(d, n) < d[x].key
      BY <1>10, <1>11, <1>12, <2>4, <2>6
    <3>2. \A m \in OnLevel(d, g, i) : Rank(d, n) < d[m].key => d[x].key <= d[m].key
      BY <1>0, <1>2, <1>10, <1>11, <1>12, <2>4, <2>6
    <3> QED BY <2>1, <3>1, <3>2 DEF Follows
  <2> QED BY <2>2, <2>5, <2>6 DEF Follows
<1>14. ASSUME NEW m \in DOMAIN f, NEW i \in 1 .. Len(f[m]), i <= h, after[i] = m
       PROVE  Follows(d, g, i, m, g[m][i])
  <2>1. g[m][i] = n
    BY <1>0, <1>4, <1>14
  <2>2. i \in 1 .. h /\ IsLast(c, f, i, k, m)
    BY <1>0, <1>2, <1>4, <1>14
  <2>3. n \in OnLevel(d, g, i) /\ d[n].key = k /\ Rank(d, m) < k
    BY <1>0, <1>5, <1>10, <1>11, <1>14, <2>2
  <2>4. \A l \in OnLevel(d, g, i) : Rank(d, m) < d[l].key => k <= d[l].key
    <3> SUFFICES ASSUME NEW l \in OnLevel(d, g, i), Rank(d, m) < d[l].key PROVE k <= d[l].key
      OBVIOUS
    <3>1. CASE l = n
      <4>1. d[l].key = k /\ k \in Nat
        BY <1>0, <1>2, <3>1
      <4> QED BY <4>1
    <3>2. CASE l \in OnLevel(c, f, i)
      <4>1. c[l].key < k => c[l].key <= Rank(c, m)
        BY <2>2, <3>2 DEF IsLast
      <4>2. d[l] = c[l] /\ c[l].key \in Nat /\ Rank(c, m) \in Int /\ Rank(d, m) = Rank(c, m)
        BY <1>3, <1>10, <1>12, <3>2
      <4> QED BY <1>2, <4>1, <4>2
    <3> QED BY <1>11, <3>1, <3>2
  <2> QED BY <2>1, <2>3, <2>4 DEF Follows
<1>15. ASSUME NEW m \in DOMAIN f, NEW i \in 1 .. Len(f[m]), ~(i <= h /\ after[i] = m)
       PROVE  Follows(d, g, i, m, g[m][i])
  <2> DEFINE x == f[m][i]
  <2>1. g[m][i] = x
    BY <1>0, <1>4, <1>15
  <2>2. Follows(c, f, i, m, x) /\ i \in Nat
    BY <1>1 DEF Linked
  <2>3. i <= h => ~(Rank(d, m) < k) \/ \E l \in OnLevel(c, f, i) : Rank(c, m) < c[l].key /\ c[l].key < k
    <3> SUFFICES ASSUME i <= h, Rank(c, m) < k
                 PROVE  \E l \in OnLevel(c, f, i) : Rank(c, m) < c[l].key /\ c[l].key < k
      BY <1>10
    <3>1. i \in 1 .. h /\ after[i] # m
      BY <1>2, <1>15, <2>2
    <3>2. IsLast(c, f, i, k, after[i])
      BY <1>0, <3>1
    <3>3. ~IsLast(c, f, i, k, m)
      <4>1. i \in 1 .. MaxLevel
        BY <1>2, <3>1, SkipListAssumption
      <4> QED BY <1>1, <1>2, <3>1, <3>2, <4>1, LastExistsOnce
    <3>4. m = HeadNode \/ (m \in OnLevel(c, f, i) /\ c[m].key < k)
      <4>1. m = HeadNode \/ m \in DOMAIN c
        BY <1>1 DEF Shape
      <4>2. i <= Len(f[m])
        BY <1>4
      <4> QED BY <1>3, <4>1, <4>2 DEF OnLevel
    <3>5. PICK l \in OnLevel(c, f, i) : c[l].key < k /\ ~(c[l].key <= Rank(c, m))
      BY <3>3, <3>4 DEF IsLast
    <3>6. c[l].key \in Nat /\ Rank(c, m) \in Int
      BY <1>3, <1>12
    <3> QED BY <3>5, <3>6
  <2>4. Rank(d, m) = Rank(c, m) /\ Rank(c, m) \in Int
    BY <1>3, <1>10
  <2> HIDE DEF x
  <2>5. CASE x = Null /\ \A l \in OnLevel(c, f, i) : c[l].key <= Rank(c, m)
    <3>1. i <= h => k <= Rank(c, m)
      <4> SUFFICES ASSUME i <= h PROVE k <= Rank(c, m)
        OBVIOUS
      <4>1. ~(Rank(c, m) < k)
        BY <1>12, <2>3, <2>4, <2>5
      <4> QED BY <1>2, <2>4, <4>1
    <3>2. \A l \in OnLevel(d, g, i) : d[l].key <= Rank(d, m)
      BY <1>0, <1>11, <1>12, <2>4, <2>5, <3>1
    <3> QED BY <2>1, <2>5, <3>2 DEF Follows
  <2>6. CASE /\ x \in OnLevel(c, f, i) /\ Rank(c, m) < c[x].key
             /\ \A l \in OnLevel(c, f, i) : Rank(c, m) < c[l].key => c[x].key <= c[l].key
    <3>1. x \in OnLevel(d, g, i) /\ Rank(d, m) < d[x].key /\ d[x] = c[x] /\ c[x].key \in Nat
      BY <1>11, <1>12, <2>4, <2>6
    <3>2. ASSUME i <= h, Rank(d, m) < k PROVE c[x].key <= k
      <4>1. PICK l \in OnLevel(c, f, i) : Rank(c, m) < c[l].key /\ c[l].key < k
        BY <2>3, <3>2
      <4>2. c[x].key <= c[l].key /\ c[l].key \in Nat
        BY <1>12, <2>6, <4>1
      <4> QED BY <1>2, <3>1, <4>1, <4>2
    <3>3. \A l \in OnLevel(d, g, i) : Rank(d, m) < d[l].key => d[x].key <= d[l].key
      BY <1>0, <1>11, <1>12, <2>4, <2>6, <3>1, <3>2
    <3> QED BY <2>1, <3>1, <3>3 DEF Follows
  <2> QED BY <2>2, <2>5, <2>6 DEF Follows
<1>16. Linked(d, g)
  <2> SUFFICES ASSUME NEW m \in DOMAIN g, NEW i \in 1 .. Len(g[m])
               PROVE  Follows(d, g, i, m, g[m][i])
    BY DEF Linked
  <2>1. CASE m = n
    BY <1>6, <1>13, <2>1
  <2>2. CASE m \in DOMAIN f
    BY <1>7, <1>14, <1>15, <2>2
  <2> QED BY <1>0, <2>1, <2>2
<1> QED BY <1>6, <1>7, <1>8, <1>9, <1>16 DEF ListOf

\* Taking a node out, and its links with it, leaves a list.
LEMMA LinkedAfterErase ==
    ASSUME NEW c, NEW f, ListOf(c, f),
           NEW n \in DOMAIN c, NEW update, AllLast(c, f, Len(f[n]), c[n].key, update),
           NEW d, CellErased(c, n, d),
           NEW g, LinksErased(f, n, update, g)
    PROVE  ListOf(d, g) /\ \A m \in DOMAIN g : Len(g[m]) = Len(f[m])
<1> DEFINE k == c[n].key
<1>0. /\ DOMAIN g = DOMAIN f \ {n}
      /\ \A m \in DOMAIN g :
            g[m] = [i \in DOMAIN f[m] |->
                      IF i <= Len(f[n]) /\ update[i] = m /\ f[m][i] = n
                      THEN f[n][i] ELSE f[m][i]]
      /\ DOMAIN d = DOMAIN c \ {n} /\ \A m \in DOMAIN d : d[m] = c[m]
      /\ \A i \in 1 .. Len(f[n]) : IsLast(c, f, i, k, update[i])
  BY DEF LinksErased, CellErased, AllLast
<1>1. Shape(c, f) /\ OneNodePerKey(c) /\ Linked(c, f)
  BY DEF ListOf
<1>2. /\ \A m \in DOMAIN c : /\ c[m].key \in Nat /\ Rank(c, m) = c[m].key
                             /\ m \in DOMAIN f /\ m # HeadNode /\ m # Null
      /\ \A m \in DOMAIN f : Rank(c, m) \in Int
      /\ Rank(c, HeadNode) = -1 /\ HeadNode \in DOMAIN f
  BY <1>1, Ranks
<1>3. \A m \in DOMAIN f : /\ Len(f[m]) \in Nat /\ Len(f[m]) >= 1 /\ Len(f[m]) <= MaxLevel
                          /\ DOMAIN f[m] = 1 .. Len(f[m])
                          /\ \A i \in 1 .. Len(f[m]) : f[m][i] \in Node \cup {Null}
  BY <1>1, Heights
<1>4. n \in DOMAIN f /\ n # HeadNode /\ n # Null /\ k \in Nat
  BY <1>2
<1>5. \A m \in DOMAIN g : m \in DOMAIN f /\ g[m] \in Seq(Node \cup {Null}) /\ Len(g[m]) = Len(f[m])
  <2> SUFFICES ASSUME NEW m \in DOMAIN g
               PROVE  g[m] \in Seq(Node \cup {Null}) /\ Len(g[m]) = Len(f[m])
    BY <1>0
  <2>1. \A i \in 1 .. Len(f[m]) : i <= Len(f[n]) => f[n][i] \in Node \cup {Null}
    <3> SUFFICES ASSUME NEW i \in 1 .. Len(f[m]), i <= Len(f[n])
                 PROVE f[n][i] \in Node \cup {Null}
      OBVIOUS
    <3>1. Len(f[m]) \in Nat /\ Len(f[n]) \in Nat
      BY <1>3, <1>4
    <3>2. i \in 1 .. Len(f[n])
      BY <3>1
    <3> QED BY <1>3, <1>4, <3>2
  <2>2. g[m] \in [1 .. Len(f[m]) -> Node \cup {Null}]
    BY <1>0, <1>3, <2>1
  <2> QED BY <1>3, <2>2, LinksTyped
<1>6. Shape(d, g)
  <2>1. DOMAIN d \subseteq Node /\ \A m \in DOMAIN d : d[m] \in Pair
    BY <1>0, <1>1 DEF Shape
  <2>2. DOMAIN g = DOMAIN d \cup {HeadNode}
    BY <1>0, <1>1, <1>4 DEF Shape
  <2>3. \A m \in DOMAIN g : g[m] \in Seq(Node \cup {Null}) /\ Len(g[m]) \in 1 .. MaxLevel
    BY <1>1, <1>5 DEF Shape
  <2>4. Len(g[HeadNode]) = MaxLevel
    BY <1>0, <1>1, <1>2, <1>4, <1>5 DEF Shape
  <2> QED BY <2>1, <2>2, <2>3, <2>4 DEF Shape
<1>7. OneNodePerKey(d)
  BY <1>0, <1>1 DEF OneNodePerKey
<1>8. \A m \in DOMAIN g : Rank(d, m) = Rank(c, m)
  BY <1>0, <1>1 DEF Rank, Shape
<1>9. \A i : \A m : m \in OnLevel(d, g, i) <=> m \in OnLevel(c, f, i) /\ m # n
  BY <1>0, <1>2, <1>5 DEF OnLevel
<1>10. \A i : \A m \in OnLevel(d, g, i) : d[m] = c[m] /\ c[m].key \in Nat
  BY <1>0, <1>2, <1>9 DEF OnLevel
<1>11. ASSUME NEW m \in DOMAIN g, NEW i \in 1 .. Len(f[m]), f[m][i] = n
       PROVE  Follows(d, g, i, m, g[m][i])
  <2> DEFINE x == f[n][i]
  <2>1. Follows(c, f, i, m, n)
    BY <1>1, <1>5, <1>11 DEF Linked
  <2>2. /\ n \in OnLevel(c, f, i) /\ Rank(c, m) < k
        /\ \A l \in OnLevel(c, f, i) : Rank(c, m) < c[l].key => k <= c[l].key
    BY <1>4, <2>1 DEF Follows
  <2>3. i \in 1 .. Len(f[n]) /\ i <= Len(f[n])
    BY <1>3, <1>4, <2>2 DEF OnLevel
  <2>4. IsLast(c, f, i, k, m)
    <3>1. m = HeadNode \/ (m \in OnLevel(c, f, i) /\ c[m].key < k)
      <4>1. m = HeadNode \/ m \in DOMAIN c
        BY <1>1, <1>5 DEF Shape
      <4>2. i <= Len(f[m])
        BY <1>3, <1>5
      <4> QED BY <1>2, <2>2, <4>1, <4>2 DEF OnLevel
    <3>2. \A l \in OnLevel(c, f, i) : c[l].key < k => c[l].key <= Rank(c, m)
      <4> SUFFICES ASSUME NEW l \in OnLevel(c, f, i), c[l].key < k PROVE c[l].key <= Rank(c, m)
        OBVIOUS
      <4>1. c[l].key \in Nat /\ Rank(c, m) \in Int
        BY <1>2, <1>5 DEF OnLevel
      <4> QED BY <1>4, <2>2, <4>1
    <3> QED BY <3>1, <3>2 DEF IsLast
  <2>5. update[i] = m
    <3>1. IsLast(c, f, i, k, update[i])
      BY <1>0, <2>3
    <3>2. i \in 1 .. MaxLevel
      BY <1>3, <1>4, <2>3, SkipListAssumption
    <3> QED BY <1>1, <1>4, <2>4, <3>1, <3>2, LastExistsOnce
  <2>6. g[m][i] = x
    BY <1>0, <1>3, <1>5, <1>11, <2>3, <2>5
  <2>7. Follows(c, f, i, n, x) /\ Rank(c, n) = k
    BY <1>1, <1>2, <1>4, <2>3 DEF Linked
  <2>8. \A l \in OnLevel(d, g, i) : Rank(d, m) < d[l].key <=> k < d[l].key
    <3> SUFFICES ASSUME NEW l \in OnLevel(d, g, i)
                 PROVE Rank(d, m) < d[l].key <=> k < d[l].key
      OBVIOUS
    <3>1. l \in OnLevel(c, f, i) /\ l # n /\ d[l] = c[l] /\ c[l].key \in Nat
      BY <1>9, <1>10
    <3>2. c[l].key # k
      BY <1>1, <3>1 DEF OneNodePerKey, OnLevel
    <3>3. Rank(c, m) \in Int /\ Rank(d, m) = Rank(c, m)
      BY <1>2, <1>5, <1>8
    <3> QED BY <1>4, <2>2, <3>1, <3>2, <3>3
  <2>9. Rank(d, m) \in Int /\ Rank(d, m) < k
    BY <1>2, <1>5, <1>8, <2>2
  <2> HIDE DEF x
  <2>10. CASE x = Null /\ \A l \in OnLevel(c, f, i) : c[l].key <= k
    <3>1. \A l \in OnLevel(d, g, i) : d[l].key <= Rank(d, m)
      <4> SUFFICES ASSUME NEW l \in OnLevel(d, g, i) PROVE d[l].key <= Rank(d, m)
        OBVIOUS
      <4>1. d[l].key \in Nat /\ d[l].key <= k
        BY <1>9, <1>10, <2>10
      <4>2. ~(k < d[l].key)
        BY <1>4, <4>1
      <4> QED BY <2>8, <2>9, <4>1, <4>2
    <3> QED BY <2>6, <2>10, <3>1 DEF Follows
  <2>11. CASE /\ x \in OnLevel(c, f, i) /\ k < c[x].key
              /\ \A l \in OnLevel(c, f, i) : k < c[l].key => c[x].key <= c[l].key
    <3>1. x # n
      BY <1>4, <2>11
    <3>2. x \in OnLevel(d, g, i) /\ d[x] = c[x]
      BY <1>9, <1>10, <2>11, <3>1
    <3>3. Rank(d, m) < d[x].key
      BY <2>8, <2>11, <3>2
    <3>4. \A l \in OnLevel(d, g, i) : Rank(d, m) < d[l].key => d[x].key <= d[l].key
      BY <1>9, <1>10, <2>8, <2>11, <3>2
    <3> QED BY <2>6, <3>2, <3>3, <3>4 DEF Follows
  <2> QED BY <2>7, <2>10, <2>11 DEF Follows
<1>12. ASSUME NEW m \in DOMAIN g, NEW i \in 1 .. Len(f[m]), f[m][i] # n
       PROVE  Follows(d, g, i, m, g[m][i])
  <2> DEFINE x == f[m][i]
  <2>1. g[m][i] = x
    BY <1>0, <1>3, <1>5, <1>12
  <2>2. Follows(c, f, i, m, x)
    BY <1>1, <1>5 DEF Linked
  <2>3. x # n
    BY <1>12
  <2> HIDE DEF x
  <2>4. CASE x = Null /\ \A l \in OnLevel(c, f, i) : c[l].key <= Rank(c, m)
    <3>1. \A l \in OnLevel(d, g, i) : d[l].key <= Rank(d, m)
      BY <1>8, <1>9, <1>10, <2>4
    <3> QED BY <2>1, <2>4, <3>1 DEF Follows
  <2>5. CASE /\ x \in OnLevel(c, f, i) /\ Rank(c, m) < c[x].key
             /\ \A l \in OnLevel(c, f, i) : Rank(c, m) < c[l].key => c[x].key <= c[l].key
    <3>1. x \in OnLevel(d, g, i) /\ d[x] = c[x]
      BY <1>9, <1>10, <2>3, <2>5
    <3>2. Rank(d, m) < d[x].key
      BY <1>8, <2>5, <3>1
    <3>3. \A l \in OnLevel(d, g, i) : Rank(d, m) < d[l].key => d[x].key <= d[l].key
      BY <1>8, <1>9, <1>10, <2>5, <3>1
    <3> QED BY <2>1, <3>1, <3>2, <3>3 DEF Follows
  <2> QED BY <2>2, <2>4, <2>5 DEF Follows
<1>13. Linked(d, g)
  BY <1>5, <1>11, <1>12 DEF Linked
<1> QED BY <1>5, <1>6, <1>7, <1>13 DEF ListOf

\* A new entry for a node changes no link.
LEMMA LinkedAfterOverwrite ==
    ASSUME NEW c, NEW f, ListOf(c, f), NEW n \in DOMAIN c, NEW e \in Entry,
           NEW d, DOMAIN d = DOMAIN c, \A m \in DOMAIN c \ {n} : d[m] = c[m],
           d[n] = [key |-> c[n].key, entry |-> e]
    PROVE  ListOf(d, f)
<1>1. Shape(c, f) /\ OneNodePerKey(c) /\ Linked(c, f)
  BY DEF ListOf
<1>2. DOMAIN d = DOMAIN c /\ \A m \in DOMAIN c \ {n} : d[m] = c[m]
  OBVIOUS
<1>3. d[n] = [key |-> c[n].key, entry |-> e] /\ d[n] \in Pair
  <2>1. c[n] \in Pair
    BY <1>1 DEF Shape
  <2> QED BY <2>1 DEF Pair
<1>4. \A m \in DOMAIN c : d[m].key = c[m].key
  BY <1>2, <1>3
<1>5. Shape(d, f)
  BY <1>1, <1>2, <1>3 DEF Shape
<1>6. OneNodePerKey(d)
  BY <1>1, <1>2, <1>4 DEF OneNodePerKey
<1>7. \A m \in DOMAIN f : Rank(d, m) = Rank(c, m)
  BY <1>1, <1>4 DEF Rank, Shape
<1>8. \A i : OnLevel(d, f, i) = OnLevel(c, f, i) /\ OnLevel(c, f, i) \subseteq DOMAIN c
  BY <1>2 DEF OnLevel
<1>9. ASSUME NEW m \in DOMAIN f, NEW i \in 1 .. Len(f[m]) PROVE Follows(d, f, i, m, f[m][i])
  <2>1. Follows(c, f, i, m, f[m][i])
    BY <1>1 DEF Linked
  <2>2. \A l \in OnLevel(c, f, i) : d[l].key = c[l].key
    BY <1>4, <1>8
  <2> QED BY <1>7, <1>8, <2>1, <2>2 DEF Follows
<1> QED BY <1>2, <1>3, <1>5, <1>6, <1>9 DEF ListOf, Linked

\* The node with the key gets the entry; nothing else changes.
OnlyStored(k, e, P, Q) ==
    /\ \A p \in Q : p.key = k => p = [key |-> k, entry |-> e]
    /\ [key |-> k, entry |-> e] \in Q
    /\ \A p \in Pair : p.key # k => (p \in P <=> p \in Q)

\* The pair with the key goes; nothing else changes.
OnlyRemoved(k, P, Q) ==
    /\ \A p \in Q : p.key # k
    /\ \A p \in Pair : p.key # k => (p \in P <=> p \in Q)

\* A head without links is an empty list.
LEMMA EmptyIsList ==
    ASSUME NEW c, DOMAIN c = {}, NEW f, f = [n \in {HeadNode} |-> Unlinked(MaxLevel)]
    PROVE  ListOf(c, f) /\ Highest(c, f, 1) /\ Cardinality(DOMAIN c) = 0
<1>1. MaxLevel \in Nat /\ MaxLevel >= 1
  BY SkipListAssumption
<1>2. DOMAIN f = {HeadNode} /\ f[HeadNode] = [i \in 1 .. MaxLevel |-> Null]
  BY DEF Unlinked
<1>3. f[HeadNode] \in Seq(Node \cup {Null}) /\ Len(f[HeadNode]) = MaxLevel
  <2>1. [i \in 1 .. MaxLevel |-> Null] \in [1 .. MaxLevel -> Node \cup {Null}]
    OBVIOUS
  <2> QED BY <1>1, <1>2, <2>1, LinksTyped
<1>4. Shape(c, f)
  BY <1>1, <1>2, <1>3 DEF Shape
<1>5. OneNodePerKey(c)
  BY DEF OneNodePerKey
<1>6. Linked(c, f)
  BY <1>2, <1>3 DEF Linked, Follows, OnLevel
<1>7. Highest(c, f, 1)
  BY <1>1 DEF Highest
<1> QED BY <1>4, <1>5, <1>6, <1>7, FS_EmptySet DEF ListOf

\* The list begins empty.
LEMMA ListStarts ==
    ASSUME ListInit
    PROVE  ListInv /\ Contents = {}
<1>1. DOMAIN cell = {} /\ level = 1 /\ count = 0
  BY DEF ListInit
<1>2. ListOf(cell, forward) /\ Highest(cell, forward, 1) /\ Cardinality(DOMAIN cell) = 0
  BY <1>1, EmptyIsList DEF ListInit
<1> QED BY <1>1, <1>2 DEF ListInv, Contents

\* clear leaves an empty list.
LEMMA ClearKeeps ==
    ASSUME ClearList
    PROVE  ListInv' /\ Contents' = {}
<1>1. DOMAIN cell' = {} /\ level' = 1 /\ count' = 0
  BY DEF ClearList
<1>2. ListOf(cell', forward') /\ Highest(cell', forward', 1) /\ Cardinality(DOMAIN cell') = 0
  BY <1>1, EmptyIsList DEF ClearList
<1> QED BY <1>1, <1>2 DEF ListInv, Contents

\* put of a key that is there.
LEMMA OverwriteKeeps ==
    ASSUME ListInv, NEW k \in Key, NEW e \in Entry, Overwrite(k, e)
    PROVE  ListInv' /\ OnlyStored(k, e, Contents, Contents')
<1> DEFINE n == FindGreaterOrEqual(k)
<1>0. k \in Nat
  BY EntriesAssumption
<1>1. n \in DOMAIN cell /\ cell[n].key = k
  BY <1>0, SearchHits DEF Overwrite
<1>2. cell' = [cell EXCEPT ![n].entry = e] /\ forward' = forward /\ level' = level /\ count' = count
  BY DEF Overwrite
<1>3. ListOf(cell, forward) /\ OneNodePerKey(cell) /\ Highest(cell, forward, level)
  BY DEF ListInv, ListOf
<1> HIDE DEF n
<1>4. /\ ListOf(cell', forward) /\ DOMAIN cell' = DOMAIN cell
      /\ cell'[n] = [key |-> cell[n].key, entry |-> e]
      /\ \A m \in DOMAIN cell \ {n} : cell'[m] = cell[m]
  <2>1. cell[n] \in Pair
    BY <1>1, <1>3 DEF ListOf, Shape
  <2>2. DOMAIN cell' = DOMAIN cell /\ \A m \in DOMAIN cell \ {n} : cell'[m] = cell[m]
    BY <1>2
  <2>3. cell'[n] = [key |-> cell[n].key, entry |-> e]
    <3>1. cell'[n] = [cell[n] EXCEPT !.entry = e]
      BY <1>1, <1>2
    <3> QED BY <2>1, <3>1 DEF Pair
  <2> QED BY <1>1, <1>3, <2>2, <2>3, LinkedAfterOverwrite
<1>5. ListInv'
  BY <1>2, <1>3, <1>4 DEF ListInv, Highest
<1>6. \A m \in DOMAIN cell \ {n} : cell[m].key # k
  BY <1>1, <1>3 DEF OneNodePerKey
<1>7. Contents' = {cell'[m] : m \in DOMAIN cell}
  BY <1>4 DEF Contents
<1>8. OnlyStored(k, e, Contents, Contents')
  <2>1. \A p \in Contents' : p.key = k => p = [key |-> k, entry |-> e]
    BY <1>1, <1>4, <1>6, <1>7
  <2>2. [key |-> k, entry |-> e] \in Contents'
    BY <1>1, <1>4, <1>7
  <2>3. ASSUME NEW p \in Pair, p.key # k PROVE p \in Contents <=> p \in Contents'
    BY <1>1, <1>4, <1>7, <2>3 DEF Contents
  <2> QED BY <2>1, <2>2, <2>3 DEF OnlyStored
<1> QED BY <1>5, <1>8

\* put of another key: the new node may have any height.
LEMMA InsertKeeps ==
    ASSUME ListInv, NEW k \in Key, NEW e \in Entry, Insert(k, e)
    PROVE  ListInv' /\ OnlyStored(k, e, Contents, Contents')
<1>0. k \in Nat /\ [key |-> k, entry |-> e] \in Pair /\ [key |-> k, entry |-> e].key = k
  BY EntriesAssumption DEF Pair
<1> DEFINE n == Min(Node \ DOMAIN cell)
           p == [key |-> k, entry |-> e]
<1>1. PICK h \in 1 .. MaxLevel :
        LET after == [i \in 1 .. h |-> InsertAfter(k, i)]
        IN  /\ cell' = [m \in DOMAIN cell \cup {n} |-> IF m = n THEN p ELSE cell[m]]
            /\ forward' = [m \in DOMAIN forward \cup {n} |->
                    IF m = n THEN [i \in 1 .. h |-> forward[after[i]][i]]
                    ELSE [i \in DOMAIN forward[m] |->
                            IF i <= h /\ after[i] = m THEN n ELSE forward[m][i]]]
            /\ level' = IF h > level THEN h ELSE level
  BY DEF Insert
<1> DEFINE after == [i \in 1 .. h |-> InsertAfter(k, i)]
<1>2. /\ ListOf(cell, forward) /\ Shape(cell, forward) /\ Highest(cell, forward, level)
      /\ count = Cardinality(DOMAIN cell)
  BY DEF ListInv, ListOf
<1>3. n \in Node \ DOMAIN cell
  <2> DEFINE Free == Node \ DOMAIN cell
  <2>1. Free \in SUBSET Nat
    BY DEF Node
  <2>2. Free # {}
    BY <1>2 DEF Insert, Shape
  <2>3. PICK m \in Free : \A l \in Free : m <= l
    <3> HIDE DEF Free
    <3> QED BY <2>1, <2>2, LeastExists
  <2>4. n \in Free
    BY <2>3 DEF Min
  <2> QED BY <2>4
<1>4. \A m \in DOMAIN cell : cell[m].key # k
  BY <1>0, SearchHits DEF Insert
<1>5. \A i \in 1 .. h : IsLast(cell, forward, i, k, after[i])
  <2> SUFFICES ASSUME NEW i \in 1 .. h
               PROVE  IsLast(cell, forward, i, k, InsertAfter(k, i))
    OBVIOUS
  <2>1. level \in Nat /\ i \in Nat /\ i >= 1
    BY <1>2, SkipListAssumption DEF Highest
  <2>2. CASE i <= level
    <3>1. i \in 1 .. level
      BY <2>1, <2>2
    <3> QED BY <1>0, <2>2, <3>1, PredecessorsAreLast DEF InsertAfter
  <2>3. CASE ~(i <= level)
    <3>1. OnLevel(cell, forward, i) = {}
      <4>1. \A m \in DOMAIN cell : Len(forward[m]) <= level /\ Len(forward[m]) \in Nat
        BY <1>2, Ranks, Heights DEF Highest
      <4> QED BY <2>1, <2>3, <4>1 DEF OnLevel
    <3> QED BY <2>3, <3>1 DEF InsertAfter, IsLast
  <2> QED BY <2>2, <2>3
<1>6. n \notin DOMAIN forward
  <2>1. n # HeadNode
    BY <1>3 DEF Node, HeadNode
  <2> QED BY <1>2, <1>3, <2>1 DEF Shape
<1> HIDE DEF n, after
<1>7. /\ DOMAIN cell' = DOMAIN cell \cup {n} /\ cell'[n] = p
      /\ \A m \in DOMAIN cell : cell'[m] = cell[m]
  BY <1>1, <1>3
<1>8. LinksInserted(forward, n, h, after, forward')
  <2>1. /\ DOMAIN forward' = DOMAIN forward \cup {n}
        /\ forward'[n] = [i \in 1 .. h |-> forward[after[i]][i]]
        /\ \A m \in DOMAIN forward :
              forward'[m] = [i \in DOMAIN forward[m] |->
                                IF i <= h /\ after[i] = m THEN n ELSE forward[m][i]]
    BY <1>1, <1>6 DEF after
  <2> QED BY <2>1 DEF LinksInserted
<1>9. AllLast(cell, forward, h, p.key, after) /\ CellInserted(cell, n, p, cell')
  BY <1>0, <1>5, <1>7 DEF AllLast, CellInserted
<1>10. \A m \in DOMAIN cell : cell[m].key # p.key
  BY <1>0, <1>4
<1> HIDE DEF p
<1>11. /\ ListOf(cell', forward') /\ Len(forward'[n]) = h
       /\ \A m \in DOMAIN forward : Len(forward'[m]) = Len(forward[m])
  <2>1. p \in Pair
    BY <1>0 DEF p
  <2> QED BY <1>2, <1>3, <1>8, <1>9, <1>10, <2>1, LinkedAfterInsert
<1>12. Highest(cell', forward', level')
  <2>1. level \in Nat /\ h \in Nat /\ MaxLevel \in Nat /\ level \in 1 .. MaxLevel
    BY <1>2, SkipListAssumption DEF Highest
  <2>2. level' = (IF h > level THEN h ELSE level) /\ level' \in 1 .. MaxLevel
    BY <1>1, <2>1
  <2>3. \A m \in DOMAIN cell : m \in DOMAIN forward /\ Len(forward[m]) <= level /\ Len(forward[m]) \in Nat
    BY <1>2, Ranks, Heights DEF Highest
  <2>4. \A m \in DOMAIN cell' : Len(forward'[m]) <= level'
    BY <1>7, <1>11, <2>1, <2>2, <2>3
  <2>5. level' = 1 \/ \E m \in DOMAIN cell' : Len(forward'[m]) = level'
    <3>1. CASE h > level
      BY <1>7, <1>11, <2>2, <3>1
    <3>2. CASE ~(h > level)
      <4>1. level = 1 \/ \E m \in DOMAIN cell : Len(forward[m]) = level
        BY <1>2 DEF Highest
      <4> QED BY <1>7, <1>11, <2>2, <2>3, <3>2, <4>1
    <3> QED BY <3>1, <3>2
  <2> QED BY <2>2, <2>4, <2>5 DEF Highest
<1>13. count' = Cardinality(DOMAIN cell')
  <2>1. IsFiniteSet(DOMAIN cell)
    BY <1>2, NodesFinite DEF Shape
  <2>2. Cardinality(DOMAIN cell \cup {n}) = Cardinality(DOMAIN cell) + 1
    BY <1>3, <2>1, FS_AddElement
  <2> QED BY <1>2, <1>7, <2>2 DEF Insert
<1>14. ListInv'
  BY <1>11, <1>12, <1>13 DEF ListInv
<1>15. OnlyStored(k, e, Contents, Contents')
  <2>1. Contents' = Contents \cup {p}
    BY <1>3, <1>7 DEF Contents
  <2>2. \A q \in Contents : q.key # k
    BY <1>4 DEF Contents
  <2> QED BY <1>0, <2>1, <2>2 DEF OnlyStored, p
<1> QED BY <1>14, <1>15

\* put.
LEMMA PutKeeps ==
    ASSUME ListInv, NEW k \in Key, NEW e \in Entry, PutInList(k, e)
    PROVE  ListInv' /\ OnlyStored(k, e, Contents, Contents')
BY OverwriteKeeps, InsertKeeps DEF PutInList

\* erase: the levels that lost their last node are given up.
LEMMA EraseKeeps ==
    ASSUME ListInv, NEW k \in Key, EraseFromList(k)
    PROVE  ListInv' /\ OnlyRemoved(k, Contents, Contents')
<1> DEFINE n == FindGreaterOrEqual(k)
           update == Predecessors(k)
<1>0. k \in Nat
  BY EntriesAssumption
<1>1. n \in DOMAIN cell /\ cell[n].key = k
  BY <1>0, SearchHits DEF EraseFromList
<1>2. /\ ListOf(cell, forward) /\ Shape(cell, forward) /\ Highest(cell, forward, level)
      /\ OneNodePerKey(cell) /\ count = Cardinality(DOMAIN cell)
  BY DEF ListInv, ListOf
<1>3. \A i \in 1 .. Len(forward[n]) : IsLast(cell, forward, i, k, update[i])
  <2> SUFFICES ASSUME NEW i \in 1 .. Len(forward[n])
               PROVE  IsLast(cell, forward, i, k, update[i])
    OBVIOUS
  <2>1. Len(forward[n]) \in Nat /\ Len(forward[n]) <= level /\ level \in Nat
    BY <1>1, <1>2, Ranks, Heights, SkipListAssumption DEF Highest
  <2>2. i \in 1 .. level
    BY <2>1
  <2> QED BY <1>0, <2>2, PredecessorsAreLast
<1>4. /\ DOMAIN cell' = DOMAIN cell \ {n} /\ \A m \in DOMAIN cell' : cell'[m] = cell[m]
      /\ level' = Lowered(level, forward') /\ count' = count - 1
  BY DEF EraseFromList
<1>5. LinksErased(forward, n, update, forward')
  <2>1. /\ DOMAIN forward' = DOMAIN forward \ {n}
        /\ \A m \in DOMAIN forward' :
              forward'[m] = [i \in DOMAIN forward[m] |->
                    IF i <= Len(forward[n]) /\ update[i] = m /\ forward[m][i] = n
                    THEN forward[n][i] ELSE forward[m][i]]
    BY DEF EraseFromList
  <2> QED BY <2>1 DEF LinksErased
<1> HIDE DEF n, update
<1>6. ListOf(cell', forward') /\ \A m \in DOMAIN forward' : Len(forward'[m]) = Len(forward[m])
  <2>1. AllLast(cell, forward, Len(forward[n]), cell[n].key, update)
    BY <1>1, <1>3 DEF AllLast
  <2>2. CellErased(cell, n, cell')
    BY <1>4 DEF CellErased
  <2> QED BY <1>1, <1>2, <1>5, <2>1, <2>2, LinkedAfterErase
<1>7. Highest(cell', forward', level')
  <2> DEFINE M == {1} \cup {i \in 1 .. level : forward'[HeadNode][i] # Null}
  <2>1. /\ level \in Nat /\ MaxLevel \in Nat /\ level >= 1 /\ level <= MaxLevel
    BY <1>2, SkipListAssumption DEF Highest
  <2>2. level' = Max(M)
    BY <1>4 DEF Lowered
  <2>3. M \in SUBSET Nat /\ M # {} /\ \A i \in M : i <= level
    BY <2>1
  <2>4. level' \in M /\ \A i \in M : i <= level'
    <3> HIDE DEF M
    <3>1. PICK x \in M : \A i \in M : i <= x
      BY <2>1, <2>3, GreatestExists
    <3>2. \A i \in M : x >= i
      BY <2>3, <3>1
    <3>3. Max(M) \in M /\ \A i \in M : Max(M) >= i
      BY <3>2 DEF Max
    <3> QED BY <2>2, <2>3, <3>3
  <2>5. /\ Shape(cell', forward') /\ HeadNode \in DOMAIN forward'
        /\ Rank(cell', HeadNode) = -1
        /\ Len(forward'[HeadNode]) = MaxLevel
        /\ \A m \in DOMAIN cell' : /\ cell'[m].key \in Nat /\ m # Null /\ m \in DOMAIN forward'
    BY <1>6, Ranks DEF ListOf, Shape
  <2>6. \A m \in DOMAIN cell' : /\ Len(forward'[m]) \in Nat /\ Len(forward'[m]) >= 1
                                /\ Len(forward'[m]) <= level
    BY <1>2, <1>4, <1>6, <2>5, Heights DEF Highest
  <2>7. \A i \in 1 .. level : forward'[HeadNode][i] # Null
           <=> \E m \in DOMAIN cell' : i <= Len(forward'[m])
    <3> SUFFICES ASSUME NEW i \in 1 .. level
                 PROVE  forward'[HeadNode][i] # Null
                           <=> \E m \in DOMAIN cell' : i <= Len(forward'[m])
      OBVIOUS
    <3>1. i \in 1 .. Len(forward'[HeadNode])
      BY <2>1, <2>5
    <3>2. Follows(cell', forward', i, HeadNode, forward'[HeadNode][i])
      BY <1>6, <2>5, <3>1 DEF ListOf, Linked
    <3> DEFINE x == forward'[HeadNode][i]
    <3> HIDE DEF x
    <3>3. CASE x = Null /\ \A m \in OnLevel(cell', forward', i) : cell'[m].key <= -1
      <4>1. \A m \in DOMAIN cell' : ~(i <= Len(forward'[m]))
        BY <2>5, <3>3 DEF OnLevel
      <4> QED BY <3>3, <4>1 DEF x
    <3>4. CASE x \in OnLevel(cell', forward', i)
      <4>1. x \in DOMAIN cell' /\ x # Null /\ i <= Len(forward'[x])
        BY <2>5, <3>4 DEF OnLevel
      <4> QED BY <4>1 DEF x
    <3> QED BY <2>5, <3>2, <3>3, <3>4 DEF Follows, x
  <2>8. \A m \in DOMAIN cell' : Len(forward'[m]) <= level'
    <3> SUFFICES ASSUME NEW m \in DOMAIN cell' PROVE Len(forward'[m]) <= level'
      OBVIOUS
    <3>1. Len(forward'[m]) \in 1 .. level /\ Len(forward'[m]) <= Len(forward'[m])
      BY <2>1, <2>6
    <3>2. Len(forward'[m]) \in M
      BY <2>7, <3>1
    <3> HIDE DEF M
    <3> QED BY <2>4, <3>2
  <2>9. level' = 1 \/ \E m \in DOMAIN cell' : Len(forward'[m]) = level'
    <3> SUFFICES ASSUME level' # 1 PROVE \E m \in DOMAIN cell' : Len(forward'[m]) = level'
      OBVIOUS
    <3>1. level' \in 1 .. level /\ forward'[HeadNode][level'] # Null
      BY <2>4
    <3>2. PICK m \in DOMAIN cell' : level' <= Len(forward'[m])
      BY <2>7, <3>1
    <3>3. Len(forward'[m]) = level'
      BY <2>1, <2>6, <2>8, <3>1, <3>2
    <3> QED BY <3>3
  <2>10. level' \in 1 .. MaxLevel
    BY <2>1, <2>4
  <2> QED BY <2>8, <2>9, <2>10 DEF Highest
<1>8. count' = Cardinality(DOMAIN cell')
  <2>1. IsFiniteSet(DOMAIN cell)
    BY <1>2, NodesFinite DEF Shape
  <2>2. Cardinality(DOMAIN cell \ {n}) = Cardinality(DOMAIN cell) - 1
    BY <1>1, <2>1, FS_RemoveElement
  <2> QED BY <1>2, <1>4, <2>2
<1>9. ListInv'
  BY <1>6, <1>7, <1>8 DEF ListInv
<1>10. OnlyRemoved(k, Contents, Contents')
  <2>1. Contents' = {cell[m] : m \in DOMAIN cell \ {n}}
    BY <1>4 DEF Contents
  <2>2. \A m \in DOMAIN cell \ {n} : cell[m].key # k
    BY <1>1, <1>2 DEF OneNodePerKey
  <2> QED BY <1>1, <2>1, <2>2 DEF OnlyRemoved, Contents
<1> QED BY <1>9, <1>10

-----------------------------------------------------------------------------
(* The file while it is written, and when it is whole.                     *)

IndexEntry == [kind : {"index"}, maxKey : Nat, offset : Nat, size : Nat \ {0}]

Items ==
    [kind : {"data"}, pair : Pair] \cup IndexEntry \cup
    [kind : {"footer"}, offset : Nat, size : Nat] \cup {Torn}

Ascending(s) == s \in Seq(Pair) /\ \A i, j \in DOMAIN s : i < j => s[i].key < s[j].key

EndOf(entry) == entry.offset + entry.size

\* The first items of the file are these pairs.
DataIs(items, n, s) ==
    /\ items \in Seq(Items) /\ n \in Nat /\ n <= Len(items) /\ n <= Len(s)
    /\ \A i \in 1 .. n : items[i] = DataItem(s[i])

\* The entries of an index cover the first n pairs, block after block.
IndexOver(entries, n, s) ==
    /\ entries \in Seq(IndexEntry)
    /\ \A b \in DOMAIN entries : /\ EndOf(entries[b]) <= n
                                 /\ entries[b].maxKey = s[EndOf(entries[b])].key
    /\ \A a, b \in DOMAIN entries : a < b => EndOf(entries[a]) <= entries[b].offset
    /\ \A i \in 1 .. n : \E b \in DOMAIN entries :
          entries[b].offset < i /\ i <= EndOf(entries[b])

\* What was written, what is buffered and what is left are the pairs of s.
Building(items, buf, last, entries, rest, s) ==
    /\ Ascending(s)
    /\ DataIs(items, Len(items), s)
    /\ buf \in Seq(Pair) /\ rest \in Seq(Pair)
    /\ Len(items) + Len(buf) + Len(rest) = Len(s)
    /\ \A i \in 1 .. Len(buf) : buf[i] = s[Len(items) + i]
    /\ \A i \in 1 .. Len(rest) : rest[i] = s[Len(items) + Len(buf) + i]
    /\ buf # <<>> => last = s[Len(items) + Len(buf)].key
    /\ IndexOver(entries, Len(items), s)

\* A file with all pairs of s, and the index of its blocks.
TableOf(items, entries, s) ==
    /\ Ascending(s) /\ entries # <<>>
    /\ DataIs(items, Len(s), s)
    /\ IndexOver(entries, Len(s), s)

\* A file as Finish leaves it.
Whole(items, entries, s) ==
    /\ TableOf(items, entries, s)
    /\ Len(items) = Len(s) + Len(entries) + 1
    /\ \A j \in 1 .. Len(entries) : items[Len(s) + j] = entries[j]
    /\ items[Len(items)] = Footer(Len(s), Len(entries))

\* What a data item is.
LEMMA DataFields ==
    \A p : DataItem(p).kind = "data" /\ DataItem(p).pair = p
BY DEF DataItem

\* An index entry has a place and a length.
LEMMA EntryTypes ==
    ASSUME NEW entries, NEW n \in Nat, NEW s, IndexOver(entries, n, s),
           NEW b \in DOMAIN entries
    PROVE  /\ b \in Nat /\ b >= 1 /\ b <= Len(entries) /\ Len(entries) \in Nat
           /\ entries[b] \in IndexEntry
           /\ entries[b].kind = "index"
           /\ entries[b].maxKey \in Nat /\ entries[b].offset \in Nat
           /\ entries[b].size \in Nat /\ entries[b].size >= 1
           /\ EndOf(entries[b]) = entries[b].offset + entries[b].size
           /\ EndOf(entries[b]) \in 1 .. n
           /\ entries[b].maxKey = s[EndOf(entries[b])].key
<1>1. entries \in Seq(IndexEntry) /\ DOMAIN entries = 1 .. Len(entries) /\ Len(entries) \in Nat
  BY LenProperties DEF IndexOver
<1>2. entries[b] \in IndexEntry
  BY <1>1, ElementOfSeq
<1>3. /\ entries[b].maxKey \in Nat /\ entries[b].offset \in Nat
      /\ entries[b].size \in Nat \ {0} /\ entries[b].kind = "index"
  BY <1>2 DEF IndexEntry
<1>4. EndOf(entries[b]) <= n /\ entries[b].maxKey = s[EndOf(entries[b])].key
  BY DEF IndexOver
<1>5. EndOf(entries[b]) = entries[b].offset + entries[b].size
  BY DEF EndOf
<1> QED BY <1>1, <1>2, <1>3, <1>4, <1>5

\* The pairs in order, with their keys.
LEMMA AscendingTypes ==
    ASSUME NEW s, Ascending(s)
    PROVE  /\ s \in Seq(Pair) /\ Len(s) \in Nat /\ DOMAIN s = 1 .. Len(s)
           /\ \A i \in 1 .. Len(s) : s[i] \in Pair /\ s[i].key \in Nat
           /\ \A i, j \in 1 .. Len(s) : i < j => s[i].key < s[j].key
           /\ \A i, j \in 1 .. Len(s) : /\ s[i].key < s[j].key <=> i < j
                                        /\ s[i].key = s[j].key <=> i = j
<1>1. s \in Seq(Pair) /\ Len(s) \in Nat /\ DOMAIN s = 1 .. Len(s)
  BY LenProperties DEF Ascending
<1>2. \A i \in 1 .. Len(s) : s[i] \in Pair /\ s[i].key \in Nat
  BY <1>1, ElementOfSeq, PairTypes
<1>3. \A i, j \in 1 .. Len(s) : i < j => s[i].key < s[j].key
  BY <1>1 DEF Ascending
<1>4. ASSUME NEW i \in 1 .. Len(s), NEW j \in 1 .. Len(s)
      PROVE  (s[i].key < s[j].key <=> i < j) /\ (s[i].key = s[j].key <=> i = j)
  <2>1. i < j => s[i].key < s[j].key
    BY <1>3
  <2>2. j < i => s[j].key < s[i].key
    BY <1>3
  <2>3. s[i].key \in Nat /\ s[j].key \in Nat /\ i \in Nat /\ j \in Nat
    BY <1>2
  <2> QED BY <2>1, <2>2, <2>3
<1> QED BY <1>1, <1>2, <1>3, <1>4

\* A block more.
LEMMA IndexGrows ==
    ASSUME NEW s, Ascending(s), NEW n \in Nat, NEW size \in Nat \ {0}, n + size <= Len(s),
           NEW entries, IndexOver(entries, n, s), NEW k, k = s[n + size].key
    PROVE  /\ IndexOver(Append(entries, IndexItem(k, n, size)), n + size, s)
           /\ Append(entries, IndexItem(k, n, size)) # <<>>
<1> DEFINE e == IndexItem(k, n, size)
           more == Append(entries, e)
           m == Len(entries) + 1
<1>1. Len(s) \in Nat /\ n + size \in 1 .. Len(s) /\ s[n + size].key \in Nat
  BY AscendingTypes
<1>2. e \in IndexEntry /\ e.maxKey = k /\ e.offset = n /\ EndOf(e) = n + size
  BY <1>1 DEF IndexItem, IndexEntry, EndOf
<1>3. entries \in Seq(IndexEntry) /\ Len(entries) \in Nat /\ DOMAIN entries = 1 .. Len(entries)
  BY LenProperties DEF IndexOver
<1> HIDE DEF e
<1>4. /\ more \in Seq(IndexEntry) /\ DOMAIN more = 1 .. m /\ more[m] = e
      /\ \A b \in 1 .. Len(entries) : more[b] = entries[b]
      /\ more # <<>>
  BY <1>2, <1>3
<1> HIDE DEF more
<1>5. \A b \in DOMAIN more : b = m \/ b \in DOMAIN entries
  BY <1>3, <1>4
<1>6. \A b \in DOMAIN entries : more[b] = entries[b] /\ b \in DOMAIN more /\ b < m /\ b \in Nat
  BY <1>3, <1>4
<1>7. \A b \in DOMAIN entries : EndOf(entries[b]) \in 1 .. n /\ entries[b].maxKey = s[EndOf(entries[b])].key
  BY EntryTypes
<1>8. \A b \in DOMAIN more : /\ EndOf(more[b]) <= n + size
                             /\ more[b].maxKey = s[EndOf(more[b])].key
  <2> SUFFICES ASSUME NEW b \in DOMAIN more
               PROVE  EndOf(more[b]) <= n + size /\ more[b].maxKey = s[EndOf(more[b])].key
    OBVIOUS
  <2>1. CASE b = m
    BY <1>2, <1>4, <2>1
  <2>2. CASE b \in DOMAIN entries
    BY <1>6, <1>7, <2>2
  <2> QED BY <1>5, <2>1, <2>2
<1>9. \A a, b \in DOMAIN more : a < b => EndOf(more[a]) <= more[b].offset
  <2> SUFFICES ASSUME NEW a \in DOMAIN more, NEW b \in DOMAIN more, a < b
               PROVE  EndOf(more[a]) <= more[b].offset
    OBVIOUS
  <2>1. a \in DOMAIN entries
    BY <1>3, <1>4
  <2>2. CASE b = m
    BY <1>2, <1>4, <1>6, <1>7, <2>1, <2>2
  <2>3. CASE b \in DOMAIN entries
    BY <1>6, <2>1, <2>3 DEF IndexOver
  <2> QED BY <1>5, <2>2, <2>3
<1>10. \A i \in 1 .. n + size : \E b \in DOMAIN more : more[b].offset < i /\ i <= EndOf(more[b])
  <2> SUFFICES ASSUME NEW i \in 1 .. n + size
               PROVE  \E b \in DOMAIN more : more[b].offset < i /\ i <= EndOf(more[b])
    OBVIOUS
  <2>1. CASE i > n
    <3>1. m \in DOMAIN more /\ more[m].offset < i /\ i <= EndOf(more[m])
      BY <1>2, <1>3, <1>4, <2>1
    <3> QED BY <3>1
  <2>2. CASE ~(i > n)
    <3>1. i \in 1 .. n
      BY <2>2
    <3>2. PICK b \in DOMAIN entries : entries[b].offset < i /\ i <= EndOf(entries[b])
      BY <3>1 DEF IndexOver
    <3>3. b \in DOMAIN more /\ more[b] = entries[b]
      BY <1>6
    <3> QED BY <3>2, <3>3
  <2> QED BY <2>1, <2>2
<1> QED BY <1>4, <1>8, <1>9, <1>10 DEF IndexOver, more, e

\* A block of pairs behind the others.
LEMMA DataGrows ==
    ASSUME NEW s, Ascending(s), NEW items, DataIs(items, Len(items), s),
           NEW pairs \in Seq(Pair), Len(items) + Len(pairs) <= Len(s),
           \A i \in 1 .. Len(pairs) : pairs[i] = s[Len(items) + i],
           NEW block, block = [i \in DOMAIN pairs |-> DataItem(pairs[i])]
    PROVE  /\ Len(items \o block) = Len(items) + Len(pairs)
           /\ DataIs(items \o block, Len(items) + Len(pairs), s)
<1>1. items \in Seq(Items) /\ Len(items) \in Nat /\ Len(pairs) \in Nat /\ Len(s) \in Nat
  BY LenProperties, AscendingTypes DEF DataIs
<1>2. block \in [1 .. Len(pairs) -> Items]
  <2>1. DOMAIN pairs = 1 .. Len(pairs) /\ \A i \in 1 .. Len(pairs) : pairs[i] \in Pair
    BY ElementOfSeq, LenProperties
  <2>2. \A i \in 1 .. Len(pairs) : DataItem(pairs[i]) \in Items
    BY <2>1 DEF DataItem, Items
  <2> QED BY <2>1, <2>2
<1>3. block \in Seq(Items) /\ Len(block) = Len(pairs)
  BY <1>1, <1>2, LinksTyped
<1>4. \A i \in 1 .. Len(pairs) : block[i] = DataItem(s[Len(items) + i])
  <2>1. DOMAIN pairs = 1 .. Len(pairs)
    BY LenProperties
  <2> QED BY <2>1
<1> DEFINE all == items \o block
<1>5. /\ all \in Seq(Items) /\ Len(all) = Len(items) + Len(pairs)
      /\ \A i \in 1 .. Len(items) : all[i] = items[i]
      /\ \A i \in 1 .. Len(pairs) : all[Len(items) + i] = block[i]
  <2> HIDE DEF all
  <2>1. /\ all \in Seq(Items) /\ Len(all) = Len(items) + Len(block)
        /\ \A i \in 1 .. Len(items) + Len(block) :
              all[i] = IF i <= Len(items) THEN items[i] ELSE block[i - Len(items)]
    BY <1>1, <1>3, ConcatProperties DEF all
  <2>2. ASSUME NEW i \in 1 .. Len(items) PROVE all[i] = items[i]
    BY <1>1, <1>3, <2>1
  <2>3. ASSUME NEW i \in 1 .. Len(pairs) PROVE all[Len(items) + i] = block[i]
    <3>1. /\ Len(items) + i \in 1 .. Len(items) + Len(block)
          /\ ~(Len(items) + i <= Len(items)) /\ Len(items) + i - Len(items) = i
      BY <1>1, <1>3
    <3> QED BY <2>1, <3>1
  <2> QED BY <1>3, <2>1, <2>2, <2>3
<1> HIDE DEF all
<1>6. ASSUME NEW i \in 1 .. Len(items) + Len(pairs) PROVE all[i] = DataItem(s[i])
  <2>1. CASE i <= Len(items)
    <3>1. i \in 1 .. Len(items)
      BY <1>1, <2>1
    <3> QED BY <1>5, <3>1 DEF DataIs
  <2>2. CASE ~(i <= Len(items))
    <3> DEFINE j == i - Len(items)
    <3>1. j \in 1 .. Len(pairs) /\ i = Len(items) + j
      BY <1>1, <2>2
    <3> HIDE DEF j
    <3>2. all[Len(items) + j] = DataItem(s[Len(items) + j])
      BY <1>4, <1>5, <3>1
    <3> QED BY <3>1, <3>2
  <2> QED BY <2>1, <2>2
<1>7. DataIs(all, Len(items) + Len(pairs), s)
  <2>1. Len(items) + Len(pairs) \in Nat /\ Len(items) + Len(pairs) <= Len(s)
    BY <1>1
  <2> QED BY <1>5, <1>6, <2>1 DEF DataIs
<1> QED BY <1>5, <1>7 DEF all

\* Add puts the next pair into the buffer, or writes the block that it ends.
LEMMA AddKeeps ==
    ASSUME NEW s, NEW rest, Building(file, buffer, lastKey, written, rest, s), rest # <<>>,
           Add(rest[1])
    PROVE  Building(file', buffer', lastKey', written', Tail(rest), s) /\ buffer' \in Seq(Pair)
<1> DEFINE p == rest[1]
           n == Len(file)
           b == Len(buffer)
           pairs == Append(buffer, p)
<1>1. /\ Ascending(s) /\ DataIs(file, n, s)
      /\ buffer \in Seq(Pair) /\ rest \in Seq(Pair)
      /\ n + b + Len(rest) = Len(s)
      /\ \A i \in 1 .. b : buffer[i] = s[n + i]
      /\ \A i \in 1 .. Len(rest) : rest[i] = s[n + b + i]
      /\ IndexOver(written, n, s)
  BY DEF Building
<1>2. n \in Nat /\ b \in Nat /\ Len(rest) \in Nat /\ Len(rest) >= 1 /\ Len(s) \in Nat
  BY <1>1, LenProperties, AscendingTypes DEF DataIs
<1>3. p \in Pair /\ p = s[n + b + 1]
  <2>1. 1 \in 1 .. Len(rest)
    BY <1>2
  <2> QED BY <1>1, <2>1, ElementOfSeq
<1> HIDE DEF p
<1>4. /\ pairs \in Seq(Pair) /\ Len(pairs) = b + 1 /\ pairs # <<>>
      /\ \A i \in 1 .. b : pairs[i] = buffer[i]
      /\ pairs[b + 1] = p
  <2>1. /\ pairs \in Seq(Pair) /\ Len(pairs) = b + 1
        /\ \A i \in 1 .. b : pairs[i] = buffer[i]
        /\ pairs[b + 1] = p
    BY <1>1, <1>3, AppendProperties
  <2> HIDE DEF pairs, b
  <2>2. pairs # <<>>
    BY <1>2, <2>1
  <2> QED BY <2>1, <2>2
<1>5. /\ Tail(rest) \in Seq(Pair) /\ Len(Tail(rest)) = Len(rest) - 1
      /\ \A i \in 1 .. Len(Tail(rest)) : Tail(rest)[i] = rest[i + 1]
  BY <1>1, <1>2
<1> HIDE DEF pairs
<1>6. \A i \in 1 .. Len(pairs) : pairs[i] = s[n + i]
  <2> SUFFICES ASSUME NEW i \in 1 .. b + 1 PROVE pairs[i] = s[n + i]
    BY <1>4
  <2>1. CASE i = b + 1
    <3>1. n + i = n + b + 1
      BY <1>2, <2>1
    <3> QED BY <1>3, <1>4, <2>1, <3>1
  <2>2. CASE i # b + 1
    <3>1. i \in 1 .. b
      BY <1>2, <2>2
    <3> QED BY <1>1, <1>4, <3>1
  <2> QED BY <2>1, <2>2
<1>7. \A i \in 1 .. Len(Tail(rest)) : Tail(rest)[i] = s[n + (b + 1) + i]
  <2> SUFFICES ASSUME NEW i \in 1 .. Len(Tail(rest))
               PROVE  Tail(rest)[i] = s[n + (b + 1) + i]
    OBVIOUS
  <2>1. i + 1 \in 1 .. Len(rest) /\ n + b + (i + 1) = n + (b + 1) + i
    BY <1>2, <1>5
  <2>2. rest[i + 1] = s[n + b + (i + 1)]
    BY <1>1, <2>1
  <2> QED BY <1>5, <2>1, <2>2
<1>8. lastKey' = p.key
  BY DEF Add, p
<1>9. CASE buffer' = pairs /\ file' = file /\ written' = written
  <2>1. n + (b + 1) = n + b + 1
    BY <1>2
  <2>2. n + (b + 1) + Len(Tail(rest)) = Len(s)
    BY <1>1, <1>2, <1>5
  <2>3. lastKey' = s[n + (b + 1)].key
    BY <1>3, <1>8, <2>1
  <2> HIDE DEF n, b
  <2>4. /\ DataIs(file', Len(file'), s) /\ Len(file') = n /\ Len(buffer') = b + 1
        /\ IndexOver(written', Len(file'), s)
    BY <1>1, <1>4, <1>9 DEF n
  <2> QED BY <1>1, <1>4, <1>5, <1>6, <1>7, <1>9, <2>2, <2>3, <2>4 DEF Building
<1>10. CASE FlushBlock(pairs, p.key)
  <2> DEFINE block == [i \in DOMAIN pairs |-> DataItem(pairs[i])]
  <2>1. /\ file' = file \o block
        /\ written' = Append(written, IndexItem(p.key, n, Len(pairs)))
        /\ buffer' = <<>>
    BY <1>10 DEF FlushBlock
  <2>2. /\ Len(pairs) \in Nat \ {0} /\ n + Len(pairs) <= Len(s) /\ n + Len(pairs) = n + b + 1
        /\ n + Len(pairs) + Len(Tail(rest)) = Len(s)
    BY <1>1, <1>2, <1>4, <1>5
  <2>3. p.key = s[n + Len(pairs)].key
    BY <1>3, <2>2
  <2>4. /\ Len(file \o block) = n + Len(pairs)
        /\ DataIs(file \o block, n + Len(pairs), s)
    BY <1>1, <1>4, <1>6, <2>2, DataGrows
  <2>5. IndexOver(Append(written, IndexItem(p.key, n, Len(pairs))), n + Len(pairs), s)
    BY <1>1, <1>2, <2>2, <2>3, IndexGrows
  <2> HIDE DEF block
  <2>6. /\ DataIs(file', Len(file'), s) /\ Len(file') = n + Len(pairs)
        /\ IndexOver(written', Len(file'), s)
    BY <2>1, <2>4, <2>5
  <2>7. buffer' \in Seq(Pair) /\ Len(buffer') = 0 /\ buffer' = <<>>
    BY <2>1
  <2>8. /\ Len(file') + Len(buffer') + Len(Tail(rest)) = Len(s)
        /\ \A i \in 1 .. Len(buffer') : buffer'[i] = s[Len(file') + i]
    <3>1. Len(file') + Len(buffer') + Len(Tail(rest)) = Len(s)
      BY <2>2, <2>6, <2>7, <1>2
    <3>2. 1 .. Len(buffer') = {}
      BY <2>7
    <3> QED BY <3>1, <3>2
  <2>9. \A i \in 1 .. Len(Tail(rest)) : Tail(rest)[i] = s[Len(file') + Len(buffer') + i]
    <3> SUFFICES ASSUME NEW i \in 1 .. Len(Tail(rest))
                 PROVE  Tail(rest)[i] = s[Len(file') + Len(buffer') + i]
      OBVIOUS
    <3>1. n + (b + 1) + i = Len(file') + Len(buffer') + i
      BY <1>2, <2>2, <2>6, <2>7
    <3>2. Tail(rest)[i] = s[n + (b + 1) + i]
      BY <1>7
    <3> QED BY <3>1, <3>2
  <2> QED BY <1>1, <1>5, <2>6, <2>7, <2>8, <2>9 DEF Building
<1>11. Add(p)
  BY DEF p
<1> QED BY <1>9, <1>10, <1>11 DEF Add, pairs

\* Finish writes the rest of the buffer, then the index and the footer.
LEMMA FinishedIsWhole ==
    ASSUME NEW s, Building(file, buffer, lastKey, written, <<>>, s), s # <<>>
    PROVE  Whole(Finished.file, Finished.written, s)
<1> DEFINE n == Len(file)
           b == Len(buffer)
           block == [i \in DOMAIN buffer |-> DataItem(buffer[i])]
           data == file \o block
           entries == IF buffer = <<>> THEN written
                      ELSE Append(written, IndexItem(lastKey, n, b))
<1>1. /\ Ascending(s) /\ DataIs(file, n, s) /\ buffer \in Seq(Pair)
      /\ n + b + Len(<<>>) = Len(s)
      /\ \A i \in 1 .. b : buffer[i] = s[n + i]
      /\ buffer # <<>> => lastKey = s[n + b].key
      /\ IndexOver(written, n, s)
  BY DEF Building
<1>2. n \in Nat /\ b \in Nat /\ Len(s) \in Nat /\ n + b = Len(s) /\ Len(s) # 0
  BY <1>1, LenProperties, AscendingTypes DEF DataIs
<1>3. Len(data) = Len(s) /\ DataIs(data, Len(s), s)
  <2>1. Len(data) = n + b /\ DataIs(data, n + b, s)
    BY <1>1, <1>2, DataGrows
  <2> QED BY <1>2, <2>1
<1>4. IndexOver(entries, Len(s), s) /\ entries # <<>>
  <2>1. CASE buffer = <<>>
    <3>1. b = 0 /\ n = Len(s)
      BY <1>2, <2>1
    <3>2. IndexOver(written, Len(s), s)
      BY <1>1, <3>1
    <3>3. \E i \in DOMAIN written : TRUE
      <4>1. 1 \in 1 .. Len(s)
        BY <1>2
      <4> QED BY <3>2, <4>1 DEF IndexOver
    <3> QED BY <2>1, <3>2, <3>3
  <2>2. CASE buffer # <<>>
    <3>1. b \in Nat \ {0}
      BY <1>1, <1>2, <2>2
    <3>2. /\ IndexOver(Append(written, IndexItem(lastKey, n, b)), n + b, s)
          /\ Append(written, IndexItem(lastKey, n, b)) # <<>>
      BY <1>1, <1>2, <2>2, <3>1, IndexGrows
    <3> QED BY <1>2, <2>2, <3>2
  <2> QED BY <2>1, <2>2
<1> DEFINE foot == Footer(Len(data), Len(entries))
           all == data \o entries \o <<foot>>
<1>5. Finished = [file |-> all, written |-> entries]
  <2> HIDE DEF foot
  <2>1. Finished = [file |-> IF entries = <<>> THEN data ELSE data \o entries \o <<foot>>,
                    written |-> entries]
    BY DEF Finished, foot
  <2> HIDE DEF data, entries
  <2> QED BY <1>4, <2>1
<1> HIDE DEF data, entries
<1>6. entries \in Seq(Items) /\ Len(entries) \in Nat
  <2>1. entries \in Seq(IndexEntry)
    BY <1>4 DEF IndexOver
  <2> QED BY <2>1, LenProperties, SeqMonotonic DEF Items
<1>7. foot \in Items /\ foot = Footer(Len(s), Len(entries))
  BY <1>2, <1>3, <1>6 DEF Footer, Items
<1>8. data \in Seq(Items) /\ \A i \in 1 .. Len(s) : data[i] = DataItem(s[i])
  BY <1>3 DEF DataIs
<1> HIDE DEF foot
<1>9. /\ all \in Seq(Items)
      /\ Len(all) = Len(s) + Len(entries) + 1
      /\ \A i \in 1 .. Len(s) : all[i] = data[i]
      /\ \A j \in 1 .. Len(entries) : all[Len(s) + j] = entries[j]
      /\ all[Len(s) + Len(entries) + 1] = foot
  <2> DEFINE both == data \o entries
  <2>1. /\ both \in Seq(Items) /\ Len(both) = Len(s) + Len(entries)
        /\ \A i \in 1 .. Len(s) : both[i] = data[i]
        /\ \A j \in 1 .. Len(entries) : both[Len(s) + j] = entries[j]
    BY <1>2, <1>3, <1>6, <1>8
  <2> HIDE DEF both
  <2>2. /\ all \in Seq(Items) /\ Len(all) = Len(both) + 1
        /\ \A i \in 1 .. Len(both) : all[i] = both[i]
        /\ all[Len(both) + 1] = foot
    <3>1. all = both \o <<foot>>
      BY DEF both
    <3>2. both \in Seq(Items) /\ foot \in Items
      BY <1>7, <2>1
    <3>3. all = Append(both, foot)
      BY <3>1, <3>2, AppendIsConcat
    <3> HIDE DEF all
    <3> QED BY <3>2, <3>3, AppendProperties
  <2>3. \A i \in 1 .. Len(s) : i \in 1 .. Len(both)
    BY <1>2, <1>6, <2>1
  <2>4. \A j \in 1 .. Len(entries) : Len(s) + j \in 1 .. Len(both)
    BY <1>2, <1>6, <2>1
  <2> HIDE DEF all
  <2> QED BY <2>1, <2>2, <2>3, <2>4
<1> HIDE DEF all
<1>10. DataIs(all, Len(s), s)
  BY <1>2, <1>6, <1>8, <1>9 DEF DataIs
<1> QED BY <1>1, <1>4, <1>5, <1>7, <1>9, <1>10 DEF Whole, TableOf

-----------------------------------------------------------------------------
(* What a restart finds.                                                   *)

\* The reader of a whole file has the index that was written.
LEMMA OpenedWhole ==
    ASSUME NEW items, NEW entries, NEW s, Whole(items, entries, s)
    PROVE  OpenedIndex(items) = entries
<1>1. /\ items \in Seq(Items) /\ entries \in Seq(IndexEntry)
      /\ Len(items) = Len(s) + Len(entries) + 1
      /\ \A j \in 1 .. Len(entries) : items[Len(s) + j] = entries[j]
      /\ items[Len(items)] = Footer(Len(s), Len(entries))
      /\ Len(s) \in Nat
  BY AscendingTypes DEF Whole, TableOf, DataIs, IndexOver
<1>2. Len(items) \in Nat /\ Len(entries) \in Nat
  BY <1>1, LenProperties
<1>3. HasFooter(items)
  BY <1>1, <1>2 DEF HasFooter, Footer
<1> DEFINE read == SubSeq(items, Len(s) + 1, Len(s) + Len(entries))
<1>4. OpenedIndex(items) = read
  BY <1>1, <1>3 DEF OpenedIndex, Footer
<1>5. read \in Seq(Items) /\ Len(read) = Len(entries)
  BY <1>1, <1>2
<1>6. \A j \in 1 .. Len(entries) : read[j] = entries[j]
  <2> SUFFICES ASSUME NEW j \in 1 .. Len(entries) PROVE read[j] = entries[j]
    OBVIOUS
  <2>1. read[j] = items[Len(s) + 1 + j - 1] /\ Len(s) + 1 + j - 1 = Len(s) + j
    BY <1>1, <1>2
  <2> QED BY <1>1, <2>1
<1> HIDE DEF read
<1>7. entries \in Seq(Items)
  BY <1>1, SeqMonotonic DEF Items
<1> QED BY <1>4, <1>5, <1>6, <1>7, SeqEqual

\* A part of items is not opened if its last item is no footer: the magic number is
\* read from the end.
LEMMA NoFooterNotOpened ==
    ASSUME NEW items \in Seq(Items),
           \A i \in 1 .. Len(items) - 1 : items[i].kind # "footer",
           NEW part \in PartsOf(items), part # items
    PROVE  OpenedIndex(part) = NotOpen
<1>1. Len(items) \in Nat
  BY LenProperties
<1>2. ASSUME NEW n \in 0 .. Len(items), part = SubSeq(items, 1, n) PROVE ~HasFooter(part)
  <2>1. n # Len(items)
    BY <1>2, SubSeqFull
  <2>2. CASE n = 0
    <3>1. part = <<>>
      BY <1>1, <1>2, <2>2, SubSeqEmpty
    <3> QED BY <3>1 DEF HasFooter
  <2>3. CASE n # 0
    <3>1. n \in 1 .. Len(items) - 1 /\ Len(part) = n /\ part[n] = items[n]
      BY <1>1, <1>2, <2>1, <2>3
    <3> QED BY <3>1 DEF HasFooter
  <2> QED BY <2>2, <2>3
<1>3. ASSUME NEW n \in 0 .. Len(items) - 1, part = Append(SubSeq(items, 1, n), Torn)
      PROVE  ~HasFooter(part)
  <2> DEFINE begun == SubSeq(items, 1, n)
  <2>1. begun \in Seq(Items) /\ Torn \in Items
    BY <1>1 DEF Items
  <2> HIDE DEF begun
  <2>2. part[Len(begun) + 1] = Torn /\ Len(part) = Len(begun) + 1
    BY <1>3, <2>1, AppendProperties DEF begun
  <2> QED BY <2>2 DEF HasFooter, Torn
<1> QED BY <1>2, <1>3 DEF PartsOf, OpenedIndex

\* A crash leaves the whole file, or nothing that opens.
LEMMA PartOfWhole ==
    ASSUME NEW items, NEW entries, NEW s, Whole(items, entries, s), NEW part \in PartsOf(items)
    PROVE  part = items \/ OpenedIndex(part) = NotOpen
<1>1. /\ items \in Seq(Items) /\ entries \in Seq(IndexEntry)
      /\ \A i \in 1 .. Len(s) : items[i] = DataItem(s[i])
      /\ Len(items) = Len(s) + Len(entries) + 1
      /\ \A j \in 1 .. Len(entries) : items[Len(s) + j] = entries[j]
      /\ Len(s) \in Nat
  BY AscendingTypes DEF Whole, TableOf, DataIs, IndexOver
<1>2. Len(items) \in Nat /\ Len(entries) \in Nat
  BY <1>1, LenProperties
<1>3. \A i \in 1 .. Len(items) - 1 : items[i].kind # "footer"
  <2> SUFFICES ASSUME NEW i \in 1 .. Len(items) - 1 PROVE items[i].kind # "footer"
    OBVIOUS
  <2>1. CASE i <= Len(s)
    <3>1. i \in 1 .. Len(s)
      BY <1>1, <2>1
    <3>2. items[i] = DataItem(s[i])
      BY <1>1, <3>1
    <3> QED BY <3>2, DataFields
  <2>2. CASE ~(i <= Len(s))
    <3> DEFINE j == i - Len(s)
    <3>1. j \in 1 .. Len(entries) /\ i = Len(s) + j
      BY <1>1, <1>2, <2>2
    <3> HIDE DEF j
    <3>2. items[i] = entries[j] /\ entries[j] \in IndexEntry
      BY <1>1, <3>1, ElementOfSeq
    <3> QED BY <3>2 DEF IndexEntry
  <2> QED BY <2>1, <2>2
<1> QED BY <1>1, <1>3, NoFooterNotOpened

\* A file of data only is not opened, nor is a part of it.
LEMMA PartOfData ==
    ASSUME NEW items, NEW s, Ascending(s), DataIs(items, Len(items), s), NEW part \in PartsOf(items)
    PROVE  OpenedIndex(part) = NotOpen
<1>1. /\ items \in Seq(Items) /\ Len(items) \in Nat
      /\ \A i \in 1 .. Len(items) : items[i].kind = "data"
  <2>1. items \in Seq(Items) /\ \A i \in 1 .. Len(items) : items[i] = DataItem(s[i])
    BY DEF DataIs
  <2> QED BY <2>1, LenProperties, DataFields
<1>2. CASE part = items
  <2>1. ~HasFooter(items)
    <3>1. items # <<>> => Len(items) \in 1 .. Len(items)
      BY <1>1
    <3> QED BY <1>1, <3>1 DEF HasFooter
  <2> QED BY <1>2, <2>1 DEF OpenedIndex
<1>3. CASE part # items
  BY <1>1, <1>3, NoFooterNotOpened
<1> QED BY <1>2, <1>3

-----------------------------------------------------------------------------
(* The search of a file.                                                   *)

\* Where the i-th pair of block b is among all pairs.
Pos(b, i) == index[b].offset + i

InBlock(b) == 1 .. index[b].size

\* The places of the pairs that are in blocks outside of unreadable.
ReadablePos(unreadable) ==
    {p \in Nat : \E b \in Blocks \ unreadable : \E i \in InBlock(b) : p = Pos(b, i)}

PairsAt(s, places) == {s[p] : p \in places}

\* The blocks hold the pairs one after the other.
LEMMA Positions ==
    ASSUME NEW s, TableOf(file, index, s)
    PROVE  /\ \A b \in Blocks : \A i \in InBlock(b) :
                 /\ i \in Nat /\ b \in Nat /\ index[b].size \in Nat
                 /\ Pos(b, i) \in 1 .. Len(s) /\ file[Pos(b, i)].pair = s[Pos(b, i)]
                 /\ i \in 1 .. Len(file)
           /\ \A a, b \in Blocks : \A i \in InBlock(a), j \in InBlock(b) :
                 /\ Pos(a, i) < Pos(b, j) <=> a < b \/ (a = b /\ i < j)
                 /\ Pos(a, i) = Pos(b, j) <=> a = b /\ i = j
           /\ \A p \in 1 .. Len(s) : \E b \in Blocks : \E i \in InBlock(b) : p = Pos(b, i)
<1>1. /\ DataIs(file, Len(s), s) /\ IndexOver(index, Len(s), s) /\ Len(s) \in Nat
      /\ Len(s) <= Len(file) /\ Len(file) \in Nat
  BY AscendingTypes, LenProperties DEF TableOf, DataIs
<1>2. \A b \in Blocks : /\ b \in Nat /\ index[b].offset \in Nat
                        /\ index[b].size \in Nat /\ index[b].size >= 1
                        /\ EndOf(index[b]) = index[b].offset + index[b].size
                        /\ EndOf(index[b]) \in 1 .. Len(s)
  BY <1>1, EntryTypes DEF Blocks
<1>3. ASSUME NEW b \in Blocks, NEW i \in InBlock(b)
      PROVE  /\ i \in Nat /\ i >= 1 /\ i <= index[b].size
             /\ Pos(b, i) \in 1 .. Len(s) /\ file[Pos(b, i)].pair = s[Pos(b, i)]
             /\ Pos(b, i) <= EndOf(index[b]) /\ index[b].offset < Pos(b, i)
             /\ i \in 1 .. Len(file)
  <2>1. i \in Nat /\ i >= 1 /\ i <= index[b].size
    BY <1>2 DEF InBlock
  <2>2. Pos(b, i) = index[b].offset + i
    BY DEF Pos
  <2>3. /\ Pos(b, i) \in 1 .. Len(s) /\ Pos(b, i) <= EndOf(index[b])
        /\ index[b].offset < Pos(b, i) /\ i <= Len(s)
    <3> DEFINE o == index[b].offset
               z == index[b].size
               e == EndOf(index[b])
               q == Pos(b, i)
    <3>1. o \in Nat /\ z \in Nat /\ e = o + z /\ e \in 1 .. Len(s) /\ q = o + i
      BY <1>2, <2>2
    <3>2. i <= z
      BY <2>1
    <3> HIDE DEF o, z, e, q
    <3>3. q \in 1 .. Len(s) /\ q <= e /\ o < q /\ i <= Len(s)
      BY <1>1, <2>1, <3>1, <3>2
    <3> QED BY <3>3 DEF o, e, q
  <2>4. file[Pos(b, i)].pair = s[Pos(b, i)]
    <3>1. file[Pos(b, i)] = DataItem(s[Pos(b, i)])
      BY <1>1, <2>3 DEF DataIs
    <3> QED BY <3>1, DataFields
  <2> QED BY <1>1, <2>1, <2>3, <2>4
<1>4. ASSUME NEW a \in Blocks, NEW b \in Blocks, a < b,
             NEW i \in InBlock(a), NEW j \in InBlock(b)
      PROVE  Pos(a, i) < Pos(b, j)
  <2>1. EndOf(index[a]) <= index[b].offset
    BY <1>1, <1>4 DEF IndexOver, Blocks
  <2>2. /\ Pos(a, i) <= EndOf(index[a]) /\ index[b].offset < Pos(b, j)
        /\ Pos(a, i) \in Nat /\ Pos(b, j) \in Nat
        /\ EndOf(index[a]) \in Nat /\ index[b].offset \in Nat
    BY <1>2, <1>3
  <2> QED BY <2>1, <2>2
<1>5. ASSUME NEW a \in Blocks, NEW i \in InBlock(a), NEW j \in InBlock(a)
      PROVE  (Pos(a, i) < Pos(a, j) <=> i < j) /\ (Pos(a, i) = Pos(a, j) <=> i = j)
  <2> DEFINE o == index[a].offset
  <2>1. o \in Nat /\ i \in Nat /\ j \in Nat
    BY <1>2, <1>3
  <2>2. Pos(a, i) = o + i /\ Pos(a, j) = o + j
    BY DEF Pos
  <2> HIDE DEF o
  <2> QED BY <2>1, <2>2
<1>6. ASSUME NEW a \in Blocks, NEW b \in Blocks, NEW i \in InBlock(a), NEW j \in InBlock(b)
      PROVE  /\ Pos(a, i) < Pos(b, j) <=> a < b \/ (a = b /\ i < j)
             /\ Pos(a, i) = Pos(b, j) <=> a = b /\ i = j
  <2>1. Pos(a, i) \in Nat /\ Pos(b, j) \in Nat /\ a \in Nat /\ b \in Nat
    BY <1>2, <1>3
  <2>2. CASE a < b
    BY <1>4, <2>1, <2>2
  <2>3. CASE b < a
    BY <1>4, <2>1, <2>3
  <2>4. CASE a = b
    BY <1>5, <2>1, <2>4
  <2> QED BY <2>1, <2>2, <2>3, <2>4
<1>7. ASSUME NEW p \in 1 .. Len(s)
      PROVE  \E b \in Blocks : \E i \in InBlock(b) : p = Pos(b, i)
  <2>1. PICK b \in Blocks : index[b].offset < p /\ p <= EndOf(index[b])
    BY <1>1 DEF IndexOver, Blocks
  <2> DEFINE i == p - index[b].offset
  <2>2. i \in InBlock(b) /\ p = index[b].offset + i
    BY <1>1, <1>2, <2>1 DEF InBlock
  <2> HIDE DEF i
  <2> QED BY <2>2 DEF Pos
<1> QED BY <1>2, <1>3, <1>6, <1>7

\* What reading a block gives.
LEMMA BlockIs ==
    ASSUME NEW s, TableOf(file, index, s), NEW b \in Blocks, NEW unreadable
    PROVE  /\ b \in unreadable => DOMAIN BlockPairs(b, unreadable) = {}
           /\ b \notin unreadable =>
                 /\ DOMAIN BlockPairs(b, unreadable) = InBlock(b)
                 /\ \A i \in InBlock(b) : BlockPairs(b, unreadable)[i] = s[Pos(b, i)]
<1>1. CASE b \in unreadable
  BY <1>1 DEF BlockPairs
<1>2. CASE b \notin unreadable
  <2>1. BlockPairs(b, unreadable) = [i \in InBlock(b) |-> file[Pos(b, i)].pair]
    BY <1>2 DEF BlockPairs, InBlock, Pos
  <2> QED BY <1>2, <2>1, Positions
<1> QED BY <1>1, <1>2

\* Readable places are places of pairs; each is in one block.
LEMMA ReadablePlaces ==
    ASSUME NEW s, TableOf(file, index, s), NEW unreadable
    PROVE  /\ ReadablePos(unreadable) \subseteq 1 .. Len(s)
           /\ \A b \in Blocks : \A i \in InBlock(b) :
                 Pos(b, i) \in ReadablePos(unreadable) <=> b \notin unreadable
           /\ ReadablePos({}) = 1 .. Len(s)
           /\ PairsAt(s, ReadablePos(unreadable)) \subseteq Pair
           /\ OnePairPerKey(PairsAt(s, ReadablePos(unreadable)))
<1>1. Ascending(s)
  BY DEF TableOf
<1>2. ReadablePos(unreadable) \subseteq 1 .. Len(s)
  BY Positions DEF ReadablePos
<1>3. ASSUME NEW b \in Blocks, NEW i \in InBlock(b)
      PROVE  Pos(b, i) \in ReadablePos(unreadable) <=> b \notin unreadable
  <2>1. Pos(b, i) \in Nat
    BY Positions
  <2>2. ASSUME Pos(b, i) \in ReadablePos(unreadable) PROVE b \notin unreadable
    <3>1. PICK a \in Blocks \ unreadable : \E j \in InBlock(a) : Pos(b, i) = Pos(a, j)
      BY <2>2 DEF ReadablePos
    <3> QED BY <3>1, Positions
  <2> QED BY <2>1, <2>2 DEF ReadablePos
<1>4. ReadablePos({}) = 1 .. Len(s)
  <2>1. ReadablePos({}) \subseteq 1 .. Len(s)
    BY Positions DEF ReadablePos
  <2>2. \A p \in 1 .. Len(s) : p \in ReadablePos({})
    BY Positions DEF ReadablePos
  <2> QED BY <2>1, <2>2
<1>5. /\ PairsAt(s, ReadablePos(unreadable)) \subseteq Pair
      /\ OnePairPerKey(PairsAt(s, ReadablePos(unreadable)))
  BY <1>1, <1>2, AscendingTypes DEF PairsAt, OnePairPerKey
<1> QED BY <1>2, <1>3, <1>4, <1>5

\* The block that lower_bound chooses: no pair before it reaches k, and its last does.
LEMMA CandidateIs ==
    ASSUME NEW s, TableOf(file, index, s), NEW k \in Nat
    PROVE  /\ CandidateBlocks(k) = {} => \A p \in 1 .. Len(s) : s[p].key < k
           /\ CandidateBlocks(k) # {} =>
                 LET c == Min(CandidateBlocks(k))
                 IN  /\ c \in Blocks
                     /\ \E i \in InBlock(c) : k <= s[Pos(c, i)].key
                     /\ \A b \in Blocks : \A i \in InBlock(b) : k <= s[Pos(b, i)].key => c <= b
<1>1. Ascending(s) /\ IndexOver(index, Len(s), s) /\ Len(s) \in Nat
  BY AscendingTypes DEF TableOf
<1>2. \A b \in Blocks : /\ b \in Nat /\ index[b].maxKey = s[EndOf(index[b])].key
                        /\ EndOf(index[b]) \in 1 .. Len(s)
                        /\ EndOf(index[b]) = index[b].offset + index[b].size
                        /\ index[b].offset \in Nat /\ index[b].size \in Nat
  BY <1>1, EntryTypes DEF Blocks
<1>3. ASSUME NEW b \in Blocks, NEW i \in InBlock(b), k <= s[Pos(b, i)].key
      PROVE  b \in CandidateBlocks(k)
  <2>1. Pos(b, i) \in 1 .. Len(s) /\ Pos(b, i) <= EndOf(index[b])
    <3>1. Pos(b, i) \in 1 .. Len(s)
      BY Positions
    <3>2. Pos(b, i) = index[b].offset + i /\ i \in Nat /\ i <= index[b].size
      BY <1>2 DEF Pos, InBlock
    <3> QED BY <1>2, <3>1, <3>2
  <2>2. s[Pos(b, i)].key \in Nat /\ s[EndOf(index[b])].key \in Nat
    BY <1>1, <1>2, <2>1, AscendingTypes
  <2>3. s[Pos(b, i)].key <= s[EndOf(index[b])].key
    <3>1. CASE Pos(b, i) = EndOf(index[b])
      BY <2>2, <3>1
    <3>2. CASE Pos(b, i) < EndOf(index[b])
      <4>1. s[Pos(b, i)].key < s[EndOf(index[b])].key
        BY <1>1, <1>2, <2>1, <3>2, AscendingTypes
      <4> QED BY <2>2, <4>1
    <3> QED BY <1>2, <2>1, <3>1, <3>2
  <2>4. index[b].maxKey >= k
    BY <1>2, <1>3, <2>2, <2>3
  <2> QED BY <2>4 DEF CandidateBlocks
<1>4. ASSUME CandidateBlocks(k) = {}, NEW p \in 1 .. Len(s) PROVE s[p].key < k
  <2>1. PICK b \in Blocks : \E i \in InBlock(b) : p = Pos(b, i)
    BY Positions
  <2>2. ~(k <= s[p].key)
    BY <1>3, <1>4, <2>1
  <2>3. s[p].key \in Nat
    BY <1>1, AscendingTypes
  <2> QED BY <2>2, <2>3
<1>5. ASSUME CandidateBlocks(k) # {}
      PROVE  /\ Min(CandidateBlocks(k)) \in CandidateBlocks(k)
             /\ \A b \in CandidateBlocks(k) : Min(CandidateBlocks(k)) <= b
  <2> DEFINE C == CandidateBlocks(k)
  <2>1. C \in SUBSET Nat /\ C \subseteq Blocks
    BY <1>2 DEF CandidateBlocks
  <2>2. PICK m \in C : \A b \in C : m <= b
    <3> HIDE DEF C
    <3>1. C # {}
      BY <1>5 DEF C
    <3> QED BY <2>1, <3>1, LeastExists
  <2>3. Min(C) \in C /\ \A b \in C : Min(C) <= b
    <3> HIDE DEF C
    <3> QED BY <2>2 DEF Min
  <2> QED BY <2>1, <2>3
<1>6. ASSUME NEW b \in CandidateBlocks(k)
      PROVE  b \in Blocks /\ \E i \in InBlock(b) : k <= s[Pos(b, i)].key
  <2>1. b \in Blocks /\ index[b].maxKey >= k
    BY DEF CandidateBlocks
  <2>2. index[b].size \in InBlock(b) /\ Pos(b, index[b].size) = EndOf(index[b])
    BY <1>1, <1>2, <2>1, EntryTypes DEF InBlock, Pos, Blocks
  <2>3. s[EndOf(index[b])].key \in Nat
    BY <1>1, <1>2, <2>1, AscendingTypes
  <2>4. k <= s[Pos(b, index[b].size)].key
    BY <1>2, <2>1, <2>2, <2>3
  <2> QED BY <2>1, <2>2, <2>4
<1> QED BY <1>3, <1>4, <1>5, <1>6

\* get of a file finds what is in its readable blocks: if k is in the file at all, it
\* is in the block that lower_bound chooses.
LEMMA GetReadingIs ==
    ASSUME NEW s, TableOf(file, index, s), NEW k \in Nat, NEW unreadable
    PROVE  GetReading(k, unreadable) = Lookup(PairsAt(s, ReadablePos(unreadable)), k)
<1> DEFINE P == PairsAt(s, ReadablePos(unreadable))
           c == Min(CandidateBlocks(k))
           pairs == BlockPairs(c, unreadable)
           hits == {i \in DOMAIN pairs : /\ pairs[i].key = k
                                         /\ \A j \in 1 .. i - 1 : pairs[j].key <= k}
<1>1. /\ Ascending(s) /\ Len(s) \in Nat
      /\ \A p \in 1 .. Len(s) : s[p] \in Pair /\ s[p].key \in Nat
      /\ \A p, q \in 1 .. Len(s) : s[p].key < s[q].key <=> p < q
      /\ \A p, q \in 1 .. Len(s) : s[p].key = s[q].key <=> p = q
  BY AscendingTypes DEF TableOf
<1>2. OnePairPerKey(P) /\ ReadablePos(unreadable) \subseteq 1 .. Len(s)
  BY ReadablePlaces
<1>3. GetReading(k, unreadable) =
         IF CandidateBlocks(k) = {} THEN Absent
         ELSE IF hits = {} THEN Absent ELSE pairs[Min(hits)].entry
  BY DEF GetReading
<1>4. CASE CandidateBlocks(k) = {}
  <2>1. \A p \in 1 .. Len(s) : s[p].key # k
    BY <1>1, <1>4, CandidateIs
  <2>2. \A q \in P : q.key # k
    BY <1>2, <2>1 DEF PairsAt
  <2> QED BY <1>2, <1>3, <1>4, <2>2, LookupFinds
<1>5. CASE CandidateBlocks(k) # {}
  <2>1. /\ c \in Blocks
        /\ \E i \in InBlock(c) : k <= s[Pos(c, i)].key
        /\ \A b \in Blocks : \A i \in InBlock(b) : k <= s[Pos(b, i)].key => c <= b
    BY <1>5, CandidateIs
  <2> HIDE DEF c
  <2>2. ASSUME NEW b \in Blocks, NEW i \in InBlock(b), s[Pos(b, i)].key = k PROVE b = c
    <3>1. PICK j \in InBlock(c) : k <= s[Pos(c, j)].key
      BY <2>1
    <3>2. Pos(b, i) \in 1 .. Len(s) /\ Pos(c, j) \in 1 .. Len(s) /\ b \in Nat /\ c \in Nat
      BY <2>1, Positions
    <3>3. ~(s[Pos(c, j)].key < s[Pos(b, i)].key)
      BY <1>1, <2>2, <3>1, <3>2
    <3>4. ~(Pos(c, j) < Pos(b, i))
      BY <1>1, <3>2, <3>3
    <3>5. ~(c < b)
      BY <2>1, <3>4, Positions
    <3>6. c <= b
      BY <2>1, <2>2
    <3> QED BY <3>2, <3>5, <3>6
  <2>3. CASE c \in unreadable
    <3>1. DOMAIN pairs = {}
      BY <2>1, <2>3, BlockIs
    <3>2. \A q \in P : q.key # k
      <4> SUFFICES ASSUME NEW p \in ReadablePos(unreadable) PROVE s[p].key # k
        BY DEF PairsAt
      <4>1. PICK b \in Blocks \ unreadable : \E i \in InBlock(b) : p = Pos(b, i)
        BY DEF ReadablePos
      <4> QED BY <2>2, <2>3, <4>1
    <3>3. hits = {}
      BY <3>1
    <3> QED BY <1>2, <1>3, <1>5, <3>2, <3>3, LookupFinds
  <2>4. CASE c \notin unreadable
    <3>1. DOMAIN pairs = InBlock(c) /\ \A i \in InBlock(c) : pairs[i] = s[Pos(c, i)]
      BY <2>1, <2>4, BlockIs
    <3>2. \A i \in InBlock(c) : Pos(c, i) \in 1 .. Len(s) /\ i \in Nat /\ index[c].size \in Nat
      BY <2>1, Positions
    <3> HIDE DEF pairs
    <3>3. CASE \E i \in InBlock(c) : s[Pos(c, i)].key = k
      <4>1. PICK i \in InBlock(c) : s[Pos(c, i)].key = k
        BY <3>3
      <4>2. \A j \in 1 .. i - 1 : pairs[j].key <= k
        <5> SUFFICES ASSUME NEW j \in 1 .. i - 1 PROVE pairs[j].key <= k
          OBVIOUS
        <5>1. j \in InBlock(c) /\ j < i
          BY <3>2 DEF InBlock
        <5>2. Pos(c, j) < Pos(c, i)
          BY <2>1, <5>1, Positions
        <5>3. s[Pos(c, j)].key < k /\ s[Pos(c, j)].key \in Nat
          BY <1>1, <3>2, <4>1, <5>1, <5>2
        <5> QED BY <3>1, <5>1, <5>3
      <4>3. i \in hits
        BY <3>1, <4>1, <4>2
      <4>4. \A j \in hits : j = i
        <5> SUFFICES ASSUME NEW j \in hits PROVE j = i
          OBVIOUS
        <5>1. j \in InBlock(c) /\ s[Pos(c, j)].key = s[Pos(c, i)].key
          BY <3>1, <4>1
        <5>2. Pos(c, j) = Pos(c, i)
          BY <1>1, <3>2, <5>1
        <5> QED BY <2>1, <5>1, <5>2, Positions
      <4>5. hits = {i} /\ i \in Nat
        BY <3>2, <4>3, <4>4
      <4> HIDE DEF hits
      <4>6. Min(hits) = i
        BY <4>5 DEF Min
      <4>7. GetReading(k, unreadable) = s[Pos(c, i)].entry
        BY <1>3, <1>5, <3>1, <4>3, <4>6
      <4>8. s[Pos(c, i)] \in P
        BY <2>1, <2>4, ReadablePlaces DEF PairsAt
      <4> HIDE DEF P
      <4> QED BY <1>2, <4>1, <4>7, <4>8, LookupFinds DEF P
    <3>4. CASE ~\E i \in InBlock(c) : s[Pos(c, i)].key = k
      <4>1. hits = {}
        BY <3>1, <3>4
      <4>2. \A q \in P : q.key # k
        <5> SUFFICES ASSUME NEW p \in ReadablePos(unreadable), s[p].key = k PROVE FALSE
          BY DEF PairsAt
        <5>1. PICK b \in Blocks : \E i \in InBlock(b) : p = Pos(b, i)
          BY DEF ReadablePos
        <5> QED BY <2>2, <3>4, <5>1
      <4> QED BY <1>2, <1>3, <1>5, <4>1, <4>2, LookupFinds
    <3> QED BY <3>3, <3>4
  <2> QED BY <2>3, <2>4
<1> QED BY <1>4, <1>5

\* The pairs that are not lost are those of the readable blocks.
LEMMA ReadablePairsAre ==
    ASSUME NEW s, TableOf(file, index, s), saved = ToSet(s), bad \subseteq Blocks
    PROVE  ReadablePairs = PairsAt(s, ReadablePos(bad))
<1>1. /\ Ascending(s) /\ Len(s) \in Nat /\ DOMAIN s = 1 .. Len(s)
      /\ \A p, q \in 1 .. Len(s) : s[p].key = s[q].key <=> p = q
  BY AscendingTypes DEF TableOf
<1>2. ASSUME NEW p \in 1 .. Len(s)
      PROVE  s[p] \in BadPairs <=> p \notin ReadablePos(bad)
  <2>1. PICK b \in Blocks : \E i \in InBlock(b) : p = Pos(b, i)
    BY Positions
  <2>2. PICK i \in InBlock(b) : p = Pos(b, i)
    BY <2>1
  <2>3. p \in ReadablePos(bad) <=> b \notin bad
    BY <2>2, ReadablePlaces
  <2>4. ASSUME b \in bad PROVE s[p] \in BadPairs
    <3> DEFINE q == <<b, i>>
    <3>1. i \in 1 .. Len(file) /\ i <= index[b].size /\ file[index[b].offset + i].pair = s[p]
      BY <2>2, Positions DEF Pos, InBlock
    <3>2. q \in bad \X (1 .. Len(file)) /\ q[1] = b /\ q[2] = i
      BY <2>4, <3>1
    <3> HIDE DEF q
    <3> QED BY <3>1, <3>2 DEF BadPairs
  <2>5. ASSUME s[p] \in BadPairs PROVE b \in bad
    <3>1. PICK q \in bad \X (1 .. Len(file)) :
             q[2] <= index[q[1]].size /\ s[p] = file[index[q[1]].offset + q[2]].pair
      BY <2>5 DEF BadPairs
    <3> DEFINE a == q[1]
               j == q[2]
    <3>2. a \in bad /\ j \in 1 .. Len(file) /\ j <= index[a].size /\ s[p] = file[index[a].offset + j].pair
      BY <3>1
    <3> HIDE DEF a, j
    <3>3. a \in Blocks /\ j \in InBlock(a)
      <4>1. a \in Blocks
        BY <3>2
      <4>2. index[a].size \in Nat
        BY <1>1, <4>1, EntryTypes DEF TableOf, Blocks
      <4> QED BY <3>2, <4>1, <4>2 DEF InBlock
    <3>4. p = Pos(a, j)
      <4>1. Pos(a, j) \in 1 .. Len(s) /\ file[Pos(a, j)].pair = s[Pos(a, j)]
        BY <3>3, Positions
      <4>2. s[p] = s[Pos(a, j)]
        BY <3>2, <4>1 DEF Pos
      <4> QED BY <1>1, <4>1, <4>2
    <3>5. a = b
      <4>1. Pos(a, j) = Pos(b, i)
        BY <2>2, <3>4
      <4>2. Pos(a, j) = Pos(b, i) <=> a = b /\ j = i
        BY <2>2, <3>3, Positions
      <4> QED BY <4>1, <4>2
    <3> QED BY <3>2, <3>5
  <2> QED BY <2>3, <2>4, <2>5
<1>3. ReadablePos(bad) \subseteq 1 .. Len(s)
  BY ReadablePlaces
<1>4. saved = {s[p] : p \in 1 .. Len(s)}
  BY <1>1 DEF ToSet
<1> QED BY <1>2, <1>3, <1>4 DEF ReadablePairs, PairsAt

-----------------------------------------------------------------------------
(* The iterator.                                                           *)

Cursors == [valid : BOOLEAN, block : Nat, offset : Nat, pair : Pair \cup {{}}]

\* Places in readable blocks, and the positions they stand for.
Proper(places) ==
    /\ places \subseteq Blocks \X (1 .. Len(file))
    /\ \A q \in places : q[1] \in Blocks \ bad /\ q[2] \in InBlock(q[1])

PosOf(places) == {Pos(q[1], q[2]) : q \in places}

\* The cursor shows pair i of block b.
PointsAt(c, b, i, s) ==
    /\ b \in Blocks \ bad /\ i \in InBlock(b)
    /\ c.valid = TRUE /\ c.block = b /\ c.offset = i /\ c.pair = s[Pos(b, i)]

\* It shows the first of these positions, or nothing if there is none.
ShowsFirst(c, Q, s) ==
    /\ c \in Cursors
    /\ Q = {} => c.valid = FALSE
    /\ Q # {} => \E b, i : /\ PointsAt(c, b, i, s) /\ Pos(b, i) \in Q
                           /\ \A q \in Q : Pos(b, i) <= q

\* ParseNextEntry goes to the first place, in the order of the file.
LEMMA ParsedAtFirst ==
    ASSUME NEW s, TableOf(file, index, s), cursor \in Cursors, NEW places, Proper(places)
    PROVE  ShowsFirst(ParsedAt(places), PosOf(places), s)
<1>1. CASE places = {}
  <2>1. PosOf(places) = {}
    BY <1>1 DEF PosOf
  <2>2. ParsedAt(places) = [cursor EXCEPT !.valid = FALSE]
    BY <1>1 DEF ParsedAt, Invalid
  <2>3. ParsedAt(places) \in Cursors /\ ParsedAt(places).valid = FALSE
    BY <2>2 DEF Cursors
  <2> QED BY <2>1, <2>3 DEF ShowsFirst
<1>2. CASE places # {}
  <2> DEFINE Q == PosOf(places)
  <2>1. \A q \in places : /\ q[1] \in Blocks \ bad /\ q[2] \in InBlock(q[1])
                          /\ q = <<q[1], q[2]>> /\ q[1] \in Nat /\ q[2] \in Nat
                          /\ Pos(q[1], q[2]) \in 1 .. Len(s)
    BY Positions DEF Proper
  <2>2. Q \in SUBSET Nat /\ Q # {}
    BY <1>2, <2>1 DEF PosOf
  <2>3. PICK m \in Q : \A q \in Q : m <= q
    <3> HIDE DEF Q
    <3> QED BY <2>2, LeastExists
  <2>4. PICK p \in places : m = Pos(p[1], p[2])
    BY DEF PosOf
  <2>5. \A q \in places : Pos(p[1], p[2]) <= Pos(q[1], q[2])
    BY <2>3, <2>4 DEF PosOf
  <2>6. \A q, r \in places : (r[1] < q[1] \/ (r[1] = q[1] /\ r[2] <= q[2]))
                                <=> Pos(r[1], r[2]) <= Pos(q[1], q[2])
    <3> SUFFICES ASSUME NEW q \in places, NEW r \in places
                 PROVE (r[1] < q[1] \/ (r[1] = q[1] /\ r[2] <= q[2]))
                                <=> Pos(r[1], r[2]) <= Pos(q[1], q[2])
      OBVIOUS
    <3> DEFINE a == r[1]
               i == r[2]
               b == q[1]
               j == q[2]
    <3>1. a \in Blocks /\ i \in InBlock(a) /\ b \in Blocks /\ j \in InBlock(b)
      BY <2>1
    <3>2. /\ a \in Nat /\ i \in Nat /\ b \in Nat /\ j \in Nat
          /\ Pos(a, i) \in Nat /\ Pos(b, j) \in Nat
      BY <2>1
    <3> HIDE DEF a, b, i, j
    <3>3. /\ Pos(a, i) < Pos(b, j) <=> a < b \/ (a = b /\ i < j)
          /\ Pos(a, i) = Pos(b, j) <=> a = b /\ i = j
      BY <3>1, Positions
    <3>4. (a < b \/ (a = b /\ i <= j)) <=> Pos(a, i) <= Pos(b, j)
      BY <3>2, <3>3
    <3> QED BY <3>4 DEF a, b, i, j
  <2>7. First(places) \in places
        /\ \A q \in places : First(places)[1] < q[1] \/ (First(places)[1] = q[1] /\ First(places)[2] <= q[2])
    <3>1. \A q \in places : p[1] < q[1] \/ (p[1] = q[1] /\ p[2] <= q[2])
      BY <2>5, <2>6
    <3> QED BY <3>1 DEF First
  <2> DEFINE f == First(places)
             b == f[1]
             i == f[2]
             c == ParsedAt(places)
  <2>8. b \in Blocks \ bad /\ i \in InBlock(b) /\ b \in Nat /\ i \in Nat /\ Pos(b, i) \in 1 .. Len(s)
    BY <2>1, <2>7
  <2>9. Pos(b, i) \in Q /\ \A q \in Q : Pos(b, i) <= q
    BY <2>6, <2>7 DEF PosOf
  <2>10. c = [valid |-> TRUE, block |-> b, offset |-> i, pair |-> BlockPairs(b, bad)[i]]
    BY <1>2 DEF ParsedAt
  <2> HIDE DEF b, i, c
  <2>11. BlockPairs(b, bad)[i] = s[Pos(b, i)] /\ s[Pos(b, i)] \in Pair
    <3>1. BlockPairs(b, bad)[i] = s[Pos(b, i)]
      BY <2>8, BlockIs
    <3> QED BY <2>8, <3>1, AscendingTypes DEF TableOf
  <2>12. PointsAt(c, b, i, s) /\ c \in Cursors
    BY <2>8, <2>10, <2>11 DEF PointsAt, Cursors
  <2> QED BY <2>2, <2>9, <2>12 DEF ShowsFirst, c
<1> QED BY <1>1, <1>2

\* The places a cursor looks at, as positions: all readable ones after it.
LEMMA PlacesAre ==
    ASSUME NEW s, TableOf(file, index, s), NEW block \in Nat, NEW offset \in Nat
    PROVE  /\ Proper(Places(block, offset))
           /\ \A b \in Blocks : \A i \in InBlock(b) :
                 (b \notin bad /\ (b > block \/ (b = block /\ i > offset)))
                    => <<b, i>> \in Places(block, offset)
           /\ \A q \in Places(block, offset) : q[1] > block \/ (q[1] = block /\ q[2] > offset)
<1>1. \A q \in Places(block, offset) : /\ q \in Blocks \X (1 .. Len(file))
                                       /\ q[2] \in DOMAIN BlockPairs(q[1], bad)
                                       /\ q[1] > block \/ (q[1] = block /\ q[2] > offset)
  BY DEF Places
<1>2. ASSUME NEW q \in Places(block, offset) PROVE q[1] \in Blocks \ bad /\ q[2] \in InBlock(q[1])
  <2>1. q[1] \in Blocks /\ q[2] \in DOMAIN BlockPairs(q[1], bad)
    BY <1>1
  <2>2. q[1] \notin bad
    BY <2>1, BlockIs
  <2> QED BY <2>1, <2>2, BlockIs
<1>3. Proper(Places(block, offset))
  BY <1>1, <1>2 DEF Proper
<1>4. ASSUME NEW b \in Blocks, NEW i \in InBlock(b), b \notin bad, b > block \/ (b = block /\ i > offset)
      PROVE  <<b, i>> \in Places(block, offset)
  <2>1. i \in 1 .. Len(file) /\ DOMAIN BlockPairs(b, bad) = InBlock(b)
    BY <1>4, Positions, BlockIs
  <2> QED BY <1>4, <2>1 DEF Places
<1> QED BY <1>1, <1>3, <1>4

\* Behind a place: the readable positions behind its own.
LEMMA PlacesBehind ==
    ASSUME NEW s, TableOf(file, index, s), NEW b \in Blocks, NEW i \in InBlock(b)
    PROVE  /\ Proper(Places(b, i))
           /\ PosOf(Places(b, i)) = {p \in ReadablePos(bad) : p > Pos(b, i)}
<1>0. b \in Nat /\ i \in Nat /\ Pos(b, i) \in Nat
  BY Positions
<1>1. /\ Proper(Places(b, i))
      /\ \A a \in Blocks : \A j \in InBlock(a) :
            (a \notin bad /\ (a > b \/ (a = b /\ j > i))) => <<a, j>> \in Places(b, i)
      /\ \A q \in Places(b, i) : q[1] > b \/ (q[1] = b /\ q[2] > i)
  BY <1>0, PlacesAre
<1>2. ASSUME NEW a \in Blocks, NEW j \in InBlock(a)
      PROVE  Pos(a, j) > Pos(b, i) <=> a > b \/ (a = b /\ j > i)
  <2>1. a \in Nat /\ j \in Nat /\ Pos(a, j) \in Nat
    BY Positions
  <2>2. Pos(b, i) < Pos(a, j) <=> b < a \/ (b = a /\ i < j)
    BY Positions
  <2> QED BY <1>0, <2>1, <2>2
<1>3. ASSUME NEW q \in Places(b, i) PROVE Pos(q[1], q[2]) \in ReadablePos(bad) /\ Pos(q[1], q[2]) > Pos(b, i)
  <2>1. q[1] \in Blocks /\ q[1] \notin bad /\ q[2] \in InBlock(q[1])
    BY <1>1 DEF Proper
  <2> QED BY <1>1, <1>2, <2>1, ReadablePlaces
<1>4. ASSUME NEW p \in ReadablePos(bad), p > Pos(b, i) PROVE p \in PosOf(Places(b, i))
  <2>1. PICK a \in Blocks \ bad : \E j \in InBlock(a) : p = Pos(a, j)
    BY DEF ReadablePos
  <2>2. PICK j \in InBlock(a) : p = Pos(a, j)
    BY <2>1
  <2> DEFINE q == <<a, j>>
  <2>3. q \in Places(b, i) /\ q[1] = a /\ q[2] = j
    BY <1>1, <1>2, <1>4, <2>2
  <2> HIDE DEF q
  <2> QED BY <2>2, <2>3 DEF PosOf
<1>5. \A p \in PosOf(Places(b, i)) : p \in ReadablePos(bad) /\ p > Pos(b, i)
  BY <1>3 DEF PosOf
<1> QED BY <1>1, <1>4, <1>5

\* From the beginning of block c on: those of c and of the blocks behind it.
LEMMA PlacesFrom ==
    ASSUME NEW s, TableOf(file, index, s), NEW c \in Nat
    PROVE  /\ Proper(Places(c, 0))
           /\ \A q \in Places(c, 0) : q[1] >= c
           /\ \A b \in Blocks : \A i \in InBlock(b) :
                 b \notin bad /\ b >= c => <<b, i>> \in Places(c, 0)
<1>1. /\ Proper(Places(c, 0))
      /\ \A b \in Blocks : \A i \in InBlock(b) :
            (b \notin bad /\ (b > c \/ (b = c /\ i > 0))) => <<b, i>> \in Places(c, 0)
      /\ \A q \in Places(c, 0) : q[1] > c \/ (q[1] = c /\ q[2] > 0)
  BY PlacesAre
<1>2. \A q \in Places(c, 0) : q[1] >= c
  <2> SUFFICES ASSUME NEW q \in Places(c, 0) PROVE q[1] >= c
    OBVIOUS
  <2>1. q[1] \in Nat
    <3>1. q[1] \in Blocks /\ q[2] \in InBlock(q[1])
      BY <1>1 DEF Proper
    <3> QED BY <3>1, Positions
  <2> QED BY <1>1, <2>1
<1>3. ASSUME NEW b \in Blocks, NEW i \in InBlock(b), b \notin bad, b >= c
      PROVE  <<b, i>> \in Places(c, 0)
  <2>1. b \in Nat /\ i > 0
    BY Positions DEF InBlock
  <2> QED BY <1>1, <1>3, <2>1
<1> QED BY <1>1, <1>2, <1>3

\* The scan so far: it has shown, in order, the pairs at places from its lower bound
\* on up to the one of its cursor, or all of them.
ScanShows(low, c, shown, s, places) ==
    /\ c \in Cursors /\ shown \in Seq(Pair) /\ low \in Nat
    /\ c.valid = TRUE =>
          /\ \E b, i : PointsAt(c, b, i, s)
          /\ low <= c.pair.key
          /\ Last(shown) = c.pair
          /\ IsInOrder(shown, UpTo(From(PairsAt(s, places), low), c.pair.key))
    /\ c.valid = FALSE => IsInOrder(shown, From(PairsAt(s, places), low))

\* A cursor on the first pair from the lower bound on begins a scan.
LEMMA ScanStarts ==
    ASSUME NEW s, TableOf(file, index, s), NEW places \in SUBSET (1 .. Len(s)),
           NEW low \in Nat, NEW c, ShowsFirst(c, {q \in places : s[q].key >= low}, s)
    PROVE  ScanShows(low, c, Shown(c), s, places)
<1> DEFINE Q == {q \in places : s[q].key >= low}
           R == From(PairsAt(s, places), low)
<1>1. /\ Len(s) \in Nat
      /\ \A p \in 1 .. Len(s) : s[p] \in Pair /\ s[p].key \in Nat
      /\ \A p, q \in 1 .. Len(s) : s[p].key < s[q].key <=> p < q
      /\ \A p, q \in 1 .. Len(s) : s[p].key = s[q].key <=> p = q
  BY AscendingTypes DEF TableOf
<1>2. c \in Cursors /\ c.valid \in BOOLEAN
  BY DEF ShowsFirst, Cursors
<1>3. R = {s[q] : q \in Q}
  BY DEF From, PairsAt
<1>4. CASE Q = {}
  <2>1. c.valid = FALSE
    BY <1>4 DEF ShowsFirst
  <2>2. R = {} /\ Shown(c) = <<>>
    BY <1>3, <1>4, <2>1 DEF Shown
  <2> HIDE DEF R
  <2> QED BY <1>2, <2>1, <2>2, InOrderEmpty DEF ScanShows, R
<1>5. CASE Q # {}
  <2>1. PICK b, i : PointsAt(c, b, i, s) /\ Pos(b, i) \in Q /\ \A q \in Q : Pos(b, i) <= q
    BY <1>5 DEF ShowsFirst
  <2> DEFINE m == Pos(b, i)
  <2>2. m \in 1 .. Len(s) /\ m \in places /\ s[m].key >= low /\ c.pair = s[m] /\ c.valid = TRUE
    BY <2>1 DEF PointsAt
  <2>3. UpTo(R, s[m].key) = {s[m]}
    <3>1. \A q \in Q : s[q].key <= s[m].key => q = m
      <4> SUFFICES ASSUME NEW q \in Q, s[q].key <= s[m].key PROVE q = m
        OBVIOUS
      <4>1. q \in 1 .. Len(s) /\ m <= q
        BY <2>1
      <4>2. ~(m < q)
        <5>1. ~(s[m].key < s[q].key)
          BY <1>1, <2>2, <4>1
        <5> HIDE DEF m, Q
        <5> QED BY <1>1, <2>2, <4>1, <5>1
      <4> HIDE DEF m, Q
      <4> QED BY <2>2, <4>1, <4>2
    <3>2. m \in Q /\ s[m].key <= s[m].key
      BY <1>1, <2>1, <2>2
    <3> HIDE DEF m, Q, R
    <3> QED BY <1>3, <3>1, <3>2 DEF UpTo
  <2>4. Shown(c) = <<s[m]>> /\ s[m] \in Pair
    BY <1>1, <2>2 DEF Shown
  <2> HIDE DEF m, Q, R
  <2>5. /\ <<s[m]>> \in Seq(Pair) /\ Last(<<s[m]>>) = s[m]
        /\ IsInOrder(<<s[m]>>, {s[m]})
    <3>1. <<>> \o <<s[m]>> = <<s[m]>>
      BY <2>4
    <3>2. /\ <<>> \o <<s[m]>> \in Seq(Pair) /\ Last(<<>> \o <<s[m]>>) = s[m]
          /\ IsInOrder(<<>> \o <<s[m]>>, {} \cup {s[m]})
      BY <2>4, InOrderEmpty, InOrderBehind
    <3> QED BY <3>1, <3>2
  <2>6. low <= c.pair.key
    BY <1>1, <2>2
  <2> QED BY <1>2, <2>1, <2>2, <2>3, <2>4, <2>5, <2>6 DEF ScanShows, R
<1> QED BY <1>4, <1>5

\* A cursor that goes to the next readable pair goes on with it.
LEMMA ScanGoesOn ==
    ASSUME NEW s, TableOf(file, index, s), NEW places \in SUBSET (1 .. Len(s)),
           NEW low, NEW c, NEW shown, ScanShows(low, c, shown, s, places),
           NEW b, NEW i, PointsAt(c, b, i, s),
           NEW d, ShowsFirst(d, {q \in places : q > Pos(b, i)}, s)
    PROVE  ScanShows(low, d, shown \o Shown(d), s, places)
<1> DEFINE m == Pos(b, i)
           Q == {q \in places : q > m}
           R == From(PairsAt(s, places), low)
<1>1. /\ Len(s) \in Nat
      /\ \A p \in 1 .. Len(s) : s[p] \in Pair /\ s[p].key \in Nat
      /\ \A p, q \in 1 .. Len(s) : s[p].key < s[q].key <=> p < q
      /\ \A p, q \in 1 .. Len(s) : s[p].key = s[q].key <=> p = q
  BY AscendingTypes DEF TableOf
<1>2. d \in Cursors /\ d.valid \in BOOLEAN
  BY DEF ShowsFirst, Cursors
<1>3. m \in 1 .. Len(s) /\ c.pair = s[m] /\ c.valid = TRUE
  BY Positions DEF PointsAt
<1>4. /\ low \in Nat /\ shown \in Seq(Pair) /\ low <= s[m].key
      /\ IsInOrder(shown, UpTo(R, s[m].key))
  BY <1>3 DEF ScanShows
<1>5. CASE Q = {}
  <2>1. d.valid = FALSE
    BY <1>5 DEF ShowsFirst
  <2>2. UpTo(R, s[m].key) = R
    <3>1. \A q \in places : s[q].key <= s[m].key
      <4> SUFFICES ASSUME NEW q \in places PROVE s[q].key <= s[m].key
        OBVIOUS
      <4>1. q \in 1 .. Len(s) /\ ~(m < q)
        BY <1>3, <1>5
      <4>2. ~(s[m].key < s[q].key)
        <5> HIDE DEF m
        <5> QED BY <1>1, <1>3, <4>1
      <4> HIDE DEF m
      <4> QED BY <1>1, <1>3, <4>1, <4>2
    <3> HIDE DEF m
    <3> QED BY <3>1 DEF UpTo, From, PairsAt
  <2>3. shown \o Shown(d) = shown
    BY <1>4, <2>1 DEF Shown
  <2> QED BY <1>2, <1>4, <2>1, <2>2, <2>3 DEF ScanShows
<1>6. CASE Q # {}
  <2>1. PICK a, j : PointsAt(d, a, j, s) /\ Pos(a, j) \in Q /\ \A q \in Q : Pos(a, j) <= q
    BY <1>6 DEF ShowsFirst
  <2> DEFINE n == Pos(a, j)
  <2>2. n \in 1 .. Len(s) /\ n \in places /\ m < n /\ d.pair = s[n] /\ d.valid = TRUE
    <3>1. n \in places /\ n > m /\ d.pair = s[n] /\ d.valid = TRUE
      BY <2>1 DEF PointsAt
    <3> HIDE DEF n, m
    <3> QED BY <1>3, <3>1
  <2>3. \A q \in places : q <= m \/ n <= q
    <3> SUFFICES ASSUME NEW q \in places, ~(q <= m) PROVE n <= q
      OBVIOUS
    <3>1. q \in 1 .. Len(s) /\ q > m
      BY <1>3
    <3> QED BY <2>1, <3>1
  <2> HIDE DEF n, m, Q
  <2>4. s[m].key < s[n].key /\ s[m].key \in Nat /\ s[n].key \in Nat /\ s[n] \in Pair
    BY <1>1, <1>3, <2>2
  <2>5. s[n] \in R
    <3>1. s[n].key >= low
      BY <1>4, <2>4
    <3> QED BY <2>2, <3>1 DEF From, PairsAt
  <2>6. UpTo(R, s[n].key) = UpTo(R, s[m].key) \cup {s[n]}
    <3>1. ASSUME NEW q \in places
          PROVE  s[q].key <= s[n].key <=> s[q].key <= s[m].key \/ s[q] = s[n]
      <4>1. q \in 1 .. Len(s) /\ s[q].key \in Nat
        BY <1>1
      <4>2. CASE q <= m
        <5>1. ~(s[m].key < s[q].key)
          BY <1>1, <1>3, <4>1, <4>2
        <5> QED BY <2>4, <4>1, <5>1
      <4>3. CASE q = n
        BY <2>4, <4>3
      <4>4. CASE n <= q /\ q # n
        <5>1. s[n].key < s[q].key
          BY <1>1, <2>2, <4>1, <4>4
        <5> QED BY <2>4, <4>1, <5>1
      <4> QED BY <2>3, <4>2, <4>3, <4>4
    <3>2. \A p \in R : p.key <= s[n].key <=> p.key <= s[m].key \/ p = s[n]
      BY <3>1 DEF From, PairsAt
    <3>3. s[n].key <= s[n].key
      BY <2>4
    <3> HIDE DEF R
    <3> QED BY <2>5, <3>2, <3>3 DEF UpTo
  <2>7. \A p \in UpTo(R, s[m].key) : p.key < s[n].key
    <3>1. \A p \in R : p.key \in Nat
      BY <1>1 DEF From, PairsAt
    <3> HIDE DEF R
    <3> QED BY <2>4, <3>1 DEF UpTo
  <2> HIDE DEF R
  <2>8. /\ shown \o <<s[n]>> \in Seq(Pair) /\ Last(shown \o <<s[n]>>) = s[n]
        /\ IsInOrder(shown \o <<s[n]>>, UpTo(R, s[n].key))
    <3> DEFINE U == UpTo(R, s[m].key)
               p == s[n]
    <3>1. IsInOrder(shown, U) /\ shown \in Seq(Pair) /\ p \in Pair /\ \A q \in U : q.key < p.key
      BY <1>4, <2>4, <2>7
    <3>2. UpTo(R, s[n].key) = U \cup {p}
      BY <2>6
    <3> HIDE DEF U, p
    <3>3. /\ shown \o <<p>> \in Seq(Pair) /\ Last(shown \o <<p>>) = p
          /\ IsInOrder(shown \o <<p>>, U \cup {p})
      BY <3>1, InOrderBehind
    <3> QED BY <3>2, <3>3 DEF p
  <2>9. Shown(d) = <<s[n]>>
    BY <2>2 DEF Shown
  <2>10. low <= d.pair.key
    BY <1>4, <2>2, <2>4
  <2> QED BY <1>2, <1>4, <2>1, <2>2, <2>8, <2>9, <2>10 DEF ScanShows, R
<1> QED BY <1>5, <1>6

\* A new iterator is on the first readable pair.
LEMMA NewCursorShowsFirst ==
    ASSUME NEW s, TableOf(file, index, s), cursor \in Cursors, NewCursor
    PROVE  ShowsFirst(cursor', {q \in ReadablePos(bad) : s[q].key >= 0}, s)
<1> DEFINE places == Places(1, 0)
<1>1. /\ Proper(places)
      /\ \A b \in Blocks : \A i \in InBlock(b) :
            b \notin bad /\ b >= 1 => <<b, i>> \in places
  BY PlacesFrom
<1>2. cursor' = ParsedAt(places)
  BY DEF NewCursor
<1> HIDE DEF places
<1>3. ShowsFirst(cursor', PosOf(places), s)
  BY <1>1, <1>2, ParsedAtFirst
<1>4. \A q \in PosOf(places) : q \in ReadablePos(bad)
  BY <1>1, ReadablePlaces DEF Proper, PosOf
<1>5. ASSUME NEW q \in ReadablePos(bad) PROVE q \in PosOf(places)
  <2>1. PICK b \in Blocks \ bad : \E i \in InBlock(b) : q = Pos(b, i)
    BY DEF ReadablePos
  <2>2. PICK i \in InBlock(b) : q = Pos(b, i)
    BY <2>1
  <2>3. b >= 1
    <3>1. IndexOver(index, Len(s), s) /\ Len(s) \in Nat
      BY AscendingTypes DEF TableOf
    <3> QED BY <3>1, EntryTypes DEF Blocks
  <2> DEFINE p == <<b, i>>
  <2>4. p \in places /\ p[1] = b /\ p[2] = i
    BY <1>1, <2>3
  <2> HIDE DEF p
  <2> QED BY <2>2, <2>4 DEF PosOf
<1>6. \A q \in ReadablePos(bad) : s[q].key >= 0
  <2>1. \A q \in 1 .. Len(s) : s[q].key \in Nat
    BY AscendingTypes DEF TableOf
  <2> QED BY <2>1, ReadablePlaces
<1>7. PosOf(places) = {q \in ReadablePos(bad) : s[q].key >= 0}
  BY <1>4, <1>5, <1>6
<1> QED BY <1>3, <1>7

\* Seek goes to the first readable pair not below its target: in the chosen block, or,
\* if nothing there can be read, in one behind it.
LEMMA SeekShowsFirst ==
    ASSUME NEW s, TableOf(file, index, s), cursor \in Cursors, NEW target \in Nat, Seek(target)
    PROVE  ShowsFirst(cursor', {q \in ReadablePos(bad) : s[q].key >= target}, s)
<1> DEFINE Q == {q \in ReadablePos(bad) : s[q].key >= target}
           c == Min(CandidateBlocks(target))
<1>1. ReadablePos(bad) \subseteq 1 .. Len(s) /\ \A q \in 1 .. Len(s) : s[q].key \in Nat
  BY ReadablePlaces, AscendingTypes DEF TableOf
<1>2. CASE CandidateBlocks(target) = {}
  <2>1. Q = {}
    <3>1. \A p \in 1 .. Len(s) : s[p].key < target
      BY <1>2, CandidateIs
    <3> QED BY <1>1, <3>1
  <2>2. cursor' = [cursor EXCEPT !.valid = FALSE]
    BY <1>2 DEF Seek, Invalid
  <2>3. cursor' \in Cursors /\ cursor'.valid = FALSE
    BY <2>2 DEF Cursors
  <2> HIDE DEF Q
  <2> QED BY <2>1, <2>3 DEF ShowsFirst, Q
<1>3. CASE CandidateBlocks(target) # {}
  <2>1. /\ c \in Blocks
        /\ \A b \in Blocks : \A i \in InBlock(b) : target <= s[Pos(b, i)].key => c <= b
    BY <1>3, CandidateIs
  <2>2. c \in Nat
    <3>1. IndexOver(index, Len(s), s) /\ Len(s) \in Nat
      BY AscendingTypes DEF TableOf
    <3> QED BY <2>1, <3>1, EntryTypes DEF Blocks
  <2> DEFINE all == Places(c, 0)
             places == {p \in all : BlockPairs(p[1], bad)[p[2]].key >= target}
  <2>3. cursor' = ParsedAt(places)
    BY <1>3 DEF Seek
  <2> HIDE DEF c
  <2>4. /\ Proper(all)
        /\ \A b \in Blocks : \A i \in InBlock(b) : b \notin bad /\ b >= c => <<b, i>> \in all
    BY <2>2, PlacesFrom
  <2> HIDE DEF all
  <2>5. Proper(places)
    BY <2>4 DEF Proper
  <2>6. \A b \in Blocks \ bad : \A i \in InBlock(b) : BlockPairs(b, bad)[i] = s[Pos(b, i)]
    BY BlockIs
  <2>7. ASSUME NEW q \in PosOf(places) PROVE q \in Q
    <3>1. PICK p \in places : q = Pos(p[1], p[2])
      BY DEF PosOf
    <3>2. p[1] \in Blocks \ bad /\ p[2] \in InBlock(p[1])
      BY <2>4 DEF Proper
    <3>3. BlockPairs(p[1], bad)[p[2]] = s[q]
      BY <2>6, <3>1, <3>2
    <3>4. q \in ReadablePos(bad)
      BY <3>1, <3>2, ReadablePlaces
    <3> QED BY <3>3, <3>4
  <2>8. ASSUME NEW q \in Q PROVE q \in PosOf(places)
    <3>1. PICK b \in Blocks \ bad : \E i \in InBlock(b) : q = Pos(b, i)
      BY DEF ReadablePos
    <3>2. PICK i \in InBlock(b) : q = Pos(b, i)
      BY <3>1
    <3>3. s[Pos(b, i)].key >= target /\ s[Pos(b, i)].key \in Nat
      BY <1>1, <3>2
    <3>4. c <= b
      BY <2>1, <3>3
    <3>5. b >= c
      BY <3>4
    <3> DEFINE p == <<b, i>>
    <3>6. p \in all /\ p[1] = b /\ p[2] = i
      BY <2>4, <3>5
    <3> HIDE DEF p
    <3>7. p \in places
      BY <2>6, <3>3, <3>6
    <3> HIDE DEF places
    <3> QED BY <3>2, <3>6, <3>7 DEF PosOf
  <2>9. PosOf(places) = Q
    BY <2>7, <2>8
  <2> HIDE DEF places, Q
  <2>10. ShowsFirst(cursor', PosOf(places), s)
    BY <2>3, <2>5, ParsedAtFirst
  <2> QED BY <2>9, <2>10 DEF Q
<1> QED BY <1>2, <1>3

\* Next goes to the readable pair behind the one it is on.
LEMMA NextShowsFirst ==
    ASSUME NEW s, TableOf(file, index, s), cursor \in Cursors,
           NEW b, NEW i, PointsAt(cursor, b, i, s), NextEntry
    PROVE  ShowsFirst(cursor', {q \in ReadablePos(bad) : q > Pos(b, i)}, s)
<1>1. b \in Blocks /\ i \in InBlock(b) /\ cursor.block = b /\ cursor.offset = i
  BY DEF PointsAt
<1>2. cursor' = ParsedAt(Places(b, i))
  BY <1>1 DEF NextEntry
<1>3. /\ Proper(Places(b, i))
      /\ PosOf(Places(b, i)) = {q \in ReadablePos(bad) : q > Pos(b, i)}
  BY <1>1, PlacesBehind
<1> QED BY <1>2, <1>3, ParsedAtFirst

-----------------------------------------------------------------------------
(* The flush: its invariant, phase by phase.                               *)

NotRead == bad = {} /\ cursor = NoCursor /\ lo = NoScan /\ seen = <<>>
NoWork == buffer = <<>> /\ pending = <<>>

Filling == pc = "fill" /\ index = NotOpen /\ NotRead /\ NoWork /\ saved = {}

BeingBuilt ==
    /\ pc = "build" /\ index = NotOpen /\ NotRead
    /\ saved = Contents /\ saved # {}
    /\ \E s : IsInOrder(s, saved) /\ Building(file, buffer, lastKey, written, pending, s)

IsBuilt ==
    /\ pc = "built" /\ index = NotOpen /\ NotRead /\ NoWork
    /\ saved = Contents
    /\ \E s : IsInOrder(s, saved) /\ Whole(file, written, s)

\* The file is whole; it was opened, or could not be.
IsOpened ==
    /\ pc = "opened" /\ NotRead /\ NoWork
    /\ saved = Contents /\ index \in {written, NotOpen}
    /\ \E s : IsInOrder(s, saved) /\ Whole(file, written, s)

\* The end, with nothing that can be opened.
LeftClosed ==
    /\ pc = "done" /\ NotRead /\ NoWork
    /\ Contents = {} /\ saved \subseteq Pair
    /\ index = NotOpen

ScanIs(s) ==
    /\ lo = NoScan => cursor = NoCursor /\ seen = <<>>
    /\ lo # NoScan => ScanShows(lo, cursor, seen, s, ReadablePos(bad))

\* The end, with a file of all that was saved.
LeftOpen ==
    /\ pc = "done" /\ NoWork
    /\ Contents = {} /\ saved \subseteq Pair
    /\ bad \subseteq Blocks
    /\ \E s : IsInOrder(s, saved) /\ TableOf(file, index, s) /\ ScanIs(s)

FlushInv ==
    /\ ListInv
    /\ Filling \/ BeingBuilt \/ IsBuilt \/ IsOpened \/ LeftClosed \/ LeftOpen

\* While the list is left alone, it is the same list.
LEMMA ListStays ==
    ASSUME ListInv, UNCHANGED listVars
    PROVE  ListInv' /\ Contents' = Contents
BY DEF ListInv, Contents, listVars

\* A list that is not empty has something to flush.
LEMMA SomethingToFlush ==
    ASSUME ListInv, count > 0
    PROVE  Contents # {}
<1>1. count = Cardinality(DOMAIN cell)
  BY DEF ListInv
<1>2. DOMAIN cell # {}
  BY <1>1, FS_EmptySet
<1> QED BY <1>2 DEF Contents

\* The pairs in order, and nothing in the file yet.
LEMMA NothingBuilt ==
    ASSUME NEW s \in Seq(Pair), NEW P, IsInOrder(s, P)
    PROVE  Building(<<>>, <<>>, NoKey, <<>>, s, s)
<1>1. Ascending(s)
  BY DEF IsInOrder, Ascending
<1>2. Len(s) \in Nat
  BY LenProperties
<1>3. DataIs(<<>>, Len(<<>>), s)
  BY <1>2 DEF DataIs
<1>4. IndexOver(<<>>, Len(<<>>), s)
  BY DEF IndexOver
<1> QED BY <1>1, <1>2, <1>3, <1>4 DEF Building

\* Everything begins empty.
LEMMA FlushStarts ==
    ASSUME Init
    PROVE  FlushInv
BY ListStarts DEF Init, FileInit, FlushInv, Filling, NotRead, NoWork

\* put and erase change the list only.
LEMMA ChangeKeeps ==
    ASSUME FlushInv, Change
    PROVE  FlushInv'
<1>1. pc = "fill" /\ Filling /\ ListInv
  BY DEF FlushInv, Change, Filling, BeingBuilt, IsBuilt, IsOpened, LeftClosed, LeftOpen
<1>2. UNCHANGED <<fileVars, pc, pending, saved, lo, seen>>
  BY DEF Change
<1>3. Filling'
  BY <1>1, <1>2 DEF Filling, NotRead, NoWork, fileVars, builderVars, readerVars
<1>4. ListInv'
  BY <1>1, PutKeeps, EraseKeeps DEF Change
<1> QED BY <1>3, <1>4 DEF FlushInv

\* The copy of the list is all that there is to write.
LEMMA BeginFlushKeeps ==
    ASSUME FlushInv, BeginFlush
    PROVE  FlushInv'
<1>1. pc = "fill" /\ Filling /\ ListInv
  BY DEF FlushInv, BeginFlush, Filling, BeingBuilt, IsBuilt, IsOpened, LeftClosed, LeftOpen
<1>2. ListInv' /\ Contents' = Contents
  BY <1>1, ListStays DEF BeginFlush
<1>3. /\ file' = <<>> /\ buffer' = <<>> /\ lastKey' = NoKey /\ written' = <<>>
      /\ pending' = DumpAll /\ saved' = Contents /\ pc' = "build"
      /\ index' = index /\ bad' = bad /\ cursor' = cursor /\ lo' = lo /\ seen' = seen
  BY DEF BeginFlush, NewBuilder, readerVars
<1>4. Contents # {}
  BY <1>1, SomethingToFlush DEF BeginFlush
<1>5. DumpAll \in Seq(Pair) /\ IsInOrder(DumpAll, Contents)
  BY <1>1, CopiesInOrder
<1> DEFINE s == DumpAll
<1>6. IsInOrder(s, saved') /\ Building(file', buffer', lastKey', written', pending', s)
  BY <1>3, <1>5, NothingBuilt
<1>7. (index = NotOpen)' /\ NotRead'
  BY <1>1, <1>3 DEF Filling, NotRead
<1> HIDE DEF s
<1>8. BeingBuilt'
  BY <1>2, <1>3, <1>4, <1>6, <1>7 DEF BeingBuilt
<1> QED BY <1>2, <1>8 DEF FlushInv

\* A pair more goes to the builder.
LEMMA AddNextKeeps ==
    ASSUME FlushInv, AddNext
    PROVE  FlushInv'
<1>1. pc = "build" /\ BeingBuilt /\ ListInv
  BY DEF FlushInv, AddNext, Filling, BeingBuilt, IsBuilt, IsOpened, LeftClosed, LeftOpen
<1>2. ListInv' /\ Contents' = Contents
  BY <1>1, ListStays DEF AddNext
<1>3. /\ pending # <<>> /\ Add(pending[1]) /\ pending' = Tail(pending)
      /\ saved' = saved /\ pc' = pc
      /\ index' = index /\ bad' = bad /\ cursor' = cursor /\ lo' = lo /\ seen' = seen
  BY DEF AddNext, readerVars
<1>4. PICK s : IsInOrder(s, saved) /\ Building(file, buffer, lastKey, written, pending, s)
  BY <1>1 DEF BeingBuilt
<1>5. Building(file', buffer', lastKey', written', pending', s)
  BY <1>3, <1>4, AddKeeps
<1>6. (index = NotOpen)' /\ NotRead' /\ saved' = Contents' /\ saved' # {} /\ pc' = "build"
  BY <1>1, <1>2, <1>3 DEF BeingBuilt, NotRead
<1>7. BeingBuilt'
  BY <1>3, <1>4, <1>5, <1>6 DEF BeingBuilt
<1> QED BY <1>2, <1>7 DEF FlushInv

\* The file is whole when it is closed.
LEMMA FinishFileKeeps ==
    ASSUME FlushInv, FinishFile
    PROVE  FlushInv'
<1>1. pc = "build" /\ BeingBuilt /\ ListInv
  BY DEF FlushInv, FinishFile, Filling, BeingBuilt, IsBuilt, IsOpened, LeftClosed, LeftOpen
<1>2. ListInv' /\ Contents' = Contents
  BY <1>1, ListStays DEF FinishFile
<1>3. /\ pending = <<>> /\ pending' = <<>> /\ buffer' = <<>>
      /\ file' = Finished.file /\ written' = Finished.written
      /\ saved' = saved /\ pc' = "built"
      /\ index' = index /\ bad' = bad /\ cursor' = cursor /\ lo' = lo /\ seen' = seen
  BY DEF FinishFile, Finish, readerVars
<1>4. PICK s : IsInOrder(s, saved) /\ Building(file, buffer, lastKey, written, pending, s)
  BY <1>1 DEF BeingBuilt
<1>5. s # <<>>
  BY <1>1, <1>4 DEF BeingBuilt, IsInOrder, ToSet
<1>6. Whole(file', written', s)
  BY <1>3, <1>4, <1>5, FinishedIsWhole
<1>7. (index = NotOpen)' /\ NotRead' /\ NoWork' /\ saved' = Contents'
  BY <1>1, <1>2, <1>3 DEF BeingBuilt, NotRead, NoWork
<1>8. IsBuilt'
  BY <1>3, <1>4, <1>6, <1>7 DEF IsBuilt
<1> QED BY <1>2, <1>8 DEF FlushInv

\* The reader, if there is one, has the index of the whole file.
LEMMA OpenFileKeeps ==
    ASSUME FlushInv, OpenFile
    PROVE  FlushInv'
<1>1. pc = "built" /\ IsBuilt /\ ListInv
  BY DEF FlushInv, OpenFile, Filling, BeingBuilt, IsBuilt, IsOpened, LeftClosed, LeftOpen
<1>2. ListInv' /\ Contents' = Contents
  BY <1>1, ListStays DEF OpenFile
<1>3. /\ file' = file /\ buffer' = buffer /\ pending' = pending /\ written' = written
      /\ index' \in {OpenedIndex(file), NotOpen}
      /\ saved' = saved /\ pc' = "opened"
      /\ bad' = bad /\ cursor' = cursor /\ lo' = lo /\ seen' = seen
  BY DEF OpenFile, builderVars
<1>4. PICK s : IsInOrder(s, saved) /\ Whole(file, written, s)
  BY <1>1 DEF IsBuilt
<1>5. IsInOrder(s, saved') /\ Whole(file', written', s) /\ index' \in {written', NotOpen}
  BY <1>3, <1>4, OpenedWhole
<1>6. NotRead' /\ NoWork' /\ saved' = Contents'
  BY <1>1, <1>2, <1>3 DEF IsBuilt, NotRead, NoWork
<1>7. IsOpened'
  BY <1>3, <1>5, <1>6 DEF IsOpened
<1> QED BY <1>2, <1>7 DEF FlushInv

\* What was flushed and opened, and was not read yet.
LEMMA OpenIsLeft ==
    ASSUME ListInv', Contents' = {}, NotRead', NoWork', pc' = "done",
           saved' \subseteq Pair, NEW s, IsInOrder(s, saved'), TableOf(file', index', s)
    PROVE  FlushInv'
<1>1. ScanIs(s)' /\ (bad \subseteq Blocks)'
  BY DEF NotRead, ScanIs
<1>2. LeftOpen'
  BY <1>1 DEF LeftOpen
<1> QED BY <1>2 DEF FlushInv

\* The list goes behind the file, open or not.
LEMMA ClearMemTableKeeps ==
    ASSUME FlushInv, ClearMemTable
    PROVE  FlushInv'
<1>1. pc = "opened" /\ IsOpened /\ ListInv
  BY DEF FlushInv, ClearMemTable, Filling, BeingBuilt, IsBuilt, IsOpened, LeftClosed, LeftOpen
<1>2. ListInv' /\ Contents' = {}
  BY ClearKeeps DEF ClearMemTable
<1>3. UNCHANGED <<fileVars, pending, saved, lo, seen>> /\ pc' = "done"
  BY DEF ClearMemTable
<1>4. PICK s : IsInOrder(s, saved) /\ Whole(file, written, s)
  BY <1>1 DEF IsOpened
<1>5. NotRead' /\ NoWork'
  BY <1>1, <1>3 DEF IsOpened, NotRead, NoWork, fileVars, builderVars, readerVars
<1>6. saved' \subseteq Pair
  BY <1>1, <1>3, ContentsTyped DEF IsOpened
<1>7. CASE index = written
  <2>1. IsInOrder(s, saved') /\ TableOf(file', index', s)
    BY <1>3, <1>4, <1>7 DEF Whole, fileVars, builderVars, readerVars
  <2> QED BY <1>2, <1>3, <1>5, <1>6, <2>1, OpenIsLeft
<1>8. CASE index = NotOpen
  <2>1. LeftClosed'
    BY <1>2, <1>3, <1>5, <1>6, <1>8 DEF LeftClosed, fileVars, readerVars
  <2> QED BY <1>2, <2>1 DEF FlushInv
<1> QED BY <1>1, <1>7, <1>8 DEF IsOpened

\* A crash leaves the whole file or none that opens.
LEMMA CrashKeeps ==
    ASSUME FlushInv, CrashAndRestart
    PROVE  FlushInv'
<1>1. ListInv /\ (BeingBuilt \/ IsBuilt \/ IsOpened)
  BY DEF FlushInv, CrashAndRestart, Filling, LeftClosed, LeftOpen
<1>2. ListInv' /\ Contents' = {}
  BY ClearKeeps DEF CrashAndRestart
<1>3. /\ file' \in FilesAfterCrash /\ index' = OpenedIndex(file')
      /\ buffer' = <<>> /\ pending' = <<>> /\ pc' = "done"
      /\ bad' = bad /\ cursor' = cursor /\ saved' = saved /\ lo' = lo /\ seen' = seen
  BY DEF CrashAndRestart
<1>4. NotRead' /\ NoWork' /\ saved' \subseteq Pair
  BY <1>1, <1>3, ContentsTyped DEF BeingBuilt, IsBuilt, IsOpened, NotRead, NoWork
<1>5. ASSUME (index = NotOpen)' PROVE FlushInv'
  <2>1. LeftClosed'
    BY <1>2, <1>3, <1>4, <1>5 DEF LeftClosed
  <2> QED BY <1>2, <2>1 DEF FlushInv
<1>6. ASSUME NEW s, IsInOrder(s, saved), NEW entries, Whole(file', entries, s) PROVE FlushInv'
  <2>1. index' = entries
    BY <1>3, <1>6, OpenedWhole
  <2>2. IsInOrder(s, saved') /\ TableOf(file', index', s)
    BY <1>3, <1>6, <2>1 DEF Whole
  <2> QED BY <1>2, <1>3, <1>4, <2>2, OpenIsLeft
<1>7. CASE BeingBuilt
  <2>1. PICK s : IsInOrder(s, saved) /\ Building(file, buffer, lastKey, written, pending, s)
    BY <1>7 DEF BeingBuilt
  <2>2. file' \in PartsOf(IF pending = <<>> THEN Finished.file ELSE file)
    BY <1>3, <1>7 DEF FilesAfterCrash, BeingBuilt
  <2>3. CASE pending = <<>>
    <3>1. s # <<>>
      BY <1>7, <2>1 DEF BeingBuilt, IsInOrder, ToSet
    <3>2. Whole(Finished.file, Finished.written, s)
      BY <2>1, <2>3, <3>1, FinishedIsWhole
    <3>3. file' = Finished.file \/ OpenedIndex(file') = NotOpen
      BY <2>2, <2>3, <3>2, PartOfWhole
    <3> QED BY <1>3, <1>5, <1>6, <2>1, <3>2, <3>3
  <2>4. CASE pending # <<>>
    <3>1. OpenedIndex(file') = NotOpen
      BY <2>1, <2>2, <2>4, PartOfData DEF Building
    <3> QED BY <1>3, <1>5, <3>1
  <2> QED BY <2>3, <2>4
<1>8. CASE IsBuilt
  <2>1. PICK s : IsInOrder(s, saved) /\ Whole(file, written, s)
    BY <1>8 DEF IsBuilt
  <2>2. file' = file
    BY <1>3, <1>8 DEF FilesAfterCrash, IsBuilt
  <2> QED BY <1>6, <2>1, <2>2
<1>9. CASE IsOpened
  <2>1. PICK s : IsInOrder(s, saved) /\ Whole(file, written, s)
    BY <1>9 DEF IsOpened
  <2>2. file' = file
    BY <1>3, <1>9 DEF FilesAfterCrash, IsOpened
  <2> QED BY <1>6, <2>1, <2>2
<1> QED BY <1>1, <1>7, <1>8, <1>9

\* A state with an open file after the flush.
LEMMA LeftOpenWhen ==
    ASSUME FlushInv, pc = "done", IsOpen
    PROVE  LeftOpen /\ ListInv
BY DEF FlushInv, Filling, BeingBuilt, IsBuilt, IsOpened, LeftClosed, LeftOpen, IsOpen

\* The scan of a file that does not change.
LEMMA ScanStays ==
    ASSUME NEW s, index' = index, bad' = bad, lo' # NoScan,
           ScanShows(lo', cursor', seen', s, ReadablePos(bad))
    PROVE  ScanIs(s)'
<1>1. ReadablePos(bad)' = ReadablePos(bad)
  BY DEF ReadablePos, InBlock, Pos, Blocks
<1>2. \A b, i : PointsAt(cursor', b, i, s) => PointsAt(cursor, b, i, s)'
  BY DEF PointsAt, InBlock, Pos, Blocks
<1>3. (ScanShows(lo, cursor, seen, s, ReadablePos(bad)))'
  BY <1>1, <1>2 DEF ScanShows, Cursors
<1> QED BY <1>3 DEF ScanIs

\* A step that only reads.
LEMMA ReadingKeeps ==
    ASSUME FlushInv, LeftOpen, NEW s, IsInOrder(s, saved), TableOf(file, index, s),
           UNCHANGED <<listVars, builderVars, readerVars, pc, pending, saved>>,
           lo' # NoScan, ScanShows(lo', cursor', seen', s, ReadablePos(bad))
    PROVE  FlushInv'
<1>1. ListInv' /\ Contents' = Contents
  BY ListStays DEF FlushInv
<1>2. ScanIs(s)'
  BY ScanStays DEF readerVars
<1>3. /\ file' = file /\ buffer' = buffer /\ index' = index /\ bad' = bad
      /\ pc' = pc /\ pending' = pending /\ saved' = saved
  BY DEF builderVars, readerVars
<1>4. (bad \subseteq Blocks)' /\ NoWork'
  BY <1>3 DEF LeftOpen, Blocks, NoWork
<1>5. (IsInOrder(s, saved) /\ TableOf(file, index, s))'
  BY <1>3
<1>6. LeftOpen'
  BY <1>1, <1>2, <1>3, <1>4, <1>5 DEF LeftOpen
<1> QED BY <1>1, <1>6 DEF FlushInv

\* Blocks become unreadable before anything is read.
LEMMA DamageKeeps ==
    ASSUME FlushInv, Damage
    PROVE  FlushInv'
<1>1. LeftOpen /\ ListInv
  BY LeftOpenWhen DEF Damage
<1>2. ListInv' /\ Contents' = Contents
  BY <1>1, ListStays DEF Damage
<1>3. /\ file' = file /\ buffer' = buffer /\ index' = index /\ bad' \in SUBSET Blocks
      /\ pc' = pc /\ pending' = pending /\ saved' = saved /\ cursor' = cursor
      /\ lo = NoScan /\ lo' = lo /\ seen' = seen
  BY DEF Damage, builderVars
<1>4. PICK s : IsInOrder(s, saved) /\ TableOf(file, index, s) /\ ScanIs(s)
  BY <1>1 DEF LeftOpen
<1>5. ScanIs(s)'
  BY <1>3, <1>4 DEF ScanIs
<1>6. (bad \subseteq Blocks)' /\ NoWork'
  BY <1>1, <1>3 DEF LeftOpen, Blocks, NoWork
<1>7. (IsInOrder(s, saved) /\ TableOf(file, index, s))'
  BY <1>3, <1>4
<1>8. LeftOpen'
  BY <1>1, <1>2, <1>3, <1>5, <1>6, <1>7 DEF LeftOpen
<1> QED BY <1>2, <1>8 DEF FlushInv

\* The cursor is one, whether the scan has begun or not.
LEMMA CursorTyped ==
    ASSUME NEW s, ScanIs(s)
    PROVE  cursor \in Cursors
<1>1. NoCursor \in Cursors
  BY DEF NoCursor, Cursors
<1> QED BY <1>1 DEF ScanIs, ScanShows

\* An iterator is made.
LEMMA BeginScanKeeps ==
    ASSUME FlushInv, BeginScan
    PROVE  FlushInv'
<1>1. LeftOpen
  BY LeftOpenWhen DEF BeginScan
<1>2. PICK s : IsInOrder(s, saved) /\ TableOf(file, index, s) /\ ScanIs(s)
  BY <1>1 DEF LeftOpen
<1>3. /\ NewCursor /\ lo' = 0 /\ seen' = Shown(cursor')
      /\ UNCHANGED <<listVars, builderVars, readerVars, pc, pending, saved>>
  BY DEF BeginScan
<1>4. ShowsFirst(cursor', {q \in ReadablePos(bad) : s[q].key >= 0}, s)
  BY <1>2, <1>3, CursorTyped, NewCursorShowsFirst
<1>5. ReadablePos(bad) \in SUBSET (1 .. Len(s))
  BY <1>2, ReadablePlaces
<1>6. ScanShows(0, cursor', Shown(cursor'), s, ReadablePos(bad))
  BY <1>2, <1>4, <1>5, ScanStarts
<1>7. lo' # NoScan /\ ScanShows(lo', cursor', seen', s, ReadablePos(bad))
  BY <1>3, <1>6 DEF NoScan
<1> QED BY <1>1, <1>2, <1>3, <1>7, ReadingKeeps

\* It is positioned.
LEMMA SeekScanKeeps ==
    ASSUME FlushInv, SeekScan
    PROVE  FlushInv'
<1>1. LeftOpen
  BY LeftOpenWhen DEF SeekScan
<1>2. PICK s : IsInOrder(s, saved) /\ TableOf(file, index, s) /\ ScanIs(s)
  BY <1>1 DEF LeftOpen
<1>3. PICK target \in Key : Seek(target) /\ lo' = target
  BY DEF SeekScan
<1>4. /\ seen' = Shown(cursor')
      /\ UNCHANGED <<listVars, builderVars, readerVars, pc, pending, saved>>
  BY DEF SeekScan
<1>5. target \in Nat /\ target # NoScan
  BY EntriesAssumption DEF NoScan
<1>6. ShowsFirst(cursor', {q \in ReadablePos(bad) : s[q].key >= target}, s)
  BY <1>2, <1>3, <1>5, CursorTyped, SeekShowsFirst
<1>7. ReadablePos(bad) \in SUBSET (1 .. Len(s))
  BY <1>2, ReadablePlaces
<1>8. ScanShows(target, cursor', Shown(cursor'), s, ReadablePos(bad))
  BY <1>2, <1>5, <1>6, <1>7, ScanStarts
<1>9. lo' # NoScan /\ ScanShows(lo', cursor', seen', s, ReadablePos(bad))
  BY <1>3, <1>4, <1>5, <1>8
<1> QED BY <1>1, <1>2, <1>4, <1>9, ReadingKeeps

\* It is advanced.
LEMMA AdvanceScanKeeps ==
    ASSUME FlushInv, AdvanceScan
    PROVE  FlushInv'
<1>1. /\ pc = "done" /\ NextEntry /\ cursor.valid /\ seen' = seen \o Shown(cursor') /\ lo' = lo
      /\ UNCHANGED <<listVars, builderVars, readerVars, pc, pending, saved>>
  BY DEF AdvanceScan, NextEntry
<1>2. LeftOpen
  <2>1. cursor # NoCursor
    BY <1>1 DEF NoCursor
  <2> QED BY <1>1, <2>1 DEF FlushInv, Filling, BeingBuilt, IsBuilt, IsOpened, LeftClosed, NotRead
<1>3. PICK s : IsInOrder(s, saved) /\ TableOf(file, index, s) /\ ScanIs(s)
  BY <1>2 DEF LeftOpen
<1>4. cursor \in Cursors
  BY <1>3, CursorTyped
<1>5. lo # NoScan /\ ScanShows(lo, cursor, seen, s, ReadablePos(bad))
  BY <1>1, <1>3 DEF ScanIs, NoCursor
<1>6. PICK b, i : PointsAt(cursor, b, i, s)
  <2>1. cursor.valid = TRUE
    BY <1>1, <1>4 DEF Cursors
  <2> QED BY <1>5, <2>1 DEF ScanShows
<1>7. ShowsFirst(cursor', {q \in ReadablePos(bad) : q > Pos(b, i)}, s)
  BY <1>1, <1>3, <1>4, <1>6, NextShowsFirst
<1>8. ReadablePos(bad) \in SUBSET (1 .. Len(s))
  BY <1>3, ReadablePlaces
<1>9. ScanShows(lo, cursor', seen \o Shown(cursor'), s, ReadablePos(bad))
  BY <1>3, <1>5, <1>6, <1>7, <1>8, ScanGoesOn
<1>10. lo' # NoScan /\ ScanShows(lo', cursor', seen', s, ReadablePos(bad))
  BY <1>1, <1>5, <1>9
<1> QED BY <1>1, <1>2, <1>3, <1>10, ReadingKeeps

\* The invariant holds in every state.
THEOREM FlushInvHolds ==
    Spec => []FlushInv
<1>1. Init => FlushInv
  BY FlushStarts
<1>2. FlushInv /\ [Next]_vars => FlushInv'
  <2> SUFFICES ASSUME FlushInv, [Next]_vars PROVE FlushInv'
    OBVIOUS
  <2>1. CASE Change
    BY <2>1, ChangeKeeps
  <2>2. CASE BeginFlush
    BY <2>2, BeginFlushKeeps
  <2>3. CASE AddNext
    BY <2>3, AddNextKeeps
  <2>4. CASE FinishFile
    BY <2>4, FinishFileKeeps
  <2>5. CASE OpenFile
    BY <2>5, OpenFileKeeps
  <2>6. CASE ClearMemTable
    BY <2>6, ClearMemTableKeeps
  <2>7. CASE CrashAndRestart
    BY <2>7, CrashKeeps
  <2>8. CASE Damage
    BY <2>8, DamageKeeps
  <2>9. CASE BeginScan
    BY <2>9, BeginScanKeeps
  <2>10. CASE SeekScan
    BY <2>10, SeekScanKeeps
  <2>11. CASE AdvanceScan
    BY <2>11, AdvanceScanKeeps
  <2>12. CASE UNCHANGED vars
    <3>1. ListInv' /\ Contents' = Contents
      BY <2>12, ListStays DEF FlushInv, vars
    <3>2. /\ file' = file /\ buffer' = buffer /\ lastKey' = lastKey /\ written' = written
          /\ index' = index /\ bad' = bad /\ cursor' = cursor /\ pc' = pc
          /\ pending' = pending /\ saved' = saved /\ lo' = lo /\ seen' = seen
      BY <2>12 DEF vars, fileVars, builderVars, readerVars
    <3>3. Filling' = Filling /\ BeingBuilt' = BeingBuilt /\ IsBuilt' = IsBuilt
          /\ IsOpened' = IsOpened /\ LeftClosed' = LeftClosed
      BY <3>1, <3>2 DEF Filling, BeingBuilt, IsBuilt, IsOpened, LeftClosed, NotRead, NoWork
    <3>4. LeftOpen => LeftOpen'
      <4> SUFFICES ASSUME LeftOpen PROVE LeftOpen'
        OBVIOUS
      <4>1. PICK s : IsInOrder(s, saved) /\ TableOf(file, index, s) /\ ScanIs(s)
        BY DEF LeftOpen
      <4>2. ScanIs(s)'
        <5>1. CASE lo = NoScan
          BY <3>2, <4>1, <5>1 DEF ScanIs
        <5>2. CASE lo # NoScan
          BY <3>2, <4>1, <5>2, ScanStays DEF ScanIs
        <5> QED BY <5>1, <5>2
      <4>3. (bad \subseteq Blocks)' /\ NoWork'
        BY <3>2 DEF LeftOpen, Blocks, NoWork
      <4>4. (IsInOrder(s, saved) /\ TableOf(file, index, s))'
        BY <3>2, <4>1
      <4> QED BY <3>1, <3>2, <4>2, <4>3, <4>4 DEF LeftOpen
    <3> QED BY <3>1, <3>3, <3>4 DEF FlushInv
  <2> QED BY <2>1, <2>2, <2>3, <2>4, <2>5, <2>6, <2>7, <2>8, <2>9, <2>10, <2>11, <2>12
          DEF Next
<1> QED BY <1>1, <1>2, PTL DEF Spec

\* What the invariant says of the types.
LEMMA FlushInvTypes ==
    FlushInv => TypeOK
<1> SUFFICES ASSUME FlushInv PROVE TypeOK
  OBVIOUS
<1>1. ListInv /\ ListTypeOK /\ Contents \subseteq Pair
  BY ListInvTypes, ContentsTyped DEF FlushInv
<1>2. <<>> \in Seq(Pair) /\ ~NoCursor.valid
  BY DEF NoCursor
<1>3. ASSUME NEW entries, NEW s, TableOf(file, entries, s), entries = index
      PROVE  \A b \in Blocks : index[b].kind = "index"
  <2>1. IndexOver(index, Len(s), s) /\ Len(s) \in Nat
    BY <1>3, AscendingTypes DEF TableOf
  <2> QED BY <2>1, EntryTypes DEF Blocks
<1>4. CASE Filling
  BY <1>1, <1>2, <1>4 DEF Filling, NotRead, NoWork, TypeOK
<1>5. CASE BeingBuilt
  <2>1. buffer \in Seq(Pair) /\ pending \in Seq(Pair)
    BY <1>5 DEF BeingBuilt, Building
  <2> QED BY <1>1, <1>2, <1>5, <2>1 DEF BeingBuilt, NotRead, TypeOK
<1>6. CASE IsBuilt
  BY <1>1, <1>2, <1>6 DEF IsBuilt, NotRead, NoWork, TypeOK
<1>7. CASE IsOpened
  <2>1. index # NotOpen => \A b \in Blocks : index[b].kind = "index"
    BY <1>3, <1>7 DEF IsOpened, Whole
  <2> QED BY <1>1, <1>2, <1>7, <2>1 DEF IsOpened, NotRead, NoWork, TypeOK
<1>8. CASE LeftClosed
  BY <1>1, <1>2, <1>8 DEF LeftClosed, NotRead, NoWork, TypeOK
<1>9. CASE LeftOpen
  <2>1. PICK s : IsInOrder(s, saved) /\ TableOf(file, index, s) /\ ScanIs(s)
    BY <1>9 DEF LeftOpen
  <2>2. \A b \in Blocks : index[b].kind = "index"
    BY <1>3, <2>1
  <2>3. IsOpen
    BY <2>1 DEF TableOf, IsOpen, NotOpen
  <2>4. (cursor.valid => cursor.pair \in Pair) /\ seen \in Seq(Pair)
    <3>1. CASE lo = NoScan
      BY <1>2, <2>1, <3>1 DEF ScanIs
    <3>2. CASE lo # NoScan
      <4>1. ScanShows(lo, cursor, seen, s, ReadablePos(bad))
        BY <2>1, <3>2 DEF ScanIs
      <4>2. ASSUME cursor.valid PROVE cursor.pair \in Pair
        <5>1. cursor.valid = TRUE
          BY <4>1, <4>2 DEF ScanShows, Cursors
        <5>2. PICK b, i : PointsAt(cursor, b, i, s)
          BY <4>1, <5>1 DEF ScanShows
        <5>3. Pos(b, i) \in 1 .. Len(s) /\ cursor.pair = s[Pos(b, i)]
          BY <2>1, <5>2, Positions DEF PointsAt
        <5> QED BY <2>1, <5>3, AscendingTypes DEF TableOf
      <4> QED BY <4>1, <4>2 DEF ScanShows
    <3> QED BY <3>1, <3>2
  <2> QED BY <1>1, <1>2, <1>9, <2>2, <2>3, <2>4 DEF LeftOpen, NoWork, TypeOK
<1> QED BY <1>4, <1>5, <1>6, <1>7, <1>8, <1>9 DEF FlushInv

\* Every variable keeps its type.
THEOREM FlushTypes ==
    Spec => []TypeOK
BY FlushInvHolds, FlushInvTypes, PTL

\* Every link of the list leads to the nearest node of its height.
THEOREM LinksHold ==
    Spec => []LevelsLinked
<1>1. FlushInv => LevelsLinked
  BY ListInvLinks DEF FlushInv
<1> QED BY <1>1, FlushInvHolds, PTL

\* Reading the list gives what its nodes hold.
THEOREM ListReadsHold ==
    Spec => []MemTableReads
<1>1. FlushInv => MemTableReads
  BY ListInvReads DEF FlushInv
<1> QED BY <1>1, FlushInvHolds, PTL

\* What is left of an open file is what its blocks that can be read hold.
LEMMA ReadableIs ==
    ASSUME NEW s, IsInOrder(s, saved), TableOf(file, index, s), bad \subseteq Blocks
    PROVE  ReadablePairs = PairsAt(s, ReadablePos(bad))
<1>1. saved = ToSet(s)
  BY DEF IsInOrder
<1> QED BY <1>1, ReadablePairsAre

\* A bad block costs get its own entries and no other.
THEOREM GetReadsGoodBlocks ==
    Spec => []GetLosesOnlyBadBlocks
<1>1. FlushInv => GetLosesOnlyBadBlocks
  <2> SUFFICES ASSUME FlushInv, pc = "done", IsOpen, NEW k \in Key
               PROVE  GetFromFile(k) = Lookup(ReadablePairs, k)
    BY DEF GetLosesOnlyBadBlocks
  <2>1. LeftOpen
    BY LeftOpenWhen
  <2>2. PICK s : IsInOrder(s, saved) /\ TableOf(file, index, s)
    BY <2>1 DEF LeftOpen
  <2>3. ReadablePairs = PairsAt(s, ReadablePos(bad))
    BY <2>1, <2>2, ReadableIs DEF LeftOpen
  <2>4. k \in Nat
    BY EntriesAssumption
  <2> QED BY <2>2, <2>3, <2>4, GetReadingIs DEF GetFromFile
<1> QED BY <1>1, FlushInvHolds, PTL

\* A scan shows the entries of the good blocks, in order, each once.
THEOREM ScanReadsGoodBlocks ==
    Spec => []ScanLosesOnlyBadBlocks
<1>1. FlushInv => ScanLosesOnlyBadBlocks
  <2> SUFFICES ASSUME FlushInv, lo # NoScan PROVE ScanLosesOnlyBadBlocks
    BY DEF ScanLosesOnlyBadBlocks
  <2>1. LeftOpen
    BY DEF FlushInv, Filling, BeingBuilt, IsBuilt, IsOpened, LeftClosed, NotRead
  <2>2. PICK s : IsInOrder(s, saved) /\ TableOf(file, index, s) /\ ScanIs(s)
    BY <2>1 DEF LeftOpen
  <2>3. ReadablePairs = PairsAt(s, ReadablePos(bad))
    BY <2>1, <2>2, ReadableIs DEF LeftOpen
  <2>4. ScanShows(lo, cursor, seen, s, ReadablePos(bad))
    BY <2>2 DEF ScanIs
  <2>5. cursor.valid = TRUE \/ cursor.valid = FALSE
    BY <2>4 DEF ScanShows, Cursors
  <2> QED BY <2>3, <2>4, <2>5 DEF ScanShows, ScanLosesOnlyBadBlocks
<1> QED BY <1>1, FlushInvHolds, PTL

-----------------------------------------------------------------------------
(* The flush as a step of the abstract specification FlushedTable.         *)

\* The tables there are, as FlushIsAtomic sees them.
Tables ==
    IF IsOpen
    THEN {[k \in {x \in Key : GetReading(x, {}) # Absent} |-> GetReading(k, {})]}
    ELSE {}

\* Looking a key up in pairs: it is in the map of them, or Absent.
LEMMA AsMapIs ==
    ASSUME NEW P \in SUBSET Pair, OnePairPerKey(P)
    PROVE  /\ AsMap(P) = [k \in {x \in Key : Lookup(P, x) # Absent} |-> Lookup(P, k)]
           /\ DOMAIN AsMap(P) = {p.key : p \in P}
           /\ \A k \in DOMAIN AsMap(P) : AsMap(P)[k] = Lookup(P, k)
<1>1. {x \in Key : Lookup(P, x) # Absent} = {p.key : p \in P}
  <2>1. ASSUME NEW p \in P PROVE p.key \in Key /\ Lookup(P, p.key) # Absent
    BY LookupFinds, PairTypes
  <2>2. ASSUME NEW x \in Key, Lookup(P, x) # Absent PROVE \E p \in P : x = p.key
    BY <2>2, LookupFinds
  <2> QED BY <2>1, <2>2
<1> QED BY <1>1 DEF AsMap

\* An open file answers as the pairs did that were saved.
LEMMA TablesAre ==
    ASSUME NEW s, IsInOrder(s, saved), TableOf(file, index, s)
    PROVE  Tables = {AsMap(saved)}
<1>1. /\ saved = PairsAt(s, 1 .. Len(s)) /\ ReadablePos({}) = 1 .. Len(s)
      /\ saved \in SUBSET Pair /\ OnePairPerKey(saved)
  <2>1. DOMAIN s = 1 .. Len(s)
    BY AscendingTypes DEF TableOf
  <2>2. saved = PairsAt(s, 1 .. Len(s))
    BY <2>1 DEF IsInOrder, ToSet, PairsAt
  <2>3. /\ ReadablePos({}) = 1 .. Len(s)
        /\ PairsAt(s, ReadablePos({})) \subseteq Pair
        /\ OnePairPerKey(PairsAt(s, ReadablePos({})))
    BY ReadablePlaces
  <2> QED BY <2>2, <2>3
<1>2. \A k \in Key : GetReading(k, {}) = Lookup(saved, k)
  <2>1. Key \subseteq Nat
    BY EntriesAssumption
  <2> QED BY <1>1, <2>1, GetReadingIs
<1>3. IsOpen
  BY DEF TableOf, IsOpen, NotOpen
<1>4. [k \in {x \in Key : GetReading(x, {}) # Absent} |-> GetReading(k, {})]
         = [k \in {x \in Key : Lookup(saved, x) # Absent} |-> Lookup(saved, k)]
  BY <1>2
<1>5. AsMap(saved) = [k \in {x \in Key : Lookup(saved, x) # Absent} |-> Lookup(saved, k)]
  BY <1>1, AsMapIs
<1> QED BY <1>3, <1>4, <1>5 DEF Tables

TableSaved == \E s : IsInOrder(s, saved) /\ TableOf(file, index, s)

AnswersAsSaved == Tables = {AsMap(saved)}

\* The same, for a state and for the next one.
LEMMA SavedAnswers ==
    TableSaved => AnswersAsSaved
BY TablesAre DEF TableSaved, AnswersAsSaved

\* The same file with the same index is the same table.
LEMMA TablesStay ==
    ASSUME file' = file, index' = index
    PROVE  Tables' = Tables
BY DEF Tables, IsOpen, GetReading, BlockPairs, CandidateBlocks, Blocks

\* No table while nothing was opened.
LEMMA NoTables ==
    index = NotOpen => Tables = {}
BY DEF Tables, IsOpen

\* put stores into the map.
LEMMA StoredInMap ==
    ASSUME NEW P \in SUBSET Pair, OnePairPerKey(P), NEW Q \in SUBSET Pair, OnePairPerKey(Q),
           NEW k \in Key, NEW e \in Entry, OnlyStored(k, e, P, Q)
    PROVE  AsMap(Q) = [x \in DOMAIN AsMap(P) \cup {k} |-> IF x = k THEN e ELSE AsMap(P)[x]]
<1> DEFINE p == [key |-> k, entry |-> e]
<1>1. p \in Q /\ p.key = k /\ p.entry = e
  BY DEF OnlyStored
<1>2. /\ DOMAIN AsMap(P) = {q.key : q \in P} /\ DOMAIN AsMap(Q) = {q.key : q \in Q}
      /\ \A x \in DOMAIN AsMap(P) : AsMap(P)[x] = Lookup(P, x)
  BY AsMapIs
<1>3. \A q \in Pair : q.key # k => (q \in P <=> q \in Q)
  BY DEF OnlyStored
<1> HIDE DEF p
<1>4. DOMAIN AsMap(Q) = DOMAIN AsMap(P) \cup {k}
  <2>1. ASSUME NEW q \in P PROVE q.key \in DOMAIN AsMap(Q)
    BY <1>1, <1>2, <1>3
  <2>2. ASSUME NEW q \in Q PROVE q.key = k \/ q.key \in DOMAIN AsMap(P)
    BY <1>2, <1>3
  <2> QED BY <1>1, <1>2, <2>1, <2>2
<1>5. Lookup(Q, k) = e
  BY <1>1, LookupFinds
<1>6. ASSUME NEW x \in DOMAIN AsMap(P), x # k PROVE Lookup(Q, x) = AsMap(P)[x]
  <2>1. PICK q \in P : q.key = x
    BY <1>2
  <2>2. q \in Q
    BY <1>3, <1>6, <2>1
  <2>3. Lookup(P, x) = q.entry /\ Lookup(Q, x) = q.entry
    BY <2>1, <2>2, LookupFinds
  <2> QED BY <1>2, <2>3
<1>7. AsMap(Q) = [x \in DOMAIN AsMap(P) \cup {k} |-> Lookup(Q, x)]
  BY <1>2, <1>4 DEF AsMap
<1> QED BY <1>5, <1>6, <1>7

\* erase removes from it.
LEMMA RemovedFromMap ==
    ASSUME NEW P \in SUBSET Pair, OnePairPerKey(P), NEW Q \in SUBSET Pair, OnePairPerKey(Q),
           NEW k \in Key, OnlyRemoved(k, P, Q)
    PROVE  AsMap(Q) = [x \in DOMAIN AsMap(P) \ {k} |-> AsMap(P)[x]]
<1>1. /\ DOMAIN AsMap(P) = {q.key : q \in P} /\ DOMAIN AsMap(Q) = {q.key : q \in Q}
      /\ \A x \in DOMAIN AsMap(P) : AsMap(P)[x] = Lookup(P, x)
  BY AsMapIs
<1>2. (\A q \in Q : q.key # k) /\ \A q \in Pair : q.key # k => (q \in P <=> q \in Q)
  BY DEF OnlyRemoved
<1>3. DOMAIN AsMap(Q) = DOMAIN AsMap(P) \ {k}
  <2>1. ASSUME NEW q \in P, q.key # k PROVE q.key \in DOMAIN AsMap(Q)
    BY <1>1, <1>2, <2>1
  <2>2. ASSUME NEW q \in Q PROVE q.key # k /\ q.key \in DOMAIN AsMap(P)
    BY <1>1, <1>2
  <2> QED BY <1>1, <2>1, <2>2
<1>4. ASSUME NEW x \in DOMAIN AsMap(P), x # k PROVE Lookup(Q, x) = AsMap(P)[x]
  <2>1. PICK q \in P : q.key = x
    BY <1>1
  <2>2. q \in Q
    BY <1>2, <1>4, <2>1
  <2>3. Lookup(P, x) = q.entry /\ Lookup(Q, x) = q.entry
    BY <2>1, <2>2, LookupFinds
  <2> QED BY <1>1, <2>3
<1>5. AsMap(Q) = [x \in DOMAIN AsMap(P) \ {k} |-> Lookup(Q, x)]
  BY <1>1, <1>3 DEF AsMap
<1> QED BY <1>4, <1>5

\* No pairs are the empty map.
LEMMA NothingInMap ==
    AsMap({}) = Flushed!EmptyMap
BY DEF AsMap, Flushed!EmptyMap

ListMap == Contents \subseteq Pair /\ OnePairPerKey(Contents)

\* The list has at most one pair for a key.
LEMMA ListIsMap ==
    ListInv => ListMap
BY ContentsTyped DEF ListMap

\* put and erase are the steps of the map of that name.
LEMMA ChangeRefines ==
    ASSUME FlushInv, FlushInv', Change
    PROVE  Flushed!FlushNext
<1>1. ListInv /\ ListInv'
  BY DEF FlushInv
<1>2. /\ Contents \in SUBSET Pair /\ OnePairPerKey(Contents)
      /\ Contents' \in SUBSET Pair /\ OnePairPerKey(Contents')
  <2>1. ListMap /\ ListMap'
    BY <1>1, ListIsMap, PTL
  <2> QED BY <2>1 DEF ListMap, OnePairPerKey
<1>3. Tables' = Tables /\ Stage = "before" /\ Stage' = Stage
  BY TablesStay DEF Change, fileVars, builderVars, readerVars, Stage
<1>4. CASE \E k \in Key, e \in Entry : PutInList(k, e)
  <2>1. PICK k \in Key, e \in Entry : PutInList(k, e)
    BY <1>4
  <2>2. OnlyStored(k, e, Contents, Contents')
    BY <1>1, <2>1, PutKeeps
  <2>3. AsMap(Contents') = [x \in DOMAIN AsMap(Contents) \cup {k} |->
                               IF x = k THEN e ELSE AsMap(Contents)[x]]
    BY <1>2, <2>2, StoredInMap
  <2>4. Flushed!Store(k, e)
    BY <1>3, <2>3 DEF Flushed!Store, Tables, AsMap, Lookup
  <2> QED BY <2>4 DEF Flushed!FlushNext, Flushed!Entry, Entry
<1>5. CASE \E k \in Key : EraseFromList(k)
  <2>1. PICK k \in Key : EraseFromList(k)
    BY <1>5
  <2>2. OnlyRemoved(k, Contents, Contents')
    BY <1>1, <2>1, EraseKeeps
  <2>3. AsMap(Contents') = [x \in DOMAIN AsMap(Contents) \ {k} |-> AsMap(Contents)[x]]
    BY <1>2, <2>2, RemovedFromMap
  <2>4. Flushed!RemoveKey(k)
    BY <1>3, <2>3 DEF Flushed!RemoveKey, Tables, AsMap, Lookup
  <2> QED BY <2>4 DEF Flushed!FlushNext
<1> QED BY <1>4, <1>5 DEF Change

\* A step that leaves what the list holds, the tables and the stage is no step.
LEMMA StuttersWhen ==
    ASSUME Contents' = Contents, Tables' = Tables, Stage' = Stage
    PROVE  UNCHANGED Flushed!flushVars
BY DEF Flushed!flushVars, Tables, AsMap, Lookup

\* What the map is when a step leaves the list, or empties it.
LEMMA MapAfter ==
    /\ Contents' = Contents => AsMap(Contents)' = AsMap(Contents)
    /\ Contents' = {} => AsMap(Contents)' = Flushed!EmptyMap
BY NothingInMap DEF AsMap, Lookup

\* The table is there, with all of the list, when the file is opened, or is refused.
LEMMA OpenFileRefines ==
    ASSUME FlushInv, FlushInv', OpenFile
    PROVE  Flushed!FlushNext
<1>1. IsBuilt /\ IsOpened'
  BY DEF FlushInv, OpenFile, Filling, BeingBuilt, IsBuilt, IsOpened, LeftClosed, LeftOpen
<1>2. Contents' = Contents
  BY ListStays DEF FlushInv, OpenFile
<1>3. Tables = {}
  BY <1>1, NoTables DEF IsBuilt
<1>4. Stage = "before" /\ Stage' = "tried"
  BY DEF OpenFile, Stage
<1>5. CASE (index = written)'
  <2>1. TableSaved'
    BY <1>1, <1>5 DEF IsOpened, TableSaved, Whole
  <2>2. AnswersAsSaved'
    BY <2>1, SavedAnswers, PTL
  <2>3. saved' = Contents'
    BY <1>1 DEF IsOpened
  <2>4. AsMap(Contents)' = AsMap(Contents) /\ Tables' = {AsMap(Contents)}
    BY <1>2, <2>2, <2>3, MapAfter DEF AnswersAsSaved, AsMap, Lookup
  <2>5. Flushed!Publish
    BY <1>4, <2>4 DEF Flushed!Publish, Tables
  <2> QED BY <2>5 DEF Flushed!FlushNext
<1>6. CASE (index = NotOpen)'
  <2>1. Tables' = {}
    BY <1>6 DEF Tables, IsOpen
  <2>2. AsMap(Contents)' = AsMap(Contents)
    BY <1>2, MapAfter
  <2>3. Flushed!Refuse
    BY <1>3, <1>4, <2>1, <2>2 DEF Flushed!Refuse, Tables
  <2> QED BY <2>3 DEF Flushed!FlushNext
<1> QED BY <1>1, <1>5, <1>6 DEF IsOpened

\* The list is emptied when the table answers for it, or was refused.
LEMMA ClearMemTableRefines ==
    ASSUME FlushInv, ClearMemTable
    PROVE  Flushed!FlushNext
<1>1. IsOpened
  BY DEF FlushInv, ClearMemTable, Filling, BeingBuilt, IsBuilt, IsOpened, LeftClosed, LeftOpen
<1>2. Tables' = Tables
  BY TablesStay DEF ClearMemTable, fileVars, builderVars, readerVars
<1>3. AsMap(Contents)' = Flushed!EmptyMap
  BY ClearKeeps, MapAfter DEF ClearMemTable
<1>4. written' # <<>>
  BY <1>1 DEF IsOpened, Whole, TableOf, ClearMemTable, fileVars, builderVars
<1>5. Stage = "tried" /\ Stage' = "flushed"
  BY <1>4 DEF ClearMemTable, Stage
<1>6. Flushed!Release
  BY <1>2, <1>3, <1>5 DEF Flushed!Release, Tables
<1> QED BY <1>6 DEF Flushed!FlushNext

\* A crash empties the list; the table is there as it was, or all of it at once.
LEMMA CrashRefines ==
    ASSUME FlushInv, FlushInv', CrashAndRestart
    PROVE  Flushed!FlushNext
<1>1. AsMap(Contents)' = Flushed!EmptyMap
  BY ClearKeeps, MapAfter DEF CrashAndRestart
<1>2. saved' = saved /\ pc' = "done"
  BY DEF CrashAndRestart
<1>3. BeingBuilt \/ IsBuilt \/ IsOpened
  BY DEF FlushInv, CrashAndRestart, Filling, LeftClosed, LeftOpen
<1>4. saved = Contents
  BY <1>3 DEF BeingBuilt, IsBuilt, IsOpened
<1>5. LeftClosed' \/ LeftOpen'
  BY <1>2 DEF FlushInv, Filling, BeingBuilt, IsBuilt, IsOpened, LeftClosed, LeftOpen
<1>6. ASSUME LeftOpen' PROVE Tables' = {AsMap(Contents)}
  <2>1. TableSaved'
    BY <1>6 DEF LeftOpen, TableSaved
  <2>2. AnswersAsSaved'
    BY <2>1, SavedAnswers, PTL
  <2>3. AsMap(saved)' = AsMap(Contents)
    BY <1>2, <1>4 DEF AsMap, Lookup
  <2> QED BY <2>2, <2>3 DEF AnswersAsSaved
<1>7. ASSUME LeftClosed' PROVE Tables' = {}
  <2>1. (index = NotOpen)'
    BY <1>7 DEF LeftClosed
  <2> QED BY <2>1 DEF Tables, IsOpen
<1>8. Tables' = Tables \/ (Tables = {} /\ Tables' = {AsMap(Contents)})
  <2>1. CASE BeingBuilt \/ IsBuilt \/ index = NotOpen
    <3>1. Tables = {}
      BY <2>1, NoTables DEF BeingBuilt, IsBuilt
    <3> QED BY <1>5, <1>6, <1>7, <3>1
  <2>2. CASE IsOpened /\ index = written
    <3>1. TableSaved
      BY <2>2 DEF IsOpened, TableSaved, Whole
    <3>2. Tables = {AsMap(Contents)}
      BY <1>4, <3>1, SavedAnswers DEF AnswersAsSaved
    <3>3. LeftOpen'
      <4>1. PICK s : Whole(file, written, s)
        BY <2>2 DEF IsOpened
      <4>2. file' = file /\ index' = OpenedIndex(file')
        BY <2>2 DEF CrashAndRestart, FilesAfterCrash, IsOpened
      <4>3. index' # NotOpen
        BY <4>1, <4>2, OpenedWhole DEF Whole, TableOf, NotOpen
      <4> QED BY <1>5, <4>3 DEF LeftClosed
    <3> QED BY <1>6, <3>2, <3>3
  <2> QED BY <1>3, <2>1, <2>2 DEF IsOpened
<1>9. Stage \in {"before", "tried"} /\ Stage' = "stopped"
  BY DEF CrashAndRestart, Stage
<1>10. Flushed!Stop
  BY <1>1, <1>8, <1>9 DEF Flushed!Stop, Tables
<1> QED BY <1>10 DEF Flushed!FlushNext

\* Everything else leaves both as they are.
LEMMA OtherStepsStutter ==
    ASSUME FlushInv, FlushInv',
           BeginFlush \/ AddNext \/ FinishFile \/ Damage \/ BeginScan \/ SeekScan \/ AdvanceScan
              \/ UNCHANGED vars
    PROVE  UNCHANGED Flushed!flushVars
<1>1. Contents' = Contents
  BY ListStays DEF FlushInv, BeginFlush, AddNext, FinishFile, Damage, BeginScan, SeekScan,
                   AdvanceScan, vars
<1>2. CASE BeginFlush \/ AddNext \/ FinishFile
  <2>1. index' = index
    BY <1>2 DEF BeginFlush, AddNext, FinishFile, readerVars
  <2>2. index = NotOpen
    BY <1>2 DEF FlushInv, BeginFlush, AddNext, FinishFile, Filling, BeingBuilt, IsBuilt,
                IsOpened, LeftClosed, LeftOpen
  <2>3. Tables = {} /\ Tables' = {}
    BY <2>1, <2>2 DEF Tables, IsOpen
  <2>4. Stage' = Stage
    BY <1>2 DEF BeginFlush, AddNext, FinishFile, Stage
  <2> QED BY <1>1, <2>3, <2>4, StuttersWhen
<1>3. CASE Damage \/ BeginScan \/ SeekScan \/ AdvanceScan \/ UNCHANGED vars
  <2>1. file' = file /\ index' = index
    BY <1>3 DEF Damage, BeginScan, SeekScan, AdvanceScan, vars, fileVars, builderVars, readerVars
  <2>2. Stage' = Stage
    BY <1>3 DEF Damage, BeginScan, SeekScan, AdvanceScan, vars, fileVars, builderVars, Stage
  <2> QED BY <1>1, <2>1, <2>2, TablesStay, StuttersWhen
<1> QED BY <1>2, <1>3

\* The flush implements FlushedTable: the file appears with all of the MemTable or not
\* at all, also after a crash, and the MemTable is cleared behind it, or without it if
\* Open has refused it.
THEOREM FlushRefinesTable ==
    Spec => FlushIsAtomic
<1>1. Init => Flushed!FlushInit
  <2> SUFFICES ASSUME Init PROVE Flushed!FlushInit
    OBVIOUS
  <2>1. Contents = {} /\ index = NotOpen
    BY ListStarts DEF Init, FileInit
  <2>2. AsMap(Contents) = Flushed!EmptyMap /\ Tables = {}
    BY <2>1, NothingInMap, NoTables
  <2>3. Stage = "before"
    BY DEF Init, Stage
  <2> QED BY <2>2, <2>3 DEF Flushed!FlushInit, Tables
<1>2. FlushInv /\ FlushInv' /\ [Next]_vars => [Flushed!FlushNext]_Flushed!flushVars
  <2> SUFFICES ASSUME FlushInv, FlushInv', [Next]_vars
               PROVE  [Flushed!FlushNext]_Flushed!flushVars
    OBVIOUS
  <2>1. CASE Change
    BY <2>1, ChangeRefines
  <2>2. CASE OpenFile
    BY <2>2, OpenFileRefines
  <2>3. CASE ClearMemTable
    BY <2>3, ClearMemTableRefines
  <2>4. CASE CrashAndRestart
    BY <2>4, CrashRefines
  <2>5. CASE BeginFlush \/ AddNext \/ FinishFile \/ Damage \/ BeginScan \/ SeekScan
                \/ AdvanceScan \/ UNCHANGED vars
    BY <2>5, OtherStepsStutter
  <2> QED BY <2>1, <2>2, <2>3, <2>4, <2>5 DEF Next
<1> QED BY <1>1, <1>2, FlushInvHolds, PTL DEF Spec, FlushIsAtomic, Flushed!FlushSpec
=============================================================================
