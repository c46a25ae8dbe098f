------------------------- MODULE MortonRangesProofs -------------------------
(***************************************************************************)
(* MortonRangeGenerator for a world, a leaf size and a set of corners of    *)
(* any size: the ranges cover the box, are apart and do not reach beyond    *)
(* it, and the stack stays short.                                           *)
(*                                                                         *)
(* The strengthening of BoxCovered is NothingLost, with the order in which  *)
(* ranges are merged (MergeInOrder).  Lemmas about one box come first.      *)
(* At the end: the codes, which keep the order of coordinates, as the       *)
(* theorems about ranges assume, and what is in them.                       *)
(***************************************************************************)
EXTENDS MortonRanges, MortonCode, Extremes, TLAPS

\* The code of a voxel is a number.
LEMMA CodeIsNat == \A u \in Voxel : Code(u) \in Nat
<1> SUFFICES ASSUME NEW u \in Voxel PROVE Code(u) \in Nat
  OBVIOUS
<1>1. /\ SplitBy2(u[1]) \in Nat /\ SplitBy2(u[2]) \in Nat /\ SplitBy2(u[3]) \in Nat
  BY MortonAssumption DEF MortonAssumption, Voxel, Axis
<1> QED  BY <1>1 DEF Code

\* Every voxel inside a box has a code in the range of the box: SplitBy2 is monotone.
LEMMA CodeInRange ==
    ASSUME NEW b \in Box, NEW v \in Voxel, Inside(v, b)
    PROVE  /\ BoxRange(b) \in MortonRange
           /\ InRange(Code(v), BoxRange(b))
<1> USE DEF Axis
<1>1. /\ b.lo \in Voxel /\ b.hi \in Voxel
      /\ \A a \in Axis : b.lo[a] \in 0 .. MaxCoord /\ b.hi[a] \in 0 .. MaxCoord
      /\ \A a \in Axis : v[a] \in 0 .. MaxCoord
  BY DEF Box, Voxel
<1>2. Code(v) \in Nat /\ Code(b.lo) \in Nat /\ Code(b.hi) \in Nat
  BY <1>1, CodeIsNat
<1>3. \A a \in Axis : /\ SplitBy2(b.lo[a]) <= SplitBy2(v[a])
                      /\ SplitBy2(v[a]) <= SplitBy2(b.hi[a])
                      /\ SplitBy2(b.lo[a]) \in Nat /\ SplitBy2(v[a]) \in Nat
                      /\ SplitBy2(b.hi[a]) \in Nat
  BY <1>1, MortonAssumption DEF MortonAssumption, Inside
<1>4. Code(b.lo) <= Code(v) /\ Code(v) <= Code(b.hi)
  <2> DEFINE L(a) == SplitBy2(b.lo[a])
             V(a) == SplitBy2(v[a])
             H(a) == SplitBy2(b.hi[a])
  <2>1. \A a \in Axis : /\ L(a) \in Nat /\ V(a) \in Nat /\ H(a) \in Nat
                        /\ L(a) <= V(a) /\ V(a) <= H(a)
    BY <1>3
  <2>2. /\ Code(b.lo) = 4 * L(1) + 2 * L(2) + L(3)
        /\ Code(v) = 4 * V(1) + 2 * V(2) + V(3)
        /\ Code(b.hi) = 4 * H(1) + 2 * H(2) + H(3)
    BY DEF Code
  <2> HIDE DEF L, V, H
  <2> QED  BY <2>1, <2>2
<1> QED  BY <1>1, <1>2, <1>4 DEF BoxRange, MortonRange, InRange

\* The middle of a side lies on the side and, if the side is not a point, below its
\* upper end.
LEMMA MiddleOnSide ==
    ASSUME NEW b \in Box, ~IsEmpty(b), NEW a \in Axis
    PROVE  /\ Middle(b, a) \in 0 .. MaxCoord
           /\ b.lo[a] <= Middle(b, a) /\ Middle(b, a) <= b.hi[a]
           /\ b.lo[a] \in 0 .. MaxCoord /\ b.hi[a] \in 0 .. MaxCoord
<1>1. b.lo[a] \in 0 .. MaxCoord /\ b.hi[a] \in 0 .. MaxCoord
  BY DEF Box, Voxel
<1>2. b.lo[a] <= b.hi[a]
  BY <1>1, MortonAssumption DEF IsEmpty, MortonAssumption
<1> QED  BY <1>1, <1>2, MortonAssumption DEF Middle, Side, MortonAssumption

\* An octant that is pushed is a box of the world.
LEMMA OctantIsBox ==
    ASSUME NEW b \in Box, ~IsEmpty(b), NEW o \in SUBSET Axis, IsPushed(b, o)
    PROVE  Octant(b, o) \in Box
<1>1. \A a \in Axis : /\ Middle(b, a) \in 0 .. MaxCoord
                      /\ b.lo[a] \in 0 .. MaxCoord /\ b.hi[a] \in 0 .. MaxCoord
  BY MiddleOnSide
<1>2. \A a \in o : Middle(b, a) + 1 \in 0 .. MaxCoord
  BY <1>1, MortonAssumption DEF IsPushed, MortonAssumption
<1> QED  BY <1>1, <1>2 DEF Octant, Box, Voxel

\* The octants of a box leave no voxel out.
LEMMA OctantOfVoxel ==
    ASSUME NEW b \in Box, ~IsEmpty(b), NEW v \in Voxel, Inside(v, b)
    PROVE  \E o \in SUBSET Axis : IsPushed(b, o) /\ Inside(v, Octant(b, o))
<1> DEFINE o == {a \in Axis : v[a] > Middle(b, a)}
<1>1. \A a \in Axis : /\ v[a] \in 0 .. MaxCoord /\ Middle(b, a) \in 0 .. MaxCoord
                      /\ b.lo[a] <= v[a] /\ v[a] <= b.hi[a]
                      /\ b.lo[a] \in 0 .. MaxCoord /\ b.hi[a] \in 0 .. MaxCoord
  BY MiddleOnSide DEF Voxel, Inside
<1>2. IsPushed(b, o)
  BY <1>1, MortonAssumption DEF IsPushed, MortonAssumption
<1>3. Inside(v, Octant(b, o))
  BY <1>1, MortonAssumption DEF Inside, Octant, MortonAssumption
<1>4. o \in SUBSET Axis
  OBVIOUS
<1> QED  BY <1>2, <1>3, <1>4

\* A sequence has x among its members.
Has(s, x) == \E i \in DOMAIN s : s[i] = x

\* A concatenation has the members of both parts.
LEMMA ConcatHas ==
    ASSUME NEW S, NEW s \in Seq(S), NEW t \in Seq(S)
    PROVE  /\ s \o t \in Seq(S)
           /\ \A x : Has(s, x) \/ Has(t, x) => Has(s \o t, x)
<1>1. s \o t \in Seq(S)
  OBVIOUS
<1>2. ASSUME NEW x, Has(s, x) PROVE Has(s \o t, x)
  <2>1. PICK i \in DOMAIN s : s[i] = x
    BY <1>2 DEF Has
  <2>2. i \in DOMAIN (s \o t) /\ (s \o t)[i] = x
    BY <2>1
  <2> QED  BY <2>2 DEF Has
<1>3. ASSUME NEW x, Has(t, x) PROVE Has(s \o t, x)
  <2>1. PICK i \in DOMAIN t : t[i] = x
    BY <1>3 DEF Has
  <2>2. Len(s) + i \in DOMAIN (s \o t) /\ (s \o t)[Len(s) + i] = x
    BY <2>1
  <2> QED  BY <2>2 DEF Has
<1> QED  BY <1>1, <1>2, <1>3

\* What is pushed are boxes, every octant that has a voxel among them.
LEMMA OctantsHave ==
    ASSUME NEW b \in Box, ~IsEmpty(b)
    PROVE  /\ Octants(b) \in Seq(Box)
           /\ \A o \in SUBSET Axis : IsPushed(b, o) => Has(Octants(b), Octant(b, o))
<1> DEFINE P(o) == Pushed(b, o)
           S2 == P({}) \o P({1})
           S3 == S2 \o P({2})
           S4 == S3 \o P({1, 2})
           S5 == S4 \o P({3})
           S6 == S5 \o P({1, 3})
           S7 == S6 \o P({2, 3})
           S8 == S7 \o P({1, 2, 3})
<1>1. \A o \in SUBSET Axis : /\ P(o) \in Seq(Box)
                             /\ IsPushed(b, o) => Has(P(o), Octant(b, o))
  <2> SUFFICES ASSUME NEW o \in SUBSET Axis
               PROVE  /\ P(o) \in Seq(Box)
                      /\ IsPushed(b, o) => Has(P(o), Octant(b, o))
    OBVIOUS
  <2>1. CASE IsPushed(b, o)
    <3>1. P(o) = <<Octant(b, o)>>
      BY <2>1 DEF Pushed
    <3>2. Octant(b, o) \in Box
      BY <2>1, OctantIsBox
    <3>3. 1 \in DOMAIN <<Octant(b, o)>> /\ <<Octant(b, o)>>[1] = Octant(b, o)
      OBVIOUS
    <3> QED  BY <3>1, <3>2, <3>3 DEF Has
  <2>2. CASE ~IsPushed(b, o)
    BY <2>2 DEF Pushed
  <2> QED  BY <2>1, <2>2
<1>2. /\ {} \in SUBSET Axis /\ {1} \in SUBSET Axis /\ {2} \in SUBSET Axis
      /\ {1, 2} \in SUBSET Axis /\ {3} \in SUBSET Axis /\ {1, 3} \in SUBSET Axis
      /\ {2, 3} \in SUBSET Axis /\ {1, 2, 3} \in SUBSET Axis
  BY DEF Axis
<1>3. Octants(b) = S8
  BY DEF Octants
<1> HIDE DEF P
<1>4. S2 \in Seq(Box) /\ \A x : Has(P({}), x) \/ Has(P({1}), x) => Has(S2, x)
  BY <1>1, <1>2, ConcatHas
<1> HIDE DEF S2
<1>5. S3 \in Seq(Box) /\ \A x : Has(S2, x) \/ Has(P({2}), x) => Has(S3, x)
  BY <1>1, <1>2, <1>4, ConcatHas
<1> HIDE DEF S3
<1>6. S4 \in Seq(Box) /\ \A x : Has(S3, x) \/ Has(P({1, 2}), x) => Has(S4, x)
  BY <1>1, <1>2, <1>5, ConcatHas
<1> HIDE DEF S4
<1>7. S5 \in Seq(Box) /\ \A x : Has(S4, x) \/ Has(P({3}), x) => Has(S5, x)
  BY <1>1, <1>2, <1>6, ConcatHas
<1> HIDE DEF S5
<1>8. S6 \in Seq(Box) /\ \A x : Has(S5, x) \/ Has(P({1, 3}), x) => Has(S6, x)
  BY <1>1, <1>2, <1>7, ConcatHas
<1> HIDE DEF S6
<1>9. S7 \in Seq(Box) /\ \A x : Has(S6, x) \/ Has(P({2, 3}), x) => Has(S7, x)
  BY <1>1, <1>2, <1>8, ConcatHas
<1> HIDE DEF S7
<1>10. S8 \in Seq(Box) /\ \A x : Has(S7, x) \/ Has(P({1, 2, 3}), x) => Has(S8, x)
  BY <1>1, <1>2, <1>9, ConcatHas
<1> HIDE DEF S8
<1>11. ASSUME NEW o \in SUBSET Axis, IsPushed(b, o)
       PROVE  Has(S8, Octant(b, o))
  <2>1. o \in {{}, {1}, {2}, {1, 2}, {3}, {1, 3}, {2, 3}, {1, 2, 3}}
    <3>1. \A a \in o : a = 1 \/ a = 2 \/ a = 3
      BY DEF Axis
    <3>2. CASE 3 \notin o
      <4>1. CASE 1 \notin o /\ 2 \notin o  BY <3>1, <3>2, <4>1
      <4>2. CASE 1 \in o /\ 2 \notin o
        <5>1. o = {1}  BY <3>1, <3>2, <4>2
        <5> QED  BY <5>1
      <4>3. CASE 1 \notin o /\ 2 \in o
        <5>1. o = {2}  BY <3>1, <3>2, <4>3
        <5> QED  BY <5>1
      <4>4. CASE 1 \in o /\ 2 \in o
        <5>1. o = {1, 2}  BY <3>1, <3>2, <4>4
        <5> QED  BY <5>1
      <4> QED  BY <4>1, <4>2, <4>3, <4>4
    <3>3. CASE 3 \in o
      <4>1. CASE 1 \notin o /\ 2 \notin o
        <5>1. o = {3}  BY <3>1, <3>3, <4>1
        <5> QED  BY <5>1
      <4>2. CASE 1 \in o /\ 2 \notin o
        <5>1. o = {1, 3}  BY <3>1, <3>3, <4>2
        <5> QED  BY <5>1
      <4>3. CASE 1 \notin o /\ 2 \in o
        <5>1. o = {2, 3}  BY <3>1, <3>3, <4>3
        <5> QED  BY <5>1
      <4>4. CASE 1 \in o /\ 2 \in o
        <5>1. o = {1, 2, 3}  BY <3>1, <3>3, <4>4
        <5> QED  BY <5>1
      <4> QED  BY <4>1, <4>2, <4>3, <4>4
    <3> QED  BY <3>2, <3>3
  <2>2. Has(P(o), Octant(b, o))
    BY <1>1, <1>11
  <2> QED  BY <2>1, <2>2, <1>4, <1>5, <1>6, <1>7, <1>8, <1>9, <1>10
<1> QED  BY <1>3, <1>10, <1>11
-----------------------------------------------------------------------------
(* The invariant.                                                          *)

\* How far merging has come: what it has not looked at begins no earlier than the
\* current range, which begins behind a gap after the ranges that are done.
MergeInOrder ==
    /\ pc = "split" => merged = <<>>
    /\ pc # "split" => stack = <<>>
    /\ pc = "done" => raw = {}
    /\ pc = "merge" => /\ \A r \in raw : current.start <= r.start
                       /\ \A i \in DOMAIN merged : merged[i].end + 1 < current.start
    /\ \A i, j \in DOMAIN merged : i < j => merged[i].end + 1 < merged[j].start

Inv == TypeOK /\ NothingLost /\ MergeInOrder

\* A voxel that is still on the stack, or whose code is in a range.
OnStack(v, s) == \E i \in DOMAIN s : Inside(v, s[i])
Covered(v, R) == \E r \in R : InRange(Code(v), r)

\* The top of the stack and the rest are all of it.
LEMMA PoppedStack ==
    ASSUME stack \in Seq(Box), stack # <<>>
    PROVE  /\ Top \in Box
           /\ Popped \in Seq(Box)
           /\ \A v : OnStack(v, stack) => Inside(v, Top) \/ OnStack(v, Popped)
<1>1. Len(stack) \in Nat \ {0} /\ Len(stack) \in DOMAIN stack
  OBVIOUS
<1>2. Popped \in Seq(Box)
  BY <1>1 DEF Popped
<1>3. /\ DOMAIN Popped = 1 .. Len(stack) - 1
      /\ \A i \in 1 .. Len(stack) - 1 : Popped[i] = stack[i]
  BY <1>1 DEF Popped
<1>4. Top \in Box
  BY <1>1 DEF Top
<1>5. ASSUME NEW v, OnStack(v, stack) PROVE Inside(v, Top) \/ OnStack(v, Popped)
  <2>1. PICK i \in DOMAIN stack : Inside(v, stack[i])
    BY <1>5 DEF OnStack
  <2>2. CASE i = Len(stack)  BY <2>1, <2>2 DEF Top
  <2>3. CASE i # Len(stack)
    <3>1. i \in 1 .. Len(stack) - 1  BY <2>3, <1>1
    <3> QED  BY <2>1, <3>1, <1>3 DEF OnStack
  <2> QED  BY <2>2, <2>3
<1> QED  BY <1>2, <1>4, <1>5

\* A box that is not empty has a range.
LEMMA BoxHasRange ==
    ASSUME NEW b \in Box, ~IsEmpty(b) PROVE BoxRange(b) \in MortonRange
<1>1. b.lo \in Voxel /\ \A a \in Axis : b.lo[a] \in Int /\ b.hi[a] \in Int
  BY MortonAssumption DEF Box, Voxel, MortonAssumption
<1>2. Inside(b.lo, b)
  BY <1>1 DEF IsEmpty, Inside
<1> QED  BY <1>1, <1>2, CodeInRange

\* The call is in the world.
LEMMA InitInv == Init => Inv
<1> SUFFICES ASSUME Init PROVE Inv
  OBVIOUS
<1>1. PICK p \in [Axis -> Corner], q \in [Axis -> Corner] :
          box = [lo |-> [a \in Axis |-> Sorted(p[a], q[a])[1]],
                 hi |-> [a \in Axis |-> Sorted(p[a], q[a])[2]]]
  BY DEF Init
<1>2. \A a \in Axis : /\ Sorted(p[a], q[a])[1] \in 0 .. MaxCoord
                      /\ Sorted(p[a], q[a])[2] \in 0 .. MaxCoord
  BY MortonAssumption DEF Sorted, MortonAssumption
<1>3. box \in Box
  BY <1>1, <1>2 DEF Box, Voxel
<1>4. TypeOK
  BY <1>3 DEF Init, TypeOK, MortonRange, NoRange
<1>5. NothingLost
  BY DEF Init, NothingLost
<1>6. MergeInOrder
  BY DEF Init, MergeInOrder
<1> QED  BY <1>4, <1>5, <1>6 DEF Inv

\* Splitting a box, or replacing it by its range, loses no voxel of it.
LEMMA EmitInv == Inv /\ Emit => Inv'
<1> SUFFICES ASSUME Inv, Emit PROVE Inv'
  OBVIOUS
<1> USE DEF Inv
<1>1. /\ Top \in Box /\ Popped \in Seq(Box)
      /\ \A v : OnStack(v, stack) => Inside(v, Top) \/ OnStack(v, Popped)
  BY PoppedStack DEF Emit, TypeOK
<1>2. TypeOK'
  BY <1>1, BoxHasRange DEF TypeOK, Emit
<1>3. NothingLost'
  <2> SUFFICES ASSUME NEW v \in Voxel, Inside(v, box')
               PROVE  OnStack(v, stack') \/ Covered(v, RangesSoFar')
    BY DEF NothingLost, OnStack, Covered
  <2>1. OnStack(v, stack) \/ Covered(v, RangesSoFar)
    BY DEF NothingLost, OnStack, Covered, Emit
  <2>2. CASE Covered(v, RangesSoFar)
    BY <2>2 DEF Covered, RangesSoFar, Emit
  <2>3. CASE OnStack(v, Popped)
    BY <2>3 DEF Emit
  <2>4. CASE Inside(v, Top)
    <3>1. ~IsEmpty(Top)
      <4>1. \A a \in Axis : v[a] \in Int /\ Top.lo[a] \in Int /\ Top.hi[a] \in Int
        BY <1>1, MortonAssumption DEF Box, Voxel, MortonAssumption
      <4> QED  BY <2>4, <4>1 DEF Inside, IsEmpty
    <3>2. BoxRange(Top) \in RangesSoFar'
      BY <3>1 DEF Emit, RangesSoFar
    <3>3. InRange(Code(v), BoxRange(Top))
      BY <1>1, <2>4, CodeInRange
    <3> QED  BY <3>2, <3>3 DEF Covered
  <2> QED  BY <2>1, <2>2, <2>3, <2>4, <1>1
<1>4. MergeInOrder'
  BY DEF MergeInOrder, Emit
<1> QED  BY <1>2, <1>3, <1>4

\* A split leaves nothing out: what the box held is in its octants.
LEMMA SplitInv == Inv /\ Split => Inv'
<1> SUFFICES ASSUME Inv, Split PROVE Inv'
  OBVIOUS
<1> USE DEF Inv
<1>1. /\ Top \in Box /\ Popped \in Seq(Box) /\ ~IsEmpty(Top)
      /\ \A v : OnStack(v, stack) => Inside(v, Top) \/ OnStack(v, Popped)
  BY PoppedStack DEF Split, TypeOK
<1>2. /\ Octants(Top) \in Seq(Box)
      /\ \A o \in SUBSET Axis : IsPushed(Top, o) => Has(Octants(Top), Octant(Top, o))
  BY <1>1, OctantsHave
<1>3. /\ stack' \in Seq(Box)
      /\ \A x : Has(Popped, x) \/ Has(Octants(Top), x) => Has(stack', x)
  BY <1>1, <1>2, ConcatHas DEF Split
<1>4. TypeOK'
  BY <1>3 DEF TypeOK, Split
<1>5. NothingLost'
  <2> SUFFICES ASSUME NEW v \in Voxel, Inside(v, box')
               PROVE  OnStack(v, stack') \/ Covered(v, RangesSoFar')
    BY DEF NothingLost, OnStack, Covered
  <2>1. OnStack(v, stack) \/ Covered(v, RangesSoFar)
    BY DEF NothingLost, OnStack, Covered, Split
  <2>2. CASE Covered(v, RangesSoFar)
    BY <2>2 DEF Covered, RangesSoFar, Split
  <2>3. CASE OnStack(v, Popped)
    <3>1. PICK i \in DOMAIN Popped : Inside(v, Popped[i])
      BY <2>3 DEF OnStack
    <3>2. Has(stack', Popped[i])
      BY <1>3, <3>1 DEF Has
    <3> QED  BY <3>1, <3>2 DEF Has, OnStack
  <2>4. CASE Inside(v, Top)
    <3>1. PICK o \in SUBSET Axis : IsPushed(Top, o) /\ Inside(v, Octant(Top, o))
      BY <1>1, <2>4, OctantOfVoxel
    <3>2. Has(stack', Octant(Top, o))
      BY <1>2, <1>3, <3>1
    <3> QED  BY <3>1, <3>2 DEF Has, OnStack
  <2> QED  BY <2>1, <2>2, <2>3, <2>4, <1>1
<1>6. MergeInOrder'
  BY DEF MergeInOrder, Split
<1> QED  BY <1>4, <1>5, <1>6

\* A result that is extended at its end.
LEMMA AppendedRange ==
    ASSUME NEW s \in Seq(MortonRange), NEW r \in MortonRange
    PROVE  /\ Append(s, r) \in Seq(MortonRange)
           /\ DOMAIN Append(s, r) = 1 .. Len(s) + 1
           /\ \A i \in 1 .. Len(s) : i \in DOMAIN s /\ Append(s, r)[i] = s[i]
           /\ Append(s, r)[Len(s) + 1] = r
           /\ Len(s) \in Nat /\ DOMAIN s = 1 .. Len(s)
OBVIOUS

\* The first range becomes the current one.
LEMMA BeginMergeInv == Inv /\ BeginMerge => Inv'
<1> SUFFICES ASSUME Inv, BeginMerge PROVE Inv'
  OBVIOUS
<1> USE DEF Inv
<1>1. PICK r \in raw : IsLeast(r) /\ current' = r /\ raw' = raw \ {r}
  BY DEF BeginMerge
<1>2. TypeOK'
  BY <1>1 DEF TypeOK, BeginMerge
<1>3. RangesSoFar \subseteq RangesSoFar'
  BY <1>1 DEF RangesSoFar, BeginMerge
<1>4. NothingLost'
  BY <1>3 DEF NothingLost, BeginMerge
<1>5. MergeInOrder'
  BY <1>1 DEF MergeInOrder, BeginMerge, IsLeast
<1> QED  BY <1>2, <1>4, <1>5

\* A code in the range that is merged, or in the current one, is in the extended one:
\* the current range begins first and there is no gap.
LEMMA ExtendInv == Inv /\ Extend => Inv'
<1> SUFFICES ASSUME Inv, Extend PROVE Inv'
  OBVIOUS
<1> USE DEF Inv
<1>1. PICK r \in raw :
          /\ IsLeast(r) /\ Touches(r)
          /\ current' = [current EXCEPT !.end = IF r.end > @ THEN r.end ELSE @]
          /\ raw' = raw \ {r}
  BY DEF Extend
<1>2. /\ r.start \in Nat /\ r.end \in Nat /\ current.start \in Nat /\ current.end \in Nat
      /\ current.start <= r.start /\ r.start <= current.end + 1
  BY <1>1 DEF TypeOK, MortonRange, MergeInOrder, Touches, Extend
<1>3. /\ current'.start = current.start
      /\ current'.end \in Nat
      /\ current.end <= current'.end /\ r.end <= current'.end
      /\ current' \in MortonRange
  BY <1>1, <1>2 DEF TypeOK, MortonRange
<1>4. TypeOK'
  BY <1>1, <1>3 DEF TypeOK, Extend
<1>5. NothingLost'
  <2> SUFFICES ASSUME NEW v \in Voxel, Inside(v, box')
               PROVE  OnStack(v, stack') \/ Covered(v, RangesSoFar')
    BY DEF NothingLost, OnStack, Covered
  <2>1. OnStack(v, stack) \/ Covered(v, RangesSoFar)
    BY DEF NothingLost, OnStack, Covered, Extend
  <2>2. CASE OnStack(v, stack)
    BY <2>2 DEF Extend
  <2>3. CASE Covered(v, RangesSoFar)
    <3>1. PICK q \in RangesSoFar : InRange(Code(v), q)
      BY <2>3 DEF Covered
    <3>2. current' \in RangesSoFar'
      BY DEF RangesSoFar, Extend
    <3>3. CASE q = current
      <4>1. Code(v) \in Int => InRange(Code(v), current')
        BY <3>1, <3>3, <1>2, <1>3 DEF InRange
      <4> QED  BY <4>1, <3>2, CodeIsNat DEF Covered
    <3>4. CASE q = r
      <4>1. Code(v) \in Int => InRange(Code(v), current')
        BY <3>1, <3>4, <1>2, <1>3 DEF InRange
      <4> QED  BY <4>1, <3>2, CodeIsNat DEF Covered
    <3>5. CASE q # current /\ q # r
      <4>1. q \in RangesSoFar'
        BY <3>5, <1>1 DEF RangesSoFar, Extend
      <4> QED  BY <4>1, <3>1 DEF Covered
    <3> QED  BY <3>3, <3>4, <3>5
  <2> QED  BY <2>1, <2>2, <2>3
<1>6. MergeInOrder'
  BY <1>1, <1>3 DEF MergeInOrder, Extend
<1> QED  BY <1>4, <1>5, <1>6

\* The current range is done: the next one begins behind a gap.
LEMMA NextRangeInv == Inv /\ NextRange => Inv'
<1> SUFFICES ASSUME Inv, NextRange PROVE Inv'
  OBVIOUS
<1> USE DEF Inv
<1>1. PICK r \in raw : /\ IsLeast(r) /\ ~Touches(r)
                       /\ merged' = Append(merged, current)
                       /\ current' = r
                       /\ raw' = raw \ {r}
  BY DEF NextRange
<1>2. /\ r \in MortonRange /\ current \in MortonRange /\ merged \in Seq(MortonRange)
      /\ r.start \in Nat /\ current.start \in Nat /\ current.end \in Nat
      /\ current.start <= r.start /\ current.end + 1 < r.start
  BY <1>1 DEF TypeOK, MortonRange, MergeInOrder, Touches, NextRange
<1>3. /\ merged' \in Seq(MortonRange)
      /\ DOMAIN merged' = 1 .. Len(merged) + 1
      /\ \A i \in 1 .. Len(merged) : i \in DOMAIN merged /\ merged'[i] = merged[i]
      /\ merged'[Len(merged) + 1] = current
      /\ Len(merged) \in Nat /\ DOMAIN merged = 1 .. Len(merged)
  BY <1>1, <1>2, AppendedRange
<1>4. TypeOK'
  BY <1>1, <1>2, <1>3 DEF TypeOK, NextRange
<1>5. RangesSoFar \subseteq RangesSoFar'
  <2>1. \A i \in DOMAIN merged : merged[i] \in RangesSoFar'
    BY <1>3 DEF RangesSoFar
  <2>2. current \in RangesSoFar'
    BY <1>3 DEF RangesSoFar
  <2>3. r \in RangesSoFar'
    BY <1>1 DEF RangesSoFar, NextRange
  <2> QED  BY <2>1, <2>2, <2>3, <1>1 DEF RangesSoFar, NextRange
<1>6. NothingLost'
  BY <1>5 DEF NothingLost, NextRange
<1>7. MergeInOrder'
  <2>1. \A i \in DOMAIN merged : /\ merged[i].end \in Nat
                                 /\ merged[i].end + 1 < current.start
    <3>1. \A i \in DOMAIN merged : merged[i] \in MortonRange
      BY <1>2
    <3>2. \A i \in DOMAIN merged : merged[i].end \in Nat
      BY <3>1 DEF MortonRange
    <3> QED  BY <3>2 DEF MergeInOrder, NextRange
  <2>2. \A i \in DOMAIN merged' : merged'[i].end + 1 < current'.start
    BY <2>1, <1>1, <1>2, <1>3
  <2>3. \A i, j \in DOMAIN merged' : i < j => merged'[i].end + 1 < merged'[j].start
    <3> SUFFICES ASSUME NEW i \in DOMAIN merged', NEW j \in DOMAIN merged', i < j
                 PROVE  merged'[i].end + 1 < merged'[j].start
      OBVIOUS
    <3>1. i \in 1 .. Len(merged)
      BY <1>3
    <3>2. CASE j = Len(merged) + 1
      BY <3>1, <3>2, <2>1, <1>3
    <3>3. CASE j \in 1 .. Len(merged)
      BY <3>1, <3>3, <1>3 DEF MergeInOrder
    <3> QED  BY <3>2, <3>3, <1>3
  <2>4. \A s \in raw' : current'.start <= s.start
    BY <1>1 DEF IsLeast
  <2> QED  BY <2>2, <2>3, <2>4 DEF MergeInOrder, NextRange
<1> QED  BY <1>4, <1>6, <1>7

\* The last range ends the merge.
LEMMA FinishInv == Inv /\ Finish => Inv'
<1> SUFFICES ASSUME Inv, Finish PROVE Inv'
  OBVIOUS
<1> USE DEF Inv
<1>1. current \in MortonRange /\ merged \in Seq(MortonRange) /\ current.start \in Nat
  BY DEF TypeOK, MortonRange
<1>2. /\ merged' \in Seq(MortonRange)
      /\ DOMAIN merged' = 1 .. Len(merged) + 1
      /\ \A i \in 1 .. Len(merged) : i \in DOMAIN merged /\ merged'[i] = merged[i]
      /\ merged'[Len(merged) + 1] = current
      /\ Len(merged) \in Nat /\ DOMAIN merged = 1 .. Len(merged)
  BY <1>1, AppendedRange DEF Finish
<1>3. TypeOK'
  BY <1>2 DEF TypeOK, Finish
<1>4. RangesSoFar \subseteq RangesSoFar'
  <2>1. \A i \in DOMAIN merged : merged[i] \in RangesSoFar'
    BY <1>2 DEF RangesSoFar
  <2>2. current \in RangesSoFar'
    BY <1>2 DEF RangesSoFar
  <2> QED  BY <2>1, <2>2 DEF RangesSoFar, Finish
<1>5. NothingLost'
  BY <1>4 DEF NothingLost, Finish
<1>6. MergeInOrder'
  <2>1. \A i \in DOMAIN merged : merged[i].end + 1 < current.start
    BY DEF MergeInOrder, Finish
  <2>2. \A i, j \in DOMAIN merged' : i < j => merged'[i].end + 1 < merged'[j].start
    <3> SUFFICES ASSUME NEW i \in DOMAIN merged', NEW j \in DOMAIN merged', i < j
                 PROVE  merged'[i].end + 1 < merged'[j].start
      OBVIOUS
    <3>1. i \in 1 .. Len(merged)
      BY <1>2
    <3>2. CASE j = Len(merged) + 1
      BY <3>1, <3>2, <2>1, <1>2
    <3>3. CASE j \in 1 .. Len(merged)
      BY <3>1, <3>3, <1>2 DEF MergeInOrder
    <3> QED  BY <3>2, <3>3, <1>2
  <2> QED  BY <2>2 DEF MergeInOrder, Finish
<1> QED  BY <1>3, <1>5, <1>6

\* Inv is an invariant.
LEMMA Invariance == Spec => []Inv
<1>1. Inv /\ [Next]_vars => Inv'
  <2> SUFFICES ASSUME Inv, [Next]_vars PROVE Inv'
    OBVIOUS
  <2>1. CASE Emit  BY <2>1, EmitInv
  <2>2. CASE Split  BY <2>2, SplitInv
  <2>3. CASE BeginMerge  BY <2>3, BeginMergeInv
  <2>4. CASE Extend  BY <2>4, ExtendInv
  <2>5. CASE NextRange  BY <2>5, NextRangeInv
  <2>6. CASE Finish  BY <2>6, FinishInv
  <2>7. CASE UNCHANGED vars
    BY <2>7 DEF vars, Inv, TypeOK, NothingLost, MergeInOrder, RangesSoFar
  <2> QED  BY <2>1, <2>2, <2>3, <2>4, <2>5, <2>6, <2>7 DEF Next
<1> QED  BY InitInv, <1>1, PTL DEF Spec
-----------------------------------------------------------------------------
(* Nothing beyond the box: the strengthening of EndsInBox.                 *)

\* A box that holds voxels, all of them in the box asked for.
WithinBox(b) == ~IsEmpty(b) /\ Inside(b.lo, box) /\ Inside(b.hi, box)

\* A range that begins and ends at a voxel of the box.
VoxelEnds(r) ==
    /\ r.start <= r.end
    /\ \E v \in Voxel : Inside(v, box) /\ r.start = Code(v)
    /\ \E v \in Voxel : Inside(v, box) /\ r.end = Code(v)

\* Pieces stay inside the box, so do the ranges made of them.
WithinInv ==
    /\ \A i \in DOMAIN stack : WithinBox(stack[i])
    /\ \A r \in RangesSoFar : VoxelEnds(r)

\* A voxel of the world has whole coordinates.
LEMMA VoxelInt == \A v \in Voxel : \A a \in Axis : v[a] \in Int
BY MortonAssumption DEF Voxel, MortonAssumption

\* The range of a piece inside the box begins and ends inside it.
LEMMA PieceEnds ==
    ASSUME NEW b \in Box, WithinBox(b) PROVE VoxelEnds(BoxRange(b))
<1>1. b.lo \in Voxel /\ b.hi \in Voxel
  BY DEF Box
<1>2. Inside(b.lo, b)
  BY <1>1, VoxelInt DEF WithinBox, IsEmpty, Inside
<1>3. /\ InRange(Code(b.lo), BoxRange(b))
      /\ BoxRange(b).start = Code(b.lo) /\ BoxRange(b).end = Code(b.hi)
  BY <1>1, <1>2, CodeInRange DEF BoxRange
<1>4. BoxRange(b).start <= BoxRange(b).end
  BY <1>3 DEF InRange
<1> QED  BY <1>1, <1>3, <1>4 DEF VoxelEnds, WithinBox

\* An octant that is pushed lies in its box.
LEMMA OctantWithin ==
    ASSUME box \in Box, NEW b \in Box, WithinBox(b),
           NEW o \in SUBSET Axis, IsPushed(b, o)
    PROVE  WithinBox(Octant(b, o))
<1>1. \A a \in Axis :
          /\ Middle(b, a) \in 0 .. MaxCoord
          /\ b.lo[a] <= Middle(b, a) /\ Middle(b, a) <= b.hi[a]
          /\ b.lo[a] \in 0 .. MaxCoord /\ b.hi[a] \in 0 .. MaxCoord
  BY MiddleOnSide DEF WithinBox
<1>2. \A a \in Axis : /\ box.lo[a] \in Int /\ box.hi[a] \in Int
                      /\ box.lo[a] <= b.lo[a] /\ b.hi[a] <= box.hi[a]
  <2>1. box.lo \in Voxel /\ box.hi \in Voxel
    BY DEF Box
  <2> QED  BY <2>1, VoxelInt DEF WithinBox, Inside
<1>3. \A a \in Axis : a \in o => Middle(b, a) < b.hi[a]
  BY DEF IsPushed
<1>4. \A a \in Axis :
          /\ Octant(b, o).lo[a] = IF a \in o THEN Middle(b, a) + 1 ELSE b.lo[a]
          /\ Octant(b, o).hi[a] = IF a \in o THEN b.hi[a] ELSE Middle(b, a)
  BY DEF Octant
<1>5. \A a \in Axis : Middle(b, a) \in Int /\ b.lo[a] \in Int /\ b.hi[a] \in Int
  BY <1>1, MortonAssumption DEF MortonAssumption
<1>6. \A a \in Axis : /\ Octant(b, o).lo[a] <= Octant(b, o).hi[a]
                      /\ Octant(b, o).lo[a] \in Int /\ Octant(b, o).hi[a] \in Int
                      /\ box.lo[a] <= Octant(b, o).lo[a]
                      /\ Octant(b, o).hi[a] <= box.hi[a]
  BY <1>1, <1>2, <1>3, <1>4, <1>5
<1>7. ~IsEmpty(Octant(b, o))
  BY <1>6 DEF IsEmpty
<1>8. Inside(Octant(b, o).lo, box) /\ Inside(Octant(b, o).hi, box)
  BY <1>2, <1>6 DEF Inside
<1> QED  BY <1>7, <1>8 DEF WithinBox

\* The octants of a box inside the box asked for are inside it.
LEMMA OctantsWithin ==
    ASSUME box \in Box, NEW b \in Box, WithinBox(b)
    PROVE  Octants(b) \in Seq({p \in Box : WithinBox(p)})
<1> DEFINE S == {p \in Box : WithinBox(p)}
           P(o) == Pushed(b, o)
<1>1. \A o \in SUBSET Axis : P(o) \in Seq(S)
  <2> SUFFICES ASSUME NEW o \in SUBSET Axis PROVE P(o) \in Seq(S)
    OBVIOUS
  <2>1. CASE IsPushed(b, o)
    <3>1. Octant(b, o) \in S
      BY <2>1, OctantIsBox, OctantWithin DEF WithinBox
    <3>2. P(o) = <<Octant(b, o)>>
      BY <2>1 DEF Pushed
    <3> QED  BY <3>1, <3>2
  <2>2. CASE ~IsPushed(b, o)
    BY <2>2 DEF Pushed
  <2> QED  BY <2>1, <2>2
<1>2. /\ {} \in SUBSET Axis /\ {1} \in SUBSET Axis /\ {2} \in SUBSET Axis
      /\ {1, 2} \in SUBSET Axis /\ {3} \in SUBSET Axis /\ {1, 3} \in SUBSET Axis
      /\ {2, 3} \in SUBSET Axis /\ {1, 2, 3} \in SUBSET Axis
  BY DEF Axis
<1>3. Octants(b) = P({}) \o P({1}) \o P({2}) \o P({1, 2}) \o
                   P({3}) \o P({1, 3}) \o P({2, 3}) \o P({1, 2, 3})
  BY DEF Octants
<1> HIDE DEF P, S
<1>4. /\ P({}) \in Seq(S) /\ P({1}) \in Seq(S) /\ P({2}) \in Seq(S)
      /\ P({1, 2}) \in Seq(S) /\ P({3}) \in Seq(S) /\ P({1, 3}) \in Seq(S)
      /\ P({2, 3}) \in Seq(S) /\ P({1, 2, 3}) \in Seq(S)
  BY <1>1, <1>2
<1>5. Octants(b) \in Seq(S)
  BY <1>3, <1>4
<1> QED  BY <1>5 DEF S

\* The call itself is a box with corners in order.
LEMMA InitWithin == Init => WithinInv
<1> SUFFICES ASSUME Init PROVE WithinInv
  OBVIOUS
<1>1. PICK p \in [Axis -> Corner], q \in [Axis -> Corner] :
          box = [lo |-> [a \in Axis |-> Sorted(p[a], q[a])[1]],
                 hi |-> [a \in Axis |-> Sorted(p[a], q[a])[2]]]
  BY DEF Init
<1>2. \A a \in Axis : /\ Sorted(p[a], q[a])[1] \in Int /\ Sorted(p[a], q[a])[2] \in Int
                      /\ Sorted(p[a], q[a])[1] <= Sorted(p[a], q[a])[2]
  <2> SUFFICES ASSUME NEW a \in Axis
               PROVE  /\ Sorted(p[a], q[a])[1] \in Int /\ Sorted(p[a], q[a])[2] \in Int
                      /\ Sorted(p[a], q[a])[1] <= Sorted(p[a], q[a])[2]
    OBVIOUS
  <2>1. p[a] \in 0 .. MaxCoord /\ q[a] \in 0 .. MaxCoord
    BY MortonAssumption DEF MortonAssumption
  <2>2. p[a] \in Int /\ q[a] \in Int
    BY <2>1, MortonAssumption DEF MortonAssumption
  <2>3. CASE p[a] <= q[a]
    BY <2>2, <2>3 DEF Sorted
  <2>4. CASE ~(p[a] <= q[a])
    BY <2>2, <2>4 DEF Sorted
  <2> QED  BY <2>3, <2>4
<1>3. \A a \in Axis : box.lo[a] \in Int /\ box.hi[a] \in Int /\ box.lo[a] <= box.hi[a]
  BY <1>1, <1>2
<1>4. WithinBox(box)
  BY <1>3 DEF WithinBox, IsEmpty, Inside
<1>5. RangesSoFar = {}
  BY DEF Init, RangesSoFar
<1> QED  BY <1>4, <1>5 DEF Init, WithinInv

\* What a pop leaves is where it was.
LEMMA PoppedInPlace ==
    ASSUME stack \in Seq(Box), stack # <<>>
    PROVE  /\ Popped \in Seq(Box) /\ Len(Popped) = Len(stack) - 1
           /\ DOMAIN Popped = 1 .. Len(stack) - 1
           /\ \A i \in 1 .. Len(stack) - 1 : i \in DOMAIN stack /\ Popped[i] = stack[i]
           /\ Len(stack) \in Nat \ {0} /\ Len(stack) \in DOMAIN stack
<1>1. Len(stack) \in Nat \ {0} /\ DOMAIN stack = 1 .. Len(stack)
  OBVIOUS
<1>2. /\ DOMAIN Popped = 1 .. Len(stack) - 1
      /\ \A i \in 1 .. Len(stack) - 1 : Popped[i] = stack[i]
  BY <1>1 DEF Popped
<1>3. Popped \in Seq(Box)
  BY PoppedStack
<1>4. Len(Popped) \in Nat /\ DOMAIN Popped = 1 .. Len(Popped)
  BY <1>3
<1>5. Len(Popped) = Len(stack) - 1
  <2> DEFINE m == Len(Popped)
             n == Len(stack) - 1
  <2>1. n \in Nat
    BY <1>1
  <2>2. 1 .. m = 1 .. n
    BY <1>2, <1>4 DEF m, n
  <2>3. m \in Nat
    BY <1>4
  <2> HIDE DEF m, n
  <2>4. m = n
    BY <2>1, <2>2, <2>3
  <2> QED  BY <2>4 DEF m, n
<1> QED  BY <1>1, <1>2, <1>3, <1>5

\* Dropping the top of the stack leaves pieces that were there.
LEMMA PoppedWithin ==
    ASSUME Inv, WithinInv, stack # <<>>
    PROVE  /\ Top \in Box /\ WithinBox(Top)
           /\ Popped \in Seq({p \in Box : WithinBox(p)})
<1>1. stack \in Seq(Box) /\ Len(stack) \in Nat \ {0} /\ Len(stack) \in DOMAIN stack
  BY DEF Inv, TypeOK
<1>2. \A i \in 1 .. Len(stack) : stack[i] \in {p \in Box : WithinBox(p)}
  BY <1>1 DEF WithinInv
<1>3. /\ Popped \in Seq(Box) /\ Len(Popped) = Len(stack) - 1
      /\ \A i \in 1 .. Len(stack) - 1 : Popped[i] = stack[i]
  BY <1>1, PoppedInPlace
<1>4. \A i \in 1 .. Len(Popped) : Popped[i] \in {p \in Box : WithinBox(p)}
  BY <1>1, <1>2, <1>3
<1> DEFINE S == {p \in Box : WithinBox(p)}
<1> HIDE DEF S
<1>5. Popped \in Seq(S)
  BY <1>3, <1>4 DEF S
<1> QED  BY <1>1, <1>2, <1>5 DEF Top, S

\* Every step keeps pieces and ranges within the box.
LEMMA NextWithin == Inv /\ Inv' /\ WithinInv /\ [Next]_vars => WithinInv'
<1> SUFFICES ASSUME Inv, Inv', WithinInv, [Next]_vars PROVE WithinInv'
  OBVIOUS
<1>1. box' = box
  BY DEF Next, Emit, Split, BeginMerge, Extend, NextRange, Finish, vars
<1>2. ASSUME \A i \in DOMAIN stack' : WithinBox(stack'[i]),
             \A r \in RangesSoFar' : VoxelEnds(r)
      PROVE  WithinInv'
  BY <1>1, <1>2 DEF WithinInv, WithinBox, VoxelEnds, Inside, IsEmpty
<1> DEFINE S == {p \in Box : WithinBox(p)}
<1>3. ASSUME NEW s \in Seq(S), stack' = s PROVE \A i \in DOMAIN stack' : WithinBox(stack'[i])
  <2>1. \A i \in DOMAIN s : s[i] \in S
    OBVIOUS
  <2> QED  BY <2>1, <1>3
<1>4. CASE Emit
  <2>1. /\ Top \in Box /\ WithinBox(Top) /\ Popped \in Seq(S)
    BY <1>4, PoppedWithin DEF Emit
  <2>2. VoxelEnds(BoxRange(Top))
    BY <2>1, PieceEnds
  <2>3. \A r \in RangesSoFar' : r \in RangesSoFar \/ r = BoxRange(Top)
    BY <1>4 DEF Emit, RangesSoFar
  <2>4. \A i \in DOMAIN stack' : WithinBox(stack'[i])
    BY <1>3, <1>4, <2>1 DEF Emit
  <2>5. \A r \in RangesSoFar' : VoxelEnds(r)
    BY <2>2, <2>3 DEF WithinInv
  <2> QED  BY <1>2, <2>4, <2>5
<1>5. CASE Split
  <2>1. /\ Top \in Box /\ WithinBox(Top) /\ Popped \in Seq(S) /\ box \in Box
    BY <1>5, PoppedWithin DEF Split, Inv, TypeOK
  <2>2. Octants(Top) \in Seq(S)
    BY <2>1, OctantsWithin
  <2> HIDE DEF S
  <2>3. Popped \o Octants(Top) \in Seq(S)
    BY <2>1, <2>2
  <2>4. \A i \in DOMAIN stack' : WithinBox(stack'[i])
    BY <1>3, <1>5, <2>3 DEF Split
  <2>5. RangesSoFar' = RangesSoFar
    BY <1>5 DEF Split, RangesSoFar
  <2>6. \A r \in RangesSoFar' : VoxelEnds(r)
    BY <2>5 DEF WithinInv
  <2> QED  BY <1>2, <2>4, <2>6
<1>6. ASSUME stack' = stack, \A r \in RangesSoFar' : VoxelEnds(r) PROVE WithinInv'
  <2>1. \A i \in DOMAIN stack' : WithinBox(stack'[i])
    BY <1>6 DEF WithinInv
  <2> QED  BY <1>2, <1>6, <2>1
<1>7. ASSUME NEW r, NEW c, VoxelEnds(r), VoxelEnds(c),
             r \in MortonRange, c \in MortonRange, c.start <= r.start
      PROVE  VoxelEnds([c EXCEPT !.end = IF r.end > @ THEN r.end ELSE @])
  <2> DEFINE e == [c EXCEPT !.end = IF r.end > @ THEN r.end ELSE @]
  <2>1. /\ e.start = c.start /\ (e.end = r.end \/ e.end = c.end)
        /\ e.start <= e.end
    BY <1>7 DEF MortonRange, VoxelEnds
  <2> HIDE DEF e
  <2>2. VoxelEnds(e)
    BY <1>7, <2>1 DEF VoxelEnds
  <2> QED  BY <2>2 DEF e
<1>8. CASE BeginMerge
  <2>1. \A r \in RangesSoFar' : r \in RangesSoFar
    BY <1>8 DEF BeginMerge, RangesSoFar
  <2> QED  BY <2>1, <1>6, <1>8 DEF WithinInv, BeginMerge
<1>9. CASE Extend
  <2>1. PICK r \in raw :
            /\ current' = [current EXCEPT !.end = IF r.end > @ THEN r.end ELSE @]
            /\ raw' = raw \ {r}
    BY <1>9 DEF Extend
  <2>2. /\ r \in MortonRange /\ current \in MortonRange /\ current.start <= r.start
        /\ r \in RangesSoFar /\ current \in RangesSoFar
    BY <1>9 DEF Inv, TypeOK, MergeInOrder, Extend, RangesSoFar
  <2>3. VoxelEnds(current')
    BY <2>1, <2>2, <1>7 DEF WithinInv
  <2>4. \A q \in RangesSoFar' : q = current' \/ q \in RangesSoFar
    BY <2>1, <1>9 DEF RangesSoFar, Extend
  <2> QED  BY <2>3, <2>4, <1>6, <1>9 DEF WithinInv, Extend
<1>10. CASE NextRange \/ Finish
  <2>1. /\ merged' = Append(merged, current) /\ merged \in Seq(MortonRange) /\ current \in MortonRange
        /\ pc = "merge"
    BY <1>10 DEF NextRange, Finish, Inv, TypeOK
  <2>2. /\ DOMAIN merged' = 1 .. Len(merged) + 1 /\ DOMAIN merged = 1 .. Len(merged)
        /\ \A i \in 1 .. Len(merged) : i \in DOMAIN merged /\ merged'[i] = merged[i]
        /\ merged'[Len(merged) + 1] = current /\ Len(merged) \in Nat
    BY <2>1, AppendedRange
  <2>3. \A i \in DOMAIN merged' : merged'[i] \in RangesSoFar
    <3>1. \A i \in 1 .. Len(merged) + 1 : i \in 1 .. Len(merged) \/ i = Len(merged) + 1
      BY <2>2
    <3> QED  BY <3>1, <2>1, <2>2 DEF RangesSoFar
  <2>4. raw' \subseteq raw /\ (pc' = "merge" => current' \in raw)
    BY <1>10 DEF NextRange, Finish
  <2>5. \A q \in RangesSoFar' : q \in RangesSoFar
    BY <2>3, <2>4 DEF RangesSoFar
  <2> QED  BY <2>5, <1>6, <1>10 DEF WithinInv, NextRange, Finish
<1>11. CASE UNCHANGED vars
  <2>1. RangesSoFar' = RangesSoFar /\ stack' = stack
    BY <1>11 DEF vars, RangesSoFar
  <2> QED  BY <2>1, <1>6 DEF WithinInv
<1> QED  BY <1>4, <1>5, <1>8, <1>9, <1>10, <1>11 DEF Next

-----------------------------------------------------------------------------
(* How far the stack grows: the strengthening of StackBounded.             *)

\* A piece needs at most d halvings.
NeedsHalvings(e, b, d) == \A a \in Axis : Side(b, a) <= e[d]

\* The deeper in the stack, the larger the piece: each split adds at most seven.
StackInv(e) ==
    \A i \in DOMAIN stack :
        \E d \in 0 .. MaxDepth :
            NeedsHalvings(e, stack[i], d) /\ i <= 7 * (MaxDepth - d) + 1

\* The sides of a box that is not empty are numbers.
LEMMA SideIsNat ==
    ASSUME NEW b \in Box, ~IsEmpty(b), NEW a \in Axis
    PROVE  /\ Side(b, a) \in Nat /\ b.lo[a] \in Nat /\ b.hi[a] \in Nat
           /\ Side(b, a) <= MaxCoord
<1>1. b.lo[a] \in 0 .. MaxCoord /\ b.hi[a] \in 0 .. MaxCoord /\ b.lo[a] <= b.hi[a]
  BY MiddleOnSide, MortonAssumption DEF MortonAssumption, IsEmpty
<1> QED  BY <1>1, MortonAssumption DEF Side, MortonAssumption

\* A product grows with its factors.
LEMMA CubeMonotone ==
    ASSUME NEW m \in Nat, NEW x \in 0 .. m, NEW y \in 0 .. m, NEW z \in 0 .. m
    PROVE  x * y * z <= m * m * m
<1>1. x * y \in Nat /\ m * m \in Nat /\ x * m \in Nat
  OBVIOUS
<1>2. x * y <= x * m
  OBVIOUS
<1>3. x * m <= m * m
  OBVIOUS
<1>4. x * y <= m * m
  BY <1>1, <1>2, <1>3
<1>5. ASSUME NEW p \in Nat, NEW q \in Nat, p <= q PROVE p * z <= q * m
  <2>1. p * z <= q * z
    BY <1>5
  <2>2. q * z <= q * m
    BY <1>5
  <2>3. p * z \in Nat /\ q * z \in Nat /\ q * m \in Nat
    BY <1>5
  <2> QED  BY <2>1, <2>2, <2>3
<1> QED  BY <1>1, <1>4, <1>5

\* A piece that needs no halving is a leaf.
LEMMA SmallIsLeaf ==
    ASSUME NEW e, Halves(e), NEW b \in Box, ~IsEmpty(b), NeedsHalvings(e, b, 0)
    PROVE  IsLeaf(b)
<1>1. 0 \in 0 .. MaxDepth /\ e[0] \in Nat
  BY MortonAssumption DEF MortonAssumption, Halves
<1>2. /\ Side(b, 1) \in 0 .. e[0] /\ Side(b, 2) \in 0 .. e[0] /\ Side(b, 3) \in 0 .. e[0]
  BY <1>1, SideIsNat DEF Axis, NeedsHalvings
<1>3. Side(b, 1) * Side(b, 2) * Side(b, 3) <= e[0] * e[0] * e[0]
  BY <1>1, <1>2, CubeMonotone
<1>4. /\ Side(b, 1) * Side(b, 2) * Side(b, 3) \in Int
      /\ e[0] * e[0] * e[0] \in Int /\ LeafVolume \in Int
  BY <1>1, <1>2, MortonAssumption DEF MortonAssumption
<1> QED  BY <1>3, <1>4 DEF Halves, IsLeaf

\* An octant needs a halving less than its box.
LEMMA OctantHalved ==
    ASSUME NEW e, Halves(e), NEW b \in Box, ~IsEmpty(b), NEW d \in 1 .. MaxDepth,
           NeedsHalvings(e, b, d), NEW o \in SUBSET Axis, IsPushed(b, o)
    PROVE  NeedsHalvings(e, Octant(b, o), d - 1)
<1> SUFFICES ASSUME NEW a \in Axis PROVE Side(Octant(b, o), a) <= e[d - 1]
  BY DEF NeedsHalvings
<1>1. /\ d \in 0 .. MaxDepth /\ d - 1 \in 0 .. MaxDepth
  BY MortonAssumption DEF MortonAssumption
<1>2. /\ e[d] \in Nat /\ e[d - 1] \in Nat /\ e[d] <= 2 * e[d - 1] + 1
  BY <1>1 DEF Halves
<1>3. Side(b, a) \in Nat /\ b.lo[a] \in Nat /\ b.hi[a] \in Nat /\ Side(b, a) <= e[d]
  BY SideIsNat DEF NeedsHalvings
<1>4. Side(b, a) = b.hi[a] - b.lo[a]
  BY DEF Side
<1>5. Middle(b, a) = b.lo[a] + Side(b, a) \div 2
  BY DEF Middle
<1>6. CASE a \in o
  <2>1. Side(Octant(b, o), a) = b.hi[a] - (Middle(b, a) + 1)
    BY <1>6 DEF Octant, Side
  <2> QED  BY <1>2, <1>3, <1>4, <1>5, <2>1
<1>7. CASE a \notin o
  <2>1. Side(Octant(b, o), a) = Middle(b, a) - b.lo[a]
    BY <1>7 DEF Octant, Side
  <2> QED  BY <1>2, <1>3, <1>4, <1>5, <2>1
<1> QED  BY <1>6, <1>7

\* At most eight octants are pushed, each of them needing a halving less.
LEMMA OctantsHalved ==
    ASSUME NEW e, Halves(e), NEW b \in Box, ~IsEmpty(b), NEW d \in 1 .. MaxDepth,
           NeedsHalvings(e, b, d)
    PROVE  /\ Octants(b) \in Seq({p \in Box : NeedsHalvings(e, p, d - 1)})
           /\ Len(Octants(b)) <= 8
<1> DEFINE S == {p \in Box : NeedsHalvings(e, p, d - 1)}
           P(o) == Pushed(b, o)
<1>1. \A o \in SUBSET Axis : P(o) \in Seq(S) /\ Len(P(o)) <= 1
  <2> SUFFICES ASSUME NEW o \in SUBSET Axis PROVE P(o) \in Seq(S) /\ Len(P(o)) <= 1
    OBVIOUS
  <2>1. CASE IsPushed(b, o)
    <3>1. Octant(b, o) \in S
      BY <2>1, OctantIsBox, OctantHalved
    <3>2. P(o) = <<Octant(b, o)>>
      BY <2>1 DEF Pushed
    <3> QED  BY <3>1, <3>2
  <2>2. CASE ~IsPushed(b, o)
    BY <2>2 DEF Pushed
  <2> QED  BY <2>1, <2>2
<1>2. /\ {} \in SUBSET Axis /\ {1} \in SUBSET Axis /\ {2} \in SUBSET Axis
      /\ {1, 2} \in SUBSET Axis /\ {3} \in SUBSET Axis /\ {1, 3} \in SUBSET Axis
      /\ {2, 3} \in SUBSET Axis /\ {1, 2, 3} \in SUBSET Axis
  BY DEF Axis
<1> DEFINE S2 == P({}) \o P({1})
           S3 == S2 \o P({2})
           S4 == S3 \o P({1, 2})
           S5 == S4 \o P({3})
           S6 == S5 \o P({1, 3})
           S7 == S6 \o P({2, 3})
           S8 == S7 \o P({1, 2, 3})
<1>3. Octants(b) = S8
  BY DEF Octants
<1> HIDE DEF P, S
<1>4. /\ P({}) \in Seq(S) /\ Len(P({})) <= 1
      /\ P({1}) \in Seq(S) /\ Len(P({1})) <= 1
      /\ P({2}) \in Seq(S) /\ Len(P({2})) <= 1
      /\ P({1, 2}) \in Seq(S) /\ Len(P({1, 2})) <= 1
      /\ P({3}) \in Seq(S) /\ Len(P({3})) <= 1
      /\ P({1, 3}) \in Seq(S) /\ Len(P({1, 3})) <= 1
      /\ P({2, 3}) \in Seq(S) /\ Len(P({2, 3})) <= 1
      /\ P({1, 2, 3}) \in Seq(S) /\ Len(P({1, 2, 3})) <= 1
  BY <1>1, <1>2
<1>5. S2 \in Seq(S) /\ Len(S2) <= 2
  BY <1>4
<1> HIDE DEF S2
<1>6. S3 \in Seq(S) /\ Len(S3) <= 3
  BY <1>4, <1>5
<1> HIDE DEF S3
<1>7. S4 \in Seq(S) /\ Len(S4) <= 4
  BY <1>4, <1>6
<1> HIDE DEF S4
<1>8. S5 \in Seq(S) /\ Len(S5) <= 5
  BY <1>4, <1>7
<1> HIDE DEF S5
<1>9. S6 \in Seq(S) /\ Len(S6) <= 6
  BY <1>4, <1>8
<1> HIDE DEF S6
<1>10. S7 \in Seq(S) /\ Len(S7) <= 7
  BY <1>4, <1>9
<1> HIDE DEF S7
<1>11. S8 \in Seq(S) /\ Len(S8) <= 8
  BY <1>4, <1>10
<1> HIDE DEF S8
<1> QED  BY <1>3, <1>11 DEF S

\* The box asked for needs no more halvings than the world.
LEMMA InitStack == ASSUME NEW e, Halves(e) PROVE Init => StackInv(e)
<1> SUFFICES ASSUME Init PROVE StackInv(e)
  OBVIOUS
<1>1. box \in Box /\ WithinBox(box) /\ stack = <<box>>
  <2>1. /\ stack = <<box>> /\ Inv /\ WithinInv
    BY InitInv, InitWithin DEF Init
  <2>2. 1 \in DOMAIN stack /\ stack[1] = box
    BY <2>1
  <2> QED  BY <2>1, <2>2 DEF Inv, TypeOK, WithinInv
<1>2. MaxDepth \in Nat /\ MaxCoord \in Nat /\ e[MaxDepth] \in Nat /\ MaxCoord <= e[MaxDepth]
  BY MortonAssumption DEF MortonAssumption, Halves
<1>3. NeedsHalvings(e, box, MaxDepth)
  <2> SUFFICES ASSUME NEW a \in Axis PROVE Side(box, a) <= e[MaxDepth]
    BY DEF NeedsHalvings
  <2>1. Side(box, a) \in Nat /\ Side(box, a) <= MaxCoord
    BY <1>1, SideIsNat DEF WithinBox
  <2> QED  BY <2>1, <1>2
<1>4. \A i \in DOMAIN stack : i = 1 /\ stack[i] = box
  BY <1>1
<1>5. MaxDepth \in 0 .. MaxDepth /\ 1 <= 7 * (MaxDepth - MaxDepth) + 1
  BY <1>2
<1> QED  BY <1>3, <1>4, <1>5 DEF StackInv

\* A split makes the stack longer by seven at most, and its top smaller.
LEMMA NextStack ==
    ASSUME NEW e, Halves(e)
    PROVE  Inv /\ WithinInv /\ StackInv(e) /\ [Next]_vars => StackInv(e)'
<1> SUFFICES ASSUME Inv, WithinInv, StackInv(e), [Next]_vars PROVE StackInv(e)'
  OBVIOUS
<1>1. CASE Emit
  <2>1. /\ stack' = Popped /\ stack # <<>> /\ stack \in Seq(Box)
    BY <1>1 DEF Emit, Inv, TypeOK
  <2>2. \A i \in DOMAIN stack' : i \in DOMAIN stack /\ stack'[i] = stack[i]
    BY <2>1, PoppedInPlace
  <2> QED  BY <2>2 DEF StackInv, NeedsHalvings, Side
<1>2. CASE Split
  <2>1. /\ stack' = Popped \o Octants(Top) /\ stack # <<>> /\ stack \in Seq(Box)
        /\ Top \in Box /\ ~IsEmpty(Top) /\ ~IsLeaf(Top)
    BY <1>2, PoppedWithin DEF Split, Inv, TypeOK
  <2>2. /\ Popped \in Seq(Box) /\ Len(Popped) = Len(stack) - 1
        /\ \A i \in 1 .. Len(stack) - 1 : i \in DOMAIN stack /\ Popped[i] = stack[i]
        /\ Len(stack) \in Nat \ {0} /\ Len(stack) \in DOMAIN stack
    BY <2>1, PoppedInPlace
  <2>3. PICK d \in 0 .. MaxDepth :
            NeedsHalvings(e, Top, d) /\ Len(stack) <= 7 * (MaxDepth - d) + 1
    BY <2>2 DEF StackInv, Top
  <2>4. d \in 1 .. MaxDepth /\ MaxDepth \in Nat /\ d - 1 \in 0 .. MaxDepth
    <3>1. d # 0
      BY <2>1, <2>3, SmallIsLeaf
    <3>2. MaxDepth \in Nat
      BY MortonAssumption DEF MortonAssumption
    <3> QED  BY <2>3, <3>1, <3>2
  <2> DEFINE S == {p \in Box : NeedsHalvings(e, p, d - 1)}
  <2>5. Octants(Top) \in Seq(S) /\ Len(Octants(Top)) <= 8
    BY <2>1, <2>3, <2>4, OctantsHalved
  <2>6. ASSUME NEW p \in Box, p \in S PROVE NeedsHalvings(e, p, d - 1)
    BY <2>6
  <2>7. S \subseteq Box
    OBVIOUS
  <2> HIDE DEF S
  <2> DEFINE n == Len(stack) - 1
             t == Octants(Top)
  <2>8. /\ n \in Nat /\ t \in Seq(S) /\ Len(t) \in Nat /\ Len(t) <= 8
        /\ Len(Popped) = n /\ stack' = Popped \o t
    BY <2>1, <2>2, <2>5
  <2> HIDE DEF n, t
  <2>9. /\ DOMAIN stack' = 1 .. n + Len(t)
        /\ \A i \in 1 .. n : stack'[i] = Popped[i]
        /\ \A i \in n + 1 .. n + Len(t) : stack'[i] \in S
    <3>1. Popped \in Seq(Box) /\ t \in Seq(Box)
      BY <2>2, <2>7, <2>8
    <3>2. /\ DOMAIN stack' = 1 .. n + Len(t)
          /\ \A i \in 1 .. n : stack'[i] = Popped[i]
          /\ \A i \in n + 1 .. n + Len(t) : stack'[i] = t[i - n]
      BY <2>8, <3>1
    <3>3. \A j \in 1 .. Len(t) : t[j] \in S
      BY <2>8
    <3>4. \A i \in n + 1 .. n + Len(t) : i - n \in 1 .. Len(t)
      BY <2>8
    <3> QED  BY <3>2, <3>3, <3>4
  <2>10. SUFFICES ASSUME NEW i \in DOMAIN stack'
         PROVE  \E g \in 0 .. MaxDepth :
                    NeedsHalvings(e, stack'[i], g) /\ i <= 7 * (MaxDepth - g) + 1
    BY DEF StackInv, NeedsHalvings, Side
  <2>11. CASE i \in 1 .. n
    <3>1. i \in DOMAIN stack /\ stack'[i] = stack[i]
      BY <2>2, <2>9, <2>11 DEF n
    <3> QED  BY <3>1 DEF StackInv
  <2>12. CASE i \in n + 1 .. n + Len(t)
    <3>1. NeedsHalvings(e, stack'[i], d - 1)
      BY <2>6, <2>7, <2>9, <2>12
    <3>2. i <= 7 * (MaxDepth - (d - 1)) + 1
      <4>1. n <= 7 * (MaxDepth - d)
        BY <2>2, <2>3, <2>4 DEF n
      <4>2. i \in Int /\ i <= n + 8
        BY <2>8, <2>12
      <4> QED  BY <4>1, <4>2, <2>4, <2>8
    <3> QED  BY <3>1, <3>2, <2>4
  <2>13. i \in 1 .. n + Len(t)
    BY <2>9, <2>10
  <2>14. n \in Nat /\ Len(t) \in Nat
    BY <2>8
  <2>15. i \in 1 .. n \/ i \in n + 1 .. n + Len(t)
    BY <2>13, <2>14
  <2> QED  BY <2>11, <2>12, <2>15
<1>3. CASE BeginMerge \/ Extend \/ NextRange \/ Finish \/ UNCHANGED vars
  <2>1. stack' = stack
    BY <1>3 DEF BeginMerge, Extend, NextRange, Finish, vars
  <2> QED  BY <2>1 DEF StackInv, NeedsHalvings, Side
<1> QED  BY <1>1, <1>2, <1>3 DEF Next

-----------------------------------------------------------------------------
(* The theorems.                                                           *)

\* Boxes stay in the world and codes are numbers, however a box is split.
THEOREM GeneratorTyped == Spec => []TypeOK
<1>1. Inv => TypeOK
  BY DEF Inv
<1> QED  BY <1>1, Invariance, PTL

\* At no point is a voxel of the box forgotten (GenerateRanges, MergeRanges).
THEOREM GeneratorLosesNothing == Spec => []NothingLost
<1>1. Inv => NothingLost
  BY DEF Inv
<1> QED  BY <1>1, Invariance, PTL

\* A scan of the result meets every voxel of the box: for every world and every leaf
\* size, and for every SplitBy2 that is monotone.
THEOREM GeneratorCovers == Spec => []BoxCovered
<1>1. Inv => BoxCovered
  <2> SUFFICES ASSUME Inv, pc = "done", NEW v \in Voxel, Inside(v, box)
               PROVE  \E i \in DOMAIN merged : InRange(Code(v), merged[i])
    BY DEF BoxCovered
  <2>1. stack = <<>> /\ raw = {}
    BY DEF Inv, MergeInOrder
  <2>2. RangesSoFar = {merged[i] : i \in DOMAIN merged}
    BY <2>1 DEF RangesSoFar
  <2>3. ~(\E i \in DOMAIN stack : Inside(v, stack[i]))
    BY <2>1
  <2> QED  BY <2>2, <2>3 DEF Inv, NothingLost
<1> QED  BY <1>1, Invariance, PTL

\* The ranges of the result are in order and no two of them touch (MergeRanges), so
\* a scan of one after the other meets no key twice.
THEOREM GeneratorApart == Spec => []RangesApart
<1>1. Inv => RangesApart
  BY DEF Inv, MergeInOrder, RangesApart
<1> QED  BY <1>1, Invariance, PTL

\* No range reaches beyond the box: each begins at the code of a voxel of the box and
\* ends at one, also behind all splitting and merging.
THEOREM GeneratorEndsInBox == Spec => []EndsInBox
<1>1. Inv /\ WithinInv => EndsInBox
  <2> SUFFICES ASSUME WithinInv, NEW i \in DOMAIN merged PROVE VoxelEnds(merged[i])
    BY DEF EndsInBox, VoxelEnds
  <2>1. merged[i] \in RangesSoFar
    BY DEF RangesSoFar
  <2> QED  BY <2>1 DEF WithinInv
<1> QED  BY <1>1, InitWithin, NextWithin, Invariance, PTL DEF Spec

\* The explicit stack never holds more than seven pieces for each halving and one
\* more, if MaxDepth halvings make every piece of the world a leaf.
THEOREM GeneratorStackBounded ==
    ASSUME NEW e, Halves(e) PROVE Spec => []StackBounded
<1>1. Inv /\ StackInv(e) => StackBounded
  <2> SUFFICES ASSUME Inv, StackInv(e) PROVE Len(stack) <= 7 * MaxDepth + 1
    BY DEF StackBounded
  <2>1. Len(stack) \in Nat /\ DOMAIN stack = 1 .. Len(stack) /\ MaxDepth \in Nat
    BY MortonAssumption DEF Inv, TypeOK, MortonAssumption
  <2>2. CASE Len(stack) = 0
    BY <2>1, <2>2
  <2>3. CASE Len(stack) # 0
    <3>1. Len(stack) \in DOMAIN stack
      BY <2>1, <2>3
    <3>2. PICK d \in 0 .. MaxDepth : Len(stack) <= 7 * (MaxDepth - d) + 1
      BY <3>1 DEF StackInv
    <3> QED  BY <2>1, <3>2
  <2> QED  BY <2>2, <2>3
<1>2. Init => StackInv(e)
  BY InitStack
<1>3. Inv /\ WithinInv /\ StackInv(e) /\ [Next]_vars => StackInv(e)'
  BY NextStack
<1> QED  BY <1>1, <1>2, <1>3, InitWithin, NextWithin, Invariance, PTL DEF Spec
-----------------------------------------------------------------------------
(* Functions defined by recursion.                                         *)

\* f is what a loop computes that begins with c and gets from prev[n] to n by step.
Computes(f, m, c, prev, step) ==
    \A n \in 0 .. m : f[n] = IF n = 0 THEN c ELSE step[<<n, f[prev[n]]>>]

Recursion(S, c, prev, step) ==
    /\ c \in S
    /\ prev \in [Nat -> Nat]
    /\ \A n \in Nat \ {0} : prev[n] < n
    /\ step \in [Nat \X S -> S]

\* There is such a function up to each m: it could not be the first one that lacks it.
LEMMA ComputesUpTo ==
    ASSUME NEW S, NEW c, NEW prev, NEW step, Recursion(S, c, prev, step), NEW m \in Nat
    PROVE  \E f \in [0 .. m -> S] : Computes(f, m, c, prev, step)
<1>0. /\ c \in S /\ prev \in [Nat -> Nat] /\ step \in [Nat \X S -> S]
      /\ \A n \in Nat \ {0} : prev[n] < n
  BY DEF Recursion
<1> USE <1>0
<1> DEFINE Bad == {n \in Nat : ~\E f \in [0 .. n -> S] : Computes(f, n, c, prev, step)}
<1>1. ASSUME NEW n \in Bad, \A l \in Bad : n <= l PROVE FALSE
  <2>1. n \in Nat /\ ~\E f \in [0 .. n -> S] : Computes(f, n, c, prev, step)
    OBVIOUS
  <2>2. n # 0
    <3>1. \A i \in 0 .. 0 : i = 0
      OBVIOUS
    <3>2. [i \in 0 .. 0 |-> c] \in [0 .. 0 -> S] /\ Computes([i \in 0 .. 0 |-> c], 0, c, prev, step)
      BY <3>1 DEF Computes
    <3> QED  BY <2>1, <3>2
  <2>3. n - 1 \in Nat /\ ~(n <= n - 1) /\ n >= 1
    BY <2>1, <2>2
  <2>4. n - 1 \notin Bad
    <3> HIDE DEF Bad
    <3> QED  BY <1>1, <2>3
  <2>5. PICK f \in [0 .. n - 1 -> S] : Computes(f, n - 1, c, prev, step)
    BY <2>3, <2>4
  <2> HIDE DEF Bad
  <2> DEFINE last == step[<<n, f[prev[n]]>>]
             g == [i \in 0 .. n |-> IF i = n THEN last ELSE f[i]]
  <2>6. prev[n] \in 0 .. n - 1 /\ last \in S
    <3>1. prev[n] \in 0 .. n - 1
      BY <2>1, <2>2
    <3> QED  BY <2>1, <3>1
  <2> HIDE DEF last
  <2>7. g \in [0 .. n -> S]
    <3>1. \A i \in 0 .. n : i # n => i \in 0 .. n - 1
      BY <2>1
    <3>2. \A i \in 0 .. n : (IF i = n THEN last ELSE f[i]) \in S
      BY <2>6, <3>1
    <3> QED  BY <3>2
  <2>8. ASSUME NEW i \in 0 .. n
        PROVE  g[i] = IF i = 0 THEN c ELSE step[<<i, g[prev[i]]>>]
    <3>1. CASE i = n
      <4>1. g[i] = last /\ g[prev[i]] = f[prev[i]]
        BY <2>1, <2>3, <2>6, <3>1
      <4> QED  BY <2>2, <3>1, <4>1 DEF last
    <3>2. CASE i # n /\ i # 0
      <4>1. i \in 0 .. n - 1 /\ prev[i] \in 0 .. n - 1
        BY <2>1, <3>2
      <4>2. g[i] = f[i] /\ g[prev[i]] = f[prev[i]]
        BY <2>1, <3>2, <4>1
      <4> HIDE DEF g
      <4> QED  BY <2>5, <3>2, <4>1, <4>2 DEF Computes
    <3>3. CASE i # n /\ i = 0
      <4>1. i \in 0 .. n - 1 /\ g[i] = f[i]
        BY <2>1, <2>3, <3>3
      <4> HIDE DEF g
      <4> QED  BY <2>5, <3>3, <4>1 DEF Computes
    <3> QED  BY <3>1, <3>2, <3>3
  <2>9. Computes(g, n, c, prev, step)
    <3> HIDE DEF g
    <3> QED  BY <2>8 DEF Computes
  <2> QED  BY <2>1, <2>7, <2>9
<1>2. Bad = {}
  <2> SUFFICES ASSUME Bad # {} PROVE FALSE
    OBVIOUS
  <2>1. Bad \in SUBSET Nat
    OBVIOUS
  <2> HIDE DEF Bad
  <2>2. PICK n \in Bad : \A l \in Bad : n <= l
    BY <2>1, LeastExists
  <2> QED  BY <1>1, <2>2
<1> QED  BY <1>2

\* Two of them agree as far as both go.
LEMMA ComputesAgree ==
    ASSUME NEW S, NEW c, NEW prev, NEW step, Recursion(S, c, prev, step),
           NEW m \in Nat, NEW l \in Nat,
           NEW f, Computes(f, m, c, prev, step), NEW g, Computes(g, l, c, prev, step)
    PROVE  \A n \in 0 .. m : n <= l => f[n] = g[n]
<1>0. /\ c \in S /\ prev \in [Nat -> Nat] /\ step \in [Nat \X S -> S]
      /\ \A n \in Nat \ {0} : prev[n] < n
  BY DEF Recursion
<1> USE <1>0
<1> DEFINE Bad == {n \in 0 .. m : n <= l /\ f[n] # g[n]}
<1>1. ASSUME NEW n \in Bad, \A k \in Bad : n <= k PROVE FALSE
  <2>1. n \in 0 .. m /\ n \in 0 .. l /\ f[n] # g[n] /\ n \in Nat
    OBVIOUS
  <2> HIDE DEF Bad
  <2>2. CASE n = 0
    BY <2>1, <2>2 DEF Computes
  <2>3. CASE n # 0
    <3>1. prev[n] \in 0 .. m /\ prev[n] <= l /\ ~(n <= prev[n])
      BY <2>1, <2>3
    <3>2. f[prev[n]] = g[prev[n]]
      BY <1>1, <3>1 DEF Bad
    <3>3. f[n] = step[<<n, f[prev[n]]>>] /\ g[n] = step[<<n, g[prev[n]]>>]
      BY <2>1, <2>3 DEF Computes
    <3> QED  BY <2>1, <3>2, <3>3
  <2> QED  BY <2>2, <2>3
<1>2. Bad = {}
  <2> SUFFICES ASSUME Bad # {} PROVE FALSE
    OBVIOUS
  <2>1. Bad \in SUBSET Nat
    OBVIOUS
  <2> HIDE DEF Bad
  <2>2. PICK n \in Bad : \A k \in Bad : n <= k
    BY <2>1, LeastExists
  <2> QED  BY <1>1, <2>2
<1> QED  BY <1>2

\* So there is one for all numbers.
LEMMA ComputesAll ==
    ASSUME NEW S, NEW c, NEW prev, NEW step, Recursion(S, c, prev, step)
    PROVE  \E f \in [Nat -> S] :
              f = [n \in Nat |-> IF n = 0 THEN c ELSE step[<<n, f[prev[n]]>>]]
<1>0. /\ c \in S /\ prev \in [Nat -> Nat] /\ step \in [Nat \X S -> S]
      /\ \A n \in Nat \ {0} : prev[n] < n
  BY DEF Recursion
<1> DEFINE Up(n) == CHOOSE f \in [0 .. n -> S] : Computes(f, n, c, prev, step)
           f == [n \in Nat |-> Up(n)[n]]
<1>1. \A n \in Nat : Up(n) \in [0 .. n -> S] /\ Computes(Up(n), n, c, prev, step)
  BY ComputesUpTo
<1> HIDE DEF Up
<1>2. f \in [Nat -> S]
  <2>1. \A n \in Nat : n \in 0 .. n
    OBVIOUS
  <2> QED  BY <1>1, <2>1
<1>3. ASSUME NEW n \in Nat
      PROVE  f[n] = IF n = 0 THEN c ELSE step[<<n, f[prev[n]]>>]
  <2>1. n \in 0 .. n
    OBVIOUS
  <2>2. f[n] = IF n = 0 THEN c ELSE step[<<n, Up(n)[prev[n]]>>]
    BY <1>1, <2>1 DEF Computes
  <2>3. CASE n = 0
    BY <2>2, <2>3
  <2>4. CASE n # 0
    <3>1. prev[n] \in Nat /\ prev[n] \in 0 .. n /\ prev[n] <= prev[n]
      BY <1>0, <2>4
    <3>2. Up(n)[prev[n]] = Up(prev[n])[prev[n]]
      <4> DEFINE p == prev[n]
                 h == Up(n)
                 g == Up(p)
      <4>1. p \in Nat /\ p \in 0 .. n /\ p <= p
        BY <3>1
      <4>2. /\ h \in [0 .. n -> S] /\ Computes(h, n, c, prev, step)
            /\ g \in [0 .. p -> S] /\ Computes(g, p, c, prev, step)
        BY <1>1, <4>1
      <4> HIDE DEF p, h, g
      <4>3. \A i \in 0 .. n : i <= p => h[i] = g[i]
        BY <4>1, <4>2, ComputesAgree
      <4>4. h[p] = g[p]
        BY <4>1, <4>3
      <4> QED  BY <4>4 DEF p, h, g
    <3>3. f[prev[n]] = Up(prev[n])[prev[n]]
      BY <3>1
    <3> HIDE DEF f
    <3> QED  BY <2>2, <2>4, <3>2, <3>3
  <2> QED  BY <2>3, <2>4
<1> HIDE DEF f
<1> QED  BY <1>2, <1>3
-----------------------------------------------------------------------------
(* Bits and codes.                                                         *)

Before == [n \in Nat |-> IF n = 0 THEN 0 ELSE n - 1]
Half == [n \in Nat |-> n \div 2]
Eighth == [n \in Nat |-> n \div 8]

\* Each of them goes down to 0.
LEMMA GoDown ==
    /\ \A n \in Nat : Before[n] \in Nat /\ Half[n] \in Nat /\ Eighth[n] \in Nat
    /\ \A n \in Nat \ {0} : Before[n] < n /\ Half[n] < n /\ Eighth[n] < n
BY DEF Before, Half, Eighth

\* What holds of a number if it holds of the one it goes down to, holds of all.
LEMMA Descent ==
    ASSUME NEW P, NEW prev, prev \in {Before, Half, Eighth},
           \A n \in Nat : (n # 0 => prev[n] \in P) => n \in P
    PROVE  \A n \in Nat : n \in P
<1> DEFINE Bad == {n \in Nat : n \notin P}
<1>1. ASSUME NEW n \in Bad, \A l \in Bad : n <= l PROVE FALSE
  <2>1. n \in Nat /\ n \notin P
    OBVIOUS
  <2>2. n # 0 /\ prev[n] \notin P
    BY <2>1
  <2>3. prev[n] \in Nat /\ prev[n] < n
    BY <2>1, <2>2, GoDown
  <2>4. prev[n] \in Bad /\ ~(n <= prev[n])
    BY <2>1, <2>2, <2>3
  <2> HIDE DEF Bad
  <2> QED  BY <1>1, <2>4
<1>2. Bad = {}
  <2> SUFFICES ASSUME Bad # {} PROVE FALSE
    OBVIOUS
  <2>1. Bad \in SUBSET Nat
    OBVIOUS
  <2> HIDE DEF Bad
  <2>2. PICK n \in Bad : \A l \in Bad : n <= l
    BY <2>1, LeastExists
  <2> QED  BY <1>1, <2>2
<1> QED  BY <1>2

\* Powers are powers.
LEMMA PowerIs ==
    \A n \in Nat : /\ Power[n] \in Nat \ {0}
                   /\ Power[n] = IF n = 0 THEN 1 ELSE 2 * Power[n - 1]
<1> DEFINE step == [p \in Nat \X (Nat \ {0}) |-> 2 * p[2]]
<1>1. Recursion(Nat \ {0}, 1, Before, step)
  <2>1. \A p \in Nat \X (Nat \ {0}) : 2 * p[2] \in Nat \ {0}
    OBVIOUS
  <2>2. step \in [Nat \X (Nat \ {0}) -> Nat \ {0}]
    BY <2>1
  <2> HIDE DEF step
  <2> QED  BY <2>2 DEF Recursion, Before
<1>2. PICK f \in [Nat -> Nat \ {0}] :
          f = [n \in Nat |-> IF n = 0 THEN 1 ELSE step[<<n, f[Before[n]]>>]]
  <2> HIDE DEF step
  <2> QED  BY <1>1, ComputesAll
<1>3. f = [n \in Nat |-> IF n = 0 THEN 1 ELSE 2 * f[n - 1]]
  <2>1. \A n \in Nat \ {0} : Before[n] = n - 1 /\ n - 1 \in Nat
    BY DEF Before
  <2>2. \A n \in Nat \ {0} : step[<<n, f[Before[n]]>>] = 2 * f[n - 1]
    BY <2>1
  <2> HIDE DEF step
  <2> QED  BY <1>2, <2>2
<1>4. Power = [n \in Nat |-> IF n = 0 THEN 1 ELSE 2 * Power[n - 1]]
  BY <1>3, Zenon DEF Power
<1>5. \A n \in Nat : Power[n] = IF n = 0 THEN 1 ELSE 2 * Power[n - 1]
  BY <1>4
<1>6. \A n \in Nat : n \in {i \in Nat : Power[i] \in Nat \ {0}}
  <2> DEFINE P == {i \in Nat : Power[i] \in Nat \ {0}}
  <2>1. ASSUME NEW n \in Nat, n # 0 => Before[n] \in P PROVE n \in P
    BY <1>5, <2>1 DEF Before
  <2> HIDE DEF P
  <2>2. \A n \in Nat : n \in P
    BY <2>1, Descent
  <2> QED  BY <2>2 DEF P
<1> QED  BY <1>5, <1>6

\* Spread doubles a step eightfold.
LEMMA SpreadIs ==
    \A a \in Nat : /\ Spread[a] \in Nat
                   /\ Spread[a] = IF a = 0 THEN 0 ELSE (a % 2) + 8 * Spread[a \div 2]
<1> DEFINE step == [p \in Nat \X Nat |-> (p[1] % 2) + 8 * p[2]]
<1>1. Recursion(Nat, 0, Half, step)
  <2>1. \A p \in Nat \X Nat : (p[1] % 2) + 8 * p[2] \in Nat
    OBVIOUS
  <2>2. step \in [Nat \X Nat -> Nat]
    BY <2>1
  <2> HIDE DEF step
  <2> QED  BY <2>2, GoDown DEF Recursion, Half
<1>2. PICK f \in [Nat -> Nat] :
          f = [n \in Nat |-> IF n = 0 THEN 0 ELSE step[<<n, f[Half[n]]>>]]
  <2> HIDE DEF step
  <2> QED  BY <1>1, ComputesAll
<1>3. f = [n \in Nat |-> IF n = 0 THEN 0 ELSE (n % 2) + 8 * f[n \div 2]]
  <2>1. \A n \in Nat \ {0} : Half[n] = n \div 2 /\ n \div 2 \in Nat
    BY DEF Half
  <2>2. \A n \in Nat \ {0} : step[<<n, f[Half[n]]>>] = (n % 2) + 8 * f[n \div 2]
    BY <2>1
  <2> HIDE DEF step
  <2> QED  BY <1>2, <2>2
<1>4. Spread = [a \in Nat |-> IF a = 0 THEN 0 ELSE (a % 2) + 8 * Spread[a \div 2]]
  BY <1>3, Zenon DEF Spread
<1>5. \A a \in Nat : Spread[a] = IF a = 0 THEN 0 ELSE (a % 2) + 8 * Spread[a \div 2]
  BY <1>4
<1>6. \A a \in Nat : a \in {i \in Nat : Spread[i] \in Nat}
  <2> DEFINE P == {i \in Nat : Spread[i] \in Nat}
  <2>1. ASSUME NEW a \in Nat, a # 0 => Half[a] \in P PROVE a \in P
    <3>1. CASE a = 0
      BY <1>5, <3>1
    <3>2. CASE a # 0
      <4>1. Half[a] = a \div 2 /\ Spread[a \div 2] \in Nat /\ a % 2 \in Nat
        BY <2>1, <3>2 DEF Half
      <4> QED  BY <1>5, <3>2, <4>1
    <3> QED  BY <3>1, <3>2
  <2> HIDE DEF P
  <2>2. \A a \in Nat : a \in P
    BY <2>1, Descent
  <2> QED  BY <2>2 DEF P
<1> QED  BY <1>5, <1>6

\* Spread keeps the order: the highest bit that differs decides, here as there.
LEMMA SpreadGrows ==
    \A a, b \in Nat : a < b => Spread[a] < Spread[b]
<1> DEFINE P == {b \in Nat : \A a \in Nat : a < b => Spread[a] < Spread[b]}
<1>1. ASSUME NEW b \in Nat, b # 0 => Half[b] \in P PROVE b \in P
  <2> SUFFICES ASSUME NEW a \in Nat, a < b PROVE Spread[a] < Spread[b]
    OBVIOUS
  <2>1. b # 0 /\ Half[b] = b \div 2
    BY DEF Half
  <2> DEFINE c == a \div 2
             d == b \div 2
  <2>2. c \in Nat /\ d \in Nat /\ a % 2 \in 0 .. 1 /\ b % 2 \in 0 .. 1
    OBVIOUS
  <2>3. c < d \/ (c = d /\ a % 2 < b % 2)
    OBVIOUS
  <2>4. c < d => Spread[c] < Spread[d]
    BY <1>1, <2>1, <2>2
  <2>5. Spread[b] = (b % 2) + 8 * Spread[d]
    BY <2>1, SpreadIs
  <2>6. Spread[a] = (a % 2) + 8 * Spread[c]
    <3>1. CASE a = 0
      <4>1. c = 0 /\ a % 2 = 0
        BY <3>1
      <4> QED  BY <3>1, <4>1, SpreadIs
    <3>2. CASE a # 0
      BY <3>2, SpreadIs
    <3> QED  BY <3>1, <3>2
  <2>7. Spread[c] \in Nat /\ Spread[d] \in Nat
    BY <2>2, SpreadIs
  <2> HIDE DEF c, d, P
  <2> QED  BY <2>2, <2>3, <2>4, <2>5, <2>6, <2>7
<1> HIDE DEF P
<1>2. \A b \in Nat : b \in P
  BY <1>1, Descent
<1> QED  BY <1>2 DEF P

\* Spread, of an even and of an odd number alike.
LEMMA SpreadHalves ==
    \A a \in Nat : /\ Spread[a] = (a % 2) + 8 * Spread[a \div 2]
                   /\ a % 2 \in 0 .. 1 /\ a \div 2 \in Nat /\ Spread[a \div 2] \in Nat
<1> SUFFICES ASSUME NEW a \in Nat
             PROVE  /\ Spread[a] = (a % 2) + 8 * Spread[a \div 2]
                    /\ a % 2 \in 0 .. 1 /\ a \div 2 \in Nat /\ Spread[a \div 2] \in Nat
  OBVIOUS
<1>1. a % 2 \in 0 .. 1 /\ a \div 2 \in Nat
  OBVIOUS
<1>2. CASE a = 0
  <2>1. a \div 2 = 0 /\ a % 2 = 0
    BY <1>2
  <2> QED  BY <1>1, <1>2, <2>1, SpreadIs
<1>3. CASE a # 0
  BY <1>1, <1>3, SpreadIs
<1> QED  BY <1>2, <1>3

\* The coordinates of the world are numbers below a power of two.
LEMMA CoordIs ==
    /\ Power[Bits] \in Nat \ {0}
    /\ \A a \in Coord : a \in Nat /\ a < Power[Bits] /\ SplitBits(a) = Spread[a]
<1>1. Power[Bits] \in Nat \ {0}
  BY BitsAssumption, PowerIs DEF BitsAssumption
<1> SUFFICES ASSUME NEW a \in Coord
             PROVE  a \in Nat /\ a < Power[Bits] /\ SplitBits(a) = Spread[a]
  BY <1>1
<1> DEFINE world == Power[Bits]
<1>2. world \in Nat \ {0} /\ a \in 0 .. world - 1
  BY <1>1 DEF Coord
<1> HIDE DEF world
<1>3. a % world = a
  BY <1>2
<1> QED  BY <1>2, <1>3 DEF SplitBits, world

\* SplitBy2 keeps the order of coordinates, so it is what MortonAssumption asks for.
THEOREM SplitBitsGrows ==
    /\ \A a \in Coord : SplitBits(a) \in Nat
    /\ \A a, b \in Coord : a < b => SplitBits(a) < SplitBits(b)
BY CoordIs, SpreadIs, SpreadGrows

\* Coordinates beyond the world are taken modulo its size (the mask of SplitBy2).
THEOREM WorldIsCut ==
    \A a \in Coord : SplitBits(a + Power[Bits]) = SplitBits(a)
<1> SUFFICES ASSUME NEW a \in Coord PROVE SplitBits(a + Power[Bits]) = SplitBits(a)
  OBVIOUS
<1> DEFINE world == Power[Bits]
<1>1. world \in Nat \ {0} /\ a \in 0 .. world - 1
  BY CoordIs DEF Coord
<1> HIDE DEF world
<1>2. (a + world) % world = a % world
  BY <1>1
<1> QED  BY <1>2 DEF SplitBits, world

\* What Decode makes of a code, by one equation.
LEMMA DecodeIs ==
    \A n \in Nat : /\ Decode[n] \in Nat \X Nat \X Nat
                   /\ Decode[n] = IF n = 0 THEN <<0, 0, 0>>
                                  ELSE <<(n % 2) + 2 * Decode[n \div 8][1],
                                         ((n \div 2) % 2) + 2 * Decode[n \div 8][2],
                                         ((n \div 4) % 2) + 2 * Decode[n \div 8][3]>>
<1> DEFINE T == Nat \X Nat \X Nat
           Grown(n, r) == <<(n % 2) + 2 * r[1], ((n \div 2) % 2) + 2 * r[2],
                            ((n \div 4) % 2) + 2 * r[3]>>
           step == [p \in Nat \X T |-> Grown(p[1], p[2])]
<1>1. \A n \in Nat, r \in T : Grown(n, r) \in T
  OBVIOUS
<1>2. <<0, 0, 0>> \in T
  OBVIOUS
<1> HIDE DEF T
<1>3. Recursion(T, <<0, 0, 0>>, Eighth, step)
  <2>1. step \in [Nat \X T -> T]
    BY <1>1
  <2>2. Eighth \in [Nat -> Nat]
    BY GoDown DEF Eighth
  <2> HIDE DEF step
  <2> QED  BY <1>2, <2>1, <2>2, GoDown DEF Recursion
<1>4. PICK f \in [Nat -> T] :
          f = [n \in Nat |-> IF n = 0 THEN <<0, 0, 0>> ELSE step[<<n, f[Eighth[n]]>>]]
  <2> HIDE DEF step
  <2> QED  BY <1>3, ComputesAll
<1>5. f = [n \in Nat |-> IF n = 0 THEN <<0, 0, 0>> ELSE Grown(n, f[n \div 8])]
  <2>1. \A n \in Nat \ {0} : Eighth[n] = n \div 8 /\ n \div 8 \in Nat
    BY DEF Eighth
  <2>2. \A n \in Nat \ {0} : step[<<n, f[Eighth[n]]>>] = Grown(n, f[n \div 8])
    BY <2>1
  <2> HIDE DEF step, Grown
  <2> QED  BY <1>4, <2>2
<1>6. Decode = [n \in Nat |-> IF n = 0 THEN <<0, 0, 0>> ELSE Grown(n, Decode[n \div 8])]
  BY <1>5, Zenon DEF Decode
<1>7. \A n \in Nat : Decode[n] = IF n = 0 THEN <<0, 0, 0>> ELSE Grown(n, Decode[n \div 8])
  <2> HIDE DEF Grown
  <2> QED  BY <1>6
<1>8. \A n \in Nat : n \in {i \in Nat : Decode[i] \in T}
  <2> DEFINE P == {i \in Nat : Decode[i] \in T}
  <2>1. ASSUME NEW n \in Nat, n # 0 => Eighth[n] \in P PROVE n \in P
    <3>1. CASE n = 0
      BY <1>2, <1>7, <3>1
    <3>2. CASE n # 0
      <4>1. Decode[n \div 8] \in T
        BY <2>1, <3>2 DEF Eighth
      <4> HIDE DEF Grown
      <4> QED  BY <1>1, <1>7, <3>2, <4>1
    <3> QED  BY <3>1, <3>2
  <2> HIDE DEF P
  <2>2. \A n \in Nat : n \in P
    BY <2>1, Descent
  <2> QED  BY <2>2 DEF P
<1> QED  BY <1>7, <1>8 DEF T

\* Three bits and what is above them.
LEMMA ThreeBits ==
    ASSUME NEW m \in Nat, NEW p \in 0 .. 1, NEW q \in 0 .. 1, NEW r \in 0 .. 1,
           NEW n \in Nat, n = 8 * m + 4 * p + 2 * q + r
    PROVE  n \div 8 = m /\ n % 2 = r /\ (n \div 2) % 2 = q /\ (n \div 4) % 2 = p
<1>2. n \div 8 = m
  OBVIOUS
<1>3. n % 2 = r
  OBVIOUS
<1>4. n \div 2 = 4 * m + 2 * p + q
  OBVIOUS
<1>5. (n \div 2) % 2 = q
  BY <1>4
<1>6. n \div 4 = 2 * m + p
  OBVIOUS
<1>7. (n \div 4) % 2 = p
  BY <1>6
<1> QED  BY <1>2, <1>3, <1>5, <1>7

\* No bits, no number.
LEMMA NoBits ==
    ASSUME NEW a \in Nat, NEW b \in Nat, NEW c \in Nat, 4 * a + 2 * b + c = 0
    PROVE  a = 0 /\ b = 0 /\ c = 0
OBVIOUS

\* The bits of x, y and z come back out of their code.
LEMMA DecodeSpreads ==
    ASSUME NEW x \in Nat, NEW y \in Nat, NEW z \in Nat
    PROVE  Decode[4 * Spread[x] + 2 * Spread[y] + Spread[z]] = <<z, y, x>>
<1> DEFINE code(u, v, w) == 4 * Spread[u] + 2 * Spread[v] + Spread[w]
           P == {n \in Nat : \A u, v, w \in Nat : code(u, v, w) = n => Decode[n] = <<w, v, u>>}
<1>1. ASSUME NEW n \in Nat, n # 0 => Eighth[n] \in P PROVE n \in P
  <2> SUFFICES ASSUME NEW u \in Nat, NEW v \in Nat, NEW w \in Nat, code(u, v, w) = n
               PROVE  Decode[n] = <<w, v, u>>
    OBVIOUS
  <2>1. /\ Spread[u] \in Nat /\ Spread[v] \in Nat /\ Spread[w] \in Nat
        /\ n = 4 * Spread[u] + 2 * Spread[v] + Spread[w]
    BY SpreadIs
  <2>2. CASE n = 0
    <3>1. Spread[u] = 0 /\ Spread[v] = 0 /\ Spread[w] = 0
      BY <2>1, <2>2, NoBits
    <3>2. Spread[0] = 0
      BY SpreadIs
    <3>3. u = 0 /\ v = 0 /\ w = 0
      BY <3>1, <3>2, SpreadGrows
    <3> QED  BY <2>2, <3>3, DecodeIs
  <2>3. CASE n # 0
    <3> DEFINE a == u \div 2
               b == v \div 2
               c == w \div 2
               p == u % 2
               q == v % 2
               r == w % 2
               m == code(a, b, c)
    <3>1. /\ a \in Nat /\ b \in Nat /\ c \in Nat
          /\ p \in 0 .. 1 /\ q \in 0 .. 1 /\ r \in 0 .. 1
          /\ u = 2 * a + p /\ v = 2 * b + q /\ w = 2 * c + r
      OBVIOUS
    <3>2. /\ Spread[u] = p + 8 * Spread[a] /\ Spread[v] = q + 8 * Spread[b]
          /\ Spread[w] = r + 8 * Spread[c]
          /\ Spread[a] \in Nat /\ Spread[b] \in Nat /\ Spread[c] \in Nat
      BY SpreadHalves
    <3>3. m \in Nat /\ m = 4 * Spread[a] + 2 * Spread[b] + Spread[c]
      BY <3>2
    <3> HIDE DEF a, b, c, p, q, r, m, code, P
    <3>4. n \div 8 = m /\ n % 2 = r /\ (n \div 2) % 2 = q /\ (n \div 4) % 2 = p
      <4>1. n = 8 * m + 4 * p + 2 * q + r
        BY <2>1, <3>1, <3>2, <3>3
      <4>2. m \in Nat /\ p \in 0 .. 1 /\ q \in 0 .. 1 /\ r \in 0 .. 1
        BY <3>1, <3>3
      <4> QED  BY <4>1, <4>2, ThreeBits, Z3
    <3>5. Eighth[n] = m /\ m \in P
      BY <1>1, <2>3, <3>4 DEF Eighth
    <3>6. Decode[m] = <<c, b, a>>
      BY <3>1, <3>5 DEF P, m
    <3>7. Decode[n] = <<r + 2 * c, q + 2 * b, p + 2 * a>>
      <4>1. Decode[n] = <<(n % 2) + 2 * Decode[n \div 8][1],
                          ((n \div 2) % 2) + 2 * Decode[n \div 8][2],
                          ((n \div 4) % 2) + 2 * Decode[n \div 8][3]>>
        BY <2>3, DecodeIs
      <4>2. Decode[n \div 8] = <<c, b, a>>
        BY <3>4, <3>6
      <4> QED  BY <3>4, <4>1, <4>2
    <3> QED  BY <3>1, <3>7
  <2> QED  BY <2>2, <2>3
<1>2. \A n \in Nat : n \in P
  <2> HIDE DEF P
  <2> QED  BY <1>1, Descent
<1>3. code(x, y, z) \in Nat
  BY SpreadIs
<1> QED  BY <1>2, <1>3

\* Decode undoes Encode but for the order: what was x comes back as z, and z as x
\* (Morton3D::Encode, Decode).
THEOREM DecodeExchangesAxes ==
    \A x, y, z \in Coord : Decode[Encode(x, y, z)] = <<z, y, x>>
<1> SUFFICES ASSUME NEW x \in Coord, NEW y \in Coord, NEW z \in Coord
             PROVE  Decode[Encode(x, y, z)] = <<z, y, x>>
  OBVIOUS
<1>1. Encode(x, y, z) = 4 * Spread[x] + 2 * Spread[y] + Spread[z]
  BY CoordIs DEF Encode
<1>2. x \in Nat /\ y \in Nat /\ z \in Nat
  BY CoordIs
<1> QED  BY <1>1, <1>2, DecodeSpreads

\* No two places of the world have one code.
THEOREM EncodeOneToOne ==
    \A x, y, z, u, v, w \in Coord :
        Encode(x, y, z) = Encode(u, v, w) => x = u /\ y = v /\ z = w
<1> SUFFICES ASSUME NEW x \in Coord, NEW y \in Coord, NEW z \in Coord,
                    NEW u \in Coord, NEW v \in Coord, NEW w \in Coord,
                    Encode(x, y, z) = Encode(u, v, w)
             PROVE  x = u /\ y = v /\ z = w
  OBVIOUS
<1>1. <<z, y, x>> = <<w, v, u>>
  BY DecodeExchangesAxes
<1> QED  BY <1>1

\* A spread number of b bits leaves the bits from 3 * b on free.
LEMMA SpreadFits ==
    ASSUME NEW b \in Nat
    PROVE  /\ Power[3 * b] \in Nat
           /\ \A a \in Nat : a < Power[b] => 7 * Spread[a] < Power[3 * b]
<1> DEFINE P == {n \in Nat : \A a \in Nat : a < Power[n] => 7 * Spread[a] < Power[3 * n]}
<1>1. \A n \in Nat : Power[n] \in Nat /\ Power[3 * n] \in Nat
  BY PowerIs
<1>2. ASSUME NEW n \in Nat, n # 0 => Before[n] \in P PROVE n \in P
  <2> SUFFICES ASSUME NEW a \in Nat, a < Power[n] PROVE 7 * Spread[a] < Power[3 * n]
    OBVIOUS
  <2>1. CASE n = 0
    <3>1. Power[n] = 1 /\ 3 * n = 0 /\ Power[3 * n] = 1
      BY <2>1, PowerIs
    <3>2. a = 0 /\ Spread[a] = 0
      BY <3>1, SpreadIs
    <3> QED  BY <3>1, <3>2
  <2>2. CASE n # 0
    <3> DEFINE l == n - 1
               h == a \div 2
               r == a % 2
    <3>1. l \in Nat /\ l \in P
      BY <1>2, <2>2 DEF Before
    <3> HIDE DEF P
    <3>2. Power[n] = 2 * Power[l] /\ Power[l] \in Nat
      BY <2>2, <3>1, PowerIs
    <3>3. h \in Nat /\ r \in 0 .. 1 /\ a = 2 * h + r
      OBVIOUS
    <3>4. h < Power[l]
      BY <3>2, <3>3
    <3>5. 7 * Spread[h] < Power[3 * l]
      BY <3>1, <3>3, <3>4 DEF P
    <3>6. Power[3 * n] = 8 * Power[3 * l]
      <4> DEFINE m == 3 * l
      <4>1. m \in Nat /\ 3 * n = m + 3
        BY <3>1
      <4> HIDE DEF m
      <4>2. /\ Power[m + 1] = 2 * Power[m] /\ Power[m + 2] = 2 * Power[m + 1]
            /\ Power[m + 3] = 2 * Power[m + 2] /\ Power[m] \in Nat
        <5>1. /\ m + 1 \in Nat /\ m + 1 # 0 /\ (m + 1) - 1 = m
              /\ m + 2 \in Nat /\ m + 2 # 0 /\ (m + 2) - 1 = m + 1
              /\ m + 3 \in Nat /\ m + 3 # 0 /\ (m + 3) - 1 = m + 2
          BY <4>1
        <5> QED  BY <4>1, <5>1, PowerIs
      <4>3. Power[m + 3] = 8 * Power[m]
        BY <4>2
      <4> QED  BY <4>1, <4>3 DEF m
    <3>7. Spread[a] = r + 8 * Spread[h] /\ Spread[h] \in Nat
      BY SpreadHalves
    <3>8. Power[3 * l] \in Nat
      BY <1>1, <3>1
    <3> HIDE DEF h, r, l
    <3> QED  BY <3>3, <3>5, <3>6, <3>7, <3>8
  <2> QED  BY <2>1, <2>2
<1>3. \A n \in Nat : n \in P
  <2> HIDE DEF P
  <2> QED  BY <1>2, Descent
<1> QED  BY <1>1, <1>3

\* A code has three times the bits of a coordinate: 63 for the 21 of Morton3D, so that
\* no shift of Encode loses one.
THEOREM EncodeFits ==
    \A x, y, z \in Coord : Encode(x, y, z) \in 0 .. Power[3 * Bits] - 1
<1> SUFFICES ASSUME NEW x \in Coord, NEW y \in Coord, NEW z \in Coord
             PROVE  Encode(x, y, z) \in 0 .. Power[3 * Bits] - 1
  OBVIOUS
<1> DEFINE w == Power[3 * Bits]
           a == Spread[x]
           b == Spread[y]
           c == Spread[z]
<1>1. Bits \in Nat
  BY BitsAssumption DEF BitsAssumption
<1>2. w \in Nat /\ 7 * a < w /\ 7 * b < w /\ 7 * c < w
  BY <1>1, CoordIs, SpreadFits
<1>3. a \in Nat /\ b \in Nat /\ c \in Nat
  BY CoordIs, SpreadIs
<1>4. Encode(x, y, z) = 4 * a + 2 * b + c
  BY CoordIs DEF Encode
<1> HIDE DEF w, a, b, c
<1>5. 7 * (4 * a + 2 * b + c) <= 7 * (w - 1)
  BY <1>2, <1>3
<1>6. 4 * a + 2 * b + c <= w - 1
  BY <1>2, <1>3, <1>5
<1> QED  BY <1>2, <1>3, <1>4, <1>6 DEF w

\* In a world of Bits bits, leaves of 28 voxels or more leave the two lowest bits of a
\* coordinate together: Bits - 2 halvings make every piece a leaf.
LEMMA WorldHalves ==
    ASSUME MaxCoord = Power[Bits] - 1, LeafVolume > 27, Bits >= 2, MaxDepth = Bits - 2
    PROVE  Halves([d \in 0 .. MaxDepth |-> Power[d + 2] - 1])
<1> DEFINE e == [d \in 0 .. MaxDepth |-> Power[d + 2] - 1]
<1>1. MaxDepth \in Nat /\ Bits \in Nat /\ LeafVolume \in Nat
  BY MortonAssumption, BitsAssumption DEF MortonAssumption, BitsAssumption
<1>2. \A d \in 0 .. MaxDepth : Power[d + 2] \in Nat \ {0} /\ e[d] = Power[d + 2] - 1
  BY <1>1, PowerIs
<1>3. e \in [0 .. MaxDepth -> Nat]
  BY <1>2
<1>4. Power[0] = 1 /\ Power[1] = 2 /\ Power[2] = 4
  BY PowerIs
<1>5. 0 \in 0 .. MaxDepth /\ MaxDepth \in 0 .. MaxDepth
  BY <1>1
<1>6. e[0] = 3
  BY <1>2, <1>4, <1>5
<1>7. ASSUME NEW d \in 1 .. MaxDepth PROVE e[d] <= 2 * e[d - 1] + 1
  <2>1. /\ d \in 0 .. MaxDepth /\ d - 1 \in 0 .. MaxDepth /\ d + 2 \in Nat /\ d + 2 # 0
        /\ (d + 2) - 1 = d + 1 /\ (d - 1) + 2 = d + 1
    BY <1>1
  <2>2. Power[d + 2] = 2 * Power[d + 1] /\ Power[d + 1] \in Nat
    BY <2>1, PowerIs
  <2>3. e[d] = Power[d + 2] - 1 /\ e[d - 1] = Power[d + 1] - 1
    BY <1>2, <2>1
  <2> HIDE DEF e
  <2> QED  BY <2>2, <2>3
<1>8. e[MaxDepth] = Power[Bits] - 1
  <2>1. MaxDepth + 2 = Bits
    BY <1>1
  <2> QED  BY <1>2, <1>5, <2>1
<1> HIDE DEF e
<1>9. e[0] * e[0] * e[0] < LeafVolume
  <2>1. e[0] * e[0] * e[0] = 27
    BY <1>6
  <2> QED  BY <1>1, <2>1
<1>10. MaxCoord <= e[MaxDepth]
  <2>1. MaxCoord = e[MaxDepth] /\ MaxCoord \in Nat
    BY <1>8, MortonAssumption DEF MortonAssumption
  <2> QED  BY <2>1
<1>11. Halves(e)
  BY <1>3, <1>7, <1>9, <1>10 DEF Halves
<1> QED  BY <1>11 DEF e

\* The bound of the stack for a whole world: with the 21 bits of a coordinate and the
\* leaves below 64 of GenerateRanges it never holds more than 7 * 19 + 1 = 134 boxes.
THEOREM WorldStackBounded ==
    ASSUME MaxCoord = Power[Bits] - 1, LeafVolume > 27, Bits >= 2, MaxDepth = Bits - 2
    PROVE  Spec => []StackBounded
BY WorldHalves, GeneratorStackBounded
=============================================================================
