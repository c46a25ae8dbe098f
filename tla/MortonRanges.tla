---------------------------- MODULE MortonRanges ----------------------------
(***************************************************************************)
(* MortonRangeGenerator (src/include/spatial_key.h): a box of voxels is    *)
(* split, by halves along each axis, until the pieces are small; each      *)
(* piece becomes the interval from the code of its lowest to the code of   *)
(* its highest corner; the intervals are sorted and merged.                *)
(*                                                                         *)
(* A voxel is a triple of coordinates.  SplitBy2 is a parameter: all that  *)
(* is needed of it is that it is monotone (module MortonCode has it).      *)
(***************************************************************************)
EXTENDS Integers, Sequences

CONSTANTS
    SplitBy2(_),    \* spreads the bits of a coordinate
    MaxCoord,       \* largest coordinate inside the world
    Corner,         \* the coordinates that calls use
    LeafVolume,     \* 64: pieces below are not split
    MaxDepth        \* halvings after which every piece of the world is small

ASSUME MortonAssumption ==
    /\ MaxCoord \in Nat
    /\ MaxDepth \in Nat
    /\ LeafVolume \in Nat \ {0}
    /\ Corner \subseteq 0 .. MaxCoord
    /\ \A a \in 0 .. MaxCoord : SplitBy2(a) \in Nat
    /\ \A a, b \in 0 .. MaxCoord : a <= b => SplitBy2(a) <= SplitBy2(b)

VARIABLES
    box,        \* the box asked for, its corners in order
    stack,      \* boxes still to look at, the last one first
    raw,        \* raw ranges; while merging, those not yet merged
    current,    \* MergeRanges: the range being extended
    merged,     \* the result
    pc          \* "split", "merge", "done"

vars == <<box, stack, raw, current, merged, pc>>
-----------------------------------------------------------------------------
Axis == 1 .. 3
Voxel == [Axis -> 0 .. MaxCoord]
Box == [lo : Voxel, hi : Voxel]
Inside(v, b) == \A a \in Axis : b.lo[a] <= v[a] /\ v[a] <= b.hi[a]

Code(v) == 4 * SplitBy2(v[1]) + 2 * SplitBy2(v[2]) + SplitBy2(v[3])

MortonRange == [start : Nat, end : Nat]
InRange(code, r) == r.start <= code /\ code <= r.end

\* (Mutant: the end of a range taken as exclusive.)
BoxRangeHalfOpen(b) == [start |-> Code(b.lo), end |-> Code(b.hi) + 1]

BoxRange(b) == [start |-> Code(b.lo), end |-> Code(b.hi)]

Side(b, a) == b.hi[a] - b.lo[a]
Middle(b, a) == b.lo[a] + Side(b, a) \div 2

\* A product of differences, not the number of voxels.
IsLeaf(b) ==
    \/ Side(b, 1) * Side(b, 2) * Side(b, 3) < LeafVolume
    \/ \A a \in Axis : Side(b, a) = 0

\* An octant o of a box is the set of the axes along which it is the upper half.
\* (Mutant: the upper half begins behind the voxel next to the middle.)
OctantGap(b, o) ==
    [lo |-> [a \in Axis |-> IF a \in o THEN Middle(b, a) + 2 ELSE b.lo[a]],
     hi |-> [a \in Axis |-> IF a \in o THEN b.hi[a] ELSE Middle(b, a)]]

Octant(b, o) ==
    [lo |-> [a \in Axis |-> IF a \in o THEN Middle(b, a) + 1 ELSE b.lo[a]],
     hi |-> [a \in Axis |-> IF a \in o THEN b.hi[a] ELSE Middle(b, a)]]

\* An upper half is pushed only if the middle is not yet the upper bound.
IsPushed(b, o) == \A a \in o : Middle(b, a) < b.hi[a]

\* The octants that are pushed, in the order of the code.
Pushed(b, o) == IF IsPushed(b, o) THEN <<Octant(b, o)>> ELSE <<>>
Octants(b) ==
    Pushed(b, {}) \o Pushed(b, {1}) \o Pushed(b, {2}) \o Pushed(b, {1, 2}) \o
    Pushed(b, {3}) \o Pushed(b, {1, 3}) \o Pushed(b, {2, 3}) \o Pushed(b, {1, 2, 3})

IsEmpty(b) == \E a \in Axis : b.lo[a] > b.hi[a]

Sorted(p, q) == IF p <= q THEN <<p, q>> ELSE <<q, p>>
NoRange == [start |-> 0, end |-> 0]
-----------------------------------------------------------------------------
\* The corners of a call are put in order, axis by axis.
Init ==
    /\ \E p, q \in [Axis -> Corner] :
          box = [lo |-> [a \in Axis |-> Sorted(p[a], q[a])[1]],
                 hi |-> [a \in Axis |-> Sorted(p[a], q[a])[2]]]
    /\ stack = <<box>>
    /\ raw = {}
    /\ current = NoRange
    /\ merged = <<>>
    /\ pc = "split"

Top == stack[Len(stack)]
Popped == SubSeq(stack, 1, Len(stack) - 1)

\* One round of the loop over the stack.
\* An empty box is dropped (none is ever pushed), a small one emitted.
Emit ==
    /\ pc = "split" /\ stack # <<>>
    /\ IsEmpty(Top) \/ IsLeaf(Top)
    /\ stack' = Popped
    /\ raw' = IF IsEmpty(Top) THEN raw ELSE raw \cup {BoxRange(Top)}
    /\ UNCHANGED <<box, current, merged, pc>>

\* (Mutant: the box that is split stays on the stack.)
SplitKeepsTop ==
    /\ pc = "split" /\ stack # <<>>
    /\ ~IsEmpty(Top) /\ ~IsLeaf(Top)
    /\ stack' = stack \o Octants(Top)
    /\ UNCHANGED <<box, raw, current, merged, pc>>

Split ==
    /\ pc = "split" /\ stack # <<>>
    /\ ~IsEmpty(Top) /\ ~IsLeaf(Top)
    /\ stack' = Popped \o Octants(Top)
    /\ UNCHANGED <<box, raw, current, merged, pc>>

\* std::sort, then the ranges one after the other.
IsLeast(r) == r \in raw /\ \A s \in raw : r.start <= s.start

\* (Mutant: ranges with no gap between them are left apart.)
Overlaps(r) == r.start <= current.end
Touches(r) == r.start <= current.end + 1

BeginMerge ==
    /\ pc = "split" /\ stack = <<>>
    /\ \E r \in raw : IsLeast(r) /\ current' = r /\ raw' = raw \ {r}
    /\ pc' = "merge"
    /\ UNCHANGED <<box, stack, merged>>

\* (Mutant: the end of the range that is merged replaces the current one.)
ExtendToLast ==
    /\ pc = "merge"
    /\ \E r \in raw :
          /\ IsLeast(r)
          /\ Touches(r)
          /\ current' = [current EXCEPT !.end = r.end]
          /\ raw' = raw \ {r}
    /\ UNCHANGED <<box, stack, merged, pc>>

\* (Mutant: the loop index is not advanced.)
ExtendStuck ==
    /\ pc = "merge"
    /\ \E r \in raw :
          /\ IsLeast(r)
          /\ Touches(r)
          /\ current' = [current EXCEPT !.end = IF r.end > @ THEN r.end ELSE @]
    /\ UNCHANGED <<box, stack, raw, merged, pc>>

\* An overlapping or adjacent range extends the current one.
Extend ==
    /\ pc = "merge"
    /\ \E r \in raw :
          /\ IsLeast(r)
          /\ Touches(r)
          /\ current' = [current EXCEPT !.end = IF r.end > @ THEN r.end ELSE @]
          /\ raw' = raw \ {r}
    /\ UNCHANGED <<box, stack, merged, pc>>

\* Another range ends it.
NextRange ==
    /\ pc = "merge"
    /\ \E r \in raw :
          /\ IsLeast(r)
          /\ ~Touches(r)
          /\ merged' = Append(merged, current)
          /\ current' = r
          /\ raw' = raw \ {r}
    /\ UNCHANGED <<box, stack, pc>>

Finish ==
    /\ pc = "merge"
    /\ raw = {}
    /\ merged' = Append(merged, current)
    /\ pc' = "done"
    /\ UNCHANGED <<box, stack, raw, current>>

Next ==
    Emit \/ Split \/ BeginMerge \/ Extend \/ NextRange \/ Finish

Spec == Init /\ [][Next]_vars

\* A sequential function runs to its end.
FairSpec == Spec /\ WF_vars(Next)
-----------------------------------------------------------------------------
(* Properties.                                                             *)

\* Every variable keeps its type.
TypeOK ==
    /\ box \in Box
    /\ stack \in Seq(Box)
    /\ raw \subseteq MortonRange
    /\ current \in MortonRange
    /\ merged \in Seq(MortonRange)
    /\ pc \in {"split", "merge", "done"}

\* No voxel is lost on the way: each one of the box is in a piece still to be
\* looked at, or its code is in a range.
RangesSoFar ==
    raw \cup (IF pc = "merge" THEN {current} ELSE {})
        \cup {merged[i] : i \in DOMAIN merged}

NothingLost ==
    \A v \in Voxel : Inside(v, box) =>
        \/ \E i \in DOMAIN stack : Inside(v, stack[i])
        \/ \E r \in RangesSoFar : InRange(Code(v), r)

\* A scan of the ranges meets every voxel of the box (GenerateRanges).
BoxCovered ==
    pc = "done" => \A v \in Voxel : Inside(v, box) =>
                      \E i \in DOMAIN merged : InRange(Code(v), merged[i])

\* The result is in ascending order, and two ranges have a code between them that
\* neither holds: merging has left nothing to merge, and no code is met twice.
RangesApart ==
    pc = "done" => \A i, j \in DOMAIN merged :
                      i < j => merged[i].end + 1 < merged[j].start

\* A range does not reach beyond the box: both its ends are voxels of the box.
EndsInBox ==
    pc = "done" => \A i \in DOMAIN merged :
                      /\ merged[i].start <= merged[i].end
                      /\ \E v \in Voxel : Inside(v, box) /\ merged[i].start = Code(v)
                      /\ \E v \in Voxel : Inside(v, box) /\ merged[i].end = Code(v)

\* e[d] is the longest side of a piece that d halvings make small.  A world of 2^21
\* voxels along an axis and leaves below 64 have e[d] = 4 * 2^d - 1 and MaxDepth = 19.
Halves(e) ==
    /\ e \in [0 .. MaxDepth -> Nat]
    /\ e[0] * e[0] * e[0] < LeafVolume
    /\ \A d \in 1 .. MaxDepth : e[d] <= 2 * e[d - 1] + 1
    /\ MaxCoord <= e[MaxDepth]

\* The explicit stack, there "to avoid a stack overflow" (spatial_key.h:118), holds
\* seven waiting pieces for each halving of a box and one more.
StackBounded == Len(stack) <= 7 * MaxDepth + 1

\* The function returns, however often a box is split.
GeneratorEnds == <>(pc = "done")
=============================================================================
