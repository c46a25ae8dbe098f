--------------------------- MODULE MCMortonRanges ---------------------------
(* MortonRanges with the codes of MortonCode, small enough for TLC.        *)
EXTENDS MortonRanges, MortonCode

\* Encode is one-to-one on coordinates of the world, and Decode undoes it except
\* that it exchanges x and z.
ASSUME DecodeExchanges ==
    \A x, y, z \in Coord : Decode[Encode(x, y, z)] = <<z, y, x>>

\* MaxDepth halvings make every piece of the world a leaf.
ASSUME EnoughHalvings == Halves([d \in 0 .. MaxDepth |-> 2^(d + 1) - 1])

\* Coordinates beyond the world are taken modulo its size.
ASSUME WorldWraps == \A a \in Coord : SplitBits(a + Power[Bits]) = SplitBits(a)
=============================================================================
