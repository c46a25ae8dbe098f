----------------------------- MODULE MortonCode -----------------------------
(***************************************************************************)
(* Morton codes (class Morton3D, src/include/spatial_key.h), with Bits     *)
(* instead of 21 bits for a coordinate.  Coordinates are the whole numbers *)
(* that Encode and GenerateRanges round positions to.                      *)
(***************************************************************************)
EXTENDS Naturals

CONSTANT Bits       \* bits of a coordinate

ASSUME BitsAssumption == Bits \in Nat \ {0}

\* 1 << n.
Power[n \in Nat] == IF n = 0 THEN 1 ELSE 2 * Power[n - 1]

Coord == 0 .. Power[Bits] - 1

\* Bit i of a number of Bits bits becomes bit 3 * i.
Spread[a \in Nat] == IF a = 0 THEN 0 ELSE (a % 2) + 8 * Spread[a \div 2]

\* SplitBy2 drops the bits of a coordinate above the Bits lowest.
SplitBits(a) == Spread[a % Power[Bits]]

\* x has the highest bit of each group of three.
Encode(x, y, z) == 4 * SplitBits(x) + 2 * SplitBits(y) + SplitBits(z)

\* Decode takes a bit of each coordinate from three bits of a code, and gives x the
\* lowest of them.
Decode[code \in Nat] ==
    IF code = 0 THEN <<0, 0, 0>>
    ELSE LET rest == Decode[code \div 8]
         IN  <<(code % 2) + 2 * rest[1],
               ((code \div 2) % 2) + 2 * rest[2],
               ((code \div 4) % 2) + 2 * rest[3]>>
=============================================================================
