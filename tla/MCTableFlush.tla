---------------------------- MODULE MCTableFlush ----------------------------
(* TableFlush with entries of two sizes.                                   *)
EXTENDS TableFlush

CONSTANTS short, long

\* A block of two bytes: one long value, two short entries, or a short and a long
\* one, which is more than the block should hold.
MCSizeOf == [e \in Entry |-> IF e = long THEN 2 ELSE 1]
=============================================================================
