---------------------------- MODULE MCRangeQuery ----------------------------
(* Small instances of RangeQuery for TLC, with codes 0 .. 15.              *)
EXTENDS RangeQuery

\* Two shards: the boundary of the ranges is at code 7, GetShard's at 8.  These
\* are spatial keys of layer 1 and LOD 0 on both sides, with codes other than 7,
\* and a short key, which goes by the ranges.
AgreeingKey == {<<1, 0, 6, 5>>, <<1, 0, 8, 5>>, <<2>>}
AgreeingBound == {<<>>, <<1, 0, 7, 0>>, <<1, 0, 8, 5>>}

\* A LiDAR point (layer 2) beside an occupancy cell (layer 1).
LayeredKey == {<<1, 0, 6, 5>>, <<2, 0, 3, 5>>}
LayeredBound == {<<1, 0, 0, 0>>, <<2, 0, 0, 0>>, <<2, 0, 15, 9>>}

\* A key whose code begins the second range, but which GetShard puts in the first.
BoundaryKey == {<<1, 0, 7, 5>>}
BoundaryBound == {<<1, 0, 7, 1>>, <<2>>}
=============================================================================
