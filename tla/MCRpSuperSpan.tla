--------------------------- MODULE MCRpSuperSpan ---------------------------
(* RpSuperSpan on small instances *)
EXTENDS RpSuperSpan, TLC

CONSTANTS h1, h2, r1, r2, r3

TwoHeaps == {h1, h2}
ThreeRegions == {r1, r2, r3}

Build(page, map, res, large, cache, slot, heaps, regions) ==
  [page |-> page, map |-> map, reserve |-> res, large |-> large, cache |-> cache,
   slots |-> slot, heaps |-> heaps, regions |-> regions]

\* Single spans, a reserve of one and two in the global reserve
SingleSpans == Build(1, 3, 1, 1, 2, 1, 2, 3)
\* The default: a heap reserves all it maps, and there is no global reserve
Default == Build(1, 3, 3, 2, 2, 1, 2, 3)
\* Pages of two spans: what the global cache cannot take overflows
HugePages == Build(2, 4, 2, 2, 2, 1, 2, 2)
\* Reserves too small for a request, which a new region replaces
Replaced == Build(1, 5, 2, 2, 1, 0, 1, 3)
SmallCache == Build(1, 3, 1, 1, 1, 1, 2, 3)

AllConfigs == {SingleSpans, Default, HugePages, Replaced}
OneConfig == {SmallCache}

Symmetry == Permutations(Heap) \cup Permutations(Region)
RegionSymmetry == Permutations(Region)
===========================================================================
