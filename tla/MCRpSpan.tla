----------------------------- MODULE MCRpSpan -----------------------------
(* RpSpan on small instances *)
EXTENDS RpSpan, TLC

CONSTANTS t1, t2, t3, h1, h2, s1, s2

TwoThreads == {t1, t2}
ThreeThreads == {t1, t2, t3}
OneHeap == {h1}
TwoHeaps == {h1, h2}
OneSpan == {s1}
TwoSpans == {s1, s2}

Symmetry == Permutations(Thread) \cup Permutations(Heap) \cup Permutations(Span)
===========================================================================
