---------------------------- MODULE MCRpSizes ----------------------------
(* RpSizes scaled down: a granule is 2 bytes, a header 4 granules (8 in the *)
(* source), small blocks end at two headers (8 in the source)               *)
EXTENDS RpSizes

\* Powers of two below the span size, without those no block needs help with
LegalAlignments == {4, 8, 16, 32, 64}

\* Where one kind of block ends and the next begins, and whole spans
Boundary ==
  {0, HeaderSize, SmallLimit, MediumLimit} \cup {n * SpanSize - HeaderSize : n \in 1..LargeClasses}
BoundarySizes == UNION {{b, b + 1} : b \in Boundary}
====
