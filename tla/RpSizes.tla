------------------------------ MODULE RpSizes ------------------------------
(***************************************************************************)
(* The size arithmetic of rpmalloc.c: which kind of block a request gets   *)
(* (a block of a size class, a run of spans, a run of pages), how it is    *)
(* aligned, what of it the program may use, and when realloc keeps it.     *)
(*                                                                         *)
(* The state is one block the program holds.  An address is its offset     *)
(* from the last multiple of the span size at or before the block's span,  *)
(* so that masking an address below the span size gives 0.  Mapping never  *)
(* fails here, but places small mappings at any page.                      *)
(***************************************************************************)
EXTENDS Integers, FiniteSets

CONSTANTS
  SpanSize,           \* _memory_span_size
  PageSize,           \* _memory_page_size
  HeaderSize,         \* SPAN_HEADER_SIZE
  SmallGranularity,   \* SMALL_GRANULARITY
  SmallClasses,       \* SMALL_CLASS_COUNT
  MediumGranularity,  \* MEDIUM_GRANULARITY
  MediumClasses,      \* MEDIUM_CLASS_COUNT
  LargeClasses,       \* LARGE_CLASS_COUNT
  Sizes,              \* sizes the program asks for (a bound)
  Slots,              \* blocks of a span handed out, besides the last (a bound)
  Alignments,         \* alignments it asks for
  None

VARIABLES
  block,      \* the block the program holds, or None
  asked,      \* the size it asked for
  alignment,  \* the alignment it was promised
  copied,     \* bytes the last call moved to where the block is now
  outcome     \* of the last call: "ok", "unpreserved", "failed" or "invalid"

vars == <<block, asked, alignment, copied, outcome>>

Least(a, b) == IF a <= b THEN a ELSE b
Greatest(a, b) == IF a >= b THEN a ELSE b
RoundUp(n, unit) == unit * ((n + unit - 1) \div unit)

SmallLimit == SmallGranularity * (SmallClasses - 1)
LargeLimit == LargeClasses * SpanSize - HeaderSize

\* The library's static assertions, the bounds rpmalloc_initialize_config
\* enforces, and what rpmalloc.h asks of an alignment
ASSUME SizesParams ==
  /\ {SpanSize, PageSize, HeaderSize, SmallGranularity, SmallClasses,
      MediumGranularity, MediumClasses, LargeClasses} \subseteq Nat \ {0}
  /\ HeaderSize % SmallGranularity = 0
  /\ SmallLimit % HeaderSize = 0 /\ MediumGranularity % HeaderSize = 0
  /\ SmallLimit + MediumGranularity <= (SpanSize - HeaderSize) \div 2
  /\ \/ SpanSize % PageSize = 0 \/ PageSize % SpanSize = 0
  /\ Sizes \subseteq Nat /\ Alignments \subseteq Nat \ {0}
  /\ \A a \in Alignments : SpanSize % a = 0 /\ a < SpanSize
  /\ \A a, b \in Alignments \cup {HeaderSize, PageSize, SmallGranularity} :
       a % b = 0 \/ b % a = 0

---------------------------------------------------------------------------
(* Size classes *)

\* block_size of class i before classes are merged
ClassSize(i) ==
  IF i = 0 THEN SmallGranularity
  ELSE IF i < SmallClasses THEN i * SmallGranularity
  ELSE SmallLimit + (i - SmallClasses + 1) * MediumGranularity

BlockCount(i) == (SpanSize - HeaderSize) \div ClassSize(i)

\* Classes are set up as long as two blocks fit a span
Class ==
  0..(SmallClasses - 1)
    \cup {i \in SmallClasses..(SmallClasses + MediumClasses - 1) :
            ClassSize(i) <= (SpanSize - HeaderSize) \div 2}
ClassCount == Cardinality(Class)
MediumLimit == ClassSize(ClassCount - 1)

AdjustLoosely(table, i) ==  \* mutant: merged when a block more or less fits
  [k \in Class |->
     IF k = i \/ (i >= SmallClasses /\ k = i - 1
                   /\ BlockCount(table[k]) - BlockCount(i) <= 1)
     THEN i ELSE table[k]]

\* _memory_size_class as class -> class whose record it holds: the classes
\* before i that have as many blocks to the span are merged into it
AdjustSizeClass(table, i) ==
  [k \in Class |->
     IF k = i THEN i
     ELSE IF /\ i >= SmallClasses /\ k < i
             /\ \A l \in k..(i - 1) : BlockCount(table[l]) = BlockCount(i)
     THEN i
     ELSE table[k]]

\* The table once the first n classes are set up
Adjusted[n \in 0..ClassCount] ==
  IF n = 0 THEN [k \in Class |-> 0] ELSE AdjustSizeClass(Adjusted[n - 1], n - 1)

SizeClass == Adjusted[ClassCount]

\* The class that serves a small or medium size
SmallClass(size) == (size + SmallGranularity - 1) \div SmallGranularity
MediumClass(size) ==
  SizeClass[SmallClasses + (size - (SmallLimit + 1)) \div MediumGranularity]
ClassOf(size) ==
  IF size <= SmallLimit THEN SmallClass(size) ELSE MediumClass(size)

---------------------------------------------------------------------------
(* Allocation *)

\* A block: its span's size_class (reduced to the kind) and block_size or
\* span_count, where it starts and ends, and the pointer the program has
BlockRec == [kind : {"class", "large", "huge"}, unit : Nat,
             start : Nat, end : Nat, p : Nat, flagged : BOOLEAN]
ASSUME NoneIsNoBlock == None \notin BlockRec

NewBlock(kind, unit, start, end) ==
  [kind |-> kind, unit |-> unit, start |-> start, end |-> end,
   p |-> start, flagged |-> FALSE]

ClassBlocks(size) ==
  LET class_idx == ClassOf(size)
      block_size == ClassSize(SizeClass[class_idx])
      last == BlockCount(SizeClass[class_idx]) - 1
  IN {NewBlock("class", block_size, HeaderSize + idx * block_size,
               HeaderSize + (idx + 1) * block_size)
        : idx \in {i \in 0..last : i < Slots \/ i = last}}

SpansForBare(size) ==  \* mutant: the header is not counted
  RoundUp(size, SpanSize) \div SpanSize

\* Spans, and pages, that hold a header and the block
SpansFor(size) == RoundUp(size + HeaderSize, SpanSize) \div SpanSize
PagesFor(size) == RoundUp(size + HeaderSize, PageSize) \div PageSize

\* A cached run of spans may be longer than asked for
LargeBlocks(size) ==
  LET n == SpansFor(size) IN
    {NewBlock("large", m, HeaderSize, m * SpanSize)
       : m \in n..Greatest(n, Least(LargeClasses,
                                    IF n > 2 THEN n + n \div 2 ELSE n))}

HugeBlock(pages) == NewBlock("huge", pages, HeaderSize, pages * PageSize)

\* _rpmalloc_allocate: the blocks it may return
Blocks(size) ==
  IF size <= MediumLimit THEN ClassBlocks(size)
  ELSE IF size <= LargeLimit THEN LargeBlocks(size)
  ELSE {HugeBlock(PagesFor(size))}

\* A block of which the program gets an aligned part; the span remembers
AlignedPart(b, align) ==
  IF b.p % align = 0 THEN b
  ELSE [b EXCEPT !.p = (@ \div align) * align + align, !.flagged = TRUE]

\* Where _rpmalloc_mmap_os may place a mapping: it aligns those of at least a
\* span to spans, the others start at any page
Bases(pages) ==
  IF pages * PageSize >= SpanSize THEN {0}
  ELSE {n \in 0..(SpanSize - 1) : n % PageSize = 0}

\* The aligned pointer, and the block, of so many pages mapped at a base
MappedAt(base, pages, align) ==
  [NewBlock("huge", pages, base + HeaderSize, base + pages * PageSize)
     EXCEPT !.p = RoundUp(base + HeaderSize, align)]

SuitsUnmasked(b, base, size) ==  \* mutant: masking the pointer is not tried
  b.p - base < SpanSize /\ b.p + size <= b.end

\* The pointer is within a span from where the mapping starts, has `size`
\* bytes after it, and masked gives the start of the mapping
Suits(b, base, size) ==
  /\ b.p - base < SpanSize
  /\ b.p + size <= b.end
  /\ (b.p \div SpanSize) * SpanSize = base

\* Alignments beyond a page: map pages, one more each time, until a mapping
\* suits; None (EINVAL) if none did up to the limit
MappedFor(align, size) ==
  LET extra_pages == align \div PageSize
      needed == 1 + RoundUp(size, PageSize) \div PageSize
      num_pages == IF extra_pages > needed THEN 1 + extra_pages ELSE needed
      limit_pages == Greatest(2 * (SpanSize \div PageSize), 2 * num_pages)
      MayRetry(pages) ==
        \E base \in Bases(pages) : ~Suits(MappedAt(base, pages, align), base, size)
      MayTry(pages) == \A m \in num_pages..(pages - 1) : MayRetry(m)
      Suited(pages) == {base \in Bases(pages) :
                          Suits(MappedAt(base, pages, align), base, size)}
  IN (UNION {{MappedAt(base, pages, align) : base \in Suited(pages)}
               : pages \in {n \in num_pages..limit_pages : MayTry(n)}})
       \cup {b \in {None} : MayTry(limit_pages + 1)}

AlignedBlocksNatural(align, size) ==  \* mutant: any multiple of a header will do
  IF size + HeaderSize < MediumLimit
  THEN Blocks(IF size = 0 THEN HeaderSize ELSE RoundUp(size, HeaderSize))
  ELSE {AlignedPart(b, align) : b \in Blocks(size + align)}

\* _rpmalloc_aligned_allocate: the blocks it may return, None for EINVAL
AlignedBlocks(align, size) ==
  LET multiple_size == IF size = 0 THEN HeaderSize ELSE RoundUp(size, HeaderSize)
  IN IF align <= SmallGranularity THEN Blocks(size)
     ELSE IF /\ align <= HeaderSize /\ size + HeaderSize < MediumLimit
             /\ multiple_size <= size + align
     THEN Blocks(multiple_size)
     ELSE IF align <= PageSize
     THEN {AlignedPart(b, align) : b \in Blocks(size + align)}
     ELSE MappedFor(align, size)

---------------------------------------------------------------------------
(* What a block is good for *)

\* Where the block of p starts and ends, as the span header tells it
BlockStart(b) ==
  IF b.kind = "class"
  THEN HeaderSize + ((b.p - HeaderSize) \div b.unit) * b.unit
  ELSE HeaderSize
BlockEnd(b) ==
  CASE b.kind = "class" -> BlockStart(b) + b.unit
    [] b.kind = "large" -> b.unit * SpanSize
    [] b.kind = "huge" -> b.unit * PageSize

\* rpmalloc_usable_size
UsableSize(b) == BlockEnd(b) - b.p

FreedFromUnflagged(b) ==  \* mutant: the span flag is not looked at
  IF b.kind = "class" THEN b.p ELSE HeaderSize

\* Where free takes the block of p to start
FreedFrom(b) ==
  IF b.kind = "class" /\ ~b.flagged THEN b.p ELSE BlockStart(b)

\* Spans realloc takes `size` to need: the remainder is masked with
\* _memory_span_mask - 1, which clears one bit above the span size too many
\* and none below: only one span exactly has no remainder
SpansReallocated(size) ==
  LET total == size + HeaderSize IN
    total \div SpanSize + (IF total = SpanSize \/ total = 0 THEN 0 ELSE 1)

\* realloc keeps the block: the size fits and is not much smaller
KeepsBlock(b, size, oldsize) ==
  CASE b.kind = "class" -> b.unit >= size
    [] b.kind = "large" -> /\ b.unit >= SpansReallocated(size)
                           /\ size + HeaderSize >= oldsize \div 2
    [] b.kind = "huge" -> /\ b.unit >= PagesFor(size)
                          /\ PagesFor(size) >= b.unit \div 2

OldSizeHeaderTwice(b, given) ==  \* mutant: p is taken to be before the header
  IF given # 0 THEN given ELSE Greatest(0, UsableSize(b) - HeaderSize)

\* oldsize, when the caller gives 0: the rest of the block from p on
OldSize(b, given) == IF given # 0 THEN given ELSE UsableSize(b)

\* Small increases overallocate
NewSize(size, oldsize) ==
  LET lower_bound == oldsize + oldsize \div 4 + oldsize \div 8 IN
    IF size > oldsize THEN Greatest(size, lower_bound) ELSE size

---------------------------------------------------------------------------
Init ==
  /\ block = None /\ asked = 0 /\ alignment = SmallGranularity
  /\ copied = 0 /\ outcome = "ok"

Returned(b, align, size) ==
  /\ block' = b /\ asked' = size
  /\ alignment' = Greatest(align, SmallGranularity)

\* n bytes moved along, unless the caller does not want them
Moved(n, noPreserve) ==
  IF noPreserve THEN copied' = 0 /\ outcome' = "unpreserved"
                ELSE copied' = n /\ outcome' = "ok"

Stayed == copied' = block.end - block.p /\ outcome' = "ok"

\* The block the program has stays as it is
NotDone(result) ==
  /\ outcome' = result /\ copied' = 0
  /\ UNCHANGED <<block, asked, alignment>>

Allocate(size) ==
  /\ block = None
  /\ \E b \in Blocks(size) : Returned(b, SmallGranularity, size)
  /\ Moved(0, FALSE)

AlignedAllocate(align, size) ==
  /\ block = None
  /\ \/ /\ \E b \in AlignedBlocks(align, size) \ {None} : Returned(b, align, size)
        /\ Moved(0, FALSE)
     \/ None \in AlignedBlocks(align, size) /\ NotDone("invalid")

\* _rpmalloc_reallocate: keep the block (from its start on), fail if it may
\* not move, or move
Reallocate(size, given, noPreserve, growOrFail) ==
  /\ block # None
  /\ LET oldsize == OldSize(block, given)
         new_size == NewSize(size, oldsize)
         start == BlockStart(block)
     IN \/ /\ KeepsBlock(block, size, oldsize)
           /\ Returned([block EXCEPT !.p = start], SmallGranularity, size)
           /\ IF start = block.p THEN Stayed ELSE Moved(oldsize, noPreserve)
        \/ /\ ~KeepsBlock(block, size, oldsize) /\ growOrFail
           /\ NotDone("failed")
        \/ /\ ~KeepsBlock(block, size, oldsize) /\ ~growOrFail
           /\ \E b \in Blocks(new_size) : Returned(b, SmallGranularity, size)
           /\ Moved(Least(oldsize, new_size), noPreserve)

\* _rpmalloc_aligned_reallocate, for alignments malloc does not give anyway
AlignedReallocate(align, size, given, noPreserve, growOrFail) ==
  /\ block # None /\ align > SmallGranularity
  /\ LET usablesize == UsableSize(block)
         stays == /\ usablesize >= size /\ block.p % align = 0
                  /\ growOrFail \/ size >= usablesize \div 2
     IN \/ stays /\ Returned(block, align, size) /\ Stayed
        \/ ~stays /\ growOrFail /\ NotDone("failed")
        \/ /\ ~stays /\ ~growOrFail
           /\ \E b \in AlignedBlocks(align, size) \ {None} : Returned(b, align, size)
           /\ Moved(Least(OldSize(block, given), size), noPreserve)
        \/ /\ ~stays /\ ~growOrFail /\ None \in AlignedBlocks(align, size)
           /\ NotDone("invalid")

Free ==
  /\ block # None
  /\ Returned(None, SmallGranularity, 0)
  /\ Moved(0, FALSE)

Next ==
  \/ \E size \in Sizes :
       \/ Allocate(size)
       \/ \E align \in Alignments : AlignedAllocate(align, size)
       \/ \E given \in {0, asked}, noPreserve, growOrFail \in BOOLEAN :
            \/ Reallocate(size, given, noPreserve, growOrFail)
            \/ \E align \in Alignments :
                 AlignedReallocate(align, size, given, noPreserve, growOrFail)
  \/ Free

Spec == Init /\ [][Next]_vars

---------------------------------------------------------------------------
(* Properties *)

\* The memory a block is cut from: a span, a run of spans, a mapping
MemoryEnd(b) ==
  CASE b.kind = "class" -> SpanSize
    [] b.kind = "large" -> b.unit * SpanSize
    [] b.kind = "huge" -> b.unit * PageSize

\* The types, and that a block is inside the memory it was cut from, after the
\* header, with the program's pointer inside the block
TypeOK ==
  /\ block \in BlockRec \cup {None}
  /\ block # None => /\ HeaderSize <= block.start /\ block.start <= block.p
                     /\ block.p <= block.end /\ block.end <= MemoryEnd(block)
  /\ asked \in Nat /\ copied \in Nat
  /\ alignment \in Alignments \cup {SmallGranularity}
  /\ outcome \in {"ok", "unpreserved", "failed", "invalid"}

\* Whatever sequence of calls led to a block, it holds what the program asked
\* for, and rpmalloc_usable_size is what there is from the pointer to the end
\* of the block: neither less than was asked for nor one byte of another block
BlockHoldsRequest ==
  block # None =>
    /\ asked <= UsableSize(block)
    /\ block.p + UsableSize(block) = block.end
    /\ block.kind = "class" => block.end <= SpanSize

\* free and realloc find the block an aligned pointer is part of: masking it
\* leads to the span's header, and the block computed is the one handed out
FreeFindsBlock ==
  block # None =>
    /\ block.p < SpanSize
    /\ FreedFrom(block) = block.start /\ BlockStart(block) = block.start

\* The alignment promised is kept, by natural alignment of the blocks, by
\* moving the pointer, or by mapping; and one below the span size is always
\* met: wherever small mappings are placed, the search for a suitable one
\* ends before its limit, where mappings are large enough to be aligned
AlignedAsPromised ==
  /\ block # None => block.p % alignment = 0
  /\ outcome # "invalid"

\* realloc keeps what the program wrote, as far as the new size goes, and
\* moves no byte from outside the old block nor beyond the new one, through
\* aligned pointers, overallocation and sizes the caller passes
ReallocPreserves ==
  [][block # None /\ block' # None =>
       /\ outcome' = "ok" => copied' >= Least(asked, asked')
       /\ copied' <= block.end - block.p
       /\ copied' <= block'.end - block'.p]_vars

\* Classes are merged all the way: a medium block is the largest of which as
\* many fit a span, at least two, whichever class was looked up for it
MergedFully ==
  block # None /\ block.kind = "class" /\ block.unit > SmallLimit =>
    LET count == (SpanSize - HeaderSize) \div block.unit IN
      /\ count >= 2
      /\ \A i \in Class : BlockCount(i) = count => ClassSize(i) <= block.unit
===========================================================================
