---------------------------- MODULE RpSuperSpan ----------------------------
(***************************************************************************)
(* How rpmalloc.c maps regions of spans and gives them back.  A region is  *)
(* mapped in one call and cut into a master span and subspans, which live  *)
(* on in the hands of different heaps, in caches and in reserves; the      *)
(* master counts the spans of the region still mapped, and whoever unmaps  *)
(* the last one releases the region.                                       *)
(*                                                                         *)
(* A heap stands for the thread that owns it.  A step is one access to     *)
(* memory threads share: an atomic subtraction from a remaining_spans, one *)
(* critical section of the global cache, taking _memory_global_lock, and   *)
(* what is done under it.  Blocks inside spans are the matter of RpSpan.   *)
(***************************************************************************)
EXTENDS Integers, FiniteSets

CONSTANTS
  Heap,           \* heaps; each is the first of its group, so maps memory
  Region,         \* address ranges the system can map
  Configs,        \* builds and settings of rpmalloc_initialize_config
  HeapSpans,      \* heap_span_count: spans a group of heaps needs
  CacheTransfer,  \* spans that move to the global cache and back at once
  GlobalCache,    \* ENABLE_GLOBAL_CACHE
  Main,           \* the heap of _rpmalloc_main_thread_id, or None
  None

\* page: _memory_page_size in spans, 1 unless pages are huge; map:
\* _memory_span_map_count; reserve: _memory_heap_reserve_count; large:
\* LARGE_CLASS_COUNT; cache: spans of one count in a thread cache when it
\* spills; slots: room in the global cache for one span count; and bounds,
\* heaps: how many the program makes; regions: how many the system can map
Config == [page : Nat \ {0}, map : Nat \ {0}, reserve : Nat \ {0}, large : Nat \ {0},
           cache : Nat, slots : Nat, heaps : Nat, regions : Nat]

\* A span: `count` spans from the first-th of the region, whose header leads
\* to the master span of `master`
SpanRec == [region : Region, first : Nat, count : Nat \ {0}, master : Region]

ASSUME SuperSpanParams ==
  /\ Configs \subseteq Config
  /\ \A c \in Configs :
       /\ c.map % c.page = 0 /\ c.reserve <= c.map
       /\ CacheTransfer <= c.cache
       \* DEFAULT_SPAN_MAP_COUNT (64) bounds the reserve, LARGE_CLASS_COUNT is 63
       /\ c.map > c.reserve => c.large <= c.reserve
  /\ HeapSpans \in Nat \ {0}
  /\ CacheTransfer \in Nat \ {0}
  /\ GlobalCache \in BOOLEAN
  /\ Main \in Heap \cup {None} /\ None \notin Heap \cup SpanRec
  /\ IsFiniteSet(Region)

VARIABLES
  config,          \* what rpmalloc_initialize_config was given
  total,           \* region -> total_spans of its master, 0 when not mapped
  remaining,       \* region -> remaining_spans of its master
  used,            \* heap -> spans with blocks of the program
  cached,          \* heap -> spans in its thread caches
  reserve,         \* heap -> span_reserve and its master, or None
  heap_span,       \* heap -> the span that holds the heap itself, or None
  global_reserve,  \* _memory_global_reserve and its master, or None
  slots,           \* _memory_span_cache[].span
  overflow,        \* _memory_span_cache[].overflow
  spill,           \* heap -> spans it failed to insert in the global cache
  keep,            \* heap -> masters among them to put back
  lock,            \* _memory_global_lock
  pc, want,        \* heap -> what its thread does; span count it maps
  phase            \* "run", then the steps of rpmalloc_finalize

regionVars == <<total, remaining>>
heapVars == <<used, cached, reserve, heap_span>>
cacheVars == <<slots, overflow, spill, keep>>
controlVars == <<lock, pc, want, phase>>
vars == <<config, regionVars, heapVars, global_reserve, cacheVars, controlVars>>

PageSpans == config.page
MapCount == config.map
ReserveCount == config.reserve
LargeMax == config.large
CacheMax == config.cache
GlobalLimit == config.slots

\* The master span of a region, n spans of it
Master(r, n) == [region |-> r, first |-> 0, count |-> n, master |-> r]
IsMaster(s) == s.first = 0

\* The part of a reserve that starts at its n-th span, marked as a subspan of
\* the reserve's master, and the spans before it
Front(s, n) == [s EXCEPT !.count = n]

After(s, n) ==
  IF n = s.count THEN None
  ELSE [s EXCEPT !.first = @ + n, !.count = @ - n]

Least(a, b) == IF a <= b THEN a ELSE b
OfCount(spans, n) == {s \in spans : s.count = n}

\* Regions are mapped in multiples of span_map_count
Aligned(n) ==
  LET request == IF n > MapCount THEN n ELSE MapCount IN
    IF request % PageSpans # 0
    THEN request + MapCount - (request % MapCount)
    ELSE request

\* Spans somewhat larger than asked for will do as well
Limit(n) == Least(LargeMax, IF n > 2 THEN n + (n \div 2) ELSE n)

UseGlobalReserve == PageSpans > 1 \/ MapCount > ReserveCount

Init ==
  /\ config \in Configs
  /\ total = [r \in Region |-> 0]
  /\ remaining = [r \in Region |-> 0]
  /\ used = [h \in Heap |-> {}]
  /\ cached = [h \in Heap |-> {}]
  /\ reserve = [h \in Heap |-> None]
  /\ heap_span = [h \in Heap |-> None]
  /\ global_reserve = None
  /\ slots = {} /\ overflow = {}
  /\ spill = [h \in Heap |-> {}]
  /\ keep = [h \in Heap |-> {}]
  /\ lock = 0
  /\ pc = [h \in Heap |-> "absent"]
  /\ want = [h \in Heap |-> 0]
  /\ phase = "run"

---------------------------------------------------------------------------
(* Mapping, unmapping and the caches *)

\* A range mmap can still give
Unmapped(r) ==
  total[r] = 0 /\ Cardinality({q \in Region : total[q] # 0}) < config.regions

\* The spans of s go: subtract them from the master's count, release the
\* region when nothing is left of it
Unmap(s) ==
  LET left == remaining[s.master] - s.count IN
    /\ remaining' = [remaining EXCEPT ![s.master] = left]
    /\ total' = [total EXCEPT ![s.master] = IF left <= 0 THEN 0 ELSE @]

\* Which of the given spans find a slot in the global cache
Inserted(spans) ==
  {ins \in SUBSET spans :
     \A n \in 1..LargeMax :
       Cardinality(OfCount(ins, n)) =
         Least(Cardinality(OfCount(spans, n)),
               GlobalLimit - Cardinality(OfCount(slots, n)))}

\* Move spans of heap h to the global cache.  What does not fit overflows
\* when pages are huge, else is up to SpillOne
GlobalInsert(h, spans) ==
  IF GlobalCache
  THEN \E ins \in Inserted(spans) :
         /\ slots' = slots \cup ins
         /\ IF PageSpans > 1
            THEN overflow' = overflow \cup (spans \ ins) /\ UNCHANGED spill
            ELSE spill' = [spill EXCEPT ![h] = spans \ ins] /\ UNCHANGED overflow
  ELSE spill' = [spill EXCEPT ![h] = spans] /\ UNCHANGED <<slots, overflow>>

\* Put span s in the thread cache of h, which spills when it is full
CacheInsertCopies(h, s) ==  \* mutant: a full cache keeps what it gives away
  \/ /\ cached' = [cached EXCEPT ![h] = @ \cup {s}]
     /\ UNCHANGED <<slots, overflow, spill>>
  \/ /\ cached' = [cached EXCEPT ![h] = @ \cup {s}]
     /\ GlobalInsert(h, {s})

CacheInsert(h, s) ==
  LET same == OfCount(cached[h], s.count) \cup {s} IN
    IF Cardinality(same) < CacheMax
    THEN /\ cached' = [cached EXCEPT ![h] = @ \cup {s}]
         /\ UNCHANGED <<slots, overflow, spill>>
    ELSE \E moved \in SUBSET same :
           /\ Cardinality(moved) = CacheTransfer
           /\ cached' = [cached EXCEPT ![h] = (@ \cup {s}) \ moved]
           /\ GlobalInsert(h, moved)

\* A span the global cache has no slot for is unmapped, unless it is a master
\* with subspans still around
SpillAny(h) ==  \* mutant: masters are unmapped like other spans
  /\ \E s \in spill[h] :
       /\ spill' = [spill EXCEPT ![h] = @ \ {s}]
       /\ Unmap(s)
  /\ UNCHANGED <<heapVars, global_reserve, slots, overflow, keep, controlVars>>

SpillOne(h) ==
  /\ \E s \in spill[h] :
       /\ spill' = [spill EXCEPT ![h] = @ \ {s}]
       /\ IF GlobalCache /\ IsMaster(s) /\ remaining[s.region] > s.count
          THEN /\ keep' = [keep EXCEPT ![h] = @ \cup {s}]
               /\ UNCHANGED regionVars
          ELSE Unmap(s) /\ UNCHANGED keep
  /\ UNCHANGED <<heapVars, global_reserve, slots, overflow, controlVars>>

\* Such a master takes the slot of a span that may go, or else overflows (a
\* slot may also have become replaceable after it was passed over)
KeepOne(h) ==
  /\ spill[h] = {}
  /\ \E k \in keep[h] :
       /\ keep' = [keep EXCEPT ![h] = @ \ {k}]
       /\ \/ \E s \in OfCount(slots, k.count) :
               /\ IsMaster(s) => remaining[s.region] <= s.count
               /\ Unmap(s)
               /\ slots' = (slots \ {s}) \cup {k}
               /\ UNCHANGED overflow
          \/ /\ overflow' = overflow \cup {k}
             /\ UNCHANGED <<regionVars, slots>>
  /\ UNCHANGED <<heapVars, global_reserve, spill, controlVars>>

---------------------------------------------------------------------------
(* A heap takes and frees spans *)

\* The thread of h is in no operation
Ready(h) == pc[h] = "idle" /\ spill[h] = {} /\ keep[h] = {}
CanAllocate(h) == phase = "run" /\ Ready(h)

ReserveSize(h) == IF reserve[h] = None THEN 0 ELSE reserve[h].count

\* No span of the counts from n up to m in the thread caches
NoneCached(h, n, m) == \A c \in cached[h] : c.count \notin n..m

\* Spans of count m are looked for only when n up to m - 1 gave nothing
Reaches(h, n, m) ==
  /\ m \in n..Limit(n)
  /\ NoneCached(h, n, m - 1)
  /\ m > n => ReserveSize(h) < n

TakeCached(h, n) ==
  /\ CanAllocate(h)
  /\ \E s \in cached[h] :
       /\ Reaches(h, n, s.count)
       /\ cached' = [cached EXCEPT ![h] = @ \ {s}]
       /\ used' = [used EXCEPT ![h] = @ \cup {s}]
  /\ UNCHANGED <<regionVars, reserve, heap_span, global_reserve, cacheVars,
                 controlVars>>

\* A batch from the global cache: slots first, then the overflow
TakeGlobal(h, n) ==
  /\ CanAllocate(h) /\ GlobalCache
  /\ \E m \in 1..LargeMax :
       LET inSlots == OfCount(slots, m)
           inOverflow == OfCount(overflow, m)
       IN \E batch \in SUBSET (inSlots \cup inOverflow) : \E s \in batch :
            /\ Reaches(h, n, m) /\ NoneCached(h, m, m)
            /\ Cardinality(batch) =
                 Least(CacheTransfer, Cardinality(inSlots \cup inOverflow))
            /\ batch \subseteq inSlots \/ inSlots \subseteq batch
            /\ slots' = slots \ batch
            /\ overflow' = overflow \ batch
            /\ cached' = [cached EXCEPT ![h] = @ \cup (batch \ {s})]
            /\ used' = [used EXCEPT ![h] = @ \cup {s}]
  /\ UNCHANGED <<regionVars, reserve, heap_span, global_reserve, spill, keep,
                 controlVars>>

TakeReserved(h, n) ==
  /\ CanAllocate(h)
  /\ NoneCached(h, n, n)
  /\ GlobalCache => OfCount(slots \cup overflow, n) = {}
  /\ ReserveSize(h) >= n
  /\ used' = [used EXCEPT ![h] = @ \cup {Front(reserve[h], n)}]
  /\ reserve' = [reserve EXCEPT ![h] = After(reserve[h], n)]
  /\ UNCHANGED <<regionVars, cached, heap_span, global_reserve, cacheVars,
                 controlVars>>

\* Nothing at hand: map more, alone if the global reserve is in play
MapBegin(h, n) ==
  /\ CanAllocate(h)
  /\ NoneCached(h, n, Limit(n))
  /\ ReserveSize(h) < n
  /\ IF UseGlobalReserve THEN lock = 0 /\ lock' = 1 ELSE UNCHANGED lock
  /\ pc' = [pc EXCEPT ![h] = "mapping"]
  /\ want' = [want EXCEPT ![h] = n]
  /\ UNCHANGED <<regionVars, heapVars, global_reserve, cacheVars, phase>>

Allocate(h, n) ==
  \/ TakeCached(h, n)
  \/ TakeGlobal(h, n)
  \/ TakeReserved(h, n)
  \/ MapBegin(h, n)

GlobalReserveSize == IF global_reserve = None THEN 0 ELSE global_reserve.count

\* From the global reserve, taking a reserve for the heap as well if it has none
MapFromGlobalReserve(h, n) ==
  LET count == Least(GlobalReserveSize,
                     IF reserve[h] = None THEN ReserveCount ELSE n)
      taken == Front(global_reserve, count)
  IN /\ UseGlobalReserve /\ GlobalReserveSize >= n
     /\ global_reserve' = After(global_reserve, count)
     /\ used' = [used EXCEPT ![h] = @ \cup {Front(taken, n)}]
     /\ reserve' = IF count > n
                   THEN [reserve EXCEPT ![h] = After(taken, n)]
                   ELSE reserve
     /\ UNCHANGED <<regionVars, cached, heap_span, cacheVars>>

\* Region r is mapped: n spans for the heap, then its reserve, then the global
\* reserve.  The reserves they replace are cached and unmapped
MapRegion(h, n, r) ==
  LET size == Aligned(n)
      own == Least(size - n, ReserveCount)
      mapped == Master(r, size)
  IN /\ Unmapped(r)
     /\ used' = [used EXCEPT ![h] = @ \cup {Master(r, n)}]
     /\ IF size > n
        THEN /\ reserve' = [reserve EXCEPT ![h] = Front(After(mapped, n), own)]
             /\ IF reserve[h] # None
                THEN CacheInsert(h, reserve[h])
                ELSE UNCHANGED <<cached, slots, overflow, spill>>
        ELSE UNCHANGED <<reserve, cached, slots, overflow, spill>>
     /\ IF size - n > own
        THEN /\ global_reserve' = After(mapped, n + own)
             /\ IF global_reserve = None
                THEN /\ total' = [total EXCEPT ![r] = size]
                     /\ remaining' = [remaining EXCEPT ![r] = size]
                ELSE LET m == global_reserve.master
                         left == remaining[m] - global_reserve.count
                     IN /\ remaining' = [remaining EXCEPT ![r] = size, ![m] = left]
                        /\ total' = [total EXCEPT ![r] = size,
                                                  ![m] = IF left <= 0 THEN 0 ELSE @]
        ELSE /\ total' = [total EXCEPT ![r] = size]
             /\ remaining' = [remaining EXCEPT ![r] = size]
             /\ UNCHANGED global_reserve
     /\ UNCHANGED <<heap_span, keep>>

\* No region left: mmap fails
MapFails ==
  /\ \A r \in Region : ~Unmapped(r)
  /\ UNCHANGED <<regionVars, heapVars, global_reserve, cacheVars>>

MapEnd(h) ==
  /\ pc[h] = "mapping"
  /\ \/ MapFromGlobalReserve(h, want[h])
     \/ /\ ~(UseGlobalReserve /\ GlobalReserveSize >= want[h])
        /\ (\E r \in Region : MapRegion(h, want[h], r)) \/ MapFails
  /\ lock' = IF UseGlobalReserve THEN 0 ELSE lock
  /\ pc' = [pc EXCEPT ![h] = "idle"]
  /\ want' = [want EXCEPT ![h] = 0]
  /\ UNCHANGED phase

\* The last block of a span is freed.  A span of several may become the
\* heap's reserve (if the thread cache has no single spans, those the size
\* classes hold back apart), else and when another thread freed it, it is cached
Free(h) ==
  /\ CanAllocate(h)
  /\ \E s \in used[h] :
       /\ used' = [used EXCEPT ![h] = @ \ {s}]
       /\ \/ /\ s.count > 1 /\ reserve[h] = None
             /\ reserve' = [reserve EXCEPT ![h] = s]
             /\ UNCHANGED <<cached, slots, overflow, spill>>
          \/ CacheInsert(h, s) /\ UNCHANGED reserve
  /\ UNCHANGED <<regionVars, heap_span, global_reserve, keep, controlVars>>

---------------------------------------------------------------------------
(* Heaps *)

\* A new group of heaps is made under the lock: its memory comes from the
\* global reserve, or is a region of its own, whose spare spans are reserves
HeapBegin(h) ==
  /\ phase = "run" /\ pc[h] = "absent" /\ lock = 0
  /\ Cardinality({g \in Heap : pc[g] # "absent"}) < config.heaps
  /\ lock' = 1
  /\ pc' = [pc EXCEPT ![h] = "creating"]
  /\ UNCHANGED <<regionVars, heapVars, global_reserve, cacheVars, want, phase>>

HeapFromReserve(h) ==
  /\ heap_span' = [heap_span EXCEPT ![h] = Front(global_reserve, HeapSpans)]
  /\ global_reserve' = After(global_reserve, HeapSpans)
  /\ UNCHANGED <<regionVars, reserve>>

HeapFromRegion(h, r) ==
  LET size == IF PageSpans > HeapSpans THEN PageSpans ELSE HeapSpans
      own == Least(size - HeapSpans, ReserveCount)
      mapped == Master(r, size)
  IN /\ Unmapped(r)
     /\ total' = [total EXCEPT ![r] = size]
     /\ remaining' = [remaining EXCEPT ![r] = size]
     /\ heap_span' = [heap_span EXCEPT ![h] = Master(r, HeapSpans)]
     /\ reserve' = IF own > 0
                   THEN [reserve EXCEPT ![h] = Front(After(mapped, HeapSpans), own)]
                   ELSE reserve
     /\ global_reserve' = IF size - HeapSpans > own
                          THEN After(mapped, HeapSpans + own)
                          ELSE global_reserve

HeapCreate(h) ==
  /\ pc[h] = "creating"
  /\ IF GlobalReserveSize >= HeapSpans
     THEN HeapFromReserve(h)
     ELSE \E r \in Region : HeapFromRegion(h, r)
  /\ lock' = 0
  /\ pc' = [pc EXCEPT ![h] = "idle"]
  /\ UNCHANGED <<used, cached, cacheVars, want, phase>>

HeapFails(h) ==
  /\ pc[h] = "creating" /\ GlobalReserveSize < HeapSpans
  /\ MapFails
  /\ lock' = 0
  /\ pc' = [pc EXCEPT ![h] = "absent"]
  /\ UNCHANGED <<want, phase>>

\* A thread picks the orphaned heap up
HeapAdopt(h) ==
  /\ phase = "run" /\ pc[h] = "orphan" /\ lock = 0
  /\ pc' = [pc EXCEPT ![h] = "idle"]
  /\ UNCHANGED <<regionVars, heapVars, global_reserve, cacheVars, lock, want,
                 phase>>

\* rpmalloc_thread_finalize: release the caches if asked to, ...
HeapLeave(h) ==
  /\ CanAllocate(h)
  /\ \/ UNCHANGED <<cached, slots, overflow, spill>>
     \/ GlobalInsert(h, cached[h]) /\ cached' = [cached EXCEPT ![h] = {}]
  /\ pc' = [pc EXCEPT ![h] = "leaving"]
  /\ UNCHANGED <<regionVars, used, reserve, heap_span, global_reserve, keep,
                 lock, want, phase>>

\* ... then put the heap in the list of orphans, under the lock; the main
\* thread does not wait for the lock but stores 0 in it all the same
HeapOrphanAtOnce(h) ==  \* mutant: no thread waits for the lock
  /\ pc[h] = "leaving" /\ spill[h] = {} /\ keep[h] = {}
  /\ lock' = 0
  /\ pc' = [pc EXCEPT ![h] = "orphan"]
  /\ UNCHANGED <<regionVars, heapVars, global_reserve, cacheVars, want, phase>>

HeapOrphan(h) ==
  /\ pc[h] = "leaving" /\ spill[h] = {} /\ keep[h] = {}
  /\ h # Main => lock = 0
  /\ lock' = 0
  /\ pc' = [pc EXCEPT ![h] = "orphan"]
  /\ UNCHANGED <<regionVars, heapVars, global_reserve, cacheVars, want, phase>>

---------------------------------------------------------------------------
(* rpmalloc_finalize, when no thread is inside rpmalloc any more *)

\* The global reserve is deducted from the count of its master
FinalizeReserveForgets ==  \* mutant: only the pointer is reset
  /\ phase = "run"
  /\ \A h \in Heap : Ready(h) \/ pc[h] \in {"absent", "orphan"}
  /\ global_reserve' = None
  /\ lock' = 0
  /\ phase' = "heaps"
  /\ UNCHANGED <<regionVars, heapVars, cacheVars, pc, want>>

FinalizeReserve ==
  /\ phase = "run"
  /\ \A h \in Heap : Ready(h) \/ pc[h] \in {"absent", "orphan"}
  /\ remaining' =
       IF global_reserve = None THEN remaining
       ELSE [remaining EXCEPT ![global_reserve.master] = @ - global_reserve.count]
  /\ global_reserve' = None
  /\ lock' = 0
  /\ phase' = "heaps"
  /\ UNCHANGED <<total, heapVars, cacheVars, pc, want>>

\* Each heap unmaps its reserve, ...
FinalizeReserved(h) ==
  /\ phase = "heaps" /\ reserve[h] # None
  /\ Unmap(reserve[h])
  /\ reserve' = [reserve EXCEPT ![h] = None]
  /\ UNCHANGED <<cached, used, heap_span, global_reserve, cacheVars, controlVars>>

\* ... and the spans of its caches; empty spans that its classes keep as partial
\* are freed there as well, which is not modelled
FinalizeThreadCache(h) ==
  /\ phase = "heaps"
  /\ \E s \in cached[h] : Unmap(s) /\ cached' = [cached EXCEPT ![h] = @ \ {s}]
  /\ UNCHANGED <<reserve, used, heap_span, global_reserve, cacheVars, controlVars>>

\* The heap's own memory goes once none of its spans is in use
UnmapHeap(h) ==
  /\ heap_span[h] # None /\ used[h] = {}
  /\ Unmap(heap_span[h])
  /\ heap_span' = [heap_span EXCEPT ![h] = None]
  /\ UNCHANGED <<used, cached, reserve, global_reserve, cacheVars>>

\* ... and itself, if it can
FinalizeHeap(h) ==
  /\ phase = "heaps" /\ cached[h] = {} /\ reserve[h] = None
  /\ UnmapHeap(h)
  /\ UNCHANGED controlVars

HeapFinalized(h) ==
  /\ cached[h] = {} /\ reserve[h] = None
  /\ heap_span[h] = None \/ used[h] # {}

\* Then the global caches are emptied
FinalizeCaches ==
  /\ phase = "heaps" /\ \A h \in Heap : HeapFinalized(h)
  /\ phase' = "caches"
  /\ UNCHANGED <<regionVars, heapVars, global_reserve, cacheVars, lock, pc, want>>

FinalizeCachedOnly ==  \* mutant: a span also stays in the overflow list
  /\ phase = "caches"
  /\ \E s \in slots \cup overflow :
       /\ Unmap(s)
       /\ slots' = slots \ {s}
  /\ UNCHANGED <<heapVars, global_reserve, overflow, spill, keep, controlVars>>

FinalizeCached ==
  /\ phase = "caches"
  /\ \E s \in slots \cup overflow :
       /\ Unmap(s)
       /\ slots' = slots \ {s}
       /\ overflow' = overflow \ {s}
  /\ UNCHANGED <<heapVars, global_reserve, spill, keep, controlVars>>

FinalizeEnd ==
  /\ phase = "caches" /\ slots \cup overflow = {}
  /\ phase' = "finalized"
  /\ UNCHANGED <<regionVars, heapVars, global_reserve, cacheVars, lock, pc, want>>

\* A block freed after rpmalloc_finalize: its span is unmapped at once.  For
\* a large block the heap is looked at again, for the last block of a span
\* of small or medium ones it is not
FreeLate(h) ==
  /\ phase \in {"finalized", "teardown"} /\ pc[h] # "closing"
  /\ \E s \in used[h] :
       /\ Unmap(s)
       /\ used' = [used EXCEPT ![h] = @ \ {s}]
       /\ \/ s.count = 1 /\ UNCHANGED pc
          \/ pc' = [pc EXCEPT ![h] = "closing"]
  /\ phase' = "teardown"
  /\ UNCHANGED <<cached, reserve, heap_span, global_reserve, cacheVars, lock,
                 want>>

CloseHeap(h) ==
  /\ pc[h] = "closing"
  /\ \/ UnmapHeap(h)
     \/ /\ used[h] # {}
        /\ UNCHANGED <<regionVars, heapVars, global_reserve, cacheVars>>
  /\ pc' = [pc EXCEPT ![h] = "idle"]
  /\ UNCHANGED <<lock, want, phase>>

---------------------------------------------------------------------------
Run(h) ==
  \/ HeapBegin(h) \/ HeapCreate(h) \/ HeapFails(h) \/ HeapAdopt(h)
  \/ \E n \in 1..LargeMax : Allocate(h, n)
  \/ MapEnd(h) \/ Free(h) \/ SpillOne(h) \/ KeepOne(h)
  \/ HeapLeave(h) \/ HeapOrphan(h)

Finalize ==
  \/ FinalizeReserve \/ FinalizeCaches \/ FinalizeCached \/ FinalizeEnd
  \/ \E h \in Heap : FinalizeReserved(h) \/ FinalizeThreadCache(h) \/ FinalizeHeap(h)

Next ==
  /\ (\E h \in Heap : Run(h) \/ FreeLate(h) \/ CloseHeap(h)) \/ Finalize
  /\ UNCHANGED config

Spec == Init /\ [][Next]_vars

---------------------------------------------------------------------------
(* Properties *)

\* Every span somebody has
Held ==
  (UNION {used[h] \cup cached[h] \cup spill[h] \cup keep[h] : h \in Heap})
    \cup slots \cup overflow
    \cup (({reserve[h] : h \in Heap} \cup {heap_span[h] : h \in Heap}
             \cup {global_reserve}) \ {None})

Units(s) == {<<s.region, i>> : i \in s.first..(s.first + s.count - 1)}
UnitsHeld(r) == {u \in UNION {Units(s) : s \in Held} : u[1] = r}

\* Values the variables range over
TypeOK ==
  /\ config \in Configs
  /\ total \in [Region -> Nat]
  /\ remaining \in [Region -> Nat]
  /\ used \in [Heap -> SUBSET SpanRec]
  /\ cached \in [Heap -> SUBSET SpanRec]
  /\ reserve \in [Heap -> SpanRec \cup {None}]
  /\ heap_span \in [Heap -> SpanRec \cup {None}]
  /\ global_reserve \in SpanRec \cup {None}
  /\ slots \subseteq SpanRec /\ overflow \subseteq SpanRec
  /\ spill \in [Heap -> SUBSET SpanRec]
  /\ keep \in [Heap -> SUBSET SpanRec]
  /\ lock \in {0, 1}
  /\ pc \in [Heap -> {"absent", "creating", "idle", "mapping", "leaving",
                      "orphan", "closing"}]
  /\ want \in [Heap -> 0..LargeMax]
  /\ phase \in {"run", "heaps", "caches", "finalized", "teardown"}

\* Cutting regions up and handing the parts around never makes two spans
\* share memory, nor leaves a span in a region already released, nor one
\* whose header leads to another region's master
SpansDisjoint ==
  /\ \A s \in Held : s.master = s.region /\ s.first + s.count <= total[s.region]
  /\ \A s, t \in Held : s # t => Units(s) \cap Units(t) = {}
  /\ \A h \in Heap :
       /\ used[h] \cap cached[h] = {}
       /\ (used[h] \cup cached[h]) \cap (slots \cup overflow) = {}
       /\ \A g \in Heap \ {h} : used[h] \cap (used[g] \cup cached[g]) = {}

\* remaining_spans counts exactly the spans of the region somebody has:
\* none was dropped on the way between reserves and caches, none is unmapped
\* twice.  Hence the region is released with its last span, never before
RemainingExact ==
  \A r \in Region : remaining[r] = Cardinality(UnitsHeld(r))

\* "Keep master spans that has remaining subspans to avoid dangling them":
\* until rpmalloc_finalize a mapped region still has its master span
MastersKept ==
  phase = "run" =>
    \A r \in Region : total[r] # 0 => \E s \in Held : s.region = r /\ IsMaster(s)

\* Together: a region stays mapped, with its master, as long as it is used
RegionsWhole == RemainingExact /\ MastersKept

\* rpmalloc_finalize asserts that nothing stays mapped; so it is when the
\* program has freed everything
NothingMappedAfterFinalize ==
  phase = "finalized" /\ (\A h \in Heap : used[h] = {})
    => \A r \in Region : total[r] = 0

\* What the global lock protects: one thread at a time maps or makes a heap,
\* and has the lock while it does
Mapping == {h \in Heap : \/ pc[h] = "creating"
                         \/ pc[h] = "mapping" /\ UseGlobalReserve}
GlobalLockHeld == Mapping # {} => lock = 1
OneMapper == \A g, h \in Mapping : g = h
===========================================================================
