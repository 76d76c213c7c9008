------------------------------ MODULE RpSpan ------------------------------
(***************************************************************************)
(* The small/medium block path of rpmalloc.c for one size class: a heap    *)
(* owned by a thread hands out the blocks of its spans without             *)
(* synchronisation, while every other thread gives blocks back through the *)
(* lock-free deferred list of the span (locked by swapping in              *)
(* INVALID_POINTER) and, when it frees the last block of a full span,      *)
(* through the deferred span list of the heap.                             *)
(*                                                                         *)
(* A step is one access to memory another thread may touch; what a heap's  *)
(* owner does to its private fields between two such accesses belongs to   *)
(* the step before it.  Linked lists are sets: no property below depends   *)
(* on their order.                                                         *)
(***************************************************************************)
EXTENDS Integers, FiniteSets

CONSTANTS
  Thread,        \* threads that call rpmalloc and rpfree
  Heap,          \* heap_t structures (bounds _rpmalloc_heap_allocate_new)
  Span,          \* spans of span_count 1 in the process
  BlockCount,    \* size_class_t.block_count: blocks in a span
  PageBlocks,    \* most blocks one free_list_partial_init call links
  CacheLimit,    \* spans a heap keeps before it spills to the global cache
  None,          \* null pointer, or the owner_thread of an orphan (-1)
  INVALID        \* INVALID_POINTER: a thread has swapped the list out

ASSUME SpanParams ==
  /\ BlockCount \in Nat \ {0}
  /\ PageBlocks \in Nat /\ PageBlocks >= 2
  /\ CacheLimit \in Nat \ {0}
  /\ IsFiniteSet(Span)
  /\ None \notin Thread \cup Heap \cup Span
  /\ \A list \in SUBSET (1..BlockCount) : list # INVALID

Block == 1..BlockCount
Cell == Span \X Block

VARIABLES
  owner_thread,        \* heap -> thread that owns it, None when orphaned
  orphans,             \* _memory_orphan_heaps, and the heaps not created yet
  class_free_list,     \* heap -> cells in heap_size_class_t.free_list
  partial_span,        \* heap -> spans in heap_size_class_t.partial_span
  full_span_count,     \* heap -> number of full spans
  span_free_deferred,  \* heap -> spans other threads freed completely
  cache,               \* heap -> spans in size_class.cache and span_cache
  pool,                \* spans in the global cache, reserved or not mapped
  heap,                \* span->heap
  free_list,           \* span->free_list
  free_list_limit,     \* span->free_list_limit
  used_count,          \* span->used_count
  list_size,           \* span->list_size
  free_list_deferred,  \* span->free_list_deferred
  allocated,           \* cells the program holds
  pc, reg              \* thread -> where it is, and its local variables

heapVars == <<owner_thread, orphans>>
classVars == <<class_free_list, partial_span, full_span_count>>
storeVars == <<span_free_deferred, cache, pool>>
ownVars == <<heap, free_list, free_list_limit, used_count>>
sharedVars == <<list_size, free_list_deferred>>
threadVars == <<allocated, pc, reg>>
vars == <<heapVars, classVars, storeVars, ownVars, sharedVars, threadVars>>

\* A thread's local variables: the span and block it works on, and the
\* deferred list it took
Reg == [span : Span \cup {None}, block : 0..BlockCount, list : SUBSET Block]
NoReg == [span |-> None, block |-> 0, list |-> {}]

PC == {"idle",
       "extract", "merge",                  \* malloc: take the deferred list
       "sync", "unsync", "release",         \* free by the owner, span now empty
       "defer", "link", "publish",          \* free by another thread
       "publish_last", "push"}              \* ... of the last block in use

\* _rpmalloc_span_is_fully_utilized for the given free list and limit
FullyUtilized(list, limit) == list = {} /\ limit >= BlockCount

Init ==
  /\ owner_thread = [h \in Heap |-> None]
  /\ orphans = Heap
  /\ class_free_list = [h \in Heap |-> {}]
  /\ partial_span = [h \in Heap |-> {}]
  /\ full_span_count = [h \in Heap |-> 0]
  /\ span_free_deferred = [h \in Heap |-> {}]
  /\ cache = [h \in Heap |-> {}]
  /\ pool = Span
  /\ heap = [s \in Span |-> None]
  /\ free_list = [s \in Span |-> {}]
  /\ free_list_limit = [s \in Span |-> 0]
  /\ used_count = [s \in Span |-> 0]
  /\ list_size = [s \in Span |-> 0]
  /\ free_list_deferred = [s \in Span |-> {}]
  /\ allocated = {}
  /\ pc = [t \in Thread |-> "idle"]
  /\ reg = [t \in Thread |-> NoReg]

Local(s, block, list) == [span |-> s, block |-> block, list |-> list]

Goto(t, label, r) ==
  /\ pc' = [pc EXCEPT ![t] = label]
  /\ reg' = [reg EXCEPT ![t] = r]

\* The owner's malloc returns cell c
Return(t, c) ==
  /\ allocated' = allocated \cup {c}
  /\ Goto(t, "idle", NoReg)

---------------------------------------------------------------------------
(* Spans in and out of the heap's cache *)

\* What a heap may keep of the spans it caches: all of them up to the limit,
\* beyond it a batch moves on to the global cache (_rpmalloc_heap_cache_insert)
Keep(spans) ==
  IF Cardinality(spans) <= CacheLimit
  THEN {spans}
  ELSE {kept \in SUBSET spans : Cardinality(kept) <= CacheLimit}

CacheInsert(h, spans) ==
  \E kept \in Keep(cache[h] \cup spans) :
    /\ cache' = [cache EXCEPT ![h] = kept]
    /\ pool' = pool \cup ((cache[h] \cup spans) \ kept)

\* Mutant of AdoptDeferred: the adopted spans still count as full
AdoptUncounted(h) ==
  /\ span_free_deferred' = [span_free_deferred EXCEPT ![h] = {}]
  /\ CacheInsert(h, span_free_deferred[h])
  /\ UNCHANGED full_span_count

\* Swap out the heap's list of completely freed spans and cache them all
AdoptDeferred(h) ==
  /\ span_free_deferred' = [span_free_deferred EXCEPT ![h] = {}]
  /\ full_span_count' =
       [full_span_count EXCEPT ![h] = @ - Cardinality(span_free_deferred[h])]
  /\ CacheInsert(h, span_free_deferred[h])

\* Mutant of PageWorth: the end of the span does not bound the blocks linked
PageWorthUnclamped(remaining) ==
  IF remaining = 1 THEN {1} ELSE 2..(2 * PageBlocks)

\* Blocks one call of free_list_partial_init may initialise: at least two
\* when that many remain, at most a page worth
PageWorth(remaining) ==
  IF remaining = 1 THEN {1} ELSE {n \in 2..remaining : n <= PageBlocks}

\* Mutant of InitializeNew: the deferred count of the span's last life stays
InitializeNewStale(h, s, full) ==
  \E n \in PageWorth(BlockCount) :
    /\ heap' = [heap EXCEPT ![s] = h]
    /\ free_list' = [free_list EXCEPT ![s] = {}]
    /\ free_list_deferred' = [free_list_deferred EXCEPT ![s] = {}]
    /\ free_list_limit' = [free_list_limit EXCEPT ![s] = n]
    /\ used_count' = [used_count EXCEPT ![s] = n]
    /\ class_free_list' = [class_free_list EXCEPT ![h] = {s} \X (2..n)]
    /\ partial_span' = [partial_span EXCEPT ![h] = @ \cup {s}]
    /\ UNCHANGED <<full_span_count, list_size>>

\* Span s becomes the active span of heap h; its first block is handed out,
\* the rest of its first page becomes the free list of the size class.  Of the
\* heap's other spans, full ones are counted as such
InitializeNew(h, s, full) ==
  \E n \in PageWorth(BlockCount) :
    /\ heap' = [heap EXCEPT ![s] = h]
    /\ free_list' = [free_list EXCEPT ![s] = {}]
    /\ list_size' = [list_size EXCEPT ![s] = 0]
    /\ free_list_deferred' = [free_list_deferred EXCEPT ![s] = {}]
    /\ free_list_limit' = [free_list_limit EXCEPT ![s] = n]
    /\ used_count' = [used_count EXCEPT ![s] = n]
    /\ class_free_list' = [class_free_list EXCEPT ![h] = {s} \X (2..n)]
    /\ IF n < BlockCount
       THEN /\ partial_span' = [partial_span EXCEPT ![h] = @ \cup {s}]
            /\ full_span_count' = [full_span_count EXCEPT ![h] = full]
       ELSE /\ partial_span' = partial_span
            /\ full_span_count' = [full_span_count EXCEPT ![h] = full + 1]

---------------------------------------------------------------------------
(* Allocation by the owner of heap h *)

\* The size class has a free block
AllocateFast(t, h) ==
  /\ pc[t] = "idle" /\ owner_thread[h] = t
  /\ \E c \in class_free_list[h] :
       /\ class_free_list' = [class_free_list EXCEPT ![h] = @ \ {c}]
       /\ Return(t, c)
  /\ UNCHANGED <<heapVars, partial_span, full_span_count, storeVars,
                 ownVars, sharedVars>>

\* What is left of the fallback once span s has (maybe) taken in its deferred
\* list: a fully utilised span leaves the partial list
FinishFallback(t, h, s, block, list, limit) ==
  /\ IF FullyUtilized(list, limit)
     THEN /\ partial_span' = [partial_span EXCEPT ![h] = @ \ {s}]
          /\ full_span_count' = [full_span_count EXCEPT ![h] = @ + 1]
     ELSE UNCHANGED <<partial_span, full_span_count>>
  /\ Return(t, <<s, block>>)

\* Refill the size class from a partial span: from its free list if it has
\* one, else from a page of blocks not initialised yet
Refill(h, s, block, limit) ==
  \/ /\ block \in free_list[s]
     /\ limit = free_list_limit[s]
     /\ class_free_list' =
          [class_free_list EXCEPT ![h] = {s} \X (free_list[s] \ {block})]
  \/ /\ free_list[s] = {}
     /\ block = free_list_limit[s] + 1
     /\ limit - free_list_limit[s]
          \in PageWorth(BlockCount - free_list_limit[s])
     /\ class_free_list' =
          [class_free_list EXCEPT ![h] = {s} \X ((block + 1)..limit)]

\* The size class is empty and a span is partial
AllocateFromPartial(t, h) ==
  /\ pc[t] = "idle" /\ owner_thread[h] = t
  /\ class_free_list[h] = {}
  /\ \E s \in partial_span[h], block, limit \in Block :
       /\ Refill(h, s, block, limit)
       /\ free_list' = [free_list EXCEPT ![s] = {}]
       /\ free_list_limit' = [free_list_limit EXCEPT ![s] = limit]
       /\ used_count' = [used_count EXCEPT ![s] = limit]
       /\ IF free_list_deferred[s] # {}
          THEN /\ Goto(t, "extract", Local(s, block, {}))
               /\ UNCHANGED <<partial_span, full_span_count, allocated>>
          ELSE FinishFallback(t, h, s, block, {}, limit)
  /\ UNCHANGED <<heapVars, storeVars, heap, sharedVars>>

\* Swap INVALID_POINTER in, spinning while another thread has done so
TakeDeferred(t, label) ==
  LET s == reg[t].span IN
    /\ free_list_deferred[s] # INVALID
    /\ free_list_deferred' = [free_list_deferred EXCEPT ![s] = INVALID]
    /\ Goto(t, label, Local(s, reg[t].block, free_list_deferred[s]))
    /\ UNCHANGED <<heapVars, classVars, storeVars, ownVars, list_size,
                   allocated>>

ExtractDeferred(t) == pc[t] = "extract" /\ TakeDeferred(t, "merge")

\* Mutant of MergeDeferred: the list taken over is stored back all the same
MergeStoresBack(t) ==
  /\ pc[t] = "merge"
  /\ LET s == reg[t].span IN
       /\ free_list' = [free_list EXCEPT ![s] = reg[t].list]
       /\ used_count' = [used_count EXCEPT ![s] = @ - list_size[s]]
       /\ list_size' = [list_size EXCEPT ![s] = 0]
       /\ free_list_deferred' = [free_list_deferred EXCEPT ![s] = reg[t].list]
       /\ FinishFallback(t, heap[s], s, reg[t].block,
                         reg[t].list, free_list_limit[s])
  /\ UNCHANGED <<heapVars, class_free_list, storeVars, heap,
                 free_list_limit>>

\* Take the deferred blocks over, unlock, and finish the allocation
MergeDeferred(t) ==
  /\ pc[t] = "merge"
  /\ LET s == reg[t].span IN
       /\ free_list' = [free_list EXCEPT ![s] = reg[t].list]
       /\ used_count' = [used_count EXCEPT ![s] = @ - list_size[s]]
       /\ list_size' = [list_size EXCEPT ![s] = 0]
       /\ free_list_deferred' = [free_list_deferred EXCEPT ![s] = {}]
       /\ FinishFallback(t, heap[s], s, reg[t].block,
                         reg[t].list, free_list_limit[s])
  /\ UNCHANGED <<heapVars, class_free_list, storeVars, heap,
                 free_list_limit>>

\* No partial span: initialise a span taken from the heap's cache
AllocateFromCache(t, h) ==
  /\ pc[t] = "idle" /\ owner_thread[h] = t
  /\ class_free_list[h] = {} /\ partial_span[h] = {}
  /\ \E s \in cache[h] :
       /\ cache' = [cache EXCEPT ![h] = @ \ {s}]
       /\ InitializeNew(h, s, full_span_count[h])
       /\ Return(t, <<s, 1>>)
  /\ UNCHANGED <<heapVars, span_free_deferred, pool>>

\* Nor is there a cached one: adopt the spans other threads freed, and use
\* one of those, or one from the global cache, the reserve or the system
AllocateFromElsewhere(t, h) ==
  /\ pc[t] = "idle" /\ owner_thread[h] = t
  /\ class_free_list[h] = {} /\ partial_span[h] = {} /\ cache[h] = {}
  /\ \E s \in IF span_free_deferred[h] # {} THEN span_free_deferred[h]
                                            ELSE pool :
       /\ \E kept \in Keep(span_free_deferred[h] \ {s}) :
            /\ cache' = [cache EXCEPT ![h] = kept]
            /\ pool' = (pool \cup (span_free_deferred[h] \ kept)) \ {s}
       /\ InitializeNew(h, s, full_span_count[h]
                                - Cardinality(span_free_deferred[h]))
       /\ Return(t, <<s, 1>>)
  /\ span_free_deferred' = [span_free_deferred EXCEPT ![h] = {}]
  /\ UNCHANGED heapVars

Allocate(t, h) ==
  \/ AllocateFast(t, h)
  \/ AllocateFromPartial(t, h)
  \/ AllocateFromCache(t, h)
  \/ AllocateFromElsewhere(t, h)

---------------------------------------------------------------------------
(* Free by the thread that owns the heap of the span *)

\* The block goes to the span's free list; the size of the deferred list is
\* read without synchronisation, and a stale value may be seen: any size the
\* list had since the owner last reset it
DeallocateDirect(t) ==
  /\ pc[t] = "idle"
  /\ \E c \in allocated :
       LET s == c[1]
           h == heap[s]
           wasFull == FullyUtilized(free_list[s], free_list_limit[s])
           used == IF wasFull THEN BlockCount - 1 ELSE used_count[s] - 1
       IN /\ owner_thread[h] = t
          /\ allocated' = allocated \ {c}
          /\ free_list' = [free_list EXCEPT ![s] = @ \cup {c[2]}]
          /\ used_count' = [used_count EXCEPT ![s] = used]
          /\ IF wasFull
             THEN /\ partial_span' = [partial_span EXCEPT ![h] = @ \cup {s}]
                  /\ full_span_count' = [full_span_count EXCEPT ![h] = @ - 1]
             ELSE UNCHANGED <<partial_span, full_span_count>>
          /\ \E seen \in 0..list_size[s] :
               IF used = seen
               THEN Goto(t, IF used # 0 THEN "sync" ELSE "release",
                         Local(s, 0, {}))
               ELSE UNCHANGED <<pc, reg>>
  /\ UNCHANGED <<heapVars, class_free_list, storeVars, heap,
                 free_list_limit, sharedVars>>

\* Swap the deferred list out to synchronise with the last remote free ...
SyncDeferred(t) == pc[t] = "sync" /\ TakeDeferred(t, "unsync")

\* Mutant of ReleaseToCache: the span stays in the partial list
ReleaseStillLinked(t) ==
  /\ pc[t] \in {"unsync", "release"}
  /\ LET s == reg[t].span IN
       /\ IF pc[t] = "unsync"
          THEN free_list_deferred' =
                 [free_list_deferred EXCEPT ![s] = reg[t].list]
          ELSE UNCHANGED free_list_deferred
       /\ CacheInsert(heap[s], {s})
  /\ Goto(t, "idle", NoReg)
  /\ UNCHANGED <<heapVars, classVars, span_free_deferred, ownVars, list_size,
                 allocated>>

\* Mutant of ReleaseToCache: having stored the list back, compares again
ReleaseRetries(t) ==
  IF pc[t] = "release"
  THEN ReleaseStillLinked(t)
  ELSE /\ pc[t] = "unsync"
       /\ free_list_deferred' =
            [free_list_deferred EXCEPT ![reg[t].span] = reg[t].list]
       /\ Goto(t, "sync", Local(reg[t].span, 0, {}))
       /\ UNCHANGED <<heapVars, classVars, storeVars, ownVars, list_size,
                      allocated>>

\* ... store it back; unlink the span and move it to the heap's cache
ReleaseToCache(t) ==
  /\ pc[t] \in {"unsync", "release"}
  /\ LET s == reg[t].span
         h == heap[s]
     IN /\ IF pc[t] = "unsync"
           THEN free_list_deferred' =
                  [free_list_deferred EXCEPT ![s] = reg[t].list]
           ELSE UNCHANGED free_list_deferred
        /\ partial_span' = [partial_span EXCEPT ![h] = @ \ {s}]
        /\ CacheInsert(h, {s})
  /\ Goto(t, "idle", NoReg)
  /\ UNCHANGED <<heapVars, class_free_list, full_span_count,
                 span_free_deferred, ownVars, list_size, allocated>>

---------------------------------------------------------------------------
(* Free by any other thread *)

\* Read the owner of the span's heap: it is somebody else, or nobody
DeallocateDeferred(t) ==
  /\ pc[t] = "idle"
  /\ \E c \in allocated :
       /\ owner_thread[heap[c[1]]] # t
       /\ allocated' = allocated \ {c}
       /\ Goto(t, "defer", Local(c[1], c[2], {}))
  /\ UNCHANGED <<heapVars, classVars, storeVars, ownVars, sharedVars>>

DeferLock(t) == pc[t] = "defer" /\ TakeDeferred(t, "link")

\* Mutants of DeferLink: the last free is taken to be the one that reaches
\* `last` (too early, or never), or the list taken is not linked behind the block
LinkWith(t, last, rest) ==
  /\ pc[t] = "link"
  /\ LET s == reg[t].span IN
       /\ list_size' = [list_size EXCEPT ![s] = @ + 1]
       /\ Goto(t, IF list_size[s] + 1 = last THEN "publish_last" ELSE "publish",
               Local(s, 0, rest \cup {reg[t].block}))
  /\ UNCHANGED <<heapVars, classVars, storeVars, ownVars, free_list_deferred,
                 allocated>>
LinkOneEarly(t) == LinkWith(t, BlockCount - 1, reg[t].list)

\* Link the block in front of the list taken, count it, and note whether it
\* was the last block of the span (all_deferred_free)
DeferLink(t) ==
  /\ pc[t] = "link"
  /\ LET s == reg[t].span IN
       /\ list_size' = [list_size EXCEPT ![s] = @ + 1]
       /\ Goto(t, IF list_size[s] + 1 = BlockCount THEN "publish_last"
                                                   ELSE "publish",
               Local(s, 0, reg[t].list \cup {reg[t].block}))
  /\ UNCHANGED <<heapVars, classVars, storeVars, ownVars, free_list_deferred,
                 allocated>>

\* Store the list, which unlocks it
DeferPublish(t) ==
  /\ pc[t] \in {"publish", "publish_last"}
  /\ LET s == reg[t].span IN
       /\ free_list_deferred' =
            [free_list_deferred EXCEPT ![s] = reg[t].list]
       /\ IF pc[t] = "publish_last" THEN Goto(t, "push", Local(s, 0, {}))
                                    ELSE Goto(t, "idle", NoReg)
  /\ UNCHANGED <<heapVars, classVars, storeVars, ownVars, list_size,
                 allocated>>

\* Every block of the span is in its deferred list: give the span to its heap
DeferPush(t) ==
  /\ pc[t] = "push"
  /\ LET s == reg[t].span IN
       span_free_deferred' =
         [span_free_deferred EXCEPT ![heap[s]] = @ \cup {s}]
  /\ Goto(t, "idle", NoReg)
  /\ UNCHANGED <<heapVars, classVars, cache, pool, ownVars, sharedVars,
                 allocated>>

---------------------------------------------------------------------------
(* Threads taking and leaving heaps *)

\* rpmalloc_thread_initialize: take an orphaned (or new) heap, adopt what was
\* freed into it meanwhile, become its owner
HeapAllocate(t) ==
  /\ pc[t] = "idle"
  /\ \A h \in Heap : owner_thread[h] # t
  /\ \E h \in orphans :
       /\ orphans' = orphans \ {h}
       /\ owner_thread' = [owner_thread EXCEPT ![h] = t]
       /\ AdoptDeferred(h)
  /\ UNCHANGED <<class_free_list, partial_span, ownVars, sharedVars,
                 threadVars>>

\* rpmalloc_thread_finalize: adopt deferred spans, hand the cached spans to
\* the global cache when asked to, orphan the heap
HeapRelease(t, h) ==
  /\ pc[t] = "idle" /\ owner_thread[h] = t
  /\ orphans' = orphans \cup {h}
  /\ owner_thread' = [owner_thread EXCEPT ![h] = None]
  /\ span_free_deferred' = [span_free_deferred EXCEPT ![h] = {}]
  /\ full_span_count' =
       [full_span_count EXCEPT ![h] = @ - Cardinality(span_free_deferred[h])]
  /\ \/ CacheInsert(h, span_free_deferred[h])
     \/ \E kept \in SUBSET (cache[h] \cup span_free_deferred[h]) :
          /\ Cardinality(kept) <= 1     \* size_class.cache is not released
          /\ cache' = [cache EXCEPT ![h] = kept]
          /\ pool' = pool \cup ((cache[h] \cup span_free_deferred[h]) \ kept)
  /\ UNCHANGED <<class_free_list, partial_span, ownVars, sharedVars,
                 threadVars>>

---------------------------------------------------------------------------
\* The steps of an operation a thread has begun
Continue(t) ==
  \/ ExtractDeferred(t) \/ MergeDeferred(t)
  \/ SyncDeferred(t) \/ ReleaseToCache(t)
  \/ DeferLock(t) \/ DeferLink(t) \/ DeferPublish(t) \/ DeferPush(t)

Next ==
  \E t \in Thread :
    \/ \E h \in Heap : Allocate(t, h) \/ HeapRelease(t, h)
    \/ DeallocateDirect(t)
    \/ DeallocateDeferred(t)
    \/ HeapAllocate(t)
    \/ Continue(t)

Spec == Init /\ [][Next]_vars

\* A thread inside malloc or free keeps being scheduled
FairSpec == Spec /\ \A t \in Thread : WF_vars(Continue(t))

---------------------------------------------------------------------------
(* Properties *)

\* Where a thread holds a block that is in no list
Carrying == {"extract", "merge", "defer", "link"}
InFlight(s) ==
  {b \in Block : \E t \in Thread : /\ pc[t] \in Carrying
                                   /\ reg[t].span = s /\ reg[t].block = b}

Allocated(s) == {b \in Block : <<s, b>> \in allocated}
InClass(s) == {b \in Block : \E h \in Heap : <<s, b>> \in class_free_list[h]}

\* Thread t has swapped INVALID_POINTER into the deferred list of s
Holding(t, s) ==
  /\ reg[t].span = s
  /\ pc[t] \in {"merge", "unsync", "link", "publish", "publish_last"}

\* The deferred list of s, wherever it is now
InDeferred(s) ==
  {b \in Block :
     \/ free_list_deferred[s] # INVALID /\ b \in free_list_deferred[s]
     \/ \E t \in Thread : Holding(t, s) /\ b \in reg[t].list}

\* Spans whose blocks all came back: nothing in them is in use
PushedBy(t, s) == reg[t].span = s /\ pc[t] \in {"publish_last", "push"}
IsIdle(s) ==
  \/ s \in pool
  \/ \E h \in Heap : s \in cache[h] \cup span_free_deferred[h]
  \/ \E t \in Thread : PushedBy(t, s)
Active == {s \in Span : ~IsIdle(s)}
IsPartial(s) == \E h \in Heap : s \in partial_span[h]

\* Values the variables range over
TypeOK ==
  /\ owner_thread \in [Heap -> Thread \cup {None}]
  /\ orphans \subseteq Heap
  /\ class_free_list \in [Heap -> SUBSET Cell]
  /\ partial_span \in [Heap -> SUBSET Span]
  /\ full_span_count \in [Heap -> Int]
  /\ span_free_deferred \in [Heap -> SUBSET Span]
  /\ cache \in [Heap -> SUBSET Span]
  /\ pool \subseteq Span
  /\ heap \in [Span -> Heap \cup {None}]
  /\ free_list \in [Span -> SUBSET Block]
  /\ free_list_limit \in [Span -> 0..BlockCount]
  /\ used_count \in [Span -> Int]
  /\ list_size \in [Span -> Int]
  /\ free_list_deferred \in [Span -> (SUBSET Block) \cup {INVALID}]
  /\ allocated \subseteq Cell
  /\ pc \in [Thread -> PC]
  /\ reg \in [Thread -> Reg]

\* A block is never free twice, nor free while the program or a thread inside
\* malloc or free holds it: the program's blocks, those on their way between
\* lists, the size class free list, the span's free list and its deferred
\* list share no block (free_list_pop, the two deallocate paths, the refill)
NoBlockInTwoPlaces ==
  \A s \in Span :
    /\ Allocated(s) \cap (InFlight(s) \cup InClass(s)
                            \cup free_list[s] \cup InDeferred(s)) = {}
    /\ InFlight(s) \cap (InClass(s) \cup free_list[s] \cup InDeferred(s)) = {}
    /\ InClass(s) \cap (free_list[s] \cup InDeferred(s)) = {}
    /\ free_list[s] \cap InDeferred(s) = {}

\* No interleaving of owner and remote frees drops a block: every block up to
\* free_list_limit is held by the program, on its way, or in one of the lists
NoBlockLost ==
  \A s \in Span :
    1..free_list_limit[s] =
      Allocated(s) \cup InFlight(s) \cup InClass(s)
        \cup free_list[s] \cup InDeferred(s)

\* Together: every block is in exactly one place, through any interleaving
BlocksInOnePlace == NoBlockInTwoPlaces /\ NoBlockLost

\* The two counters the release decision compares are exact: list_size counts
\* the deferred list although the owner resets it and remote threads bump it,
\* used_count counts what is not in free_list
CountersExact ==
  \A s \in Span :
    /\ list_size[s] = Cardinality(InDeferred(s))
    /\ used_count[s] + Cardinality(free_list[s]) = free_list_limit[s]

\* A span that went back (deferred to its heap, cached, or beyond) holds no
\* block of the program nor of a free list that malloc pops from, and no
\* thread is still about to touch its header: the release decision in
\* _rpmalloc_deallocate_direct_small_or_medium reads list_size unsynchronised
IdleSpansUntouched ==
  \A s \in Span : IsIdle(s) =>
    /\ Allocated(s) = {} /\ InClass(s) = {}
    /\ \A t \in Thread : reg[t].span = s => PushedBy(t, s)

\* A span is in one place only: the partial list, the cache or the deferred
\* list of the heap it points to, on its way there, or in the pool
SpanInOnePlace ==
  \A s \in Span :
    /\ \A h \in Heap :
         /\ s \in partial_span[h] \cup cache[h] \cup span_free_deferred[h]
              => heap[s] = h /\ s \notin pool
         /\ s \in partial_span[h] => s \notin cache[h] \cup span_free_deferred[h]
         /\ s \in cache[h] => s \notin span_free_deferred[h]
    /\ \A t \in Thread : PushedBy(t, s) =>
         /\ heap[s] \in Heap /\ s \notin pool
         /\ s \notin partial_span[heap[s]] \cup cache[heap[s]]
                       \cup span_free_deferred[heap[s]]
         /\ \A u \in Thread \ {t} : ~PushedBy(u, s)

\* full_span_count is what rpmalloc_finalize trusts to decide that a heap is
\* empty: it counts the heap's spans that are in no list of the heap (fully
\* used ones) and those remote frees have emptied but nobody adopted yet
FullSpanCountExact ==
  \A h \in Heap :
    full_span_count[h] =
      Cardinality({s \in Span : /\ heap[s] = h
                                /\ s \notin pool \cup cache[h] \cup partial_span[h]})

\* A full span is in no list, so only a later free can bring it back: some
\* block of it is still to be freed, or waits in the size class free list, or
\* the last free is pushing it.  Otherwise the span would leak
FullSpansReachable ==
  \A s \in Active :
    ~IsPartial(s) => Allocated(s) \cup InFlight(s) \cup InClass(s) # {}

\* Together: no span is in two places, and none leaks
SpansInOnePlace == SpanInOnePlace /\ FullSpansReachable

\* The INVALID_POINTER swap is a lock: it is in place exactly while one
\* thread is between its exchange and its store
DeferredListExclusive ==
  \A s \in Span :
    /\ (free_list_deferred[s] = INVALID) <=> \E t \in Thread : Holding(t, s)
    /\ \A t, u \in Thread : Holding(t, s) /\ Holding(u, s) => t = u

---------------------------------------------------------------------------
(* The inductive invariant behind the safety properties above *)

\* Threads at work on a span of a heap they own
Owning == {"extract", "merge", "sync", "unsync", "release"}

\* What a thread in the middle of malloc or free knows about its span
ThreadInv ==
  \A t \in Thread :
    LET s == reg[t].span IN
    /\ pc[t] = "idle" <=> s = None
    /\ pc[t] \in Carrying => reg[t].block \in Block
    /\ pc[t] \in Owning => /\ heap[s] \in Heap
                           /\ owner_thread[heap[s]] = t
                           /\ s \in partial_span[heap[s]]
    /\ pc[t] \in {"extract", "merge"} => free_list[s] = {}
    /\ pc[t] \in {"sync", "unsync", "release"} =>
         /\ Allocated(s) = {} /\ InClass(s) = {} /\ InFlight(s) = {}
    /\ pc[t] = "release" => list_size[s] = 0
    /\ pc[t] \in {"publish", "publish_last"} => reg[t].list # {}

\* No two threads carry the same block
CarryDistinct ==
  \A t, u \in Thread :
    /\ pc[t] \in Carrying /\ pc[u] \in Carrying
    /\ reg[t].span = reg[u].span /\ reg[t].block = reg[u].block
    => t = u

\* Orphaned heaps have no owner; a span in use points to a heap, the one
\* whose size class has its blocks
HeapInv ==
  /\ \A h \in orphans : owner_thread[h] = None
  /\ \A s \in Span :
       /\ s \notin pool => heap[s] \in Heap
       /\ \A h \in Heap, b \in Block :
            <<s, b>> \in class_free_list[h] => heap[s] = h

\* A span in the partial list has a block to give, or its owner is about to
\* take in the deferred list
PartialUseful ==
  \A h \in Heap : \A s \in partial_span[h] :
    \/ free_list[s] # {}
    \/ free_list_limit[s] < BlockCount
    \/ \E t \in Thread : pc[t] \in {"extract", "merge"} /\ reg[t].span = s

\* A span of the heap's that is not in the partial list is fully utilised
UnlistedFull ==
  \A s \in Active :
    ~IsPartial(s) => FullyUtilized(free_list[s], free_list_limit[s])

\* What every step preserves: this implies the safety properties above that
\* are its conjuncts
IInv ==
  /\ TypeOK
  /\ ThreadInv
  /\ CarryDistinct
  /\ HeapInv
  /\ PartialUseful
  /\ UnlistedFull
  /\ DeferredListExclusive
  /\ NoBlockInTwoPlaces
  /\ NoBlockLost
  /\ CountersExact
  /\ IdleSpansUntouched
  /\ SpanInOnePlace

---------------------------------------------------------------------------
\* The path implements the abstract block pool: a heap holds a span from the
\* moment it initialises it until its last block came back
Pool == INSTANCE BlockPool WITH
  holder <- [s \in Span |-> IF s \in Active THEN heap[s] ELSE None],
  inUse <- allocated
ImplementsBlockPool == Pool!Spec

\* malloc and free end once the other threads stop interfering: nothing a
\* thread left behind blocks another one
EndsWhenAlone ==
  \A t \in Thread :
    <>[](\A u \in Thread \ {t} : pc[u] = "idle") => []<>(pc[t] = "idle")
===========================================================================
