--------------------------- MODULE RpSpan_proofs ---------------------------
(***************************************************************************)
(* Proofs about RpSpan, for any number of threads, heaps, spans and blocks *)
(***************************************************************************)
EXTENDS RpSpan, FiniteSetTheorems, TLAPS

\* The zeroed heaps and spans of a fresh process have their types
LEMMA InitTypeOK == Init => TypeOK
BY SpanParams DEF Init, TypeOK, NoReg, Reg, PC, Block, Cell

\* A set of blocks of a span is finite and no larger than the span
LEMMA BlockFinite ==
  /\ IsFiniteSet(Block) /\ Cardinality(Block) = BlockCount
  /\ \A S \in SUBSET Block : IsFiniteSet(S) /\ Cardinality(S) \in 0..BlockCount
<1>1. IsFiniteSet(Block) /\ Cardinality(Block) = BlockCount
  BY FS_Interval, SpanParams DEF Block
<1>2. ASSUME NEW S \in SUBSET Block
      PROVE  IsFiniteSet(S) /\ Cardinality(S) \in 0..BlockCount
  BY <1>1, FS_Subset, FS_CardinalityType, SpanParams
<1>. QED BY <1>1, <1>2

\* Linking one more block in front of a list makes it one longer
LEMMA AddBlock ==
  ASSUME NEW S \in SUBSET Block, NEW b \in Block, b \notin S
  PROVE  Cardinality(S \cup {b}) = Cardinality(S) + 1
BY BlockFinite, FS_AddElement

\* A set of blocks as large as Block is Block
LEMMA AllBlocks ==
  ASSUME NEW S \in SUBSET Block, Cardinality(S) = BlockCount
  PROVE  S = Block
BY BlockFinite, FS_Subset

\* free_list_partial_init links at least one block and no more than remain
LEMMA PageWorthRange ==
  ASSUME NEW r \in Nat \ {0}, NEW n \in PageWorth(r)
  PROVE  n \in 1..r
BY DEF PageWorth

\* The spans deferred to a heap can be counted (adopting them lowers
\* full_span_count by their number)
LEMMA DeferredFinite ==
  ASSUME TypeOK, NEW h \in Heap
  PROVE  Cardinality(span_free_deferred[h]) \in Nat
<1>1. span_free_deferred[h] \in SUBSET Span
  BY DEF TypeOK
<1>. QED BY <1>1, FS_Subset, FS_CardinalityType, SpanParams

\* _rpmalloc_heap_cache_insert: spans move between the cache of one heap and
\* the pool, none is dropped and none is in both
LEMMA CacheInsertType ==
  ASSUME TypeOK, NEW h \in Heap, NEW S \in SUBSET Span, CacheInsert(h, S)
  PROVE  /\ cache' \in [Heap -> SUBSET Span]
         /\ pool' \subseteq Span
         /\ pool \subseteq pool'
         /\ cache'[h] \subseteq cache[h] \cup S
         /\ \A g \in Heap \ {h} : cache'[g] = cache[g]
         /\ pool' \subseteq pool \cup cache[h] \cup S
         /\ cache'[h] \cap (pool' \ pool) = {}
         /\ cache[h] \cup S \subseteq cache'[h] \cup pool'
BY DEF CacheInsert, Keep, TypeOK

\* The local variables an operation sets have their types
LEMMA LocalReg ==
  /\ NoReg \in Reg
  /\ \A s \in Span, block \in 0..BlockCount, list \in SUBSET Block :
       Local(s, block, list) \in Reg
BY SpanParams DEF NoReg, Local, Reg

\* ... and so have the variables of a thread that moves on
LEMMA GotoType ==
  ASSUME TypeOK, NEW t \in Thread, NEW label \in PC, NEW r \in Reg,
         Goto(t, label, r)
  PROVE  pc' \in [Thread -> PC] /\ reg' \in [Thread -> Reg]
BY DEF Goto, TypeOK

\* ... or that returns from malloc with a block
LEMMA ReturnType ==
  ASSUME TypeOK, NEW t \in Thread, NEW c \in Cell, Return(t, c)
  PROVE  /\ pc' \in [Thread -> PC] /\ reg' \in [Thread -> Reg]
         /\ allocated' \subseteq Cell
<1>. "idle" \in PC
  BY DEF PC
<1>. QED BY GotoType, LocalReg DEF Return, TypeOK

\* The variables InitializeNew sets
LEMMA InitializeNewType ==
  ASSUME TypeOK, NEW h \in Heap, NEW s \in Span, NEW full \in Int,
         InitializeNew(h, s, full)
  PROVE  /\ heap' \in [Span -> Heap \cup {None}]
         /\ free_list' \in [Span -> SUBSET Block]
         /\ list_size' \in [Span -> Int]
         /\ free_list_deferred' \in [Span -> (SUBSET Block) \cup {INVALID}]
         /\ free_list_limit' \in [Span -> 0..BlockCount]
         /\ used_count' \in [Span -> Int]
         /\ class_free_list' \in [Heap -> SUBSET Cell]
         /\ partial_span' \in [Heap -> SUBSET Span]
         /\ full_span_count' \in [Heap -> Int]
<1>1. PICK n \in PageWorth(BlockCount) : InitializeNew(h, s, full)!(n)
  BY DEF InitializeNew
<1>2. n \in 1..BlockCount
  BY PageWorthRange, SpanParams
<1>3. {s} \X (2..n) \subseteq Cell
  BY <1>2, SpanParams DEF Cell, Block
<1>4. /\ heap' \in [Span -> Heap \cup {None}]
      /\ free_list' \in [Span -> SUBSET Block]
      /\ list_size' \in [Span -> Int]
      /\ free_list_deferred' \in [Span -> (SUBSET Block) \cup {INVALID}]
  BY <1>1 DEF TypeOK
<1>5. /\ free_list_limit' \in [Span -> 0..BlockCount]
      /\ used_count' \in [Span -> Int]
  BY <1>1, <1>2, SpanParams DEF TypeOK
<1>6. /\ class_free_list' \in [Heap -> SUBSET Cell]
      /\ partial_span' \in [Heap -> SUBSET Span]
      /\ full_span_count' \in [Heap -> Int]
  BY <1>1, <1>3 DEF TypeOK
<1>. QED BY <1>4, <1>5, <1>6

\* Swapping INVALID_POINTER into a deferred list keeps every type
LEMMA TakeDeferredType ==
  ASSUME TypeOK, ThreadInv, NEW t \in Thread, pc[t] # "idle",
         NEW label \in PC, TakeDeferred(t, label)
  PROVE  TypeOK'
<1>1. reg[t].span \in Span /\ reg[t].block \in 0..BlockCount
  BY DEF ThreadInv, TypeOK, Reg
<1>2. free_list_deferred[reg[t].span] \in SUBSET Block
  BY <1>1 DEF TakeDeferred, TypeOK
<1>3. Local(reg[t].span, reg[t].block, free_list_deferred[reg[t].span]) \in Reg
  BY <1>1, <1>2, LocalReg
<1>4. pc' \in [Thread -> PC] /\ reg' \in [Thread -> Reg]
  BY <1>3, GotoType DEF TakeDeferred
<1>. QED
  BY <1>1, <1>4 DEF TakeDeferred, TypeOK, heapVars, classVars, storeVars, ownVars

\* malloc (fast path and _rpmalloc_allocate_from_heap_fallback) keeps every type
LEMMA AllocateType ==
  ASSUME TypeOK, NEW t \in Thread, NEW h \in Heap, Allocate(t, h)
  PROVE  TypeOK'
<1>. USE SpanParams DEF heapVars, storeVars, ownVars, sharedVars
<1>1. CASE AllocateFast(t, h)
  <2>1. PICK c \in class_free_list[h] : AllocateFast(t, h)!2!(c)
    BY <1>1 DEF AllocateFast
  <2>2. c \in Cell
    BY DEF TypeOK
  <2>. QED BY <1>1, <2>1, <2>2, ReturnType DEF AllocateFast, TypeOK
<1>2. CASE AllocateFromPartial(t, h)
  <2>1. PICK s \in partial_span[h], block \in Block, limit \in Block :
         AllocateFromPartial(t, h)!3!(s, block, limit)
    BY <1>2 DEF AllocateFromPartial
  <2>2. /\ s \in Span /\ limit \in 0..BlockCount /\ block \in 0..BlockCount
        /\ <<s, block>> \in Cell
    BY DEF TypeOK, Block, Cell
  <2>3. class_free_list' \in [Heap -> SUBSET Cell]
    <3>1. {s} \X (free_list[s] \ {block}) \subseteq Cell
      BY <2>2 DEF TypeOK, Cell
    <3>2. {s} \X ((block + 1)..limit) \subseteq Cell
      BY <2>2 DEF Block, Cell
    <3>. QED BY <2>1, <3>1, <3>2 DEF TypeOK, Refill
  <2>4. CASE Goto(t, "extract", Local(s, block, {}))
               /\ UNCHANGED <<partial_span, full_span_count, allocated>>
    <3>1. pc' \in [Thread -> PC] /\ reg' \in [Thread -> Reg]
      BY <2>2, <2>4, GotoType, LocalReg DEF PC
    <3>. QED BY <1>2, <2>1, <2>2, <2>3, <2>4, <3>1 DEF AllocateFromPartial, TypeOK
  <2>5. CASE FinishFallback(t, h, s, block, {}, limit)
    <3>1. /\ pc' \in [Thread -> PC] /\ reg' \in [Thread -> Reg]
          /\ allocated' \subseteq Cell
      BY <2>2, <2>5, ReturnType DEF FinishFallback
    <3>2. /\ partial_span' \in [Heap -> SUBSET Span]
          /\ full_span_count' \in [Heap -> Int]
      BY <2>5 DEF FinishFallback, TypeOK
    <3>. QED BY <1>2, <2>1, <2>2, <2>3, <3>1, <3>2 DEF AllocateFromPartial, TypeOK
  <2>. QED BY <2>1, <2>4, <2>5
<1>3. CASE AllocateFromCache(t, h)
  <2>1. PICK s \in cache[h] : AllocateFromCache(t, h)!3!(s)
    BY <1>3 DEF AllocateFromCache
  <2>2. s \in Span /\ full_span_count[h] \in Int /\ <<s, 1>> \in Cell
    BY DEF TypeOK, Cell, Block
  <2>3. /\ pc' \in [Thread -> PC] /\ reg' \in [Thread -> Reg]
        /\ allocated' \subseteq Cell
    BY <2>1, <2>2, ReturnType
  <2>4. cache' \in [Heap -> SUBSET Span]
    BY <2>1 DEF TypeOK
  <2>. QED BY <1>3, <2>1, <2>2, <2>3, <2>4, InitializeNewType DEF AllocateFromCache, TypeOK
<1>4. CASE AllocateFromElsewhere(t, h)
  <2>1. PICK s \in IF span_free_deferred[h] # {} THEN span_free_deferred[h]
                                                 ELSE pool :
          AllocateFromElsewhere(t, h)!3!(s)
    BY <1>4 DEF AllocateFromElsewhere
  <2>2. /\ s \in Span /\ <<s, 1>> \in Cell
        /\ full_span_count[h] - Cardinality(span_free_deferred[h]) \in Int
    BY DeferredFinite DEF TypeOK, Cell, Block
  <2>3. /\ pc' \in [Thread -> PC] /\ reg' \in [Thread -> Reg]
        /\ allocated' \subseteq Cell
    BY <2>1, <2>2, ReturnType
  <2>4. /\ cache' \in [Heap -> SUBSET Span]
        /\ pool' \subseteq Span
        /\ span_free_deferred' \in [Heap -> SUBSET Span]
    BY <1>4, <2>1 DEF AllocateFromElsewhere, Keep, TypeOK
  <2>. QED
    BY <1>4, <2>1, <2>2, <2>3, <2>4, InitializeNewType
       DEF AllocateFromElsewhere, TypeOK
<1>. QED BY <1>1, <1>2, <1>3, <1>4 DEF Allocate

\* _rpmalloc_deallocate_direct_small_or_medium keeps every type
LEMMA DirectType ==
  ASSUME TypeOK, NEW t \in Thread, DeallocateDirect(t)
  PROVE  TypeOK'
<1>1. PICK c \in allocated : DeallocateDirect(t)!2!(c)
  BY DEF DeallocateDirect
<1>. DEFINE s == c[1]
            h == heap[s]
<1>2. s \in Span /\ c[2] \in Block /\ h \in Heap \cup {None}
  BY DEF TypeOK, Cell
<1>3. /\ allocated' \subseteq Cell
      /\ free_list' \in [Span -> SUBSET Block]
      /\ used_count' \in [Span -> Int]
  BY <1>1, <1>2, SpanParams DEF TypeOK
<1>4. /\ partial_span' \in [Heap -> SUBSET Span]
      /\ full_span_count' \in [Heap -> Int]
  BY <1>1, <1>2 DEF TypeOK
<1>5. pc' \in [Thread -> PC] /\ reg' \in [Thread -> Reg]
  <2>1. Local(s, 0, {}) \in Reg
    BY <1>2, LocalReg, SpanParams
  <2>2. CASE Goto(t, "sync", Local(s, 0, {}))
    BY <2>1, <2>2, GotoType DEF PC
  <2>3. CASE Goto(t, "release", Local(s, 0, {}))
    BY <2>1, <2>3, GotoType DEF PC
  <2>4. CASE UNCHANGED <<pc, reg>>
    BY <2>4 DEF TypeOK
  <2>. QED BY <1>1, <2>2, <2>3, <2>4
<1>. QED BY <1>3, <1>4, <1>5 DEF DeallocateDirect, TypeOK, heapVars, storeVars, sharedVars

\* Releasing an empty span to the cache keeps every type
LEMMA ReleaseType ==
  ASSUME TypeOK, ThreadInv, NEW t \in Thread, ReleaseToCache(t)
  PROVE  TypeOK'
<1>. DEFINE s == reg[t].span
<1>1. /\ s \in Span /\ heap[s] \in Heap /\ reg[t].list \in SUBSET Block
  BY DEF ReleaseToCache, ThreadInv, Owning, TypeOK, Reg
<1>2. pc' \in [Thread -> PC] /\ reg' \in [Thread -> Reg]
  BY GotoType, LocalReg DEF ReleaseToCache, PC
<1>3. cache' \in [Heap -> SUBSET Span] /\ pool' \subseteq Span
  BY <1>1, CacheInsertType DEF ReleaseToCache
<1>4. free_list_deferred' \in [Span -> (SUBSET Block) \cup {INVALID}]
  BY <1>1 DEF ReleaseToCache, TypeOK
<1>. QED
  BY <1>1, <1>2, <1>3, <1>4 DEF ReleaseToCache, TypeOK, heapVars, ownVars

\* _rpmalloc_span_extract_free_list_deferred keeps every type
LEMMA MergeType ==
  ASSUME TypeOK, ThreadInv, NEW t \in Thread, MergeDeferred(t)
  PROVE  TypeOK'
<1>. DEFINE s == reg[t].span
<1>1. /\ s \in Span /\ heap[s] \in Heap
      /\ reg[t].list \in SUBSET Block /\ <<s, reg[t].block>> \in Cell
  BY DEF MergeDeferred, ThreadInv, Owning, Carrying, TypeOK, Reg, Cell
<1>2. FinishFallback(t, heap[s], s, reg[t].block, reg[t].list, free_list_limit[s])
  BY DEF MergeDeferred
<1>3. /\ pc' \in [Thread -> PC] /\ reg' \in [Thread -> Reg]
      /\ allocated' \subseteq Cell
  BY <1>1, <1>2, ReturnType DEF FinishFallback
<1>4. /\ partial_span' \in [Heap -> SUBSET Span]
      /\ full_span_count' \in [Heap -> Int]
  BY <1>1, <1>2 DEF FinishFallback, TypeOK
<1>5. /\ free_list' \in [Span -> SUBSET Block]
      /\ used_count' \in [Span -> Int]
      /\ list_size' \in [Span -> Int]
      /\ free_list_deferred' \in [Span -> (SUBSET Block) \cup {INVALID}]
  BY <1>1 DEF MergeDeferred, TypeOK
<1>. QED BY <1>3, <1>4, <1>5 DEF MergeDeferred, TypeOK, heapVars, storeVars

\* _rpmalloc_deallocate_defer_small_or_medium keeps every type
LEMMA RemoteFreeType ==
  ASSUME TypeOK, ThreadInv, HeapInv, NEW t \in Thread,
         \/ DeallocateDeferred(t) \/ DeferLink(t) \/ DeferPublish(t)
         \/ DeferPush(t)
  PROVE  TypeOK'
<1>. DEFINE s == reg[t].span
<1>. USE SpanParams DEF heapVars, classVars, storeVars, ownVars, sharedVars
<1>1. CASE DeallocateDeferred(t)
  <2>1. PICK c \in allocated : DeallocateDeferred(t)!2!(c)
    BY <1>1 DEF DeallocateDeferred
  <2>2. c[1] \in Span /\ c[2] \in 0..BlockCount
    BY DEF TypeOK, Cell, Block
  <2>3. pc' \in [Thread -> PC] /\ reg' \in [Thread -> Reg]
    BY <2>1, <2>2, GotoType, LocalReg DEF PC
  <2>. QED BY <1>1, <2>1, <2>3 DEF DeallocateDeferred, TypeOK
<1>2. CASE DeferLink(t)
  <2>1. s \in Span /\ reg[t].list \cup {reg[t].block} \in SUBSET Block
    BY <1>2 DEF DeferLink, ThreadInv, Carrying, TypeOK, Reg
  <2>2. Local(s, 0, reg[t].list \cup {reg[t].block}) \in Reg
    BY <2>1, LocalReg
  <2>3. pc' \in [Thread -> PC] /\ reg' \in [Thread -> Reg]
    BY <1>2, <2>2, GotoType DEF DeferLink, PC
  <2>. QED BY <1>2, <2>1, <2>3 DEF DeferLink, TypeOK
<1>3. CASE DeferPublish(t)
  <2>1. s \in Span /\ reg[t].list \in SUBSET Block
    BY <1>3 DEF DeferPublish, ThreadInv, TypeOK, Reg
  <2>2. Local(s, 0, {}) \in Reg
    BY <2>1, LocalReg
  <2>3. pc' \in [Thread -> PC] /\ reg' \in [Thread -> Reg]
    BY <1>3, <2>2, GotoType, LocalReg DEF DeferPublish, PC
  <2>. QED BY <1>3, <2>1, <2>3 DEF DeferPublish, TypeOK
<1>4. CASE DeferPush(t)
  <2>1. s \in Span
    BY <1>4 DEF DeferPush, ThreadInv, TypeOK, Reg
  <2>2. pc' \in [Thread -> PC] /\ reg' \in [Thread -> Reg]
    BY <1>4, GotoType, LocalReg DEF DeferPush, PC
  <2>. QED BY <1>4, <2>1, <2>2 DEF DeferPush, TypeOK
<1>. QED BY <1>1, <1>2, <1>3, <1>4

\* _rpmalloc_heap_allocate and _rpmalloc_heap_release keep every type
LEMMA HandoverType ==
  ASSUME TypeOK, NEW t \in Thread, NEW h \in Heap,
         HeapAllocate(t) \/ HeapRelease(t, h)
  PROVE  TypeOK'
<1>. USE DEF ownVars, sharedVars, threadVars
<1>1. CASE HeapAllocate(t)
  <2>1. PICK g \in orphans : HeapAllocate(t)!3!(g)
    BY <1>1 DEF HeapAllocate
  <2>2. g \in Heap /\ span_free_deferred[g] \in SUBSET Span
    BY DEF TypeOK
  <2>3. cache' \in [Heap -> SUBSET Span] /\ pool' \subseteq Span
    BY <2>1, <2>2, CacheInsertType DEF AdoptDeferred
  <2>4. full_span_count' \in [Heap -> Int]
    BY <2>1, <2>2, DeferredFinite DEF AdoptDeferred, TypeOK
  <2>. QED
    BY <1>1, <2>1, <2>2, <2>3, <2>4 DEF HeapAllocate, AdoptDeferred, TypeOK
<1>2. CASE HeapRelease(t, h)
  <2>1. span_free_deferred[h] \in SUBSET Span
    BY DEF TypeOK
  <2>2. cache' \in [Heap -> SUBSET Span] /\ pool' \subseteq Span
    BY <1>2, <2>1, CacheInsertType DEF HeapRelease, TypeOK
  <2>3. full_span_count' \in [Heap -> Int]
    BY <1>2, <2>1, DeferredFinite DEF HeapRelease, TypeOK
  <2>. QED BY <1>2, <2>1, <2>2, <2>3 DEF HeapRelease, TypeOK
<1>. QED BY <1>1, <1>2

---------------------------------------------------------------------------
(* Steps that move no block *)

\* Nothing a step may change is the place of a block
SameBlocks ==
  \A s \in Span :
    /\ Allocated(s)' = Allocated(s)
    /\ InFlight(s)' = InFlight(s)
    /\ InClass(s)' = InClass(s)
    /\ InDeferred(s)' = InDeferred(s)

\* What moves no block keeps the invariants about blocks and counters
LEMMA SameBlocksKeep ==
  ASSUME IInv, SameBlocks,
         UNCHANGED <<free_list, free_list_limit, used_count, list_size>>
  PROVE  NoBlockInTwoPlaces' /\ NoBlockLost' /\ CountersExact'
BY DEF IInv, SameBlocks, NoBlockInTwoPlaces, NoBlockLost, CountersExact

\* A thread taking or leaving a heap adopts the spans deferred to it; no block
\* moves, and no thread is at work as the owner of a heap that changes hands
LEMMA HandoverStep ==
  ASSUME IInv, NEW t \in Thread, NEW h \in Heap,
         HeapAllocate(t) \/ HeapRelease(t, h)
  PROVE  IInv'
<1>. USE DEF IInv
<1>1. TypeOK'
  BY HandoverType
\* Both adopt the deferred spans of a heap of which only t may be the owner
<1>2. PICK g \in Heap :
        /\ owner_thread[g] \in {t, None} /\ pc[t] = "idle"
        /\ \A f \in Heap \ {g} : /\ owner_thread'[f] = owner_thread[f]
                                 /\ cache'[f] = cache[f]
                                 /\ span_free_deferred'[f] = span_free_deferred[f]
        /\ span_free_deferred'[g] = {}
        /\ cache'[g] \subseteq cache[g] \cup span_free_deferred[g]
        /\ pool' \subseteq pool \cup cache[g] \cup span_free_deferred[g]
        /\ cache'[g] \cap pool' = {}
        /\ pool \cup cache[g] \cup span_free_deferred[g] \subseteq pool' \cup cache'[g]
        /\ \A f \in orphans' : owner_thread'[f] = None
  <2>1. ASSUME NEW g \in Heap, CacheInsert(g, span_free_deferred[g])
        PROVE  /\ cache'[g] \cap pool' = {}
               /\ \A f \in Heap \ {g} : cache'[f] = cache[f]
               /\ cache'[g] \subseteq cache[g] \cup span_free_deferred[g]
               /\ pool' \subseteq pool \cup cache[g] \cup span_free_deferred[g]
               /\ pool \cup cache[g] \cup span_free_deferred[g]
                    \subseteq pool' \cup cache'[g]
    <3>1. span_free_deferred[g] \in SUBSET Span /\ cache[g] \in SUBSET Span
      BY DEF TypeOK
    <3>2. (cache[g] \cup span_free_deferred[g]) \cap pool = {}
      BY <3>1 DEF SpanInOnePlace
    <3>. QED BY <2>1, <3>1, <3>2, CacheInsertType
  <2>2. CASE HeapAllocate(t)
    <3>1. PICK g \in orphans : HeapAllocate(t)!3!(g)
      BY <2>2 DEF HeapAllocate
    <3>2. g \in Heap /\ owner_thread[g] = None
      BY DEF HeapInv, TypeOK
    <3>3. /\ owner_thread' = [owner_thread EXCEPT ![g] = t]
          /\ orphans' = orphans \ {g}
          /\ span_free_deferred' = [span_free_deferred EXCEPT ![g] = {}]
          /\ CacheInsert(g, span_free_deferred[g])
      BY <3>1 DEF AdoptDeferred
    <3>. QED BY <2>1, <2>2, <3>2, <3>3 DEF HeapAllocate, HeapInv, TypeOK
  <2>3. CASE HeapRelease(t, h)
    <3>1. \/ CacheInsert(h, span_free_deferred[h])
          \/ \E kept \in SUBSET (cache[h] \cup span_free_deferred[h]) :
               /\ cache' = [cache EXCEPT ![h] = kept]
               /\ pool' = pool \cup ((cache[h] \cup span_free_deferred[h]) \ kept)
      BY <2>3 DEF HeapRelease
    <3>2. cache[h] \in SUBSET Span /\ span_free_deferred[h] \in SUBSET Span
      BY DEF TypeOK
    <3>3. (cache[h] \cup span_free_deferred[h]) \cap pool = {}
      BY <3>2 DEF SpanInOnePlace
    <3>4. /\ cache'[h] \cap pool' = {}
          /\ \A f \in Heap \ {h} : cache'[f] = cache[f]
          /\ cache'[h] \subseteq cache[h] \cup span_free_deferred[h]
          /\ pool' \subseteq pool \cup cache[h] \cup span_free_deferred[h]
          /\ pool \cup cache[h] \cup span_free_deferred[h]
               \subseteq pool' \cup cache'[h]
      BY <2>1, <3>1, <3>3 DEF TypeOK
    <3>. QED BY <2>3, <3>4 DEF HeapRelease, HeapInv, TypeOK
  <2>. QED BY <2>2, <2>3
<1>3. UNCHANGED <<class_free_list, partial_span, ownVars, sharedVars, threadVars>>
  BY DEF HeapAllocate, HeapRelease
<1>. USE <1>3 DEF ownVars, sharedVars, threadVars
<1>4. SameBlocks
  BY DEF SameBlocks, Allocated, InFlight, InClass, InDeferred, Holding
<1>5. ThreadInv'
  <2>1. ASSUME NEW u \in Thread, pc[u] \in Owning
        PROVE  owner_thread'[heap[reg[u].span]] = u
    BY <1>2, <2>1, SpanParams DEF ThreadInv, Owning
  <2>2. ASSUME NEW u \in Thread, reg[u].span # None
        PROVE  reg[u].span \in Span
    BY <2>2 DEF TypeOK, Reg
  <2>. QED BY <1>4, <2>1, <2>2 DEF ThreadInv, SameBlocks, Owning
<1>6. CarryDistinct' /\ DeferredListExclusive' /\ PartialUseful'
  BY DEF CarryDistinct, DeferredListExclusive, Holding, PartialUseful
<1>7. HeapInv'
  <2>1. \A s \in Span : s \in pool => s \in pool' \/ heap[s] \in Heap
    BY <1>2 DEF SpanInOnePlace
  <2>. QED BY <1>2, <2>1 DEF HeapInv
<1>8. NoBlockInTwoPlaces' /\ NoBlockLost' /\ CountersExact'
  BY <1>4, SameBlocksKeep
<1>9. \A s \in Span : IsIdle(s)' <=> IsIdle(s)
  <2>1. \A s \in Span : IsIdle(s)' => IsIdle(s)
    BY <1>2 DEF IsIdle, PushedBy
  <2>2. \A s \in Span, f \in Heap :
          s \in cache[f] \cup span_free_deferred[f] => IsIdle(s)'
    BY <1>2 DEF IsIdle
  <2>3. \A s \in Span : s \in pool => IsIdle(s)'
    BY <1>2 DEF IsIdle
  <2>4. \A s \in Span, u \in Thread : PushedBy(u, s) => IsIdle(s)'
    BY DEF IsIdle, PushedBy
  <2>. QED BY <2>1, <2>2, <2>3, <2>4 DEF IsIdle
<1>10. IdleSpansUntouched'
  BY <1>4, <1>9 DEF IdleSpansUntouched, SameBlocks, PushedBy
<1>11. SpanInOnePlace'
  BY <1>2 DEF SpanInOnePlace, PushedBy
<1>12. UnlistedFull'
  BY <1>9 DEF UnlistedFull, Active, IsPartial
<1>. QED BY <1>1, <1>5, <1>6, <1>7, <1>8, <1>10, <1>11, <1>12

\* The pairs of labels between which a thread swaps INVALID_POINTER in
TakeLabels(t, label) ==
  \/ pc[t] = "extract" /\ label = "merge"
  \/ pc[t] = "sync" /\ label = "unsync"
  \/ pc[t] = "defer" /\ label = "link"

\* The exchange with INVALID_POINTER moves the deferred list from the span to
\* the thread, which excludes every other thread from it
LEMMA TakeStep ==
  ASSUME IInv, NEW t \in Thread, NEW label, TakeLabels(t, label),
         TakeDeferred(t, label)
  PROVE  IInv'
<1>. USE DEF IInv
<1>0. PICK s \in Span : s = reg[t].span
  BY DEF TakeLabels, ThreadInv, TypeOK, Reg
<1>1. TypeOK'
  BY TakeDeferredType DEF TakeLabels, PC
<1>2. /\ free_list_deferred[s] \in SUBSET Block
      /\ \A u \in Thread : ~Holding(u, s)
  BY <1>0 DEF TakeDeferred, TypeOK, DeferredListExclusive
<1>3. /\ pc'[t] = label /\ \A u \in Thread \ {t} : pc'[u] = pc[u]
      /\ reg'[t].span = s /\ reg'[t].block = reg[t].block
      /\ reg'[t].list = free_list_deferred[s]
      /\ \A u \in Thread \ {t} : reg'[u] = reg[u]
      /\ \A u \in Thread : reg'[u].span = reg[u].span /\ reg'[u].block = reg[u].block
  BY <1>0 DEF TakeDeferred, Goto, Local, TypeOK
<1>4. /\ free_list_deferred' = [free_list_deferred EXCEPT ![s] = INVALID]
      /\ UNCHANGED <<heapVars, classVars, storeVars, ownVars, list_size, allocated>>
  BY <1>0 DEF TakeDeferred
<1>. USE <1>4 DEF heapVars, classVars, storeVars, ownVars
<1>5. \A x \in Span, u \in Thread :
        Holding(u, x)' <=> Holding(u, x) \/ (u = t /\ x = s)
  BY <1>0, <1>2, <1>3 DEF Holding, TakeLabels, TypeOK
<1>6. DeferredListExclusive'
  BY <1>2, <1>5, SpanParams DEF DeferredListExclusive, TypeOK
<1>7. SameBlocks
  <2>1. \A x \in Span : InFlight(x)' = InFlight(x)
    BY <1>3 DEF InFlight, Carrying, TakeLabels
  <2>2. \A x \in Span : InDeferred(x)' = InDeferred(x)
    <3>1. InDeferred(s)' = InDeferred(s)
      BY <1>2, <1>3, <1>5, SpanParams DEF InDeferred, TakeDeferred, TypeOK
    <3>2. \A x \in Span \ {s} : InDeferred(x)' = InDeferred(x)
      BY <1>2, <1>3, <1>5 DEF InDeferred, TypeOK, Holding
    <3>. QED BY <3>1, <3>2
  <2>. QED BY <2>1, <2>2 DEF SameBlocks, Allocated, InClass
<1>8. NoBlockInTwoPlaces' /\ NoBlockLost' /\ CountersExact'
  BY <1>7, SameBlocksKeep
<1>9. ThreadInv'
  <2>1. ASSUME NEW u \in Thread, reg[u].span # None
        PROVE  reg[u].span \in Span
    BY <2>1 DEF TypeOK, Reg
  <2>2. ASSUME NEW u \in Thread, u # t
        PROVE  ThreadInv!(u)'
    BY <1>3, <1>7, <2>1, <2>2 DEF ThreadInv, SameBlocks, Owning, Carrying
  <2>3. ThreadInv!(t)'
    <3>1. ThreadInv!(t)
      BY DEF ThreadInv
    <3>. QED BY <1>0, <1>2, <1>3, <1>7, <3>1, SpanParams
             DEF SameBlocks, Owning, Carrying, TakeLabels
  <2>. QED BY <2>2, <2>3 DEF ThreadInv
<1>10. CarryDistinct' /\ HeapInv' /\ PartialUseful'
  <2>1. CarryDistinct'
    BY <1>3 DEF CarryDistinct, Carrying, TakeLabels, TypeOK
  <2>2. HeapInv'
    BY DEF HeapInv
  <2>3. PartialUseful'
    <3>1. \A u \in Thread : pc[u] \in {"extract", "merge"}
                               => pc'[u] \in {"extract", "merge"}
      BY <1>3 DEF TakeLabels
    <3>. QED BY <1>3, <3>1 DEF PartialUseful
  <2>. QED BY <2>1, <2>2, <2>3
<1>11. \A x \in Span, u \in Thread : PushedBy(u, x)' <=> PushedBy(u, x)
  BY <1>3 DEF PushedBy, TakeLabels, TypeOK
<1>12. IdleSpansUntouched' /\ SpanInOnePlace' /\ UnlistedFull'
  <2>1. \A x \in Span : IsIdle(x)' <=> IsIdle(x)
    BY <1>11 DEF IsIdle
  <2>2. IdleSpansUntouched'
    BY <1>3, <1>7, <1>11, <2>1 DEF IdleSpansUntouched, SameBlocks
  <2>3. SpanInOnePlace'
    BY <1>11 DEF SpanInOnePlace
  <2>4. UnlistedFull'
    BY <2>1 DEF UnlistedFull, Active, IsPartial
  <2>. QED BY <2>2, <2>3, <2>4
<1>. QED BY <1>1, <1>6, <1>8, <1>9, <1>10, <1>12

---------------------------------------------------------------------------
(* Allocation *)

\* An idle owner is the only thread that could be at work as the owner
LEMMA OwnerAlone ==
  ASSUME IInv, NEW t \in Thread, pc[t] = "idle", NEW s \in Span,
         heap[s] \in Heap, owner_thread[heap[s]] = t
  PROVE  \A u \in Thread : reg[u].span = s => u # t /\ pc[u] \notin Owning
BY SpanParams DEF IInv, ThreadInv, Owning

\* What an idle thread looks like after a malloc that returned at once
LEMMA ReturnIdle ==
  ASSUME IInv, NEW t \in Thread, pc[t] = "idle", NEW c \in Cell, Return(t, c)
  PROVE  /\ allocated' = allocated \cup {c}
         /\ pc' = pc /\ reg'[t].span = None
         /\ \A u \in Thread \ {t} : reg'[u] = reg[u]
         /\ \A u \in Thread : reg'[u].span = reg[u].span
         /\ \A x \in Span : InFlight(x)' = InFlight(x)
         /\ \A u \in Thread, x \in Span : Holding(u, x)' = Holding(u, x)
         /\ \A u \in Thread, x \in Span : PushedBy(u, x)' = PushedBy(u, x)
         /\ CarryDistinct'
<1>1. /\ allocated' = allocated \cup {c}
      /\ pc' = pc /\ reg'[t].span = None
      /\ \A u \in Thread \ {t} : reg'[u] = reg[u]
  BY DEF IInv, TypeOK, Return, Goto, NoReg
<1>2. reg[t].span = None
  BY DEF IInv, ThreadInv
<1>3. \A x \in Span : InFlight(x)' = InFlight(x)
  BY <1>1, <1>2 DEF InFlight, Carrying
<1>4. CarryDistinct'
  BY <1>1, <1>2 DEF IInv, CarryDistinct, Carrying
<1>. QED
  BY <1>1, <1>2, <1>3, <1>4 DEF Holding, PushedBy

\* Popping the free list of the size class moves one block to the program
LEMMA FastStep ==
  ASSUME IInv, NEW t \in Thread, NEW h \in Heap, AllocateFast(t, h)
  PROVE  IInv'
<1>. USE DEF IInv
<1>1. TypeOK'
  BY AllocateType DEF Allocate
<1>2. PICK s \in Span, b \in Block :
        /\ <<s, b>> \in class_free_list[h]
        /\ class_free_list' = [class_free_list EXCEPT ![h] = @ \ {<<s, b>>}]
        /\ Return(t, <<s, b>>)
  <2>1. PICK c \in class_free_list[h] : AllocateFast(t, h)!2!(c)
    BY DEF AllocateFast
  <2>2. PICK s \in Span, b \in Block : c = <<s, b>>
    BY DEF TypeOK, Cell
  <2>. QED BY <2>1, <2>2
<1>3. /\ <<s, b>> \in Cell /\ heap[s] = h
      /\ pc[t] = "idle" /\ owner_thread[h] = t
  BY <1>2 DEF HeapInv, AllocateFast, Cell
<1>4. UNCHANGED <<heapVars, partial_span, full_span_count, storeVars,
                  ownVars, sharedVars>>
  BY DEF AllocateFast
<1>. USE <1>4 DEF heapVars, storeVars, ownVars, sharedVars
<1>5. /\ \A u \in Thread : reg[u].span = s => u # t /\ pc[u] \notin Owning
      /\ b \in InClass(s)
  BY <1>2, <1>3, OwnerAlone DEF InClass
<1>6. /\ \A x \in Span : InFlight(x)' = InFlight(x) /\ InDeferred(x)' = InDeferred(x)
      /\ \A x \in Span \ {s} : /\ Allocated(x)' = Allocated(x)
                               /\ InClass(x)' = InClass(x)
      /\ Allocated(s)' = Allocated(s) \cup {b}
      /\ InClass(s)' = InClass(s) \ {b}
  <2>1. \A x \in Span : InFlight(x)' = InFlight(x) /\ InDeferred(x)' = InDeferred(x)
    BY <1>2, <1>3, ReturnIdle DEF InDeferred, Holding, ThreadInv
  <2>2. \A x \in Span \ {s} : InClass(x)' = InClass(x)
    BY <1>2 DEF InClass, TypeOK
  <2>3. InClass(s)' = InClass(s) \ {b}
    BY <1>2, <1>3 DEF InClass, TypeOK, HeapInv
  <2>4. /\ Allocated(s)' = Allocated(s) \cup {b}
        /\ \A x \in Span \ {s} : Allocated(x)' = Allocated(x)
    BY <1>2, <1>3, ReturnIdle DEF Allocated
  <2>. QED BY <2>1, <2>2, <2>3, <2>4
<1>7. NoBlockInTwoPlaces' /\ NoBlockLost' /\ CountersExact'
  BY <1>5, <1>6 DEF NoBlockInTwoPlaces, NoBlockLost, CountersExact
<1>8. ThreadInv'
  <2>1. ASSUME NEW u \in Thread PROVE ThreadInv!(u)'
    <3>1. CASE u = t
      BY <1>2, <1>3, <3>1, ReturnIdle DEF Owning, Carrying
    <3>2. CASE u # t
      <4>1. ThreadInv!(u)
        BY DEF ThreadInv
      <4>2. reg[u].span # None => reg[u].span \in Span
        BY DEF TypeOK, Reg
      <4>. QED BY <1>2, <1>3, <1>5, <1>6, <3>2, <4>1, <4>2, ReturnIdle
               DEF Owning
    <3>. QED BY <3>1, <3>2
  <2>. QED BY <2>1 DEF ThreadInv
<1>9. HeapInv' /\ PartialUseful' /\ DeferredListExclusive' /\ CarryDistinct'
  <2>1. HeapInv'
    BY <1>2 DEF HeapInv, TypeOK
  <2>2. PartialUseful'
    BY <1>2, <1>3, ReturnIdle DEF PartialUseful
  <2>3. DeferredListExclusive' /\ CarryDistinct'
    BY <1>2, <1>3, ReturnIdle DEF DeferredListExclusive
  <2>. QED BY <2>1, <2>2, <2>3
<1>10. IdleSpansUntouched' /\ SpanInOnePlace' /\ UnlistedFull'
  <2>1. \A x \in Span : IsIdle(x)' <=> IsIdle(x)
    BY <1>2, <1>3, ReturnIdle DEF IsIdle
  <2>2. ~IsIdle(s)
    BY <1>5 DEF IdleSpansUntouched
  <2>3. IdleSpansUntouched'
    BY <1>2, <1>3, <1>6, <2>1, <2>2, ReturnIdle DEF IdleSpansUntouched
  <2>4. SpanInOnePlace'
    BY <1>2, <1>3, ReturnIdle DEF SpanInOnePlace
  <2>5. UnlistedFull'
    BY <2>1 DEF UnlistedFull, Active, IsPartial
  <2>. QED BY <2>3, <2>4, <2>5
<1>. QED BY <1>1, <1>7, <1>8, <1>9, <1>10

\* A span in the partial list belongs to that heap and is in use
LEMMA PartialFacts ==
  ASSUME IInv, NEW h \in Heap, NEW s \in partial_span[h]
  PROVE  s \in Span /\ heap[s] = h /\ ~IsIdle(s)
<1>1. s \in Span /\ heap[s] = h /\ s \notin pool
  BY DEF IInv, TypeOK, SpanInOnePlace
<1>2. \A g \in Heap : s \notin cache[g] \cup span_free_deferred[g]
  BY <1>1 DEF IInv, SpanInOnePlace
<1>3. \A u \in Thread : ~PushedBy(u, s)
  BY <1>1 DEF IInv, SpanInOnePlace
<1>. QED BY <1>1, <1>2, <1>3 DEF IsIdle

\* The block a refill gives out and those it moves to the size class are
\* exactly the free ones of the span, or the next page of it
LEMMA RefillBlocks ==
  ASSUME IInv, NEW h \in Heap, NEW s \in partial_span[h], NEW block \in Block,
         NEW limit \in Block, class_free_list[h] = {},
         Refill(h, s, block, limit)
  PROVE  /\ InClass(s) = {} /\ block \notin InClass(s)'
         /\ {block} \cup InClass(s)'
              = free_list[s] \cup ((free_list_limit[s] + 1)..limit)
         /\ free_list_limit[s] \in 0..BlockCount /\ free_list_limit[s] <= limit
         /\ \A x \in Span \ {s} : InClass(x)' = InClass(x)
         /\ class_free_list'[h] \subseteq {s} \X Block
         /\ \A g \in Heap \ {h} : class_free_list'[g] = class_free_list[g]
<1>. USE DEF IInv
<1>1. /\ s \in Span /\ heap[s] = h
      /\ free_list_limit[s] \in 0..BlockCount /\ limit \in 1..BlockCount
      /\ free_list[s] \subseteq 1..free_list_limit[s]
  BY PartialFacts, SpanParams DEF TypeOK, NoBlockLost, Block
<1>2. InClass(s) = {}
  BY <1>1 DEF HeapInv, InClass
<1>3. CASE /\ block \in free_list[s]
           /\ limit = free_list_limit[s]
           /\ class_free_list' =
                [class_free_list EXCEPT ![h] = {s} \X (free_list[s] \ {block})]
  <2>1. class_free_list'[h] = {s} \X (free_list[s] \ {block})
    BY <1>3 DEF TypeOK
  <2>2. \A g \in Heap \ {h} : class_free_list'[g] = class_free_list[g]
    BY <1>3 DEF TypeOK
  <2>3. InClass(s)' = free_list[s] \ {block}
    <3>1. \A b \in Block :
            <<s, b>> \in class_free_list'[h] <=> b \in free_list[s] \ {block}
      BY <2>1
    <3>2. \A b \in Block, g \in Heap \ {h} : <<s, b>> \notin class_free_list'[g]
      BY <1>1, <2>2 DEF HeapInv
    <3>3. free_list[s] \subseteq Block
      BY <1>1 DEF TypeOK
    <3>. QED BY <3>1, <3>2, <3>3 DEF InClass
  <2>4. \A x \in Span \ {s} : InClass(x)' = InClass(x)
    BY <2>1, <2>2 DEF InClass
  <2>5. (free_list_limit[s] + 1)..limit = {} /\ free_list_limit[s] <= limit
    BY <1>1, <1>3
  <2>6. class_free_list'[h] \subseteq {s} \X Block
    BY <1>1, <2>1 DEF TypeOK
  <2>. QED BY <1>1, <1>2, <1>3, <2>2, <2>3, <2>4, <2>5, <2>6
<1>4. CASE /\ free_list[s] = {}
           /\ block = free_list_limit[s] + 1
           /\ limit - free_list_limit[s]
                \in PageWorth(BlockCount - free_list_limit[s])
           /\ class_free_list' =
                [class_free_list EXCEPT ![h] = {s} \X ((block + 1)..limit)]
  <2>1. class_free_list'[h] = {s} \X ((block + 1)..limit)
    BY <1>4 DEF TypeOK
  <2>2. \A g \in Heap \ {h} : class_free_list'[g] = class_free_list[g]
    BY <1>4 DEF TypeOK
  <2>3. (block + 1)..limit \subseteq Block /\ block \in 1..BlockCount
    BY <1>1, SpanParams DEF Block
  <2>4. InClass(s)' = (block + 1)..limit
    <3>1. \A b \in Block : <<s, b>> \in class_free_list'[h] <=> b \in (block + 1)..limit
      BY <2>1
    <3>2. \A b \in Block, g \in Heap \ {h} : <<s, b>> \notin class_free_list'[g]
      BY <1>1, <2>2 DEF HeapInv
    <3>. QED BY <2>3, <3>1, <3>2 DEF InClass
  <2>5. \A x \in Span \ {s} : InClass(x)' = InClass(x)
    BY <2>1, <2>2 DEF InClass
  <2>6. limit >= block
    <3>1. limit - free_list_limit[s] \in 1..(BlockCount - free_list_limit[s])
      BY <1>1, <1>4, PageWorthRange, SpanParams DEF Block
    <3>. QED BY <1>1, <1>4, <3>1, SpanParams
  <2>7. /\ block \notin InClass(s)'
        /\ {block} \cup InClass(s)' = (free_list_limit[s] + 1)..limit
    <3>. DEFINE l == free_list_limit[s]
    <3>1. l \in Int /\ limit \in Int /\ block \in Int
          /\ block = l + 1 /\ limit >= block
      BY <1>1, <1>4, <2>6, SpanParams
    <3>. HIDE DEF l
    <3>2. block \notin (block + 1)..limit /\ {block} \cup ((block + 1)..limit) = (l + 1)..limit
      BY <3>1
    <3>. QED BY <2>4, <3>2 DEF l
  <2>8. class_free_list'[h] \subseteq {s} \X Block
    BY <2>1, <2>3
  <2>9. free_list_limit[s] <= limit
    BY <1>1, <1>4, <2>3, <2>6, SpanParams
  <2>. QED BY <1>1, <1>2, <1>4, <2>2, <2>5, <2>7, <2>8, <2>9
<1>. QED BY <1>3, <1>4 DEF Refill

\* The refill from a partial span moves its free list, or its next page, to the
\* size class, and one block to the program or into the hands of the thread
LEMMA PartialStep ==
  ASSUME IInv, NEW t \in Thread, NEW h \in Heap, AllocateFromPartial(t, h)
  PROVE  IInv'
<1>. USE DEF IInv
<1>1. TypeOK'
  BY AllocateType DEF Allocate
<1>2. /\ pc[t] = "idle" /\ owner_thread[h] = t /\ class_free_list[h] = {}
      /\ UNCHANGED <<heapVars, storeVars, heap, sharedVars>>
  BY DEF AllocateFromPartial
<1>. USE <1>2 DEF heapVars, storeVars, sharedVars
<1>3. PICK s \in partial_span[h], block \in Block, limit \in Block :
        AllocateFromPartial(t, h)!3!(s, block, limit)
  BY DEF AllocateFromPartial
<1>4. /\ s \in Span /\ heap[s] = h /\ ~IsIdle(s)
      /\ \A u \in Thread : reg[u].span = s => u # t /\ pc[u] \notin Owning
      /\ <<s, block>> \in Cell
  BY PartialFacts, OwnerAlone DEF Cell
<1>5. /\ InClass(s) = {} /\ block \notin InClass(s)'
      /\ {block} \cup InClass(s)'
           = free_list[s] \cup ((free_list_limit[s] + 1)..limit)
      /\ free_list_limit[s] \in 0..BlockCount /\ free_list_limit[s] <= limit
      /\ \A x \in Span \ {s} : InClass(x)' = InClass(x)
      /\ class_free_list'[h] \subseteq {s} \X Block
      /\ \A g \in Heap \ {h} : class_free_list'[g] = class_free_list[g]
  BY <1>3, RefillBlocks
<1>6. /\ free_list'[s] = {} /\ free_list_limit'[s] = limit /\ used_count'[s] = limit
      /\ \A x \in Span \ {s} : /\ free_list'[x] = free_list[x]
                               /\ free_list_limit'[x] = free_list_limit[x]
                               /\ used_count'[x] = used_count[x]
  BY <1>3, <1>4 DEF TypeOK
\* The block given out is carried by t, or handed to the program
<1>7. \/ /\ pc'[t] = "extract" /\ reg'[t].span = s /\ reg'[t].block = block
         /\ reg'[t].list = {}
         /\ UNCHANGED <<partial_span, allocated>>
      \/ /\ pc'[t] = "idle" /\ reg'[t].span = None
         /\ allocated' = allocated \cup {<<s, block>>}
         /\ IF limit >= BlockCount
            THEN partial_span' = [partial_span EXCEPT ![h] = @ \ {s}]
            ELSE UNCHANGED partial_span
  BY <1>3 DEF Goto, Local, FinishFallback, FullyUtilized, Return, NoReg, TypeOK
<1>8. \A u \in Thread \ {t} : pc'[u] = pc[u] /\ reg'[u] = reg[u]
  BY <1>3 DEF Goto, FinishFallback, Return, TypeOK
<1>9. reg[t].span = None /\ None \notin Span
  BY SpanParams DEF ThreadInv
<1>10. \A u \in Thread, x \in Span :
         /\ Holding(u, x)' <=> Holding(u, x)
         /\ PushedBy(u, x)' <=> PushedBy(u, x)
  BY <1>7, <1>8, <1>9 DEF Holding, PushedBy
<1>11. /\ \A x \in Span \ {s} : /\ Allocated(x)' = Allocated(x)
                                /\ InFlight(x)' = InFlight(x)
       /\ \A x \in Span : InDeferred(x)' = InDeferred(x)
       /\ \/ /\ Allocated(s)' = Allocated(s)
             /\ InFlight(s)' = InFlight(s) \cup {block}
          \/ /\ Allocated(s)' = Allocated(s) \cup {block}
             /\ InFlight(s)' = InFlight(s)
  <2>1. \A x \in Span \ {s} : /\ Allocated(x)' = Allocated(x)
                              /\ InFlight(x)' = InFlight(x)
    BY <1>7, <1>8, <1>9 DEF Allocated, InFlight, Carrying
  <2>2. \A x \in Span : InDeferred(x)' = InDeferred(x)
    BY <1>8, <1>9, <1>10 DEF InDeferred, Holding
  <2>3. CASE pc'[t] = "extract"
    BY <1>4, <1>7, <1>8, <1>9, <2>1, <2>2, <2>3 DEF Allocated, InFlight, Carrying
  <2>4. CASE pc'[t] = "idle"
    BY <1>4, <1>7, <1>8, <1>9, <2>1, <2>2, <2>4 DEF Allocated, InFlight, Carrying
  <2>. QED BY <1>7, <2>3, <2>4
<1>12. NoBlockInTwoPlaces' /\ NoBlockLost'
  <2>1. /\ NoBlockInTwoPlaces!(s)
        /\ 1..free_list_limit[s] =
             Allocated(s) \cup InFlight(s) \cup free_list[s] \cup InDeferred(s)
    BY <1>4, <1>5 DEF NoBlockInTwoPlaces, NoBlockLost
  <2>. DEFINE next == (free_list_limit[s] + 1)..limit
  <2>3. /\ next \cap (1..free_list_limit[s]) = {}
        /\ 1..limit = next \cup (1..free_list_limit[s])
    BY <1>5, SpanParams DEF Block
  <2>4. {block} \cup InClass(s)' = free_list[s] \cup next
    BY <1>5
  <2>. HIDE DEF next
  <2>5. NoBlockInTwoPlaces!(s)'
    BY <1>4, <1>5, <1>6, <1>11, <2>1, <2>3, <2>4
  <2>6. 1..free_list_limit'[s] =
             Allocated(s)' \cup InFlight(s)' \cup InClass(s)'
               \cup free_list'[s] \cup InDeferred(s)'
    BY <1>4, <1>6, <1>11, <2>1, <2>3, <2>4
  <2>7. \A x \in Span \ {s} : NoBlockInTwoPlaces!(x)'
    BY <1>5, <1>6, <1>11 DEF NoBlockInTwoPlaces
  <2>8. \A x \in Span \ {s} :
          1..free_list_limit'[x] =
            Allocated(x)' \cup InFlight(x)' \cup InClass(x)'
               \cup free_list'[x] \cup InDeferred(x)'
    BY <1>5, <1>6, <1>11 DEF NoBlockLost
  <2>9. NoBlockInTwoPlaces'
    BY <2>5, <2>7 DEF NoBlockInTwoPlaces
  <2>10. NoBlockLost'
    BY <2>6, <2>8 DEF NoBlockLost
  <2>. QED BY <2>9, <2>10
<1>13. CountersExact'
  <2>1. used_count'[s] + Cardinality(free_list'[s]) = free_list_limit'[s]
    BY <1>6, FS_EmptySet, SpanParams DEF Block
  <2>. QED BY <1>6, <1>11, <2>1 DEF CountersExact
<1>14. ThreadInv'
  <2>1. ASSUME NEW u \in Thread PROVE ThreadInv!(u)'
    <3>1. CASE u = t /\ pc'[t] = "extract"
      BY <1>4, <1>6, <1>7, <1>9, <3>1 DEF Owning, Carrying
    <3>2. CASE u = t /\ pc'[t] = "idle"
      BY <1>7, <3>2 DEF Owning, Carrying
    <3>3. CASE u # t
      <4>1. ThreadInv!(u)
        BY DEF ThreadInv
      <4>2. reg[u].span # None => reg[u].span \in Span
        BY DEF TypeOK, Reg
      <4>3. CASE reg[u].span = s
        BY <1>4, <1>8, <3>3, <4>1, <4>2, <4>3 DEF Owning, Carrying
      <4>4. CASE reg[u].span # s
        <5>1. pc[u] \in Owning => \A g \in Heap : 
                 reg[u].span \in partial_span[g] => reg[u].span \in partial_span'[g]
          BY <1>7, <4>4 DEF TypeOK
        <5>. QED BY <1>4, <1>5, <1>6, <1>8, <1>11, <3>3, <4>1, <4>2, <4>4, <5>1
                 DEF Owning
      <4>. QED BY <4>3, <4>4
    <3>. QED BY <1>7, <3>1, <3>2, <3>3
  <2>. QED BY <2>1 DEF ThreadInv
<1>15. CarryDistinct'
  <2>1. /\ InFlight(s) \cap free_list[s] = {} 
        /\ InFlight(s) \subseteq 1..free_list_limit[s]
    BY <1>4 DEF NoBlockInTwoPlaces, NoBlockLost
  <2>2. block \notin InFlight(s)
    BY <1>5, <2>1, SpanParams DEF Block
  <2>3. \A u \in Thread : pc[u] \in Carrying /\ reg[u].span = s => reg[u].block # block
    BY <2>2 DEF InFlight
  <2>4. pc'[t] \in Carrying => reg'[t].span = s /\ reg'[t].block = block
    BY <1>7 DEF Carrying
  <2>5. ASSUME NEW u \in Thread, NEW v \in Thread,
               pc'[u] \in Carrying, pc'[v] \in Carrying,
               reg'[u].span = reg'[v].span, reg'[u].block = reg'[v].block
        PROVE  u = v
    <3>1. CASE u # t /\ v # t
      BY <1>8, <2>5, <3>1 DEF CarryDistinct
    <3>2. CASE u = t \/ v = t
      BY <1>8, <2>3, <2>4, <2>5, <3>2
    <3>. QED BY <3>1, <3>2
  <2>. QED BY <2>5 DEF CarryDistinct
<1>16. HeapInv' /\ DeferredListExclusive'
  BY <1>4, <1>5, <1>10 DEF HeapInv, DeferredListExclusive
<1>17. PartialUseful'
  <2>1. ASSUME NEW g \in Heap, NEW x \in partial_span'[g]
        PROVE  \/ free_list'[x] # {} \/ free_list_limit'[x] < BlockCount
               \/ \E u \in Thread : pc'[u] \in {"extract", "merge"} /\ reg'[u].span = x
    <3>1. x \in partial_span[g] /\ x \in Span
      BY <1>7 DEF TypeOK
    <3>2. CASE x = s /\ pc'[t] = "extract"
      BY <1>7, <3>2
    <3>3. CASE x = s /\ pc'[t] = "idle"
      <4>1. limit < BlockCount
        BY <1>4, <1>7, <3>1, <3>3, PartialFacts, SpanParams DEF Block, TypeOK
      <4>. QED BY <1>6, <3>3, <4>1
    <3>4. CASE x # s
      <4>1. \/ free_list[x] # {} \/ free_list_limit[x] < BlockCount
            \/ \E u \in Thread : pc[u] \in {"extract", "merge"} /\ reg[u].span = x
        BY <3>1 DEF PartialUseful
      <4>. QED BY <1>2, <1>6, <1>8, <3>1, <3>4, <4>1
    <3>. QED BY <1>7, <3>2, <3>3, <3>4
  <2>. QED BY <2>1 DEF PartialUseful
<1>18. IdleSpansUntouched' /\ SpanInOnePlace'
  <2>1. \A x \in Span : IsIdle(x)' <=> IsIdle(x)
    BY <1>10 DEF IsIdle
  <2>2. IdleSpansUntouched'
    <3>1. ASSUME NEW x \in Span, IsIdle(x)
          PROVE  /\ Allocated(x)' = {} /\ InClass(x)' = {}
                 /\ \A u \in Thread : reg'[u].span = x => PushedBy(u, x)'
      <4>1. x # s /\ Allocated(x) = {} /\ InClass(x) = {}
            /\ \A u \in Thread : reg[u].span = x => PushedBy(u, x)
        BY <1>4, <3>1 DEF IdleSpansUntouched
      <4>2. \A u \in Thread : reg'[u].span = x => reg[u].span = x
        BY <1>7, <1>8, <1>9, <4>1
      <4>. QED BY <1>5, <1>10, <1>11, <4>1, <4>2
    <3>. QED BY <2>1, <3>1 DEF IdleSpansUntouched
  <2>3. \A g \in Heap : partial_span'[g] \subseteq partial_span[g]
    BY <1>7 DEF TypeOK
  <2>4. SpanInOnePlace'
    BY <1>10, <2>3 DEF SpanInOnePlace
  <2>. QED BY <2>2, <2>4
<1>19. UnlistedFull'
  <2>1. ASSUME NEW x \in Active', ~IsPartial(x)'
        PROVE  FullyUtilized(free_list'[x], free_list_limit'[x])
    <3>1. CASE x = s
      <4>1. limit >= BlockCount
        BY <1>3, <1>7, <2>1, <3>1 DEF IsPartial
      <4>. QED BY <1>6, <3>1, <4>1 DEF FullyUtilized
    <3>2. CASE x # s
      <4>1. x \in Span /\ ~IsIdle(x)'
        BY <2>1 DEF Active
      <4>2. x \in Active
        BY <1>10, <4>1 DEF Active, IsIdle
      <4>3. \A g \in Heap : x \in partial_span[g] => x \in partial_span'[g]
        BY <1>7, <3>2 DEF TypeOK
      <4>4. ~IsPartial(x)
        BY <2>1, <4>3 DEF IsPartial
      <4>. QED BY <1>6, <3>2, <4>1, <4>2, <4>4 DEF UnlistedFull
    <3>. QED BY <3>1, <3>2
  <2>. QED BY <2>1 DEF UnlistedFull
<1>. QED BY <1>1, <1>12, <1>13, <1>14, <1>15, <1>16, <1>17, <1>18, <1>19

\* No thread touches a span that is cached, deferred to its heap or in the pool
LEMMA IdleFacts ==
  ASSUME IInv, NEW h \in Heap, NEW s \in Span,
         s \in pool \cup cache[h] \cup span_free_deferred[h]
  PROVE  /\ Allocated(s) = {} /\ InFlight(s) = {} /\ InClass(s) = {}
         /\ \A u \in Thread : reg[u].span # s
         /\ \A g \in Heap : s \notin partial_span[g]
         /\ \A g \in Heap \ {h} : s \notin cache[g] \cup span_free_deferred[g]
<1>. USE DEF IInv
<1>1. IsIdle(s)
  BY DEF IsIdle
<1>2. /\ \A g \in Heap : s \notin partial_span[g]
      /\ \A g \in Heap \ {h} : s \notin cache[g] \cup span_free_deferred[g]
  BY DEF SpanInOnePlace
<1>3. \A u \in Thread : ~PushedBy(u, s)
  BY DEF SpanInOnePlace
<1>4. \A u \in Thread : reg[u].span # s
  BY <1>1, <1>3 DEF IdleSpansUntouched
<1>. QED BY <1>1, <1>2, <1>4 DEF IdleSpansUntouched, InFlight

\* A span taken from where idle spans are kept becomes the active span of a
\* heap whose size class is empty
LEMMA FreshSpan ==
  ASSUME IInv, TypeOK', NEW t \in Thread, NEW h \in Heap, NEW s \in Span,
         NEW full,
         pc[t] = "idle", owner_thread[h] = t,
         class_free_list[h] = {}, UNCHANGED heapVars,
         s \in pool \cup cache[h] \cup span_free_deferred[h],
         InitializeNew(h, s, full), Return(t, <<s, 1>>),
         \A g \in Heap \ {h} : /\ cache'[g] = cache[g]
                               /\ span_free_deferred'[g] = span_free_deferred[g],
         s \notin pool' \cup cache'[h] \cup span_free_deferred'[h],
         pool \ {s} \subseteq pool',
         cache[h] \cup span_free_deferred[h]
           \subseteq {s} \cup pool' \cup cache'[h] \cup span_free_deferred'[h],
         pool' \subseteq pool \cup span_free_deferred[h],
         cache'[h] \subseteq cache[h] \cup span_free_deferred[h],
         span_free_deferred'[h] \subseteq span_free_deferred[h],
         cache'[h] \cap pool' = {},
         span_free_deferred'[h] \cap (cache'[h] \cup pool') = {}
  PROVE  IInv'
<1>. USE DEF IInv, heapVars
<1>1. PICK n \in PageWorth(BlockCount) : InitializeNew(h, s, full)!(n)
  BY DEF InitializeNew
<1>2. n \in 1..BlockCount /\ 1 \in Block /\ <<s, 1>> \in Cell
  BY PageWorthRange, SpanParams DEF Block, Cell
<1>3. /\ heap'[s] = h /\ free_list'[s] = {} /\ list_size'[s] = 0
      /\ free_list_deferred'[s] = {} /\ free_list_limit'[s] = n
      /\ used_count'[s] = n /\ class_free_list'[h] = {s} \X (2..n)
      /\ \A x \in Span \ {s} :
           /\ heap'[x] = heap[x] /\ free_list'[x] = free_list[x]
           /\ list_size'[x] = list_size[x]
           /\ free_list_deferred'[x] = free_list_deferred[x]
           /\ free_list_limit'[x] = free_list_limit[x]
           /\ used_count'[x] = used_count[x]
      /\ \A g \in Heap \ {h} : /\ class_free_list'[g] = class_free_list[g]
                               /\ partial_span'[g] = partial_span[g]
      /\ \/ n < BlockCount /\ partial_span'[h] = partial_span[h] \cup {s}
         \/ n = BlockCount /\ partial_span'[h] = partial_span[h]
  BY <1>1, <1>2, SpanParams DEF TypeOK
<1>4. /\ Allocated(s) = {} /\ InFlight(s) = {} /\ InClass(s) = {}
      /\ \A u \in Thread : reg[u].span # s
      /\ \A g \in Heap : s \notin partial_span[g]
      /\ \A g \in Heap \ {h} : s \notin cache[g] \cup span_free_deferred[g]
  BY IdleFacts
<1>5. /\ pc' = pc /\ reg'[t].span = None /\ reg[t].span = None
      /\ None \notin Span
      /\ \A u \in Thread \ {t} : reg'[u] = reg[u]
      /\ \A u \in Thread : reg'[u].span = reg[u].span
      /\ \A x \in Span : InFlight(x)' = InFlight(x)
      /\ \A u \in Thread, x \in Span : Holding(u, x)' = Holding(u, x)
      /\ \A u \in Thread, x \in Span : PushedBy(u, x)' = PushedBy(u, x)
      /\ allocated' = allocated \cup {<<s, 1>>}
      /\ CarryDistinct'
  BY <1>2, ReturnIdle, SpanParams DEF ThreadInv
<1>6. /\ Allocated(s)' = {1} /\ InFlight(s)' = {}
      /\ InClass(s)' = 2..n /\ InDeferred(s)' = {}
  <2>1. Allocated(s)' = {1} /\ InFlight(s)' = {}
    BY <1>2, <1>4, <1>5 DEF Allocated
  <2>2. InDeferred(s)' = {}
    BY <1>3, <1>4, <1>5 DEF InDeferred, Holding
  <2>3. \A b \in Block, g \in Heap \ {h} : <<s, b>> \notin class_free_list'[g]
    BY <1>3, <1>4 DEF InClass
  <2>4. \A b \in Block : <<s, b>> \in class_free_list'[h] <=> b \in 2..n
    BY <1>3
  <2>5. 2..n \subseteq Block
    BY <1>2, SpanParams DEF Block
  <2>6. InClass(s)' = 2..n
    BY <2>3, <2>4, <2>5 DEF InClass
  <2>. QED BY <2>1, <2>2, <2>6
<1>7. \A x \in Span \ {s} :
        /\ Allocated(x)' = Allocated(x) /\ InFlight(x)' = InFlight(x)
        /\ InClass(x)' = InClass(x) /\ InDeferred(x)' = InDeferred(x)
  <2>1. \A x \in Span \ {s} : Allocated(x)' = Allocated(x) /\ InFlight(x)' = InFlight(x)
    BY <1>5 DEF Allocated
  <2>2. \A x \in Span \ {s} : InClass(x)' = InClass(x)
    BY <1>3 DEF InClass
  <2>3. \A x \in Span \ {s} : InDeferred(x)' = InDeferred(x)
    BY <1>3, <1>5 DEF InDeferred, Holding
  <2>. QED BY <2>1, <2>2, <2>3
<1>8. NoBlockInTwoPlaces' /\ NoBlockLost'
  <2>1. 1..n = {1} \cup (2..n) /\ {1} \cap (2..n) = {}
    BY <1>2, SpanParams
  <2>2. NoBlockInTwoPlaces!(s)'
    BY <1>3, <1>6, <2>1
  <2>3. \A x \in Span \ {s} : NoBlockInTwoPlaces!(x)'
    BY <1>3, <1>7 DEF NoBlockInTwoPlaces
  <2>4. NoBlockInTwoPlaces'
    BY <2>2, <2>3 DEF NoBlockInTwoPlaces
  <2>5. NoBlockLost!(s)'
    BY <1>3, <1>6, <2>1
  <2>6. \A x \in Span \ {s} : NoBlockLost!(x)'
    BY <1>3, <1>7 DEF NoBlockLost
  <2>7. NoBlockLost'
    BY <2>5, <2>6 DEF NoBlockLost
  <2>. QED BY <2>4, <2>7
<1>9. CountersExact'
  <2>1. list_size'[s] = 0 /\ used_count'[s] + 0 = free_list_limit'[s]
    BY <1>2, <1>3, SpanParams
  <2>2. CountersExact!(s)'
    BY <1>3, <1>6, <2>1, FS_EmptySet
  <2>3. \A x \in Span \ {s} : CountersExact!(x)'
    BY <1>3, <1>7 DEF CountersExact
  <2>. QED BY <2>2, <2>3 DEF CountersExact
<1>10. ThreadInv'
  <2>1. ASSUME NEW u \in Thread PROVE ThreadInv!(u)'
    <3>1. CASE u = t
      BY <1>5, <3>1 DEF Owning, Carrying
    <3>2. CASE u # t
      <4>1. ThreadInv!(u)
        BY DEF ThreadInv
      <4>2. reg[u].span # None => reg[u].span \in Span \ {s}
        BY <1>4 DEF TypeOK, Reg
      <4>3. \A g \in Heap : partial_span[g] \subseteq partial_span'[g]
        BY <1>3
      <4>. QED BY <1>3, <1>5, <1>7, <3>2, <4>1, <4>2, <4>3 DEF Owning
    <3>. QED BY <3>1, <3>2
  <2>. QED BY <2>1 DEF ThreadInv
<1>11. HeapInv'
  <2>1. \A g \in orphans' : owner_thread'[g] = None
    BY DEF HeapInv
  <2>2. \A x \in Span : x \notin pool' => heap'[x] \in Heap
    BY <1>3 DEF HeapInv
  <2>3. \A x \in Span, g \in Heap, b \in Block :
          <<x, b>> \in class_free_list'[g] => heap'[x] = g
    <3>1. \A x \in Span \ {s}, g \in Heap, b \in Block :
            <<x, b>> \in class_free_list'[g] => <<x, b>> \in class_free_list[g]
      BY <1>3
    <3>2. \A g \in Heap \ {h}, b \in Block : <<s, b>> \notin class_free_list'[g]
      BY <1>3, <1>4 DEF InClass
    <3>. QED BY <1>3, <3>1, <3>2 DEF HeapInv
  <2>. QED BY <2>1, <2>2, <2>3 DEF HeapInv
<1>12. PartialUseful'
  <2>1. ASSUME NEW g \in Heap, NEW x \in partial_span'[g]
        PROVE  \/ free_list'[x] # {} \/ free_list_limit'[x] < BlockCount
               \/ \E u \in Thread : pc'[u] \in {"extract", "merge"} /\ reg'[u].span = x
    <3>1. CASE x = s
      BY <1>3, <1>4, <3>1
    <3>2. CASE x # s
      <4>1. x \in partial_span[g] /\ x \in Span
        <5>1. partial_span'[g] \subseteq partial_span[g] \cup {s}
          BY <1>3
        <5>2. partial_span'[g] \subseteq Span
          BY DEF TypeOK
        <5>. QED BY <3>2, <5>1, <5>2
      <4>2. \/ free_list[x] # {} \/ free_list_limit[x] < BlockCount
            \/ \E u \in Thread : pc[u] \in {"extract", "merge"} /\ reg[u].span = x
        BY <4>1 DEF PartialUseful
      <4>3. \A u \in Thread : /\ pc'[u] = pc[u]
                              /\ reg'[u].span = reg[u].span
        BY <1>5
      <4>4. x \in Span \ {s}
        BY <3>2, <4>1
      <4>. QED BY <1>3, <4>2, <4>3, <4>4
    <3>. QED BY <3>1, <3>2
  <2>. QED BY <2>1 DEF PartialUseful
<1>13. DeferredListExclusive'
  <2>1. {} # INVALID
    BY SpanParams
  <2>2. \A u \in Thread : ~Holding(u, s)'
    BY <1>4, <1>5 DEF Holding
  <2>. QED BY <1>3, <1>5, <2>1, <2>2 DEF DeferredListExclusive
<1>14. ~IsIdle(s)' /\ \A x \in Span \ {s} : IsIdle(x)' <=> IsIdle(x)
  <2>1. \A u \in Thread : ~PushedBy(u, s)'
    BY <1>4, <1>5 DEF PushedBy
  <2>2. ~IsIdle(s)'
    BY <1>4, <2>1 DEF IsIdle
  <2>3. \A x \in Span \ {s} : IsIdle(x)' => IsIdle(x)
    BY <1>5 DEF IsIdle
  <2>4. \A x \in Span \ {s}, g \in Heap :
          x \in cache[g] \cup span_free_deferred[g] => IsIdle(x)'
    BY DEF IsIdle
  <2>5. \A x \in Span \ {s} : x \in pool => IsIdle(x)'
    BY DEF IsIdle
  <2>6. \A x \in Span \ {s}, u \in Thread : PushedBy(u, x) => IsIdle(x)'
    BY <1>5 DEF IsIdle
  <2>. QED BY <2>2, <2>3, <2>4, <2>5, <2>6 DEF IsIdle
<1>15. IdleSpansUntouched'
  BY <1>5, <1>7, <1>14 DEF IdleSpansUntouched
<1>16. SpanInOnePlace'
  <2>1. ASSUME NEW x \in Span \ {s}, NEW g \in Heap
        PROVE  SpanInOnePlace!(x)!1!(g)'
    <3>1. SpanInOnePlace!(x)!1!(g) /\ SpanInOnePlace!(x)!1!(h)
      BY DEF SpanInOnePlace
    <3>2. /\ heap'[x] = heap[x]
          /\ x \in partial_span'[g] => x \in partial_span[g]
      BY <1>3
    <3>3. CASE g = h
      BY <3>1, <3>2, <3>3
    <3>4. CASE g # h
      BY <3>1, <3>2, <3>4
    <3>. QED BY <3>3, <3>4
  <2>2. ASSUME NEW x \in Span \ {s}, NEW u \in Thread, PushedBy(u, x)'
        PROVE  /\ heap'[x] \in Heap /\ x \notin pool'
               /\ x \notin partial_span'[heap'[x]] \cup cache'[heap'[x]]
                             \cup span_free_deferred'[heap'[x]]
               /\ \A v \in Thread \ {u} : ~PushedBy(v, x)'
    <3>1. PushedBy(u, x) /\ heap'[x] = heap[x]
      BY <1>3, <1>5, <2>2
    <3>2. /\ heap[x] \in Heap /\ x \notin pool
          /\ x \notin partial_span[heap[x]] \cup cache[heap[x]]
                             \cup span_free_deferred[heap[x]]
          /\ \A v \in Thread \ {u} : ~PushedBy(v, x)
      BY <3>1 DEF SpanInOnePlace
    <3>3. x \notin span_free_deferred[h]
      BY <3>2 DEF SpanInOnePlace
    <3>4. /\ heap[x] = h \/ heap[x] \in Heap \ {h}
          /\ x \notin partial_span'[heap[x]]
      BY <1>3, <3>2
    <3>. QED BY <1>3, <1>5, <3>1, <3>2, <3>3, <3>4
  <2>3. \A u \in Thread : ~PushedBy(u, s)'
    BY <1>4, <1>5 DEF PushedBy
  <2>4. ASSUME NEW g \in Heap
        PROVE  SpanInOnePlace!(s)!1!(g)'
    <3>1. s \notin cache'[g] \cup span_free_deferred'[g] /\ s \notin pool'
      BY <1>4
    <3>2. s \in partial_span'[g] => g = h
      BY <1>3, <1>4
    <3>. QED BY <1>3, <3>1, <3>2
  <2>. QED BY <2>1, <2>2, <2>3, <2>4 DEF SpanInOnePlace
<1>17. UnlistedFull'
  <2>1. ASSUME NEW x \in Active', ~IsPartial(x)'
        PROVE  FullyUtilized(free_list'[x], free_list_limit'[x])
    <3>1. CASE x = s
      BY <1>2, <1>3, <2>1, <3>1, SpanParams DEF FullyUtilized, IsPartial
    <3>2. CASE x # s
      <4>1. x \in Span \ {s} /\ x \in Active
        BY <1>14, <2>1, <3>2 DEF Active
      <4>2. \A g \in Heap : partial_span[g] \subseteq partial_span'[g]
        BY <1>3
      <4>3. ~IsPartial(x)
        BY <2>1, <4>2 DEF IsPartial
      <4>. QED BY <1>3, <4>1, <4>3 DEF UnlistedFull
    <3>. QED BY <3>1, <3>2
  <2>. QED BY <2>1 DEF UnlistedFull
<1>. QED BY <1>5, <1>8, <1>9, <1>10, <1>11, <1>12, <1>13, <1>15, <1>16, <1>17

\* A cached span becomes the active span of its heap
LEMMA CacheStep ==
  ASSUME IInv, NEW t \in Thread, NEW h \in Heap, AllocateFromCache(t, h)
  PROVE  IInv'
<1>. USE DEF IInv
<1>1. TypeOK'
  BY AllocateType DEF Allocate
<1>2. PICK s \in cache[h] : AllocateFromCache(t, h)!3!(s)
  BY DEF AllocateFromCache
<1>3. /\ s \in Span /\ cache'[h] = cache[h] \ {s}
      /\ \A g \in Heap \ {h} : cache'[g] = cache[g]
      /\ UNCHANGED <<heapVars, span_free_deferred, pool>>
      /\ pc[t] = "idle" /\ owner_thread[h] = t /\ class_free_list[h] = {}
  BY <1>2 DEF AllocateFromCache, TypeOK
<1>4. cache[h] \cap pool = {} /\ span_free_deferred[h] \cap (cache[h] \cup pool) = {}
  BY DEF SpanInOnePlace, TypeOK
<1>. QED BY <1>1, <1>2, <1>3, <1>4, FreshSpan

\* A span freed by other threads, or from the global cache, becomes the active
\* span of the heap
LEMMA ElsewhereStep ==
  ASSUME IInv, NEW t \in Thread, NEW h \in Heap, AllocateFromElsewhere(t, h)
  PROVE  IInv'
<1>. USE DEF IInv
<1>1. TypeOK'
  BY AllocateType DEF Allocate
<1>2. PICK s \in IF span_free_deferred[h] # {} THEN span_free_deferred[h] ELSE pool :
        AllocateFromElsewhere(t, h)!3!(s)
  BY DEF AllocateFromElsewhere
<1>3. PICK kept \in Keep(span_free_deferred[h] \ {s}) :
        /\ cache' = [cache EXCEPT ![h] = kept]
        /\ pool' = (pool \cup (span_free_deferred[h] \ kept)) \ {s}
  BY <1>2
<1>4. /\ kept \subseteq span_free_deferred[h] \ {s}
      /\ s \in Span /\ cache'[h] = kept /\ cache[h] = {}
      /\ \A g \in Heap \ {h} : cache'[g] = cache[g]
      /\ span_free_deferred'[h] = {}
      /\ \A g \in Heap \ {h} : span_free_deferred'[g] = span_free_deferred[g]
      /\ UNCHANGED heapVars
      /\ pc[t] = "idle" /\ owner_thread[h] = t /\ class_free_list[h] = {}
  BY <1>3 DEF AllocateFromElsewhere, TypeOK, Keep
<1>5. span_free_deferred[h] \cap pool = {}
  BY DEF SpanInOnePlace, TypeOK
<1>6. /\ s \in pool \cup cache[h] \cup span_free_deferred[h]
      /\ s \notin pool' \cup cache'[h] \cup span_free_deferred'[h]
      /\ pool \ {s} \subseteq pool'
      /\ pool' \subseteq pool \cup span_free_deferred[h]
      /\ cache'[h] \cap pool' = {}
      /\ span_free_deferred[h] \subseteq {s} \cup pool' \cup cache'[h]
  BY <1>2, <1>3, <1>4, <1>5
<1>7. /\ InitializeNew(h, s, full_span_count[h] - Cardinality(span_free_deferred[h]))
      /\ Return(t, <<s, 1>>)
  BY <1>2
<1>. QED BY <1>1, <1>4, <1>6, <1>7, FreshSpan

---------------------------------------------------------------------------
(* Free by the owner *)

\* Two disjoint sets of blocks below a limit whose sizes reach it are all of them
LEMMA Covered ==
  ASSUME NEW limit \in 0..BlockCount, NEW F, NEW D, F \cup D \subseteq 1..limit,
         F \cap D = {}, Cardinality(F) + Cardinality(D) >= limit
  PROVE  F \cup D = 1..limit
<1>1. IsFiniteSet(1..limit) /\ Cardinality(1..limit) = limit
  BY FS_Interval, SpanParams
<1>2. /\ IsFiniteSet(F) /\ IsFiniteSet(D)
      /\ Cardinality(F) \in Nat /\ Cardinality(D) \in Nat
  BY <1>1, FS_Subset, FS_CardinalityType
<1>3. Cardinality(F \cup D) = Cardinality(F) + Cardinality(D)
  <2>1. Cardinality(F \cup D)
          = Cardinality(F) + Cardinality(D) - Cardinality(F \cap D)
    BY <1>2, FS_Union
  <2>2. Cardinality(F \cap D) = 0
    BY FS_EmptySet
  <2>. QED BY <1>2, <2>1, <2>2
<1>4. /\ Cardinality(F \cup D) <= Cardinality(1..limit)
      /\ Cardinality(F \cup D) = Cardinality(1..limit) => 1..limit = F \cup D
  BY <1>1, FS_Subset
<1>. QED BY <1>1, <1>2, <1>3, <1>4

\* The owner frees a block: when it decides to release the span, the free list
\* and the deferred list together hold every block of it
LEMMA DirectStep ==
  ASSUME IInv, NEW t \in Thread, DeallocateDirect(t)
  PROVE  IInv'
<1>. USE DEF IInv
<1>1. TypeOK'
  BY DirectType
<1>2. /\ pc[t] = "idle"
      /\ UNCHANGED <<heapVars, class_free_list, storeVars, heap,
                     free_list_limit, sharedVars>>
  BY DEF DeallocateDirect
<1>. USE <1>2 DEF heapVars, storeVars, sharedVars
<1>3. PICK c \in allocated : DeallocateDirect(t)!2!(c)
  BY DEF DeallocateDirect
<1>4. PICK s \in Span, b \in Block : c = <<s, b>> /\ <<s, b>> \in allocated
  <2>1. c \in Span \X Block
    BY DEF TypeOK, Cell
  <2>2. PICK s \in Span, b \in Block : c = <<s, b>>
    BY <2>1
  <2>. QED BY <2>2
<1>5. ~IsIdle(s) /\ s \notin pool
  <2>1. Allocated(s) # {}
    BY <1>4 DEF Allocated
  <2>2. ~IsIdle(s)
    BY <2>1 DEF IdleSpansUntouched
  <2>. QED BY <2>2 DEF IsIdle
<1>6. PICK h \in Heap : heap[s] = h
  BY <1>5 DEF HeapInv
<1>. DEFINE wasFull == FullyUtilized(free_list[s], free_list_limit[s])
            used == IF wasFull THEN BlockCount - 1 ELSE used_count[s] - 1
<1>7. /\ owner_thread[h] = t
      /\ allocated' = allocated \ {<<s, b>>}
      /\ free_list' = [free_list EXCEPT ![s] = @ \cup {b}]
      /\ used_count' = [used_count EXCEPT ![s] = used]
      /\ IF wasFull
         THEN partial_span' = [partial_span EXCEPT ![h] = @ \cup {s}]
         ELSE UNCHANGED partial_span
      /\ \E seen \in 0..list_size[s] :
           IF used = seen
           THEN Goto(t, IF used # 0 THEN "sync" ELSE "release", Local(s, 0, {}))
           ELSE UNCHANGED <<pc, reg>>
  <2>1. c[1] = s /\ c[2] = b
    BY <1>4
  <2>. QED BY <1>3, <1>4, <1>6, <2>1
<1>. HIDE DEF used
<1>8. \A u \in Thread : reg[u].span = s => u # t /\ pc[u] \notin Owning
  BY <1>6, <1>7, OwnerAlone
\* The owner is not in the middle of a refill: the span is listed afterwards
<1>9. /\ s \in partial_span'[h]
      /\ partial_span[h] \subseteq partial_span'[h]
      /\ partial_span'[h] \subseteq partial_span[h] \cup {s}
      /\ \A g \in Heap \ {h} : partial_span'[g] = partial_span[g]
  <2>1. CASE wasFull
    BY <1>7, <2>1 DEF TypeOK
  <2>2. CASE ~wasFull
    <3>1. IsPartial(s)
      BY <1>5, <2>2 DEF UnlistedFull, Active
    <3>2. s \in partial_span[h]
      BY <1>6, <3>1 DEF IsPartial, SpanInOnePlace
    <3>. QED BY <1>7, <2>2, <3>2
  <2>. QED BY <2>1, <2>2
<1>10. /\ free_list'[s] = free_list[s] \cup {b} /\ used_count'[s] = used
       /\ \A x \in Span \ {s} : /\ free_list'[x] = free_list[x]
                                /\ used_count'[x] = used_count[x]
  BY <1>7 DEF TypeOK
<1>11. /\ \A x \in Span \ {s} : Allocated(x)' = Allocated(x)
       /\ Allocated(s)' = Allocated(s) \ {b} /\ b \in Allocated(s)
       /\ \A x \in Span : InClass(x)' = InClass(x)
  BY <1>4, <1>7 DEF Allocated, InClass
<1>12. reg[t].span = None /\ None \notin Span
  BY SpanParams DEF ThreadInv
<1>13. /\ \/ UNCHANGED <<pc, reg>>
          \/ /\ pc'[t] \in {"sync", "release"} /\ reg'[t].span = s
             /\ used <= list_size[s]
             /\ pc'[t] = "release" => used = 0
       /\ \A u \in Thread \ {t} : pc'[u] = pc[u] /\ reg'[u] = reg[u]
  <2>1. list_size[s] \in Int /\ used \in Int
    BY SpanParams DEF TypeOK, used
  <2>. QED BY <1>7, <2>1 DEF Goto, Local, TypeOK
<1>14. /\ \A u \in Thread, x \in Span :
            /\ Holding(u, x)' <=> Holding(u, x)
            /\ PushedBy(u, x)' <=> PushedBy(u, x)
       /\ \A x \in Span : InFlight(x)' = InFlight(x)
  BY <1>12, <1>13 DEF Holding, PushedBy, InFlight, Carrying
<1>15. \A x \in Span : InDeferred(x)' = InDeferred(x)
  BY <1>12, <1>13, <1>14 DEF InDeferred, Holding
<1>16. NoBlockInTwoPlaces' /\ NoBlockLost'
  <2>1. NoBlockInTwoPlaces!(s)'
    <3>1. NoBlockInTwoPlaces!(s)
      BY DEF NoBlockInTwoPlaces
    <3>. QED BY <1>10, <1>11, <1>14, <1>15, <3>1
  <2>2. NoBlockLost!(s)'
    <3>1. NoBlockLost!(s)
      BY DEF NoBlockLost
    <3>. QED BY <1>10, <1>11, <1>14, <1>15, <3>1
  <2>3. \A x \in Span \ {s} : NoBlockInTwoPlaces!(x)' /\ NoBlockLost!(x)'
    BY <1>10, <1>11, <1>14, <1>15 DEF NoBlockInTwoPlaces, NoBlockLost
  <2>. QED BY <2>1, <2>2, <2>3 DEF NoBlockInTwoPlaces, NoBlockLost
<1>17. CountersExact'
  <2>1. free_list[s] \in SUBSET Block /\ b \notin free_list[s]
    BY <1>11 DEF NoBlockInTwoPlaces, TypeOK
  <2>2. Cardinality(free_list'[s]) = Cardinality(free_list[s]) + 1
    BY <1>10, <2>1, AddBlock
  <2>3. used_count[s] + Cardinality(free_list[s]) = free_list_limit[s]
        /\ Cardinality(free_list[s]) \in 0..BlockCount
        /\ used_count[s] \in Int /\ free_list_limit[s] \in 0..BlockCount
    BY <2>1, BlockFinite DEF CountersExact, TypeOK
  <2>4. used + Cardinality(free_list'[s]) = free_list_limit[s]
    <3>1. CASE wasFull
      BY <2>2, <2>3, <3>1, FS_EmptySet, SpanParams DEF FullyUtilized, used
    <3>2. CASE ~wasFull
      BY <2>2, <2>3, <3>2, SpanParams DEF used
    <3>. QED BY <3>1, <3>2
  <2>5. CountersExact!(s)'
    BY <1>10, <1>15, <2>4 DEF CountersExact
  <2>6. \A x \in Span \ {s} : CountersExact!(x)'
    BY <1>10, <1>15 DEF CountersExact
  <2>. QED BY <2>5, <2>6 DEF CountersExact
\* The release decision: free and deferred blocks are all there are
<1>18. ASSUME pc'[t] # "idle"
       PROVE  /\ Allocated(s)' = {} /\ InClass(s)' = {} /\ InFlight(s)' = {}
              /\ used = 0 => list_size[s] = 0
  <2>. DEFINE F == free_list'[s]
              D == InDeferred(s)'
              limit == free_list_limit[s]
  <2>1. /\ limit \in 0..BlockCount /\ F \cup D \subseteq 1..limit /\ F \cap D = {}
        /\ (Allocated(s)' \cup InClass(s)' \cup InFlight(s)') \cap (F \cup D) = {}
        /\ Allocated(s)' \cup InClass(s)' \cup InFlight(s)' \subseteq 1..limit
    BY <1>16 DEF NoBlockInTwoPlaces, NoBlockLost, TypeOK
  <2>2. /\ used + Cardinality(F) = limit
        /\ list_size[s] = Cardinality(D)
    BY <1>10, <1>17 DEF CountersExact
  <2>3. F \in SUBSET Block /\ D \in SUBSET Block
    BY <1>1 DEF TypeOK, InDeferred
  <2>. HIDE DEF F, D, limit
  <2>4. Cardinality(F) \in Nat /\ Cardinality(D) \in Nat
    BY <2>3, BlockFinite, SpanParams
  <2>5. used \in Int /\ used <= list_size[s]
    BY <1>2, <1>13, <1>18, SpanParams DEF TypeOK, used
  <2>6. F \cup D = 1..limit
    BY <2>1, <2>2, <2>4, <2>5, Covered, SpanParams
  <2>7. ASSUME used = 0 PROVE list_size[s] = 0
    <3>1. F = 1..limit
      <4>1. Cardinality(F) + Cardinality({}) >= limit
        BY <2>1, <2>2, <2>4, <2>7, FS_EmptySet, SpanParams
      <4>2. F \cup {} \subseteq 1..limit /\ F \cap {} = {}
        BY <2>1
      <4>3. F \cup {} = 1..limit
        BY <2>1, <4>1, <4>2, Covered
      <4>. QED BY <4>3
    <3>2. D = {}
      BY <2>1, <3>1
    <3>. QED BY <2>2, <3>2, FS_EmptySet
  <2>. QED BY <2>1, <2>6, <2>7
<1>19. ThreadInv'
  <2>1. ASSUME NEW u \in Thread PROVE ThreadInv!(u)'
    <3>1. CASE u = t /\ pc'[t] = "idle"
      BY <1>12, <1>13, <3>1 DEF Owning, Carrying
    <3>2. CASE u = t /\ pc'[t] # "idle"
      <4>1. pc'[t] \in {"sync", "release"} /\ reg'[t].span = s
            /\ (pc'[t] = "release" => used = 0)
        BY <1>2, <1>13, <3>2
      <4>. QED BY <1>6, <1>7, <1>9, <1>12, <1>18, <3>2, <4>1 DEF Owning, Carrying
    <3>3. CASE u # t
      <4>1. ThreadInv!(u)
        BY DEF ThreadInv
      <4>2. reg[u].span # None => reg[u].span \in Span
        BY DEF TypeOK, Reg
      <4>3. CASE reg[u].span = s
        BY <1>8, <1>13, <3>3, <4>1, <4>2, <4>3 DEF Owning, Carrying
      <4>4. CASE reg[u].span # s
        <5>1. \A g \in Heap : partial_span[g] \subseteq partial_span'[g]
          BY <1>9
        <5>. QED BY <1>10, <1>11, <1>13, <1>14, <3>3, <4>1, <4>2, <4>4, <5>1
                 DEF Owning
      <4>. QED BY <4>3, <4>4
    <3>. QED BY <3>1, <3>2, <3>3
  <2>. QED BY <2>1 DEF ThreadInv
<1>20. CarryDistinct' /\ HeapInv' /\ DeferredListExclusive'
  <2>1. CarryDistinct'
    BY <1>2, <1>13 DEF CarryDistinct, Carrying
  <2>2. HeapInv'
    BY DEF HeapInv
  <2>3. DeferredListExclusive'
    BY <1>14 DEF DeferredListExclusive
  <2>. QED BY <2>1, <2>2, <2>3
<1>21. PartialUseful'
  <2>1. ASSUME NEW g \in Heap, NEW x \in partial_span'[g]
        PROVE  \/ free_list'[x] # {} \/ free_list_limit'[x] < BlockCount
               \/ \E u \in Thread : pc'[u] \in {"extract", "merge"} /\ reg'[u].span = x
    <3>1. CASE x = s
      BY <1>10, <3>1
    <3>2. CASE x # s
      <4>1. x \in partial_span[g] /\ x \in Span
        <5>1. partial_span'[g] \subseteq partial_span[g] \cup {s}
          BY <1>9
        <5>2. partial_span'[g] \subseteq Span
          BY <1>1 DEF TypeOK
        <5>. QED BY <3>2, <5>1, <5>2
      <4>2. \/ free_list[x] # {} \/ free_list_limit[x] < BlockCount
            \/ \E u \in Thread : pc[u] \in {"extract", "merge"} /\ reg[u].span = x
        BY <4>1 DEF PartialUseful
      <4>. QED BY <1>10, <1>13, <3>2, <4>1, <4>2
    <3>. QED BY <3>1, <3>2
  <2>. QED BY <2>1 DEF PartialUseful
<1>22. \A x \in Span : IsIdle(x)' <=> IsIdle(x)
  BY <1>14 DEF IsIdle
<1>23. UnlistedFull'
  <2>1. ASSUME NEW x \in Active', ~IsPartial(x)'
        PROVE  FullyUtilized(free_list'[x], free_list_limit'[x])
    <3>1. x \in Span /\ x # s /\ x \in Active
      BY <1>9, <1>22, <2>1 DEF Active, IsPartial
    <3>2. \A g \in Heap : partial_span[g] \subseteq partial_span'[g]
      BY <1>9
    <3>3. ~IsPartial(x)
      BY <2>1, <3>2 DEF IsPartial
    <3>. QED BY <1>10, <3>1, <3>3 DEF UnlistedFull
  <2>. QED BY <2>1 DEF UnlistedFull
<1>24. IdleSpansUntouched'
  <2>1. ASSUME NEW x \in Span, IsIdle(x)
        PROVE  /\ Allocated(x)' = {} /\ InClass(x)' = {}
               /\ \A u \in Thread : reg'[u].span = x => PushedBy(u, x)'
    <3>1. x # s /\ Allocated(x) = {} /\ InClass(x) = {}
          /\ \A u \in Thread : reg[u].span = x => PushedBy(u, x)
      BY <1>5, <2>1 DEF IdleSpansUntouched
    <3>2. \A u \in Thread : reg'[u].span = x => reg[u].span = x
      BY <1>13, <3>1
    <3>. QED BY <1>11, <1>14, <3>1, <3>2
  <2>. QED BY <1>22, <2>1 DEF IdleSpansUntouched
<1>25. SpanInOnePlace'
  <2>1. s \notin pool /\ \A g \in Heap : s \notin cache[g] \cup span_free_deferred[g]
        /\ \A u \in Thread : ~PushedBy(u, s)
    BY <1>5 DEF IsIdle
  <2>2. ASSUME NEW x \in Span PROVE SpanInOnePlace!(x)'
    <3>1. SpanInOnePlace!(x)
      BY DEF SpanInOnePlace
    <3>2. CASE x = s
      BY <1>6, <1>9, <1>14, <2>1, <3>1, <3>2
    <3>3. CASE x # s
      <4>1. \A g \in Heap : x \in partial_span'[g] <=> x \in partial_span[g]
        BY <1>9, <3>3
      <4>. QED BY <1>14, <3>1, <4>1
    <3>. QED BY <3>2, <3>3
  <2>. QED BY <2>2 DEF SpanInOnePlace
<1>. QED BY <1>1, <1>16, <1>17, <1>19, <1>20, <1>21, <1>23, <1>24, <1>25

\* The owner moves the span it found empty from the partial list to the cache;
\* no other thread is at work on the span
LEMMA ReleaseStep ==
  ASSUME IInv, NEW t \in Thread, ReleaseToCache(t)
  PROVE  IInv'
<1>. USE DEF IInv
<1>1. TypeOK'
  BY ReleaseType
<1>2. /\ pc[t] \in {"unsync", "release"}
      /\ UNCHANGED <<heapVars, class_free_list, full_span_count,
                     span_free_deferred, ownVars, list_size, allocated>>
  BY DEF ReleaseToCache
<1>. USE <1>2 DEF heapVars, ownVars
<1>3. PICK s \in Span : s = reg[t].span
  BY DEF ThreadInv, TypeOK, Reg
<1>4. PICK h \in Heap : /\ heap[s] = h /\ owner_thread[h] = t
                        /\ s \in partial_span[h]
  BY <1>3 DEF ThreadInv, Owning
<1>5. Allocated(s) = {} /\ InClass(s) = {} /\ InFlight(s) = {}
  BY <1>3 DEF ThreadInv
<1>6. ~IsIdle(s)
  BY <1>4, PartialFacts
<1>7. /\ pc'[t] = "idle" /\ reg'[t].span = None
      /\ \A u \in Thread \ {t} : pc'[u] = pc[u] /\ reg'[u] = reg[u]
      /\ None \notin Span
  BY SpanParams DEF ReleaseToCache, Goto, NoReg, TypeOK
<1>8. /\ partial_span' = [partial_span EXCEPT ![h] = @ \ {s}]
      /\ CacheInsert(h, {s})
      /\ IF pc[t] = "unsync"
         THEN free_list_deferred' = [free_list_deferred EXCEPT ![s] = reg[t].list]
         ELSE UNCHANGED free_list_deferred
  BY <1>3, <1>4 DEF ReleaseToCache
<1>9. /\ partial_span'[h] = partial_span[h] \ {s}
      /\ \A g \in Heap \ {h} : partial_span'[g] = partial_span[g]
  BY <1>8 DEF TypeOK
<1>10. reg[t].list \in SUBSET Block /\ reg[t].list # INVALID
  BY SpanParams DEF TypeOK, Reg, Block
\* Every block of the span is in its free list or its deferred list, so no
\* other thread is anywhere near it
<1>11. \A u \in Thread \ {t} : reg[u].span # s
  <2>1. ASSUME NEW u \in Thread \ {t}, reg[u].span = s PROVE FALSE
    <3>1. pc[u] \notin Owning /\ pc[u] # "idle"
      BY <1>3, <1>4, <2>1, SpanParams DEF ThreadInv, Owning
    <3>2. pc[u] \notin {"defer", "link"}
      BY <1>5, <2>1 DEF ThreadInv, Carrying, InFlight
    <3>3. ~PushedBy(u, s)
      BY <1>6 DEF IsIdle
    <3>4. pc[u] = "publish"
      BY <2>1, <3>1, <3>2, <3>3 DEF TypeOK, PC, Owning, PushedBy
    <3>5. Holding(u, s) /\ reg[u].list # {} /\ reg[u].list \in SUBSET Block
      BY <2>1, <3>4 DEF Holding, ThreadInv, TypeOK, Reg
    <3>6. CASE pc[t] = "unsync"
      BY <1>3, <3>5, <3>6 DEF Holding, DeferredListExclusive
    <3>7. CASE pc[t] = "release"
      <4>1. list_size[s] = 0
        BY <1>3, <3>7 DEF ThreadInv
      <4>2. InDeferred(s) # {}
        BY <3>5 DEF InDeferred
      <4>3. InDeferred(s) \in SUBSET Block
        BY DEF InDeferred
      <4>. QED BY <4>1, <4>2, <4>3, BlockFinite, FS_EmptySet DEF CountersExact
    <3>. QED BY <3>6, <3>7
  <2>. QED BY <2>1
<1>12. \A u \in Thread, x \in Span :
         /\ Holding(u, x)' <=> Holding(u, x) /\ u # t
         /\ PushedBy(u, x)' <=> PushedBy(u, x)
  BY <1>7 DEF Holding, PushedBy
<1>13. /\ \A x \in Span : /\ Allocated(x)' = Allocated(x)
                          /\ InClass(x)' = InClass(x)
                          /\ InFlight(x)' = InFlight(x)
       /\ \A x \in Span : InDeferred(x)' = InDeferred(x)
  <2>1. \A x \in Span : /\ Allocated(x)' = Allocated(x)
                        /\ InClass(x)' = InClass(x)
    BY DEF Allocated, InClass
  <2>2. \A x \in Span : InFlight(x)' = InFlight(x)
    BY <1>7 DEF InFlight, Carrying
  <2>3. \A x \in Span \ {s} : InDeferred(x)' = InDeferred(x)
    <3>1. \A x \in Span \ {s} : free_list_deferred'[x] = free_list_deferred[x]
      BY <1>8 DEF TypeOK
    <3>2. \A u \in Thread, x \in Span \ {s} :
            Holding(u, x)' /\ reg'[u] = reg[u] <=> Holding(u, x)
      BY <1>3, <1>7, <1>12 DEF Holding
    <3>3. \A u \in Thread, x \in Span \ {s} : Holding(u, x)' <=> Holding(u, x)
      BY <1>3, <1>12 DEF Holding
    <3>. QED BY <3>1, <3>2, <3>3 DEF InDeferred
  <2>4. InDeferred(s)' = InDeferred(s)
    <3>1. \A u \in Thread \ {t} : ~Holding(u, s)
      BY <1>11 DEF Holding
    <3>2. \A u \in Thread : ~Holding(u, s)'
      BY <1>12, <3>1
    <3>3. CASE pc[t] = "unsync"
      <4>1. free_list_deferred'[s] = reg[t].list /\ free_list_deferred'[s] # INVALID
        BY <1>8, <1>10, <3>3 DEF TypeOK
      <4>2. Holding(t, s) /\ free_list_deferred[s] = INVALID
        BY <1>3, <3>3 DEF Holding, DeferredListExclusive
      <4>. QED BY <3>1, <3>2, <4>1, <4>2 DEF InDeferred
    <3>4. CASE pc[t] = "release"
      <4>1. ~Holding(t, s)
        BY <3>4 DEF Holding
      <4>. QED BY <1>8, <3>1, <3>2, <3>4, <4>1 DEF InDeferred
    <3>. QED BY <3>3, <3>4
  <2>. QED BY <2>1, <2>2, <2>3, <2>4
<1>14. NoBlockInTwoPlaces' /\ NoBlockLost' /\ CountersExact'
  BY <1>13, SameBlocksKeep DEF SameBlocks
<1>15. ThreadInv'
  <2>1. ASSUME NEW u \in Thread PROVE ThreadInv!(u)'
    <3>1. CASE u = t
      BY <1>7, <3>1 DEF Owning, Carrying
    <3>2. CASE u # t
      <4>1. ThreadInv!(u)
        BY DEF ThreadInv
      <4>2. reg[u].span # None => reg[u].span \in Span \ {s}
        BY <1>11, <3>2 DEF TypeOK, Reg
      <4>3. \A g \in Heap, x \in Span \ {s} : x \in partial_span[g] => x \in partial_span'[g]
        BY <1>9
      <4>. QED BY <1>7, <1>13, <3>2, <4>1, <4>2, <4>3 DEF Owning
    <3>. QED BY <3>1, <3>2
  <2>. QED BY <2>1 DEF ThreadInv
<1>16. CarryDistinct'
  BY <1>7 DEF CarryDistinct, Carrying
<1>17. /\ cache[h] \cup {s} \subseteq cache'[h] \cup pool'
       /\ cache'[h] \subseteq cache[h] \cup {s}
       /\ \A g \in Heap \ {h} : cache'[g] = cache[g]
       /\ pool' \subseteq pool \cup cache[h] \cup {s} /\ pool \subseteq pool'
       /\ cache'[h] \cap pool' = {}
  <2>1. CacheInsert(h, {s}) /\ {s} \in SUBSET Span
    BY <1>8
  <2>2. cache[h] \cap pool = {} /\ s \notin pool
    BY <1>4 DEF SpanInOnePlace, TypeOK
  <2>3. cache'[h] \cap pool = {} /\ cache'[h] \cap (pool' \ pool) = {}
    BY <2>1, <2>2, CacheInsertType
  <2>. QED BY <2>1, <2>3, CacheInsertType
<1>18. HeapInv'
  BY <1>17 DEF HeapInv
<1>19. PartialUseful'
  <2>1. ASSUME NEW g \in Heap, NEW x \in partial_span'[g]
        PROVE  \/ free_list'[x] # {} \/ free_list_limit'[x] < BlockCount
               \/ \E u \in Thread : pc'[u] \in {"extract", "merge"} /\ reg'[u].span = x
    <3>1. x \in partial_span[g]
      BY <1>9
    <3>2. \/ free_list[x] # {} \/ free_list_limit[x] < BlockCount
          \/ \E u \in Thread \ {t} : pc[u] \in {"extract", "merge"} /\ reg[u].span = x
      BY <3>1 DEF PartialUseful
    <3>. QED BY <1>7, <3>2
  <2>. QED BY <2>1 DEF PartialUseful
<1>20. DeferredListExclusive'
  <2>1. ASSUME NEW x \in Span PROVE DeferredListExclusive!(x)'
    <3>1. DeferredListExclusive!(x)
      BY DEF DeferredListExclusive
    <3>2. CASE x = s /\ pc[t] = "unsync"
      <4>1. \A u \in Thread : ~Holding(u, s)'
        BY <1>11, <1>12 DEF Holding
      <4>2. free_list_deferred'[s] # INVALID
        BY <1>8, <1>10, <3>2 DEF TypeOK
      <4>. QED BY <3>2, <4>1, <4>2
    <3>3. CASE x # s \/ pc[t] = "release"
      <4>1. free_list_deferred'[x] = free_list_deferred[x] /\ ~Holding(t, x)
        BY <1>3, <1>8, <3>3 DEF Holding, TypeOK
      <4>. QED BY <1>12, <3>1, <4>1
    <3>. QED BY <3>2, <3>3
  <2>. QED BY <2>1 DEF DeferredListExclusive
<1>21. IsIdle(s)' /\ \A x \in Span \ {s} : IsIdle(x)' <=> IsIdle(x)
  <2>1. IsIdle(s)'
    BY <1>17 DEF IsIdle
  <2>2. \A x \in Span \ {s} : IsIdle(x)' => IsIdle(x)
    BY <1>12, <1>17 DEF IsIdle
  <2>3. \A x \in Span \ {s}, g \in Heap :
          x \in cache[g] \cup span_free_deferred[g] => IsIdle(x)'
    BY <1>17 DEF IsIdle
  <2>4. \A x \in Span : x \in pool => IsIdle(x)'
    BY <1>17 DEF IsIdle
  <2>5. \A x \in Span \ {s}, u \in Thread : PushedBy(u, x) => IsIdle(x)'
    BY <1>12 DEF IsIdle
  <2>. QED BY <2>1, <2>2, <2>3, <2>4, <2>5 DEF IsIdle
<1>22. IdleSpansUntouched'
  <2>1. \A u \in Thread : reg'[u].span # s
    BY <1>7, <1>11
  <2>2. IdleSpansUntouched!(s)'
    BY <1>5, <1>13, <2>1
  <2>3. ASSUME NEW x \in Span \ {s} PROVE IdleSpansUntouched!(x)'
    <3>1. IdleSpansUntouched!(x)
      BY DEF IdleSpansUntouched
    <3>2. \A u \in Thread : reg'[u].span = x => reg[u].span = x
      BY <1>7
    <3>. QED BY <1>12, <1>13, <1>21, <3>1, <3>2
  <2>. QED BY <2>2, <2>3 DEF IdleSpansUntouched
<1>23. UnlistedFull'
  <2>1. ASSUME NEW x \in Active', ~IsPartial(x)'
        PROVE  FullyUtilized(free_list'[x], free_list_limit'[x])
    <3>1. x \in Span /\ x # s /\ x \in Active
      BY <1>21, <2>1 DEF Active
    <3>2. ~IsPartial(x)
      BY <1>9, <2>1, <3>1 DEF IsPartial
    <3>. QED BY <3>1, <3>2 DEF UnlistedFull
  <2>. QED BY <2>1 DEF UnlistedFull
<1>24. SpanInOnePlace'
  <2>1. ASSUME NEW x \in Span, NEW g \in Heap
        PROVE  SpanInOnePlace!(x)!1!(g)'
    <3>1. SpanInOnePlace!(x)!1!(g) /\ SpanInOnePlace!(x)!1!(h)
          /\ SpanInOnePlace!(s)!1!(h) /\ SpanInOnePlace!(s)!1!(g)
      BY DEF SpanInOnePlace
    <3>2. CASE x = s
      <4>1. s \notin partial_span'[g]
        BY <1>4, <1>9, <3>1
      <4>2. s \in cache'[g] => g = h /\ s \notin pool'
        BY <1>4, <1>17, <3>1
      <4>3. s \notin span_free_deferred'[g]
        BY <1>6 DEF IsIdle
      <4>. QED BY <1>4, <3>2, <4>1, <4>2, <4>3
    <3>3. CASE x # s /\ g = h
      BY <1>4, <1>9, <1>17, <3>1, <3>3
    <3>4. CASE x # s /\ g # h
      BY <1>4, <1>9, <1>17, <3>1, <3>4
    <3>. QED BY <3>2, <3>3, <3>4
  <2>2. ASSUME NEW x \in Span, NEW u \in Thread, PushedBy(u, x)'
        PROVE  SpanInOnePlace!(x)!2!(u)!2'
    <3>1. PushedBy(u, x) /\ x # s
      BY <1>6, <1>12, <2>2 DEF IsIdle
    <3>2. SpanInOnePlace!(x)!2!(u)!2
      BY <3>1 DEF SpanInOnePlace
    <3>3. heap[x] = h \/ heap[x] \in Heap \ {h}
      BY <3>2
    <3>4. x \notin cache[h]
      BY <3>2 DEF SpanInOnePlace
    <3>. QED BY <1>9, <1>12, <1>17, <3>1, <3>2, <3>3, <3>4
  <2>. QED BY <2>1, <2>2 DEF SpanInOnePlace
<1>. QED BY <1>1, <1>14, <1>15, <1>16, <1>18, <1>19, <1>20, <1>22, <1>23, <1>24

\* The owner takes the deferred blocks over as the span's free list
LEMMA MergeStep ==
  ASSUME IInv, NEW t \in Thread, MergeDeferred(t)
  PROVE  IInv'
<1>. USE DEF IInv
<1>1. TypeOK'
  BY MergeType
<1>2. /\ pc[t] = "merge"
      /\ UNCHANGED <<heapVars, class_free_list, storeVars, heap, free_list_limit>>
  BY DEF MergeDeferred
<1>. USE <1>2 DEF heapVars, storeVars
<1>3. PICK s \in Span : s = reg[t].span
  BY DEF ThreadInv, TypeOK, Reg
<1>4. PICK h \in Heap : /\ heap[s] = h /\ owner_thread[h] = t
                        /\ s \in partial_span[h] /\ free_list[s] = {}
  BY <1>3 DEF ThreadInv, Owning
<1>5. PICK b \in Block : b = reg[t].block /\ <<s, b>> \in Cell
  BY <1>3 DEF ThreadInv, Carrying, Cell
<1>6. ~IsIdle(s) /\ \A u \in Thread \ {t} : reg[u].span = s => pc[u] \notin Owning
  BY <1>3, <1>4, PartialFacts DEF ThreadInv
<1>7. /\ Holding(t, s) /\ free_list_deferred[s] = INVALID
      /\ \A u \in Thread \ {t} : ~Holding(u, s)
  BY <1>3 DEF Holding, DeferredListExclusive
<1>8. PICK D \in SUBSET Block : D = reg[t].list /\ D = InDeferred(s)
  <2>1. reg[t].list \in SUBSET Block
    BY DEF TypeOK, Reg
  <2>2. reg[t].list = InDeferred(s)
    BY <1>7, <2>1 DEF InDeferred
  <2>. QED BY <2>1, <2>2
<1>9. /\ free_list' = [free_list EXCEPT ![s] = D]
      /\ used_count' = [used_count EXCEPT ![s] = @ - list_size[s]]
      /\ list_size' = [list_size EXCEPT ![s] = 0]
      /\ free_list_deferred' = [free_list_deferred EXCEPT ![s] = {}]
      /\ FinishFallback(t, h, s, b, D, free_list_limit[s])
  BY <1>3, <1>4, <1>5, <1>8 DEF MergeDeferred
<1>10. /\ free_list'[s] = D /\ list_size'[s] = 0 /\ free_list_deferred'[s] = {}
       /\ used_count'[s] = used_count[s] - list_size[s]
       /\ \A x \in Span \ {s} :
            /\ free_list'[x] = free_list[x] /\ list_size'[x] = list_size[x]
            /\ free_list_deferred'[x] = free_list_deferred[x]
            /\ used_count'[x] = used_count[x]
  BY <1>9 DEF TypeOK
<1>11. /\ pc'[t] = "idle" /\ reg'[t].span = None /\ None \notin Span
       /\ \A u \in Thread \ {t} : pc'[u] = pc[u] /\ reg'[u] = reg[u]
       /\ allocated' = allocated \cup {<<s, b>>}
  BY <1>9, SpanParams DEF FinishFallback, Return, Goto, NoReg, TypeOK
<1>12. /\ \A g \in Heap \ {h} : partial_span'[g] = partial_span[g]
       /\ \/ partial_span'[h] = partial_span[h]
             /\ ~FullyUtilized(D, free_list_limit[s])
          \/ partial_span'[h] = partial_span[h] \ {s}
             /\ FullyUtilized(D, free_list_limit[s])
  BY <1>9 DEF FinishFallback, TypeOK
<1>13. \A u \in Thread, x \in Span :
         /\ Holding(u, x)' <=> Holding(u, x) /\ u # t
         /\ PushedBy(u, x)' <=> PushedBy(u, x)
  BY <1>11 DEF Holding, PushedBy
<1>14. /\ Allocated(s)' = Allocated(s) \cup {b}
       /\ InFlight(s)' = InFlight(s) \ {b} /\ b \in InFlight(s)
       /\ InClass(s)' = InClass(s) /\ InDeferred(s)' = {}
  <2>1. Allocated(s)' = Allocated(s) \cup {b}
    BY <1>11 DEF Allocated
  <2>2. InClass(s)' = InClass(s)
    BY DEF InClass
  <2>3. InDeferred(s)' = {}
    BY <1>7, <1>10, <1>13 DEF InDeferred
  <2>4. b \in InFlight(s)
    BY <1>3, <1>5 DEF InFlight, Carrying
  <2>5. \A u \in Thread \ {t} :
          pc[u] \in Carrying /\ reg[u].span = s => reg[u].block # b
    BY <1>3, <1>5 DEF CarryDistinct, Carrying
  <2>6. InFlight(s)' = InFlight(s) \ {b}
    BY <1>3, <1>5, <1>11, <2>5 DEF InFlight, Carrying
  <2>. QED BY <2>1, <2>2, <2>3, <2>4, <2>6
<1>15. \A x \in Span \ {s} :
         /\ Allocated(x)' = Allocated(x) /\ InFlight(x)' = InFlight(x)
         /\ InClass(x)' = InClass(x) /\ InDeferred(x)' = InDeferred(x)
  <2>1. \A x \in Span \ {s} : Allocated(x)' = Allocated(x) /\ InClass(x)' = InClass(x)
    BY <1>11 DEF Allocated, InClass
  <2>2. \A x \in Span \ {s} : InFlight(x)' = InFlight(x)
    BY <1>3, <1>11 DEF InFlight, Carrying
  <2>3. \A x \in Span \ {s} : InDeferred(x)' = InDeferred(x)
    <3>1. \A u \in Thread, x \in Span \ {s} : Holding(u, x)' <=> Holding(u, x)
      BY <1>3, <1>13 DEF Holding
    <3>2. \A u \in Thread, x \in Span \ {s} : Holding(u, x) => reg'[u] = reg[u]
      BY <1>3, <1>11 DEF Holding
    <3>. QED BY <1>10, <3>1, <3>2 DEF InDeferred
  <2>. QED BY <2>1, <2>2, <2>3
<1>16. NoBlockInTwoPlaces' /\ NoBlockLost'
  <2>1. NoBlockInTwoPlaces!(s) /\ NoBlockLost!(s)
    BY DEF NoBlockInTwoPlaces, NoBlockLost
  <2>2. NoBlockInTwoPlaces!(s)' /\ NoBlockLost!(s)'
    BY <1>4, <1>8, <1>10, <1>14, <2>1
  <2>3. \A x \in Span \ {s} : NoBlockInTwoPlaces!(x)' /\ NoBlockLost!(x)'
    BY <1>10, <1>15 DEF NoBlockInTwoPlaces, NoBlockLost
  <2>. QED BY <2>2, <2>3 DEF NoBlockInTwoPlaces, NoBlockLost
<1>17. CountersExact'
  <2>1. list_size[s] = Cardinality(D) /\ used_count[s] = free_list_limit[s]
    <3>1. CountersExact!(s)
      BY DEF CountersExact
    <3>2. used_count[s] \in Int /\ free_list_limit[s] \in Int
      BY SpanParams DEF TypeOK
    <3>. QED BY <1>4, <1>8, <3>1, <3>2, FS_EmptySet
  <2>2. Cardinality(D) \in Int /\ free_list_limit[s] \in Int
    BY BlockFinite, SpanParams DEF TypeOK
  <2>3. CountersExact!(s)'
    BY <1>10, <1>14, <2>1, <2>2, FS_EmptySet
  <2>4. \A x \in Span \ {s} : CountersExact!(x)'
    BY <1>10, <1>15 DEF CountersExact
  <2>. QED BY <2>3, <2>4 DEF CountersExact
<1>18. \A g \in Heap, x \in Span \ {s} : x \in partial_span'[g] <=> x \in partial_span[g]
  BY <1>12
<1>19. ThreadInv'
  <2>1. ASSUME NEW u \in Thread PROVE ThreadInv!(u)'
    <3>1. CASE u = t
      BY <1>11, <3>1 DEF Owning, Carrying
    <3>2. CASE u # t
      <4>1. ThreadInv!(u)
        BY DEF ThreadInv
      <4>2. reg[u].span # None => reg[u].span \in Span
        BY DEF TypeOK, Reg
      <4>3. CASE reg[u].span = s
        BY <1>6, <1>11, <3>2, <4>1, <4>2, <4>3 DEF Owning, Carrying
      <4>4. CASE reg[u].span # s
        BY <1>10, <1>11, <1>15, <1>18, <3>2, <4>1, <4>2, <4>4 DEF Owning
      <4>. QED BY <4>3, <4>4
    <3>. QED BY <3>1, <3>2
  <2>. QED BY <2>1 DEF ThreadInv
<1>20. CarryDistinct' /\ HeapInv'
  <2>1. CarryDistinct'
    BY <1>11 DEF CarryDistinct, Carrying
  <2>2. HeapInv'
    BY DEF HeapInv
  <2>. QED BY <2>1, <2>2
<1>21. DeferredListExclusive'
  <2>1. {} # INVALID
    BY SpanParams
  <2>2. DeferredListExclusive!(s)'
    BY <1>7, <1>10, <1>13, <2>1
  <2>3. ASSUME NEW x \in Span \ {s} PROVE DeferredListExclusive!(x)'
    <3>1. DeferredListExclusive!(x)
      BY DEF DeferredListExclusive
    <3>2. ~Holding(t, x)
      BY <1>3 DEF Holding
    <3>. QED BY <1>10, <1>13, <3>1, <3>2
  <2>. QED BY <2>2, <2>3 DEF DeferredListExclusive
<1>22. PartialUseful'
  <2>1. ASSUME NEW g \in Heap, NEW x \in partial_span'[g]
        PROVE  \/ free_list'[x] # {} \/ free_list_limit'[x] < BlockCount
               \/ \E u \in Thread : pc'[u] \in {"extract", "merge"} /\ reg'[u].span = x
    <3>1. x \in Span
      BY <1>1 DEF TypeOK
    <3>2. CASE x = s
      <4>1. ~FullyUtilized(D, free_list_limit[s])
        <5>1. g = h
          BY <1>12, <2>1, <3>2, PartialFacts, <1>4
        <5>. QED BY <1>12, <2>1, <3>2, <5>1
      <4>2. free_list_limit[s] \in Int
        BY SpanParams DEF TypeOK
      <4>. QED BY <1>10, <3>2, <4>1, <4>2, SpanParams DEF FullyUtilized
    <3>3. CASE x # s
      <4>1. x \in partial_span[g]
        BY <1>18, <3>1, <3>3
      <4>2. \/ free_list[x] # {} \/ free_list_limit[x] < BlockCount
            \/ \E u \in Thread \ {t} : pc[u] \in {"extract", "merge"} /\ reg[u].span = x
        BY <1>3, <3>3, <4>1 DEF PartialUseful
      <4>. QED BY <1>10, <1>11, <3>1, <3>3, <4>2
    <3>. QED BY <3>2, <3>3
  <2>. QED BY <2>1 DEF PartialUseful
<1>23. \A x \in Span : IsIdle(x)' <=> IsIdle(x)
  BY <1>13 DEF IsIdle
<1>24. UnlistedFull'
  <2>1. ASSUME NEW x \in Active', ~IsPartial(x)'
        PROVE  FullyUtilized(free_list'[x], free_list_limit'[x])
    <3>1. x \in Span /\ x \in Active
      BY <1>23, <2>1 DEF Active
    <3>2. CASE x = s
      BY <1>4, <1>10, <1>12, <2>1, <3>2 DEF IsPartial
    <3>3. CASE x # s
      BY <1>10, <1>18, <2>1, <3>1, <3>3 DEF IsPartial, UnlistedFull
    <3>. QED BY <3>2, <3>3
  <2>. QED BY <2>1 DEF UnlistedFull
<1>25. IdleSpansUntouched'
  <2>1. ASSUME NEW x \in Span, IsIdle(x) PROVE IdleSpansUntouched!(x)!2'
    <3>1. IdleSpansUntouched!(x)!2 /\ x # s
      BY <1>6, <2>1 DEF IdleSpansUntouched
    <3>2. \A u \in Thread : reg'[u].span = x => reg[u].span = x
      BY <1>11
    <3>. QED BY <1>13, <1>15, <3>1, <3>2
  <2>. QED BY <1>23, <2>1 DEF IdleSpansUntouched
<1>26. SpanInOnePlace'
  <2>1. \A g \in Heap : partial_span'[g] \subseteq partial_span[g]
    BY <1>12
  <2>. QED BY <1>13, <2>1 DEF SpanInOnePlace
<1>. QED BY <1>1, <1>16, <1>17, <1>19, <1>20, <1>21, <1>22, <1>24, <1>25, <1>26

---------------------------------------------------------------------------
(* Free by another thread *)

\* Another thread starts to free a block: the block leaves the program
LEMMA FreeStep ==
  ASSUME IInv, NEW t \in Thread, DeallocateDeferred(t)
  PROVE  IInv'
<1>. USE DEF IInv
<1>1. TypeOK'
  BY RemoteFreeType
<1>2. /\ pc[t] = "idle"
      /\ UNCHANGED <<heapVars, classVars, storeVars, ownVars, sharedVars>>
  BY DEF DeallocateDeferred
<1>. USE <1>2 DEF heapVars, classVars, storeVars, ownVars, sharedVars
<1>3. PICK c \in allocated : DeallocateDeferred(t)!2!(c)
  BY DEF DeallocateDeferred
<1>4. PICK s \in Span, b \in Block : c = <<s, b>> /\ <<s, b>> \in allocated
  <2>1. c \in Span \X Block
    BY DEF TypeOK, Cell
  <2>2. PICK s \in Span, b \in Block : c = <<s, b>>
    BY <2>1
  <2>. QED BY <2>2
<1>5. /\ pc'[t] = "defer" /\ reg'[t].span = s /\ reg'[t].block = b
      /\ reg'[t].list = {} /\ allocated' = allocated \ {<<s, b>>}
      /\ \A u \in Thread \ {t} : pc'[u] = pc[u] /\ reg'[u] = reg[u]
  <2>1. c[1] = s /\ c[2] = b
    BY <1>4
  <2>. QED BY <1>3, <1>4, <2>1 DEF Goto, Local, TypeOK
<1>6. b \in Allocated(s) /\ reg[t].span = None /\ None \notin Span
  BY <1>4, SpanParams DEF Allocated, ThreadInv
<1>7. ~IsIdle(s)
  BY <1>6 DEF IdleSpansUntouched
<1>8. \A u \in Thread, x \in Span :
        /\ Holding(u, x)' <=> Holding(u, x)
        /\ PushedBy(u, x)' <=> PushedBy(u, x)
  BY <1>5, <1>6 DEF Holding, PushedBy
<1>9. /\ Allocated(s)' = Allocated(s) \ {b}
      /\ InFlight(s)' = InFlight(s) \cup {b}
      /\ \A x \in Span \ {s} : /\ Allocated(x)' = Allocated(x)
                               /\ InFlight(x)' = InFlight(x)
      /\ \A x \in Span : InClass(x)' = InClass(x) /\ InDeferred(x)' = InDeferred(x)
  <2>1. /\ Allocated(s)' = Allocated(s) \ {b}
        /\ \A x \in Span \ {s} : Allocated(x)' = Allocated(x)
    BY <1>5 DEF Allocated
  <2>2. /\ InFlight(s)' = InFlight(s) \cup {b}
        /\ \A x \in Span \ {s} : InFlight(x)' = InFlight(x)
    BY <1>5, <1>6 DEF InFlight, Carrying
  <2>3. \A x \in Span : InClass(x)' = InClass(x)
    BY DEF InClass
  <2>4. \A x \in Span : InDeferred(x)' = InDeferred(x)
    BY <1>5, <1>6, <1>8 DEF InDeferred, Holding
  <2>. QED BY <2>1, <2>2, <2>3, <2>4
<1>10. NoBlockInTwoPlaces' /\ NoBlockLost' /\ CountersExact'
  <2>1. NoBlockInTwoPlaces!(s) /\ NoBlockLost!(s)
    BY DEF NoBlockInTwoPlaces, NoBlockLost
  <2>2. NoBlockInTwoPlaces!(s)' /\ NoBlockLost!(s)'
    BY <1>6, <1>9, <2>1
  <2>3. \A x \in Span \ {s} : NoBlockInTwoPlaces!(x)' /\ NoBlockLost!(x)'
    BY <1>9 DEF NoBlockInTwoPlaces, NoBlockLost
  <2>4. NoBlockInTwoPlaces' /\ NoBlockLost'
    BY <2>2, <2>3 DEF NoBlockInTwoPlaces, NoBlockLost
  <2>. QED BY <1>9, <2>4 DEF CountersExact
<1>11. ThreadInv'
  <2>1. ASSUME NEW u \in Thread PROVE ThreadInv!(u)'
    <3>1. CASE u = t
      BY <1>5, <1>6, <3>1 DEF Owning, Carrying
    <3>2. CASE u # t
      <4>1. ThreadInv!(u)
        BY DEF ThreadInv
      <4>2. reg[u].span # None => reg[u].span \in Span
        BY DEF TypeOK, Reg
      <4>3. CASE reg[u].span = s
        BY <1>5, <1>6, <3>2, <4>1, <4>3 DEF Owning, Carrying
      <4>4. CASE reg[u].span # s
        BY <1>5, <1>9, <3>2, <4>1, <4>2, <4>4 DEF Owning
      <4>. QED BY <4>3, <4>4
    <3>. QED BY <3>1, <3>2
  <2>. QED BY <2>1 DEF ThreadInv
<1>12. CarryDistinct'
  <2>1. b \notin InFlight(s)
    BY <1>6 DEF NoBlockInTwoPlaces
  <2>2. \A u \in Thread : pc[u] \in Carrying /\ reg[u].span = s => reg[u].block # b
    BY <2>1 DEF InFlight
  <2>3. ASSUME NEW u \in Thread, NEW v \in Thread,
               pc'[u] \in Carrying, pc'[v] \in Carrying,
               reg'[u].span = reg'[v].span, reg'[u].block = reg'[v].block
        PROVE  u = v
    <3>1. CASE u # t /\ v # t
      BY <1>5, <2>3, <3>1 DEF CarryDistinct
    <3>2. CASE u = t \/ v = t
      BY <1>5, <2>2, <2>3, <3>2
    <3>. QED BY <3>1, <3>2
  <2>. QED BY <2>3 DEF CarryDistinct
<1>13. HeapInv' /\ DeferredListExclusive' /\ PartialUseful'
  <2>1. HeapInv' /\ DeferredListExclusive'
    BY <1>8 DEF HeapInv, DeferredListExclusive
  <2>2. \A u \in Thread : pc[u] \in {"extract", "merge"} => pc'[u] = pc[u] /\ reg'[u] = reg[u]
    BY <1>5
  <2>3. PartialUseful'
    BY <2>2 DEF PartialUseful
  <2>. QED BY <2>1, <2>3
<1>14. \A x \in Span : IsIdle(x)' <=> IsIdle(x)
  BY <1>8 DEF IsIdle
<1>15. IdleSpansUntouched'
  <2>1. ASSUME NEW x \in Span, IsIdle(x) PROVE IdleSpansUntouched!(x)!2'
    <3>1. IdleSpansUntouched!(x)!2 /\ x # s
      BY <1>7, <2>1 DEF IdleSpansUntouched
    <3>2. \A u \in Thread : reg'[u].span = x => reg[u].span = x
      BY <1>5, <3>1
    <3>. QED BY <1>8, <1>9, <3>1, <3>2
  <2>. QED BY <1>14, <2>1 DEF IdleSpansUntouched
<1>16. SpanInOnePlace' /\ UnlistedFull'
  BY <1>8, <1>14 DEF SpanInOnePlace, UnlistedFull, Active, IsPartial
<1>. QED BY <1>1, <1>10, <1>11, <1>12, <1>13, <1>15, <1>16

\* The block joins the deferred list; if that list now holds every block, the
\* span is in no other list and no other thread is at work on it
LEMMA LinkStep ==
  ASSUME IInv, NEW t \in Thread, DeferLink(t)
  PROVE  IInv'
<1>. USE DEF IInv
<1>1. TypeOK'
  BY RemoteFreeType
<1>2. /\ pc[t] = "link"
      /\ UNCHANGED <<heapVars, classVars, storeVars, ownVars,
                     free_list_deferred, allocated>>
  BY DEF DeferLink
<1>. USE <1>2 DEF heapVars, classVars, storeVars, ownVars
<1>3. PICK s \in Span : s = reg[t].span
  BY DEF ThreadInv, TypeOK, Reg
<1>4. PICK b \in Block : b = reg[t].block
  BY DEF ThreadInv, Carrying
<1>5. /\ list_size'[s] = list_size[s] + 1
      /\ \A x \in Span \ {s} : list_size'[x] = list_size[x]
      /\ pc'[t] = IF list_size[s] + 1 = BlockCount THEN "publish_last" ELSE "publish"
      /\ reg'[t].span = s /\ reg'[t].block = 0
      /\ reg'[t].list = reg[t].list \cup {b}
      /\ \A u \in Thread \ {t} : pc'[u] = pc[u] /\ reg'[u] = reg[u]
  BY <1>3, <1>4 DEF DeferLink, Goto, Local, TypeOK
<1>6. /\ Holding(t, s) /\ \A u \in Thread \ {t} : ~Holding(u, s)
      /\ free_list_deferred[s] = INVALID
  BY <1>3 DEF Holding, DeferredListExclusive
<1>7. \A u \in Thread, x \in Span : Holding(u, x)' <=> Holding(u, x)
  BY <1>3, <1>5 DEF Holding
<1>8. ~IsIdle(s)
  BY <1>3 DEF IdleSpansUntouched, PushedBy
<1>9. /\ b \in InFlight(s) /\ InFlight(s)' = InFlight(s) \ {b}
      /\ InDeferred(s)' = InDeferred(s) \cup {b}
      /\ \A x \in Span \ {s} : /\ InFlight(x)' = InFlight(x)
                               /\ InDeferred(x)' = InDeferred(x)
      /\ \A x \in Span : Allocated(x)' = Allocated(x) /\ InClass(x)' = InClass(x)
  <2>1. b \in InFlight(s)
    BY <1>3, <1>4 DEF InFlight, Carrying
  <2>2. \A u \in Thread \ {t} :
          pc[u] \in Carrying /\ reg[u].span = s => reg[u].block # b
    BY <1>3, <1>4 DEF CarryDistinct, Carrying
  <2>3. pc'[t] \notin Carrying
    BY <1>5 DEF Carrying
  <2>4. InFlight(s)' = InFlight(s) \ {b}
    BY <1>3, <1>4, <1>5, <2>2, <2>3 DEF InFlight
  <2>5. \A x \in Span \ {s} : InFlight(x)' = InFlight(x)
    BY <1>3, <1>5, <2>3 DEF InFlight
  <2>6. InDeferred(s)' = InDeferred(s) \cup {b}
    BY <1>5, <1>6, <1>7 DEF InDeferred
  <2>7. \A x \in Span \ {s} : InDeferred(x)' = InDeferred(x)
    <3>1. \A u \in Thread, x \in Span \ {s} : Holding(u, x) => reg'[u] = reg[u]
      BY <1>3, <1>5 DEF Holding
    <3>. QED BY <1>7, <3>1 DEF InDeferred
  <2>8. \A x \in Span : Allocated(x)' = Allocated(x) /\ InClass(x)' = InClass(x)
    BY DEF Allocated, InClass
  <2>. QED BY <2>1, <2>4, <2>5, <2>6, <2>7, <2>8
<1>10. NoBlockInTwoPlaces' /\ NoBlockLost'
  <2>1. NoBlockInTwoPlaces!(s) /\ NoBlockLost!(s)
    BY DEF NoBlockInTwoPlaces, NoBlockLost
  <2>2. NoBlockInTwoPlaces!(s)' /\ NoBlockLost!(s)'
    BY <1>9, <2>1
  <2>3. \A x \in Span \ {s} : NoBlockInTwoPlaces!(x)' /\ NoBlockLost!(x)'
    BY <1>9 DEF NoBlockInTwoPlaces, NoBlockLost
  <2>. QED BY <2>2, <2>3 DEF NoBlockInTwoPlaces, NoBlockLost
<1>11. InDeferred(s) \in SUBSET Block /\ b \notin InDeferred(s)
  BY <1>9 DEF InDeferred, NoBlockInTwoPlaces
<1>12. CountersExact'
  <2>1. list_size'[s] = Cardinality(InDeferred(s)')
    <3>1. list_size[s] = Cardinality(InDeferred(s))
      BY DEF CountersExact
    <3>. QED BY <1>5, <1>9, <1>11, <3>1, AddBlock
  <2>2. CountersExact!(s)'
    BY <2>1 DEF CountersExact
  <2>3. \A x \in Span \ {s} : CountersExact!(x)'
    BY <1>5, <1>9 DEF CountersExact
  <2>. QED BY <2>2, <2>3 DEF CountersExact
\* No thread that owns the span is about to release it: a block is on its way
<1>13. \A u \in Thread : reg[u].span = s => pc[u] \notin {"sync", "unsync", "release"}
  BY <1>9 DEF ThreadInv
<1>14. ThreadInv'
  <2>1. ASSUME NEW u \in Thread PROVE ThreadInv!(u)'
    <3>1. CASE u = t
      BY <1>5, <3>1, SpanParams DEF Owning, Carrying
    <3>2. CASE u # t
      <4>1. ThreadInv!(u)
        BY DEF ThreadInv
      <4>2. reg[u].span # None => reg[u].span \in Span
        BY DEF TypeOK, Reg
      <4>3. CASE reg[u].span = s
        BY <1>5, <1>13, <3>2, <4>1, <4>3 DEF Owning, Carrying
      <4>4. CASE reg[u].span # s
        BY <1>5, <1>9, <3>2, <4>1, <4>2, <4>4 DEF Owning
      <4>. QED BY <4>3, <4>4
    <3>. QED BY <3>1, <3>2
  <2>. QED BY <2>1 DEF ThreadInv
<1>15. CarryDistinct' /\ HeapInv' /\ DeferredListExclusive' /\ PartialUseful'
  <2>1. CarryDistinct'
    BY <1>5 DEF CarryDistinct, Carrying
  <2>2. HeapInv' /\ DeferredListExclusive'
    BY <1>7 DEF HeapInv, DeferredListExclusive
  <2>3. \A u \in Thread : pc[u] \in {"extract", "merge"} => pc'[u] = pc[u] /\ reg'[u] = reg[u]
    BY <1>5
  <2>4. PartialUseful'
    BY <2>3 DEF PartialUseful
  <2>. QED BY <2>1, <2>2, <2>4
\* The last block: the others are all in the list, so the span is nowhere else
<1>16. ASSUME pc'[t] = "publish_last"
       PROVE  /\ Allocated(s)' = {} /\ InClass(s)' = {}
              /\ \A u \in Thread \ {t} : reg[u].span # s
              /\ \A g \in Heap : s \notin partial_span[g]
  <2>1. InDeferred(s)' = Block
    <3>1. Cardinality(InDeferred(s)') = BlockCount
      BY <1>5, <1>12, <1>16 DEF CountersExact
    <3>2. InDeferred(s)' \in SUBSET Block
      BY <1>9, <1>11
    <3>. QED BY <3>1, <3>2, AllBlocks
  <2>2. /\ Allocated(s)' \subseteq Block /\ InClass(s)' \subseteq Block
        /\ InFlight(s)' \subseteq Block /\ free_list'[s] \subseteq Block
    BY <1>1 DEF Allocated, InClass, InFlight, TypeOK
  <2>3. /\ Allocated(s)' = {} /\ InClass(s)' = {} /\ InFlight(s)' = {}
        /\ free_list'[s] = {}
    BY <1>10, <2>1, <2>2 DEF NoBlockInTwoPlaces
  <2>4. free_list_limit[s] = BlockCount
    <3>1. Block \subseteq 1..free_list_limit[s]
      BY <1>10, <2>1 DEF NoBlockLost
    <3>2. free_list_limit[s] \in 0..BlockCount /\ BlockCount \in Block
      BY SpanParams DEF TypeOK, Block
    <3>. QED BY <3>1, <3>2, SpanParams
  <2>5. ASSUME NEW u \in Thread \ {t}, reg[u].span = s PROVE FALSE
    <3>1. pc[u] \notin Carrying
      BY <1>5, <2>3, <2>5 DEF InFlight, ThreadInv
    <3>2. pc[u] \notin {"publish", "publish_last"}
      BY <1>6, <2>5 DEF Holding
    <3>3. pc[u] # "push"
      BY <1>8, <2>5 DEF IsIdle, PushedBy
    <3>4. pc[u] # "idle"
      BY <2>5, SpanParams DEF ThreadInv
    <3>. QED BY <1>13, <2>5, <3>1, <3>2, <3>3, <3>4 DEF TypeOK, PC, Carrying
  <2>6. ASSUME NEW g \in Heap, s \in partial_span[g] PROVE FALSE
    <3>1. PICK u \in Thread : pc[u] \in {"extract", "merge"} /\ reg[u].span = s
      BY <2>3, <2>4, <2>6, SpanParams DEF PartialUseful
    <3>. QED BY <2>5, <3>1
  <2>. QED BY <2>3, <2>5, <2>6
<1>17. \A u \in Thread, x \in Span :
         PushedBy(u, x)' <=> \/ PushedBy(u, x)
                             \/ u = t /\ x = s /\ pc'[t] = "publish_last"
  <2>1. \A x \in Span : ~PushedBy(t, x)
    BY DEF PushedBy
  <2>2. \A x \in Span : PushedBy(t, x)' <=> x = s /\ pc'[t] = "publish_last"
    BY <1>5 DEF PushedBy
  <2>3. \A u \in Thread \ {t}, x \in Span : PushedBy(u, x)' <=> PushedBy(u, x)
    BY <1>5 DEF PushedBy
  <2>. QED BY <2>1, <2>2, <2>3
<1>18. \A x \in Span :
         IsIdle(x)' <=> IsIdle(x) \/ (x = s /\ pc'[t] = "publish_last")
  <2>1. \A x \in Span : (\E u \in Thread : PushedBy(u, x)')
          <=> (\E u \in Thread : PushedBy(u, x)) \/ (x = s /\ pc'[t] = "publish_last")
    BY <1>17
  <2>2. \A x \in Span : IsIdle(x)' <=>
          \/ x \in pool \/ \E g \in Heap : x \in cache[g] \cup span_free_deferred[g]
          \/ \E u \in Thread : PushedBy(u, x)'
    BY DEF IsIdle
  <2>. QED BY <2>1, <2>2 DEF IsIdle
<1>19. IdleSpansUntouched'
  <2>1. ASSUME NEW x \in Span, IsIdle(x) PROVE IdleSpansUntouched!(x)!2'
    <3>1. IdleSpansUntouched!(x)!2 /\ x # s
      BY <1>8, <2>1 DEF IdleSpansUntouched
    <3>2. \A u \in Thread : reg'[u].span = x => reg[u].span = x
      BY <1>5, <3>1
    <3>. QED BY <1>9, <1>17, <3>1, <3>2
  <2>2. ASSUME pc'[t] = "publish_last" PROVE IdleSpansUntouched!(s)!2'
    <3>1. \A u \in Thread : reg'[u].span = s => u = t
      BY <1>5, <1>16, <2>2
    <3>. QED BY <1>16, <1>17, <2>2, <3>1
  <2>. QED BY <1>18, <2>1, <2>2 DEF IdleSpansUntouched
<1>20. SpanInOnePlace'
  <2>1. ASSUME NEW x \in Span, NEW u \in Thread, PushedBy(u, x)'
        PROVE  SpanInOnePlace!(x)!2!(u)!2'
    <3>1. CASE x # s
      <4>1. PushedBy(u, x) /\ \A v \in Thread : PushedBy(v, x)' <=> PushedBy(v, x)
        BY <1>17, <2>1, <3>1
      <4>2. SpanInOnePlace!(x)!2!(u)!2
        BY <4>1 DEF SpanInOnePlace
      <4>. QED BY <4>1, <4>2
    <3>2. CASE x = s
      <4>1. \A v \in Thread : ~PushedBy(v, s)
        BY <1>8 DEF IsIdle
      <4>2. u = t /\ pc'[t] = "publish_last" /\ \A v \in Thread \ {t} : ~PushedBy(v, s)'
        BY <1>17, <2>1, <3>2, <4>1
      <4>3. s \notin pool /\ heap[s] \in Heap
        BY <1>8 DEF IsIdle, HeapInv
      <4>4. s \notin cache[heap[s]] \cup span_free_deferred[heap[s]]
        BY <1>8, <4>3 DEF IsIdle
      <4>. QED BY <1>16, <3>2, <4>2, <4>3, <4>4
    <3>. QED BY <3>1, <3>2
  <2>2. ASSUME NEW x \in Span, NEW g \in Heap PROVE SpanInOnePlace!(x)!1!(g)'
    BY DEF SpanInOnePlace
  <2>. QED BY <2>1, <2>2 DEF SpanInOnePlace
<1>21. UnlistedFull'
  <2>1. \A x \in Active' : x \in Active
    BY <1>18 DEF Active
  <2>. QED BY <2>1 DEF UnlistedFull, IsPartial
<1>. QED BY <1>1, <1>10, <1>12, <1>14, <1>15, <1>19, <1>20, <1>21

\* Storing the deferred list back gives up the lock and moves no block
LEMMA PublishStep ==
  ASSUME IInv, NEW t \in Thread, DeferPublish(t)
  PROVE  IInv'
<1>. USE DEF IInv
<1>1. TypeOK'
  BY RemoteFreeType
<1>2. /\ pc[t] \in {"publish", "publish_last"}
      /\ UNCHANGED <<heapVars, classVars, storeVars, ownVars, list_size, allocated>>
  BY DEF DeferPublish
<1>. USE <1>2 DEF heapVars, classVars, storeVars, ownVars
<1>3. PICK s \in Span : s = reg[t].span
  BY DEF ThreadInv, TypeOK, Reg
<1>4. PICK D \in SUBSET Block : D = reg[t].list /\ D # INVALID
  BY SpanParams DEF TypeOK, Reg, Block
<1>5. /\ free_list_deferred'[s] = D
      /\ \A x \in Span \ {s} : free_list_deferred'[x] = free_list_deferred[x]
      /\ \/ /\ pc[t] = "publish" /\ pc'[t] = "idle" /\ reg'[t].span = None
         \/ pc[t] = "publish_last" /\ pc'[t] = "push" /\ reg'[t].span = s
      /\ \A u \in Thread \ {t} : pc'[u] = pc[u] /\ reg'[u] = reg[u]
      /\ None \notin Span
  BY <1>3, <1>4, SpanParams DEF DeferPublish, Goto, Local, NoReg, TypeOK
<1>6. /\ Holding(t, s) /\ \A u \in Thread \ {t} : ~Holding(u, s)
      /\ free_list_deferred[s] = INVALID
  BY <1>3 DEF Holding, DeferredListExclusive
<1>7. \A u \in Thread, x \in Span :
        /\ Holding(u, x)' <=> Holding(u, x) /\ u # t
        /\ PushedBy(u, x)' <=> PushedBy(u, x)
  BY <1>3, <1>5 DEF Holding, PushedBy
<1>8. SameBlocks
  <2>1. \A x \in Span : InFlight(x)' = InFlight(x)
    BY <1>5 DEF InFlight, Carrying
  <2>2. InDeferred(s)' = InDeferred(s)
    BY <1>4, <1>5, <1>6, <1>7 DEF InDeferred
  <2>3. \A x \in Span \ {s} : InDeferred(x)' = InDeferred(x)
    <3>1. \A u \in Thread, x \in Span \ {s} : Holding(u, x) => u # t
      BY <1>3 DEF Holding
    <3>. QED BY <1>5, <1>7, <3>1 DEF InDeferred
  <2>. QED BY <2>1, <2>2, <2>3 DEF SameBlocks, Allocated, InClass
<1>9. NoBlockInTwoPlaces' /\ NoBlockLost' /\ CountersExact'
  BY <1>8, SameBlocksKeep
<1>10. ThreadInv'
  <2>1. ASSUME NEW u \in Thread PROVE ThreadInv!(u)'
    <3>1. CASE u = t
      BY <1>5, <3>1 DEF Owning, Carrying
    <3>2. CASE u # t
      <4>1. ThreadInv!(u)
        BY DEF ThreadInv
      <4>2. reg[u].span # None => reg[u].span \in Span
        BY DEF TypeOK, Reg
      <4>. QED BY <1>5, <1>8, <3>2, <4>1, <4>2 DEF Owning, SameBlocks
    <3>. QED BY <3>1, <3>2
  <2>. QED BY <2>1 DEF ThreadInv
<1>11. CarryDistinct' /\ HeapInv' /\ PartialUseful'
  <2>1. CarryDistinct' /\ HeapInv'
    BY <1>5 DEF CarryDistinct, Carrying, HeapInv
  <2>2. \A u \in Thread : pc[u] \in {"extract", "merge"} => pc'[u] = pc[u] /\ reg'[u] = reg[u]
    BY <1>5
  <2>3. PartialUseful'
    BY <2>2 DEF PartialUseful
  <2>. QED BY <2>1, <2>3
<1>12. DeferredListExclusive'
  <2>1. DeferredListExclusive!(s)'
    BY <1>4, <1>5, <1>6, <1>7
  <2>2. ASSUME NEW x \in Span \ {s} PROVE DeferredListExclusive!(x)'
    <3>1. DeferredListExclusive!(x) /\ ~Holding(t, x)
      BY <1>3 DEF DeferredListExclusive, Holding
    <3>. QED BY <1>5, <1>7, <3>1
  <2>. QED BY <2>1, <2>2 DEF DeferredListExclusive
<1>13. \A x \in Span : IsIdle(x)' <=> IsIdle(x)
  BY <1>7 DEF IsIdle
<1>14. IdleSpansUntouched'
  <2>1. \A u \in Thread, x \in Span : reg'[u].span = x => reg[u].span = x
    BY <1>3, <1>5
  <2>. QED BY <1>7, <1>8, <1>13, <2>1 DEF IdleSpansUntouched, SameBlocks
<1>15. SpanInOnePlace' /\ UnlistedFull'
  BY <1>7, <1>13 DEF SpanInOnePlace, UnlistedFull, Active, IsPartial
<1>. QED BY <1>1, <1>9, <1>10, <1>11, <1>12, <1>14, <1>15

\* The span all of whose blocks were freed remotely joins the heap's deferred
\* spans, in which it was not
LEMMA PushStep ==
  ASSUME IInv, NEW t \in Thread, DeferPush(t)
  PROVE  IInv'
<1>. USE DEF IInv
<1>1. TypeOK'
  BY RemoteFreeType
<1>2. /\ pc[t] = "push"
      /\ UNCHANGED <<heapVars, classVars, cache, pool, ownVars, sharedVars, allocated>>
  BY DEF DeferPush
<1>. USE <1>2 DEF heapVars, classVars, ownVars, sharedVars
<1>3. PICK s \in Span : s = reg[t].span
  BY DEF ThreadInv, TypeOK, Reg
<1>4. PushedBy(t, s)
  BY <1>3 DEF PushedBy
<1>5. PICK h \in Heap :
        /\ heap[s] = h /\ s \notin pool
        /\ s \notin partial_span[h] \cup cache[h] \cup span_free_deferred[h]
        /\ \A u \in Thread \ {t} : ~PushedBy(u, s)
  BY <1>4 DEF SpanInOnePlace
<1>6. /\ span_free_deferred'[h] = span_free_deferred[h] \cup {s}
      /\ \A g \in Heap \ {h} : span_free_deferred'[g] = span_free_deferred[g]
      /\ pc'[t] = "idle" /\ reg'[t].span = None /\ None \notin Span
      /\ \A u \in Thread \ {t} : pc'[u] = pc[u] /\ reg'[u] = reg[u]
  BY <1>3, <1>5, SpanParams DEF DeferPush, Goto, NoReg, TypeOK
<1>7. \A u \in Thread, x \in Span :
        /\ Holding(u, x)' <=> Holding(u, x)
        /\ PushedBy(u, x)' <=> PushedBy(u, x) /\ u # t
  BY <1>3, <1>6 DEF Holding, PushedBy
<1>8. SameBlocks
  <2>1. \A x \in Span : InFlight(x)' = InFlight(x)
    BY <1>6 DEF InFlight, Carrying
  <2>2. \A u \in Thread, x \in Span : Holding(u, x) => reg'[u] = reg[u]
    BY <1>6 DEF Holding
  <2>3. \A x \in Span : InDeferred(x)' = InDeferred(x)
    BY <1>7, <2>2 DEF InDeferred
  <2>. QED BY <2>1, <2>3 DEF SameBlocks, Allocated, InClass
<1>9. NoBlockInTwoPlaces' /\ NoBlockLost' /\ CountersExact'
  BY <1>8, SameBlocksKeep
<1>10. ThreadInv'
  <2>1. ASSUME NEW u \in Thread PROVE ThreadInv!(u)'
    <3>1. CASE u = t
      BY <1>6, <3>1 DEF Owning, Carrying
    <3>2. CASE u # t
      <4>1. ThreadInv!(u)
        BY DEF ThreadInv
      <4>2. reg[u].span # None => reg[u].span \in Span
        BY DEF TypeOK, Reg
      <4>. QED BY <1>6, <1>8, <3>2, <4>1, <4>2 DEF Owning, SameBlocks
    <3>. QED BY <3>1, <3>2
  <2>. QED BY <2>1 DEF ThreadInv
<1>11. CarryDistinct' /\ HeapInv' /\ PartialUseful' /\ DeferredListExclusive'
  <2>1. CarryDistinct' /\ HeapInv' /\ DeferredListExclusive'
    BY <1>6, <1>7 DEF CarryDistinct, Carrying, HeapInv, DeferredListExclusive
  <2>2. \A u \in Thread : pc[u] \in {"extract", "merge"} => pc'[u] = pc[u] /\ reg'[u] = reg[u]
    BY <1>6
  <2>3. PartialUseful'
    BY <2>2 DEF PartialUseful
  <2>. QED BY <2>1, <2>3
<1>12. \A x \in Span : IsIdle(x)' <=> IsIdle(x)
  <2>1. IsIdle(s) /\ IsIdle(s)'
    BY <1>4, <1>6 DEF IsIdle
  <2>2. \A x \in Span \ {s} :
          /\ \A g \in Heap : x \in span_free_deferred'[g] <=> x \in span_free_deferred[g]
          /\ \A u \in Thread : PushedBy(u, x)' <=> PushedBy(u, x)
    BY <1>3, <1>6, <1>7 DEF PushedBy
  <2>3. \A x \in Span \ {s} : IsIdle(x)' <=> IsIdle(x)
    BY <2>2 DEF IsIdle
  <2>. QED BY <2>1, <2>3
<1>13. IdleSpansUntouched'
  <2>1. \A u \in Thread, x \in Span : reg'[u].span = x => u # t /\ reg[u].span = x
    BY <1>6
  <2>. QED BY <1>7, <1>8, <1>12, <2>1 DEF IdleSpansUntouched, SameBlocks
<1>14. UnlistedFull'
  BY <1>12 DEF UnlistedFull, Active, IsPartial
<1>15. SpanInOnePlace'
  <2>1. ASSUME NEW x \in Span, NEW g \in Heap
        PROVE  SpanInOnePlace!(x)!1!(g)'
    <3>1. SpanInOnePlace!(x)!1!(g)
      BY DEF SpanInOnePlace
    <3>2. CASE x = s /\ g = h
      BY <1>5, <1>6, <3>2
    <3>3. CASE x # s \/ g # h
      <4>1. x \in span_free_deferred'[g] <=> x \in span_free_deferred[g]
        BY <1>6, <3>3
      <4>. QED BY <3>1, <4>1
    <3>. QED BY <3>2, <3>3
  <2>2. ASSUME NEW x \in Span, NEW u \in Thread, PushedBy(u, x)'
        PROVE  SpanInOnePlace!(x)!2!(u)!2'
    <3>1. PushedBy(u, x) /\ u # t
      BY <1>7, <2>2
    <3>2. x # s
      BY <1>5, <3>1
    <3>3. SpanInOnePlace!(x)!2!(u)!2
      BY <3>1 DEF SpanInOnePlace
    <3>4. x \notin span_free_deferred'[heap[x]]
      BY <1>6, <3>2, <3>3
    <3>. QED BY <1>7, <3>3, <3>4
  <2>. QED BY <2>1, <2>2 DEF SpanInOnePlace
<1>. QED BY <1>1, <1>9, <1>10, <1>11, <1>13, <1>14, <1>15

---------------------------------------------------------------------------
(* The invariant *)

\* The invariant holds initially
LEMMA InitIInv == Init => IInv
<1>. SUFFICES ASSUME Init PROVE IInv
  OBVIOUS
<1>. USE DEF Init
<1>1. TypeOK
  BY InitTypeOK
<1>2. \A t \in Thread : pc[t] = "idle" /\ reg[t].span = None /\ None \notin Span
  BY SpanParams DEF NoReg
<1>3. \A s \in Span : /\ Allocated(s) = {} /\ InFlight(s) = {}
                      /\ InClass(s) = {} /\ InDeferred(s) = {}
                      /\ \A t \in Thread : ~Holding(t, s) /\ ~PushedBy(t, s)
  BY <1>2 DEF Allocated, InFlight, InClass, InDeferred, Carrying, Holding, PushedBy
<1>4. ThreadInv /\ CarryDistinct
  BY <1>2 DEF ThreadInv, CarryDistinct, Carrying, Owning
<1>5. HeapInv /\ PartialUseful
  BY DEF HeapInv, PartialUseful
<1>6. UnlistedFull
  BY DEF UnlistedFull, Active, IsIdle
<1>7. DeferredListExclusive
  <2>1. {} # INVALID
    BY SpanParams
  <2>. QED BY <1>3, <2>1 DEF DeferredListExclusive
<1>8. NoBlockInTwoPlaces /\ NoBlockLost
  BY <1>3 DEF NoBlockInTwoPlaces, NoBlockLost
<1>9. CountersExact
  <2>1. Cardinality({}) = 0 /\ 0 + 0 = 0
    BY FS_EmptySet
  <2>. QED BY <1>3, <2>1 DEF CountersExact
<1>10. IdleSpansUntouched /\ SpanInOnePlace
  BY <1>2, <1>3 DEF IdleSpansUntouched, SpanInOnePlace
<1>. QED BY <1>1, <1>4, <1>5, <1>6, <1>7, <1>8, <1>9, <1>10 DEF IInv

\* The invariant only looks at the variables
LEMMA StutterStep ==
  ASSUME IInv, UNCHANGED vars
  PROVE  IInv'
<1>. USE DEF IInv, vars, heapVars, classVars, storeVars, ownVars, sharedVars, threadVars
<1>1. SameBlocks
  BY DEF SameBlocks, Allocated, InFlight, InClass, InDeferred, Holding
<1>2. NoBlockInTwoPlaces' /\ NoBlockLost' /\ CountersExact'
  BY <1>1, SameBlocksKeep
<1>3. TypeOK' /\ CarryDistinct' /\ HeapInv' /\ PartialUseful'
  BY DEF TypeOK, CarryDistinct, HeapInv, PartialUseful
<1>4. ThreadInv'
  BY DEF ThreadInv, Allocated, InFlight, InClass
<1>5. UnlistedFull' /\ DeferredListExclusive'
  BY DEF UnlistedFull, Active, IsIdle, PushedBy, IsPartial, DeferredListExclusive, Holding
<1>6. IdleSpansUntouched' /\ SpanInOnePlace'
  BY DEF IdleSpansUntouched, SpanInOnePlace, IsIdle, PushedBy, Allocated, InClass
<1>. QED BY <1>2, <1>3, <1>4, <1>5, <1>6

\* Every step of every thread preserves the invariant
LEMMA NextStep ==
  ASSUME IInv, [Next]_vars
  PROVE  IInv'
<1>1. ASSUME NEW t \in Thread, NEW h \in Heap, Allocate(t, h) PROVE IInv'
  BY <1>1, FastStep, PartialStep, CacheStep, ElsewhereStep DEF Allocate
<1>2. ASSUME NEW t \in Thread, NEW h \in Heap, HeapRelease(t, h) PROVE IInv'
  BY <1>2, HandoverStep
<1>3. ASSUME NEW t \in Thread, HeapAllocate(t) PROVE IInv'
  <2>1. PICK h \in Heap : TRUE
    BY <1>3 DEF HeapAllocate, IInv, TypeOK
  <2>. QED BY <1>3, HandoverStep
<1>4. ASSUME NEW t \in Thread, DeallocateDirect(t) \/ DeallocateDeferred(t) PROVE IInv'
  BY <1>4, DirectStep, FreeStep
<1>5. ASSUME NEW t \in Thread, Continue(t) PROVE IInv'
  <2>1. CASE ExtractDeferred(t) \/ SyncDeferred(t) \/ DeferLock(t)
    BY <2>1, TakeStep DEF ExtractDeferred, SyncDeferred, DeferLock, TakeLabels
  <2>2. CASE MergeDeferred(t) \/ ReleaseToCache(t)
    BY <2>2, MergeStep, ReleaseStep
  <2>3. CASE DeferLink(t) \/ DeferPublish(t) \/ DeferPush(t)
    BY <2>3, LinkStep, PublishStep, PushStep
  <2>. QED BY <1>5, <2>1, <2>2, <2>3 DEF Continue
<1>6. CASE UNCHANGED vars
  BY <1>6, StutterStep
<1>. QED BY <1>1, <1>2, <1>3, <1>4, <1>5, <1>6 DEF Next

\* The inductive invariant holds of every reachable state
THEOREM Invariance == Spec => []IInv
BY InitIInv, NextStep, PTL DEF Spec

\* Every variable keeps its type
THEOREM TypeCorrect == Spec => []TypeOK
BY Invariance, PTL DEF IInv

\* No interleaving of the owner's and the remote frees makes a block free
\* twice, hands a free block out, or loses one
THEOREM BlocksAccounted == Spec => []BlocksInOnePlace
BY Invariance, PTL DEF IInv, BlocksInOnePlace

\* The two counters the release decision compares are exact, although one is
\* read without synchronisation
THEOREM CountersAreExact == Spec => []CountersExact
BY Invariance, PTL DEF IInv

\* So the decision is right: a span that went back is used by nobody
THEOREM ReleaseSafe == Spec => []IdleSpansUntouched
BY Invariance, PTL DEF IInv

\* Between an exchange with INVALID_POINTER and the store that follows it, one
\* thread alone has the deferred list
THEOREM DeferredLock == Spec => []DeferredListExclusive
BY Invariance, PTL DEF IInv

---------------------------------------------------------------------------
(* When a span becomes idle, and when it is used again *)

\* Steps that leave every span as it was, in use or idle
IdleKept == \A x \in Span : IsIdle(x)' <=> IsIdle(x)

\* Span s is taken into use by heap h, the others are left alone
Claimed(h, s) ==
  /\ IsIdle(s) /\ ~IsIdle(s)'
  /\ \A x \in Span \ {s} : (IsIdle(x)' <=> IsIdle(x)) /\ heap'[x] = heap[x]
  /\ heap'[s] = h /\ list_size'[s] = 0
  /\ \A x \in Span \ {s} : list_size'[x] = list_size[x]
  /\ allocated' = allocated \cup {<<s, 1>>}

\* Span s was in use and is idle
GivenUp(s) ==
  /\ ~IsIdle(s) /\ IsIdle(s)'
  /\ \A x \in Span \ {s} : IsIdle(x)' <=> IsIdle(x)
  /\ UNCHANGED <<allocated, heap>>

\* A heap that changes hands moves idle spans about, and no others
LEMMA HandoverIdle ==
  ASSUME IInv, NEW t \in Thread, HeapAllocate(t) \/ \E h \in Heap : HeapRelease(t, h)
  PROVE  IdleKept
<1>. USE DEF IInv
<1>1. PICK g \in Heap :
        /\ span_free_deferred' = [span_free_deferred EXCEPT ![g] = {}]
        /\ \E kept \in SUBSET (cache[g] \cup span_free_deferred[g]) :
             /\ cache' = [cache EXCEPT ![g] = kept]
             /\ pool' = pool \cup ((cache[g] \cup span_free_deferred[g]) \ kept)
  <2>1. CASE HeapAllocate(t)
    <3>1. PICK g \in Heap : AdoptDeferred(g)
      BY <2>1 DEF HeapAllocate, TypeOK
    <3>. QED BY <3>1 DEF AdoptDeferred, CacheInsert, Keep
  <2>2. CASE \E h \in Heap : HeapRelease(t, h)
    BY <2>2 DEF HeapRelease, CacheInsert, Keep
  <2>. QED BY <2>1, <2>2
<1>2. UNCHANGED <<pc, reg>>
  BY DEF HeapAllocate, HeapRelease, threadVars
<1>3. \A x \in Span, u \in Thread : PushedBy(u, x)' <=> PushedBy(u, x)
  BY <1>2 DEF PushedBy
<1>. QED BY <1>1, <1>3 DEF IdleKept, IsIdle, TypeOK

\* malloc from the size class or a partial span, the two frees, and the steps
\* of a thread before the last one it takes
LEMMA QuietIdle ==
  ASSUME IInv, NEW t \in Thread,
         \/ \E h \in Heap : AllocateFast(t, h) \/ AllocateFromPartial(t, h)
         \/ ExtractDeferred(t) \/ MergeDeferred(t) \/ DeallocateDirect(t) \/ SyncDeferred(t)
         \/ DeallocateDeferred(t) \/ DeferLock(t)
  PROVE  IdleKept
<1>. USE DEF IInv
<1>1. UNCHANGED <<span_free_deferred, cache, pool>>
  BY DEF AllocateFast, AllocateFromPartial, ExtractDeferred, MergeDeferred, DeallocateDirect,
         SyncDeferred, DeallocateDeferred, DeferLock, TakeDeferred, storeVars
<1>2. /\ pc[t] \in {"idle", "extract", "merge", "sync", "defer"}
      /\ pc'[t] \in {"idle", "extract", "merge", "sync", "release", "unsync", "defer", "link"}
      /\ \A u \in Thread \ {t} : pc'[u] = pc[u] /\ reg'[u] = reg[u]
  BY DEF AllocateFast, AllocateFromPartial, ExtractDeferred, MergeDeferred, DeallocateDirect,
         SyncDeferred, DeallocateDeferred, DeferLock, TakeDeferred, FinishFallback, Return,
         Goto, TypeOK
<1>3. \A x \in Span, u \in Thread : PushedBy(u, x)' <=> PushedBy(u, x)
  BY <1>2 DEF PushedBy
<1>. QED BY <1>1, <1>3 DEF IdleKept, IsIdle

\* Linking the last block of a span makes it idle; storing the list and pushing
\* the span to its heap leave it so
LEMMA LinkIdle ==
  ASSUME IInv, NEW t \in Thread, DeferLink(t)
  PROVE  \E s \in Span :
           /\ \A x \in Span \ {s} : list_size'[x] = list_size[x]
           /\ IF list_size'[s] = BlockCount THEN GivenUp(s) ELSE IdleKept
<1>. USE DEF IInv
<1>1. PICK s \in Span : s = reg[t].span
  BY DEF DeferLink, ThreadInv, TypeOK, Reg
<1>2. /\ UNCHANGED <<span_free_deferred, cache, pool, allocated, heap>>
      /\ pc[t] = "link" /\ reg'[t].span = s /\ list_size'[s] = list_size[s] + 1
      /\ \A x \in Span \ {s} : list_size'[x] = list_size[x]
      /\ pc'[t] = IF list_size'[s] = BlockCount THEN "publish_last" ELSE "publish"
      /\ \A u \in Thread \ {t} : pc'[u] = pc[u] /\ reg'[u] = reg[u]
  BY <1>1 DEF DeferLink, storeVars, ownVars, Goto, TypeOK, Local
<1>3. /\ ~PushedBy(t, s)
      /\ PushedBy(t, s)' <=> list_size'[s] = BlockCount
      /\ \A x \in Span \ {s} : ~PushedBy(t, x) /\ ~PushedBy(t, x)'
      /\ \A x \in Span, u \in Thread \ {t} : PushedBy(u, x)' <=> PushedBy(u, x)
  BY <1>1, <1>2 DEF PushedBy
<1>4. ~IsIdle(s)
  BY <1>1, <1>3 DEF IdleSpansUntouched
<1>5. IF list_size'[s] = BlockCount THEN GivenUp(s) ELSE IdleKept
  BY <1>1, <1>2, <1>3, <1>4 DEF GivenUp, IdleKept, IsIdle
<1>. QED BY <1>2, <1>5

LEMMA PublishIdle ==
  ASSUME IInv, NEW t \in Thread, DeferPublish(t) \/ DeferPush(t)
  PROVE  IdleKept
<1>. USE DEF IInv
<1>1. CASE DeferPublish(t)
  <2>1. PICK s \in Span : s = reg[t].span
    BY <1>1 DEF DeferPublish, ThreadInv, TypeOK, Reg
  <2>2. /\ UNCHANGED <<span_free_deferred, cache, pool>>
        /\ \/ pc[t] = "publish_last" /\ pc'[t] = "push" /\ reg'[t].span = s
           \/ pc[t] = "publish" /\ pc'[t] = "idle"
        /\ \A u \in Thread \ {t} : pc'[u] = pc[u] /\ reg'[u] = reg[u]
    BY <1>1, <2>1 DEF DeferPublish, storeVars, Goto, TypeOK, Local
  <2>3. \A x \in Span, u \in Thread : PushedBy(u, x)' <=> PushedBy(u, x)
    BY <2>1, <2>2 DEF PushedBy
  <2>. QED BY <2>2, <2>3 DEF IdleKept, IsIdle
<1>2. CASE DeferPush(t)
  <2>1. PICK s \in Span : s = reg[t].span
    BY <1>2 DEF DeferPush, ThreadInv, TypeOK, Reg
  <2>2. /\ pc[t] = "push" /\ pc'[t] = "idle"
        /\ \A u \in Thread \ {t} : pc'[u] = pc[u] /\ reg'[u] = reg[u]
        /\ span_free_deferred' = [span_free_deferred EXCEPT ![heap[s]] = @ \cup {s}]
        /\ UNCHANGED <<cache, pool>>
    BY <1>2, <2>1 DEF DeferPush, Goto, TypeOK
  <2>3. PushedBy(t, s) /\ heap[s] \in Heap
    BY <2>1, <2>2 DEF PushedBy, SpanInOnePlace
  <2>4. /\ \A x \in Span : ~PushedBy(t, x)'
        /\ \A x \in Span \ {s} : ~PushedBy(t, x)
        /\ \A x \in Span, u \in Thread \ {t} : PushedBy(u, x)' <=> PushedBy(u, x)
    BY <2>1, <2>2 DEF PushedBy
  <2>5. /\ s \in span_free_deferred'[heap[s]]
        /\ \A g \in Heap, x \in Span \ {s} :
             x \in span_free_deferred'[g] <=> x \in span_free_deferred[g]
    BY <2>2, <2>3 DEF TypeOK
  <2>6. IsIdle(s) /\ IsIdle(s)'
    BY <2>2, <2>3, <2>5 DEF IsIdle
  <2>. QED BY <2>2, <2>4, <2>5, <2>6 DEF IdleKept, IsIdle
<1>. QED BY <1>1, <1>2

\* The owner moves an empty span to its cache, or beyond
LEMMA ReleaseIdle ==
  ASSUME IInv, NEW t \in Thread, ReleaseToCache(t)
  PROVE  \E s \in Span : GivenUp(s)
<1>. USE DEF IInv
<1>1. PICK s \in Span : s = reg[t].span
  BY DEF ReleaseToCache, ThreadInv, TypeOK, Reg
<1>2. PICK h \in Heap : h = heap[s] /\ CacheInsert(h, {s})
  BY <1>1 DEF ReleaseToCache, ThreadInv, Owning
<1>3. /\ pc[t] \in {"unsync", "release"} /\ pc'[t] = "idle"
      /\ \A u \in Thread \ {t} : pc'[u] = pc[u] /\ reg'[u] = reg[u]
      /\ UNCHANGED <<span_free_deferred, heap, allocated>>
  BY DEF ReleaseToCache, Goto, TypeOK, ownVars
<1>4. \A x \in Span, u \in Thread : PushedBy(u, x)' <=> PushedBy(u, x)
  BY <1>3 DEF PushedBy
<1>5. ~IsIdle(s)
  BY <1>1, <1>3 DEF IdleSpansUntouched, PushedBy
<1>6. PICK kept \in SUBSET (cache[h] \cup {s}) :
        /\ cache' = [cache EXCEPT ![h] = kept]
        /\ pool' = pool \cup ((cache[h] \cup {s}) \ kept)
  BY <1>2 DEF CacheInsert, Keep
<1>7. IsIdle(s)'
  BY <1>6 DEF IsIdle, TypeOK
<1>8. ASSUME NEW x \in Span \ {s} PROVE IsIdle(x)' <=> IsIdle(x)
  BY <1>3, <1>4, <1>6 DEF IsIdle, TypeOK
<1>. QED BY <1>1, <1>3, <1>5, <1>7, <1>8 DEF GivenUp

\* A span from the cache, or from elsewhere, becomes the active span
LEMMA FreshIdle ==
  ASSUME IInv, NEW t \in Thread, NEW h \in Heap,
         AllocateFromCache(t, h) \/ AllocateFromElsewhere(t, h)
  PROVE  \E s \in Span : Claimed(h, s)
<1>. USE DEF IInv
<1>0. pc[t] = "idle"
  BY DEF AllocateFromCache, AllocateFromElsewhere
<1>1. PICK s \in Span, full \in Int :
        /\ s \in pool \cup cache[h] \cup span_free_deferred[h]
        /\ InitializeNew(h, s, full) /\ Return(t, <<s, 1>>)
        /\ s \notin pool' \cup cache'[h] \cup span_free_deferred'[h]
        /\ \A g \in Heap \ {h} : /\ cache'[g] = cache[g]
                                 /\ span_free_deferred'[g] = span_free_deferred[g]
        /\ (pool \cup cache[h] \cup span_free_deferred[h]) \ {s} =
             pool' \cup cache'[h] \cup span_free_deferred'[h]
  <2>1. CASE AllocateFromCache(t, h)
    <3>1. PICK s \in cache[h] : AllocateFromCache(t, h)!3!(s)
      BY <2>1 DEF AllocateFromCache
    <3>2. /\ s \in Span /\ full_span_count[h] \in Int
          /\ s \notin pool /\ s \notin span_free_deferred[h]
      BY DEF TypeOK, SpanInOnePlace
    <3>3. /\ cache'[h] = cache[h] \ {s} /\ \A g \in Heap \ {h} : cache'[g] = cache[g]
          /\ UNCHANGED <<span_free_deferred, pool>>
      BY <2>1, <3>1 DEF AllocateFromCache, TypeOK
    <3>. QED BY <3>1, <3>2, <3>3
  <2>2. CASE AllocateFromElsewhere(t, h)
    <3>1. PICK s \in IF span_free_deferred[h] # {} THEN span_free_deferred[h] ELSE pool :
            AllocateFromElsewhere(t, h)!3!(s)
      BY <2>2 DEF AllocateFromElsewhere
    <3>2. PICK kept \in Keep(span_free_deferred[h] \ {s}) :
            /\ cache' = [cache EXCEPT ![h] = kept]
            /\ pool' = (pool \cup (span_free_deferred[h] \ kept)) \ {s}
      BY <3>1
    <3>3. /\ kept \subseteq span_free_deferred[h] \ {s}
          /\ cache[h] = {}
          /\ span_free_deferred' = [span_free_deferred EXCEPT ![h] = {}]
          /\ full_span_count[h] - Cardinality(span_free_deferred[h]) \in Int
          /\ s \in Span
      BY <2>2, <3>1, <3>2, DeferredFinite DEF AllocateFromElsewhere, Keep, TypeOK
    <3>4. kept \cap pool = {}
      BY <3>3 DEF SpanInOnePlace, TypeOK
    <3>5. /\ cache'[h] = kept /\ span_free_deferred'[h] = {}
          /\ \A g \in Heap \ {h} : /\ cache'[g] = cache[g]
                                   /\ span_free_deferred'[g] = span_free_deferred[g]
      BY <3>2, <3>3 DEF TypeOK
    <3>. QED BY <3>1, <3>2, <3>3, <3>4, <3>5
  <2>. QED BY <2>1, <2>2
<1>2. /\ heap'[s] = h /\ list_size'[s] = 0
      /\ \A x \in Span \ {s} : heap'[x] = heap[x] /\ list_size'[x] = list_size[x]
  BY <1>1 DEF InitializeNew, TypeOK
<1>3. /\ allocated' = allocated \cup {<<s, 1>>}
      /\ \A x \in Span, u \in Thread : PushedBy(u, x)' <=> PushedBy(u, x)
  <2>1. <<s, 1>> \in Cell
    BY SpanParams DEF Cell, Block
  <2>. QED BY <1>0, <1>1, <2>1, ReturnIdle
<1>4. /\ \A u \in Thread : ~PushedBy(u, s)
      /\ \A g \in Heap \ {h} : s \notin cache[g] \cup span_free_deferred[g]
  BY <1>1, IdleFacts DEF PushedBy
<1>5. IsIdle(s) /\ ~IsIdle(s)'
  BY <1>1, <1>3, <1>4 DEF IsIdle
<1>6. ASSUME NEW x \in Span \ {s} PROVE IsIdle(x)' <=> IsIdle(x)
  <2>1. x \in pool \cup cache[h] \cup span_free_deferred[h] <=>
        x \in pool' \cup cache'[h] \cup span_free_deferred'[h]
    BY <1>1
  <2>. QED BY <1>1, <1>3, <2>1 DEF IsIdle
<1>. QED BY <1>2, <1>3, <1>5, <1>6 DEF Claimed

---------------------------------------------------------------------------
(* Full spans do not leak *)

\* A span whose blocks are all in the deferred list is on its way back or was
\* given back: the remote free that completed the list sees to it
Emptied == \A s \in Span : list_size[s] = BlockCount => IsIdle(s)

LEMMA EmptiedInit == Init => Emptied
BY SpanParams DEF Init, Emptied

LEMMA EmptiedNext ==
  ASSUME IInv, Emptied, [Next]_vars
  PROVE  Emptied'
<1>. USE DEF IInv
<1>0. 0 # BlockCount
  BY SpanParams
<1>1. CASE IdleKept /\ UNCHANGED list_size
  BY <1>1 DEF Emptied, IdleKept
<1>2. CASE \E s \in Span : GivenUp(s) /\ UNCHANGED list_size
  BY <1>2 DEF Emptied, GivenUp
<1>3. CASE \E h \in Heap, s \in Span : Claimed(h, s)
  BY <1>0, <1>3 DEF Emptied, Claimed
<1>4. ASSUME NEW t \in Thread, NEW h \in Heap, Allocate(t, h) PROVE Emptied'
  <2>1. CASE AllocateFast(t, h) \/ AllocateFromPartial(t, h)
    <3>1. UNCHANGED list_size
      BY <2>1 DEF AllocateFast, AllocateFromPartial, sharedVars
    <3>. QED BY <1>1, <2>1, <3>1, QuietIdle
  <2>. QED BY <1>3, <1>4, <2>1, FreshIdle DEF Allocate
<1>5. ASSUME NEW t \in Thread, HeapAllocate(t) \/ \E h \in Heap : HeapRelease(t, h)
      PROVE Emptied'
  <2>1. UNCHANGED list_size
    BY <1>5 DEF HeapRelease, HeapAllocate, sharedVars
  <2>. QED BY <1>1, <1>5, <2>1, HandoverIdle
<1>6. ASSUME NEW t \in Thread,
             \/ DeallocateDirect(t) \/ DeallocateDeferred(t)
             \/ ExtractDeferred(t) \/ SyncDeferred(t) \/ DeferLock(t)
      PROVE Emptied'
  <2>1. UNCHANGED list_size
    BY <1>6 DEF DeallocateDirect, DeallocateDeferred, ExtractDeferred, SyncDeferred,
                DeferLock, TakeDeferred, sharedVars
  <2>. QED BY <1>1, <1>6, <2>1, QuietIdle
<1>7. ASSUME NEW t \in Thread, MergeDeferred(t) PROVE Emptied'
  <2>1. \A x \in Span : list_size'[x] = list_size[x] \/ list_size'[x] = 0
    BY <1>7 DEF MergeDeferred, TypeOK
  <2>. QED BY <1>0, <1>7, <2>1, QuietIdle DEF Emptied, IdleKept
<1>8. ASSUME NEW t \in Thread, DeferLink(t) PROVE Emptied'
  BY <1>8, LinkIdle DEF Emptied, GivenUp, IdleKept
<1>9. ASSUME NEW t \in Thread, DeferPublish(t) \/ DeferPush(t) PROVE Emptied'
  <2>1. UNCHANGED list_size
    BY <1>9 DEF DeferPublish, DeferPush, sharedVars
  <2>. QED BY <1>1, <1>9, <2>1, PublishIdle
<1>10. ASSUME NEW t \in Thread, ReleaseToCache(t) PROVE Emptied'
  <2>1. UNCHANGED list_size
    BY <1>10 DEF ReleaseToCache
  <2>. QED BY <1>2, <1>10, <2>1, ReleaseIdle
<1>11. CASE UNCHANGED vars
  BY <1>11 DEF Emptied, IsIdle, PushedBy, vars, storeVars, sharedVars, threadVars
<1>12. ASSUME NEW t \in Thread, Continue(t) PROVE Emptied'
  BY <1>6, <1>7, <1>8, <1>9, <1>10, <1>12 DEF Continue
<1>. QED BY <1>4, <1>5, <1>6, <1>11, <1>12 DEF Next

\* A full span can always come back: some block of it is still to be freed, or
\* the last free is pushing it; and no span is in two places
THEOREM SpansAccounted == Spec => []SpansInOnePlace
<1>1. IInv /\ Emptied => FullSpansReachable
  <2>. SUFFICES ASSUME IInv, Emptied, NEW s \in Active, ~IsPartial(s),
                       Allocated(s) \cup InFlight(s) \cup InClass(s) = {}
                PROVE  FALSE
    BY DEF FullSpansReachable
  <2>. USE DEF IInv
  <2>1. s \in Span /\ ~IsIdle(s)
    BY DEF Active
  <2>2. free_list[s] = {} /\ free_list_limit[s] >= BlockCount
    BY DEF UnlistedFull, FullyUtilized
  <2>3. free_list_limit[s] = BlockCount
    BY <2>1, <2>2, SpanParams DEF TypeOK
  <2>4. InDeferred(s) = Block
    BY <2>1, <2>2, <2>3 DEF NoBlockLost, Block
  <2>5. list_size[s] = BlockCount
    BY <2>1, <2>4, BlockFinite DEF CountersExact
  <2>. QED BY <2>1, <2>5 DEF Emptied
<1>2. IInv /\ FullSpansReachable => SpansInOnePlace
  BY DEF IInv, SpansInOnePlace
<1>3. Init => Emptied
  BY EmptiedInit
<1>4. IInv /\ Emptied /\ [Next]_vars => Emptied'
  BY EmptiedNext
<1>. QED BY <1>1, <1>2, <1>3, <1>4, Invariance, PTL DEF Spec

---------------------------------------------------------------------------
(* full_span_count *)

\* The spans a heap counts as full
Full(h) ==
  {s \in Span : heap[s] = h /\ s \notin pool \cup cache[h] \cup partial_span[h]}

LEMMA FullFinite ==
  ASSUME NEW h \in Heap
  PROVE  IsFiniteSet(Full(h)) /\ Cardinality(Full(h)) \in Nat
BY SpanParams, FS_Subset, FS_CardinalityType DEF Full

\* What a step does to the count it does to the set: spans come, or go
CountFollows(h, gone, come) ==
  /\ gone \subseteq Full(h) /\ come \subseteq Span /\ come \cap (Full(h) \ gone) = {}
  /\ Full(h)' = (Full(h) \ gone) \cup come
  /\ full_span_count'[h] = full_span_count[h] - Cardinality(gone) + Cardinality(come)

LEMMA CountKept ==
  ASSUME NEW h \in Heap, full_span_count[h] = Cardinality(Full(h)),
         NEW gone, NEW come, CountFollows(h, gone, come)
  PROVE  full_span_count'[h] = Cardinality(Full(h)')
<1>. USE DEF CountFollows
<1>. DEFINE rest == Full(h) \ gone
<1>1. IsFiniteSet(Full(h)) /\ IsFiniteSet(gone) /\ IsFiniteSet(rest) /\ IsFiniteSet(come)
  BY FullFinite, SpanParams, FS_Subset
<1>2. /\ Cardinality(Full(h)) \in Nat /\ Cardinality(gone) \in Nat
      /\ Cardinality(rest) \in Nat /\ Cardinality(come) \in Nat
  BY <1>1, FS_CardinalityType
<1>3. Cardinality(rest) = Cardinality(Full(h)) - Cardinality(gone)
  <2>1. Cardinality(Full(h) \ gone) = Cardinality(Full(h)) - Cardinality(Full(h) \cap gone)
    BY <1>1, FS_Difference
  <2>2. Full(h) \cap gone = gone
    OBVIOUS
  <2>. QED BY <2>1, <2>2
<1>4. Cardinality(rest \cup come) = Cardinality(rest) + Cardinality(come)
  <2>1. Cardinality(rest \cup come)
          = Cardinality(rest) + Cardinality(come) - Cardinality(rest \cap come)
    BY <1>1, FS_Union
  <2>2. rest \cap come = {}
    OBVIOUS
  <2>3. Cardinality(rest \cap come) = 0
    BY <2>2, FS_EmptySet
  <2>. QED BY <1>2, <2>1, <2>3
<1>. HIDE DEF rest
<1>5. Full(h)' = rest \cup come
  BY DEF rest
<1>. QED BY <1>2, <1>3, <1>4, <1>5

\* Most steps leave it alone
LEMMA CountAlone ==
  ASSUME NEW h \in Heap, full_span_count[h] = Cardinality(Full(h)),
         Full(h)' = Full(h), full_span_count'[h] = full_span_count[h]
  PROVE  full_span_count'[h] = Cardinality(Full(h)')
OBVIOUS

\* A span joins the full ones, or leaves them
LEMMA CountOne ==
  ASSUME TypeOK, NEW h \in Heap, full_span_count[h] = Cardinality(Full(h)), NEW s \in Span,
         \/ /\ s \notin Full(h) /\ Full(h)' = Full(h) \cup {s}
            /\ full_span_count'[h] = full_span_count[h] + 1
         \/ /\ s \in Full(h) /\ Full(h)' = Full(h) \ {s}
            /\ full_span_count'[h] = full_span_count[h] - 1
  PROVE  full_span_count'[h] = Cardinality(Full(h)')
<1>1. Cardinality({}) = 0 /\ Cardinality({s}) = 1
  BY FS_EmptySet, FS_Singleton
<1>2. full_span_count[h] \in Int
  BY DEF TypeOK
<1>3. CountFollows(h, {}, {s}) \/ CountFollows(h, {s}, {})
  BY <1>1, <1>2 DEF CountFollows
<1>. QED BY <1>3, CountKept

CountExact == \A h \in Heap : full_span_count[h] = Cardinality(Full(h))

\* Adopting the deferred spans takes as many off the count
LEMMA CountHandover ==
  ASSUME IInv, CountExact, NEW t \in Thread,
         HeapAllocate(t) \/ \E h \in Heap : HeapRelease(t, h)
  PROVE  CountExact'
<1>. USE DEF IInv, CountExact
<1>1. PICK h \in Heap :
        /\ span_free_deferred' = [span_free_deferred EXCEPT ![h] = {}]
        /\ full_span_count' =
             [full_span_count EXCEPT ![h] = @ - Cardinality(span_free_deferred[h])]
        /\ \E kept \in SUBSET (cache[h] \cup span_free_deferred[h]) :
             /\ cache' = [cache EXCEPT ![h] = kept]
             /\ pool' = pool \cup ((cache[h] \cup span_free_deferred[h]) \ kept)
  <2>1. CASE HeapAllocate(t)
    <3>1. PICK g \in Heap : AdoptDeferred(g)
      BY <2>1 DEF HeapAllocate, TypeOK
    <3>. QED BY <3>1 DEF AdoptDeferred, CacheInsert, Keep
  <2>2. CASE \E h \in Heap : HeapRelease(t, h)
    BY <2>2 DEF HeapRelease, CacheInsert, Keep
  <2>. QED BY <2>1, <2>2
<1>2. UNCHANGED <<partial_span, heap>>
  BY DEF HeapAllocate, HeapRelease, ownVars
<1>3. PICK kept \in SUBSET (cache[h] \cup span_free_deferred[h]) :
        /\ cache' = [cache EXCEPT ![h] = kept]
        /\ pool' = pool \cup ((cache[h] \cup span_free_deferred[h]) \ kept)
  BY <1>1
<1>4. /\ span_free_deferred[h] \subseteq Full(h)
      /\ Full(h)' = Full(h) \ span_free_deferred[h]
  BY <1>2, <1>3 DEF Full, TypeOK, SpanInOnePlace
<1>5. CountFollows(h, span_free_deferred[h], {})
  <2>1. Cardinality({}) = 0
    BY FS_EmptySet
  <2>. QED BY <1>1, <1>4, <2>1, DeferredFinite DEF CountFollows, TypeOK
<1>6. ASSUME NEW g \in Heap \ {h}
      PROVE  Full(g)' = Full(g) /\ full_span_count'[g] = full_span_count[g]
  <2>1. full_span_count'[g] = full_span_count[g] /\ cache'[g] = cache[g]
    BY <1>1, <1>3 DEF TypeOK
  <2>2. ASSUME NEW x \in Span, heap[x] = g
        PROVE  x \in pool' <=> x \in pool
    BY <1>3, <2>2 DEF SpanInOnePlace
  <2>. QED BY <1>2, <2>1, <2>2 DEF Full
<1>. QED BY <1>5, <1>6, CountKept

\* The fallback: a partial span that is used up becomes a full one
LEMMA CountFallback ==
  ASSUME IInv, CountExact, NEW t \in Thread, NEW h \in Heap, NEW s \in partial_span[h],
         UNCHANGED <<pool, cache, heap>>,
         \/ UNCHANGED <<partial_span, full_span_count>>
         \/ /\ partial_span' = [partial_span EXCEPT ![h] = @ \ {s}]
            /\ full_span_count' = [full_span_count EXCEPT ![h] = @ + 1]
  PROVE  CountExact'
<1>. USE DEF IInv, CountExact
<1>1. CASE UNCHANGED <<partial_span, full_span_count>>
  BY <1>1 DEF Full
<1>2. CASE /\ partial_span' = [partial_span EXCEPT ![h] = @ \ {s}]
           /\ full_span_count' = [full_span_count EXCEPT ![h] = @ + 1]
  <2>1. s \in Span /\ heap[s] = h /\ s \notin pool \cup cache[h]
    BY DEF TypeOK, SpanInOnePlace
  <2>2. /\ s \notin Full(h) /\ Full(h)' = Full(h) \cup {s}
        /\ full_span_count'[h] = full_span_count[h] + 1
    BY <1>2, <2>1 DEF Full, TypeOK
  <2>3. \A g \in Heap \ {h} : Full(g)' = Full(g) /\ full_span_count'[g] = full_span_count[g]
    BY <1>2 DEF Full, TypeOK
  <2>. QED BY <2>1, <2>2, <2>3, CountOne
<1>. QED BY <1>1, <1>2

\* A new span counts as full if its first page is the whole span
LEMMA CountFresh ==
  ASSUME IInv, CountExact, NEW t \in Thread, NEW h \in Heap,
         AllocateFromCache(t, h) \/ AllocateFromElsewhere(t, h)
  PROVE  CountExact'
<1>. USE DEF IInv, CountExact
<1>1. PICK s \in Span, gone \in SUBSET Span :
        /\ gone \subseteq Full(h)
        /\ InitializeNew(h, s, full_span_count[h] - Cardinality(gone))
        /\ s \in pool \cup cache[h] \cup gone
        /\ \A g \in Heap \ {h} : cache'[g] = cache[g]
        /\ (pool \cup cache[h] \cup gone) \ {s} = pool' \cup cache'[h]
        /\ s \notin pool' \cup cache'[h]
        /\ Cardinality(gone) \in Nat /\ gone \cap (pool \cup cache[h]) = {}
        /\ gone \subseteq span_free_deferred[h] /\ cache'[h] \subseteq cache[h] \cup gone
  <2>1. CASE AllocateFromCache(t, h)
    <3>1. PICK s \in cache[h] : AllocateFromCache(t, h)!3!(s)
      BY <2>1 DEF AllocateFromCache
    <3>2. /\ s \in Span /\ full_span_count[h] \in Int
          /\ s \notin pool /\ s \notin span_free_deferred[h]
      BY DEF TypeOK, SpanInOnePlace
    <3>3. /\ cache'[h] = cache[h] \ {s} /\ \A g \in Heap \ {h} : cache'[g] = cache[g]
          /\ UNCHANGED <<span_free_deferred, pool>>
      BY <2>1, <3>1 DEF AllocateFromCache, TypeOK
    <3>4. Cardinality({}) = 0 /\ full_span_count[h] - 0 = full_span_count[h]
      BY <3>2, FS_EmptySet
    <3>5. InitializeNew(h, s, full_span_count[h] - Cardinality({}))
      BY <3>1, <3>4
    <3>. QED BY <3>2, <3>3, <3>4, <3>5
  <2>2. CASE AllocateFromElsewhere(t, h)
    <3>1. PICK s \in IF span_free_deferred[h] # {} THEN span_free_deferred[h] ELSE pool :
            AllocateFromElsewhere(t, h)!3!(s)
      BY <2>2 DEF AllocateFromElsewhere
    <3>2. PICK kept \in Keep(span_free_deferred[h] \ {s}) :
            /\ cache' = [cache EXCEPT ![h] = kept]
            /\ pool' = (pool \cup (span_free_deferred[h] \ kept)) \ {s}
      BY <3>1
    <3>3. /\ kept \subseteq span_free_deferred[h] \ {s}
          /\ cache[h] = {} /\ span_free_deferred[h] \in SUBSET Span
          /\ s \in Span /\ s \in pool \cup span_free_deferred[h]
      BY <2>2, <3>1, <3>2 DEF AllocateFromElsewhere, Keep, TypeOK
    <3>4. /\ span_free_deferred[h] \cap (pool \cup cache[h]) = {}
          /\ span_free_deferred[h] \subseteq Full(h)
      BY DEF SpanInOnePlace, TypeOK, Full
    <3>5. /\ cache'[h] = kept /\ \A g \in Heap \ {h} : cache'[g] = cache[g]
      BY <3>2, <3>3 DEF TypeOK
    <3>6. Cardinality(span_free_deferred[h]) \in Nat
      BY DeferredFinite
    <3>7. InitializeNew(h, s, full_span_count[h] - Cardinality(span_free_deferred[h]))
      BY <3>1
    <3>8. (pool \cup cache[h] \cup span_free_deferred[h]) \ {s} = pool' \cup cache'[h]
      BY <3>2, <3>3, <3>4, <3>5
    <3>9. s \notin pool' \cup cache'[h]
      BY <3>2, <3>3, <3>5
    <3>. QED BY <3>3, <3>4, <3>5, <3>6, <3>7, <3>8, <3>9
  <2>. QED BY <1>1, <2>1, <2>2
<1>2. PICK n \in PageWorth(BlockCount) :
        InitializeNew(h, s, full_span_count[h] - Cardinality(gone))!(n)
  BY <1>1 DEF InitializeNew
<1>3. /\ heap' = [heap EXCEPT ![s] = h]
      /\ \A g \in Heap \ {h} : /\ partial_span'[g] = partial_span[g]
                               /\ full_span_count'[g] = full_span_count[g]
      /\ \/ /\ partial_span'[h] = partial_span[h] \cup {s}
            /\ full_span_count'[h] = full_span_count[h] - Cardinality(gone)
         \/ /\ partial_span'[h] = partial_span[h]
            /\ full_span_count'[h] = full_span_count[h] - Cardinality(gone) + 1
  BY <1>2 DEF TypeOK
<1>4. /\ Cardinality({}) = 0 /\ Cardinality({s}) = 1
      /\ full_span_count[h] \in Int
  BY FS_EmptySet, FS_Singleton DEF TypeOK
<1>5. s \notin partial_span[h] /\ \A g \in Heap \ {h} : s \notin Full(g)
  BY <1>1 DEF SpanInOnePlace, Full, TypeOK
<1>6. \/ CountFollows(h, gone, {}) \/ CountFollows(h, gone, {s})
  <2>1. s \notin Full(h) \ gone
    BY <1>1 DEF Full
  <2>2. ASSUME NEW x \in Span \ {s}
        PROVE  x \in Full(h)' <=> x \in Full(h) \ gone
    <3>1. heap'[x] = heap[x]
      BY <1>3 DEF TypeOK
    <3>2. x \in pool' \cup cache'[h] <=> x \in pool \cup cache[h] \cup gone
      BY <1>1
    <3>3. x \in partial_span'[h] <=> x \in partial_span[h]
      BY <1>3
    <3>. QED BY <3>1, <3>2, <3>3 DEF Full
  <2>3. heap'[s] = h /\ s \notin pool' \cup cache'[h]
    BY <1>1, <1>3 DEF TypeOK
  <2>4. Full(h)' \subseteq Span /\ Full(h) \subseteq Span
    BY DEF Full
  <2>5. CASE partial_span'[h] = partial_span[h] \cup {s} /\
             full_span_count'[h] = full_span_count[h] - Cardinality(gone)
    <3>1. s \notin Full(h)'
      BY <2>5 DEF Full
    <3>2. Full(h)' = (Full(h) \ gone) \cup {}
      BY <2>1, <2>2, <2>4, <3>1
    <3>. QED BY <1>1, <1>4, <2>5, <3>2 DEF CountFollows
  <2>6. CASE partial_span'[h] = partial_span[h] /\
             full_span_count'[h] = full_span_count[h] - Cardinality(gone) + 1
    <3>1. s \in Full(h)'
      BY <1>5, <2>3, <2>6 DEF Full
    <3>2. Full(h)' = (Full(h) \ gone) \cup {s}
      BY <2>1, <2>2, <2>4, <3>1
    <3>. QED BY <1>1, <1>4, <2>1, <2>6, <3>2 DEF CountFollows
  <2>. QED BY <1>3, <2>5, <2>6
<1>7. ASSUME NEW g \in Heap \ {h}
      PROVE  Full(g)' = Full(g) /\ full_span_count'[g] = full_span_count[g]
  <2>1. s \notin Full(g)'
    BY <1>3 DEF Full, TypeOK
  <2>2. ASSUME NEW x \in Span \ {s} PROVE x \in Full(g)' <=> x \in Full(g)
    <3>1. heap'[x] = heap[x]
      BY <1>3 DEF TypeOK
    <3>2. heap[x] = g => (x \in pool' <=> x \in pool)
      BY <1>1 DEF SpanInOnePlace
    <3>. QED BY <1>1, <1>3, <3>1, <3>2 DEF Full
  <2>. QED BY <1>3, <1>5, <2>1, <2>2 DEF Full
<1>. QED BY <1>6, <1>7, CountKept

LEMMA CountInit == Init => CountExact
<1>. SUFFICES ASSUME Init, NEW h \in Heap PROVE full_span_count[h] = Cardinality(Full(h))
  BY DEF CountExact
<1>1. Full(h) = {} /\ full_span_count[h] = 0
  BY DEF Init, Full
<1>. QED BY <1>1, FS_EmptySet

LEMMA CountNext ==
  ASSUME IInv, CountExact, [Next]_vars
  PROVE  CountExact'
<1>. USE DEF IInv
<1>1. CASE UNCHANGED <<pool, cache, partial_span, heap, full_span_count>>
  BY <1>1 DEF CountExact, Full
<1>2. ASSUME NEW t \in Thread, NEW h \in Heap, Allocate(t, h) PROVE CountExact'
  <2>1. CASE AllocateFast(t, h)
    BY <1>1, <2>1 DEF AllocateFast, storeVars, ownVars
  <2>2. CASE AllocateFromPartial(t, h)
    <3>1. PICK s \in partial_span[h], block, limit \in Block :
            AllocateFromPartial(t, h)!3!(s, block, limit)
      BY <2>2 DEF AllocateFromPartial
    <3>2. /\ UNCHANGED <<pool, cache, heap>>
          /\ \/ UNCHANGED <<partial_span, full_span_count>>
             \/ /\ partial_span' = [partial_span EXCEPT ![h] = @ \ {s}]
                /\ full_span_count' = [full_span_count EXCEPT ![h] = @ + 1]
      BY <2>2, <3>1 DEF AllocateFromPartial, FinishFallback, storeVars
    <3>. QED BY <3>2, CountFallback
  <2>. QED BY <1>2, <2>1, <2>2, CountFresh DEF Allocate
<1>3. ASSUME NEW t \in Thread, MergeDeferred(t) PROVE CountExact'
  <2>1. PICK s \in Span, h \in Heap : /\ s = reg[t].span /\ heap[s] = h
                                      /\ s \in partial_span[h]
    BY <1>3 DEF MergeDeferred, ThreadInv, Owning, TypeOK, Reg
  <2>2. /\ UNCHANGED <<pool, cache, heap>>
        /\ \/ UNCHANGED <<partial_span, full_span_count>>
           \/ /\ partial_span' = [partial_span EXCEPT ![h] = @ \ {s}]
              /\ full_span_count' = [full_span_count EXCEPT ![h] = @ + 1]
    BY <1>3, <2>1 DEF MergeDeferred, FinishFallback, storeVars
  <2>. QED BY <2>1, <2>2, CountFallback
<1>4. ASSUME NEW t \in Thread, DeallocateDirect(t) PROVE CountExact'
  <2>0. pc[t] = "idle" /\ UNCHANGED <<pool, cache, heap>>
    BY <1>4 DEF DeallocateDirect, storeVars
  <2>7. PICK c \in allocated : DeallocateDirect(t)!2!(c)
    BY <1>4 DEF DeallocateDirect
  <2>8. PICK s \in Span, b \in Block : c = <<s, b>>
    <3>1. c \in Span \X Block
      BY DEF TypeOK, Cell
    <3>. QED BY <3>1
  <2>1. c[1] = s /\ c[2] = b /\ <<s, b>> \in allocated
    BY <2>7, <2>8
  <2>2. b \in Allocated(s)
    BY <2>1 DEF Allocated
  <2>3. ~IsIdle(s)
    BY <2>2 DEF IdleSpansUntouched
  <2>4. PICK h \in Heap : h = heap[s] /\ owner_thread[h] = t
    BY <2>7, <2>1, <2>3 DEF IsIdle, HeapInv
  <2>5. CASE FullyUtilized(free_list[s], free_list_limit[s])
    <3>1. /\ partial_span' = [partial_span EXCEPT ![h] = @ \cup {s}]
          /\ full_span_count' = [full_span_count EXCEPT ![h] = @ - 1]
      BY <2>7, <2>1, <2>4, <2>5
    <3>2. s \notin partial_span[h]
      <4>1. free_list[s] = {} /\ ~(free_list_limit[s] < BlockCount)
        BY <2>5, SpanParams DEF FullyUtilized, TypeOK
      <4>2. \A u \in Thread : reg[u].span = s => pc[u] \notin {"extract", "merge"}
        BY <2>0, <2>4, OwnerAlone DEF Owning
      <4>. QED BY <4>1, <4>2 DEF PartialUseful
    <3>3. s \in Full(h)
      BY <2>3, <2>4, <3>2 DEF Full, IsIdle
    <3>4. Full(h)' = Full(h) \ {s} /\ full_span_count'[h] = full_span_count[h] - 1
      BY <2>0, <2>4, <3>1 DEF Full, TypeOK
    <3>5. \A g \in Heap \ {h} : Full(g)' = Full(g) /\ full_span_count'[g] = full_span_count[g]
      BY <2>0, <3>1 DEF Full, TypeOK
    <3>. QED BY <3>3, <3>4, <3>5, CountOne DEF CountExact
  <2>6. CASE ~FullyUtilized(free_list[s], free_list_limit[s])
    BY <1>1, <2>0, <2>7, <2>1, <2>6
  <2>. QED BY <2>5, <2>6
<1>5. ASSUME NEW t \in Thread, ReleaseToCache(t) PROVE CountExact'
  <2>1. PICK s \in Span, h \in Heap : /\ s = reg[t].span /\ heap[s] = h
                                      /\ s \in partial_span[h]
    BY <1>5 DEF ReleaseToCache, ThreadInv, Owning, TypeOK, Reg
  <2>2. /\ partial_span' = [partial_span EXCEPT ![h] = @ \ {s}]
        /\ UNCHANGED <<full_span_count, heap>> /\ CacheInsert(h, {s})
    BY <1>5, <2>1 DEF ReleaseToCache, ownVars
  <2>3. PICK kept \in SUBSET (cache[h] \cup {s}) :
          /\ cache' = [cache EXCEPT ![h] = kept]
          /\ pool' = pool \cup ((cache[h] \cup {s}) \ kept)
    BY <2>2 DEF CacheInsert, Keep
  <2>4. Full(h)' = Full(h)
    BY <2>1, <2>2, <2>3 DEF Full, TypeOK
  <2>5. \A g \in Heap \ {h} : Full(g)' = Full(g)
    BY <2>1, <2>2, <2>3 DEF Full, TypeOK, SpanInOnePlace
  <2>. QED BY <2>2, <2>4, <2>5 DEF CountExact
<1>6. ASSUME NEW t \in Thread,
             \/ DeallocateDeferred(t) \/ ExtractDeferred(t) \/ SyncDeferred(t)
             \/ DeferLock(t) \/ DeferLink(t) \/ DeferPublish(t) \/ DeferPush(t)
      PROVE  CountExact'
  BY <1>1, <1>6 DEF DeallocateDeferred, ExtractDeferred, SyncDeferred, DeferLock, DeferLink,
     DeferPublish, DeferPush, TakeDeferred, classVars, storeVars, ownVars
<1>7. CASE UNCHANGED vars
  BY <1>1, <1>7 DEF vars, classVars, storeVars, ownVars
<1>. QED BY <1>2, <1>3, <1>4, <1>5, <1>6, <1>7, CountHandover DEF Next, Continue

\* rpmalloc_finalize may trust full_span_count: it counts the full spans, and
\* those remote frees emptied that nobody adopted yet
THEOREM FullCountExact == Spec => []FullSpanCountExact
<1>1. CountExact => FullSpanCountExact
  BY DEF CountExact, FullSpanCountExact, Full
<1>2. Init => CountExact
  BY CountInit
<1>3. IInv /\ CountExact /\ [Next]_vars => CountExact'
  BY CountNext
<1>. QED BY <1>1, <1>2, <1>3, Invariance, PTL DEF Spec

---------------------------------------------------------------------------
(* RpSpan implements BlockPool *)

Holder == [s \in Span |-> IF s \in Active THEN heap[s] ELSE None]

\* What a step does to the pool, by what it does to idle spans and blocks
LEMMA HolderKept ==
  ASSUME IdleKept, \A x \in Span : ~IsIdle(x) => heap'[x] = heap[x]
  PROVE  Holder' = Holder
BY DEF Holder, Active, IdleKept

\* A heap holds the spans in use
LEMMA HolderOf ==
  ASSUME IInv, NEW s \in Span, ~IsIdle(s)
  PROVE  Holder[s] = heap[s] /\ Holder[s] \in Heap /\ Holder[s] # None
<1>1. heap[s] \in Heap
  BY DEF IInv, HeapInv, IsIdle
<1>2. Holder[s] = heap[s]
  BY DEF Holder, Active
<1>. QED BY <1>1, <1>2, SpanParams

\* A block that is somewhere else is not the program's, and its span is in use
LEMMA OutOfHand ==
  ASSUME IInv, NEW s \in Span, NEW b \in Block,
         b \in InFlight(s) \cup InClass(s) \cup free_list[s] \/ b > free_list_limit[s]
  PROVE  <<s, b>> \notin allocated
<1>1. b \notin Allocated(s)
  BY DEF IInv, NoBlockInTwoPlaces, NoBlockLost, TypeOK, Block
<1>. QED BY <1>1 DEF Allocated

LEMMA PoolAllocates ==
  ASSUME IInv, NEW s \in Span, NEW b \in Block, ~IsIdle(s), <<s, b>> \notin allocated,
         Holder' = Holder, allocated' = allocated \cup {<<s, b>>}
  PROVE  Pool!Next
<1>1. Pool!Malloc(s, b)
  BY HolderOf DEF Pool!Malloc, Holder
<1>. QED BY <1>1 DEF Pool!Next

LEMMA PoolFrees ==
  ASSUME IInv, NEW c \in allocated, Holder' = Holder, allocated' = allocated \ {c}
  PROVE  Pool!Next
<1>1. PICK s \in Span, b \in Block : c = <<s, b>>
  <2>1. c \in Span \X Block
    BY DEF IInv, TypeOK, Cell
  <2>. QED BY <2>1
<1>2. ~IsIdle(s)
  BY <1>1 DEF IInv, IdleSpansUntouched, Allocated
<1>3. Pool!Free(s, b)
  BY <1>1, <1>2, HolderOf DEF Pool!Free, Holder
<1>. QED BY <1>3 DEF Pool!Next

\* malloc in the middle of which nothing else happens
LEMMA AllocateMaps ==
  ASSUME IInv, IInv', NEW t \in Thread, NEW h \in Heap, Allocate(t, h)
  PROVE  Pool!Next \/ UNCHANGED <<Holder, allocated>>
<1>. USE DEF IInv
<1>1. CASE AllocateFast(t, h)
  <2>1. PICK c \in class_free_list[h] : Return(t, c)
    BY <1>1 DEF AllocateFast
  <2>2. PICK s \in Span, b \in Block : c = <<s, b>>
    <3>1. c \in Span \X Block
      BY <2>1 DEF TypeOK, Cell
    <3>. QED BY <3>1
  <2>3. b \in InClass(s)
    BY <2>1, <2>2 DEF InClass
  <2>4. ~IsIdle(s) /\ <<s, b>> \notin allocated
    BY <2>3, OutOfHand DEF IdleSpansUntouched
  <2>5. IdleKept /\ UNCHANGED heap
    BY <1>1, QuietIdle DEF AllocateFast, ownVars
  <2>. QED BY <2>1, <2>2, <2>4, <2>5, HolderKept, PoolAllocates DEF Return
<1>2. CASE AllocateFromPartial(t, h)
  <2>1. PICK s \in partial_span[h], b, limit \in Block :
          AllocateFromPartial(t, h)!3!(s, b, limit)
    BY <1>2 DEF AllocateFromPartial
  <2>2. s \in Span /\ ~IsIdle(s)
    BY PartialFacts
  <2>3. Holder' = Holder
    BY <1>2, QuietIdle, HolderKept DEF AllocateFromPartial
  <2>4. CASE UNCHANGED allocated
    BY <2>3, <2>4
  <2>5. CASE allocated' = allocated \cup {<<s, b>>}
    <3>1. b \in free_list[s] \/ b > free_list_limit[s]
      BY <2>1, <2>2 DEF Refill, TypeOK
    <3>2. <<s, b>> \notin allocated
      BY <2>2, <3>1, OutOfHand
    <3>. QED BY <2>2, <2>3, <2>5, <3>2, PoolAllocates
  <2>. QED BY <2>1, <2>4, <2>5 DEF FinishFallback, Return
<1>3. CASE AllocateFromCache(t, h) \/ AllocateFromElsewhere(t, h)
  <2>1. PICK s \in Span : Claimed(h, s)
    BY <1>3, FreshIdle
  <2>2. Holder[s] = None /\ 1 \in Block
    BY <2>1, SpanParams DEF Claimed, Holder, Active, Block
  <2>3. Holder' = [Holder EXCEPT ![s] = h]
    BY <2>1 DEF Claimed, Holder, Active
  <2>4. Pool!Claim(h, s, 1)
    BY <2>1, <2>2, <2>3 DEF Pool!Claim, Claimed, Holder
  <2>. QED BY <2>2, <2>4 DEF Pool!Next
<1>. QED BY <1>1, <1>2, <1>3 DEF Allocate

\* ... and one that took the deferred list of its span in
LEMMA MergeMaps ==
  ASSUME IInv, NEW t \in Thread, MergeDeferred(t)
  PROVE  Pool!Next
<1>. USE DEF IInv
<1>1. PICK s \in Span, h \in Heap, b \in Block :
        /\ s = reg[t].span /\ heap[s] = h /\ s \in partial_span[h] /\ b = reg[t].block
        /\ b \in InFlight(s)
  BY DEF MergeDeferred, ThreadInv, Owning, Carrying, TypeOK, Reg, InFlight
<1>2. ~IsIdle(s) /\ <<s, b>> \notin allocated
  BY <1>1, PartialFacts, OutOfHand
<1>3. Holder' = Holder
  BY QuietIdle, HolderKept DEF MergeDeferred
<1>4. allocated' = allocated \cup {<<s, b>>}
  BY <1>1 DEF MergeDeferred, FinishFallback, Return
<1>. QED BY <1>1, <1>2, <1>3, <1>4, PoolAllocates

\* A span that is no longer in use has no block in use
LEMMA GivenUpMaps ==
  ASSUME IInv, IInv', NEW s \in Span, GivenUp(s)
  PROVE  Pool!Next
<1>. USE DEF IInv
<1>1. Allocated(s)' = {}
  BY DEF GivenUp, IdleSpansUntouched
<1>2. \A b \in Block : <<s, b>> \notin allocated
  BY <1>1 DEF Allocated, GivenUp
<1>3. Holder' = [Holder EXCEPT ![s] = None]
  BY DEF GivenUp, Holder, Active
<1>4. Pool!GiveBack(s)
  BY <1>2, <1>3, HolderOf DEF Pool!GiveBack, Holder, GivenUp
<1>. QED BY <1>4 DEF Pool!Next

\* The rest: frees hand blocks back, and of the steps inside malloc and free
\* only those after which a span is idle show
LEMMA StepMaps ==
  ASSUME IInv, IInv', [Next]_vars
  PROVE  Pool!Next \/ UNCHANGED <<Holder, allocated>>
<1>. USE DEF IInv
<1>1. ASSUME NEW t \in Thread, HeapAllocate(t) \/ \E h \in Heap : HeapRelease(t, h)
      PROVE  UNCHANGED <<Holder, allocated>>
  BY <1>1, HandoverIdle, HolderKept DEF HeapAllocate, HeapRelease, threadVars, ownVars
<1>2. ASSUME NEW t \in Thread, DeallocateDirect(t) \/ DeallocateDeferred(t)
      PROVE  Pool!Next
  <2>1. PICK c \in allocated : allocated' = allocated \ {c}
    BY <1>2 DEF DeallocateDirect, DeallocateDeferred
  <2>2. UNCHANGED heap
    BY <1>2 DEF DeallocateDirect, DeallocateDeferred, ownVars
  <2>. QED BY <1>2, <2>1, <2>2, QuietIdle, HolderKept, PoolFrees
<1>3. ASSUME NEW t \in Thread, ExtractDeferred(t) \/ SyncDeferred(t) \/ DeferLock(t)
      PROVE  UNCHANGED <<Holder, allocated>>
  BY <1>3, QuietIdle, HolderKept
     DEF ExtractDeferred, SyncDeferred, DeferLock, TakeDeferred, ownVars
<1>4. ASSUME NEW t \in Thread, DeferLink(t)
      PROVE  Pool!Next \/ UNCHANGED <<Holder, allocated>>
  <2>1. UNCHANGED <<heap, allocated>>
    BY <1>4 DEF DeferLink, ownVars
  <2>. QED BY <1>4, <2>1, LinkIdle, GivenUpMaps, HolderKept
<1>5. ASSUME NEW t \in Thread, DeferPublish(t) \/ DeferPush(t)
      PROVE  UNCHANGED <<Holder, allocated>>
  BY <1>5, PublishIdle, HolderKept DEF DeferPublish, DeferPush, ownVars
<1>6. ASSUME NEW t \in Thread, ReleaseToCache(t)
      PROVE  Pool!Next
  BY <1>6, ReleaseIdle, GivenUpMaps
<1>7. CASE UNCHANGED vars
  BY <1>7 DEF vars, storeVars, ownVars, threadVars, Holder, Active, IsIdle, PushedBy
<1>. QED BY <1>1, <1>2, <1>3, <1>4, <1>5, <1>6, <1>7, AllocateMaps, MergeMaps DEF Next, Continue

\* To its callers the path is a pool that hands each block to one holder, and
\* takes a span back only when no block of it is in use
THEOREM SpanImplementsBlockPool == Spec => ImplementsBlockPool
<1>1. Init => Pool!Init
  BY DEF Init, Pool!Init, Active, IsIdle
<1>2. IInv /\ IInv' /\ [Next]_vars => [Pool!Next]_(Pool!vars)
  BY StepMaps DEF Pool!vars, Holder
<1>. QED BY <1>1, <1>2, Invariance, PTL DEF Spec, ImplementsBlockPool, Pool!Spec

===========================================================================
