# Verification of orx-extern

orx-extern bundles the third-party libraries the orx engine is built on. This
directory holds TLA+ modules that model parts of them, the TLC configurations
that check the modules on small instances, and proofs checked by TLAPS.

`PROJECT.json` names, for every definition that models code, the lines it
stands for; this file says how they fit together.

## 1. Inventory

The repository has no program of its own: each directory is a library, and the
libraries do not call each other. Components are therefore listed by library.
The ones with concurrency, hand-made memory management or a protocol between
caller and library come first; they are what model checking can say most about.
Section 2 says which of them are modelled, section 8 what is left out and why.

### rpmalloc (`rpmalloc/rpmalloc/rpmalloc.c`), a multithreaded allocator

| part | state | operations | interacts with | hard because | correct when |
|---|---|---|---|---|---|
| spans and block free lists | per heap and size class: `free_list`, `partial_span`, `cache`; per span: `free_list`, `free_list_limit`, `used_count`, `list_size`, `free_list_deferred`; per heap: `span_free_deferred`, `full_span_count` | `_rpmalloc_allocate_*`, `_rpmalloc_deallocate_*` | threads through the two deferred lists | the owner works without locks while any thread frees into its spans; `list_size` is read racily | no block is in two lists or lost; a span is given back once, and only when empty; nobody hangs on a locked list |
| span mapping, superspans, reserves | `remaining_spans`, `total_spans`, flags of master spans; `span_reserve` of heaps; `_memory_global_reserve` | `_rpmalloc_span_map*`, `_rpmalloc_span_unmap`, `_rpmalloc_heap_set_reserved_spans` | heaps, caches, the OS | a region is cut into spans that different threads unmap | parts are disjoint; a region is released once, after its last part |
| thread and global caches | `span_cache`, `span_large_cache`, `_memory_span_cache[]` with its lock | `_rpmalloc_heap_cache_insert`, `_rpmalloc_global_cache_*` | mapping, heaps | full caches, masters that must outlive their subspans | no span is cached twice or dropped |
| heap lifecycle | `_memory_heaps`, `_memory_orphan_heaps`, `_memory_global_lock`, `owner_thread`, `master_heap`, `child_count`, `finalize` | `_rpmalloc_heap_allocate`, `_rpmalloc_heap_release`, `_rpmalloc_heap_global_finalize`, `rpmalloc_finalize` | everything above | heaps change owners while others free into them; finalisation with blocks still out | one owner at a time; heaps go when their last span goes |
| size classes, reallocation | `_memory_size_class[]` | `_rpmalloc_adjust_size_class`, `_rpmalloc_reallocate`, `_rpmalloc_aligned_allocate`, `_rpmalloc_usable_size` | the allocation path | boundaries between the four kinds of blocks | a block is as large as asked for, and its usable size is what it has |
| first-class heaps | as heaps, plus `full_span`, `large_huge_span` | `rpmalloc_heap_*` | as heaps | optional build | as heaps |
| `malloc.c`, `rpnew.h` | none | override of `malloc`, `new` | rpmalloc | start-up order | forwards faithfully |

### Other libraries

| component | state and operations | hard because | correct when |
|---|---|---|---|
| libwebp worker (`src/utils/thread_utils.c`) | one worker: status NOT_OK/OK/WORK, mutex, condition; Reset, Launch, Sync, End | hand-over by one condition variable | no lost wake-up, no work run twice, End joins |
| libwebp incremental decoder, frame pipeline (`src/dec`) | decoder state, memory buffer, row cache double-buffered against the worker | resumption at any byte, rows produced while the previous are filtered | rows are emitted once and in order |
| libwebp demux/mux/anim, codecs, DSP | container chunks, canvas; numerical kernels | parsing; arithmetic | not a protocol |
| miniaudio job queue, slot allocator, ring buffer (`miniaudio.h`) | list of slots, bit fields, head/tail; post, next; acquire/commit | several producers and consumers | each job is delivered once; the ring never overruns; quit reaches every worker |
| miniaudio resource manager | reference counts, result codes, job order per object | loading jobs race with uninit | no use after free; every load ends |
| miniaudio node graph, devices, fences, events | attach/detach of nodes while reading; start/stop of devices | locks per bus, state changes on callbacks | no missed stop, no stale attachment |
| LiquidFun allocators (`Box2D/Common`) | block, stack, free-list, slab and tracked-block allocators | size boundaries | blocks disjoint, stack discipline |
| LiquidFun broad phase, contacts (`Box2D/Collision`, `b2ContactManager.cpp`) | dynamic tree, move buffer, pairs, contact list | proxies removed between moves and pair update | tree balanced and bounding; one contact per pair |
| LiquidFun solver, joints, particles | floating-point state | numerical | out of reach |
| GLFW input, windows, monitors (`glfw-3/src`) | key states, joystick slots, window focus, callbacks | callback order, state after focus loss | no key stays pressed; handles are not reused |
| GLFW platform code | operating-system handles | I/O | out of reach |
| Lua 5.1.4 collector (`premake/.../lgc.c`) | colours, gray lists, phases, finalizers; one increment at each `luaC_checkGC` | the program writes references between increments | no reachable object is swept, garbage goes, finalizers run once |
| Lua VM, premake host and scripts | interpreter, file generation | sequential | out of scope |
| basisu, zstd, qoi, qoa, stb_*, msdfgen, xxHash | codecs, geometry, hashing | arithmetic | mostly out of scope |

Every hazard these components are exposed to is in `PROJECT.json` under
"hazards", at its line, with the properties that would catch it.

## 2. Modules

rpmalloc came first, then the other three places of the repository where threads
or increments interleave: miniaudio's job queue and resource manager, libwebp's
worker and row pipeline, Lua's incremental collector.

| module | models | promises (refined) | proofs |
|---|---|---|---|
| `RpSpan` | rpmalloc: blocks and spans of one size class, deferred frees, heaps changing owners | `BlockPool` | `RpSpan_proofs` |
| `RpSuperSpan` | rpmalloc: regions, reserves, caches of spans, heap life cycle, finalisation | | `RpSuperSpan_proofs` |
| `RpSizes` | rpmalloc: size classes, alignment, reallocation | | `RpSizes_proofs` |
| `LuaGC` | Lua: the collector and the operations of the program beside it | | `LuaGC_proofs` |
| `MaJobQueue` | miniaudio: slot allocator, linked list, semaphore, job threads, shutdown | `JobFifo` | `MaJobQueue_proofs` |
| `MaResource` | miniaudio: data buffers, their shared node, the jobs that load and free them | (uses the list `JobFifo` promises) | `MaResource_proofs`, and `MaResourceTurns_proofs` about the order of jobs |
| `WebPWorker` | libwebp: the worker thread | | `WebPFrame_proofs` (first section) |
| `WebPFrame` | libwebp: row pipeline, EXTENDS `WebPWorker` | `RowOutput` | `WebPFrame_proofs` |

An `MC` module of the same name gives the constants their values. Where a build
or a use has settings, a variable chosen once in `Init` holds them (`config` of
RpSuperSpan and MaResource, `program` of LuaGC, `blocking` of MaJobQueue, `mt`,
`filtered`, `incremental`, `br` of WebPFrame), so that one run covers them all
and the theorems speak about each.

How they compose: `WebPFrame` takes every step of the decoder in conjunction with
one of `WebPWorker` or leaves it alone (`NextUsesWorker` proves that it uses the
worker as its specification allows). `MaResource` posts to and takes from a
sequence: that this is what threads see of the queue is what `MaJobQueue`
implementing `JobFifo` says. `RpSpan`'s `pool` stands for everything
`RpSuperSpan` does with a span no heap uses.

## 3. The models and the code

### RpSpan: blocks of one size class

Lines are of `src/rpmalloc/rpmalloc/rpmalloc.c`, here and for the next two
modules. The build is the default one: no first-class heaps, thread cache on.

A thread owns a heap; the heap hands out blocks of its spans from
`class_free_list` (`heap_size_class_t.free_list`), and refills that list from a
span in `partial_span`, first from the span's `free_list`, then from blocks never
used so far (`free_list_limit`). Any other thread frees by locking the span's
`free_list_deferred` with INVALID_POINTER, linking the block, counting it in
`list_size`, and storing the list back. The free that makes the count reach
`block_count` pushes the span to the heap's `span_free_deferred`.

One action is one access to memory that other threads touch. What the owner
does to its own fields between two of them belongs to the action before; `pc`
and `reg` are the thread's position and local variables between the steps of
one call (`PC` names them). The actions:

| actions | code |
|---|---|
| `AllocateFast`, `AllocateFromPartial`, `ExtractDeferred`, `MergeDeferred`, `AllocateFromCache`, `AllocateFromElsewhere` | `_rpmalloc_allocate_small/medium` and the fallback, 2145-2216 |
| `DeallocateDirect`, `SyncDeferred`, `ReleaseToCache` | `_rpmalloc_deallocate_direct_small_or_medium`, 2419-2450 |
| `DeallocateDeferred`, `DeferLock`, `DeferLink`, `DeferPublish`, `DeferPush` | `_rpmalloc_deallocate_defer_small_or_medium` and `_defer_free_span`, 2451-2482 |
| `HeapAllocate`, `HeapRelease` | 1994-2065, as far as they touch these lists |

Abstractions, each with its reason:
- linked lists are sets: no property is about their order, and every block of a
  list is handed out before the list is taken again;
- `list_size` is read by the owner without synchronisation
  (2435). `DeallocateDirect` compares with any value from 0 to the current one;
- `HeapAllocate` joins taking the orphan under the lock, adopting its deferred
  spans and storing the owner: the heap is in nobody's reach in between, except
  for pushes to its deferred list, which commute with the adoption;
- what leaves a heap's cache is in `pool`, from which any heap may take it: the
  way through global cache, reserves and the system is RpSuperSpan's;
- the run ends before `rpmalloc_finalize`: `_rpmalloc_span_finalize` (1391-1429),
  which collects what is free of a span at the end, and the frees that follow the
  finalisation have no action.

`BlockPool` is what callers rely on: heaps claim spans nobody holds, each block
has one holder at a time, a span is given back when no block of it is in use.
`RpSpan!Pool` maps a heap's span in use to "held" from its initialisation until
its last block came back (`Active`).

### RpSuperSpan: spans and regions

A region is mapped in one call and cut into a master span and subspans. A span
is a record of region, first unit, count, and the region its header's offset
leads to. `remaining` and `total` are the master's `remaining_spans` and
`total_spans`. Spans travel between `used`, `cached` (thread caches), `reserve`
(`span_reserve`), `heap_span` (the memory of the heap itself), `global_reserve`,
`slots` and `overflow` (global cache), and, during an insertion to the global
cache, `spill` and `keep` (spans without a slot; masters among them to put back).
What finalisation does with spans of which a size class still has free blocks
(2091-2110) has no action here, as a span in use has no blocks in this module.

| actions | code |
|---|---|
| `TakeCached`, `TakeGlobal`, `TakeReserved` | the cache levels of `_rpmalloc_heap_extract_new_span`, 1749-1884, with the "somewhat larger will do" search (`Limit`, `Reaches`) |
| `MapBegin`, `MapEnd` (`MapFromGlobalReserve`, `MapRegion`, `MapFails`) | `_rpmalloc_span_map`, `_rpmalloc_span_map_aligned_count`, 1182-1251 |
| `Free` | `_rpmalloc_deallocate_large`, 2505-2554, and `_rpmalloc_heap_cache_insert`, 1697-1746 |
| `SpillOne`, `KeepOne` | what `_rpmalloc_global_cache_insert_spans` does outside its lock and in its second critical section, 1493-1536 |
| `HeapBegin`, `HeapCreate`, `HeapFails`, `HeapAdopt`, `HeapLeave`, `HeapOrphan` | 1911-2065 |
| `FinalizeReserve` .. `FinalizeEnd` | `rpmalloc_finalize`, 2994-3039, with `FinalizeReserved` and `FinalizeThreadCache` for the reserve and the caches of a heap, 2072-2126 |
| `FreeLate`, `CloseHeap` | frees after finalisation, 1699-1702 and 1649-1694 |

Abstractions: a heap stands for the thread that owns it; each heap is the first
of its group (the other heaps of a group are orphans from the start and map
nothing), `HeapSpans` being the group's spans also where a huge page makes the
group larger; the early caches of the size classes belong to `cached`, so that
`Free` may choose the reserve although they hold spans; a section under the
global lock is split between taking the lock and the work; mapping fails when
the regions of the configuration are used up, which is thereby the bound on
memory; a slot of the global cache that `KeepOne` replaces may be any replaceable
one, and a full search may miss it.

### RpSizes: the arithmetic

One block, and every sequence of `rpmalloc`, aligned allocation, `rprealloc`,
`rpaligned_realloc` with its two flags, and free. The set-up of the size classes
is a recursive function (`Adjusted`) that follows the loop of
`rpmalloc_initialize_config` and the merging of `_rpmalloc_adjust_size_class`.
Offsets are from the span, which is aligned to its size; `Blocks(size)` is the
set of blocks an allocation may return, larger runs of cached spans included. A
mapping for an alignment beyond a page starts at a multiple of the span size only
if it is at least that large (938), otherwise at any page (`Bases`). `Suits` is the
test of 2384 with its three clauses, `MappedFor` the search that maps one page more
each time; when every try up to the limit is refused its result is `None` (EINVAL).
`copied` is what a reallocation moved.

### LuaGC: the incremental collector

Lines are of `src/premake/src/host/lua-5.1.4/src/`: `lgc.c`, `lfunc.c` and the
operations of `lapi.c`, `lvm.c`, `lstring.c`, `ldo.c` that allocate or store
references. The program and the collector take turns on one thread: an increment
(`singlestep`) runs only inside `luaC_checkGC`, so an operation of the program is
one step and so is `singlestep`'s smallest unit (one gray object, one swept
object, one finalizer). An address holds an object of any kind and is used again
after it was freed. A table has one entry, a function one upvalue, a value that
is no object is None, and the collector's lists are sets: what tells the
properties apart is which list an object is in, not where.

The collector's part follows `gcstate`: the start of a cycle (`markroot`),
propagation, the atomic step (`atomic`: open upvalues of dead threads, weak
tables, `luaC_separateudata`, the flip of the current white), the sweep, the
finalizers (`GCTM`), and `luaC_fullgc`. The program's part: new objects of each
kind (`luaC_link`, `luaC_linkupval`), interned strings that are found again and
perhaps brought back to life, stores into tables, upvalues, environments and
metatables with `luaC_barrierback` or `luaC_barrierf`, opening and closing
upvalues, coroutines that are created, resumed and yield.

`LateGC` says whether the program gives a userdata its `__gc` only after making
it; the runs say no, see section 7.

### MaJobQueue: slots, list and job threads

Lines are of `src/miniaudio/miniaudio.h`, here and for the next module. The
default build changes the list under a spin lock, so `Link` and `Take` are one
step; the slot allocator is lock-free and its bit, its counter and its second
pass over the groups are steps of their own.

| actions | code |
|---|---|
| `ClaimBit`, `NextGroup`, `Retry`, `CountSlot` | `ma_slot_allocator_alloc`, 17332-17393 |
| `FreeBit`, `FreeCount` | `ma_slot_allocator_free`, 17395-17419 |
| `Call`, `Refuse`, `Write`, `Link`, `Signal` | `ma_job_queue_post`, 17747-17816 |
| `Wait`, `TakeNothing`, `TakeJob`, `AfterFree` | `ma_job_queue_next`, 17818-17895 |
| `Process` | `ma_resource_manager_job_thread`, 68243-68253; a job may post one more (`Follow`) |
| `PostNext`, `Leave`, `Join` | the application's posts (`Scripts`), and `ma_resource_manager_uninit`, 68433-68466 |

`count` is the allocator's counter, `taken` its bits: the groups are whole, so
with a capacity that is no multiple of the group's size some bits stand for no
slot. `chain` and `dropped` are history: the slots as linked, and the jobs whose
post was refused. Reference counts in slot numbers are left out: under the lock
they decide nothing. A slot number has 16 bits in the code and any size in the
model: a capacity beyond 65535 is outside of what the code's masks can tell apart.

`JobFifo` is the promise: an accepted job is handed to one taker, in the order of
acceptance. The refinement maps the list behind the dummy to its `queue`.

### MaResource: who holds the file's data

A data buffer is what the application plays; the node behind it, found in a tree
by the name of the file, is shared by the buffers of that file and counts them.
Two kinds of objects, each with an order counter and an order pointer, are worked
on by jobs: LOAD, PAGE and FREE of the node, LOAD and FREE of a buffer. A job
whose turn has not come is posted again.

| actions | code |
|---|---|
| `InitBegin` .. `InitEnd` | `ma_resource_manager_data_buffer_init_ex_internal`, 69382-69551, with `AcquireOld`, `AcquireNew`, `AcquireBack` for the section under the tree's lock, 68944-69062 |
| `UninitBegin`, `Uninit`, `Cancel`, `UninitEnd` | `ma_resource_manager_data_buffer_uninit`, 69614-69660 |
| `Unacquire`, `Drop`, `Abandon` | `ma_resource_manager_data_buffer_node_unacquire`, 69225-69319 |
| `Take`, `OutOfTurn` | the job thread, and the first lines of every handler |
| `NodeBegin`, `Open`, `Decode`, `NextPage`, `Finish`, `Publish`, `Fences`, `Advance` | the handlers of LOAD and PAGE, 71066-71334 |
| `FreeNode` | FREE_DATA_BUFFER_NODE, 71229-71259 |
| `BufferBegin`, `Connect`, `Look`, then as above | LOAD_DATA_BUFFER, 71343-71438 |
| `FreeBuffer`, `Unacquire`, `Notify` | FREE_DATA_BUFFER, 71441-71470 |

A step is one access to a field other threads read. With WAIT_INIT the thread
that initialises runs the job itself, for a new node under the tree's lock; then
the same handler actions are its steps. A thread is named after its buffer and a
node after the buffer that made it. `phase` is history. The file has at most
`MaxPages` pages, so opening, every page and the end of the file are distinct
events; failures are a choice of the environment (`config.fails`). Two of them
keep something for good: a connector of loaded data that cannot be made ends the
initialisation with the node's reference kept (`CheckLoaded`, to the place `failed`;
69462-69466), and a decoder that cannot tell its length is left open, `"lost"`
(`Open`; 68779-68782). `KeptOnFailure`, a part of `CountsExact`, says that nothing
else does, and `Settled` counts such a failed buffer among those that have a node.
The post never fails: what a refused post does is in section 7.

### WebPWorker and WebPFrame: rows through a second thread

`WebPWorker` (`src/libwebp/src/utils/thread_utils.c`) is the hand-over between
the main thread and the worker: `status_`, one mutex, one condition variable both
wait on. A step is what a thread does between two calls of the pthread library,
spurious wake-ups and a thread that cannot be created included. `WebPFrame`
(`src/libwebp/src/dec/frame_dec.c`, `vp8_dec.c`, `idec_dec.c`) is its user: the
main thread parses a row of macroblocks into one of two buffers, waits for the
worker (Sync), swaps the buffers, and launches the worker on the row; the worker
reconstructs it into one of up to three cache lines, filters it and puts it out,
holding back the last pixel rows, which need the next row to be filtered. A row
has no content but its number: each buffer holds the number of the row it was
last filled for, so a property can tell whether the worker works on the row it
was given. The incremental decoder may suspend before any row.

`RowOutput` is the promise: rows go out one by one from the first, none after a
refusal or the end, and decoding succeeds only when all went out.

## 4. What the runs show

| run | instance | states | shows |
|---|---|---|---|
| `rpspan_two_heaps` | 3 threads, 2 heaps, 2 spans of 3 blocks, cache of 1 | 601,925 | no block or span in two places or lost (`BlocksInOnePlace`, `SpansInOnePlace`), released spans untouched (`IdleSpansUntouched`), full spans counted, with heaps changing owners |
| `rpspan_live` | 3 threads, 2 heaps, 1 span of 3 blocks | 19,913 | the counters the release decision compares are exact; calls end once nobody interferes; `RpSpan` implements `BlockPool` |
| `superspan` | 2 heaps, up to 3 regions, four configurations | 598,012 | spans are disjoint, regions whole until their last span goes (`RegionsWhole`), nothing left mapped, one mapper at a time |
| `sizes` | span 128, page 32, header 8 | 6,497 | extent, alignment (EINVAL never), free finds the block, classes merged, contents preserved by realloc |
| `lua_gc` | 4 addresses, five programs | 501,706 | nothing reachable is freed, black never refers to white, gray objects in one list, finalizers once and first |
| `lua_gc_live` | 3 addresses, a program of every kind of object | 37,198 | garbage is freed, whatever the program does meanwhile |
| `ma_job_queue` | 2 posting threads, 2 job threads, 3 slots in groups of 2 | 486,531 | slots have one owner, bits, counter, list and semaphore agree, first in, first out; QUIT ends every thread unless its post was refused |
| `ma_resource` | 2 buffers of one file, up to 2 job threads, 1 page, four groups of settings | 837,283 | a freed node is held and used by nobody; references, fences, decoder given up once, and kept only by the two failures (`CountsExact`); everything settles |
| `webp_frame` | 5 rows, with and without worker, filter, suspension | 29,082 | the worker finds the row it was given, the caller gets no row outside his call, `RowOutput`, decoding ends |
| `superspan_main_thread`, `ma_job_queue_quit`, `ma_resource_two_threads` | | | disagreements, section 7 |

**Bounds.** They are the smallest at which the cases of interest occur.
- RpSpan: a race needs the owner and two remote threads (two may compete for the
  lock while the owner looks at the counters); three blocks give a span a first
  page, a second one, and a middle block; two heaps and spans let a span and a
  heap change hands. Threads, heaps and spans are interchangeable (`Symmetry`);
  the run with temporal properties uses no symmetry.
- RpSuperSpan: three regions allow a reserve of one to be replaced by another
  while the heap's own memory is a third; cache limits of 0 to 2 make every
  insertion path run. `SingleSpans` has a global reserve, `Default` none (a heap
  reserves all it maps), `HugePages` maps two spans at a time so that the global
  cache overflows instead of unmapping, `Replaced` has reserves too small for a
  request.
- RpSizes: a span still holds classes with equal block counts to merge (5, 3, 3,
  2, 2 blocks), a large run of 3 spans has larger neighbours, and `Slots` tries
  the first two blocks and the last of a span.
- LuaGC: a barrier is missed with an object already traversed, one not yet, and a
  place to hide the reference, besides the main thread: four addresses. Each
  program uses the kinds one hazard needs: a coroutine sharing an upvalue with a
  closure, closures with environments, a weak table with a string, weak tables
  with userdata and finalizers (by key, by value, the latter with forced
  collections).
- MaJobQueue: three slots are the dummy and two jobs, so that two posters fill
  the queue, and a group of two bits leaves a fourth bit that stands for no slot;
  the scripts post more jobs than fit and one of them posts another.
- MaResource: two buffers let one thread give the node up while another acquires
  or uses it; one page is a page between the opening and the end. The groups of
  settings are those in which `NodeHeld` and `FencesExact` do not already fail by
  what section 7 says: one job thread (the default of `jobThreadCount`) with
  WAIT_INIT or with failures, two where nothing is decoded in pages, or where the
  application waits for the load before it gives a buffer up.
- WebPFrame: five rows use the three cache lines once and wrap around.

`CHECK_DEADLOCK FALSE` is in the configurations of systems that end: rpmalloc
after finalisation, a Lua program that makes no more objects, the job queue and
the resource manager after their shutdown or when the application does nothing.

Every property of a passing run has a mutant in `PROJECT.json` ("mutants"): a
slip of the code, kept beside the definition it replaces, that TLC catches with
that property.

**Fairness.**
- RpSpan: a thread inside malloc or free is scheduled again (weak fairness of
  `Continue`), as an operating system does. No fairness is asked of entering a
  call, and none that gets a thread the spin lock while others keep taking it:
  `EndsWhenAlone` is stated for the case that the others stop, because the code
  promises no more (it is obstruction-free, a spinner may starve).
- LuaGC: the collector is run again and again, as `luaC_checkGC` does while the
  program allocates; nothing is asked of the program.
- MaJobQueue, MaResource: weak fairness of each thread's steps. `MaResource`
  asks nothing of `InitBegin` and `UninitBegin`: an application need not start or
  give up a buffer. Job threads spin through jobs out of turn, which is why
  `Settles` says that this ends.
- WebPFrame: weak fairness of each thread, and strong fairness of taking the
  mutex, which the other thread takes and gives back repeatedly; a pthread mutex
  on which a thread waits for ever is not one an operating system provides.

## 5. What is proved

With TLAPS, for any values of the constants the assumptions of the modules allow.

**RpSpan** (any threads, heaps, spans, block counts). Everything the runs check but
liveness. `Invariance`: `IInv` is inductive, hence `TypeCorrect`, `BlocksAccounted`
(no block in two places, none lost), `CountersAreExact`, `ReleaseSafe` (idle spans
untouched) and `DeferredLock`. The safety properties are not inductive as they
stand. That a released span has no block in use follows from `used_count =
list_size` only because both counters are exact; those are exact only because one
thread has the deferred list while it is INVALID (`DeferredListExclusive`), because
each thread on its way carries a block of its own (`CarryDistinct`), and because
what a thread found at its last step is still so (`ThreadInv`: the owner's span
stays in its partial list, a span found empty stays empty). `HeapInv` ties a class
free list to the heap of the span. `UnlistedFull` gives the meaning of being in
no list: the owner's test for "full" at the next free is right; `PartialUseful`
is what the refill relies on. A stale read of `list_size` is at most the current
one; equal to `used_count` it must be the current one, since `used_count` is at
least it: this is why the unsynchronised read is safe, and the `sync` step
(waiting for the last remote free to leave the list) is why releasing is.

Three results rest on that invariant. `SpansAccounted`: a span is in one place, and
one in no list has a block out whose free brings it back. Its heart is `Emptied`: a
span all of whose blocks are deferred has been, or is being, pushed by the thread
that deferred the last. `FullCountExact`: `full_span_count` follows the set of full
spans step by step, also where a remote free emptied a span long before its owner
adopts it. `SpanImplementsBlockPool`: each step is a stutter of `BlockPool` or one of
its `Claim` (a span leaves cache or pool), `Malloc`, `Free` and `GiveBack` (the push
or the release that makes the span idle).

**RpSuperSpan** (any heaps, regions, configurations). `MapperAlone`: one thread at
a time maps or makes a heap and holds the lock while it does, if the main thread
waits for the lock too (`Main = None`); the invariant only adds the range of `pc`.

`SpanTypes` and `SpansApart` hold for all constants. The invariant, `SpanInv`, says
what each thread has at its place (`Threads`), what finalisation has emptied at each of its
stages (`Emptied`), that the sets of spans in all caches, reserves and hands are apart from
each other (`Separate`), and that the spans somebody has are `Regular`: they lie in
their region, overlap nowhere, and the master's counters are at least what is left.
Most steps only hand spans from one place to another (`Hands`) or unmap some
(`Unbooked`); the steps that cut a span or a new region (`CutBooks`, `CutTwice`,
`NewRegion`) carry the arithmetic, alignment of a region to its spans included.

`RegionsCounted` (a region goes with its last span, and keeps its master until
then) and `AllUnmapped` (finalisation leaves nothing mapped) are stated with two
assumptions, because without them they are false. `GlobalCache`: with the global
cache off, finalisation can unmap masters early. `NoLoss`: no heap is made in a
page so large that what is left of it exceeds the heaps' spans and a heap reserve
together, as otherwise a global reserve is overwritten (section 7). Under `NoLoss`
the counters of `Regular` are equal to what is left, not only at least that; under
`GlobalCache` each mapped region has its master in some list that only
finalisation empties (`Masters`). A theorem here speaks of `MapEnd` as one step,
which it is for whoever has the lock: not for a thread that maps while the main
thread breaks the lock (first item of section 7).

**RpSizes** (any span, page and header sizes, class counts, alignments and request
sizes that meet the library's static assertions and the bounds it enforces). All six
properties: `SizesTypes`, `RequestHeld`, `BlockFound`, `AlignmentKept`,
`MergedAllTheWay` and, about steps, `ContentsKept`. The invariant is that the block is
`Good` for its alignment and size: what its span's header says is its extent, and the
pointer is in it. `SizesTypes` includes that a block lies in the memory it was cut
from: its unit of the span, its run of spans, or its mapping. From `Good`
`FoundAgain` computes the extent back; `BlocksGood` and `AlignedBlocksGood` establish
it for each kind of block. For an alignment beyond a page the search may be refused,
for any of the three clauses of 2384, as long as the mapping is smaller than a span
and starts at a page of the system's choice. `MappedForGood` shows that the last
mapping it tries is aligned and large enough, so that the search ends before its
limit and EINVAL is not an outcome (`AlignmentKept`).
`KeptHolds` shows that realloc's mistaken mask (section 7) never keeps too small a
block. The table of size classes is a recursive function; that it exists
(`TablesExist`) and what it holds after n classes (`Merged`) is shown with the least
number for which it fails, as a set of numbers has a least member.

**LuaGC** (any addresses, slots, programs). The safety properties the runs check:
`GCTypes`, `CollectorSafe` (nothing reachable is freed or marked dead), `BlackSafe`
(the tri-colour invariant), `GrayListed`, `FinalizersOnce`. One inductive invariant,
by phase of the collector:
- always, what is alive (allocated, and not of the white that the sweep frees) refers
  to what is alive and of the right kind (`AliveSound`), and threads and open
  upvalues, which the program writes without a barrier, are never black (`OpenSound`);
- while it marks nothing is dead, and no black object refers to a white one, weak
  references included, except from userdata that wait for their finalizer
  (`MarkSound`);
- otherwise everything is white that the sweep has passed (`SweepSound`): what is
  not still waits for the sweep, by itself or with its thread.
The atomic step leads from the second to the third. `SurvivorsClosed` is that
step: the objects marked before the flip are closed under references, because the
roots, the stacks and the upvalues of dead threads are marked again, the weak
entries of the unmarked cleared, and the userdata to be finalized kept with all
they reach; reachability enters only as the smallest set closed under references
with the roots in it, so that no induction is needed. `FinalizersOnce` has its own
invariant (`Finalizing`) and is stated for `LateGC = FALSE`, the case in which the
code keeps it (section 7). The assumptions that `None` is no span and no pair of
object and slot are about the encoding only.

**MaJobQueue** (any capacity, group size, clients, job threads, jobs, scripts).
`QueueTypes`, `SlotsHaveOneOwner`, `CounterIsExact`, `SemaphoreIsExact`, and
`QueueIsFifo`: the queue implements `JobFifo`. The invariant adds what a thread
knows at each step (`Local`): a slot it writes is a slot and set, the slot it
links is terminated and has its job. The counter is not the number of bits set
but that number corrected by the threads between the two (`CountsBits`); with one
owner per slot an injection from those threads into the bits shows that it is
positive whenever `free` looks (`CountPositive`), which is why no slot is lost.
The list's order (`ListInOrder`) ties `next` to the history `chain`, from which
the refinement follows step by step: only `Link`, `TakeJob` and the end of a job
are steps of `JobFifo`.

**MaResource** (any number of buffers, job threads and pages, every set of
settings). `ResourceTypes`, `ReferencesExact` (a node's count is the number of
buffers that hold it, and the tree has it while there are any) and
`HoldersServed` (a node that is held is not freed) follow from `ResourceInvariant`.
The count is exact only if nobody gives back what he does not hold; that needs to
know where every thread is and which job it has (`Places`), that a buffer being
given up has one job for it, in the queue or with one thread (`Given`,
`GivenOnce`), and that its thread waits meanwhile. A node to be freed has no
references and is out of the tree, so that nobody finds it again (`Unheld`); a
node being loaded in place is its maker's alone, because he has the lock
(`Locked`). Most steps move no reference: `QuietKeeps` proves the invariant for
all of them from what they have in common, and a lemma for each shows that it is
such a step; the five that take or give a reference, or take a job, have proofs
of their own. These theorems hold also where `NodeHeld` fails: it is the jobs that
use the node too long there, not the buffers.

`CountsAreExact` is `CountsExact`: references, fences, decoder, and what failures
keep. The queued jobs
and the actors at work are sets that a step changes by at most one element
(`OneMoved`, `CountsChange`), so that most steps leave every count as it is
(`OtherCounts`) and the few that do not have a lemma each. The invariant
(`CountsInv`) says why no count is paid twice: a node's load is in one place at a
time, queued, under way or handed on to its next page (`LoadOnce`), so that the
decoder goes with it (`DecoderOwnedOnce`: a carried decoder has one job, which
frees it once); a buffer has at most one job of its
own, and none before its thread has looked at the node (`OwnOnce`); success is
stored only after the connector was made, when the init fence was released
(`Announced`), so that the end of the job knows whether it still has to. A
failure in place would release twice: `FencesStayExact` therefore speaks of the
configurations in which jobs in place do not fail (`Careful`), and `CountsAreExact`
assumes that of `Configs`. In these `Sound`, `NoError` and `InPlace` show that the
two failing branches of the caller (69046, 69512) are not taken: the node of a
buffer that is being initialised has a reference, hence was not given up. The
types, the references and the decoder need no such hypothesis.

`KeptOnlyOnFailure` is the part of `CountsExact` about what is never given back: a
buffer that is over still has its node's reference only if the connector of loaded
data could not be made, and a decoder is lost only where it could not tell its
length. It takes an invariant of its own (`KeptInv`), because with WAIT_INIT one
notification ends two waits, that of the initialisation and that of uninit. A thread
in uninit is woken only after its node was given back (`Awoken`): a buffer that goes
on with its node has its connector by then (`Told`), so its load job, still to end,
signals no more (`Answered`), and the job left to signal is the one that gave the
node back (`Returned`).

`NodeIsHeld` is `NodeHeld`: a freed node is held by nobody and used by no job, in the
queue or under way. The code relies on execution orders for it: FREE_DATA_BUFFER_NODE
runs after every job with a lower order. `TurnsInvariant` has what that needs for every
setting: an order is handed out once, lies between the two counters while its job is
to come, and equals the pointer while the job is processed (`Turns`), so that no two
jobs of a node are processed at once (`TurnAlone`); a node that is done has no load
under way (`NodeDone`), so that the last holder who finds a result may free it on the
spot; and one actor at a time gives a node up (`DropAlone`). What remains is that the
job that frees has the last order (`LastJob`), and that is false in the setting of
`ma_resource_two_threads`. It is proved, and `NodeHeldInOrder` stated, for the settings
in which nobody can give a node up between a job's look at its result and the order
the job takes for the next page (`Orderly`), each for a reason of its own
(`NobodyGivesUp`): with one job thread the thread is busy with the page; without
the DECODE flag there are no pages (`NoPages`); an application that waits
on the done fence, and whose loads succeed, posts no FREE_DATA_BUFFER
(`NeverGivenUp`); and a thread that loads in place holds the node itself. `Orderly`
includes `Careful`, under which a buffer's job finds the node held
(`OwnHolds`) and a buffer is ready only when its node is (`Ready`). `NodeIsHeld` assumes
of `Configs` that every setting is `Orderly`, which is true of the configurations that
`ma_resource` checks.

**WebPWorker, WebPFrame** (any height). `FrameTypes`: type correctness.
`WorkerInvariant`: who has the mutex and
which status and operation go with each pair of places, for any program that
uses the worker; from it, that the hook runs only between Launch and the return
of Sync. `FrameImplementsRowOutput`, `RowsIntact` and `NoneOutside` use it through
`NextUsesWorker`. The decoder's own invariant (`FrameInv`) says which row is in
each buffer and cache line, how the lines follow each other modulo the number of
caches, and how many rows are out; it is relative to whether a row is pending,
which the worker's invariant decides. `FrameJobOnlyWhileLaunched` and
`FrameThreadWhileImpl` carry the worker's two guarantees over to the decoder.

## 6. What is only model-checked

Liveness (out of the prover's reach): `EndsWhenAlone`, `GarbageFreed`, `Settles`,
`DecodeEnds` and the end of the job threads. Every other property of a passing run
is stated by a theorem, with the hypotheses section 5 names.

## 7. Where code and text disagree

Three have a run with "expect": "violation", and an entry under "findings".

1. `superspan_main_thread`: the main thread does not take `_memory_global_lock`
   when it releases its heap (2059) but stores 0 in it (2064). A thread that maps
   at that time then works without the lock (assertion at 1205). The comment
   there gives the reason, a thread killed inside the lock; the run is about
   threads that are not killed.
2. `ma_job_queue_quit`: `ma_resource_manager_uninit` ignores the result of posting
   QUIT (68443); with a full queue the post is refused and the job threads never
   end. The same goes for the re-post in `ma_job_queue_next` (17890).
3. `ma_resource_two_threads`: the LOAD job looks at the node's result (71092) and
   takes the order of the first page (71157) in two steps. With two job threads
   the last buffer can be given up in between, and FREE gets the lower order: the
   node is freed with a PAGE job still to run.

Others were met while modelling. The models do what the code does, or leave the
case out, and no run is about them:

- rpmalloc: `_memory_span_mask - 1` (2631) should be `_memory_span_size - 1`: a
  large block with exactly enough room is not grown in place, and with
  `RPMALLOC_GROW_OR_FAIL` that is a failure.
- rpmalloc: with `ENABLE_GLOBAL_CACHE` 0, finalisation can take the last spans off
  a region without releasing it (3001).
- rpmalloc: after `rpmalloc_finalize` the last small block freed unmaps its span
  (1304) but not its heap, where `src/rpmalloc/README.md`:161 says that blocks
  freed late are unmapped immediately.
- rpmalloc: making heaps in a huge page stores the rest of the region over a global
  reserve that was not empty (1982), which `_rpmalloc_span_map_aligned_count`
  unmaps first. It needs pages larger than the heaps' spans and one heap reserve
  together, which no configuration here has.
- Lua: a userdata that gets its `__gc` after a finalizer brought it back may be
  freed without its own (`luaC_separateudata`, lgc.c:137); `LateGC = TRUE` has it.
  The manual lets finalizers be called for userdata "with a field `__gc` in their
  metatables".
- Lua: the assertion of `luaC_barrierf` (lgc.c:665) does not hold while finalizers
  run: a userdata that is the key of a weak table is still black then and may be
  given a metatable. It does no harm, the object is swept white.
- miniaudio: a queue of capacity N holds N-1 jobs, one slot being the dummy, and
  an allocation that looks while the bits beyond the last slot are taken is
  refused although a slot is free.
- miniaudio: after the result is published or the notification signalled, a job
  still stores the execution pointer in a buffer or node that its owner may have
  freed (71219, 71257, 71331, 71437, 71468), against the comments at 71248 and
  71459, "The event needs to be signalled last."
- miniaudio: with WAIT_INIT a load that fails has released the fences when its
  caller releases them again (69046, 69512), which the assertion at 16962 forbids.
  In every other configuration the fences are exact (`FencesStayExact`).
- miniaudio: a job that comes back and finds the queue full is dropped (71088,
  71243, 71276, 71356, 71409, 71454), and whoever waits for it does so for ever.
- miniaudio: a failing synchronous load removes its node outside the lock (69203);
  a second synchronous acquirer initialises its connector on a node still loading
  (69460); when a later job thread cannot be created (68399), the earlier ones are
  not ended.
- miniaudio: an initialisation that finds the data loaded and cannot make the
  connector returns the error without giving the node back (69462-69466), and a
  decoder that was opened and cannot tell its length is neither closed nor handed on
  (68779-68782). The model has both (`KeptOnFailure`).

## 8. Not modelled

In the modelled components:
- weak memory orders: the atomics are sequentially consistent, and the one
  deliberately racy read a stale value; TLC has no notion of the C11 orders;
- rpmalloc: the finalisation of spans that have free blocks (1391-1429, called at
  2097-2110) and frees of small blocks after it, first-class heaps (an optional
  build), statistics, groups of heaps
  (`child_count`, `master_heap`), size overflow of `size + alignment` (a
  precondition, checked only with `ENABLE_VALIDATE_ARGS`);
- Lua: metatables of tables as objects, prototypes, the array part of tables,
  `lua_close`, and the arithmetic that decides when the collector runs;
- job queue: the experimental lock-free build (17846) and reference counts in slot
  numbers, which decide nothing under the lock;
- resource manager: loading without ASYNC, registered data, streams, data sources,
  application notifications (they are signalled with the fences), several files,
  refused posts;
- libwebp: `mt_method_` 1 (`VP8GetThreadMethod` returns 0 or 2), headers and partitions
  before the first row, the lossless path, bytes of the memory buffer, and the
  error code, which both threads may write through `VP8SetError`.

Components left out, and why:
- miniaudio's ring buffer, node graph, devices and backends: the ring is index
  arithmetic with one writer per offset; the rest is numerical code around the
  operating system's audio calls. The attach/detach locks and the start/stop
  events are protocols that would be worth a model of their own;
- LiquidFun's allocators, broad phase and contacts, GLFW's input: sequential code
  on one thread; the concurrent components were preferred;
- LiquidFun's solver, codecs, DSP, msdfgen, xxHash: arithmetic on floats, words
  and byte streams, without a state machine worth the model;
- GLFW's platform code, the Lua interpreter, premake: calls into the system, and
  sequential language processing.
