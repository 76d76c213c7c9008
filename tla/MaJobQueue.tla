----------------------------- MODULE MaJobQueue -----------------------------
(***************************************************************************)
(* miniaudio's job queue (miniaudio.h): a slot allocator of bit groups, a  *)
(* linked list of slots whose first is a dummy, a semaphore that counts    *)
(* the linked jobs, and the threads that post, take and process jobs until *)
(* a QUIT job reaches them.  The default build: the list is changed under  *)
(* a spin lock (so a locked region is one step), the slots are not.        *)
(***************************************************************************)
EXTENDS Integers, Sequences, FiniteSets

CONSTANTS
  Capacity,     \* jobQueueCapacity: slots of the queue
  GroupBits,    \* slots of a bit group, 32 in the code
  Client,       \* threads that post jobs
  Main,         \* the client that shuts the queue down
  Worker,       \* job threads
  Job,          \* jobs other than QUIT
  QUIT, NoJob,
  Follow,       \* Follow[j]: the job that processing j posts, or NoJob
  Scripts       \* the posts the clients may make: functions Client -> Seq

ASSUME QueueAssumption ==
  /\ Capacity \in Nat \ {0} /\ GroupBits \in Nat \ {0}
  /\ IsFiniteSet(Client) /\ IsFiniteSet(Worker) /\ Client \cap Worker = {}
  /\ Main \in Client
  /\ QUIT \notin Job /\ NoJob \notin Job \cup {QUIT}
  /\ Follow \in [Job -> Job \cup {NoJob}]
  /\ Scripts \subseteq [Client -> Seq(Job \cup {QUIT})]

Thread == Client \cup Worker
AnyJob == Job \cup {QUIT}
Slot == 0 .. Capacity - 1
None == -1                            \* MA_JOB_ID_NONE

\* Groups are whole: the last one may hold bits that stand for no slot
GroupCount == Capacity \div GroupBits + IF Capacity % GroupBits = 0 THEN 0 ELSE 1
Group(g) == g * GroupBits .. g * GroupBits + GroupBits - 1
Bit == UNION {Group(g) : g \in 0 .. GroupCount - 1}

VARIABLES
  blocking,  \* the queue was made without MA_JOB_QUEUE_FLAG_NON_BLOCKING
  taken,     \* bits set in the groups
  count,     \* ma_slot_allocator.count
  data,      \* slot -> the job in it
  next,      \* slot -> the slot after it in the list, or None
  head,      \* the dummy slot at the front of the list
  tail,
  sem,       \* the semaphore's value
  pc,        \* thread -> the step it is about to make
  arg,       \* thread -> the job it posts
  got,       \* thread -> the job it took last
  slot,      \* thread -> the slot it was given, or has to free
  group,     \* thread -> the group it looks into
  attempt,   \* thread -> the pass over the groups, 1 or 2
  script,    \* client -> the jobs it has still to post
  chain,     \* history: the slots from head to tail, as linked
  dropped    \* history: jobs whose post was refused

allocator == <<taken, count>>
list == <<data, next, head, tail, chain>>
locals == <<arg, got, slot, group, attempt>>
vars == <<blocking, allocator, list, sem, pc, locals, script, dropped>>

Init ==
  /\ blocking \in BOOLEAN
  /\ taken = {0} /\ count = 1
  /\ data = [s \in Slot |-> QUIT]     \* zeroed memory, and QUIT is job type 0
  /\ next = [s \in Slot |-> IF s = 0 THEN None ELSE 0]
  /\ head = 0 /\ tail = 0 /\ chain = <<0>>
  /\ sem = 0
  /\ pc = [t \in Thread |-> IF t \in Client THEN "idle" ELSE "next"]
  /\ arg = [t \in Thread |-> NoJob] /\ got = [t \in Thread |-> NoJob]
  /\ slot = [t \in Thread |-> None]
  /\ group = [t \in Thread |-> 0] /\ attempt = [t \in Thread |-> 1]
  /\ script \in Scripts
  /\ dropped = {}

At(t, step) == pc[t] = step
Goto(t, step) == pc' = [pc EXCEPT ![t] = step]

---------------------------------------------------------------------------
(* ma_job_queue_post *)

\* Where a thread goes on when its post returns, whatever the result
AfterPost(t) ==
  IF t \in Client THEN "idle" ELSE IF arg[t] = QUIT THEN "over" ELSE "next"

\* The call: ma_slot_allocator_alloc starts at the first group
Call(t, j) ==
  /\ Goto(t, "claim")
  /\ arg' = [arg EXCEPT ![t] = j]
  /\ group' = [group EXCEPT ![t] = 0] /\ attempt' = [attempt EXCEPT ![t] = 1]

\* The post is refused: MA_OUT_OF_MEMORY
Refuse(t) ==
  /\ Goto(t, AfterPost(t))
  /\ dropped' = dropped \cup {arg[t]}

\* The lowest clear bit of the group is set: a failed swap tries again, so
\* the step is the swap that succeeds
ClaimBit(t) ==
  /\ At(t, "claim")
  /\ \E s \in Group(group[t]) \ taken :
       /\ \A r \in Group(group[t]) \ taken : s <= r
       /\ taken' = taken \cup {s}
       /\ slot' = [slot EXCEPT ![t] = s]
  /\ Goto(t, "count")
  /\ UNCHANGED <<blocking, count, list, sem, arg, got, group, attempt, script, dropped>>

NextGroup(t) ==
  /\ At(t, "claim") /\ Group(group[t]) \subseteq taken
  /\ group' = [group EXCEPT ![t] = @ + 1]
  /\ Goto(t, IF group[t] + 1 < GroupCount THEN "claim" ELSE "full")
  /\ UNCHANGED <<blocking, allocator, list, sem, arg, got, slot, attempt, script, dropped>>

\* One more pass over the groups, when the counter says that a slot is free
Retry(t) ==
  /\ At(t, "full")
  /\ IF count < Capacity /\ attempt[t] = 1
     THEN /\ group' = [group EXCEPT ![t] = 0] /\ attempt' = [attempt EXCEPT ![t] = 2]
          /\ Goto(t, "claim") /\ UNCHANGED dropped
     ELSE Refuse(t) /\ UNCHANGED <<group, attempt>>
  /\ UNCHANGED <<blocking, allocator, list, sem, arg, got, slot, script>>

\* Mutant: the counter is left alone when the slot is past the capacity
CountsInRange(t) ==
  /\ At(t, "count")
  /\ IF slot[t] < Capacity
     THEN count' = count + 1 /\ Goto(t, "write") /\ UNCHANGED dropped
     ELSE Refuse(t) /\ UNCHANGED count
  /\ UNCHANGED <<blocking, taken, list, sem, locals, script>>

\* Mutant: the check lets one slot past the end through
CountsOnePastEnd(t) ==
  /\ At(t, "count")
  /\ count' = count + 1
  /\ IF slot[t] <= Capacity THEN Goto(t, "write") /\ UNCHANGED dropped ELSE Refuse(t)
  /\ UNCHANGED <<blocking, taken, list, sem, locals, script>>

\* A bit past the capacity stays set and counted, and the post is refused
CountSlot(t) ==
  /\ At(t, "count")
  /\ count' = count + 1
  /\ IF slot[t] < Capacity THEN Goto(t, "write") /\ UNCHANGED dropped ELSE Refuse(t)
  /\ UNCHANGED <<blocking, taken, list, sem, locals, script>>

Write(t) ==
  /\ At(t, "write")
  /\ data' = [data EXCEPT ![slot[t]] = arg[t]]
  /\ next' = [next EXCEPT ![slot[t]] = None]
  /\ Goto(t, "link")
  /\ UNCHANGED <<blocking, allocator, head, tail, chain, sem, locals, script, dropped>>

\* Mutant: the semaphore is left to the next post
LinkIsSilent(t) ==
  /\ At(t, "link")
  /\ next' = [next EXCEPT ![tail] = slot[t]]
  /\ tail' = slot[t]
  /\ chain' = Append(chain, slot[t])
  /\ Goto(t, AfterPost(t))
  /\ UNCHANGED <<blocking, allocator, data, head, sem, locals, script, dropped>>

\* Under the lock tail is the last slot, so both swaps succeed at once
Link(t) ==
  /\ At(t, "link")
  /\ next' = [next EXCEPT ![tail] = slot[t]]
  /\ tail' = slot[t]
  /\ chain' = Append(chain, slot[t])
  /\ Goto(t, IF blocking THEN "signal" ELSE AfterPost(t))
  /\ UNCHANGED <<blocking, allocator, data, head, sem, locals, script, dropped>>

Signal(t) ==
  /\ At(t, "signal")
  /\ sem' = sem + 1
  /\ Goto(t, AfterPost(t))
  /\ UNCHANGED <<blocking, allocator, list, locals, script, dropped>>

Post(t) ==
  \/ ClaimBit(t) \/ NextGroup(t) \/ Retry(t) \/ CountSlot(t)
  \/ Write(t) \/ Link(t) \/ Signal(t)

---------------------------------------------------------------------------
(* ma_job_queue_next, and ma_resource_manager_job_thread around it *)

Wait(w) ==
  /\ At(w, "next")
  /\ IF blocking THEN sem > 0 /\ sem' = sem - 1 ELSE UNCHANGED sem
  /\ Goto(w, "take")
  /\ UNCHANGED <<blocking, allocator, list, locals, script, dropped>>

\* MA_NO_DATA_AVAILABLE ends a managed job thread; an application that polls
\* goes on
TakeNothing(w) ==
  /\ head = tail
  /\ Goto(w, IF blocking THEN "over" ELSE "next")
  /\ UNCHANGED <<list, got, slot>>

\* Mutant: copies the job of the dummy, which was handed out before
TakesDummyJob(w) ==
  /\ head # tail
  /\ got' = [got EXCEPT ![w] = data[head]]
  /\ slot' = [slot EXCEPT ![w] = head]
  /\ head' = next[head] /\ chain' = Tail(chain)
  /\ Goto(w, "free")
  /\ UNCHANGED <<data, next, tail>>

\* Mutant: frees the slot of the job just taken, which is the new dummy
FreesNewHead(w) ==
  /\ head # tail
  /\ got' = [got EXCEPT ![w] = data[next[head]]]
  /\ slot' = [slot EXCEPT ![w] = next[head]]
  /\ head' = next[head] /\ chain' = Tail(chain)
  /\ Goto(w, "free")
  /\ UNCHANGED <<data, next, tail>>

TakeJob(w) ==
  /\ head # tail
  /\ got' = [got EXCEPT ![w] = data[next[head]]]
  /\ slot' = [slot EXCEPT ![w] = head]
  /\ head' = next[head] /\ chain' = Tail(chain)
  /\ Goto(w, "free")
  /\ UNCHANGED <<data, next, tail>>

Take(w) ==
  /\ At(w, "take")
  /\ TakeNothing(w) \/ TakeJob(w)
  /\ UNCHANGED <<blocking, allocator, sem, arg, group, attempt, script, dropped>>

\* Mutant: QUIT is consumed by the thread that takes it
QuitConsumed(w) ==
  Goto(w, IF got[w] = QUIT THEN "over" ELSE "process") /\ UNCHANGED <<arg, group, attempt>>

\* The old dummy is freed; QUIT goes back to the queue before next returns,
\* whether that works or not
AfterFree(w) ==
  IF got[w] = QUIT THEN Call(w, QUIT)
  ELSE Goto(w, "process") /\ UNCHANGED <<arg, group, attempt>>

\* With a count of zero ma_slot_allocator_free gives up and the bit stays
FreeBit(w) ==
  /\ At(w, "free")
  /\ IF count > 0
     THEN /\ taken' = taken \ {slot[w]}
          /\ Goto(w, "uncount") /\ UNCHANGED <<arg, group, attempt>>
     ELSE AfterFree(w) /\ UNCHANGED taken
  /\ UNCHANGED <<blocking, count, list, sem, got, slot, script, dropped>>

FreeCount(w) ==
  /\ At(w, "uncount")
  /\ count' = count - 1
  /\ AfterFree(w)
  /\ UNCHANGED <<blocking, taken, list, sem, got, slot, script, dropped>>

\* ma_job_process: a job may post the one that carries on its work
Process(w) ==
  /\ At(w, "process")
  /\ IF Follow[got[w]] = NoJob
     THEN Goto(w, "next") /\ UNCHANGED <<arg, group, attempt>>
     ELSE Call(w, Follow[got[w]])
  /\ UNCHANGED <<blocking, allocator, list, sem, got, slot, script, dropped>>

NextJob(w) == Wait(w) \/ Take(w) \/ FreeBit(w) \/ FreeCount(w) \/ Process(w)

---------------------------------------------------------------------------
(* The clients, and ma_resource_manager_uninit *)

\* Main posts QUIT only when nobody else is using the queue
PostNext(c) ==
  /\ At(c, "idle") /\ script[c] # <<>>
  /\ Head(script[c]) = QUIT => \A d \in Client \ {c} : At(d, "over")
  /\ Call(c, Head(script[c]))
  /\ script' = [script EXCEPT ![c] = Tail(@)]
  /\ UNCHANGED <<blocking, allocator, list, sem, got, slot, dropped>>

Leave(c) ==
  /\ At(c, "idle") /\ script[c] = <<>>
  /\ Goto(c, IF c = Main THEN "join" ELSE "over")
  /\ UNCHANGED <<blocking, allocator, list, sem, locals, script, dropped>>

\* ma_thread_wait for every job thread, then the queue is given up
Join(c) ==
  /\ At(c, "join") /\ \A w \in Worker : At(w, "over")
  /\ Goto(c, "over")
  /\ UNCHANGED <<blocking, allocator, list, sem, locals, script, dropped>>

ClientStep(c) == PostNext(c) \/ Leave(c) \/ Join(c)

Next ==
  \/ \E t \in Thread : Post(t)
  \/ \E w \in Worker : NextJob(w)
  \/ \E c \in Client : ClientStep(c)

Spec == Init /\ [][Next]_vars

\* The operating system runs every thread that can run
Fairness ==
  /\ \A t \in Thread : WF_vars(Post(t))
  /\ \A w \in Worker : WF_vars(NextJob(w))
  /\ \A c \in Client : WF_vars(ClientStep(c))

FairSpec == Spec /\ Fairness

---------------------------------------------------------------------------
(* Properties *)

Steps == {"idle", "claim", "count", "full", "write", "link", "signal",
          "next", "take", "free", "uncount", "process", "join", "over"}
InPost == {"claim", "count", "full", "write", "link", "signal"}

TypeOK ==
  /\ blocking \in BOOLEAN
  /\ taken \subseteq Bit /\ IsFiniteSet(taken) /\ count \in Nat
  /\ data \in [Slot -> AnyJob] /\ next \in [Slot -> Slot \cup {None}]
  /\ head \in Slot /\ tail \in Slot /\ chain \in Seq(Slot)
  /\ sem \in Nat
  /\ pc \in [Thread -> Steps]
  /\ arg \in [Thread -> AnyJob \cup {NoJob}] /\ got \in [Thread -> AnyJob \cup {NoJob}]
  /\ slot \in [Thread -> Nat \cup {None}]
  /\ group \in [Thread -> 0 .. GroupCount] /\ attempt \in [Thread -> {1, 2}]
  /\ script \in [Client -> Seq(AnyJob)]
  /\ dropped \subseteq AnyJob

At1(step) == {t \in Thread : At(t, step)}
Holders == At1("count") \cup At1("write") \cup At1("link") \cup At1("free")
Linked == {chain[i] : i \in DOMAIN chain}

\* A slot is in the list once, or held by one thread that fills or frees it,
\* never both: no job is overwritten while it waits, and no slot is given
\* out before its last reader is done with it.
OneOwner ==
  /\ \A i, k \in DOMAIN chain : chain[i] = chain[k] => i = k
  /\ \A t \in Holders : slot[t] \notin Linked
  /\ \A t, u \in Holders : slot[t] = slot[u] => t = u

\* Every bit set belongs to a slot of the list, to a thread, or to no slot
\* at all: no way through post and next loses a slot.
NoSlotLost ==
  \A s \in Slot : s \in taken <=> s \in Linked \/ \E t \in Holders : slot[t] = s

\* Together: every slot is accounted for, once
SlotsAccounted == OneOwner /\ NoSlotLost

\* The counter follows the bits, but for the threads between the two steps;
\* in particular it is not zero when a slot is freed, so that free succeeds.
CountsBits ==
  count + Cardinality(At1("count")) = Cardinality(taken) + Cardinality(At1("uncount"))
CountExact == CountsBits /\ \A w \in At1("free") : count > 0

\* head, the links and tail are one list without end markers inside
ListInOrder ==
  /\ chain # <<>> /\ chain[1] = head /\ chain[Len(chain)] = tail
  /\ \A i \in DOMAIN chain : next[chain[i]] = IF i = Len(chain) THEN None ELSE chain[i + 1]

\* The semaphore counts the linked jobs, but for posters that have still to
\* release it and takers it woke: a job thread never finds the list empty.
CountsJobs ==
  IF blocking
  THEN Len(chain) - 1 = sem + Cardinality(At1("signal")) + Cardinality(At1("take"))
  ELSE sem = 0
SemaphoreExact == CountsJobs /\ (blocking => \A w \in At1("take") : head # tail)

\* Jobs are handed out once each, unchanged, in the order they were linked
Fifo == INSTANCE JobFifo WITH
  Job <- AnyJob, Taker <- Worker,
  queue <- [i \in 1 .. Len(chain) - 1 |-> data[chain[i + 1]]],
  held <- [w \in Worker |-> IF pc[w] \in {"free", "uncount", "process"} THEN got[w] ELSE NoJob]
ImplementsFifo == Fifo!Spec

Over(w) == At(w, "over")
InQueue(j) == \E i \in 2 .. Len(chain) : data[chain[i]] = j

\* Once QUIT is in the queue every job thread ends, as long as no post of
\* QUIT was refused; with them ma_resource_manager_uninit returns.
QuitReachesAll ==
  InQueue(QUIT) ~> (QUIT \in dropped \/ ((\A w \in Worker : Over(w)) /\ Over(Main)))

\* What ma_resource_manager_uninit says of the QUIT it posts: "all threads will
\* eventually receive it", so that it returns from its wait for them.
UninitReturns == (blocking /\ At(Main, "join")) ~> At(Main, "over")

============================================================================
