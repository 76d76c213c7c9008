----------------------------- MODULE MaResource -----------------------------
(***************************************************************************)
(* miniaudio's resource manager (miniaudio.h): data buffers of one file,   *)
(* initialised with the ASYNC flag and uninitialised by their own threads; *)
(* the reference-counted node that holds the file's data; the jobs that    *)
(* load, page and free them, run by job threads or, with WAIT_INIT, in     *)
(* place by the thread that initialises.  Node and buffer each hand out    *)
(* execution orders and run their jobs in that order: a job whose turn has *)
(* not come is posted again.  The job queue is JobFifo's list with room    *)
(* for every post.  A node is named after the buffer that made it, and a   *)
(* client thread after its buffer.                                         *)
(***************************************************************************)
EXTENDS Integers, Sequences, FiniteSets

CONSTANTS
  Buffer,      \* data buffers, each used once by a thread of its own
  Worker,      \* job threads
  MaxPages,    \* bound: pages of the file
  Configs,     \* the ways the manager may be used, see Config
  Nobody       \* no actor

\* workers run; the file is decoded in pages; these buffers have WAIT_INIT;
\* opening and decoding may fail; buffers may be given up while they load
Config == [workers : SUBSET Worker, decode : BOOLEAN, wait : SUBSET Buffer,
           fails : BOOLEAN, early : BOOLEAN]

ASSUME ResourceAssumption ==
  /\ IsFiniteSet(Buffer) /\ IsFiniteSet(Worker) /\ Buffer \cap Worker = {}
  /\ Nobody \notin Buffer \cup Worker
  /\ MaxPages \in Nat
  /\ Configs \subseteq Config

Actor == Buffer \cup Worker

Result == {"busy", "success", "error", "unavailable"}
NodeKind == {"loadNode", "pageNode", "freeNode"}
BufferKind == {"loadBuffer", "freeBuffer"}
Job == [kind : NodeKind \cup BufferKind, of : Buffer, order : Nat]
NoJob == [kind |-> "none", of |-> Nobody, order |-> 0]

VARIABLES
  config,
  tree,       \* the node of the file in the tree, or Nobody
  lock,       \* who holds dataBufferBSTLock over several steps, or Nobody
  node,       \* ma_resource_manager_data_buffer_node
  buffer,     \* ma_resource_manager_data_buffer
  fence,      \* buffer -> counters of its init and done fences
  signalled,  \* buffer -> the notification its thread waits for
  queue,
  pc,         \* actor -> the step it is about to make
  job,        \* actor -> the job it processes
  res,        \* actor -> the handler's local result
  phase       \* history: buffer -> how far its thread is

shared == <<tree, lock, node, buffer, fence, signalled, queue>>
vars == <<config, shared, pc, job, res, phase>>

NewNode(state) ==
  [state |-> state, result |-> "busy", known |-> FALSE, refs |-> 1,
   counter |-> 0, pointer |-> 0, decoder |-> "none", pages |-> 0]
NewBuffer ==
  [node |-> Nobody, holds |-> FALSE, result |-> "busy", connector |-> FALSE,
   counter |-> 0, pointer |-> 0]

Init ==
  /\ config \in Configs
  /\ tree = Nobody /\ lock = Nobody
  /\ node = [n \in Buffer |-> NewNode("none")]
  /\ buffer = [b \in Buffer |-> NewBuffer]
  /\ fence = [b \in Buffer |-> [init |-> 0, done |-> 0]]
  /\ signalled = [b \in Buffer |-> FALSE]
  /\ queue = <<>>
  /\ pc = [a \in Actor |-> IF a \in Buffer THEN "start" ELSE "idle"]
  /\ job = [a \in Actor |-> NoJob]
  /\ res = [a \in Actor |-> "success"]
  /\ phase = [b \in Buffer |-> "new"]

At(a, step) == pc[a] = step
Goto(a, step) == pc' = [pc EXCEPT ![a] = step]
Returns(a, r) == res' = [res EXCEPT ![a] = r]

\* ma_fence_acquire, and ma_fence_release, which does nothing at zero
AcquireFences(b) == fence' = [fence EXCEPT ![b] = [init |-> @.init + 1, done |-> @.done + 1]]
Less(counter) == IF counter = 0 THEN 0 ELSE counter - 1
Released(b, init, done) ==
  [fence EXCEPT ![b] = [init |-> IF init THEN Less(@.init) ELSE @.init,
                        done |-> IF done THEN Less(@.done) ELSE @.done]]

\* The buffer an actor works for, and its node
Of(a) == IF a \in Buffer THEN a ELSE job[a].of
NodeOf(a) == buffer[Of(a)].node

NodeOrder(n) == node[n].counter
Post(kind, x, order) == queue' = Append(queue, [kind |-> kind, of |-> x, order |-> order])

---------------------------------------------------------------------------
(* ma_resource_manager_data_buffer_init_ex_internal *)

InitBegin(b) ==
  /\ At(b, "start")
  /\ AcquireFences(b)
  /\ phase' = [phase EXCEPT ![b] = "init"]
  /\ Goto(b, "acquire")
  /\ UNCHANGED <<config, tree, lock, node, buffer, signalled, queue, job, res>>

AcquireOld(b) ==
  /\ At(b, "acquire") /\ lock = Nobody /\ tree # Nobody
  /\ node' = [node EXCEPT ![tree].refs = @ + 1]
  /\ buffer' = [buffer EXCEPT ![b].node = tree, ![b].holds = TRUE]
  /\ Goto(b, "check")
  /\ UNCHANGED <<config, tree, lock, fence, signalled, queue, job, res, phase>>

\* A new node, and its LOAD job posted before the lock is given back; with
\* WAIT_INIT the job is processed here, under the lock
AcquireNew(b) ==
  /\ At(b, "acquire") /\ lock = Nobody /\ tree = Nobody
  /\ tree' = b
  /\ node' = [node EXCEPT ![b] = [NewNode("live") EXCEPT !.counter = 1]]
  /\ buffer' = [buffer EXCEPT ![b].node = b, ![b].holds = TRUE]
  /\ AcquireFences(b)
  /\ IF b \in config.wait
     THEN /\ lock' = b
          /\ job' = [job EXCEPT ![b] = [kind |-> "loadNode", of |-> b, order |-> 0]]
          /\ Goto(b, "begin") /\ UNCHANGED queue
     ELSE /\ Post("loadNode", b, 0)
          /\ Goto(b, "check") /\ UNCHANGED <<lock, job>>
  /\ UNCHANGED <<config, signalled, res, phase>>

\* Back from the job processed in place, whose notification it has signalled.
\* After a failure the fences are released here, which the job did as well.
AcquireBack(b) ==
  /\ At(b, "back") /\ job[b].kind = "loadNode"
  /\ lock' = Nobody
  /\ job' = [job EXCEPT ![b] = NoJob]
  /\ IF res[b] \in {"success", "busy"}
     THEN Goto(b, "check") /\ UNCHANGED <<tree, node, buffer, fence>>
     ELSE /\ fence' = Released(b, TRUE, TRUE)
          /\ tree' = Nobody
          /\ node' = [node EXCEPT ![b].state = "freed"]
          /\ buffer' = [buffer EXCEPT ![b].holds = FALSE]
          /\ Goto(b, "release")
  /\ UNCHANGED <<config, signalled, queue, res, phase>>

\* The data is there: the connector is made without a job.  If that fails, the
\* initialisation ends with an error, and the node is not given back.
CheckLoaded(b) ==
  /\ At(b, "check") /\ node[NodeOf(b)].result = "success"
  /\ \/ /\ buffer' = [buffer EXCEPT ![b].connector = TRUE, ![b].result = "success"]
        /\ Goto(b, "release")
     \/ /\ config.fails
        /\ buffer' = [buffer EXCEPT ![b].result = "error"]
        /\ Goto(b, "failed")
  /\ UNCHANGED <<config, tree, lock, node, fence, signalled, queue, job, res, phase>>

CheckLoading(b) ==
  /\ At(b, "check") /\ node[NodeOf(b)].result # "success"
  /\ AcquireFences(b)
  /\ buffer' = [buffer EXCEPT ![b].counter = @ + 1]
  /\ IF b \in config.wait
     THEN /\ signalled' = [signalled EXCEPT ![b] = FALSE]
          /\ job' = [job EXCEPT ![b] = [kind |-> "loadBuffer", of |-> b, order |-> buffer[b].counter]]
          /\ Goto(b, "begin") /\ UNCHANGED queue
     ELSE /\ Post("loadBuffer", b, buffer[b].counter)
          /\ Goto(b, "release") /\ UNCHANGED <<signalled, job>>
  /\ UNCHANGED <<config, tree, lock, node, res, phase>>

LoadBack(b) ==
  /\ At(b, "back") /\ job[b].kind = "loadBuffer"
  /\ job' = [job EXCEPT ![b] = NoJob]
  /\ IF res[b] = "success"
     THEN Goto(b, "wait") /\ UNCHANGED <<buffer, fence>>
     ELSE /\ buffer' = [buffer EXCEPT ![b].result = res[b]]
          /\ fence' = Released(b, TRUE, TRUE)
          /\ Goto(b, "unacquire")
  /\ UNCHANGED <<config, tree, lock, node, signalled, queue, res, phase>>

\* An error is reported, and the node given back, if the load has failed
WaitInit(b) ==
  /\ At(b, "wait") /\ signalled[b]
  /\ Goto(b, IF buffer[b].result \in {"busy", "success"} THEN "release" ELSE "unacquire")
  /\ UNCHANGED <<config, shared, job, res, phase>>

\* The application has the buffer unless an error is returned
InitEnd(b) ==
  /\ At(b, "release") \/ At(b, "failed")
  /\ fence' = Released(b, TRUE, TRUE)
  /\ LET end == IF At(b, "release") /\ buffer[b].holds THEN "held" ELSE "over"
     IN Goto(b, end) /\ phase' = [phase EXCEPT ![b] = end]
  /\ UNCHANGED <<config, tree, lock, node, buffer, signalled, queue, job, res>>

---------------------------------------------------------------------------
(* ma_resource_manager_data_buffer_uninit; a careful application waits on  *)
(* the done fence first                                                    *)

UninitBegin(b) ==
  /\ At(b, "held")
  /\ config.early \/ fence[b].done = 0
  /\ phase' = [phase EXCEPT ![b] = "uninit"]
  /\ Goto(b, "uninit")
  /\ UNCHANGED <<config, shared, job, res>>

Uninit(b) ==
  /\ At(b, "uninit")
  /\ Goto(b, IF buffer[b].result = "success" THEN "unacquire" ELSE "cancel")
  /\ UNCHANGED <<config, shared, job, res, phase>>

Cancel(b) ==
  /\ At(b, "cancel")
  /\ buffer' = [buffer EXCEPT ![b].result = "unavailable", ![b].counter = @ + 1]
  /\ signalled' = [signalled EXCEPT ![b] = FALSE]
  /\ Post("freeBuffer", b, buffer[b].counter)
  /\ Goto(b, "awaitFree")
  /\ UNCHANGED <<config, tree, lock, node, fence, job, res, phase>>

UninitEnd(b) ==
  /\ \/ At(b, "awaitFree") /\ signalled[b]
     \/ At(b, "leave")
  /\ Goto(b, "over") /\ phase' = [phase EXCEPT ![b] = "over"]
  /\ UNCHANGED <<config, shared, job, res>>

---------------------------------------------------------------------------
(* ma_resource_manager_data_buffer_node_unacquire, called by a client or by *)
(* a FREE_DATA_BUFFER job                                                  *)

AfterUnacquire(a) ==
  IF a \in Worker THEN "signal" ELSE IF phase[a] = "init" THEN "release" ELSE "leave"

\* Mutant: the node stays in the tree, where it can be found again
StaysInTree(a) ==
  /\ At(a, "unacquire") /\ lock = Nobody
  /\ node' = [node EXCEPT ![NodeOf(a)].refs = @ - 1]
  /\ buffer' = [buffer EXCEPT ![Of(a)].holds = FALSE]
  /\ Goto(a, IF node[NodeOf(a)].refs = 1 THEN "drop" ELSE AfterUnacquire(a))
  /\ UNCHANGED <<config, tree, lock, fence, signalled, queue, job, res, phase>>

Unacquire(a) ==
  /\ At(a, "unacquire") /\ lock = Nobody
  /\ node' = [node EXCEPT ![NodeOf(a)].refs = @ - 1]
  /\ buffer' = [buffer EXCEPT ![Of(a)].holds = FALSE]
  /\ IF node[NodeOf(a)].refs = 1
     THEN tree' = Nobody /\ Goto(a, "drop")
     ELSE Goto(a, AfterUnacquire(a)) /\ UNCHANGED tree
  /\ UNCHANGED <<config, lock, fence, signalled, queue, job, res, phase>>

\* The last reference is gone: the node is freed here unless it is loading
Drop(a) ==
  /\ At(a, "drop")
  /\ IF node[NodeOf(a)].result = "busy"
     THEN Goto(a, "abandon") /\ UNCHANGED node
     ELSE /\ node' = [node EXCEPT ![NodeOf(a)].state = "freed"]
          /\ Goto(a, AfterUnacquire(a))
  /\ UNCHANGED <<config, tree, lock, buffer, fence, signalled, queue, job, res, phase>>

Abandon(a) ==
  /\ At(a, "abandon")
  /\ node' = [node EXCEPT ![NodeOf(a)].result = "unavailable", ![NodeOf(a)].counter = @ + 1]
  /\ Post("freeNode", NodeOf(a), node[NodeOf(a)].counter)
  /\ Goto(a, AfterUnacquire(a))
  /\ UNCHANGED <<config, tree, lock, buffer, fence, signalled, job, res, phase>>

Client(b) ==
  \/ AcquireOld(b) \/ AcquireNew(b) \/ AcquireBack(b) \/ CheckLoaded(b)
  \/ CheckLoading(b) \/ LoadBack(b) \/ WaitInit(b) \/ InitEnd(b)
  \/ Uninit(b) \/ Cancel(b) \/ UninitEnd(b)

---------------------------------------------------------------------------
(* Processing a job *)

Take(w) ==
  /\ At(w, "idle") /\ w \in config.workers /\ queue # <<>>
  /\ job' = [job EXCEPT ![w] = Head(queue)]
  /\ queue' = Tail(queue)
  /\ Goto(w, "begin")
  /\ UNCHANGED <<config, tree, lock, node, buffer, fence, signalled, res, phase>>

\* The handler returns, to the job thread's loop or to the client
Handled(a) ==
  IF a \in Worker
  THEN Goto(a, "idle") /\ job' = [job EXCEPT ![a] = NoJob]
  ELSE Goto(a, "back") /\ UNCHANGED job

HasTurn(a) ==
  job[a].order = IF job[a].kind \in NodeKind THEN node[job[a].of].pointer
                 ELSE buffer[job[a].of].pointer

Begins(a, kinds) == At(a, "begin") /\ job[a].kind \in kinds

PostAgain(a) ==
  /\ queue' = Append(queue, job[a])
  /\ Returns(a, "success") /\ Handled(a)

OutOfTurn(a) ==
  /\ At(a, "begin") /\ ~HasTurn(a)
  /\ PostAgain(a)
  /\ UNCHANGED <<config, tree, lock, node, buffer, fence, signalled, phase>>

\* LOAD_DATA_BUFFER_NODE and PAGE_DATA_BUFFER_NODE stop if the node is given up
NodeBegin(a) ==
  /\ Begins(a, {"loadNode", "pageNode"}) /\ HasTurn(a)
  /\ LET loads == job[a].kind = "loadNode"
         r == node[job[a].of].result
     IN IF r = "busy"
        THEN Goto(a, IF loads THEN "open" ELSE "decode") /\ UNCHANGED res
        ELSE Goto(a, IF loads THEN "publish" ELSE "finish") /\ Returns(a, r)
  /\ UNCHANGED <<config, shared, job, phase>>

\* init_supply_decoded or init_supply_encoded.  Where the decoder is open but
\* cannot tell the length, it is neither closed nor handed on.
Open(a) ==
  /\ At(a, "open")
  /\ \/ /\ config.fails
        /\ \/ UNCHANGED node
           \/ config.decode /\ node' = [node EXCEPT ![job[a].of].decoder = "lost"]
        /\ Returns(a, "error") /\ Goto(a, "publish")
     \/ /\ node' = [node EXCEPT ![job[a].of].known = TRUE,
                               ![job[a].of].decoder = IF config.decode THEN "carried" ELSE "none"]
        /\ IF config.decode
           THEN Goto(a, "next") /\ UNCHANGED res
           ELSE Goto(a, "publish") /\ Returns(a, "success")
  /\ UNCHANGED <<config, tree, lock, buffer, fence, signalled, queue, job, phase>>

\* decode_next_page
Decode(a) ==
  /\ At(a, "decode")
  /\ \/ /\ node[job[a].of].pages < MaxPages
        /\ node' = [node EXCEPT ![job[a].of].pages = @ + 1]
        /\ Goto(a, "next") /\ UNCHANGED res
     \/ /\ Returns(a, "atEnd") /\ Goto(a, "finish") /\ UNCHANGED node
     \/ /\ config.fails
        /\ Returns(a, "error") /\ Goto(a, "finish") /\ UNCHANGED node
  /\ UNCHANGED <<config, tree, lock, buffer, fence, signalled, queue, job, phase>>

\* The next page gets the next order and carries the decoder on
NextPage(a) ==
  /\ At(a, "next")
  /\ node' = [node EXCEPT ![job[a].of].counter = @ + 1]
  /\ Post("pageNode", job[a].of, node[job[a].of].counter)
  /\ Returns(a, "busy") /\ Goto(a, "publish")
  /\ UNCHANGED <<config, tree, lock, buffer, fence, signalled, job, phase>>

\* Mutant: MA_AT_END is stored as the node's result
KeepsAtEnd(a) ==
  /\ At(a, "finish")
  /\ node' = [node EXCEPT ![job[a].of].decoder = "none"]
  /\ Goto(a, "publish")
  /\ UNCHANGED <<config, tree, lock, buffer, fence, signalled, queue, job, res, phase>>

\* The decoder is freed with the last page
Finish(a) ==
  /\ At(a, "finish")
  /\ node' = [node EXCEPT ![job[a].of].decoder = "none"]
  /\ IF res[a] = "atEnd" THEN Returns(a, "success") ELSE UNCHANGED res
  /\ Goto(a, "publish")
  /\ UNCHANGED <<config, tree, lock, buffer, fence, signalled, queue, job, phase>>

\* FREE_DATA_BUFFER_NODE; the order it stores afterwards is in freed memory
FreeNode(a) ==
  /\ Begins(a, {"freeNode"}) /\ HasTurn(a)
  /\ node' = [node EXCEPT ![job[a].of].state = "freed"]
  /\ Handled(a)
  /\ UNCHANGED <<config, tree, lock, buffer, fence, signalled, queue, res, phase>>

\* Mutant: a job that finds its buffer given up returns at once
AbortsAtOnce(a) ==
  /\ Begins(a, {"loadBuffer"}) /\ HasTurn(a)
  /\ LET r == buffer[job[a].of].result
     IN IF r = "busy" THEN Goto(a, "connect") /\ UNCHANGED <<job, res>>
        ELSE Handled(a) /\ Returns(a, r)
  /\ UNCHANGED <<config, shared, phase>>

\* LOAD_DATA_BUFFER
BufferBegin(a) ==
  /\ Begins(a, {"loadBuffer"}) /\ HasTurn(a)
  /\ LET r == buffer[job[a].of].result
     IN IF r = "busy" THEN Goto(a, "connect") /\ UNCHANGED res
        ELSE Goto(a, "publish") /\ Returns(a, r)
  /\ UNCHANGED <<config, shared, job, phase>>

Signal(b) == signalled' = [signalled EXCEPT ![b] = @ \/ b \in config.wait]

\* The connector is made as soon as the node's supply is known; that is when
\* the initialisation is announced
Connect(a) ==
  /\ At(a, "connect")
  /\ LET b == job[a].of
         r == node[NodeOf(a)].result
     IN
     \/ /\ buffer[b].connector
        /\ Goto(a, "look") /\ UNCHANGED <<buffer, fence, signalled, res>>
     \/ /\ ~buffer[b].connector /\ node[NodeOf(a)].known /\ r \in {"success", "busy"}
        /\ buffer' = [buffer EXCEPT ![b].connector = TRUE]
        /\ fence' = Released(b, TRUE, FALSE) /\ Signal(b)
        /\ Goto(a, "look") /\ UNCHANGED res
     \/ /\ ~buffer[b].connector /\ node[NodeOf(a)].known
        /\ IF r \in {"success", "busy"} THEN config.fails /\ Returns(a, "error") ELSE Returns(a, r)
        /\ Goto(a, "publish")
        /\ UNCHANGED <<buffer, fence, signalled>>
     \/ /\ ~buffer[b].connector /\ ~node[NodeOf(a)].known
        /\ Goto(a, "lookUnknown") /\ UNCHANGED <<buffer, fence, signalled, res>>
  /\ UNCHANGED <<config, tree, lock, node, queue, job, phase>>

\* Mutant: the node that became ready after Connect looked is not noticed
LooksOnce(a) ==
  /\ At(a, "look") \/ At(a, "lookUnknown")
  /\ LET r == node[NodeOf(a)].result
     IN IF r = "busy"
        THEN PostAgain(a)
        ELSE Returns(a, r) /\ Goto(a, "publish") /\ UNCHANGED <<queue, job>>
  /\ UNCHANGED <<config, tree, lock, node, buffer, fence, signalled, phase>>

\* The job goes round until the node is done, and once more if the node was
\* done only after Connect had found its supply unknown
Look(a) ==
  /\ At(a, "look") \/ At(a, "lookUnknown")
  /\ LET r == node[NodeOf(a)].result
     IN IF r = "busy" \/ (r = "success" /\ At(a, "lookUnknown"))
        THEN PostAgain(a)
        ELSE Returns(a, r) /\ Goto(a, "publish") /\ UNCHANGED <<queue, job>>
  /\ UNCHANGED <<config, tree, lock, node, buffer, fence, signalled, phase>>

\* The end of the three load jobs: the result replaces MA_BUSY only
Publish(a) ==
  /\ At(a, "publish")
  /\ LET x == job[a].of IN
     IF job[a].kind = "loadBuffer"
     THEN /\ buffer' = [buffer EXCEPT ![x].result = IF @ = "busy" THEN res[a] ELSE @]
          /\ UNCHANGED node
     ELSE /\ node' = [node EXCEPT ![x].result = IF @ = "busy" THEN res[a] ELSE @]
          /\ UNCHANGED buffer
  /\ Goto(a, "fences")
  /\ UNCHANGED <<config, tree, lock, fence, signalled, queue, job, res, phase>>

Fences(a) ==
  /\ At(a, "fences")
  /\ LET b == job[a].of
         unannounced == ~buffer[b].connector /\ res[a] # "success"
     IN CASE job[a].kind = "loadNode" ->
               fence' = Released(b, TRUE, res[a] # "busy") /\ UNCHANGED signalled
          [] job[a].kind = "pageNode" ->
               fence' = Released(b, FALSE, res[a] # "busy") /\ UNCHANGED signalled
          [] OTHER ->
               /\ fence' = Released(b, unannounced, TRUE)
               /\ IF unannounced THEN Signal(b) ELSE UNCHANGED signalled
  /\ Goto(a, "tail")
  /\ UNCHANGED <<config, tree, lock, node, buffer, queue, job, res, phase>>

\* The next job's turn
Advance(a) ==
  /\ At(a, "tail")
  /\ LET x == job[a].of IN
     IF job[a].kind \in NodeKind
     THEN node' = [node EXCEPT ![x].pointer = @ + 1] /\ UNCHANGED buffer
     ELSE buffer' = [buffer EXCEPT ![x].pointer = @ + 1] /\ UNCHANGED node
  /\ Handled(a)
  /\ UNCHANGED <<config, tree, lock, fence, signalled, queue, res, phase>>

\* FREE_DATA_BUFFER gives the node back and wakes the thread in uninit
FreeBuffer(w) ==
  /\ Begins(w, {"freeBuffer"}) /\ HasTurn(w)
  /\ Goto(w, "unacquire")
  /\ UNCHANGED <<config, shared, job, res, phase>>

Notify(w) ==
  /\ At(w, "signal")
  /\ signalled' = [signalled EXCEPT ![job[w].of] = TRUE]
  /\ Goto(w, "tail")
  /\ UNCHANGED <<config, tree, lock, node, buffer, fence, queue, job, res, phase>>

Process(a) ==
  \/ OutOfTurn(a) \/ NodeBegin(a) \/ Open(a) \/ Decode(a) \/ NextPage(a)
  \/ Finish(a) \/ FreeNode(a) \/ BufferBegin(a) \/ Connect(a) \/ Look(a)
  \/ Publish(a) \/ Fences(a) \/ Advance(a)
  \/ Unacquire(a) \/ Drop(a) \/ Abandon(a)

JobThread(w) == Take(w) \/ FreeBuffer(w) \/ Notify(w)

Next ==
  \/ \E b \in Buffer : InitBegin(b) \/ UninitBegin(b) \/ Client(b)
  \/ \E w \in Worker : JobThread(w)
  \/ \E a \in Actor : Process(a)

Spec == Init /\ [][Next]_vars

\* Threads that can run do; nothing makes an application start or give up a
\* buffer
Fairness ==
  /\ \A b \in Buffer : WF_vars(Client(b) \/ Process(b))
  /\ \A w \in Worker : WF_vars(JobThread(w) \/ Process(w))

FairSpec == Spec /\ Fairness

---------------------------------------------------------------------------
(* Properties *)

ClientSteps == {"start", "acquire", "check", "back", "wait", "release", "failed", "held",
                "uninit", "cancel", "awaitFree", "leave", "over"}
LoadSteps == {"begin", "open", "decode", "next", "finish", "connect", "look",
              "lookUnknown", "publish", "fences"}
UnacquireSteps == {"unacquire", "drop", "abandon"}
Steps == ClientSteps \cup LoadSteps \cup UnacquireSteps \cup {"idle", "signal", "tail"}

TypeOK ==
  /\ config \in Configs
  /\ tree \in Buffer \cup {Nobody} /\ lock \in Buffer \cup {Nobody}
  /\ node \in [Buffer -> [state : {"none", "live", "freed"}, result : Result,
       known : BOOLEAN, refs : Nat, counter : Nat, pointer : Nat,
       decoder : {"none", "carried", "lost"}, pages : 0 .. MaxPages]]
  /\ buffer \in [Buffer -> [node : Buffer \cup {Nobody}, holds : BOOLEAN, result : Result,
       connector : BOOLEAN, counter : Nat, pointer : Nat]]
  /\ fence \in [Buffer -> [init : Nat, done : Nat]]
  /\ signalled \in [Buffer -> BOOLEAN]
  /\ queue \in Seq(Job)
  /\ pc \in [Actor -> Steps]
  /\ job \in [Actor -> Job \cup {NoJob}]
  /\ res \in [Actor -> Result \cup {"atEnd"}]
  /\ phase \in [Buffer -> {"new", "init", "held", "uninit", "over"}]

Holds(b, n) == buffer[b].holds /\ buffer[b].node = n

Queued(kind, x) ==
  Cardinality({i \in DOMAIN queue : queue[i].kind = kind /\ queue[i].of = x})
Running(kind, x, steps) ==
  Cardinality({a \in Actor : job[a].kind = kind /\ job[a].of = x /\ pc[a] \in steps})

\* A job of a node uses it until its result is published; after that it only
\* advances the node's order, see Advance.
UsesNode(a, n) ==
  \/ job[a].kind \in NodeKind /\ job[a].of = n /\ pc[a] \in LoadSteps \ {"fences"}
  \/ pc[a] \in UnacquireSteps \cup {"connect", "look", "lookUnknown"} /\ NodeOf(a) = n

\* "the node is not uninitialized before initialization": a freed node is held
\* by no buffer, used by no job, and no job of it is left in the queue.
NodeHeld ==
  \A n \in Buffer : node[n].state = "freed" =>
    /\ \A b \in Buffer : ~Holds(b, n)
    /\ \A a \in Actor : ~UsesNode(a, n)
    /\ \A i \in DOMAIN queue : queue[i].kind \in NodeKind => queue[i].of # n

\* The references count the buffers that hold the node, and the tree has the
\* node while there are any.
RefsExact ==
  \A n \in Buffer :
    /\ tree = n <=> node[n].state = "live" /\ node[n].refs > 0
    /\ node[n].state = "live" =>
         node[n].refs = Cardinality({b \in Buffer : Holds(b, n)})

Outer(b) == IF phase[b] = "init" THEN 1 ELSE 0
HandedOn(a) == pc[a] \in {"publish", "fences"} /\ res[a] = "busy"
LoadsLeft(n) ==
  Queued("loadNode", n) + Queued("pageNode", n)
  + Cardinality({a \in Actor : /\ job[a].kind \in {"loadNode", "pageNode"} /\ job[a].of = n
                               /\ pc[a] \in LoadSteps /\ ~HandedOn(a)})

\* Each fence stands at what is still to be released for the buffer: the outer
\* pair, one for the node it made, one for its own job.
FencesExact ==
  \A b \in Buffer :
    LET own == Queued("loadBuffer", b) + Running("loadBuffer", b, LoadSteps)
    IN /\ fence[b].done = Outer(b) + LoadsLeft(b) + own
       /\ fence[b].init = Outer(b) + Queued("loadNode", b) + Running("loadNode", b, LoadSteps)
                          + IF buffer[b].connector THEN 0 ELSE own

\* A decoder that is carried is in the hands of one job, which frees it once.
DecoderOwned ==
  \A n \in Buffer :
    Queued("pageNode", n) + Running("pageNode", n, {"begin", "decode", "next", "finish"})
      + Running("loadNode", n, {"next"})
    = IF node[n].decoder = "carried" THEN 1 ELSE 0

\* What is kept for good: the reference of an initialisation that ended with an
\* error because it could not make the connector of data that was there
\* (miniaudio.h:69462), and a decoder that was opened and did not tell its length
\* (miniaudio.h:68781); without failures nothing.
KeptOnFailure ==
  /\ \A b \in Buffer : phase[b] = "over" /\ buffer[b].holds =>
       config.fails /\ buffer[b].result = "error" /\ ~buffer[b].connector
  /\ \A n \in Buffer : node[n].decoder = "lost" => config.fails /\ config.decode

\* Every count is that of what is outstanding: no reference, fence or decoder is
\* given up twice, and only the two failures of KeptOnFailure keep one.
CountsExact == RefsExact /\ FencesExact /\ DecoderOwned /\ KeptOnFailure

\* However the application uses its buffers, the waits end: fences fall to zero,
\* init and uninit return, no job goes round for ever, and a node is freed unless
\* the application has a buffer of it or a failed initialisation has kept it.
Settled ==
  /\ \A b \in Buffer : phase[b] \in {"new", "held", "over"} /\ fence[b] = [init |-> 0, done |-> 0]
  /\ queue = <<>> /\ \A w \in Worker : At(w, "idle")
  /\ \A n \in Buffer : node[n].state = "live" =>
       \E b \in Buffer : buffer[b].node = n /\ (phase[b] = "held" \/ (phase[b] = "over" /\ buffer[b].holds))
Settles == <>[]Settled

============================================================================
