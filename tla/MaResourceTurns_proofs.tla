----------------------- MODULE MaResourceTurns_proofs -----------------------
(***************************************************************************)
(* The execution orders of the jobs: no two jobs of a node have their turn *)
(* at once, and in a setting in which no page can follow the job that      *)
(* frees a node, no job uses a node that is freed.  For any number of      *)
(* buffers, job threads and pages.                                         *)
(***************************************************************************)
EXTENDS MaResource_proofs

---------------------------------------------------------------------------
(* Jobs and their turns *)

\* Jobs that are still to have their turn or to pass it on, and those of them
\* that have yet to publish a result
Carries(a) == job[a] # NoJob /\ pc[a] # "back"
UnderWay(a) == pc[a] \in LoadSteps \ {"fences"}
Waiting == {queue[i] : i \in DOMAIN queue}
Jobs == Waiting \cup {job[a] : a \in {c \in Actor : Carries(c)}}
Pending == Waiting \cup {job[a] : a \in {c \in Actor : UnderWay(c)}}

Pointer(j) == IF j.kind \in NodeKind THEN node[j.of].pointer ELSE buffer[j.of].pointer
Counter(j) == IF j.kind \in NodeKind THEN node[j.of].counter ELSE buffer[j.of].counter
SameTurn(j, k) == (j.kind \in NodeKind <=> k.kind \in NodeKind) /\ j.of = k.of /\ j.order = k.order

\* A job has an order that was handed out and has not been passed, and beyond
\* its start it has its turn
Due ==
  /\ \A j \in Jobs : Pointer(j) <= j.order /\ j.order < Counter(j)
  /\ \A a \in Actor : Carries(a) /\ pc[a] # "begin" => job[a].order = Pointer(job[a])
Bounded ==
  \A x \in Buffer : node[x].pointer <= node[x].counter /\ buffer[x].pointer <= buffer[x].counter

\* No order is handed out twice
Distinct ==
  /\ \A i, k \in DOMAIN queue : SameTurn(queue[i], queue[k]) => i = k
  /\ \A a, c \in Actor : Carries(a) /\ Carries(c) /\ SameTurn(job[a], job[c]) => a = c
  /\ \A i \in DOMAIN queue, a \in Actor : Carries(a) => ~SameTurn(queue[i], job[a])

\* A node has no jobs before it is made, and a buffer's load is its first job
NoneBefore == \A j \in Jobs : j.kind \in NodeKind => pc[j.of] \notin Before
OwnFirst ==
  /\ \A b \in Buffer : Unloaded(b) => buffer[b].counter = 0
  /\ \A j \in Jobs : j.kind = "loadBuffer" => j.order = 0
Turns == Due /\ Bounded /\ Distinct /\ NoneBefore /\ OwnFirst

---------------------------------------------------------------------------
(* What is left to do once a result is there *)

\* No load of a node or of a buffer is under way when it is done
Done(n) == node[n].result \in {"success", "error"}
NodeDone == \A j \in Pending : j.kind \in {"loadNode", "pageNode"} => ~Done(j.of)
BufferDone == \A j \in Pending : j.kind = "loadBuffer" => buffer[j.of].result # "success"

\* One actor gives a node up, and it is not freed or given up before
Dropping(a) == pc[a] \in {"drop", "abandon"}
DropAlone ==
  \A a \in Actor : Dropping(a) =>
    /\ node[NodeOf(a)].state = "live" /\ node[NodeOf(a)].result # "unavailable"
    /\ \A c \in Actor : Dropping(c) /\ NodeOf(c) = NodeOf(a) => c = a
Freeing == \A j \in Jobs : j.kind = "freeNode" => node[j.of].result = "unavailable"

Employed == \A w \in Worker : pc[w] # "idle" => w \in config.workers
NoPages == ~config.decode => \A n \in Buffer : node[n].decoder = "none"
TurnsInv == Turns /\ NodeDone /\ BufferDone /\ DropAlone /\ Freeing /\ Employed /\ NoPages

---------------------------------------------------------------------------
(* Where jobs processed in place do not fail *)

\* A buffer's job finds the node held
OwnHolds == \A j \in Pending : j.kind = "loadBuffer" => buffer[j.of].holds

\* Nothing goes wrong until the buffer is given up
Good(b) ==
  /\ buffer[b].result \in {"busy", "success"}
  /\ \A a \in Actor : job[a].kind = "loadBuffer" /\ job[a].of = b /\ pc[a] = "publish" => res[a] = "success"
AllGood ==
  /\ \A b \in Buffer : pc[b] = "wait" => b \in config.wait
  /\ ~config.fails => \A b \in Buffer : pc[b] \notin GivenUp => Good(b)

\* A buffer is ready when its node is
Ready ==
  /\ \A b \in Buffer : buffer[b].result = "success" /\ buffer[b].holds => node[buffer[b].node].result = "success"
  /\ \A a \in Actor : job[a].kind = "loadBuffer" /\ pc[a] = "publish" /\ res[a] = "success" =>
       node[NodeOf(a)].result = "success"

\* A client that gives its node back itself finds it loaded
ClientDrops ==
  \A b \in Buffer :
    /\ pc[b] = "unacquire" => buffer[b].result = "success"
    /\ pc[b] = "drop" => node[NodeOf(b)].result = "success"
    /\ pc[b] # "abandon"

\* A buffer that is still loading has its job
StillLoads ==
  /\ \A b \in Buffer : ~Unloaded(b) /\ buffer[b].result = "busy" => Own(b) # 0
  /\ \A a \in Actor : job[a].kind = "loadBuffer" =>
       /\ pc[a] = "fences" => buffer[job[a].of].result # "busy"
       /\ pc[a] = "publish" => res[a] # "busy"

\* An application that waits, and whose loads succeed, gives nothing up
NeverGivenUp ==
  ~config.early /\ ~config.fails =>
     /\ \A b \in Buffer : pc[b] # "cancel" /\ (pc[b] = "uninit" => buffer[b].result = "success")
     /\ \A j \in Jobs : j.kind # "freeBuffer"
CarefulInv == OwnHolds /\ AllGood /\ Ready /\ ClientDrops /\ StillLoads /\ NeverGivenUp

---------------------------------------------------------------------------
(* Where, besides, nobody gives a node up while a page of it is decoded: one *)
(* job thread, no pages, or nobody who gives a buffer up                   *)

Orderly ==
  /\ Careful
  /\ \/ \A v, w \in config.workers : v = w
     \/ ~config.decode
     \/ ~config.early /\ ~config.fails

\* An actor that may hand a node on to a next page
PagesOn(c) == pc[c] \in {"decode", "next"} \/ (pc[c] = "open" /\ config.decode)

\* No page follows when the node has been given up, so its last job frees it
LastJob ==
  /\ \A a \in Actor : PagesOn(a) => node[job[a].of].result # "unavailable"
  /\ \A j \in Jobs : j.kind = "freeNode" => j.order + 1 = Counter(j)
FreedUnused == \A j \in Pending : j.kind \in NodeKind => node[j.of].state # "freed"
OrderlyInv == LastJob /\ FreedUnused

---------------------------------------------------------------------------
(* How a step moves jobs *)

NewJob(a, j) ==
  \/ /\ a \in Buffer /\ AcquireNew(a)
     /\ j = [kind |-> "loadNode", of |-> a, order |-> 0]
  \/ /\ a \in Buffer /\ CheckLoading(a)
     /\ j = [kind |-> "loadBuffer", of |-> a, order |-> buffer[a].counter]
  \/ /\ a \in Buffer /\ Cancel(a)
     /\ j = [kind |-> "freeBuffer", of |-> a, order |-> buffer[a].counter]
  \/ /\ Abandon(a) /\ NodeOf(a) \in Buffer
     /\ j = [kind |-> "freeNode", of |-> NodeOf(a), order |-> node[NodeOf(a)].counter]
  \/ /\ NextPage(a) /\ job[a].of \in Buffer
     /\ j = [kind |-> "pageNode", of |-> job[a].of, order |-> node[job[a].of].counter]

\* The actor goes on with its job or has done with it
Rests(a) ==
  /\ Carries(a)' => Carries(a) /\ job'[a] = job[a]
  /\ UnderWay(a)' => UnderWay(a) /\ job'[a] = job[a]

Shift(a) ==
  \/ queue' = queue /\ Rests(a)
  \/ /\ queue' = Append(queue, job[a]) /\ job[a] \in Job
     /\ Carries(a) /\ UnderWay(a) /\ ~Carries(a)' /\ ~UnderWay(a)'
  \/ queue # <<>> /\ queue' = Tail(queue) /\ job'[a] = Head(queue) /\ ~Carries(a) /\ pc'[a] = "begin"
  \/ \E j \in Job : NewJob(a, j) /\ queue' = Append(queue, j) /\ Rests(a)
  \/ \E j \in Job : NewJob(a, j) /\ queue' = queue /\ job'[a] = j /\ ~Carries(a) /\ pc'[a] = "begin"

\* The steps of a client that has no job in hand
LEMMA NoJobAt ==
  ASSUME Places, NEW a \in Actor
  PROVE  /\ a \in Buffer /\ pc[a] \notin LoadSteps \cup {"tail", "back"} => job[a] = NoJob
         /\ a \in Worker => (pc[a] = "idle" <=> job[a] = NoJob)
         /\ pc[a] \in LoadSteps \cup {"tail"} => job[a] # NoJob
         /\ a \in Worker => pc[a] # "back"
  BY DEF Places, Place, ClientAt, WorkerAt, LoadSteps, ClientSteps, Actor

LEMMA PutOffShift ==
  ASSUME Typed, Places, NEW a \in Actor, PostAgain(a), pc[a] \in {"begin", "look", "lookUnknown"}
  PROVE  Shift(a)
  <1>1. job[a] \in Job /\ job[a] # NoJob
    BY JobTyped, NoJobAt DEF LoadSteps
  <1>2. pc'[a] \in {"idle", "back"} /\ (pc'[a] = "idle" => job'[a] = NoJob)
    BY DEF Typed, PostAgain, Handled, Goto
  <1>3. Carries(a) /\ UnderWay(a) /\ ~Carries(a)' /\ ~UnderWay(a)'
    BY <1>1, <1>2 DEF Carries, UnderWay, LoadSteps
  <1> QED
    BY <1>1, <1>3 DEF Shift, PostAgain

LEMMA ClientShift ==
  ASSUME Typed, Places, NEW a \in Buffer, a \in Actor, InitBegin(a) \/ UninitBegin(a) \/ Client(a)
  PROVE  Shift(a)
  <1> USE DEF Typed, Goto
  <1>1. CASE InitBegin(a) \/ UninitBegin(a) \/ UninitEnd(a) \/ WaitInit(a) \/ InitEnd(a) \/ Uninit(a)
    <2>1. queue' = queue /\ job' = job
      BY <1>1 DEF InitBegin, UninitBegin, UninitEnd, WaitInit, InitEnd, Uninit, shared
    <2>2. pc'[a] \notin LoadSteps /\ pc[a] \notin LoadSteps \cup {"back", "tail"}
      BY <1>1 DEF InitBegin, UninitBegin, UninitEnd, WaitInit, InitEnd, Uninit, At, LoadSteps
    <2> QED
      BY <2>1, <2>2 DEF Shift, Rests, Carries, UnderWay
  <1>2. CASE AcquireOld(a) \/ CheckLoaded(a)
    <2>1. queue' = queue /\ job' = job
      BY <1>2 DEF AcquireOld, CheckLoaded
    <2>2. pc'[a] \notin LoadSteps /\ pc[a] \notin LoadSteps \cup {"back", "tail"}
      BY <1>2 DEF AcquireOld, CheckLoaded, At, LoadSteps
    <2> QED
      BY <2>1, <2>2 DEF Shift, Rests, Carries, UnderWay
  <1>3. CASE AcquireBack(a) \/ LoadBack(a)
    <2>1. queue' = queue /\ job'[a] = NoJob
      BY <1>3 DEF AcquireBack, LoadBack
    <2>2. pc'[a] \notin LoadSteps
      BY <1>3 DEF AcquireBack, LoadBack, LoadSteps
    <2> QED
      BY <2>1, <2>2 DEF Shift, Rests, Carries, UnderWay
  <1>4. CASE AcquireNew(a)
    <2> DEFINE j == [kind |-> "loadNode", of |-> a, order |-> 0]
    <2>1. j \in Job /\ NewJob(a, j)
      BY <1>4 DEF NewJob, Job, NodeKind
    <2>2. job[a] = NoJob /\ ~Carries(a)
      BY <1>4, NoJobAt DEF AcquireNew, At, LoadSteps, Carries
    <2>3. CASE a \in config.wait
      <3>1. queue' = queue /\ job'[a] = j /\ pc'[a] = "begin"
        BY <1>4, <2>3 DEF AcquireNew
      <3> QED
        BY <2>1, <2>2, <3>1 DEF Shift
    <2>4. CASE a \notin config.wait
      <3>1. queue' = Append(queue, j) /\ job' = job /\ pc'[a] = "check"
        BY <1>4, <2>4 DEF AcquireNew, Post
      <3>2. Rests(a)
        BY <2>2, <3>1 DEF Rests, Carries, UnderWay, LoadSteps
      <3> QED
        BY <2>1, <3>1, <3>2 DEF Shift
    <2> QED
      BY <2>3, <2>4
  <1>5. CASE CheckLoading(a)
    <2> DEFINE j == [kind |-> "loadBuffer", of |-> a, order |-> buffer[a].counter]
    <2>1. j \in Job /\ NewJob(a, j)
      BY <1>5, Fields DEF NewJob, Job, BufferKind
    <2>2. job[a] = NoJob /\ ~Carries(a)
      BY <1>5, NoJobAt DEF CheckLoading, At, LoadSteps, Carries
    <2>3. CASE a \in config.wait
      <3>1. queue' = queue /\ job'[a] = j /\ pc'[a] = "begin"
        BY <1>5, <2>3 DEF CheckLoading
      <3> QED
        BY <2>1, <2>2, <3>1 DEF Shift
    <2>4. CASE a \notin config.wait
      <3>1. queue' = Append(queue, j) /\ job' = job /\ pc'[a] = "release"
        BY <1>5, <2>4 DEF CheckLoading, Post
      <3>2. Rests(a)
        BY <2>2, <3>1 DEF Rests, Carries, UnderWay, LoadSteps
      <3> QED
        BY <2>1, <3>1, <3>2 DEF Shift
    <2> QED
      BY <2>3, <2>4
  <1>6. CASE Cancel(a)
    <2> DEFINE j == [kind |-> "freeBuffer", of |-> a, order |-> buffer[a].counter]
    <2>1. j \in Job /\ NewJob(a, j)
      BY <1>6, Fields DEF NewJob, Job, BufferKind
    <2>2. job[a] = NoJob
      BY <1>6, NoJobAt DEF Cancel, At, LoadSteps
    <2>3. queue' = Append(queue, j) /\ job' = job /\ pc'[a] = "awaitFree"
      BY <1>6 DEF Cancel, Post
    <2>4. Rests(a)
      BY <2>2, <2>3 DEF Rests, Carries, UnderWay, LoadSteps
    <2> QED
      BY <2>1, <2>3, <2>4 DEF Shift
  <1> QED
    BY <1>1, <1>2, <1>3, <1>4, <1>5, <1>6 DEF Client

LEMMA Shifts ==
  ASSUME Typed, Places, RefsInv, NEW a \in Actor, StepOf(a)
  PROVE  Shift(a)
  <1> USE DEF Typed, Goto
  <1>1. CASE a \in Buffer /\ (InitBegin(a) \/ UninitBegin(a) \/ Client(a))
    BY <1>1, ClientShift
  <1>2. CASE Take(a)
    <2>1. queue # <<>> /\ queue' = Tail(queue) /\ job'[a] = Head(queue) /\ pc'[a] = "begin"
      BY <1>2 DEF Take
    <2>2. ~Carries(a)
      <3>1. a \in Buffer => pc[a] # "idle"
        BY DEF Places, Place, ClientAt
      <3> QED
        BY <1>2, <3>1, NoJobAt DEF Take, At, Carries, Actor
    <2> QED
      BY <2>1, <2>2 DEF Shift
  <1>3. CASE FreeBuffer(a) \/ Notify(a)
    BY <1>3 DEF FreeBuffer, Notify, shared, Begins, At, Shift, Rests, Carries, UnderWay, LoadSteps
  <1>4. CASE OutOfTurn(a)
    BY <1>4, PutOffShift DEF OutOfTurn, At
  <1>5. CASE Look(a)
    <2>1. pc[a] \in {"look", "lookUnknown"}
      BY <1>5 DEF Look, At
    <2>2. CASE PostAgain(a)
      BY <2>1, <2>2, PutOffShift
    <2>3. CASE ~PostAgain(a)
      <3>1. queue' = queue /\ job' = job /\ pc'[a] = "publish"
        BY <1>5, <2>3 DEF Look
      <3> QED
        BY <2>1, <3>1 DEF Shift, Rests, Carries, UnderWay, LoadSteps
    <2> QED
      BY <2>2, <2>3
  <1>6. CASE NextPage(a)
    <2> DEFINE j == [kind |-> "pageNode", of |-> job[a].of, order |-> node[job[a].of].counter]
    <2>1. job[a].of \in Buffer
      BY <1>6, JobTyped DEF NextPage, At, LoadSteps
    <2>2. j \in Job /\ NewJob(a, j)
      BY <1>6, <2>1, Fields DEF NewJob, Job, NodeKind
    <2>3. queue' = Append(queue, j) /\ job' = job /\ pc[a] = "next" /\ pc'[a] = "publish"
      BY <1>6 DEF NextPage, Post, At
    <2>4. Rests(a)
      BY <2>3 DEF Rests, Carries, UnderWay, LoadSteps
    <2> QED
      BY <2>2, <2>3, <2>4 DEF Shift
  <1>7. CASE Abandon(a)
    <2> DEFINE j == [kind |-> "freeNode", of |-> NodeOf(a), order |-> node[NodeOf(a)].counter]
    <2>1. NodeOf(a) \in Buffer
      BY <1>7, AbandonEdits
    <2>2. j \in Job /\ NewJob(a, j)
      BY <1>7, <2>1, Fields DEF NewJob, Job, NodeKind
    <2>3. queue' = Append(queue, j) /\ job' = job /\ pc[a] = "abandon"
      BY <1>7 DEF Abandon, Post, At
    <2>4. pc'[a] \in {"signal", "release", "leave"}
      BY <1>7 DEF Abandon, AfterUnacquire
    <2>5. Rests(a)
      BY <2>3, <2>4 DEF Rests, Carries, UnderWay, LoadSteps
    <2> QED
      BY <2>2, <2>3, <2>5 DEF Shift
  <1>8. CASE FreeNode(a) \/ Advance(a)
    <2>1. queue' = queue /\ pc'[a] \in {"idle", "back"} /\ (pc'[a] = "idle" => job'[a] = NoJob)
      BY <1>8 DEF FreeNode, Advance, Handled
    <2> QED
      BY <2>1 DEF Shift, Rests, Carries, UnderWay, LoadSteps
  <1>9. CASE NodeBegin(a) \/ Open(a) \/ Decode(a) \/ Finish(a)
    <2>1. queue' = queue /\ job' = job
      BY <1>9 DEF NodeBegin, Open, Decode, Finish, shared
    <2>2. pc[a] \in LoadSteps \ {"fences"}
      BY <1>9 DEF NodeBegin, Open, Decode, Finish, Begins, At, LoadSteps
    <2> QED
      BY <2>1, <2>2 DEF Shift, Rests, Carries, UnderWay, LoadSteps
  <1>10. CASE BufferBegin(a) \/ Connect(a) \/ Publish(a)
    <2>1. queue' = queue /\ job' = job
      BY <1>10 DEF BufferBegin, Connect, Publish, shared
    <2>2. pc[a] \in LoadSteps \ {"fences"}
      BY <1>10 DEF BufferBegin, Connect, Publish, Begins, At, LoadSteps
    <2> QED
      BY <2>1, <2>2 DEF Shift, Rests, Carries, UnderWay, LoadSteps
  <1>11. CASE Fences(a)
    BY <1>11 DEF Fences, At, Shift, Rests, Carries, UnderWay, LoadSteps
  <1>12. CASE Unacquire(a) \/ Drop(a)
    <2>1. queue' = queue /\ job' = job
      BY <1>12 DEF Unacquire, Drop
    <2>2. pc[a] \in UnacquireSteps
      BY <1>12 DEF Unacquire, Drop, At, UnacquireSteps
    <2>3. pc'[a] \notin LoadSteps
      BY <1>12 DEF Unacquire, Drop, AfterUnacquire, LoadSteps
    <2> QED
      BY <2>1, <2>2, <2>3 DEF Shift, Rests, Carries, UnderWay, UnacquireSteps
  <1> QED
    BY <1>1, <1>2, <1>3, <1>4, <1>5, <1>6, <1>7, <1>8, <1>9, <1>10, <1>11, <1>12 DEF StepOf, JobThread, Process
---------------------------------------------------------------------------
(* The jobs after a step *)

LEMMA JobsTyped ==
  ASSUME Typed, Places
  PROVE  /\ Jobs \subseteq Job /\ Pending \subseteq Jobs /\ Waiting \subseteq Pending
         /\ \A j \in Jobs : j.of \in Buffer
         /\ \A a \in Actor : Carries(a) => job[a] \in Jobs
         /\ \A a \in Actor : UnderWay(a) => job[a] \in Pending /\ Carries(a)
         /\ \A i \in DOMAIN queue : queue[i] \in Waiting
  <1>1. \A i \in DOMAIN queue : queue[i] \in Job
    BY QueuedTyped
  <1>2. \A a \in Actor : Carries(a) => job[a] \in Job
    BY DEF Carries, Typed, AnyJob
  <1>3. \A a \in Actor : UnderWay(a) => Carries(a)
    BY NoJobAt DEF UnderWay, Carries, LoadSteps
  <1>4. \A j \in Job : j.of \in Buffer
    BY DEF Job
  <1>5. Jobs \subseteq Job /\ Pending \subseteq Jobs /\ Waiting \subseteq Pending
    BY <1>1, <1>2, <1>3 DEF Jobs, Pending, Waiting
  <1> QED
    BY <1>3, <1>4, <1>5 DEF Jobs, Pending, Waiting

LEMMA JobsFrom ==
  ASSUME Typed, Places, NEW a \in Actor, OthersKept(a), Shift(a)
  PROVE  /\ \A j \in Jobs' : j \in Jobs \/ (j \in Job /\ NewJob(a, j))
         /\ \A j \in Pending' : j \in Pending \/ (j \in Job /\ NewJob(a, j))
  <1>1. \A w \in Waiting' : \/ w \in Waiting
                            \/ w = job[a] /\ Carries(a) /\ UnderWay(a)
                            \/ w \in Job /\ NewJob(a, w)
    <2>1. CASE queue' = queue
      BY <2>1 DEF Waiting
    <2>2. CASE queue' = Append(queue, job[a]) /\ job[a] \in Job /\ Carries(a) /\ UnderWay(a)
      BY <2>2, AppendAt DEF Waiting
    <2>3. CASE queue # <<>> /\ queue' = Tail(queue)
      BY <2>3, TailAt DEF Waiting
    <2>4. CASE \E j \in Job : NewJob(a, j) /\ queue' = Append(queue, j)
      <3>1. PICK j \in Job : NewJob(a, j) /\ queue' = Append(queue, j)
        BY <2>4
      <3>2. \A i \in DOMAIN queue' : (i \in DOMAIN queue /\ queue'[i] = queue[i]) \/ queue'[i] = j
        BY <3>1, AppendAt
      <3> QED
        BY <3>1, <3>2 DEF Waiting
    <2> QED
      BY <2>1, <2>2, <2>3, <2>4 DEF Shift
  <1>2. Carries(a)' => \/ Carries(a) /\ job'[a] = job[a]
                       \/ job'[a] \in Waiting
                       \/ job'[a] \in Job /\ NewJob(a, job'[a])
    <2>1. queue # <<>> => Head(queue) = queue[1] /\ 1 \in DOMAIN queue
      BY DEF Typed
    <2> QED
      BY <2>1 DEF Shift, Rests, Waiting
  <1>3. UnderWay(a)' => \/ UnderWay(a) /\ job'[a] = job[a]
                        \/ job'[a] \in Waiting
                        \/ job'[a] \in Job /\ NewJob(a, job'[a])
    <2>1. queue # <<>> => Head(queue) = queue[1] /\ 1 \in DOMAIN queue
      BY DEF Typed
    <2> QED
      BY <2>1 DEF Shift, Rests, Waiting
  <1>4. \A c \in Actor \ {a} : (Carries(c)' <=> Carries(c)) /\ (UnderWay(c)' <=> UnderWay(c)) /\ job'[c] = job[c]
    BY DEF OthersKept, Carries, UnderWay
  <1>5. ASSUME NEW j \in Jobs'
        PROVE  j \in Jobs \/ (j \in Job /\ NewJob(a, j))
    <2>1. CASE j \in Waiting'
      BY <1>1, <2>1 DEF Jobs
    <2>2. CASE \E c \in Actor : Carries(c)' /\ j = job'[c]
      BY <1>2, <1>4, <2>2 DEF Jobs
    <2> QED
      BY <1>5, <2>1, <2>2 DEF Jobs
  <1>6. ASSUME NEW j \in Pending'
        PROVE  j \in Pending \/ (j \in Job /\ NewJob(a, j))
    <2>1. CASE j \in Waiting'
      BY <1>1, <2>1 DEF Pending
    <2>2. CASE \E c \in Actor : UnderWay(c)' /\ j = job'[c]
      BY <1>3, <1>4, <2>2 DEF Pending
    <2> QED
      BY <1>6, <2>1, <2>2 DEF Pending
  <1> QED
    BY <1>5, <1>6

\* No order is handed out twice
LEMMA DistinctKept ==
  ASSUME Typed, Places, Distinct, NEW a \in Actor, OthersKept(a), Shift(a),
         \A j \in Job : NewJob(a, j) => \A k \in Jobs : ~SameTurn(j, k)
  PROVE  Distinct'
  <1> DEFINE Others == Actor \ {a}
  <1>0. \A c \in Others : (Carries(c)' <=> Carries(c)) /\ job'[c] = job[c]
    BY DEF OthersKept, Carries
  <1>c. \A i \in DOMAIN queue : queue[i] \in Jobs
    BY JobsTyped
  <1>d. \A c \in Actor : Carries(c) => job[c] \in Jobs
    BY JobsTyped
  <1>s. \A j, k : SameTurn(j, k) <=> SameTurn(k, j)
    BY DEF SameTurn
  <1>t. \A j, k : SameTurn(j, k)' <=> SameTurn(j, k)
    BY DEF SameTurn
  <1>u. Distinct' <=>
          /\ \A i, k \in DOMAIN queue' : SameTurn(queue'[i], queue'[k]) => i = k
          /\ \A b, c \in Actor : Carries(b)' /\ Carries(c)' /\ SameTurn(job'[b], job'[c]) => b = c
          /\ \A i \in DOMAIN queue', c \in Actor : Carries(c)' => ~SameTurn(queue'[i], job'[c])
    BY DEF Distinct, SameTurn
  <1>1. CASE queue' = queue /\ Rests(a)
    BY <1>0, <1>1, <1>u DEF Distinct, Rests
  <1>2. CASE queue' = Append(queue, job[a]) /\ job[a] \in Job /\ Carries(a) /\ ~Carries(a)'
    <2>1. \A i \in DOMAIN queue' : \/ i \in DOMAIN queue /\ queue'[i] = queue[i]
                                   \/ i = Len(queue) + 1 /\ queue'[i] = job[a]
      BY <1>2, AppendAt
    <2>2. \A i, k \in DOMAIN queue' : SameTurn(queue'[i], queue'[k]) => i = k
      BY <1>2, <1>s, <2>1 DEF Distinct
    <2>3. \A b, c \in Actor : Carries(b)' /\ Carries(c)' /\ SameTurn(job'[b], job'[c]) => b = c
      BY <1>0, <1>2 DEF Distinct
    <2>4. \A i \in DOMAIN queue', c \in Actor : Carries(c)' => ~SameTurn(queue'[i], job'[c])
      BY <1>0, <1>2, <2>1 DEF Distinct
    <2> QED
      BY <1>u, <2>2, <2>3, <2>4
  <1>3. CASE queue # <<>> /\ queue' = Tail(queue) /\ job'[a] = Head(queue) /\ ~Carries(a)
    <2>1. /\ 1 \in DOMAIN queue /\ job'[a] = queue[1]
          /\ \A i \in DOMAIN queue' : i \in Nat \ {0} /\ i + 1 \in DOMAIN queue /\ queue'[i] = queue[i + 1]
      BY <1>3, TailAt
    <2>2. \A i, k \in DOMAIN queue' : SameTurn(queue'[i], queue'[k]) => i = k
      <3> SUFFICES ASSUME NEW i \in DOMAIN queue', NEW k \in DOMAIN queue', SameTurn(queue'[i], queue'[k])
                   PROVE  i = k
        OBVIOUS
      <3>1. i + 1 = k + 1
        BY <2>1 DEF Distinct
      <3> QED
        BY <2>1, <3>1
    <2>3. \A b, c \in Actor : Carries(b)' /\ Carries(c)' /\ SameTurn(job'[b], job'[c]) => b = c
      BY <1>0, <1>s, <2>1 DEF Distinct
    <2>4. ASSUME NEW i \in DOMAIN queue', NEW c \in Actor, Carries(c)', SameTurn(queue'[i], job'[c])
          PROVE  FALSE
      <3>1. CASE c = a
        <4>1. i + 1 = 1
          BY <2>1, <2>4, <3>1 DEF Distinct
        <4> QED
          BY <2>1, <4>1
      <3>2. CASE c # a
        BY <1>0, <2>1, <2>4, <3>2 DEF Distinct
      <3> QED
        BY <3>1, <3>2
    <2> QED
      BY <1>u, <2>2, <2>3, <2>4
  <1>4. CASE \E j \in Job : NewJob(a, j) /\ queue' = Append(queue, j) /\ Rests(a)
    <2>0. PICK j \in Job : NewJob(a, j) /\ queue' = Append(queue, j) /\ Rests(a)
      BY <1>4
    <2>f. \A k \in Jobs : ~SameTurn(j, k) /\ ~SameTurn(k, j)
      BY <1>s, <2>0
    <2>1. \A i \in DOMAIN queue' : \/ i \in DOMAIN queue /\ queue'[i] = queue[i]
                                   \/ i = Len(queue) + 1 /\ queue'[i] = j
      BY <2>0, AppendAt
    <2>2. \A i, k \in DOMAIN queue' : SameTurn(queue'[i], queue'[k]) => i = k
      BY <1>c, <2>1, <2>f DEF Distinct
    <2>3. \A b, c \in Actor : Carries(b)' /\ Carries(c)' /\ SameTurn(job'[b], job'[c]) => b = c
      BY <1>0, <2>0 DEF Distinct, Rests
    <2>4. \A i \in DOMAIN queue', c \in Actor : Carries(c)' => ~SameTurn(queue'[i], job'[c])
      BY <1>0, <1>d, <2>0, <2>1, <2>f DEF Distinct, Rests
    <2> QED
      BY <1>u, <2>2, <2>3, <2>4
  <1>5. CASE \E j \in Job : NewJob(a, j) /\ queue' = queue /\ job'[a] = j /\ ~Carries(a)
    <2>0. PICK j \in Job : NewJob(a, j) /\ queue' = queue /\ job'[a] = j /\ ~Carries(a)
      BY <1>5
    <2>f. \A k \in Jobs : ~SameTurn(j, k) /\ ~SameTurn(k, j)
      BY <1>s, <2>0
    <2>3. \A b, c \in Actor : Carries(b)' /\ Carries(c)' /\ SameTurn(job'[b], job'[c]) => b = c
      BY <1>0, <1>d, <2>0, <2>f DEF Distinct
    <2>4. \A i \in DOMAIN queue', c \in Actor : Carries(c)' => ~SameTurn(queue'[i], job'[c])
      BY <1>0, <1>c, <2>0, <2>f DEF Distinct
    <2> QED
      BY <1>u, <2>0, <2>3, <2>4 DEF Distinct
  <1> QED
    BY <1>1, <1>2, <1>3, <1>4, <1>5 DEF Shift
---------------------------------------------------------------------------
(* Orders, states and holds *)

\* The steps that hand out an order or pass one on, and those that make or
\* free a node
LEMMA NodeSame ==
  ASSUME Typed, Places, RefsInv, NEW a \in Actor, StepOf(a), ~(a \in Buffer /\ AcquireNew(a)), NEW n \in Buffer
  PROVE  /\ ~NextPage(a) /\ ~Abandon(a) => node'[n].counter = node[n].counter
         /\ ~Advance(a) => node'[n].pointer = node[n].pointer
         /\ ~(a \in Buffer /\ AcquireBack(a)) /\ ~Drop(a) /\ ~FreeNode(a) => node'[n].state = node[n].state
         /\ node'[n].state \in {node[n].state, "freed"}
  <1>0. node \in [Buffer -> NodeT]
    BY DEF Typed
  <1>1. CASE a \in Buffer /\ (InitBegin(a) \/ UninitBegin(a) \/ UninitEnd(a) \/ WaitInit(a) \/ InitEnd(a) \/ Uninit(a)
                            \/ Cancel(a) \/ CheckLoaded(a) \/ CheckLoading(a) \/ LoadBack(a))
    BY <1>1 DEF InitBegin, UninitBegin, UninitEnd, WaitInit, InitEnd, Uninit, Cancel, shared,
       CheckLoaded, CheckLoading, LoadBack
  <1>2. CASE a \in Worker /\ JobThread(a)
    BY <1>2 DEF JobThread, Take, FreeBuffer, Notify, shared
  <1>3. CASE OutOfTurn(a) \/ NodeBegin(a) \/ BufferBegin(a) \/ Connect(a) \/ Look(a) \/ Fences(a)
    BY <1>3 DEF OutOfTurn, NodeBegin, BufferBegin, Connect, Look, Fences, shared
  <1>4. CASE AcquireOld(a) /\ a \in Buffer
    <2>1. tree \in Buffer
      BY <1>4 DEF AcquireOld, Typed
    <2> QED
      BY <1>0, <1>4, <2>1 DEF AcquireOld, NodeT
  <1>5. CASE AcquireBack(a) /\ a \in Buffer
    <2>1. node' = node \/ node' = [node EXCEPT ![a].state = "freed"]
      BY <1>5 DEF AcquireBack
    <2> QED
      BY <1>0, <1>5, <2>1 DEF NodeT
  <1>6. CASE Open(a) \/ Finish(a) \/ Decode(a) \/ NextPage(a) \/ FreeNode(a) \/ Advance(a) \/ Publish(a)
    <2>1. job[a].of \in Buffer
      BY <1>6, JobTyped DEF Open, Finish, Decode, NextPage, FreeNode, Advance, Publish, At, Begins, LoadSteps
    <2>a. CASE Open(a)
      <3>1. \/ node' = node \/ node' = [node EXCEPT ![job[a].of].decoder = "lost"]
            \/ node' = [node EXCEPT ![job[a].of].known = TRUE, ![job[a].of].decoder = Carried]
        BY <2>a DEF Open, Carried
      <3> QED
        BY <1>0, <2>1, <3>1 DEF NodeT
    <2>b. CASE Finish(a)
      BY <1>0, <2>1, <2>b DEF Finish, NodeT
    <2>2. CASE Decode(a)
      <3>1. node' = node \/ node' = [node EXCEPT ![job[a].of].pages = node[job[a].of].pages + 1]
        BY <2>2 DEF Decode
      <3> QED
        BY <1>0, <2>1, <3>1 DEF NodeT
    <2>3. CASE NextPage(a)
      BY <1>0, <2>1, <2>3 DEF NextPage, NodeT
    <2>4. CASE FreeNode(a)
      BY <1>0, <2>1, <2>4 DEF FreeNode, NodeT
    <2>5. CASE Publish(a)
      <3> DEFINE r == IF node[job[a].of].result = "busy" THEN res[a] ELSE node[job[a].of].result
      <3> HIDE DEF r
      <3>1. node' = node \/ node' = [node EXCEPT ![job[a].of].result = r]
        BY <2>5 DEF Publish, r
      <3> QED
        BY <1>0, <2>1, <3>1 DEF NodeT
    <2>6. CASE Advance(a)
      BY <1>0, <2>1, <2>6 DEF Advance, NodeT
    <2> QED
      BY <1>6, <2>a, <2>b, <2>2, <2>3, <2>4, <2>5, <2>6
  <1>7. CASE Unacquire(a) \/ Drop(a) \/ Abandon(a)
    <2>1. NodeOf(a) \in Buffer
      BY <1>7, NodeOfTyped DEF Unacquire, Drop, Abandon, At, UnacquireSteps
    <2>2. CASE Unacquire(a)
      BY <1>0, <2>1, <2>2 DEF Unacquire, NodeT
    <2>3. CASE Drop(a)
      <3>1. node' = node \/ node' = [node EXCEPT ![NodeOf(a)].state = "freed"]
        BY <2>3 DEF Drop
      <3> QED
        BY <1>0, <2>1, <2>3, <3>1 DEF NodeT
    <2>4. CASE Abandon(a)
      BY <1>0, <2>1, <2>4 DEF Abandon, NodeT
    <2> QED
      BY <1>7, <2>2, <2>3, <2>4
  <1> QED
    BY <1>1, <1>2, <1>3, <1>4, <1>5, <1>6, <1>7 DEF StepOf, Client, Process

LEMMA NodeTurns ==
  ASSUME Typed, Places, RefsInv, NEW a \in Actor, StepOf(a), NEW n \in Buffer
  PROVE  /\ a \in Buffer /\ AcquireNew(a) => IF n = a
                                             THEN /\ node'[n].counter = 1 /\ node'[n].pointer = 0
                                                  /\ node'[n].state = "live" /\ node'[n].decoder = "none"
                                             ELSE node'[n] = node[n]
         /\ NextPage(a) => node'[n].counter = node[n].counter + Bit(n = job[a].of)
         /\ Abandon(a) => node'[n].counter = node[n].counter + Bit(n = NodeOf(a))
         /\ Advance(a) => node'[n].pointer = node[n].pointer + Bit(job[a].kind \in NodeKind /\ n = job[a].of)
  <1>0. node \in [Buffer -> NodeT] /\ node[n].counter \in Nat /\ node[n].pointer \in Nat
    BY Fields DEF Typed
  <1>1. CASE a \in Buffer /\ AcquireNew(a)
    BY <1>0, <1>1 DEF AcquireNew, NewNode, At, NextPage, Abandon, Advance
  <1>2. CASE NextPage(a)
    <2>1. job[a].of \in Buffer
      BY <1>2, JobTyped DEF NextPage, At, LoadSteps
    <2>2. node'[n].counter = node[n].counter + Bit(n = job[a].of)
      BY <1>0, <1>2, <2>1 DEF NextPage, NodeT, Bit
    <2> QED
      BY <1>2, <2>2 DEF AcquireNew, At, NextPage, Abandon, Advance
  <1>3. CASE Abandon(a)
    <2>1. NodeOf(a) \in Buffer
      BY <1>3, AbandonEdits
    <2>2. node'[n].counter = node[n].counter + Bit(n = NodeOf(a))
      BY <1>0, <1>3, <2>1 DEF Abandon, NodeT, Bit
    <2> QED
      BY <1>3, <2>2 DEF AcquireNew, At, NextPage, Abandon, Advance
  <1>4. CASE Advance(a)
    <2>1. job[a].of \in Buffer
      BY <1>4, JobTyped DEF Advance, At
    <2>2. node'[n].pointer = node[n].pointer + Bit(job[a].kind \in NodeKind /\ n = job[a].of)
      <3>1. CASE job[a].kind \in NodeKind
        BY <1>0, <1>4, <2>1, <3>1 DEF Advance, NodeT, Bit
      <3>2. CASE job[a].kind \notin NodeKind
        BY <1>0, <1>4, <3>2 DEF Advance, Bit
      <3> QED
        BY <3>1, <3>2
    <2> QED
      BY <1>4, <2>2 DEF AcquireNew, At, NextPage, Abandon, Advance
  <1> QED
    BY <1>1, <1>2, <1>3, <1>4

---------------------------------------------------------------------------
(* Turns are kept *)

\* A new job has an order of its own
LEMMA NewTurn ==
  ASSUME Typed, Places, Due, NoneBefore, NEW a \in Actor, NEW j \in Job, NewJob(a, j),
         NEW k \in Jobs
  PROVE  ~SameTurn(j, k)
  <1>1. k.order < Counter(k) /\ k.of \in Buffer
    BY JobsTyped DEF Due
  <1>2. CASE a \in Buffer /\ AcquireNew(a) /\ j = [kind |-> "loadNode", of |-> a, order |-> 0]
    <2>1. k.kind \in NodeKind => k.of # a
      BY <1>2 DEF NoneBefore, AcquireNew, At, Before
    <2> QED
      BY <1>2, <2>1 DEF SameTurn, NodeKind
  <1>3. CASE j.kind \in BufferKind /\ j.order = buffer[j.of].counter
    <2>1. j.kind \notin NodeKind
      BY <1>3 DEF NodeKind, BufferKind
    <2>2. SameTurn(j, k) => k.order < j.order /\ k.order = j.order
      BY <1>1, <1>3, <2>1 DEF SameTurn, Counter
    <2>3. k.order \in Nat
      BY JobsTyped DEF Job
    <2> QED
      BY <2>2, <2>3
  <1>4. CASE j.kind \in NodeKind /\ j.order = node[j.of].counter
    <2>2. SameTurn(j, k) => k.order < j.order /\ k.order = j.order
      BY <1>1, <1>4 DEF SameTurn, Counter
    <2>3. k.order \in Nat
      BY JobsTyped DEF Job
    <2> QED
      BY <2>2, <2>3
  <1> QED
    BY <1>2, <1>3, <1>4 DEF NewJob, NodeKind, BufferKind

LEMMA NoneBeforeKept ==
  ASSUME Typed, Places, RefsInv, Kinds, NoneBefore, NEW a \in Actor, StepOf(a)
  PROVE  NoneBefore'
  <1>1. OthersKept(a) /\ Shift(a)
    BY OthersAlone, Shifts
  <1>2. ASSUME NEW j \in Jobs', j.kind \in NodeKind, pc'[j.of] \in Before
        PROVE  FALSE
    <2>1. j \in Jobs \/ (j \in Job /\ NewJob(a, j))
      BY <1>1, JobsFrom
    <2>2. j.of \in Buffer
      BY <2>1, JobsTyped DEF Job
    <2>3. pc[j.of] \in Before /\ ~(j.of = a /\ AcquireNew(a))
      BY <1>2, <2>2, BeforeKept
    <2>4. CASE j \in Jobs
      BY <1>2, <2>3, <2>4 DEF NoneBefore
    <2>5. CASE NewJob(a, j)
      <3>1. CASE Abandon(a) /\ j.of = NodeOf(a)
        <4>1. node[j.of].state # "none"
          BY <3>1, AbandonEdits DEF Gone
        <4> QED
          BY <2>2, <2>3, <4>1 DEF RefsInv, Fresh
      <3>2. CASE NextPage(a) /\ j.of = job[a].of
        <4>1. Carries(a) /\ job[a] \in Jobs /\ pc[a] = "next"
          BY <3>2, JobsTyped DEF NextPage, At, UnderWay, LoadSteps
        <4>2. job[a].kind \in NodeKind
          BY <4>1 DEF Kinds, KindAt, NodeKind
        <4> QED
          BY <2>3, <3>2, <4>1, <4>2 DEF NoneBefore
      <3> QED
        BY <1>2, <2>3, <2>5, <3>1, <3>2 DEF NewJob, NodeKind
    <2> QED
      BY <2>1, <2>4, <2>5
  <1> QED
    BY <1>2 DEF NoneBefore

LEMMA OwnFirstKept ==
  ASSUME Typed, Places, RefsInv, OwnFirst, NEW a \in Actor, StepOf(a)
  PROVE  OwnFirst'
  <1>1. OthersKept(a) /\ Shift(a)
    BY OthersAlone, Shifts
  <1>2. ASSUME NEW b \in Buffer, Unloaded(b)'
        PROVE  buffer'[b].counter = 0
    <2>1. Unloaded(b) /\ (b = a => ~CheckLoading(a) /\ ~Cancel(a))
      BY <1>2, UnloadedBefore
    <2>2. buffer'[b].counter = buffer[b].counter
      <3>1. CASE a \in Buffer /\ (CheckLoading(a) \/ Cancel(a))
        <4>1. b # a
          BY <2>1, <3>1
        <4>2. buffer[b].counter \in Nat
          BY Fields
        <4> QED
          BY <3>1, <4>1, <4>2, BufferTurns DEF Bit
      <3>2. CASE ~(a \in Buffer /\ (CheckLoading(a) \/ Cancel(a)))
        BY <3>2, BufferTurns
      <3> QED
        BY <3>1, <3>2
    <2> QED
      BY <2>1, <2>2 DEF OwnFirst
  <1>3. ASSUME NEW j \in Jobs', j.kind = "loadBuffer"
        PROVE  j.order = 0
    <2>1. j \in Jobs \/ (j \in Job /\ NewJob(a, j))
      BY <1>1, JobsFrom
    <2>2. CASE NewJob(a, j)
      <3>1. a \in Buffer /\ CheckLoading(a) /\ j.order = buffer[a].counter
        BY <1>3, <2>2 DEF NewJob
      <3> QED
        BY <3>1 DEF OwnFirst, CheckLoading, At, Unloaded
    <2> QED
      BY <1>3, <2>1, <2>2 DEF OwnFirst
  <1> QED
    BY <1>2, <1>3 DEF OwnFirst

\* What an advance passes is the turn of the job that advances
LEMMA Advanced ==
  ASSUME Typed, Places, Due, Distinct, NEW a \in Actor, Advance(a)
  PROVE  /\ Carries(a) /\ job[a] \in Jobs /\ job[a].of \in Buffer
         /\ job[a].order = Pointer(job[a]) /\ job[a].order < Counter(job[a])
         /\ \A j \in Jobs : j # job[a] => ~SameTurn(j, job[a])
         /\ \A c \in Actor : Carries(c) /\ SameTurn(job[c], job[a]) => c = a
         /\ \A i \in DOMAIN queue : queue[i] # job[a]
  <1>1. pc[a] = "tail" /\ job[a] # NoJob
    BY NoJobAt DEF Advance, At
  <1>2. Carries(a)
    BY <1>1 DEF Carries
  <1>3. job[a] \in Jobs /\ job[a].of \in Buffer
    BY <1>2, JobsTyped
  <1>4. job[a].order = Pointer(job[a]) /\ job[a].order < Counter(job[a])
    BY <1>1, <1>2, <1>3 DEF Due
  <1>5. \A i \in DOMAIN queue : ~SameTurn(queue[i], job[a])
    BY <1>2 DEF Distinct
  <1>6. \A c \in Actor : Carries(c) /\ SameTurn(job[c], job[a]) => c = a
    BY <1>2 DEF Distinct
  <1>7. SameTurn(job[a], job[a])
    BY DEF SameTurn
  <1>8. ASSUME NEW j \in Jobs, j # job[a]
        PROVE  ~SameTurn(j, job[a])
    <2>1. CASE j \in Waiting
      BY <1>5, <2>1 DEF Waiting
    <2>2. CASE \E c \in Actor : Carries(c) /\ j = job[c]
      BY <1>6, <1>8, <2>2
    <2> QED
      BY <2>1, <2>2 DEF Jobs
  <1> QED
    BY <1>2, <1>3, <1>4, <1>5, <1>6, <1>7, <1>8

LEMMA BoundedKept ==
  ASSUME Typed, Places, RefsInv, Due, Bounded, Distinct, NEW a \in Actor, StepOf(a)
  PROVE  Bounded'
  <1> SUFFICES ASSUME NEW x \in Buffer
               PROVE  node'[x].pointer <= node'[x].counter /\ buffer'[x].pointer <= buffer'[x].counter
    BY DEF Bounded
  <1>0. /\ node[x].pointer <= node[x].counter /\ buffer[x].pointer <= buffer[x].counter
        /\ node[x].pointer \in Nat /\ node[x].counter \in Nat
        /\ buffer[x].pointer \in Nat /\ buffer[x].counter \in Nat
    BY Fields DEF Bounded
  <1>1. CASE Advance(a)
    <2>1. job[a].order = Pointer(job[a]) /\ job[a].order < Counter(job[a])
      BY <1>1, Advanced
    <2>2. ~(a \in Buffer /\ AcquireNew(a)) /\ ~NextPage(a) /\ ~Abandon(a) /\ ~CheckLoading(a) /\ ~Cancel(a)
      BY <1>1 DEF Advance, AcquireNew, NextPage, Abandon, CheckLoading, Cancel, At
    <2>3. node'[x].counter = node[x].counter /\ buffer'[x].counter = buffer[x].counter
      BY <2>2, NodeSame, BufferTurns
    <2>4. /\ node'[x].pointer = node[x].pointer + Bit(job[a].kind \in NodeKind /\ x = job[a].of)
          /\ buffer'[x].pointer = buffer[x].pointer + Bit(job[a].kind \notin NodeKind /\ x = job[a].of)
      BY <1>1, NodeTurns, BufferTurns
    <2>5. job[a].kind \in NodeKind /\ x = job[a].of => node[x].pointer < node[x].counter
      BY <2>1 DEF Pointer, Counter
    <2>6. job[a].kind \notin NodeKind /\ x = job[a].of => buffer[x].pointer < buffer[x].counter
      BY <2>1 DEF Pointer, Counter
    <2>7. node'[x].pointer <= node'[x].counter
      BY <1>0, <2>3, <2>4, <2>5 DEF Bit
    <2>8. buffer'[x].pointer <= buffer'[x].counter
      BY <1>0, <2>3, <2>4, <2>6 DEF Bit
    <2> QED
      BY <2>7, <2>8
  <1>2. CASE ~Advance(a)
    <2>1. buffer'[x].pointer = buffer[x].pointer
      BY <1>2, BufferTurns
    <2>2. buffer'[x].counter \in {buffer[x].counter, buffer[x].counter + 1}
      BY <1>0, BufferTurns DEF Bit
    <2>3. node'[x].pointer <= node'[x].counter
      <3>1. CASE a \in Buffer /\ AcquireNew(a)
        <4>1. CASE x = a
          <5>1. node'[x].counter = 1 /\ node'[x].pointer = 0
            BY <3>1, <4>1, NodeTurns
          <5> QED
            BY <5>1
        <4>2. CASE x # a
          <5>1. node'[x] = node[x]
            BY <3>1, <4>2, NodeTurns
          <5> QED
            BY <1>0, <5>1
        <4> QED
          BY <4>1, <4>2
      <3>2. CASE ~(a \in Buffer /\ AcquireNew(a))
        <4>1. node'[x].pointer = node[x].pointer
          BY <1>2, <3>2, NodeSame
        <4>2. node'[x].counter \in {node[x].counter, node[x].counter + 1}
          BY <1>0, <3>2, NodeSame, NodeTurns DEF Bit
        <4> QED
          BY <1>0, <4>1, <4>2
      <3> QED
        BY <3>1, <3>2
    <2> QED
      BY <1>0, <2>1, <2>2, <2>3
  <1> QED
    BY <1>1, <1>2

\* How a step moves the orders of a job that is there
LEMMA OrdersOf ==
  ASSUME Typed, Places, RefsInv, NoneBefore, NEW a \in Actor, StepOf(a), NEW j \in Jobs
  PROVE  /\ Counter(j)' >= Counter(j)
         /\ ~Advance(a) => Pointer(j)' = Pointer(j)
         /\ Advance(a) => /\ Counter(j)' = Counter(j)
                          /\ Pointer(j)' = Pointer(j) \/ /\ Pointer(j)' = Pointer(j) + 1 /\ j.of = job[a].of
                                                         /\ j.kind \in NodeKind <=> job[a].kind \in NodeKind
  <1>0. /\ j.of \in Buffer
        /\ node[j.of].pointer \in Nat /\ node[j.of].counter \in Nat
        /\ buffer[j.of].pointer \in Nat /\ buffer[j.of].counter \in Nat
    BY JobsTyped, Fields
  <1>1. Advance(a) => ~(a \in Buffer /\ AcquireNew(a)) /\ ~NextPage(a) /\ ~Abandon(a) /\ ~CheckLoading(a) /\ ~Cancel(a)
    BY DEF Advance, AcquireNew, NextPage, Abandon, CheckLoading, Cancel, At
  <1>2. CASE j.kind \in NodeKind
    <2>0. ~(a \in Buffer /\ AcquireNew(a) /\ j.of = a)
      BY <1>2 DEF NoneBefore, AcquireNew, At, Before
    <2>1. CASE a \in Buffer /\ AcquireNew(a)
      <3>1. node'[j.of] = node[j.of] /\ ~Advance(a)
        BY <1>0, <1>1, <2>0, <2>1, NodeTurns
      <3> QED
        BY <1>0, <1>2, <3>1 DEF Counter, Pointer
    <2>2. CASE ~(a \in Buffer /\ AcquireNew(a))
      <3>1. /\ ~NextPage(a) /\ ~Abandon(a) => node'[j.of].counter = node[j.of].counter
            /\ ~Advance(a) => node'[j.of].pointer = node[j.of].pointer
        BY <1>0, <2>2, NodeSame
      <3>2. node'[j.of].counter \in {node[j.of].counter, node[j.of].counter + 1}
        BY <1>0, <3>1, NodeTurns DEF Bit
      <3>3. Advance(a) => \/ node'[j.of].pointer = node[j.of].pointer
                          \/ node'[j.of].pointer = node[j.of].pointer + 1 /\ j.of = job[a].of /\ job[a].kind \in NodeKind
        BY <1>0, NodeTurns DEF Bit
      <3> QED
        BY <1>0, <1>1, <1>2, <3>1, <3>2, <3>3 DEF Counter, Pointer
    <2> QED
      BY <2>1, <2>2
  <1>3. CASE j.kind \notin NodeKind
    <2>1. /\ ~(a \in Buffer /\ (CheckLoading(a) \/ Cancel(a))) => buffer'[j.of].counter = buffer[j.of].counter
          /\ ~Advance(a) => buffer'[j.of].pointer = buffer[j.of].pointer
      BY <1>0, BufferTurns
    <2>2. buffer'[j.of].counter \in {buffer[j.of].counter, buffer[j.of].counter + 1}
      BY <1>0, <2>1, BufferTurns DEF Bit
    <2>3. Advance(a) => \/ buffer'[j.of].pointer = buffer[j.of].pointer
                        \/ buffer'[j.of].pointer = buffer[j.of].pointer + 1 /\ j.of = job[a].of /\ job[a].kind \notin NodeKind
      BY <1>0, BufferTurns DEF Bit
    <2> QED
      BY <1>0, <1>1, <1>3, <2>1, <2>2, <2>3 DEF Counter, Pointer
  <1> QED
    BY <1>2, <1>3

\* The job that has advanced is gone
LEMMA AdvancedGone ==
  ASSUME Typed, Places, Due, Distinct, NEW a \in Actor, OthersKept(a), Advance(a), NEW j \in Jobs'
  PROVE  j \in Jobs /\ ~SameTurn(j, job[a])
  <1>1. queue' = queue /\ ~Carries(a)'
    <2>1. pc'[a] \in {"idle", "back"} /\ (pc'[a] = "idle" => job'[a] = NoJob)
      BY DEF Advance, Handled, Typed, Goto
    <2> QED
      BY <2>1 DEF Advance, Carries
  <1>2. CASE j \in Waiting'
    <2>1. PICK i \in DOMAIN queue : j = queue[i]
      BY <1>1, <1>2 DEF Waiting
    <2>2. j \in Jobs
      BY <2>1, JobsTyped
    <2> QED
      BY <2>1, <2>2, Advanced
  <1>3. CASE \E c \in Actor : Carries(c)' /\ j = job'[c]
    <2>1. PICK c \in Actor : Carries(c)' /\ j = job'[c]
      BY <1>3
    <2>2. c # a /\ Carries(c) /\ j = job[c]
      BY <1>1, <2>1 DEF OthersKept, Carries
    <2> QED
      BY <2>2, Advanced, JobsTyped
  <1> QED
    BY <1>2, <1>3 DEF Jobs

\* The order of a new job is handed out with it
LEMMA NewJobDue ==
  ASSUME Typed, Places, RefsInv, Bounded, NEW a \in Actor, StepOf(a), NEW j \in Job, NewJob(a, j)
  PROVE  Pointer(j)' <= j.order /\ j.order < Counter(j)'
  <1>0. /\ j.of \in Buffer
        /\ node[j.of].pointer \in Nat /\ node[j.of].counter \in Nat /\ node[j.of].pointer <= node[j.of].counter
        /\ buffer[j.of].pointer \in Nat /\ buffer[j.of].counter \in Nat /\ buffer[j.of].pointer <= buffer[j.of].counter
    BY Fields DEF Job, Bounded
  <1>1. CASE a \in Buffer /\ AcquireNew(a) /\ j = [kind |-> "loadNode", of |-> a, order |-> 0]
    <2>1. node'[a].counter = 1 /\ node'[a].pointer = 0
      BY <1>1, NodeTurns
    <2> QED
      BY <1>1, <2>1 DEF Pointer, Counter, NodeKind
  <1>2. CASE /\ a \in Buffer /\ (CheckLoading(a) \/ Cancel(a))
             /\ j.kind \in BufferKind /\ j.of = a /\ j.order = buffer[a].counter
    <2>1. ~Advance(a) /\ j.kind \notin NodeKind
      BY <1>2 DEF CheckLoading, Cancel, Advance, At, NodeKind, BufferKind
    <2>2. buffer'[a].counter = buffer[a].counter + 1 /\ buffer'[a].pointer = buffer[a].pointer
      BY <1>2, <2>1, BufferTurns DEF Bit
    <2> QED
      BY <1>0, <1>2, <2>1, <2>2 DEF Pointer, Counter
  <1>3. CASE /\ (Abandon(a) /\ j.of = NodeOf(a)) \/ (NextPage(a) /\ j.of = job[a].of)
             /\ j.kind \in NodeKind /\ j.order = node[j.of].counter
    <2>1. ~Advance(a) /\ ~AcquireNew(a)
      BY <1>3 DEF Abandon, NextPage, Advance, AcquireNew, At
    <2>2. node'[j.of].counter = node[j.of].counter + 1 /\ node'[j.of].pointer = node[j.of].pointer
      BY <1>0, <1>3, <2>1, NodeTurns, NodeSame DEF Bit
    <2> QED
      BY <1>0, <1>3, <2>2 DEF Pointer, Counter
  <1> QED
    BY <1>1, <1>2, <1>3 DEF NewJob, NodeKind, BufferKind

\* Past its start a job is the next of its node or buffer
LEMMA BeginsInTurn ==
  ASSUME Typed, Places, NEW a \in Actor, StepOf(a), pc[a] = "begin", Carries(a)', pc'[a] # "begin"
  PROVE  job[a].order = Pointer(job[a])
  <1>1. ~OutOfTurn(a)
    BY DEF OutOfTurn, PostAgain, Handled, Typed, Goto, Carries
  <1>2. HasTurn(a)
    <2>1. ~(a \in Buffer /\ (InitBegin(a) \/ UninitBegin(a) \/ Client(a)))
      BY DEF InitBegin, UninitBegin, Client, UninitEnd, WaitInit, InitEnd, Uninit, Cancel, AcquireOld, AcquireNew,
         AcquireBack, CheckLoaded, CheckLoading, LoadBack, At
    <2>2. ~Take(a) /\ ~Notify(a)
      BY DEF Take, Notify, At
    <2>3. ~Open(a) /\ ~Decode(a) /\ ~NextPage(a) /\ ~Finish(a) /\ ~Connect(a) /\ ~Look(a) /\ ~Publish(a)
      BY DEF Open, Decode, NextPage, Finish, Connect, Look, Publish, At
    <2>4. ~Fences(a) /\ ~Advance(a) /\ ~Unacquire(a) /\ ~Drop(a) /\ ~Abandon(a)
      BY DEF Fences, Advance, Unacquire, Drop, Abandon, At
    <2> QED
      BY <1>1, <2>1, <2>2, <2>3, <2>4 DEF StepOf, JobThread, Process, NodeBegin, FreeNode, BufferBegin, FreeBuffer
  <1> QED
    BY <1>2 DEF HasTurn, Pointer

LEMMA DueKept ==
  ASSUME Typed, Places, RefsInv, Turns, NEW a \in Actor, StepOf(a)
  PROVE  Due'
  <1>1. OthersKept(a) /\ Shift(a)
    BY OthersAlone, Shifts
  <1>t. Due /\ Bounded /\ Distinct /\ NoneBefore
    BY DEF Turns
  <1>n. \A j \in Jobs : /\ Pointer(j) \in Nat /\ Counter(j) \in Nat /\ j.order \in Nat
                        /\ Pointer(j) <= j.order /\ j.order < Counter(j)
    <2> SUFFICES ASSUME NEW j \in Jobs
                 PROVE  Pointer(j) \in Nat /\ Counter(j) \in Nat /\ j.order \in Nat
      BY <1>t DEF Due
    <2>1. j.of \in Buffer /\ j.order \in Nat
      BY JobsTyped DEF Job
    <2> QED
      BY <2>1, Fields DEF Pointer, Counter
  <1>2. ASSUME NEW j \in Jobs'
        PROVE  Pointer(j)' <= j.order /\ j.order < Counter(j)'
    <2>1. j \in Jobs \/ (j \in Job /\ NewJob(a, j))
      BY <1>1, JobsFrom
    <2>2. CASE j \in Job /\ NewJob(a, j)
      BY <1>t, <2>2, NewJobDue
    <2>3. CASE j \in Jobs /\ ~Advance(a)
      <3>1. Counter(j)' >= Counter(j) /\ Pointer(j)' = Pointer(j)
        BY <1>t, <2>3, OrdersOf
      <3>2. Counter(j)' \in Nat
        <4>1. j.of \in Buffer
          BY <2>3, JobsTyped
        <4>2. node'[j.of].counter \in Nat /\ buffer'[j.of].counter \in Nat
          <5>1. buffer'[j.of].counter \in {buffer[j.of].counter, buffer[j.of].counter + 1}
            BY <4>1, Fields, BufferTurns DEF Bit
          <5>2. node'[j.of].counter \in {1, node[j.of].counter, node[j.of].counter + 1}
            <6>1. CASE a \in Buffer /\ AcquireNew(a)
              BY <4>1, <6>1, NodeTurns
            <6>2. CASE ~(a \in Buffer /\ AcquireNew(a))
              BY <4>1, <6>2, Fields, NodeSame, NodeTurns DEF Bit
            <6> QED
              BY <6>1, <6>2
          <5> QED
            BY <4>1, <5>1, <5>2, Fields
        <4> QED
          BY <4>2 DEF Counter
      <3> QED
        BY <1>n, <2>3, <3>1, <3>2
    <2>4. CASE Advance(a)
      <3>1. j \in Jobs /\ ~SameTurn(j, job[a])
        BY <1>1, <1>t, <2>4, AdvancedGone
      <3>2. /\ Counter(j)' = Counter(j)
            /\ Pointer(j)' = Pointer(j) \/ /\ Pointer(j)' = Pointer(j) + 1 /\ j.of = job[a].of
                                           /\ j.kind \in NodeKind <=> job[a].kind \in NodeKind
        BY <1>t, <2>4, <3>1, OrdersOf
      <3>3. CASE Pointer(j)' = Pointer(j)
        BY <1>n, <3>1, <3>2, <3>3
      <3>4. CASE /\ Pointer(j)' = Pointer(j) + 1 /\ j.of = job[a].of
                 /\ j.kind \in NodeKind <=> job[a].kind \in NodeKind
        <4>1. Pointer(j) = Pointer(job[a]) /\ job[a].order = Pointer(job[a])
          BY <1>t, <2>4, <3>4, Advanced DEF Pointer
        <4>2. j.order # Pointer(j)
          BY <3>1, <3>4, <4>1 DEF SameTurn
        <4> QED
          BY <1>n, <3>1, <3>2, <3>4, <4>2
      <3> QED
        BY <3>2, <3>3, <3>4
    <2> QED
      BY <2>1, <2>2, <2>3, <2>4
  <1>3. ASSUME NEW c \in Actor, Carries(c)', pc'[c] # "begin"
        PROVE  job'[c].order = Pointer(job[c])' /\ job'[c] = job[c] /\ Carries(c) 
    <2>1. Carries(c) /\ job'[c] = job[c] /\ job[c] \in Jobs /\ (c # a => pc[c] # "begin")
      <3>1. CASE c = a
        BY <1>1, <1>3, <3>1, JobsTyped DEF Shift, Rests
      <3>2. CASE c # a
        BY <1>1, <1>3, <3>2, JobsTyped DEF OthersKept, Carries
      <3> QED
        BY <3>1, <3>2
    <2>2. job[c].order = Pointer(job[c])
      <3>1. CASE c = a /\ pc[a] = "begin"
        BY <1>3, <3>1, BeginsInTurn
      <3>2. CASE pc[c] # "begin"
        BY <1>t, <2>1, <3>2 DEF Due
      <3> QED
        BY <2>1, <3>1, <3>2
    <2>3. PICK j \in Jobs : j = job[c]
      BY <2>1
    <2>4. Pointer(job[c])' = Pointer(j)' /\ j.order = Pointer(j)
      BY <2>1, <2>2, <2>3 DEF Pointer
    <2>5. CASE ~Advance(a)
      <3>1. Pointer(j)' = Pointer(j)
        BY <1>t, <2>5, OrdersOf
      <3> QED
        BY <2>1, <2>3, <2>4, <3>1
    <2>6. CASE Advance(a)
      <3>1. j \in Jobs' => ~SameTurn(j, job[a])
        BY <1>1, <1>t, <2>6, AdvancedGone
      <3>2. j \in Jobs'
        BY <1>3, <2>1, <2>3 DEF Jobs
      <3>3. Pointer(j)' = Pointer(j)
        <4>1. SUFFICES ASSUME j.of = job[a].of, j.kind \in NodeKind <=> job[a].kind \in NodeKind
                       PROVE  FALSE
          BY <1>t, <2>6, OrdersOf
        <4>2. Pointer(j) = Pointer(job[a]) /\ job[a].order = Pointer(job[a])
          BY <1>t, <2>6, <4>1, Advanced DEF Pointer
        <4> QED
          BY <2>4, <3>1, <3>2, <4>1, <4>2 DEF SameTurn
      <3> QED
        BY <2>1, <2>3, <2>4, <3>3
    <2> QED
      BY <2>1, <2>5, <2>6
  <1> QED
    BY <1>2, <1>3 DEF Due

LEMMA TurnsKept ==
  ASSUME Typed, Places, RefsInv, Kinds, Turns, NEW a \in Actor, StepOf(a)
  PROVE  Turns'
  <1>1. OthersKept(a) /\ Shift(a)
    BY OthersAlone, Shifts
  <1>2. \A j \in Job : NewJob(a, j) => \A k \in Jobs : ~SameTurn(j, k)
    BY NewTurn DEF Turns
  <1>3. Distinct'
    BY <1>1, <1>2, DistinctKept DEF Turns
  <1>4. Due'
    BY DueKept
  <1>5. Bounded'
    BY BoundedKept DEF Turns
  <1>6. NoneBefore' /\ OwnFirst'
    BY NoneBeforeKept, OwnFirstKept DEF Turns
  <1> QED
    BY <1>3, <1>4, <1>5, <1>6 DEF Turns
---------------------------------------------------------------------------
(* What is left to do once a result is there *)

\* The actors and jobs that a publication leaves
LEMMA PublishLeaves ==
  ASSUME Typed, Places, NEW a \in Actor, Publish(a), NEW j \in Pending'
  PROVE  \/ j \in Waiting
         \/ \E c \in Actor \ {a} : UnderWay(c) /\ j = job[c]
  <1>1. queue' = queue /\ job' = job /\ pc' = [pc EXCEPT ![a] = "fences"]
    BY DEF Publish, Goto
  <1>2. CASE j \in Waiting'
    BY <1>1, <1>2 DEF Waiting
  <1>3. CASE \E c \in Actor : UnderWay(c)' /\ j = job'[c]
    BY <1>1, <1>3 DEF UnderWay, Typed
  <1> QED
    BY <1>2, <1>3 DEF Pending

\* A load of a node that is about to be published is the last
LEMMA LastLoad ==
  ASSUME Typed, Places, LoadOnce, Turns, NEW a \in Actor, Publish(a), job[a].kind # "loadBuffer",
         res[a] # "busy", NEW j \in Pending', j.kind \in {"loadNode", "pageNode"}
  PROVE  j.of # job[a].of
  <1> DEFINE n == job[a].of
  <1>1. n \in Buffer /\ pc[a] = "publish" /\ job[a].kind \in {"loadNode", "pageNode"}
    <2>1. pc[a] = "publish"
      BY DEF Publish, At
    <2>2. job[a] \in Job /\ n \in Buffer
      BY <2>1, JobTyped DEF LoadSteps
    <2> QED
      BY <2>1, <2>2 DEF Places, Place, HandlerAt, LoadSteps, Job, NodeKind, BufferKind
  <1>2. LoadIn(a, n)
    BY <1>1 DEF LoadIn, HandedOn, LoadSteps
  <1>3. /\ Queued("loadNode", n) = 0 /\ Queued("pageNode", n) = 0
        /\ \A c \in Actor \ {a} : ~LoadIn(c, n)
    BY <1>1, <1>2, LoadAlone
  <1>4. CASE j \in Waiting
    BY <1>3, <1>4, QueuedSome DEF Waiting, IsFor
  <1>5. ASSUME NEW c \in Actor \ {a}, UnderWay(c), j = job[c], j.of = n
        PROVE  FALSE
    <2>1. HandedOn(c) /\ pc[c] = "publish"
      BY <1>3, <1>5 DEF LoadIn, HandedOn, UnderWay
    <2>2. Carries(c) /\ Carries(a)
      BY <1>1, <2>1, JobsTyped DEF UnderWay, LoadSteps
    <2>3. job[c].order = Pointer(job[c]) /\ job[a].order = Pointer(job[a])
      BY <1>1, <2>1, <2>2 DEF Turns, Due
    <2>4. SameTurn(job[c], job[a])
      BY <1>1, <1>5, <2>3 DEF SameTurn, Pointer, NodeKind
    <2> QED
      BY <2>2, <2>4 DEF Turns, Distinct
  <1> QED
    BY <1>4, <1>5, PublishLeaves

LEMMA NodeDoneKept ==
  ASSUME Typed, Places, RefsInv, Kinds, LoadOnce, Turns, NodeDone, NEW a \in Actor, StepOf(a)
  PROVE  NodeDone'
  <1>1. OthersKept(a) /\ Shift(a)
    BY OthersAlone, Shifts
  <1> SUFFICES ASSUME NEW j \in Pending', j.kind \in {"loadNode", "pageNode"}
               PROVE  ~Done(j.of)'
    BY DEF NodeDone
  <1>2. j \in Pending \/ (j \in Job /\ NewJob(a, j))
    BY <1>1, JobsFrom
  <1>3. j.of \in Buffer
    BY <1>2, JobsTyped DEF Job
  <1>4. CASE a \in Buffer /\ AcquireNew(a)
    <2>1. j.of = a => node'[j.of].result = "busy"
      BY <1>4, AcquireNewEdits
    <2>2. j.of # a => node'[j.of] = node[j.of] /\ j \in Pending
      BY <1>2, <1>3, <1>4, AcquireNewEdits DEF NewJob, Abandon, NextPage, AcquireNew, CheckLoading, Cancel, At
    <2> QED
      BY <2>1, <2>2 DEF NodeDone, Done
  <1>5. CASE Publish(a)
    <2>1. j \in Pending
      BY <1>2, <1>5 DEF NewJob, Publish, AcquireNew, CheckLoading, Cancel, Abandon, NextPage, At
    <2>2. node'[j.of].result = node[j.of].result \/ (job[a].kind # "loadBuffer" /\ j.of = job[a].of /\ node'[j.of].result = res[a])
      BY <1>3, <1>5, PublishEdits
    <2>3. job[a].kind # "loadBuffer" /\ j.of = job[a].of => res[a] = "busy"
      BY <1>5, LastLoad
    <2> QED
      BY <2>1, <2>2, <2>3 DEF NodeDone, Done
  <1>6. CASE Abandon(a)
    <2>1. node'[j.of].result \in {node[j.of].result, "unavailable"}
      BY <1>3, <1>6, AbandonEdits
    <2>2. j \in Pending
      BY <1>2, <1>6 DEF NewJob, AcquireNew, CheckLoading, Cancel, Abandon, NextPage, At
    <2> QED
      BY <2>1, <2>2 DEF NodeDone, Done
  <1>7. CASE ~(a \in Buffer /\ AcquireNew(a)) /\ ~Publish(a) /\ ~Abandon(a)
    <2>1. node'[j.of].result = node[j.of].result
      BY <1>3, <1>7, ResultSame
    <2>2. CASE j \in Pending
      BY <2>1, <2>2 DEF NodeDone, Done
    <2>3. CASE NewJob(a, j)
      <3>1. NextPage(a) /\ j.of = job[a].of
        BY <1>7, <2>3 DEF NewJob
      <3>2. job[a] \in Pending /\ job[a].kind \in {"loadNode", "pageNode"}
        BY <3>1, JobsTyped DEF NextPage, At, UnderWay, LoadSteps, Kinds, KindAt
      <3> QED
        BY <2>1, <3>1, <3>2 DEF NodeDone, Done
    <2> QED
      BY <1>2, <2>2, <2>3
  <1> QED
    BY <1>4, <1>5, <1>6, <1>7

LEMMA OwnPending ==
  ASSUME Typed, Places, NEW j \in Pending, j.kind = "loadBuffer"
  PROVE  j.of \in Buffer /\ Own(j.of) # 0
  <1>1. j.of \in Buffer
    BY JobsTyped
  <1>2. /\ Queued("loadBuffer", j.of) \in Nat
        /\ Running("loadBuffer", j.of, LoadSteps) \in Nat
        /\ \A a \in Actor : In(a, "loadBuffer", j.of, LoadSteps) => Running("loadBuffer", j.of, LoadSteps) >= 1
    BY QueuedNat, RunningNat
  <1>3. CASE j \in Waiting
    <2>1. Queued("loadBuffer", j.of) # 0
      BY <1>3, QueuedSome DEF Waiting, IsFor
    <2> QED
      BY <1>1, <1>2, <2>1 DEF Own
  <1>4. CASE \E c \in Actor : UnderWay(c) /\ j = job[c]
    <2>1. PICK c \in Actor : UnderWay(c) /\ j = job[c]
      BY <1>4
    <2>2. In(c, "loadBuffer", j.of, LoadSteps)
      BY <2>1 DEF In, UnderWay
    <2> QED
      BY <1>1, <1>2, <2>2 DEF Own
  <1> QED
    BY <1>3, <1>4 DEF Pending

LEMMA BufferDoneKept ==
  ASSUME Typed, Places, RefsInv, Kinds, OwnOnce, BufferDone, NEW a \in Actor, StepOf(a)
  PROVE  BufferDone'
  <1>1. OthersKept(a) /\ Shift(a)
    BY OthersAlone, Shifts
  <1> SUFFICES ASSUME NEW j \in Pending', j.kind = "loadBuffer"
               PROVE  buffer'[j.of].result # "success"
    BY DEF BufferDone
  <1>2. j \in Pending \/ (j \in Job /\ NewJob(a, j))
    BY <1>1, JobsFrom
  <1>3. j.of \in Buffer
    BY <1>2, JobsTyped DEF Job
  <1>4. CASE a \in Buffer /\ (CheckLoaded(a) \/ LoadBack(a) \/ Cancel(a))
    <2>0. NewJob(a, j) => CheckLoading(a)
      BY DEF NewJob
    <2>1. j \in Pending
      BY <1>2, <1>4, <2>0 DEF CheckLoaded, LoadBack, Cancel, CheckLoading, At
    <2>2. CASE j.of # a
      <3>1. buffer'[j.of].result = buffer[j.of].result
        BY <1>3, <1>4, <2>2, ClientEdits
      <3> QED
        BY <2>1, <3>1 DEF BufferDone
    <2>3. CASE j.of = a
      <3>1. ~CheckLoaded(a)
        BY <2>1, <2>3, OwnPending DEF CheckLoaded, At, OwnOnce, Unloaded
      <3>2. buffer' = buffer \/ (\E r : r # "success" /\ buffer' = [buffer EXCEPT ![a].result = r])
               \/ buffer' = [buffer EXCEPT ![a].result = "unavailable", ![a].counter = buffer[a].counter + 1]
        BY <1>4, <3>1 DEF LoadBack, Cancel
      <3>3. buffer \in [Buffer -> BufferT]
        BY DEF Typed
      <3> QED
        BY <1>4, <2>1, <2>3, <3>2, <3>3 DEF BufferDone, BufferT
    <2> QED
      BY <2>2, <2>3
  <1>5. CASE Publish(a)
    <2>1. j \in Pending
      BY <1>2, <1>5 DEF NewJob, Publish, AcquireNew, CheckLoading, Cancel, Abandon, NextPage, At
    <2>2. CASE job[a].kind = "loadBuffer" /\ j.of = job[a].of
      <3>1. OwnIn(a, j.of)
        BY <1>5, <2>2 DEF OwnIn, In, Publish, At, LoadSteps
      <3>2. Queued("loadBuffer", j.of) = 0 /\ \A c \in Actor \ {a} : ~OwnIn(c, j.of)
        BY <1>3, <3>1, OwnAlone
      <3>3. j \notin Waiting
        BY <3>2, QueuedSome DEF Waiting, IsFor
      <3>4. \A c \in Actor \ {a} : UnderWay(c) => j # job[c]
        BY <3>2 DEF OwnIn, In, UnderWay
      <3> QED
        BY <1>5, <3>3, <3>4, PublishLeaves
    <2>3. CASE ~(job[a].kind = "loadBuffer" /\ j.of = job[a].of)
      <3>1. buffer'[j.of].result = buffer[j.of].result
        BY <1>3, <1>5, <2>3, PublishEdits
      <3> QED
        BY <2>1, <3>1 DEF BufferDone
    <2> QED
      BY <2>2, <2>3
  <1>6. CASE ~(a \in Buffer /\ (CheckLoaded(a) \/ LoadBack(a) \/ Cancel(a))) /\ ~Publish(a)
    <2>1. buffer'[j.of].result = buffer[j.of].result
      <3>1. CASE Connect(a)
        BY <1>3, <3>1, ConnectEdits
      <3>2. CASE ~Connect(a)
        BY <1>3, <1>6, <3>2, BufferSame
      <3> QED
        BY <3>1, <3>2
    <2>2. CASE j \in Pending
      BY <2>1, <2>2 DEF BufferDone
    <2>3. CASE NewJob(a, j)
      <3>1. a \in Buffer /\ CheckLoading(a) /\ j.of = a
        BY <2>3 DEF NewJob
      <3> QED
        BY <2>1, <3>1 DEF CheckLoading, At, OwnOnce, Unloaded
    <2> QED
      BY <1>2, <2>2, <2>3
  <1> QED
    BY <1>4, <1>5, <1>6

\* A client that leaves its node lets an older dropper of the node be
LEMMA DropsFrom ==
  ASSUME Typed, Places, RefsInv, NEW a \in Actor, StepOf(a), NEW c \in Actor, Dropping(c)'
  PROVE  /\ NodeOf(c)' = NodeOf(c) /\ NodeOf(c) \in Buffer
         /\ \/ Dropping(c) /\ (c = a => Drop(a) /\ node' = node)
            \/ c = a /\ Unacquire(a)
  <1>1. OthersKept(a)
    BY OthersAlone
  <1>2. c = a => Unacquire(a) \/ (Drop(a) /\ node' = node /\ pc[a] = "drop")
    <2> SUFFICES ASSUME pc'[a] \in {"drop", "abandon"}
                 PROVE  Unacquire(a) \/ (Drop(a) /\ node' = node /\ pc[a] = "drop")
      BY DEF Dropping
    <2> USE DEF Typed, Goto, Handled, PostAgain
    <2>1. ~(a \in Buffer /\ (InitBegin(a) \/ UninitBegin(a) \/ UninitEnd(a) \/ WaitInit(a) \/ InitEnd(a) \/ Uninit(a)
                             \/ Cancel(a)))
      BY DEF InitBegin, UninitBegin, UninitEnd, WaitInit, InitEnd, Uninit, Cancel
    <2>2. ~(a \in Buffer /\ (AcquireOld(a) \/ AcquireNew(a) \/ AcquireBack(a) \/ CheckLoaded(a) \/ CheckLoading(a)
                             \/ LoadBack(a)))
      BY DEF AcquireOld, AcquireNew, AcquireBack, CheckLoaded, CheckLoading, LoadBack
    <2>3. ~(a \in Worker /\ JobThread(a))
      BY DEF JobThread, Take, FreeBuffer, Notify
    <2>4. ~OutOfTurn(a) /\ ~NodeBegin(a) /\ ~Open(a) /\ ~Decode(a) /\ ~NextPage(a) /\ ~Finish(a) /\ ~FreeNode(a)
      BY DEF OutOfTurn, NodeBegin, Open, Decode, NextPage, Finish, FreeNode
    <2>5. ~BufferBegin(a) /\ ~Connect(a) /\ ~Look(a) /\ ~Publish(a) /\ ~Fences(a) /\ ~Advance(a) /\ ~Abandon(a)
      BY DEF BufferBegin, Connect, Look, Publish, Fences, Advance, Abandon, AfterUnacquire
    <2>6. Drop(a) => node' = node /\ pc[a] = "drop"
      BY DEF Drop, AfterUnacquire, At
    <2> QED
      BY <2>1, <2>2, <2>3, <2>4, <2>5, <2>6 DEF StepOf, Client, Process
  <1>3. pc[c] \in UnacquireSteps /\ job'[c] = job[c] /\ (c # a => Dropping(c))
    <2>1. CASE c = a
      BY <1>2, <2>1 DEF Unacquire, Drop, At, UnacquireSteps
    <2>2. CASE c # a
      BY <1>1, <2>2 DEF OthersKept, Dropping, UnacquireSteps
    <2> QED
      BY <2>1, <2>2
  <1>4. NodeOf(c) \in Buffer /\ Of(c) \in Buffer /\ Of(c)' = Of(c)
    BY <1>3, NodeOfTyped, JobTyped DEF Of
  <1>5. ~(Of(c) = a /\ (AcquireOld(a) \/ AcquireNew(a)))
    <2> SUFFICES ASSUME Of(c) = a, pc[a] = "acquire"
                 PROVE  FALSE
      BY DEF AcquireOld, AcquireNew, At
    <2>1. CASE c \in Buffer
      BY <1>3, <2>1 DEF Of, UnacquireSteps
    <2>2. CASE c \in Worker
      <3>1. c \notin Buffer
        BY <2>2, ResourceAssumption
      <3>2. job[c].kind = "freeBuffer"
        BY <1>3, <2>2 DEF Places, Place, WorkerAt
      <3> QED
        BY <2>2, <3>1, <3>2 DEF RefsInv, Given, GivenUp, Of
    <2> QED
      BY <2>1, <2>2 DEF Actor
  <1>6. NodeOf(c)' = NodeOf(c)
    <2>1. buffer'[Of(c)].node = buffer[Of(c)].node
      BY <1>4, <1>5, BufferTurns
    <2> QED
      BY <1>4, <2>1 DEF NodeOf
  <1> QED
    BY <1>2, <1>3, <1>4, <1>6 DEF Dropping

LEMMA DropAloneKept ==
  ASSUME Typed, Places, RefsInv, Sound, DropAlone, Freeing, NEW a \in Actor, StepOf(a)
  PROVE  DropAlone'
  <1>1. ASSUME NEW c \in Actor, Dropping(c)'
        PROVE  node'[NodeOf(c)].state = "live" /\ node'[NodeOf(c)].result # "unavailable"
    <2> DEFINE n == NodeOf(c)
    <2>0. n \in Buffer /\ ((Dropping(c) /\ (c = a => Drop(a) /\ node' = node)) \/ (c = a /\ Unacquire(a)))
      BY <1>1, DropsFrom
    <2>1. CASE c = a /\ Unacquire(a)
      <3>1. node[n].state = "live" /\ node[n].refs # 0
        BY <2>1, HoldersCounted
      <3>2. node[n].result # "unavailable"
        BY <2>0, <3>1 DEF Sound
      <3>3. pc[a] = "unacquire"
        BY <2>1 DEF Unacquire, At
      <3>4. /\ ~AcquireNew(a) /\ ~Publish(a) /\ ~Abandon(a) /\ ~AcquireBack(a) /\ ~Drop(a) /\ ~FreeNode(a)
        BY <3>3 DEF AcquireNew, Publish, Abandon, AcquireBack, Drop, FreeNode, Begins, At
      <3> QED
        BY <2>0, <3>1, <3>2, <3>4, NodeSame, ResultSame
    <2>2. CASE Dropping(c) /\ c = a
      BY <2>0, <2>2 DEF DropAlone, Unacquire, At, Dropping
    <2>3. CASE Dropping(c) /\ c # a
      <3>1. node[n].state = "live" /\ node[n].result # "unavailable" /\ (Dropping(a) => NodeOf(a) # n)
        BY <2>3 DEF DropAlone
      <3>2. Gone(n)
        BY <2>3 DEF RefsInv, Unheld, Dropping
      <3>3. CASE a \in Buffer /\ AcquireNew(a)
        BY <2>0, <3>1, <3>3, AcquireNewEdits, NodeTurns
      <3>4. CASE Publish(a)
        <4>1. node'[n].state = node[n].state
          <5>1. ~AcquireNew(a) /\ ~AcquireBack(a) /\ ~Drop(a) /\ ~FreeNode(a)
            BY <3>4 DEF Publish, AcquireNew, AcquireBack, Drop, FreeNode, Begins, At
          <5> QED
            BY <2>0, <5>1, NodeSame
        <4>2. node'[n].result # "unavailable"
          <5>1. CASE job[a].kind = "loadBuffer"
            BY <3>1, <3>4, <5>1, PublishEdits
          <5>2. CASE job[a].kind # "loadBuffer"
            <6>1. job[a].kind \in {"loadNode", "pageNode"} /\ pc[a] = "publish"
              <7>1. pc[a] = "publish"
                BY <3>4, PublishEdits
              <7>2. job[a] \in Job
                BY <7>1, JobTyped DEF LoadSteps
              <7> QED
                BY <5>2, <7>1, <7>2 DEF Places, Place, HandlerAt, LoadSteps, Job, NodeKind, BufferKind
            <6>2. n = job[a].of => res[a] # "unavailable"
              BY <3>1, <6>1 DEF Sound
            <6> QED
              BY <2>0, <3>1, <3>4, <5>2, <6>2, PublishEdits
          <5> QED
            BY <5>1, <5>2
        <4> QED
          BY <3>1, <4>1, <4>2
      <3>5. CASE ~(a \in Buffer /\ AcquireNew(a)) /\ ~Publish(a)
        <4>1. node'[n].result # "unavailable"
          <5>1. CASE Abandon(a)
            BY <2>0, <3>1, <5>1, AbandonEdits DEF Abandon, At, Dropping
          <5>2. CASE ~Abandon(a)
            BY <2>0, <3>1, <3>5, <5>2, ResultSame
          <5> QED
            BY <5>1, <5>2
        <4>2. node'[n].state = "live"
          <5>1. CASE a \in Buffer /\ AcquireBack(a)
            <6>1. n # a
              BY <3>2, <5>1 DEF RefsInv, Locked, AcquireBack, Gone
            <6>2. node' = node \/ node' = [node EXCEPT ![a].state = "freed"]
              BY <5>1 DEF AcquireBack
            <6> QED
              BY <2>0, <3>1, <6>1, <6>2 DEF Typed
          <5>2. CASE Drop(a)
            <6>1. n # NodeOf(a)
              BY <3>1, <5>2 DEF Drop, At, Dropping
            <6>2. node' = node \/ node' = [node EXCEPT ![NodeOf(a)].state = "freed"]
              BY <5>2 DEF Drop
            <6> QED
              BY <2>0, <3>1, <6>1, <6>2 DEF Typed
          <5>3. CASE FreeNode(a)
            <6>1. Carries(a) /\ job[a].kind = "freeNode"
              BY <5>3, JobsTyped DEF FreeNode, Begins, At, UnderWay, LoadSteps
            <6>2. node[job[a].of].result = "unavailable"
              BY <6>1, JobsTyped DEF Freeing
            <6>3. n # job[a].of /\ node' = [node EXCEPT ![job[a].of].state = "freed"]
              BY <3>1, <5>3, <6>2 DEF FreeNode
            <6> QED
              BY <2>0, <3>1, <6>3 DEF Typed
          <5>4. CASE ~(a \in Buffer /\ AcquireBack(a)) /\ ~Drop(a) /\ ~FreeNode(a)
            BY <2>0, <3>1, <3>5, <5>4, NodeSame
          <5> QED
            BY <5>1, <5>2, <5>3, <5>4
        <4> QED
          BY <4>1, <4>2
      <3> QED
        BY <3>3, <3>4, <3>5
    <2> QED
      BY <2>0, <2>1, <2>2, <2>3
  <1>2. ASSUME NEW c \in Actor, NEW d \in Actor, Dropping(c)', Dropping(d)', NodeOf(d) = NodeOf(c)
        PROVE  d = c
    <2>1. /\ Dropping(c) \/ (c = a /\ Unacquire(a))
          /\ Dropping(d) \/ (d = a /\ Unacquire(a))
      BY <1>2, DropsFrom
    <2>2. Unacquire(a) => node[NodeOf(a)].refs # 0
      BY HoldersCounted
    <2>3. \A b \in Actor : Dropping(b) => node[NodeOf(b)].refs = 0
      BY DEF RefsInv, Unheld, Gone, Dropping
    <2> QED
      BY <1>2, <2>1, <2>2, <2>3 DEF DropAlone
  <1>3. \A c \in Actor : Dropping(c)' => NodeOf(c)' = NodeOf(c)
    BY DropsFrom
  <1> QED
    BY <1>1, <1>2, <1>3 DEF DropAlone

LEMMA FreeingKept ==
  ASSUME Typed, Places, RefsInv, NoneBefore, Freeing, NEW a \in Actor, StepOf(a)
  PROVE  Freeing'
  <1>1. OthersKept(a) /\ Shift(a)
    BY OthersAlone, Shifts
  <1> SUFFICES ASSUME NEW j \in Jobs', j.kind = "freeNode"
               PROVE  node'[j.of].result = "unavailable"
    BY DEF Freeing
  <1>2. j \in Jobs \/ (j \in Job /\ NewJob(a, j))
    BY <1>1, JobsFrom
  <1>3. CASE j \in Jobs
    <2>1. j.of \in Buffer /\ node[j.of].result = "unavailable"
      BY <1>3, JobsTyped DEF Freeing
    <2>2. ~(j.of = a /\ AcquireNew(a))
      BY <1>3 DEF NoneBefore, NodeKind, AcquireNew, At, Before
    <2> QED
      BY <2>1, <2>2, UnavailableStays
  <1>4. CASE NewJob(a, j)
    BY <1>4, AbandonEdits DEF NewJob
  <1> QED
    BY <1>2, <1>3, <1>4

LEMMA EmployedKept ==
  ASSUME Typed, Employed, NEW a \in Actor, StepOf(a)
  PROVE  Employed'
  <1>1. OthersKept(a) /\ config' = config
    BY OthersAlone, ConfigKept
  <1>2. a \in Worker /\ pc[a] = "idle" => a \in config.workers
    <2> SUFFICES ASSUME a \in Worker, pc[a] = "idle"
                 PROVE  Take(a)
      BY DEF Take
    <2>1. ~FreeBuffer(a) /\ ~Notify(a) /\ a \notin Buffer
      BY ResourceAssumption DEF FreeBuffer, Notify, Begins, At
    <2>2. ~OutOfTurn(a) /\ ~NodeBegin(a) /\ ~Open(a) /\ ~Decode(a) /\ ~NextPage(a) /\ ~Finish(a) /\ ~FreeNode(a)
      BY DEF OutOfTurn, NodeBegin, Open, Decode, NextPage, Finish, FreeNode, Begins, At
    <2>3. ~BufferBegin(a) /\ ~Connect(a) /\ ~Look(a) /\ ~Publish(a) /\ ~Fences(a) /\ ~Advance(a)
      BY DEF BufferBegin, Connect, Look, Publish, Fences, Advance, Begins, At
    <2>4. ~Unacquire(a) /\ ~Drop(a) /\ ~Abandon(a)
      BY DEF Unacquire, Drop, Abandon, At
    <2> QED
      BY <2>1, <2>2, <2>3, <2>4 DEF StepOf, JobThread, Process
  <1>3. ASSUME NEW w \in Worker, pc'[w] # "idle"
        PROVE  w \in config'.workers
    <2>1. CASE w = a
      BY <1>1, <1>2, <2>1 DEF Employed
    <2>2. CASE w # a
      BY <1>1, <1>3, <2>2 DEF Employed, OthersKept, Actor
    <2> QED
      BY <2>1, <2>2
  <1> QED
    BY <1>3 DEF Employed

LEMMA NoPagesKept ==
  ASSUME Typed, Places, RefsInv, NoPages, NEW a \in Actor, StepOf(a)
  PROVE  NoPages'
  <1>1. config' = config
    BY ConfigKept
  <1>2. ASSUME ~config.decode, NEW n \in Buffer
        PROVE  node'[n].decoder = "none"
    <2>0. node[n].decoder = "none" /\ node \in [Buffer -> NodeT]
      BY <1>2 DEF NoPages, Typed
    <2>1. CASE a \in Buffer /\ AcquireNew(a)
      BY <2>0, <2>1, NodeTurns
    <2>2. CASE Open(a)
      <3>1. \/ node' = node
            \/ node' = [node EXCEPT ![job[a].of].known = TRUE, ![job[a].of].decoder = Carried]
        BY <1>2, <2>2 DEF Open, Carried
      <3>2. Carried = "none"
        BY <1>2 DEF Carried
      <3> QED
        BY <2>0, <3>1, <3>2 DEF NodeT
    <2>3. CASE Finish(a)
      BY <2>0, <2>3 DEF Finish, NodeT
    <2>4. CASE ~(a \in Buffer /\ AcquireNew(a)) /\ ~Open(a) /\ ~Finish(a)
      BY <2>0, <2>4, DecoderSame
    <2> QED
      BY <2>1, <2>2, <2>3, <2>4
  <1> QED
    BY <1>1, <1>2 DEF NoPages
---------------------------------------------------------------------------
(* Where a client goes *)

ClientGoesTo(a) ==
  /\ pc'[a] = "wait" => LoadBack(a)
  /\ pc'[a] = "unacquire" => LoadBack(a) \/ WaitInit(a) \/ (Uninit(a) /\ buffer[a].result = "success")
  /\ pc'[a] = "cancel" => Uninit(a) /\ buffer[a].result # "success"
  /\ pc'[a] = "uninit" => UninitBegin(a)
  /\ pc'[a] = "drop" => Unacquire(a)
  /\ pc'[a] = "abandon" => Drop(a) /\ node[NodeOf(a)].result = "busy"
  /\ pc[a] \in GivenUp => pc'[a] \in GivenUp
  /\ Unloaded(a) /\ ~Unloaded(a)' => CheckLoaded(a) \/ CheckLoading(a) \/ (AcquireBack(a) /\ pc'[a] = "release")

LEMMA ClientGoes ==
  ASSUME Typed, Places, NEW a \in Buffer, a \in Actor, StepOf(a)
  PROVE  ClientGoesTo(a)
  <1>w. a \notin Worker
    BY ResourceAssumption
  <1> USE DEF Typed, Goto, At
  <1>1. CASE InitBegin(a)
    BY <1>1 DEF InitBegin, ClientGoesTo, Unloaded, Before, GivenUp
  <1>2. CASE UninitBegin(a) \/ UninitEnd(a) \/ WaitInit(a) \/ InitEnd(a) \/ Uninit(a) \/ Cancel(a)
    <2>1. pc[a] \notin Before \cup {"check"} /\ (pc[a] \in GivenUp => pc'[a] \in GivenUp) /\ job'[a] = job[a]
      BY <1>2 DEF UninitBegin, UninitEnd, WaitInit, InitEnd, Uninit, Cancel, Before, GivenUp, shared
    <2>2. ~(Unloaded(a) /\ ~Unloaded(a)')
      BY <2>1 DEF Unloaded
    <2>3. pc'[a] \notin {"wait", "drop", "abandon"}
      BY <1>2 DEF UninitBegin, UninitEnd, WaitInit, InitEnd, Uninit, Cancel
    <2>4. /\ pc'[a] = "unacquire" => WaitInit(a) \/ (Uninit(a) /\ buffer[a].result = "success")
          /\ pc'[a] = "cancel" => Uninit(a) /\ buffer[a].result # "success"
          /\ pc'[a] = "uninit" => UninitBegin(a)
      BY <1>2 DEF UninitBegin, UninitEnd, WaitInit, InitEnd, Uninit, Cancel
    <2> QED
      BY <2>1, <2>2, <2>3, <2>4 DEF ClientGoesTo
  <1>3. CASE AcquireOld(a) \/ AcquireNew(a)
    <2>1. pc[a] = "acquire"
      BY <1>3 DEF AcquireOld, AcquireNew
    <2>2. pc'[a] = "check" \/ (pc'[a] = "begin" /\ job'[a].kind = "loadNode")
      BY <1>3 DEF AcquireOld, AcquireNew
    <2> QED
      BY <2>1, <2>2 DEF ClientGoesTo, Unloaded, GivenUp
  <1>4. CASE AcquireBack(a)
    BY <1>4 DEF AcquireBack, ClientGoesTo, Unloaded, GivenUp
  <1>5. CASE CheckLoaded(a) \/ CheckLoading(a)
    <2>1. pc[a] = "check" /\ pc'[a] \in {"release", "failed", "begin"}
      BY <1>5 DEF CheckLoaded, CheckLoading
    <2> QED
      BY <1>5, <2>1 DEF ClientGoesTo, GivenUp
  <1>6. CASE LoadBack(a)
    <2>1. pc[a] = "back" /\ job[a].kind = "loadBuffer" /\ pc'[a] \in {"wait", "unacquire"}
      BY <1>6 DEF LoadBack
    <2> QED
      BY <1>6, <2>1 DEF ClientGoesTo, Unloaded, Before, GivenUp
  <1>7. CASE Process(a) /\ pc[a] \in LoadSteps \cup {"tail"}
    <2>1. job'[a] = job[a] /\ pc'[a] \in LoadSteps \cup {"tail", "back"}
      <3>1. CASE OutOfTurn(a) \/ NodeBegin(a) \/ Open(a) \/ Decode(a) \/ NextPage(a) \/ Finish(a) \/ FreeNode(a)
        BY <1>w, <3>1 DEF OutOfTurn, NodeBegin, Open, Decode, NextPage, Finish, FreeNode, PostAgain, Handled, LoadSteps
      <3>2. CASE BufferBegin(a) \/ Connect(a) \/ Look(a) \/ Publish(a) \/ Fences(a) \/ Advance(a)
        BY <1>w, <3>2 DEF BufferBegin, Connect, Look, Publish, Fences, Advance, PostAgain, Handled, LoadSteps
      <3>3. ~(Unacquire(a) \/ Drop(a) \/ Abandon(a))
        BY <1>7 DEF Unacquire, Drop, Abandon, LoadSteps
      <3> QED
        BY <1>7, <3>1, <3>2, <3>3 DEF Process
    <2> QED
      BY <1>7, <2>1 DEF ClientGoesTo, Unloaded, Before, GivenUp, LoadSteps
  <1>8. CASE Unacquire(a) \/ Drop(a) \/ Abandon(a)
    <2>1. pc[a] \in UnacquireSteps /\ job'[a] = job[a]
      BY <1>8 DEF Unacquire, Drop, Abandon, UnacquireSteps
    <2>2. pc'[a] \in {"drop", "abandon", "release", "leave"}
      BY <1>8, <1>w DEF Unacquire, Drop, Abandon, AfterUnacquire
    <2>3. pc'[a] = "drop" => Unacquire(a)
      BY <1>8, <1>w DEF Drop, Abandon, AfterUnacquire
    <2>4. pc'[a] = "abandon" => Drop(a) /\ node[NodeOf(a)].result = "busy"
      BY <1>8, <1>w DEF Unacquire, Drop, Abandon, AfterUnacquire
    <2> QED
      BY <2>1, <2>2, <2>3, <2>4 DEF ClientGoesTo, Unloaded, Before, GivenUp, UnacquireSteps
  <1>9. Process(a) => pc[a] \in LoadSteps \cup {"tail"} \/ Unacquire(a) \/ Drop(a) \/ Abandon(a)
    BY DEF Process, OutOfTurn, NodeBegin, Open, Decode, NextPage, Finish, FreeNode, BufferBegin, Connect, Look, Publish,
       Fences, Advance, Begins, LoadSteps
  <1> QED
    BY <1>w, <1>1, <1>2, <1>3, <1>4, <1>5, <1>6, <1>7, <1>8, <1>9 DEF StepOf, Client

---------------------------------------------------------------------------
(* Where jobs processed in place do not fail *)

\* A carried job has its turn to itself
LEMMA TurnAlone ==
  ASSUME Distinct, NEW a \in Actor, Carries(a), NEW j \in Jobs, SameTurn(j, job[a])
  PROVE  j = job[a]
  <1>1. CASE j \in Waiting
    BY <1>1 DEF Distinct, Waiting
  <1>2. CASE \E c \in Actor : Carries(c) /\ j = job[c]
    BY <1>2 DEF Distinct
  <1> QED
    BY <1>1, <1>2 DEF Jobs

\* Nobody gives a buffer back while its job may still use the node
LEMMA GivesBackLast ==
  ASSUME Typed, Places, RefsInv, Turns, BufferDone, ClientDrops, NEW a \in Actor, Unacquire(a),
         NEW j \in Pending, j.kind = "loadBuffer"
  PROVE  j.of # Of(a)
  <1>1. pc[a] = "unacquire"
    BY DEF Unacquire, At
  <1>2. CASE a \in Buffer
    BY <1>1, <1>2 DEF Of, ClientDrops, BufferDone
  <1>3. CASE a \in Worker
    <2>1. a \notin Buffer /\ job[a].kind = "freeBuffer" /\ job[a] # NoJob
      BY <1>1, <1>3, ResourceAssumption DEF Places, Place, WorkerAt, UnacquireSteps
    <2>2. Carries(a) /\ job[a] \in Jobs /\ j \in Jobs
      BY <1>1, <2>1, JobsTyped DEF Carries
    <2>3. job[a].order = Pointer(job[a]) /\ Pointer(j) <= j.order /\ j.order = 0
      BY <1>1, <2>2 DEF Turns, Due, OwnFirst
    <2>4. ASSUME j.of = job[a].of
          PROVE  FALSE
      <3>1. j.kind \notin NodeKind /\ job[a].kind \notin NodeKind
        BY <2>1 DEF NodeKind
      <3>2. Pointer(j) = Pointer(job[a]) /\ Pointer(j) \in Nat
        <4>1. j.of \in Buffer
          BY <2>2, JobsTyped
        <4> QED
          BY <2>4, <3>1, <4>1, Fields DEF Pointer
      <3>3. j.order = job[a].order
        BY <2>3, <3>2
      <3>4. SameTurn(j, job[a])
        BY <2>4, <3>1, <3>3 DEF SameTurn
      <3>5. j = job[a]
        BY <2>2, <3>4, TurnAlone DEF Turns
      <3> QED
        BY <2>1, <3>5
    <2> QED
      BY <2>1, <2>4 DEF Of
  <1> QED
    BY <1>2, <1>3 DEF Actor

LEMMA OwnHoldsKept ==
  ASSUME Careful, Typed, Places, RefsInv, InPlace, Turns, BufferDone, ClientDrops, OwnHolds, NEW a \in Actor, StepOf(a)
  PROVE  OwnHolds'
  <1>1. OthersKept(a) /\ Shift(a)
    BY OthersAlone, Shifts
  <1> SUFFICES ASSUME NEW j \in Pending', j.kind = "loadBuffer"
               PROVE  buffer'[j.of].holds
    BY DEF OwnHolds
  <1>2. j \in Pending \/ (j \in Job /\ NewJob(a, j))
    BY <1>1, JobsFrom
  <1>3. j.of \in Buffer /\ buffer \in [Buffer -> BufferT]
    BY <1>2, JobsTyped DEF Job, Typed
  <1>4. CASE NewJob(a, j)
    <2>1. a \in Buffer /\ CheckLoading(a) /\ j.of = a
      BY <1>4 DEF NewJob
    <2>2. pc[a] = "check" /\ buffer[a].holds
      BY <2>1 DEF CheckLoading, At, RefsInv, Kept, HoldSteps
    <2>3. ~AcquireOld(a) /\ ~AcquireNew(a) /\ ~AcquireBack(a) /\ ~Unacquire(a)
      BY <2>2 DEF AcquireOld, AcquireNew, AcquireBack, Unacquire, At
    <2> QED
      BY <2>1, <2>2, <2>3, BufferTurns
  <1>5. CASE j \in Pending
    <2>0. buffer[j.of].holds
      BY <1>5 DEF OwnHolds
    <2>1. CASE a \in Buffer /\ (AcquireOld(a) \/ AcquireNew(a))
      <3>1. \E x : buffer' = [buffer EXCEPT ![a].node = x, ![a].holds = TRUE]
        BY <2>1 DEF AcquireOld, AcquireNew
      <3> QED
        BY <1>3, <2>0, <2>1, <3>1 DEF BufferT
    <2>2. CASE a \in Buffer /\ AcquireBack(a)
      <3>1. res[a] \in {"busy", "success"}
        BY <2>2, InPlaceSucceeds DEF AcquireBack, At
      <3>2. buffer' = buffer
        BY <2>2, <3>1 DEF AcquireBack
      <3> QED
        BY <2>0, <3>2
    <2>3. CASE Unacquire(a)
      <3>1. j.of # Of(a) /\ Of(a) \in Buffer
        BY <1>5, <2>3, GivesBackLast, JobTyped DEF Unacquire, At, UnacquireSteps
      <3>2. buffer' = [buffer EXCEPT ![Of(a)].holds = FALSE]
        BY <2>3 DEF Unacquire
      <3> QED
        BY <1>3, <2>0, <3>1, <3>2
    <2>4. CASE ~(a \in Buffer /\ (AcquireOld(a) \/ AcquireNew(a) \/ AcquireBack(a))) /\ ~Unacquire(a)
      BY <1>3, <2>0, <2>4, BufferTurns
    <2> QED
      BY <2>1, <2>2, <2>3, <2>4
  <1> QED
    BY <1>2, <1>4, <1>5

\* A buffer's load job finds a node that is held, neither given up nor failed
LEMMA LoadNodeHeld ==
  ASSUME Typed, Places, RefsInv, OwnHolds, NEW a \in Actor, job[a].kind = "loadBuffer", UnderWay(a)
  PROVE  /\ Of(a) = job[a].of /\ job[a].of \in Buffer /\ buffer[job[a].of].holds
         /\ NodeOf(a) = buffer[job[a].of].node /\ NodeOf(a) \in Buffer /\ node[NodeOf(a)].refs # 0
         /\ Sound /\ NoError /\ ~config.fails => node[NodeOf(a)].result \in {"busy", "success"}
  <1>1. job[a] \in Pending /\ job[a].of \in Buffer /\ job[a] # NoJob
    BY JobsTyped DEF Carries
  <1>2. buffer[job[a].of].holds
    BY <1>1 DEF OwnHolds
  <1>3. Of(a) = job[a].of
    BY <1>1, ResourceAssumption DEF Of, Places, Place, ClientAt, Actor
  <1>4. NodeOf(a) = buffer[job[a].of].node /\ NodeOf(a) \in Buffer /\ node[NodeOf(a)].refs # 0
    BY <1>1, <1>2, <1>3, HeldCounted DEF NodeOf
  <1>5. Sound /\ NoError /\ ~config.fails => node[NodeOf(a)].result \in {"busy", "success"}
    BY <1>4, Fields DEF Sound, NoError, Result
  <1> QED
    BY <1>1, <1>2, <1>3, <1>4, <1>5

\* Where buffers' results come from
LEMMA ResultFrom ==
  ASSUME Careful, Typed, Places, RefsInv, InPlace, NEW a \in Actor, StepOf(a), NEW b \in Buffer
  PROVE  \/ buffer'[b].result = buffer[b].result
         \/ b = a /\ CheckLoaded(a) /\ buffer'[b].result = "success"
         \/ b = a /\ CheckLoaded(a) /\ buffer'[b].result = "error" /\ config.fails
         \/ b = a /\ Cancel(a) /\ buffer'[b].result = "unavailable"
         \/ /\ Publish(a) /\ job[a].kind = "loadBuffer" /\ b = job[a].of
            /\ buffer[b].result = "busy" /\ buffer'[b].result = res[a]
  <1>0. buffer \in [Buffer -> BufferT]
    BY DEF Typed
  <1>1. CASE a \in Buffer /\ CheckLoaded(a)
    <2>1. \/ buffer' = [buffer EXCEPT ![a].connector = TRUE, ![a].result = "success"]
          \/ buffer' = [buffer EXCEPT ![a].result = "error"] /\ config.fails
      BY <1>1 DEF CheckLoaded
    <2> QED
      BY <1>0, <1>1, <2>1 DEF BufferT
  <1>2. CASE a \in Buffer /\ LoadBack(a)
    <2>1. res[a] = "success"
      BY <1>2, InPlaceSucceeds DEF LoadBack, At
    <2> QED
      BY <1>2, <2>1 DEF LoadBack
  <1>3. CASE a \in Buffer /\ Cancel(a)
    BY <1>0, <1>3 DEF Cancel, BufferT
  <1>4. CASE Publish(a)
    BY <1>4, PublishEdits
  <1>5. CASE Connect(a)
    BY <1>5, ConnectEdits
  <1>6. CASE ~(a \in Buffer /\ (CheckLoaded(a) \/ LoadBack(a) \/ Cancel(a))) /\ ~Connect(a) /\ ~Publish(a)
    BY <1>6, BufferSame
  <1> QED
    BY <1>1, <1>2, <1>3, <1>4, <1>5, <1>6

\* The result with which a buffer's load comes to its publication
LEMMA PublishFrom ==
  ASSUME Typed, Places, RefsInv, Kinds, BufferDone, OwnHolds, NEW a \in Actor, StepOf(a), pc'[a] = "publish",
         job'[a].kind = "loadBuffer"
  PROVE  /\ job'[a] = job[a] /\ UnderWay(a)
         /\ \/ res'[a] \notin {"success", "busy"} /\ (Sound /\ NoError => config.fails \/ buffer[job[a].of].result # "busy")
            \/ Look(a) /\ res'[a] = "success" /\ node[NodeOf(a)].result = "success"
  <1>1. /\ job'[a] = job[a] /\ job[a].of \in Buffer
        /\ \/ Connect(a)
           \/ Publish(a)
           \/ BufferBegin(a) /\ res'[a] = buffer[job[a].of].result
           \/ Look(a) /\ res'[a] = node[NodeOf(a)].result /\ res'[a] # "busy"
    BY ToPublish
  <1>2. ~Publish(a)
    BY PublishEdits
  <1>3. CASE Connect(a)
    <2>1. pc[a] = "connect" /\ res'[a] \notin {"success", "busy"}
      BY <1>3, ConnectEdits
    <2>2. UnderWay(a)
      BY <2>1 DEF UnderWay, LoadSteps
    <2>3. Sound /\ NoError /\ ~config.fails => node[NodeOf(a)].result \in {"busy", "success"}
      BY <1>1, <2>2, LoadNodeHeld
    <2>4. node[NodeOf(a)].result \in {"busy", "success"} => config.fails
      BY <1>3 DEF Connect, Goto, Typed
    <2> QED
      BY <1>1, <2>1, <2>2, <2>3, <2>4
  <1>4. CASE BufferBegin(a) /\ res'[a] = buffer[job[a].of].result
    <2>1. pc[a] = "begin" /\ res'[a] # "busy"
      BY <1>4 DEF BufferBegin, Begins, At, Goto, Typed
    <2>2. UnderWay(a)
      BY <2>1 DEF UnderWay, LoadSteps
    <2>3. buffer[job[a].of].result # "success"
      BY <1>1, <2>2, JobsTyped DEF BufferDone
    <2> QED
      BY <1>1, <1>4, <2>1, <2>2, <2>3
  <1>5. CASE Look(a) /\ res'[a] = node[NodeOf(a)].result /\ res'[a] # "busy"
    <2>1. UnderWay(a)
      BY <1>5 DEF Look, At, UnderWay, LoadSteps
    <2>2. Sound /\ NoError /\ ~config.fails => node[NodeOf(a)].result \in {"busy", "success"}
      BY <1>1, <2>1, LoadNodeHeld
    <2> QED
      BY <1>1, <1>5, <2>1, <2>2
  <1> QED
    BY <1>1, <1>2, <1>3, <1>4, <1>5

LEMMA AllGoodKept ==
  ASSUME Careful, Typed, Places, RefsInv, Kinds, InPlace, Sound, NoError, BufferDone, OwnHolds, AllGood,
         NEW a \in Actor, StepOf(a)
  PROVE  AllGood'
  <1>1. OthersKept(a) /\ config' = config /\ (a \in Buffer => ClientGoesTo(a))
    BY OthersAlone, ConfigKept, ClientGoes
  <1>2. ASSUME NEW b \in Buffer, pc'[b] = "wait"
        PROVE  b \in config.wait
    <2>1. CASE b = a
      <3>1. job[b] # NoJob
        BY <1>1, <1>2, <2>1 DEF ClientGoesTo, LoadBack, At, Places, Place, ClientAt
      <3> QED
        BY <3>1 DEF InPlace, InPlaceAt
    <2>2. CASE b # a
      BY <1>1, <1>2, <2>2 DEF OthersKept, AllGood, Actor
    <2> QED
      BY <2>1, <2>2
  <1>3. ASSUME ~config.fails, NEW b \in Buffer, pc'[b] \notin GivenUp
        PROVE  Good(b)'
    <2>1. pc[b] \notin GivenUp /\ Good(b)
      <3>1. pc[b] \notin GivenUp
        BY <1>1, <1>3 DEF ClientGoesTo, OthersKept, Actor
      <3> QED
        BY <1>3, <3>1 DEF AllGood
    <2>2. buffer'[b].result \in {"busy", "success"}
      <3>1. ~(b = a /\ Cancel(a))
        BY <1>3 DEF Cancel, Goto, GivenUp, Typed
      <3>2. Publish(a) /\ job[a].kind = "loadBuffer" /\ b = job[a].of => res[a] = "success"
        BY <2>1 DEF Good, Publish, At
      <3>3. buffer[b].result \in {"busy", "success"}
        BY <2>1 DEF Good
      <3>4. \/ buffer'[b].result = buffer[b].result \/ buffer'[b].result = "success"
            \/ Publish(a) /\ job[a].kind = "loadBuffer" /\ b = job[a].of /\ buffer'[b].result = res[a]
        BY <1>3, <3>1, ResultFrom
      <3> QED
        BY <3>2, <3>3, <3>4
    <2>3. ASSUME NEW c \in Actor, job'[c].kind = "loadBuffer", job'[c].of = b, pc'[c] = "publish"
          PROVE  res'[c] = "success"
      <3>1. CASE c = a
        <4>1. job'[a] = job[a]
          BY <2>3, <3>1, PublishFrom
        <4>2. \/ res'[a] \notin {"success", "busy"} /\ (Sound /\ NoError => config.fails \/ buffer[job[a].of].result # "busy")
              \/ res'[a] = "success"
          BY <2>3, <3>1, PublishFrom
        <4>3. UnderWay(a)
          BY <2>3, <3>1, PublishFrom
        <4>4. buffer[b].result = "busy"
          <5>1. job[a] \in Pending
            BY <4>3, JobsTyped
          <5> QED
            BY <2>1, <2>3, <3>1, <4>1, <5>1 DEF BufferDone, Good
        <4> QED
          BY <1>3, <2>3, <3>1, <4>1, <4>2, <4>4
      <3>2. CASE c # a
        BY <1>1, <2>1, <2>3, <3>2 DEF OthersKept, Good
      <3> QED
        BY <3>1, <3>2
    <2> QED
      BY <2>2, <2>3 DEF Good
  <1> QED
    BY <1>1, <1>2, <1>3 DEF AllGood

\* The node of a buffer that is held stays ready
LEMMA ReadyStays ==
  ASSUME Typed, Places, RefsInv, NEW a \in Actor, StepOf(a), NEW n \in Buffer,
         node[n].result = "success", node[n].refs # 0, node[n].state # "none"
  PROVE  node'[n].result = "success"
  <1>1. CASE a \in Buffer /\ AcquireNew(a)
    <2>1. n # a
      BY <1>1 DEF RefsInv, Fresh, AcquireNew, At, Before
    <2> QED
      BY <1>1, <2>1, AcquireNewEdits
  <1>2. CASE Publish(a)
    BY <1>2, PublishEdits
  <1>3. CASE Abandon(a)
    BY <1>3, AbandonEdits DEF Gone
  <1> QED
    BY <1>1, <1>2, <1>3, ResultSame

LEMMA ReadyKept ==
  ASSUME Careful, Typed, Places, RefsInv, Kinds, OwnOnce, InPlace, BufferDone, OwnHolds, Ready,
         NEW a \in Actor, StepOf(a)
  PROVE  Ready'
  <1>1. OthersKept(a)
    BY OthersAlone
  <1>2. ASSUME NEW b \in Buffer, buffer'[b].result = "success", buffer'[b].holds
        PROVE  node'[buffer'[b].node].result = "success"
    <2>1. \/ buffer[b].result = "success"
          \/ b = a /\ CheckLoaded(a)
          \/ Publish(a) /\ job[a].kind = "loadBuffer" /\ b = job[a].of /\ res[a] = "success"
      BY <1>2, ResultFrom
    <2>2. ~(b = a /\ (AcquireOld(a) \/ AcquireNew(a)))
      <3> SUFFICES ASSUME b = a, AcquireOld(a) \/ AcquireNew(a)
                   PROVE  FALSE
        OBVIOUS
      <3>1. pc[a] = "acquire"
        BY DEF AcquireOld, AcquireNew, At
      <3>2. buffer[b].result = "busy"
        BY <3>1 DEF OwnOnce, Unloaded, Before
      <3> QED
        BY <2>1, <3>1, <3>2 DEF CheckLoaded, Publish, At
    <2>3. buffer'[b].node = buffer[b].node /\ buffer[b].holds
      <3>1. buffer'[b].node = buffer[b].node
        BY <2>2, BufferTurns
      <3>2. buffer[b].holds
        <4>1. CASE a \in Buffer /\ (AcquireOld(a) \/ AcquireNew(a))
          <5>1. \E x : buffer' = [buffer EXCEPT ![a].node = x, ![a].holds = TRUE]
            BY <4>1 DEF AcquireOld, AcquireNew
          <5> QED
            BY <1>2, <2>2, <4>1, <5>1 DEF Typed
        <4>2. CASE a \in Buffer /\ AcquireBack(a)
          <5>1. buffer' = buffer \/ buffer' = [buffer EXCEPT ![a].holds = FALSE]
            BY <4>2 DEF AcquireBack
          <5>2. buffer \in [Buffer -> BufferT]
            BY DEF Typed
          <5> QED
            BY <1>2, <4>2, <5>1, <5>2 DEF BufferT
        <4>3. CASE Unacquire(a)
          <5>1. buffer' = [buffer EXCEPT ![Of(a)].holds = FALSE] /\ Of(a) \in Buffer
            BY <4>3, JobTyped DEF Unacquire, At, UnacquireSteps
          <5>2. buffer \in [Buffer -> BufferT]
            BY DEF Typed
          <5> QED
            BY <1>2, <5>1, <5>2 DEF BufferT
        <4>4. CASE ~(a \in Buffer /\ (AcquireOld(a) \/ AcquireNew(a) \/ AcquireBack(a))) /\ ~Unacquire(a)
          BY <1>2, <4>4, BufferTurns
        <4> QED
          BY <4>1, <4>2, <4>3, <4>4
      <3> QED
        BY <3>1, <3>2
    <2>4. buffer[b].node \in Buffer /\ node[buffer[b].node].refs # 0 /\ node[buffer[b].node].state # "none"
      BY <2>3, HeldCounted DEF RefsInv, HolderServed
    <2>5. node[buffer[b].node].result = "success"
      <3>1. CASE b = a /\ CheckLoaded(a)
        BY <3>1 DEF CheckLoaded, NodeOf, Of
      <3>2. CASE Publish(a) /\ job[a].kind = "loadBuffer" /\ b = job[a].of /\ res[a] = "success"
        <4>1. UnderWay(a) /\ pc[a] = "publish"
          BY <3>2 DEF Publish, At, UnderWay, LoadSteps
        <4>2. NodeOf(a) = buffer[b].node
          BY <3>2, <4>1, LoadNodeHeld
        <4> QED
          BY <3>2, <4>1, <4>2 DEF Ready
      <3> QED
        BY <2>1, <2>3, <3>1, <3>2 DEF Ready
    <2> QED
      BY <2>3, <2>4, <2>5, ReadyStays
  <1>3. ASSUME NEW c \in Actor, job'[c].kind = "loadBuffer", pc'[c] = "publish", res'[c] = "success"
        PROVE  node'[NodeOf(c)'].result = "success"
    <2>1. job'[c] = job[c] /\ UnderWay(c) /\ node[NodeOf(c)].result = "success"
      <3>1. CASE c = a
        BY <1>3, <3>1, PublishFrom
      <3>2. CASE c # a
        BY <1>1, <1>3, <3>2 DEF OthersKept, UnderWay, LoadSteps, Ready
      <3> QED
        BY <3>1, <3>2
    <2>2. /\ Of(c) = job[c].of /\ Of(c) \in Buffer /\ buffer[Of(c)].holds
          /\ NodeOf(c) \in Buffer /\ node[NodeOf(c)].refs # 0
      BY <1>3, <2>1, LoadNodeHeld
    <2>3. node[NodeOf(c)].state # "none"
      BY <2>2 DEF RefsInv, HolderServed, NodeOf
    <2>4. node'[NodeOf(c)].result = "success"
      BY <2>1, <2>2, <2>3, ReadyStays
    <2>5. ~(Of(c) = a /\ (AcquireOld(a) \/ AcquireNew(a)))
      <3>1. OwnIn(c, Of(c))
        BY <1>3, <2>1, <2>2 DEF OwnIn, In, UnderWay
      <3>2. ~Unloaded(Of(c))
        BY <2>2, <3>1, OwnAlone
      <3> QED
        BY <3>2 DEF Unloaded, Before, AcquireOld, AcquireNew, At
    <2>6. NodeOf(c)' = NodeOf(c)
      <3>1. Of(c)' = Of(c)
        BY <2>1 DEF Of
      <3>2. buffer'[Of(c)].node = buffer[Of(c)].node
        BY <2>2, <2>5, BufferTurns
      <3> QED
        BY <3>1, <3>2 DEF NodeOf
    <2> QED
      BY <2>4, <2>6
  <1> QED
    BY <1>2, <1>3 DEF Ready

LEMMA SuccessStays ==
  ASSUME Careful, Typed, Places, RefsInv, OwnOnce, InPlace, NEW a \in Actor, StepOf(a), NEW b \in Buffer,
         buffer[b].result = "success", ~(b = a /\ Cancel(a))
  PROVE  buffer'[b].result = "success"
  <1>1. ~(b = a /\ CheckLoaded(a))
    BY DEF OwnOnce, Unloaded, CheckLoaded, At
  <1> QED
    BY <1>1, ResultFrom

LEMMA ClientDropsKept ==
  ASSUME Careful, Typed, Places, RefsInv, OwnOnce, InPlace, AllGood, Ready, DropAlone, ClientDrops,
         NEW a \in Actor, StepOf(a)
  PROVE  ClientDrops'
  <1>1. OthersKept(a) /\ (a \in Buffer => ClientGoesTo(a))
    BY OthersAlone, ClientGoes
  <1>2. ASSUME NEW b \in Buffer, pc'[b] = "unacquire"
        PROVE  buffer'[b].result = "success"
    <2>0. ~(b = a /\ Cancel(a))
      BY <1>2 DEF Cancel, Goto, Typed
    <2>1. buffer[b].result = "success"
      <3>1. CASE b # a
        BY <1>1, <1>2, <3>1 DEF OthersKept, ClientDrops, Actor
      <3>2. CASE b = a
        <4>1. ~LoadBack(a)
          <5> SUFFICES ASSUME LoadBack(a)
                       PROVE  FALSE
            OBVIOUS
          <5>1. res[a] = "success"
            BY <3>2, InPlaceSucceeds DEF LoadBack, At
          <5> QED
            BY <1>2, <3>2, <5>1 DEF LoadBack, Goto, Typed
        <4>2. ~WaitInit(a)
          <5> SUFFICES ASSUME WaitInit(a)
                       PROVE  FALSE
            OBVIOUS
          <5>1. pc[a] = "wait" /\ a \in config.wait
            BY <3>2 DEF WaitInit, At, AllGood
          <5>2. ~config.fails
            BY <5>1 DEF Careful
          <5>3. buffer[a].result \in {"busy", "success"}
            BY <3>2, <5>1, <5>2 DEF AllGood, Good, GivenUp
          <5> QED
            BY <1>2, <3>2, <5>3 DEF WaitInit, Goto, Typed
        <4> QED
          BY <1>1, <1>2, <3>2, <4>1, <4>2 DEF ClientGoesTo
      <3> QED
        BY <3>1, <3>2
    <2> QED
      BY <2>0, <2>1, SuccessStays
  <1>3. ASSUME NEW b \in Buffer, pc'[b] = "drop"
        PROVE  node'[NodeOf(b)'].result = "success"
    <2>0. b \in Actor /\ Dropping(b)'
      BY <1>3 DEF Actor, Dropping
    <2>1. /\ NodeOf(b)' = NodeOf(b) /\ NodeOf(b) \in Buffer
          /\ (Dropping(b) /\ (b = a => Drop(a) /\ node' = node)) \/ (b = a /\ Unacquire(a))
      BY <2>0, DropsFrom
    <2>2. CASE b = a /\ Unacquire(a)
      <3>1. pc[a] = "unacquire"
        BY <2>2 DEF Unacquire, At
      <3>2. buffer[b].result = "success" /\ buffer[b].holds
        BY <2>2, <3>1 DEF ClientDrops, RefsInv, Kept, HoldSteps
      <3>3. node[NodeOf(b)].result = "success"
        BY <3>2 DEF Ready, NodeOf, Of
      <3>4. ~AcquireNew(a) /\ ~Publish(a) /\ ~Abandon(a)
        BY <3>1 DEF AcquireNew, Publish, Abandon, At
      <3> QED
        BY <2>1, <3>3, <3>4, ResultSame
    <2>3. CASE Dropping(b) /\ b = a
      <3>1. Drop(a)
        BY <2>1, <2>3 DEF Dropping, Unacquire, At
      <3>2. pc'[a] # "drop"
        BY <3>1 DEF Drop, Goto, Typed, AfterUnacquire
      <3> QED
        BY <1>3, <2>3, <3>2
    <2>4. CASE Dropping(b) /\ b # a
      <3>1. node[NodeOf(b)].result = "success"
        BY <1>1, <1>3, <2>0, <2>4 DEF OthersKept, ClientDrops
      <3>2. CASE a \in Buffer /\ AcquireNew(a)
        <4>1. node[NodeOf(b)].state = "live"
          BY <2>0, <2>4 DEF DropAlone
        <4>2. NodeOf(b) # a
          BY <3>2, <4>1 DEF RefsInv, Fresh, AcquireNew, At, Before
        <4> QED
          BY <2>1, <3>1, <3>2, <4>2, AcquireNewEdits
      <3>3. CASE Publish(a)
        BY <2>1, <3>1, <3>3, PublishEdits
      <3>4. CASE Abandon(a)
        <4>1. NodeOf(a) # NodeOf(b)
          BY <2>0, <2>4, <3>4 DEF DropAlone, Abandon, At, Dropping
        <4> QED
          BY <2>1, <3>1, <3>4, <4>1, AbandonEdits
      <3>5. CASE ~(a \in Buffer /\ AcquireNew(a)) /\ ~Publish(a) /\ ~Abandon(a)
        BY <2>1, <3>1, <3>5, ResultSame
      <3> QED
        BY <2>1, <3>2, <3>3, <3>4, <3>5
    <2> QED
      BY <2>1, <2>2, <2>3, <2>4
  <1>4. ASSUME NEW b \in Buffer, pc'[b] = "abandon"
        PROVE  FALSE
    <2>1. b = a
      BY <1>1, <1>4 DEF OthersKept, ClientDrops, Actor
    <2>2. Drop(a) /\ node[NodeOf(a)].result = "busy"
      BY <1>1, <1>4, <2>1 DEF ClientGoesTo
    <2> QED
      BY <2>1, <2>2 DEF ClientDrops, Drop, At
  <1> QED
    BY <1>2, <1>3, <1>4 DEF ClientDrops

LEMMA StillLoadsKept ==
  ASSUME Careful, Typed, Places, RefsInv, Kinds, InPlace, BufferDone, OwnHolds, StillLoads,
         NEW a \in Actor, StepOf(a)
  PROVE  StillLoads'
  <1>1. OthersKept(a) /\ (a \in Buffer => ClientGoesTo(a))
    BY OthersAlone, ClientGoes
  <1>2. ASSUME NEW b \in Buffer, buffer'[b].result = "busy"
        PROVE  buffer[b].result = "busy"
    <2>1. Publish(a) /\ job[a].kind = "loadBuffer" => res[a] # "busy"
      BY DEF StillLoads, Publish, At
    <2> QED
      BY <1>2, <2>1, ResultFrom
  <1>3. ASSUME NEW b \in Buffer, ~Unloaded(b)', buffer'[b].result = "busy"
        PROVE  Own(b)' # 0
    <2>0. buffer[b].result = "busy"
      BY <1>2, <1>3
    <2>1. CASE b = a /\ CheckLoading(a)
      <3>1. Own(b)' = Own(b) + 1 /\ Own(b) \in Nat
        BY <1>1, <2>1, CountsNat, CheckLoadingCounts DEF Bit
      <3> QED
        BY <3>1
    <2>2. CASE ~(b = a /\ CheckLoading(a))
      <3>1. ~Unloaded(b)
        <4> SUFFICES ASSUME Unloaded(b)
                     PROVE  FALSE
          OBVIOUS
        <4>1. b = a
          BY <1>1, <1>3 DEF OthersKept, Unloaded, Actor
        <4>2. ~CheckLoaded(a)
          <5>1. CheckLoaded(a) => \/ buffer' = [buffer EXCEPT ![a].connector = TRUE, ![a].result = "success"]
                                  \/ buffer' = [buffer EXCEPT ![a].result = "error"]
            BY DEF CheckLoaded
          <5>2. buffer \in [Buffer -> BufferT]
            BY DEF Typed
          <5> QED
            BY <1>3, <4>1, <5>1, <5>2 DEF BufferT
        <4>3. ~(AcquireBack(a) /\ pc'[a] = "release")
          <5> SUFFICES ASSUME AcquireBack(a)
                       PROVE  pc'[a] # "release"
            OBVIOUS
          <5>1. res[a] \in {"busy", "success"}
            BY <4>1, InPlaceSucceeds DEF AcquireBack, At
          <5> QED
            BY <5>1 DEF AcquireBack, Goto, Typed
        <4> QED
          BY <1>1, <1>3, <2>2, <4>1, <4>2, <4>3 DEF ClientGoesTo
      <3>2. Own(b) # 0
        BY <2>0, <3>1 DEF StillLoads
      <3>3. ~(Fences(a) /\ IsFor(job[a], "loadBuffer", b))
        BY <2>0 DEF StillLoads, Fences, At, IsFor
      <3> QED
        BY <2>2, <3>2, <3>3, OwnAfter
    <2> QED
      BY <2>1, <2>2
  <1>4. ASSUME NEW c \in Actor, job'[c].kind = "loadBuffer", pc'[c] = "fences"
        PROVE  buffer'[job'[c].of].result # "busy"
    <2>1. CASE c = a
      <3>1. Publish(a)
        BY <1>4, <2>1, ToPublish, ConnectEdits DEF BufferBegin, Look
      <3>2. job'[a] = job[a] /\ job[a].of \in Buffer /\ res[a] # "busy"
        BY <1>4, <2>1, <3>1, PublishEdits DEF StillLoads
      <3> QED
        BY <1>4, <2>1, <3>1, <3>2, PublishEdits
    <2>2. CASE c # a
      <3>1. job'[c] = job[c] /\ pc[c] = "fences"
        BY <1>1, <1>4, <2>2 DEF OthersKept
      <3>2. job[c].of \in Buffer
        BY <3>1, JobTyped DEF LoadSteps
      <3> QED
        BY <1>2, <1>4, <3>1, <3>2 DEF StillLoads
    <2> QED
      BY <2>1, <2>2
  <1>5. ASSUME NEW c \in Actor, job'[c].kind = "loadBuffer", pc'[c] = "publish"
        PROVE  res'[c] # "busy"
    <2>1. CASE c = a
      BY <1>5, <2>1, PublishFrom
    <2>2. CASE c # a
      BY <1>1, <1>5, <2>2 DEF OthersKept, StillLoads
    <2> QED
      BY <2>1, <2>2
  <1> QED
    BY <1>3, <1>4, <1>5 DEF StillLoads

LEMMA NeverGivenUpKept ==
  ASSUME Careful, Typed, Places, RefsInv, Kinds, OwnOnce, InPlace, Fenced, AllGood, StillLoads, NeverGivenUp,
         NEW a \in Actor, StepOf(a)
  PROVE  NeverGivenUp'
  <1>1. OthersKept(a) /\ Shift(a) /\ config' = config /\ (a \in Buffer => ClientGoesTo(a))
    BY OthersAlone, Shifts, ConfigKept, ClientGoes
  <1> SUFFICES ASSUME ~config.early, ~config.fails
               PROVE  /\ \A b \in Buffer : pc'[b] # "cancel" /\ (pc'[b] = "uninit" => buffer'[b].result = "success")
                      /\ \A j \in Jobs' : j.kind # "freeBuffer"
    BY <1>1 DEF NeverGivenUp
  <1>0. /\ \A b \in Buffer : pc[b] # "cancel" /\ (pc[b] = "uninit" => buffer[b].result = "success")
        /\ \A j \in Jobs : j.kind # "freeBuffer"
    BY DEF NeverGivenUp
  <1>2. ASSUME NEW b \in Buffer
        PROVE  pc'[b] # "cancel"
    <2>1. b = a /\ pc'[a] = "cancel" => Uninit(a) /\ buffer[a].result # "success"
      BY <1>1 DEF ClientGoesTo
    <2> QED
      BY <1>0, <1>1, <2>1 DEF OthersKept, Actor, Uninit, At
  <1>3. ASSUME NEW b \in Buffer, pc'[b] = "uninit"
        PROVE  buffer'[b].result = "success"
    <2>1. ~(b = a /\ Cancel(a))
      BY <1>0 DEF Cancel, At
    <2>2. CASE b # a
      BY <1>0, <1>1, <1>3, <2>1, <2>2, SuccessStays DEF OthersKept, Actor
    <2>3. CASE b = a
      <3>1. UninitBegin(a)
        BY <1>1, <1>3, <2>3 DEF ClientGoesTo
      <3>2. pc[a] = "held" /\ fence[a].done = 0 /\ buffer' = buffer
        BY <3>1 DEF UninitBegin, At, shared
      <3>3. Own(a) = 0
        <4>1. fence[a].done = Outer(a) + LoadsLeft(a) + Own(a)
          BY <2>3 DEF Fenced, FenceAt
        <4>2. Outer(a) \in Nat /\ LoadsLeft(a) \in Nat /\ Own(a) \in Nat
          BY OuterNat, CountsNat
        <4> QED
          BY <3>2, <4>1, <4>2
      <3>4. ~Unloaded(a)
        <4>1. job[a] = NoJob
          BY <2>3, <3>2, NoJobAt DEF LoadSteps
        <4> QED
          BY <3>2, <4>1 DEF Unloaded, Before, NoJob
      <3>5. buffer[a].result # "busy" /\ buffer[a].result \in {"busy", "success"}
        BY <2>3, <3>2, <3>3, <3>4 DEF StillLoads, AllGood, Good, GivenUp
      <3> QED
        BY <2>3, <3>2, <3>5
    <2> QED
      BY <2>2, <2>3
  <1>4. ASSUME NEW j \in Jobs', j.kind = "freeBuffer"
        PROVE  FALSE
    <2>1. NewJob(a, j)
      BY <1>0, <1>1, <1>4, JobsFrom
    <2>2. a \in Buffer /\ Cancel(a)
      BY <1>4, <2>1 DEF NewJob
    <2> QED
      BY <1>0, <2>2 DEF Cancel, At
  <1> QED
    BY <1>2, <1>3, <1>4

---------------------------------------------------------------------------
(* Where nobody gives a node up while a page of it is decoded *)

\* The node an actor decodes is not given up by another
LEMMA NobodyGivesUp ==
  ASSUME Orderly, Typed, Places, RefsInv, Kinds, LoadOnce, DecoderOwned, Employed, NoPages, ClientDrops, NeverGivenUp,
         NEW a \in Actor, Abandon(a), NEW c \in Actor, PagesOn(c), NodeOf(a) = job[c].of
  PROVE  FALSE
  <1>1. pc[a] = "abandon"
    BY DEF Abandon, At
  <1>2. /\ a \in Worker /\ job[a].kind = "freeBuffer" /\ job[a] # NoJob
        /\ Gone(NodeOf(a)) /\ NodeOf(a) \in Buffer
    <2>1. a \in Worker
      BY <1>1 DEF ClientDrops, Actor
    <2>2. job[a].kind = "freeBuffer"
      BY <1>1, <2>1 DEF Places, Place, WorkerAt, UnacquireSteps
    <2> QED
      BY <1>1, <2>1, <2>2 DEF RefsInv, Unheld, NoJob
  <1>3. pc[c] \in LoadSteps \ {"begin", "fences", "publish"} /\ c # a
    BY <1>1 DEF PagesOn, LoadSteps
  <1>4. job[c].kind \in {"loadNode", "pageNode"} /\ (pc[c] = "decode" => job[c].kind = "pageNode")
    BY DEF PagesOn, Kinds, KindAt
  <1>5. CASE c \in Buffer
    <2>1. job[c].kind = "loadNode" /\ job[c].of = c
      BY <1>3, <1>4, <1>5 DEF Places, Place, ClientAt
    <2>2. node[c].refs = 1
      BY <1>5, <2>1 DEF RefsInv, Locked
    <2> QED
      BY <1>2, <2>1, <2>2 DEF Gone
  <1>6. CASE c \in Worker
    <2>1. CASE \A v, w \in config.workers : v = w
      <3>1. a \in config.workers /\ c \in config.workers
        BY <1>1, <1>2, <1>3, <1>6 DEF Employed, LoadSteps
      <3> QED
        BY <1>3, <2>1, <3>1
    <2>2. CASE ~config.decode
      <3>1. pc[c] \in {"decode", "next"}
        BY <2>2 DEF PagesOn
      <3>2. PageIn(c, job[c].of) /\ LoadIn(c, job[c].of)
        BY <1>3, <1>4, <3>1 DEF PageIn, In, LoadIn, HandedOn
      <3>3. Paging(job[c].of) # 0
        BY <1>2, <3>2, LoadAlone
      <3>4. node[job[c].of].decoder = "carried"
        BY <1>2, <3>3 DEF DecoderOwned, Paging
      <3> QED
        BY <1>2, <2>2, <3>4 DEF NoPages
    <2>3. CASE ~config.early /\ ~config.fails
      <3>1. job[a] \in Jobs
        BY <1>1, <1>2, JobsTyped DEF Carries
      <3> QED
        BY <1>2, <2>3, <3>1 DEF NeverGivenUp
    <2> QED
      BY <2>1, <2>2, <2>3 DEF Orderly
  <1> QED
    BY <1>5, <1>6 DEF Actor

\* The steps that lead to a page
LEMMA PagesOnFrom ==
  ASSUME Typed, NEW a \in Actor, StepOf(a), PagesOn(a)'
  PROVE  /\ job'[a] = job[a] /\ pc[a] \in LoadSteps
         /\ \/ NodeBegin(a) /\ node[job[a].of].result = "busy"
            \/ PagesOn(a)
         /\ ~(a \in Buffer /\ AcquireNew(a)) /\ ~Publish(a) /\ ~Abandon(a)
  <1> USE DEF Typed, Goto, Handled, PostAgain, Returns
  <1>1. pc'[a] \in {"open", "decode", "next"} /\ (pc'[a] = "open" => config'.decode)
    BY DEF PagesOn
  <1>2. ~(a \in Buffer /\ (InitBegin(a) \/ UninitBegin(a) \/ Client(a)))
    <2>1. ~(a \in Buffer /\ (InitBegin(a) \/ UninitBegin(a) \/ UninitEnd(a) \/ WaitInit(a) \/ InitEnd(a) \/ Uninit(a)
                             \/ Cancel(a)))
      BY <1>1 DEF InitBegin, UninitBegin, UninitEnd, WaitInit, InitEnd, Uninit, Cancel
    <2>2. ~(a \in Buffer /\ (AcquireOld(a) \/ AcquireNew(a) \/ AcquireBack(a) \/ CheckLoaded(a) \/ CheckLoading(a)
                             \/ LoadBack(a)))
      BY <1>1 DEF AcquireOld, AcquireNew, AcquireBack, CheckLoaded, CheckLoading, LoadBack
    <2> QED
      BY <2>1, <2>2 DEF Client
  <1>3. ~(a \in Worker /\ JobThread(a))
    BY <1>1 DEF JobThread, Take, FreeBuffer, Notify
  <1>4. ~OutOfTurn(a) /\ ~NextPage(a) /\ ~Finish(a) /\ ~FreeNode(a)
    BY <1>1 DEF OutOfTurn, NextPage, Finish, FreeNode
  <1>5. ~BufferBegin(a) /\ ~Connect(a) /\ ~Look(a) /\ ~Publish(a) /\ ~Fences(a) /\ ~Advance(a)
    BY <1>1 DEF BufferBegin, Connect, Look, Publish, Fences, Advance
  <1>6. ~Unacquire(a) /\ ~Drop(a) /\ ~Abandon(a)
    BY <1>1 DEF Unacquire, Drop, Abandon, AfterUnacquire
  <1>7. NodeBegin(a) \/ Open(a) \/ Decode(a)
    BY <1>2, <1>3, <1>4, <1>5, <1>6 DEF StepOf, Process
  <1>8. NodeBegin(a) => job'[a] = job[a] /\ pc[a] = "begin" /\ node[job[a].of].result = "busy"
    BY <1>1 DEF NodeBegin, Begins, At
  <1>9. Open(a) => job'[a] = job[a] /\ pc[a] = "open" /\ config.decode
    BY <1>1 DEF Open, At
  <1>10. Decode(a) => job'[a] = job[a] /\ pc[a] = "decode"
    BY DEF Decode, At
  <1>11. ~(a \in Buffer /\ AcquireNew(a))
    BY <1>2 DEF Client
  <1> QED
    BY <1>5, <1>6, <1>7, <1>8, <1>9, <1>10, <1>11 DEF PagesOn, LoadSteps

\* A node becomes unavailable only by being given up
LEMMA StaysWanted ==
  ASSUME Typed, Places, RefsInv, Sound, NEW a \in Actor, StepOf(a), NEW n \in Buffer,
         node[n].result # "unavailable", ~(Abandon(a) /\ NodeOf(a) = n)
  PROVE  node'[n].result # "unavailable"
  <1>1. CASE a \in Buffer /\ AcquireNew(a)
    <2>1. CASE n = a
      BY <1>1, <2>1, AcquireNewEdits
    <2>2. CASE n # a
      BY <1>1, <2>2, AcquireNewEdits
    <2> QED
      BY <2>1, <2>2
  <1>2. CASE Publish(a)
    <2>1. job[a].kind # "loadBuffer" => job[a].kind \in {"loadNode", "pageNode"}
      <3>1. pc[a] = "publish"
        BY <1>2 DEF Publish, At
      <3>2. job[a].kind \notin {"freeNode", "freeBuffer"} /\ job[a] \in Job
        BY <3>1, JobTyped DEF Places, Place, HandlerAt, LoadSteps
      <3> QED
        BY <3>2 DEF Job, NodeKind, BufferKind
    <2>2. job[a].kind # "loadBuffer" /\ res[a] = "unavailable" => node[job[a].of].result = "unavailable"
      BY <1>2, <2>1 DEF Sound, Publish, At
    <2> QED
      BY <1>2, <2>2, PublishEdits
  <1>3. CASE Abandon(a)
    BY <1>3, AbandonEdits
  <1>4. CASE ~(a \in Buffer /\ AcquireNew(a)) /\ ~Publish(a) /\ ~Abandon(a)
    BY <1>4, ResultSame
  <1> QED
    BY <1>1, <1>2, <1>3, <1>4

LEMMA LastJobKept ==
  ASSUME Orderly, Typed, Places, RefsInv, Kinds, LoadOnce, DecoderOwned, Sound, Employed, NoPages, ClientDrops,
         NeverGivenUp, NoneBefore, DropAlone, Freeing, LastJob, NEW a \in Actor, StepOf(a)
  PROVE  LastJob'
  <1>1. OthersKept(a) /\ Shift(a) /\ config' = config
    BY OthersAlone, Shifts, ConfigKept
  <1>2. ASSUME NEW c \in Actor, PagesOn(c)'
        PROVE  node'[job'[c].of].result # "unavailable"
    <2>1. job'[c] = job[c] /\ pc[c] \in LoadSteps
          /\ (PagesOn(c) \/ (c = a /\ NodeBegin(a) /\ node[job[a].of].result = "busy"))
      <3>1. CASE c = a
        BY <1>2, <3>1, PagesOnFrom
      <3>2. CASE c # a
        BY <1>1, <1>2, <3>2 DEF OthersKept, PagesOn, LoadSteps
      <3> QED
        BY <3>1, <3>2
    <2>2. job[c].of \in Buffer
      BY <2>1, JobTyped
    <2>3. node[job[c].of].result # "unavailable"
      BY <2>1 DEF LastJob
    <2>4. ~(Abandon(a) /\ NodeOf(a) = job[c].of)
      <3>1. CASE PagesOn(c)
        BY <3>1, NobodyGivesUp
      <3>2. CASE NodeBegin(a)
        BY <3>2 DEF NodeBegin, Begins, Abandon, At
      <3> QED
        BY <2>1, <3>1, <3>2
    <2> QED
      BY <2>1, <2>2, <2>3, <2>4, StaysWanted
  <1>3. ASSUME NEW j \in Jobs', j.kind = "freeNode"
        PROVE  j.order + 1 = node'[j.of].counter
    <2>1. j.kind \in NodeKind
      BY <1>3 DEF NodeKind
    <2>2. CASE j \in Jobs
      <3>1. j.of \in Buffer /\ j.order + 1 = node[j.of].counter /\ node[j.of].result = "unavailable"
        BY <1>3, <2>1, <2>2, JobsTyped DEF LastJob, Counter, Freeing
      <3>2. CASE a \in Buffer /\ AcquireNew(a)
        <4>1. j.of # a
          BY <2>1, <2>2, <3>2 DEF NoneBefore, AcquireNew, At, Before
        <4> QED
          BY <3>1, <3>2, <4>1, NodeTurns
      <3>3. CASE NextPage(a)
        <4>1. j.of # job[a].of
          BY <3>1, <3>3 DEF LastJob, PagesOn, NextPage, At
        <4>2. node'[j.of].counter = node[j.of].counter + Bit(j.of = job[a].of) /\ node[j.of].counter \in Nat
          BY <3>1, <3>3, NodeTurns, Fields
        <4> QED
          BY <3>1, <4>1, <4>2 DEF Bit
      <3>4. CASE Abandon(a)
        <4>1. j.of # NodeOf(a)
          BY <3>1, <3>4 DEF DropAlone, Dropping, Abandon, At
        <4>2. node'[j.of].counter = node[j.of].counter + Bit(j.of = NodeOf(a)) /\ node[j.of].counter \in Nat
          BY <3>1, <3>4, NodeTurns, Fields
        <4> QED
          BY <3>1, <4>1, <4>2 DEF Bit
      <3>5. CASE ~(a \in Buffer /\ AcquireNew(a)) /\ ~NextPage(a) /\ ~Abandon(a)
        BY <3>1, <3>5, NodeSame
      <3> QED
        BY <3>2, <3>3, <3>4, <3>5
    <2>3. CASE j \in Job /\ NewJob(a, j)
      <3>1. /\ Abandon(a) /\ NodeOf(a) \in Buffer /\ j.of = NodeOf(a)
            /\ j.order = node[NodeOf(a)].counter
        BY <1>3, <2>3 DEF NewJob
      <3>2. node'[j.of].counter = node[j.of].counter + Bit(j.of = NodeOf(a))
        BY <3>1, NodeTurns
      <3> QED
        BY <3>1, <3>2 DEF Bit
    <2> QED
      BY <1>1, <2>2, <2>3, JobsFrom
  <1>4. \A j \in Jobs' : j.kind = "freeNode" => j.order + 1 = Counter(j)'
    BY <1>3 DEF Counter, NodeKind
  <1> QED
    BY <1>2, <1>4 DEF LastJob

\* The job that frees a node is its last
LEMMA FreesLast ==
  ASSUME Typed, Places, Turns, LastJob, NEW a \in Actor, FreeNode(a), NEW j \in Pending', j \in Pending,
         j.kind \in NodeKind
  PROVE  j.of # job[a].of
  <1>1. /\ pc[a] = "begin" /\ job[a].kind = "freeNode" /\ queue' = queue /\ HasTurn(a)
    BY DEF FreeNode, Begins, At
  <1>2. Carries(a) /\ job[a] \in Jobs /\ job[a].of \in Buffer /\ job[a] \in Job
    <2>1. job[a] # NoJob
      BY <1>1 DEF NoJob
    <2> QED
      BY <1>1, <2>1, JobsTyped, JobTyped DEF Carries, LoadSteps
  <1>3. ~UnderWay(a)'
    <2>1. pc'[a] \in {"idle", "back"}
      BY DEF FreeNode, Handled, Typed, Goto
    <2> QED
      BY <2>1 DEF UnderWay, LoadSteps
  <1>4. j # job[a]
    <2>1. CASE j \in Waiting
      <3>1. PICK i \in DOMAIN queue : queue[i] = j
        BY <2>1 DEF Waiting
      <3> QED
        BY <1>2, <3>1 DEF Turns, Distinct, SameTurn
    <2>2. CASE \E c \in Actor \ {a} : UnderWay(c) /\ j = job[c]
      <3>1. PICK c \in Actor \ {a} : UnderWay(c) /\ j = job[c]
        BY <2>2
      <3>2. Carries(c)
        BY <3>1, JobsTyped
      <3> QED
        BY <1>2, <3>1, <3>2 DEF Turns, Distinct, SameTurn
    <2>3. j \in Waiting \/ \E c \in Actor \ {a} : UnderWay(c) /\ j = job[c]
      <3>1. Waiting' = Waiting
        BY <1>1 DEF Waiting
      <3>2. OthersKept(a)
        BY DEF FreeNode, Handled, Typed, Goto, OthersKept
      <3>3. CASE j \in Waiting'
        BY <3>1, <3>3
      <3>4. CASE \E c \in Actor : UnderWay(c)' /\ j = job'[c]
        <4>1. PICK c \in Actor : UnderWay(c)' /\ j = job'[c]
          BY <3>4
        <4>2. c # a
          BY <1>3, <4>1
        <4> QED
          BY <3>2, <4>1, <4>2 DEF OthersKept, UnderWay
      <3> QED
        BY <3>3, <3>4 DEF Pending
    <2> QED
      BY <2>1, <2>2, <2>3
  <1>5. ASSUME j.of = job[a].of
        PROVE  FALSE
    <2>1. j \in Jobs /\ j \in Job
      BY JobsTyped
    <2>2. job[a].order = node[job[a].of].pointer /\ job[a].order + 1 = node[job[a].of].counter
      BY <1>1, <1>2 DEF HasTurn, LastJob, Counter, NodeKind
    <2>3. node[j.of].pointer <= j.order /\ j.order < node[j.of].counter
      BY <2>1 DEF Turns, Due, Pointer, Counter
    <2>4. j.order \in Nat /\ job[a].order \in Nat
      BY <1>2, <2>1 DEF Job
    <2>5. j.order = job[a].order
      BY <1>5, <2>2, <2>3, <2>4
    <2>6. SameTurn(j, job[a])
      BY <1>1, <1>5, <2>5 DEF SameTurn, NodeKind
    <2> QED
      BY <1>2, <1>4, <2>1, <2>6, TurnAlone DEF Turns
  <1> QED
    BY <1>5

LEMMA FreedUnusedKept ==
  ASSUME Careful, Typed, Places, RefsInv, Kinds, InPlace, Turns, NodeDone, DropAlone, Freeing, LastJob, FreedUnused,
         NEW a \in Actor, StepOf(a)
  PROVE  FreedUnused'
  <1>1. OthersKept(a) /\ Shift(a)
    BY OthersAlone, Shifts
  <1> SUFFICES ASSUME NEW j \in Pending', j.kind \in NodeKind
               PROVE  node'[j.of].state # "freed"
    BY DEF FreedUnused
  <1>2. CASE j \in Pending
    <2>1. j \in Jobs /\ j.of \in Buffer /\ node[j.of].state # "freed"
      BY <1>2, JobsTyped DEF FreedUnused
    <2>2. CASE a \in Buffer /\ AcquireNew(a)
      BY <2>1, <2>2, NodeTurns
    <2>3. CASE a \in Buffer /\ AcquireBack(a)
      <3>1. res[a] \in {"busy", "success"}
        BY <2>3, InPlaceSucceeds DEF AcquireBack, At
      <3> QED
        BY <2>1, <2>3, <3>1 DEF AcquireBack
    <2>4. CASE Drop(a)
      <3>1. CASE node[NodeOf(a)].result = "busy"
        BY <2>1, <2>4, <3>1 DEF Drop
      <3>2. CASE node[NodeOf(a)].result # "busy"
        <4>1. pc[a] = "drop"
          BY <2>4 DEF Drop, At
        <4>2. NodeOf(a) \in Buffer /\ node[NodeOf(a)].result \notin {"busy", "unavailable"}
          BY <3>2, <4>1 DEF DropAlone, Dropping, RefsInv, Unheld
        <4>3. Done(NodeOf(a))
          BY <4>2, Fields DEF Done, Result
        <4>4. j.of # NodeOf(a)
          <5>1. CASE j.kind = "freeNode"
            BY <2>1, <4>2, <5>1 DEF Freeing
          <5>2. CASE j.kind # "freeNode"
            BY <1>2, <4>3, <5>2 DEF NodeDone, NodeKind
          <5> QED
            BY <5>1, <5>2
        <4>5. node' = [node EXCEPT ![NodeOf(a)].state = "freed"]
          BY <2>4, <3>2 DEF Drop
        <4>6. node'[j.of] = node[j.of]
          BY <2>1, <4>4, <4>5 DEF Typed
        <4> QED
          BY <2>1, <4>6
      <3> QED
        BY <3>1, <3>2
    <2>5. CASE FreeNode(a)
      <3>1. j.of # job[a].of
        BY <1>2, <2>5, FreesLast
      <3>2. node' = [node EXCEPT ![job[a].of].state = "freed"]
        BY <2>5 DEF FreeNode
      <3>3. node'[j.of] = node[j.of]
        BY <2>1, <3>1, <3>2 DEF Typed
      <3> QED
        BY <2>1, <3>3
    <2>6. CASE ~(a \in Buffer /\ (AcquireNew(a) \/ AcquireBack(a))) /\ ~Drop(a) /\ ~FreeNode(a)
      BY <2>1, <2>6, NodeSame
    <2> QED
      BY <2>2, <2>3, <2>4, <2>5, <2>6
  <1>3. CASE j \in Job /\ NewJob(a, j)
    <2>1. CASE a \in Buffer /\ AcquireNew(a) /\ j.of = a
      BY <2>1, NodeTurns
    <2>2. CASE Abandon(a) /\ NodeOf(a) \in Buffer /\ j.of = NodeOf(a)
      <3>1. node[j.of].state = "live"
        BY <2>2 DEF DropAlone, Dropping, Abandon, At
      <3>2. ~(a \in Buffer /\ (AcquireNew(a) \/ AcquireBack(a))) /\ ~Drop(a) /\ ~FreeNode(a)
        BY <2>2 DEF Abandon, AcquireNew, AcquireBack, Drop, FreeNode, Begins, At
      <3> QED
        BY <2>2, <3>1, <3>2, NodeSame
    <2>3. CASE NextPage(a) /\ job[a].of \in Buffer /\ j.of = job[a].of
      <3>1. pc[a] = "next" /\ job[a].kind \in NodeKind
        BY <2>3 DEF NextPage, At, Kinds, KindAt, NodeKind
      <3>2. job[a] \in Pending
        BY <3>1, JobsTyped DEF UnderWay, LoadSteps
      <3>3. node[j.of].state # "freed"
        BY <2>3, <3>1, <3>2 DEF FreedUnused
      <3>4. ~(a \in Buffer /\ (AcquireNew(a) \/ AcquireBack(a))) /\ ~Drop(a) /\ ~FreeNode(a)
        BY <3>1 DEF AcquireNew, AcquireBack, Drop, FreeNode, Begins, At
      <3> QED
        BY <2>3, <3>3, <3>4, NodeSame
    <2> QED
      BY <1>3, <2>1, <2>2, <2>3 DEF NewJob, NodeKind
  <1> QED
    BY <1>1, <1>2, <1>3, JobsFrom

\* What the parts say together: holders find their node by its references, jobs
\* because they are pending, and who gives a node up is the only one to
LEMMA NodeHeldFrom ==
  ASSUME Typed, Places, RefsInv, OwnHolds, DropAlone, FreedUnused
  PROVE  NodeHeld
  <1> SUFFICES ASSUME NEW n \in Buffer, node[n].state = "freed"
               PROVE  /\ \A b \in Buffer : ~Holds(b, n)
                      /\ \A a \in Actor : ~UsesNode(a, n)
                      /\ \A i \in DOMAIN queue : queue[i].kind \in NodeKind => queue[i].of # n
    BY DEF NodeHeld
  <1>1. ASSUME NEW b \in Buffer, Holds(b, n)
        PROVE  FALSE
    BY <1>1 DEF Holds, RefsInv, HolderServed
  <1>2. ASSUME NEW a \in Actor, UsesNode(a, n)
        PROVE  FALSE
    <2>1. CASE job[a].kind \in NodeKind /\ job[a].of = n /\ pc[a] \in LoadSteps \ {"fences"}
      <3>1. job[a] \in Pending
        BY <2>1, JobsTyped DEF UnderWay
      <3> QED
        BY <2>1, <3>1 DEF FreedUnused
    <2>2. CASE pc[a] = "unacquire" /\ NodeOf(a) = n
      <3>1. Of(a) \in Buffer
        BY <2>2, JobTyped DEF UnacquireSteps
      <3>2. buffer[Of(a)].holds
        <4>1. CASE a \in Buffer
          BY <2>2, <4>1 DEF RefsInv, Kept, HoldSteps, Of
        <4>2. CASE a \in Worker
          <5>1. job[a].kind = "freeBuffer" /\ a \notin Buffer
            BY <2>2, <4>2, ResourceAssumption DEF Places, Place, WorkerAt, UnacquireSteps
          <5> QED
            BY <2>2, <4>2, <5>1 DEF RefsInv, Given, Of
        <4> QED
          BY <4>1, <4>2 DEF Actor
      <3> QED
        BY <1>1, <2>2, <3>1, <3>2 DEF Holds, NodeOf
    <2>3. CASE pc[a] \in {"drop", "abandon"} /\ NodeOf(a) = n
      BY <2>3 DEF DropAlone, Dropping
    <2>4. CASE pc[a] \in {"connect", "look", "lookUnknown"} /\ NodeOf(a) = n
      <3>1. job[a].kind = "loadBuffer" /\ UnderWay(a)
        BY <2>4 DEF Places, Place, HandlerAt, UnderWay, LoadSteps
      <3>2. job[a].of \in Buffer /\ buffer[job[a].of].holds /\ NodeOf(a) = buffer[job[a].of].node
        BY <3>1, LoadNodeHeld
      <3> QED
        BY <1>1, <2>4, <3>2 DEF Holds
    <2> QED
      BY <1>2, <2>1, <2>2, <2>3, <2>4 DEF UsesNode, UnacquireSteps
  <1>3. ASSUME NEW i \in DOMAIN queue, queue[i].kind \in NodeKind, queue[i].of = n
        PROVE  FALSE
    <2>1. queue[i] \in Pending
      BY JobsTyped
    <2> QED
      BY <1>3, <2>1 DEF FreedUnused
  <1> QED
    BY <1>1, <1>2, <1>3

---------------------------------------------------------------------------
(* The invariant of the nodes *)

HeldInv == TurnsInv /\ (Careful => CarefulInv) /\ (Orderly => OrderlyInv)

LEMMA InitHeld == Init => HeldInv
  <1> SUFFICES ASSUME Init
               PROVE  HeldInv
    OBVIOUS
  <1> USE ResourceAssumption
  <1>0. /\ queue = <<>>
        /\ \A a \in Actor : job[a] = NoJob /\ pc[a] \in {"start", "idle"}
        /\ \A a \in Buffer : pc[a] = "start"
        /\ \A a \in Worker : pc[a] = "idle"
        /\ \A b \in Buffer : buffer[b] = NewBuffer
        /\ \A n \in Buffer : node[n] = NewNode("none")
    BY DEF Init, Actor
  <1>1. \A a \in Actor : ~Carries(a) /\ ~UnderWay(a) /\ ~Dropping(a)
    BY <1>0 DEF Carries, UnderWay, Dropping, LoadSteps
  <1>2. Jobs = {} /\ Pending = {}
    BY <1>0, <1>1 DEF Jobs, Pending, Waiting
  <1>3. Due /\ NoneBefore /\ OwnFirst
    BY <1>0, <1>1, <1>2 DEF Due, NoneBefore, OwnFirst, NewBuffer
  <1>4. Bounded /\ Distinct
    BY <1>0, <1>1 DEF Bounded, Distinct, NewBuffer, NewNode
  <1>5. NodeDone /\ BufferDone /\ DropAlone /\ Freeing
    BY <1>1, <1>2 DEF NodeDone, BufferDone, DropAlone, Freeing
  <1>6. Employed /\ NoPages
    BY <1>0 DEF Employed, NoPages, NewNode
  <1>7. OwnHolds /\ StillLoads /\ NeverGivenUp
    BY <1>0, <1>2 DEF OwnHolds, StillLoads, NeverGivenUp, Unloaded, Before, NoJob
  <1>8. AllGood /\ Ready /\ ClientDrops
    BY <1>0 DEF AllGood, Good, Ready, ClientDrops, NewBuffer, NoJob
  <1>9. LastJob /\ FreedUnused
    BY <1>0, <1>2 DEF LastJob, PagesOn, FreedUnused
  <1> QED
    BY <1>3, <1>4, <1>5, <1>6, <1>7, <1>8, <1>9 DEF HeldInv, TurnsInv, Turns, CarefulInv, OrderlyInv

LEMMA HeldStutter ==
  ASSUME UNCHANGED vars, HeldInv
  PROVE  HeldInv'
  <1> USE DEF vars, shared
  <1>1. Jobs' = Jobs /\ Pending' = Pending
    BY DEF Jobs, Pending, Waiting, Carries, UnderWay
  <1>2. \A b : Own(b)' = Own(b)
    BY DEF Own, Queued, Running
  <1>3. \A j : Pointer(j)' = Pointer(j) /\ Counter(j)' = Counter(j)
    BY DEF Pointer, Counter
  <1>4. ASSUME TurnsInv
        PROVE  TurnsInv'
    <2>1. Turns'
      BY <1>1, <1>3, <1>4 DEF TurnsInv, Turns, Due, Bounded, Distinct, SameTurn, NoneBefore, OwnFirst, Unloaded, Carries
    <2>2. NodeDone' /\ BufferDone' /\ Freeing'
      BY <1>1, <1>4 DEF TurnsInv, NodeDone, BufferDone, Freeing, Done
    <2>3. DropAlone'
      BY <1>4 DEF TurnsInv, DropAlone, Dropping, NodeOf, Of
    <2>4. Employed' /\ NoPages'
      BY <1>4 DEF TurnsInv, Employed, NoPages
    <2> QED
      BY <2>1, <2>2, <2>3, <2>4 DEF TurnsInv
  <1>5. ASSUME CarefulInv
        PROVE  CarefulInv'
    <2>1. OwnHolds' /\ NeverGivenUp'
      BY <1>1, <1>5 DEF CarefulInv, OwnHolds, NeverGivenUp
    <2>2. AllGood' /\ Ready' /\ ClientDrops'
      BY <1>5 DEF CarefulInv, AllGood, Good, Ready, ClientDrops, NodeOf, Of
    <2>3. StillLoads'
      BY <1>2, <1>5 DEF CarefulInv, StillLoads, Unloaded
    <2> QED
      BY <2>1, <2>2, <2>3 DEF CarefulInv
  <1>6. ASSUME OrderlyInv
        PROVE  OrderlyInv'
    BY <1>1, <1>3, <1>6 DEF OrderlyInv, LastJob, PagesOn, FreedUnused
  <1>7. (Careful' <=> Careful) /\ (Orderly' <=> Orderly)
    BY DEF Careful, Orderly
  <1> QED
    BY <1>4, <1>5, <1>6, <1>7 DEF HeldInv

LEMMA NextHeld == IInv /\ CountsInv /\ FencesInv /\ HeldInv /\ [Next]_vars => HeldInv'
  <1> SUFFICES ASSUME IInv, CountsInv, FencesInv, HeldInv, [Next]_vars
               PROVE  HeldInv'
    OBVIOUS
  <1>1. CASE UNCHANGED vars
    BY <1>1, HeldStutter
  <1>2. ASSUME NEW a \in Actor, StepOf(a)
        PROVE  HeldInv'
    <2>1. Typed /\ Places /\ RefsInv
      BY TypedIs DEF IInv
    <2>2. Kinds /\ LoadOnce /\ OwnOnce /\ Sound /\ NoError /\ InPlace /\ DecoderOwned
      BY DEF CountsInv
    <2>3. /\ Turns /\ NodeDone /\ BufferDone /\ DropAlone /\ Freeing /\ Employed /\ NoPages
          /\ Distinct /\ NoneBefore
      BY DEF HeldInv, TurnsInv, Turns
    <2>4. (Careful' => Careful) /\ (Orderly' => Orderly) /\ (Orderly => Careful)
      BY <1>2, ConfigKept DEF Careful, Orderly
    <2>5. TurnsInv'
      <3>1. Turns' /\ NodeDone' /\ BufferDone'
        BY <1>2, <2>1, <2>2, <2>3, TurnsKept, NodeDoneKept, BufferDoneKept
      <3>2. DropAlone' /\ Freeing' /\ Employed' /\ NoPages'
        BY <1>2, <2>1, <2>2, <2>3, DropAloneKept, FreeingKept, EmployedKept, NoPagesKept
      <3> QED
        BY <3>1, <3>2 DEF TurnsInv
    <2>6. ASSUME Careful
          PROVE  CarefulInv'
      <3>0. OwnHolds /\ AllGood /\ Ready /\ ClientDrops /\ StillLoads /\ NeverGivenUp /\ Fenced
        BY <2>6 DEF HeldInv, CarefulInv, FencesInv
      <3>1. OwnHolds' /\ AllGood'
        BY <1>2, <2>1, <2>2, <2>3, <2>6, <3>0, OwnHoldsKept, AllGoodKept
      <3>2. Ready' /\ ClientDrops'
        BY <1>2, <2>1, <2>2, <2>3, <2>6, <3>0, ReadyKept, ClientDropsKept
      <3>3. StillLoads' /\ NeverGivenUp'
        BY <1>2, <2>1, <2>2, <2>3, <2>6, <3>0, StillLoadsKept, NeverGivenUpKept
      <3> QED
        BY <3>1, <3>2, <3>3 DEF CarefulInv
    <2>7. ASSUME Orderly
          PROVE  OrderlyInv'
      <3>0. ClientDrops /\ NeverGivenUp /\ LastJob /\ FreedUnused
        BY <2>4, <2>7 DEF HeldInv, CarefulInv, OrderlyInv
      <3>1. LastJob'
        BY <1>2, <2>1, <2>2, <2>3, <2>7, <3>0, LastJobKept
      <3>2. FreedUnused'
        BY <1>2, <2>1, <2>2, <2>3, <2>4, <2>7, <3>0, FreedUnusedKept
      <3> QED
        BY <3>1, <3>2 DEF OrderlyInv
    <2> QED
      BY <2>4, <2>5, <2>6, <2>7 DEF HeldInv
  <1> QED
    BY <1>1, <1>2, NextIsStep

\* Every order of a node and of a buffer is handed out once and used in turn
\* (executionCounter, executionPointer), one actor gives a node up, and where no
\* page follows that, the job that frees the node has its last order.
THEOREM TurnsInvariant == Spec => [](IInv /\ CountsInv /\ FencesInv /\ HeldInv)
  <1>1. Init => HeldInv
    BY InitHeld
  <1>2. IInv /\ CountsInv /\ FencesInv /\ HeldInv /\ [Next]_vars => HeldInv'
    BY NextHeld
  <1> QED
    BY <1>1, <1>2, CountsInvariant, PTL DEF Spec

\* "the node is not uninitialized before initialization" (miniaudio.h:69110): a
\* freed node is held by no buffer and used by no job, queued or under way, when
\* nobody can give it up between a job's look at its result and the order that
\* job takes for the next page (71092, 71157): with one job thread, without
\* MA_RESOURCE_MANAGER_DATA_SOURCE_FLAG_DECODE, or where no buffer is given up
\* while it loads; and jobs processed in place do not fail (Careful), as after
\* such a failure the node is freed where it is (69049).
THEOREM NodeHeldInOrder == Spec => [](Orderly => NodeHeld)
  <1>1. IInv /\ HeldInv => (Orderly => NodeHeld)
    <2> SUFFICES ASSUME IInv, HeldInv, Orderly
                 PROVE  NodeHeld
      OBVIOUS
    <2>1. Typed /\ Places /\ RefsInv
      BY TypedIs DEF IInv
    <2>2. OwnHolds /\ DropAlone /\ FreedUnused
      BY DEF HeldInv, Orderly, TurnsInv, CarefulInv, OrderlyInv
    <2> QED
      BY <2>1, <2>2, NodeHeldFrom
  <1> QED
    BY <1>1, TurnsInvariant, PTL

\* The same where the manager is used in no other way: no freed node is held or
\* used, for any number of buffers and pages.
THEOREM NodeIsHeld ==
  ASSUME \A c \in Configs :
           /\ c.fails => c.wait = {}
           /\ (\A v, w \in c.workers : v = w) \/ ~c.decode \/ (~c.early /\ ~c.fails)
  PROVE  Spec => []NodeHeld
  <1>1. IInv => Orderly
    <2> SUFFICES ASSUME IInv
                 PROVE  Orderly
      OBVIOUS
    <2>1. config \in Configs
      BY TypedIs DEF IInv, Typed
    <2> QED
      BY <2>1 DEF Orderly, Careful
  <1> QED
    BY <1>1, NodeHeldInOrder, ResourceInvariant, PTL

=============================================================================
