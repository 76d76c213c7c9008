-------------------------- MODULE MaResource_proofs --------------------------
(***************************************************************************)
(* For any number of buffers, job threads and pages, and every way of      *)
(* using the manager: references are exact, a node that a buffer holds is  *)
(* not freed, a decoder that is carried is freed once, only two failures   *)
(* keep a reference or a decoder, and fences are given up once where jobs  *)
(* processed in place do not fail.                                         *)
(***************************************************************************)
EXTENDS MaResource, FiniteSetTheorems, FunctionTheorems, TLAPS

HoldSteps == LoadSteps \cup {"tail", "check", "back", "wait", "held", "uninit", "cancel", "unacquire"}
GivenUp == {"awaitFree", "over"}

\* Which jobs an actor may have, by the step it is at
ClientAt(b) ==
  /\ pc[b] \notin {"idle", "signal"}
  /\ job[b] # NoJob => job[b].kind \in {"loadNode", "loadBuffer"} /\ job[b].of = b
  /\ pc[b] \in LoadSteps \cup {"tail", "back"} <=> job[b] # NoJob
WorkerAt(w) ==
  /\ pc[w] \notin ClientSteps
  /\ pc[w] = "idle" <=> job[w] = NoJob
  /\ pc[w] \in UnacquireSteps \cup {"signal"} => job[w].kind = "freeBuffer"
HandlerAt(a) ==
  /\ pc[a] \in LoadSteps \ {"begin"} => job[a].kind \notin {"freeNode", "freeBuffer"}
  /\ pc[a] \in {"connect", "look", "lookUnknown"} => job[a].kind = "loadBuffer"
  /\ pc[a] = "tail" => job[a].kind # "freeNode"
  /\ res[a] = "atEnd" => pc[a] = "finish"
Place(a) ==
  /\ a \in Buffer => ClientAt(a)
  /\ a \in Worker => WorkerAt(a)
  /\ HandlerAt(a)
Places == \A a \in Actor : Place(a)

\* A buffer has its node's name from its acquisition on, before it has jobs
Before == {"start", "acquire"}
Named ==
  /\ \A b \in Buffer : pc[b] \notin Before => buffer[b].node \in Buffer
  /\ \A i \in DOMAIN queue : queue[i].kind = "loadBuffer" => pc[queue[i].of] \notin Before
  /\ \A w \in Worker : job[w].kind = "loadBuffer" => pc[job[w].of] \notin Before

\* A node of a thread that is yet to come, and one that is to be freed
Fresh ==
  \A b \in Buffer : pc[b] \in Before =>
    node[b].state = "none" /\ ~buffer[b].holds
Gone(n) == node[n].refs = 0 /\ node[n].state # "none"

\* Clients hold their node where they rely on it
Kept == \A b \in Buffer : pc[b] \in HoldSteps => buffer[b].holds

\* A node that a buffer holds is there
HolderServed ==
  \A b \in Buffer : buffer[b].holds => buffer[b].node \in Buffer /\ node[buffer[b].node].state = "live"

\* A job that gives a buffer's node back finds it held, and its thread waiting
Given ==
  /\ \A i \in DOMAIN queue : queue[i].kind = "freeBuffer" =>
       buffer[queue[i].of].holds /\ pc[queue[i].of] \in GivenUp
  /\ \A w \in Worker : job[w].kind = "freeBuffer" =>
       /\ pc[job[w].of] \in GivenUp
       /\ pc[w] \in {"begin", "unacquire"} => buffer[job[w].of].holds

\* and there is one such job for a buffer
GivenOnce ==
  /\ \A i, j \in DOMAIN queue :
       queue[i].kind = "freeBuffer" /\ queue[j].kind = "freeBuffer" /\ queue[i].of = queue[j].of => i = j
  /\ \A v, w \in Worker :
       job[v].kind = "freeBuffer" /\ job[w].kind = "freeBuffer" /\ job[v].of = job[w].of => v = w
  /\ \A i \in DOMAIN queue, w \in Worker :
       queue[i].kind = "freeBuffer" /\ job[w].kind = "freeBuffer" => queue[i].of # job[w].of

\* Nobody holds, or will hold again, a node that is to be freed
Unheld ==
  /\ \A i \in DOMAIN queue : queue[i].kind = "freeNode" => Gone(queue[i].of)
  /\ \A w \in Worker : job[w].kind = "freeNode" => Gone(job[w].of)
  /\ \A a \in Actor : pc[a] \in {"drop", "abandon"} => NodeOf(a) \in Buffer /\ Gone(NodeOf(a))

\* The thread that loads a new node in place has the lock, and the node alone
Locked ==
  \A b \in Buffer : job[b].kind = "loadNode" =>
    lock = b /\ node[b].refs = 1 /\ node[b].state = "live" /\ buffer[b].node = b

RefsInv == Named /\ Fresh /\ Kept /\ HolderServed /\ Given /\ GivenOnce /\ Unheld /\ Locked /\ RefsExact
IInv == TypeOK /\ Places /\ RefsInv

---------------------------------------------------------------------------
(* Types *)

NodeT == [state : {"none", "live", "freed"}, result : Result, known : BOOLEAN, refs : Nat,
          counter : Nat, pointer : Nat, decoder : {"none", "carried", "lost"}, pages : 0 .. MaxPages]
BufferT == [node : Buffer \cup {Nobody}, holds : BOOLEAN, result : Result, connector : BOOLEAN,
            counter : Nat, pointer : Nat]
FenceT == [init : Nat, done : Nat]
AnyJob == Job \cup {NoJob}
AnyResult == Result \cup {"atEnd"}

\* The decoder of a node whose supply has been initialised
Carried == IF config.decode THEN "carried" ELSE "none"

\* TypeOK with its record sets named, so that a proof can leave them closed
Typed ==
  /\ config \in Configs
  /\ tree \in Buffer \cup {Nobody} /\ lock \in Buffer \cup {Nobody}
  /\ node \in [Buffer -> NodeT]
  /\ buffer \in [Buffer -> BufferT]
  /\ fence \in [Buffer -> FenceT]
  /\ signalled \in [Buffer -> BOOLEAN]
  /\ queue \in Seq(Job)
  /\ pc \in [Actor -> Steps]
  /\ job \in [Actor -> AnyJob]
  /\ res \in [Actor -> AnyResult]
  /\ phase \in [Buffer -> {"new", "init", "held", "uninit", "over"}]

LEMMA TypedIs == TypeOK <=> Typed
  BY DEF TypeOK, Typed, NodeT, BufferT, FenceT, AnyJob, AnyResult

\* What a step may write to a node, to a buffer, ...
LEMMA NodeEdit ==
  ASSUME NEW f \in [Buffer -> NodeT], NEW n \in Buffer
  PROVE  /\ \A x \in Nat : /\ [f EXCEPT ![n].refs = x] \in [Buffer -> NodeT]
                           /\ [f EXCEPT ![n].counter = x] \in [Buffer -> NodeT]
                           /\ [f EXCEPT ![n].pointer = x] \in [Buffer -> NodeT]
         /\ \A x \in Result : /\ [f EXCEPT ![n].result = x] \in [Buffer -> NodeT]
                              /\ \A y \in Nat : [f EXCEPT ![n].result = x, ![n].counter = y] \in [Buffer -> NodeT]
         /\ [f EXCEPT ![n].state = "freed"] \in [Buffer -> NodeT]
         /\ [f EXCEPT ![n].known = TRUE, ![n].decoder = Carried] \in [Buffer -> NodeT]
         /\ [f EXCEPT ![n].decoder = "none"] \in [Buffer -> NodeT]
         /\ [f EXCEPT ![n].decoder = "lost"] \in [Buffer -> NodeT]
         /\ \A x \in 0 .. MaxPages : [f EXCEPT ![n].pages = x] \in [Buffer -> NodeT]
  <1>1. \A x \in Nat : /\ [f EXCEPT ![n].refs = x] \in [Buffer -> NodeT]
                      /\ [f EXCEPT ![n].counter = x] \in [Buffer -> NodeT]
                      /\ [f EXCEPT ![n].pointer = x] \in [Buffer -> NodeT]
    BY DEF NodeT
  <1>2. \A x \in Result : [f EXCEPT ![n].result = x] \in [Buffer -> NodeT]
    BY DEF NodeT
  <1>3. ASSUME NEW x \in Result, NEW y \in Nat
        PROVE  [f EXCEPT ![n].result = x, ![n].counter = y] \in [Buffer -> NodeT]
    <2> DEFINE g == [f EXCEPT ![n].result = x]
    <2>1. g \in [Buffer -> NodeT]
      BY <1>2
    <2> HIDE DEF g
    <2>2. [g EXCEPT ![n].counter = y] \in [Buffer -> NodeT]
      BY <2>1 DEF NodeT
    <2> QED
      BY <2>2 DEF g
  <1>4. /\ [f EXCEPT ![n].state = "freed"] \in [Buffer -> NodeT]
        /\ [f EXCEPT ![n].decoder = "none"] \in [Buffer -> NodeT]
        /\ [f EXCEPT ![n].decoder = "lost"] \in [Buffer -> NodeT]
    BY DEF NodeT
  <1>5. [f EXCEPT ![n].known = TRUE, ![n].decoder = Carried] \in [Buffer -> NodeT]
    BY DEF NodeT, Carried
  <1>6. \A x \in 0 .. MaxPages : [f EXCEPT ![n].pages = x] \in [Buffer -> NodeT]
    BY DEF NodeT
  <1> QED
    BY <1>1, <1>2, <1>3, <1>4, <1>5, <1>6

LEMMA BufferEdit ==
  ASSUME NEW f \in [Buffer -> BufferT], NEW b \in Buffer
  PROVE  /\ \A x \in Nat : /\ [f EXCEPT ![b].counter = x] \in [Buffer -> BufferT]
                           /\ [f EXCEPT ![b].pointer = x] \in [Buffer -> BufferT]
         /\ \A x \in Result : /\ [f EXCEPT ![b].result = x] \in [Buffer -> BufferT]
                              /\ [f EXCEPT ![b].connector = TRUE, ![b].result = x] \in [Buffer -> BufferT]
                              /\ \A y \in Nat : [f EXCEPT ![b].result = x, ![b].counter = y] \in [Buffer -> BufferT]
         /\ [f EXCEPT ![b].holds = FALSE] \in [Buffer -> BufferT]
         /\ [f EXCEPT ![b].connector = TRUE] \in [Buffer -> BufferT]
         /\ \A x \in Buffer : [f EXCEPT ![b].node = x, ![b].holds = TRUE] \in [Buffer -> BufferT]
  BY DEF BufferT

LEMMA Fields ==
  ASSUME Typed
  PROVE  /\ \A n \in Buffer : /\ node[n].refs \in Nat /\ node[n].counter \in Nat /\ node[n].pointer \in Nat
                              /\ node[n].result \in Result /\ node[n].pages \in 0 .. MaxPages
         /\ \A b \in Buffer : /\ buffer[b].counter \in Nat /\ buffer[b].pointer \in Nat
                              /\ buffer[b].result \in Result /\ buffer[b].node \in Buffer \cup {Nobody}
  BY DEF Typed, NodeT, BufferT

LEMMA FencesTyped ==
  ASSUME Typed, NEW b \in Buffer
  PROVE  /\ AcquireFences(b) => fence' \in [Buffer -> FenceT]
         /\ \A x, y : Released(b, x, y) \in [Buffer -> FenceT]
  <1>1. fence[b].init \in Nat /\ fence[b].done \in Nat
    BY DEF Typed, FenceT
  <1>2. \A n \in Nat : Less(n) \in Nat
    BY DEF Less
  <1>3. \A i, j \in Nat : [fence EXCEPT ![b] = [init |-> i, done |-> j]] \in [Buffer -> FenceT]
    BY DEF Typed, FenceT
  <1>4. AcquireFences(b) => fence' \in [Buffer -> FenceT]
    BY <1>1, <1>3 DEF AcquireFences
  <1>5. ASSUME NEW x, NEW y
        PROVE  Released(b, x, y) \in [Buffer -> FenceT]
    <2> DEFINE i == IF x THEN Less(fence[b].init) ELSE fence[b].init
               d == IF y THEN Less(fence[b].done) ELSE fence[b].done
    <2>1. i \in Nat /\ d \in Nat
      BY <1>1, <1>2
    <2>2. Released(b, x, y) = [fence EXCEPT ![b] = [init |-> i, done |-> d]]
      BY DEF Released
    <2> QED
      BY <1>3, <2>1, <2>2
  <1> QED
    BY <1>4, <1>5

LEMMA SignalTyped ==
  ASSUME Typed, NEW b \in Buffer
  PROVE  /\ Signal(b) => signalled' \in [Buffer -> BOOLEAN]
         /\ \A x \in BOOLEAN : [signalled EXCEPT ![b] = x] \in [Buffer -> BOOLEAN]
  BY DEF Typed, Signal

LEMMA PcTyped ==
  ASSUME Typed, NEW a \in Actor, NEW s \in Steps
  PROVE  Goto(a, s) => pc' \in [Actor -> Steps]
  BY DEF Typed, Goto

LEMMA ResTyped ==
  ASSUME Typed, NEW a \in Actor, NEW r \in AnyResult
  PROVE  Returns(a, r) => res' \in [Actor -> AnyResult]
  BY DEF Typed, Returns

LEMMA StepNames ==
  /\ ClientSteps \subseteq Steps /\ LoadSteps \subseteq Steps /\ UnacquireSteps \subseteq Steps
  /\ {"idle", "signal", "tail"} \subseteq Steps
  BY DEF Steps

LEMMA JobMade ==
  ASSUME Typed, NEW x \in Buffer, NEW o \in Nat, NEW k \in NodeKind \cup BufferKind
  PROVE  /\ [kind |-> k, of |-> x, order |-> o] \in Job
         /\ Post(k, x, o) => queue' \in Seq(Job)
  <1>1. [kind |-> k, of |-> x, order |-> o] \in Job
    BY DEF Job
  <1>2. \A j \in Job : Append(queue, j) \in Seq(Job)
    BY DEF Typed
  <1> QED
    BY <1>1, <1>2 DEF Post

\* An actor that processes a job has one
LEMMA JobTyped ==
  ASSUME Typed, Places, NEW a \in Actor
  PROVE  /\ pc[a] \in LoadSteps \cup {"tail"} => job[a] \in Job /\ job[a].of \in Buffer
         /\ pc[a] \in LoadSteps \cup UnacquireSteps \cup {"signal", "tail"} => Of(a) \in Buffer
         /\ a \in Worker /\ pc[a] # "idle" => job[a] \in Job /\ job[a].of \in Buffer
  <1>1. pc[a] \in LoadSteps \cup {"tail"} => job[a] # NoJob
    BY DEF Places, Place, ClientAt, WorkerAt, Actor, LoadSteps
  <1>2. a \in Worker /\ pc[a] \in LoadSteps \cup UnacquireSteps \cup {"signal", "tail"} => job[a] # NoJob
    BY DEF Places, Place, WorkerAt, LoadSteps, UnacquireSteps, Actor
  <1>3. job[a] \in Job \cup {NoJob}
    BY DEF Typed, AnyJob
  <1>4. \A j \in Job : j.of \in Buffer
    BY DEF Job
  <1>5. a \in Worker /\ pc[a] # "idle" => job[a] # NoJob
    BY DEF Places, Place, WorkerAt, Actor
  <1> QED
    BY <1>1, <1>2, <1>3, <1>4, <1>5 DEF Of, Actor

\* ... and knows the node of its buffer
LEMMA NodeOfTyped ==
  ASSUME Typed, Places, RefsInv, NEW a \in Actor,
         pc[a] \in UnacquireSteps \cup {"connect", "look", "lookUnknown"}
  PROVE  NodeOf(a) \in Buffer
  <1>1. Of(a) \in Buffer
    BY JobTyped DEF LoadSteps
  <1>2. CASE a \in Buffer
    BY <1>1, <1>2 DEF NodeOf, Of, RefsInv, Named, Before, UnacquireSteps
  <1>3. CASE a \in Worker /\ pc[a] \in UnacquireSteps
    BY <1>1, <1>3, ResourceAssumption DEF NodeOf, Of, RefsInv, Named, Given, GivenUp, Before, Places, Place, WorkerAt, Actor
  <1>4. CASE a \in Worker /\ pc[a] \in {"connect", "look", "lookUnknown"}
    BY <1>1, <1>4, ResourceAssumption DEF NodeOf, Of, RefsInv, Named, Places, Place, HandlerAt, Actor
  <1> QED
    BY <1>2, <1>3, <1>4 DEF Actor

LEMMA HandledTyped ==
  ASSUME Typed, NEW a \in Actor, Handled(a)
  PROVE  pc' \in [Actor -> Steps] /\ job' \in [Actor -> AnyJob]
  BY StepNames, PcTyped DEF Typed, Handled, AnyJob, ClientSteps

LEMMA PostAgainTyped ==
  ASSUME Typed, NEW a \in Actor, job[a] \in Job, PostAgain(a)
  PROVE  /\ pc' \in [Actor -> Steps] /\ job' \in [Actor -> AnyJob]
         /\ queue' \in Seq(Job) /\ res' \in [Actor -> AnyResult]
  <1>1. queue' \in Seq(Job)
    BY DEF Typed, PostAgain
  <1>2. "success" \in AnyResult
    BY DEF AnyResult, Result
  <1> QED
    BY <1>1, <1>2, HandledTyped, ResTyped DEF PostAgain

LEMMA AfterTyped ==
  ASSUME Typed, NEW a \in Actor
  PROVE  AfterUnacquire(a) \in Steps
  BY StepNames DEF AfterUnacquire, ClientSteps

\* The holders of a node are finitely many, and there is one where a buffer is
\* given back
Holders(n) == {b \in Buffer : Holds(b, n)}

LEMMA HoldersFinite ==
  ASSUME NEW n
  PROVE  IsFiniteSet(Holders(n)) /\ Cardinality(Holders(n)) \in Nat
  BY ResourceAssumption, FS_Subset, FS_CardinalityType DEF Holders

LEMMA HoldersCounted ==
  ASSUME Typed, Places, RefsInv, NEW a \in Actor, Unacquire(a)
  PROVE  /\ Of(a) \in Holders(NodeOf(a))
         /\ node[NodeOf(a)].state = "live" /\ node[NodeOf(a)].refs = Cardinality(Holders(NodeOf(a)))
         /\ node[NodeOf(a)].refs # 0
  <1>1. Of(a) \in Buffer /\ NodeOf(a) \in Buffer
    BY JobTyped, NodeOfTyped DEF Unacquire, At, UnacquireSteps
  <1>2. buffer[Of(a)].holds
    <2>1. CASE a \in Buffer
      BY <2>1 DEF Of, RefsInv, Kept, HoldSteps, Unacquire, At
    <2>2. CASE a \in Worker
      BY <2>2, ResourceAssumption DEF Of, RefsInv, Given, Places, Place, WorkerAt, UnacquireSteps, Unacquire, At, Actor
    <2> QED
      BY <2>1, <2>2 DEF Actor
  <1>3. Of(a) \in Holders(NodeOf(a))
    BY <1>1, <1>2 DEF Holders, Holds, NodeOf
  <1>4. node[NodeOf(a)].state = "live"
    BY <1>1, <1>2 DEF RefsInv, HolderServed, NodeOf
  <1>5. node[NodeOf(a)].refs = Cardinality(Holders(NodeOf(a)))
    BY <1>1, <1>4 DEF RefsInv, RefsExact, Holders
  <1>6. Cardinality(Holders(NodeOf(a))) # 0
    BY <1>3, HoldersFinite, FS_EmptySet
  <1> QED
    BY <1>3, <1>4, <1>5, <1>6

LEMMA TypesKept ==
  ASSUME IInv, [Next]_vars
  PROVE  TypeOK'
  <1> SUFFICES Typed'
    BY DEF TypeOK, Typed, NodeT, BufferT, FenceT, AnyJob, AnyResult
  <1>t. Typed /\ Places
    BY TypedIs DEF IInv
  <1> USE <1>t DEF AnyJob, AnyResult
  <1>1. ASSUME NEW b \in Buffer, InitBegin(b)
        PROVE  Typed'
    BY <1>1, FencesTyped, PcTyped, StepNames DEF Typed, InitBegin, Actor, ClientSteps
  <1>2. ASSUME NEW b \in Buffer, AcquireOld(b)
        PROVE  Typed'
    <2>1. tree \in Buffer /\ node[tree].refs + 1 \in Nat
      BY <1>2, Fields DEF Typed, AcquireOld
    <2>2. node' \in [Buffer -> NodeT]
      BY <1>2, <2>1, NodeEdit DEF Typed, AcquireOld
    <2>3. buffer' \in [Buffer -> BufferT]
      BY <1>2, <2>1, BufferEdit DEF Typed, AcquireOld
    <2> QED
      BY <1>2, <2>2, <2>3, PcTyped, StepNames DEF Typed, AcquireOld, Actor, ClientSteps
  <1>3. ASSUME NEW b \in Buffer, AcquireNew(b)
        PROVE  Typed'
    <2>1. [NewNode("live") EXCEPT !.counter = 1] \in NodeT
      <3>1. 0 \in 0 .. MaxPages
        BY ResourceAssumption
      <3> QED
        BY <3>1 DEF NewNode, NodeT, Result
    <2>2. node' \in [Buffer -> NodeT]
      BY <1>3, <2>1 DEF Typed, AcquireNew
    <2>3. buffer' \in [Buffer -> BufferT]
      BY <1>3, BufferEdit DEF Typed, AcquireNew
    <2>4. queue' \in Seq(Job) /\ job' \in [Actor -> AnyJob]
      <3>1. CASE b \in config.wait
        <4>1. [kind |-> "loadNode", of |-> b, order |-> 0] \in Job
          BY JobMade DEF NodeKind
        <4> QED
          BY <1>3, <3>1, <4>1 DEF Typed, AcquireNew, Actor
      <3>2. CASE b \notin config.wait
        BY <1>3, <3>2, JobMade DEF Typed, AcquireNew, NodeKind, Actor
      <3> QED
        BY <3>1, <3>2
    <2>5. pc' \in [Actor -> Steps] /\ lock' \in Buffer \cup {Nobody}
      BY <1>3, PcTyped, StepNames DEF Typed, AcquireNew, Actor, ClientSteps, LoadSteps
    <2> QED
      BY <1>3, <2>2, <2>3, <2>4, <2>5, FencesTyped DEF Typed, AcquireNew
  <1>4. ASSUME NEW b \in Buffer, AcquireBack(b)
        PROVE  Typed'
    <2>1. pc' \in [Actor -> Steps] /\ job' \in [Actor -> AnyJob]
      BY <1>4, PcTyped, StepNames DEF Typed, AcquireBack, Actor, ClientSteps
    <2>2. CASE res[b] \in {"success", "busy"}
      BY <1>4, <2>1, <2>2 DEF Typed, AcquireBack
    <2>3. CASE res[b] \notin {"success", "busy"}
      <3>1. /\ node' = [node EXCEPT ![b].state = "freed"]
            /\ buffer' = [buffer EXCEPT ![b].holds = FALSE]
            /\ fence' = Released(b, TRUE, TRUE)
        BY <1>4, <2>3 DEF AcquireBack
      <3>2. node' \in [Buffer -> NodeT]
        BY <3>1, NodeEdit DEF Typed
      <3>3. buffer' \in [Buffer -> BufferT]
        BY <3>1, BufferEdit DEF Typed
      <3>4. fence' \in [Buffer -> FenceT]
        BY <3>1, FencesTyped
      <3> QED
        BY <1>4, <2>1, <2>3, <3>2, <3>3, <3>4 DEF Typed, AcquireBack
    <2> QED
      BY <2>2, <2>3
  <1>5. ASSUME NEW b \in Buffer, CheckLoaded(b)
        PROVE  Typed'
    <2>1. buffer' \in [Buffer -> BufferT]
      <3>1. \/ buffer' = [buffer EXCEPT ![b].connector = TRUE, ![b].result = "success"]
            \/ buffer' = [buffer EXCEPT ![b].result = "error"]
        BY <1>5 DEF CheckLoaded
      <3>2. buffer \in [Buffer -> BufferT] /\ "success" \in Result /\ "error" \in Result
        BY DEF Typed, Result
      <3>3. /\ [buffer EXCEPT ![b].connector = TRUE, ![b].result = "success"] \in [Buffer -> BufferT]
            /\ [buffer EXCEPT ![b].result = "error"] \in [Buffer -> BufferT]
        BY <3>2, BufferEdit
      <3> QED
        BY <3>1, <3>3
    <2> QED
      BY <1>5, <2>1, PcTyped, StepNames DEF Typed, CheckLoaded, Actor, ClientSteps
  <1>6. ASSUME NEW b \in Buffer, CheckLoading(b)
        PROVE  Typed'
    <2>1. buffer' \in [Buffer -> BufferT]
      <3>1. buffer[b].counter + 1 \in Nat
        BY Fields
      <3>2. buffer' = [buffer EXCEPT ![b].counter = @ + 1]
        BY <1>6 DEF CheckLoading
      <3> QED
        BY <3>1, <3>2, BufferEdit DEF Typed
    <2>2. queue' \in Seq(Job) /\ job' \in [Actor -> AnyJob]
      <3>1. buffer[b].counter \in Nat /\ "loadBuffer" \in NodeKind \cup BufferKind
        BY Fields DEF BufferKind
      <3>2. CASE b \in config.wait
        BY <1>6, <3>1, <3>2, JobMade DEF Typed, CheckLoading, Actor
      <3>3. CASE b \notin config.wait
        BY <1>6, <3>1, <3>3, JobMade DEF Typed, CheckLoading
      <3> QED
        BY <3>2, <3>3
    <2>3. pc' \in [Actor -> Steps] /\ signalled' \in [Buffer -> BOOLEAN]
      BY <1>6, PcTyped, StepNames, SignalTyped DEF Typed, CheckLoading, Actor, ClientSteps, LoadSteps
    <2> QED
      BY <1>6, <2>1, <2>2, <2>3, FencesTyped DEF Typed, CheckLoading
  <1>7. ASSUME NEW b \in Buffer, LoadBack(b)
        PROVE  Typed'
    <2>1. res[b] \in Result
      BY <1>7 DEF Places, Place, HandlerAt, LoadBack, At, Actor, Typed
    <2>2. pc' \in [Actor -> Steps] /\ job' \in [Actor -> AnyJob]
      BY <1>7, PcTyped, StepNames DEF Typed, LoadBack, Actor, ClientSteps, UnacquireSteps
    <2>3. CASE res[b] = "success"
      BY <1>7, <2>2, <2>3 DEF Typed, LoadBack
    <2>4. CASE res[b] # "success"
      <3>1. buffer' = [buffer EXCEPT ![b].result = res[b]] /\ fence' = Released(b, TRUE, TRUE)
        BY <1>7, <2>4 DEF LoadBack
      <3>2. buffer' \in [Buffer -> BufferT]
        BY <2>1, <3>1, BufferEdit DEF Typed
      <3>3. fence' \in [Buffer -> FenceT]
        BY <3>1, FencesTyped
      <3> QED
        BY <1>7, <2>2, <2>4, <3>2, <3>3 DEF Typed, LoadBack
    <2> QED
      BY <2>3, <2>4
  <1>8. ASSUME NEW b \in Buffer, WaitInit(b)
        PROVE  Typed'
    BY <1>8, PcTyped, StepNames DEF Typed, WaitInit, shared, Actor, ClientSteps, UnacquireSteps
  <1>9. ASSUME NEW b \in Buffer, InitEnd(b)
        PROVE  Typed'
    BY <1>9, PcTyped, StepNames, FencesTyped DEF Typed, InitEnd, Actor, ClientSteps
  <1>10. ASSUME NEW b \in Buffer, UninitBegin(b) \/ Uninit(b)
         PROVE  Typed'
    BY <1>10, PcTyped, StepNames DEF Typed, UninitBegin, Uninit, shared, Actor, ClientSteps, UnacquireSteps
  <1>11. ASSUME NEW b \in Buffer, Cancel(b)
         PROVE  Typed'
    <2>1. buffer' \in [Buffer -> BufferT]
      <3>1. buffer[b].counter + 1 \in Nat /\ "unavailable" \in Result
        BY Fields DEF Result
      <3>2. buffer' = [buffer EXCEPT ![b].result = "unavailable", ![b].counter = @ + 1]
        BY <1>11 DEF Cancel
      <3> QED
        BY <3>1, <3>2, BufferEdit DEF Typed
    <2>2. queue' \in Seq(Job)
      BY <1>11, JobMade, Fields DEF Cancel, BufferKind
    <2> QED
      BY <1>11, <2>1, <2>2, PcTyped, StepNames, SignalTyped DEF Typed, Cancel, Actor, ClientSteps
  <1>12. ASSUME NEW b \in Buffer, UninitEnd(b)
         PROVE  Typed'
    BY <1>12, PcTyped, StepNames DEF Typed, UninitEnd, shared, Actor, ClientSteps
  <1>13. ASSUME NEW w \in Worker, Take(w)
         PROVE  Typed'
    <2>1. Head(queue) \in Job /\ Tail(queue) \in Seq(Job)
      BY <1>13 DEF Typed, Take
    <2> QED
      BY <1>13, <2>1, PcTyped, StepNames DEF Typed, Take, Actor, LoadSteps
  <1>14. ASSUME NEW w \in Worker, FreeBuffer(w) \/ Notify(w)
         PROVE  Typed'
    <2>1. job[w].of \in Buffer
      BY <1>14, JobTyped DEF FreeBuffer, Notify, Begins, At, Actor, LoadSteps
    <2>2. pc' \in [Actor -> Steps]
      BY <1>14, PcTyped, StepNames DEF FreeBuffer, Notify, Actor, UnacquireSteps
    <2> QED
      BY <1>14, <2>1, <2>2, SignalTyped DEF Typed, FreeBuffer, Notify, shared
  <1>15. ASSUME NEW a \in Actor, OutOfTurn(a)
         PROVE  Typed'
    BY <1>15, JobTyped, PostAgainTyped DEF Typed, OutOfTurn, At, LoadSteps
  <1>16. ASSUME NEW a \in Actor, NodeBegin(a)
         PROVE  Typed'
    <2>1. job[a].of \in Buffer
      BY <1>16, JobTyped DEF NodeBegin, Begins, At, LoadSteps
    <2>2. res' \in [Actor -> AnyResult]
      BY <1>16, <2>1, Fields, ResTyped DEF Typed, NodeBegin
    <2>3. pc' \in [Actor -> Steps]
      BY <1>16, PcTyped, StepNames DEF NodeBegin, LoadSteps
    <2> QED
      BY <1>16, <2>2, <2>3 DEF Typed, NodeBegin, shared
  <1>17. ASSUME NEW a \in Actor, Open(a)
         PROVE  Typed'
    <2>1. job[a].of \in Buffer /\ config.decode \in BOOLEAN
      BY <1>17, JobTyped, ResourceAssumption DEF Typed, Open, At, LoadSteps, Config
    <2>2. node' \in [Buffer -> NodeT]
      <3>1. \/ node' = node \/ node' = [node EXCEPT ![job[a].of].decoder = "lost"]
            \/ node' = [node EXCEPT ![job[a].of].known = TRUE, ![job[a].of].decoder = Carried]
        BY <1>17 DEF Open, Carried
      <3>2. node \in [Buffer -> NodeT]
        BY DEF Typed
      <3>3. [node EXCEPT ![job[a].of].decoder = "lost"] \in [Buffer -> NodeT]
        BY <3>2, <2>1, NodeEdit
      <3>4. [node EXCEPT ![job[a].of].known = TRUE, ![job[a].of].decoder = Carried] \in [Buffer -> NodeT]
        BY <3>2, <2>1, NodeEdit
      <3> QED
        BY <3>1, <3>2, <3>3, <3>4
    <2>3. res' \in [Actor -> AnyResult]
      BY <1>17, ResTyped DEF Typed, Open, Result
    <2>4. pc' \in [Actor -> Steps]
      BY <1>17, PcTyped, StepNames DEF Open, LoadSteps
    <2> QED
      BY <1>17, <2>2, <2>3, <2>4 DEF Typed, Open
  <1>18. ASSUME NEW a \in Actor, Decode(a)
         PROVE  Typed'
    <2>1. job[a].of \in Buffer
      BY <1>18, JobTyped DEF Decode, At, LoadSteps
    <2>2. node' \in [Buffer -> NodeT]
      <3>1. CASE node' = node
        BY <3>1 DEF Typed
      <3>2. CASE node[job[a].of].pages < MaxPages /\ node' = [node EXCEPT ![job[a].of].pages = @ + 1]
        <4>1. node[job[a].of].pages + 1 \in 0 .. MaxPages
          BY <2>1, <3>2, Fields, ResourceAssumption
        <4> QED
          BY <2>1, <3>2, <4>1, NodeEdit DEF Typed
      <3> QED
        BY <1>18, <3>1, <3>2 DEF Decode
    <2>3. res' \in [Actor -> AnyResult]
      BY <1>18, ResTyped DEF Typed, Decode, Result
    <2>4. pc' \in [Actor -> Steps]
      BY <1>18, PcTyped, StepNames DEF Decode, LoadSteps
    <2> QED
      BY <1>18, <2>2, <2>3, <2>4 DEF Typed, Decode
  <1>19. ASSUME NEW a \in Actor, NextPage(a)
         PROVE  Typed'
    <2>1. job[a].of \in Buffer /\ node[job[a].of].counter + 1 \in Nat
      BY <1>19, JobTyped, Fields DEF NextPage, At, LoadSteps
    <2>2. node' \in [Buffer -> NodeT]
      BY <1>19, <2>1, NodeEdit DEF Typed, NextPage
    <2>3. queue' \in Seq(Job)
      BY <1>19, <2>1, JobMade, Fields DEF NextPage, NodeKind
    <2>4. res' \in [Actor -> AnyResult]
      BY <1>19, ResTyped DEF NextPage, Result
    <2>5. pc' \in [Actor -> Steps]
      BY <1>19, PcTyped, StepNames DEF NextPage, LoadSteps
    <2> QED
      BY <1>19, <2>2, <2>3, <2>4, <2>5 DEF Typed, NextPage
  <1>20. ASSUME NEW a \in Actor, Finish(a)
         PROVE  Typed'
    <2>1. job[a].of \in Buffer
      BY <1>20, JobTyped DEF Finish, At, LoadSteps
    <2>2. node' \in [Buffer -> NodeT]
      BY <1>20, <2>1, NodeEdit DEF Typed, Finish
    <2>3. res' \in [Actor -> AnyResult]
      BY <1>20, ResTyped DEF Typed, Finish, Result
    <2>4. pc' \in [Actor -> Steps]
      BY <1>20, PcTyped, StepNames DEF Finish, LoadSteps
    <2> QED
      BY <1>20, <2>2, <2>3, <2>4 DEF Typed, Finish
  <1>21. ASSUME NEW a \in Actor, FreeNode(a)
         PROVE  Typed'
    <2>1. job[a].of \in Buffer
      BY <1>21, JobTyped DEF FreeNode, Begins, At, LoadSteps
    <2>2. node' \in [Buffer -> NodeT]
      BY <1>21, <2>1, NodeEdit DEF Typed, FreeNode
    <2> QED
      BY <1>21, <2>2, HandledTyped DEF Typed, FreeNode
  <1>22. ASSUME NEW a \in Actor, BufferBegin(a)
         PROVE  Typed'
    <2>1. job[a].of \in Buffer
      BY <1>22, JobTyped DEF BufferBegin, Begins, At, LoadSteps
    <2>2. res' \in [Actor -> AnyResult]
      BY <1>22, <2>1, Fields, ResTyped DEF Typed, BufferBegin
    <2>3. pc' \in [Actor -> Steps]
      BY <1>22, PcTyped, StepNames DEF BufferBegin, LoadSteps
    <2> QED
      BY <1>22, <2>2, <2>3 DEF Typed, BufferBegin, shared
  <1>23. ASSUME NEW a \in Actor, Connect(a)
         PROVE  Typed'
    <2> DEFINE b == job[a].of
    <2>1. b \in Buffer /\ NodeOf(a) \in Buffer
      BY <1>23, JobTyped, NodeOfTyped DEF IInv, Connect, At, LoadSteps
    <2>2. buffer' \in [Buffer -> BufferT]
      <3>1. buffer' = buffer \/ buffer' = [buffer EXCEPT ![b].connector = TRUE]
        BY <1>23 DEF Connect
      <3>2. CASE buffer' = buffer
        BY <3>2 DEF Typed
      <3>3. CASE buffer' = [buffer EXCEPT ![b].connector = TRUE]
        BY <3>3, <2>1, BufferEdit DEF Typed
      <3> QED
        BY <3>1, <3>2, <3>3
    <2>3. fence' \in [Buffer -> FenceT]
      <3>1. fence' = fence \/ fence' = Released(b, TRUE, FALSE)
        BY <1>23 DEF Connect
      <3>2. CASE fence' = fence
        BY <3>2 DEF Typed
      <3>3. CASE fence' = Released(b, TRUE, FALSE)
        BY <3>3, <2>1, FencesTyped DEF Typed
      <3> QED
        BY <3>1, <3>2, <3>3
    <2>4. signalled' \in [Buffer -> BOOLEAN]
      BY <1>23, <2>1, SignalTyped DEF Typed, Connect
    <2>5. pc' \in [Actor -> Steps]
      BY <1>23, PcTyped, StepNames DEF Connect, LoadSteps
    <2>6. res' \in [Actor -> AnyResult]
      BY <1>23, <2>1, Fields, ResTyped DEF Typed, Connect, Result
    <2> QED
      BY <1>23, <2>2, <2>3, <2>4, <2>5, <2>6 DEF Typed, Connect
  <1>24. ASSUME NEW a \in Actor, Look(a)
         PROVE  Typed'
    <2>1. NodeOf(a) \in Buffer /\ job[a] \in Job
      BY <1>24, NodeOfTyped, JobTyped DEF IInv, Look, At, LoadSteps
    <2>2. CASE PostAgain(a)
      BY <1>24, <2>1, <2>2, PostAgainTyped DEF Typed, Look
    <2>3. CASE ~PostAgain(a)
      <3>1. res' \in [Actor -> AnyResult]
        BY <1>24, <2>1, <2>3, Fields, ResTyped DEF Look
      <3>2. pc' \in [Actor -> Steps]
        BY <1>24, <2>3, PcTyped, StepNames DEF Look, LoadSteps
      <3> QED
        BY <1>24, <2>3, <3>1, <3>2 DEF Typed, Look
    <2> QED
      BY <2>2, <2>3
  <1>25. ASSUME NEW a \in Actor, Publish(a)
         PROVE  Typed'
    <2>1. job[a].of \in Buffer
      BY <1>25, JobTyped DEF Publish, At, LoadSteps
    <2>2. res[a] \in Result
      BY <1>25 DEF Places, Place, HandlerAt, Publish, At, Typed, Actor
    <2> DEFINE x == job[a].of
    <2>3. node' \in [Buffer -> NodeT]
      <3>1. CASE node' = node
        BY <3>1 DEF Typed
      <3>2. ASSUME NEW r \in Result, node' = [node EXCEPT ![x].result = r]
            PROVE  node' \in [Buffer -> NodeT]
        BY <2>1, <3>2, NodeEdit DEF Typed
      <3>3. (IF node[x].result = "busy" THEN res[a] ELSE node[x].result) \in Result
        BY <2>1, <2>2, Fields
      <3> QED
        BY <1>25, <3>1, <3>2, <3>3 DEF Publish
    <2>4. buffer' \in [Buffer -> BufferT]
      <3>1. CASE buffer' = buffer
        BY <3>1 DEF Typed
      <3>2. ASSUME NEW r \in Result, buffer' = [buffer EXCEPT ![x].result = r]
            PROVE  buffer' \in [Buffer -> BufferT]
        BY <2>1, <3>2, BufferEdit DEF Typed
      <3>3. (IF buffer[x].result = "busy" THEN res[a] ELSE buffer[x].result) \in Result
        BY <2>1, <2>2, Fields
      <3> QED
        BY <1>25, <3>1, <3>2, <3>3 DEF Publish
    <2> QED
      BY <1>25, <2>3, <2>4, PcTyped, StepNames DEF Typed, Publish, LoadSteps
  <1>26. ASSUME NEW a \in Actor, Fences(a)
         PROVE  Typed'
    <2>1. job[a].of \in Buffer
      BY <1>26, JobTyped DEF Fences, At, LoadSteps
    <2>2. fence' \in [Buffer -> FenceT]
      <3>1. \E x, y : fence' = Released(job[a].of, x, y)
        BY <1>26 DEF Fences
      <3> QED
        BY <2>1, <3>1, FencesTyped
    <2>3. signalled' \in [Buffer -> BOOLEAN]
      BY <1>26, <2>1, SignalTyped DEF Typed, Fences
    <2> QED
      BY <1>26, <2>2, <2>3, PcTyped, StepNames DEF Typed, Fences
  <1>27. ASSUME NEW a \in Actor, Advance(a)
         PROVE  Typed'
    <2>1. job[a].of \in Buffer
      BY <1>27, JobTyped DEF Advance, At
    <2> DEFINE x == job[a].of
    <2>2. node[x].pointer + 1 \in Nat /\ buffer[x].pointer + 1 \in Nat
      BY <2>1, Fields
    <2>3. CASE node' = [node EXCEPT ![x].pointer = @ + 1] /\ buffer' = buffer
      <3>1. node' \in [Buffer -> NodeT]
        BY <2>1, <2>2, <2>3, NodeEdit DEF Typed
      <3> QED
        BY <1>27, <2>3, <3>1, HandledTyped DEF Typed, Advance
    <2>4. CASE buffer' = [buffer EXCEPT ![x].pointer = @ + 1] /\ node' = node
      <3>1. buffer' \in [Buffer -> BufferT]
        BY <2>1, <2>2, <2>4, BufferEdit DEF Typed
      <3> QED
        BY <1>27, <2>4, <3>1, HandledTyped DEF Typed, Advance
    <2> QED
      BY <1>27, <2>3, <2>4 DEF Advance
  <1>28. ASSUME NEW a \in Actor, Unacquire(a)
         PROVE  Typed'
    <2>1. Of(a) \in Buffer /\ NodeOf(a) \in Buffer
      BY <1>28, JobTyped, NodeOfTyped DEF IInv, Unacquire, At, UnacquireSteps
    <2>2. node[NodeOf(a)].refs - 1 \in Nat
      BY <1>28, <2>1, HoldersCounted, Fields DEF IInv
    <2>3. node' \in [Buffer -> NodeT]
      BY <1>28, <2>1, <2>2, NodeEdit DEF Typed, Unacquire
    <2>4. buffer' \in [Buffer -> BufferT]
      BY <1>28, <2>1, BufferEdit DEF Typed, Unacquire
    <2>5. pc' \in [Actor -> Steps]
      BY <1>28, AfterTyped, PcTyped, StepNames DEF Unacquire, UnacquireSteps
    <2> QED
      BY <1>28, <2>3, <2>4, <2>5 DEF Typed, Unacquire
  <1>29. ASSUME NEW a \in Actor, Drop(a)
         PROVE  Typed'
    <2>1. NodeOf(a) \in Buffer
      BY <1>29, NodeOfTyped DEF IInv, Drop, At, UnacquireSteps
    <2>2. node' \in [Buffer -> NodeT]
      <3>1. node' = node \/ node' = [node EXCEPT ![NodeOf(a)].state = "freed"]
        BY <1>29 DEF Drop
      <3>2. CASE node' = node
        BY <3>2 DEF Typed
      <3>3. CASE node' = [node EXCEPT ![NodeOf(a)].state = "freed"]
        BY <3>3, <2>1, NodeEdit DEF Typed
      <3> QED
        BY <3>1, <3>2, <3>3
    <2>3. pc' \in [Actor -> Steps]
      BY <1>29, AfterTyped, PcTyped, StepNames DEF Drop, UnacquireSteps
    <2> QED
      BY <1>29, <2>2, <2>3 DEF Typed, Drop
  <1>30. ASSUME NEW a \in Actor, Abandon(a)
         PROVE  Typed'
    <2>1. NodeOf(a) \in Buffer
      BY <1>30, NodeOfTyped DEF IInv, Abandon, At, UnacquireSteps
    <2>2. node' \in [Buffer -> NodeT]
      <3>1. node[NodeOf(a)].counter + 1 \in Nat /\ "unavailable" \in Result
        BY <2>1, Fields DEF Result
      <3>2. node' = [node EXCEPT ![NodeOf(a)].result = "unavailable", ![NodeOf(a)].counter = @ + 1]
        BY <1>30 DEF Abandon
      <3> QED
        BY <2>1, <3>1, <3>2, NodeEdit DEF Typed
    <2>3. pc' \in [Actor -> Steps]
      BY <1>30, AfterTyped, PcTyped, StepNames DEF Abandon
    <2>4. queue' \in Seq(Job)
      BY <1>30, <2>1, JobMade, Fields DEF Abandon, NodeKind
    <2> QED
      BY <1>30, <2>2, <2>3, <2>4 DEF Typed, Abandon
  <1>31. CASE UNCHANGED vars
    BY <1>31 DEF Typed, vars, shared
  <1> QED
    BY <1>1, <1>2, <1>3, <1>4, <1>5, <1>6, <1>7, <1>8, <1>9, <1>10, <1>11, <1>12, <1>13, <1>14, <1>15,
       <1>16, <1>17, <1>18, <1>19, <1>20, <1>21, <1>22, <1>23, <1>24, <1>25, <1>26, <1>27, <1>28, <1>29,
       <1>30, <1>31 DEF Next, Client, JobThread, Process

---------------------------------------------------------------------------
(* Places *)

\* What the thread or job thread a may do
StepOf(a) ==
  \/ a \in Buffer /\ (InitBegin(a) \/ UninitBegin(a) \/ Client(a))
  \/ a \in Worker /\ JobThread(a)
  \/ Process(a)

LEMMA NextIsStep == Next <=> \E a \in Actor : StepOf(a)
  BY DEF Next, StepOf, Actor

OthersKept(a) ==
  \A c \in Actor \ {a} : pc'[c] = pc[c] /\ job'[c] = job[c] /\ res'[c] = res[c]

LEMMA OthersAlone ==
  ASSUME Typed, NEW a \in Actor, StepOf(a)
  PROVE  OthersKept(a)
  <1> USE DEF Typed, Goto, Returns, Handled, PostAgain, OthersKept
  <1>1. CASE a \in Buffer /\ (InitBegin(a) \/ UninitBegin(a) \/ UninitEnd(a) \/ WaitInit(a) \/ InitEnd(a) \/ Uninit(a) \/ Cancel(a))
    BY <1>1 DEF InitBegin, UninitBegin, UninitEnd, WaitInit, InitEnd, Uninit, Cancel, shared
  <1>2. CASE a \in Buffer /\ (AcquireOld(a) \/ AcquireNew(a) \/ AcquireBack(a))
    BY <1>2 DEF AcquireOld, AcquireNew, AcquireBack
  <1>3. CASE a \in Buffer /\ (CheckLoaded(a) \/ CheckLoading(a) \/ LoadBack(a))
    BY <1>3 DEF CheckLoaded, CheckLoading, LoadBack
  <1>4. CASE a \in Worker /\ JobThread(a)
    BY <1>4 DEF JobThread, Take, FreeBuffer, Notify, shared
  <1>5. CASE OutOfTurn(a) \/ NodeBegin(a) \/ Open(a) \/ Decode(a) \/ NextPage(a)
    BY <1>5 DEF OutOfTurn, NodeBegin, Open, Decode, NextPage, shared
  <1>6. CASE Finish(a) \/ FreeNode(a) \/ BufferBegin(a) \/ Connect(a) \/ Look(a)
    BY <1>6 DEF Finish, FreeNode, BufferBegin, Connect, Look, shared
  <1>7. CASE Publish(a) \/ Fences(a) \/ Advance(a)
    BY <1>7 DEF Publish, Fences, Advance
  <1>8. CASE Unacquire(a) \/ Drop(a) \/ Abandon(a)
    BY <1>8 DEF Unacquire, Drop, Abandon
  <1> QED
    BY <1>1, <1>2, <1>3, <1>4, <1>5, <1>6, <1>7, <1>8 DEF StepOf, Client, Process

LEMMA PlacesKept ==
  ASSUME IInv, [Next]_vars
  PROVE  Places'
  <1>t. Typed /\ Places
    BY TypedIs DEF IInv
  <1> USE <1>t, ResourceAssumption DEF Place
  <1>0. ASSUME NEW a \in Actor, StepOf(a), Place(a)'
        PROVE  Places'
    <2>1. \A c \in Actor \ {a} : pc'[c] = pc[c] /\ job'[c] = job[c] /\ res'[c] = res[c]
      BY <1>0, OthersAlone DEF OthersKept
    <2>2. \A c \in Actor \ {a} : Place(c)'
      BY <2>1 DEF Places, ClientAt, WorkerAt, HandlerAt
    <2> QED
      BY <1>0, <2>2 DEF Places
  <1>1. ASSUME NEW a \in Buffer, InitBegin(a)
        PROVE  Place(a)'
    BY <1>1 DEF Typed, Places, ClientAt, WorkerAt, HandlerAt, Actor, InitBegin, At, Goto, NoJob, ClientSteps, LoadSteps, UnacquireSteps
  <1>2. ASSUME NEW a \in Buffer, UninitBegin(a)
        PROVE  Place(a)'
    BY <1>2 DEF Typed, Places, ClientAt, WorkerAt, HandlerAt, Actor, UninitBegin, At, Goto, NoJob, shared, ClientSteps, LoadSteps, UnacquireSteps
  <1>3. ASSUME NEW a \in Buffer, AcquireOld(a)
        PROVE  Place(a)'
    BY <1>3 DEF Typed, Places, ClientAt, WorkerAt, HandlerAt, Actor, AcquireOld, At, Goto, NoJob, ClientSteps, LoadSteps, UnacquireSteps
  <1>4. ASSUME NEW a \in Buffer, AcquireNew(a)
        PROVE  Place(a)'
    BY <1>4 DEF Typed, Places, ClientAt, WorkerAt, HandlerAt, Actor, AcquireNew, At, Goto, NoJob, ClientSteps, LoadSteps, UnacquireSteps
  <1>5. ASSUME NEW a \in Buffer, AcquireBack(a)
        PROVE  Place(a)'
    <2>1. pc'[a] \notin LoadSteps \cup {"tail", "back", "idle", "signal"} /\ job'[a] = NoJob
      BY <1>5 DEF Typed, Actor, AcquireBack, At, Goto, LoadSteps
    <2>2. res'[a] = res[a] /\ res[a] # "atEnd"
      BY <1>5 DEF Places, HandlerAt, Actor, AcquireBack, At
    <2> QED
      BY <2>1, <2>2 DEF ClientAt, HandlerAt, LoadSteps
  <1>6. ASSUME NEW a \in Buffer, CheckLoaded(a)
        PROVE  Place(a)'
    BY <1>6 DEF Typed, Places, ClientAt, WorkerAt, HandlerAt, Actor, CheckLoaded, At, Goto, NoJob, ClientSteps, LoadSteps, UnacquireSteps
  <1>7. ASSUME NEW a \in Buffer, CheckLoading(a)
        PROVE  Place(a)'
    BY <1>7 DEF Typed, Places, ClientAt, WorkerAt, HandlerAt, Actor, CheckLoading, At, Goto, NoJob, ClientSteps, LoadSteps, UnacquireSteps
  <1>8. ASSUME NEW a \in Buffer, LoadBack(a)
        PROVE  Place(a)'
    <2>1. pc'[a] \notin LoadSteps \cup {"tail", "back", "idle", "signal"} /\ job'[a] = NoJob
      BY <1>8 DEF Typed, Actor, LoadBack, At, Goto, LoadSteps
    <2>2. res'[a] = res[a] /\ res[a] # "atEnd"
      BY <1>8 DEF Places, HandlerAt, Actor, LoadBack, At
    <2> QED
      BY <2>1, <2>2 DEF ClientAt, HandlerAt, LoadSteps
  <1>9. ASSUME NEW a \in Buffer, WaitInit(a)
        PROVE  Place(a)'
    BY <1>9 DEF Typed, Places, ClientAt, WorkerAt, HandlerAt, Actor, WaitInit, At, Goto, NoJob, shared, ClientSteps, LoadSteps, UnacquireSteps
  <1>10. ASSUME NEW a \in Buffer, InitEnd(a)
        PROVE  Place(a)'
    BY <1>10 DEF Typed, Places, ClientAt, WorkerAt, HandlerAt, Actor, InitEnd, At, Goto, NoJob, ClientSteps, LoadSteps, UnacquireSteps
  <1>11. ASSUME NEW a \in Buffer, Uninit(a)
        PROVE  Place(a)'
    BY <1>11 DEF Typed, Places, ClientAt, WorkerAt, HandlerAt, Actor, Uninit, At, Goto, NoJob, shared, ClientSteps, LoadSteps, UnacquireSteps
  <1>12. ASSUME NEW a \in Buffer, Cancel(a)
        PROVE  Place(a)'
    BY <1>12 DEF Typed, Places, ClientAt, WorkerAt, HandlerAt, Actor, Cancel, At, Goto, NoJob, ClientSteps, LoadSteps, UnacquireSteps
  <1>13. ASSUME NEW a \in Buffer, UninitEnd(a)
        PROVE  Place(a)'
    BY <1>13 DEF Typed, Places, ClientAt, WorkerAt, HandlerAt, Actor, UninitEnd, At, Goto, NoJob, shared, ClientSteps, LoadSteps, UnacquireSteps
  <1>14. ASSUME NEW a \in Worker, Take(a)
        PROVE  Place(a)'
    <2>1. Head(queue) # NoJob
      BY <1>14 DEF Typed, Take, Job, NodeKind, BufferKind, NoJob
    <2> QED
      BY <1>14, <2>1 DEF Typed, Places, ClientAt, WorkerAt, HandlerAt, Actor, Take, At, Goto, NoJob, ClientSteps, LoadSteps, UnacquireSteps
  <1>15. ASSUME NEW a \in Worker, FreeBuffer(a)
        PROVE  Place(a)'
    BY <1>15 DEF Typed, Places, ClientAt, WorkerAt, HandlerAt, Actor, FreeBuffer, At, Goto, NoJob, Begins, shared, ClientSteps, LoadSteps, UnacquireSteps
  <1>16. ASSUME NEW a \in Worker, Notify(a)
        PROVE  Place(a)'
    BY <1>16 DEF Typed, Places, ClientAt, WorkerAt, HandlerAt, Actor, Notify, At, Goto, NoJob, ClientSteps, LoadSteps, UnacquireSteps
  <1>17. ASSUME NEW a \in Actor, OutOfTurn(a)
        PROVE  Place(a)'
    BY <1>17 DEF Typed, Places, ClientAt, WorkerAt, HandlerAt, Actor, OutOfTurn, At, Goto, NoJob, PostAgain, Returns, Handled, ClientSteps, LoadSteps, UnacquireSteps
  <1>18. ASSUME NEW a \in Actor, NodeBegin(a)
        PROVE  Place(a)'
    <2>1. node[job[a].of].result # "atEnd"
      BY <1>18, JobTyped, Fields DEF NodeBegin, Begins, At, LoadSteps, Result
    <2> QED
      BY <1>18, <2>1 DEF Typed, Places, ClientAt, WorkerAt, HandlerAt, Actor, NodeBegin, At, Goto, NoJob, ClientSteps, LoadSteps, UnacquireSteps, Begins, Returns, shared
  <1>19. ASSUME NEW a \in Actor, Open(a)
        PROVE  Place(a)'
    BY <1>19 DEF Typed, Places, ClientAt, WorkerAt, HandlerAt, Actor, Open, At, Goto, NoJob, Returns, Result, ClientSteps, LoadSteps, UnacquireSteps
  <1>20. ASSUME NEW a \in Actor, Decode(a)
        PROVE  Place(a)'
    BY <1>20 DEF Typed, Places, ClientAt, WorkerAt, HandlerAt, Actor, Decode, At, Goto, NoJob, Returns, ClientSteps, LoadSteps, UnacquireSteps
  <1>21. ASSUME NEW a \in Actor, NextPage(a)
        PROVE  Place(a)'
    BY <1>21 DEF Typed, Places, ClientAt, WorkerAt, HandlerAt, Actor, NextPage, At, Goto, NoJob, Returns, ClientSteps, LoadSteps, UnacquireSteps
  <1>22. ASSUME NEW a \in Actor, Finish(a)
        PROVE  Place(a)'
    BY <1>22 DEF Typed, Places, ClientAt, WorkerAt, HandlerAt, Actor, Finish, At, Goto, NoJob, Returns, ClientSteps, LoadSteps, UnacquireSteps
  <1>23. ASSUME NEW a \in Actor, FreeNode(a)
        PROVE  Place(a)'
    BY <1>23 DEF Typed, Places, ClientAt, WorkerAt, HandlerAt, Actor, FreeNode, At, Goto, NoJob, Begins, Handled, ClientSteps, LoadSteps, UnacquireSteps
  <1>24. ASSUME NEW a \in Actor, BufferBegin(a)
        PROVE  Place(a)'
    <2>1. buffer[job[a].of].result # "atEnd"
      BY <1>24, JobTyped, Fields DEF BufferBegin, Begins, At, LoadSteps, Result
    <2> QED
      BY <1>24, <2>1 DEF Typed, Places, ClientAt, WorkerAt, HandlerAt, Actor, BufferBegin, At, Goto, NoJob, ClientSteps, LoadSteps, UnacquireSteps, Begins, Returns, shared
  <1>25. ASSUME NEW a \in Actor, Connect(a)
        PROVE  Place(a)'
    <2>1. node[NodeOf(a)].result # "atEnd"
      BY <1>25, NodeOfTyped, Fields DEF IInv, Connect, At, Result
    <2>2. pc'[a] \in {"look", "lookUnknown", "publish"} /\ job' = job
      BY <1>25 DEF Typed, Connect, Goto
    <2>3. res'[a] # "atEnd"
      BY <1>25, <2>1 DEF Typed, Places, HandlerAt, Connect, At, Returns
    <2>4. job[a].kind = "loadBuffer" /\ pc[a] = "connect"
      BY <1>25 DEF Places, HandlerAt, Connect, At
    <2> QED
      BY <2>2, <2>3, <2>4 DEF Places, ClientAt, WorkerAt, HandlerAt, NoJob, ClientSteps, LoadSteps, UnacquireSteps
  <1>26. ASSUME NEW a \in Actor, Look(a)
        PROVE  Place(a)'
    <2>1. node[NodeOf(a)].result # "atEnd"
      BY <1>26, NodeOfTyped, Fields DEF IInv, Look, At, Result
    <2> QED
      BY <1>26, <2>1 DEF Typed, Places, ClientAt, WorkerAt, HandlerAt, Actor, Look, At, Goto, NoJob, ClientSteps, LoadSteps, UnacquireSteps, Returns, PostAgain, Handled
  <1>27. ASSUME NEW a \in Actor, Publish(a)
        PROVE  Place(a)'
    BY <1>27 DEF Typed, Places, ClientAt, WorkerAt, HandlerAt, Actor, Publish, At, Goto, NoJob, ClientSteps, LoadSteps, UnacquireSteps
  <1>28. ASSUME NEW a \in Actor, Fences(a)
        PROVE  Place(a)'
    BY <1>28 DEF Typed, Places, ClientAt, WorkerAt, HandlerAt, Actor, Fences, At, Goto, NoJob, ClientSteps, LoadSteps, UnacquireSteps
  <1>29. ASSUME NEW a \in Actor, Advance(a)
        PROVE  Place(a)'
    BY <1>29 DEF Typed, Places, ClientAt, WorkerAt, HandlerAt, Actor, Advance, At, Goto, NoJob, Handled, ClientSteps, LoadSteps, UnacquireSteps
  <1>30. ASSUME NEW a \in Actor, Unacquire(a)
        PROVE  Place(a)'
    BY <1>30 DEF Typed, Places, ClientAt, WorkerAt, HandlerAt, Actor, Unacquire, At, Goto, NoJob, AfterUnacquire, ClientSteps, LoadSteps, UnacquireSteps
  <1>31. ASSUME NEW a \in Actor, Drop(a)
        PROVE  Place(a)'
    BY <1>31 DEF Typed, Places, ClientAt, WorkerAt, HandlerAt, Actor, Drop, At, Goto, NoJob, AfterUnacquire, ClientSteps, LoadSteps, UnacquireSteps
  <1>32. ASSUME NEW a \in Actor, Abandon(a)
        PROVE  Place(a)'
    BY <1>32 DEF Typed, Places, ClientAt, WorkerAt, HandlerAt, Actor, Abandon, At, Goto, NoJob, AfterUnacquire, ClientSteps, LoadSteps, UnacquireSteps
  <1>33. CASE UNCHANGED vars
    BY <1>33 DEF vars, shared, Places, ClientAt, WorkerAt, HandlerAt
  <1> QED
    BY <1>0, <1>1, <1>2, <1>3, <1>4, <1>5, <1>6, <1>7, <1>8, <1>9, <1>10, <1>11, <1>12, <1>13, <1>14, <1>15, <1>16, <1>17, <1>18, <1>19, <1>20, <1>21, <1>22, <1>23, <1>24, <1>25, <1>26, <1>27, <1>28, <1>29, <1>30, <1>31, <1>32, <1>33, NextIsStep DEF StepOf, Client, JobThread, Process, Actor

---------------------------------------------------------------------------
(* References *)

\* A step that moves no reference, and frees no node unless nobody holds it
Quiet ==
  /\ tree' = tree
  /\ \A n \in Buffer :
       /\ node'[n].refs = node[n].refs
       /\ node'[n].state = node[n].state \/ (Gone(n) /\ node'[n].state = "freed")
  /\ \A b \in Buffer : buffer'[b].holds = buffer[b].holds /\ buffer'[b].node = buffer[b].node

\* Gone(n)' for an n that is not primed
GoneNext(n) == node'[n].refs = 0 /\ node'[n].state # "none"

\* What may be queued: a job to load, one that comes back, one that frees what
\* nobody holds, and the one with which a client gives its buffer up
Posted(a, j) ==
  \/ j.kind \in {"loadNode", "pageNode"}
  \/ j.kind = "loadBuffer" /\ pc[j.of] \notin Before
  \/ a \in Worker /\ pc[a] = "begin" /\ j = job[a] /\ job'[a] = NoJob
  \/ j.kind = "freeNode" /\ Gone(j.of)
  \/ /\ j.kind = "freeBuffer" /\ j.of = a /\ a \in Buffer /\ buffer[a].holds
     /\ pc[a] \notin GivenUp /\ pc'[a] \in GivenUp
Posts(a) == queue' = queue \/ \E j \in Job : queue' = Append(queue, j) /\ Posted(a, j)

\* Where an actor may go in such a step
Moves(a) ==
  /\ \/ job'[a] = job[a]
     \/ job'[a] = NoJob
     \/ a \in Buffer /\ job'[a].kind = "loadBuffer"
  /\ lock' = lock \/ (a \in Buffer /\ lock = a /\ job'[a] = NoJob)
  /\ pc[a] \in Before <=> pc'[a] \in Before
  /\ a \in Buffer /\ pc'[a] \in HoldSteps => buffer[a].holds
  /\ pc[a] \in GivenUp => pc'[a] \in GivenUp
  /\ pc'[a] \in {"drop", "abandon"} => pc[a] \in {"drop", "abandon"} /\ job'[a] = job[a]
  /\ a \in Worker /\ pc'[a] \in {"begin", "unacquire"} => pc[a] = "begin" /\ job'[a] = job[a]

LEMMA AppendAt ==
  ASSUME Typed, NEW j \in Job, queue' = Append(queue, j)
  PROVE  \A i \in DOMAIN queue' :
           \/ i \in DOMAIN queue /\ queue'[i] = queue[i]
           \/ i = Len(queue) + 1 /\ queue'[i] = j
  BY DEF Typed

LEMMA TailAt ==
  ASSUME Typed, queue # <<>>, queue' = Tail(queue)
  PROVE  /\ 1 \in DOMAIN queue /\ Head(queue) = queue[1]
         /\ \A i \in DOMAIN queue' : i \in Nat \ {0} /\ i + 1 \in DOMAIN queue /\ queue'[i] = queue[i + 1]
  BY DEF Typed

LEMMA QueuedTyped ==
  ASSUME Typed
  PROVE  /\ \A i \in DOMAIN queue : queue[i] \in Job /\ queue[i].of \in Buffer
         /\ \A a \in Actor : job[a] \in Job => job[a].of \in Buffer
         /\ \A a \in Actor : job[a].kind \in NodeKind \cup BufferKind => job[a] \in Job
  <1>1. \A j \in Job : j.of \in Buffer
    BY DEF Job
  <1>2. \A i \in DOMAIN queue : queue[i] \in Job
    BY DEF Typed
  <1>3. \A a \in Actor : job[a] \in Job \cup {NoJob}
    BY DEF Typed, AnyJob
  <1>4. NoJob.kind \notin NodeKind \cup BufferKind
    BY DEF NoJob, NodeKind, BufferKind
  <1> QED
    BY <1>1, <1>2, <1>3, <1>4

LEMMA GoneUnheld ==
  ASSUME RefsInv, NEW n \in Buffer, Gone(n)
  PROVE  tree # n /\ \A b \in Buffer : ~Holds(b, n)
  <1>1. tree # n
    <2>1. tree = n => node[n].refs > 0
      BY DEF RefsInv, RefsExact
    <2> QED
      BY <2>1 DEF Gone
  <1>2. ASSUME NEW b \in Buffer, Holds(b, n)
        PROVE  FALSE
    <2>1. node[n].state = "live"
      BY <1>2 DEF RefsInv, HolderServed, Holds
    <2>2. Cardinality(Holders(n)) = 0
      BY <2>1 DEF RefsInv, RefsExact, Gone, Holders
    <2> QED
      BY <1>2, <2>2, HoldersFinite, FS_EmptySet DEF Holders
  <1> QED
    BY <1>1, <1>2

LEMMA QuietHolders ==
  ASSUME RefsInv, Quiet
  PROVE  HolderServed' /\ RefsExact'
  <1>1. HolderServed'
    BY GoneUnheld DEF RefsInv, HolderServed, Quiet, Holds
  <1>2. \A n \in Buffer : {b \in Buffer : Holds(b, n)'} = {b \in Buffer : Holds(b, n)}
    BY DEF Holds, Quiet
  <1>3. ASSUME NEW n \in Buffer
        PROVE  /\ (tree = n <=> node[n].state = "live" /\ node[n].refs > 0)'
               /\ (node[n].state = "live" => node[n].refs = Cardinality({b \in Buffer : Holds(b, n)}))'
    <2>1. /\ tree = n <=> node[n].state = "live" /\ node[n].refs > 0
          /\ node[n].state = "live" => node[n].refs = Cardinality({b \in Buffer : Holds(b, n)})
          /\ tree' = tree /\ node'[n].refs = node[n].refs
      BY DEF RefsInv, RefsExact, Quiet
    <2>2. CASE node'[n].state = node[n].state
      BY <1>2, <2>1, <2>2
    <2>3. CASE Gone(n) /\ node'[n].state = "freed"
      BY <2>1, <2>3, GoneUnheld
    <2> QED
      BY <2>2, <2>3 DEF Quiet
  <1> QED
    BY <1>1, <1>3 DEF RefsExact

LEMMA QuietKeeps ==
  ASSUME Typed, Places, RefsInv, NEW a \in Actor, OthersKept(a), Quiet, Posts(a), Moves(a)
  PROVE  RefsInv'
  <1> USE ResourceAssumption DEF RefsInv
  <1>q. /\ \A i \in DOMAIN queue : queue[i].of \in Buffer
        /\ \A w \in Worker : job[w].kind \in {"freeBuffer", "freeNode", "loadBuffer"} => job[w].of \in Buffer
    BY QueuedTyped DEF Actor, NodeKind, BufferKind
  <1>b. \A b \in Buffer : /\ pc[b] \in GivenUp => pc'[b] \in GivenUp
                          /\ pc[b] \in Before <=> pc'[b] \in Before
    BY DEF OthersKept, Moves, Actor
  <1>w. \A w \in Worker : job'[w] = job[w] \/ job'[w] = NoJob
    BY DEF OthersKept, Moves, Actor
  <1>n. NoJob.kind = "none"
    BY DEF NoJob
  <1>1. Named'
    <2>1. \A i \in DOMAIN queue' : queue'[i].kind = "loadBuffer" => pc'[queue'[i].of] \notin Before
      <3>1. CASE queue' = queue
        BY <1>q, <1>b, <3>1 DEF Named
      <3>2. ASSUME NEW j \in Job, queue' = Append(queue, j), Posted(a, j)
            PROVE  \A i \in DOMAIN queue' : queue'[i].kind = "loadBuffer" => pc'[queue'[i].of] \notin Before
        <4>1. j.of \in Buffer
          BY DEF Job
        <4>2. j.kind = "loadBuffer" => pc[j.of] \notin Before
          BY <3>2 DEF Posted, Named
        <4> QED
          BY <1>q, <1>b, <3>2, <4>1, <4>2, AppendAt DEF Named
      <3> QED
        BY <3>1, <3>2 DEF Posts
    <2>2. \A w \in Worker : job'[w].kind = "loadBuffer" => pc'[job'[w].of] \notin Before
      BY <1>q, <1>b, <1>w, <1>n DEF Named
    <2> QED
      BY <1>b, <2>1, <2>2 DEF Named, Quiet
  <1>2. Fresh'
    BY <1>b DEF Fresh, Quiet, Gone
  <1>3. Kept'
    BY DEF Kept, Quiet, OthersKept, Moves, Actor
  <1>4. Given'
    <2>1. \A i \in DOMAIN queue' : queue'[i].kind = "freeBuffer" =>
             buffer'[queue'[i].of].holds /\ pc'[queue'[i].of] \in GivenUp
      <3>1. CASE queue' = queue
        BY <1>q, <1>b, <3>1 DEF Given, Quiet
      <3>2. ASSUME NEW j \in Job, queue' = Append(queue, j), Posted(a, j)
            PROVE  \A i \in DOMAIN queue' : queue'[i].kind = "freeBuffer" =>
                     buffer'[queue'[i].of].holds /\ pc'[queue'[i].of] \in GivenUp
        <4>1. j.of \in Buffer
          BY DEF Job
        <4>2. j.kind = "freeBuffer" => buffer'[j.of].holds /\ pc'[j.of] \in GivenUp
          BY <1>b, <3>2, <4>1 DEF Posted, Given, Quiet
        <4> QED
          BY <1>q, <1>b, <3>2, <4>2, AppendAt DEF Given, Quiet
      <3> QED
        BY <3>1, <3>2 DEF Posts
    <2>2. \A w \in Worker : job'[w].kind = "freeBuffer" =>
            /\ pc'[job'[w].of] \in GivenUp
            /\ pc'[w] \in {"begin", "unacquire"} => buffer'[job'[w].of].holds
      BY <1>q, <1>b, <1>w, <1>n DEF Given, Quiet, OthersKept, Moves, Actor
    <2> QED
      BY <2>1, <2>2 DEF Given
  <1>5. GivenOnce'
    <2>1. CASE queue' = queue
      BY <2>1, <1>w, <1>n DEF GivenOnce
    <2>2. ASSUME NEW j \in Job, queue' = Append(queue, j), Posted(a, j)
          PROVE  GivenOnce'
      <3>1. CASE j.kind # "freeBuffer"
        BY <1>w, <1>n, <2>2, <3>1, AppendAt DEF GivenOnce
      <3>2. CASE j.kind = "freeBuffer"
        <4>1. /\ \A i \in DOMAIN queue : queue[i].kind = "freeBuffer" => queue[i].of # j.of
              /\ \A w \in Worker : job'[w].kind = "freeBuffer" => job'[w].of # j.of
          <5>1. CASE a \in Worker /\ j = job[a] /\ job'[a] = NoJob
            BY <1>n, <3>2, <5>1 DEF GivenOnce, OthersKept, Actor
          <5>2. CASE j.of = a /\ pc[a] \notin GivenUp
            BY <1>w, <1>n, <3>2, <5>2 DEF Given
          <5> QED
            BY <2>2, <3>2, <5>1, <5>2 DEF Posted
        <4>2. \A v, w \in Worker :
                job'[v].kind = "freeBuffer" /\ job'[w].kind = "freeBuffer" /\ job'[v].of = job'[w].of => v = w
          BY <1>w, <1>n DEF GivenOnce
        <4>3. \A i \in DOMAIN queue, w \in Worker :
                queue[i].kind = "freeBuffer" /\ job'[w].kind = "freeBuffer" => queue[i].of # job'[w].of
          BY <1>w, <1>n DEF GivenOnce
        <4> QED
          BY <2>2, <4>1, <4>2, <4>3, AppendAt DEF GivenOnce
      <3> QED
        BY <3>1, <3>2
    <2> QED
      BY <2>1, <2>2 DEF Posts
  <1>6. Unheld'
    <2>1. \A n \in Buffer : Gone(n) => GoneNext(n)
      BY DEF Gone, GoneNext, Quiet
    <2>2. \A i \in DOMAIN queue' : queue'[i].kind = "freeNode" => GoneNext(queue'[i].of)
      <3>1. CASE queue' = queue
        BY <1>q, <2>1, <3>1 DEF Unheld
      <3>2. ASSUME NEW j \in Job, queue' = Append(queue, j), Posted(a, j)
            PROVE  \A i \in DOMAIN queue' : queue'[i].kind = "freeNode" => GoneNext(queue'[i].of)
        <4>1. j.of \in Buffer
          BY DEF Job
        <4>2. j.kind = "freeNode" => GoneNext(j.of)
          BY <2>1, <3>2, <4>1 DEF Posted, Unheld
        <4> QED
          BY <1>q, <2>1, <3>2, <4>2, AppendAt DEF Unheld
      <3> QED
        BY <3>1, <3>2 DEF Posts
    <2>3. \A w \in Worker : job'[w].kind = "freeNode" => GoneNext(job'[w].of)
      BY <1>q, <1>w, <1>n, <2>1 DEF Unheld
    <2>4. ASSUME NEW c \in Actor, pc'[c] \in {"drop", "abandon"}
          PROVE  NodeOf(c)' \in Buffer /\ GoneNext(NodeOf(c)')
      <3>1. pc[c] \in {"drop", "abandon"} /\ job'[c] = job[c]
        BY <2>4 DEF OthersKept, Moves
      <3>2. Of(c)' = Of(c) /\ Of(c) \in Buffer
        BY <3>1, JobTyped DEF Of, UnacquireSteps
      <3>3. NodeOf(c)' = NodeOf(c)
        BY <3>2 DEF NodeOf, Quiet
      <3> QED
        BY <2>1, <3>1, <3>3 DEF Unheld
    <2> QED
      BY <2>2, <2>3, <2>4 DEF Unheld, Gone, GoneNext
  <1>7. Locked'
    <2>1. ASSUME NEW b \in Buffer, job'[b].kind = "loadNode"
          PROVE  job[b].kind = "loadNode" /\ lock' = b
      <3>1. job[b].kind = "loadNode"
        BY <1>n, <2>1 DEF OthersKept, Moves, Actor
      <3>2. lock = b
        BY <3>1 DEF Locked
      <3> QED
        BY <1>n, <2>1, <3>1, <3>2 DEF Moves
    <2> QED
      BY <2>1 DEF Locked, Quiet, Gone
  <1> QED
    BY <1>1, <1>2, <1>3, <1>4, <1>5, <1>6, <1>7, QuietHolders

\* What a quiet step may write to a node and a buffer
LEMMA QuietEdits ==
  ASSUME NEW f \in [Buffer -> NodeT], NEW g \in [Buffer -> BufferT], NEW x \in Buffer, NEW m \in Buffer
  PROVE  /\ \A v, w : /\ [f EXCEPT ![x].counter = v][m].refs = f[m].refs
                      /\ [f EXCEPT ![x].counter = v][m].state = f[m].state
                      /\ [f EXCEPT ![x].pointer = v][m].refs = f[m].refs
                      /\ [f EXCEPT ![x].pointer = v][m].state = f[m].state
                      /\ [f EXCEPT ![x].pages = v][m].refs = f[m].refs
                      /\ [f EXCEPT ![x].pages = v][m].state = f[m].state
                      /\ [f EXCEPT ![x].result = v][m].refs = f[m].refs
                      /\ [f EXCEPT ![x].result = v][m].state = f[m].state
                      /\ [f EXCEPT ![x].decoder = v][m].refs = f[m].refs
                      /\ [f EXCEPT ![x].decoder = v][m].state = f[m].state
                      /\ [f EXCEPT ![x].known = v, ![x].decoder = w][m].refs = f[m].refs
                      /\ [f EXCEPT ![x].known = v, ![x].decoder = w][m].state = f[m].state
                      /\ [f EXCEPT ![x].result = v, ![x].counter = w][m].refs = f[m].refs
                      /\ [f EXCEPT ![x].result = v, ![x].counter = w][m].state = f[m].state
         /\ [f EXCEPT ![x].state = "freed"][m].refs = f[m].refs
         /\ m # x => [f EXCEPT ![x].state = "freed"][m].state = f[m].state
         /\ [f EXCEPT ![x].state = "freed"][x].state = "freed"
         /\ \A v, w : /\ [g EXCEPT ![x].counter = v][m].holds = g[m].holds
                      /\ [g EXCEPT ![x].counter = v][m].node = g[m].node
                      /\ [g EXCEPT ![x].pointer = v][m].holds = g[m].holds
                      /\ [g EXCEPT ![x].pointer = v][m].node = g[m].node
                      /\ [g EXCEPT ![x].result = v][m].holds = g[m].holds
                      /\ [g EXCEPT ![x].result = v][m].node = g[m].node
                      /\ [g EXCEPT ![x].connector = v][m].holds = g[m].holds
                      /\ [g EXCEPT ![x].connector = v][m].node = g[m].node
                      /\ [g EXCEPT ![x].connector = v, ![x].result = w][m].holds = g[m].holds
                      /\ [g EXCEPT ![x].connector = v, ![x].result = w][m].node = g[m].node
                      /\ [g EXCEPT ![x].result = v, ![x].counter = w][m].holds = g[m].holds
                      /\ [g EXCEPT ![x].result = v, ![x].counter = w][m].node = g[m].node
  BY DEF NodeT, BufferT

LEMMA InitBeginQuiet ==
  ASSUME Typed, Places, RefsInv, NEW a \in Buffer, InitBegin(a)
  PROVE  RefsInv'
  <1>1. Quiet
    BY DEF InitBegin, Quiet, Typed, shared
  <1>2. Posts(a)
    BY DEF InitBegin, Posts, shared
  <1>3. Moves(a)
    BY DEF RefsInv, Kept, InitBegin, Moves, Goto, Returns, At, Begins, Handled, shared, HoldSteps, GivenUp, Before, LoadSteps, Typed, Actor, NoJob
  <1> QED
    BY <1>1, <1>2, <1>3, OthersAlone, QuietKeeps DEF StepOf, Client, Actor

LEMMA UninitBeginQuiet ==
  ASSUME Typed, Places, RefsInv, NEW a \in Buffer, UninitBegin(a)
  PROVE  RefsInv'
  <1>1. Quiet
    BY DEF UninitBegin, Quiet, Typed, shared
  <1>2. Posts(a)
    BY DEF UninitBegin, Posts, shared
  <1>3. Moves(a)
    BY DEF RefsInv, Kept, UninitBegin, Moves, Goto, Returns, At, Begins, Handled, shared, HoldSteps, GivenUp, Before, LoadSteps, Typed, Actor, NoJob
  <1> QED
    BY <1>1, <1>2, <1>3, OthersAlone, QuietKeeps DEF StepOf, Client, Actor

LEMMA InitEndQuiet ==
  ASSUME Typed, Places, RefsInv, NEW a \in Buffer, InitEnd(a)
  PROVE  RefsInv'
  <1>1. Quiet
    BY DEF InitEnd, Quiet, Typed, shared
  <1>2. Posts(a)
    BY DEF InitEnd, Posts, shared
  <1>3. Moves(a)
    BY DEF RefsInv, Kept, InitEnd, Moves, Goto, Returns, At, Begins, Handled, shared, HoldSteps, GivenUp, Before, LoadSteps, Typed, Actor, NoJob
  <1> QED
    BY <1>1, <1>2, <1>3, OthersAlone, QuietKeeps DEF StepOf, Client, Actor

LEMMA UninitEndQuiet ==
  ASSUME Typed, Places, RefsInv, NEW a \in Buffer, UninitEnd(a)
  PROVE  RefsInv'
  <1>1. Quiet
    BY DEF UninitEnd, Quiet, Typed, shared
  <1>2. Posts(a)
    BY DEF UninitEnd, Posts, shared
  <1>3. Moves(a)
    BY DEF RefsInv, Kept, UninitEnd, Moves, Goto, Returns, At, Begins, Handled, shared, HoldSteps, GivenUp, Before, LoadSteps, Typed, Actor, NoJob
  <1> QED
    BY <1>1, <1>2, <1>3, OthersAlone, QuietKeeps DEF StepOf, Client, Actor

LEMMA WaitInitQuiet ==
  ASSUME Typed, Places, RefsInv, NEW a \in Buffer, WaitInit(a)
  PROVE  RefsInv'
  <1>1. Quiet
    BY DEF WaitInit, Quiet, Typed, shared
  <1>2. Posts(a)
    BY DEF WaitInit, Posts, shared
  <1>3. Moves(a)
    <2>1. pc[a] = "wait" /\ pc'[a] \in {"release", "unacquire"}
      BY DEF WaitInit, At, Goto, Typed, Actor
    <2>2. (job'[a] = job[a] \/ job'[a] = NoJob \/ job'[a].kind = "loadBuffer") /\ lock' = lock
      BY DEF WaitInit, Typed, Actor, shared
    <2> QED
      BY <2>1, <2>2, ResourceAssumption DEF RefsInv, Kept, Moves, HoldSteps, GivenUp, Before, LoadSteps
  <1> QED
    BY <1>1, <1>2, <1>3, OthersAlone, QuietKeeps DEF StepOf, Client, Actor

LEMMA UninitQuiet ==
  ASSUME Typed, Places, RefsInv, NEW a \in Buffer, Uninit(a)
  PROVE  RefsInv'
  <1>1. Quiet
    BY DEF Uninit, Quiet, Typed, shared
  <1>2. Posts(a)
    BY DEF Uninit, Posts, shared
  <1>3. Moves(a)
    <2>1. pc[a] = "uninit" /\ pc'[a] \in {"unacquire", "cancel"}
      BY DEF Uninit, At, Goto, Typed, Actor
    <2>2. (job'[a] = job[a] \/ job'[a] = NoJob \/ job'[a].kind = "loadBuffer") /\ lock' = lock
      BY DEF Uninit, Typed, Actor, shared
    <2> QED
      BY <2>1, <2>2, ResourceAssumption DEF RefsInv, Kept, Moves, HoldSteps, GivenUp, Before, LoadSteps
  <1> QED
    BY <1>1, <1>2, <1>3, OthersAlone, QuietKeeps DEF StepOf, Client, Actor

LEMMA CheckLoadedQuiet ==
  ASSUME Typed, Places, RefsInv, NEW a \in Buffer, CheckLoaded(a)
  PROVE  RefsInv'
  <1>1. Quiet
    <2>1. \/ buffer' = [buffer EXCEPT ![a].connector = TRUE, ![a].result = "success"]
          \/ buffer' = [buffer EXCEPT ![a].result = "error"]
      BY DEF CheckLoaded
    <2>2. tree' = tree /\ node' = node
      BY DEF CheckLoaded
    <2>3. \A b \in Buffer : buffer'[b].holds = buffer[b].holds /\ buffer'[b].node = buffer[b].node
      <3>1. buffer \in [Buffer -> BufferT]
        BY DEF Typed
      <3>2. CASE buffer' = [buffer EXCEPT ![a].connector = TRUE, ![a].result = "success"]
        BY <3>1, <3>2 DEF BufferT
      <3>3. CASE buffer' = [buffer EXCEPT ![a].result = "error"]
        BY <3>1, <3>3 DEF BufferT
      <3> QED
        BY <2>1, <3>2, <3>3
    <2> QED
      BY <2>2, <2>3 DEF Quiet
  <1>2. Posts(a)
    BY DEF CheckLoaded, Posts, shared
  <1>3. Moves(a)
    BY DEF RefsInv, Kept, CheckLoaded, Moves, Goto, Returns, At, Begins, Handled, shared, HoldSteps, GivenUp, Before, LoadSteps, Typed, Actor, NoJob
  <1> QED
    BY <1>1, <1>2, <1>3, OthersAlone, QuietKeeps DEF StepOf, Client, Actor

LEMMA CheckLoadingQuiet ==
  ASSUME Typed, Places, RefsInv, NEW a \in Buffer, CheckLoading(a)
  PROVE  RefsInv'
  <1>1. Quiet
    BY QuietEdits DEF CheckLoading, Quiet, Typed
  <1>2. Posts(a)
    <2>1. CASE queue' = queue
      BY <2>1 DEF Posts
    <2>2. CASE Post("loadBuffer", a, buffer[a].counter)
      <3> DEFINE j == [kind |-> "loadBuffer", of |-> a, order |-> buffer[a].counter]
      <3>1. j \in Job /\ pc[j.of] \notin Before /\ j.kind = "loadBuffer"
        BY Fields DEF Job, BufferKind, CheckLoading, At, Before
      <3> QED
        BY <2>2, <3>1 DEF Posts, Posted, Post
    <2> QED
      BY <2>1, <2>2 DEF CheckLoading
  <1>3. Moves(a)
    <2>1. pc[a] = "check" /\ pc'[a] \in {"begin", "release"}
      BY DEF CheckLoading, At, Goto, Typed, Actor
    <2>2. (job'[a] = job[a] \/ job'[a] = NoJob \/ job'[a].kind = "loadBuffer") /\ lock' = lock
      BY DEF CheckLoading, Typed, Actor, shared
    <2> QED
      BY <2>1, <2>2, ResourceAssumption DEF RefsInv, Kept, Moves, HoldSteps, GivenUp, Before, LoadSteps
  <1> QED
    BY <1>1, <1>2, <1>3, OthersAlone, QuietKeeps DEF StepOf, Client, Actor

LEMMA LoadBackQuiet ==
  ASSUME Typed, Places, RefsInv, NEW a \in Buffer, LoadBack(a)
  PROVE  RefsInv'
  <1>1. Quiet
    <2>1. buffer' = buffer \/ buffer' = [buffer EXCEPT ![a].result = res[a]]
      BY DEF LoadBack
    <2>2. CASE buffer' = buffer
      BY <2>2 DEF LoadBack, Quiet
    <2>3. CASE buffer' = [buffer EXCEPT ![a].result = res[a]]
      BY <2>3, QuietEdits DEF LoadBack, Quiet, Typed
    <2> QED
      BY <2>1, <2>2, <2>3
  <1>2. Posts(a)
    BY DEF LoadBack, Posts, shared
  <1>3. Moves(a)
    <2>1. pc[a] = "back" /\ pc'[a] \in {"wait", "unacquire"}
      BY DEF LoadBack, At, Goto, Typed, Actor
    <2>2. (job'[a] = job[a] \/ job'[a] = NoJob \/ job'[a].kind = "loadBuffer") /\ lock' = lock
      BY DEF LoadBack, Typed, Actor, shared
    <2> QED
      BY <2>1, <2>2, ResourceAssumption DEF RefsInv, Kept, Moves, HoldSteps, GivenUp, Before, LoadSteps
  <1> QED
    BY <1>1, <1>2, <1>3, OthersAlone, QuietKeeps DEF StepOf, Client, Actor

LEMMA CancelQuiet ==
  ASSUME Typed, Places, RefsInv, NEW a \in Buffer, Cancel(a)
  PROVE  RefsInv'
  <1>1. Quiet
    BY QuietEdits DEF Cancel, Quiet, Typed
  <1>2. Posts(a)
    <2> DEFINE j == [kind |-> "freeBuffer", of |-> a, order |-> buffer[a].counter]
    <2>1. j \in Job /\ j.kind = "freeBuffer" /\ j.of = a
      BY Fields DEF Job, BufferKind
    <2>2. buffer[a].holds /\ pc[a] \notin GivenUp /\ pc'[a] \in GivenUp
      BY DEF RefsInv, Kept, Cancel, At, Goto, GivenUp, HoldSteps, Typed, Actor
    <2> QED
      BY <2>1, <2>2 DEF Posts, Posted, Cancel, Post
  <1>3. Moves(a)
    BY DEF RefsInv, Kept, Cancel, Moves, Goto, Returns, At, Begins, Handled, shared, HoldSteps, GivenUp, Before, LoadSteps, Typed, Actor, NoJob
  <1> QED
    BY <1>1, <1>2, <1>3, OthersAlone, QuietKeeps DEF StepOf, Client, Actor

LEMMA FreeBufferQuiet ==
  ASSUME Typed, Places, RefsInv, NEW a \in Worker, FreeBuffer(a)
  PROVE  RefsInv'
  <1>1. Quiet
    BY DEF FreeBuffer, Quiet, Typed, shared
  <1>2. Posts(a)
    BY DEF FreeBuffer, Posts, shared
  <1>3. Moves(a)
    BY ResourceAssumption DEF FreeBuffer, Moves, Goto, At, Begins, shared, GivenUp, Before, Typed, Actor
  <1> QED
    BY <1>1, <1>2, <1>3, OthersAlone, QuietKeeps DEF StepOf, JobThread, Actor

LEMMA NotifyQuiet ==
  ASSUME Typed, Places, RefsInv, NEW a \in Worker, Notify(a)
  PROVE  RefsInv'
  <1>1. Quiet
    BY DEF Notify, Quiet, Typed, shared
  <1>2. Posts(a)
    BY DEF Notify, Posts, shared
  <1>3. Moves(a)
    BY ResourceAssumption DEF Notify, Moves, Goto, At, GivenUp, Before, Typed, Actor
  <1> QED
    BY <1>1, <1>2, <1>3, OthersAlone, QuietKeeps DEF StepOf, JobThread, Actor

LEMMA OutOfTurnQuiet ==
  ASSUME Typed, Places, RefsInv, NEW a \in Actor, OutOfTurn(a)
  PROVE  RefsInv'
  <1>1. Quiet
    BY DEF OutOfTurn, Quiet, Typed, shared
  <1>2. Posts(a)
    <2>1. job[a] \in Job
      BY JobTyped DEF OutOfTurn, At, LoadSteps
    <2>2. a \in Buffer => job[a].of = a /\ job[a].kind \in {"loadNode", "loadBuffer"}
      BY <2>1, ResourceAssumption DEF Places, Place, ClientAt, Job, NoJob, OutOfTurn, At, NodeKind, BufferKind
    <2>3. Posted(a, job[a])
      BY <2>2, ResourceAssumption DEF Posted, OutOfTurn, PostAgain, Handled, At, Before, Actor, Typed
    <2> QED
      BY <2>1, <2>3 DEF Posts, PostAgain, OutOfTurn
  <1>3. Moves(a)
    BY ResourceAssumption DEF RefsInv, Kept, OutOfTurn, Moves, Goto, Returns, At, Begins, Handled, PostAgain, shared, HoldSteps, GivenUp, Before, LoadSteps, Typed, Actor, NoJob
  <1> QED
    BY <1>1, <1>2, <1>3, OthersAlone, QuietKeeps DEF StepOf, Process, Actor

LEMMA NodeBeginQuiet ==
  ASSUME Typed, Places, RefsInv, NEW a \in Actor, NodeBegin(a)
  PROVE  RefsInv'
  <1>1. Quiet
    BY DEF NodeBegin, Quiet, Typed, shared
  <1>2. Posts(a)
    BY DEF NodeBegin, Posts, shared
  <1>3. Moves(a)
    BY ResourceAssumption DEF RefsInv, Kept, NodeBegin, Moves, Goto, Returns, At, Begins, Handled, PostAgain, shared, HoldSteps, GivenUp, Before, LoadSteps, Typed, Actor, NoJob
  <1> QED
    BY <1>1, <1>2, <1>3, OthersAlone, QuietKeeps DEF StepOf, Process, Actor

LEMMA BufferBeginQuiet ==
  ASSUME Typed, Places, RefsInv, NEW a \in Actor, BufferBegin(a)
  PROVE  RefsInv'
  <1>1. Quiet
    BY DEF BufferBegin, Quiet, Typed, shared
  <1>2. Posts(a)
    BY DEF BufferBegin, Posts, shared
  <1>3. Moves(a)
    BY ResourceAssumption DEF RefsInv, Kept, BufferBegin, Moves, Goto, Returns, At, Begins, Handled, PostAgain, shared, HoldSteps, GivenUp, Before, LoadSteps, Typed, Actor, NoJob
  <1> QED
    BY <1>1, <1>2, <1>3, OthersAlone, QuietKeeps DEF StepOf, Process, Actor

LEMMA OpenQuiet ==
  ASSUME Typed, Places, RefsInv, NEW a \in Actor, Open(a)
  PROVE  RefsInv'
  <1>0. job[a].of \in Buffer
    BY JobTyped DEF Open, At, LoadSteps
  <1>1. Quiet
    <2>1. \/ node' = node \/ node' = [node EXCEPT ![job[a].of].decoder = "lost"]
          \/ node' = [node EXCEPT ![job[a].of].known = TRUE, ![job[a].of].decoder = Carried]
      BY DEF Open, Carried
    <2>2. CASE node' = node
      BY <1>0, <2>2, QuietEdits DEF Open, Quiet, Typed
    <2>4. CASE node' = [node EXCEPT ![job[a].of].decoder = "lost"]
      BY <1>0, <2>4, QuietEdits DEF Open, Quiet, Typed
    <2>3. CASE node' = [node EXCEPT ![job[a].of].known = TRUE, ![job[a].of].decoder = Carried]
      BY <1>0, <2>3, QuietEdits DEF Open, Quiet, Typed
    <2> QED
      BY <2>1, <2>2, <2>3, <2>4
  <1>2. Posts(a)
    BY DEF Open, Posts, shared
  <1>3. Moves(a)
    BY ResourceAssumption DEF RefsInv, Kept, Open, Moves, Goto, Returns, At, Begins, Handled, PostAgain, shared, HoldSteps, GivenUp, Before, LoadSteps, Typed, Actor, NoJob
  <1> QED
    BY <1>1, <1>2, <1>3, OthersAlone, QuietKeeps DEF StepOf, Process, Actor

LEMMA DecodeQuiet ==
  ASSUME Typed, Places, RefsInv, NEW a \in Actor, Decode(a)
  PROVE  RefsInv'
  <1>0. job[a].of \in Buffer
    BY JobTyped DEF Decode, At, LoadSteps
  <1>1. Quiet
    <2>1. node' = node \/ node' = [node EXCEPT ![job[a].of].pages = node[job[a].of].pages + 1]
      BY DEF Decode
    <2>2. CASE node' = node
      BY <2>2 DEF Decode, Quiet
    <2>3. CASE node' = [node EXCEPT ![job[a].of].pages = node[job[a].of].pages + 1]
      BY <1>0, <2>3, QuietEdits DEF Decode, Quiet, Typed
    <2> QED
      BY <2>1, <2>2, <2>3
  <1>2. Posts(a)
    BY DEF Decode, Posts, shared
  <1>3. Moves(a)
    BY ResourceAssumption DEF RefsInv, Kept, Decode, Moves, Goto, Returns, At, Begins, Handled, PostAgain, shared, HoldSteps, GivenUp, Before, LoadSteps, Typed, Actor, NoJob
  <1> QED
    BY <1>1, <1>2, <1>3, OthersAlone, QuietKeeps DEF StepOf, Process, Actor

LEMMA NextPageQuiet ==
  ASSUME Typed, Places, RefsInv, NEW a \in Actor, NextPage(a)
  PROVE  RefsInv'
  <1>0. job[a].of \in Buffer
    BY JobTyped DEF NextPage, At, LoadSteps
  <1>1. Quiet
    BY <1>0, QuietEdits DEF NextPage, Quiet, Typed
  <1>2. Posts(a)
    <2> DEFINE j == [kind |-> "pageNode", of |-> job[a].of, order |-> node[job[a].of].counter]
    <2>1. j \in Job /\ j.kind = "pageNode"
      BY <1>0, Fields DEF Job, NodeKind
    <2> QED
      BY <2>1 DEF Posts, Posted, NextPage, Post
  <1>3. Moves(a)
    BY ResourceAssumption DEF RefsInv, Kept, NextPage, Moves, Goto, Returns, At, Begins, Handled, PostAgain, shared, HoldSteps, GivenUp, Before, LoadSteps, Typed, Actor, NoJob
  <1> QED
    BY <1>1, <1>2, <1>3, OthersAlone, QuietKeeps DEF StepOf, Process, Actor

LEMMA FinishQuiet ==
  ASSUME Typed, Places, RefsInv, NEW a \in Actor, Finish(a)
  PROVE  RefsInv'
  <1>0. job[a].of \in Buffer
    BY JobTyped DEF Finish, At, LoadSteps
  <1>1. Quiet
    BY <1>0, QuietEdits DEF Finish, Quiet, Typed
  <1>2. Posts(a)
    BY DEF Finish, Posts, shared
  <1>3. Moves(a)
    BY ResourceAssumption DEF RefsInv, Kept, Finish, Moves, Goto, Returns, At, Begins, Handled, PostAgain, shared, HoldSteps, GivenUp, Before, LoadSteps, Typed, Actor, NoJob
  <1> QED
    BY <1>1, <1>2, <1>3, OthersAlone, QuietKeeps DEF StepOf, Process, Actor

LEMMA FreeNodeQuiet ==
  ASSUME Typed, Places, RefsInv, NEW a \in Actor, FreeNode(a)
  PROVE  RefsInv'
  <1>0. a \in Worker /\ job[a].of \in Buffer /\ Gone(job[a].of)
    <2>1. job[a].of \in Buffer
      BY JobTyped DEF FreeNode, Begins, At, LoadSteps
    <2>2. a \in Worker
      BY DEF Places, Place, ClientAt, FreeNode, Begins, Actor, NoJob
    <2> QED
      BY <2>1, <2>2 DEF RefsInv, Unheld, FreeNode, Begins
  <1>1. Quiet
    BY <1>0, QuietEdits DEF FreeNode, Quiet, Typed
  <1>2. Posts(a)
    BY DEF FreeNode, Posts, shared
  <1>3. Moves(a)
    BY <1>0, ResourceAssumption DEF RefsInv, Kept, FreeNode, Moves, Goto, Returns, At, Begins, Handled, PostAgain, shared, HoldSteps, GivenUp, Before, LoadSteps, Typed, Actor, NoJob
  <1> QED
    BY <1>1, <1>2, <1>3, OthersAlone, QuietKeeps DEF StepOf, Process, Actor

LEMMA ConnectQuiet ==
  ASSUME Typed, Places, RefsInv, NEW a \in Actor, Connect(a)
  PROVE  RefsInv'
  <1>0. job[a].of \in Buffer
    BY JobTyped DEF Connect, At, LoadSteps
  <1>1. Quiet
    <2>1. buffer' = buffer \/ buffer' = [buffer EXCEPT ![job[a].of].connector = TRUE]
      BY DEF Connect
    <2>2. CASE buffer' = buffer
      BY <2>2 DEF Connect, Quiet
    <2>3. CASE buffer' = [buffer EXCEPT ![job[a].of].connector = TRUE]
      BY <1>0, <2>3, QuietEdits DEF Connect, Quiet, Typed
    <2> QED
      BY <2>1, <2>2, <2>3
  <1>2. Posts(a)
    BY DEF Connect, Posts, shared
  <1>3. Moves(a)
    BY ResourceAssumption DEF RefsInv, Kept, Connect, Moves, Goto, Returns, At, Begins, Handled, PostAgain, shared, HoldSteps, GivenUp, Before, LoadSteps, Typed, Actor, NoJob
  <1> QED
    BY <1>1, <1>2, <1>3, OthersAlone, QuietKeeps DEF StepOf, Process, Actor

LEMMA LookQuiet ==
  ASSUME Typed, Places, RefsInv, NEW a \in Actor, Look(a)
  PROVE  RefsInv'
  <1>1. Quiet
    BY DEF Look, Quiet, Typed, shared
  <1>2. Posts(a)
    <2>1. CASE queue' = queue
      BY <2>1 DEF Posts
    <2>2. CASE PostAgain(a)
      <3>1. job[a] \in Job /\ job[a].kind = "loadBuffer"
        BY JobTyped DEF Look, At, LoadSteps, Places, Place, HandlerAt
      <3>2. pc[job[a].of] \notin Before
        <4>1. CASE a \in Worker
          BY <3>1, <4>1 DEF RefsInv, Named
        <4>2. CASE a \in Buffer
          BY <3>1, <4>2 DEF Places, Place, ClientAt, NoJob, Look, At, Before
        <4> QED
          BY <4>1, <4>2 DEF Actor
      <3> QED
        BY <2>2, <3>1, <3>2 DEF Posts, Posted, PostAgain
    <2> QED
      BY <2>1, <2>2 DEF Look
  <1>3. Moves(a)
    BY ResourceAssumption DEF RefsInv, Kept, Look, Moves, Goto, Returns, At, Begins, Handled, PostAgain, shared, HoldSteps, GivenUp, Before, LoadSteps, Typed, Actor, NoJob
  <1> QED
    BY <1>1, <1>2, <1>3, OthersAlone, QuietKeeps DEF StepOf, Process, Actor

LEMMA PublishQuiet ==
  ASSUME Typed, Places, RefsInv, NEW a \in Actor, Publish(a)
  PROVE  RefsInv'
  <1>0. job[a].of \in Buffer
    BY JobTyped DEF Publish, At, LoadSteps
  <1>1. Quiet
    <2> DEFINE x == job[a].of
               v == IF buffer[x].result = "busy" THEN res[a] ELSE buffer[x].result
               w == IF node[x].result = "busy" THEN res[a] ELSE node[x].result
    <2>1. \/ buffer' = [buffer EXCEPT ![x].result = v] /\ node' = node
          \/ node' = [node EXCEPT ![x].result = w] /\ buffer' = buffer
      BY DEF Publish
    <2>2. tree' = tree
      BY DEF Publish
    <2> HIDE DEF v, w
    <2>3. CASE buffer' = [buffer EXCEPT ![x].result = v] /\ node' = node
      BY <1>0, <2>2, <2>3, QuietEdits DEF Quiet, Typed
    <2>4. CASE node' = [node EXCEPT ![x].result = w] /\ buffer' = buffer
      BY <1>0, <2>2, <2>4, QuietEdits DEF Quiet, Typed
    <2> QED
      BY <2>1, <2>3, <2>4
  <1>2. Posts(a)
    BY DEF Publish, Posts, shared
  <1>3. Moves(a)
    BY ResourceAssumption DEF RefsInv, Kept, Publish, Moves, Goto, Returns, At, Begins, Handled, PostAgain, shared, HoldSteps, GivenUp, Before, LoadSteps, Typed, Actor, NoJob
  <1> QED
    BY <1>1, <1>2, <1>3, OthersAlone, QuietKeeps DEF StepOf, Process, Actor

LEMMA FencesQuiet ==
  ASSUME Typed, Places, RefsInv, NEW a \in Actor, Fences(a)
  PROVE  RefsInv'
  <1>1. Quiet
    BY DEF Fences, Quiet, Typed, shared
  <1>2. Posts(a)
    BY DEF Fences, Posts, shared
  <1>3. Moves(a)
    BY ResourceAssumption DEF RefsInv, Kept, Fences, Moves, Goto, Returns, At, Begins, Handled, PostAgain, shared, HoldSteps, GivenUp, Before, LoadSteps, Typed, Actor, NoJob
  <1> QED
    BY <1>1, <1>2, <1>3, OthersAlone, QuietKeeps DEF StepOf, Process, Actor

LEMMA AdvanceQuiet ==
  ASSUME Typed, Places, RefsInv, NEW a \in Actor, Advance(a)
  PROVE  RefsInv'
  <1>0. job[a].of \in Buffer
    BY JobTyped DEF Advance, At
  <1>1. Quiet
    <2> DEFINE x == job[a].of
    <2>1. \/ buffer' = [buffer EXCEPT ![x].pointer = buffer[x].pointer + 1] /\ node' = node
          \/ node' = [node EXCEPT ![x].pointer = node[x].pointer + 1] /\ buffer' = buffer
      BY DEF Advance
    <2>2. tree' = tree
      BY DEF Advance
    <2>3. CASE buffer' = [buffer EXCEPT ![x].pointer = buffer[x].pointer + 1] /\ node' = node
      BY <1>0, <2>2, <2>3, QuietEdits DEF Quiet, Typed
    <2>4. CASE node' = [node EXCEPT ![x].pointer = node[x].pointer + 1] /\ buffer' = buffer
      BY <1>0, <2>2, <2>4, QuietEdits DEF Quiet, Typed
    <2> QED
      BY <2>1, <2>3, <2>4
  <1>2. Posts(a)
    BY DEF Advance, Posts, shared
  <1>3. Moves(a)
    BY ResourceAssumption DEF RefsInv, Kept, Advance, Moves, Goto, Returns, At, Begins, Handled, PostAgain, shared, HoldSteps, GivenUp, Before, LoadSteps, Typed, Actor, NoJob
  <1> QED
    BY <1>1, <1>2, <1>3, OthersAlone, QuietKeeps DEF StepOf, Process, Actor

LEMMA DropQuiet ==
  ASSUME Typed, Places, RefsInv, NEW a \in Actor, Drop(a)
  PROVE  RefsInv'
  <1>0. NodeOf(a) \in Buffer /\ Gone(NodeOf(a))
    BY DEF RefsInv, Unheld, Drop, At
  <1>1. Quiet
    <2>1. node' = node \/ node' = [node EXCEPT ![NodeOf(a)].state = "freed"]
      BY DEF Drop
    <2>2. CASE node' = node
      BY <2>2 DEF Drop, Quiet
    <2>3. CASE node' = [node EXCEPT ![NodeOf(a)].state = "freed"]
      BY <1>0, <2>3, QuietEdits DEF Drop, Quiet, Typed
    <2> QED
      BY <2>1, <2>2, <2>3
  <1>2. Posts(a)
    BY DEF Drop, Posts, shared
  <1>3. Moves(a)
    BY ResourceAssumption DEF RefsInv, Kept, Drop, AfterUnacquire, Moves, Goto, Returns, At, Begins, Handled, PostAgain, shared, HoldSteps, GivenUp, Before, LoadSteps, Typed, Actor, NoJob
  <1> QED
    BY <1>1, <1>2, <1>3, OthersAlone, QuietKeeps DEF StepOf, Process, Actor

LEMMA AbandonQuiet ==
  ASSUME Typed, Places, RefsInv, NEW a \in Actor, Abandon(a)
  PROVE  RefsInv'
  <1>0. NodeOf(a) \in Buffer /\ Gone(NodeOf(a))
    BY DEF RefsInv, Unheld, Abandon, At
  <1>1. Quiet
    BY <1>0, QuietEdits DEF Abandon, Quiet, Typed
  <1>2. Posts(a)
    <2> DEFINE j == [kind |-> "freeNode", of |-> NodeOf(a), order |-> node[NodeOf(a)].counter]
    <2>1. j \in Job /\ j.kind = "freeNode" /\ j.of = NodeOf(a)
      BY <1>0, Fields DEF Job, NodeKind
    <2> QED
      BY <1>0, <2>1 DEF Posts, Posted, Abandon, Post
  <1>3. Moves(a)
    BY ResourceAssumption DEF RefsInv, Kept, Abandon, AfterUnacquire, Moves, Goto, Returns, At, Begins, Handled, PostAgain, shared, HoldSteps, GivenUp, Before, LoadSteps, Typed, Actor, NoJob
  <1> QED
    BY <1>1, <1>2, <1>3, OthersAlone, QuietKeeps DEF StepOf, Process, Actor

\* A job thread takes the first job
LEMMA TakeKeeps ==
  ASSUME Typed, Places, RefsInv, NEW w \in Worker, Take(w)
  PROVE  RefsInv'
  <1> USE ResourceAssumption DEF RefsInv
  <1>1. /\ 1 \in DOMAIN queue /\ job'[w] = queue[1] /\ pc'[w] = "begin"
        /\ \A i \in DOMAIN queue' : i \in Nat \ {0} /\ i + 1 \in DOMAIN queue /\ queue'[i] = queue[i + 1]
    BY TailAt DEF Take, Goto, Typed, Actor
  <1>2. \A c \in Actor \ {w} : pc'[c] = pc[c] /\ job'[c] = job[c]
    BY DEF Take, Goto, Typed, Actor
  <1>3. \A b \in Buffer : pc'[b] = pc[b] /\ job'[b] = job[b]
    BY <1>2 DEF Actor
  <1>4. tree' = tree /\ lock' = lock /\ node' = node /\ buffer' = buffer
    BY DEF Take
  <1>q. /\ \A i \in DOMAIN queue : queue[i].of \in Buffer
        /\ \A v \in Worker : job[v].kind \in {"freeBuffer", "freeNode", "loadBuffer"} => job[v].of \in Buffer
    BY QueuedTyped DEF Actor, NodeKind, BufferKind
  <1>5. Named'
    BY <1>1, <1>2, <1>3, <1>4, <1>q DEF Named, Actor
  <1>6. Fresh' /\ Kept' /\ HolderServed'
    BY <1>3, <1>4 DEF Fresh, Kept, HolderServed
  <1>7. Given'
    <2>1. \A i \in DOMAIN queue' : queue'[i].kind = "freeBuffer" =>
             buffer'[queue'[i].of].holds /\ pc'[queue'[i].of] \in GivenUp
      BY <1>1, <1>3, <1>4, <1>q DEF Given
    <2>2. \A v \in Worker : job'[v].kind = "freeBuffer" =>
            /\ pc'[job'[v].of] \in GivenUp
            /\ pc'[v] \in {"begin", "unacquire"} => buffer'[job'[v].of].holds
      BY <1>1, <1>2, <1>3, <1>4, <1>q DEF Given, Actor
    <2> QED
      BY <2>1, <2>2 DEF Given
  <1>8. GivenOnce'
    <2>1. \A i, j \in DOMAIN queue' :
            queue'[i].kind = "freeBuffer" /\ queue'[j].kind = "freeBuffer" /\ queue'[i].of = queue'[j].of => i = j
      <3>1. ASSUME NEW i \in DOMAIN queue', NEW j \in DOMAIN queue', queue'[i].kind = "freeBuffer",
                   queue'[j].kind = "freeBuffer", queue'[i].of = queue'[j].of
            PROVE  i = j
        <4>1. i + 1 = j + 1
          BY <1>1, <3>1 DEF GivenOnce
        <4> QED
          BY <1>1, <4>1
      <3> QED
        BY <3>1
    <2>2. \A i \in DOMAIN queue' : queue'[i].kind = "freeBuffer" /\ queue[1].kind = "freeBuffer" =>
            queue'[i].of # queue[1].of
      <3>1. ASSUME NEW i \in DOMAIN queue', queue'[i].kind = "freeBuffer", queue[1].kind = "freeBuffer",
                   queue'[i].of = queue[1].of
            PROVE  FALSE
        <4>1. i + 1 = 1
          BY <1>1, <3>1 DEF GivenOnce
        <4> QED
          BY <1>1, <4>1
      <3> QED
        BY <3>1
    <2>3. \A v, u \in Worker :
            job'[v].kind = "freeBuffer" /\ job'[u].kind = "freeBuffer" /\ job'[v].of = job'[u].of => v = u
      BY <1>1, <1>2 DEF GivenOnce, Actor
    <2>4. \A i \in DOMAIN queue', v \in Worker :
            queue'[i].kind = "freeBuffer" /\ job'[v].kind = "freeBuffer" => queue'[i].of # job'[v].of
      BY <1>1, <1>2, <2>2 DEF GivenOnce, Actor
    <2> QED
      BY <2>1, <2>3, <2>4 DEF GivenOnce
  <1>9. Unheld'
    <2>1. \A i \in DOMAIN queue' : queue'[i].kind = "freeNode" => GoneNext(queue'[i].of)
      BY <1>1, <1>4 DEF Unheld, Gone, GoneNext
    <2>2. \A v \in Worker : job'[v].kind = "freeNode" => GoneNext(job'[v].of)
      BY <1>1, <1>2, <1>4 DEF Unheld, Gone, GoneNext, Actor
    <2>3. ASSUME NEW c \in Actor, pc'[c] \in {"drop", "abandon"}
          PROVE  NodeOf(c)' \in Buffer /\ Gone(NodeOf(c))'
      <3>1. c # w
        BY <1>1, <2>3
      <3> QED
        BY <1>2, <1>4, <2>3, <3>1 DEF Unheld, NodeOf, Of, Gone
    <2> QED
      BY <2>1, <2>2, <2>3 DEF Unheld, Gone, GoneNext
  <1>10. Locked' /\ RefsExact'
    BY <1>3, <1>4 DEF Locked, RefsExact, Holds
  <1> QED
    BY <1>5, <1>6, <1>7, <1>8, <1>9, <1>10

\* A thread finds the node in the tree
LEMMA AcquireOldKeeps ==
  ASSUME Typed, Places, RefsInv, NEW b \in Buffer, AcquireOld(b)
  PROVE  RefsInv'
  <1> USE ResourceAssumption DEF RefsInv
  <1>1. /\ tree \in Buffer /\ node[tree].state = "live" /\ node[tree].refs \in Nat \ {0}
        /\ pc[b] = "acquire" /\ ~buffer[b].holds /\ lock = Nobody
    <2>1. tree \in Buffer /\ pc[b] = "acquire" /\ lock = Nobody
      BY DEF AcquireOld, Typed, At
    <2>2. node[tree].state = "live" /\ node[tree].refs > 0
      BY <2>1 DEF RefsExact
    <2>3. node[tree].refs \in Nat
      BY <2>1, Fields
    <2>4. ~buffer[b].holds
      BY <2>1 DEF Fresh, Before
    <2> QED
      BY <2>1, <2>2, <2>3, <2>4
  <1>2. /\ \A n \in Buffer : /\ node'[n].state = node[n].state
                             /\ node'[n].refs = IF n = tree THEN node[n].refs + 1 ELSE node[n].refs
        /\ \A c \in Buffer : c # b => buffer'[c] = buffer[c]
        /\ buffer'[b].node = tree /\ buffer'[b].holds
    BY <1>1 DEF AcquireOld, Typed, NodeT, BufferT
  <1>3. /\ \A c \in Actor : c # b => pc'[c] = pc[c]
        /\ pc'[b] = "check" /\ job' = job /\ queue' = queue /\ tree' = tree /\ lock' = lock
    BY DEF AcquireOld, Typed, Goto, Actor
  <1>q. /\ \A i \in DOMAIN queue : queue[i].of \in Buffer
        /\ \A w \in Worker : job[w].kind \in {"freeBuffer", "freeNode", "loadBuffer"} => job[w].of \in Buffer
    BY QueuedTyped DEF Actor, NodeKind, BufferKind
  <1>4. Named'
    BY <1>1, <1>2, <1>3, <1>q DEF Named, Actor, Before
  <1>5. Fresh' /\ Kept'
    BY <1>2, <1>3 DEF Fresh, Kept, Actor, Before
  <1>6. HolderServed'
    BY <1>1, <1>2 DEF HolderServed
  <1>7. Given' /\ GivenOnce'
    BY <1>1, <1>2, <1>3, <1>q DEF Given, GivenOnce, GivenUp, Actor
  <1>8. Unheld'
    <2>1. \A n \in Buffer : Gone(n) => Gone(n)'
      BY <1>1, <1>2 DEF Gone
    <2>2. \A i \in DOMAIN queue' : queue'[i].kind = "freeNode" => GoneNext(queue'[i].of)
      BY <1>2, <1>3, <1>q, <1>1 DEF Unheld, Gone, GoneNext
    <2>3. \A w \in Worker : job'[w].kind = "freeNode" => GoneNext(job'[w].of)
      BY <1>2, <1>3, <1>q, <1>1 DEF Unheld, Gone, GoneNext
    <2>4. ASSUME NEW a \in Actor, pc'[a] \in {"drop", "abandon"}
          PROVE  NodeOf(a)' \in Buffer /\ Gone(NodeOf(a))'
      <3>1. a # b /\ pc[a] \in {"drop", "abandon"}
        BY <1>3, <2>4
      <3>2. Of(a)' = Of(a) /\ Of(a) # b
        <4>1. CASE a \in Buffer
          BY <3>1, <4>1 DEF Of
        <4>2. CASE a \in Worker
          BY <1>1, <1>3, <3>1, <4>2 DEF Of, Places, Place, WorkerAt, UnacquireSteps, Given, GivenUp
        <4> QED
          BY <4>1, <4>2 DEF Actor
      <3>3. Of(a) \in Buffer
        BY <3>1, JobTyped DEF UnacquireSteps
      <3>4. NodeOf(a)' = NodeOf(a)
        BY <1>2, <3>2, <3>3 DEF NodeOf
      <3>5. NodeOf(a) \in Buffer /\ Gone(NodeOf(a))
        BY <3>1 DEF Unheld
      <3> QED
        BY <1>1, <1>2, <3>4, <3>5 DEF Gone
    <2> QED
      BY <2>2, <2>3, <2>4 DEF Unheld, Gone, GoneNext
  <1>9. Locked'
    BY <1>1, <1>3 DEF Locked
  <1>10. RefsExact'
    <2>1. Holders(tree)' = Holders(tree) \cup {b} /\ b \notin Holders(tree)
      BY <1>1, <1>2, <1>3 DEF Holders, Holds
    <2>2. \A n \in Buffer : n # tree => Holders(n)' = Holders(n)
      BY <1>1, <1>2 DEF Holders, Holds
    <2>3. Cardinality(Holders(tree)') = node[tree].refs + 1
      <3>1. node[tree].refs = Cardinality(Holders(tree))
        BY <1>1 DEF RefsExact, Holders
      <3>2. IsFiniteSet(Holders(tree))
        BY HoldersFinite
      <3> QED
        BY <2>1, <3>1, <3>2, FS_AddElement
    <2>4. \A n \in Buffer : Cardinality(Holders(n)') = Cardinality({c \in Buffer : Holds(c, n)'})
      BY DEF Holders
    <2>5. (tree = tree <=> node[tree].state = "live" /\ node[tree].refs > 0)'
      BY <1>1, <1>2, <1>3
    <2>6. ASSUME NEW n \in Buffer
          PROVE  /\ (tree = n <=> node[n].state = "live" /\ node[n].refs > 0)'
                 /\ (node[n].state = "live" => node[n].refs = Cardinality({c \in Buffer : Holds(c, n)}))'
      <3>1. CASE n = tree
        <4>1. node'[n].refs = node[n].refs + 1 /\ node'[n].state = "live" /\ tree' = n
          BY <1>1, <1>2, <1>3, <3>1
        <4>2. node'[n].refs = Cardinality({c \in Buffer : Holds(c, n)'})
          BY <2>3, <2>4, <3>1, <4>1
        <4> QED
          BY <1>1, <3>1, <4>1, <4>2
      <3>2. CASE n # tree
        <4>1. Cardinality({c \in Buffer : Holds(c, n)'}) = Cardinality({c \in Buffer : Holds(c, n)})
          BY <2>2, <2>4, <3>2 DEF Holders
        <4>2. node'[n].refs = node[n].refs /\ node'[n].state = node[n].state /\ tree' = tree
          BY <1>2, <1>3, <3>2
        <4>3. /\ tree = n <=> node[n].state = "live" /\ node[n].refs > 0
              /\ node[n].state = "live" => node[n].refs = Cardinality({c \in Buffer : Holds(c, n)})
          BY DEF RefsExact
        <4> QED
          BY <4>1, <4>2, <4>3
      <3> QED
        BY <3>1, <3>2
    <2> QED
      BY <2>6 DEF RefsExact
  <1> QED
    BY <1>4, <1>5, <1>6, <1>7, <1>8, <1>9, <1>10

\* A thread makes the node
LEMMA AcquireNewKeeps ==
  ASSUME Typed, Places, RefsInv, NEW b \in Buffer, AcquireNew(b)
  PROVE  RefsInv'
  <1> USE ResourceAssumption DEF RefsInv
  <1>1. /\ tree = Nobody /\ lock = Nobody /\ pc[b] = "acquire"
        /\ ~buffer[b].holds /\ node[b].state = "none" /\ job[b] = NoJob
    BY DEF AcquireNew, At, Fresh, Before, Places, Place, ClientAt, Actor, LoadSteps
  <1>2. /\ tree' = b
        /\ \A n \in Buffer : n # b => node'[n] = node[n]
        /\ node'[b].state = "live" /\ node'[b].refs = 1
        /\ \A c \in Buffer : c # b => buffer'[c] = buffer[c]
        /\ buffer'[b].node = b /\ buffer'[b].holds
    BY DEF AcquireNew, Typed, NodeT, BufferT, NewNode
  <1>3. pc'[b] \in {"begin", "check"} /\ \A c \in Actor : c # b => pc'[c] = pc[c] /\ job'[c] = job[c]
    BY DEF AcquireNew, Typed, Goto, Actor
  <1>4. \/ job'[b] = NoJob /\ lock' = Nobody
        \/ job'[b].kind = "loadNode" /\ lock' = b
    BY <1>1 DEF AcquireNew, Typed, Actor
  <1>5. \A i \in DOMAIN queue' :
          \/ i \in DOMAIN queue /\ queue'[i] = queue[i]
          \/ queue'[i].kind = "loadNode"
    <2>1. CASE queue' = queue
      BY <2>1
    <2>2. CASE Post("loadNode", b, 0)
      <3> DEFINE j == [kind |-> "loadNode", of |-> b, order |-> 0]
      <3>1. j \in Job /\ j.kind = "loadNode" /\ queue' = Append(queue, j)
        BY <2>2 DEF Job, NodeKind, Post
      <3> QED
        BY <3>1, AppendAt
    <2> QED
      BY <2>1, <2>2 DEF AcquireNew
  <1>q. /\ \A i \in DOMAIN queue : queue[i].of \in Buffer
        /\ \A w \in Worker : job[w].kind \in {"freeBuffer", "freeNode", "loadBuffer"} => job[w].of \in Buffer
    BY QueuedTyped DEF Actor, NodeKind, BufferKind
  <1>w. \A w \in Worker : job'[w] = job[w] /\ pc'[w] = pc[w]
    BY <1>3 DEF Actor
  <1>b. \A c \in Buffer : c # b => job'[c] = job[c] /\ pc'[c] = pc[c]
    BY <1>3 DEF Actor
  <1>6. Named'
    BY <1>1, <1>2, <1>3, <1>5, <1>b, <1>w, <1>q DEF Named, Before
  <1>7. Fresh' /\ Kept'
    BY <1>2, <1>3, <1>b DEF Fresh, Kept, Before
  <1>8. HolderServed'
    BY <1>1, <1>2 DEF HolderServed
  <1>9. Given' /\ GivenOnce'
    <2>1. Given'
      BY <1>1, <1>2, <1>5, <1>b, <1>w, <1>q DEF Given, GivenUp
    <2>2. GivenOnce'
      BY <1>5, <1>w DEF GivenOnce
    <2> QED
      BY <2>1, <2>2
  <1>10. Unheld'
    <2>1. \A n \in Buffer : Gone(n) => GoneNext(n)
      BY <1>1, <1>2 DEF Gone, GoneNext
    <2>2. \A i \in DOMAIN queue' : queue'[i].kind = "freeNode" => GoneNext(queue'[i].of)
      BY <1>5, <1>q, <2>1 DEF Unheld
    <2>3. \A w \in Worker : job'[w].kind = "freeNode" => GoneNext(job'[w].of)
      BY <1>w, <1>q, <2>1 DEF Unheld
    <2>4. ASSUME NEW a \in Actor, pc'[a] \in {"drop", "abandon"}
          PROVE  NodeOf(a)' \in Buffer /\ Gone(NodeOf(a))'
      <3>1. a # b /\ pc[a] \in {"drop", "abandon"}
        BY <1>3, <2>4
      <3>2. Of(a)' = Of(a) /\ Of(a) # b
        <4>1. CASE a \in Buffer
          BY <3>1, <4>1 DEF Of
        <4>2. CASE a \in Worker
          BY <1>1, <1>w, <3>1, <4>2 DEF Of, Places, Place, WorkerAt, UnacquireSteps, Given, GivenUp, Actor
        <4> QED
          BY <4>1, <4>2 DEF Actor
      <3>3. Of(a) \in Buffer
        BY <3>1, JobTyped DEF UnacquireSteps
      <3>4. NodeOf(a)' = NodeOf(a)
        BY <1>2, <3>2, <3>3 DEF NodeOf
      <3>5. NodeOf(a) \in Buffer /\ Gone(NodeOf(a))
        BY <3>1 DEF Unheld
      <3> QED
        BY <2>1, <3>4, <3>5 DEF Gone, GoneNext
    <2> QED
      BY <2>2, <2>3, <2>4 DEF Unheld, Gone, GoneNext
  <1>11. Locked'
    <2>1. \A c \in Buffer : c # b => job'[c].kind # "loadNode"
      BY <1>1, <1>b DEF Locked
    <2>2. job'[b].kind = "loadNode" => lock' = b
      BY <1>4 DEF NoJob
    <2> QED
      BY <1>2, <2>1, <2>2 DEF Locked
  <1>12. RefsExact'
    <2>1. {c \in Buffer : Holds(c, b)'} = {b}
      BY <1>1, <1>2 DEF Holds, HolderServed
    <2>2. Cardinality({b}) = 1
      BY FS_Singleton
    <2>3. ASSUME NEW n \in Buffer, n # b
          PROVE  /\ (tree = n <=> node[n].state = "live" /\ node[n].refs > 0)'
                 /\ (node[n].state = "live" => node[n].refs = Cardinality({c \in Buffer : Holds(c, n)}))'
      <3>1. {c \in Buffer : Holds(c, n)'} = {c \in Buffer : Holds(c, n)}
        BY <1>1, <1>2, <2>3 DEF Holds
      <3>2. /\ tree = n <=> node[n].state = "live" /\ node[n].refs > 0
            /\ node[n].state = "live" => node[n].refs = Cardinality({c \in Buffer : Holds(c, n)})
        BY DEF RefsExact
      <3> QED
        BY <1>1, <1>2, <2>3, <3>1, <3>2
    <2>4. /\ (tree = b <=> node[b].state = "live" /\ node[b].refs > 0)'
          /\ (node[b].state = "live" => node[b].refs = Cardinality({c \in Buffer : Holds(c, b)}))'
      BY <1>2, <2>1, <2>2
    <2> QED
      BY <2>3, <2>4 DEF RefsExact
  <1> QED
    BY <1>6, <1>7, <1>8, <1>9, <1>10, <1>11, <1>12

\* ... and takes it back if it could not load it: nobody else has found it
LEMMA AcquireBackKeeps ==
  ASSUME Typed, Places, RefsInv, NEW b \in Buffer, AcquireBack(b)
  PROVE  RefsInv'
  <1> USE ResourceAssumption DEF RefsInv
  <1>1. /\ job[b].kind = "loadNode" /\ lock = b /\ node[b].refs = 1 /\ node[b].state = "live"
        /\ buffer[b].node = b /\ buffer[b].holds /\ pc[b] = "back" /\ tree = b
    <2>1. /\ job[b].kind = "loadNode" /\ lock = b /\ node[b].refs = 1 /\ node[b].state = "live"
          /\ buffer[b].node = b /\ pc[b] = "back"
      BY DEF AcquireBack, At, Locked
    <2>2. buffer[b].holds
      BY <2>1 DEF Kept, HoldSteps
    <2>3. tree = b <=> node[b].state = "live" /\ node[b].refs > 0
      BY DEF RefsExact
    <2> QED
      BY <2>1, <2>2, <2>3
  <1>2. /\ pc'[b] \in {"check", "release"} /\ job'[b] = NoJob /\ lock' = Nobody /\ queue' = queue
        /\ \A c \in Actor : c # b => pc'[c] = pc[c] /\ job'[c] = job[c]
    BY DEF AcquireBack, Typed, Goto, Actor
  <1>3. CASE res[b] \in {"success", "busy"}
    <2>1. Quiet
      BY <1>3 DEF AcquireBack, Quiet
    <2>2. Moves(b)
      BY <1>1, <1>2 DEF Moves, HoldSteps, LoadSteps, GivenUp, Before
    <2> QED
      BY <1>2, <2>1, <2>2, OthersAlone, QuietKeeps DEF Posts, StepOf, Client, Actor
  <1>4. CASE res[b] \notin {"success", "busy"}
    <2>1. /\ tree' = Nobody /\ pc'[b] = "release"
          /\ node'[b].state = "freed" /\ node'[b].refs = 1
          /\ \A n \in Buffer : n # b => node'[n] = node[n]
          /\ ~buffer'[b].holds /\ buffer'[b].node = b
          /\ \A c \in Buffer : c # b => buffer'[c] = buffer[c]
      BY <1>1, <1>4 DEF AcquireBack, Typed, NodeT, BufferT, Goto, Actor
    <2>2. \A c \in Buffer : Holds(c, b) => c = b
      <3>1. Cardinality(Holders(b)) = 1 /\ b \in Holders(b)
        BY <1>1 DEF RefsExact, Holders, Holds
      <3>2. IsFiniteSet(Holders(b))
        BY HoldersFinite
      <3>3. IsFiniteSet(Holders(b) \ {b}) /\ Cardinality(Holders(b) \ {b}) = 1 - 1
        BY <3>1, <3>2, FS_RemoveElement
      <3>4. Holders(b) \ {b} = {}
        BY <3>3, FS_EmptySet
      <3> QED
        BY <3>4 DEF Holders
    <2>q. /\ \A i \in DOMAIN queue : queue[i].of \in Buffer
          /\ \A w \in Worker : job[w].kind \in {"freeBuffer", "freeNode", "loadBuffer"} => job[w].of \in Buffer
      BY QueuedTyped DEF Actor, NodeKind, BufferKind
    <2>w. \A w \in Worker : job'[w] = job[w] /\ pc'[w] = pc[w]
      BY <1>2 DEF Actor
    <2>b. \A c \in Buffer : c # b => job'[c] = job[c] /\ pc'[c] = pc[c]
      BY <1>2 DEF Actor
    <2>3. Named'
      BY <1>1, <1>2, <2>1, <2>b, <2>w, <2>q DEF Named, Before
    <2>4. Fresh' /\ Kept'
      BY <2>1, <2>b DEF Fresh, Kept, Before, HoldSteps, LoadSteps
    <2>5. HolderServed'
      BY <2>1, <2>2 DEF HolderServed, Holds
    <2>6. Given' /\ GivenOnce'
      BY <1>1, <1>2, <2>1, <2>b, <2>w, <2>q DEF Given, GivenOnce, GivenUp
    <2>7. Unheld'
      <3>1. \A n \in Buffer : Gone(n) => GoneNext(n)
        BY <1>1, <2>1 DEF Gone, GoneNext
      <3>2. \A i \in DOMAIN queue' : queue'[i].kind = "freeNode" => GoneNext(queue'[i].of)
        BY <1>2, <2>q, <3>1 DEF Unheld
      <3>3. \A w \in Worker : job'[w].kind = "freeNode" => GoneNext(job'[w].of)
        BY <2>w, <2>q, <3>1 DEF Unheld
      <3>4. ASSUME NEW a \in Actor, pc'[a] \in {"drop", "abandon"}
            PROVE  NodeOf(a)' \in Buffer /\ Gone(NodeOf(a))'
        <4>1. a # b /\ pc[a] \in {"drop", "abandon"} /\ job'[a] = job[a]
          BY <1>2, <2>1, <3>4
        <4>2. Of(a)' = Of(a) /\ Of(a) \in Buffer
          BY <4>1, JobTyped DEF Of, UnacquireSteps
        <4>3. NodeOf(a)' = NodeOf(a)
          BY <1>1, <2>1, <4>2 DEF NodeOf
        <4> QED
          BY <3>1, <4>1, <4>3 DEF Unheld, Gone, GoneNext
      <3> QED
        BY <3>2, <3>3, <3>4 DEF Unheld, Gone, GoneNext
    <2>8. Locked'
      BY <1>1, <1>2, <2>b DEF Locked, NoJob
    <2>9. RefsExact'
      <3>1. ASSUME NEW n \in Buffer, n # b
            PROVE  /\ (tree = n <=> node[n].state = "live" /\ node[n].refs > 0)'
                   /\ (node[n].state = "live" => node[n].refs = Cardinality({c \in Buffer : Holds(c, n)}))'
        <4>1. {c \in Buffer : Holds(c, n)'} = {c \in Buffer : Holds(c, n)}
          BY <1>1, <2>1, <3>1 DEF Holds
        <4>2. /\ tree = n <=> node[n].state = "live" /\ node[n].refs > 0
              /\ node[n].state = "live" => node[n].refs = Cardinality({c \in Buffer : Holds(c, n)})
          BY DEF RefsExact
        <4> QED
          BY <1>1, <2>1, <3>1, <4>1, <4>2
      <3> QED
        BY <2>1, <3>1 DEF RefsExact
    <2> QED
      BY <2>3, <2>4, <2>5, <2>6, <2>7, <2>8, <2>9
  <1> QED
    BY <1>3, <1>4

\* A reference is given back
LEMMA UnacquireKeeps ==
  ASSUME Typed, Places, RefsInv, NEW a \in Actor, Unacquire(a)
  PROVE  RefsInv'
  <1> USE ResourceAssumption
  <1>0. PICK x \in Buffer, n \in Buffer : x = Of(a) /\ n = NodeOf(a)
    BY JobTyped, NodeOfTyped DEF Unacquire, At, UnacquireSteps
  <1>1. /\ x \in Buffer /\ n \in Buffer /\ buffer[x].node = n /\ buffer[x].holds
        /\ x \in Holders(n) /\ node[n].state = "live" /\ node[n].refs = Cardinality(Holders(n))
        /\ node[n].refs \in Nat \ {0}
    <2>1. buffer[x].holds /\ buffer[x].node = n
      BY <1>0, HoldersCounted DEF Holders, Holds
    <2> QED
      BY <1>0, <2>1, HoldersCounted, Fields
  <1>2. pc[a] = "unacquire" /\ lock = Nobody
    BY DEF Unacquire, At
  <1>c. a \in Buffer => x = a
    BY <1>0 DEF Of
  <1>k. a \in Worker => job[a].kind = "freeBuffer" /\ x = job[a].of /\ pc[x] \in GivenUp
    BY <1>0, <1>2 DEF Of, Places, Place, WorkerAt, UnacquireSteps, Actor, RefsInv, Given
  <1>3. /\ \A m \in Buffer : /\ node'[m].state = node[m].state
                             /\ node'[m].refs = IF m = n THEN node[m].refs - 1 ELSE node[m].refs
        /\ \A b \in Buffer : /\ buffer'[b].node = buffer[b].node
                             /\ b # x => buffer'[b].holds = buffer[b].holds
        /\ ~buffer'[x].holds
    <2>1. node' = [node EXCEPT ![n].refs = node[n].refs - 1] /\ buffer' = [buffer EXCEPT ![x].holds = FALSE]
      BY <1>0 DEF Unacquire
    <2>2. \A m \in Buffer : /\ node'[m].state = node[m].state
                            /\ node'[m].refs = IF m = n THEN node[m].refs - 1 ELSE node[m].refs
      BY <1>1, <2>1 DEF Typed, NodeT
    <2>3. \A b \in Buffer : /\ buffer'[b].node = buffer[b].node
                            /\ b # x => buffer'[b].holds = buffer[b].holds
      BY <1>1, <2>1 DEF Typed, BufferT
    <2>4. ~buffer'[x].holds
      BY <1>1, <2>1 DEF Typed, BufferT
    <2> QED
      BY <2>2, <2>3, <2>4
  <1>4. /\ job' = job /\ lock' = lock /\ queue' = queue
        /\ \A c \in Actor : c # a => pc'[c] = pc[c]
    BY DEF Unacquire, Typed, Goto, Actor
  <1>5. \/ node[n].refs = 1 /\ tree' = Nobody /\ pc'[a] = "drop"
        \/ /\ node[n].refs # 1 /\ tree' = tree
           /\ pc'[a] \in {"signal", "release", "leave"}
           /\ a \in Buffer => pc'[a] # "signal"
    BY <1>0 DEF Unacquire, Typed, Goto, Actor, AfterUnacquire
  <1>q. /\ \A i \in DOMAIN queue : queue[i].of \in Buffer
        /\ \A w \in Worker : job[w].kind \in {"freeBuffer", "freeNode", "loadBuffer"} => job[w].of \in Buffer
    BY QueuedTyped DEF Actor, NodeKind, BufferKind
  <1>b. \A b \in Buffer : b # a => pc'[b] = pc[b]
    BY <1>4 DEF Actor
  <1>w. \A w \in Worker : w # a => pc'[w] = pc[w]
    BY <1>4 DEF Actor
  <1>g. \A b \in Buffer : pc[b] \in GivenUp => b # a /\ pc'[b] = pc[b]
    BY <1>2, <1>b DEF GivenUp
  <1>f. \A b \in Buffer : pc'[b] \in Before <=> pc[b] \in Before
    BY <1>2, <1>5, <1>b DEF Before
  <1>6. Named'
    BY <1>f, <1>3, <1>4, <1>q DEF RefsInv, Named
  <1>7. Fresh'
    BY <1>f, <1>1, <1>3 DEF RefsInv, Fresh
  <1>8. Kept'
    <2>1. ASSUME NEW b \in Buffer, pc'[b] \in HoldSteps
          PROVE  buffer'[b].holds
      <3>1. b # a
        BY <1>5, <2>1 DEF HoldSteps, LoadSteps
      <3>2. buffer[b].holds
        BY <1>b, <2>1, <3>1 DEF RefsInv, Kept
      <3>3. b # x
        <4>1. CASE a \in Buffer
          BY <1>c, <3>1, <4>1
        <4>2. CASE a \in Worker
          BY <1>b, <1>k, <2>1, <3>1, <4>2 DEF GivenUp, HoldSteps, LoadSteps
        <4> QED
          BY <4>1, <4>2 DEF Actor
      <3> QED
        BY <1>3, <3>2, <3>3
    <2> QED
      BY <2>1 DEF Kept
  <1>9. HolderServed'
    BY <1>1, <1>3 DEF RefsInv, HolderServed
  <1>10. Given'
    <2>1. ASSUME NEW i \in DOMAIN queue', queue'[i].kind = "freeBuffer"
          PROVE  buffer'[queue'[i].of].holds /\ pc'[queue'[i].of] \in GivenUp
      <3>1. queue[i].of \in Buffer /\ buffer[queue[i].of].holds /\ pc[queue[i].of] \in GivenUp
        BY <1>4, <1>q, <2>1 DEF RefsInv, Given
      <3>2. queue[i].of # x
        <4>1. CASE a \in Buffer
          BY <1>c, <1>g, <3>1, <4>1
        <4>2. CASE a \in Worker
          BY <1>4, <1>k, <2>1, <4>2 DEF RefsInv, GivenOnce
        <4> QED
          BY <4>1, <4>2 DEF Actor
      <3> QED
        BY <1>3, <1>4, <1>g, <3>1, <3>2
    <2>2. ASSUME NEW w \in Worker, job'[w].kind = "freeBuffer"
          PROVE  /\ pc'[job'[w].of] \in GivenUp
                 /\ pc'[w] \in {"begin", "unacquire"} => buffer'[job'[w].of].holds
      <3>1. /\ job[w].of \in Buffer /\ pc[job[w].of] \in GivenUp
            /\ pc[w] \in {"begin", "unacquire"} => buffer[job[w].of].holds
        BY <1>4, <1>q, <2>2 DEF RefsInv, Given
      <3>2. ASSUME pc'[w] \in {"begin", "unacquire"}
            PROVE  buffer'[job[w].of].holds
        <4>1. w # a
          BY <1>5, <3>2
        <4>2. job[w].of # x
          <5>1. CASE a \in Buffer
            BY <1>c, <1>g, <3>1, <5>1
          <5>2. CASE a \in Worker
            BY <1>4, <1>k, <2>2, <4>1, <5>2 DEF RefsInv, GivenOnce
          <5> QED
            BY <5>1, <5>2 DEF Actor
        <4> QED
          BY <1>3, <1>w, <3>1, <3>2, <4>1, <4>2
      <3> QED
        BY <1>4, <1>g, <3>1, <3>2
    <2> QED
      BY <2>1, <2>2 DEF Given
  <1>11. GivenOnce'
    BY <1>4 DEF RefsInv, GivenOnce
  <1>12. Unheld'
    <2>1. \A m \in Buffer : Gone(m) => GoneNext(m)
      BY <1>1, <1>3 DEF Gone, GoneNext
    <2>2. \A i \in DOMAIN queue' : queue'[i].kind = "freeNode" => GoneNext(queue'[i].of)
      BY <1>4, <1>q, <2>1 DEF RefsInv, Unheld
    <2>3. \A w \in Worker : job'[w].kind = "freeNode" => GoneNext(job'[w].of)
      BY <1>4, <1>q, <2>1 DEF RefsInv, Unheld
    <2>4. ASSUME NEW c \in Actor, pc'[c] \in {"drop", "abandon"}
          PROVE  NodeOf(c)' \in Buffer /\ Gone(NodeOf(c))'
      <3>1. CASE c = a
        <4>1. NodeOf(c)' = n
          <5>1. Of(a)' = x
            BY <1>0, <1>4 DEF Of
          <5> QED
            BY <1>1, <1>3, <3>1, <5>1 DEF NodeOf
        <4>2. node[n].refs = 1
          BY <1>5, <2>4, <3>1
        <4>3. node'[n].refs = 0 /\ node'[n].state = "live"
          BY <1>1, <1>3, <4>2
        <4> QED
          BY <1>1, <4>1, <4>3 DEF Gone
      <3>2. CASE c # a
        <4>1. pc[c] \in {"drop", "abandon"}
          BY <1>4, <2>4, <3>2
        <4>2. Of(c)' = Of(c) /\ Of(c) \in Buffer
          BY <1>4, <4>1, JobTyped DEF Of, UnacquireSteps
        <4>3. NodeOf(c)' = NodeOf(c)
          BY <1>3, <4>2 DEF NodeOf
        <4> QED
          BY <2>1, <4>1, <4>3 DEF RefsInv, Unheld, Gone, GoneNext
      <3> QED
        BY <3>1, <3>2
    <2> QED
      BY <2>2, <2>3, <2>4 DEF Unheld, Gone, GoneNext
  <1>13. Locked'
    BY <1>2, <1>4 DEF RefsInv, Locked
  <1>14. RefsExact'
    <2>1. tree = n
      <3>1. tree = n <=> node[n].state = "live" /\ node[n].refs > 0
        BY <1>1 DEF RefsInv, RefsExact
      <3> QED
        BY <1>1, <3>1
    <2>2. {b \in Buffer : Holds(b, n)'} = Holders(n) \ {x}
      BY <1>1, <1>3 DEF Holders, Holds
    <2>3. Cardinality(Holders(n) \ {x}) = node[n].refs - 1
      <3>1. IsFiniteSet(Holders(n)) /\ x \in Holders(n) /\ node[n].refs = Cardinality(Holders(n))
        BY <1>1, HoldersFinite
      <3>2. Cardinality(Holders(n) \ {x}) = Cardinality(Holders(n)) - 1
        BY <3>1, FS_RemoveElement
      <3> QED
        BY <3>1, <3>2
    <2>4. /\ (tree = n <=> node[n].state = "live" /\ node[n].refs > 0)'
          /\ node'[n].refs = Cardinality({b \in Buffer : Holds(b, n)'})
      <3>1. node'[n].refs = node[n].refs - 1 /\ node'[n].state = "live"
        BY <1>1, <1>3
      <3>2. CASE node[n].refs = 1
        BY <1>1, <1>5, <2>2, <2>3, <3>1, <3>2
      <3>3. CASE node[n].refs # 1
        <4>1. tree' = n /\ node'[n].refs > 0
          BY <1>1, <1>5, <2>1, <3>1, <3>3
        <4> QED
          BY <2>2, <2>3, <3>1, <4>1
      <3> QED
        BY <3>2, <3>3
    <2>5. ASSUME NEW m \in Buffer
          PROVE  /\ (tree = m <=> node[m].state = "live" /\ node[m].refs > 0)'
                 /\ (node[m].state = "live" => node[m].refs = Cardinality({b \in Buffer : Holds(b, m)}))'
      <3>1. CASE m = n
        BY <2>4, <3>1
      <3>2. CASE m # n
        <4>1. {b \in Buffer : Holds(b, m)'} = {b \in Buffer : Holds(b, m)}
          BY <1>1, <1>3, <3>2 DEF Holds
        <4>2. /\ tree = m <=> node[m].state = "live" /\ node[m].refs > 0
              /\ node[m].state = "live" => node[m].refs = Cardinality({b \in Buffer : Holds(b, m)})
          BY DEF RefsInv, RefsExact
        <4>3. node'[m].refs = node[m].refs /\ node'[m].state = node[m].state
          BY <1>3, <3>2
        <4>4. tree' # m
          BY <1>5, <2>1, <3>2
        <4> QED
          BY <2>1, <3>2, <4>1, <4>2, <4>3, <4>4
      <3> QED
        BY <3>1, <3>2
    <2> QED
      BY <2>5 DEF RefsExact
  <1> QED
    BY <1>6, <1>7, <1>8, <1>9, <1>10, <1>11, <1>12, <1>13, <1>14 DEF RefsInv

LEMMA RefsKept ==
  ASSUME IInv, [Next]_vars
  PROVE  RefsInv'
  <1>t. Typed /\ Places /\ RefsInv
    BY TypedIs DEF IInv
  <1>1. ASSUME NEW b \in Buffer, InitBegin(b) \/ UninitBegin(b)
        PROVE  RefsInv'
    BY <1>t, <1>1, InitBeginQuiet, UninitBeginQuiet
  <1>2. ASSUME NEW b \in Buffer, Client(b)
        PROVE  RefsInv'
    BY <1>t, <1>2, AcquireOldKeeps, AcquireNewKeeps, AcquireBackKeeps, CheckLoadedQuiet, CheckLoadingQuiet,
       LoadBackQuiet, WaitInitQuiet, InitEndQuiet, UninitQuiet, CancelQuiet, UninitEndQuiet DEF Client
  <1>3. ASSUME NEW w \in Worker, JobThread(w)
        PROVE  RefsInv'
    BY <1>t, <1>3, TakeKeeps, FreeBufferQuiet, NotifyQuiet DEF JobThread
  <1>4. ASSUME NEW a \in Actor, Process(a)
        PROVE  RefsInv'
    BY <1>t, <1>4, OutOfTurnQuiet, NodeBeginQuiet, OpenQuiet, DecodeQuiet, NextPageQuiet, FinishQuiet,
       FreeNodeQuiet, BufferBeginQuiet, ConnectQuiet, LookQuiet, PublishQuiet, FencesQuiet, AdvanceQuiet,
       UnacquireKeeps, DropQuiet, AbandonQuiet DEF Process
  <1>5. CASE UNCHANGED vars
    <2> USE <1>t, <1>5 DEF vars, shared, RefsInv
    <2>1. Named' /\ Fresh' /\ Kept' /\ HolderServed'
      BY DEF Named, Fresh, Kept, HolderServed
    <2>2. Given' /\ GivenOnce'
      BY DEF Given, GivenOnce
    <2>3. Unheld' /\ Locked'
      BY DEF Unheld, Locked, Gone, NodeOf, Of
    <2>4. RefsExact'
      BY DEF RefsExact, Holds
    <2> QED
      BY <2>1, <2>2, <2>3, <2>4
  <1> QED
    BY <1>1, <1>2, <1>3, <1>4, <1>5 DEF Next

---------------------------------------------------------------------------
(* Theorems *)

LEMMA InitIInv == Init => IInv
  <1> SUFFICES ASSUME Init
               PROVE  IInv
    OBVIOUS
  <1> USE ResourceAssumption DEF Init
  <1>1. Typed
    <2>1. NewNode("none") \in NodeT /\ NewBuffer \in BufferT /\ [init |-> 0, done |-> 0] \in FenceT
      BY DEF NodeT, NewNode, BufferT, NewBuffer, FenceT, Result
    <2>2. pc \in [Actor -> Steps] /\ job \in [Actor -> AnyJob] /\ res \in [Actor -> AnyResult]
      BY DEF Steps, ClientSteps, AnyJob, AnyResult, Result
    <2> QED
      BY <2>1, <2>2 DEF Typed
  <1>2. Places
    BY DEF Places, Place, ClientAt, WorkerAt, HandlerAt, Actor, ClientSteps, LoadSteps, UnacquireSteps, NoJob
  <1>3. RefsInv
    <2>1. Named /\ Fresh /\ Kept /\ HolderServed
      BY DEF Named, Fresh, Kept, HolderServed, Before, HoldSteps, LoadSteps, Actor, NewNode, NewBuffer, NoJob
    <2>2. Given /\ GivenOnce /\ Unheld /\ Locked
      BY DEF Given, GivenOnce, Unheld, Locked, Actor, NoJob
    <2>3. RefsExact
      BY DEF RefsExact, NewNode
    <2> QED
      BY <2>1, <2>2, <2>3 DEF RefsInv
  <1> QED
    BY <1>1, <1>2, <1>3, TypedIs DEF IInv

LEMMA NextIInv == IInv /\ [Next]_vars => IInv'
  BY TypesKept, PlacesKept, RefsKept DEF IInv

\* The invariant: where every thread and job may be, and who holds what
THEOREM ResourceInvariant == Spec => []IInv
  <1>1. Init => IInv
    BY InitIInv
  <1>2. IInv /\ [Next]_vars => IInv'
    BY NextIInv
  <1> QED
    BY <1>1, <1>2, PTL DEF Spec

\* Every variable has its type, whatever the threads and jobs do: in particular
\* no reference is given back that is not there (ma_resource_manager_data_buffer_node_unacquire).
THEOREM ResourceTypes == Spec => []TypeOK
  <1>1. IInv => TypeOK
    BY DEF IInv
  <1> QED
    BY <1>1, ResourceInvariant, PTL

\* The reference count of a node is the number of buffers that hold it, and the
\* tree has a node as long as there are any: none is given back twice, or kept.
THEOREM ReferencesExact == Spec => []RefsExact
  <1>1. IInv => RefsExact
    BY DEF IInv, RefsInv
  <1> QED
    BY <1>1, ResourceInvariant, PTL

\* A buffer that holds a node finds it there: it is freed only when the last
\* buffer has given it back, whichever thread or job does that.
THEOREM HoldersServed == Spec => []HolderServed
  <1>1. IInv => HolderServed
    BY DEF IInv, RefsInv
  <1> QED
    BY <1>1, ResourceInvariant, PTL

---------------------------------------------------------------------------
(* The counts, and what keeps them exact *)

\* A buffer's own jobs, the first job of the node it makes, and the jobs that
\* have, or are about to post, a page of a node to decode
Own(b) == Queued("loadBuffer", b) + Running("loadBuffer", b, LoadSteps)
First(b) == Queued("loadNode", b) + Running("loadNode", b, LoadSteps)
Paging(n) ==
  Queued("pageNode", n) + Running("pageNode", n, {"begin", "decode", "next", "finish"})
    + Running("loadNode", n, {"next"})

\* Which job a handler's step belongs to
KindAt(a) ==
    /\ pc[a] = "open" => job[a].kind = "loadNode"
    /\ pc[a] \in {"decode", "finish"} => job[a].kind = "pageNode"
    /\ pc[a] = "next" => job[a].kind \in {"loadNode", "pageNode"}
    /\ pc[a] = "finish" => res[a] # "busy"
Kinds == \A a \in Actor : KindAt(a)

\* How far a buffer's thread is, by the step it is at
PhaseAt(b) ==
    /\ pc[b] = "start" <=> phase[b] = "new"
    /\ pc[b] = "over" <=> phase[b] = "over"
    /\ pc[b] \in LoadSteps \cup {"acquire", "check", "back", "wait", "release", "failed", "tail"}
         => phase[b] = "init"
    /\ pc[b] \in {"held", "uninit", "cancel", "awaitFree", "leave", "over"} => phase[b] # "init"
Phased == \A b \in Buffer : PhaseAt(b)

\* The load of a node is in one place at a time, and not begun before its buffer is
LoadOnce ==
  \A n \in Buffer : LoadsLeft(n) <= 1 /\ (pc[n] \in Before => LoadsLeft(n) = 0)

\* A buffer has one job of its own, and none while its thread has yet to look at the node
Unloaded(b) == pc[b] \in Before \cup {"check"} \/ job[b].kind = "loadNode"
OwnOnce ==
  \A b \in Buffer :
    /\ Own(b) <= 1
    /\ Unloaded(b) => Own(b) = 0 /\ ~buffer[b].connector /\ buffer[b].result = "busy"

\* Success comes after the connector, which is when the init fence was released
Announced ==
  /\ \A b \in Buffer : buffer[b].result = "success" => buffer[b].connector
  /\ \A a \in Actor :
       /\ job[a].kind = "loadBuffer"
       /\ pc[a] = "look" \/ (pc[a] \in {"publish", "fences"} /\ res[a] = "success")
       => buffer[job[a].of].connector

\* Only a node that nobody holds is unavailable, and nothing fails by itself
Sound ==
  /\ \A n \in Buffer : node[n].result = "unavailable" => node[n].refs = 0
  /\ \A a \in Actor :
       /\ job[a].kind \in {"loadNode", "pageNode"}
       /\ pc[a] \in {"finish", "publish"} /\ res[a] = "unavailable"
       => node[job[a].of].result = "unavailable"
NoError ==
  ~config.fails =>
  /\ \A n \in Buffer : node[n].result # "error"
  /\ \A a \in Actor : job[a].kind \in {"loadNode", "pageNode"} /\ pc[a] \in {"finish", "publish"} =>
       res[a] # "error"

\* A thread that processes its job in place comes back with success
NodeInPlace(b) ==
  /\ pc[b] \in {"begin", "open", "next"} => node[b].result = "busy"
  /\ pc[b] \in {"publish", "fences", "tail", "back"} => res[b] \in {"busy", "success"}
BufferInPlace(b) ==
  /\ pc[b] \in {"begin", "connect", "look", "lookUnknown"} => buffer[b].result = "busy"
  /\ pc[b] \in {"publish", "fences", "tail", "back"} => res[b] = "success"
InPlaceAt(b) ==
  /\ job[b] # NoJob => b \in config.wait
  /\ ~config.fails => /\ job[b].kind = "loadNode" => NodeInPlace(b)
                      /\ job[b].kind = "loadBuffer" => BufferInPlace(b)
InPlace == \A b \in Buffer : InPlaceAt(b)

---------------------------------------------------------------------------
(* Counting jobs and the actors at them *)

Bit(p) == IF p THEN 1 ELSE 0
In(a, kind, x, steps) == job[a].kind = kind /\ job[a].of = x /\ pc[a] \in steps
IsFor(j, kind, x) == j.kind = kind /\ j.of = x
QueuedAt(kind, x) == {i \in DOMAIN queue : queue[i].kind = kind /\ queue[i].of = x}
RunningAt(kind, x, steps) ==
  {a \in Actor : job[a].kind = kind /\ job[a].of = x /\ pc[a] \in steps}

LEMMA OneMoved ==
  ASSUME NEW T, IsFiniteSet(T), NEW A \in SUBSET T, NEW C \in SUBSET T, NEW a, A \ {a} = C \ {a}
  PROVE  /\ Cardinality(A) \in Nat /\ Cardinality(C) \in Nat
         /\ Cardinality(C) = Cardinality(A) + Bit(a \in C) - Bit(a \in A)
  <1>1. IsFiniteSet(A) /\ IsFiniteSet(C)
    BY FS_Subset
  <1>2. Cardinality(A) \in Nat /\ Cardinality(C) \in Nat
    BY <1>1, FS_CardinalityType
  <1>3. Cardinality(A \ {a}) = IF a \in A THEN Cardinality(A) - 1 ELSE Cardinality(A)
    BY <1>1, FS_RemoveElement
  <1>4. Cardinality(C \ {a}) = IF a \in C THEN Cardinality(C) - 1 ELSE Cardinality(C)
    BY <1>1, FS_RemoveElement
  <1> QED
    BY <1>2, <1>3, <1>4 DEF Bit

LEMMA ActorFinite == IsFiniteSet(Actor)
  BY ResourceAssumption, FS_Union DEF Actor

LEMMA QueueFinite ==
  ASSUME NEW q \in Seq(Job)
  PROVE  IsFiniteSet(DOMAIN q) /\ DOMAIN q = 1 .. Len(q) /\ Len(q) \in Nat
  <1>1. DOMAIN q = 1 .. Len(q) /\ Len(q) \in Nat
    OBVIOUS
  <1> QED
    BY <1>1, FS_Interval

LEMMA QueuedNat ==
  ASSUME Typed, NEW kind, NEW x
  PROVE  /\ Queued(kind, x) \in Nat /\ IsFiniteSet(QueuedAt(kind, x))
         /\ Queued(kind, x) = Cardinality(QueuedAt(kind, x))
  <1>1. IsFiniteSet(DOMAIN queue)
    BY QueueFinite DEF Typed
  <1>2. QueuedAt(kind, x) \in SUBSET DOMAIN queue
    BY DEF QueuedAt
  <1>3. IsFiniteSet(QueuedAt(kind, x))
    BY <1>1, <1>2, FS_Subset
  <1> QED
    BY <1>3, FS_CardinalityType DEF Queued, QueuedAt

LEMMA QueuedSome ==
  ASSUME Typed, NEW kind, NEW x, Queued(kind, x) = 0
  PROVE  \A i \in DOMAIN queue : ~IsFor(queue[i], kind, x)
  <1>1. QueuedAt(kind, x) = {}
    BY QueuedNat, FS_EmptySet
  <1> QED
    BY <1>1 DEF QueuedAt, IsFor

LEMMA RunningNat ==
  ASSUME NEW kind, NEW x, NEW steps
  PROVE  /\ Running(kind, x, steps) \in Nat
         /\ \A a \in Actor : In(a, kind, x, steps) => Running(kind, x, steps) >= 1
  <1>1. RunningAt(kind, x, steps) \in SUBSET Actor
    BY DEF RunningAt
  <1>2. IsFiniteSet(RunningAt(kind, x, steps))
    BY <1>1, ActorFinite, FS_Subset
  <1>3. Running(kind, x, steps) = Cardinality(RunningAt(kind, x, steps))
    BY DEF Running, RunningAt
  <1>4. Running(kind, x, steps) \in Nat
    BY <1>2, <1>3, FS_CardinalityType
  <1>5. ASSUME NEW a \in Actor, In(a, kind, x, steps)
        PROVE  Running(kind, x, steps) # 0
    <2>1. a \in RunningAt(kind, x, steps)
      BY <1>5 DEF In, RunningAt
    <2> QED
      BY <2>1, <1>2, <1>3, FS_EmptySet
  <1> QED
    BY <1>4, <1>5

\* One actor at work, and then another
LEMMA RunningMoves ==
  ASSUME NEW a \in Actor, OthersKept(a), NEW kind, NEW x, NEW steps
  PROVE  Running(kind, x, steps)'
           = Running(kind, x, steps) + Bit(In(a, kind, x, steps)') - Bit(In(a, kind, x, steps))
  <1> DEFINE A == RunningAt(kind, x, steps)
             C == RunningAt(kind, x, steps)'
  <1>1. A \in SUBSET Actor /\ C \in SUBSET Actor
    BY DEF RunningAt
  <1>2. A \ {a} = C \ {a}
    BY DEF RunningAt, OthersKept
  <1>3. /\ Running(kind, x, steps) = Cardinality(A)
        /\ Running(kind, x, steps)' = Cardinality(C)
    BY DEF Running, RunningAt
  <1>4. (a \in A <=> In(a, kind, x, steps)) /\ (a \in C <=> In(a, kind, x, steps)')
    BY DEF RunningAt, In
  <1>5. Bit(a \in A) = Bit(In(a, kind, x, steps)) /\ Bit(a \in C) = Bit(In(a, kind, x, steps)')
    BY <1>4 DEF Bit
  <1> HIDE DEF A, C
  <1> QED
    BY <1>1, <1>2, <1>3, <1>5, ActorFinite, OneMoved

LEMMA QueuedAppend ==
  ASSUME Typed, NEW j \in Job, queue' = Append(queue, j), NEW kind, NEW x
  PROVE  Queued(kind, x)' = Queued(kind, x) + Bit(IsFor(j, kind, x))
  <1> DEFINE A == QueuedAt(kind, x)
             C == QueuedAt(kind, x)'
             last == Len(queue) + 1
  <1>1. /\ DOMAIN queue = 1 .. Len(queue) /\ Len(queue) \in Nat
        /\ DOMAIN queue' = 1 .. last
        /\ \A i \in DOMAIN queue : queue'[i] = queue[i]
        /\ queue'[last] = j
    BY DEF Typed
  <1>2. IsFiniteSet(A) /\ Queued(kind, x) = Cardinality(A) /\ Queued(kind, x) \in Nat
    BY QueuedNat
  <1>3. Queued(kind, x)' = Cardinality(C)
    BY DEF Queued, QueuedAt
  <1>4. C = IF IsFor(j, kind, x) THEN A \cup {last} ELSE A
    BY <1>1 DEF QueuedAt, IsFor
  <1>5. last \notin A
    BY <1>1 DEF QueuedAt
  <1> HIDE DEF A, C, last
  <1>6. Cardinality(A \cup {last}) = Cardinality(A) + 1
    BY <1>2, <1>5, FS_AddElement
  <1> QED
    BY <1>2, <1>3, <1>4, <1>6 DEF Bit

LEMMA QueuedTail ==
  ASSUME Typed, queue # <<>>, queue' = Tail(queue), NEW kind, NEW x
  PROVE  Queued(kind, x) = Queued(kind, x)' + Bit(IsFor(Head(queue), kind, x))
  <1> DEFINE A == QueuedAt(kind, x)
             C == QueuedAt(kind, x)'
             f == [i \in C |-> i + 1]
  <1>1. /\ DOMAIN queue = 1 .. Len(queue) /\ Len(queue) \in Nat \ {0}
        /\ DOMAIN queue' = 1 .. (Len(queue) - 1)
        /\ \A i \in DOMAIN queue' : queue'[i] = queue[i + 1]
        /\ Head(queue) = queue[1]
    BY DEF Typed
  <1>2. IsFiniteSet(A) /\ Queued(kind, x) = Cardinality(A) /\ Queued(kind, x) \in Nat
    BY QueuedNat
  <1>3. Queued(kind, x)' = Cardinality(C)
    BY DEF Queued, QueuedAt
  <1>4. IsFiniteSet(A \ {1}) /\ Cardinality(A \ {1}) = Cardinality(A) - Bit(1 \in A)
    BY <1>2, FS_RemoveElement DEF Bit
  <1>5. 1 \in A <=> IsFor(Head(queue), kind, x)
    BY <1>1 DEF QueuedAt, IsFor
  <1>6. C \subseteq Nat \ {0} /\ \A i \in C : i + 1 \in A \ {1}
    BY <1>1 DEF QueuedAt
  <1>7. \A i \in A \ {1} : i \in Nat /\ i - 1 \in C /\ (i - 1) + 1 = i
    BY <1>1 DEF QueuedAt
  <1>8. f \in Bijection(C, A \ {1})
    BY <1>6, <1>7, Fun_IsBij
  <1>9. \E g : g \in Bijection(A \ {1}, C)
    BY <1>8, Fun_BijInverse
  <1>10. Cardinality(C) = Cardinality(A \ {1})
    BY <1>4, <1>9, FS_Bijection DEF ExistsBijection
  <1>11. Bit(1 \in A) = Bit(IsFor(Head(queue), kind, x))
    BY <1>5 DEF Bit
  <1>12. Bit(1 \in A) \in Int
    BY DEF Bit
  <1> QED
    BY <1>2, <1>3, <1>4, <1>10, <1>11, <1>12

OwnIn(a, x) == In(a, "loadBuffer", x, LoadSteps)
FirstIn(a, x) == In(a, "loadNode", x, LoadSteps)
LoadIn(a, x) ==
  job[a].kind \in {"loadNode", "pageNode"} /\ job[a].of = x /\ pc[a] \in LoadSteps /\ ~HandedOn(a)
PageIn(a, x) == In(a, "pageNode", x, {"begin", "decode", "next", "finish"}) \/ In(a, "loadNode", x, {"next"})

\* What a step of a makes of the counts, when it makes the queue's jobs for the
\* buffer, and its node's first job and further jobs, so many more
Changed(a, x, own, first, pages) ==
  /\ Own(x)' = Own(x) + own + Bit(OwnIn(a, x)') - Bit(OwnIn(a, x))
  /\ First(x)' = First(x) + first + Bit(FirstIn(a, x)') - Bit(FirstIn(a, x))
  /\ LoadsLeft(x)' = LoadsLeft(x) + first + pages + Bit(LoadIn(a, x)') - Bit(LoadIn(a, x))
  /\ Paging(x)' = Paging(x) + pages + Bit(PageIn(a, x)') - Bit(PageIn(a, x))

LoadersAt(x) == {a \in Actor : LoadIn(a, x)}

LEMMA LoadsLeftIs ==
  ASSUME NEW x
  PROVE  /\ LoadsLeft(x) = Queued("loadNode", x) + Queued("pageNode", x) + Cardinality(LoadersAt(x))
         /\ LoadersAt(x) \in SUBSET Actor /\ IsFiniteSet(LoadersAt(x)) /\ Cardinality(LoadersAt(x)) \in Nat
  <1>1. LoadersAt(x) \in SUBSET Actor
    BY DEF LoadersAt
  <1>2. IsFiniteSet(LoadersAt(x))
    BY <1>1, ActorFinite, FS_Subset
  <1>3. Cardinality(LoadersAt(x)) \in Nat
    BY <1>2, FS_CardinalityType
  <1> QED
    BY <1>1, <1>2, <1>3 DEF LoadsLeft, LoadersAt, LoadIn

LEMMA CountsNat ==
  ASSUME Typed, NEW x
  PROVE  Own(x) \in Nat /\ First(x) \in Nat /\ LoadsLeft(x) \in Nat /\ Paging(x) \in Nat
  BY QueuedNat, RunningNat, LoadsLeftIs DEF Own, First, Paging

LEMMA CountsChange ==
  ASSUME Typed, NEW a \in Actor, OthersKept(a), NEW x, NEW own \in Int, NEW first \in Int,
         NEW pages \in Int,
         Queued("loadBuffer", x)' = Queued("loadBuffer", x) + own,
         Queued("loadNode", x)' = Queued("loadNode", x) + first,
         Queued("pageNode", x)' = Queued("pageNode", x) + pages
  PROVE  Changed(a, x, own, first, pages)
  <1>1. /\ Queued("loadBuffer", x) \in Nat /\ Queued("loadNode", x) \in Nat /\ Queued("pageNode", x) \in Nat
        /\ \A kind, steps : Running(kind, x, steps) \in Nat
    BY QueuedNat, RunningNat
  <1>2. \A kind, steps : Running(kind, x, steps)'
           = Running(kind, x, steps) + Bit(In(a, kind, x, steps)') - Bit(In(a, kind, x, steps))
    BY RunningMoves
  <1>3. Own(x)' = Own(x) + own + Bit(OwnIn(a, x)') - Bit(OwnIn(a, x))
    <2>1. Running("loadBuffer", x, LoadSteps)'
           = Running("loadBuffer", x, LoadSteps) + Bit(OwnIn(a, x)') - Bit(OwnIn(a, x))
      BY <1>2 DEF OwnIn
    <2> QED
      BY <1>1, <2>1 DEF Own, Bit
  <1>4. First(x)' = First(x) + first + Bit(FirstIn(a, x)') - Bit(FirstIn(a, x))
    <2>1. Running("loadNode", x, LoadSteps)'
           = Running("loadNode", x, LoadSteps) + Bit(FirstIn(a, x)') - Bit(FirstIn(a, x))
      BY <1>2 DEF FirstIn
    <2> QED
      BY <1>1, <2>1 DEF First, Bit
  <1>5. LoadsLeft(x)' = LoadsLeft(x) + first + pages + Bit(LoadIn(a, x)') - Bit(LoadIn(a, x))
    <2> DEFINE A == LoadersAt(x)
               C == LoadersAt(x)'
    <2>1. A \in SUBSET Actor /\ C \in SUBSET Actor
      BY DEF LoadersAt
    <2>2. A \ {a} = C \ {a}
      BY DEF LoadersAt, LoadIn, HandedOn, OthersKept
    <2>3. (a \in A <=> LoadIn(a, x)) /\ (a \in C <=> LoadIn(a, x)')
      BY DEF LoadersAt
    <2>4. LoadsLeft(x) = Queued("loadNode", x) + Queued("pageNode", x) + Cardinality(A)
      BY LoadsLeftIs
    <2>5. LoadsLeft(x)' = Queued("loadNode", x)' + Queued("pageNode", x)' + Cardinality(C)
      BY DEF LoadsLeft, LoadersAt, LoadIn
    <2> HIDE DEF A, C
    <2>6. /\ Cardinality(A) \in Nat /\ Cardinality(C) \in Nat
          /\ Cardinality(C) = Cardinality(A) + Bit(a \in C) - Bit(a \in A)
      BY <2>1, <2>2, ActorFinite, OneMoved
    <2>7. Bit(a \in A) = Bit(LoadIn(a, x)) /\ Bit(a \in C) = Bit(LoadIn(a, x)')
      BY <2>3 DEF Bit
    <2> QED
      BY <1>1, <2>4, <2>5, <2>6, <2>7 DEF Bit
  <1>6. Paging(x)' = Paging(x) + pages + Bit(PageIn(a, x)') - Bit(PageIn(a, x))
    <2> DEFINE S == {"begin", "decode", "next", "finish"}
               T == {"next"}
               P == In(a, "pageNode", x, S)
               L == In(a, "loadNode", x, T)
    <2>1. Running("pageNode", x, S)' = Running("pageNode", x, S) + Bit(P') - Bit(P)
      BY <1>2
    <2>2. Running("loadNode", x, T)' = Running("loadNode", x, T) + Bit(L') - Bit(L)
      BY <1>2
    <2>3. Bit(PageIn(a, x)) = Bit(P) + Bit(L) /\ Bit(PageIn(a, x)') = Bit(P') + Bit(L')
      BY DEF PageIn, In, Bit
    <2>4. Running("pageNode", x, S) \in Nat /\ Running("loadNode", x, T) \in Nat
      BY <1>1
    <2>5. Bit(P) \in Int /\ Bit(L) \in Int /\ Bit(P') \in Int /\ Bit(L') \in Int
      BY DEF Bit
    <2>6. /\ Paging(x) = Queued("pageNode", x) + Running("pageNode", x, S) + Running("loadNode", x, T)
          /\ Paging(x)' = Queued("pageNode", x)' + Running("pageNode", x, S)' + Running("loadNode", x, T)'
      BY DEF Paging
    <2>7. \A r1, r2, q \in Nat, p1, p2, l1, l2 \in Int :
            (q + pages) + (r1 + p2 - p1) + (r2 + l2 - l1) = (q + r1 + r2) + pages + (p2 + l2) - (p1 + l1)
      OBVIOUS
    <2> HIDE DEF S, T, P, L
    <2> QED
      BY <1>1, <2>1, <2>2, <2>3, <2>4, <2>5, <2>6, <2>7
  <1> QED
    BY <1>3, <1>4, <1>5, <1>6 DEF Changed

LEMMA ChangeKept ==
  ASSUME Typed, NEW a \in Actor, OthersKept(a), queue' = queue, NEW x
  PROVE  Changed(a, x, 0, 0, 0)
  <1>1. \A kind : Queued(kind, x) \in Nat
    BY QueuedNat
  <1>2. /\ Queued("loadBuffer", x)' = Queued("loadBuffer", x)
        /\ Queued("loadNode", x)' = Queued("loadNode", x)
        /\ Queued("pageNode", x)' = Queued("pageNode", x)
    BY DEF Queued
  <1>3. /\ Queued("loadBuffer", x)' = Queued("loadBuffer", x) + 0
        /\ Queued("loadNode", x)' = Queued("loadNode", x) + 0
        /\ Queued("pageNode", x)' = Queued("pageNode", x) + 0
    BY <1>1, <1>2
  <1> QED
    BY <1>3, CountsChange

LEMMA ChangePosted ==
  ASSUME Typed, NEW a \in Actor, OthersKept(a), NEW j \in Job, queue' = Append(queue, j), NEW x
  PROVE  Changed(a, x, Bit(IsFor(j, "loadBuffer", x)), Bit(IsFor(j, "loadNode", x)), Bit(IsFor(j, "pageNode", x)))
  <1>1. \A kind : Queued(kind, x)' = Queued(kind, x) + Bit(IsFor(j, kind, x))
    BY QueuedAppend
  <1>2. \A kind : Bit(IsFor(j, kind, x)) \in Int
    BY DEF Bit
  <1> QED
    BY <1>1, <1>2, CountsChange

LEMMA ChangeTaken ==
  ASSUME Typed, NEW a \in Actor, OthersKept(a), queue # <<>>, queue' = Tail(queue), NEW x, NEW j,
         j = Head(queue)
  PROVE  Changed(a, x, - Bit(IsFor(j, "loadBuffer", x)), - Bit(IsFor(j, "loadNode", x)),
                 - Bit(IsFor(j, "pageNode", x)))
  <1>1. \A kind : Queued(kind, x) = Queued(kind, x)' + Bit(IsFor(j, kind, x))
    BY QueuedTail
  <1>2. \A kind : Bit(IsFor(j, kind, x)) \in {0, 1} /\ Queued(kind, x) \in Nat
    BY QueuedNat DEF Bit
  <1>3. \A kind : Queued(kind, x)' \in Int
    <2> SUFFICES ASSUME NEW kind PROVE Queued(kind, x)' \in Int
      OBVIOUS
    <2>1. queue' \in Seq(Job)
      BY DEF Typed
    <2>2. IsFiniteSet(DOMAIN queue')
      BY <2>1, QueueFinite
    <2>3. QueuedAt(kind, x)' \in SUBSET DOMAIN queue'
      BY DEF QueuedAt
    <2>4. IsFiniteSet(QueuedAt(kind, x)')
      BY <2>2, <2>3, FS_Subset
    <2>5. Queued(kind, x)' = Cardinality(QueuedAt(kind, x)')
      BY DEF Queued, QueuedAt
    <2> QED
      BY <2>4, <2>5, FS_CardinalityType
  <1>4. \A kind : Queued(kind, x)' = Queued(kind, x) + (- Bit(IsFor(j, kind, x))) /\ - Bit(IsFor(j, kind, x)) \in Int
    BY <1>1, <1>2, <1>3
  <1> QED
    BY <1>4, CountsChange

---------------------------------------------------------------------------
(* Where the jobs and the threads are *)

LEMMA KindAtStep ==
  ASSUME Typed, Places, Kinds, NEW a \in Actor, StepOf(a)
  PROVE  KindAt(a)'
  <1> USE ResourceAssumption DEF Typed, KindAt, Goto, Returns, Handled, PostAgain, At, Actor, Begins
  <1>k. KindAt(a)
    BY DEF Kinds
  <1>1. CASE a \in Buffer /\ (InitBegin(a) \/ UninitBegin(a) \/ UninitEnd(a) \/ WaitInit(a) \/ InitEnd(a) \/ Uninit(a) \/ Cancel(a))
    BY <1>k, <1>1 DEF InitBegin, UninitBegin, UninitEnd, WaitInit, InitEnd, Uninit, Cancel, shared
  <1>2. CASE a \in Buffer /\ (AcquireOld(a) \/ AcquireNew(a) \/ AcquireBack(a))
    BY <1>k, <1>2 DEF AcquireOld, AcquireNew, AcquireBack
  <1>3. CASE a \in Buffer /\ (CheckLoaded(a) \/ CheckLoading(a) \/ LoadBack(a))
    BY <1>k, <1>3 DEF CheckLoaded, CheckLoading, LoadBack
  <1>4. CASE a \in Worker /\ JobThread(a)
    BY <1>k, <1>4 DEF JobThread, Take, FreeBuffer, Notify, shared
  <1>5. CASE OutOfTurn(a) \/ NodeBegin(a) \/ Open(a) \/ Decode(a) \/ NextPage(a)
    BY <1>k, <1>5 DEF OutOfTurn, NodeBegin, Open, Decode, NextPage, shared
  <1>6. CASE Finish(a) \/ FreeNode(a) \/ BufferBegin(a) \/ Connect(a) \/ Look(a)
    BY <1>k, <1>6 DEF Finish, FreeNode, BufferBegin, Connect, Look, shared
  <1>7. CASE Publish(a) \/ Fences(a) \/ Advance(a)
    BY <1>k, <1>7 DEF Publish, Fences, Advance
  <1>8. CASE Unacquire(a) \/ Drop(a) \/ Abandon(a)
    BY <1>k, <1>8 DEF Unacquire, Drop, Abandon, AfterUnacquire
  <1> QED
    BY <1>1, <1>2, <1>3, <1>4, <1>5, <1>6, <1>7, <1>8 DEF StepOf, Client, Process

LEMMA KindsKept ==
  ASSUME Typed, Places, Kinds, NEW a \in Actor, StepOf(a)
  PROVE  Kinds'
  <1>1. OthersKept(a)
    BY OthersAlone
  <1>2. \A c \in Actor \ {a} : KindAt(c)'
    BY <1>1 DEF Kinds, KindAt, OthersKept
  <1> QED
    BY <1>2, KindAtStep DEF Kinds

LEMMA PhaseAtStep ==
  ASSUME Typed, Places, Phased, NEW a \in Actor, StepOf(a), a \in Buffer
  PROVE  PhaseAt(a)' /\ \A b \in Buffer \ {a} : phase'[b] = phase[b]
  <1> USE ResourceAssumption DEF Typed, PhaseAt, Goto, Handled, PostAgain, At, Actor, Begins,
         LoadSteps, AfterUnacquire
  <1>k. PhaseAt(a)
    BY DEF Phased
  <1>a1. CASE InitBegin(a)
    <2>1. pc[a] = "start" /\ pc'[a] = "acquire" /\ phase' = [phase EXCEPT ![a] = "init"]
      BY <1>a1 DEF InitBegin, shared
    <2> QED
      BY <1>k, <2>1
  <1>a2. CASE UninitBegin(a)
    <2>1. pc'[a] = "uninit" /\ phase' = [phase EXCEPT ![a] = "uninit"]
      BY <1>a2 DEF UninitBegin, shared
    <2> QED
      BY <1>k, <2>1
  <1>a3. CASE UninitEnd(a)
    <2>1. pc'[a] = "over" /\ phase' = [phase EXCEPT ![a] = "over"]
      BY <1>a3 DEF UninitEnd, shared
    <2> QED
      BY <1>k, <2>1
  <1>a4. CASE WaitInit(a)
    <2>1. pc[a] = "wait" /\ pc'[a] \in {"release", "unacquire"} /\ phase' = phase
      BY <1>a4 DEF WaitInit, shared
    <2> QED
      BY <1>k, <2>1
  <1>a5. CASE InitEnd(a)
    <2>1. pc'[a] \in {"held", "over"} /\ phase' = [phase EXCEPT ![a] = pc'[a]]
      BY <1>a5 DEF InitEnd, shared
    <2> QED
      BY <1>k, <2>1
  <1>a6. CASE Uninit(a)
    <2>1. pc[a] = "uninit" /\ pc'[a] \in {"unacquire", "cancel"} /\ phase' = phase
      BY <1>a6 DEF Uninit, shared
    <2> QED
      BY <1>k, <2>1
  <1>a7. CASE Cancel(a)
    <2>1. pc[a] = "cancel" /\ pc'[a] = "awaitFree" /\ phase' = phase
      BY <1>a7 DEF Cancel, shared
    <2> QED
      BY <1>k, <2>1
  <1>a8. CASE AcquireOld(a)
    <2>1. pc[a] = "acquire" /\ pc'[a] = "check" /\ phase' = phase
      BY <1>a8 DEF AcquireOld, shared
    <2> QED
      BY <1>k, <2>1
  <1>a9. CASE AcquireNew(a)
    <2>1. pc[a] = "acquire" /\ pc'[a] \in {"begin", "check"} /\ phase' = phase
      BY <1>a9 DEF AcquireNew, shared
    <2> QED
      BY <1>k, <2>1
  <1>a10. CASE AcquireBack(a)
    <2>1. pc[a] = "back" /\ pc'[a] \in {"check", "release"} /\ phase' = phase
      BY <1>a10 DEF AcquireBack, shared
    <2> QED
      BY <1>k, <2>1
  <1>a11. CASE CheckLoaded(a)
    <2>1. pc[a] = "check" /\ pc'[a] \in {"release", "failed"} /\ phase' = phase
      BY <1>a11 DEF CheckLoaded, shared
    <2> QED
      BY <1>k, <2>1
  <1>a12. CASE CheckLoading(a)
    <2>1. pc[a] = "check" /\ pc'[a] \in {"begin", "release"} /\ phase' = phase
      BY <1>a12 DEF CheckLoading, shared
    <2> QED
      BY <1>k, <2>1
  <1>a13. CASE LoadBack(a)
    <2>1. pc[a] = "back" /\ pc'[a] \in {"wait", "unacquire"} /\ phase' = phase
      BY <1>a13 DEF LoadBack, shared
    <2> QED
      BY <1>k, <2>1
  <1>w. a \notin Worker /\ pc[a] \in Steps
    BY DEF Typed
  <1>5. CASE OutOfTurn(a) \/ NodeBegin(a) \/ Open(a) \/ Decode(a) \/ NextPage(a)
    <2>1. pc[a] \in LoadSteps /\ pc'[a] \in LoadSteps \cup {"back"} /\ phase' = phase
      BY <1>5, <1>w DEF OutOfTurn, NodeBegin, Open, Decode, NextPage, shared
    <2> QED
      BY <1>k, <2>1
  <1>6. CASE Finish(a) \/ FreeNode(a) \/ BufferBegin(a) \/ Connect(a) \/ Look(a)
    <2>1. pc[a] \in LoadSteps /\ pc'[a] \in LoadSteps \cup {"back"} /\ phase' = phase
      <3>1. CASE Finish(a) \/ FreeNode(a) \/ BufferBegin(a)
        BY <1>w, <3>1 DEF Finish, FreeNode, BufferBegin, shared
      <3>2. CASE Connect(a)
        BY <1>w, <3>2 DEF Connect
      <3>3. CASE Look(a)
        BY <1>w, <3>3 DEF Look
      <3> QED
        BY <1>6, <3>1, <3>2, <3>3
    <2> QED
      BY <1>k, <2>1
  <1>7. CASE Publish(a) \/ Fences(a) \/ Advance(a)
    <2>1. pc[a] \in LoadSteps \cup {"tail"} /\ pc'[a] \in {"fences", "tail", "back"} /\ phase' = phase
      BY <1>7, <1>w DEF Publish, Fences, Advance
    <2> QED
      BY <1>k, <2>1
  <1>8. CASE Unacquire(a) \/ Drop(a) \/ Abandon(a)
    BY <1>k, <1>8 DEF Unacquire, Drop, Abandon
  <1> QED
    BY <1>a1, <1>a2, <1>a3, <1>a4, <1>a5, <1>a6, <1>a7, <1>a8, <1>a9, <1>a10, <1>a11, <1>a12, <1>a13,
       <1>w, <1>5, <1>6, <1>7, <1>8 DEF StepOf, Client, Process

LEMMA PhasedKept ==
  ASSUME Typed, Places, Phased, NEW a \in Actor, StepOf(a)
  PROVE  Phased'
  <1>1. OthersKept(a)
    BY OthersAlone
  <1>2. CASE a \in Buffer
    BY <1>1, <1>2, PhaseAtStep DEF Phased, PhaseAt, OthersKept, Actor
  <1>3. CASE a \notin Buffer
    <2>1. phase' = phase
      BY <1>3 DEF StepOf, JobThread, Process, Take, FreeBuffer, Notify, shared, OutOfTurn, NodeBegin,
         Open, Decode,
         NextPage, Finish, FreeNode, BufferBegin, Connect, Look, Publish, Fences, Advance, Unacquire, Drop, Abandon
    <2> QED
      BY <1>1, <1>3, <2>1 DEF Phased, PhaseAt, OthersKept, Actor
  <1> QED
    BY <1>2, <1>3

---------------------------------------------------------------------------
(* What the steps make of the counts *)

LoadKind == {"loadNode", "pageNode", "loadBuffer"}
Uncounted(a) == pc[a] \notin LoadSteps \/ job[a].kind \notin LoadKind
OwnSame == \A x \in Buffer : Own(x)' = Own(x) /\ First(x)' = First(x)
LoadsSame == \A x \in Buffer : LoadsLeft(x)' = LoadsLeft(x)
PagingSame == \A x \in Buffer : Paging(x)' = Paging(x)
CountsSame == OwnSame /\ LoadsSame /\ PagingSame

LEMMA UncountedIn ==
  ASSUME NEW a, Uncounted(a), NEW x
  PROVE  ~OwnIn(a, x) /\ ~FirstIn(a, x) /\ ~LoadIn(a, x) /\ ~PageIn(a, x)
  BY DEF Uncounted, LoadKind, OwnIn, FirstIn, LoadIn, PageIn, In, LoadSteps

LEMMA UncountedNext ==
  ASSUME NEW a, Uncounted(a)', NEW x
  PROVE  ~OwnIn(a, x)' /\ ~FirstIn(a, x)' /\ ~LoadIn(a, x)' /\ ~PageIn(a, x)'
  BY DEF Uncounted, LoadKind, OwnIn, FirstIn, LoadIn, PageIn, In, LoadSteps

\* A step that has nothing to do with a load
LEMMA Idles ==
  ASSUME Typed, NEW a \in Actor, OthersKept(a), Uncounted(a), Uncounted(a)',
         \/ queue' = queue
         \/ \E j \in Job : queue' = Append(queue, j) /\ j.kind \notin LoadKind
  PROVE  CountsSame
  <1> SUFFICES ASSUME NEW x \in Buffer
               PROVE  /\ Own(x)' = Own(x) /\ First(x)' = First(x)
                      /\ LoadsLeft(x)' = LoadsLeft(x) /\ Paging(x)' = Paging(x)
    BY DEF CountsSame, OwnSame, LoadsSame, PagingSame
  <1>1. Changed(a, x, 0, 0, 0)
    <2>1. CASE queue' = queue
      BY <2>1, ChangeKept
    <2>2. CASE \E j \in Job : queue' = Append(queue, j) /\ j.kind \notin LoadKind
      <3>1. PICK j \in Job : queue' = Append(queue, j) /\ j.kind \notin LoadKind
        BY <2>2
      <3>2. Changed(a, x, Bit(IsFor(j, "loadBuffer", x)), Bit(IsFor(j, "loadNode", x)), Bit(IsFor(j, "pageNode", x)))
        BY <3>1, ChangePosted
      <3>3. Bit(IsFor(j, "loadBuffer", x)) = 0 /\ Bit(IsFor(j, "loadNode", x)) = 0 /\ Bit(IsFor(j, "pageNode", x)) = 0
        BY <3>1 DEF Bit, IsFor, LoadKind
      <3> QED
        BY <3>2, <3>3
    <2> QED
      BY <2>1, <2>2
  <1>2. ~OwnIn(a, x) /\ ~FirstIn(a, x) /\ ~LoadIn(a, x) /\ ~PageIn(a, x)
    BY UncountedIn
  <1>3. ~OwnIn(a, x)' /\ ~FirstIn(a, x)' /\ ~LoadIn(a, x)' /\ ~PageIn(a, x)'
    BY UncountedNext
  <1> QED
    BY <1>1, <1>2, <1>3, CountsNat DEF Changed, Bit

\* A step in a job, from one place where it is counted to another
LEMMA Works ==
  ASSUME Typed, NEW a \in Actor, OthersKept(a), queue' = queue, job'[a] = job[a],
         pc[a] \in LoadSteps, pc'[a] \in LoadSteps, HandedOn(a)' <=> HandedOn(a)
  PROVE  /\ OwnSame /\ LoadsSame
         /\ \A x \in Buffer : Paging(x)' = Paging(x) + Bit(PageIn(a, x)') - Bit(PageIn(a, x))
  <1> SUFFICES ASSUME NEW x \in Buffer
               PROVE  /\ Own(x)' = Own(x) /\ First(x)' = First(x)
                      /\ LoadsLeft(x)' = LoadsLeft(x)
                      /\ Paging(x)' = Paging(x) + Bit(PageIn(a, x)') - Bit(PageIn(a, x))
    BY DEF OwnSame, LoadsSame
  <1>1. Changed(a, x, 0, 0, 0)
    BY ChangeKept
  <1>2. /\ OwnIn(a, x)' <=> OwnIn(a, x)
        /\ FirstIn(a, x)' <=> FirstIn(a, x)
        /\ LoadIn(a, x)' <=> LoadIn(a, x)
    BY DEF OwnIn, FirstIn, LoadIn, In
  <1>3. /\ Bit(OwnIn(a, x)') = Bit(OwnIn(a, x)) /\ Bit(OwnIn(a, x)) \in Int
        /\ Bit(FirstIn(a, x)') = Bit(FirstIn(a, x)) /\ Bit(FirstIn(a, x)) \in Int
        /\ Bit(LoadIn(a, x)') = Bit(LoadIn(a, x)) /\ Bit(LoadIn(a, x)) \in Int
    BY <1>2 DEF Bit
  <1>4. Bit(PageIn(a, x)') \in Int /\ Bit(PageIn(a, x)) \in Int
    BY DEF Bit
  <1> QED
    BY <1>1, <1>3, <1>4, CountsNat DEF Changed

\* A job put off: what it was counted for is in the queue again
LEMMA PutsOff ==
  ASSUME Typed, NEW a \in Actor, OthersKept(a), job[a] \in Job, queue' = Append(queue, job[a]),
         pc[a] \in {"begin", "look", "lookUnknown"}, pc[a] # "begin" => job[a].kind = "loadBuffer",
         Uncounted(a)'
  PROVE  CountsSame
  <1> SUFFICES ASSUME NEW x \in Buffer
               PROVE  /\ Own(x)' = Own(x) /\ First(x)' = First(x)
                      /\ LoadsLeft(x)' = LoadsLeft(x) /\ Paging(x)' = Paging(x)
    BY DEF CountsSame, OwnSame, LoadsSame, PagingSame
  <1> DEFINE j == job[a]
  <1>1. Changed(a, x, Bit(IsFor(j, "loadBuffer", x)), Bit(IsFor(j, "loadNode", x)), Bit(IsFor(j, "pageNode", x)))
    BY ChangePosted
  <1>2. ~OwnIn(a, x)' /\ ~FirstIn(a, x)' /\ ~LoadIn(a, x)' /\ ~PageIn(a, x)'
    BY UncountedNext
  <1>3. /\ OwnIn(a, x) <=> IsFor(j, "loadBuffer", x)
        /\ FirstIn(a, x) <=> IsFor(j, "loadNode", x)
        /\ LoadIn(a, x) <=> IsFor(j, "loadNode", x) \/ IsFor(j, "pageNode", x)
        /\ PageIn(a, x) <=> IsFor(j, "pageNode", x)
        /\ ~(IsFor(j, "loadNode", x) /\ IsFor(j, "pageNode", x))
    BY DEF OwnIn, FirstIn, LoadIn, PageIn, In, IsFor, LoadSteps, HandedOn
  <1> QED
    BY <1>1, <1>2, <1>3, CountsNat DEF Changed, Bit

\* A job taken up
LEMMA TakesUp ==
  ASSUME Typed, NEW a \in Actor, OthersKept(a), queue # <<>>, queue' = Tail(queue),
         job'[a] = Head(queue),
         pc'[a] = "begin", Uncounted(a)
  PROVE  CountsSame
  <1> SUFFICES ASSUME NEW x \in Buffer
               PROVE  /\ Own(x)' = Own(x) /\ First(x)' = First(x)
                      /\ LoadsLeft(x)' = LoadsLeft(x) /\ Paging(x)' = Paging(x)
    BY DEF CountsSame, OwnSame, LoadsSame, PagingSame
  <1> DEFINE j == Head(queue)
  <1>1. Changed(a, x, - Bit(IsFor(j, "loadBuffer", x)), - Bit(IsFor(j, "loadNode", x)),
                - Bit(IsFor(j, "pageNode", x)))
    BY ChangeTaken
  <1>2. ~OwnIn(a, x) /\ ~FirstIn(a, x) /\ ~LoadIn(a, x) /\ ~PageIn(a, x)
    BY UncountedIn
  <1> HIDE DEF j
  <1>3. /\ OwnIn(a, x)' <=> IsFor(j, "loadBuffer", x)
        /\ FirstIn(a, x)' <=> IsFor(j, "loadNode", x)
        /\ LoadIn(a, x)' <=> IsFor(j, "loadNode", x) \/ IsFor(j, "pageNode", x)
        /\ PageIn(a, x)' <=> IsFor(j, "pageNode", x)
        /\ ~(IsFor(j, "loadNode", x) /\ IsFor(j, "pageNode", x))
    BY DEF OwnIn, FirstIn, LoadIn, PageIn, In, IsFor, LoadSteps, HandedOn, j
  <1> QED
    BY <1>1, <1>2, <1>3, CountsNat DEF Changed, Bit

LEMMA IdleCounts ==
  ASSUME Typed, NEW a \in Actor, OthersKept(a),
         \/ InitBegin(a) \/ UninitBegin(a) \/ UninitEnd(a) \/ WaitInit(a) \/ InitEnd(a) \/ Uninit(a)
         \/ AcquireOld(a) \/ CheckLoaded(a) \/ AcquireBack(a) \/ LoadBack(a)
         \/ Unacquire(a) \/ Drop(a) \/ Notify(a) \/ Advance(a)
  PROVE  CountsSame
  <1> USE DEF Typed, At, Goto, LoadSteps, Handled, shared, AfterUnacquire
  <1>1. CASE InitBegin(a) \/ UninitBegin(a) \/ UninitEnd(a) \/ WaitInit(a) \/ InitEnd(a) \/ Uninit(a)
    <2>1. pc[a] \notin LoadSteps /\ pc'[a] \notin LoadSteps /\ queue' = queue
      BY <1>1 DEF InitBegin, UninitBegin, UninitEnd, WaitInit, InitEnd, Uninit
    <2> QED
      BY <2>1, Idles DEF Uncounted
  <1>2. CASE AcquireOld(a) \/ CheckLoaded(a) \/ AcquireBack(a) \/ LoadBack(a)
    <2>1. pc[a] \notin LoadSteps /\ pc'[a] \notin LoadSteps /\ queue' = queue
      BY <1>2 DEF AcquireOld, CheckLoaded, AcquireBack, LoadBack
    <2> QED
      BY <2>1, Idles DEF Uncounted
  <1>3. CASE Unacquire(a) \/ Drop(a) \/ Notify(a) \/ Advance(a)
    <2>1. pc[a] \notin LoadSteps /\ pc'[a] \notin LoadSteps /\ queue' = queue
      BY <1>3 DEF Unacquire, Drop, Notify, Advance
    <2> QED
      BY <2>1, Idles DEF Uncounted
  <1> QED
    BY <1>1, <1>2, <1>3

LEMMA FreeCounts ==
  ASSUME Typed, NEW a \in Actor, OthersKept(a), FreeBuffer(a) \/ FreeNode(a)
  PROVE  CountsSame
  <1>1. Uncounted(a) /\ queue' = queue
    BY DEF FreeBuffer, FreeNode, Begins, Uncounted, LoadKind, shared
  <1>2. Uncounted(a)'
    BY DEF FreeBuffer, FreeNode, Begins, Uncounted, LoadKind, LoadSteps, Handled, Goto, Typed
  <1> QED
    BY <1>1, <1>2, Idles

LEMMA CancelCounts ==
  ASSUME Typed, NEW b \in Buffer, OthersKept(b), Cancel(b)
  PROVE  CountsSame
  <1> DEFINE j == [kind |-> "freeBuffer", of |-> b, order |-> buffer[b].counter]
  <1>1. pc[b] \notin LoadSteps /\ pc'[b] \notin LoadSteps
    BY DEF Cancel, At, Goto, LoadSteps, Typed, Actor
  <1>2. j \in Job
    BY Fields, JobMade DEF Typed, BufferKind
  <1>3. queue' = Append(queue, j) /\ j.kind \notin LoadKind
    BY DEF Cancel, Post, LoadKind
  <1> QED
    BY <1>1, <1>2, <1>3, Idles DEF Uncounted, Actor

LEMMA AbandonCounts ==
  ASSUME Typed, RefsInv, NEW a \in Actor, OthersKept(a), Abandon(a)
  PROVE  CountsSame
  <1> DEFINE n == NodeOf(a)
             j == [kind |-> "freeNode", of |-> n, order |-> node[n].counter]
  <1>1. pc[a] \notin LoadSteps /\ pc'[a] \notin LoadSteps
    BY DEF Abandon, At, Goto, LoadSteps, Typed, AfterUnacquire
  <1>2. n \in Buffer
    BY DEF Abandon, At, RefsInv, Unheld
  <1>3. node[n].counter \in Nat
    BY <1>2, Fields DEF Typed
  <1> HIDE DEF n
  <1>4. j \in Job
    BY <1>2, <1>3, JobMade DEF NodeKind
  <1>5. queue' = Append(queue, j) /\ j.kind \notin LoadKind
    BY DEF Abandon, Post, LoadKind, n
  <1> QED
    BY <1>1, <1>4, <1>5, Idles DEF Uncounted

LEMMA TakeCounts ==
  ASSUME Typed, NEW w \in Worker, OthersKept(w), Take(w)
  PROVE  CountsSame
  <1>1. queue # <<>> /\ queue' = Tail(queue) /\ job'[w] = Head(queue) /\ pc'[w] = "begin" /\ pc[w] \notin LoadSteps
    BY DEF Take, Typed, Actor, At, Goto, LoadSteps
  <1> QED
    BY <1>1, TakesUp DEF Uncounted, Actor

LEMMA PutOffCounts ==
  ASSUME Typed, Places, NEW a \in Actor, OthersKept(a), PostAgain(a), pc[a] \in {"begin", "look",
         "lookUnknown"}
  PROVE  CountsSame
  <1>1. job[a] \in Job
    <2>1. job[a] # NoJob
      BY DEF Places, Place, ClientAt, WorkerAt, Actor, LoadSteps
    <2> QED
      BY <2>1 DEF Typed, AnyJob
  <1>2. pc[a] # "begin" => job[a].kind = "loadBuffer"
    BY DEF Places, Place, HandlerAt
  <1>3. pc'[a] \notin LoadSteps /\ queue' = Append(queue, job[a])
    BY DEF PostAgain, Handled, Goto, Typed, LoadSteps
  <1> QED
    BY <1>1, <1>2, <1>3, PutsOff DEF Uncounted

\* A step that keeps its job, and its hold of the decoder if it has one
LEMMA WorkCounts ==
  ASSUME Typed, Places, Kinds, NEW a \in Actor, OthersKept(a),
         NodeBegin(a) \/ Decode(a) \/ BufferBegin(a) \/ Connect(a) \/ Publish(a)
  PROVE  CountsSame
  <1> USE DEF Typed, At, Goto, LoadSteps, shared, Returns, Begins
  <1>1. queue' = queue /\ job'[a] = job[a]
    BY DEF NodeBegin, Decode, BufferBegin, Connect, Publish
  <1>2. pc[a] \in LoadSteps /\ pc'[a] \in LoadSteps
    BY DEF NodeBegin, Decode, BufferBegin, Connect, Publish
  <1>3. HandedOn(a)' <=> HandedOn(a)
    <2>1. CASE NodeBegin(a) \/ BufferBegin(a)
      BY <2>1 DEF NodeBegin, BufferBegin, HandedOn
    <2>2. CASE Decode(a)
      BY <2>2 DEF Decode, HandedOn
    <2>3. CASE Connect(a)
      BY <2>3 DEF Connect, HandedOn
    <2>4. CASE Publish(a)
      BY <2>4 DEF Publish, HandedOn
    <2> QED
      BY <2>1, <2>2, <2>3, <2>4
  <1>4. ASSUME NEW x \in Buffer
        PROVE  PageIn(a, x)' <=> PageIn(a, x)
    <2>1. CASE NodeBegin(a)
      BY <1>1, <2>1 DEF NodeBegin, PageIn, In
    <2>2. CASE Decode(a)
      <3>1. job[a].kind = "pageNode"
        BY <2>2 DEF Decode, Kinds, KindAt
      <3>2. pc[a] = "decode" /\ pc'[a] \in {"next", "finish"}
        BY <2>2 DEF Decode
      <3> QED
        BY <1>1, <3>1, <3>2 DEF PageIn, In
    <2>3. CASE BufferBegin(a) \/ Connect(a)
      <3>1. job[a].kind = "loadBuffer"
        BY <2>3 DEF BufferBegin, Connect, Places, Place, HandlerAt
      <3> QED
        BY <1>1, <3>1 DEF PageIn, In
    <2>4. CASE Publish(a)
      BY <1>1, <2>4 DEF Publish, PageIn, In
    <2> QED
      BY <2>1, <2>2, <2>3, <2>4
  <1>5. \A x \in Buffer : Bit(PageIn(a, x)') = Bit(PageIn(a, x)) /\ Bit(PageIn(a, x)) \in Int
    BY <1>4 DEF Bit
  <1>6. /\ OwnSame /\ LoadsSame
        /\ \A x \in Buffer : Paging(x)' = Paging(x) + Bit(PageIn(a, x)') - Bit(PageIn(a, x))
    BY <1>1, <1>2, <1>3, Works
  <1>7. PagingSame
    BY <1>5, <1>6, CountsNat DEF PagingSame
  <1> QED
    BY <1>6, <1>7 DEF CountsSame

LEMMA LookCounts ==
  ASSUME Typed, Places, NEW a \in Actor, OthersKept(a), Look(a)
  PROVE  CountsSame
  <1> USE DEF Typed, At, Goto, LoadSteps, Returns
  <1>1. pc[a] \in {"look", "lookUnknown"}
    BY DEF Look
  <1>2. CASE PostAgain(a)
    BY <1>1, <1>2, PutOffCounts
  <1>3. CASE ~PostAgain(a)
    <2>1. /\ pc'[a] = "publish" /\ queue' = queue /\ job'[a] = job[a]
          /\ res'[a] = node[NodeOf(a)].result /\ node[NodeOf(a)].result # "busy"
      BY <1>3 DEF Look
    <2>2. ~HandedOn(a) /\ ~HandedOn(a)'
      BY <1>1, <2>1 DEF HandedOn
    <2>3. /\ OwnSame /\ LoadsSame
          /\ \A x \in Buffer : Paging(x)' = Paging(x) + Bit(PageIn(a, x)') - Bit(PageIn(a, x))
      BY <1>1, <2>1, <2>2, Works
    <2>4. \A x \in Buffer : ~PageIn(a, x) /\ ~PageIn(a, x)'
      BY <1>1, <2>1 DEF PageIn, In
    <2>5. PagingSame
      BY <2>3, <2>4, CountsNat DEF PagingSame, Bit
    <2> QED
      BY <2>3, <2>5 DEF CountsSame
  <1> QED
    BY <1>2, <1>3

\* The page to come is counted instead of the one that hands it on
LEMMA NextPageCounts ==
  ASSUME Typed, Places, Kinds, NEW a \in Actor, OthersKept(a), NextPage(a)
  PROVE  CountsSame
  <1> SUFFICES ASSUME NEW x \in Buffer
               PROVE  /\ Own(x)' = Own(x) /\ First(x)' = First(x)
                      /\ LoadsLeft(x)' = LoadsLeft(x) /\ Paging(x)' = Paging(x)
    BY DEF CountsSame, OwnSame, LoadsSame, PagingSame
  <1> DEFINE n == job[a].of
             j == [kind |-> "pageNode", of |-> n, order |-> node[n].counter]
  <1>1. /\ pc[a] = "next" /\ pc'[a] = "publish" /\ res'[a] = "busy" /\ job'[a] = job[a]
        /\ queue' = Append(queue, j)
    BY DEF NextPage, Typed, At, Goto, Returns, Post
  <1>2. job[a].kind \in {"loadNode", "pageNode"}
    BY <1>1 DEF Kinds, KindAt
  <1>3. n \in Buffer
    BY <1>1, JobTyped DEF LoadSteps
  <1>4. node[n].counter \in Nat
    BY <1>3, Fields
  <1> HIDE DEF n
  <1>5. j \in Job
    BY <1>3, <1>4, JobMade DEF NodeKind
  <1>6. Changed(a, x, Bit(IsFor(j, "loadBuffer", x)), Bit(IsFor(j, "loadNode", x)), Bit(IsFor(j, "pageNode", x)))
    BY <1>1, <1>5, ChangePosted
  <1>7. /\ ~IsFor(j, "loadBuffer", x) /\ ~IsFor(j, "loadNode", x)
        /\ IsFor(j, "pageNode", x) <=> x = n
    BY DEF IsFor
  <1>8. /\ ~OwnIn(a, x) /\ ~OwnIn(a, x)'
        /\ FirstIn(a, x)' <=> FirstIn(a, x)
        /\ LoadIn(a, x) <=> x = n
        /\ PageIn(a, x) <=> x = n
        /\ ~LoadIn(a, x)' /\ ~PageIn(a, x)'
    BY <1>1, <1>2 DEF OwnIn, FirstIn, LoadIn, PageIn, In, LoadSteps, HandedOn, n
  <1> HIDE DEF j
  <1> QED
    BY <1>6, <1>7, <1>8, CountsNat DEF Changed, Bit

LEMMA OpenCounts ==
  ASSUME Typed, Places, Kinds, NEW a \in Actor, OthersKept(a), Open(a)
  PROVE  /\ OwnSame /\ LoadsSame
         /\ \A x \in Buffer : Paging(x)' = Paging(x) + Bit(x = job[a].of /\ pc'[a] = "next")
  <1>1. /\ pc[a] = "open" /\ queue' = queue /\ job'[a] = job[a]
        /\ pc'[a] = "next" \/ (pc'[a] = "publish" /\ res'[a] # "busy")
    BY DEF Open, Typed, At, Goto, Returns
  <1>2. job[a].kind = "loadNode"
    BY <1>1 DEF Kinds, KindAt
  <1>3. HandedOn(a)' <=> HandedOn(a)
    BY <1>1 DEF HandedOn
  <1>4. /\ OwnSame /\ LoadsSame
        /\ \A x \in Buffer : Paging(x)' = Paging(x) + Bit(PageIn(a, x)') - Bit(PageIn(a, x))
    BY <1>1, <1>3, Works DEF LoadSteps
  <1>5. \A x \in Buffer : /\ ~PageIn(a, x)
                          /\ PageIn(a, x)' <=> x = job[a].of /\ pc'[a] = "next"
    BY <1>1, <1>2 DEF PageIn, In
  <1> QED
    BY <1>4, <1>5, CountsNat DEF Bit

LEMMA FinishCounts ==
  ASSUME Typed, Places, Kinds, NEW a \in Actor, OthersKept(a), Finish(a)
  PROVE  /\ OwnSame /\ LoadsSame
         /\ \A x \in Buffer : Paging(x)' = Paging(x) - Bit(x = job[a].of)
  <1>1. /\ pc[a] = "finish" /\ queue' = queue /\ job'[a] = job[a] /\ pc'[a] = "publish"
        /\ res[a] # "busy" /\ res'[a] \in {res[a], "success"}
    BY DEF Finish, Typed, At, Goto, Returns, Kinds, KindAt
  <1>2. job[a].kind = "pageNode"
    BY <1>1 DEF Kinds, KindAt
  <1>3. HandedOn(a)' <=> HandedOn(a)
    BY <1>1 DEF HandedOn
  <1>4. /\ OwnSame /\ LoadsSame
        /\ \A x \in Buffer : Paging(x)' = Paging(x) + Bit(PageIn(a, x)') - Bit(PageIn(a, x))
    BY <1>1, <1>3, Works DEF LoadSteps
  <1>5. \A x \in Buffer : /\ PageIn(a, x) <=> x = job[a].of
                          /\ ~PageIn(a, x)'
    BY <1>1, <1>2 DEF PageIn, In
  <1> QED
    BY <1>4, <1>5, CountsNat DEF Bit

LEMMA FencesCounts ==
  ASSUME Typed, NEW a \in Actor, OthersKept(a), Fences(a)
  PROVE  /\ PagingSame
         /\ \A x \in Buffer : /\ Own(x)' = Own(x) - Bit(IsFor(job[a], "loadBuffer", x))
                              /\ First(x)' = First(x) - Bit(IsFor(job[a], "loadNode", x))
                              /\ LoadsLeft(x)' = LoadsLeft(x) - Bit(LoadIn(a, x))
  <1>1. pc[a] = "fences" /\ pc'[a] = "tail" /\ queue' = queue /\ job'[a] = job[a]
    BY DEF Fences, Typed, At, Goto
  <1> SUFFICES ASSUME NEW x \in Buffer
               PROVE  /\ Paging(x)' = Paging(x)
                      /\ Own(x)' = Own(x) - Bit(IsFor(job[a], "loadBuffer", x))
                      /\ First(x)' = First(x) - Bit(IsFor(job[a], "loadNode", x))
                      /\ LoadsLeft(x)' = LoadsLeft(x) - Bit(LoadIn(a, x))
    BY DEF PagingSame
  <1>2. Changed(a, x, 0, 0, 0)
    BY <1>1, ChangeKept
  <1>3. Uncounted(a)'
    BY <1>1 DEF Uncounted, LoadSteps
  <1>4. ~OwnIn(a, x)' /\ ~FirstIn(a, x)' /\ ~LoadIn(a, x)' /\ ~PageIn(a, x)'
    BY <1>3, UncountedNext
  <1>5. /\ OwnIn(a, x) <=> IsFor(job[a], "loadBuffer", x)
        /\ FirstIn(a, x) <=> IsFor(job[a], "loadNode", x)
        /\ ~PageIn(a, x)
    BY <1>1 DEF OwnIn, FirstIn, PageIn, In, IsFor, LoadSteps
  <1> QED
    BY <1>2, <1>4, <1>5, CountsNat DEF Changed, Bit

LEMMA AcquireNewCounts ==
  ASSUME Typed, NEW b \in Buffer, OthersKept(b), AcquireNew(b)
  PROVE  /\ PagingSame
         /\ \A x \in Buffer : /\ Own(x)' = Own(x)
                              /\ First(x)' = First(x) + Bit(x = b)
                              /\ LoadsLeft(x)' = LoadsLeft(x) + Bit(x = b)
  <1> SUFFICES ASSUME NEW x \in Buffer
               PROVE  /\ Paging(x)' = Paging(x) /\ Own(x)' = Own(x)
                      /\ First(x)' = First(x) + Bit(x = b)
                      /\ LoadsLeft(x)' = LoadsLeft(x) + Bit(x = b)
    BY DEF PagingSame
  <1> DEFINE j == [kind |-> "loadNode", of |-> b, order |-> 0]
  <1>0. b \in Actor /\ pc[b] = "acquire"
    BY DEF Actor, AcquireNew, At
  <1>1. ~OwnIn(b, x) /\ ~FirstIn(b, x) /\ ~LoadIn(b, x) /\ ~PageIn(b, x)
    BY <1>0, UncountedIn DEF Uncounted, LoadSteps
  <1>2. CASE b \in config.wait
    <2>1. job'[b] = j /\ pc'[b] = "begin" /\ queue' = queue
      BY <1>0, <1>2 DEF AcquireNew, Typed, Goto
    <2>2. Changed(b, x, 0, 0, 0)
      BY <1>0, <2>1, ChangeKept
    <2>3. /\ ~OwnIn(b, x)' /\ ~PageIn(b, x)'
          /\ FirstIn(b, x)' <=> x = b
          /\ LoadIn(b, x)' <=> x = b
      BY <2>1 DEF OwnIn, FirstIn, LoadIn, PageIn, In, LoadSteps, HandedOn
    <2> QED
      BY <1>1, <2>2, <2>3, CountsNat DEF Changed, Bit
  <1>3. CASE b \notin config.wait
    <2>1. queue' = Append(queue, j) /\ pc'[b] = "check"
      BY <1>0, <1>3 DEF AcquireNew, Typed, Goto, Post
    <2>2. j \in Job
      BY JobMade DEF NodeKind
    <2>3. Changed(b, x, Bit(IsFor(j, "loadBuffer", x)), Bit(IsFor(j, "loadNode", x)), Bit(IsFor(j, "pageNode", x)))
      BY <1>0, <2>1, <2>2, ChangePosted
    <2>4. ~OwnIn(b, x)' /\ ~FirstIn(b, x)' /\ ~LoadIn(b, x)' /\ ~PageIn(b, x)'
      BY <2>1, UncountedNext DEF Uncounted, LoadSteps
    <2>5. ~IsFor(j, "loadBuffer", x) /\ ~IsFor(j, "pageNode", x) /\ (IsFor(j, "loadNode", x) <=> x = b)
      BY DEF IsFor
    <2> HIDE DEF j
    <2> QED
      BY <1>1, <2>3, <2>4, <2>5, CountsNat DEF Changed, Bit
  <1> QED
    BY <1>2, <1>3

LEMMA CheckLoadingCounts ==
  ASSUME Typed, NEW b \in Buffer, OthersKept(b), CheckLoading(b)
  PROVE  /\ PagingSame /\ LoadsSame
         /\ \A x \in Buffer : Own(x)' = Own(x) + Bit(x = b) /\ First(x)' = First(x)
  <1> SUFFICES ASSUME NEW x \in Buffer
               PROVE  /\ Paging(x)' = Paging(x) /\ Own(x)' = Own(x) + Bit(x = b)
                      /\ First(x)' = First(x) /\ LoadsLeft(x)' = LoadsLeft(x)
    BY DEF PagingSame, LoadsSame
  <1> DEFINE j == [kind |-> "loadBuffer", of |-> b, order |-> buffer[b].counter]
  <1>0. b \in Actor /\ pc[b] = "check"
    BY DEF Actor, CheckLoading, At
  <1>1. ~OwnIn(b, x) /\ ~FirstIn(b, x) /\ ~LoadIn(b, x) /\ ~PageIn(b, x)
    BY <1>0, UncountedIn DEF Uncounted, LoadSteps
  <1>2. CASE b \in config.wait
    <2>1. job'[b] = j /\ pc'[b] = "begin" /\ queue' = queue
      BY <1>0, <1>2 DEF CheckLoading, Typed, Goto
    <2>2. Changed(b, x, 0, 0, 0)
      BY <1>0, <2>1, ChangeKept
    <2>3. /\ OwnIn(b, x)' <=> x = b
          /\ ~FirstIn(b, x)' /\ ~LoadIn(b, x)' /\ ~PageIn(b, x)'
      BY <2>1 DEF OwnIn, FirstIn, LoadIn, PageIn, In, LoadSteps, HandedOn
    <2> QED
      BY <1>1, <2>2, <2>3, CountsNat DEF Changed, Bit
  <1>3. CASE b \notin config.wait
    <2>1. queue' = Append(queue, j) /\ pc'[b] = "release"
      BY <1>0, <1>3 DEF CheckLoading, Typed, Goto, Post
    <2>2. j \in Job
      BY Fields, JobMade DEF BufferKind
    <2>3. Changed(b, x, Bit(IsFor(j, "loadBuffer", x)), Bit(IsFor(j, "loadNode", x)), Bit(IsFor(j, "pageNode", x)))
      BY <1>0, <2>1, <2>2, ChangePosted
    <2>4. ~OwnIn(b, x)' /\ ~FirstIn(b, x)' /\ ~LoadIn(b, x)' /\ ~PageIn(b, x)'
      BY <2>1, UncountedNext DEF Uncounted, LoadSteps
    <2>5. (IsFor(j, "loadBuffer", x) <=> x = b) /\ ~IsFor(j, "pageNode", x) /\ ~IsFor(j, "loadNode", x)
      BY DEF IsFor
    <2> HIDE DEF j
    <2> QED
      BY <1>1, <2>3, <2>4, <2>5, CountsNat DEF Changed, Bit
  <1> QED
    BY <1>2, <1>3

\* Every other step leaves the counts alone
LEMMA OtherCounts ==
  ASSUME Typed, Places, RefsInv, Kinds, NEW a \in Actor, StepOf(a),
         ~(a \in Buffer /\ (AcquireNew(a) \/ CheckLoading(a))), ~Open(a), ~Finish(a), ~Fences(a)
  PROVE  CountsSame
  <1>1. OthersKept(a)
    BY OthersAlone
  <1>2. ASSUME OutOfTurn(a)
        PROVE  CountsSame
    BY <1>1, <1>2, PutOffCounts DEF OutOfTurn, At
  <1>3. CASE a \in Buffer /\ (InitBegin(a) \/ UninitBegin(a) \/ Client(a))
    BY <1>1, <1>3, IdleCounts, CancelCounts DEF Client
  <1>4. CASE a \in Worker /\ JobThread(a)
    BY <1>1, <1>4, IdleCounts, FreeCounts, TakeCounts DEF JobThread
  <1>5. CASE Process(a)
    BY <1>1, <1>2, <1>5, IdleCounts, FreeCounts, WorkCounts, LookCounts, NextPageCounts,
       AbandonCounts DEF Process
  <1> QED
    BY <1>3, <1>4, <1>5 DEF StepOf

LEMMA BeforeKept ==
  ASSUME Typed, NEW a \in Actor, StepOf(a), NEW b \in Buffer, pc'[b] \in Before
  PROVE  pc[b] \in Before /\ ~(b = a /\ AcquireNew(a))
  <1>1. OthersKept(a)
    BY OthersAlone
  <1>2. CASE b # a
    BY <1>1, <1>2 DEF OthersKept, Actor
  <1>3. CASE b = a
    <2> USE <1>3, ResourceAssumption DEF Typed, Before, At, Goto, Handled, PostAgain, Actor,
           AfterUnacquire
    <2>1. a \in Buffer /\ a \notin Worker /\ pc'[a] \in {"start", "acquire"}
      OBVIOUS
    <2>2. ~(UninitBegin(a) \/ UninitEnd(a) \/ WaitInit(a) \/ InitEnd(a) \/ Uninit(a) \/ Cancel(a))
      BY <2>1 DEF UninitBegin, UninitEnd, WaitInit, InitEnd, Uninit, Cancel
    <2>3. ~(AcquireOld(a) \/ AcquireNew(a) \/ AcquireBack(a) \/ CheckLoaded(a) \/ CheckLoading(a) \/ LoadBack(a))
      BY <2>1 DEF AcquireOld, AcquireNew, AcquireBack, CheckLoaded, CheckLoading, LoadBack
    <2>4. ~(OutOfTurn(a) \/ NodeBegin(a) \/ Open(a) \/ Decode(a) \/ NextPage(a) \/ Finish(a) \/ FreeNode(a))
      BY <2>1 DEF OutOfTurn, NodeBegin, Open, Decode, NextPage, Finish, FreeNode
    <2>5. ~(BufferBegin(a) \/ Connect(a) \/ Look(a) \/ Publish(a) \/ Fences(a) \/ Advance(a))
      BY <2>1 DEF BufferBegin, Connect, Look, Publish, Fences, Advance
    <2>6. ~(Unacquire(a) \/ Drop(a) \/ Abandon(a))
      BY <2>1 DEF Unacquire, Drop, Abandon
    <2>7. InitBegin(a)
      BY <2>1, <2>2, <2>3, <2>4, <2>5, <2>6 DEF StepOf, Client, Process
    <2> QED
      BY <2>3, <2>7 DEF InitBegin
  <1> QED
    BY <1>2, <1>3

\* One load of a node at a time
LEMMA LoadOnceKept ==
  ASSUME Typed, Places, RefsInv, Kinds, LoadOnce, NEW a \in Actor, StepOf(a)
  PROVE  LoadOnce'
  <1> SUFFICES ASSUME NEW n \in Buffer
               PROVE  LoadsLeft(n)' <= 1 /\ (pc'[n] \in Before => LoadsLeft(n)' = 0)
    BY DEF LoadOnce
  <1>1. OthersKept(a)
    BY OthersAlone
  <1>2. LoadsLeft(n) \in Nat /\ LoadsLeft(n) <= 1 /\ (pc[n] \in Before => LoadsLeft(n) = 0)
    BY CountsNat DEF LoadOnce
  <1>3. CASE a \in Buffer /\ AcquireNew(a)
    <2>1. LoadsLeft(n)' = LoadsLeft(n) + Bit(n = a)
      BY <1>1, <1>3, AcquireNewCounts
    <2>2. pc[a] \in Before
      BY <1>3 DEF AcquireNew, At, Before
    <2>3. pc'[n] \in Before => pc[n] \in Before /\ n # a
      BY <1>3, BeforeKept
    <2> QED
      BY <1>2, <2>1, <2>2, <2>3 DEF Bit
  <1>4. CASE Fences(a)
    <2>1. LoadsLeft(n)' = LoadsLeft(n) - Bit(LoadIn(a, n))
      BY <1>1, <1>4, FencesCounts
    <2>2. LoadIn(a, n) => LoadsLeft(n) >= 1
      <3>1. LoadIn(a, n) => a \in LoadersAt(n)
        BY DEF LoadersAt
      <3>2. LoadIn(a, n) => Cardinality(LoadersAt(n)) # 0
        BY <3>1, LoadsLeftIs, FS_EmptySet
      <3> QED
        BY <3>2, LoadsLeftIs, QueuedNat
    <2>3. pc'[n] \in Before => pc[n] \in Before
      BY BeforeKept
    <2> QED
      BY <1>2, <2>1, <2>2, <2>3 DEF Bit
  <1>5. CASE ~(a \in Buffer /\ AcquireNew(a)) /\ ~Fences(a)
    <2>1. LoadsLeft(n)' = LoadsLeft(n)
      BY <1>1, <1>5, OtherCounts, OpenCounts, FinishCounts, CheckLoadingCounts DEF CountsSame, LoadsSame
    <2>2. pc'[n] \in Before => pc[n] \in Before
      BY BeforeKept
    <2> QED
      BY <1>2, <2>1, <2>2
  <1> QED
    BY <1>3, <1>4, <1>5

LEMMA NoLoad ==
  ASSUME Typed, NEW n, LoadsLeft(n) = 0
  PROVE  Paging(n) = 0 /\ \A a \in Actor : ~LoadIn(a, n)
  <1>1. Queued("pageNode", n) = 0 /\ LoadersAt(n) = {}
    BY LoadsLeftIs, QueuedNat, FS_EmptySet
  <1>2. \A a \in Actor : ~LoadIn(a, n)
    BY <1>1 DEF LoadersAt
  <1>3. \A a \in Actor : PageIn(a, n) => LoadIn(a, n)
    BY DEF PageIn, In, LoadIn, HandedOn, LoadSteps
  <1> DEFINE S == {"begin", "decode", "next", "finish"}
  <1>4. RunningAt("pageNode", n, S) = {} /\ RunningAt("loadNode", n, {"next"}) = {}
    BY <1>2, <1>3 DEF RunningAt, PageIn, In
  <1>5. Running("pageNode", n, S) = 0 /\ Running("loadNode", n, {"next"}) = 0
    BY <1>4, FS_EmptySet DEF Running, RunningAt
  <1> QED
    BY <1>1, <1>2, <1>5 DEF Paging

LEMMA LoadAlone ==
  ASSUME Typed, LoadOnce, NEW n \in Buffer, NEW a \in Actor, LoadIn(a, n)
  PROVE  /\ LoadsLeft(n) = 1
         /\ Queued("loadNode", n) = 0 /\ Queued("pageNode", n) = 0
         /\ \A c \in Actor \ {a} : ~LoadIn(c, n)
         /\ ~PageIn(a, n) => Paging(n) = 0
         /\ PageIn(a, n) => Paging(n) # 0
  <1>1. a \in LoadersAt(n)
    BY DEF LoadersAt
  <1>2. Cardinality(LoadersAt(n)) # 0
    BY <1>1, LoadsLeftIs, FS_EmptySet
  <1>3. LoadsLeft(n) = 1 /\ Queued("loadNode", n) = 0 /\ Queued("pageNode", n) = 0 /\ Cardinality(LoadersAt(n)) = 1
    BY <1>2, LoadsLeftIs, QueuedNat DEF LoadOnce
  <1>4. LoadersAt(n) = {a}
    BY <1>1, <1>3, LoadsLeftIs, FS_Singleton
  <1>5. \A c \in Actor \ {a} : ~LoadIn(c, n)
    BY <1>4 DEF LoadersAt
  <1>6. \A c \in Actor : PageIn(c, n) => LoadIn(c, n)
    BY DEF PageIn, In, LoadIn, HandedOn, LoadSteps
  <1> DEFINE S == {"begin", "decode", "next", "finish"}
  <1>7. ASSUME ~PageIn(a, n)
        PROVE  Paging(n) = 0
    <2>1. RunningAt("pageNode", n, S) = {} /\ RunningAt("loadNode", n, {"next"}) = {}
      BY <1>5, <1>6, <1>7 DEF RunningAt, PageIn, In
    <2>2. Running("pageNode", n, S) = 0 /\ Running("loadNode", n, {"next"}) = 0
      BY <2>1, FS_EmptySet DEF Running, RunningAt
    <2> QED
      BY <1>3, <2>2 DEF Paging
  <1>8. ASSUME PageIn(a, n)
        PROVE  Paging(n) # 0
    <2>1. In(a, "pageNode", n, S) \/ In(a, "loadNode", n, {"next"})
      BY <1>8 DEF PageIn
    <2> QED
      BY <1>3, <2>1, RunningNat DEF Paging
  <1> QED
    BY <1>3, <1>5, <1>7, <1>8

LEMMA DecoderSame ==
  ASSUME Typed, Places, RefsInv, NEW a \in Actor, StepOf(a),
         ~(a \in Buffer /\ AcquireNew(a)), ~Open(a), ~Finish(a), NEW n \in Buffer
  PROVE  node'[n].decoder = node[n].decoder
  <1>0. node \in [Buffer -> NodeT]
    BY DEF Typed
  <1>1. CASE a \in Buffer /\ (InitBegin(a) \/ UninitBegin(a) \/ UninitEnd(a) \/ WaitInit(a) \/ InitEnd(a) \/ Uninit(a)
                            \/ Cancel(a) \/ CheckLoaded(a) \/ CheckLoading(a) \/ LoadBack(a))
    BY <1>1 DEF InitBegin, UninitBegin, UninitEnd, WaitInit, InitEnd, Uninit, Cancel, shared,
       CheckLoaded, CheckLoading, LoadBack
  <1>2. CASE a \in Worker /\ JobThread(a)
    BY <1>2 DEF JobThread, Take, FreeBuffer, Notify, shared
  <1>3. CASE OutOfTurn(a) \/ NodeBegin(a) \/ BufferBegin(a) \/ Connect(a) \/ Look(a) \/ Fences(a)
    BY <1>3 DEF OutOfTurn, NodeBegin, BufferBegin, Connect, Look, Fences, shared
  <1>4. CASE AcquireOld(a) /\ a \in Buffer
    <2>1. tree \in Buffer
      BY <1>4 DEF AcquireOld, Typed
    <2> QED
      BY <1>0, <1>4, <2>1 DEF AcquireOld, NodeT
  <1>5. CASE AcquireBack(a) /\ a \in Buffer
    <2>1. node' = node \/ node' = [node EXCEPT ![a].state = "freed"]
      BY <1>5 DEF AcquireBack
    <2> QED
      BY <1>0, <1>5, <2>1 DEF NodeT
  <1>6. CASE Decode(a) \/ NextPage(a) \/ FreeNode(a) \/ Publish(a) \/ Advance(a)
    <2>1. job[a].of \in Buffer
      BY <1>6, JobTyped DEF Decode, NextPage, FreeNode, Publish, Advance, At, Begins, LoadSteps
    <2>2. CASE Decode(a)
      <3>1. node' = node \/ node' = [node EXCEPT ![job[a].of].pages = node[job[a].of].pages + 1]
        BY <2>2 DEF Decode
      <3> QED
        BY <1>0, <2>1, <3>1 DEF NodeT
    <2>3. CASE NextPage(a)
      BY <1>0, <2>1, <2>3 DEF NextPage, NodeT
    <2>4. CASE FreeNode(a)
      BY <1>0, <2>1, <2>4 DEF FreeNode, NodeT
    <2>5. CASE Publish(a)
      BY <1>0, <2>1, <2>5 DEF Publish, NodeT
    <2>6. CASE Advance(a)
      BY <1>0, <2>1, <2>6 DEF Advance, NodeT
    <2> QED
      BY <1>6, <2>2, <2>3, <2>4, <2>5, <2>6
  <1>7. CASE Unacquire(a) \/ Drop(a) \/ Abandon(a)
    <2>1. NodeOf(a) \in Buffer
      BY <1>7, NodeOfTyped DEF Unacquire, Drop, Abandon, At, UnacquireSteps
    <2>2. CASE Unacquire(a)
      BY <1>0, <2>1, <2>2 DEF Unacquire, NodeT
    <2>3. CASE Drop(a)
      <3>1. node' = node \/ node' = [node EXCEPT ![NodeOf(a)].state = "freed"]
        BY <2>3 DEF Drop
      <3> QED
        BY <1>0, <2>1, <3>1 DEF NodeT
    <2>4. CASE Abandon(a)
      BY <1>0, <2>1, <2>4 DEF Abandon, NodeT
    <2> QED
      BY <1>7, <2>2, <2>3, <2>4
  <1> QED
    BY <1>1, <1>2, <1>3, <1>4, <1>5, <1>6, <1>7 DEF StepOf, Client, Process

\* The decoder has one owner
LEMMA DecoderKept ==
  ASSUME Typed, Places, RefsInv, Kinds, LoadOnce, DecoderOwned, NEW a \in Actor, StepOf(a)
  PROVE  DecoderOwned'
  <1> SUFFICES ASSUME NEW n \in Buffer
               PROVE  Paging(n)' = IF node'[n].decoder = "carried" THEN 1 ELSE 0
    BY DEF DecoderOwned, Paging
  <1>1. OthersKept(a)
    BY OthersAlone
  <1>2. Paging(n) \in Nat /\ Paging(n) = IF node[n].decoder = "carried" THEN 1 ELSE 0
    BY CountsNat DEF DecoderOwned, Paging
  <1>3. CASE a \in Buffer /\ AcquireNew(a)
    <2>1. Paging(n)' = Paging(n)
      BY <1>1, <1>3, AcquireNewCounts DEF PagingSame
    <2>2. node' = [node EXCEPT ![a] = [NewNode("live") EXCEPT !.counter = 1]]
      BY <1>3 DEF AcquireNew
    <2>3. n # a => node'[n].decoder = node[n].decoder
      BY <2>2 DEF Typed
    <2>4. node'[a].decoder = "none"
      BY <1>3, <2>2 DEF Typed, NewNode
    <2>5. pc[a] \in Before
      BY <1>3 DEF AcquireNew, At, Before
    <2>6. n = a => Paging(n) = 0
      BY <2>5, NoLoad DEF LoadOnce
    <2> QED
      BY <1>2, <2>1, <2>3, <2>4, <2>6
  <1>4. CASE Open(a)
    <2>1. Paging(n)' = Paging(n) + Bit(n = job[a].of /\ pc'[a] = "next")
      BY <1>1, <1>4, OpenCounts
    <2>2. pc[a] = "open"
      BY <1>4 DEF Open, At
    <2>3. job[a].kind = "loadNode" /\ job[a].of \in Buffer
      BY <2>2, JobTyped DEF Kinds, KindAt, LoadSteps
    <2>4. LoadIn(a, job[a].of) /\ ~PageIn(a, job[a].of)
      BY <2>2, <2>3 DEF LoadIn, PageIn, In, LoadSteps, HandedOn
    <2>5. n = job[a].of => Paging(n) = 0
      BY <2>3, <2>4, LoadAlone
    <2>6. n # job[a].of => node'[n].decoder = node[n].decoder
      BY <1>4 DEF Open, Typed, NodeT
    <2>7. CASE node' = node /\ pc'[a] = "publish"
      BY <1>2, <2>1, <2>7 DEF Bit
    <2>8. CASE node' = [node EXCEPT ![job[a].of].decoder = "lost"] /\ pc'[a] = "publish"
      <3>1. node'[job[a].of].decoder = "lost"
        BY <2>3, <2>8 DEF Typed, NodeT
      <3> QED
        BY <1>2, <2>1, <2>5, <2>6, <2>8, <3>1 DEF Bit
    <2>9. CASE /\ node' = [node EXCEPT ![job[a].of].known = TRUE, ![job[a].of].decoder = Carried]
               /\ pc'[a] = IF config.decode THEN "next" ELSE "publish"
      <3>1. node'[job[a].of].decoder = Carried
        BY <2>3, <2>9 DEF Typed, NodeT
      <3>2. CASE config.decode
        <4>1. pc'[a] = "next" /\ node'[job[a].of].decoder = "carried"
          BY <2>9, <3>1, <3>2 DEF Carried
        <4> QED
          BY <1>2, <2>1, <2>5, <2>6, <4>1 DEF Bit
      <3>3. CASE ~config.decode
        <4>1. pc'[a] = "publish" /\ node'[job[a].of].decoder = "none"
          BY <2>9, <3>1, <3>3 DEF Carried
        <4> QED
          BY <1>2, <2>1, <2>5, <2>6, <4>1 DEF Bit
      <3> QED
        BY <3>2, <3>3
    <2> QED
      BY <1>4, <2>7, <2>8, <2>9 DEF Open, Typed, Goto, Carried
  <1>5. CASE Finish(a)
    <2>1. Paging(n)' = Paging(n) - Bit(n = job[a].of)
      BY <1>1, <1>5, FinishCounts
    <2>2. pc[a] = "finish"
      BY <1>5 DEF Finish, At
    <2>3. job[a].kind = "pageNode" /\ job[a].of \in Buffer
      BY <2>2, JobTyped DEF Kinds, KindAt, LoadSteps
    <2>4. LoadIn(a, job[a].of) /\ PageIn(a, job[a].of)
      BY <2>2, <2>3 DEF LoadIn, PageIn, In, LoadSteps, HandedOn
    <2>5. n = job[a].of => Paging(n) # 0
      BY <2>3, <2>4, LoadAlone
    <2>6. n # job[a].of => node'[n].decoder = node[n].decoder
      BY <1>5 DEF Finish, Typed, NodeT
    <2>7. node'[job[a].of].decoder = "none"
      BY <1>5, <2>3 DEF Finish, Typed, NodeT
    <2> QED
      BY <1>2, <2>1, <2>5, <2>6, <2>7 DEF Bit
  <1>6. CASE ~(a \in Buffer /\ AcquireNew(a)) /\ ~Open(a) /\ ~Finish(a)
    <2>1. Paging(n)' = Paging(n)
      BY <1>1, <1>6, OtherCounts, FencesCounts, CheckLoadingCounts DEF CountsSame, PagingSame
    <2>2. node'[n].decoder = node[n].decoder
      BY <1>6, DecoderSame
    <2> QED
      BY <1>2, <2>1, <2>2
  <1> QED
    BY <1>3, <1>4, <1>5, <1>6

---------------------------------------------------------------------------
(* Results and connectors *)

LEMMA ResultSame ==
  ASSUME Typed, Places, RefsInv, NEW a \in Actor, StepOf(a),
         ~(a \in Buffer /\ AcquireNew(a)), ~Publish(a), ~Abandon(a), NEW n \in Buffer
  PROVE  node'[n].result = node[n].result
  <1>0. node \in [Buffer -> NodeT]
    BY DEF Typed
  <1>1. CASE a \in Buffer /\ (InitBegin(a) \/ UninitBegin(a) \/ UninitEnd(a) \/ WaitInit(a) \/ InitEnd(a) \/ Uninit(a)
                            \/ Cancel(a) \/ CheckLoaded(a) \/ CheckLoading(a) \/ LoadBack(a))
    BY <1>1 DEF InitBegin, UninitBegin, UninitEnd, WaitInit, InitEnd, Uninit, Cancel, shared,
       CheckLoaded, CheckLoading, LoadBack
  <1>2. CASE a \in Worker /\ JobThread(a)
    BY <1>2 DEF JobThread, Take, FreeBuffer, Notify, shared
  <1>3. CASE OutOfTurn(a) \/ NodeBegin(a) \/ BufferBegin(a) \/ Connect(a) \/ Look(a) \/ Fences(a)
    BY <1>3 DEF OutOfTurn, NodeBegin, BufferBegin, Connect, Look, Fences, shared
  <1>4. CASE AcquireOld(a) /\ a \in Buffer
    <2>1. tree \in Buffer
      BY <1>4 DEF AcquireOld, Typed
    <2> QED
      BY <1>0, <1>4, <2>1 DEF AcquireOld, NodeT
  <1>5. CASE AcquireBack(a) /\ a \in Buffer
    <2>1. node' = node \/ node' = [node EXCEPT ![a].state = "freed"]
      BY <1>5 DEF AcquireBack
    <2> QED
      BY <1>0, <1>5, <2>1 DEF NodeT
  <1>6. CASE Open(a) \/ Finish(a) \/ Decode(a) \/ NextPage(a) \/ FreeNode(a) \/ Advance(a)
    <2>1. job[a].of \in Buffer
      BY <1>6, JobTyped DEF Open, Finish, Decode, NextPage, FreeNode, Advance, At, Begins, LoadSteps
    <2>a. CASE Open(a)
      <3>1. \/ node' = node \/ node' = [node EXCEPT ![job[a].of].decoder = "lost"]
            \/ node' = [node EXCEPT ![job[a].of].known = TRUE, ![job[a].of].decoder = Carried]
        BY <2>a DEF Open, Carried
      <3> QED
        BY <1>0, <2>1, <3>1 DEF NodeT
    <2>b. CASE Finish(a)
      BY <1>0, <2>1, <2>b DEF Finish, NodeT
    <2>2. CASE Decode(a)
      <3>1. node' = node \/ node' = [node EXCEPT ![job[a].of].pages = node[job[a].of].pages + 1]
        BY <2>2 DEF Decode
      <3> QED
        BY <1>0, <2>1, <3>1 DEF NodeT
    <2>3. CASE NextPage(a)
      BY <1>0, <2>1, <2>3 DEF NextPage, NodeT
    <2>4. CASE FreeNode(a)
      BY <1>0, <2>1, <2>4 DEF FreeNode, NodeT
    <2>6. CASE Advance(a)
      BY <1>0, <2>1, <2>6 DEF Advance, NodeT
    <2> QED
      BY <1>6, <2>a, <2>b, <2>2, <2>3, <2>4, <2>6
  <1>7. CASE Unacquire(a) \/ Drop(a)
    <2>1. NodeOf(a) \in Buffer
      BY <1>7, NodeOfTyped DEF Unacquire, Drop, At, UnacquireSteps
    <2>2. CASE Unacquire(a)
      BY <1>0, <2>1, <2>2 DEF Unacquire, NodeT
    <2>3. CASE Drop(a)
      <3>1. node' = node \/ node' = [node EXCEPT ![NodeOf(a)].state = "freed"]
        BY <2>3 DEF Drop
      <3> QED
        BY <1>0, <2>1, <3>1 DEF NodeT
    <2> QED
      BY <1>7, <2>2, <2>3
  <1> QED
    BY <1>1, <1>2, <1>3, <1>4, <1>5, <1>6, <1>7 DEF StepOf, Client, Process

LEMMA BufferSame ==
  ASSUME Typed, Places, RefsInv, NEW a \in Actor, StepOf(a),
         ~(a \in Buffer /\ (CheckLoaded(a) \/ LoadBack(a) \/ Cancel(a))), ~Connect(a), ~Publish(a), NEW b \in Buffer
  PROVE  buffer'[b].result = buffer[b].result /\ buffer'[b].connector = buffer[b].connector
  <1>0. buffer \in [Buffer -> BufferT]
    BY DEF Typed
  <1>1. CASE a \in Buffer /\ (InitBegin(a) \/ UninitBegin(a) \/ UninitEnd(a) \/ WaitInit(a) \/ InitEnd(a) \/ Uninit(a))
    BY <1>1 DEF InitBegin, UninitBegin, UninitEnd, WaitInit, InitEnd, Uninit, shared
  <1>2. CASE a \in Worker /\ JobThread(a)
    BY <1>2 DEF JobThread, Take, FreeBuffer, Notify, shared
  <1>3. CASE OutOfTurn(a) \/ NodeBegin(a) \/ BufferBegin(a) \/ Look(a) \/ Fences(a) \/ Open(a) \/ Decode(a)
    BY <1>3 DEF OutOfTurn, NodeBegin, BufferBegin, Look, Fences, Open, Decode, shared
  <1>4. CASE NextPage(a) \/ Finish(a) \/ FreeNode(a) \/ Drop(a) \/ Abandon(a)
    BY <1>4 DEF NextPage, Finish, FreeNode, Drop, Abandon
  <1>5. CASE a \in Buffer /\ (AcquireOld(a) \/ AcquireNew(a))
    BY <1>0, <1>5 DEF AcquireOld, AcquireNew, BufferT
  <1>6. CASE a \in Buffer /\ AcquireBack(a)
    <2>1. buffer' = buffer \/ buffer' = [buffer EXCEPT ![a].holds = FALSE]
      BY <1>6 DEF AcquireBack
    <2> QED
      BY <1>0, <1>6, <2>1 DEF BufferT
  <1>7. CASE a \in Buffer /\ CheckLoading(a)
    BY <1>0, <1>7 DEF CheckLoading, BufferT
  <1>8. CASE Unacquire(a)
    <2>1. Of(a) \in Buffer
      BY <1>8, JobTyped DEF Unacquire, At, UnacquireSteps
    <2> QED
      BY <1>0, <1>8, <2>1 DEF Unacquire, BufferT
  <1>9. CASE Advance(a)
    <2>1. job[a].of \in Buffer
      BY <1>9, JobTyped DEF Advance, At
    <2> QED
      BY <1>0, <1>9, <2>1 DEF Advance, BufferT
  <1> QED
    BY <1>1, <1>2, <1>3, <1>4, <1>5, <1>6, <1>7, <1>8, <1>9 DEF StepOf, Client, Process

\* What the other steps make of them
LEMMA PublishEdits ==
  ASSUME Typed, Places, NEW a \in Actor, Publish(a)
  PROVE  /\ job[a].of \in Buffer
         /\ job[a].kind = "loadBuffer" =>
              /\ node' = node
              /\ \A b \in Buffer : /\ buffer'[b].connector = buffer[b].connector
                                    /\ buffer'[b].result = IF b = job[a].of /\ buffer[b].result = "busy" THEN res[a]
                                                           ELSE buffer[b].result
         /\ job[a].kind # "loadBuffer" =>
              /\ buffer' = buffer
              /\ \A n \in Buffer : /\ node'[n].refs = node[n].refs
                                    /\ node'[n].result = IF n = job[a].of /\ node[n].result = "busy" THEN res[a]
                                                         ELSE node[n].result
         /\ pc[a] = "publish" /\ pc'[a] = "fences" /\ job'[a] = job[a] /\ res'[a] = res[a]
  <1>1. job[a].of \in Buffer /\ pc[a] = "publish"
    BY JobTyped DEF Publish, At, LoadSteps
  <1>2. pc'[a] = "fences" /\ job'[a] = job[a] /\ res'[a] = res[a]
    BY DEF Publish, Typed, Goto
  <1>3. CASE job[a].kind = "loadBuffer"
    <2> DEFINE x == job[a].of
               r == IF buffer[x].result = "busy" THEN res[a] ELSE buffer[x].result
    <2>1. buffer' = [buffer EXCEPT ![x].result = r] /\ node' = node
      BY <1>3 DEF Publish
    <2>2. buffer \in [Buffer -> BufferT] /\ x \in Buffer
      BY <1>1 DEF Typed
    <2> HIDE DEF r
    <2>3. \A b \in Buffer : /\ buffer'[b].connector = buffer[b].connector
                            /\ buffer'[b].result = IF b = x THEN r ELSE buffer[b].result
      BY <2>1, <2>2 DEF BufferT
    <2> QED
      BY <1>1, <1>2, <1>3, <2>1, <2>3 DEF r
  <1>4. CASE job[a].kind # "loadBuffer"
    <2> DEFINE x == job[a].of
               r == IF node[x].result = "busy" THEN res[a] ELSE node[x].result
    <2>1. node' = [node EXCEPT ![x].result = r] /\ buffer' = buffer
      BY <1>4 DEF Publish
    <2>2. node \in [Buffer -> NodeT] /\ x \in Buffer
      BY <1>1 DEF Typed
    <2> HIDE DEF r
    <2>3. \A b \in Buffer : /\ node'[b].refs = node[b].refs
                            /\ node'[b].result = IF b = x THEN r ELSE node[b].result
      BY <2>1, <2>2 DEF NodeT
    <2> QED
      BY <1>1, <1>2, <1>4, <2>1, <2>3 DEF r
  <1> QED
    BY <1>3, <1>4

LEMMA ConnectEdits ==
  ASSUME Typed, Places, NEW a \in Actor, Connect(a)
  PROVE  /\ job[a].of \in Buffer /\ job[a].kind = "loadBuffer" /\ pc[a] = "connect" /\ job'[a] = job[a]
         /\ \A b \in Buffer : buffer'[b].result = buffer[b].result
         /\ \A b \in Buffer : b # job[a].of => buffer'[b].connector = buffer[b].connector
         /\ buffer'[job[a].of].connector \/ ~buffer[job[a].of].connector
         /\ \/ pc'[a] = "look" /\ buffer'[job[a].of].connector
            \/ pc'[a] = "lookUnknown" /\ buffer' = buffer
            \/ pc'[a] = "publish" /\ res'[a] \notin {"success", "busy"} /\ buffer' = buffer
  <1>1. job[a].of \in Buffer /\ pc[a] = "connect" /\ job'[a] = job[a]
    BY JobTyped DEF Connect, At, LoadSteps
  <1>2. job[a].kind = "loadBuffer"
    BY <1>1 DEF Places, Place, HandlerAt
  <1>3. buffer' = buffer \/ buffer' = [buffer EXCEPT ![job[a].of].connector = TRUE]
    BY DEF Connect
  <1>4. /\ \A b \in Buffer : buffer'[b].result = buffer[b].result
        /\ \A b \in Buffer : b # job[a].of => buffer'[b].connector = buffer[b].connector
        /\ buffer'[job[a].of].connector \/ ~buffer[job[a].of].connector
    <2>1. buffer \in [Buffer -> BufferT]
      BY DEF Typed
    <2>2. CASE buffer' = buffer
      BY <1>1, <2>1, <2>2 DEF BufferT
    <2>3. CASE buffer' = [buffer EXCEPT ![job[a].of].connector = TRUE]
      BY <1>1, <2>1, <2>3 DEF BufferT
    <2> QED
      BY <1>3, <2>2, <2>3
  <1>5. \/ pc'[a] = "look" /\ buffer'[job[a].of].connector
        \/ pc'[a] = "lookUnknown" /\ buffer' = buffer
        \/ pc'[a] = "publish" /\ res'[a] \notin {"success", "busy"} /\ buffer' = buffer
    <2> USE DEF Goto, Returns
    <2>1. buffer \in [Buffer -> BufferT] /\ pc \in [Actor -> Steps] /\ res \in [Actor -> AnyResult]
      BY DEF Typed
    <2>2. CASE buffer' = [buffer EXCEPT ![job[a].of].connector = TRUE] /\ Goto(a, "look")
      <3>1. buffer'[job[a].of].connector
        BY <1>1, <2>1, <2>2 DEF BufferT
      <3> QED
        BY <2>1, <2>2, <3>1
    <2>3. CASE buffer[job[a].of].connector /\ Goto(a, "look") /\ buffer' = buffer
      BY <2>1, <2>3
    <2>4. CASE Goto(a, "publish") /\ buffer' = buffer /\ \E r : r \notin {"success", "busy"} /\ Returns(a, r)
      BY <2>1, <2>4
    <2>5. CASE Goto(a, "lookUnknown") /\ buffer' = buffer
      BY <2>1, <2>5
    <2> QED
      BY <2>2, <2>3, <2>4, <2>5 DEF Connect
  <1> QED
    BY <1>1, <1>2, <1>4, <1>5

LEMMA ClientEdits ==
  ASSUME Typed, NEW a \in Buffer, CheckLoaded(a) \/ LoadBack(a) \/ Cancel(a)
  PROVE  /\ \A b \in Buffer \ {a} : buffer'[b].result = buffer[b].result /\ buffer'[b].connector = buffer[b].connector
         /\ buffer[a].connector => buffer'[a].connector
         /\ buffer'[a].result = "success" => buffer'[a].connector \/ buffer'[a] = buffer[a]
         /\ pc'[a] \notin Before \cup LoadSteps \cup {"check"}
         /\ CheckLoaded(a) => job' = job
         /\ LoadBack(a) => job'[a] = NoJob
         /\ Cancel(a) => job' = job /\ pc[a] = "cancel"
  <1> USE DEF Typed, BufferT, At, Goto, Actor
  <1>1. CASE CheckLoaded(a)
    <2>1. /\ \/ buffer' = [buffer EXCEPT ![a].connector = TRUE, ![a].result = "success"]
             \/ buffer' = [buffer EXCEPT ![a].result = "error"]
          /\ pc[a] = "check" /\ pc'[a] \in {"release", "failed"} /\ job' = job
      BY <1>1 DEF CheckLoaded
    <2> QED
      BY <2>1, <1>1 DEF Before, LoadSteps, LoadBack, Cancel
  <1>2. CASE LoadBack(a)
    <2>1. buffer' = buffer \/ (buffer' = [buffer EXCEPT ![a].result = res[a]] /\ res[a] # "success")
      BY <1>2 DEF LoadBack
    <2>2. pc[a] = "back" /\ pc'[a] \in {"wait", "unacquire"} /\ job'[a] = NoJob
      BY <1>2 DEF LoadBack
    <2> QED
      BY <2>1, <2>2, <1>2 DEF Before, LoadSteps, CheckLoaded, Cancel
  <1>3. CASE Cancel(a)
    <2>1. /\ buffer' = [buffer EXCEPT ![a].result = "unavailable", ![a].counter = buffer[a].counter + 1]
          /\ pc[a] = "cancel" /\ pc'[a] = "awaitFree" /\ job' = job
      BY <1>3 DEF Cancel
    <2> QED
      BY <2>1, <1>3 DEF Before, LoadSteps, CheckLoaded, LoadBack
  <1> QED
    BY <1>1, <1>2, <1>3

---------------------------------------------------------------------------
(* A buffer's own job *)

LEMMA OwnAlone ==
  ASSUME Typed, OwnOnce, NEW b \in Buffer, NEW a \in Actor, OwnIn(a, b)
  PROVE  /\ Own(b) = 1 /\ ~Unloaded(b)
         /\ Queued("loadBuffer", b) = 0
         /\ \A c \in Actor \ {a} : ~OwnIn(c, b)
  <1>1. a \in RunningAt("loadBuffer", b, LoadSteps)
    BY DEF OwnIn, In, RunningAt
  <1>2. RunningAt("loadBuffer", b, LoadSteps) \in SUBSET Actor
    BY DEF RunningAt
  <1>3. IsFiniteSet(RunningAt("loadBuffer", b, LoadSteps))
    BY <1>2, ActorFinite, FS_Subset
  <1>4. Running("loadBuffer", b, LoadSteps) = Cardinality(RunningAt("loadBuffer", b, LoadSteps))
    BY DEF Running, RunningAt
  <1>5. Running("loadBuffer", b, LoadSteps) # 0
    BY <1>1, <1>3, <1>4, FS_EmptySet
  <1>6. Own(b) = 1 /\ Queued("loadBuffer", b) = 0 /\ Running("loadBuffer", b, LoadSteps) = 1
    BY <1>5, QueuedNat, RunningNat DEF Own, OwnOnce
  <1>7. RunningAt("loadBuffer", b, LoadSteps) = {a}
    BY <1>1, <1>3, <1>4, <1>6, FS_Singleton
  <1> QED
    BY <1>6, <1>7 DEF OwnOnce, RunningAt, OwnIn, In

\* Once its load has begun, a buffer is not unloaded again
LEMMA UnloadedBefore ==
  ASSUME Typed, Places, NEW a \in Actor, StepOf(a), NEW b \in Buffer, Unloaded(b)'
  PROVE  /\ Unloaded(b)
         /\ b = a => ~CheckLoaded(a) /\ ~CheckLoading(a) /\ ~LoadBack(a) /\ ~Cancel(a)
  <1>1. OthersKept(a)
    BY OthersAlone
  <1>2. CASE b # a
    BY <1>1, <1>2 DEF OthersKept, Actor, Unloaded
  <1>3. CASE b = a
    <2> USE <1>3, ResourceAssumption DEF Typed, At, Goto, Actor
    <2>1. /\ a \in Buffer /\ a \notin Worker
          /\ pc'[a] \in {"start", "acquire", "check"} \/ job'[a].kind = "loadNode"
      BY DEF Unloaded, Before
    <2>2. pc[a] \notin LoadSteps \cup {"tail", "back"} => job[a] = NoJob
      BY DEF Places, Place, ClientAt
    <2>3. NoJob.kind # "loadNode"
      BY DEF NoJob
    <2>4. ASSUME InitBegin(a) \/ AcquireOld(a) \/ AcquireNew(a) \/ AcquireBack(a)
          PROVE  /\ Unloaded(b)
                 /\ ~CheckLoaded(a) /\ ~CheckLoading(a) /\ ~LoadBack(a) /\ ~Cancel(a)
      <3>1. pc[a] \in {"start", "acquire"} \/ (pc[a] = "back" /\ job[a].kind = "loadNode")
        BY <2>4 DEF InitBegin, AcquireOld, AcquireNew, AcquireBack
      <3> QED
        BY <3>1 DEF Unloaded, Before, CheckLoaded, CheckLoading, LoadBack, Cancel
    <2>5. ASSUME UninitBegin(a) \/ UninitEnd(a) \/ WaitInit(a) \/ InitEnd(a) \/ Uninit(a) \/ Cancel(a) \/ CheckLoaded(a)
          PROVE  FALSE
      <3>1. job'[a] = job[a] /\ pc'[a] \notin {"start", "acquire", "check"} /\ pc[a] \notin LoadSteps \cup {"tail", "back"}
        BY <2>5 DEF UninitBegin, UninitEnd, WaitInit, InitEnd, Uninit, Cancel, CheckLoaded, LoadSteps,
           shared
      <3> QED
        BY <2>1, <2>2, <2>3, <3>1
    <2>6. ASSUME CheckLoading(a) \/ LoadBack(a)
          PROVE  FALSE
      <3>1. pc'[a] \in {"begin", "release", "wait", "unacquire"}
        BY <2>6 DEF CheckLoading, LoadBack
      <3>2. job'[a].kind # "loadNode"
        <4>1. CASE LoadBack(a)
          BY <2>3, <4>1 DEF LoadBack
        <4>2. CASE CheckLoading(a)
          <5>1. job'[a] = job[a] \/ job'[a].kind = "loadBuffer"
            BY <4>2 DEF CheckLoading
          <5>2. job[a] = NoJob
            BY <2>2, <4>2 DEF CheckLoading, LoadSteps
          <5> QED
            BY <2>3, <5>1, <5>2
        <4> QED
          BY <2>6, <4>1, <4>2
      <3> QED
        BY <2>1, <3>1, <3>2
    <2>7. ASSUME Process(a)
          PROVE  Unloaded(b)
      <3>1. job'[a] = job[a]
        BY <2>1, <2>7 DEF Process, OutOfTurn, NodeBegin, Open, Decode, NextPage, Finish, FreeNode,
           BufferBegin,
           Connect, Look, Publish, Fences, Advance, Unacquire, Drop, Abandon, shared, Handled, PostAgain
      <3>2. CASE OutOfTurn(a) \/ NodeBegin(a) \/ Open(a) \/ Decode(a) \/ NextPage(a) \/ Finish(a) \/ FreeNode(a)
        <4>1. pc'[a] \notin {"start", "acquire", "check"}
          BY <2>1, <3>2 DEF OutOfTurn, NodeBegin, Open, Decode, NextPage, Finish, FreeNode, Handled,
             PostAgain
        <4> QED
          BY <2>1, <3>1, <4>1 DEF Unloaded
      <3>3. CASE BufferBegin(a) \/ Connect(a) \/ Look(a) \/ Publish(a) \/ Fences(a) \/ Advance(a)
        <4>1. pc'[a] \notin {"start", "acquire", "check"}
          BY <2>1, <3>3 DEF BufferBegin, Connect, Look, Publish, Fences, Advance, Handled, PostAgain
        <4> QED
          BY <2>1, <3>1, <4>1 DEF Unloaded
      <3>4. CASE Unacquire(a) \/ Drop(a) \/ Abandon(a)
        <4>1. pc'[a] \notin {"start", "acquire", "check"}
          BY <2>1, <3>4 DEF Unacquire, Drop, Abandon, AfterUnacquire
        <4> QED
          BY <2>1, <3>1, <4>1 DEF Unloaded
      <3> QED
        BY <2>7, <3>2, <3>3, <3>4 DEF Process
    <2>8. Process(a) => ~CheckLoaded(a) /\ ~CheckLoading(a) /\ ~LoadBack(a) /\ ~Cancel(a)
      BY <2>5, <2>6
    <2> QED
      BY <2>1, <2>4, <2>5, <2>6, <2>7, <2>8 DEF StepOf, Client
  <1> QED
    BY <1>2, <1>3

LEMMA OwnOnceKept ==
  ASSUME Typed, Places, RefsInv, Kinds, OwnOnce, NEW a \in Actor, StepOf(a)
  PROVE  OwnOnce'
  <1> SUFFICES ASSUME NEW b \in Buffer
               PROVE  /\ Own(b)' <= 1
                      /\ Unloaded(b)' => Own(b)' = 0 /\ ~buffer'[b].connector /\ buffer'[b].result = "busy"
    BY DEF OwnOnce
  <1>1. OthersKept(a)
    BY OthersAlone
  <1>2. /\ Own(b) \in Nat /\ Own(b) <= 1
        /\ Unloaded(b) => Own(b) = 0 /\ ~buffer[b].connector /\ buffer[b].result = "busy"
    BY CountsNat DEF OwnOnce
  <1>3. Own(b)' <= 1 /\ (Unloaded(b)' => Own(b)' = 0)
    <2>1. CASE a \in Buffer /\ CheckLoading(a)
      <3>1. Own(b)' = Own(b) + Bit(b = a)
        BY <1>1, <2>1, CheckLoadingCounts
      <3>2. b = a => Unloaded(b)
        BY <2>1 DEF CheckLoading, At, Unloaded
      <3>3. Unloaded(b)' => b # a /\ Unloaded(b)
        BY <2>1, UnloadedBefore
      <3> QED
        BY <1>2, <3>1, <3>2, <3>3 DEF Bit
    <2>2. CASE Fences(a)
      <3>1. Own(b)' = Own(b) - Bit(IsFor(job[a], "loadBuffer", b))
        BY <1>1, <2>2, FencesCounts
      <3>2. IsFor(job[a], "loadBuffer", b) => OwnIn(a, b)
        BY <2>2 DEF Fences, At, OwnIn, In, IsFor, LoadSteps
      <3>3. IsFor(job[a], "loadBuffer", b) => Own(b) = 1 /\ ~Unloaded(b)
        BY <3>2, OwnAlone
      <3> QED
        BY <1>2, <3>1, <3>3, UnloadedBefore DEF Bit
    <2>3. CASE a \in Buffer /\ AcquireNew(a)
      BY <1>1, <1>2, <2>3, AcquireNewCounts, UnloadedBefore
    <2>4. CASE ~(a \in Buffer /\ (AcquireNew(a) \/ CheckLoading(a))) /\ ~Fences(a)
      <3>1. Own(b)' = Own(b)
        BY <1>1, <2>4, OtherCounts, OpenCounts, FinishCounts DEF CountsSame, OwnSame
      <3> QED
        BY <1>2, <3>1, UnloadedBefore
    <2> QED
      BY <2>1, <2>2, <2>3, <2>4
  <1>4. ASSUME Unloaded(b)'
        PROVE  ~buffer'[b].connector /\ buffer'[b].result = "busy"
    <2>0. Unloaded(b) /\ (b = a => ~CheckLoaded(a) /\ ~LoadBack(a) /\ ~Cancel(a))
      BY <1>4, UnloadedBefore
    <2>1. buffer'[b].result = buffer[b].result /\ buffer'[b].connector = buffer[b].connector
      <3>1. CASE a \in Buffer /\ (CheckLoaded(a) \/ LoadBack(a) \/ Cancel(a))
        BY <2>0, <3>1, ClientEdits
      <3>2. CASE Connect(a)
        <4>1. b = job[a].of => OwnIn(a, b)
          BY <3>2, ConnectEdits DEF OwnIn, In, LoadSteps
        <4>2. b # job[a].of
          BY <2>0, <4>1, OwnAlone
        <4> QED
          BY <3>2, <4>2, ConnectEdits
      <3>3. CASE Publish(a)
        <4>1. job[a].kind = "loadBuffer" /\ b = job[a].of => OwnIn(a, b)
          BY <3>3, PublishEdits DEF OwnIn, In, LoadSteps
        <4>2. ~(job[a].kind = "loadBuffer" /\ b = job[a].of)
          BY <2>0, <4>1, OwnAlone
        <4> QED
          BY <3>3, <4>2, PublishEdits
      <3> QED
        BY <3>1, <3>2, <3>3, BufferSame
    <2> QED
      BY <1>2, <2>0, <2>1
  <1> QED
    BY <1>3, <1>4

---------------------------------------------------------------------------
(* A result of success has been announced *)

LEMMA ConnectorStays ==
  ASSUME Typed, Places, RefsInv, NEW a \in Actor, StepOf(a), NEW b \in Buffer, buffer[b].connector
  PROVE  buffer'[b].connector
  <1>1. CASE a \in Buffer /\ (CheckLoaded(a) \/ LoadBack(a) \/ Cancel(a))
    BY <1>1, ClientEdits
  <1>2. CASE Connect(a)
    BY <1>2, ConnectEdits
  <1>3. CASE Publish(a)
    BY <1>3, PublishEdits
  <1> QED
    BY <1>1, <1>2, <1>3, BufferSame

\* The steps that come to look, or to publish, with a load job
LEMMA ToPublish ==
  ASSUME Typed, Places, Kinds, NEW a \in Actor, StepOf(a), pc'[a] \in {"look", "publish", "fences"},
         job'[a].kind = "loadBuffer"
  PROVE  /\ job'[a] = job[a] /\ job[a].of \in Buffer
         /\ \/ Connect(a)
            \/ Publish(a)
            \/ BufferBegin(a) /\ pc'[a] = "publish" /\ res'[a] = buffer[job[a].of].result /\ buffer' = buffer
            \/ Look(a) /\ pc'[a] = "publish" /\ res'[a] = node[NodeOf(a)].result /\ res'[a] # "busy" /\ buffer' = buffer
                /\ (res'[a] = "success" => pc[a] = "look")
  <1> USE ResourceAssumption DEF Typed, At, Goto, Returns, Handled, PostAgain, Actor, AfterUnacquire
  <1>1. ASSUME a \in Buffer, InitBegin(a) \/ UninitBegin(a) \/ Client(a)
        PROVE  FALSE
    <2>1. ~(InitBegin(a) \/ UninitBegin(a) \/ UninitEnd(a) \/ WaitInit(a) \/ InitEnd(a) \/ Uninit(a) \/ Cancel(a))
      BY <1>1 DEF InitBegin, UninitBegin, UninitEnd, WaitInit, InitEnd, Uninit, Cancel
    <2>2. ~(AcquireOld(a) \/ AcquireNew(a) \/ AcquireBack(a) \/ CheckLoaded(a) \/ CheckLoading(a) \/ LoadBack(a))
      BY <1>1 DEF AcquireOld, AcquireNew, AcquireBack, CheckLoaded, CheckLoading, LoadBack
    <2> QED
      BY <1>1, <2>1, <2>2 DEF Client
  <1>2. ASSUME a \in Worker, JobThread(a)
        PROVE  FALSE
    BY <1>2 DEF JobThread, Take, FreeBuffer, Notify
  <1>3. ASSUME Unacquire(a) \/ Drop(a) \/ Abandon(a) \/ Fences(a) \/ Advance(a) \/ OutOfTurn(a) \/ FreeNode(a)
        PROVE  FALSE
    <2>1. ~(Unacquire(a) \/ Drop(a) \/ Abandon(a))
      BY <1>3 DEF Unacquire, Drop, Abandon
    <2>2. ~(Fences(a) \/ Advance(a))
      BY <1>3 DEF Fences, Advance
    <2>3. ~(OutOfTurn(a) \/ FreeNode(a))
      BY <1>3 DEF OutOfTurn, FreeNode
    <2> QED
      BY <1>3, <2>1, <2>2, <2>3
  <1>4. ASSUME NodeBegin(a) \/ Open(a) \/ Decode(a) \/ NextPage(a) \/ Finish(a)
        PROVE  FALSE
    <2>1. job'[a] = job[a]
      BY <1>4 DEF NodeBegin, Open, Decode, NextPage, Finish
    <2>2. job[a].kind \in {"loadNode", "pageNode"}
      BY <1>4 DEF NodeBegin, Open, Decode, NextPage, Finish, Begins, Kinds, KindAt
    <2> QED
      BY <2>1, <2>2
  <1>5. CASE Connect(a)
    BY <1>5, ConnectEdits
  <1>6. CASE Publish(a)
    BY <1>6, PublishEdits
  <1>7. CASE BufferBegin(a)
    <2>1. job'[a] = job[a] /\ pc[a] = "begin"
      BY <1>7 DEF BufferBegin, Begins
    <2>2. job[a].of \in Buffer
      BY <2>1, JobTyped DEF LoadSteps
    <2> QED
      BY <1>7, <2>1, <2>2 DEF BufferBegin, Begins, shared
  <1>8. CASE Look(a)
    <2>1. pc[a] \in {"look", "lookUnknown"} /\ buffer' = buffer
      BY <1>8 DEF Look
    <2>2. job[a].of \in Buffer
      BY <2>1, JobTyped DEF LoadSteps
    <2>3. /\ job'[a] = job[a] /\ pc'[a] = "publish" /\ res'[a] = node[NodeOf(a)].result
          /\ res'[a] # "busy" /\ (res'[a] = "success" => pc[a] = "look")
      BY <1>8, <2>1 DEF Look
    <2> QED
      BY <1>8, <2>1, <2>2, <2>3
  <1> QED
    BY <1>1, <1>2, <1>3, <1>4, <1>5, <1>6, <1>7, <1>8 DEF StepOf, Process

LEMMA AnnouncedKept ==
  ASSUME Typed, Places, RefsInv, Kinds, Announced, NEW a \in Actor, StepOf(a)
  PROVE  Announced'
  <1>1. OthersKept(a)
    BY OthersAlone
  <1>2. ASSUME NEW b \in Buffer, buffer'[b].result = "success"
        PROVE  buffer'[b].connector
    <2>1. buffer[b].result = "success" => buffer[b].connector
      BY DEF Announced
    <2>2. CASE a \in Buffer /\ (CheckLoaded(a) \/ LoadBack(a) \/ Cancel(a))
      BY <1>2, <2>1, <2>2, ClientEdits
    <2>3. CASE Connect(a)
      BY <1>2, <2>1, <2>3, ConnectorStays, ConnectEdits
    <2>4. CASE Publish(a)
      <3>1. CASE buffer'[b].result = buffer[b].result
        BY <1>2, <2>1, <2>4, <3>1, PublishEdits
      <3>2. CASE buffer'[b].result # buffer[b].result
        <4>1. job[a].kind = "loadBuffer" /\ b = job[a].of /\ res[a] = "success" /\ pc[a] = "publish"
          BY <1>2, <2>4, <3>2, PublishEdits
        <4>2. buffer[b].connector
          BY <4>1 DEF Announced
        <4> QED
          BY <4>2, ConnectorStays
      <3> QED
        BY <3>1, <3>2
    <2> QED
      BY <1>2, <2>1, <2>2, <2>3, <2>4, BufferSame
  <1>3. ASSUME NEW c \in Actor, job'[c].kind = "loadBuffer",
               pc'[c] = "look" \/ (pc'[c] \in {"publish", "fences"} /\ res'[c] = "success")
        PROVE  buffer'[job'[c].of].connector
    <2>1. CASE c # a
      <3>1. buffer[job[c].of].connector /\ job'[c] = job[c]
        BY <1>1, <1>3, <2>1 DEF Announced, OthersKept
      <3>2. pc[c] \in LoadSteps
        BY <1>1, <1>3, <2>1 DEF OthersKept, LoadSteps
      <3>3. job[c].of \in Buffer
        BY <3>2, JobTyped
      <3> QED
        BY <3>1, <3>3, ConnectorStays
    <2>2. CASE c = a
      <3> USE <2>2
      <3>1. pc'[a] \in {"look", "publish", "fences"} /\ job'[a].kind = "loadBuffer"
        BY <1>3
      <3>2. job'[a] = job[a] /\ job[a].of \in Buffer
        BY <3>1, ToPublish
      <3>3. CASE Connect(a)
        BY <1>3, <3>2, <3>3, ConnectEdits
      <3>4. CASE Publish(a)
        <4>1. buffer[job[a].of].connector
          BY <1>3, <3>2, <3>4, PublishEdits DEF Announced
        <4> QED
          BY <3>2, <4>1, ConnectorStays
      <3>5. CASE BufferBegin(a) /\ pc'[a] = "publish" /\ res'[a] = buffer[job[a].of].result /\ buffer' = buffer
        BY <1>3, <3>2, <3>5 DEF Announced
      <3>6. CASE Look(a) /\ pc'[a] = "publish" /\ buffer' = buffer /\ (res'[a] = "success" => pc[a] = "look")
        <4>1. pc[a] = "look"
          BY <1>3, <3>6
        <4> QED
          BY <3>1, <3>2, <3>6, <4>1 DEF Announced
      <3> QED
        BY <3>1, <3>3, <3>4, <3>5, <3>6, ToPublish
    <2> QED
      BY <2>1, <2>2
  <1> QED
    BY <1>2, <1>3 DEF Announced

---------------------------------------------------------------------------
(* Results of nodes *)

LEMMA RefsSame ==
  ASSUME Typed, Places, RefsInv, NEW a \in Actor, StepOf(a),
         ~(a \in Buffer /\ (AcquireOld(a) \/ AcquireNew(a))), ~Unacquire(a), NEW n \in Buffer
  PROVE  node'[n].refs = node[n].refs
  <1>0. node \in [Buffer -> NodeT]
    BY DEF Typed
  <1>1. CASE a \in Buffer /\ (InitBegin(a) \/ UninitBegin(a) \/ UninitEnd(a) \/ WaitInit(a) \/ InitEnd(a) \/ Uninit(a)
                            \/ Cancel(a) \/ CheckLoaded(a) \/ CheckLoading(a) \/ LoadBack(a))
    BY <1>1 DEF InitBegin, UninitBegin, UninitEnd, WaitInit, InitEnd, Uninit, Cancel, shared,
       CheckLoaded, CheckLoading, LoadBack
  <1>2. CASE a \in Worker /\ JobThread(a)
    BY <1>2 DEF JobThread, Take, FreeBuffer, Notify, shared
  <1>3. CASE OutOfTurn(a) \/ NodeBegin(a) \/ BufferBegin(a) \/ Connect(a) \/ Look(a) \/ Fences(a)
    BY <1>3 DEF OutOfTurn, NodeBegin, BufferBegin, Connect, Look, Fences, shared
  <1>5. CASE AcquireBack(a) /\ a \in Buffer
    <2>1. node' = node \/ node' = [node EXCEPT ![a].state = "freed"]
      BY <1>5 DEF AcquireBack
    <2> QED
      BY <1>0, <1>5, <2>1 DEF NodeT
  <1>6. CASE Open(a) \/ Finish(a) \/ Decode(a) \/ NextPage(a) \/ FreeNode(a) \/ Advance(a)
    <2>1. job[a].of \in Buffer
      BY <1>6, JobTyped DEF Open, Finish, Decode, NextPage, FreeNode, Advance, At, Begins, LoadSteps
    <2>a. CASE Open(a)
      <3>1. \/ node' = node \/ node' = [node EXCEPT ![job[a].of].decoder = "lost"]
            \/ node' = [node EXCEPT ![job[a].of].known = TRUE, ![job[a].of].decoder = Carried]
        BY <2>a DEF Open, Carried
      <3> QED
        BY <1>0, <2>1, <3>1 DEF NodeT
    <2>b. CASE Finish(a)
      BY <1>0, <2>1, <2>b DEF Finish, NodeT
    <2>2. CASE Decode(a)
      <3>1. node' = node \/ node' = [node EXCEPT ![job[a].of].pages = node[job[a].of].pages + 1]
        BY <2>2 DEF Decode
      <3> QED
        BY <1>0, <2>1, <3>1 DEF NodeT
    <2>3. CASE NextPage(a)
      BY <1>0, <2>1, <2>3 DEF NextPage, NodeT
    <2>4. CASE FreeNode(a)
      BY <1>0, <2>1, <2>4 DEF FreeNode, NodeT
    <2>6. CASE Advance(a)
      BY <1>0, <2>1, <2>6 DEF Advance, NodeT
    <2> QED
      BY <1>6, <2>a, <2>b, <2>2, <2>3, <2>4, <2>6
  <1>7. CASE Drop(a) \/ Abandon(a)
    <2>1. NodeOf(a) \in Buffer
      BY <1>7, NodeOfTyped DEF Drop, Abandon, At, UnacquireSteps
    <2>2. CASE Drop(a)
      <3>1. node' = node \/ node' = [node EXCEPT ![NodeOf(a)].state = "freed"]
        BY <2>2 DEF Drop
      <3> QED
        BY <1>0, <2>1, <3>1 DEF NodeT
    <2>3. CASE Abandon(a)
      BY <1>0, <2>1, <2>3 DEF Abandon, NodeT
    <2> QED
      BY <1>7, <2>2, <2>3
  <1>8. CASE Publish(a)
    <2>1. node' = node \/ \A m \in Buffer : node'[m].refs = node[m].refs
      BY <1>8, PublishEdits
    <2> QED
      BY <2>1
  <1> QED
    BY <1>1, <1>2, <1>3, <1>5, <1>6, <1>7, <1>8 DEF StepOf, Client, Process

LEMMA AcquireNewEdits ==
  ASSUME Typed, NEW a \in Buffer, AcquireNew(a)
  PROVE  /\ node'[a].result = "busy" /\ pc[a] \in Before
         /\ \A n \in Buffer \ {a} : node'[n] = node[n]
  <1>1. node' = [node EXCEPT ![a] = [NewNode("live") EXCEPT !.counter = 1]]
    BY DEF AcquireNew
  <1>2. \A n \in Buffer \ {a} : node'[n] = node[n]
    BY <1>1 DEF Typed
  <1>3. node'[a].result = "busy"
    BY <1>1 DEF Typed, NewNode
  <1> QED
    BY <1>2, <1>3 DEF AcquireNew, At, Before

LEMMA AbandonEdits ==
  ASSUME Typed, Places, RefsInv, NEW a \in Actor, Abandon(a)
  PROVE  /\ NodeOf(a) \in Buffer /\ Gone(NodeOf(a))
         /\ node'[NodeOf(a)].result = "unavailable"
         /\ \A n \in Buffer : n # NodeOf(a) => node'[n].result = node[n].result
  <1>1. NodeOf(a) \in Buffer /\ Gone(NodeOf(a))
    BY DEF Abandon, At, RefsInv, Unheld
  <1> DEFINE n == NodeOf(a)
             c == node[n].counter + 1
  <1>2. node' = [node EXCEPT ![n].result = "unavailable", ![n].counter = c]
    BY DEF Abandon
  <1> HIDE DEF n, c
  <1>3. n \in Buffer /\ node \in [Buffer -> NodeT]
    BY <1>1 DEF Typed, n
  <1>4. /\ node'[n].result = "unavailable"
        /\ \A m \in Buffer : m # n => node'[m].result = node[m].result
    BY <1>2, <1>3 DEF NodeT
  <1> QED
    BY <1>1, <1>4 DEF n

LEMMA HeldCounted ==
  ASSUME Typed, RefsInv, NEW b \in Buffer, buffer[b].holds
  PROVE  buffer[b].node \in Buffer /\ node[buffer[b].node].refs # 0
  <1>1. buffer[b].node \in Buffer /\ Holds(b, buffer[b].node)
    BY DEF RefsInv, HolderServed, Holds
  <1> QED
    BY <1>1, GoneUnheld DEF Gone, RefsInv, HolderServed

LEMMA UnavailableStays ==
  ASSUME Typed, Places, RefsInv, NEW a \in Actor, StepOf(a), NEW n \in Buffer,
         node[n].result = "unavailable", ~(n = a /\ AcquireNew(a))
  PROVE  node'[n].result = "unavailable"
  <1>1. CASE a \in Buffer /\ AcquireNew(a)
    BY <1>1, AcquireNewEdits
  <1>2. CASE Publish(a)
    BY <1>2, PublishEdits
  <1>3. CASE Abandon(a)
    BY <1>3, AbandonEdits
  <1> QED
    BY <1>1, <1>2, <1>3, ResultSame

\* The steps that come to publish with a node's job
LEMMA ToPublishNode ==
  ASSUME Typed, Places, RefsInv, Kinds, NEW a \in Actor, StepOf(a), pc'[a] \in {"finish", "publish"},
         job'[a].kind \in {"loadNode", "pageNode"}
  PROVE  /\ job'[a] = job[a] /\ job[a].of \in Buffer
         /\ \A n \in Buffer : node'[n].result = node[n].result
         /\ \/ res'[a] \in {"success", "busy", "atEnd"}
            \/ res'[a] = node[job[a].of].result
            \/ res'[a] = "error" /\ config.fails
            \/ pc[a] = "finish" /\ res'[a] = res[a]
  <1> USE ResourceAssumption DEF Typed, At, Goto, Returns, Handled, PostAgain, Actor, AfterUnacquire
  <1>1. ASSUME a \in Buffer, InitBegin(a) \/ UninitBegin(a) \/ Client(a)
        PROVE  FALSE
    <2>1. ~(InitBegin(a) \/ UninitBegin(a) \/ UninitEnd(a) \/ WaitInit(a) \/ InitEnd(a) \/ Uninit(a) \/ Cancel(a))
      BY <1>1 DEF InitBegin, UninitBegin, UninitEnd, WaitInit, InitEnd, Uninit, Cancel
    <2>2. ~(AcquireOld(a) \/ AcquireNew(a) \/ AcquireBack(a) \/ CheckLoaded(a) \/ CheckLoading(a) \/ LoadBack(a))
      BY <1>1 DEF AcquireOld, AcquireNew, AcquireBack, CheckLoaded, CheckLoading, LoadBack
    <2> QED
      BY <1>1, <2>1, <2>2 DEF Client
  <1>2. ASSUME a \in Worker, JobThread(a)
        PROVE  FALSE
    BY <1>2 DEF JobThread, Take, FreeBuffer, Notify
  <1>3. ASSUME Unacquire(a) \/ Drop(a) \/ Abandon(a) \/ Fences(a) \/ Advance(a) \/ OutOfTurn(a) \/ FreeNode(a)
        PROVE  FALSE
    <2>1. ~(Unacquire(a) \/ Drop(a) \/ Abandon(a))
      BY <1>3 DEF Unacquire, Drop, Abandon
    <2>2. ~(Fences(a) \/ Advance(a))
      BY <1>3 DEF Fences, Advance
    <2>3. ~(OutOfTurn(a) \/ FreeNode(a))
      BY <1>3 DEF OutOfTurn, FreeNode
    <2> QED
      BY <1>3, <2>1, <2>2, <2>3
  <1>4. ASSUME BufferBegin(a) \/ Connect(a) \/ Look(a) \/ Publish(a)
        PROVE  FALSE
    <2>1. ~Publish(a)
      BY DEF Publish
    <2>2. job[a].kind = "loadBuffer"
      BY <1>4, <2>1 DEF BufferBegin, Connect, Look, Begins, Places, Place, HandlerAt
    <2>3. job'[a] = job[a] \/ job'[a] = NoJob
      BY <1>4, <2>1 DEF BufferBegin, Connect, Look
    <2> QED
      BY <2>2, <2>3 DEF NoJob
  <1>5. CASE NodeBegin(a) \/ Open(a) \/ Decode(a) \/ NextPage(a) \/ Finish(a)
    <2>1. pc[a] \in LoadSteps /\ job'[a] = job[a]
      BY <1>5 DEF NodeBegin, Open, Decode, NextPage, Finish, Begins, LoadSteps
    <2>2. job[a].of \in Buffer
      BY <2>1, JobTyped
    <2>3. ~(a \in Buffer /\ AcquireNew(a)) /\ ~Publish(a) /\ ~Abandon(a)
      BY <1>1, <1>3, <1>4 DEF Client
    <2>4. \/ res'[a] \in {"success", "busy", "atEnd"}
          \/ res'[a] = node[job[a].of].result
          \/ res'[a] = "error" /\ config.fails
          \/ pc[a] = "finish" /\ res'[a] = res[a]
      <3>1. CASE NodeBegin(a)
        BY <3>1 DEF NodeBegin
      <3>2. CASE Open(a)
        BY <3>2 DEF Open
      <3>3. CASE Decode(a)
        BY <3>3 DEF Decode
      <3>4. CASE NextPage(a)
        BY <3>4 DEF NextPage
      <3>5. CASE Finish(a)
        BY <3>5 DEF Finish
      <3> QED
        BY <1>5, <3>1, <3>2, <3>3, <3>4, <3>5
    <2> QED
      BY <2>1, <2>2, <2>3, <2>4, ResultSame
  <1> QED
    BY <1>1, <1>2, <1>3, <1>4, <1>5 DEF StepOf, Process

LEMMA SoundKept ==
  ASSUME Typed, Places, RefsInv, Kinds, LoadOnce, Sound, NEW a \in Actor, StepOf(a)
  PROVE  Sound'
  <1>1. OthersKept(a)
    BY OthersAlone
  <1>2. ASSUME NEW n \in Buffer, node'[n].result = "unavailable"
        PROVE  node'[n].refs = 0
    <2>1. node[n].result = "unavailable" => node[n].refs = 0
      BY DEF Sound
    <2>2. CASE a \in Buffer /\ AcquireNew(a)
      BY <1>2, <2>1, <2>2, AcquireNewEdits
    <2>3. CASE a \in Buffer /\ AcquireOld(a)
      <3>0. ~AcquireNew(a) /\ ~Publish(a) /\ ~Abandon(a)
        BY <2>3 DEF AcquireOld, AcquireNew, Publish, Abandon, At
      <3>1. node[n].result = "unavailable"
        BY <1>2, <3>0, ResultSame
      <3>2. tree \in Buffer /\ tree # n
        <4>1. tree \in Buffer
          BY <2>3 DEF AcquireOld, Typed
        <4>2. node[tree].refs > 0
          BY <4>1 DEF RefsInv, RefsExact
        <4> QED
          BY <2>1, <3>1, <4>1, <4>2
      <3> QED
        BY <2>1, <2>3, <3>1, <3>2 DEF AcquireOld, Typed, NodeT
    <2>4. CASE Unacquire(a)
      <3>0. ~(a \in Buffer /\ AcquireNew(a)) /\ ~Publish(a) /\ ~Abandon(a)
        BY <2>4 DEF Unacquire, AcquireNew, Publish, Abandon, At
      <3>1. node[n].result = "unavailable"
        BY <1>2, <3>0, ResultSame
      <3>2. NodeOf(a) \in Buffer /\ NodeOf(a) # n
        <4>1. NodeOf(a) \in Buffer
          BY <2>4, NodeOfTyped DEF Unacquire, At, UnacquireSteps
        <4> QED
          BY <2>1, <2>4, <3>1, <4>1, HoldersCounted
      <3> DEFINE m == NodeOf(a)
                 v == node[m].refs - 1
      <3>3. node' = [node EXCEPT ![m].refs = v]
        BY <2>4 DEF Unacquire
      <3> HIDE DEF m, v
      <3>4. m # n
        BY <3>2 DEF m
      <3>5. node'[n] = node[n]
        BY <3>3, <3>4 DEF Typed
      <3> QED
        BY <2>1, <3>1, <3>5
    <2>5. CASE Publish(a)
      <3>1. CASE node'[n].result = node[n].result
        BY <1>2, <2>1, <2>5, <3>1, PublishEdits
      <3>2. CASE node'[n].result # node[n].result
        <4>1. /\ job[a].kind # "loadBuffer" /\ n = job[a].of /\ res[a] = "unavailable" /\ pc[a] = "publish"
              /\ node[n].result = "busy"
          BY <1>2, <2>5, <3>2, PublishEdits
        <4>2. job[a].kind \in {"loadNode", "pageNode"}
          <5>1. job[a] \in Job /\ job[a].kind \notin {"freeNode", "freeBuffer"}
            BY <4>1, JobTyped DEF Places, Place, HandlerAt, LoadSteps
          <5> QED
            BY <4>1, <5>1 DEF Job, NodeKind, BufferKind
        <4> QED
          BY <4>1, <4>2 DEF Sound
      <3> QED
        BY <3>1, <3>2
    <2>6. CASE Abandon(a)
      <3>0. ~(a \in Buffer /\ (AcquireOld(a) \/ AcquireNew(a))) /\ ~Unacquire(a)
        BY <2>6 DEF AcquireOld, AcquireNew, Unacquire, Abandon, At
      <3>1. node'[n].refs = node[n].refs
        BY <3>0, RefsSame
      <3> QED
        BY <1>2, <2>1, <2>6, <3>1, AbandonEdits DEF Gone
    <2> QED
      BY <1>2, <2>1, <2>2, <2>3, <2>4, <2>5, <2>6, ResultSame, RefsSame
  <1>3. ASSUME NEW c \in Actor, job'[c].kind \in {"loadNode", "pageNode"}, pc'[c] \in {"finish", "publish"},
               res'[c] = "unavailable"
        PROVE  node'[job'[c].of].result = "unavailable"
    <2>1. CASE c # a
      <3>1. /\ job[c].kind \in {"loadNode", "pageNode"} /\ pc[c] \in {"finish", "publish"} /\ res[c] = "unavailable"
            /\ job'[c] = job[c]
        BY <1>1, <1>3, <2>1 DEF OthersKept
      <3>2. job[c].of \in Buffer /\ node[job[c].of].result = "unavailable"
        BY <3>1, JobTyped DEF Sound, LoadSteps
      <3>3. LoadIn(c, job[c].of)
        BY <3>1 DEF LoadIn, HandedOn, LoadSteps
      <3>4. ~(job[c].of = a /\ AcquireNew(a))
        <4> SUFFICES ASSUME job[c].of = a, AcquireNew(a)
                     PROVE  FALSE
          OBVIOUS
        <4>1. LoadsLeft(a) = 0
          BY <3>2, AcquireNewEdits DEF LoadOnce
        <4> QED
          BY <3>3, <4>1, NoLoad
      <3> QED
        BY <3>1, <3>2, <3>4, UnavailableStays
    <2>2. CASE c = a
      <3>1. job'[a] = job[a] /\ job[a].of \in Buffer /\ \A n \in Buffer : node'[n].result = node[n].result
        BY <1>3, <2>2, ToPublishNode
      <3>2. res'[a] = node[job[a].of].result \/ (pc[a] = "finish" /\ res'[a] = res[a])
        BY <1>3, <2>2, ToPublishNode
      <3> QED
        BY <1>3, <2>2, <3>1, <3>2 DEF Sound
    <2> QED
      BY <2>1, <2>2
  <1> QED
    BY <1>2, <1>3 DEF Sound

LEMMA NoErrorKept ==
  ASSUME Typed, Places, RefsInv, Kinds, NoError, NEW a \in Actor, StepOf(a), config' = config
  PROVE  NoError'
  <1> SUFFICES ASSUME ~config.fails
               PROVE  /\ \A n \in Buffer : node'[n].result # "error"
                      /\ \A c \in Actor : job'[c].kind \in {"loadNode", "pageNode"} /\ pc'[c] \in {"finish", "publish"} =>
                           res'[c] # "error"
    BY DEF NoError
  <1>1. OthersKept(a)
    BY OthersAlone
  <1>2. ASSUME NEW n \in Buffer
        PROVE  node'[n].result # "error"
    <2>1. node[n].result # "error"
      BY DEF NoError
    <2>2. CASE a \in Buffer /\ AcquireNew(a)
      BY <2>1, <2>2, AcquireNewEdits
    <2>3. CASE Publish(a)
      <3>1. CASE node'[n].result = node[n].result
        BY <2>1, <3>1
      <3>2. CASE node'[n].result # node[n].result
        <4>1. job[a].kind # "loadBuffer" /\ pc[a] = "publish" /\ node'[n].result = res[a]
          BY <2>3, <3>2, PublishEdits
        <4>2. job[a].kind \in {"loadNode", "pageNode"}
          <5>1. job[a] \in Job /\ job[a].kind \notin {"freeNode", "freeBuffer"}
            BY <4>1, JobTyped DEF Places, Place, HandlerAt, LoadSteps
          <5> QED
            BY <4>1, <5>1 DEF Job, NodeKind, BufferKind
        <4> QED
          BY <4>1, <4>2 DEF NoError
      <3> QED
        BY <3>1, <3>2
    <2>4. CASE Abandon(a)
      BY <2>1, <2>4, AbandonEdits
    <2> QED
      BY <2>1, <2>2, <2>3, <2>4, ResultSame
  <1>3. ASSUME NEW c \in Actor, job'[c].kind \in {"loadNode", "pageNode"}, pc'[c] \in {"finish", "publish"}
        PROVE  res'[c] # "error"
    <2>1. CASE c # a
      BY <1>1, <1>3, <2>1 DEF OthersKept, NoError
    <2>2. CASE c = a
      <3>1. /\ job'[a] = job[a] /\ job[a].of \in Buffer
            /\ \/ res'[a] \in {"success", "busy", "atEnd"}
               \/ res'[a] = node[job[a].of].result
               \/ pc[a] = "finish" /\ res'[a] = res[a]
        BY <1>3, <2>2, ToPublishNode
      <3> QED
        BY <1>3, <2>2, <3>1 DEF NoError
    <2> QED
      BY <2>1, <2>2
  <1> QED
    BY <1>2, <1>3

---------------------------------------------------------------------------
(* Jobs in place *)

LEMMA InPlaceOther ==
  ASSUME Typed, Places, RefsInv, Kinds, LoadOnce, OwnOnce, InPlace, NEW a \in Actor, StepOf(a),
         config' = config, NEW b \in Buffer, b # a
  PROVE  InPlaceAt(b)'
  <1>1. b \in Actor /\ pc'[b] = pc[b] /\ job'[b] = job[b] /\ res'[b] = res[b]
    BY OthersAlone DEF OthersKept, Actor
  <1>2. InPlaceAt(b)
    BY DEF InPlace
  <1>3. ASSUME job[b].kind = "loadNode", pc[b] \in {"begin", "open", "next"}, node[b].result = "busy"
        PROVE  node'[b].result = "busy"
    <2>1. job[b].of = b
      BY <1>3 DEF Places, Place, ClientAt, Actor, NoJob
    <2>2. LoadIn(b, b)
      BY <1>3, <2>1 DEF LoadIn, LoadSteps, HandedOn
    <2>3. CASE a \in Buffer /\ AcquireNew(a)
      BY <1>3, <2>3, AcquireNewEdits
    <2>4. CASE Publish(a)
      <3>1. CASE node'[b].result = node[b].result
        BY <1>3, <3>1
      <3>2. CASE node'[b].result # node[b].result
        <4>1. job[a].kind # "loadBuffer" /\ b = job[a].of /\ pc[a] = "publish" /\ node'[b].result = res[a]
          BY <2>4, <3>2, PublishEdits
        <4>2. job[a].kind \in {"loadNode", "pageNode"}
          <5>1. job[a] \in Job /\ job[a].kind \notin {"freeNode", "freeBuffer"}
            BY <4>1, JobTyped DEF Places, Place, HandlerAt, LoadSteps
          <5> QED
            BY <4>1, <5>1 DEF Job, NodeKind, BufferKind
        <4>3. ~LoadIn(a, b)
          BY <1>1, <2>2, LoadAlone
        <4> QED
          BY <4>1, <4>2, <4>3 DEF LoadIn, HandedOn, LoadSteps
      <3> QED
        BY <3>1, <3>2
    <2>5. CASE Abandon(a)
      <3>1. node[b].refs = 1
        BY <1>3 DEF RefsInv, Locked
      <3> QED
        BY <1>3, <2>5, <3>1, AbandonEdits DEF Gone
    <2> QED
      BY <1>3, <2>3, <2>4, <2>5, ResultSame
  <1>4. ASSUME job[b].kind = "loadBuffer", pc[b] \in {"begin", "connect", "look", "lookUnknown"},
               buffer[b].result = "busy"
        PROVE  buffer'[b].result = "busy"
    <2>1. job[b].of = b
      BY <1>4 DEF Places, Place, ClientAt, Actor, NoJob
    <2>2. OwnIn(b, b)
      BY <1>4, <2>1 DEF OwnIn, In, LoadSteps
    <2>3. CASE a \in Buffer /\ (CheckLoaded(a) \/ LoadBack(a) \/ Cancel(a))
      BY <1>4, <2>3, ClientEdits
    <2>4. CASE Connect(a)
      BY <1>4, <2>4, ConnectEdits
    <2>5. CASE Publish(a)
      <3>1. CASE buffer'[b].result = buffer[b].result
        BY <1>4, <3>1
      <3>2. CASE buffer'[b].result # buffer[b].result
        <4>1. job[a].kind = "loadBuffer" /\ b = job[a].of /\ pc[a] = "publish"
          BY <2>5, <3>2, PublishEdits
        <4>2. OwnIn(a, b)
          BY <4>1 DEF OwnIn, In, LoadSteps
        <4> QED
          BY <1>1, <2>2, <4>2, OwnAlone
      <3> QED
        BY <3>1, <3>2
    <2> QED
      BY <1>4, <2>3, <2>4, <2>5, BufferSame
  <1> QED
    BY <1>1, <1>2, <1>3, <1>4 DEF InPlaceAt, NodeInPlace, BufferInPlace

LEMMA StartsInPlace ==
  ASSUME Typed, Places, NEW a \in Buffer, StepOf(a), job'[a] # NoJob
  PROVE  \/ /\ job'[a] = job[a] /\ pc[a] \in LoadSteps \cup {"tail"} /\ Process(a)
         \/ AcquireNew(a) /\ a \in config.wait /\ job'[a].kind = "loadNode" /\ pc'[a] = "begin"
         \/ CheckLoading(a) /\ a \in config.wait /\ job'[a].kind = "loadBuffer" /\ pc'[a] = "begin"
  <1> USE ResourceAssumption DEF Typed, At, Goto, Returns, Handled, PostAgain, Actor
  <1>0. a \in Actor /\ a \notin Worker /\ (pc[a] \in LoadSteps \cup {"tail", "back"} <=> job[a] # NoJob)
    BY DEF Places, Place, ClientAt
  <1>1. CASE InitBegin(a) \/ UninitBegin(a) \/ UninitEnd(a) \/ WaitInit(a) \/ InitEnd(a) \/ Uninit(a) \/ Cancel(a)
    <2>1. job' = job /\ pc[a] \notin LoadSteps \cup {"tail", "back"}
      BY <1>1 DEF InitBegin, UninitBegin, UninitEnd, WaitInit, InitEnd, Uninit, Cancel, shared, LoadSteps
    <2> QED
      BY <1>0, <2>1
  <1>2. CASE AcquireOld(a) \/ CheckLoaded(a)
    <2>1. job' = job /\ pc[a] \notin LoadSteps \cup {"tail", "back"}
      BY <1>2 DEF AcquireOld, CheckLoaded, LoadSteps
    <2> QED
      BY <1>0, <2>1
  <1>3. CASE AcquireNew(a)
    <2>1. CASE a \in config.wait
      BY <1>0, <1>3, <2>1 DEF AcquireNew
    <2>2. CASE a \notin config.wait
      <3>1. job' = job /\ pc[a] \notin LoadSteps \cup {"tail", "back"}
        BY <1>3, <2>2 DEF AcquireNew, LoadSteps
      <3> QED
        BY <1>0, <3>1
    <2> QED
      BY <2>1, <2>2
  <1>4. CASE CheckLoading(a)
    <2>1. CASE a \in config.wait
      BY <1>0, <1>4, <2>1 DEF CheckLoading
    <2>2. CASE a \notin config.wait
      <3>1. job' = job /\ pc[a] \notin LoadSteps \cup {"tail", "back"}
        BY <1>4, <2>2 DEF CheckLoading, LoadSteps
      <3> QED
        BY <1>0, <3>1
    <2> QED
      BY <2>1, <2>2
  <1>5. CASE AcquireBack(a) \/ LoadBack(a)
    <2>1. job'[a] = NoJob
      BY <1>0, <1>5 DEF AcquireBack, LoadBack
    <2> QED
      BY <2>1
  <1>6. CASE Process(a)
    <2>1. CASE Unacquire(a) \/ Drop(a) \/ Abandon(a)
      <3>1. job' = job /\ pc[a] \notin LoadSteps \cup {"tail", "back"}
        BY <2>1 DEF Unacquire, Drop, Abandon, LoadSteps
      <3> QED
        BY <1>0, <3>1
    <2>2. CASE OutOfTurn(a) \/ FreeNode(a) \/ Look(a) \/ Advance(a)
      <3>1. job'[a] = job[a] /\ pc[a] \in LoadSteps \cup {"tail"}
        BY <1>0, <2>2 DEF OutOfTurn, FreeNode, Look, Advance, Begins, LoadSteps
      <3> QED
        BY <1>6, <3>1
    <2>3. CASE NodeBegin(a) \/ Open(a) \/ Decode(a) \/ NextPage(a) \/ Finish(a) \/ BufferBegin(a) \/ Connect(a)
             \/ Publish(a) \/ Fences(a)
      <3>1. job' = job /\ pc[a] \in LoadSteps \cup {"tail"}
        BY <2>3 DEF NodeBegin, Open, Decode, NextPage, Finish, BufferBegin, Connect, Publish, Fences,
           Begins, LoadSteps
      <3> QED
        BY <1>6, <3>1
    <2> QED
      BY <1>6, <2>1, <2>2, <2>3 DEF Process
  <1> QED
    BY <1>0, <1>1, <1>2, <1>3, <1>4, <1>5, <1>6 DEF StepOf, Client

\* A node's first job in place
LEMMA NodeInPlaceKept ==
  ASSUME Typed, Places, RefsInv, Kinds, NEW a \in Buffer, Process(a), ~config.fails,
         job'[a] = job[a], job[a].kind = "loadNode", pc[a] \in LoadSteps \cup {"tail"}, NodeInPlace(a)
  PROVE  NodeInPlace(a)'
  <1> USE ResourceAssumption DEF Typed, At, Goto, Returns, Handled, PostAgain, Actor
  <1>0. a \in Actor /\ a \notin Worker /\ job[a].of = a
    BY DEF Places, Place, ClientAt, NoJob
  <1>1. CASE OutOfTurn(a)
    <2>1. pc'[a] = "back" /\ res'[a] = "success"
      BY <1>0, <1>1 DEF OutOfTurn
    <2> QED
      BY <2>1 DEF NodeInPlace
  <1>2. CASE NodeBegin(a)
    <2>1. pc'[a] = "open" /\ node' = node /\ node[a].result = "busy"
      BY <1>0, <1>2 DEF NodeBegin, Begins, NodeInPlace, shared
    <2> QED
      BY <2>1 DEF NodeInPlace
  <1>3. CASE Open(a)
    <2>1. \/ pc'[a] = "next" /\ node[a].result = "busy"
          \/ pc'[a] = "publish" /\ res'[a] = "success"
      BY <1>0, <1>3 DEF Open, NodeInPlace
    <2>2. node'[a].result = node[a].result
      <3>1. \/ node' = node \/ node' = [node EXCEPT ![a].decoder = "lost"]
            \/ node' = [node EXCEPT ![a].known = TRUE, ![a].decoder = Carried]
        BY <1>0, <1>3 DEF Open, Carried
      <3> QED
        BY <3>1 DEF NodeT
    <2> QED
      BY <2>1, <2>2 DEF NodeInPlace
  <1>4. CASE NextPage(a)
    <2>1. pc'[a] = "publish" /\ res'[a] = "busy"
      BY <1>0, <1>4 DEF NextPage
    <2> QED
      BY <2>1 DEF NodeInPlace
  <1>5. CASE Publish(a) \/ Fences(a)
    <2>1. pc[a] \in {"publish", "fences"} /\ pc'[a] \in {"fences", "tail"} /\ res'[a] = res[a]
      BY <1>0, <1>5 DEF Publish, Fences
    <2> QED
      BY <2>1 DEF NodeInPlace
  <1>6. CASE Advance(a)
    <2>1. pc[a] = "tail" /\ pc'[a] = "back" /\ res'[a] = res[a]
      BY <1>0, <1>6 DEF Advance
    <2> QED
      BY <2>1 DEF NodeInPlace
  <1>7. ~(Decode(a) \/ Finish(a) \/ FreeNode(a) \/ BufferBegin(a) \/ Connect(a) \/ Look(a)
            \/ Unacquire(a) \/ Drop(a) \/ Abandon(a))
    <2>1. ~Decode(a) /\ ~Finish(a)
      BY <1>0 DEF Decode, Finish, Kinds, KindAt
    <2>2. ~FreeNode(a) /\ ~BufferBegin(a)
      BY DEF FreeNode, BufferBegin, Begins
    <2>3. ~Connect(a) /\ ~Look(a)
      BY <1>0 DEF Connect, Look, Places, Place, HandlerAt
    <2>4. ~Unacquire(a) /\ ~Drop(a) /\ ~Abandon(a)
      BY DEF Unacquire, Drop, Abandon, LoadSteps
    <2> QED
      BY <2>1, <2>2, <2>3, <2>4
  <1> QED
    BY <1>1, <1>2, <1>3, <1>4, <1>5, <1>6, <1>7 DEF Process

\* The node of a buffer that loads in place is neither given up nor failed
LEMMA NodeGood ==
  ASSUME Typed, Places, RefsInv, Sound, NoError, ~config.fails, NEW a \in Buffer,
         pc[a] \in {"connect", "look", "lookUnknown"}
  PROVE  NodeOf(a) \in Buffer /\ node[NodeOf(a)].result \in {"busy", "success"}
  <1>1. buffer[a].holds
    BY DEF RefsInv, Kept, HoldSteps, LoadSteps
  <1>2. NodeOf(a) = buffer[a].node
    BY DEF NodeOf, Of
  <1>3. NodeOf(a) \in Buffer /\ node[NodeOf(a)].refs # 0
    BY <1>1, <1>2, HeldCounted
  <1>4. node[NodeOf(a)].result \in Result
    BY <1>3, Fields
  <1> QED
    BY <1>3, <1>4 DEF Sound, NoError, Result

\* A buffer's job in place
LEMMA BufferInPlaceKept ==
  ASSUME Typed, Places, RefsInv, Kinds, Sound, NoError, NEW a \in Buffer, Process(a), ~config.fails,
         job'[a] = job[a], job[a].kind = "loadBuffer", pc[a] \in LoadSteps \cup {"tail"}, BufferInPlace(a)
  PROVE  BufferInPlace(a)'
  <1> USE ResourceAssumption DEF Typed, At, Goto, Returns, Handled, PostAgain, Actor
  <1>0. a \in Actor /\ a \notin Worker /\ job[a].of = a
    BY DEF Places, Place, ClientAt, NoJob
  <1>1. CASE OutOfTurn(a)
    <2>1. pc'[a] = "back" /\ res'[a] = "success"
      BY <1>0, <1>1 DEF OutOfTurn
    <2> QED
      BY <2>1 DEF BufferInPlace
  <1>2. CASE BufferBegin(a)
    <2>1. pc'[a] = "connect" /\ buffer' = buffer /\ buffer[a].result = "busy"
      BY <1>0, <1>2 DEF BufferBegin, Begins, BufferInPlace, shared
    <2> QED
      BY <2>1 DEF BufferInPlace
  <1>3. CASE Connect(a)
    <2>1. buffer[a].result = "busy" /\ buffer'[a].result = buffer[a].result
      BY <1>0, <1>3, ConnectEdits DEF BufferInPlace
    <2>2. node[NodeOf(a)].result \in {"busy", "success"}
      BY <1>3, NodeGood DEF Connect
    <2>3. pc'[a] \in {"look", "lookUnknown"}
      BY <1>0, <1>3, <2>2 DEF Connect
    <2> QED
      BY <2>1, <2>3 DEF BufferInPlace
  <1>4. CASE Look(a)
    <2>1. node[NodeOf(a)].result \in {"busy", "success"}
      BY <1>4, NodeGood DEF Look
    <2>2. pc'[a] \in {"back", "publish"} /\ res'[a] = "success"
      BY <1>0, <1>4, <2>1 DEF Look
    <2> QED
      BY <2>2 DEF BufferInPlace
  <1>5. CASE Publish(a) \/ Fences(a)
    <2>1. pc[a] \in {"publish", "fences"} /\ pc'[a] \in {"fences", "tail"} /\ res'[a] = res[a]
      BY <1>0, <1>5 DEF Publish, Fences
    <2> QED
      BY <2>1 DEF BufferInPlace
  <1>6. CASE Advance(a)
    <2>1. pc[a] = "tail" /\ pc'[a] = "back" /\ res'[a] = res[a]
      BY <1>0, <1>6 DEF Advance
    <2> QED
      BY <2>1 DEF BufferInPlace
  <1>7. ~(Open(a) \/ NextPage(a) \/ Decode(a) \/ Finish(a) \/ FreeNode(a) \/ NodeBegin(a)
            \/ Unacquire(a) \/ Drop(a) \/ Abandon(a))
    <2>1. ~Decode(a) /\ ~Finish(a) /\ ~Open(a) /\ ~NextPage(a)
      BY <1>0 DEF Decode, Finish, Open, NextPage, Kinds, KindAt
    <2>2. ~FreeNode(a) /\ ~NodeBegin(a)
      BY DEF FreeNode, NodeBegin, Begins
    <2>4. ~Unacquire(a) /\ ~Drop(a) /\ ~Abandon(a)
      BY DEF Unacquire, Drop, Abandon, LoadSteps
    <2> QED
      BY <2>1, <2>2, <2>4
  <1> QED
    BY <1>1, <1>2, <1>3, <1>4, <1>5, <1>6, <1>7 DEF Process

LEMMA InPlaceSelf ==
  ASSUME Typed, Places, RefsInv, Kinds, OwnOnce, Sound, NoError, InPlace, NEW a \in Buffer, StepOf(a),
         config' = config
  PROVE  InPlaceAt(a)'
  <1>0. InPlaceAt(a) /\ a \in Actor
    BY DEF InPlace, Actor
  <1>1. CASE job'[a] = NoJob
    BY <1>1 DEF InPlaceAt, NoJob
  <1>2. CASE job'[a] = job[a] /\ job[a] # NoJob /\ pc[a] \in LoadSteps \cup {"tail"} /\ Process(a)
    <2>1. ASSUME ~config.fails, job[a].kind = "loadNode"
          PROVE  NodeInPlace(a)'
      BY <1>0, <1>2, <2>1, NodeInPlaceKept DEF InPlaceAt
    <2>2. ASSUME ~config.fails, job[a].kind = "loadBuffer"
          PROVE  BufferInPlace(a)'
      BY <1>0, <1>2, <2>2, BufferInPlaceKept DEF InPlaceAt
    <2> QED
      BY <1>0, <1>2, <2>1, <2>2 DEF InPlaceAt
  <1>3. CASE AcquireNew(a) /\ a \in config.wait /\ job'[a].kind = "loadNode" /\ pc'[a] = "begin"
    BY <1>3, AcquireNewEdits DEF InPlaceAt, NodeInPlace
  <1>4. CASE CheckLoading(a) /\ a \in config.wait /\ job'[a].kind = "loadBuffer" /\ pc'[a] = "begin"
    <2>1. buffer[a].result = "busy"
      BY <1>4 DEF CheckLoading, At, OwnOnce, Unloaded
    <2>2. ~CheckLoaded(a) /\ ~LoadBack(a) /\ ~Cancel(a) /\ ~Connect(a) /\ ~Publish(a)
      BY <1>4 DEF CheckLoading, CheckLoaded, LoadBack, Cancel, Connect, Publish, At
    <2>3. buffer'[a].result = buffer[a].result
      BY <1>0, <2>2, BufferSame
    <2> QED
      BY <1>4, <2>1, <2>3 DEF InPlaceAt, BufferInPlace
  <1> QED
    BY <1>1, <1>2, <1>3, <1>4, StartsInPlace

LEMMA InPlaceKept ==
  ASSUME Typed, Places, RefsInv, Kinds, LoadOnce, OwnOnce, Sound, NoError, InPlace, NEW a \in Actor,
         StepOf(a),
         config' = config
  PROVE  InPlace'
  <1>1. \A b \in Buffer : b # a => InPlaceAt(b)'
    BY InPlaceOther
  <1>2. a \in Buffer => InPlaceAt(a)'
    BY InPlaceSelf
  <1> QED
    BY <1>1, <1>2 DEF InPlace

---------------------------------------------------------------------------
(* Fences *)

FenceAt(b) ==
  /\ fence[b].done = Outer(b) + LoadsLeft(b) + Own(b)
  /\ fence[b].init = Outer(b) + First(b) + (IF buffer[b].connector THEN 0 ELSE Own(b))

Fenced == \A b \in Buffer : FenceAt(b)

LEMMA OuterNat ==
  ASSUME NEW b
  PROVE  Outer(b) \in {0, 1}
  BY DEF Outer

LEMMA FencesExactIs ==
  ASSUME Typed
  PROVE  FencesExact <=> Fenced
  <1>1. ASSUME NEW b \in Buffer
        PROVE  /\ Own(b) = Queued("loadBuffer", b) + Running("loadBuffer", b, LoadSteps)
               /\ First(b) = Queued("loadNode", b) + Running("loadNode", b, LoadSteps)
               /\ \A i : Outer(b) + Queued("loadNode", b) + Running("loadNode", b, LoadSteps) = Outer(b) + First(b)
    BY QueuedNat, RunningNat, OuterNat DEF Own, First
  <1> QED
    BY <1>1 DEF FencesExact, Fenced, FenceAt

LEMMA FenceAtSame ==
  ASSUME NEW x, FenceAt(x), fence'[x] = fence[x], Outer(x)' = Outer(x), Own(x)' = Own(x),
         First(x)' = First(x),
         LoadsLeft(x)' = LoadsLeft(x), buffer'[x].connector = buffer[x].connector \/ Own(x) = 0
  PROVE  FenceAt(x)'
  BY DEF FenceAt

LEMMA AcquiredIs ==
  ASSUME Typed, NEW b \in Buffer, AcquireFences(b)
  PROVE  /\ \A c \in Buffer \ {b} : fence'[c] = fence[c]
         /\ fence'[b].init = fence[b].init + 1 /\ fence'[b].done = fence[b].done + 1
  BY DEF AcquireFences, Typed, FenceT

LEMMA ReleasedIs ==
  ASSUME Typed, NEW b \in Buffer, NEW i, NEW d, fence' = Released(b, i, d)
  PROVE  /\ \A c \in Buffer \ {b} : fence'[c] = fence[c]
         /\ fence'[b].init = (IF i THEN Less(fence[b].init) ELSE fence[b].init)
         /\ fence'[b].done = (IF d THEN Less(fence[b].done) ELSE fence[b].done)
         /\ fence[b].init \in Nat /\ fence[b].done \in Nat
  BY DEF Released, Typed, FenceT

LEMMA OuterSame ==
  ASSUME Typed, Phased, NEW a \in Actor, StepOf(a), ~(a \in Buffer /\ (InitBegin(a) \/ InitEnd(a))),
         NEW b \in Buffer
  PROVE  Outer(b)' = Outer(b)
  <1>1. CASE a \in Buffer /\ UninitBegin(a)
    BY <1>1 DEF UninitBegin, At, Phased, PhaseAt, Typed, Outer
  <1>2. CASE a \in Buffer /\ UninitEnd(a)
    BY <1>2 DEF UninitEnd, At, Phased, PhaseAt, Typed, Outer
  <1>3. CASE a \in Buffer /\ (AcquireOld(a) \/ AcquireNew(a) \/ AcquireBack(a) \/ CheckLoaded(a) \/ CheckLoading(a)
                              \/ LoadBack(a) \/ WaitInit(a) \/ Uninit(a) \/ Cancel(a))
    BY <1>3 DEF AcquireOld, AcquireNew, AcquireBack, CheckLoaded, CheckLoading, LoadBack, WaitInit,
       Uninit, Cancel, Outer
  <1>4. CASE a \in Worker /\ JobThread(a)
    BY <1>4 DEF JobThread, Take, FreeBuffer, Notify, Outer
  <1>5. CASE OutOfTurn(a) \/ NodeBegin(a) \/ Open(a) \/ Decode(a) \/ NextPage(a) \/ Finish(a) \/ FreeNode(a)
    BY <1>5 DEF OutOfTurn, NodeBegin, Open, Decode, NextPage, Finish, FreeNode, Outer
  <1>6. CASE BufferBegin(a) \/ Connect(a) \/ Look(a) \/ Publish(a) \/ Fences(a) \/ Advance(a)
    BY <1>6 DEF BufferBegin, Connect, Look, Publish, Fences, Advance, Outer
  <1>7. CASE Unacquire(a) \/ Drop(a) \/ Abandon(a)
    BY <1>7 DEF Unacquire, Drop, Abandon, Outer
  <1> QED
    BY <1>1, <1>2, <1>3, <1>4, <1>5, <1>6, <1>7 DEF StepOf, Client, Process

LEMMA ConnectorSame ==
  ASSUME Typed, Places, RefsInv, NEW a \in Actor, StepOf(a), ~(a \in Buffer /\ CheckLoaded(a)),
         ~Connect(a),
         NEW b \in Buffer
  PROVE  buffer'[b].connector = buffer[b].connector
  <1>1. CASE a \in Buffer /\ (LoadBack(a) \/ Cancel(a))
    <2> DEFINE r == res[a]
               c == buffer[a].counter + 1
    <2>1. \/ buffer' = buffer
          \/ buffer' = [buffer EXCEPT ![a].result = r]
          \/ buffer' = [buffer EXCEPT ![a].result = "unavailable", ![a].counter = c]
      BY <1>1 DEF LoadBack, Cancel
    <2> HIDE DEF r, c
    <2>2. buffer \in [Buffer -> BufferT]
      BY DEF Typed
    <2> QED
      BY <1>1, <2>1, <2>2 DEF BufferT
  <1>2. CASE Publish(a)
    BY <1>2, PublishEdits
  <1> QED
    BY <1>1, <1>2, BufferSame

\* Jobs processed in place do not fail
Careful == config.fails => config.wait = {}

LEMMA InPlaceSucceeds ==
  ASSUME Careful, Typed, Places, InPlace, NEW b \in Buffer, pc[b] = "back"
  PROVE  /\ job[b].kind = "loadNode" => res[b] \in {"busy", "success"}
         /\ job[b].kind = "loadBuffer" => res[b] = "success"
  <1>1. job[b] # NoJob
    BY DEF Places, Place, ClientAt, Actor
  <1>2. b \in config.wait
    BY <1>1 DEF InPlace, InPlaceAt
  <1>3. ~config.fails
    BY <1>2 DEF Careful
  <1> QED
    BY <1>3 DEF InPlace, InPlaceAt, NodeInPlace, BufferInPlace

\* The steps that leave the fences alone
LEMMA FencesLeft ==
  ASSUME Careful, Typed, Places, InPlace, NEW a \in Actor, StepOf(a),
         ~(a \in Buffer /\ (InitBegin(a) \/ AcquireNew(a) \/ CheckLoading(a) \/ InitEnd(a))), ~Connect(a), ~Fences(a)
  PROVE  fence' = fence
  <1>1. CASE a \in Buffer /\ (UninitBegin(a) \/ UninitEnd(a) \/ WaitInit(a) \/ Uninit(a) \/ Cancel(a)
                              \/ AcquireOld(a) \/ CheckLoaded(a))
    BY <1>1 DEF UninitBegin, UninitEnd, WaitInit, Uninit, Cancel, AcquireOld, CheckLoaded, shared
  <1>2. CASE a \in Buffer /\ (AcquireBack(a) \/ LoadBack(a))
    BY <1>2, InPlaceSucceeds DEF AcquireBack, LoadBack, At
  <1>3. CASE a \in Worker /\ JobThread(a)
    BY <1>3 DEF JobThread, Take, FreeBuffer, Notify, shared
  <1>4. CASE OutOfTurn(a) \/ NodeBegin(a) \/ Open(a) \/ Decode(a) \/ NextPage(a) \/ Finish(a) \/ FreeNode(a)
    BY <1>4 DEF OutOfTurn, NodeBegin, Open, Decode, NextPage, Finish, FreeNode, shared
  <1>5. CASE BufferBegin(a) \/ Look(a) \/ Publish(a) \/ Advance(a)
    BY <1>5 DEF BufferBegin, Look, Publish, Advance, shared
  <1>6. CASE Unacquire(a) \/ Drop(a) \/ Abandon(a)
    BY <1>6 DEF Unacquire, Drop, Abandon
  <1> QED
    BY <1>1, <1>2, <1>3, <1>4, <1>5, <1>6 DEF StepOf, Client, Process

LEMMA InitBeginFences ==
  ASSUME Typed, Phased, NEW a \in Buffer, OthersKept(a), InitBegin(a), NEW b \in Buffer, FenceAt(b)
  PROVE  FenceAt(b)'
  <1>1. a \in Actor /\ buffer' = buffer /\ AcquireFences(a)
    BY DEF InitBegin, Actor
  <1>2. Own(b)' = Own(b) /\ First(b)' = First(b) /\ LoadsLeft(b)' = LoadsLeft(b)
    BY <1>1, IdleCounts DEF CountsSame, OwnSame, LoadsSame
  <1>3. CASE b = a
    <2>1. Outer(b) = 0 /\ Outer(b)' = 1
      BY <1>3 DEF InitBegin, Phased, PhaseAt, At, Typed, Outer
    <2> QED
      BY <1>1, <1>2, <1>3, <2>1, CountsNat, AcquiredIs DEF FenceAt
  <1>4. CASE b # a
    <2>1. Outer(b)' = Outer(b) /\ fence'[b] = fence[b]
      BY <1>1, <1>4, AcquiredIs DEF InitBegin, Typed, Outer
    <2> QED
      BY <1>1, <1>2, <2>1, FenceAtSame
  <1> QED
    BY <1>3, <1>4

LEMMA InitEndFences ==
  ASSUME Typed, Phased, NEW a \in Buffer, OthersKept(a), InitEnd(a), NEW b \in Buffer, FenceAt(b)
  PROVE  FenceAt(b)'
  <1>1. a \in Actor /\ buffer' = buffer /\ fence' = Released(a, TRUE, TRUE)
    BY DEF InitEnd, Actor
  <1>2. Own(b)' = Own(b) /\ First(b)' = First(b) /\ LoadsLeft(b)' = LoadsLeft(b)
    BY <1>1, IdleCounts DEF CountsSame, OwnSame, LoadsSame
  <1>3. CASE b = a
    <2>1. Outer(b) = 1 /\ Outer(b)' = 0
      BY <1>3 DEF InitEnd, Phased, PhaseAt, At, Typed, Outer
    <2>2. fence'[b].init = Less(fence[b].init) /\ fence'[b].done = Less(fence[b].done)
      BY <1>1, <1>3, ReleasedIs
    <2>3. /\ fence[b].init = 1 + First(b) + (IF buffer[b].connector THEN 0 ELSE Own(b))
          /\ fence[b].done = 1 + LoadsLeft(b) + Own(b)
      BY <2>1 DEF FenceAt
    <2>4. /\ Less(fence[b].init) = First(b) + (IF buffer[b].connector THEN 0 ELSE Own(b))
          /\ Less(fence[b].done) = LoadsLeft(b) + Own(b)
      BY <2>3, CountsNat DEF Less
    <2>5. buffer'[b].connector = buffer[b].connector
      BY <1>1
    <2> QED
      BY <1>2, <2>1, <2>2, <2>4, <2>5, CountsNat DEF FenceAt
  <1>4. CASE b # a
    <2>1. Outer(b)' = Outer(b) /\ fence'[b] = fence[b]
      BY <1>1, <1>4, ReleasedIs DEF InitEnd, Typed, Outer
    <2> QED
      BY <1>1, <1>2, <2>1, FenceAtSame
  <1> QED
    BY <1>3, <1>4

LEMMA AcquireNewFences ==
  ASSUME Typed, Places, RefsInv, Phased, NEW a \in Buffer, OthersKept(a), StepOf(a), AcquireNew(a),
         NEW b \in Buffer,
         FenceAt(b)
  PROVE  FenceAt(b)'
  <1>1. a \in Actor /\ AcquireFences(a) /\ ~CheckLoaded(a) /\ ~Connect(a) /\ ~InitBegin(a) /\ ~InitEnd(a)
    BY DEF AcquireNew, Actor, CheckLoaded, Connect, InitBegin, InitEnd, At
  <1>2. Outer(b)' = Outer(b) /\ buffer'[b].connector = buffer[b].connector
    BY <1>1, OuterSame, ConnectorSame
  <1>3. Own(b)' = Own(b) /\ First(b)' = First(b) + Bit(b = a) /\ LoadsLeft(b)' = LoadsLeft(b) + Bit(b = a)
    BY AcquireNewCounts
  <1>4. CASE b = a
    <2>1. Bit(b = a) = 1
      BY <1>4 DEF Bit
    <2> QED
      BY <1>1, <1>2, <1>3, <1>4, <2>1, CountsNat, OuterNat, AcquiredIs DEF FenceAt
  <1>5. CASE b # a
    <2>1. Bit(b = a) = 0
      BY <1>5 DEF Bit
    <2>2. First(b)' = First(b) /\ LoadsLeft(b)' = LoadsLeft(b)
      BY <1>3, <2>1, CountsNat
    <2> QED
      BY <1>1, <1>2, <1>3, <1>5, <2>2, AcquiredIs, FenceAtSame
  <1> QED
    BY <1>4, <1>5

LEMMA CheckLoadingFences ==
  ASSUME Typed, Places, RefsInv, Phased, OwnOnce, NEW a \in Buffer, OthersKept(a), StepOf(a),
         CheckLoading(a),
         NEW b \in Buffer, FenceAt(b)
  PROVE  FenceAt(b)'
  <1>1. a \in Actor /\ AcquireFences(a) /\ ~CheckLoaded(a) /\ ~Connect(a) /\ ~InitBegin(a) /\ ~InitEnd(a)
    BY DEF CheckLoading, Actor, CheckLoaded, Connect, InitBegin, InitEnd, At
  <1>2. Outer(b)' = Outer(b) /\ buffer'[b].connector = buffer[b].connector
    BY <1>1, OuterSame, ConnectorSame
  <1>3. Own(b)' = Own(b) + Bit(b = a) /\ First(b)' = First(b) /\ LoadsLeft(b)' = LoadsLeft(b)
    BY CheckLoadingCounts DEF LoadsSame
  <1>4. CASE b = a
    <2>1. Bit(b = a) = 1
      BY <1>4 DEF Bit
    <2>2. ~buffer[b].connector
      BY <1>4 DEF OwnOnce, Unloaded, CheckLoading, At
    <2> QED
      BY <1>1, <1>2, <1>3, <1>4, <2>1, <2>2, CountsNat, OuterNat, AcquiredIs DEF FenceAt
  <1>5. CASE b # a
    <2>1. Bit(b = a) = 0
      BY <1>5 DEF Bit
    <2>2. Own(b)' = Own(b)
      BY <1>3, <2>1, CountsNat
    <2> QED
      BY <1>1, <1>2, <1>3, <1>5, <2>2, AcquiredIs, FenceAtSame
  <1> QED
    BY <1>4, <1>5

LEMMA CheckLoadedFences ==
  ASSUME Typed, Places, RefsInv, Kinds, OwnOnce, Phased, NEW a \in Buffer, OthersKept(a), StepOf(a),
         CheckLoaded(a),
         NEW b \in Buffer, FenceAt(b)
  PROVE  FenceAt(b)'
  <1>1. a \in Actor /\ fence' = fence /\ ~InitBegin(a) /\ ~InitEnd(a)
    BY DEF CheckLoaded, Actor, InitBegin, InitEnd, At
  <1>2. Outer(b)' = Outer(b)
    BY <1>1, OuterSame
  <1>3. Own(b)' = Own(b) /\ First(b)' = First(b) /\ LoadsLeft(b)' = LoadsLeft(b)
    BY <1>1, IdleCounts DEF CountsSame, OwnSame, LoadsSame
  <1>4. buffer'[b].connector = buffer[b].connector \/ Own(b) = 0
    <2>1. CASE b = a
      BY <2>1 DEF OwnOnce, Unloaded, CheckLoaded, At
    <2>2. CASE b # a
      BY <2>2, ClientEdits
    <2> QED
      BY <2>1, <2>2
  <1> QED
    BY <1>1, <1>2, <1>3, <1>4, FenceAtSame

LEMMA ConnectFences ==
  ASSUME Typed, Places, RefsInv, Kinds, OwnOnce, Phased, NEW a \in Actor, OthersKept(a), StepOf(a),
         Connect(a),
         NEW b \in Buffer, FenceAt(b)
  PROVE  FenceAt(b)'
  <1>1. Outer(b)' = Outer(b)
    <2>1. phase' = phase
      BY DEF Connect
    <2> QED
      BY <2>1 DEF Outer
  <1>2. Own(b)' = Own(b) /\ First(b)' = First(b) /\ LoadsLeft(b)' = LoadsLeft(b)
    BY WorkCounts DEF CountsSame, OwnSame, LoadsSame
  <1>3. /\ job[a].of \in Buffer /\ job[a].kind = "loadBuffer" /\ pc[a] = "connect"
        /\ b # job[a].of => buffer'[b].connector = buffer[b].connector
    BY ConnectEdits
  <1>4. CASE buffer' = buffer /\ fence' = fence
    BY <1>1, <1>2, <1>4, FenceAtSame
  <1>5. CASE ~buffer[job[a].of].connector /\ fence' = Released(job[a].of, TRUE, FALSE)
             /\ buffer' = [buffer EXCEPT ![job[a].of].connector = TRUE]
    <2>1. CASE b = job[a].of
      <3>1. OwnIn(a, b)
        BY <1>3, <2>1 DEF OwnIn, In, LoadSteps
      <3>2. Own(b) = 1 /\ ~buffer[b].connector
        BY <1>5, <2>1, <3>1, OwnAlone
      <3>3. buffer'[b].connector
        <4>1. buffer \in [Buffer -> BufferT]
          BY DEF Typed
        <4> QED
          BY <1>5, <2>1, <4>1 DEF BufferT
      <3>4. fence'[b].init = Less(fence[b].init) /\ fence'[b].done = fence[b].done
        BY <1>5, <2>1, ReleasedIs
      <3> QED
        BY <1>1, <1>2, <3>2, <3>3, <3>4, CountsNat, OuterNat DEF FenceAt, Less
    <2>2. CASE b # job[a].of
      <3>1. fence'[b] = fence[b]
        BY <1>3, <1>5, <2>2, ReleasedIs
      <3> QED
        BY <1>1, <1>2, <1>3, <2>2, <3>1, FenceAtSame
    <2> QED
      BY <2>1, <2>2
  <1> QED
    BY <1>4, <1>5 DEF Connect

LEMMA JobFences ==
  ASSUME Typed, Places, Announced, OwnOnce, NEW a \in Actor, OthersKept(a), Fences(a),
         NEW b \in Buffer, FenceAt(b)
  PROVE  FenceAt(b)'
  <1>1. pc[a] = "fences" /\ buffer' = buffer /\ phase' = phase
    BY DEF Fences, At
  <1>2. Outer(b)' = Outer(b)
    BY <1>1 DEF Outer
  <1>3. job[a].of \in Buffer /\ job[a].kind \in {"loadNode", "pageNode", "loadBuffer"}
    <2>1. job[a] \in Job /\ job[a].of \in Buffer /\ job[a].kind \notin {"freeNode", "freeBuffer"}
      BY <1>1, JobTyped DEF Places, Place, HandlerAt, LoadSteps
    <2> QED
      BY <2>1 DEF Job, NodeKind, BufferKind
  <1>4. /\ Own(b)' = Own(b) - Bit(IsFor(job[a], "loadBuffer", b))
        /\ First(b)' = First(b) - Bit(IsFor(job[a], "loadNode", b))
        /\ LoadsLeft(b)' = LoadsLeft(b) - Bit(LoadIn(a, b))
    BY FencesCounts
  <1>5. CASE b # job[a].of
    <2>1. ~IsFor(job[a], "loadBuffer", b) /\ ~IsFor(job[a], "loadNode", b) /\ ~LoadIn(a, b)
      BY <1>5 DEF IsFor, LoadIn
    <2>2. Own(b)' = Own(b) /\ First(b)' = First(b) /\ LoadsLeft(b)' = LoadsLeft(b)
      BY <1>4, <2>1, CountsNat DEF Bit
    <2>3. \E i, d : fence' = Released(job[a].of, i, d)
      BY <1>3 DEF Fences
    <2>4. fence'[b] = fence[b]
      BY <1>3, <1>5, <2>3, ReleasedIs
    <2> QED
      BY <1>1, <1>2, <2>2, <2>4, FenceAtSame
  <1>6. CASE b = job[a].of /\ job[a].kind = "loadNode"
    <2>1. fence' = Released(b, TRUE, res[a] # "busy")
      BY <1>6 DEF Fences
    <2>2. FirstIn(a, b) /\ ~IsFor(job[a], "loadBuffer", b) /\ IsFor(job[a], "loadNode", b)
      BY <1>1, <1>6 DEF IsFor, FirstIn, In, LoadSteps
    <2>3. LoadIn(a, b) <=> res[a] # "busy"
      BY <1>1, <1>6 DEF LoadIn, HandedOn, LoadSteps
    <2>4. First(b) >= 1
      BY <2>2, RunningNat, QueuedNat DEF First, FirstIn
    <2>5. LoadIn(a, b) => LoadsLeft(b) >= 1
      <3>1. LoadIn(a, b) => LoadersAt(b) # {}
        BY DEF LoadersAt
      <3> QED
        BY <3>1, LoadsLeftIs, QueuedNat, FS_EmptySet
    <2>6. /\ fence'[b].init = Less(fence[b].init)
          /\ fence'[b].done = IF res[a] # "busy" THEN Less(fence[b].done) ELSE fence[b].done
      BY <2>1, ReleasedIs
    <2>7. Own(b)' = Own(b) /\ First(b)' = First(b) - 1
      BY <1>4, <2>2, CountsNat DEF Bit
    <2>8. LoadsLeft(b)' = IF res[a] # "busy" THEN LoadsLeft(b) - 1 ELSE LoadsLeft(b)
      BY <1>4, <2>3, CountsNat DEF Bit
    <2> QED
      BY <1>1, <1>2, <2>3, <2>4, <2>5, <2>6, <2>7, <2>8, CountsNat, OuterNat DEF FenceAt, Less
  <1>7. CASE b = job[a].of /\ job[a].kind = "pageNode"
    <2>1. fence' = Released(b, FALSE, res[a] # "busy")
      BY <1>7 DEF Fences
    <2>2. ~IsFor(job[a], "loadBuffer", b) /\ ~IsFor(job[a], "loadNode", b)
      BY <1>7 DEF IsFor
    <2>3. LoadIn(a, b) <=> res[a] # "busy"
      BY <1>1, <1>7 DEF LoadIn, HandedOn, LoadSteps
    <2>5. LoadIn(a, b) => LoadsLeft(b) >= 1
      <3>1. LoadIn(a, b) => LoadersAt(b) # {}
        BY DEF LoadersAt
      <3> QED
        BY <3>1, LoadsLeftIs, QueuedNat, FS_EmptySet
    <2>6. /\ fence'[b].init = fence[b].init
          /\ fence'[b].done = IF res[a] # "busy" THEN Less(fence[b].done) ELSE fence[b].done
      BY <2>1, ReleasedIs
    <2>7. Own(b)' = Own(b) /\ First(b)' = First(b)
      BY <1>4, <2>2, CountsNat DEF Bit
    <2>8. LoadsLeft(b)' = IF res[a] # "busy" THEN LoadsLeft(b) - 1 ELSE LoadsLeft(b)
      BY <1>4, <2>3, CountsNat DEF Bit
    <2> QED
      BY <1>1, <1>2, <2>3, <2>5, <2>6, <2>7, <2>8, CountsNat, OuterNat DEF FenceAt, Less
  <1>8. CASE b = job[a].of /\ job[a].kind = "loadBuffer"
    <2> DEFINE u == ~buffer[b].connector /\ res[a] # "success"
    <2>1. fence' = Released(b, u, TRUE)
      BY <1>8 DEF Fences
    <2>2. OwnIn(a, b) /\ IsFor(job[a], "loadBuffer", b) /\ ~IsFor(job[a], "loadNode", b) /\ ~LoadIn(a, b)
      BY <1>1, <1>8 DEF IsFor, OwnIn, In, LoadIn, LoadSteps
    <2>3. Own(b) = 1
      BY <2>2, OwnAlone
    <2>4. u <=> ~buffer[b].connector
      BY <1>1, <1>8 DEF Announced
    <2> HIDE DEF u
    <2>5. fence'[b].init = (IF u THEN Less(fence[b].init) ELSE fence[b].init) /\ fence'[b].done = Less(fence[b].done)
      BY <2>1, ReleasedIs
    <2>6. Own(b)' = 0 /\ First(b)' = First(b) /\ LoadsLeft(b)' = LoadsLeft(b)
      BY <1>4, <2>2, <2>3, CountsNat DEF Bit
    <2> QED
      BY <1>1, <1>2, <2>3, <2>4, <2>5, <2>6, CountsNat, OuterNat DEF FenceAt, Less
  <1> QED
    BY <1>3, <1>5, <1>6, <1>7, <1>8

LEMMA FencesKept ==
  ASSUME Careful, Typed, Places, RefsInv, Kinds, Phased, OwnOnce, Announced, InPlace, Fenced,
         NEW a \in Actor, StepOf(a)
  PROVE  Fenced'
  <1>0. OthersKept(a)
    BY OthersAlone
  <1>1. ASSUME NEW b \in Buffer
        PROVE  FenceAt(b)'
    <2>0. FenceAt(b)
      BY DEF Fenced
    <2>1. CASE a \in Buffer /\ (InitBegin(a) \/ InitEnd(a) \/ AcquireNew(a) \/ CheckLoading(a) \/ CheckLoaded(a))
      BY <1>0, <2>0, <2>1, InitBeginFences, InitEndFences, AcquireNewFences, CheckLoadingFences,
         CheckLoadedFences
    <2>2. CASE Connect(a) \/ Fences(a)
      BY <1>0, <2>0, <2>2, ConnectFences, JobFences
    <2>3. CASE /\ ~(a \in Buffer /\ (InitBegin(a) \/ InitEnd(a) \/ AcquireNew(a) \/ CheckLoading(a) \/ CheckLoaded(a)))
               /\ ~Connect(a) /\ ~Fences(a)
      <3>1. fence' = fence
        BY <2>3, FencesLeft
      <3>2. Outer(b)' = Outer(b) /\ buffer'[b].connector = buffer[b].connector
        BY <2>3, OuterSame, ConnectorSame
      <3>3. Own(b)' = Own(b) /\ First(b)' = First(b) /\ LoadsLeft(b)' = LoadsLeft(b)
        <4>1. CASE Open(a)
          BY <1>0, <4>1, OpenCounts DEF OwnSame, LoadsSame
        <4>2. CASE Finish(a)
          BY <1>0, <4>2, FinishCounts DEF OwnSame, LoadsSame
        <4>3. CASE ~Open(a) /\ ~Finish(a)
          BY <2>3, <4>3, OtherCounts DEF CountsSame, OwnSame, LoadsSame
        <4> QED
          BY <4>1, <4>2, <4>3
      <3> QED
        BY <2>0, <3>1, <3>2, <3>3, FenceAtSame
    <2> QED
      BY <2>1, <2>2, <2>3
  <1> QED
    BY <1>1 DEF Fenced

---------------------------------------------------------------------------
(* The invariant *)

CountsInv == Kinds /\ Phased /\ LoadOnce /\ OwnOnce /\ Announced /\ Sound /\ NoError /\ InPlace /\ DecoderOwned
FencesInv == Careful => Fenced

LEMMA ConfigKept ==
  ASSUME NEW a \in Actor, StepOf(a)
  PROVE  config' = config
  <1>1. ASSUME InitBegin(a) \/ UninitBegin(a) \/ Client(a)
        PROVE  config' = config
    BY <1>1 DEF InitBegin, UninitBegin, Client, AcquireOld, AcquireNew, AcquireBack, CheckLoaded,
       CheckLoading,
       LoadBack, WaitInit, InitEnd, Uninit, Cancel, UninitEnd
  <1>2. ASSUME JobThread(a)
        PROVE  config' = config
    BY <1>2 DEF JobThread, Take, FreeBuffer, Notify
  <1>3. ASSUME Process(a)
        PROVE  config' = config
    BY <1>3 DEF Process, OutOfTurn, NodeBegin, Open, Decode, NextPage, Finish, FreeNode, BufferBegin,
       Connect, Look,
       Publish, Fences, Advance, Unacquire, Drop, Abandon
  <1> QED
    BY <1>1, <1>2, <1>3 DEF StepOf

LEMMA InitCounts == Init => CountsInv /\ FencesInv
  <1> SUFFICES ASSUME Init
               PROVE  CountsInv /\ FencesInv
    OBVIOUS
  <1> USE ResourceAssumption
  <1>0. /\ queue = <<>>
        /\ \A a \in Actor : job[a] = NoJob /\ res[a] = "success"
        /\ \A a \in Buffer : pc[a] = "start" /\ phase[a] = "new"
        /\ \A a \in Worker : pc[a] = "idle"
        /\ \A b \in Buffer : buffer[b] = NewBuffer /\ fence[b] = [init |-> 0, done |-> 0]
        /\ \A n \in Buffer : node[n] = NewNode("none")
    BY DEF Init, Actor
  <1>1. ASSUME NEW x
        PROVE  /\ \A kind : Queued(kind, x) = 0
               /\ \A kind, steps : kind # "none" => Running(kind, x, steps) = 0
               /\ LoadsLeft(x) = 0
    <2>1. ASSUME NEW kind
          PROVE  Queued(kind, x) = 0
      <3>1. {i \in DOMAIN queue : queue[i].kind = kind /\ queue[i].of = x} = {}
        BY <1>0
      <3> QED
        BY <3>1, FS_EmptySet DEF Queued
    <2>2. ASSUME NEW kind, NEW steps, kind # "none"
          PROVE  Running(kind, x, steps) = 0
      <3>1. {a \in Actor : job[a].kind = kind /\ job[a].of = x /\ pc[a] \in steps} = {}
        BY <1>0, <2>2 DEF NoJob
      <3> QED
        BY <3>1, FS_EmptySet DEF Running
    <2>3. LoadersAt(x) = {}
      BY <1>0 DEF LoadersAt, LoadIn, NoJob
    <2>4. LoadsLeft(x) = 0
      BY <2>1, <2>3, LoadsLeftIs, FS_EmptySet
    <2> QED
      BY <2>1, <2>2, <2>4
  <1>2. \A x : Own(x) = 0 /\ First(x) = 0 /\ Paging(x) = 0
    BY <1>1 DEF Own, First, Paging
  <1>3. Kinds /\ Phased
    BY <1>0 DEF Kinds, KindAt, Phased, PhaseAt, Actor, LoadSteps
  <1>4. LoadOnce /\ OwnOnce
    BY <1>0, <1>1, <1>2 DEF LoadOnce, OwnOnce, NewBuffer
  <1>5. Announced /\ Sound /\ NoError
    BY <1>0 DEF Announced, Sound, NoError, NewBuffer, NewNode, NoJob
  <1>6. InPlace
    BY <1>0 DEF InPlace, InPlaceAt, Actor, NoJob
  <1>7. DecoderOwned
    BY <1>0, <1>2 DEF DecoderOwned, Paging, NewNode
  <1>8. Fenced
    BY <1>0, <1>1, <1>2 DEF Fenced, FenceAt, Outer
  <1> QED
    BY <1>3, <1>4, <1>5, <1>6, <1>7, <1>8 DEF CountsInv, FencesInv

LEMMA CountsStutter ==
  ASSUME UNCHANGED vars, CountsInv, FencesInv
  PROVE  CountsInv' /\ FencesInv'
  <1> USE DEF vars, shared
  <1>1. /\ \A x : Own(x)' = Own(x) /\ First(x)' = First(x) /\ LoadsLeft(x)' = LoadsLeft(x)
        /\ \A kind, x : Queued(kind, x)' = Queued(kind, x)
        /\ \A kind, x, steps : Running(kind, x, steps)' = Running(kind, x, steps)
    BY DEF Own, First, LoadsLeft, HandedOn, Queued, Running
  <1>2. Kinds' /\ Phased' /\ Announced' /\ Sound' /\ NoError'
    BY DEF CountsInv, Kinds, KindAt, Phased, PhaseAt, Announced, Sound, NoError
  <1>3. LoadOnce' /\ OwnOnce'
    BY <1>1 DEF CountsInv, LoadOnce, OwnOnce, Unloaded
  <1>4. InPlace'
    BY DEF CountsInv, InPlace, InPlaceAt, NodeInPlace, BufferInPlace
  <1>5. DecoderOwned'
    BY <1>1 DEF CountsInv, DecoderOwned
  <1>6. FencesInv'
    BY <1>1 DEF FencesInv, Careful, Fenced, FenceAt, Outer
  <1> QED
    BY <1>2, <1>3, <1>4, <1>5, <1>6 DEF CountsInv

LEMMA NextCounts == IInv /\ CountsInv /\ FencesInv /\ [Next]_vars => CountsInv' /\ FencesInv'
  <1> SUFFICES ASSUME IInv, CountsInv, FencesInv, [Next]_vars
               PROVE  CountsInv' /\ FencesInv'
    OBVIOUS
  <1>1. CASE UNCHANGED vars
    BY <1>1, CountsStutter
  <1>2. ASSUME NEW a \in Actor, StepOf(a)
        PROVE  CountsInv' /\ FencesInv'
    <2>1. Typed /\ Places /\ RefsInv
      BY TypedIs DEF IInv
    <2>2. /\ Kinds /\ Phased /\ LoadOnce /\ OwnOnce /\ Announced /\ Sound /\ NoError /\ InPlace /\ DecoderOwned
      BY DEF CountsInv
    <2>3. config' = config
      BY <1>2, ConfigKept
    <2>4. Kinds' /\ Phased' /\ LoadOnce' /\ OwnOnce' /\ Announced'
      BY <1>2, <2>1, <2>2, KindsKept, PhasedKept, LoadOnceKept, OwnOnceKept, AnnouncedKept
    <2>5. Sound' /\ NoError' /\ InPlace' /\ DecoderOwned'
      BY <1>2, <2>1, <2>2, <2>3, SoundKept, NoErrorKept, InPlaceKept, DecoderKept
    <2>6. FencesInv'
      <3>1. Careful' => Careful
        BY <2>3 DEF Careful
      <3>2. Careful => Fenced'
        BY <1>2, <2>1, <2>2, FencesKept DEF FencesInv
      <3> QED
        BY <3>1, <3>2 DEF FencesInv
    <2> QED
      BY <2>4, <2>5, <2>6 DEF CountsInv
  <1> QED
    BY <1>1, <1>2, NextIsStep

\* The counts of jobs, in the queue and under way, and what they have done: a
\* node's load goes through one job at a time, a buffer has one job.
THEOREM CountsInvariant == Spec => [](IInv /\ CountsInv /\ FencesInv)
  <1>1. Init => IInv /\ CountsInv /\ FencesInv
    BY InitIInv, InitCounts
  <1>2. IInv /\ CountsInv /\ FencesInv /\ [Next]_vars => (IInv /\ CountsInv /\ FencesInv)'
    BY NextIInv, NextCounts
  <1> QED
    BY <1>1, <1>2, PTL DEF Spec

\* A decoder that opened is carried from page to page by one job, the last of
\* which frees it: once it is carried it is neither freed twice nor dropped,
\* whoever gives the node up.  KeptOnlyOnFailure says when one is never carried.
THEOREM DecoderOwnedOnce == Spec => []DecoderOwned
  <1>1. CountsInv => DecoderOwned
    BY DEF CountsInv
  <1> QED
    BY <1>1, CountsInvariant, PTL

\* Each fence stands at what is still to be released for its buffer, so that it
\* reaches zero with the last job and never before, unless jobs are processed in
\* place and fail: then the caller releases the fences a second time
\* (miniaudio.h:69046).
THEOREM FencesStayExact == Spec => [](Careful => FencesExact)
  <1>1. IInv /\ FencesInv => (Careful => FencesExact)
    BY TypedIs, FencesExactIs DEF IInv, FencesInv
  <1> QED
    BY <1>1, CountsInvariant, PTL

---------------------------------------------------------------------------
(* What is kept for good *)

Bad(b) == buffer[b].result \notin {"busy", "success"}

\* A load job ends with a result, which its buffer has if there is no connector
Answered(a) == job[a].kind = "loadBuffer" =>
    /\ pc[a] \in {"publish", "fences", "tail", "back"} => res[a] # "busy"
    /\ pc[a] = "fences" /\ res[a] # "success" => buffer[job[a].of].connector \/ Bad(job[a].of)

\* A client that waits for its initialisation is told when there is a connector
\* or none will come, and has one where it goes on with its node
Heard(b) == signalled[b] /\ phase[b] \in {"new", "init"} => buffer[b].connector \/ Bad(b)
Told(b) ==
  b \in config.wait /\ buffer[b].holds /\ pc[b] \in {"release", "held", "uninit", "cancel", "awaitFree"}
    => buffer[b].connector

\* so that only the job that gave its node back ends its wait in uninit
Awoken(b) == pc[b] = "awaitFree" /\ signalled[b] => ~buffer[b].holds
Returned(a) == pc[a] \in {"leave", "drop", "abandon", "signal"} => ~buffer[Of(a)].holds

\* The two failures
Failed(b) == pc[b] = "failed" \/ (pc[b] = "over" /\ buffer[b].holds) =>
    config.fails /\ buffer[b].result = "error" /\ ~buffer[b].connector /\ Own(b) = 0
Lost(n) == node[n].decoder = "lost" => config.fails /\ config.decode

KeptInv ==
  /\ \A a \in Actor : Answered(a) /\ Returned(a)
  /\ \A b \in Buffer : Heard(b) /\ Told(b) /\ Awoken(b) /\ Failed(b) /\ Lost(b)

\* What a step does to the counters, the node and the hold of a buffer
LEMMA BufferTurns ==
  ASSUME Typed, Places, RefsInv, NEW a \in Actor, StepOf(a), NEW b \in Buffer
  PROVE  /\ ~(a \in Buffer /\ (CheckLoading(a) \/ Cancel(a))) => buffer'[b].counter = buffer[b].counter
         /\ ~Advance(a) => buffer'[b].pointer = buffer[b].pointer
         /\ a \in Buffer /\ (CheckLoading(a) \/ Cancel(a)) => buffer'[b].counter = buffer[b].counter + Bit(b = a)
         /\ Advance(a) => buffer'[b].pointer = buffer[b].pointer + Bit(job[a].kind \notin NodeKind /\ b = job[a].of)
         /\ ~(a \in Buffer /\ (AcquireOld(a) \/ AcquireNew(a) \/ AcquireBack(a))) /\ ~Unacquire(a) =>
              buffer'[b].holds = buffer[b].holds
         /\ ~(b = a /\ (AcquireOld(a) \/ AcquireNew(a))) => buffer'[b].node = buffer[b].node
  <1>0. buffer \in [Buffer -> BufferT] /\ buffer[b].counter \in Nat /\ buffer[b].pointer \in Nat
    BY Fields DEF Typed
  <1>1. CASE a \in Buffer /\ (InitBegin(a) \/ UninitBegin(a) \/ UninitEnd(a) \/ WaitInit(a) \/ InitEnd(a) \/ Uninit(a))
    <2>1. buffer' = buffer /\ ~CheckLoading(a) /\ ~Cancel(a) /\ ~Advance(a)
      BY <1>1 DEF InitBegin, UninitBegin, UninitEnd, WaitInit, InitEnd, Uninit, shared, CheckLoading, Cancel, Advance,
         At
    <2> QED
      BY <2>1
  <1>2. CASE a \in Worker /\ JobThread(a)
    <2>1. buffer' = buffer /\ a \notin Buffer /\ ~Advance(a)
      BY <1>2, ResourceAssumption DEF JobThread, Take, FreeBuffer, Notify, shared, Begins, At, Advance
    <2> QED
      BY <2>1
  <1>3. CASE OutOfTurn(a) \/ NodeBegin(a) \/ BufferBegin(a) \/ Look(a) \/ Fences(a) \/ Open(a) \/ Decode(a)
    <2>1. buffer' = buffer
      BY <1>3 DEF OutOfTurn, NodeBegin, BufferBegin, Look, Fences, Open, Decode, shared
    <2>2. ~CheckLoading(a) /\ ~Cancel(a) /\ ~Advance(a)
      BY <1>3 DEF OutOfTurn, NodeBegin, BufferBegin, Look, Fences, Open, Decode, Begins, CheckLoading, Cancel,
         Advance, At
    <2> QED
      BY <2>1, <2>2
  <1>4. CASE NextPage(a) \/ Finish(a) \/ FreeNode(a) \/ Drop(a) \/ Abandon(a)
    <2>1. buffer' = buffer /\ ~CheckLoading(a) /\ ~Cancel(a) /\ ~Advance(a)
      BY <1>4 DEF NextPage, Finish, FreeNode, Drop, Abandon, Begins, CheckLoading, Cancel, Advance, At
    <2> QED
      BY <2>1
  <1>5. CASE a \in Buffer /\ (AcquireOld(a) \/ AcquireNew(a))
    <2>1. ~CheckLoading(a) /\ ~Cancel(a) /\ ~Advance(a)
      BY <1>5 DEF AcquireOld, AcquireNew, CheckLoading, Cancel, Advance, At
    <2> QED
      BY <1>0, <1>5, <2>1 DEF AcquireOld, AcquireNew, BufferT
  <1>6. CASE a \in Buffer /\ AcquireBack(a)
    <2>1. buffer' = buffer \/ buffer' = [buffer EXCEPT ![a].holds = FALSE]
      BY <1>6 DEF AcquireBack
    <2>2. ~CheckLoading(a) /\ ~Cancel(a) /\ ~Advance(a)
      BY <1>6 DEF AcquireBack, CheckLoading, Cancel, Advance, At
    <2> QED
      BY <1>0, <1>6, <2>1, <2>2 DEF BufferT
  <1>7. CASE a \in Buffer /\ (CheckLoading(a) \/ Cancel(a))
    <2>1. ~Advance(a) /\ ~AcquireOld(a) /\ ~AcquireNew(a) /\ ~AcquireBack(a) /\ ~Unacquire(a)
      BY <1>7 DEF AcquireOld, AcquireNew, AcquireBack, Unacquire, CheckLoading, Cancel, Advance, At
    <2>2. CASE CheckLoading(a)
      BY <1>0, <1>7, <2>1, <2>2 DEF CheckLoading, BufferT, Bit
    <2>3. CASE Cancel(a)
      BY <1>0, <1>7, <2>1, <2>3 DEF Cancel, BufferT, Bit
    <2> QED
      BY <1>7, <2>2, <2>3
  <1>8. CASE a \in Buffer /\ (CheckLoaded(a) \/ LoadBack(a))
    <2>1. ~CheckLoading(a) /\ ~Cancel(a) /\ ~Advance(a)
      BY <1>8 DEF CheckLoaded, LoadBack, CheckLoading, Cancel, Advance, At
    <2>2. CASE CheckLoaded(a)
      BY <1>0, <1>8, <2>1, <2>2 DEF CheckLoaded, BufferT
    <2>3. CASE LoadBack(a)
      <3>1. buffer' = buffer \/ buffer' = [buffer EXCEPT ![a].result = res[a]]
        BY <2>3 DEF LoadBack
      <3> QED
        BY <1>0, <1>8, <2>1, <3>1 DEF BufferT
    <2> QED
      BY <1>8, <2>2, <2>3
  <1>9. CASE Unacquire(a)
    <2>1. Of(a) \in Buffer
      BY <1>9, JobTyped DEF Unacquire, At, UnacquireSteps
    <2>2. ~CheckLoading(a) /\ ~Cancel(a) /\ ~Advance(a)
      BY <1>9 DEF Unacquire, CheckLoading, Cancel, Advance, At
    <2> QED
      BY <1>0, <1>9, <2>1, <2>2 DEF Unacquire, BufferT
  <1>10. CASE Connect(a) \/ Publish(a)
    <2>1. job[a].of \in Buffer /\ ~CheckLoading(a) /\ ~Cancel(a) /\ ~Advance(a)
      BY <1>10, JobTyped DEF Connect, Publish, CheckLoading, Cancel, Advance, At, LoadSteps
    <2> DEFINE r == IF buffer[job[a].of].result = "busy" THEN res[a] ELSE buffer[job[a].of].result
    <2> HIDE DEF r
    <2>2. \/ buffer' = buffer
          \/ buffer' = [buffer EXCEPT ![job[a].of].connector = TRUE]
          \/ buffer' = [buffer EXCEPT ![job[a].of].result = r]
      BY <1>10 DEF Connect, Publish, r
    <2> QED
      BY <1>0, <2>1, <2>2 DEF BufferT
  <1>11. CASE Advance(a)
    <2>1. job[a].of \in Buffer /\ ~CheckLoading(a) /\ ~Cancel(a)
      BY <1>11, JobTyped DEF Advance, CheckLoading, Cancel, At
    <2>2. CASE job[a].kind \in NodeKind
      BY <1>0, <1>11, <2>1, <2>2 DEF Advance, Bit
    <2>3. CASE job[a].kind \notin NodeKind
      BY <1>0, <1>11, <2>1, <2>3 DEF Advance, BufferT, Bit
    <2> QED
      BY <2>2, <2>3
  <1> QED
    BY <1>1, <1>2, <1>3, <1>4, <1>5, <1>6, <1>7, <1>8, <1>9, <1>10, <1>11 DEF StepOf, Client, Process

\* How many jobs of its own a buffer has after a step
LEMMA OwnAfter ==
  ASSUME Typed, Places, RefsInv, Kinds, NEW a \in Actor, StepOf(a), NEW b \in Buffer
  PROVE  /\ Own(b) \in Nat
         /\ \/ Own(b)' = Own(b)
            \/ a \in Buffer /\ CheckLoading(a) /\ b = a /\ Own(b)' = Own(b) + 1
            \/ Fences(a) /\ IsFor(job[a], "loadBuffer", b)
  <1>0. OthersKept(a) /\ Own(b) \in Nat
    BY OthersAlone, CountsNat
  <1>1. CASE a \in Buffer /\ AcquireNew(a)
    BY <1>0, <1>1, AcquireNewCounts
  <1>2. CASE a \in Buffer /\ CheckLoading(a)
    <2>1. Own(b)' = Own(b) + Bit(b = a)
      BY <1>0, <1>2, CheckLoadingCounts
    <2> QED
      BY <1>0, <1>2, <2>1 DEF Bit
  <1>3. CASE Open(a)
    BY <1>0, <1>3, OpenCounts DEF OwnSame
  <1>4. CASE Finish(a)
    BY <1>0, <1>4, FinishCounts DEF OwnSame
  <1>5. CASE Fences(a)
    <2>1. Own(b)' = Own(b) - Bit(IsFor(job[a], "loadBuffer", b))
      BY <1>0, <1>5, FencesCounts
    <2> QED
      BY <1>0, <1>5, <2>1 DEF Bit
  <1>6. CASE ~(a \in Buffer /\ (AcquireNew(a) \/ CheckLoading(a))) /\ ~Open(a) /\ ~Finish(a) /\ ~Fences(a)
    BY <1>0, <1>6, OtherCounts DEF CountsSame, OwnSame
  <1> QED
    BY <1>1, <1>2, <1>3, <1>4, <1>5, <1>6

\* Where a client comes from
ClientFrom(a) ==
  /\ pc'[a] = "failed" => CheckLoaded(a)
  /\ pc'[a] = "over" => InitEnd(a) \/ UninitEnd(a)
  /\ pc'[a] = "release" =>
       AcquireBack(a) \/ CheckLoaded(a) \/ CheckLoading(a) \/ WaitInit(a) \/ Unacquire(a) \/ Drop(a) \/ Abandon(a)
  /\ pc'[a] = "held" => InitEnd(a)
  /\ pc'[a] = "uninit" => UninitBegin(a)
  /\ pc'[a] = "cancel" => Uninit(a)
  /\ pc'[a] = "awaitFree" => Cancel(a)

LEMMA ClientComes ==
  ASSUME Typed, Places, NEW a \in Buffer, a \in Actor, StepOf(a)
  PROVE  ClientFrom(a)
  <1>w. a \notin Worker
    BY ResourceAssumption
  <1> USE DEF Typed, Goto, At, ClientFrom
  <1>1. CASE InitBegin(a) \/ UninitBegin(a) \/ UninitEnd(a) \/ WaitInit(a)
    BY <1>1 DEF InitBegin, UninitBegin, UninitEnd, WaitInit
  <1>2. CASE InitEnd(a)
    <2>1. pc'[a] \in {"held", "over"}
      BY <1>2 DEF InitEnd
    <2> QED
      BY <1>2, <2>1
  <1>3. CASE Uninit(a) \/ Cancel(a)
    BY <1>3 DEF Uninit, Cancel
  <1>4. CASE AcquireOld(a) \/ AcquireNew(a) \/ AcquireBack(a)
    BY <1>4 DEF AcquireOld, AcquireNew, AcquireBack
  <1>5. CASE CheckLoaded(a) \/ CheckLoading(a) \/ LoadBack(a)
    BY <1>5 DEF CheckLoaded, CheckLoading, LoadBack
  <1>6. CASE OutOfTurn(a) \/ NodeBegin(a) \/ Open(a) \/ Decode(a) \/ NextPage(a) \/ Finish(a) \/ FreeNode(a)
    BY <1>w, <1>6 DEF OutOfTurn, NodeBegin, Open, Decode, NextPage, Finish, FreeNode, PostAgain, Handled
  <1>7. CASE BufferBegin(a) \/ Connect(a) \/ Look(a) \/ Publish(a) \/ Fences(a) \/ Advance(a)
    BY <1>w, <1>7 DEF BufferBegin, Connect, Look, Publish, Fences, Advance, PostAgain, Handled
  <1>8. CASE Unacquire(a) \/ Drop(a) \/ Abandon(a)
    <2>1. pc'[a] \in {"drop", "abandon", "release", "leave"}
      BY <1>w, <1>8 DEF Unacquire, Drop, Abandon, AfterUnacquire
    <2> QED
      BY <1>8, <2>1
  <1> QED
    BY <1>w, <1>1, <1>2, <1>3, <1>4, <1>5, <1>6, <1>7, <1>8 DEF StepOf, Client, Process

\* The steps after a node is given back
LEMMA GivesBack ==
  ASSUME Typed, Places, NEW a \in Actor, StepOf(a), pc'[a] \in {"leave", "drop", "abandon", "signal"}
  PROVE  Unacquire(a) \/ Drop(a) \/ Abandon(a)
  <1> USE DEF Typed, Goto, At, Actor
  <1>1. ASSUME a \in Buffer, InitBegin(a) \/ UninitBegin(a) \/ Client(a)
        PROVE  FALSE
    <2>1. ~(InitBegin(a) \/ UninitBegin(a) \/ UninitEnd(a) \/ WaitInit(a) \/ InitEnd(a) \/ Uninit(a) \/ Cancel(a))
      BY <1>1 DEF InitBegin, UninitBegin, UninitEnd, WaitInit, InitEnd, Uninit, Cancel
    <2>2. ~(AcquireOld(a) \/ AcquireNew(a) \/ AcquireBack(a) \/ CheckLoaded(a) \/ CheckLoading(a) \/ LoadBack(a))
      BY <1>1 DEF AcquireOld, AcquireNew, AcquireBack, CheckLoaded, CheckLoading, LoadBack
    <2> QED
      BY <1>1, <2>1, <2>2 DEF Client
  <1>2. ASSUME a \in Worker, JobThread(a)
        PROVE  FALSE
    BY <1>2 DEF JobThread, Take, FreeBuffer, Notify
  <1>3. ~(OutOfTurn(a) \/ NodeBegin(a) \/ Open(a) \/ Decode(a) \/ NextPage(a) \/ Finish(a) \/ FreeNode(a))
    BY DEF OutOfTurn, NodeBegin, Open, Decode, NextPage, Finish, FreeNode, PostAgain, Handled
  <1>4. ~(BufferBegin(a) \/ Connect(a) \/ Look(a) \/ Publish(a) \/ Fences(a) \/ Advance(a))
    BY DEF BufferBegin, Connect, Look, Publish, Fences, Advance, PostAgain, Handled
  <1> QED
    BY <1>1, <1>2, <1>3, <1>4 DEF StepOf, Process

\* Only a client's acquisition makes it a holder
LEMMA HoldsFrom ==
  ASSUME Typed, Places, RefsInv, NEW a \in Actor, StepOf(a), NEW b \in Buffer, buffer'[b].holds
  PROVE  buffer[b].holds \/ (b = a /\ (AcquireOld(a) \/ AcquireNew(a)))
  <1>0. buffer \in [Buffer -> BufferT]
    BY DEF Typed
  <1>1. CASE a \in Buffer /\ (AcquireOld(a) \/ AcquireNew(a))
    <2>1. \E x : buffer' = [buffer EXCEPT ![a].node = x, ![a].holds = TRUE]
      BY <1>1 DEF AcquireOld, AcquireNew
    <2> QED
      BY <1>0, <1>1, <2>1 DEF BufferT
  <1>2. CASE a \in Buffer /\ AcquireBack(a)
    <2>1. buffer' = buffer \/ buffer' = [buffer EXCEPT ![a].holds = FALSE]
      BY <1>2 DEF AcquireBack
    <2> QED
      BY <1>0, <1>2, <2>1 DEF BufferT
  <1>3. CASE Unacquire(a)
    <2>1. buffer' = [buffer EXCEPT ![Of(a)].holds = FALSE] /\ Of(a) \in Buffer
      BY <1>3, JobTyped DEF Unacquire, At, UnacquireSteps
    <2> QED
      BY <1>0, <2>1 DEF BufferT
  <1>4. CASE ~(a \in Buffer /\ (AcquireOld(a) \/ AcquireNew(a) \/ AcquireBack(a))) /\ ~Unacquire(a)
    BY <1>4, BufferTurns
  <1> QED
    BY <1>1, <1>2, <1>3, <1>4

\* Who wakes a client
LEMMA SignalsFrom ==
  ASSUME Typed, Places, NEW a \in Actor, StepOf(a), NEW b \in Buffer, signalled'[b]
  PROVE  \/ signalled[b]
         \/ Connect(a) /\ b = job[a].of /\ b \in config.wait /\ ~buffer[b].connector /\ buffer'[b].connector
         \/ /\ Fences(a) /\ job[a].kind = "loadBuffer" /\ b = job[a].of /\ b \in config.wait
            /\ ~buffer[b].connector /\ res[a] # "success"
         \/ a \in Worker /\ Notify(a) /\ b = job[a].of
  <1>0. signalled \in [Buffer -> BOOLEAN] /\ buffer \in [Buffer -> BufferT]
    BY DEF Typed
  <1>1. CASE a \in Buffer /\ (InitBegin(a) \/ UninitBegin(a) \/ UninitEnd(a) \/ WaitInit(a) \/ InitEnd(a) \/ Uninit(a))
    BY <1>1 DEF InitBegin, UninitBegin, UninitEnd, WaitInit, InitEnd, Uninit, shared
  <1>2. CASE a \in Buffer /\ (AcquireOld(a) \/ AcquireNew(a) \/ AcquireBack(a) \/ CheckLoaded(a) \/ LoadBack(a))
    BY <1>2 DEF AcquireOld, AcquireNew, AcquireBack, CheckLoaded, LoadBack
  <1>3. CASE a \in Buffer /\ (CheckLoading(a) \/ Cancel(a))
    <2>1. signalled' = signalled \/ signalled' = [signalled EXCEPT ![a] = FALSE]
      BY <1>3 DEF CheckLoading, Cancel
    <2> QED
      BY <1>0, <1>3, <2>1
  <1>4. CASE a \in Worker /\ JobThread(a)
    <2>1. CASE Take(a) \/ FreeBuffer(a)
      BY <2>1 DEF Take, FreeBuffer, shared
    <2>2. CASE Notify(a)
      BY <1>0, <1>4, <2>2 DEF Notify
    <2> QED
      BY <1>4, <2>1, <2>2 DEF JobThread
  <1>5. CASE Connect(a)
    <2>0. job[a].of \in Buffer
      BY <1>5, ConnectEdits
    <2>1. CASE signalled' = signalled
      BY <2>1
    <2>2. CASE Signal(job[a].of) /\ ~buffer[job[a].of].connector /\ buffer' = [buffer EXCEPT ![job[a].of].connector = TRUE]
      <3>1. buffer'[job[a].of].connector
        BY <1>0, <2>0, <2>2 DEF BufferT
      <3>2. b # job[a].of => signalled[b]
        BY <1>0, <2>2 DEF Signal
      <3>3. b = job[a].of => signalled[b] \/ b \in config.wait
        BY <1>0, <2>2 DEF Signal
      <3> QED
        BY <1>5, <2>2, <3>1, <3>2, <3>3
    <2> QED
      BY <1>5, <2>1, <2>2 DEF Connect
  <1>6. CASE Fences(a)
    <2>0. job[a].of \in Buffer
      BY <1>6, JobTyped DEF Fences, At, LoadSteps
    <2>1. \/ signalled' = signalled
          \/ /\ Signal(job[a].of) /\ ~buffer[job[a].of].connector /\ res[a] # "success"
             /\ job[a].kind \notin {"loadNode", "pageNode"}
      BY <1>6 DEF Fences
    <2>2. job[a].kind \notin {"loadNode", "pageNode"} => job[a].kind = "loadBuffer"
      <3>1. pc[a] = "fences" /\ job[a] \in Job
        BY <1>6, JobTyped DEF Fences, At, LoadSteps
      <3>2. job[a].kind \notin {"freeNode", "freeBuffer"}
        BY <3>1 DEF Places, Place, HandlerAt, LoadSteps
      <3> QED
        BY <3>1, <3>2 DEF Job, NodeKind, BufferKind
    <2>3. CASE Signal(job[a].of) /\ ~buffer[job[a].of].connector /\ res[a] # "success" /\ job[a].kind = "loadBuffer"
      <3>1. b # job[a].of => signalled[b]
        BY <1>0, <2>3 DEF Signal
      <3>2. b = job[a].of => signalled[b] \/ b \in config.wait
        BY <1>0, <2>3 DEF Signal
      <3> QED
        BY <1>6, <2>3, <3>1, <3>2
    <2> QED
      BY <2>1, <2>2, <2>3
  <1>7. CASE OutOfTurn(a) \/ NodeBegin(a) \/ Open(a) \/ Decode(a) \/ NextPage(a) \/ Finish(a) \/ FreeNode(a)
    BY <1>7 DEF OutOfTurn, NodeBegin, Open, Decode, NextPage, Finish, FreeNode, shared
  <1>8. CASE BufferBegin(a) \/ Look(a) \/ Publish(a) \/ Advance(a) \/ Unacquire(a) \/ Drop(a) \/ Abandon(a)
    BY <1>8 DEF BufferBegin, Look, Publish, Advance, Unacquire, Drop, Abandon, shared
  <1> QED
    BY <1>1, <1>2, <1>3, <1>4, <1>5, <1>6, <1>7, <1>8 DEF StepOf, Client, Process

LEMMA PhaseFrom ==
  ASSUME Typed, Phased, NEW a \in Actor, StepOf(a), NEW b \in Buffer, phase'[b] \in {"new", "init"}
  PROVE  phase[b] \in {"new", "init"}
  <1>0. phase \in [Buffer -> {"new", "init", "held", "uninit", "over"}]
    BY DEF Typed
  <1>1. CASE a \in Buffer /\ InitBegin(a)
    <2>1. phase[a] = "new"
      BY <1>1 DEF InitBegin, At, Phased, PhaseAt
    <2> QED
      BY <1>0, <1>1, <2>1 DEF InitBegin
  <1>2. CASE a \in Buffer /\ (UninitBegin(a) \/ UninitEnd(a))
    BY <1>0, <1>2 DEF UninitBegin, UninitEnd
  <1>3. CASE a \in Buffer /\ InitEnd(a)
    <2>1. \E end \in {"held", "over"} : phase' = [phase EXCEPT ![a] = end]
      BY <1>3 DEF InitEnd
    <2> QED
      BY <1>0, <1>3, <2>1
  <1>4. CASE phase' = phase
    BY <1>4
  <1>5. ASSUME a \in Buffer, Client(a), ~UninitEnd(a), ~InitEnd(a)
        PROVE  phase' = phase
    BY <1>5 DEF Client, AcquireOld, AcquireNew, AcquireBack, CheckLoaded, CheckLoading, LoadBack, WaitInit, Uninit, Cancel
  <1>6. ASSUME JobThread(a)
        PROVE  phase' = phase
    BY <1>6 DEF JobThread, Take, FreeBuffer, Notify
  <1>7. ASSUME Process(a)
        PROVE  phase' = phase
    BY <1>7 DEF Process, OutOfTurn, NodeBegin, Open, Decode, NextPage, Finish, FreeNode, BufferBegin,
       Connect, Look, Publish, Fences, Advance, Unacquire, Drop, Abandon
  <1> QED
    BY <1>1, <1>2, <1>3, <1>4, <1>5, <1>6, <1>7 DEF StepOf

\* A buffer that has a connector, or an error, keeps one of them
LEMMA EndStays ==
  ASSUME Typed, Places, RefsInv, OwnOnce, NEW a \in Actor, StepOf(a), Answered(a), NEW b \in Buffer,
         buffer[b].connector \/ Bad(b)
  PROVE  buffer'[b].connector \/ Bad(b)'
  <1>0. buffer \in [Buffer -> BufferT]
    BY DEF Typed
  <1>1. CASE buffer[b].connector
    BY <1>1, ConnectorStays
  <1>2. CASE Bad(b)
    <2>1. CASE a \in Buffer /\ b # a /\ (CheckLoaded(a) \/ LoadBack(a) \/ Cancel(a))
      BY <1>2, <2>1, ClientEdits DEF Bad
    <2>2. CASE b = a /\ CheckLoaded(a)
      BY <1>2, <2>2 DEF CheckLoaded, At, OwnOnce, Unloaded, Bad
    <2>3. CASE b = a /\ LoadBack(a)
      <3>1. res[a] # "busy"
        BY <2>3 DEF LoadBack, At, Answered
      <3>2. buffer' = buffer \/ (buffer' = [buffer EXCEPT ![a].result = res[a]] /\ res[a] # "success")
        BY <2>3 DEF LoadBack
      <3> QED
        BY <1>0, <1>2, <2>3, <3>1, <3>2 DEF BufferT, Bad
    <2>4. CASE b = a /\ Cancel(a)
      <3>1. buffer' = [buffer EXCEPT ![a].result = "unavailable", ![a].counter = buffer[a].counter + 1]
        BY <2>4 DEF Cancel
      <3> QED
        BY <1>0, <2>4, <3>1 DEF BufferT, Bad
    <2>5. CASE Connect(a)
      BY <1>2, <2>5, ConnectEdits DEF Bad
    <2>6. CASE Publish(a)
      <3>1. buffer'[b].result = buffer[b].result
        BY <1>2, <2>6, PublishEdits DEF Bad
      <3> QED
        BY <1>2, <3>1 DEF Bad
    <2>7. CASE ~(a \in Buffer /\ (CheckLoaded(a) \/ LoadBack(a) \/ Cancel(a))) /\ ~Connect(a) /\ ~Publish(a)
      BY <1>2, <2>7, BufferSame DEF Bad
    <2> QED
      BY <2>1, <2>2, <2>3, <2>4, <2>5, <2>6, <2>7
  <1> QED
    BY <1>1, <1>2

\* How a load job comes to its end
LEMMA LoadEnds ==
  ASSUME Typed, Places, NEW a \in Actor, StepOf(a), job'[a].kind = "loadBuffer", pc'[a] \in {"tail", "back"}
  PROVE  /\ job'[a] = job[a]
         /\ \/ res'[a] = "success"
            \/ pc[a] \in {"fences", "tail"} /\ res'[a] = res[a]
  <1> USE ResourceAssumption DEF Typed, At, Goto, Returns, Handled, PostAgain, Actor
  <1>n. NoJob.kind # "loadBuffer"
    BY DEF NoJob
  <1>1. ASSUME a \in Buffer, InitBegin(a) \/ UninitBegin(a) \/ Client(a)
        PROVE  FALSE
    <2>1. ~(InitBegin(a) \/ UninitBegin(a) \/ UninitEnd(a) \/ WaitInit(a) \/ InitEnd(a) \/ Uninit(a) \/ Cancel(a))
      BY <1>1 DEF InitBegin, UninitBegin, UninitEnd, WaitInit, InitEnd, Uninit, Cancel
    <2>2. ~(AcquireOld(a) \/ AcquireNew(a) \/ AcquireBack(a) \/ CheckLoaded(a) \/ CheckLoading(a) \/ LoadBack(a))
      BY <1>1 DEF AcquireOld, AcquireNew, AcquireBack, CheckLoaded, CheckLoading, LoadBack
    <2> QED
      BY <1>1, <2>1, <2>2 DEF Client
  <1>2. ASSUME a \in Worker, JobThread(a)
        PROVE  FALSE
    <2>1. ~Take(a) /\ ~FreeBuffer(a)
      BY DEF Take, FreeBuffer
    <2>2. ~Notify(a)
      <3> SUFFICES ASSUME Notify(a)
                   PROVE  FALSE
        OBVIOUS
      <3>1. pc[a] = "signal" /\ job'[a] = job[a]
        BY DEF Notify
      <3> QED
        BY <1>2, <3>1 DEF Places, Place, WorkerAt
    <2> QED
      BY <1>2, <2>1, <2>2 DEF JobThread
  <1>3. ~(NodeBegin(a) \/ Open(a) \/ Decode(a) \/ NextPage(a) \/ Finish(a) \/ BufferBegin(a) \/ Connect(a) \/ Publish(a))
    BY DEF NodeBegin, Open, Decode, NextPage, Finish, BufferBegin, Connect, Publish
  <1>4. ~FreeNode(a)
    <2> SUFFICES ASSUME FreeNode(a)
                 PROVE  FALSE
      OBVIOUS
    <2>1. job'[a] = job[a] \/ job'[a] = NoJob
      BY DEF FreeNode
    <2> QED
      BY <1>n, <2>1 DEF FreeNode, Begins
  <1>5. ~(Unacquire(a) \/ Drop(a) \/ Abandon(a))
    BY DEF Unacquire, Drop, Abandon, AfterUnacquire
  <1>6. CASE OutOfTurn(a) \/ Look(a)
    <2>1. job'[a] = job[a] \/ job'[a] = NoJob
      BY <1>6 DEF OutOfTurn, Look
    <2>2. res'[a] = "success"
      BY <1>6 DEF OutOfTurn, Look
    <2> QED
      BY <1>n, <2>1, <2>2
  <1>7. CASE Fences(a)
    BY <1>7 DEF Fences
  <1>8. CASE Advance(a)
    <2>1. job'[a] = job[a] \/ job'[a] = NoJob
      BY <1>8 DEF Advance
    <2> QED
      BY <1>n, <1>8, <2>1 DEF Advance
  <1> QED
    BY <1>1, <1>2, <1>3, <1>4, <1>5, <1>6, <1>7, <1>8 DEF StepOf, Process

LEMMA AnsweredKept ==
  ASSUME Typed, Places, RefsInv, Kinds, OwnOnce, Announced, KeptInv, NEW a \in Actor, StepOf(a), NEW c \in Actor
  PROVE  Answered(c)'
  <1>0. OthersKept(a) /\ Answered(a) /\ Answered(c)
    BY OthersAlone DEF KeptInv
  <1> SUFFICES ASSUME job'[c].kind = "loadBuffer"
               PROVE  /\ pc'[c] \in {"publish", "fences", "tail", "back"} => res'[c] # "busy"
                      /\ pc'[c] = "fences" /\ res'[c] # "success" =>
                           buffer'[job'[c].of].connector \/ Bad(job[c].of)'
    BY DEF Answered
  <1>1. CASE c # a
    <2>1. pc'[c] = pc[c] /\ job'[c] = job[c] /\ res'[c] = res[c]
      BY <1>0, <1>1 DEF OthersKept
    <2>2. pc[c] = "fences" => job[c].of \in Buffer
      BY JobTyped DEF LoadSteps
    <2>3. pc[c] = "fences" /\ res[c] # "success" => buffer'[job[c].of].connector \/ Bad(job[c].of)'
      <3> SUFFICES ASSUME pc[c] = "fences", res[c] # "success"
                   PROVE  buffer'[job[c].of].connector \/ Bad(job[c].of)'
        OBVIOUS
      <3> DEFINE b == job[c].of
      <3>1. b \in Buffer /\ (buffer[b].connector \/ Bad(b))
        BY <1>0, <2>1, <2>2 DEF Answered
      <3>2. \A x \in Buffer : buffer[x].connector \/ Bad(x) => buffer'[x].connector \/ buffer'[x].result \notin {"busy", "success"}
        BY <1>0, EndStays DEF Bad
      <3> QED
        BY <2>1, <3>1, <3>2 DEF Bad
    <2> QED
      BY <1>0, <2>1, <2>3 DEF Answered
  <1>2. CASE c = a /\ pc'[a] = "publish"
    <2>1. CASE Connect(a)
      BY <1>2, <2>1, ConnectEdits
    <2>2. CASE Publish(a)
      BY <1>2, <2>2, PublishEdits
    <2>3. CASE BufferBegin(a)
      <3>1. buffer[job[a].of].result # "busy" /\ res' = [res EXCEPT ![a] = buffer[job[a].of].result]
        BY <1>2, <2>3 DEF BufferBegin, Goto, Returns, Typed
      <3> QED
        BY <1>2, <3>1 DEF Typed
    <2>4. CASE Look(a) /\ res'[a] # "busy"
      BY <1>2, <2>4
    <2> QED
      BY <1>2, <2>1, <2>2, <2>3, <2>4, ToPublish
  <1>3. CASE c = a /\ pc'[a] = "fences"
    <2>0. Publish(a)
      BY <1>3, ToPublish, ConnectEdits
    <2> DEFINE b == job[a].of
    <2>1. b \in Buffer /\ pc[a] = "publish" /\ job'[a] = job[a] /\ res'[a] = res[a]
      BY <2>0, PublishEdits
    <2>2. job[a].kind = "loadBuffer"
      BY <1>3, <2>1
    <2>3. res[a] # "busy"
      BY <1>0, <2>1, <2>2 DEF Answered
    <2>4. buffer'[b].result = IF buffer[b].result = "busy" THEN res[a] ELSE buffer[b].result
      BY <2>0, <2>1, <2>2, PublishEdits
    <2>5. buffer[b].result = "success" => buffer'[b].connector
      BY <2>1, ConnectorStays DEF Announced
    <2>6. res[a] # "success" => buffer'[b].connector \/ buffer'[b].result \notin {"busy", "success"}
      BY <2>3, <2>4, <2>5
    <2> QED
      BY <1>3, <2>1, <2>3, <2>6 DEF Bad
  <1>4. CASE c = a /\ pc'[a] \in {"tail", "back"}
    BY <1>0, <1>4, LoadEnds DEF Answered
  <1> QED
    BY <1>1, <1>2, <1>3, <1>4

LEMMA HeardKept ==
  ASSUME Typed, Places, RefsInv, Phased, OwnOnce, KeptInv, NEW a \in Actor, StepOf(a), NEW b \in Buffer
  PROVE  Heard(b)'
  <1> SUFFICES ASSUME signalled'[b], phase'[b] \in {"new", "init"}
               PROVE  buffer'[b].connector \/ Bad(b)'
    BY DEF Heard
  <1>0. phase[b] \in {"new", "init"} /\ Answered(a) /\ Heard(b)
    BY PhaseFrom DEF KeptInv
  <1>1. CASE signalled[b]
    BY <1>0, <1>1, EndStays DEF Heard
  <1>2. CASE buffer'[b].connector
    BY <1>2
  <1>3. CASE Fences(a) /\ job[a].kind = "loadBuffer" /\ b = job[a].of /\ res[a] # "success"
    BY <1>0, <1>3, EndStays DEF Answered, Fences, At
  <1>4. ASSUME a \in Worker, Notify(a), b = job[a].of
        PROVE  FALSE
    <2>1. pc[b] \in GivenUp
      BY <1>4 DEF Notify, At, Places, Place, WorkerAt, RefsInv, Given
    <2> QED
      BY <1>0, <2>1 DEF GivenUp, Phased, PhaseAt
  <1> QED
    BY <1>1, <1>2, <1>3, <1>4, SignalsFrom

\* The buffer that an actor gives back is held again by nobody
LEMMA ReturnedKept ==
  ASSUME Typed, Places, RefsInv, KeptInv, NEW a \in Actor, StepOf(a), NEW c \in Actor
  PROVE  Returned(c)'
  <1>0. OthersKept(a) /\ Returned(a) /\ Returned(c) /\ buffer \in [Buffer -> BufferT]
    BY OthersAlone DEF KeptInv, Typed
  <1> SUFFICES ASSUME pc'[c] \in {"leave", "drop", "abandon", "signal"}
               PROVE  ~buffer'[Of(c)'].holds
    BY DEF Returned
  <1>1. CASE c # a
    <2>1. pc'[c] = pc[c] /\ job'[c] = job[c] /\ Of(c)' = Of(c)
      BY <1>0, <1>1 DEF OthersKept, Of
    <2>2. Of(c) \in Buffer /\ ~buffer[Of(c)].holds
      <3>1. c \in Buffer => Of(c) = c
        BY DEF Of
      <3>2. c \in Worker => Of(c) \in Buffer
        BY <2>1, JobTyped, ResourceAssumption DEF Of, Places, Place, WorkerAt, ClientSteps, UnacquireSteps
      <3> QED
        BY <1>0, <2>1, <3>1, <3>2 DEF Returned, Actor
    <2>3. Of(c) = a => ~AcquireOld(a) /\ ~AcquireNew(a)
      <3> SUFFICES ASSUME Of(c) = a, pc[a] = "acquire"
                   PROVE  FALSE
        BY DEF AcquireOld, AcquireNew, At
      <3>1. c \in Worker /\ job[c].of = a
        BY <1>1 DEF Of, Actor
      <3>2. pc[c] \in UnacquireSteps \cup {"signal"}
        BY <2>1, <3>1 DEF Places, Place, WorkerAt, ClientSteps, UnacquireSteps
      <3>3. pc[a] \in GivenUp
        BY <3>1, <3>2 DEF Places, Place, WorkerAt, RefsInv, Given
      <3> QED
        BY <3>3 DEF GivenUp
    <2> QED
      BY <2>1, <2>2, <2>3, HoldsFrom
  <1>2. CASE c = a
    <2>1. Unacquire(a) \/ Drop(a) \/ Abandon(a)
      BY <1>2, GivesBack
    <2>2. job' = job /\ Of(a)' = Of(a) /\ Of(a) \in Buffer
      BY <2>1, JobTyped DEF Unacquire, Drop, Abandon, At, UnacquireSteps, Of
    <2>3. CASE Unacquire(a)
      BY <1>0, <1>2, <2>2, <2>3 DEF Unacquire, BufferT
    <2>4. CASE Drop(a) \/ Abandon(a)
      BY <1>0, <1>2, <2>2, <2>4 DEF Drop, Abandon, At, Returned
    <2> QED
      BY <2>1, <2>3, <2>4
  <1> QED
    BY <1>1, <1>2

LEMMA ToldKept ==
  ASSUME Typed, Places, RefsInv, Phased, OwnOnce, KeptInv, NEW a \in Actor, StepOf(a), NEW b \in Buffer
  PROVE  Told(b)'
  <1>0. /\ OthersKept(a) /\ config' = config /\ Told(b) /\ Heard(b) /\ Returned(a)'
        /\ buffer \in [Buffer -> BufferT]
    BY OthersAlone, ConfigKept, ReturnedKept DEF KeptInv, Typed
  <1> SUFFICES ASSUME b \in config.wait, buffer'[b].holds,
                      pc'[b] \in {"release", "held", "uninit", "cancel", "awaitFree"}
               PROVE  buffer'[b].connector
    BY <1>0 DEF Told
  <1>1. ASSUME pc[b] \in {"release", "held", "uninit", "cancel", "awaitFree"}
        PROVE  buffer'[b].connector
    <2>1. ~(b = a /\ (AcquireOld(a) \/ AcquireNew(a)))
      BY <1>1 DEF AcquireOld, AcquireNew, At
    <2>2. buffer[b].holds
      BY <2>1, HoldsFrom
    <2> QED
      BY <1>0, <1>1, <2>2, ConnectorStays DEF Told
  <1>2. CASE b # a
    BY <1>0, <1>1, <1>2 DEF OthersKept, Actor
  <1>3. CASE b = a
    <2>0. a \in Buffer /\ ClientFrom(a) /\ a \notin Worker
      BY <1>3, ClientComes, ResourceAssumption
    <2>1. CASE pc'[a] \in {"held", "uninit", "cancel", "awaitFree"}
      <3>1. CASE pc[a] = "failed" /\ InitEnd(a)
        <4>1. pc'[a] = "over"
          BY <3>1 DEF InitEnd, At, Goto, Typed
        <4> QED
          BY <2>1, <4>1
      <3>2. pc[a] \in {"release", "held", "uninit", "cancel"} \/ (pc[a] = "failed" /\ InitEnd(a))
        BY <2>0, <2>1 DEF ClientFrom, InitEnd, UninitBegin, Uninit, Cancel, At
      <3> QED
        BY <1>1, <1>3, <3>1, <3>2
    <2>2. CASE pc'[a] = "release"
      <3>1. CASE AcquireBack(a)
        <4>1. pc'[a] = "release" => buffer' = [buffer EXCEPT ![a].holds = FALSE]
          BY <3>1 DEF AcquireBack, Goto, Typed
        <4> QED
          BY <1>0, <1>3, <2>2, <4>1 DEF BufferT
      <3>2. CASE CheckLoaded(a)
        <4>1. buffer' = [buffer EXCEPT ![a].connector = TRUE, ![a].result = "success"]
          BY <2>2, <3>2 DEF CheckLoaded, Goto, Typed
        <4> QED
          BY <1>0, <1>3, <4>1 DEF BufferT
      <3>3. CASE CheckLoading(a)
        BY <1>3, <2>2, <3>3 DEF CheckLoading, Goto, Typed
      <3>4. CASE WaitInit(a)
        <4>1. signalled[a] /\ buffer[a].result \in {"busy", "success"} /\ buffer' = buffer /\ pc[a] = "wait"
          BY <2>2, <3>4 DEF WaitInit, At, Goto, Typed, shared
        <4>2. phase[a] = "init"
          BY <1>3, <4>1 DEF Phased, PhaseAt
        <4> QED
          BY <1>0, <1>3, <4>1, <4>2 DEF Heard, Bad
      <3>5. CASE Unacquire(a)
        BY <1>0, <1>3, <3>5 DEF Unacquire, Of, BufferT
      <3>6. CASE Drop(a) \/ Abandon(a)
        <4>1. pc[a] \in {"drop", "abandon"} /\ buffer' = buffer
          BY <3>6 DEF Drop, Abandon, At
        <4>2. ~buffer[Of(a)].holds
          BY <4>1 DEF KeptInv, Returned
        <4> QED
          BY <1>3, <4>1, <4>2 DEF Of
      <3> QED
        BY <2>0, <2>2, <3>1, <3>2, <3>3, <3>4, <3>5, <3>6 DEF ClientFrom
    <2> QED
      BY <1>3, <2>1, <2>2
  <1> QED
    BY <1>2, <1>3

LEMMA AwokenKept ==
  ASSUME Typed, Places, RefsInv, KeptInv, NEW a \in Actor, StepOf(a), NEW b \in Buffer
  PROVE  Awoken(b)'
  <1>0. OthersKept(a) /\ Awoken(b) /\ Told(b) /\ Returned(a) /\ signalled \in [Buffer -> BOOLEAN]
    BY OthersAlone DEF KeptInv, Typed
  <1> SUFFICES ASSUME pc'[b] = "awaitFree", signalled'[b]
               PROVE  ~buffer'[b].holds
    BY DEF Awoken
  <1>1. CASE b = a
    <2>1. Cancel(a)
      BY <1>1, ClientComes DEF ClientFrom
    <2> QED
      BY <1>0, <1>1, <2>1 DEF Cancel
  <1>2. CASE b # a
    <2>1. pc[b] = "awaitFree"
      BY <1>0, <1>2 DEF OthersKept, Actor
    <2>2. ~buffer[b].holds
      <3>1. CASE signalled[b]
        BY <1>0, <2>1, <3>1 DEF Awoken
      <3>2. CASE b \in config.wait /\ ~buffer[b].connector
        BY <1>0, <2>1, <3>2 DEF Told
      <3>3. CASE a \in Worker /\ Notify(a) /\ b = job[a].of
        <4>1. Of(a) = b /\ pc[a] = "signal"
          BY <3>3, ResourceAssumption DEF Of, Notify, At
        <4> QED
          BY <1>0, <4>1 DEF Returned
      <3> QED
        BY <3>1, <3>2, <3>3, SignalsFrom
    <2> QED
      BY <1>2, <2>2, HoldsFrom
  <1> QED
    BY <1>1, <1>2

\* Nobody has a job of a buffer whose initialisation has failed
LEMMA FailedStays ==
  ASSUME Typed, Places, RefsInv, Kinds, OwnOnce, NEW a \in Actor, StepOf(a), NEW b \in Buffer, Own(b) = 0,
         ~(b = a /\ (CheckLoaded(a) \/ CheckLoading(a) \/ LoadBack(a) \/ Cancel(a)))
  PROVE  Own(b)' = 0 /\ buffer'[b].result = buffer[b].result /\ buffer'[b].connector = buffer[b].connector
  <1>0. ~OwnIn(a, b)
    BY OwnAlone
  <1>1. Own(b)' = 0
    <2>1. Fences(a) /\ IsFor(job[a], "loadBuffer", b) => OwnIn(a, b)
      BY DEF Fences, At, IsFor, OwnIn, In, LoadSteps
    <2> QED
      BY <1>0, <2>1, OwnAfter
  <1>2. CASE a \in Buffer /\ (CheckLoaded(a) \/ LoadBack(a) \/ Cancel(a))
    BY <1>1, <1>2, ClientEdits
  <1>3. CASE Connect(a)
    <2>1. b = job[a].of => OwnIn(a, b)
      BY <1>3, ConnectEdits DEF OwnIn, In, LoadSteps
    <2> QED
      BY <1>0, <1>1, <1>3, <2>1, ConnectEdits
  <1>4. CASE Publish(a)
    <2>1. job[a].kind = "loadBuffer" /\ b = job[a].of => OwnIn(a, b)
      BY <1>4, PublishEdits DEF OwnIn, In, LoadSteps
    <2> QED
      BY <1>0, <1>1, <1>4, <2>1, PublishEdits
  <1>5. CASE ~(a \in Buffer /\ (CheckLoaded(a) \/ LoadBack(a) \/ Cancel(a))) /\ ~Connect(a) /\ ~Publish(a)
    BY <1>1, <1>5, BufferSame
  <1> QED
    BY <1>2, <1>3, <1>4, <1>5

LEMMA FailedKept ==
  ASSUME Typed, Places, RefsInv, Kinds, OwnOnce, KeptInv, NEW a \in Actor, StepOf(a), NEW b \in Buffer
  PROVE  Failed(b)'
  <1>0. OthersKept(a) /\ config' = config /\ Failed(b) /\ Awoken(b) /\ buffer \in [Buffer -> BufferT]
    BY OthersAlone, ConfigKept DEF KeptInv, Typed
  <1> SUFFICES ASSUME pc'[b] = "failed" \/ (pc'[b] = "over" /\ buffer'[b].holds)
               PROVE  config.fails /\ buffer'[b].result = "error" /\ ~buffer'[b].connector /\ Own(b)' = 0
    BY <1>0 DEF Failed
  <1>1. CASE b # a
    <2>1. pc[b] = "failed" \/ (pc[b] = "over" /\ buffer[b].holds)
      BY <1>0, <1>1, HoldsFrom DEF OthersKept, Actor
    <2> QED
      BY <1>0, <1>1, <2>1, FailedStays DEF Failed
  <1>2. CASE b = a /\ CheckLoaded(a) /\ pc'[a] = "failed"
    <2>1. buffer' = [buffer EXCEPT ![a].result = "error"] /\ config.fails /\ pc[a] = "check"
      BY <1>2 DEF CheckLoaded, Goto, At, Typed
    <2>2. Own(a) = 0 /\ ~buffer[a].connector
      BY <1>2, <2>1 DEF OwnOnce, Unloaded
    <2>3. Own(a)' = 0
      <3>1. ~CheckLoading(a) /\ ~Fences(a)
        BY <1>2 DEF CheckLoaded, CheckLoading, Fences, At
      <3> QED
        BY <1>2, <2>2, <3>1, OwnAfter
    <2> QED
      BY <1>0, <1>2, <2>1, <2>2, <2>3 DEF BufferT
  <1>3. CASE b = a /\ InitEnd(a) /\ buffer'[a].holds /\ pc'[a] = "over"
    <2>1. pc[a] \in {"release", "failed"} /\ buffer' = buffer
      BY <1>3 DEF InitEnd, At
    <2>2. pc[a] = "failed"
      <3>1. pc[a] = "release" /\ buffer[a].holds => pc'[a] = "held"
        BY <1>3 DEF InitEnd, At, Goto, Typed
      <3> QED
        BY <1>3, <2>1, <3>1
    <2>3. ~(CheckLoaded(a) \/ CheckLoading(a) \/ LoadBack(a) \/ Cancel(a))
      BY <2>2 DEF CheckLoaded, CheckLoading, LoadBack, Cancel, At
    <2> QED
      BY <1>0, <1>3, <2>2, <2>3, FailedStays DEF Failed
  <1>4. ASSUME b = a, UninitEnd(a), buffer'[a].holds
        PROVE  FALSE
    <2>1. buffer' = buffer
      BY <1>4 DEF UninitEnd, shared
    <2>2. ~buffer[a].holds
      <3>1. CASE pc[a] = "awaitFree" /\ signalled[a]
        BY <1>0, <1>4, <3>1 DEF Awoken
      <3>2. CASE pc[a] = "leave"
        <4>1. ~buffer[Of(a)].holds
          BY <3>2 DEF KeptInv, Returned
        <4> QED
          BY <1>4, <4>1 DEF Of
      <3> QED
        BY <1>4, <3>1, <3>2 DEF UninitEnd, At
    <2> QED
      BY <1>4, <2>1, <2>2
  <1>5. b = a => ClientFrom(a)
    BY ClientComes
  <1> QED
    BY <1>1, <1>2, <1>3, <1>4, <1>5 DEF ClientFrom

LEMMA LostKept ==
  ASSUME Typed, Places, RefsInv, KeptInv, NEW a \in Actor, StepOf(a), NEW n \in Buffer
  PROVE  Lost(n)'
  <1>0. config' = config /\ Lost(n) /\ node \in [Buffer -> NodeT]
    BY ConfigKept DEF KeptInv, Typed
  <1> SUFFICES ASSUME node'[n].decoder = "lost"
               PROVE  config.fails /\ config.decode
    BY <1>0 DEF Lost
  <1>1. CASE a \in Buffer /\ AcquireNew(a)
    <2>1. node' = [node EXCEPT ![a] = [NewNode("live") EXCEPT !.counter = 1]]
      BY <1>1 DEF AcquireNew
    <2>2. node'[n].decoder = node[n].decoder \/ node'[n].decoder = "none"
      BY <1>0, <1>1, <2>1 DEF NewNode
    <2> QED
      BY <1>0, <2>2 DEF Lost
  <1>2. CASE Open(a)
    <2>1. job[a].of \in Buffer
      BY <1>2, JobTyped DEF Open, At, LoadSteps
    <2>2. CASE node' = node
      BY <1>0, <2>2 DEF Lost
    <2>3. CASE config.fails /\ config.decode
      BY <2>3
    <2>4. CASE node' = [node EXCEPT ![job[a].of].known = TRUE, ![job[a].of].decoder = Carried]
      <3>1. Carried # "lost"
        BY DEF Carried
      <3>2. node'[n].decoder = node[n].decoder \/ node'[n].decoder = Carried
        BY <1>0, <2>1, <2>4 DEF NodeT
      <3> QED
        BY <1>0, <3>1, <3>2 DEF Lost
    <2> QED
      BY <1>2, <2>2, <2>3, <2>4 DEF Open, Carried
  <1>3. CASE Finish(a)
    <2>1. job[a].of \in Buffer /\ node' = [node EXCEPT ![job[a].of].decoder = "none"]
      BY <1>3, JobTyped DEF Finish, At, LoadSteps
    <2>2. node'[n].decoder = node[n].decoder \/ node'[n].decoder = "none"
      BY <1>0, <2>1 DEF NodeT
    <2> QED
      BY <1>0, <2>2 DEF Lost
  <1>4. CASE ~(a \in Buffer /\ AcquireNew(a)) /\ ~Open(a) /\ ~Finish(a)
    BY <1>0, <1>4, DecoderSame DEF Lost
  <1> QED
    BY <1>1, <1>2, <1>3, <1>4

LEMMA InitKept == Init => KeptInv
  <1> SUFFICES ASSUME Init
               PROVE  KeptInv
    OBVIOUS
  <1>0. /\ \A a \in Actor : pc[a] \in {"start", "idle"} /\ job[a] = NoJob
        /\ \A b \in Buffer : ~signalled[b] /\ buffer[b] = NewBuffer /\ node[b] = NewNode("none")
    BY DEF Init, Actor
  <1>1. \A a \in Actor : Answered(a) /\ Returned(a)
    BY <1>0 DEF Answered, Returned, NoJob
  <1>2. \A b \in Buffer : Heard(b) /\ Told(b) /\ Awoken(b) /\ Failed(b)
    BY <1>0 DEF Heard, Told, Awoken, Failed, Actor
  <1>3. \A b \in Buffer : Lost(b)
    BY <1>0 DEF Lost, NewNode
  <1> QED
    BY <1>1, <1>2, <1>3 DEF KeptInv

LEMMA NextKept == IInv /\ CountsInv /\ KeptInv /\ [Next]_vars => KeptInv'
  <1> SUFFICES ASSUME IInv, CountsInv, KeptInv, [Next]_vars
               PROVE  KeptInv'
    OBVIOUS
  <1>1. CASE UNCHANGED vars
    <2> USE <1>1 DEF vars, shared
    <2>1. \A b : Own(b)' = Own(b)
      BY DEF Own, Queued, Running
    <2>2. \A a \in Actor : Answered(a)' /\ Returned(a)'
      BY DEF KeptInv, Answered, Returned, Bad, Of
    <2>3. \A b \in Buffer : Heard(b)' /\ Told(b)' /\ Awoken(b)' /\ Lost(b)'
      BY DEF KeptInv, Heard, Told, Awoken, Lost, Bad
    <2>4. \A b \in Buffer : Failed(b)'
      BY <2>1 DEF KeptInv, Failed
    <2> QED
      BY <2>2, <2>3, <2>4 DEF KeptInv
  <1>2. ASSUME NEW a \in Actor, StepOf(a)
        PROVE  KeptInv'
    <2>1. Typed /\ Places /\ RefsInv
      BY TypedIs DEF IInv
    <2>2. Kinds /\ Phased /\ OwnOnce /\ Announced
      BY DEF CountsInv
    <2>3. \A c \in Actor : Answered(c)' /\ Returned(c)'
      BY <1>2, <2>1, <2>2, AnsweredKept, ReturnedKept
    <2>4. \A b \in Buffer : Heard(b)' /\ Told(b)'
      BY <1>2, <2>1, <2>2, HeardKept, ToldKept
    <2>5. \A b \in Buffer : Awoken(b)' /\ Failed(b)' /\ Lost(b)'
      BY <1>2, <2>1, <2>2, AwokenKept, FailedKept, LostKept
    <2> QED
      BY <2>3, <2>4, <2>5 DEF KeptInv
  <1> QED
    BY <1>1, <1>2, NextIsStep

THEOREM KeptInvariant == Spec => [](IInv /\ CountsInv /\ FencesInv /\ KeptInv)
  <1>1. Init => KeptInv
    BY InitKept
  <1>2. IInv /\ CountsInv /\ FencesInv /\ KeptInv /\ [Next]_vars => KeptInv'
    BY NextKept
  <1> QED
    BY <1>1, <1>2, CountsInvariant, PTL DEF Spec

LEMMA KeptFrom ==
  ASSUME CountsInv, KeptInv
  PROVE  KeptOnFailure
  <1>1. ASSUME NEW b \in Buffer, phase[b] = "over", buffer[b].holds
        PROVE  config.fails /\ buffer[b].result = "error" /\ ~buffer[b].connector
    <2>1. pc[b] = "over"
      BY <1>1 DEF CountsInv, Phased, PhaseAt
    <2> QED
      BY <1>1, <2>1 DEF KeptInv, Failed
  <1>2. ASSUME NEW n \in Buffer, node[n].decoder = "lost"
        PROVE  config.fails /\ config.decode
    BY <1>2 DEF KeptInv, Lost
  <1> QED
    BY <1>1, <1>2 DEF KeptOnFailure

\* A buffer whose thread is done keeps its node's reference only where the
\* connector of loaded data could not be made (miniaudio.h:69462), and a decoder
\* is left open only where it could not tell its length (68781): whoever wakes a
\* thread in uninit has given its node back before, also where WAIT_INIT and the
\* free job share the notification.
THEOREM KeptOnlyOnFailure == Spec => []KeptOnFailure
  <1>1. CountsInv /\ KeptInv => KeptOnFailure
    BY KeptFrom
  <1> QED
    BY <1>1, KeptInvariant, PTL

\* References, fences and decoders together: every count is that of what is
\* outstanding, and only the two failures keep a reference or a decoder, when no
\* configuration has both WAIT_INIT and failures.
THEOREM CountsAreExact ==
  ASSUME \A c \in Configs : c.fails => c.wait = {}
  PROVE  Spec => []CountsExact
  <1>1. IInv /\ CountsInv /\ FencesInv /\ KeptInv => CountsExact
    <2> SUFFICES ASSUME IInv, CountsInv, FencesInv, KeptInv
                 PROVE  CountsExact
      OBVIOUS
    <2>1. Typed
      BY TypedIs DEF IInv
    <2>2. Careful
      BY <2>1 DEF Typed, Careful
    <2>3. FencesExact
      BY <2>1, <2>2, FencesExactIs DEF FencesInv
    <2>4. KeptOnFailure
      BY KeptFrom
    <2> QED
      BY <2>3, <2>4 DEF CountsExact, IInv, RefsInv, CountsInv
  <1> QED
    BY <1>1, KeptInvariant, PTL
==============================================================================
