------------------------------ MODULE JobFifo ------------------------------
(***************************************************************************)
(* What a miniaudio job queue promises: a job that is accepted is handed   *)
(* to one taker, in the order of acceptance, and as it was posted.         *)
(***************************************************************************)
EXTENDS Sequences

CONSTANTS Job, Taker, NoJob

VARIABLES
  queue,  \* jobs accepted and not handed out yet
  held    \* taker -> the job it was handed and works on, or NoJob

vars == <<queue, held>>

Init == queue = <<>> /\ held = [t \in Taker |-> NoJob]

Put(j) == queue' = Append(queue, j) /\ UNCHANGED held

Get(t) ==
  /\ queue # <<>> /\ held[t] = NoJob
  /\ held' = [held EXCEPT ![t] = Head(queue)]
  /\ queue' = Tail(queue)

Done(t) == held[t] # NoJob /\ held' = [held EXCEPT ![t] = NoJob] /\ UNCHANGED queue

Next == (\E j \in Job : Put(j)) \/ (\E t \in Taker : Get(t) \/ Done(t))
Spec == Init /\ [][Next]_vars
===========================================================================
