----------------------------- MODULE BlockPool -----------------------------
(***************************************************************************)
(* What rpmalloc's small/medium path promises, without its lists, counters *)
(* or locks: heaps claim spans nobody holds, hand out blocks of the spans  *)
(* they hold, and a span is given back only when no block of it is in use. *)
(***************************************************************************)
CONSTANTS Heap, Span, Block, None

VARIABLES
  holder,   \* span -> the heap that hands out its blocks, or None
  inUse     \* cells (span, block) the program holds

vars == <<holder, inUse>>

Init == holder = [s \in Span |-> None] /\ inUse = {}

\* A span is claimed for an allocation: its first block is handed out at once
Claim(h, s, b) ==
  /\ holder[s] = None
  /\ holder' = [holder EXCEPT ![s] = h]
  /\ inUse' = inUse \cup {<<s, b>>}

Malloc(s, b) ==
  /\ holder[s] # None
  /\ <<s, b>> \notin inUse
  /\ inUse' = inUse \cup {<<s, b>>}
  /\ UNCHANGED holder

Free(s, b) ==
  /\ holder[s] # None
  /\ <<s, b>> \in inUse
  /\ inUse' = inUse \ {<<s, b>>}
  /\ UNCHANGED holder

GiveBack(s) ==
  /\ holder[s] # None
  /\ \A b \in Block : <<s, b>> \notin inUse
  /\ holder' = [holder EXCEPT ![s] = None]
  /\ UNCHANGED inUse

Next ==
  \E s \in Span :
    \/ \E b \in Block : Malloc(s, b) \/ Free(s, b)
    \/ \E h \in Heap, b \in Block : Claim(h, s, b)
    \/ GiveBack(s)

Spec == Init /\ [][Next]_vars
===========================================================================
