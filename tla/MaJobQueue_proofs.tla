-------------------------- MODULE MaJobQueue_proofs --------------------------
(***************************************************************************)
(* For any capacity, any clients, workers, jobs and scripts: slots have    *)
(* one owner and none is lost, the list is whole, the two counters are     *)
(* exact, and the queue is a first-in first-out queue.                     *)
(***************************************************************************)
EXTENDS MaJobQueue, FiniteSetTheorems, TLAPS

\* What the threads know, by the step they are at
Local ==
  /\ \A c \in Client : pc[c] \in InPost \cup {"idle", "join", "over"}
  /\ \A w \in Worker : pc[w] \notin {"idle", "join"}
  /\ \A t \in At1("claim") : group[t] < GroupCount
  /\ \A t \in Thread : pc[t] \in InPost => arg[t] \in AnyJob
  /\ \A t \in Holders : slot[t] \in taken
  /\ \A t \in Holders : pc[t] # "count" => slot[t] \in Slot
  /\ \A t \in At1("link") : next[slot[t]] = None /\ data[slot[t]] = arg[t]
  /\ \A t \in At1("free") \cup At1("uncount") : got[t] \in AnyJob
  /\ \A t \in At1("process") : got[t] \in Job
  /\ \A t \in At1("signal") : blocking

IInv == TypeOK /\ Local /\ OneOwner /\ NoSlotLost /\ ListInOrder /\ CountsBits /\ CountsJobs

---------------------------------------------------------------------------
(* Numbers and sets *)

\* Bits are natural numbers, there are finitely many, and bit 0 is one
LEMMA BitFacts == GroupCount \in Nat \ {0} /\ Bit \subseteq Nat /\ 0 \in Bit
  <1> USE QueueAssumption
  <1>1. Capacity % GroupBits \in Nat /\ Capacity \div GroupBits \in Nat
    BY SMT
  <1>2. Capacity \div GroupBits = 0 => Capacity % GroupBits = Capacity
    BY SMT
  <1>3. Capacity % GroupBits = 0 => Capacity \div GroupBits # 0
    BY <1>2
  <1>4. GroupCount \in Nat \ {0}
    BY <1>1, <1>3 DEF GroupCount
  <1>5. \A g \in Nat : g * GroupBits \in Nat
    BY SMT
  <1>6. Bit \subseteq Nat
    BY <1>4, <1>5 DEF Bit, Group
  <1>7. 0 \in Group(0) /\ 0 \in 0 .. GroupCount - 1
    BY <1>4 DEF Group
  <1> QED
    BY <1>4, <1>6, <1>7 DEF Bit

\* Threads that stand at a step are finitely many
LEMMA StepsFinite ==
  ASSUME NEW step
  PROVE  IsFiniteSet(At1(step)) /\ Cardinality(At1(step)) \in Nat
  <1>1. IsFiniteSet(Thread)
    BY QueueAssumption, FS_Union DEF Thread
  <1>2. At1(step) \in SUBSET Thread
    BY DEF At1
  <1> QED
    BY <1>1, <1>2, FS_Subset, FS_CardinalityType

\* The bits of threads that have still to count them are set, and others are
LEMMA CountBound ==
  ASSUME IInv
  PROVE  /\ Cardinality(taken) \in Nat
         /\ \A s \in taken : (\A t \in At1("count") : slot[t] # s)
                                => Cardinality(At1("count")) + 1 <= Cardinality(taken)
  <1>1. IsFiniteSet(taken) /\ Cardinality(taken) \in Nat
    BY FS_CardinalityType DEF IInv, TypeOK
  <1>2. SUFFICES ASSUME NEW s \in taken, \A t \in At1("count") : slot[t] # s
                 PROVE  Cardinality(At1("count")) + 1 <= Cardinality(taken)
    BY <1>1
  <1>3. IsFiniteSet(taken \ {s}) /\ Cardinality(taken \ {s}) = Cardinality(taken) - 1
    BY <1>1, FS_RemoveElement
  <1> DEFINE f == [t \in At1("count") |-> slot[t]]
  <1>4. \A t \in At1("count") : slot[t] \in taken \ {s}
    BY <1>2 DEF IInv, Local, Holders
  <1>5. \A t, u \in At1("count") : slot[t] = slot[u] => t = u
    BY DEF IInv, OneOwner, Holders
  <1>6. f \in Injection(At1("count"), taken \ {s})
    BY <1>4, <1>5 DEF Injection, IsInjective
  <1>7. Cardinality(At1("count")) <= Cardinality(taken \ {s})
    BY <1>3, <1>6, FS_Injection
  <1> QED
    BY <1>1, <1>3, <1>7, StepsFinite

\* In particular the counter is positive whenever a slot is freed or uncounted
LEMMA CountPositive ==
  ASSUME IInv
  PROVE  /\ \A w \in At1("free") \cup At1("uncount") : count > 0
         /\ count \in Int
  <1>1. head \in taken /\ \A t \in At1("count") : slot[t] # head
    <2>1. 1 \in DOMAIN chain /\ chain[1] = head /\ head \in Slot
      BY DEF IInv, ListInOrder, TypeOK
    <2>2. head \in Linked
      BY <2>1 DEF Linked
    <2> QED
      BY <2>1, <2>2 DEF IInv, NoSlotLost, OneOwner, Holders
  <1>2. Cardinality(At1("count")) + 1 <= Cardinality(taken) /\ Cardinality(taken) \in Nat
    BY <1>1, CountBound
  <1>3. count + Cardinality(At1("count")) = Cardinality(taken) + Cardinality(At1("uncount"))
    BY DEF IInv, CountsBits
  <1>4. count \in Nat
    BY DEF IInv, TypeOK
  <1> QED
    BY <1>2, <1>3, <1>4, StepsFinite

---------------------------------------------------------------------------
(* The slots and the list *)

Holding == {"count", "write", "link", "free"}

LEMMA HoldersAre == Holders = {t \in Thread : pc[t] \in Holding}
  BY DEF Holders, At1, At, Holding

Slots == OneOwner /\ NoSlotLost /\ ListInOrder

\* A step of a thread that holds no slot, before or after, and touches none
LEMMA SlotsKept ==
  ASSUME IInv, NEW t \in Thread, NEW to, pc' = [pc EXCEPT ![t] = to],
         pc[t] \notin Holding, to \notin Holding, UNCHANGED <<taken, slot, list>>
  PROVE  Slots'
  <1>1. pc \in [Thread -> Steps]
    BY DEF IInv, TypeOK
  <1>2. Holders' = Holders
    BY <1>1 DEF Holders, At1, At, Holding
  <1> QED
    BY <1>2 DEF IInv, Slots, OneOwner, NoSlotLost, ListInOrder, Linked, list

\* The list after a slot is linked at its end
LEMMA LinkedAppend ==
  ASSUME chain \in Seq(Slot), NEW s \in Slot, chain' = Append(chain, s)
  PROVE  Linked' = Linked \cup {s}
  <1>1. DOMAIN chain = 1 .. Len(chain) /\ DOMAIN chain' = 1 .. Len(chain) + 1 /\ Len(chain) \in Nat
    OBVIOUS
  <1>2. \A i \in DOMAIN chain : chain'[i] = chain[i]
    OBVIOUS
  <1>3. chain'[Len(chain) + 1] = s
    OBVIOUS
  <1>4. \A i \in DOMAIN chain' : i \in DOMAIN chain \/ i = Len(chain) + 1
    BY <1>1
  <1>5. DOMAIN chain \subseteq DOMAIN chain' /\ Len(chain) + 1 \in DOMAIN chain'
    BY <1>1
  <1> QED
    BY <1>2, <1>3, <1>4, <1>5 DEF Linked

\* The list after its first slot is taken off
LEMMA LinkedTail ==
  ASSUME chain \in Seq(Slot), chain # <<>>, chain' = Tail(chain),
         \A i, k \in DOMAIN chain : chain[i] = chain[k] => i = k
  PROVE  /\ Linked' = Linked \ {chain[1]}
         /\ Len(chain') = Len(chain) - 1
         /\ \A i \in DOMAIN chain' : i + 1 \in DOMAIN chain /\ chain'[i] = chain[i + 1]
  <1>1. DOMAIN chain = 1 .. Len(chain) /\ Len(chain) \in Nat \ {0} /\ 1 \in DOMAIN chain
    OBVIOUS
  <1>2. Len(chain') = Len(chain) - 1 /\ DOMAIN chain' = 1 .. Len(chain) - 1
    OBVIOUS
  <1>3. \A i \in DOMAIN chain' : i + 1 \in DOMAIN chain /\ chain'[i] = chain[i + 1] /\ i + 1 # 1
    BY <1>1, <1>2
  <1>4. \A i \in DOMAIN chain : i # 1 => i - 1 \in DOMAIN chain' /\ chain'[i - 1] = chain[i]
    BY <1>1, <1>2, <1>3
  <1>5. ASSUME NEW s \in Linked' PROVE s \in Linked \ {chain[1]}
    <2>1. PICK i \in DOMAIN chain' : s = chain'[i]
      BY <1>5 DEF Linked
    <2> QED
      BY <2>1, <1>1, <1>3 DEF Linked
  <1>6. ASSUME NEW s \in Linked \ {chain[1]} PROVE s \in Linked'
    <2>1. PICK i \in DOMAIN chain : s = chain[i]
      BY <1>6 DEF Linked
    <2>2. i # 1
      BY <1>6, <2>1
    <2> QED
      BY <2>1, <2>2, <1>4 DEF Linked
  <1> QED
    BY <1>2, <1>3, <1>5, <1>6

LEMMA ClaimBitSlots ==
  ASSUME IInv, NEW t \in Thread, ClaimBit(t)
  PROVE  Slots'
  <1>1. pc \in [Thread -> Steps] /\ slot \in [Thread -> Nat \cup {None}]
    BY DEF IInv, TypeOK
  <1>2. PICK s \in Group(group[t]) \ taken :
          taken' = taken \cup {s} /\ slot' = [slot EXCEPT ![t] = s]
    BY DEF ClaimBit
  <1>3. Holders' = Holders \cup {t} /\ t \notin Holders
    BY <1>1 DEF ClaimBit, Goto, At, HoldersAre, Holders, At1
  <1>4. Linked' = Linked /\ UNCHANGED <<chain, next, head, tail>>
    BY DEF ClaimBit, list, Linked
  <1>5. slot'[t] = s /\ \A u \in Holders : slot'[u] = slot[u] /\ slot[u] \in taken
    BY <1>1, <1>2, <1>3 DEF IInv, Local, Holders, At1
  <1>6. s \notin Linked
    <2> SUFFICES ASSUME s \in Linked PROVE s \in Slot
      BY <1>2 DEF IInv, NoSlotLost
    <2> QED
      BY DEF Linked, IInv, TypeOK
  <1>7. OneOwner'
    BY <1>2, <1>3, <1>4, <1>5, <1>6 DEF OneOwner, IInv
  <1>8. NoSlotLost'
    BY <1>2, <1>3, <1>4, <1>5 DEF NoSlotLost, IInv
  <1>9. ListInOrder'
    BY <1>4 DEF ListInOrder, IInv
  <1> QED
    BY <1>7, <1>8, <1>9 DEF Slots

LEMMA CountSlotSlots ==
  ASSUME IInv, NEW t \in Thread, CountSlot(t)
  PROVE  Slots'
  <1>1. pc \in [Thread -> Steps] /\ slot \in [Thread -> Nat \cup {None}]
    BY DEF IInv, TypeOK
  <1>2. UNCHANGED <<taken, slot, chain, next, head, tail>> /\ Linked' = Linked
    BY DEF CountSlot, list, locals, Linked
  <1>3. CASE slot[t] < Capacity
    <2>1. Holders' = Holders
      BY <1>1, <1>3 DEF CountSlot, Goto, At, Holders, At1
    <2> QED
      BY <1>2, <2>1 DEF IInv, Slots, OneOwner, NoSlotLost, ListInOrder
  <1>4. CASE ~(slot[t] < Capacity)
    <2>1. Holders' = Holders \ {t}
      BY <1>1, <1>4 DEF CountSlot, Refuse, AfterPost, Goto, At, Holders, At1
    <2>2. slot[t] \notin Slot
      BY <1>1, <1>4, QueueAssumption DEF Slot
    <2> QED
      BY <1>2, <2>1, <2>2 DEF IInv, Slots, OneOwner, NoSlotLost, ListInOrder
  <1> QED
    BY <1>3, <1>4

LEMMA WriteSlots ==
  ASSUME IInv, NEW t \in Thread, Write(t)
  PROVE  Slots'
  <1>1. pc \in [Thread -> Steps] /\ next \in [Slot -> Slot \cup {None}]
    BY DEF IInv, TypeOK
  <1>2. UNCHANGED <<taken, slot, chain, head, tail>> /\ Linked' = Linked
    BY DEF Write, list, locals, Linked, allocator
  <1>3. Holders' = Holders /\ t \in Holders
    BY <1>1 DEF Write, Goto, At, Holders, At1
  <1>4. \A s \in Linked : next'[s] = next[s]
    <2>1. slot[t] \notin Linked
      BY <1>3 DEF IInv, OneOwner
    <2>2. \A s \in Linked : s \in Slot
      BY DEF Linked, IInv, TypeOK
    <2> QED
      BY <1>1, <2>1, <2>2 DEF Write
  <1>5. ListInOrder'
    BY <1>2, <1>4 DEF IInv, ListInOrder, Linked
  <1> QED
    BY <1>2, <1>3, <1>5 DEF IInv, Slots, OneOwner, NoSlotLost

LEMMA LinkSlots ==
  ASSUME IInv, NEW t \in Thread, Link(t)
  PROVE  Slots'
  <1>1. /\ pc \in [Thread -> Steps] /\ next \in [Slot -> Slot \cup {None}]
        /\ chain \in Seq(Slot) /\ tail \in Slot
    BY DEF IInv, TypeOK
  <1>2. t \in Holders /\ slot[t] \in Slot /\ next[slot[t]] = None /\ slot[t] \notin Linked
    BY DEF IInv, Local, OneOwner, Link, At, Holders, At1
  <1>3. UNCHANGED <<taken, slot, head>>
    BY DEF Link, allocator, locals
  <1>4. chain' = Append(chain, slot[t]) /\ tail' = slot[t] /\ next' = [next EXCEPT ![tail] = slot[t]]
    BY DEF Link
  <1>5. Linked' = Linked \cup {slot[t]}
    BY <1>1, <1>2, <1>4, LinkedAppend
  <1>6. Holders' = Holders \ {t}
    BY <1>1 DEF Link, AfterPost, Goto, At, Holders, At1
  <1>7. /\ DOMAIN chain = 1 .. Len(chain) /\ Len(chain) \in Nat \ {0}
        /\ Len(chain') = Len(chain) + 1 /\ DOMAIN chain' = 1 .. Len(chain) + 1
        /\ \A i \in DOMAIN chain : chain'[i] = chain[i]
        /\ chain'[Len(chain) + 1] = slot[t]
    BY <1>1, <1>2, <1>4 DEF IInv, ListInOrder
  <1>8. OneOwner'
    <2>1. \A i, k \in DOMAIN chain' : chain'[i] = chain'[k] => i = k
      <3> SUFFICES ASSUME NEW i \in DOMAIN chain', NEW k \in DOMAIN chain', chain'[i] = chain'[k]
                   PROVE  i = k
        OBVIOUS
      <3>1. \A m \in DOMAIN chain : chain[m] \in Linked
        BY DEF Linked
      <3> QED
        BY <1>2, <1>7, <3>1 DEF IInv, OneOwner
    <2>2. \A u \in Holders' : slot'[u] \notin Linked'
      BY <1>2, <1>3, <1>5, <1>6 DEF IInv, OneOwner
    <2>3. \A u, v \in Holders' : slot'[u] = slot'[v] => u = v
      BY <1>3, <1>6 DEF IInv, OneOwner
    <2> QED
      BY <2>1, <2>2, <2>3 DEF OneOwner
  <1>9. NoSlotLost'
    BY <1>2, <1>3, <1>5, <1>6 DEF IInv, NoSlotLost
  <1>10. ListInOrder'
    <2>1. chain[Len(chain)] = tail /\ chain[1] = head
      BY DEF IInv, ListInOrder
    <2>2. chain' # <<>> /\ chain'[1] = head' /\ chain'[Len(chain')] = tail'
      BY <1>3, <1>4, <1>7, <2>1
    <2>3. ASSUME NEW i \in DOMAIN chain'
          PROVE  next'[chain'[i]] = IF i = Len(chain') THEN None ELSE chain'[i + 1]
      <3>1. CASE i = Len(chain) + 1
        <4>1. tail \in Linked
          BY <1>7, <2>1 DEF Linked
        <4>2. next'[slot[t]] = next[slot[t]]
          BY <4>1, <1>1, <1>2, <1>4
        <4> QED
          BY <3>1, <4>2, <1>2, <1>7
      <3>2. CASE i = Len(chain)
        BY <3>2, <1>1, <1>4, <1>7, <2>1
      <3>3. CASE i \in 1 .. Len(chain) - 1
        <4>1. chain[i] # tail /\ i \in DOMAIN chain /\ i + 1 \in DOMAIN chain
          BY <3>3, <1>7, <2>1 DEF IInv, OneOwner
        <4>2. next'[chain[i]] = chain[i + 1]
          BY <3>3, <4>1, <1>1, <1>4, <1>7 DEF IInv, ListInOrder
        <4> QED
          BY <3>3, <4>1, <4>2, <1>7
      <3> QED
        BY <3>1, <3>2, <3>3, <1>7
    <2> QED
      BY <2>2, <2>3 DEF ListInOrder
  <1> QED
    BY <1>8, <1>9, <1>10 DEF Slots

\* A list with two ends has a second slot
LEMMA SecondSlot ==
  ASSUME IInv, head # tail
  PROVE  Len(chain) >= 2 /\ next[head] = chain[2] /\ next[head] \in Slot
  <1>1. chain \in Seq(Slot) /\ Len(chain) \in Nat \ {0} /\ 1 \in DOMAIN chain
    BY DEF IInv, TypeOK, ListInOrder
  <1>2. Len(chain) # 1
    BY DEF IInv, ListInOrder
  <1> QED
    BY <1>1, <1>2 DEF IInv, ListInOrder

LEMMA TakeJobSlots ==
  ASSUME IInv, NEW w \in Thread, Take(w), TakeJob(w)
  PROVE  Slots'
  <1>1. /\ pc \in [Thread -> Steps] /\ next \in [Slot -> Slot \cup {None}]
        /\ chain \in Seq(Slot) /\ tail \in Slot /\ slot \in [Thread -> Nat \cup {None}]
    BY DEF IInv, TypeOK
  <1>2. Len(chain) >= 2 /\ next[head] = chain[2] /\ chain[1] = head /\ chain[Len(chain)] = tail
    BY SecondSlot DEF TakeJob, IInv, ListInOrder
  <1>3. UNCHANGED <<taken, next, tail>> /\ slot' = [slot EXCEPT ![w] = head] /\ head' = next[head]
    BY DEF Take, TakeJob, allocator
  <1>4. /\ Linked' = Linked \ {head} /\ Len(chain') = Len(chain) - 1
        /\ \A i \in DOMAIN chain' : i + 1 \in DOMAIN chain /\ chain'[i] = chain[i + 1]
    BY <1>1, <1>2, LinkedTail DEF TakeJob, IInv, OneOwner, ListInOrder
  <1>5. Holders' = Holders \cup {w} /\ w \notin Holders
    BY <1>1 DEF Take, TakeJob, Goto, At, Holders, At1
  <1>6. head \in Linked
    BY <1>1, <1>2 DEF Linked
  <1>7. slot'[w] = head /\ \A u \in Holders : slot'[u] = slot[u]
    BY <1>1, <1>3, <1>5 DEF Holders, At1
  <1>8. /\ DOMAIN chain' = 1 .. Len(chain) - 1 /\ DOMAIN chain = 1 .. Len(chain)
        /\ chain' \in Seq(Slot)
    BY <1>1, <1>2 DEF TakeJob
  <1>9. OneOwner'
    <2>1. \A i, k \in DOMAIN chain' : chain'[i] = chain'[k] => i = k
      <3> SUFFICES ASSUME NEW i \in DOMAIN chain', NEW k \in DOMAIN chain', chain'[i] = chain'[k]
                   PROVE  i = k
        OBVIOUS
      <3>1. i + 1 = k + 1
        BY <1>4 DEF IInv, OneOwner
      <3> QED
        BY <3>1, <1>8
    <2>2. \A u \in Holders' : slot'[u] \notin Linked'
      BY <1>4, <1>5, <1>7 DEF IInv, OneOwner
    <2>3. \A u, v \in Holders' : slot'[u] = slot'[v] => u = v
      BY <1>5, <1>6, <1>7 DEF IInv, OneOwner
    <2> QED
      BY <2>1, <2>2, <2>3 DEF OneOwner
  <1>10. NoSlotLost'
    BY <1>3, <1>4, <1>5, <1>6, <1>7 DEF IInv, NoSlotLost
  <1>11. ListInOrder'
    <2>1. chain' # <<>> /\ chain'[1] = head' /\ chain'[Len(chain')] = tail'
      BY <1>2, <1>3, <1>4, <1>8
    <2>2. ASSUME NEW i \in DOMAIN chain'
          PROVE  next'[chain'[i]] = IF i = Len(chain') THEN None ELSE chain'[i + 1]
      <3>1. next[chain[i + 1]] = IF i + 1 = Len(chain) THEN None ELSE chain[i + 2]
        BY <1>4, <1>8 DEF IInv, ListInOrder
      <3>2. i # Len(chain') => chain'[i + 1] = chain[i + 2]
        BY <1>4, <1>8
      <3> QED
        BY <1>3, <1>4, <1>8, <3>1, <3>2
    <2> QED
      BY <2>1, <2>2 DEF ListInOrder
  <1> QED
    BY <1>9, <1>10, <1>11 DEF Slots

LEMMA FreeBitSlots ==
  ASSUME IInv, NEW w \in Thread, FreeBit(w)
  PROVE  Slots'
  <1>1. pc \in [Thread -> Steps]
    BY DEF IInv, TypeOK
  <1>2. /\ count > 0 /\ taken' = taken \ {slot[w]}
        /\ pc' = [pc EXCEPT ![w] = "uncount"]
        /\ UNCHANGED <<slot, chain, next, head, tail>> /\ Linked' = Linked
    <2>1. w \in At1("free")
      BY DEF FreeBit, At1
    <2> QED
      BY <2>1, CountPositive DEF FreeBit, Goto, list, Linked
  <1>3. Holders' = Holders \ {w} /\ w \in Holders
    BY <1>1, <1>2 DEF FreeBit, At, Holders, At1
  <1>4. OneOwner'
    BY <1>2, <1>3 DEF IInv, OneOwner
  <1>5. NoSlotLost'
    BY <1>2, <1>3 DEF IInv, OneOwner, NoSlotLost
  <1>6. ListInOrder'
    BY <1>2 DEF IInv, ListInOrder
  <1> QED
    BY <1>4, <1>5, <1>6 DEF Slots

---------------------------------------------------------------------------
(* The two counters *)

\* count and the bits, for a step that goes from one place to another
LEMMA CountSteps ==
  ASSUME IInv, Next
  PROVE  CountsBits'
  <1> USE DEF At, Goto, allocator
  <1>1. pc \in [Thread -> Steps] /\ count \in Nat /\ IsFiniteSet(taken)
    BY DEF IInv, TypeOK
  <1>2. Cardinality(taken) \in Nat
    BY <1>1, FS_CardinalityType
  <1>3. count + Cardinality(At1("count")) = Cardinality(taken) + Cardinality(At1("uncount"))
    BY DEF IInv, CountsBits
  <1> SUFFICES count' + Cardinality(At1("count")') = Cardinality(taken') + Cardinality(At1("uncount")')
    BY DEF CountsBits
  <1>4. Cardinality(At1("count")) \in Nat /\ Cardinality(At1("uncount")) \in Nat
    BY StepsFinite
  <1>5. ASSUME NEW t \in Thread, NEW to, pc[t] \notin {"count", "uncount"}, to \notin {"count", "uncount"},
               pc' = [pc EXCEPT ![t] = to], UNCHANGED <<taken, count>>
        PROVE  count' + Cardinality(At1("count")') = Cardinality(taken') + Cardinality(At1("uncount")')
    <2>1. At1("count")' = At1("count") /\ At1("uncount")' = At1("uncount")
      BY <1>1, <1>5 DEF At1
    <2> QED
      BY <2>1, <1>3, <1>5
  <1>6. ASSUME NEW t \in Thread, ClaimBit(t)
        PROVE  count' + Cardinality(At1("count")') = Cardinality(taken') + Cardinality(At1("uncount")')
    <2>1. pc[t] = "claim" /\ pc' = [pc EXCEPT ![t] = "count"] /\ count' = count
      BY <1>6 DEF ClaimBit
    <2>2. Cardinality(At1("count")') = Cardinality(At1("count")) + 1
      <3>1. At1("count")' = At1("count") \cup {t} /\ t \notin At1("count")
        BY <1>1, <1>4, <2>1 DEF At1
      <3> QED
        BY <3>1, StepsFinite, FS_AddElement
    <2>3. Cardinality(At1("uncount")') = Cardinality(At1("uncount"))
      <3>1. At1("uncount")' = At1("uncount")
        BY <1>1, <1>4, <2>1 DEF At1
      <3> QED
        BY <3>1
    <2>4. PICK s \in Group(group[t]) \ taken : taken' = taken \cup {s}
      BY <1>6 DEF ClaimBit
    <2>5. Cardinality(taken') = Cardinality(taken) + 1
      BY <2>4, <1>1, FS_AddElement
    <2> QED
      BY <1>1, <1>2, <1>3, <1>4, <2>1, <2>2, <2>3, <2>5
  <1>7. ASSUME NEW t \in Thread, CountSlot(t)
        PROVE  count' + Cardinality(At1("count")') = Cardinality(taken') + Cardinality(At1("uncount")')
    <2>1. PICK to : to \notin {"count", "uncount"} /\ pc' = [pc EXCEPT ![t] = to]
      BY <1>7 DEF CountSlot, Refuse, AfterPost
    <2>2. pc[t] = "count" /\ count' = count + 1 /\ taken' = taken
      BY <1>7 DEF CountSlot
    <2>3. Cardinality(At1("count")') = Cardinality(At1("count")) - 1
      <3>1. At1("count")' = At1("count") \ {t} /\ t \in At1("count")
        BY <1>1, <1>4, <2>1, <2>2 DEF At1
      <3> QED
        BY <3>1, StepsFinite, FS_RemoveElement
    <2>4. Cardinality(At1("uncount")') = Cardinality(At1("uncount"))
      <3>1. At1("uncount")' = At1("uncount")
        BY <1>1, <1>4, <2>1, <2>2 DEF At1
      <3> QED
        BY <3>1
    <2> QED
      BY <1>1, <1>2, <1>3, <1>4, <2>2, <2>3, <2>4
  <1>8. ASSUME NEW t \in Thread, FreeBit(t)
        PROVE  count' + Cardinality(At1("count")') = Cardinality(taken') + Cardinality(At1("uncount")')
    <2>1. t \in At1("free") /\ pc[t] = "free"
      BY <1>8 DEF FreeBit, At1
    <2>2. /\ pc' = [pc EXCEPT ![t] = "uncount"] /\ count' = count
          /\ taken' = taken \ {slot[t]}
      BY <1>8, <2>1, CountPositive DEF FreeBit
    <2>3. slot[t] \in taken
      BY <2>1 DEF IInv, Local, Holders
    <2>4. Cardinality(taken') = Cardinality(taken) - 1
      BY <1>1, <2>2, <2>3, FS_RemoveElement
    <2>5. Cardinality(At1("count")') = Cardinality(At1("count"))
      <3>1. At1("count")' = At1("count")
        BY <1>1, <1>4, <2>1, <2>2 DEF At1
      <3> QED
        BY <3>1
    <2>6. Cardinality(At1("uncount")') = Cardinality(At1("uncount")) + 1
      <3>1. At1("uncount")' = At1("uncount") \cup {t} /\ t \notin At1("uncount")
        BY <1>1, <1>4, <2>1, <2>2 DEF At1
      <3> QED
        BY <3>1, StepsFinite, FS_AddElement
    <2> QED
      BY <1>1, <1>2, <1>3, <1>4, <2>2, <2>4, <2>5, <2>6
  <1>9. ASSUME NEW t \in Thread, FreeCount(t)
        PROVE  count' + Cardinality(At1("count")') = Cardinality(taken') + Cardinality(At1("uncount")')
    <2>1. PICK to : to \notin {"count", "uncount"} /\ pc' = [pc EXCEPT ![t] = to]
      BY <1>9 DEF FreeCount, AfterFree, Call
    <2>2. pc[t] = "uncount" /\ count' = count - 1 /\ taken' = taken
      BY <1>9 DEF FreeCount
    <2>3. Cardinality(At1("uncount")') = Cardinality(At1("uncount")) - 1
      <3>1. At1("uncount")' = At1("uncount") \ {t} /\ t \in At1("uncount")
        BY <1>1, <1>4, <2>1, <2>2 DEF At1
      <3> QED
        BY <3>1, StepsFinite, FS_RemoveElement
    <2>4. Cardinality(At1("count")') = Cardinality(At1("count"))
      <3>1. At1("count")' = At1("count")
        BY <1>1, <1>4, <2>1, <2>2 DEF At1
      <3> QED
        BY <3>1
    <2> QED
      BY <1>1, <1>2, <1>3, <1>4, <2>2, <2>3, <2>4
  <1>10. ASSUME NEW t \in Thread, NextGroup(t) \/ Retry(t) \/ Write(t) \/ Link(t) \/ Signal(t)
         PROVE  count' + Cardinality(At1("count")') = Cardinality(taken') + Cardinality(At1("uncount")')
    <2>1. UNCHANGED <<taken, count>> /\ pc[t] \notin {"count", "uncount"}
      BY <1>10 DEF NextGroup, Retry, Write, Link, Signal
    <2>2. \E to : to \notin {"count", "uncount"} /\ pc' = [pc EXCEPT ![t] = to]
      BY <1>10 DEF NextGroup, Retry, Write, Link, Signal, Refuse, AfterPost
    <2> QED
      BY <2>1, <2>2, <1>5
  <1>11. ASSUME NEW t \in Thread, Wait(t) \/ Take(t) \/ Process(t)
         PROVE  count' + Cardinality(At1("count")') = Cardinality(taken') + Cardinality(At1("uncount")')
    <2>1. UNCHANGED <<taken, count>> /\ pc[t] \notin {"count", "uncount"}
      BY <1>11 DEF Wait, Take, Process
    <2>2. \E to : to \notin {"count", "uncount"} /\ pc' = [pc EXCEPT ![t] = to]
      BY <1>11 DEF Wait, Take, TakeNothing, TakeJob, Process, Call
    <2> QED
      BY <2>1, <2>2, <1>5
  <1>12. ASSUME NEW t \in Thread, ClientStep(t)
         PROVE  count' + Cardinality(At1("count")') = Cardinality(taken') + Cardinality(At1("uncount")')
    <2>1. UNCHANGED <<taken, count>> /\ pc[t] \notin {"count", "uncount"}
      BY <1>12 DEF ClientStep, PostNext, Leave, Join
    <2>2. \E to : to \notin {"count", "uncount"} /\ pc' = [pc EXCEPT ![t] = to]
      BY <1>12 DEF ClientStep, PostNext, Leave, Join, Call
    <2> QED
      BY <2>1, <2>2, <1>5
  <1> QED
    BY <1>6, <1>7, <1>8, <1>9, <1>10, <1>11, <1>12 DEF Next, Post, NextJob, Thread

\* A taker that the semaphore let through finds a job
LEMMA TakerFinds ==
  ASSUME IInv, blocking, NEW w \in At1("take")
  PROVE  head # tail
  <1>1. Cardinality(At1("take")) \in Nat \ {0}
    BY StepsFinite, FS_EmptySet
  <1>2. Cardinality(At1("signal")) \in Nat
    BY StepsFinite
  <1>3. Len(chain) - 1 = sem + Cardinality(At1("signal")) + Cardinality(At1("take"))
    BY DEF IInv, CountsJobs
  <1>4. chain \in Seq(Slot) /\ sem \in Nat
    BY DEF IInv, TypeOK
  <1>5. Len(chain) >= 2
    BY <1>1, <1>2, <1>3, <1>4
  <1>6. 1 \in DOMAIN chain /\ Len(chain) \in DOMAIN chain /\ Len(chain) # 1
    BY <1>4, <1>5
  <1> QED
    BY <1>6 DEF IInv, OneOwner, ListInOrder

\* The semaphore and the list, for a step that goes from one place to another
LEMMA JobSteps ==
  ASSUME IInv, Next
  PROVE  CountsJobs'
  <1> USE DEF At, Goto, list
  <1>1. pc \in [Thread -> Steps] /\ sem \in Nat /\ chain \in Seq(Slot)
    BY DEF IInv, TypeOK
  <1>2. Len(chain) \in Nat
    BY <1>1
  <1>3. IF blocking
        THEN Len(chain) - 1 = sem + Cardinality(At1("signal")) + Cardinality(At1("take"))
        ELSE sem = 0
    BY DEF IInv, CountsJobs
  <1>4. Cardinality(At1("signal")) \in Nat /\ Cardinality(At1("take")) \in Nat
    BY StepsFinite
  <1>5. ASSUME NEW t \in Thread, NEW to, pc[t] \notin {"signal", "take"}, to \notin {"signal", "take"},
               pc' = [pc EXCEPT ![t] = to], UNCHANGED <<chain, sem, blocking>>
        PROVE  CountsJobs'
    <2>1. At1("signal")' = At1("signal") /\ At1("take")' = At1("take")
      BY <1>1, <1>5 DEF At1
    <2> QED
      BY <2>1, <1>3, <1>5 DEF CountsJobs
  <1>6. ASSUME NEW t \in Thread, Link(t)
        PROVE  CountsJobs'
    <2>1. sem' = sem /\ blocking' = blocking /\ pc[t] = "link" /\ chain' = Append(chain, slot[t])
      BY <1>6 DEF Link
    <2>2. Len(chain') = Len(chain) + 1
      BY <2>1, <1>1
    <2>3. CASE blocking
      <3>1. At1("signal")' = At1("signal") \cup {t} /\ t \notin At1("signal")
        BY <1>1, <1>6, <2>1, <2>3 DEF Link, At1
      <3>2. At1("take")' = At1("take")
        BY <1>1, <1>6, <2>1, <2>3 DEF Link, At1
      <3>3. Cardinality(At1("signal")') = Cardinality(At1("signal")) + 1
        BY <3>1, StepsFinite, FS_AddElement
      <3> QED
        BY <1>1, <1>2, <1>3, <1>4, <2>1, <2>2, <2>3, <3>2, <3>3 DEF CountsJobs
    <2>4. CASE ~blocking
      BY <1>3, <2>1, <2>4 DEF CountsJobs
    <2> QED
      BY <2>3, <2>4
  <1>7. ASSUME NEW t \in Thread, Signal(t)
        PROVE  CountsJobs'
    <2>1. sem' = sem + 1 /\ blocking' = blocking /\ pc[t] = "signal" /\ chain' = chain
      BY <1>7 DEF Signal
    <2>2. blocking
      BY <1>7 DEF IInv, Local, Signal, At1
    <2>3. AfterPost(t) \notin {"signal", "take"} /\ pc' = [pc EXCEPT ![t] = AfterPost(t)]
      BY <1>7 DEF Signal, AfterPost
    <2>4. At1("signal")' = At1("signal") \ {t} /\ t \in At1("signal") /\ At1("take")' = At1("take")
      BY <1>1, <2>1, <2>3 DEF At1
    <2>5. Cardinality(At1("signal")') = Cardinality(At1("signal")) - 1
      BY <2>4, StepsFinite, FS_RemoveElement
    <2> QED
      BY <1>1, <1>2, <1>3, <1>4, <2>1, <2>2, <2>4, <2>5 DEF CountsJobs
  <1>8. ASSUME NEW t \in Thread, Wait(t)
        PROVE  CountsJobs'
    <2>1. /\ blocking' = blocking /\ pc[t] = "next" /\ chain' = chain
          /\ pc' = [pc EXCEPT ![t] = "take"]
          /\ IF blocking THEN sem > 0 /\ sem' = sem - 1 ELSE sem' = sem
      BY <1>8 DEF Wait
    <2>2. At1("take")' = At1("take") \cup {t} /\ t \notin At1("take") /\ At1("signal")' = At1("signal")
      BY <1>1, <2>1 DEF At1
    <2>3. Cardinality(At1("take")') = Cardinality(At1("take")) + 1
      BY <2>2, StepsFinite, FS_AddElement
    <2> QED
      BY <1>1, <1>2, <1>3, <1>4, <2>1, <2>2, <2>3 DEF CountsJobs
  <1>9. ASSUME NEW t \in Thread, Take(t)
        PROVE  CountsJobs'
    <2>1. sem' = sem /\ blocking' = blocking /\ pc[t] = "take"
      BY <1>9 DEF Take
    <2>2. CASE ~blocking
      BY <1>3, <2>1, <2>2 DEF CountsJobs
    <2>3. CASE blocking
      <3>1. t \in At1("take")
        BY <2>1 DEF At1
      <3>2. TakeJob(t)
        BY <1>9, <2>3, <3>1, TakerFinds DEF Take, TakeNothing
      <3>3. pc' = [pc EXCEPT ![t] = "free"] /\ chain' = Tail(chain)
        BY <3>2 DEF TakeJob
      <3>4. Len(chain') = Len(chain) - 1
        BY <1>1, <3>3 DEF IInv, ListInOrder
      <3>5. At1("take")' = At1("take") \ {t} /\ At1("signal")' = At1("signal")
        BY <1>1, <2>1, <3>3 DEF At1
      <3>6. Cardinality(At1("take")') = Cardinality(At1("take")) - 1
        BY <3>1, <3>5, StepsFinite, FS_RemoveElement
      <3> QED
        BY <1>1, <1>2, <1>3, <1>4, <2>1, <2>3, <3>4, <3>5, <3>6 DEF CountsJobs
    <2> QED
      BY <2>2, <2>3
  <1>10. ASSUME NEW t \in Thread, ClaimBit(t) \/ NextGroup(t) \/ Retry(t) \/ CountSlot(t) \/ Write(t)
         PROVE  CountsJobs'
    <2>1. UNCHANGED <<chain, sem, blocking>> /\ pc[t] \notin {"signal", "take"}
      BY <1>10 DEF ClaimBit, NextGroup, Retry, CountSlot, Write
    <2>2. \E to : to \notin {"signal", "take"} /\ pc' = [pc EXCEPT ![t] = to]
      BY <1>10 DEF ClaimBit, NextGroup, Retry, CountSlot, Write, Refuse, AfterPost
    <2> QED
      BY <2>1, <2>2, <1>5
  <1>11. ASSUME NEW t \in Thread, FreeBit(t) \/ FreeCount(t) \/ Process(t)
         PROVE  CountsJobs'
    <2>1. UNCHANGED <<chain, sem, blocking>> /\ pc[t] \notin {"signal", "take"}
      BY <1>11 DEF FreeBit, FreeCount, Process
    <2>2. \E to : to \notin {"signal", "take"} /\ pc' = [pc EXCEPT ![t] = to]
      BY <1>11 DEF FreeBit, FreeCount, Process, AfterFree, Call
    <2> QED
      BY <2>1, <2>2, <1>5
  <1>12. ASSUME NEW t \in Thread, ClientStep(t)
         PROVE  CountsJobs'
    <2>1. UNCHANGED <<chain, sem, blocking>> /\ pc[t] \notin {"signal", "take"}
      BY <1>12 DEF ClientStep, PostNext, Leave, Join
    <2>2. \E to : to \notin {"signal", "take"} /\ pc' = [pc EXCEPT ![t] = to]
      BY <1>12 DEF ClientStep, PostNext, Leave, Join, Call
    <2> QED
      BY <2>1, <2>2, <1>5
  <1> QED
    BY <1>6, <1>7, <1>8, <1>9, <1>10, <1>11, <1>12 DEF Next, Post, NextJob, Thread

---------------------------------------------------------------------------
(* Types and what the threads know *)

\* A call of post leaves the thread's own variables well typed
LEMMA CallTypes ==
  ASSUME TypeOK, NEW t \in Thread, NEW j \in AnyJob, Call(t, j)
  PROVE  /\ pc' \in [Thread -> Steps]
         /\ arg' \in [Thread -> AnyJob \cup {NoJob}]
         /\ group' \in [Thread -> 0 .. GroupCount] /\ attempt' \in [Thread -> {1, 2}]
  BY BitFacts DEF Call, Goto, TypeOK, Steps

LEMMA TypeStep ==
  ASSUME IInv, Next
  PROVE  TypeOK'
  <1> USE DEF At, Goto, TypeOK, allocator, list, locals, AnyJob
  <1>1. TypeOK /\ Local
    BY DEF IInv
  <1>2. GroupCount \in Nat \ {0} /\ Bit \subseteq Nat
    BY BitFacts
  <1>3. \A t \in Thread : AfterPost(t) \in Steps
    BY DEF AfterPost, Steps
  <1>4. ASSUME NEW t \in Thread, ClaimBit(t) PROVE TypeOK'
    <2>1. group[t] \in 0 .. GroupCount - 1
      BY <1>1, <1>2, <1>4 DEF ClaimBit, Local, At1
    <2>2. PICK s \in Group(group[t]) \ taken :
            taken' = taken \cup {s} /\ slot' = [slot EXCEPT ![t] = s]
      BY <1>4 DEF ClaimBit
    <2>3. s \in Bit /\ s \in Nat
      BY <1>2, <2>1 DEF Bit
    <2>4. IsFiniteSet(taken')
      BY <1>1, <2>2, FS_AddElement
    <2> QED
      BY <1>1, <1>4, <2>2, <2>3, <2>4 DEF ClaimBit, Steps
  <1>5. ASSUME NEW t \in Thread, NextGroup(t) PROVE TypeOK'
    <2>1. group[t] \in 0 .. GroupCount - 1
      BY <1>1, <1>2, <1>5 DEF NextGroup, Local, At1
    <2> QED
      BY <1>1, <1>2, <1>5, <2>1 DEF NextGroup, Steps
  <1>6. ASSUME NEW t \in Thread, Retry(t) PROVE TypeOK'
    <2>1. arg[t] \in AnyJob
      BY <1>1, <1>6 DEF Retry, Local, InPost
    <2>2. CASE count < Capacity /\ attempt[t] = 1
      <3>1. /\ pc' = [pc EXCEPT ![t] = "claim"] /\ group' = [group EXCEPT ![t] = 0]
            /\ attempt' = [attempt EXCEPT ![t] = 2]
            /\ UNCHANGED <<blocking, allocator, list, sem, arg, got, slot, script, dropped>>
        BY <1>6, <2>2 DEF Retry
      <3>2. /\ pc' \in [Thread -> Steps] /\ group' \in [Thread -> 0 .. GroupCount]
            /\ attempt' \in [Thread -> {1, 2}]
        BY <1>1, <1>2, <3>1 DEF Steps
      <3> QED
        BY <1>1, <3>1, <3>2
    <2>3. CASE ~(count < Capacity /\ attempt[t] = 1)
      BY <1>1, <1>3, <1>6, <2>1, <2>3 DEF Retry, Refuse
    <2> QED
      BY <2>2, <2>3
  <1>7. ASSUME NEW t \in Thread, CountSlot(t) PROVE TypeOK'
    <2>1. arg[t] \in AnyJob
      BY <1>1, <1>7 DEF CountSlot, Local, InPost
    <2>2. pc' \in [Thread -> Steps] /\ dropped' \subseteq AnyJob
      <3>1. \/ pc' = [pc EXCEPT ![t] = "write"] /\ dropped' = dropped
            \/ pc' = [pc EXCEPT ![t] = AfterPost(t)] /\ dropped' = dropped \cup {arg[t]}
        BY <1>7 DEF CountSlot, Refuse
      <3> QED
        BY <1>1, <1>3, <2>1, <3>1 DEF Steps
    <2>3. count' \in Nat /\ UNCHANGED <<blocking, taken, list, sem, locals, script>>
      BY <1>1, <1>7 DEF CountSlot
    <2> QED
      BY <1>1, <2>2, <2>3
  <1>8. ASSUME NEW t \in Thread, Write(t) PROVE TypeOK'
    <2>1. arg[t] \in AnyJob
      BY <1>1, <1>8 DEF Write, Local, InPost
    <2> QED
      BY <1>1, <1>8, <2>1 DEF Write, Steps
  <1>9. ASSUME NEW t \in Thread, Link(t) PROVE TypeOK'
    <2>1. slot[t] \in Slot
      BY <1>1, <1>9 DEF Link, Local, Holders, At1
    <2>2. chain' \in Seq(Slot)
      BY <1>1, <1>9, <2>1 DEF Link
    <2> QED
      BY <1>1, <1>3, <1>9, <2>1, <2>2 DEF Link, Steps
  <1>10. ASSUME NEW t \in Thread, Signal(t) PROVE TypeOK'
    BY <1>1, <1>3, <1>10 DEF Signal
  <1>11. ASSUME NEW t \in Thread, Wait(t) PROVE TypeOK'
    BY <1>1, <1>11 DEF Wait, Steps
  <1>12. ASSUME NEW t \in Thread, Take(t), TakeNothing(t) PROVE TypeOK'
    BY <1>1, <1>12 DEF Take, TakeNothing, Steps
  <1>13. ASSUME NEW t \in Thread, Take(t), TakeJob(t) PROVE TypeOK'
    <2>1. next[head] \in Slot /\ chain # <<>>
      BY <1>13, SecondSlot DEF TakeJob, IInv, ListInOrder
    <2>2. chain' \in Seq(Slot)
      BY <1>1, <1>13, <2>1 DEF TakeJob
    <2>3. head \in Nat
      BY <1>1, QueueAssumption DEF Slot
    <2> QED
      BY <1>1, <1>13, <2>1, <2>2, <2>3 DEF Take, TakeJob, Steps
  <1>14. ASSUME NEW t \in Thread, FreeBit(t) PROVE TypeOK'
    <2>1. taken' = taken \ {slot[t]} /\ pc' = [pc EXCEPT ![t] = "uncount"] /\ UNCHANGED <<arg, group, attempt>>
      BY <1>14, CountPositive DEF FreeBit, At1
    <2>2. IsFiniteSet(taken')
      BY <1>1, <2>1, FS_RemoveElement
    <2> QED
      BY <1>1, <1>14, <2>1, <2>2 DEF FreeBit, Steps
  <1>15. ASSUME NEW t \in Thread, FreeCount(t) PROVE TypeOK'
    <2>1. count > 0
      BY <1>15, CountPositive DEF FreeCount, At1
    <2>2. CASE got[t] = QUIT
      BY <1>1, <1>2, <1>15, <2>1, <2>2, CallTypes DEF FreeCount, AfterFree
    <2>3. CASE got[t] # QUIT
      <3>1. /\ pc' = [pc EXCEPT ![t] = "process"] /\ count' = count - 1
            /\ UNCHANGED <<blocking, taken, list, sem, locals, script, dropped>>
        BY <1>15, <2>3 DEF FreeCount, AfterFree
      <3>2. pc' \in [Thread -> Steps] /\ count' \in Nat
        BY <1>1, <2>1, <3>1 DEF Steps
      <3> QED
        BY <1>1, <3>1, <3>2
    <2> QED
      BY <2>2, <2>3
  <1>16. ASSUME NEW t \in Thread, Process(t) PROVE TypeOK'
    <2>1. Follow[got[t]] # NoJob => Follow[got[t]] \in AnyJob
      BY <1>1, <1>16, QueueAssumption DEF Process, Local, At1
    <2>2. CASE Follow[got[t]] = NoJob
      BY <1>1, <1>16, <2>2 DEF Process, Steps
    <2>3. CASE Follow[got[t]] # NoJob
      BY <1>1, <1>16, <2>1, <2>3, CallTypes DEF Process
    <2> QED
      BY <2>2, <2>3
  <1>17. ASSUME NEW c \in Client, PostNext(c) PROVE TypeOK'
    <2>1. Head(script[c]) \in AnyJob /\ Tail(script[c]) \in Seq(AnyJob)
      BY <1>1, <1>17 DEF PostNext
    <2> QED
      BY <1>1, <1>2, <1>17, <2>1 DEF PostNext, Call, Steps, Thread
  <1>18. ASSUME NEW c \in Client, Leave(c) \/ Join(c) PROVE TypeOK'
    BY <1>1, <1>18 DEF Leave, Join, Steps, Thread
  <1> QED
    BY <1>4, <1>5, <1>6, <1>7, <1>8, <1>9, <1>10, <1>11, <1>12, <1>13, <1>14, <1>15, <1>16,
       <1>17, <1>18 DEF Next, Post, NextJob, ClientStep, Take, Thread

\* A thread that moves on, and a slot, a link or a job it does not know of
LEMMA LocalMoves ==
  ASSUME IInv, NEW t \in Thread, NEW to, pc' = [pc EXCEPT ![t] = to],
         UNCHANGED blocking,
         \A u \in Thread \ {t} :
            /\ arg'[u] = arg[u] /\ got'[u] = got[u] /\ slot'[u] = slot[u] /\ group'[u] = group[u],
         \A u \in Holders \ {t} : slot[u] \in taken',
         \A u \in At1("link") \ {t} : next'[slot[u]] = next[slot[u]] /\ data'[slot[u]] = data[slot[u]],
         IF t \in Client THEN to \in InPost \cup {"idle", "join", "over"} ELSE to \notin {"idle", "join"},
         to = "claim" => group'[t] < GroupCount,
         to \in InPost => arg'[t] \in AnyJob,
         to \in Holding => slot'[t] \in taken' /\ (to # "count" => slot'[t] \in Slot),
         to = "link" => next'[slot'[t]] = None /\ data'[slot'[t]] = arg'[t],
         to \in {"free", "uncount"} => got'[t] \in AnyJob,
         to = "process" => got'[t] \in Job,
         to = "signal" => blocking
  PROVE  Local'
  <1>1. pc \in [Thread -> Steps] /\ Local
    BY DEF IInv, TypeOK
  <1>2. pc'[t] = to /\ \A u \in Thread \ {t} : pc'[u] = pc[u]
    BY <1>1
  <1>3. Holders' = {u \in Thread : pc'[u] \in Holding} /\ Holders = {u \in Thread : pc[u] \in Holding}
    BY DEF Holders, At1, At, Holding
  <1> USE DEF At1, At
  <1>4. \A c \in Client : pc'[c] \in InPost \cup {"idle", "join", "over"}
    BY <1>1, <1>2 DEF Local, Thread
  <1>5. \A w \in Worker : pc'[w] \notin {"idle", "join"}
    BY <1>1, <1>2, QueueAssumption DEF Local, Thread
  <1>6. \A u \in At1("claim")' : group'[u] < GroupCount
    BY <1>1, <1>2 DEF Local
  <1>7. \A u \in Thread : pc'[u] \in InPost => arg'[u] \in AnyJob
    BY <1>1, <1>2 DEF Local
  <1>8. \A u \in Holders' : slot'[u] \in taken' /\ (pc'[u] # "count" => slot'[u] \in Slot)
    BY <1>1, <1>2, <1>3 DEF Local
  <1>9. \A u \in At1("link")' : next'[slot'[u]] = None /\ data'[slot'[u]] = arg'[u]
    BY <1>1, <1>2 DEF Local
  <1>10. \A u \in At1("free")' \cup At1("uncount")' : got'[u] \in AnyJob
    BY <1>1, <1>2 DEF Local
  <1>11. \A u \in At1("process")' : got'[u] \in Job
    BY <1>1, <1>2 DEF Local
  <1>12. \A u \in At1("signal")' : blocking'
    BY <1>1, <1>2 DEF Local
  <1>13. \A u \in Holders' : pc'[u] # "count" => slot'[u] \in Slot
    BY <1>8
  <1> HIDE DEF At1, At
  <1> QED
    BY <1>4, <1>5, <1>6, <1>7, <1>8, <1>9, <1>10, <1>11, <1>12, <1>13 DEF Local

LEMMA LocalStep ==
  ASSUME IInv, Next
  PROVE  Local'
  <1> USE DEF At, Goto, allocator, list, locals, Holding, InPost
  <1>1. TypeOK /\ Local
    BY DEF IInv
  <1>2. GroupCount \in Nat \ {0} /\ Bit \subseteq Nat
    BY BitFacts
  <1>3. \A u \in Holders : slot[u] \in taken
    BY <1>1 DEF Local
  <1>4. \A t \in Thread : IF t \in Client THEN AfterPost(t) = "idle" ELSE AfterPost(t) \in {"next", "over"}
    BY DEF AfterPost
  <1>5. /\ pc \in [Thread -> Steps] /\ slot \in [Thread -> Nat \cup {None}]
        /\ arg \in [Thread -> AnyJob \cup {NoJob}] /\ got \in [Thread -> AnyJob \cup {NoJob}]
        /\ group \in [Thread -> 0 .. GroupCount]
        /\ next \in [Slot -> Slot \cup {None}] /\ data \in [Slot -> AnyJob]
    BY <1>1 DEF TypeOK
  <1>6. ASSUME NEW t \in Thread, ClaimBit(t) PROVE Local'
    <2>1. PICK s \in Group(group[t]) \ taken :
            taken' = taken \cup {s} /\ slot' = [slot EXCEPT ![t] = s]
      BY <1>6 DEF ClaimBit
    <2>2. slot'[t] \in taken' /\ arg[t] \in AnyJob
      BY <1>1, <1>5, <1>6, <2>1 DEF ClaimBit, Local
    <2>3. pc[t] = "claim" /\ pc' = [pc EXCEPT ![t] = "count"]
          /\ UNCHANGED <<blocking, data, next, arg, got, group>>
      BY <1>6 DEF ClaimBit
    <2> QED
      <3>1. \A u \in Thread \ {t} :
               arg'[u] = arg[u] /\ got'[u] = got[u] /\ slot'[u] = slot[u] /\ group'[u] = group[u]
        BY <1>5, <2>1, <2>3
      <3>2. \A u \in Holders \ {t} : slot[u] \in taken'
        BY <1>3, <2>1
      <3>3. \A u \in At1("link") \ {t} : next'[slot[u]] = next[slot[u]] /\ data'[slot[u]] = data[slot[u]]
        BY <2>3
      <3>4. arg'[t] \in AnyJob /\ slot'[t] \in taken'
        BY <2>2, <2>3
      <3>5. IF t \in Client THEN "count" \in InPost \cup {"idle", "join", "over"}
                            ELSE "count" \notin {"idle", "join"}
        OBVIOUS
      <3>6. "count" \in Holding => slot'[t] \in taken' /\ ("count" # "count" => slot'[t] \in Slot)
        BY <3>4
      <3> HIDE DEF Holding, InPost, At, list, locals, allocator, Goto
      <3> QED
        BY <2>3, <3>1, <3>2, <3>3, <3>4, <3>5, <3>6, LocalMoves
  <1>7. ASSUME NEW t \in Thread, NextGroup(t) PROVE Local'
    <2>1. arg[t] \in AnyJob /\ group' = [group EXCEPT ![t] = group[t] + 1]
          /\ UNCHANGED <<blocking, taken, data, next, arg, got, slot>>
      BY <1>1, <1>7 DEF NextGroup, Local
    <2>2. CASE group[t] + 1 < GroupCount
      <3>1. pc' = [pc EXCEPT ![t] = "claim"]
        BY <1>7, <2>2 DEF NextGroup
      <3> QED
        BY <1>3, <1>5, <2>1, <2>2, <3>1, LocalMoves
    <2>3. CASE ~(group[t] + 1 < GroupCount)
      <3>1. pc' = [pc EXCEPT ![t] = "full"]
        BY <1>7, <2>3 DEF NextGroup
      <3> QED
        BY <1>3, <1>5, <2>1, <3>1, LocalMoves
    <2> QED
      BY <2>2, <2>3
  <1>8. ASSUME NEW t \in Thread, Retry(t) PROVE Local'
    <2>1. arg[t] \in AnyJob /\ UNCHANGED <<blocking, taken, data, next, arg, got, slot>>
      BY <1>1, <1>8 DEF Retry, Local
    <2>2. CASE count < Capacity /\ attempt[t] = 1
      <3>1. pc' = [pc EXCEPT ![t] = "claim"] /\ group' = [group EXCEPT ![t] = 0]
        BY <1>8, <2>2 DEF Retry
      <3>2. group'[t] < GroupCount
        BY <1>2, <1>5, <3>1
      <3> QED
        BY <1>3, <1>5, <2>1, <3>1, <3>2, LocalMoves
    <2>3. CASE ~(count < Capacity /\ attempt[t] = 1)
      <3>1. pc' = [pc EXCEPT ![t] = AfterPost(t)] /\ group' = group
        BY <1>8, <2>3 DEF Retry, Refuse
      <3> QED
        BY <1>3, <1>4, <1>5, <2>1, <3>1, LocalMoves
    <2> QED
      BY <2>2, <2>3
  <1>9. ASSUME NEW t \in Thread, CountSlot(t) PROVE Local'
    <2>1. /\ pc[t] = "count" /\ t \in Holders /\ arg[t] \in AnyJob
          /\ UNCHANGED <<blocking, taken, data, next, arg, got, slot, group>>
      BY <1>1, <1>9 DEF CountSlot, Local, Holders, At1
    <2>2. CASE slot[t] < Capacity
      <3>1. pc' = [pc EXCEPT ![t] = "write"]
        BY <1>9, <2>2 DEF CountSlot
      <3>2. slot[t] \in taken /\ slot[t] \in Slot
        <4>1. slot[t] \in taken /\ slot[t] \in Nat
          BY <1>1, <1>2, <1>3, <2>1 DEF TypeOK
        <4> QED
          BY <4>1, <2>2, QueueAssumption DEF Slot
      <3> QED
        BY <1>3, <1>5, <2>1, <3>1, <3>2, LocalMoves
    <2>3. CASE ~(slot[t] < Capacity)
      <3>1. pc' = [pc EXCEPT ![t] = AfterPost(t)]
        BY <1>9, <2>3 DEF CountSlot, Refuse
      <3> QED
        BY <1>3, <1>4, <1>5, <2>1, <3>1, LocalMoves
    <2> QED
      BY <2>2, <2>3
  <1>10. ASSUME NEW t \in Thread, Write(t) PROVE Local'
    <2>1. /\ pc[t] = "write" /\ pc' = [pc EXCEPT ![t] = "link"] /\ t \in Holders
          /\ data' = [data EXCEPT ![slot[t]] = arg[t]] /\ next' = [next EXCEPT ![slot[t]] = None]
          /\ UNCHANGED <<blocking, taken, arg, got, slot, group>>
      BY <1>10 DEF Write, Holders, At1
    <2>2. slot[t] \in Slot /\ slot[t] \in taken /\ arg[t] \in AnyJob
      BY <1>1, <2>1 DEF Local
    <2>3. \A u \in At1("link") \ {t} : slot[u] # slot[t] /\ slot[u] \in Slot
      BY <1>1, <2>1 DEF IInv, OneOwner, Holders, At1, Local
    <2>4. \A u \in At1("link") \ {t} : next'[slot[u]] = next[slot[u]] /\ data'[slot[u]] = data[slot[u]]
      BY <1>5, <2>1, <2>3
    <2>5. next'[slot'[t]] = None /\ data'[slot'[t]] = arg'[t]
      BY <1>5, <2>1, <2>2
    <2> QED
      <3>1. \A u \in Thread \ {t} :
               arg'[u] = arg[u] /\ got'[u] = got[u] /\ slot'[u] = slot[u] /\ group'[u] = group[u]
        BY <2>1
      <3>2. \A u \in Holders \ {t} : slot[u] \in taken'
        BY <1>3, <2>1
      <3>3. arg'[t] \in AnyJob /\ slot'[t] \in taken' /\ slot'[t] \in Slot
        BY <2>1, <2>2
      <3>4. IF t \in Client THEN "link" \in InPost \cup {"idle", "join", "over"}
                            ELSE "link" \notin {"idle", "join"}
        OBVIOUS
      <3>5. pc' = [pc EXCEPT ![t] = "link"] /\ UNCHANGED blocking
        BY <2>1
      <3>6. "link" = "link" => next'[slot'[t]] = None /\ data'[slot'[t]] = arg'[t]
        BY <2>5
      <3>7. "link" \in Holding => slot'[t] \in taken' /\ ("link" # "count" => slot'[t] \in Slot)
        BY <3>3
      <3> HIDE DEF Holding, InPost, At, list, locals, allocator, Goto
      <3> QED
        BY <2>4, <3>1, <3>2, <3>3, <3>4, <3>5, <3>6, <3>7, LocalMoves
  <1>11. ASSUME NEW t \in Thread, Link(t) PROVE Local'
    <2>1. /\ pc[t] = "link" /\ t \in Holders /\ arg[t] \in AnyJob
          /\ next' = [next EXCEPT ![tail] = slot[t]]
          /\ UNCHANGED <<blocking, taken, data, arg, got, slot, group>>
      BY <1>1, <1>11 DEF Link, Holders, At1, Local
    <2>2. tail \in Linked
      <3>1. Len(chain) \in DOMAIN chain /\ chain[Len(chain)] = tail
        BY <1>1 DEF IInv, ListInOrder, TypeOK
      <3> QED
        BY <3>1 DEF Linked
    <2>3. \A u \in At1("link") \ {t} : slot[u] # tail /\ slot[u] \in Slot
      BY <1>1, <2>2 DEF IInv, OneOwner, Holders, At1, Local
    <2>4. \A u \in At1("link") \ {t} : next'[slot[u]] = next[slot[u]]
      BY <1>5, <2>1, <2>3
    <2>5. CASE blocking
      <3>1. pc' = [pc EXCEPT ![t] = "signal"]
        BY <1>11, <2>5 DEF Link
      <3> QED
        BY <1>3, <1>5, <2>1, <2>4, <2>5, <3>1, LocalMoves
    <2>6. CASE ~blocking
      <3>1. pc' = [pc EXCEPT ![t] = AfterPost(t)]
        BY <1>11, <2>6 DEF Link
      <3> QED
        BY <1>3, <1>4, <1>5, <2>1, <2>4, <3>1, LocalMoves
    <2> QED
      BY <2>5, <2>6
  <1>12. ASSUME NEW t \in Thread, Signal(t) PROVE Local'
    <2>1. pc' = [pc EXCEPT ![t] = AfterPost(t)]
          /\ UNCHANGED <<blocking, taken, data, next, arg, got, slot, group>>
      BY <1>12 DEF Signal
    <2> QED
      BY <1>3, <1>4, <1>5, <2>1, LocalMoves
  <1>13. ASSUME NEW t \in Worker, Wait(t) PROVE Local'
    <2>1. pc' = [pc EXCEPT ![t] = "take"] /\ t \in Thread /\ t \notin Client
          /\ UNCHANGED <<blocking, taken, data, next, arg, got, slot, group>>
      BY <1>13, QueueAssumption DEF Wait, Thread
    <2>2. \A u \in Holders \ {t} : slot[u] \in taken'
      BY <1>3, <2>1
    <2> QED
      BY <2>1, <2>2, LocalMoves
  <1>14. ASSUME NEW t \in Worker, Take(t), TakeNothing(t) PROVE Local'
    <2>1. /\ t \in Thread /\ t \notin Client
          /\ UNCHANGED <<blocking, taken, data, next, arg, got, slot, group>>
      BY <1>14, QueueAssumption DEF Take, TakeNothing, Thread
    <2>2. PICK to \in {"over", "next"} : pc' = [pc EXCEPT ![t] = to]
      BY <1>14 DEF TakeNothing
    <2> QED
      BY <1>3, <1>5, <2>1, <2>2, LocalMoves
  <1>15. ASSUME NEW t \in Worker, Take(t), TakeJob(t) PROVE Local'
    <2>1. /\ t \in Thread /\ t \notin Client /\ pc[t] = "take"
          /\ pc' = [pc EXCEPT ![t] = "free"]
          /\ got' = [got EXCEPT ![t] = data[next[head]]] /\ slot' = [slot EXCEPT ![t] = head]
          /\ UNCHANGED <<blocking, taken, data, next, arg, group>>
      BY <1>15, QueueAssumption DEF Take, TakeJob, Thread
    <2>2. next[head] \in Slot /\ 1 \in DOMAIN chain /\ chain[1] = head /\ head \in Slot
      BY <1>1, <1>15, SecondSlot DEF TakeJob, IInv, ListInOrder, TypeOK
    <2>3. head \in taken
      <3>1. head \in Linked
        BY <2>2 DEF Linked
      <3> QED
        BY <2>2, <3>1 DEF IInv, NoSlotLost
    <2>4. got'[t] \in AnyJob /\ slot'[t] = head
      BY <1>5, <2>1, <2>2
    <2> QED
      BY <1>3, <1>5, <2>1, <2>2, <2>3, <2>4, LocalMoves
  <1>16. ASSUME NEW t \in Worker, FreeBit(t) PROVE Local'
    <2>1. t \in Thread /\ t \notin Client /\ pc[t] = "free" /\ t \in Holders
      BY <1>16, QueueAssumption DEF FreeBit, Thread, Holders, At1
    <2>2. /\ taken' = taken \ {slot[t]} /\ pc' = [pc EXCEPT ![t] = "uncount"]
          /\ UNCHANGED <<blocking, data, next, arg, got, slot, group>>
      BY <1>16, <2>1, CountPositive DEF FreeBit, At1
    <2>3. \A u \in Holders \ {t} : slot[u] \in taken'
      BY <1>3, <2>1, <2>2 DEF IInv, OneOwner
    <2>4. got[t] \in AnyJob
      BY <1>1, <2>1 DEF Local, At1
    <2> QED
      BY <1>3, <1>5, <2>1, <2>2, <2>3, <2>4, LocalMoves
  <1>17. ASSUME NEW t \in Worker, FreeCount(t) PROVE Local'
    <2>1. /\ t \in Thread /\ t \notin Client
          /\ UNCHANGED <<blocking, taken, data, next, got, slot>>
      BY <1>17, QueueAssumption DEF FreeCount, Thread
    <2>2. got[t] \in AnyJob
      <3>1. t \in At1("uncount")
        BY <1>17, <2>1 DEF FreeCount, At1
      <3> QED
        BY <1>1, <3>1 DEF Local
    <2>3. CASE got[t] = QUIT
      <3>1. /\ pc' = [pc EXCEPT ![t] = "claim"] /\ arg' = [arg EXCEPT ![t] = QUIT]
            /\ group' = [group EXCEPT ![t] = 0]
        BY <1>17, <2>3 DEF FreeCount, AfterFree, Call
      <3>2. group'[t] < GroupCount /\ arg'[t] \in AnyJob
        BY <1>2, <1>5, <2>1, <3>1 DEF AnyJob
      <3> QED
        BY <1>3, <1>5, <2>1, <3>1, <3>2, LocalMoves
    <2>4. CASE got[t] # QUIT
      <3>1. pc' = [pc EXCEPT ![t] = "process"] /\ UNCHANGED <<arg, group>>
        BY <1>17, <2>4 DEF FreeCount, AfterFree
      <3>2. got'[t] \in Job
        BY <2>1, <2>2, <2>4 DEF AnyJob
      <3>3. \A u \in Holders \ {t} : slot[u] \in taken'
        BY <1>3, <2>1
      <3> QED
        BY <2>1, <3>1, <3>2, <3>3, LocalMoves
    <2> QED
      BY <2>3, <2>4
  <1>18. ASSUME NEW t \in Worker, Process(t) PROVE Local'
    <2>1. /\ t \in Thread /\ t \notin Client
          /\ UNCHANGED <<blocking, taken, data, next, got, slot>>
      BY <1>18, QueueAssumption DEF Process, Thread
    <2>2. CASE Follow[got[t]] = NoJob
      <3>1. pc' = [pc EXCEPT ![t] = "next"] /\ UNCHANGED <<arg, group>>
        BY <1>18, <2>2 DEF Process
      <3>2. \A u \in Holders \ {t} : slot[u] \in taken'
        BY <1>3, <2>1
      <3> QED
        BY <2>1, <3>1, <3>2, LocalMoves
    <2>3. CASE Follow[got[t]] # NoJob
      <3>1. /\ pc' = [pc EXCEPT ![t] = "claim"] /\ arg' = [arg EXCEPT ![t] = Follow[got[t]]]
            /\ group' = [group EXCEPT ![t] = 0]
        BY <1>18, <2>3 DEF Process, Call
      <3>2. Follow[got[t]] \in AnyJob
        <4>1. t \in At1("process")
          BY <1>18, <2>1 DEF Process, At1
        <4>2. got[t] \in Job
          BY <1>1, <4>1 DEF Local
        <4> QED
          BY <2>3, <4>2, QueueAssumption DEF AnyJob
      <3>3. group'[t] < GroupCount /\ arg'[t] \in AnyJob
        BY <1>2, <1>5, <2>1, <3>1, <3>2
      <3> QED
        BY <1>3, <1>5, <2>1, <3>1, <3>3, LocalMoves
    <2> QED
      BY <2>2, <2>3
  <1>19. ASSUME NEW c \in Client, PostNext(c) PROVE Local'
    <2>1. /\ c \in Thread /\ UNCHANGED <<blocking, taken, data, next, got, slot>>
          /\ pc' = [pc EXCEPT ![c] = "claim"] /\ arg' = [arg EXCEPT ![c] = Head(script[c])]
          /\ group' = [group EXCEPT ![c] = 0]
      BY <1>19 DEF PostNext, Call, Thread
    <2>2. Head(script[c]) \in AnyJob
      BY <1>1, <1>19 DEF PostNext, TypeOK
    <2>3. group'[c] < GroupCount /\ arg'[c] \in AnyJob
      BY <1>2, <1>5, <2>1, <2>2
    <2> QED
      BY <1>3, <1>5, <2>1, <2>3, LocalMoves
  <1>20. ASSUME NEW c \in Client, Leave(c) \/ Join(c) PROVE Local'
    <2>1. c \in Thread /\ UNCHANGED <<blocking, taken, data, next, arg, got, slot, group>>
      BY <1>20 DEF Leave, Join, Thread
    <2>2. PICK to \in {"join", "over"} : pc' = [pc EXCEPT ![c] = to]
      BY <1>20 DEF Leave, Join
    <2> QED
      BY <1>3, <1>5, <2>1, <2>2, LocalMoves
  <1> QED
    BY <1>6, <1>7, <1>8, <1>9, <1>10, <1>11, <1>12, <1>13, <1>14, <1>15, <1>16, <1>17, <1>18,
       <1>19, <1>20 DEF Next, Post, NextJob, ClientStep, Take

---------------------------------------------------------------------------
(* The invariant *)

LEMMA SlotsStep ==
  ASSUME IInv, Next
  PROVE  Slots'
  <1> USE DEF At, Goto, Holding
  <1>1. ASSUME NEW t \in Thread, NextGroup(t) \/ Retry(t) \/ Signal(t)
        PROVE  Slots'
    <2>1. UNCHANGED <<taken, slot, list>> /\ pc[t] \notin Holding
      BY <1>1 DEF NextGroup, Retry, Signal, allocator, locals
    <2>2. \E to : to \notin Holding /\ pc' = [pc EXCEPT ![t] = to]
      BY <1>1 DEF NextGroup, Retry, Signal, Refuse, AfterPost
    <2> QED
      BY <2>1, <2>2, SlotsKept
  <1>2. ASSUME NEW t \in Thread, Wait(t) \/ FreeCount(t) \/ Process(t)
        PROVE  Slots'
    <2>1. UNCHANGED <<taken, slot, list>> /\ pc[t] \notin Holding
      BY <1>2 DEF Wait, FreeCount, Process, allocator, locals
    <2>2. \E to : to \notin Holding /\ pc' = [pc EXCEPT ![t] = to]
      BY <1>2 DEF Wait, FreeCount, Process, AfterFree, Call
    <2> QED
      BY <2>1, <2>2, SlotsKept
  <1>3. ASSUME NEW t \in Thread, Take(t), TakeNothing(t)
        PROVE  Slots'
    <2>1. UNCHANGED <<taken, slot, list>> /\ pc[t] \notin Holding
      BY <1>3 DEF Take, TakeNothing, allocator
    <2>2. PICK to \in {"over", "next"} : pc' = [pc EXCEPT ![t] = to]
      BY <1>3 DEF TakeNothing
    <2> QED
      BY <2>1, <2>2, SlotsKept
  <1>4. ASSUME NEW t \in Thread, ClientStep(t)
        PROVE  Slots'
    <2>1. UNCHANGED <<taken, slot, list>> /\ pc[t] \notin Holding
      BY <1>4 DEF ClientStep, PostNext, Leave, Join, allocator, locals
    <2>2. \E to : to \notin Holding /\ pc' = [pc EXCEPT ![t] = to]
      BY <1>4 DEF ClientStep, PostNext, Leave, Join, Call
    <2> QED
      BY <2>1, <2>2, SlotsKept
  <1> QED
    BY <1>1, <1>2, <1>3, <1>4, ClaimBitSlots, CountSlotSlots, WriteSlots, LinkSlots,
       TakeJobSlots, FreeBitSlots DEF Next, Post, NextJob, Take, Thread

LEMMA InitInv == Init => IInv
  <1> SUFFICES ASSUME Init PROVE IInv
    OBVIOUS
  <1> USE QueueAssumption DEF Init, At, AnyJob
  <1>1. 0 \in Slot /\ 0 \in Bit /\ GroupCount \in Nat
    BY BitFacts DEF Slot
  <1>2. chain = <<0>> /\ DOMAIN chain = {1} /\ Len(chain) = 1
    OBVIOUS
  <1>3. /\ At1("count") = {} /\ At1("uncount") = {} /\ At1("signal") = {} /\ At1("take") = {}
        /\ At1("claim") = {} /\ At1("write") = {} /\ At1("link") = {} /\ At1("free") = {}
        /\ At1("process") = {}
    BY DEF At1, Thread
  <1>4. IsFiniteSet(taken) /\ Cardinality(taken) = 1
    BY FS_Singleton
  <1>5. TypeOK
    <2>1. chain \in Seq(Slot)
      BY <1>1, <1>2
    <2>2. pc \in [Thread -> Steps]
      BY DEF Steps, Thread
    <2>3. script \in [Client -> Seq(AnyJob)]
      OBVIOUS
    <2>4. next \in [Slot -> Slot \cup {None}] /\ data \in [Slot -> AnyJob]
      BY <1>1
    <2> QED
      BY <1>1, <1>4, <2>1, <2>2, <2>3, <2>4 DEF TypeOK, None
  <1>6. Local
    <2>1. Holders = {}
      BY <1>3 DEF Holders
    <2>2. \A c \in Client : pc[c] = "idle"
      BY DEF Thread
    <2>3. \A w \in Worker : pc[w] = "next"
      BY DEF Thread
    <2>4. \A t \in Thread : pc[t] \notin InPost
      BY DEF InPost
    <2> QED
      BY <1>3, <2>1, <2>2, <2>3, <2>4 DEF Local
  <1>7. Linked = {0} /\ Holders = {}
    BY <1>2, <1>3 DEF Linked, Holders
  <1>8. OneOwner
    BY <1>2, <1>7 DEF OneOwner
  <1>9. NoSlotLost
    BY <1>7 DEF NoSlotLost
  <1>10. ListInOrder
    BY <1>1, <1>2 DEF ListInOrder
  <1>11. CountsBits
    BY <1>3, <1>4, FS_EmptySet DEF CountsBits
  <1>12. CountsJobs
    <2>1. Cardinality(At1("signal")) = 0 /\ Cardinality(At1("take")) = 0
      BY <1>3, FS_EmptySet
    <2>2. Len(chain) - 1 = 0 /\ sem = 0
      BY <1>2
    <2> QED
      BY <2>1, <2>2 DEF CountsJobs
  <1> QED
    BY <1>5, <1>6, <1>8, <1>9, <1>10, <1>11, <1>12 DEF IInv

LEMMA StepInv == IInv /\ [Next]_vars => IInv'
  <1> SUFFICES ASSUME IInv, [Next]_vars PROVE IInv'
    OBVIOUS
  <1>1. CASE Next
    <2>1. TypeOK' /\ Local' /\ Slots' /\ CountsBits' /\ CountsJobs'
      BY <1>1, TypeStep, LocalStep, SlotsStep, CountSteps, JobSteps
    <2> QED
      BY <2>1 DEF IInv, Slots
  <1>2. CASE UNCHANGED vars
    BY <1>2 DEF vars, allocator, list, locals, IInv, TypeOK, Local, OneOwner, NoSlotLost, ListInOrder,
       CountsBits, CountsJobs, Linked, Holders, At1, At
  <1> QED
    BY <1>1, <1>2

\* The invariant of the queue, whatever the constants
THEOREM QueueInvariant == Spec => []IInv
  BY InitInv, StepInv, PTL DEF Spec

\* Every variable keeps its type; in particular the counter is never negative
\* and no thread writes or frees outside the queue's slots.
THEOREM QueueTypes == Spec => []TypeOK
  <1>1. IInv => TypeOK
    BY DEF IInv
  <1> QED
    BY <1>1, QueueInvariant, PTL

\* A slot is in the list or held by one thread, never both, and post and
\* next lose none, whether they succeed or are refused.
THEOREM SlotsHaveOneOwner == Spec => []SlotsAccounted
  <1>1. IInv => SlotsAccounted
    BY DEF IInv, SlotsAccounted
  <1> QED
    BY <1>1, QueueInvariant, PTL

\* The counter follows the bits, and free always finds it positive.
THEOREM CounterIsExact == Spec => []CountExact
  <1>1. IInv => CountExact
    BY CountPositive DEF IInv, CountExact
  <1> QED
    BY <1>1, QueueInvariant, PTL

\* head, links and tail make one list.
THEOREM ListIsWhole == Spec => []ListInOrder
  <1>1. IInv => ListInOrder
    BY DEF IInv
  <1> QED
    BY <1>1, QueueInvariant, PTL

\* The semaphore counts the jobs, and a thread it wakes finds one.
THEOREM SemaphoreIsExact == Spec => []SemaphoreExact
  <1>1. IInv => SemaphoreExact
    BY TakerFinds DEF IInv, SemaphoreExact
  <1> QED
    BY <1>1, QueueInvariant, PTL

---------------------------------------------------------------------------
(* The queue is first in, first out *)

Waiting == [i \in 1 .. Len(chain) - 1 |-> data[chain[i + 1]]]
HeldBy == [w \in Worker |-> IF pc[w] \in {"free", "uncount", "process"} THEN got[w] ELSE NoJob]
Busy == {"free", "uncount", "process"}

\* Nothing of the list that the jobs are read from changes
LEMMA WaitingKept ==
  ASSUME UNCHANGED chain, \A s \in Linked : data'[s] = data[s], chain \in Seq(Slot)
  PROVE  Waiting' = Waiting
  <1>1. Len(chain) \in Nat /\ DOMAIN chain = 1 .. Len(chain)
    OBVIOUS
  <1>2. \A i \in 1 .. Len(chain) - 1 : chain[i + 1] \in Linked
    BY <1>1 DEF Linked
  <1> QED
    BY <1>2 DEF Waiting

\* A thread that is idle for the queue before and after a step
LEMMA HeldKept ==
  ASSUME IInv, NEW t \in Thread, NEW to, pc' = [pc EXCEPT ![t] = to],
         pc[t] \notin Busy, to \notin Busy, UNCHANGED got
  PROVE  HeldBy' = HeldBy
  <1>1. pc \in [Thread -> Steps]
    BY DEF IInv, TypeOK
  <1>2. \A w \in Worker : pc'[w] \in Busy <=> pc[w] \in Busy
    BY <1>1 DEF Thread
  <1> QED
    BY <1>2 DEF HeldBy, Busy

\* The waiting jobs, as a sequence
LEMMA WaitingSeq ==
  ASSUME IInv
  PROVE  Waiting \in Seq(AnyJob) /\ Len(Waiting) = Len(chain) - 1
  <1> DEFINE n == Len(chain) - 1
  <1>1. chain \in Seq(Slot) /\ chain # <<>> /\ data \in [Slot -> AnyJob]
    BY DEF IInv, TypeOK, ListInOrder
  <1>2. n \in Nat /\ \A i \in 1 .. n : chain[i + 1] \in Slot
    BY <1>1
  <1>3. Waiting \in [1 .. n -> AnyJob]
    BY <1>1, <1>2 DEF Waiting
  <1> HIDE DEF n
  <1>4. Waiting \in Seq(AnyJob) /\ Len(Waiting) = n
    BY <1>2, <1>3
  <1> QED
    BY <1>4 DEF n

LEMMA LinkPuts ==
  ASSUME IInv, NEW t \in Thread, Link(t)
  PROVE  Waiting' = Append(Waiting, arg[t]) /\ HeldBy' = HeldBy /\ arg[t] \in AnyJob
  <1> USE DEF At, Goto
  <1>1. chain \in Seq(Slot) /\ chain # <<>> /\ pc[t] = "link" /\ t \in At1("link")
    BY DEF IInv, TypeOK, ListInOrder, Link, At1
  <1>2. data[slot[t]] = arg[t] /\ arg[t] \in AnyJob /\ slot[t] \in Slot
    BY <1>1 DEF IInv, Local, InPost, Holders
  <1>3. chain' = Append(chain, slot[t]) /\ data' = data /\ got' = got
    BY DEF Link, locals
  <1>4. /\ Len(chain) \in Nat \ {0} /\ Len(chain') = Len(chain) + 1
        /\ \A i \in 1 .. Len(chain) : chain'[i] = chain[i]
        /\ chain'[Len(chain) + 1] = slot[t]
    BY <1>1, <1>2, <1>3
  <1>5. Waiting' = Append(Waiting, arg[t])
    <2> DEFINE n == Len(chain) - 1
    <2>1. n \in Nat /\ Waiting = [i \in 1 .. n |-> data[chain[i + 1]]]
      BY <1>4 DEF Waiting
    <2>2. Waiting' = [i \in 1 .. n + 1 |-> data[chain'[i + 1]]]
      BY <1>3, <1>4 DEF Waiting
    <2>3. Append(Waiting, arg[t]) = [i \in 1 .. n + 1 |-> IF i \in 1 .. n THEN data[chain[i + 1]] ELSE arg[t]]
      <3>1. Waiting \in Seq(AnyJob) /\ Len(Waiting) = n
        BY WaitingSeq
      <3> HIDE DEF n
      <3> QED
        BY <3>1, <2>1
    <2>4. \A i \in 1 .. n + 1 :
             data[chain'[i + 1]] = IF i \in 1 .. n THEN data[chain[i + 1]] ELSE arg[t]
      BY <1>2, <1>4
    <2> HIDE DEF n
    <2> QED
      BY <2>2, <2>3, <2>4
  <1>6. HeldBy' = HeldBy
    <2>1. \E to : to \notin Busy /\ pc' = [pc EXCEPT ![t] = to]
      BY DEF Link, AfterPost, Busy
    <2> QED
      BY <1>1, <1>3, <2>1, HeldKept DEF Busy
  <1> QED
    BY <1>2, <1>5, <1>6

LEMMA TakeJobGets ==
  ASSUME IInv, NEW w \in Worker, Take(w), TakeJob(w)
  PROVE  Fifo!Get(w)
  <1> USE DEF At, Goto
  <1>1. /\ chain \in Seq(Slot) /\ Len(chain) >= 2 /\ next[head] = chain[2] /\ w \in Thread
        /\ pc[w] = "take" /\ pc' = [pc EXCEPT ![w] = "free"]
        /\ got' = [got EXCEPT ![w] = data[next[head]]]
        /\ chain' = Tail(chain) /\ data' = data
    BY SecondSlot DEF Take, TakeJob, IInv, TypeOK, Thread
  <1>2. pc \in [Thread -> Steps] /\ got \in [Thread -> AnyJob \cup {NoJob}]
    BY DEF IInv, TypeOK
  <1> DEFINE n == Len(chain) - 1
  <1>3. n \in Nat \ {0} /\ Waiting = [i \in 1 .. n |-> data[chain[i + 1]]]
    BY <1>1 DEF Waiting
  <1>4. Waiting \in Seq(AnyJob) /\ Len(Waiting) = n
    BY WaitingSeq
  <1>5. Len(chain') = n /\ \A i \in 1 .. n : chain'[i] = chain[i + 1]
    BY <1>1
  <1>6. Waiting' = [i \in 1 .. n - 1 |-> data[chain'[i + 1]]]
    BY <1>1, <1>5 DEF Waiting
  <1>7. \A i \in 1 .. n - 1 : data[chain'[i + 1]] = data[chain[i + 2]]
    BY <1>3, <1>5
  <1>8. Waiting # <<>> /\ Head(Waiting) = data[chain[2]]
    <2>1. 1 \in 1 .. n /\ 1 + 1 = 2
      <3>1. n \in Nat \ {0}
        BY <1>1
      <3> HIDE DEF n
      <3> QED
        BY <3>1
    <2>2. Waiting[1] = data[chain[2]]
      BY <1>3, <2>1
    <2>3. Waiting # <<>> /\ Head(Waiting) = Waiting[1]
      BY <1>3, <1>4
    <2> QED
      BY <2>2, <2>3
  <1>9. Waiting' = Tail(Waiting)
    <2>1. Tail(Waiting) = [i \in 1 .. n - 1 |-> Waiting[i + 1]]
      BY <1>3, <1>4
    <2>2. \A i \in 1 .. n - 1 : Waiting[i + 1] = data[chain[i + 2]]
      BY <1>3
    <2> HIDE DEF n
    <2> QED
      BY <1>6, <1>7, <2>1, <2>2
  <1>10. HeldBy[w] = NoJob
    BY <1>1 DEF HeldBy
  <1>11. HeldBy' = [HeldBy EXCEPT ![w] = Head(Waiting)]
    <2>1. \A v \in Worker \ {w} : HeldBy'[v] = HeldBy[v]
      BY <1>1, <1>2 DEF HeldBy, Thread
    <2>2. HeldBy'[w] = data[chain[2]]
      BY <1>1, <1>2 DEF HeldBy
    <2>3. HeldBy' = [v \in Worker |-> HeldBy'[v]] /\ HeldBy = [v \in Worker |-> HeldBy[v]]
      BY DEF HeldBy
    <2> HIDE DEF n
    <2> QED
      BY <1>8, <2>1, <2>2, <2>3
  <1> QED
    BY <1>8, <1>9, <1>10, <1>11 DEF Fifo!Get, Waiting, HeldBy

\* A thread that has done its job and asks for the next, or posts
LEMMA ProcessDone ==
  ASSUME IInv, NEW w \in Worker, Process(w)
  PROVE  Fifo!Done(w)
  <1> USE DEF At, Goto
  <1>1. pc \in [Thread -> Steps] /\ pc[w] = "process" /\ w \in Thread /\ got' = got
    BY DEF Process, IInv, TypeOK, Thread
  <1>2. \E to : to \notin Busy /\ pc' = [pc EXCEPT ![w] = to]
    BY DEF Process, Call, Busy
  <1>3. HeldBy[w] # NoJob
    <2>1. got[w] \in Job
      BY <1>1 DEF IInv, Local, At1
    <2> QED
      BY <1>1, <2>1, QueueAssumption DEF HeldBy
  <1>4. HeldBy' = [HeldBy EXCEPT ![w] = NoJob]
    <2>1. HeldBy'[w] = NoJob /\ \A v \in Worker \ {w} : HeldBy'[v] = HeldBy[v]
      BY <1>1, <1>2 DEF HeldBy, Busy, Thread
    <2>2. HeldBy' = [v \in Worker |-> HeldBy'[v]] /\ HeldBy = [v \in Worker |-> HeldBy[v]]
      BY DEF HeldBy
    <2> QED
      BY <2>1, <2>2
  <1>5. Waiting' = Waiting
    BY WaitingKept DEF Process, list, IInv, TypeOK
  <1> QED
    BY <1>3, <1>4, <1>5 DEF Fifo!Done, Waiting, HeldBy

\* A thread that has freed the slot, and then holds a job or puts QUIT back
LEMMA FreeCountDone ==
  ASSUME IInv, NEW w \in Worker, FreeCount(w)
  PROVE  Fifo!Done(w) \/ (Waiting' = Waiting /\ HeldBy' = HeldBy)
  <1> USE DEF At, Goto
  <1>1. pc \in [Thread -> Steps] /\ pc[w] = "uncount" /\ w \in Thread /\ got' = got
    BY DEF FreeCount, IInv, TypeOK, Thread
  <1>2. Waiting' = Waiting
    BY WaitingKept DEF FreeCount, list, IInv, TypeOK
  <1>3. CASE got[w] = QUIT
    <2>1. pc' = [pc EXCEPT ![w] = "claim"]
      BY <1>3 DEF FreeCount, AfterFree, Call
    <2>2. HeldBy[w] # NoJob
      BY <1>1, <1>3, QueueAssumption DEF HeldBy
    <2>3. HeldBy' = [HeldBy EXCEPT ![w] = NoJob]
      <3>1. HeldBy'[w] = NoJob /\ \A v \in Worker \ {w} : HeldBy'[v] = HeldBy[v]
        BY <1>1, <2>1 DEF HeldBy, Thread
      <3>2. HeldBy' = [v \in Worker |-> HeldBy'[v]] /\ HeldBy = [v \in Worker |-> HeldBy[v]]
        BY DEF HeldBy
      <3> QED
        BY <3>1, <3>2
    <2> QED
      BY <1>2, <2>2, <2>3 DEF Fifo!Done, Waiting, HeldBy
  <1>4. CASE got[w] # QUIT
    <2>1. pc' = [pc EXCEPT ![w] = "process"]
      BY <1>4 DEF FreeCount, AfterFree
    <2>2. HeldBy' = HeldBy
      BY <1>1, <2>1 DEF HeldBy, Thread
    <2> QED
      BY <1>2, <2>2
  <1> QED
    BY <1>3, <1>4

\* The other steps change nothing of the queue that a user can see
LEMMA OthersStutter ==
  ASSUME IInv, NEW t \in Thread,
         \/ ClaimBit(t) \/ NextGroup(t) \/ Retry(t) \/ CountSlot(t) \/ Write(t) \/ Signal(t)
         \/ Wait(t) \/ (Take(t) /\ TakeNothing(t)) \/ FreeBit(t)
         \/ ClientStep(t)
  PROVE  Waiting' = Waiting /\ HeldBy' = HeldBy
  <1> USE DEF At, Goto, Busy
  <1>0. pc \in [Thread -> Steps] /\ chain \in Seq(Slot) /\ data \in [Slot -> AnyJob]
    BY DEF IInv, TypeOK
  <1>1. CASE ClaimBit(t) \/ NextGroup(t) \/ Retry(t) \/ CountSlot(t) \/ Signal(t)
    <2>1. UNCHANGED <<chain, data, got>> /\ pc[t] \notin Busy
      BY <1>1 DEF ClaimBit, NextGroup, Retry, CountSlot, Signal, list, locals
    <2>2. \E to : to \notin Busy /\ pc' = [pc EXCEPT ![t] = to]
      BY <1>1 DEF ClaimBit, NextGroup, Retry, CountSlot, Signal, Refuse, AfterPost
    <2> QED
      BY <1>0, <2>1, <2>2, WaitingKept, HeldKept
  <1>2. CASE Write(t)
    <2>1. UNCHANGED <<chain, got>> /\ pc[t] = "write" /\ pc' = [pc EXCEPT ![t] = "link"]
      BY <1>2 DEF Write, locals
    <2>2. \A s \in Linked : data'[s] = data[s]
      <3>1. slot[t] \notin Linked
        BY <2>1 DEF IInv, OneOwner, Holders, At1
      <3>2. \A s \in Linked : s \in Slot
        BY <1>0 DEF Linked
      <3> QED
        BY <1>0, <1>2, <3>1, <3>2 DEF Write
    <2> QED
      BY <1>0, <2>1, <2>2, WaitingKept, HeldKept
  <1>3. CASE Wait(t)
    <2>1. UNCHANGED <<chain, data, got>> /\ pc[t] = "next" /\ pc' = [pc EXCEPT ![t] = "take"]
      BY <1>3 DEF Wait, list, locals
    <2> QED
      BY <1>0, <2>1, WaitingKept, HeldKept
  <1>4. CASE Take(t) /\ TakeNothing(t)
    <2>1. UNCHANGED <<chain, data, got>> /\ pc[t] = "take"
      BY <1>4 DEF Take, TakeNothing, list
    <2>2. PICK to \in {"over", "next"} : pc' = [pc EXCEPT ![t] = to]
      BY <1>4 DEF TakeNothing
    <2> QED
      BY <1>0, <2>1, <2>2, WaitingKept, HeldKept
  <1>5. CASE FreeBit(t)
    <2>1. UNCHANGED <<chain, data, got>> /\ pc[t] = "free" /\ pc' = [pc EXCEPT ![t] = "uncount"]
      BY <1>5, CountPositive DEF FreeBit, list, At1
    <2>2. HeldBy' = HeldBy
      BY <1>0, <2>1 DEF HeldBy, Thread
    <2> QED
      BY <1>0, <2>1, <2>2, WaitingKept
  <1>6. CASE ClientStep(t)
    <2>1. UNCHANGED <<chain, data, got>> /\ pc[t] \notin Busy
      BY <1>6 DEF ClientStep, PostNext, Leave, Join, list, locals
    <2>2. \E to : to \notin Busy /\ pc' = [pc EXCEPT ![t] = to]
      BY <1>6 DEF ClientStep, PostNext, Leave, Join, Call
    <2> QED
      BY <1>0, <2>1, <2>2, WaitingKept, HeldKept
  <1> QED
    BY <1>1, <1>2, <1>3, <1>4, <1>5, <1>6

\* Jobs are handed out once each, as posted and in the order of acceptance,
\* to any number of takers and for any capacity.
THEOREM QueueIsFifo == Spec => ImplementsFifo
  <1>1. Init => Fifo!Init
    <2> SUFFICES ASSUME Init PROVE Fifo!Init
      OBVIOUS
    <2>1. Len(chain) - 1 = 0
      BY DEF Init
    <2>2. Waiting = <<>>
      <3>1. Waiting \in Seq(AnyJob) /\ Len(Waiting) = 0
        BY <2>1, InitInv, WaitingSeq
      <3> HIDE DEF Waiting
      <3> QED
        BY <3>1
    <2>3. HeldBy = [w \in Worker |-> NoJob]
      <3>1. \A w \in Worker : pc[w] = "next"
        BY QueueAssumption DEF Init, Thread
      <3> QED
        BY <3>1 DEF HeldBy
    <2> QED
      BY <2>2, <2>3 DEF Fifo!Init, Waiting, HeldBy
  <1>2. IInv /\ [Next]_vars => [Fifo!Next]_<<Waiting, HeldBy>>
    <2> SUFFICES ASSUME IInv, [Next]_vars
                 PROVE  Fifo!Next \/ (Waiting' = Waiting /\ HeldBy' = HeldBy)
      OBVIOUS
    <2>1. ASSUME NEW t \in Thread, Link(t) PROVE Fifo!Next
      BY <2>1, LinkPuts DEF Fifo!Next, Fifo!Put, Waiting, HeldBy
    <2>2. ASSUME NEW w \in Worker, Take(w), TakeJob(w) PROVE Fifo!Next
      BY <2>2, TakeJobGets DEF Fifo!Next
    <2>3. ASSUME NEW w \in Worker, Process(w) PROVE Fifo!Next
      BY <2>3, ProcessDone DEF Fifo!Next
    <2>4. ASSUME NEW w \in Worker, FreeCount(w)
          PROVE  Fifo!Next \/ (Waiting' = Waiting /\ HeldBy' = HeldBy)
      BY <2>4, FreeCountDone DEF Fifo!Next
    <2>5. CASE UNCHANGED vars
      BY <2>5 DEF vars, list, locals, Waiting, HeldBy
    <2> QED
      BY <2>1, <2>2, <2>3, <2>4, <2>5, OthersStutter DEF Next, Post, NextJob, Take, Thread
  <1> QED
    BY <1>1, <1>2, QueueInvariant, PTL
       DEF Spec, ImplementsFifo, Fifo!Spec, Fifo!vars, Waiting, HeldBy
===========================================================================
