------------------------ MODULE RpSuperSpan_proofs ------------------------
(***************************************************************************)
(* First, _memory_global_lock does its work: with the main thread taking   *)
(* it like any other (Main = None), one thread at a time maps a region or  *)
(* makes a heap, for any number of heaps, regions and spans.               *)
(*                                                                         *)
(* Then the spans: each is in one place and lies apart from all others, in *)
(* a region whose count of remaining spans is exact.  The invariant is     *)
(* SpanInv, with Regular for the books of the regions, and Masters for the *)
(* master spans the global cache keeps.  Steps of the two kinds below keep *)
(* it: those that hand spans from place to place (Hands, Handed), among    *)
(* them parts cut off a span or off a new region, and those that unmap one *)
(* (Unbooked, GoneBooks).                                                  *)
(***************************************************************************)
EXTENDS RpSuperSpan, FiniteSetTheorems, FunctionTheorems, TLAPS

\* Nobody but the thread in Mapping has the lock
LockInv ==
  /\ pc \in [Heap -> {"absent", "creating", "idle", "mapping", "leaving",
                      "orphan", "closing"}]
  /\ GlobalLockHeld
  /\ OneMapper

USE DEF GlobalLockHeld, OneMapper, Mapping, UseGlobalReserve, PageSpans, MapCount,
        ReserveCount

\* Steps of a thread inside its own heap or caches, and those of
\* rpmalloc_finalize that come after the first
LEMMA Keeps ==
  ASSUME LockInv, UNCHANGED <<pc, lock, config>>
  PROVE  LockInv'
  BY DEF LockInv

\* A thread gets the lock, so nobody had it, or goes on without it
LEMMA Enters ==
  ASSUME LockInv, NEW h \in Heap, UNCHANGED config,
         \/ pc' = [pc EXCEPT ![h] = "creating"] /\ lock = 0 /\ lock' = 1
         \/ /\ pc' = [pc EXCEPT ![h] = "mapping"]
            /\ IF UseGlobalReserve THEN lock = 0 /\ lock' = 1
                                   ELSE UNCHANGED lock
  PROVE  LockInv'
  <1>1. CASE pc' = [pc EXCEPT ![h] = "creating"] /\ lock = 0 /\ lock' = 1
    BY <1>1 DEF LockInv
  <1>2. CASE /\ pc' = [pc EXCEPT ![h] = "mapping"]
             /\ UseGlobalReserve /\ lock = 0 /\ lock' = 1
    BY <1>2 DEF LockInv
  <1>3. CASE /\ pc' = [pc EXCEPT ![h] = "mapping"]
             /\ ~UseGlobalReserve /\ UNCHANGED lock
    BY <1>3 DEF LockInv
  <1> QED
    BY <1>1, <1>2, <1>3

\* A thread gives the lock back: it had it, or nobody has
LEMMA Leaves ==
  ASSUME LockInv, NEW h \in Heap, NEW label \in {"absent", "idle", "orphan"},
         pc' = [pc EXCEPT ![h] = label], UNCHANGED config,
         lock' = 0 => h \in Mapping \/ lock = 0,
         lock' \in {0, lock}
  PROVE  LockInv'
  <1>1. \A g \in Heap : g # h => pc'[g] = pc[g]
    BY DEF LockInv
  <1>2. pc'[h] = label
    BY DEF LockInv
  <1>3. Mapping' \subseteq Mapping /\ h \notin Mapping'
    BY <1>1, <1>2 
  <1>4. Mapping' # {} => lock' = 1
    <2> SUFFICES ASSUME Mapping' # {} PROVE lock' = 1
      OBVIOUS
    <2>1. PICK g \in Mapping' : TRUE
      OBVIOUS
    <2>2. g \in Mapping /\ g # h
      BY <2>1, <1>3
    <2>3. lock = 1
      BY <2>2 DEF LockInv
    <2>4. h \notin Mapping
      BY <2>2 DEF LockInv
    <2> QED
      BY <2>3, <2>4
  <1>5. \A g, k \in Mapping' : g = k
    BY <1>3 DEF LockInv
  <1>6. pc' \in [Heap -> {"absent", "creating", "idle", "mapping", "leaving",
                          "orphan", "closing"}]
    BY DEF LockInv
  <1> QED
    BY <1>4, <1>5, <1>6 DEF LockInv

\* A thread moves on without touching the lock, to where it needs none
LEMMA Moves ==
  ASSUME LockInv, NEW h \in Heap, NEW label \in {"idle", "leaving", "closing"},
         pc' = [pc EXCEPT ![h] = label], UNCHANGED <<lock, config>>
  PROVE  LockInv'
  <1>1. Mapping' \subseteq Mapping
    BY DEF LockInv
  <1> QED
    BY <1>1 DEF LockInv

LEMMA LockStep ==
  ASSUME Main = None, LockInv, [Next]_vars
  PROVE  LockInv'
  <1> USE SuperSpanParams
  <1>0. UNCHANGED config
    BY DEF Next, vars
  <1>1. ASSUME NEW h \in Heap, Run(h) PROVE LockInv'
    <2>1. CASE HeapBegin(h)
      BY <2>1, Enters, <1>0 DEF HeapBegin
    <2>2. CASE HeapCreate(h)
      <3>1. h \in Mapping
        BY <2>2 DEF HeapCreate
      <3> QED
        BY <2>2, <3>1, Leaves, <1>0 DEF HeapCreate
    <2>3. CASE HeapFails(h)
      <3>1. h \in Mapping
        BY <2>3 DEF HeapFails
      <3> QED
        BY <2>3, <3>1, Leaves, <1>0 DEF HeapFails
    <2>4. CASE HeapAdopt(h)
      BY <2>4, Moves, <1>0 DEF HeapAdopt
    <2>5. ASSUME NEW n \in 1..LargeMax, Allocate(h, n) PROVE LockInv'
      <3>1. CASE MapBegin(h, n)
        BY <3>1, Enters, <1>0 DEF MapBegin
      <3>2. CASE TakeCached(h, n) \/ TakeGlobal(h, n) \/ TakeReserved(h, n)
        BY <3>2, Keeps, <1>0 DEF TakeCached, TakeGlobal, TakeReserved, controlVars
      <3> QED
        BY <2>5, <3>1, <3>2 DEF Allocate
    <2>6. CASE MapEnd(h)
      <3>1. pc[h] = "mapping" /\ pc' = [pc EXCEPT ![h] = "idle"]
        BY <2>6 DEF MapEnd
      <3>2. CASE UseGlobalReserve /\ lock' = 0
        <4>1. h \in Mapping
          BY <3>1, <3>2
        <4> QED
          BY <3>1, <3>2, <4>1, Leaves, <1>0
      <3>3. CASE ~UseGlobalReserve /\ UNCHANGED lock
        BY <3>1, <3>3, Moves, <1>0
      <3> QED
        BY <2>6, <3>2, <3>3 DEF MapEnd
    <2>7. CASE Free(h) \/ SpillOne(h) \/ KeepOne(h)
      BY <2>7, Keeps, <1>0 DEF Free, SpillOne, KeepOne, controlVars
    <2>8. CASE HeapLeave(h)
      BY <2>8, Moves, <1>0 DEF HeapLeave
    <2>9. CASE HeapOrphan(h)
      <3>1. h # Main
        BY <1>1
      <3> QED
        BY <2>9, <3>1, Leaves, <1>0 DEF HeapOrphan
    <2> QED
      BY <1>1, <2>1, <2>2, <2>3, <2>4, <2>5, <2>6, <2>7, <2>8, <2>9 DEF Run
  <1>2. ASSUME NEW h \in Heap, FreeLate(h) PROVE LockInv'
    <2>1. CASE UNCHANGED pc
      BY <1>2, <2>1, Keeps, <1>0 DEF FreeLate
    <2>2. CASE pc' = [pc EXCEPT ![h] = "closing"]
      BY <1>2, <2>2, Moves, <1>0 DEF FreeLate
    <2> QED
      BY <1>2, <2>1, <2>2 DEF FreeLate
  <1>3. ASSUME NEW h \in Heap, CloseHeap(h) PROVE LockInv'
    BY <1>3, Moves, <1>0 DEF CloseHeap
  <1>4. CASE FinalizeReserve
    <2>1. pc' = pc /\ \A h \in Heap : pc[h] \in {"idle", "absent", "orphan"}
      BY <1>4 DEF FinalizeReserve, Ready
    <2>2. Mapping' = {}
      BY <2>1
    <2> QED
      BY <2>1, <2>2 DEF LockInv
  <1>5. CASE FinalizeCaches \/ FinalizeCached \/ FinalizeEnd
    BY <1>5, Keeps, <1>0 DEF FinalizeCaches, FinalizeCached, FinalizeEnd, controlVars
  <1>6. ASSUME NEW h \in Heap, FinalizeReserved(h) \/ FinalizeThreadCache(h) \/ FinalizeHeap(h)
        PROVE  LockInv'
    BY <1>6, Keeps, <1>0 DEF FinalizeReserved, FinalizeThreadCache, FinalizeHeap, controlVars
  <1>7. CASE UNCHANGED vars
    BY <1>7, Keeps, <1>0 DEF vars, controlVars
  <1> QED
    BY <1>1, <1>2, <1>3, <1>4, <1>5, <1>6, <1>7 DEF Next, Finalize

\* While every thread waits for the global lock before it orphans its heap, a
\* thread that maps or makes a heap is alone in doing so and has the lock.
\* (The main thread does not wait: _rpmalloc_heap_release)
THEOREM MapperAlone ==
  ASSUME Main = None
  PROVE  Spec => [](GlobalLockHeld /\ OneMapper)
  <1>1. Init => LockInv
    BY DEF Init, LockInv
  <1>2. LockInv /\ [Next]_vars => LockInv'
    BY LockStep
  <1>3. LockInv => GlobalLockHeld /\ OneMapper
    BY DEF LockInv
  <1> QED
    BY <1>1, <1>2, <1>3, PTL DEF Spec
---------------------------------------------------------------------------
(* The books of the regions: spans S, and what T and R say of each region *)

HIDE DEF GlobalLockHeld, OneMapper, Mapping, UseGlobalReserve, PageSpans, MapCount, ReserveCount

UnitsOf(S, r) == {u \in UNION {Units(s) : s \in S} : u[1] = r}

\* A page is no larger than the heaps' spans and one reserve.  If it is, what is
\* left of a region made for heaps replaces a global reserve too small for them
NoLoss == HeapSpans = 1 \/ \A c \in Configs : c.page <= HeapSpans + c.reserve

\* Spans share no memory, lie in regions that are mapped, and R counts them,
\* and with them what was lost
Regular(S, T, R) ==
  /\ S \subseteq SpanRec
  /\ T \in [Region -> Nat] /\ R \in [Region -> Nat]
  /\ \A s \in S : s.master = s.region /\ s.first + s.count <= T[s.region]
  /\ \A s, t \in S : s # t => Units(s) \cap Units(t) = {}
  /\ \A r \in Region : /\ R[r] >= Cardinality(UnitsOf(S, r))
                       /\ NoLoss => R[r] = Cardinality(UnitsOf(S, r))

\* Regions that are mapped have their master, or at least a span
MastersIn(S, T) == \A r \in Region : T[r] # 0 => \E s \in S : s.region = r /\ IsMaster(s)
NoneLeft(T, R) == \A r \in Region : R[r] = 0 => T[r] = 0

\* What becomes of span s when its first n spans are cut off
Cut(s, n) == {Front(s, n), After(s, n)} \ {None}

LEMMA SpanParts ==
  ASSUME NEW s \in SpanRec
  PROVE  /\ s.region \in Region /\ s.first \in Nat /\ s.count \in Nat \ {0} /\ s.master \in Region
         /\ s = [region |-> s.region, first |-> s.first, count |-> s.count, master |-> s.master]
BY DEF SpanRec

\* The memory of a span: as many units as it has spans
LEMMA UnitsOfSpan ==
  ASSUME NEW s \in SpanRec
  PROVE  /\ IsFiniteSet(Units(s)) /\ Cardinality(Units(s)) = s.count
         /\ Units(s) # {} /\ \A u \in Units(s) : u[1] = s.region
<1>. DEFINE I == s.first..(s.first + s.count - 1)
            f == [i \in I |-> <<s.region, i>>]
<1>1. s.first \in Nat /\ s.count \in Nat \ {0}
  BY SpanParts
<1>2. IsFiniteSet(I) /\ Cardinality(I) = s.count
  <2>. DEFINE x == s.first
              y == s.first + s.count - 1
  <2>1. x \in Int /\ y \in Int /\ ~(x > y) /\ y - x + 1 = s.count
    BY <1>1
  <2>2. IsFiniteSet(x..y) /\ Cardinality(x..y) = IF x > y THEN 0 ELSE y - x + 1
    <3>. HIDE DEF x, y
    <3>. QED BY <2>1, FS_Interval
  <2>. QED BY <2>1, <2>2
<1>3. f \in Bijection(I, Units(s))
  <2>1. f \in Injection(I, Units(s))
    BY Fun_IsInj DEF Units
  <2>2. f \in Surjection(I, Units(s))
    BY <2>1, Fun_IsSurj DEF Units, Injection
  <2>. QED BY <2>1, <2>2 DEF Bijection
<1>4. ExistsBijection(I, Units(s))
  BY <1>3 DEF ExistsBijection
<1>5. IsFiniteSet(Units(s)) /\ Cardinality(Units(s)) = s.count
  <2>. HIDE DEF I
  <2>. QED BY <1>2, <1>4, FS_Bijection
<1>6. <<s.region, s.first>> \in Units(s)
  BY <1>1 DEF Units
<1>7. \A u \in Units(s) : u[1] = s.region
  BY DEF Units
<1>. QED BY <1>5, <1>6, <1>7

\* Spans of a region have their units there, and finitely many
LEMMA UnitsFinite ==
  ASSUME NEW S, NEW T, NEW R, Regular(S, T, R), NEW r \in Region
  PROVE  IsFiniteSet(UnitsOf(S, r))
<1>. DEFINE F == {r} \X (0..(T[r] - 1))
<1>1. T[r] \in Nat
  BY DEF Regular
<1>2. IsFiniteSet(F)
  <2>1. T[r] - 1 \in Int
    BY <1>1
  <2>. DEFINE y == T[r] - 1
  <2>2. IsFiniteSet(0..y)
    <3>. HIDE DEF y
    <3>1. y \in Int /\ 0 \in Int
      BY <2>1 DEF y
    <3>. QED BY <3>1, FS_Interval
  <2>3. IsFiniteSet({r})
    BY FS_Singleton
  <2>. HIDE DEF y
  <2>4. IsFiniteSet({r} \X (0..y))
    BY <2>2, <2>3, FS_Product
  <2>. QED BY <2>4 DEF y
<1>3. UnitsOf(S, r) \subseteq F
  <2>. SUFFICES ASSUME NEW s \in S, NEW u \in Units(s), u[1] = r PROVE u \in F
    BY DEF UnitsOf
  <2>1. s \in SpanRec /\ s.first + s.count <= T[s.region]
    BY DEF Regular
  <2>2. PICK i \in s.first..(s.first + s.count - 1) : u = <<s.region, i>>
    BY DEF Units
  <2>3. s.region = r
    BY <2>2
  <2>4. s.first \in Nat /\ s.count \in Nat /\ s.first + s.count <= T[r]
    BY <2>1, <2>3, SpanParts
  <2>5. i \in 0..(T[r] - 1)
    BY <1>1, <2>4
  <2>6. u = <<r, i>>
    BY <2>2, <2>3
  <2>. QED BY <2>5, <2>6
<1>. QED BY <1>2, <1>3, FS_Subset

LEMMA UnitsMember ==
  ASSUME NEW S, S \subseteq SpanRec, NEW r
  PROVE  UnitsOf(S, r) = UNION {Units(s) : s \in {t \in S : t.region = r}}
BY UnitsOfSpan DEF UnitsOf

\* The parts of a span are spans with its memory between them; the first part
\* has its beginning
LEMMA CutParts ==
  ASSUME NEW s \in SpanRec, NEW n \in 1..s.count
  PROVE  /\ Front(s, n) \in SpanRec /\ Front(s, n).count = n
         /\ Front(s, n).first = s.first /\ Front(s, n).region = s.region
         /\ Front(s, n).master = s.master
         /\ n = s.count => After(s, n) = None /\ Front(s, n) = s
         /\ n # s.count => /\ After(s, n) \in SpanRec /\ After(s, n).count = s.count - n
                           /\ After(s, n).first = s.first + n /\ After(s, n).region = s.region
                           /\ After(s, n).master = s.master
                           /\ Units(s) = Units(Front(s, n)) \cup Units(After(s, n))
                           /\ Units(Front(s, n)) \cap Units(After(s, n)) = {}
<1>1. s.first \in Nat /\ s.count \in Nat \ {0} /\ n \in Nat
  BY SpanParts
<1>2. Front(s, n) = [region |-> s.region, first |-> s.first, count |-> n, master |-> s.master]
  BY SpanParts DEF Front
<1>3. CASE n = s.count
  BY <1>1, <1>2, <1>3, SpanParts DEF After, SpanRec
<1>4. CASE n # s.count
  <2>1. After(s, n) = [region |-> s.region, first |-> s.first + n, count |-> s.count - n,
                       master |-> s.master]
    <3>1. After(s, n) = [[s EXCEPT !.first = s.first + n] EXCEPT !.count = s.count - n]
      BY <1>4 DEF After
    <3>. QED BY <3>1, SpanParts
  <2>2. s.count - n \in Nat \ {0}
    BY <1>1, <1>4
  <2>3. /\ Front(s, n) \in SpanRec /\ After(s, n) \in SpanRec
        /\ After(s, n).count = s.count - n /\ After(s, n).first = s.first + n
        /\ After(s, n).region = s.region /\ After(s, n).master = s.master
    BY <1>1, <1>2, <2>1, <2>2, SpanParts DEF SpanRec
  <2>4. Units(Front(s, n)) = {<<s.region, i>> : i \in s.first..(s.first + n - 1)}
    BY <1>2 DEF Units
  <2>5. Units(After(s, n)) = {<<s.region, i>> : i \in (s.first + n)..(s.first + s.count - 1)}
    <3>1. (s.first + n) + (s.count - n) - 1 = s.first + s.count - 1
      BY <1>1
    <3>. QED BY <2>3, <3>1 DEF Units
  <2>6. s.first..(s.first + s.count - 1) =
          (s.first..(s.first + n - 1)) \cup ((s.first + n)..(s.first + s.count - 1))
    BY <1>1
  <2>7. Units(s) = Units(Front(s, n)) \cup Units(After(s, n))
    BY <2>4, <2>5, <2>6 DEF Units
  <2>8. Units(Front(s, n)) \cap Units(After(s, n)) = {}
    BY <1>1, <2>4, <2>5
  <2>. QED BY <1>2, <1>4, <2>3, <2>7, <2>8
<1>. QED BY <1>3, <1>4

\* Cutting a span in two changes no count
LEMMA CutBooks ==
  ASSUME NEW S, NEW T, NEW R, Regular(S, T, R), NEW s \in S, NEW n \in 1..s.count
  PROVE  LET C == (S \ {s}) \cup Cut(s, n) IN
         /\ Regular(C, T, R) /\ Cut(s, n) \cap (S \ {s}) = {}
         /\ Front(s, n) \in C
         /\ n # s.count => After(s, n) \in C /\ After(s, n) # Front(s, n)
         /\ MastersIn(S, T) => MastersIn(C, T)
<1>. DEFINE C == (S \ {s}) \cup Cut(s, n)
<1>0. s \in SpanRec /\ None \notin SpanRec
  BY SuperSpanParams DEF Regular
<1>1. CASE n = s.count
  <2>1. Cut(s, n) = {s} /\ Front(s, n) = s
    BY <1>0, <1>1, CutParts DEF Cut
  <2>2. C = S
    BY <2>1
  <2>. HIDE DEF C
  <2>. QED BY <1>1, <2>1, <2>2 DEF C
<1>2. CASE n # s.count
  <2>. DEFINE f == Front(s, n)
              e == After(s, n)
  <2>1. /\ f \in SpanRec /\ e \in SpanRec /\ f.region = s.region /\ e.region = s.region
        /\ f.master = s.master /\ e.master = s.master /\ f.first = s.first
        /\ f.first + f.count <= T[s.region] /\ e.first + e.count <= T[s.region]
        /\ Units(s) = Units(f) \cup Units(e) /\ Units(f) \cap Units(e) = {}
    <3>1. /\ f \in SpanRec /\ e \in SpanRec /\ f.region = s.region /\ e.region = s.region
          /\ f.master = s.master /\ e.master = s.master /\ f.first = s.first
          /\ Units(s) = Units(f) \cup Units(e) /\ Units(f) \cap Units(e) = {}
          /\ f.count = n /\ e.first = s.first + n /\ e.count = s.count - n
      BY <1>0, <1>2, CutParts
    <3>2. s.first + s.count <= T[s.region] /\ T[s.region] \in Nat
      BY <1>0, SpanParts DEF Regular
    <3>3. s.first \in Nat /\ s.count \in Nat \ {0} /\ n \in Nat /\ n < s.count
      BY <1>0, <1>2, SpanParts
    <3>4. s.first + n <= T[s.region] /\ (s.first + n) + (s.count - n) <= T[s.region]
      BY <3>2, <3>3
    <3>. HIDE DEF f, e
    <3>. QED BY <3>1, <3>4
  <2>2. Cut(s, n) = {f, e}
    BY <1>0, <2>1 DEF Cut
  <2>. HIDE DEF f, e
  <2>3. Units(f) # {} /\ Units(e) # {} /\ f # e
    BY <2>1, UnitsOfSpan
  <2>4. \A t \in S \ {s} : Units(t) \cap (Units(f) \cup Units(e)) = {} /\ t # f /\ t # e
    <3>. SUFFICES ASSUME NEW t \in S \ {s}
                  PROVE  Units(t) \cap (Units(f) \cup Units(e)) = {} /\ t # f /\ t # e
      OBVIOUS
    <3>1. Units(t) \cap Units(s) = {}
      BY DEF Regular
    <3>. QED BY <2>1, <2>3, <3>1
  <2>5. \A r \in Region : UnitsOf(C, r) = UnitsOf(S, r)
    <3>1. UNION {Units(t) : t \in C} = UNION {Units(t) : t \in S}
      BY <2>1, <2>2
    <3>. QED BY <3>1 DEF UnitsOf
  <2>6. C \subseteq SpanRec
    BY <2>1, <2>2 DEF Regular
  <2>7. \A t \in C : t.master = t.region /\ t.first + t.count <= T[t.region]
    BY <2>1, <2>2 DEF Regular
  <2>8. \A t, v \in C : t # v => Units(t) \cap Units(v) = {}
    BY <2>1, <2>2, <2>4 DEF Regular
  <2>9. Regular(C, T, R)
    BY <2>5, <2>6, <2>7, <2>8 DEF Regular
  <2>10. MastersIn(S, T) => MastersIn(C, T)
    <3>. SUFFICES ASSUME MastersIn(S, T), NEW r \in Region, T[r] # 0
                  PROVE  \E t \in C : t.region = r /\ IsMaster(t)
      BY DEF MastersIn
    <3>1. PICK t \in S : t.region = r /\ IsMaster(t)
      BY DEF MastersIn
    <3>2. CASE t = s
      <4>1. f.region = r /\ IsMaster(f) /\ f \in C
        BY <2>1, <2>2, <3>1, <3>2 DEF IsMaster
      <4>. QED BY <4>1
    <3>3. CASE t # s
      BY <3>1, <3>3
    <3>. QED BY <3>2, <3>3
  <2>. QED BY <2>2, <2>3, <2>4, <2>9, <2>10 DEF f, e
<1>. QED BY <1>1, <1>2

\* A span is lost: nothing else changes
LEMMA LostBooks ==
  ASSUME NEW S, NEW T, NEW R, Regular(S, T, R), NEW s \in S, ~NoLoss
  PROVE  /\ Regular(S \ {s}, T, R)
         /\ MastersIn(S, T) /\ ~IsMaster(s) => MastersIn(S \ {s}, T)
<1>. DEFINE G == S \ {s}
<1>1. ASSUME NEW r \in Region PROVE R[r] >= Cardinality(UnitsOf(G, r))
  <2>1. IsFiniteSet(UnitsOf(S, r)) /\ UnitsOf(G, r) \subseteq UnitsOf(S, r)
    BY UnitsFinite DEF UnitsOf
  <2>2. /\ Cardinality(UnitsOf(G, r)) <= Cardinality(UnitsOf(S, r))
        /\ IsFiniteSet(UnitsOf(G, r))
    BY <2>1, FS_Subset
  <2>3. Cardinality(UnitsOf(G, r)) \in Nat /\ Cardinality(UnitsOf(S, r)) \in Nat
    BY <2>1, <2>2, FS_CardinalityType
  <2>4. R[r] \in Nat /\ R[r] >= Cardinality(UnitsOf(S, r))
    BY DEF Regular
  <2>. QED BY <2>2, <2>3, <2>4
<1>2. MastersIn(S, T) /\ ~IsMaster(s) => MastersIn(G, T)
  BY DEF MastersIn
<1>. QED BY <1>1, <1>2 DEF Regular

\* What unmapping span s does to the counts of the regions
Unbooked(s, T, R, T2, R2) ==
  LET left == R[s.master] - s.count IN
    /\ R2 = [R EXCEPT ![s.master] = left]
    /\ T2 = [T EXCEPT ![s.master] = IF left <= 0 THEN 0 ELSE @]

\* A span goes, its region with the last one
LEMMA GoneBooks ==
  ASSUME NEW S, NEW T, NEW R, Regular(S, T, R), NEW s \in S,
         NEW T2, NEW R2, Unbooked(s, T, R, T2, R2)
  PROVE  /\ Regular(S \ {s}, T2, R2) /\ Regular(S \ {s}, T, R2)
         /\ \A r \in Region \ {s.region} : T2[r] = T[r]
         /\ NoneLeft(T, R) => NoneLeft(T2, R2)
         /\ MastersIn(S, T) /\ (IsMaster(s) => R[s.region] <= s.count) => MastersIn(S \ {s}, T2)
<1>. DEFINE m == s.region
            G == S \ {s}
            left == R[s.master] - s.count
<1>0. /\ R2 = [R EXCEPT ![s.master] = left]
      /\ T2 = [T EXCEPT ![s.master] = IF left <= 0 THEN 0 ELSE @]
  BY DEF Unbooked
<1>1. s \in SpanRec /\ s.master = m /\ m \in Region /\ s.count \in Nat \ {0}
  BY SpanParts DEF Regular
<1>2. UnitsOf(G, m) = UnitsOf(S, m) \ Units(s) /\ Units(s) \subseteq UnitsOf(S, m)
  <2>1. S \subseteq SpanRec /\ G \subseteq SpanRec
    BY DEF Regular
  <2>2. UnitsOf(S, m) = UNION {Units(t) : t \in {v \in S : v.region = m}}
    BY <2>1, UnitsMember
  <2>3. UnitsOf(G, m) = UNION {Units(t) : t \in {v \in G : v.region = m}}
    <3>. HIDE DEF G
    <3>. QED BY <2>1, UnitsMember
  <2>4. \A t \in G : Units(t) \cap Units(s) = {}
    BY DEF Regular
  <2>. QED BY <2>2, <2>3, <2>4
<1>3. \A r \in Region \ {m} : UnitsOf(G, r) = UnitsOf(S, r)
  <2>. SUFFICES ASSUME NEW r \in Region \ {m} PROVE UnitsOf(G, r) = UnitsOf(S, r)
    OBVIOUS
  <2>1. \A u \in Units(s) : u[1] # r
    BY <1>1, UnitsOfSpan
  <2>. QED BY <2>1 DEF UnitsOf
<1>4. /\ left >= Cardinality(UnitsOf(G, m)) /\ left \in Nat
      /\ Cardinality(UnitsOf(G, m)) \in Nat
      /\ NoLoss => left = Cardinality(UnitsOf(G, m))
  <2>1. IsFiniteSet(UnitsOf(S, m)) /\ IsFiniteSet(Units(s)) /\ Cardinality(Units(s)) = s.count
    BY <1>1, UnitsFinite, UnitsOfSpan
  <2>2. /\ IsFiniteSet(UnitsOf(S, m) \ Units(s))
        /\ Cardinality(UnitsOf(S, m) \ Units(s)) =
             Cardinality(UnitsOf(S, m)) - Cardinality(UnitsOf(S, m) \cap Units(s))
    BY <2>1, FS_Difference
  <2>3. UnitsOf(S, m) \cap Units(s) = Units(s)
    BY <1>2
  <2>4. Cardinality(UnitsOf(G, m)) \in Nat
    BY <1>2, <2>2, FS_CardinalityType
  <2>5. /\ R[m] >= Cardinality(UnitsOf(S, m)) /\ R[m] \in Nat
        /\ NoLoss => R[m] = Cardinality(UnitsOf(S, m))
    BY <1>1 DEF Regular
  <2>6. Cardinality(UnitsOf(S, m)) \in Nat
    BY <2>1, FS_CardinalityType
  <2>. DEFINE a == Cardinality(UnitsOf(G, m))
              b == Cardinality(UnitsOf(S, m))
              k == s.count
  <2>7. a = b - k /\ a \in Nat /\ b \in Nat /\ k \in Nat /\ R[m] >= b /\ (NoLoss => R[m] = b)
    BY <1>1, <1>2, <2>1, <2>2, <2>3, <2>4, <2>5, <2>6
  <2>8. left = R[m] - k
    BY <1>1
  <2>. HIDE DEF a, b, k, left
  <2>9. left >= a /\ left \in Nat /\ (NoLoss => left = a)
    BY <2>5, <2>7, <2>8
  <2>. QED BY <2>7, <2>9 DEF a
<1>5. /\ R2 \in [Region -> Nat] /\ R2[m] = left
      /\ \A r \in Region \ {m} : R2[r] = R[r]
  BY <1>0, <1>1, <1>4 DEF Regular
<1>6. /\ T2 \in [Region -> Nat] /\ T2[m] = IF left = 0 THEN 0 ELSE T[m]
      /\ \A r \in Region \ {m} : T2[r] = T[r]
  BY <1>0, <1>1, <1>4 DEF Regular
<1>7. \A r \in Region : /\ R2[r] >= Cardinality(UnitsOf(G, r))
                        /\ NoLoss => R2[r] = Cardinality(UnitsOf(G, r))
  <2>. SUFFICES ASSUME NEW r \in Region
                PROVE  /\ R2[r] >= Cardinality(UnitsOf(G, r))
                       /\ NoLoss => R2[r] = Cardinality(UnitsOf(G, r))
    OBVIOUS
  <2>1. CASE r = m
    <3>. HIDE DEF left, G
    <3>. QED BY <1>4, <1>5, <2>1
  <2>2. CASE r # m
    <3>1. R2[r] = R[r] /\ UnitsOf(G, r) = UnitsOf(S, r)
      BY <1>3, <1>5, <2>2
    <3>. QED BY <3>1 DEF Regular
  <2>. QED BY <2>1, <2>2
<1>8. left = 0 => \A t \in G : t.region # m
  <2>. SUFFICES ASSUME left = 0, NEW t \in G, t.region = m PROVE FALSE
    OBVIOUS
  <2>1. Units(t) \subseteq UnitsOf(G, m) /\ Units(t) # {}
    BY UnitsOfSpan DEF UnitsOf, Regular
  <2>2. IsFiniteSet(UnitsOf(G, m))
    <3>1. IsFiniteSet(UnitsOf(S, m))
      BY <1>1, UnitsFinite
    <3>. QED BY <1>2, <3>1, FS_Subset
  <2>3. UnitsOf(G, m) = {}
    BY <1>4, <2>2, FS_EmptySet
  <2>. QED BY <2>1, <2>3
<1>9. \A t \in G : t.region \in Region /\ T2[t.region] = T[t.region]
  BY <1>6, <1>8, SpanParts DEF Regular
<1>10. Regular(G, T2, R2) /\ Regular(G, T, R2)
  BY <1>5, <1>6, <1>7, <1>9 DEF Regular
<1>11. NoneLeft(T, R) => NoneLeft(T2, R2)
  BY <1>1, <1>5, <1>6 DEF NoneLeft
<1>12. ASSUME MastersIn(S, T), IsMaster(s) => R[m] <= s.count PROVE MastersIn(G, T2)
  <2>. SUFFICES ASSUME NEW r \in Region, T2[r] # 0 PROVE \E t \in G : t.region = r /\ IsMaster(t)
    BY DEF MastersIn
  <2>1. T[r] # 0
    BY <1>6
  <2>2. PICK t \in S : t.region = r /\ IsMaster(t)
    BY <1>12, <2>1 DEF MastersIn
  <2>3. t # s
    <3>. SUFFICES ASSUME t = s PROVE FALSE
      OBVIOUS
    <3>1. r = m /\ R[m] <= s.count /\ R[m] \in Nat
      BY <1>1, <1>12, <2>2 DEF Regular
    <3>2. left = 0
      BY <1>1, <1>4, <3>1
    <3>. QED BY <1>6, <3>1, <3>2
  <2>. QED BY <2>2, <2>3
<1>. QED BY <1>4, <1>6, <1>10, <1>11, <1>12

Booked(r, n, T, R, T2, R2) == T2 = [T EXCEPT ![r] = n] /\ R2 = [R EXCEPT ![r] = n]

\* A region is mapped
LEMMA NewBooks ==
  ASSUME NEW S, NEW T, NEW R, Regular(S, T, R), NEW r \in Region, T[r] = 0, NEW n \in Nat \ {0},
         NEW T2, NEW R2, Booked(r, n, T, R, T2, R2)
  PROVE  /\ Regular(S \cup {Master(r, n)}, T2, R2) /\ Master(r, n) \notin S
         /\ NoneLeft(T, R) => NoneLeft(T2, R2)
         /\ MastersIn(S, T) => MastersIn(S \cup {Master(r, n)}, T2)
<1>. DEFINE s == Master(r, n)
            N == S \cup {s}
<1>1. s \in SpanRec /\ s.region = r /\ s.first = 0 /\ s.count = n /\ s.master = r
  BY DEF Master, SpanRec
<1>. HIDE DEF s
<1>2. \A t \in S : t.region # r
  <2>. SUFFICES ASSUME NEW t \in S, t.region = r PROVE FALSE
    OBVIOUS
  <2>1. t.first \in Nat /\ t.count \in Nat \ {0} /\ t.first + t.count <= 0
    BY SpanParts DEF Regular
  <2>. QED BY <2>1
<1>3. \A t \in S : Units(t) \cap Units(s) = {}
  BY <1>1, <1>2, UnitsOfSpan DEF Regular
<1>4. UnitsOf(N, r) = Units(s)
  BY <1>1, <1>2, UnitsOfSpan DEF UnitsOf, Regular
<1>5. \A q \in Region \ {r} : UnitsOf(N, q) = UnitsOf(S, q)
  BY <1>1, UnitsOfSpan DEF UnitsOf
<1>6. Cardinality(Units(s)) = n
  BY <1>1, UnitsOfSpan
<1>7. /\ T2 \in [Region -> Nat] /\ T2[r] = n /\ \A q \in Region \ {r} : T2[q] = T[q]
      /\ R2 \in [Region -> Nat] /\ R2[r] = n /\ \A q \in Region \ {r} : R2[q] = R[q]
  BY DEF Regular, Booked
<1>8. \A q \in Region : /\ R2[q] >= Cardinality(UnitsOf(N, q))
                        /\ NoLoss => R2[q] = Cardinality(UnitsOf(N, q))
  <2>. SUFFICES ASSUME NEW q \in Region
                PROVE  /\ R2[q] >= Cardinality(UnitsOf(N, q))
                       /\ NoLoss => R2[q] = Cardinality(UnitsOf(N, q))
    OBVIOUS
  <2>1. CASE q = r
    BY <1>4, <1>6, <1>7, <2>1
  <2>2. CASE q # r
    <3>1. R2[q] = R[q] /\ UnitsOf(N, q) = UnitsOf(S, q)
      BY <1>5, <1>7, <2>2
    <3>. QED BY <3>1 DEF Regular
  <2>. QED BY <2>1, <2>2
<1>9. \A t \in N : t.master = t.region /\ t.first + t.count <= T2[t.region]
  <2>1. \A t \in S : t.region \in Region \ {r}
    BY <1>2, SpanParts DEF Regular
  <2>. QED BY <1>1, <1>7, <2>1 DEF Regular
<1>10. \A t, v \in N : t # v => Units(t) \cap Units(v) = {}
  BY <1>3 DEF Regular
<1>11. Regular(N, T2, R2)
  BY <1>1, <1>7, <1>8, <1>9, <1>10 DEF Regular
<1>12. MastersIn(S, T) => MastersIn(N, T2)
  BY <1>1, <1>7 DEF MastersIn, IsMaster
<1>13. NoneLeft(T, R) => NoneLeft(T2, R2)
  BY <1>7 DEF NoneLeft
<1>. QED BY <1>1, <1>2, <1>11, <1>12, <1>13 DEF s

---------------------------------------------------------------------------
(* The invariant *)

Some(x) == {x} \ {None}

\* What heap h and its thread have, and what they share
Mine(h) ==
  used[h] \cup cached[h] \cup Some(reserve[h]) \cup Some(heap_span[h]) \cup spill[h] \cup keep[h]
Shared == slots \cup overflow \cup Some(global_reserve)

Disjoint(u, c, v, p, x, k, sl, ov, g) ==
  /\ u \cap (c \cup v \cup p \cup x \cup k \cup sl \cup ov \cup g) = {}
  /\ c \cap (v \cup p \cup x \cup k \cup sl \cup ov \cup g) = {}
  /\ v \cap (p \cup x \cup k \cup sl \cup ov \cup g) = {}
  /\ p \cap (x \cup k \cup sl \cup ov \cup g) = {}
  /\ x \cap (k \cup sl \cup ov \cup g) = {}
  /\ k \cap (sl \cup ov \cup g) = {}
  /\ sl \cap (ov \cup g) = {}
  /\ ov \cap g = {}

\* Every span is in one place
Separate ==
  /\ \A h \in Heap : Disjoint(used[h], cached[h], Some(reserve[h]), Some(heap_span[h]), spill[h],
                              keep[h], slots, overflow, Some(global_reserve))
  /\ \A g, h \in Heap : g # h => Mine(g) \cap Mine(h) = {}
  /\ slots \cap overflow = {} /\ (slots \cup overflow) \cap Some(global_reserve) = {}

HeapTypes ==
  /\ used \in [Heap -> SUBSET SpanRec]
  /\ cached \in [Heap -> SUBSET SpanRec]
  /\ reserve \in [Heap -> SpanRec \cup {None}]
  /\ heap_span \in [Heap -> SpanRec \cup {None}]
  /\ spill \in [Heap -> SUBSET SpanRec]
  /\ keep \in [Heap -> SUBSET SpanRec]
  /\ global_reserve \in SpanRec \cup {None}
  /\ slots \subseteq SpanRec /\ overflow \subseteq SpanRec

ControlTypes ==
  /\ config \in Configs
  /\ lock \in {0, 1}
  /\ pc \in [Heap -> {"absent", "creating", "idle", "mapping", "leaving", "orphan", "closing"}]
  /\ want \in [Heap -> 0..LargeMax]
  /\ phase \in {"run", "heaps", "caches", "finalized", "teardown"}

\* What threads have at each point: a heap that is not made yet nothing, one
\* whose thread is about to map nothing it failed to put in the global cache
Threads ==
  \A h \in Heap :
    /\ pc[h] \in {"absent", "creating"} => Mine(h) = {}
    /\ pc[h] \in {"mapping", "orphan"} => spill[h] = {} /\ keep[h] = {}
    /\ pc[h] = "mapping" => want[h] \in 1..LargeMax
    /\ pc[h] = "closing" => phase = "teardown"
    /\ phase # "run" => /\ pc[h] \in {"absent", "idle", "orphan", "closing"}
                        /\ spill[h] = {} /\ keep[h] = {}

\* What rpmalloc_finalize has emptied at each point
Emptied ==
  /\ phase # "run" => global_reserve = None
  /\ phase \in {"caches", "finalized"} =>
       \A h \in Heap : /\ cached[h] = {} /\ reserve[h] = None
                       /\ heap_span[h] = None \/ used[h] # {}
  /\ phase = "finalized" => slots = {} /\ overflow = {}

\* The global reserve takes what a heap reserve has no room for, from behind
\* other spans of a region
GlobalReserveUsed ==
  global_reserve # None => config.reserve < config.map /\ ~IsMaster(global_reserve)

SpanInv ==
  /\ HeapTypes /\ ControlTypes /\ Separate /\ Threads /\ Emptied /\ GlobalReserveUsed
  /\ Regular(Held, total, remaining)

\* With the global cache, which keeps masters of spans still around
Masters ==
  GlobalCache => /\ phase = "run" => MastersIn(Held, total)
                 /\ NoneLeft(total, remaining)

---------------------------------------------------------------------------
(* Steps that hand spans around *)

LEMMA HeldParts == Held = (UNION {Mine(h) : h \in Heap}) \cup Shared
<1>1. ASSUME NEW s PROVE s \in Held <=> s \in (UNION {Mine(h) : h \in Heap}) \cup Shared
  BY DEF Held, Mine, Shared, Some
<1>. QED BY <1>1

LEMMA HeldPartsNext == Held' = (UNION {Mine(h)' : h \in Heap}) \cup Shared'
<1>1. ASSUME NEW s PROVE s \in Held' <=> s \in (UNION {Mine(h)' : h \in Heap}) \cup Shared'
  BY DEF Held, Mine, Shared, Some
<1>. QED BY <1>1

HeapStep(h, u, c, v, p, x, k) ==
  /\ used' = [used EXCEPT ![h] = u] /\ cached' = [cached EXCEPT ![h] = c]
  /\ reserve' = [reserve EXCEPT ![h] = v] /\ heap_span' = [heap_span EXCEPT ![h] = p]
  /\ spill' = [spill EXCEPT ![h] = x] /\ keep' = [keep EXCEPT ![h] = k]

\* One thread hands its spans and shared ones around, drops those of G and
\* gets those of N
Hands(h, u, c, v, p, x, k, G, N) ==
  /\ HeapStep(h, u, c, v, p, x, k)
  /\ N \subseteq SpanRec /\ N \cap (Held \ G) = {} /\ G \subseteq Mine(h) \cup Shared
  /\ v \in SpanRec \cup {None} /\ p \in SpanRec \cup {None}
  /\ global_reserve' \in SpanRec \cup {None}
  /\ Disjoint(u, c, Some(v), Some(p), x, k, slots', overflow', Some(global_reserve'))
  /\ u \cup c \cup Some(v) \cup Some(p) \cup x \cup k
       \cup slots' \cup overflow' \cup Some(global_reserve')
     = ((Mine(h) \cup Shared) \ G) \cup N

LEMMA Handed ==
  ASSUME HeapTypes, Separate, NEW h \in Heap,
         NEW u, NEW c, NEW v, NEW p, NEW x, NEW k, NEW G, NEW N,
         Hands(h, u, c, v, p, x, k, G, N)
  PROVE  /\ HeapTypes' /\ Separate' /\ Held' = (Held \ G) \cup N
         /\ Mine(h)' = u \cup c \cup Some(v) \cup Some(p) \cup x \cup k
         /\ \A g \in Heap : g # h => Mine(g)' = Mine(g) /\ spill'[g] = spill[g] /\ keep'[g] = keep[g]
         /\ spill'[h] = x /\ keep'[h] = k
<1>. USE DEF Hands
<1>1. /\ used'[h] = u /\ cached'[h] = c /\ reserve'[h] = v /\ heap_span'[h] = p
      /\ spill'[h] = x /\ keep'[h] = k
      /\ \A g \in Heap \ {h} :
           /\ used'[g] = used[g] /\ cached'[g] = cached[g] /\ reserve'[g] = reserve[g]
           /\ heap_span'[g] = heap_span[g] /\ spill'[g] = spill[g] /\ keep'[g] = keep[g]
  BY DEF HeapStep, HeapTypes
<1>2. /\ Mine(h)' = u \cup c \cup Some(v) \cup Some(p) \cup x \cup k
      /\ \A g \in Heap \ {h} : Mine(g)' = Mine(g)
  BY <1>1 DEF Mine, Some
<1>3. /\ Mine(h)' \cup Shared' = ((Mine(h) \cup Shared) \ G) \cup N
      /\ Mine(h)' \cap Shared' = {}
  BY <1>2 DEF Shared, Disjoint, Some
<1>4. /\ \A g \in Heap \ {h} : Mine(g) \cap (Mine(h) \cup Shared) = {}
      /\ Mine(h) \cup Shared \subseteq SpanRec
  <2>1. ASSUME NEW g \in Heap \ {h} PROVE Mine(g) \cap Shared = {}
    BY DEF Separate, Disjoint, Mine, Shared
  <2>2. Mine(h) \cup Shared \subseteq SpanRec
    BY DEF HeapTypes, Mine, Shared, Some
  <2>. QED BY <2>1, <2>2 DEF Separate
<1>5. \A g \in Heap \ {h} : Mine(g) \subseteq Held \ G
  BY <1>4, HeldParts
<1>6. Held' = (Held \ G) \cup N
  <2>1. UNION {Mine(g)' : g \in Heap} = Mine(h)' \cup UNION {Mine(g) : g \in Heap \ {h}}
    BY <1>2
  <2>2. UNION {Mine(g) : g \in Heap} = Mine(h) \cup UNION {Mine(g) : g \in Heap \ {h}}
    OBVIOUS
  <2>. DEFINE rest == UNION {Mine(g) : g \in Heap \ {h}}
  <2>3. rest \cap G = {}
    BY <1>4
  <2>. HIDE DEF rest
  <2>4. Held' = Mine(h)' \cup rest \cup Shared' /\ Held = Mine(h) \cup rest \cup Shared
    BY <2>1, <2>2, HeldParts, HeldPartsNext DEF rest
  <2>. QED BY <1>3, <2>3, <2>4
<1>7. \A g \in Heap \ {h} : Mine(g) \cap (Mine(h)' \cup Shared') = {}
  BY <1>3, <1>4, <1>5
<1>8. Separate'
  <2>1. ASSUME NEW g \in Heap
        PROVE  Disjoint(used[g], cached[g], Some(reserve[g]), Some(heap_span[g]), spill[g],
                        keep[g], slots, overflow, Some(global_reserve))'
    <3>1. CASE g = h
      BY <1>1, <3>1 DEF Disjoint, Some
    <3>2. CASE g # h
      <4>1. (Mine(g) \cap Shared')  = {}
        BY <1>7, <3>2
      <4>2. slots' \cap (overflow' \cup Some(global_reserve')) = {}
            /\ overflow' \cap Some(global_reserve') = {}
        BY DEF Disjoint
      <4>3. /\ used[g] \cap (cached[g] \cup Some(reserve[g]) \cup Some(heap_span[g]) \cup spill[g] \cup keep[g]) = {}
            /\ cached[g] \cap (Some(reserve[g]) \cup Some(heap_span[g]) \cup spill[g] \cup keep[g]) = {}
            /\ Some(reserve[g]) \cap (Some(heap_span[g]) \cup spill[g] \cup keep[g]) = {}
            /\ Some(heap_span[g]) \cap (spill[g] \cup keep[g]) = {}
            /\ spill[g] \cap keep[g] = {}
        BY DEF Separate, Disjoint
      <4>. QED BY <1>1, <3>2, <4>1, <4>2, <4>3 DEF Disjoint, Mine, Shared, Some
    <3>. QED BY <3>1, <3>2
  <2>2. ASSUME NEW g \in Heap, NEW f \in Heap, g # f PROVE Mine(g)' \cap Mine(f)' = {}
    BY <1>2, <1>7, <2>2 DEF Separate
  <2>3. (slots \cap overflow = {} /\ (slots \cup overflow) \cap Some(global_reserve) = {})'
    BY DEF Disjoint, Some
  <2>. QED BY <2>1, <2>2, <2>3 DEF Separate
<1>9. HeapTypes'
  <2>1. /\ u \subseteq SpanRec /\ c \subseteq SpanRec /\ x \subseteq SpanRec /\ k \subseteq SpanRec
        /\ slots' \subseteq SpanRec /\ overflow' \subseteq SpanRec
    BY <1>4
  <2>. QED BY <2>1 DEF HeapStep, HeapTypes
<1>. QED BY <1>1, <1>2, <1>6, <1>8, <1>9

\* Spans no thread has are dropped
LEMMA Dropped ==
  ASSUME HeapTypes, Separate, NEW G,
         UNCHANGED <<used, cached, reserve, heap_span, spill, keep>>,
         slots' = slots \ G, overflow' = overflow \ G,
         Some(global_reserve') = Some(global_reserve) \ G, global_reserve' \in SpanRec \cup {None},
         G \subseteq Shared
  PROVE  /\ HeapTypes' /\ Separate' /\ Held' = Held \ G
         /\ \A g \in Heap : Mine(g)' = Mine(g)
<1>1. Shared' = Shared \ G
  BY DEF Shared
<1>2. \A g \in Heap : Mine(g)' = Mine(g) /\ Mine(g) \cap Shared = {}
  BY DEF Mine, Shared, Separate, Disjoint
<1>3. Held' = Held \ G
  <2>. DEFINE all == UNION {Mine(g) : g \in Heap}
  <2>1. UNION {Mine(g)' : g \in Heap} = all
    BY <1>2
  <2>2. all \cap G = {}
    BY <1>2
  <2>. HIDE DEF all
  <2>3. Held' = all \cup Shared' /\ Held = all \cup Shared
    BY <2>1, HeldParts, HeldPartsNext DEF all
  <2>. QED BY <1>1, <2>2, <2>3
<1>4. Separate'
  <2>1. ASSUME NEW g \in Heap
        PROVE  Disjoint(used[g], cached[g], Some(reserve[g]), Some(heap_span[g]), spill[g],
                        keep[g], slots, overflow, Some(global_reserve))'
    <3>1. Disjoint(used[g], cached[g], Some(reserve[g]), Some(heap_span[g]), spill[g],
                   keep[g], slots, overflow, Some(global_reserve))
      BY DEF Separate
    <3>2. Some(global_reserve)' = Some(global_reserve) \ G
      BY DEF Some
    <3>. QED BY <3>1, <3>2 DEF Disjoint, Some
  <2>2. (slots \cap overflow = {} /\ (slots \cup overflow) \cap Some(global_reserve) = {})'
    <3>1. slots \cap overflow = {} /\ (slots \cup overflow) \cap Some(global_reserve) = {}
      BY DEF Separate
    <3>2. Some(global_reserve)' = Some(global_reserve) \ G
      BY DEF Some
    <3>. QED BY <3>1, <3>2
  <2>. QED BY <1>2, <2>1, <2>2 DEF Separate
<1>. QED BY <1>2, <1>3, <1>4 DEF HeapTypes

LEMMA Stays ==
  ASSUME HeapTypes, NEW h \in Heap
  PROVE  /\ used = [used EXCEPT ![h] = used[h]] /\ cached = [cached EXCEPT ![h] = cached[h]]
         /\ reserve = [reserve EXCEPT ![h] = reserve[h]]
         /\ heap_span = [heap_span EXCEPT ![h] = heap_span[h]]
         /\ spill = [spill EXCEPT ![h] = spill[h]] /\ keep = [keep EXCEPT ![h] = keep[h]]
BY DEF HeapTypes

\* A step of the thread of h while the program runs
LEMMA RunStep ==
  ASSUME SpanInv, phase = "run", phase' = "run", UNCHANGED config, NEW h \in Heap,
         NEW l, NEW w, pc' = [pc EXCEPT ![h] = l], want' = [want EXCEPT ![h] = w],
         l \in {"absent", "creating", "idle", "mapping", "leaving", "orphan"},
         w \in 0..LargeMax, lock' \in {0, 1},
         HeapTypes', Separate', Regular(Held', total', remaining'),
         \A g \in Heap : g # h => Mine(g)' = Mine(g) /\ spill'[g] = spill[g] /\ keep'[g] = keep[g],
         l \in {"absent", "creating"} => Mine(h)' = {},
         l \in {"mapping", "orphan"} => spill'[h] = {} /\ keep'[h] = {},
         l = "mapping" => w \in 1..LargeMax,
         global_reserve' \notin {global_reserve, None}
           => config.reserve < config.map /\ ~IsMaster(global_reserve')
  PROVE  SpanInv'
<1>. USE DEF SpanInv
<1>1. ControlTypes'
  BY DEF ControlTypes, LargeMax
<1>2. Threads'
  <2>. SUFFICES ASSUME NEW g \in Heap
                PROVE  /\ pc'[g] \in {"absent", "creating"} => Mine(g)' = {}
                       /\ pc'[g] \in {"mapping", "orphan"} => spill'[g] = {} /\ keep'[g] = {}
                       /\ pc'[g] = "mapping" => want'[g] \in 1..LargeMax
                       /\ pc'[g] # "closing"
    BY DEF Threads, LargeMax
  <2>1. CASE g = h
    BY <2>1 DEF ControlTypes
  <2>2. CASE g # h
    BY <2>2 DEF ControlTypes, Threads
  <2>. QED BY <2>1, <2>2
<1>3. Emptied' /\ GlobalReserveUsed'
  BY DEF Emptied, GlobalReserveUsed, IsMaster
<1>. QED BY <1>1, <1>2, <1>3

\* What a full cache gives away finds a slot, overflows or is up to SpillOne
GivenAway(h, spans) ==
  \E A, B, C \in SUBSET spans :
    /\ A \cup B \cup C = spans /\ A \cap B = {} /\ A \cap C = {} /\ B \cap C = {}
    /\ slots' = slots \cup A /\ overflow' = overflow \cup B
    /\ spill' = [spill EXCEPT ![h] = C]

LEMMA InsertGlobal ==
  ASSUME HeapTypes, NEW h \in Heap, spill[h] = {}, NEW spans, GlobalInsert(h, spans)
  PROVE  GivenAway(h, spans)
<1>. USE DEF GivenAway
<1>0. spill = [spill EXCEPT ![h] = {}]
  BY Stays
<1>1. CASE GlobalCache
  <2>1. PICK ins \in Inserted(spans) :
          /\ slots' = slots \cup ins
          /\ IF PageSpans > 1
             THEN overflow' = overflow \cup (spans \ ins) /\ UNCHANGED spill
             ELSE spill' = [spill EXCEPT ![h] = spans \ ins] /\ UNCHANGED overflow
    BY <1>1 DEF GlobalInsert
  <2>2. ins \subseteq spans
    BY DEF Inserted
  <2>3. CASE PageSpans > 1
    <3>. WITNESS ins \in SUBSET spans, spans \ ins \in SUBSET spans, {} \in SUBSET spans
    <3>. QED BY <1>0, <2>1, <2>2, <2>3
  <2>4. CASE ~(PageSpans > 1)
    <3>. WITNESS ins \in SUBSET spans, {} \in SUBSET spans, spans \ ins \in SUBSET spans
    <3>. QED BY <2>1, <2>2, <2>4
  <2>. QED BY <2>3, <2>4
<1>2. CASE ~GlobalCache
  <2>. WITNESS {} \in SUBSET spans, {} \in SUBSET spans, spans \in SUBSET spans
  <2>. QED BY <1>2 DEF GlobalInsert
<1>. QED BY <1>1, <1>2

\* A span is put in the thread cache, or pushes others out
Cached(h, s) ==
  \E c, A, B, C \in SUBSET (cached[h] \cup {s}) :
    /\ c \cup A \cup B \cup C = cached[h] \cup {s}
    /\ c \cap (A \cup B \cup C) = {} /\ A \cap B = {} /\ A \cap C = {} /\ B \cap C = {}
    /\ cached' = [cached EXCEPT ![h] = c]
    /\ slots' = slots \cup A /\ overflow' = overflow \cup B
    /\ spill' = [spill EXCEPT ![h] = C]

LEMMA InsertCache ==
  ASSUME HeapTypes, NEW h \in Heap, spill[h] = {}, NEW s, CacheInsert(h, s)
  PROVE  Cached(h, s)
<1>. USE DEF Cached
<1>. DEFINE all == cached[h] \cup {s}
            same == OfCount(cached[h], s.count) \cup {s}
<1>0. spill = [spill EXCEPT ![h] = {}]
  BY Stays
<1>1. CASE Cardinality(same) < CacheMax
  <2>1. cached' = [cached EXCEPT ![h] = all] /\ UNCHANGED <<slots, overflow, spill>>
    BY <1>1 DEF CacheInsert
  <2>. WITNESS all \in SUBSET all, {} \in SUBSET all, {} \in SUBSET all, {} \in SUBSET all
  <2>. QED BY <1>0, <2>1
<1>2. CASE ~(Cardinality(same) < CacheMax)
  <2>1. PICK moved \in SUBSET same :
          cached' = [cached EXCEPT ![h] = all \ moved] /\ GlobalInsert(h, moved)
    BY <1>2 DEF CacheInsert
  <2>2. moved \subseteq all
    BY DEF OfCount
  <2>3. PICK A, B, C \in SUBSET moved :
          /\ A \cup B \cup C = moved /\ A \cap B = {} /\ A \cap C = {} /\ B \cap C = {}
          /\ slots' = slots \cup A /\ overflow' = overflow \cup B
          /\ spill' = [spill EXCEPT ![h] = C]
    <3>. HIDE DEF same
    <3>1. GlobalInsert(h, moved)
      BY <2>1
    <3>2. GivenAway(h, moved)
      BY <3>1, InsertGlobal
    <3>. QED BY <3>2 DEF GivenAway
  <2>. WITNESS all \ moved \in SUBSET all, A \in SUBSET all, B \in SUBSET all, C \in SUBSET all
  <2>. QED BY <2>1, <2>2, <2>3
<1>. QED BY <1>1, <1>2

\* A thread only hands spans around
LEMMA MoveInv ==
  ASSUME SpanInv, Masters, phase = "run", UNCHANGED <<config, regionVars, global_reserve, lock, want, phase>>,
         NEW h \in Heap, NEW l \in {"idle", "leaving"}, pc' = [pc EXCEPT ![h] = l],
         NEW u, NEW c, NEW v, NEW p, NEW x, NEW k, HeapStep(h, u, c, v, p, x, k),
         v \in SpanRec \cup {None}, p \in SpanRec \cup {None},
         Disjoint(u, c, Some(v), Some(p), x, k, slots', overflow', Some(global_reserve)),
         u \cup c \cup Some(v) \cup Some(p) \cup x \cup k
           \cup slots' \cup overflow' \cup Some(global_reserve) = Mine(h) \cup Shared
  PROVE  SpanInv' /\ Masters'
<1>1. HeapTypes /\ Separate /\ global_reserve' \in SpanRec \cup {None}
  BY DEF SpanInv, HeapTypes
<1>2. /\ HeapTypes' /\ Separate' /\ Held' = Held
      /\ \A g \in Heap : g # h => Mine(g)' = Mine(g) /\ spill'[g] = spill[g] /\ keep'[g] = keep[g]
  <2>. DEFINE E == {}
  <2>1. u \cup c \cup Some(v) \cup Some(p) \cup x \cup k
          \cup slots' \cup overflow' \cup Some(global_reserve') = ((Mine(h) \cup Shared) \ E) \cup E
    OBVIOUS
  <2>2. E \cap (Held \ E) = {} /\ E \subseteq SpanRec /\ E \subseteq Mine(h) \cup Shared
    OBVIOUS
  <2>3. Disjoint(u, c, Some(v), Some(p), x, k, slots', overflow', Some(global_reserve'))
    OBVIOUS
  <2>4. (Held \ E) \cup E = Held
    OBVIOUS
  <2>. HIDE DEF E
  <2>5. Hands(h, u, c, v, p, x, k, E, E)
    BY <1>1, <2>1, <2>2, <2>3 DEF Hands
  <2>6. /\ HeapTypes' /\ Separate' /\ Held' = (Held \ E) \cup E
        /\ \A g \in Heap : g # h => Mine(g)' = Mine(g) /\ spill'[g] = spill[g] /\ keep'[g] = keep[g]
    BY <1>1, <2>5, Handed
  <2>. QED BY <2>4, <2>6
<1>3. Held' = Held /\ total' = total /\ remaining' = remaining
  BY <1>2 DEF regionVars
<1>4. Regular(Held', total', remaining') /\ Masters'
  BY <1>3 DEF SpanInv, Masters
<1>5. want' = [want EXCEPT ![h] = want[h]] /\ want[h] \in 0..LargeMax /\ lock' \in {0, 1}
  BY DEF SpanInv, ControlTypes
<1>6. phase' = "run" /\ UNCHANGED config
  OBVIOUS
<1>. QED BY <1>1, <1>2, <1>4, <1>5, <1>6, RunStep

\* What the thread of h has is in one place each, apart from what is shared
LEMMA Own ==
  ASSUME SpanInv, NEW h \in Heap
  PROVE  /\ Disjoint(used[h], cached[h], Some(reserve[h]), Some(heap_span[h]), spill[h],
                     keep[h], slots, overflow, Some(global_reserve))
         /\ reserve[h] \in SpanRec \cup {None} /\ heap_span[h] \in SpanRec \cup {None}
         /\ None \notin SpanRec
         /\ used[h] \subseteq SpanRec /\ cached[h] \subseteq SpanRec
         /\ HeapTypes /\ Separate
BY SuperSpanParams DEF SpanInv, Separate, HeapTypes

LEMMA TakeCachedInv ==
  ASSUME SpanInv, Masters, NEW h \in Heap, NEW n, TakeCached(h, n), UNCHANGED config
  PROVE  SpanInv' /\ Masters'
<1>1. PICK s \in cached[h] : /\ cached' = [cached EXCEPT ![h] = cached[h] \ {s}]
                             /\ used' = [used EXCEPT ![h] = used[h] \cup {s}]
  BY DEF TakeCached
<1>2. /\ phase = "run" /\ pc[h] = "idle" /\ pc' = [pc EXCEPT ![h] = "idle"]
      /\ UNCHANGED <<regionVars, global_reserve, lock, want, phase, slots, overflow>>
  BY DEF TakeCached, CanAllocate, Ready, controlVars, cacheVars, SpanInv, ControlTypes
<1>3. HeapStep(h, used[h] \cup {s}, cached[h] \ {s}, reserve[h], heap_span[h], spill[h], keep[h])
  BY <1>1, Stays, Own DEF HeapStep, TakeCached, cacheVars
<1>4. Disjoint(used[h] \cup {s}, cached[h] \ {s}, Some(reserve[h]), Some(heap_span[h]), spill[h],
               keep[h], slots', overflow', Some(global_reserve))
  BY <1>2, Own DEF Disjoint
<1>5. (used[h] \cup {s}) \cup (cached[h] \ {s}) \cup Some(reserve[h]) \cup Some(heap_span[h])
         \cup spill[h] \cup keep[h] \cup slots' \cup overflow' \cup Some(global_reserve)
        = Mine(h) \cup Shared
  BY <1>2 DEF Mine, Shared
<1>6. reserve[h] \in SpanRec \cup {None} /\ heap_span[h] \in SpanRec \cup {None}
  BY Own
<1>. QED BY <1>2, <1>3, <1>4, <1>5, <1>6, MoveInv

LEMMA TakeGlobalInv ==
  ASSUME SpanInv, Masters, NEW h \in Heap, NEW n, TakeGlobal(h, n), UNCHANGED config
  PROVE  SpanInv' /\ Masters'
<1>1. PICK m \in 1..LargeMax :
        \E batch \in SUBSET (OfCount(slots, m) \cup OfCount(overflow, m)) : \E s \in batch :
          /\ slots' = slots \ batch /\ overflow' = overflow \ batch
          /\ cached' = [cached EXCEPT ![h] = cached[h] \cup (batch \ {s})]
          /\ used' = [used EXCEPT ![h] = used[h] \cup {s}]
  BY DEF TakeGlobal
<1>2. PICK batch \in SUBSET (slots \cup overflow), s \in slots \cup overflow :
        /\ s \in batch
        /\ slots' = slots \ batch /\ overflow' = overflow \ batch
        /\ cached' = [cached EXCEPT ![h] = cached[h] \cup (batch \ {s})]
        /\ used' = [used EXCEPT ![h] = used[h] \cup {s}]
  BY <1>1 DEF OfCount
<1>3. /\ phase = "run" /\ pc[h] = "idle" /\ pc' = [pc EXCEPT ![h] = "idle"]
      /\ UNCHANGED <<regionVars, global_reserve, lock, want, phase>>
  BY DEF TakeGlobal, CanAllocate, Ready, controlVars, SpanInv, ControlTypes
<1>. DEFINE u == used[h] \cup {s}
            c == cached[h] \cup (batch \ {s})
<1>4. HeapStep(h, u, c, reserve[h], heap_span[h], spill[h], keep[h])
  BY <1>2, Stays, Own DEF HeapStep, TakeGlobal
<1>5. Disjoint(u, c, Some(reserve[h]), Some(heap_span[h]), spill[h],
               keep[h], slots', overflow', Some(global_reserve))
  BY <1>2, Own DEF Disjoint
<1>6. u \cup c \cup Some(reserve[h]) \cup Some(heap_span[h])
         \cup spill[h] \cup keep[h] \cup slots' \cup overflow' \cup Some(global_reserve)
        = Mine(h) \cup Shared
  BY <1>2 DEF Mine, Shared
<1>7. reserve[h] \in SpanRec \cup {None} /\ heap_span[h] \in SpanRec \cup {None}
  BY Own
<1>. HIDE DEF u, c
<1>. QED BY <1>3, <1>4, <1>5, <1>6, <1>7, MoveInv

\* The last block of a span is freed: the span is cached or reserved
LEMMA FreeInv ==
  ASSUME SpanInv, Masters, NEW h \in Heap, Free(h), UNCHANGED config
  PROVE  SpanInv' /\ Masters'
<1>1. PICK s \in used[h] :
        /\ used' = [used EXCEPT ![h] = used[h] \ {s}]
        /\ \/ /\ reserve[h] = None /\ reserve' = [reserve EXCEPT ![h] = s]
              /\ UNCHANGED <<cached, slots, overflow, spill>>
           \/ CacheInsert(h, s) /\ UNCHANGED reserve
  BY DEF Free
<1>2. /\ phase = "run" /\ pc[h] = "idle" /\ pc' = [pc EXCEPT ![h] = "idle"] /\ spill[h] = {}
      /\ UNCHANGED <<regionVars, global_reserve, lock, want, phase, heap_span, keep>>
  BY DEF Free, CanAllocate, Ready, controlVars, SpanInv, ControlTypes
<1>3. reserve[h] \in SpanRec \cup {None} /\ heap_span[h] \in SpanRec \cup {None}
      /\ s \in SpanRec /\ s # None
  BY Own
<1>. DEFINE u == used[h] \ {s}
<1>4. CASE /\ reserve[h] = None /\ reserve' = [reserve EXCEPT ![h] = s]
           /\ UNCHANGED <<cached, slots, overflow, spill>>
  <2>1. HeapStep(h, u, cached[h], s, heap_span[h], spill[h], keep[h])
    BY <1>1, <1>2, <1>4, Stays, Own DEF HeapStep
  <2>2. Disjoint(u, cached[h], Some(s), Some(heap_span[h]), spill[h],
                 keep[h], slots', overflow', Some(global_reserve))
    BY <1>3, <1>4, Own DEF Disjoint, Some
  <2>3. u \cup cached[h] \cup Some(s) \cup Some(heap_span[h])
         \cup spill[h] \cup keep[h] \cup slots' \cup overflow' \cup Some(global_reserve)
        = Mine(h) \cup Shared
    BY <1>3, <1>4 DEF Mine, Shared, Some
  <2>. HIDE DEF u
  <2>. QED BY <1>2, <1>3, <2>1, <2>2, <2>3, MoveInv
<1>5. CASE CacheInsert(h, s) /\ UNCHANGED reserve
  <2>1. PICK c, A, B, C \in SUBSET (cached[h] \cup {s}) :
           /\ c \cup A \cup B \cup C = cached[h] \cup {s}
           /\ c \cap (A \cup B \cup C) = {} /\ A \cap B = {} /\ A \cap C = {} /\ B \cap C = {}
           /\ cached' = [cached EXCEPT ![h] = c]
           /\ slots' = slots \cup A /\ overflow' = overflow \cup B
           /\ spill' = [spill EXCEPT ![h] = C]
    <3>1. Cached(h, s)
      BY <1>2, <1>5, InsertCache, Own
    <3>. QED BY <3>1 DEF Cached
  <2>2. HeapStep(h, u, c, reserve[h], heap_span[h], C, keep[h])
    BY <1>1, <1>2, <1>5, <2>1, Stays, Own DEF HeapStep
  <2>3. Disjoint(u, c, Some(reserve[h]), Some(heap_span[h]), C,
                 keep[h], slots', overflow', Some(global_reserve))
    BY <2>1, Own DEF Disjoint
  <2>4. u \cup c \cup Some(reserve[h]) \cup Some(heap_span[h])
         \cup C \cup keep[h] \cup slots' \cup overflow' \cup Some(global_reserve)
        = Mine(h) \cup Shared
    BY <1>2, <2>1 DEF Mine, Shared
  <2>. HIDE DEF u
  <2>. QED BY <1>2, <1>3, <2>2, <2>3, <2>4, MoveInv
<1>. QED BY <1>1, <1>4, <1>5

LEMMA HeapLeaveInv ==
  ASSUME SpanInv, Masters, NEW h \in Heap, HeapLeave(h), UNCHANGED config
  PROVE  SpanInv' /\ Masters'
<1>1. /\ phase = "run" /\ pc[h] = "idle" /\ pc' = [pc EXCEPT ![h] = "leaving"] /\ spill[h] = {}
      /\ UNCHANGED <<regionVars, global_reserve, lock, want, phase, used, reserve, heap_span, keep>>
  BY DEF HeapLeave, CanAllocate, Ready
<1>2. reserve[h] \in SpanRec \cup {None} /\ heap_span[h] \in SpanRec \cup {None}
  BY Own
<1>3. CASE UNCHANGED <<cached, slots, overflow, spill>>
  <2>1. HeapStep(h, used[h], cached[h], reserve[h], heap_span[h], spill[h], keep[h])
    BY <1>1, <1>3, Stays, Own DEF HeapStep
  <2>2. Disjoint(used[h], cached[h], Some(reserve[h]), Some(heap_span[h]), spill[h],
                 keep[h], slots', overflow', Some(global_reserve))
    BY <1>3, Own
  <2>3. used[h] \cup cached[h] \cup Some(reserve[h]) \cup Some(heap_span[h])
         \cup spill[h] \cup keep[h] \cup slots' \cup overflow' \cup Some(global_reserve)
        = Mine(h) \cup Shared
    BY <1>3 DEF Mine, Shared
  <2>. QED BY <1>1, <1>2, <2>1, <2>2, <2>3, MoveInv
<1>4. CASE GlobalInsert(h, cached[h]) /\ cached' = [cached EXCEPT ![h] = {}]
  <2>0. GivenAway(h, cached[h])
    BY <1>1, <1>4, InsertGlobal, Own
  <2>1. PICK A, B, C \in SUBSET cached[h] :
          /\ A \cup B \cup C = cached[h] /\ A \cap B = {} /\ A \cap C = {} /\ B \cap C = {}
          /\ slots' = slots \cup A /\ overflow' = overflow \cup B
          /\ spill' = [spill EXCEPT ![h] = C]
    BY <2>0 DEF GivenAway
  <2>2. HeapStep(h, used[h], {}, reserve[h], heap_span[h], C, keep[h])
    BY <1>1, <1>4, <2>1, Stays, Own DEF HeapStep
  <2>3. Disjoint(used[h], {}, Some(reserve[h]), Some(heap_span[h]), C,
                 keep[h], slots', overflow', Some(global_reserve))
    BY <2>1, Own DEF Disjoint
  <2>4. used[h] \cup {} \cup Some(reserve[h]) \cup Some(heap_span[h])
         \cup C \cup keep[h] \cup slots' \cup overflow' \cup Some(global_reserve)
        = Mine(h) \cup Shared
    BY <1>1, <2>1 DEF Mine, Shared
  <2>. QED BY <1>1, <1>2, <2>2, <2>3, <2>4, MoveInv
<1>. QED BY <1>3, <1>4 DEF HeapLeave

LEMMA AllHeld ==
  ASSUME NEW h \in Heap
  PROVE  Mine(h) \cup Shared \subseteq Held
BY HeldParts

\* A thread moves on with what it has
LEMMA StillInv ==
  ASSUME SpanInv, Masters, phase = "run", UNCHANGED <<config, regionVars, heapVars, global_reserve, cacheVars, phase>>,
         NEW h \in Heap, NEW l, NEW w, pc' = [pc EXCEPT ![h] = l], want' = [want EXCEPT ![h] = w],
         l \in {"absent", "creating", "idle", "mapping", "leaving", "orphan"},
         w \in 0..LargeMax, lock' \in {0, 1},
         l \in {"absent", "creating"} => Mine(h) = {},
         l \in {"mapping", "orphan"} => spill[h] = {} /\ keep[h] = {},
         l = "mapping" => w \in 1..LargeMax
  PROVE  SpanInv' /\ Masters'
<1>1. UNCHANGED <<total, remaining, used, cached, reserve, heap_span, global_reserve, slots, overflow,
                  spill, keep>>
  BY DEF regionVars, heapVars, cacheVars
<1>2. HeapTypes' /\ Separate' /\ Held' = Held /\ \A g \in Heap : Mine(g)' = Mine(g)
  <2>1. Held' = Held
    BY <1>1 DEF Held
  <2>2. \A g \in Heap : Mine(g)' = Mine(g)
    BY <1>1 DEF Mine, Some
  <2>. QED BY <1>1, <2>1, <2>2 DEF SpanInv, HeapTypes, Separate, Some
<1>3. Regular(Held', total', remaining') /\ Masters'
  BY <1>1, <1>2 DEF SpanInv, Masters
<1>. QED BY <1>1, <1>2, <1>3, RunStep

LEMMA MapBeginInv ==
  ASSUME SpanInv, Masters, NEW h \in Heap, NEW n \in 1..LargeMax, MapBegin(h, n), UNCHANGED config
  PROVE  SpanInv' /\ Masters'
<1>1. phase = "run" /\ pc[h] = "idle" /\ spill[h] = {} /\ keep[h] = {}
  BY DEF MapBegin, CanAllocate, Ready
<1>2. lock' \in {0, 1} /\ n \in 0..LargeMax /\ pc' = [pc EXCEPT ![h] = "mapping"]
      /\ want' = [want EXCEPT ![h] = n]
      /\ UNCHANGED <<regionVars, heapVars, global_reserve, cacheVars, phase>>
  BY DEF MapBegin, SpanInv, ControlTypes
<1>. QED BY <1>1, <1>2, StillInv

\* A heap is being made, picked up or put aside
LEMMA HeapMovesInv ==
  ASSUME SpanInv, Masters, NEW h \in Heap, UNCHANGED config,
         HeapBegin(h) \/ HeapFails(h) \/ HeapAdopt(h) \/ HeapOrphan(h)
  PROVE  SpanInv' /\ Masters'
<1>1. UNCHANGED <<regionVars, heapVars, global_reserve, cacheVars, want, phase>> /\ lock' \in {0, 1}
  BY DEF HeapBegin, HeapFails, MapFails, HeapAdopt, HeapOrphan, SpanInv, ControlTypes
<1>2. phase = "run"
  BY DEF HeapBegin, HeapFails, HeapAdopt, HeapOrphan, SpanInv, Threads
<1>3. want' = [want EXCEPT ![h] = want[h]] /\ want[h] \in 0..LargeMax
  BY <1>1 DEF SpanInv, ControlTypes
<1>4. CASE HeapBegin(h)
  <2>1. Mine(h) = {} /\ pc' = [pc EXCEPT ![h] = "creating"]
    BY <1>4 DEF HeapBegin, SpanInv, Threads
  <2>. QED BY <1>1, <1>2, <1>3, <2>1, StillInv
<1>5. CASE HeapFails(h)
  <2>1. Mine(h) = {} /\ pc' = [pc EXCEPT ![h] = "absent"]
    BY <1>5 DEF HeapFails, SpanInv, Threads
  <2>. QED BY <1>1, <1>2, <1>3, <2>1, StillInv
<1>6. CASE HeapAdopt(h)
  <2>1. pc' = [pc EXCEPT ![h] = "idle"]
    BY <1>6 DEF HeapAdopt
  <2>. QED BY <1>1, <1>2, <1>3, <2>1, StillInv
<1>7. CASE HeapOrphan(h)
  <2>1. spill[h] = {} /\ keep[h] = {} /\ pc' = [pc EXCEPT ![h] = "orphan"]
    BY <1>7 DEF HeapOrphan
  <2>. QED BY <1>1, <1>2, <1>3, <2>1, StillInv
<1>. QED BY <1>4, <1>5, <1>6, <1>7

\* The thread of h cuts n spans off its reserve
LEMMA TakeReservedInv ==
  ASSUME SpanInv, Masters, NEW h \in Heap, NEW n \in 1..LargeMax, TakeReserved(h, n), UNCHANGED config
  PROVE  SpanInv' /\ Masters'
<1>. DEFINE s == reserve[h]
            f == Front(s, n)
            e == After(s, n)
            u == used[h] \cup {f}
<1>1. s \in SpanRec /\ s # None /\ n \in 1..s.count
  <2>1. reserve[h] # None /\ reserve[h].count >= n
    BY DEF TakeReserved, ReserveSize
  <2>2. s \in SpanRec /\ s.count \in Nat
    BY <2>1, Own, SpanParts
  <2>. QED BY <2>1, <2>2
<1>2. /\ phase = "run" /\ pc[h] = "idle"
      /\ used' = [used EXCEPT ![h] = u] /\ reserve' = [reserve EXCEPT ![h] = e]
      /\ UNCHANGED <<regionVars, global_reserve, lock, want, phase, pc, cached, heap_span,
                     slots, overflow, spill, keep>>
  BY DEF TakeReserved, CanAllocate, Ready, controlVars, cacheVars
<1>3. s \in Held /\ Mine(h) \cup Shared \subseteq Held /\ s \in Mine(h)
  BY <1>1, AllHeld DEF Mine, Some
<1>4. /\ Regular((Held \ {s}) \cup Cut(s, n), total, remaining)
      /\ Cut(s, n) \cap (Held \ {s}) = {}
      /\ MastersIn(Held, total) => MastersIn((Held \ {s}) \cup Cut(s, n), total)
      /\ n # s.count => e # f
  BY <1>1, <1>3, CutBooks DEF SpanInv
<1>5. f \in SpanRec /\ e \in SpanRec \cup {None} /\ Cut(s, n) = {f} \cup Some(e) /\ f # e
      /\ Cut(s, n) \subseteq SpanRec
  <2>1. /\ f \in SpanRec /\ n = s.count => e = None
        /\ n # s.count => e \in SpanRec
    BY <1>1, CutParts
  <2>2. f \in SpanRec
    BY <1>1, CutParts
  <2>. HIDE DEF f, e
  <2>3. Cut(s, n) = {f} \cup Some(e)
    BY <2>2, Own DEF Cut, Some, f, e
  <2>. QED BY <1>4, <2>1, <2>2, <2>3, Own DEF Some
<1>. HIDE DEF f, e, s
<1>6. Disjoint(u, cached[h], Some(e), Some(heap_span[h]), spill[h], keep[h], slots', overflow',
               Some(global_reserve'))
  <2>1. {f} \cap Some(e) = {}
    BY <1>5 DEF Some
  <2>2. Disjoint(used[h], cached[h], {s}, Some(heap_span[h]), spill[h], keep[h], slots, overflow,
                 Some(global_reserve))
    BY <1>1, Own DEF s, Some
  <2>3. (used[h] \cup cached[h] \cup Some(heap_span[h]) \cup spill[h] \cup keep[h] \cup slots
          \cup overflow \cup Some(global_reserve)) \cap ({f} \cup Some(e)) = {}
    <3>1. used[h] \cup cached[h] \cup Some(heap_span[h]) \cup spill[h] \cup keep[h] \cup slots
          \cup overflow \cup Some(global_reserve) \subseteq Held \ {s}
      BY <1>3, <2>2 DEF Mine, Shared, Disjoint
    <3>. QED BY <1>4, <1>5, <3>1
  <2>. QED BY <1>2, <2>1, <2>2, <2>3 DEF Disjoint
<1>7. u \cup cached[h] \cup Some(e) \cup Some(heap_span[h]) \cup spill[h] \cup keep[h]
        \cup slots' \cup overflow' \cup Some(global_reserve')
       = ((Mine(h) \cup Shared) \ {s}) \cup Cut(s, n)
  <2>1. Disjoint(used[h], cached[h], {s}, Some(heap_span[h]), spill[h], keep[h], slots, overflow,
                 Some(global_reserve))
    BY <1>1, Own DEF s, Some
  <2>2. Mine(h) \cup Shared = used[h] \cup cached[h] \cup {s} \cup Some(heap_span[h]) \cup spill[h]
                                \cup keep[h] \cup slots \cup overflow \cup Some(global_reserve)
    BY <1>1 DEF Mine, Shared, s, Some
  <2>. QED BY <1>2, <1>5, <2>1, <2>2 DEF Disjoint
<1>8. HeapStep(h, u, cached[h], e, heap_span[h], spill[h], keep[h])
  BY <1>2, Stays, Own DEF HeapStep
<1>9. Hands(h, u, cached[h], e, heap_span[h], spill[h], keep[h], {s}, Cut(s, n))
  <2>1. global_reserve' \in SpanRec \cup {None}
    BY <1>2 DEF SpanInv, HeapTypes
  <2>. QED BY <1>3, <1>4, <1>5, <1>6, <1>7, <1>8, <2>1, Own DEF Hands
<1>10. /\ HeapTypes' /\ Separate' /\ Held' = (Held \ {s}) \cup Cut(s, n)
       /\ \A g \in Heap : g # h => Mine(g)' = Mine(g) /\ spill'[g] = spill[g] /\ keep'[g] = keep[g]
  <2>. HIDE DEF u
  <2>. QED BY <1>9, Handed, Own
<1>11. Regular(Held', total', remaining') /\ Masters'
  BY <1>2, <1>4, <1>10 DEF SpanInv, Masters, regionVars
<1>12. pc' = [pc EXCEPT ![h] = "idle"] /\ want' = [want EXCEPT ![h] = want[h]]
       /\ want[h] \in 0..LargeMax /\ lock' \in {0, 1}
  BY <1>2 DEF SpanInv, ControlTypes
<1>. QED BY <1>2, <1>10, <1>11, <1>12, RunStep

\* A thread hands spans around, gets some and drops some
LEMMA HandsInv ==
  ASSUME SpanInv, phase = "run", phase' = "run", UNCHANGED config, NEW h \in Heap,
         NEW l \in {"idle", "leaving"}, pc' = [pc EXCEPT ![h] = l],
         NEW w \in 0..LargeMax, want' = [want EXCEPT ![h] = w], lock' \in {0, 1},
         NEW u, NEW c, NEW v, NEW p, NEW x, NEW k, NEW G, NEW N,
         Hands(h, u, c, v, p, x, k, G, N),
         Regular((Held \ G) \cup N, total', remaining'),
         GlobalCache => MastersIn((Held \ G) \cup N, total') /\ NoneLeft(total', remaining'),
         global_reserve' \notin {global_reserve, None}
           => config.reserve < config.map /\ ~IsMaster(global_reserve')
  PROVE  SpanInv' /\ Masters'
<1>1. /\ HeapTypes' /\ Separate' /\ Held' = (Held \ G) \cup N
      /\ \A g \in Heap : g # h => Mine(g)' = Mine(g) /\ spill'[g] = spill[g] /\ keep'[g] = keep[g]
  BY Handed DEF SpanInv
<1>2. Regular(Held', total', remaining') /\ Masters'
  BY <1>1 DEF Masters
<1>3. /\ l \in {"absent", "creating", "idle", "mapping", "leaving", "orphan"}
      /\ l \notin {"absent", "creating", "mapping", "orphan"}
  OBVIOUS
<1>. QED BY <1>1, <1>2, <1>3, RunStep

\* It drops one, and unmaps it
LEMMA DropInv ==
  ASSUME SpanInv, Masters, phase = "run", UNCHANGED <<config, controlVars, global_reserve>>,
         NEW h \in Heap, pc[h] \in {"idle", "leaving"},
         NEW u, NEW c, NEW v, NEW p, NEW x, NEW k, NEW s \in Mine(h) \cup Shared,
         Hands(h, u, c, v, p, x, k, {s}, {}), Unmap(s),
         GlobalCache /\ IsMaster(s) => remaining[s.region] <= s.count
  PROVE  SpanInv' /\ Masters'
<1>1. s \in Held
  BY AllHeld
<1>2. UNCHANGED <<lock, pc, want, phase>>
  BY DEF controlVars
<1>. DEFINE G == {s}
            N == {}
<1>4. /\ Regular(Held \ {s}, total', remaining')
      /\ NoneLeft(total, remaining) => NoneLeft(total', remaining')
      /\ MastersIn(Held, total) /\ (IsMaster(s) => remaining[s.region] <= s.count)
           => MastersIn(Held \ {s}, total')
  <2>1. Regular(Held, total, remaining)
    BY DEF SpanInv
  <2>2. Unbooked(s, total, remaining, total', remaining')
    BY DEF Unmap, Unbooked
  <2>. QED BY <1>1, <2>1, <2>2, GoneBooks
<1>5. (Held \ G) \cup N = Held \ {s}
  OBVIOUS
<1>6. /\ pc' = [pc EXCEPT ![h] = pc[h]] /\ want' = [want EXCEPT ![h] = want[h]]
      /\ want[h] \in 0..LargeMax /\ lock' \in {0, 1} /\ phase' = "run"
  BY <1>2 DEF SpanInv, ControlTypes
<1>7. Hands(h, u, c, v, p, x, k, G, N)
  OBVIOUS
<1>8. /\ Regular((Held \ G) \cup N, total', remaining')
      /\ GlobalCache => MastersIn((Held \ G) \cup N, total') /\ NoneLeft(total', remaining')
  BY <1>4, <1>5 DEF Masters
<1>. HIDE DEF G, N
<1>. QED BY <1>6, <1>7, <1>8, HandsInv

\* A thread with spans it failed to put in the global cache is about to see to
\* them, before rpmalloc_finalize begins
LEMMA Spilling ==
  ASSUME SpanInv, NEW h \in Heap, spill[h] # {} \/ keep[h] # {}
  PROVE  phase = "run" /\ pc[h] \in {"idle", "leaving"}
<1>1. Mine(h) # {}
  BY DEF Mine
<1>. QED BY <1>1 DEF SpanInv, Threads, ControlTypes

LEMMA SpillOneInv ==
  ASSUME SpanInv, Masters, NEW h \in Heap, SpillOne(h), UNCHANGED config
  PROVE  SpanInv' /\ Masters'
<1>1. PICK s \in spill[h] :
        /\ spill' = [spill EXCEPT ![h] = spill[h] \ {s}]
        /\ \/ keep' = [keep EXCEPT ![h] = keep[h] \cup {s}] /\ UNCHANGED regionVars
           \/ /\ ~(GlobalCache /\ IsMaster(s) /\ remaining[s.region] > s.count)
              /\ Unmap(s) /\ UNCHANGED keep
  BY DEF SpillOne
<1>2. /\ phase = "run" /\ pc[h] \in {"idle", "leaving"}
      /\ UNCHANGED <<global_reserve, slots, overflow, used, cached, reserve, heap_span, lock, pc,
                     want, phase, controlVars>>
  BY Spilling DEF SpillOne, controlVars, heapVars
<1>3. reserve[h] \in SpanRec \cup {None} /\ heap_span[h] \in SpanRec \cup {None}
  BY Own
<1>. DEFINE x == spill[h] \ {s}
<1>4. CASE keep' = [keep EXCEPT ![h] = keep[h] \cup {s}] /\ UNCHANGED regionVars
  <2>. DEFINE k == keep[h] \cup {s}
  <2>1. HeapStep(h, used[h], cached[h], reserve[h], heap_span[h], x, k)
    BY <1>1, <1>2, <1>4, Stays, Own DEF HeapStep
  <2>2. Disjoint(used[h], cached[h], Some(reserve[h]), Some(heap_span[h]), x, k, slots', overflow',
                 Some(global_reserve))
    BY <1>2, Own DEF Disjoint
  <2>3. used[h] \cup cached[h] \cup Some(reserve[h]) \cup Some(heap_span[h]) \cup x \cup k
          \cup slots' \cup overflow' \cup Some(global_reserve) = Mine(h) \cup Shared
    BY <1>2 DEF Mine, Shared
  <2>4. pc' = [pc EXCEPT ![h] = pc[h]]
    BY <1>2 DEF SpanInv, ControlTypes
  <2>. HIDE DEF x, k
  <2>. QED BY <1>2, <1>3, <1>4, <2>1, <2>2, <2>3, <2>4, MoveInv
<1>5. CASE /\ ~(GlobalCache /\ IsMaster(s) /\ remaining[s.region] > s.count)
           /\ Unmap(s) /\ UNCHANGED keep
  <2>1. HeapStep(h, used[h], cached[h], reserve[h], heap_span[h], x, keep[h])
    BY <1>1, <1>2, <1>5, Stays, Own DEF HeapStep
  <2>2. Disjoint(used[h], cached[h], Some(reserve[h]), Some(heap_span[h]), x, keep[h], slots',
                 overflow', Some(global_reserve'))
    BY <1>2, Own DEF Disjoint
  <2>3. used[h] \cup cached[h] \cup Some(reserve[h]) \cup Some(heap_span[h]) \cup x \cup keep[h]
          \cup slots' \cup overflow' \cup Some(global_reserve')
         = ((Mine(h) \cup Shared) \ {s}) \cup {}
    BY <1>2, Own DEF Mine, Shared, Disjoint
  <2>4. s \in Mine(h) \cup Shared
    BY DEF Mine
  <2>5. global_reserve' \in SpanRec \cup {None}
    BY <1>2 DEF SpanInv, HeapTypes
  <2>6. Hands(h, used[h], cached[h], reserve[h], heap_span[h], x, keep[h], {s}, {})
    <3>. HIDE DEF x
    <3>. QED BY <1>3, <2>1, <2>2, <2>3, <2>4, <2>5 DEF Hands
  <2>7. GlobalCache /\ IsMaster(s) => remaining[s.region] <= s.count
    <3>1. s \in SpanRec /\ remaining \in [Region -> Nat]
      BY Own DEF SpanInv, HeapTypes, Regular
    <3>2. remaining[s.region] \in Nat /\ s.count \in Nat
      BY <3>1, SpanParts
    <3>. QED BY <1>5, <3>2
  <2>. HIDE DEF x
  <2>. QED BY <1>2, <1>5, <2>4, <2>6, <2>7, DropInv
<1>. QED BY <1>1, <1>4, <1>5

LEMMA KeepOneInv ==
  ASSUME SpanInv, Masters, NEW h \in Heap, KeepOne(h), UNCHANGED config
  PROVE  SpanInv' /\ Masters'
<1>1. PICK k \in keep[h] :
        /\ keep' = [keep EXCEPT ![h] = keep[h] \ {k}]
        /\ \/ \E s \in slots :
                /\ IsMaster(s) => remaining[s.region] <= s.count
                /\ Unmap(s)
                /\ slots' = (slots \ {s}) \cup {k}
                /\ UNCHANGED overflow
           \/ overflow' = overflow \cup {k} /\ UNCHANGED <<regionVars, slots>>
  BY DEF KeepOne, OfCount
<1>2. /\ phase = "run" /\ pc[h] \in {"idle", "leaving"}
      /\ UNCHANGED <<global_reserve, used, cached, reserve, heap_span, spill, lock, pc,
                     want, phase, controlVars>>
  BY Spilling DEF KeepOne, controlVars, heapVars
<1>3. reserve[h] \in SpanRec \cup {None} /\ heap_span[h] \in SpanRec \cup {None}
  BY Own
<1>. DEFINE m == keep[h] \ {k}
<1>4. HeapStep(h, used[h], cached[h], reserve[h], heap_span[h], spill[h], m)
  BY <1>1, <1>2, Stays, Own DEF HeapStep
<1>5. CASE overflow' = overflow \cup {k} /\ UNCHANGED <<regionVars, slots>>
  <2>2. Disjoint(used[h], cached[h], Some(reserve[h]), Some(heap_span[h]), spill[h], m, slots',
                 overflow', Some(global_reserve))
    BY <1>5, Own DEF Disjoint
  <2>3. used[h] \cup cached[h] \cup Some(reserve[h]) \cup Some(heap_span[h]) \cup spill[h] \cup m
          \cup slots' \cup overflow' \cup Some(global_reserve) = Mine(h) \cup Shared
    BY <1>5 DEF Mine, Shared
  <2>4. pc' = [pc EXCEPT ![h] = pc[h]]
    BY <1>2 DEF SpanInv, ControlTypes
  <2>. HIDE DEF m
  <2>. QED BY <1>2, <1>3, <1>4, <1>5, <2>2, <2>3, <2>4, MoveInv
<1>6. ASSUME NEW s \in slots, IsMaster(s) => remaining[s.region] <= s.count, Unmap(s),
             slots' = (slots \ {s}) \cup {k}, UNCHANGED overflow
      PROVE  SpanInv' /\ Masters'
  <2>2. Disjoint(used[h], cached[h], Some(reserve[h]), Some(heap_span[h]), spill[h], m, slots',
                 overflow', Some(global_reserve'))
    BY <1>2, <1>6, Own DEF Disjoint
  <2>3. used[h] \cup cached[h] \cup Some(reserve[h]) \cup Some(heap_span[h]) \cup spill[h] \cup m
          \cup slots' \cup overflow' \cup Some(global_reserve')
         = ((Mine(h) \cup Shared) \ {s}) \cup {}
    BY <1>2, <1>6, Own DEF Mine, Shared, Disjoint
  <2>4. s \in Mine(h) \cup Shared
    BY DEF Shared
  <2>5. global_reserve' \in SpanRec \cup {None}
    BY <1>2 DEF SpanInv, HeapTypes
  <2>6. Hands(h, used[h], cached[h], reserve[h], heap_span[h], spill[h], m, {s}, {})
    <3>. HIDE DEF m
    <3>. QED BY <1>3, <1>4, <2>2, <2>3, <2>4, <2>5 DEF Hands
  <2>. HIDE DEF m
  <2>. QED BY <1>2, <1>6, <2>4, <2>6, DropInv
<1>. QED BY <1>1, <1>5, <1>6

---------------------------------------------------------------------------
(* Mapping a region *)

LEMMA ConfigFacts ==
  ASSUME config \in Configs
  PROVE  /\ PageSpans \in Nat \ {0} /\ MapCount \in Nat \ {0} /\ ReserveCount \in Nat \ {0}
         /\ LargeMax \in Nat /\ CacheMax \in Nat
         /\ ReserveCount <= MapCount /\ MapCount % PageSpans = 0
         /\ MapCount > ReserveCount => LargeMax <= ReserveCount
BY SuperSpanParams DEF PageSpans, MapCount, ReserveCount, LargeMax, CacheMax, Config

LEMMA Remainder ==
  ASSUME NEW a \in Nat, NEW b \in Nat \ {0}
  PROVE  a % b \in 0..(b - 1)
OBVIOUS

\* A region holds what is asked for, and less than span_map_count more
LEMMA AlignedBound ==
  ASSUME config \in Configs, NEW n \in Nat \ {0}
  PROVE  Aligned(n) \in Nat \ {0} /\ n <= Aligned(n) /\ Aligned(n) - n <= MapCount
<1>. DEFINE request == IF n > MapCount THEN n ELSE MapCount
            m == MapCount
<1>1. m \in Nat \ {0} /\ m % PageSpans = 0
  BY ConfigFacts
<1>2. request \in Nat \ {0} /\ n <= request
  BY <1>1
<1>3. CASE request % PageSpans # 0
  <2>1. Aligned(n) = request + m - (request % m)
    BY <1>3 DEF Aligned
  <2>2. request = n
    BY <1>1, <1>3
  <2>3. request % m \in 0..(m - 1)
    <3>. HIDE DEF request, m
    <3>. QED BY <1>1, <1>2, Remainder
  <2>. DEFINE q == request % m
  <2>. HIDE DEF q, m, request
  <2>4. q \in 0..(m - 1) /\ Aligned(n) = request + m - q
    BY <2>1, <2>3 DEF q
  <2>5. Aligned(n) \in Nat \ {0} /\ n <= Aligned(n) /\ Aligned(n) - n <= m
    BY <1>1, <1>2, <2>2, <2>4
  <2>. QED BY <2>5 DEF m
<1>4. CASE request % PageSpans = 0
  <2>1. Aligned(n) = request
    BY <1>4 DEF Aligned
  <2>. QED BY <1>1, <2>1
<1>. QED BY <1>3, <1>4

\* The first n of the first c spans of s, the rest of these c, the rest of s
Second(s, n, c) == IF c > n THEN After(Front(s, c), n) ELSE None
Thirds(s, n, c) == {Front(s, n)} \cup Some(Second(s, n, c)) \cup Some(After(s, c))

\* Cutting a span in three changes no count
LEMMA CutTwice ==
  ASSUME NEW S, NEW T, NEW R, Regular(S, T, R), NEW s \in S,
         NEW c \in 1..s.count, NEW n \in 1..c
  PROVE  /\ Regular((S \ {s}) \cup Thirds(s, n, c), T, R)
         /\ Thirds(s, n, c) \cap (S \ {s}) = {} /\ Thirds(s, n, c) \subseteq SpanRec
         /\ Front(s, n) \notin Some(Second(s, n, c)) \cup Some(After(s, c))
         /\ Some(Second(s, n, c)) \cap Some(After(s, c)) = {}
         /\ After(s, c) # None => ~IsMaster(After(s, c))
         /\ MastersIn(S, T) => MastersIn((S \ {s}) \cup Thirds(s, n, c), T)
<1>. DEFINE f == Front(s, c)
            e == After(s, c)
            a == Front(s, n)
            b == Second(s, n, c)
            C == (S \ {s}) \cup Cut(s, c)
            D == (C \ {f}) \cup Cut(f, n)
<1>1. s \in SpanRec /\ None \notin SpanRec /\ s.count \in Nat /\ s.first \in Nat /\ c \in Nat /\ n \in Nat
  BY SuperSpanParams, SpanParts DEF Regular
<1>2. /\ Regular(C, T, R) /\ Cut(s, c) \cap (S \ {s}) = {} /\ f \in C
      /\ c # s.count => e \in C /\ e # f
      /\ MastersIn(S, T) => MastersIn(C, T)
  BY CutBooks
<1>3. /\ f \in SpanRec /\ f.count = c
      /\ c = s.count => e = None
      /\ c # s.count => e \in SpanRec /\ e.first = s.first + c
  BY <1>1, CutParts
<1>4. Front(f, n) = a
  BY <1>1, SpanParts DEF Front
<1>5. /\ Regular(D, T, R) /\ Cut(f, n) \cap (C \ {f}) = {}
      /\ n # c => After(f, n) # Front(f, n)
      /\ MastersIn(C, T) => MastersIn(D, T)
  <2>1. n \in 1..f.count
    BY <1>3
  <2>2. D = (C \ {f}) \cup Cut(f, n)
    OBVIOUS
  <2>. HIDE DEF f, C, D
  <2>. QED BY <1>2, <1>3, <2>1, <2>2, CutBooks
<1>6. a \in SpanRec /\ (c > n => After(f, n) \in SpanRec) /\ (c = n => After(f, n) = None)
  <2>1. n \in 1..f.count /\ f.count = c
    BY <1>3
  <2>2. /\ Front(f, n) \in SpanRec
        /\ n = f.count => After(f, n) = None
        /\ n # f.count => After(f, n) \in SpanRec
    <3>. HIDE DEF f
    <3>. QED BY <1>3, <2>1, CutParts
  <2>. DEFINE d == After(f, n)
  <2>3. a \in SpanRec /\ (n # c => d \in SpanRec) /\ (n = c => d = None)
    <3>. HIDE DEF f, a
    <3>. QED BY <1>4, <2>1, <2>2
  <2>. HIDE DEF a, d
  <2>4. a \in SpanRec /\ (c > n => d \in SpanRec) /\ (c = n => d = None)
    BY <1>1, <2>3
  <2>. QED BY <2>4 DEF a, d
<1>7. b = After(f, n) /\ n <= c
  BY <1>6 DEF Second
<1>8. Cut(s, c) = {f} \cup Some(e) /\ Cut(f, n) = {a} \cup Some(b)
  BY <1>1, <1>3, <1>4, <1>6, <1>7 DEF Cut, Some
<1>9. a \in D /\ f \notin S \ {s} /\ f \notin Some(e) /\ a \notin Some(b)
  BY <1>2, <1>3, <1>4, <1>5, <1>6, <1>7, <1>8 DEF Some
<1>10. e # None => e \in SpanRec /\ ~IsMaster(e)
  BY <1>1, <1>3 DEF IsMaster
<1>. HIDE DEF f, e, a, b, C
<1>11. Thirds(s, n, c) = Cut(f, n) \cup Some(e)
  BY <1>8 DEF Thirds, f, e, a, b
<1>12. C = (S \ {s}) \cup {f} \cup Some(e)
  BY <1>8 DEF C
<1>13. C \ {f} = (S \ {s}) \cup Some(e)
  BY <1>9, <1>12
<1>14. D = (S \ {s}) \cup Thirds(s, n, c)
  BY <1>11, <1>13
<1>15. Some(b) \cap Some(e) = {} /\ a \notin Some(e) /\ Thirds(s, n, c) \cap (S \ {s}) = {}
  BY <1>2, <1>5, <1>8, <1>11, <1>13
<1>16. Thirds(s, n, c) \subseteq SpanRec
  BY <1>3, <1>6, <1>7, <1>8, <1>10, <1>11 DEF Some, f
<1>. HIDE DEF D
<1>. QED BY <1>2, <1>5, <1>9, <1>10, <1>14, <1>15, <1>16 DEF a, b, e

\* The parts of a new region: n spans, `own` more, and the rest
Own2(r, size, n, own) == IF own = 0 THEN None ELSE Front(After(Master(r, size), n), own)
Rest(r, size, n, own) == IF size - n > own THEN After(Master(r, size), n + own) ELSE None
Parts(r, size, n, own) == {Master(r, n)} \cup Some(Own2(r, size, n, own)) \cup Some(Rest(r, size, n, own))

\* They are spans nobody has yet
Fresh(S, r, size, n, own) ==
  /\ Parts(r, size, n, own) \cap S = {} /\ Parts(r, size, n, own) \subseteq SpanRec
  /\ Master(r, n) \notin Some(Own2(r, size, n, own)) \cup Some(Rest(r, size, n, own))
  /\ Some(Own2(r, size, n, own)) \cap Some(Rest(r, size, n, own)) = {}
  /\ size - n > own => Rest(r, size, n, own) # None
  /\ Rest(r, size, n, own) # None => ~IsMaster(Rest(r, size, n, own))

Sized(size, n, own) ==
  size \in Nat \ {0} /\ n \in 1..size /\ own \in 0..(size - n) /\ (own = 0 => n = size)

LEMMA NewRegion ==
  ASSUME NEW S, NEW T, NEW R, Regular(S, T, R), NEW r \in Region, T[r] = 0,
         NEW size, NEW n, NEW own, Sized(size, n, own),
         NEW T2, NEW R2, Booked(r, size, T, R, T2, R2)
  PROVE  /\ Regular(S \cup Parts(r, size, n, own), T2, R2)
         /\ Fresh(S, r, size, n, own)
         /\ MastersIn(S, T) => MastersIn(S \cup Parts(r, size, n, own), T2)
         /\ NoneLeft(T, R) => NoneLeft(T2, R2)
<1>. DEFINE m == Master(r, size)
            c == n + own
            N == S \cup {m}
<1>0. size \in Nat \ {0} /\ n \in 1..size /\ own \in 0..(size - n) /\ (own = 0 => n = size)
  BY DEF Sized
<1>1. /\ Regular(N, T2, R2) /\ m \notin S
      /\ NoneLeft(T, R) => NoneLeft(T2, R2)
      /\ MastersIn(S, T) => MastersIn(N, T2)
  BY <1>0, NewBooks
<1>2. /\ m = [region |-> r, first |-> 0, count |-> size, master |-> r]
      /\ m \in SpanRec /\ m.count = size /\ None \notin SpanRec
  BY <1>0, SuperSpanParams DEF Master, SpanRec
<1>3. c \in 1..m.count /\ n \in 1..c
  BY <1>0, <1>2
<1>4. /\ Regular((N \ {m}) \cup Thirds(m, n, c), T2, R2)
      /\ Thirds(m, n, c) \cap (N \ {m}) = {} /\ Thirds(m, n, c) \subseteq SpanRec
      /\ Front(m, n) \notin Some(Second(m, n, c)) \cup Some(After(m, c))
      /\ Some(Second(m, n, c)) \cap Some(After(m, c)) = {}
      /\ After(m, c) # None => ~IsMaster(After(m, c))
      /\ MastersIn(N, T2) => MastersIn((N \ {m}) \cup Thirds(m, n, c), T2)
  <2>1. m \in N /\ c \in 1..m.count /\ n \in 1..c
    BY <1>3
  <2>. HIDE DEF m, c, N
  <2>. QED BY <1>1, <2>1, CutTwice
<1>5. Front(m, n) = Master(r, n)
  BY <1>2 DEF Front, Master
<1>6. After(m, c) = Rest(r, size, n, own)
  BY <1>0, <1>2 DEF After, Rest
<1>61. size - n > own => Rest(r, size, n, own) # None
  <2>1. c # m.count => After(m, c) # None
    <3>1. m \in SpanRec /\ c \in 1..m.count
      BY <1>2, <1>3
    <3>. HIDE DEF m, c
    <3>. QED BY <1>2, <3>1, CutParts
  <2>2. size - n > own => c # m.count
    BY <1>0, <1>2
  <2>. QED BY <1>6, <2>1, <2>2
<1>7. Second(m, n, c) = Own2(r, size, n, own)
  <2>1. CASE own = 0
    BY <1>0, <2>1 DEF Second, Own2
  <2>2. CASE own # 0
    <3>0. n \in Int /\ own \in Int /\ size \in Int /\ own > 0 /\ own <= size - n
      BY <1>0, <2>2
    <3>1. c > n /\ n # size /\ own \in Nat
      BY <3>0
    <3>2. Front(m, c) = [region |-> r, first |-> 0, count |-> c, master |-> r]
      BY <1>2 DEF Front
    <3>3. c - n = own /\ c # n /\ 0 + n = n
      BY <3>0
    <3>4. After(Front(m, c), n) = [region |-> r, first |-> n, count |-> own, master |-> r]
      <4>. DEFINE g == Front(m, c)
      <4>1. g = [region |-> r, first |-> 0, count |-> c, master |-> r] /\ g.count # n
        BY <3>2, <3>3
      <4>. HIDE DEF g, c
      <4>2. After(g, n) = [region |-> r, first |-> 0 + n, count |-> c - n, master |-> r]
        BY <4>1 DEF After
      <4>. QED BY <3>3, <4>2 DEF g
    <3>5. After(m, n) = [region |-> r, first |-> n, count |-> size - n, master |-> r]
      <4>. HIDE DEF m
      <4>1. After(m, n) = [region |-> r, first |-> 0 + n, count |-> size - n, master |-> r]
        BY <1>2, <3>1 DEF After
      <4>. QED BY <3>3, <4>1
    <3>6. Front(After(m, n), own) = [region |-> r, first |-> n, count |-> own, master |-> r]
      BY <3>5 DEF Front
    <3>. QED BY <2>2, <3>1, <3>4, <3>6 DEF Second, Own2
  <2>. QED BY <2>1, <2>2
<1>8. N \ {m} = S
  BY <1>1
<1>9. Thirds(m, n, c) = Parts(r, size, n, own)
  BY <1>5, <1>6, <1>7 DEF Thirds, Parts
<1>. HIDE DEF m, c, N
<1>. QED BY <1>1, <1>4, <1>5, <1>6, <1>61, <1>7, <1>8, <1>9 DEF Fresh

\* What is held apart from the global reserve
LEMMA Apart ==
  ASSUME SpanInv, NEW h \in Heap, NEW N, N \cap (Held \ Some(global_reserve)) = {}
  PROVE  (Mine(h) \cup slots \cup overflow) \cap N = {}
<1>1. Mine(h) \cup slots \cup overflow \subseteq Held
  BY HeldParts DEF Shared
<1>2. (Mine(h) \cup slots \cup overflow) \cap Some(global_reserve) = {}
  BY Own DEF Mine, Disjoint
<1>. QED BY <1>1, <1>2

\* The global reserve is large enough for any request, or is None
LEMMA ReserveSuffices ==
  ASSUME SpanInv, global_reserve # None
  PROVE  /\ global_reserve \in SpanRec /\ GlobalReserveSize = global_reserve.count
         /\ global_reserve \in Held /\ ~IsMaster(global_reserve)
         /\ LargeMax <= ReserveCount /\ config.reserve < config.map
<1>1. global_reserve \in SpanRec
  BY DEF SpanInv, HeapTypes
<1>2. global_reserve \in Held
  BY HeldParts DEF Shared, Some
<1>3. config.reserve < config.map /\ ~IsMaster(global_reserve)
  BY DEF SpanInv, GlobalReserveUsed
<1>4. LargeMax <= ReserveCount
  BY <1>3, ConfigFacts DEF SpanInv, ControlTypes, MapCount, ReserveCount
<1>. QED BY <1>1, <1>2, <1>3, <1>4 DEF GlobalReserveSize

\* From the global reserve
LEMMA MapGlobalInv ==
  ASSUME SpanInv, Masters, NEW h \in Heap, MapEnd(h), MapFromGlobalReserve(h, want[h]), UNCHANGED config
  PROVE  SpanInv' /\ Masters'
<1>. DEFINE n == want[h]
            s == global_reserve
            count == Least(GlobalReserveSize, IF reserve[h] = None THEN ReserveCount ELSE n)
            f == Front(s, n)
            b == Second(s, n, count)
            e == After(s, count)
            v == IF reserve[h] = None THEN b ELSE reserve[h]
            u == used[h] \cup {f}
            N == Thirds(s, n, count)
            G == {s}
<1>1. /\ pc[h] = "mapping" /\ pc' = [pc EXCEPT ![h] = "idle"] /\ want' = [want EXCEPT ![h] = 0]
      /\ phase = "run" /\ phase' = "run" /\ lock' \in {0, 1} /\ n \in 1..LargeMax
  BY DEF MapEnd, SpanInv, Threads, ControlTypes
<1>2. /\ GlobalReserveSize >= n
      /\ global_reserve' = After(s, count)
      /\ used' = [used EXCEPT ![h] = used[h] \cup {Front(Front(s, count), n)}]
      /\ reserve' = IF count > n THEN [reserve EXCEPT ![h] = After(Front(s, count), n)] ELSE reserve
      /\ UNCHANGED <<total, remaining, cached, heap_span, slots, overflow, spill, keep>>
  BY DEF MapFromGlobalReserve, regionVars, cacheVars
<1>3. /\ s # None /\ s \in SpanRec /\ s \in Held /\ GlobalReserveSize = s.count
      /\ LargeMax <= ReserveCount /\ config.reserve < config.map
      /\ LargeMax \in Nat /\ ReserveCount \in Nat /\ s.count \in Nat
  <2>1. s # None
    BY <1>1, <1>2, ConfigFacts DEF GlobalReserveSize, SpanInv, ControlTypes
  <2>. QED BY <2>1, ReserveSuffices, ConfigFacts, SpanParts DEF SpanInv, ControlTypes
<1>4. /\ count \in 1..s.count /\ n \in 1..count /\ n \in Nat
      /\ reserve[h] # None => count = n
  <2>1. n \in Nat /\ 1 <= n /\ n <= LargeMax /\ n <= s.count
    BY <1>1, <1>2, <1>3
  <2>. HIDE DEF n
  <2>. QED BY <1>3, <2>1 DEF Least
<1>5. /\ Regular((Held \ {s}) \cup N, total, remaining)
      /\ N \cap (Held \ {s}) = {} /\ N \subseteq SpanRec
      /\ f \notin Some(b) \cup Some(e) /\ Some(b) \cap Some(e) = {}
      /\ e # None => ~IsMaster(e)
      /\ MastersIn(Held, total) => MastersIn((Held \ {s}) \cup N, total)
  <2>1. Regular(Held, total, remaining)
    BY DEF SpanInv
  <2>2. s \in Held /\ count \in 1..s.count /\ n \in 1..count
    BY <1>3, <1>4
  <2>. HIDE DEF count, n, s
  <2>. QED BY <2>1, <2>2, CutTwice
<1>6. used' = [used EXCEPT ![h] = u] /\ reserve' = [reserve EXCEPT ![h] = v]
  <2>1. Front(Front(s, count), n) = f
    BY <1>3, SpanParts DEF Front
  <2>2. CASE count > n
    <3>1. reserve[h] = None /\ b = After(Front(s, count), n)
      BY <1>4, <2>2 DEF Second
    <3>. QED BY <1>2, <2>1, <2>2, <3>1
  <2>3. CASE ~(count > n)
    <3>1. b = None
      BY <2>3 DEF Second
    <3>2. v = reserve[h]
      BY <3>1
    <3>. QED BY <1>2, <2>1, <2>3, <3>2, Stays, Own
  <2>. QED BY <2>2, <2>3
<1>7. HeapStep(h, u, cached[h], v, heap_span[h], spill[h], keep[h])
  BY <1>2, <1>6, Stays, Own DEF HeapStep
<1>8. /\ N = {f} \cup Some(b) \cup Some(e) /\ None \notin SpanRec /\ Some(s) = {s}
      /\ Some(v) = Some(reserve[h]) \cup Some(b) /\ v \in SpanRec \cup {None}
      /\ e \in SpanRec \cup {None} /\ heap_span[h] \in SpanRec \cup {None}
  <2>1. N = {f} \cup Some(b) \cup Some(e)
    BY DEF Thirds
  <2>2. reserve[h] # None => b = None
    BY <1>4 DEF Second
  <2>. HIDE DEF N, f, b, e, s
  <2>. QED BY <1>3, <1>5, <2>1, <2>2, Own DEF Some
<1>9. Disjoint(used[h], cached[h], Some(reserve[h]), Some(heap_span[h]), spill[h],
               keep[h], slots, overflow, {s}) /\ Some(global_reserve) = {s}
  BY <1>8, Own
<1>10. (Mine(h) \cup slots \cup overflow) \cap N = {}
  BY <1>5, <1>8, Apart
<1>. HIDE DEF s, f, b, e, v, N
<1>11. Disjoint(u, cached[h], Some(v), Some(heap_span[h]), spill[h], keep[h], slots', overflow', Some(e))
  BY <1>2, <1>5, <1>8, <1>9, <1>10 DEF Disjoint, Mine
<1>12. u \cup cached[h] \cup Some(v) \cup Some(heap_span[h]) \cup spill[h] \cup keep[h]
         \cup slots' \cup overflow' \cup Some(e) = ((Mine(h) \cup Shared) \ G) \cup N
  <2>1. (Mine(h) \cup Shared) \ G = Mine(h) \cup slots \cup overflow
    BY <1>9 DEF Disjoint, Mine, Shared
  <2>. QED BY <1>2, <1>8, <2>1 DEF Mine
<1>13. e = global_reserve'
  BY <1>2 DEF e, s
<1>14. Hands(h, u, cached[h], v, heap_span[h], spill[h], keep[h], G, N)
  <2>1. G \subseteq Mine(h) \cup Shared /\ N \cap (Held \ G) = {}
    BY <1>5, <1>9 DEF Shared
  <2>. HIDE DEF u, G
  <2>. QED BY <1>5, <1>7, <1>8, <1>11, <1>12, <1>13, <2>1 DEF Hands
<1>15. /\ Regular((Held \ G) \cup N, total', remaining')
       /\ GlobalCache => MastersIn((Held \ G) \cup N, total') /\ NoneLeft(total', remaining')
  BY <1>1, <1>2, <1>5 DEF Masters
<1>16. 0 \in 0..LargeMax
  BY <1>3
<1>. HIDE DEF u, G, n
<1>. QED BY <1>1, <1>3, <1>5, <1>13, <1>14, <1>15, <1>16, HandsInv

\* A heap's reserve is put in its thread cache, if it has one
CachedReserve(h) ==
  \E c, A, B, C \in SUBSET (cached[h] \cup Some(reserve[h])) :
    /\ c \cup A \cup B \cup C = cached[h] \cup Some(reserve[h])
    /\ c \cap (A \cup B \cup C) = {} /\ A \cap B = {} /\ A \cap C = {} /\ B \cap C = {}
    /\ cached' = [cached EXCEPT ![h] = c]
    /\ slots' = slots \cup A /\ overflow' = overflow \cup B
    /\ spill' = [spill EXCEPT ![h] = C]

LEMMA InsertReserve ==
  ASSUME HeapTypes, NEW h \in Heap, spill[h] = {},
         IF reserve[h] # None THEN CacheInsert(h, reserve[h])
                              ELSE UNCHANGED <<cached, slots, overflow, spill>>
  PROVE  CachedReserve(h)
<1>1. CASE reserve[h] # None
  <2>1. Cached(h, reserve[h])
    BY <1>1, InsertCache
  <2>2. Some(reserve[h]) = {reserve[h]}
    BY <1>1 DEF Some
  <2>. QED BY <2>1, <2>2 DEF Cached, CachedReserve
<1>2. CASE reserve[h] = None
  <2>. DEFINE all == cached[h] \cup Some(reserve[h])
  <2>1. all = cached[h]
    BY <1>2 DEF Some
  <2>2. UNCHANGED <<cached, slots, overflow, spill>> /\ spill = [spill EXCEPT ![h] = {}]
        /\ cached = [cached EXCEPT ![h] = cached[h]]
    BY <1>2, Stays
  <2>. SUFFICES \E c, A, B, C \in SUBSET all :
         /\ c \cup A \cup B \cup C = all
         /\ c \cap (A \cup B \cup C) = {} /\ A \cap B = {} /\ A \cap C = {} /\ B \cap C = {}
         /\ cached' = [cached EXCEPT ![h] = c]
         /\ slots' = slots \cup A /\ overflow' = overflow \cup B
         /\ spill' = [spill EXCEPT ![h] = C]
    BY DEF CachedReserve
  <2>. WITNESS all \in SUBSET all, {} \in SUBSET all, {} \in SUBSET all, {} \in SUBSET all
  <2>. QED BY <2>1, <2>2
<1>. QED BY <1>1, <1>2

\* The books, when a region is mapped and the old global reserve may go
LEMMA MapBooks ==
  ASSUME SpanInv, Masters, phase = "run", NEW r \in Region, total[r] = 0,
         NEW size, NEW n, NEW own, Sized(size, n, own),
         IF size - n > own /\ global_reserve # None
         THEN LET m == global_reserve.master
                  left == remaining[m] - global_reserve.count
              IN /\ remaining' = [remaining EXCEPT ![r] = size, ![m] = left]
                 /\ total' = [total EXCEPT ![r] = size, ![m] = IF left <= 0 THEN 0 ELSE @]
         ELSE /\ total' = [total EXCEPT ![r] = size]
              /\ remaining' = [remaining EXCEPT ![r] = size],
         NEW G, G = IF size - n > own THEN Some(global_reserve) ELSE {}
  PROVE  /\ Regular((Held \ G) \cup Parts(r, size, n, own), total', remaining')
         /\ GlobalCache => /\ MastersIn((Held \ G) \cup Parts(r, size, n, own), total')
                           /\ NoneLeft(total', remaining')
<1>. DEFINE T == [total EXCEPT ![r] = size]
            R == [remaining EXCEPT ![r] = size]
            N == Parts(r, size, n, own)
            s == global_reserve
<1>1. /\ Regular(Held \cup N, T, R) /\ Fresh(Held, r, size, n, own)
      /\ MastersIn(Held, total) => MastersIn(Held \cup N, T)
      /\ NoneLeft(total, remaining) => NoneLeft(T, R)
  <2>1. Regular(Held, total, remaining) /\ Booked(r, size, total, remaining, T, R)
    BY DEF SpanInv, Booked
  <2>. HIDE DEF T, R
  <2>. QED BY <2>1, NewRegion
<1>2. GlobalCache => MastersIn(Held \cup N, T) /\ NoneLeft(T, R)
  BY <1>1 DEF Masters
<1>21. N \cap Held = {}
  BY <1>1 DEF Fresh
<1>3. CASE G = {}
  <2>1. total' = T /\ remaining' = R
    BY <1>3 DEF Some
  <2>2. (Held \ G) \cup N = Held \cup N
    BY <1>3
  <2>. HIDE DEF T, R, N
  <2>. QED BY <1>1, <1>2, <2>1, <2>2 DEF N
<1>4. CASE G # {}
  <2>1. size - n > own /\ s # None /\ G = {s}
    BY <1>4 DEF Some
  <2>2. s \in SpanRec /\ s \in Held /\ ~IsMaster(s)
    BY <2>1, ReserveSuffices
  <2>3. s.master # r
    <3>1. s.first + s.count <= total[s.region] /\ s.master = s.region
      BY <2>2 DEF SpanInv, Regular
    <3>2. s.first \in Nat /\ s.count \in Nat \ {0}
      BY <2>2, SpanParts
    <3>. QED BY <3>1, <3>2
  <2>. DEFINE left == remaining[s.master] - s.count
  <2>4. /\ remaining' = [R EXCEPT ![s.master] = left]
        /\ total' = [T EXCEPT ![s.master] = IF left <= 0 THEN 0 ELSE @]
    BY <2>1
  <2>5. R[s.master] - s.count = left
    <3>1. s.master \in Region /\ remaining \in [Region -> Nat]
      BY <2>2, SpanParts DEF SpanInv, Regular
    <3>. QED BY <2>3, <3>1
  <2>. HIDE DEF left, T, R
  <2>6. Unbooked(s, T, R, total', remaining')
    BY <2>4, <2>5 DEF Unbooked
  <2>7. s \in Held \cup N /\ (Held \cup N) \ {s} = (Held \ G) \cup N
    BY <1>21, <2>1, <2>2
  <2>. HIDE DEF N
  <2>. DEFINE H == Held \cup N
  <2>8. Regular(H, T, R) /\ s \in H /\ H \ {s} = (Held \ G) \cup N
    BY <1>1, <2>7
  <2>. HIDE DEF H
  <2>9. /\ Regular(H \ {s}, total', remaining')
        /\ NoneLeft(T, R) => NoneLeft(total', remaining')
        /\ MastersIn(H, T) => MastersIn(H \ {s}, total')
    BY <2>2, <2>6, <2>8, GoneBooks
  <2>. QED BY <1>2, <2>8, <2>9 DEF H, N
<1>. QED BY <1>3, <1>4

\* A region for the thread of h
LEMMA MapRegionInv ==
  ASSUME SpanInv, Masters, NEW h \in Heap, MapEnd(h), NEW r \in Region, MapRegion(h, want[h], r),
         UNCHANGED config
  PROVE  SpanInv' /\ Masters'
<1>. DEFINE n == want[h]
            size == Aligned(n)
            own == Least(size - n, ReserveCount)
            f == Master(r, n)
            b == Own2(r, size, n, own)
            e == Rest(r, size, n, own)
            v == IF size > n THEN b ELSE reserve[h]
            u == used[h] \cup {f}
            N == Parts(r, size, n, own)
            G == IF size - n > own THEN Some(global_reserve) ELSE {}
<1>1. /\ pc[h] = "mapping" /\ pc' = [pc EXCEPT ![h] = "idle"] /\ want' = [want EXCEPT ![h] = 0]
      /\ phase = "run" /\ phase' = "run" /\ lock' \in {0, 1} /\ n \in 1..LargeMax
      /\ spill[h] = {} /\ total[r] = 0
  BY DEF MapEnd, SpanInv, Threads, ControlTypes, MapRegion, Unmapped
<1>2. /\ Sized(size, n, own)
      /\ size - n > own => config.reserve < config.map
      /\ size > n => own # 0
      /\ LargeMax \in Nat
  <2>1. config \in Configs
    BY DEF SpanInv, ControlTypes
  <2>2. /\ MapCount \in Nat \ {0} /\ ReserveCount \in Nat \ {0} /\ LargeMax \in Nat
    BY <2>1, ConfigFacts
  <2>3. n \in Nat \ {0}
    BY <1>1, <2>2
  <2>4. size \in Nat \ {0} /\ n <= size /\ size - n <= MapCount
    <3>. HIDE DEF n
    <3>. QED BY <2>1, <2>3, AlignedBound
  <2>. HIDE DEF n, size
  <2>5. /\ own \in 0..(size - n) /\ (own = 0 => n = size) /\ (size > n => own # 0)
        /\ size - n > own => own = ReserveCount
    BY <2>2, <2>3, <2>4 DEF Least
  <2>6. size - n > own => ReserveCount < MapCount
    BY <2>2, <2>3, <2>4, <2>5
  <2>. HIDE DEF own
  <2>. QED BY <2>2, <2>3, <2>4, <2>5, <2>6 DEF MapCount, ReserveCount, Sized
<1>3. /\ used' = [used EXCEPT ![h] = u]
      /\ UNCHANGED <<heap_span, keep>>
      /\ IF size > n
         THEN /\ reserve' = [reserve EXCEPT ![h] = Front(After(Master(r, size), n), own)]
              /\ IF reserve[h] # None THEN CacheInsert(h, reserve[h])
                                      ELSE UNCHANGED <<cached, slots, overflow, spill>>
         ELSE UNCHANGED <<reserve, cached, slots, overflow, spill>>
      /\ size - n > own => global_reserve' = After(Master(r, size), n + own)
      /\ ~(size - n > own) => UNCHANGED global_reserve
  BY DEF MapRegion
<1>4. IF size - n > own /\ global_reserve # None
      THEN LET m == global_reserve.master
               left == remaining[m] - global_reserve.count
           IN /\ remaining' = [remaining EXCEPT ![r] = size, ![m] = left]
              /\ total' = [total EXCEPT ![r] = size, ![m] = IF left <= 0 THEN 0 ELSE @]
      ELSE /\ total' = [total EXCEPT ![r] = size]
           /\ remaining' = [remaining EXCEPT ![r] = size]
  BY DEF MapRegion
<1>5. /\ Regular((Held \ G) \cup N, total', remaining')
      /\ GlobalCache => MastersIn((Held \ G) \cup N, total') /\ NoneLeft(total', remaining')
  <2>1. G = IF size - n > own THEN Some(global_reserve) ELSE {}
    OBVIOUS
  <2>. HIDE DEF n, size, own, G
  <2>. QED BY <1>1, <1>2, <1>4, <2>1, MapBooks
<1>6. /\ N \cap Held = {} /\ N \subseteq SpanRec
      /\ f \notin Some(b) \cup Some(e) /\ Some(b) \cap Some(e) = {}
      /\ e # None => ~IsMaster(e)
      /\ size - n > own => e # None
  <2>. DEFINE T == [total EXCEPT ![r] = size]
              R == [remaining EXCEPT ![r] = size]
  <2>1. Regular(Held, total, remaining) /\ Booked(r, size, total, remaining, T, R)
    BY DEF SpanInv, Booked
  <2>2. total[r] = 0 /\ Sized(size, n, own)
    BY <1>1, <1>2
  <2>. HIDE DEF T, R, n, size, own
  <2>3. Fresh(Held, r, size, n, own)
    BY <2>1, <2>2, NewRegion
  <2>. QED BY <2>3 DEF Fresh
<1>7. /\ global_reserve' = IF size - n > own THEN e ELSE global_reserve
      /\ size > n => b = Front(After(Master(r, size), n), own)
      /\ ~(size > n) => b = None
      /\ ~(size - n > own) => e = None
  <2>. HIDE DEF n, size, own
  <2>. QED BY <1>2, <1>3 DEF Own2, Rest, Sized
<1>8. reserve' = [reserve EXCEPT ![h] = v]
  <2>1. CASE size > n
    <3>. HIDE DEF n, size, own, b
    <3>. QED BY <1>3, <1>7, <2>1
  <2>2. CASE ~(size > n)
    <3>. HIDE DEF n, size, own, b
    <3>. QED BY <1>3, <2>2, Stays, Own
  <2>. QED BY <2>1, <2>2
<1>9. /\ N = {f} \cup Some(b) \cup Some(e) /\ None \notin SpanRec
      /\ b \in SpanRec \cup {None} /\ e \in SpanRec \cup {None} /\ heap_span[h] \in SpanRec \cup {None}
      /\ reserve[h] \in SpanRec \cup {None} /\ global_reserve \in SpanRec \cup {None}
  <2>1. N = {f} \cup Some(b) \cup Some(e)
    BY DEF Parts
  <2>. HIDE DEF N, f, b, e, n, size, own
  <2>. QED BY <1>6, <2>1, Own DEF Some, SpanInv, HeapTypes
<1>10. (Mine(h) \cup Shared) \cap N = {}
  BY <1>6, AllHeld
<1>11. G \subseteq Shared /\ Some(global_reserve') = (Some(global_reserve) \ G) \cup Some(e)
       /\ global_reserve' \in SpanRec \cup {None}
  <2>. HIDE DEF n, size, own, b, e
  <2>. QED BY <1>7, <1>9 DEF Some, Shared
<1>12. (Held \ G) \cap N = {} /\ G \subseteq Mine(h) \cup Shared
  BY <1>6, <1>11
<1>13. /\ global_reserve' \notin {global_reserve, None}
            => config.reserve < config.map /\ ~IsMaster(global_reserve')
       /\ 0 \in 0..LargeMax
  <2>. HIDE DEF n, size, own, b, e
  <2>. QED BY <1>2, <1>6, <1>7
<1>14. ASSUME NEW c, NEW A, NEW B, NEW C, NEW old, old \in {{}, Some(reserve[h])},
              c \cup A \cup B \cup C = cached[h] \cup old,
              c \cap (A \cup B \cup C) = {}, A \cap B = {}, A \cap C = {}, B \cap C = {},
              cached' = [cached EXCEPT ![h] = c],
              slots' = slots \cup A, overflow' = overflow \cup B,
              spill' = [spill EXCEPT ![h] = C],
              Some(v) = (Some(reserve[h]) \ old) \cup Some(b), v \in SpanRec \cup {None}
       PROVE  SpanInv' /\ Masters'
  <2>. HIDE DEF n, size, own, f, b, e, v, N, G
  <2>1. HeapStep(h, u, c, v, heap_span[h], C, keep[h])
    BY <1>3, <1>8, <1>14, Stays, Own DEF HeapStep
  <2>2. Disjoint(used[h], cached[h], Some(reserve[h]), Some(heap_span[h]), spill[h],
                 keep[h], slots, overflow, Some(global_reserve))
    BY Own
  <2>3. Disjoint(u, c, Some(v), Some(heap_span[h]), C, keep[h], slots', overflow', Some(global_reserve'))
    <3>. DEFINE gr == Some(global_reserve)
                g2 == Some(global_reserve')
                rv == Some(reserve[h])
                hs == Some(heap_span[h])
                sb == Some(b)
                se == Some(e)
    <3>1. g2 = (gr \ G) \cup se /\ Some(v) = (rv \ old) \cup sb
      BY <1>11, <1>14
    <3>2. (used[h] \cup cached[h] \cup rv \cup hs \cup keep[h] \cup slots \cup overflow \cup gr)
            \cap ({f} \cup sb \cup se) = {}
      BY <1>9, <1>10 DEF Mine, Shared
    <3>3. f \notin sb /\ f \notin se /\ sb \cap se = {}
      BY <1>6
    <3>4. old \subseteq rv
      BY <1>14
    <3>. HIDE DEF gr, g2, rv, hs, sb, se
    <3>5. /\ used[h] \cap (cached[h] \cup rv \cup hs \cup keep[h] \cup slots \cup overflow \cup gr) = {}
          /\ cached[h] \cap (rv \cup hs \cup keep[h] \cup slots \cup overflow \cup gr) = {}
          /\ rv \cap (hs \cup keep[h] \cup slots \cup overflow \cup gr) = {}
          /\ hs \cap (keep[h] \cup slots \cup overflow \cup gr) = {}
          /\ keep[h] \cap (slots \cup overflow \cup gr) = {}
          /\ slots \cap (overflow \cup gr) = {}
          /\ overflow \cap gr = {}
      BY <2>2 DEF Disjoint, gr, rv, hs
    <3>6. c \subseteq cached[h] \cup old /\ A \subseteq cached[h] \cup old
          /\ B \subseteq cached[h] \cup old /\ C \subseteq cached[h] \cup old
      BY <1>14
    <3>7. Disjoint(u, c, (rv \ old) \cup sb, hs, C, keep[h], slots \cup A, overflow \cup B,
                   (gr \ G) \cup se)
      BY <1>14, <3>2, <3>3, <3>4, <3>5, <3>6 DEF Disjoint
    <3>. QED BY <1>14, <3>1, <3>7 DEF g2, rv, hs, sb, se
  <2>4. u \cup c \cup Some(v) \cup Some(heap_span[h]) \cup C \cup keep[h]
          \cup slots' \cup overflow' \cup Some(global_reserve')
         = ((Mine(h) \cup Shared) \ G) \cup N
    <3>1. G \subseteq Some(global_reserve)
      BY DEF G
    <3>2. (Mine(h) \cup Shared) \ G = Mine(h) \cup slots \cup overflow \cup (Some(global_reserve) \ G)
      BY <2>2, <3>1 DEF Disjoint, Mine, Shared
    <3>3. old \subseteq Some(reserve[h])
      BY <1>14
    <3>. QED BY <1>1, <1>9, <1>11, <1>14, <3>2, <3>3 DEF Mine
  <2>5. Hands(h, u, c, v, heap_span[h], C, keep[h], G, N)
    <3>. HIDE DEF u
    <3>. QED BY <1>6, <1>9, <1>11, <1>12, <1>14, <2>1, <2>3, <2>4 DEF Hands
  <2>. HIDE DEF u
  <2>. QED BY <1>1, <1>5, <1>13, <2>5, HandsInv
<1>15. CASE size > n
  <2>1. CachedReserve(h)
    BY <1>1, <1>3, <1>15, InsertReserve, Own
  <2>2. PICK c, A, B, C \in SUBSET (cached[h] \cup Some(reserve[h])) :
          /\ c \cup A \cup B \cup C = cached[h] \cup Some(reserve[h])
          /\ c \cap (A \cup B \cup C) = {} /\ A \cap B = {} /\ A \cap C = {} /\ B \cap C = {}
          /\ cached' = [cached EXCEPT ![h] = c]
          /\ slots' = slots \cup A /\ overflow' = overflow \cup B
          /\ spill' = [spill EXCEPT ![h] = C]
    BY <2>1 DEF CachedReserve
  <2>. DEFINE old == Some(reserve[h])
  <2>3. old \in {{}, Some(reserve[h])} /\ Some(v) = (Some(reserve[h]) \ old) \cup Some(b)
        /\ v \in SpanRec \cup {None}
    <3>1. v = b
      BY <1>15
    <3>. HIDE DEF v, b
    <3>. QED BY <1>9, <3>1
  <2>4. /\ c \cup A \cup B \cup C = cached[h] \cup old
        /\ c \cap (A \cup B \cup C) = {} /\ A \cap B = {} /\ A \cap C = {} /\ B \cap C = {}
    BY <2>2
  <2>. HIDE DEF n, size, own, f, b, e, v, N, G, u, old
  <2>. QED BY <1>14, <2>2, <2>3, <2>4
<1>16. CASE ~(size > n)
  <2>. DEFINE c == cached[h]
              E == {}
  <2>1. /\ cached' = [cached EXCEPT ![h] = c] /\ slots' = slots \cup E /\ overflow' = overflow \cup E
        /\ spill' = [spill EXCEPT ![h] = E]
    BY <1>1, <1>3, <1>16, Stays, Own
  <2>2. c \cup E \cup E \cup E = cached[h] \cup E /\ c \cap (E \cup E \cup E) = {} /\ E \cap E = {}
        /\ E \in {{}, Some(reserve[h])}
    OBVIOUS
  <2>3. Some(v) = (Some(reserve[h]) \ E) \cup Some(b) /\ v \in SpanRec \cup {None}
    <3>1. v = reserve[h] /\ b = None
      BY <1>7, <1>16
    <3>. HIDE DEF v, b
    <3>. QED BY <1>9, <3>1 DEF Some
  <2>. HIDE DEF n, size, own, f, b, e, v, N, G, u, c, E
  <2>. QED BY <1>14, <2>1, <2>2, <2>3
<1>. QED BY <1>15, <1>16

LEMMA MapEndInv ==
  ASSUME SpanInv, Masters, NEW h \in Heap, MapEnd(h), UNCHANGED config
  PROVE  SpanInv' /\ Masters'
<1>1. CASE MapFromGlobalReserve(h, want[h])
  BY <1>1, MapGlobalInv
<1>2. CASE \E r \in Region : MapRegion(h, want[h], r)
  BY <1>2, MapRegionInv
<1>3. CASE MapFails
  <2>1. /\ pc' = [pc EXCEPT ![h] = "idle"] /\ want' = [want EXCEPT ![h] = 0] /\ phase = "run"
        /\ lock' \in {0, 1} /\ 0 \in 0..LargeMax
        /\ UNCHANGED <<regionVars, heapVars, global_reserve, cacheVars, phase>>
    BY <1>3, ConfigFacts DEF MapEnd, MapFails, SpanInv, Threads, ControlTypes
  <2>. QED BY <2>1, StillInv
<1>. QED BY <1>1, <1>2, <1>3 DEF MapEnd

\* A heap that is being made has nothing
LEMMA NothingYet ==
  ASSUME SpanInv, NEW h \in Heap, pc[h] = "creating"
  PROVE  /\ used[h] = {} /\ cached[h] = {} /\ spill[h] = {} /\ keep[h] = {}
         /\ reserve[h] = None /\ heap_span[h] = None /\ Mine(h) = {}
         /\ Some(reserve[h]) = {} /\ Some(heap_span[h]) = {}
<1>1. Mine(h) = {}
  BY DEF SpanInv, Threads
<1>. QED BY <1>1 DEF Mine, Some

\* What a new heap is made of: span f for itself, reserve b, and e is left
LEMMA HeapMade ==
  ASSUME SpanInv, NEW h \in Heap, HeapCreate(h), UNCHANGED config,
         NEW f \in SpanRec, NEW b \in SpanRec \cup {None}, NEW e \in SpanRec \cup {None}, NEW N, NEW G,
         N = {f} \cup Some(b) \cup Some(e), f \notin Some(b) \cup Some(e), Some(b) \cap Some(e) = {},
         heap_span' = [heap_span EXCEPT ![h] = f], reserve' = [reserve EXCEPT ![h] = b],
         G \subseteq Some(global_reserve), N \cap (Held \ G) = {},
         global_reserve' \in SpanRec \cup {None},
         Some(global_reserve') = (Some(global_reserve) \ G) \cup Some(e),
         Regular((Held \ G) \cup N, total', remaining'),
         GlobalCache => MastersIn((Held \ G) \cup N, total') /\ NoneLeft(total', remaining'),
         global_reserve' \notin {global_reserve, None}
           => config.reserve < config.map /\ ~IsMaster(global_reserve')
  PROVE  SpanInv' /\ Masters'
<1>1. /\ pc[h] = "creating" /\ pc' = [pc EXCEPT ![h] = "idle"] /\ want' = [want EXCEPT ![h] = want[h]]
      /\ want[h] \in 0..LargeMax /\ phase = "run" /\ phase' = "run" /\ lock' \in {0, 1}
      /\ UNCHANGED <<used, cached, slots, overflow, spill, keep>>
  BY DEF HeapCreate, SpanInv, Threads, ControlTypes, cacheVars
<1>2. HeapStep(h, {}, {}, b, f, {}, {})
  BY <1>1, NothingYet, Stays, Own DEF HeapStep
<1>3. Disjoint({}, {}, {}, {}, {}, {}, slots, overflow, Some(global_reserve))
  BY Own DEF Disjoint
<1>4. (slots \cup overflow \cup (Some(global_reserve) \ G)) \cap N = {} /\ G \cap (slots \cup overflow) = {}
  <2>1. slots \cup overflow \cup Some(global_reserve) \subseteq Held
    BY HeldParts DEF Shared
  <2>. QED BY <1>3, <2>1 DEF Disjoint
<1>5. Some(f) = {f}
  BY Own DEF Some
<1>6. Disjoint({}, {}, Some(b), Some(f), {}, {}, slots', overflow', Some(global_reserve'))
  BY <1>1, <1>3, <1>4, <1>5 DEF Disjoint
<1>7. {} \cup {} \cup Some(b) \cup Some(f) \cup {} \cup {} \cup slots' \cup overflow'
        \cup Some(global_reserve') = ((Mine(h) \cup Shared) \ G) \cup N
  <2>1. Mine(h) \cup Shared = slots \cup overflow \cup Some(global_reserve)
    BY <1>1, NothingYet DEF Shared
  <2>. QED BY <1>1, <1>4, <1>5, <2>1
<1>8. N \subseteq SpanRec /\ G \subseteq Mine(h) \cup Shared
  BY DEF Some, Shared
<1>. DEFINE E == {}
<1>9. Hands(h, E, E, b, f, E, E, G, N)
  BY <1>2, <1>6, <1>7, <1>8 DEF Hands
<1>. HIDE DEF E
<1>. QED BY <1>1, <1>9, HandsInv

LEMMA HeapFromReserveInv ==
  ASSUME SpanInv, Masters, NEW h \in Heap, HeapCreate(h), GlobalReserveSize >= HeapSpans, UNCHANGED config
  PROVE  SpanInv' /\ Masters'
<1>. DEFINE n == HeapSpans
            s == global_reserve
            f == Front(s, n)
            e == After(s, n)
            N == Thirds(s, n, n)
            G == {s}
<1>1. /\ heap_span' = [heap_span EXCEPT ![h] = f] /\ global_reserve' = e
      /\ UNCHANGED <<total, remaining, reserve>> /\ pc[h] = "creating"
  BY DEF HeapCreate, HeapFromReserve, regionVars
<1>2. n \in Nat \ {0} /\ s # None
  BY SuperSpanParams DEF GlobalReserveSize
<1>3. s \in SpanRec /\ s \in Held /\ s.count \in Nat /\ n \in 1..s.count /\ n \in 1..n
      /\ config.reserve < config.map
  <2>1. s \in SpanRec /\ s \in Held /\ GlobalReserveSize = s.count /\ config.reserve < config.map
    BY <1>2, ReserveSuffices
  <2>2. s.count \in Nat
    BY <2>1, SpanParts
  <2>. QED BY <1>2, <2>1, <2>2
<1>4. /\ Regular((Held \ {s}) \cup N, total, remaining)
      /\ N \cap (Held \ {s}) = {} /\ N \subseteq SpanRec
      /\ f \notin Some(Second(s, n, n)) \cup Some(e)
      /\ e # None => ~IsMaster(e)
      /\ MastersIn(Held, total) => MastersIn((Held \ {s}) \cup N, total)
  <2>1. Regular(Held, total, remaining)
    BY DEF SpanInv
  <2>. HIDE DEF s, n
  <2>. QED BY <1>3, <2>1, CutTwice
<1>5. Second(s, n, n) = None
  BY <1>2 DEF Second
<1>. DEFINE b == None
<1>6. N = {f} \cup Some(b) \cup Some(e) /\ Some(b) = {}
  BY <1>5 DEF Thirds, Some
<1>7. f \in SpanRec /\ e \in SpanRec \cup {None} /\ Some(s) = {s}
  <2>. HIDE DEF f, e, N, b, s
  <2>. QED BY <1>2, <1>3, <1>4, <1>6 DEF Some, s
<1>8. /\ b \in SpanRec \cup {None} /\ f \notin Some(b) \cup Some(e) /\ Some(b) \cap Some(e) = {}
      /\ reserve' = [reserve EXCEPT ![h] = b]
  <2>1. reserve[h] = None
    BY <1>1, NothingYet
  <2>2. reserve' = [reserve EXCEPT ![h] = b]
    BY <1>1, <2>1, Stays, Own
  <2>. HIDE DEF f, e, N
  <2>. QED BY <1>4, <1>6, <2>2
<1>9. /\ G \subseteq Some(global_reserve) /\ N \cap (Held \ G) = {}
      /\ global_reserve' \in SpanRec \cup {None}
      /\ Some(global_reserve') = (Some(global_reserve) \ G) \cup Some(e)
  <2>. HIDE DEF f, e, N
  <2>. QED BY <1>1, <1>4, <1>7
<1>10. /\ Regular((Held \ G) \cup N, total', remaining')
       /\ GlobalCache => MastersIn((Held \ G) \cup N, total') /\ NoneLeft(total', remaining')
       /\ global_reserve' \notin {global_reserve, None}
            => config.reserve < config.map /\ ~IsMaster(global_reserve')
  <2>1. phase = "run"
    BY <1>1 DEF SpanInv, Threads
  <2>. HIDE DEF f, e, N
  <2>. QED BY <1>1, <1>3, <1>4, <2>1 DEF Masters
<1>. HIDE DEF f, e, N, b, G, n, s
<1>. QED BY <1>1, <1>6, <1>7, <1>8, <1>9, <1>10, HeapMade

LEMMA HeapFromRegionInv ==
  ASSUME SpanInv, Masters, NEW h \in Heap, HeapCreate(h), GlobalReserveSize < HeapSpans,
         NEW r \in Region, HeapFromRegion(h, r), UNCHANGED config
  PROVE  SpanInv' /\ Masters'
<1>. DEFINE n == HeapSpans
            size == IF PageSpans > HeapSpans THEN PageSpans ELSE HeapSpans
            own == Least(size - n, ReserveCount)
            f == Master(r, n)
            b == Own2(r, size, n, own)
            e == Rest(r, size, n, own)
            N == Parts(r, size, n, own)
            G == IF size - n > own THEN Some(global_reserve) ELSE {}
<1>1. /\ total[r] = 0 /\ pc[h] = "creating" /\ config \in Configs /\ phase = "run"
      /\ total' = [total EXCEPT ![r] = size] /\ remaining' = [remaining EXCEPT ![r] = size]
      /\ heap_span' = [heap_span EXCEPT ![h] = f]
      /\ reserve' = IF own > 0
                    THEN [reserve EXCEPT ![h] = Front(After(Master(r, size), n), own)]
                    ELSE reserve
      /\ global_reserve' = IF size - n > own THEN After(Master(r, size), n + own) ELSE global_reserve
  BY DEF HeapFromRegion, HeapCreate, Unmapped, SpanInv, Threads, ControlTypes
<1>2. /\ Sized(size, n, own) /\ own \in Nat
      /\ size - n > own => config.reserve < config.map
      /\ size - n > own /\ NoLoss => global_reserve = None
  <2>1. n \in Nat \ {0} /\ PageSpans \in Nat \ {0} /\ MapCount \in Nat \ {0}
        /\ ReserveCount \in Nat \ {0} /\ MapCount % PageSpans = 0
    BY <1>1, SuperSpanParams, ConfigFacts
  <2>2. size \in Nat \ {0} /\ n <= size /\ (size # n => size = PageSpans)
    BY <2>1
  <2>3. PageSpans <= MapCount
    <3>1. PageSpans > MapCount => MapCount % PageSpans = MapCount
      BY <2>1
    <3>. QED BY <2>1, <3>1
  <2>. HIDE DEF size, n
  <2>4. /\ own \in 0..(size - n) /\ (own = 0 => n = size)
        /\ size - n > own => own = ReserveCount
    BY <2>1, <2>2 DEF Least
  <2>. HIDE DEF own
  <2>5. size - n > own => n + ReserveCount < PageSpans /\ ReserveCount < MapCount
    BY <2>1, <2>2, <2>3, <2>4
  <2>6. size - n > own /\ NoLoss => HeapSpans = 1
    <3>1. SUFFICES ASSUME size - n > own, NoLoss PROVE ~(PageSpans <= HeapSpans + ReserveCount)
      BY <1>1 DEF NoLoss, PageSpans, ReserveCount
    <3>. QED BY <2>1, <2>5, <3>1 DEF n
  <2>7. HeapSpans = 1 => global_reserve = None
    <3>1. global_reserve # None => GlobalReserveSize \in Nat \ {0}
      BY ReserveSuffices, SpanParts
    <3>. QED BY <3>1
  <2>. QED BY <2>2, <2>4, <2>5, <2>6, <2>7, <2>1 DEF Sized, MapCount, ReserveCount
<1>. DEFINE T == [total EXCEPT ![r] = size]
            R == [remaining EXCEPT ![r] = size]
<1>3. /\ Regular(Held \cup N, T, R) /\ Fresh(Held, r, size, n, own)
      /\ MastersIn(Held, total) => MastersIn(Held \cup N, T)
      /\ NoneLeft(total, remaining) => NoneLeft(T, R)
  <2>1. Regular(Held, total, remaining) /\ Booked(r, size, total, remaining, T, R)
    BY DEF SpanInv, Booked
  <2>2. Sized(size, n, own) /\ total[r] = 0
    BY <1>1, <1>2
  <2>. HIDE DEF T, R, size, n, own
  <2>. QED BY <2>1, <2>2, NewRegion
<1>4. /\ N \cap Held = {} /\ N \subseteq SpanRec
      /\ f \notin Some(b) \cup Some(e) /\ Some(b) \cap Some(e) = {}
      /\ e # None => ~IsMaster(e)
      /\ size - n > own => e # None
  <2>. HIDE DEF size, n, own
  <2>. QED BY <1>3 DEF Fresh
<1>5. /\ N = {f} \cup Some(b) \cup Some(e)
      /\ f \in SpanRec /\ b \in SpanRec \cup {None} /\ e \in SpanRec \cup {None}
  <2>1. N = {f} \cup Some(b) \cup Some(e)
    BY DEF Parts
  <2>. HIDE DEF N, f, b, e
  <2>. QED BY <1>4, <2>1 DEF Some
<1>6. /\ reserve' = [reserve EXCEPT ![h] = b]
      /\ global_reserve' = IF size - n > own THEN e ELSE global_reserve
      /\ ~(size - n > own) => e = None
  <2>1. reserve[h] = None /\ reserve = [reserve EXCEPT ![h] = reserve[h]]
    BY <1>1, NothingYet, Stays, Own
  <2>2. own > 0 => b = Front(After(Master(r, size), n), own)
    <3>. HIDE DEF size, n, own
    <3>. QED BY <1>2 DEF Own2
  <2>3. ~(own > 0) => b = None
    <3>. HIDE DEF size, n, own
    <3>. QED BY <1>2 DEF Own2
  <2>4. /\ size - n > own => e = After(Master(r, size), n + own)
        /\ ~(size - n > own) => e = None
    <3>. HIDE DEF size, n, own
    <3>. QED BY DEF Rest
  <2>. HIDE DEF size, n, own, b, e, f, N
  <2>. QED BY <1>1, <2>1, <2>2, <2>3, <2>4
<1>7. /\ G \subseteq Some(global_reserve) /\ global_reserve' \in SpanRec \cup {None}
      /\ Some(global_reserve') = (Some(global_reserve) \ G) \cup Some(e)
      /\ global_reserve' \notin {global_reserve, None}
            => config.reserve < config.map /\ ~IsMaster(global_reserve')
  <2>. HIDE DEF size, n, own, b, e, f, N
  <2>. QED BY <1>2, <1>4, <1>5, <1>6 DEF Some, SpanInv, HeapTypes
<1>8. /\ Regular((Held \ G) \cup N, total', remaining')
      /\ GlobalCache => MastersIn((Held \ G) \cup N, total') /\ NoneLeft(total', remaining')
  <2>1. total' = T /\ remaining' = R
    BY <1>1
  <2>. DEFINE H == Held \cup N
  <2>2. Regular(H, T, R) /\ (GlobalCache => MastersIn(H, T) /\ NoneLeft(T, R))
    <3>. HIDE DEF T, R, N
    <3>. QED BY <1>1, <1>3 DEF Masters
  <2>. HIDE DEF T, R
  <2>3. CASE G = {}
    <3>1. (Held \ G) \cup N = H
      BY <2>3
    <3>. HIDE DEF H
    <3>. QED BY <2>1, <2>2, <3>1
  <2>4. CASE G # {}
    <3>. DEFINE s == global_reserve
    <3>1. size - n > own /\ s # None /\ G = {s} /\ ~NoLoss
      <4>. HIDE DEF size, n, own
      <4>. QED BY <1>2, <2>4 DEF Some
    <3>2. s \in Held /\ ~IsMaster(s)
      BY <3>1, ReserveSuffices
    <3>3. s \in H /\ H \ {s} = (Held \ G) \cup N
      BY <1>4, <3>1, <3>2
    <3>. HIDE DEF H, s
    <3>4. Regular(H \ {s}, T, R) /\ (MastersIn(H, T) => MastersIn(H \ {s}, T))
      BY <2>2, <3>1, <3>2, <3>3, LostBooks
    <3>. QED BY <2>1, <2>2, <3>3, <3>4
  <2>. QED BY <2>3, <2>4
<1>9. N \cap (Held \ G) = {}
  BY <1>4
<1>. HIDE DEF size, n, own, b, e, f, N, G
<1>. QED BY <1>1, <1>4, <1>5, <1>6, <1>7, <1>8, <1>9, HeapMade

LEMMA HeapCreateInv ==
  ASSUME SpanInv, Masters, NEW h \in Heap, HeapCreate(h), UNCHANGED config
  PROVE  SpanInv' /\ Masters'
<1>1. CASE GlobalReserveSize >= HeapSpans
  BY <1>1, HeapFromReserveInv
<1>2. CASE ~(GlobalReserveSize >= HeapSpans)
  <2>1. GlobalReserveSize < HeapSpans
    <3>1. GlobalReserveSize \in Nat
      BY ReserveSuffices, SpanParts DEF GlobalReserveSize
    <3>. QED BY <1>2, <3>1, SuperSpanParams
  <2>2. PICK r \in Region : HeapFromRegion(h, r)
    BY <1>2 DEF HeapCreate
  <2>. QED BY <2>1, <2>2, HeapFromRegionInv
<1>. QED BY <1>1, <1>2

---------------------------------------------------------------------------
(* rpmalloc_finalize and what comes after it *)

\* A region that has a span is counted
LEMMA Counted ==
  ASSUME NEW S, NEW T, NEW R, Regular(S, T, R), NEW s \in S
  PROVE  R[s.region] # 0
<1>. DEFINE U == UnitsOf(S, s.region)
<1>1. s \in SpanRec /\ s.region \in Region
  BY SpanParts DEF Regular
<1>2. Units(s) \subseteq U /\ Units(s) # {}
  BY <1>1, UnitsOfSpan DEF UnitsOf
<1>3. IsFiniteSet(U)
  BY <1>1, UnitsFinite
<1>4. R[s.region] >= Cardinality(U) /\ R[s.region] \in Nat
  BY <1>1 DEF Regular
<1>5. Cardinality(U) \in Nat /\ Cardinality(U) # 0
  <2>. HIDE DEF U
  <2>. QED BY <1>2, <1>3, FS_CardinalityType, FS_EmptySet
<1>. QED BY <1>4, <1>5

LEMMA FinalizeReserveInv ==
  ASSUME SpanInv, Masters, FinalizeReserve, UNCHANGED config
  PROVE  SpanInv' /\ Masters'
<1>. DEFINE s == global_reserve
            G == Some(s)
<1>1. /\ phase = "run" /\ phase' = "heaps" /\ lock' = 0 /\ global_reserve' = None
      /\ UNCHANGED <<total, used, cached, reserve, heap_span, slots, overflow, spill, keep, pc, want>>
      /\ remaining' = IF s = None THEN remaining
                      ELSE [remaining EXCEPT ![s.master] = remaining[s.master] - s.count]
      /\ \A h \in Heap : Ready(h) \/ pc[h] \in {"absent", "orphan"}
  BY DEF FinalizeReserve, heapVars, cacheVars
<1>2. Regular(Held, total, remaining) /\ HeapTypes /\ Separate /\ ControlTypes /\ Threads
  BY DEF SpanInv
<1>3. /\ HeapTypes' /\ Separate' /\ Held' = Held \ G
      /\ \A g \in Heap : Mine(g)' = Mine(g)
  <2>1. /\ slots' = slots \ G /\ overflow' = overflow \ G /\ Some(global_reserve') = Some(global_reserve) \ G
        /\ global_reserve' \in SpanRec \cup {None} /\ G \subseteq Shared
    <3>1. slots \cap G = {} /\ overflow \cap G = {}
      BY <1>2 DEF Separate
    <3>. QED BY <1>1, <3>1 DEF Some, Shared
  <2>. HIDE DEF G
  <2>. QED BY <1>1, <1>2, <2>1, Dropped
<1>4. Regular(Held \ G, total, remaining') /\ (GlobalCache => NoneLeft(total, remaining'))
  <2>1. CASE s = None
    <3>1. Held \ G = Held /\ remaining' = remaining
      BY <1>1, <2>1 DEF Some
    <3>. QED BY <1>2, <3>1 DEF Masters
  <2>2. CASE s # None
    <3>1. G = {s} /\ s \in Held /\ ~IsMaster(s)
      BY <2>2, ReserveSuffices DEF Some
    <3>. DEFINE left == remaining[s.master] - s.count
                R == [remaining EXCEPT ![s.master] = left]
                T == [total EXCEPT ![s.master] = IF left <= 0 THEN 0 ELSE @]
    <3>2. Unbooked(s, total, remaining, T, R) /\ remaining' = R
      BY <1>1, <2>2 DEF Unbooked
    <3>. HIDE DEF T, R
    <3>3. Regular(Held \ {s}, total, R)
      BY <1>2, <3>1, <3>2, GoneBooks
    <3>4. ASSUME GlobalCache, NEW r \in Region, R[r] = 0, total[r] # 0 PROVE FALSE
      <4>1. PICK t \in Held : t.region = r /\ IsMaster(t)
        BY <1>1, <3>4 DEF Masters, MastersIn
      <4>2. t \in Held \ {s}
        BY <3>1, <4>1
      <4>. QED BY <3>3, <3>4, <4>1, <4>2, Counted
    <3>. QED BY <3>1, <3>2, <3>3, <3>4 DEF NoneLeft
  <2>. QED BY <2>1, <2>2
<1>5. ControlTypes' /\ Threads' /\ Emptied' /\ GlobalReserveUsed'
  <2>1. ControlTypes'
    BY <1>1, <1>2 DEF ControlTypes, LargeMax
  <2>2. \A h \in Heap : /\ pc[h] \in {"absent", "idle", "orphan"}
                        /\ spill[h] = {} /\ keep[h] = {}
    BY <1>1, <1>2 DEF Ready, Threads, Mine
  <2>3. Threads'
    BY <1>1, <1>2, <1>3, <2>2 DEF Threads
  <2>. QED BY <1>1, <2>1, <2>3 DEF Emptied, GlobalReserveUsed
<1>6. Regular(Held', total', remaining') /\ Masters'
  <2>1. Held' = Held \ G /\ total' = total
    BY <1>1, <1>3
  <2>. HIDE DEF G
  <2>. QED BY <1>1, <1>4, <2>1 DEF Masters
<1>. QED BY <1>3, <1>5, <1>6 DEF SpanInv

\* A step after rpmalloc_finalize began: spans only go
LEMMA LateStep ==
  ASSUME SpanInv, Masters, phase # "run", phase' \in {"heaps", "caches", "finalized", "teardown"},
         UNCHANGED <<config, lock, want, spill, keep>>,
         NEW h \in Heap, NEW l, pc' = [pc EXCEPT ![h] = l],
         l = pc[h] \/ l = "idle" \/ (l = "closing" /\ phase' = "teardown"),
         phase = "teardown" => phase' = "teardown",
         \A g \in Heap : Mine(g)' \subseteq Mine(g),
         HeapTypes', Separate', Regular(Held', total', remaining'),
         GlobalCache => NoneLeft(total', remaining'), Emptied'
  PROVE  SpanInv' /\ Masters'
<1>1. ControlTypes /\ Threads
  BY DEF SpanInv
<1>2. ControlTypes'
  BY <1>1 DEF ControlTypes, LargeMax
<1>3. Threads'
  <2>. SUFFICES ASSUME NEW g \in Heap
                PROVE  /\ pc'[g] \in {"absent", "creating"} => Mine(g)' = {}
                       /\ pc'[g] # "mapping"
                       /\ pc'[g] = "closing" => phase' = "teardown"
                       /\ pc'[g] \in {"absent", "idle", "orphan", "closing"}
                       /\ spill'[g] = {} /\ keep'[g] = {}
    BY DEF Threads
  <2>1. /\ pc[g] \in {"absent", "idle", "orphan", "closing"} /\ spill[g] = {} /\ keep[g] = {}
        /\ pc[g] = "closing" => phase = "teardown"
        /\ pc[g] = "absent" => Mine(g) = {}
    BY <1>1 DEF Threads
  <2>2. pc'[g] = pc[g] \/ (g = h /\ pc'[g] = l)
    BY <1>1 DEF ControlTypes
  <2>. QED BY <2>1, <2>2
<1>4. GlobalReserveUsed' /\ Masters'
  BY DEF Emptied, GlobalReserveUsed, Masters
<1>. QED BY <1>2, <1>3, <1>4 DEF SpanInv

\* Heap h no longer has span s
Loses(h, u, c, v, p, s) ==
  /\ used' = [used EXCEPT ![h] = u] /\ cached' = [cached EXCEPT ![h] = c]
  /\ reserve' = [reserve EXCEPT ![h] = v] /\ heap_span' = [heap_span EXCEPT ![h] = p]
  /\ u = used[h] \ {s} /\ c = cached[h] \ {s}
  /\ v \in {reserve[h], None} /\ Some(v) = Some(reserve[h]) \ {s}
  /\ p \in {heap_span[h], None} /\ Some(p) = Some(heap_span[h]) \ {s}
  /\ s \in used[h] \cup cached[h] \cup Some(reserve[h]) \cup Some(heap_span[h])

\* One of the spans of h is unmapped
LEMMA LateDrop ==
  ASSUME SpanInv, Masters, phase # "run", phase' \in {"heaps", "caches", "finalized", "teardown"},
         UNCHANGED <<config, lock, want, slots, overflow, spill, keep, global_reserve>>,
         NEW h \in Heap, NEW l, pc' = [pc EXCEPT ![h] = l],
         l = pc[h] \/ l = "idle" \/ (l = "closing" /\ phase' = "teardown"),
         phase = "teardown" => phase' = "teardown",
         NEW u, NEW c, NEW v, NEW p, NEW s, Unmap(s), Loses(h, u, c, v, p, s),
         Emptied'
  PROVE  SpanInv' /\ Masters'
<1>. DEFINE G == {s}
            N == {}
            x == spill[h]
            k == keep[h]
<1>. USE DEF Loses
<1>1. HeapStep(h, u, c, v, p, x, k)
  BY Stays, Own DEF HeapStep
<1>2. /\ v \in SpanRec \cup {None} /\ p \in SpanRec \cup {None}
      /\ global_reserve' \in SpanRec \cup {None} /\ G \subseteq Mine(h) \cup Shared /\ s \in Held
  BY Own, AllHeld DEF SpanInv, HeapTypes, Mine
<1>3. Disjoint(used[h], cached[h], Some(reserve[h]), Some(heap_span[h]), x, k, slots, overflow,
               Some(global_reserve))
  BY Own
<1>4. Disjoint(u, c, Some(v), Some(p), x, k, slots', overflow', Some(global_reserve'))
  BY <1>3 DEF Disjoint
<1>5. u \cup c \cup Some(v) \cup Some(p) \cup x \cup k \cup slots' \cup overflow'
        \cup Some(global_reserve') = ((Mine(h) \cup Shared) \ G) \cup N
  <2>1. s \notin x \cup k \cup slots \cup overflow \cup Some(global_reserve)
    BY <1>3 DEF Disjoint
  <2>. QED BY <2>1 DEF Mine, Shared
<1>6. N \subseteq SpanRec /\ N \cap (Held \ G) = {}
  OBVIOUS
<1>7. u \cup c \cup Some(v) \cup Some(p) \cup x \cup k \subseteq Mine(h)
  BY DEF Mine
<1>8. (Held \ G) \cup N = Held \ {s}
  OBVIOUS
<1>. HIDE DEF G, N, x, k
<1>9. Hands(h, u, c, v, p, x, k, G, N)
  BY <1>1, <1>2, <1>4, <1>5, <1>6 DEF Hands
<1>10. /\ HeapTypes' /\ Separate' /\ Held' = (Held \ G) \cup N
       /\ Mine(h)' = u \cup c \cup Some(v) \cup Some(p) \cup x \cup k
       /\ \A g \in Heap : g # h => Mine(g)' = Mine(g)
  BY <1>9, Handed DEF SpanInv
<1>11. \A g \in Heap : Mine(g)' \subseteq Mine(g)
  BY <1>7, <1>10
<1>12. /\ Regular(Held \ {s}, total', remaining')
       /\ NoneLeft(total, remaining) => NoneLeft(total', remaining')
  <2>1. Unbooked(s, total, remaining, total', remaining')
    BY DEF Unmap, Unbooked
  <2>2. Regular(Held, total, remaining)
    BY DEF SpanInv
  <2>. QED BY <1>2, <2>1, <2>2, GoneBooks
<1>13. Regular(Held', total', remaining') /\ (GlobalCache => NoneLeft(total', remaining'))
  BY <1>8, <1>10, <1>12 DEF Masters
<1>. QED BY <1>10, <1>11, <1>13, LateStep

LEMMA FinalizeSpansInv ==
  ASSUME SpanInv, Masters, NEW h \in Heap, FinalizeReserved(h) \/ FinalizeThreadCache(h), UNCHANGED config
  PROVE  SpanInv' /\ Masters'
<1>1. /\ phase = "heaps" /\ phase' = "heaps"
      /\ UNCHANGED <<used, heap_span, global_reserve, slots, overflow, spill, keep, lock, pc, want>>
      /\ pc' = [pc EXCEPT ![h] = pc[h]]
  BY DEF FinalizeReserved, FinalizeThreadCache, cacheVars, controlVars, SpanInv, ControlTypes
<1>2. Disjoint(used[h], cached[h], Some(reserve[h]), Some(heap_span[h]), spill[h], keep[h], slots,
               overflow, Some(global_reserve))
  BY Own
<1>3. Emptied'
  BY <1>1 DEF Emptied, SpanInv
<1>. DEFINE u == used[h]
            c == cached[h]
            v == reserve[h]
            p == heap_span[h]
<1>4. /\ used' = [used EXCEPT ![h] = u] /\ heap_span' = [heap_span EXCEPT ![h] = p]
      /\ cached = [cached EXCEPT ![h] = c] /\ reserve = [reserve EXCEPT ![h] = v]
  BY <1>1, Stays, Own
<1>5. CASE /\ reserve[h] # None /\ Unmap(reserve[h])
           /\ reserve' = [reserve EXCEPT ![h] = None] /\ UNCHANGED cached
  <2>. DEFINE s == reserve[h]
              w == None
  <2>1. Some(v) = {s} /\ Some(w) = Some(v) \ {s}
    BY <1>5 DEF Some
  <2>2. u = used[h] \ {s} /\ c = cached[h] \ {s} /\ Some(p) = Some(p) \ {s}
    BY <1>2, <2>1 DEF Disjoint
  <2>3. Loses(h, u, c, w, p, s) /\ Unmap(s)
    BY <1>4, <1>5, <2>1, <2>2 DEF Loses
  <2>. HIDE DEF s, w, u, c, p
  <2>. QED BY <1>1, <1>3, <2>3, LateDrop
<1>6. ASSUME NEW s \in cached[h], Unmap(s), cached' = [cached EXCEPT ![h] = cached[h] \ {s}],
             UNCHANGED reserve
      PROVE  SpanInv' /\ Masters'
  <2>. DEFINE d == cached[h] \ {s}
  <2>1. u = used[h] \ {s} /\ d = cached[h] \ {s} /\ Some(v) = Some(v) \ {s} /\ Some(p) = Some(p) \ {s}
    BY <1>2 DEF Disjoint
  <2>2. Loses(h, u, d, v, p, s) /\ Unmap(s)
    BY <1>4, <1>6, <2>1 DEF Loses
  <2>. HIDE DEF d, u, v, p
  <2>. QED BY <1>1, <1>3, <2>2, LateDrop
<1>. QED BY <1>5, <1>6 DEF FinalizeReserved, FinalizeThreadCache

\* The memory of the heap itself goes
LEMMA UnmapHeapInv ==
  ASSUME SpanInv, Masters, NEW h \in Heap, UnmapHeap(h), UNCHANGED <<config, lock, want, phase>>,
         phase # "run", NEW l, pc' = [pc EXCEPT ![h] = l], l = pc[h] \/ l = "idle", Emptied'
  PROVE  SpanInv' /\ Masters'
<1>. DEFINE s == heap_span[h]
            u == used[h]
            c == cached[h]
            v == reserve[h]
            p == None
<1>1. /\ s # None /\ Unmap(s) /\ heap_span' = [heap_span EXCEPT ![h] = p]
      /\ UNCHANGED <<used, cached, reserve, global_reserve, slots, overflow, spill, keep>>
  BY DEF UnmapHeap, cacheVars
<1>2. Disjoint(used[h], cached[h], Some(reserve[h]), Some(heap_span[h]), spill[h], keep[h], slots,
               overflow, Some(global_reserve))
  BY Own
<1>3. Some(heap_span[h]) = {s} /\ Some(p) = Some(heap_span[h]) \ {s}
  BY <1>1 DEF Some
<1>4. u = used[h] \ {s} /\ c = cached[h] \ {s} /\ Some(v) = Some(v) \ {s}
  BY <1>2, <1>3 DEF Disjoint
<1>5. /\ used' = [used EXCEPT ![h] = u] /\ cached' = [cached EXCEPT ![h] = c]
      /\ reserve' = [reserve EXCEPT ![h] = v]
  BY <1>1, Stays, Own
<1>6. /\ phase' \in {"heaps", "caches", "finalized", "teardown"}
      /\ phase = "teardown" => phase' = "teardown"
  BY DEF SpanInv, ControlTypes
<1>7. Loses(h, u, c, v, p, s)
  BY <1>1, <1>3, <1>4, <1>5 DEF Loses
<1>. HIDE DEF s, p, u, c, v
<1>. QED BY <1>1, <1>6, <1>7, LateDrop

LEMMA FinalizeHeapInv ==
  ASSUME SpanInv, Masters, NEW h \in Heap, FinalizeHeap(h), UNCHANGED config
  PROVE  SpanInv' /\ Masters'
<1>1. /\ phase = "heaps" /\ UNCHANGED <<config, lock, want, phase>> /\ UnmapHeap(h)
      /\ pc' = [pc EXCEPT ![h] = pc[h]]
  BY DEF FinalizeHeap, controlVars, SpanInv, ControlTypes
<1>2. Emptied'
  BY <1>1 DEF Emptied, SpanInv, UnmapHeap
<1>. QED BY <1>1, <1>2, UnmapHeapInv

\* rpmalloc_finalize goes on
LEMMA FinalizeOnInv ==
  ASSUME SpanInv, Masters, FinalizeCaches \/ FinalizeEnd, UNCHANGED config
  PROVE  SpanInv' /\ Masters'
<1>1. /\ phase \in {"heaps", "caches"} /\ phase' \in {"caches", "finalized"}
      /\ UNCHANGED <<total, remaining, used, cached, reserve, heap_span, global_reserve, slots, overflow,
                     spill, keep, lock, pc, want>>
  BY DEF FinalizeCaches, FinalizeEnd, regionVars, heapVars, cacheVars
<1>2. HeapTypes' /\ Separate' /\ Held' = Held /\ \A g \in Heap : Mine(g)' = Mine(g)
  <2>1. Held' = Held
    BY <1>1 DEF Held
  <2>2. \A g \in Heap : Mine(g)' = Mine(g)
    BY <1>1 DEF Mine, Some
  <2>. QED BY <1>1, <2>1, <2>2 DEF SpanInv, HeapTypes, Separate, Some
<1>3. Regular(Held', total', remaining') /\ Masters'
  BY <1>1, <1>2 DEF SpanInv, Masters
<1>4. Emptied'
  BY <1>1 DEF Emptied, SpanInv, FinalizeCaches, FinalizeEnd, HeapFinalized
<1>5. ControlTypes' /\ Threads' /\ GlobalReserveUsed'
  BY <1>1, <1>2 DEF SpanInv, ControlTypes, LargeMax, Threads, GlobalReserveUsed, IsMaster
<1>. QED BY <1>2, <1>3, <1>4, <1>5 DEF SpanInv

LEMMA FinalizeCachedInv ==
  ASSUME SpanInv, Masters, FinalizeCached, UNCHANGED config
  PROVE  SpanInv' /\ Masters'
<1>1. PICK s \in slots \cup overflow : Unmap(s) /\ slots' = slots \ {s} /\ overflow' = overflow \ {s}
  BY DEF FinalizeCached
<1>2. /\ phase = "caches" /\ phase' = "caches"
      /\ UNCHANGED <<used, cached, reserve, heap_span, global_reserve, spill, keep, lock, pc, want>>
      /\ global_reserve = None
  BY DEF FinalizeCached, heapVars, controlVars, SpanInv, Emptied
<1>. DEFINE G == {s}
<1>3. /\ HeapTypes' /\ Separate' /\ Held' = Held \ G
      /\ \A g \in Heap : Mine(g)' = Mine(g)
  <2>1. /\ slots' = slots \ G /\ overflow' = overflow \ G /\ Some(global_reserve') = Some(global_reserve) \ G
        /\ global_reserve' \in SpanRec \cup {None} /\ G \subseteq Shared /\ HeapTypes /\ Separate
    BY <1>1, <1>2 DEF Shared, Some, SpanInv
  <2>. HIDE DEF G
  <2>. QED BY <1>2, <2>1, Dropped
<1>4. /\ Regular(Held \ {s}, total', remaining')
      /\ NoneLeft(total, remaining) => NoneLeft(total', remaining')
  <2>1. Unbooked(s, total, remaining, total', remaining')
    BY <1>1 DEF Unmap, Unbooked
  <2>2. Regular(Held, total, remaining) /\ s \in Held
    BY HeldParts DEF SpanInv, Shared
  <2>. QED BY <2>1, <2>2, GoneBooks
<1>5. Regular(Held', total', remaining') /\ Masters'
  BY <1>2, <1>3, <1>4 DEF Masters
<1>6. ControlTypes' /\ Threads' /\ GlobalReserveUsed' /\ Emptied'
  BY <1>2, <1>3 DEF SpanInv, ControlTypes, LargeMax, Threads, GlobalReserveUsed, Emptied
<1>. QED BY <1>3, <1>5, <1>6 DEF SpanInv

LEMMA FreeLateInv ==
  ASSUME SpanInv, Masters, NEW h \in Heap, FreeLate(h), UNCHANGED config
  PROVE  SpanInv' /\ Masters'
<1>1. PICK s \in used[h] : /\ Unmap(s) /\ used' = [used EXCEPT ![h] = used[h] \ {s}]
                           /\ UNCHANGED pc \/ pc' = [pc EXCEPT ![h] = "closing"]
  BY DEF FreeLate
<1>2. /\ phase \in {"finalized", "teardown"} /\ phase' = "teardown"
      /\ UNCHANGED <<cached, reserve, heap_span, global_reserve, slots, overflow, spill, keep, lock,
                     want>>
  BY DEF FreeLate, cacheVars
<1>3. Disjoint(used[h], cached[h], Some(reserve[h]), Some(heap_span[h]), spill[h], keep[h], slots,
               overflow, Some(global_reserve))
  BY Own
<1>4. Emptied'
  BY <1>2 DEF Emptied, SpanInv
<1>. DEFINE u == used[h] \ {s}
            c == cached[h]
            v == reserve[h]
            p == heap_span[h]
<1>5. /\ used' = [used EXCEPT ![h] = u] /\ heap_span' = [heap_span EXCEPT ![h] = p]
      /\ cached' = [cached EXCEPT ![h] = c] /\ reserve' = [reserve EXCEPT ![h] = v]
  BY <1>1, <1>2, Stays, Own
<1>6. u = used[h] \ {s} /\ c = cached[h] \ {s} /\ Some(v) = Some(v) \ {s} /\ Some(p) = Some(p) \ {s}
  BY <1>3 DEF Disjoint
<1>7. PICK l : pc' = [pc EXCEPT ![h] = l] /\ (l = pc[h] \/ l = "closing")
  <2>1. pc = [pc EXCEPT ![h] = pc[h]]
    BY DEF SpanInv, ControlTypes
  <2>. QED BY <1>1, <2>1
<1>8. Loses(h, u, c, v, p, s)
  BY <1>5, <1>6 DEF Loses
<1>. HIDE DEF u, c, v, p
<1>. QED BY <1>1, <1>2, <1>4, <1>7, <1>8, LateDrop

LEMMA CloseHeapInv ==
  ASSUME SpanInv, Masters, NEW h \in Heap, CloseHeap(h), UNCHANGED config
  PROVE  SpanInv' /\ Masters'
<1>. DEFINE l == "idle"
<1>1. /\ phase = "teardown" /\ UNCHANGED <<config, lock, want, phase>> /\ pc' = [pc EXCEPT ![h] = l]
  BY DEF CloseHeap, SpanInv, Threads
<1>2. CASE UnmapHeap(h)
  <2>1. Emptied'
    BY <1>1, <1>2 DEF Emptied, SpanInv, UnmapHeap
  <2>. HIDE DEF l
  <2>. QED BY <1>1, <1>2, <2>1, UnmapHeapInv DEF l
<1>3. CASE UNCHANGED <<regionVars, heapVars, global_reserve, cacheVars>>
  <2>1. UNCHANGED <<total, remaining, used, cached, reserve, heap_span, global_reserve, slots, overflow,
                    spill, keep>>
    BY <1>3 DEF regionVars, heapVars, cacheVars
  <2>2. HeapTypes' /\ Separate' /\ Held' = Held /\ \A g \in Heap : Mine(g)' = Mine(g)
    <3>1. Held' = Held
      BY <2>1 DEF Held
    <3>2. \A g \in Heap : Mine(g)' = Mine(g)
      BY <2>1 DEF Mine, Some
    <3>. QED BY <2>1, <3>1, <3>2 DEF SpanInv, HeapTypes, Separate, Some
  <2>3. Regular(Held', total', remaining') /\ (GlobalCache => NoneLeft(total', remaining'))
    BY <2>1, <2>2 DEF SpanInv, Masters
  <2>4. Emptied'
    BY <1>1, <2>1 DEF Emptied, SpanInv
  <2>5. \A g \in Heap : Mine(g)' \subseteq Mine(g)
    BY <2>2
  <2>. QED BY <1>1, <2>1, <2>2, <2>3, <2>4, <2>5, LateStep
<1>. QED BY <1>2, <1>3 DEF CloseHeap

---------------------------------------------------------------------------
(* Theorems *)

LEMMA InitSpans == Init => SpanInv /\ Masters
<1>. SUFFICES ASSUME Init PROVE SpanInv /\ Masters
  OBVIOUS
<1>1. HeapTypes
  BY DEF Init, HeapTypes
<1>2. ControlTypes
  <2>1. config \in Configs
    BY DEF Init
  <2>. QED BY <2>1, ConfigFacts DEF Init, ControlTypes
<1>3. Shared = {} /\ \A h \in Heap : Mine(h) = {}
  BY DEF Init, Mine, Shared, Some
<1>4. Held = {}
  BY <1>3, HeldParts
<1>5. Separate
  BY <1>3 DEF Init, Separate, Disjoint, Some
<1>6. Threads /\ Emptied /\ GlobalReserveUsed
  BY <1>3 DEF Init, Threads, Emptied, GlobalReserveUsed
<1>7. Regular(Held, total, remaining)
  <2>1. \A r \in Region : UnitsOf({}, r) = {}
    BY DEF UnitsOf
  <2>2. Cardinality({}) = 0
    BY FS_EmptySet
  <2>3. total \in [Region -> Nat] /\ remaining \in [Region -> Nat]
        /\ \A r \in Region : remaining[r] = 0
    BY DEF Init
  <2>4. Regular({}, total, remaining)
    BY <2>1, <2>2, <2>3 DEF Regular
  <2>. QED BY <1>4, <2>4
<1>8. Masters
  BY DEF Init, Masters, MastersIn, NoneLeft
<1>. QED BY <1>1, <1>2, <1>5, <1>6, <1>7, <1>8 DEF SpanInv

LEMMA RunInv ==
  ASSUME SpanInv, Masters, NEW h \in Heap, Run(h), UNCHANGED config
  PROVE  SpanInv' /\ Masters'
<1>1. CASE HeapBegin(h) \/ HeapFails(h) \/ HeapAdopt(h) \/ HeapOrphan(h)
  BY <1>1, HeapMovesInv
<1>2. CASE HeapCreate(h)
  BY <1>2, HeapCreateInv
<1>3. ASSUME NEW n \in 1..LargeMax, Allocate(h, n) PROVE SpanInv' /\ Masters'
  BY <1>3, TakeCachedInv, TakeGlobalInv, TakeReservedInv, MapBeginInv DEF Allocate
<1>4. CASE MapEnd(h)
  BY <1>4, MapEndInv
<1>5. CASE Free(h)
  BY <1>5, FreeInv
<1>6. CASE SpillOne(h)
  BY <1>6, SpillOneInv
<1>7. CASE KeepOne(h)
  BY <1>7, KeepOneInv
<1>8. CASE HeapLeave(h)
  BY <1>8, HeapLeaveInv
<1>. QED BY <1>1, <1>2, <1>3, <1>4, <1>5, <1>6, <1>7, <1>8 DEF Run

LEMMA NextSpans == SpanInv /\ Masters /\ [Next]_vars => SpanInv' /\ Masters'
<1>. SUFFICES ASSUME SpanInv, Masters, [Next]_vars PROVE SpanInv' /\ Masters'
  OBVIOUS
<1>1. CASE UNCHANGED vars
  <2>1. UNCHANGED <<config, total, remaining, used, cached, reserve, heap_span, global_reserve, slots,
                    overflow, spill, keep, lock, pc, want, phase>>
    BY <1>1 DEF vars, regionVars, heapVars, cacheVars, controlVars
  <2>2. Held' = Held /\ \A g \in Heap : Mine(g)' = Mine(g)
    <3>1. Held' = Held
      BY <2>1 DEF Held
    <3>2. \A g \in Heap : Mine(g)' = Mine(g)
      BY <2>1 DEF Mine, Some
    <3>. QED BY <3>1, <3>2
  <2>3. HeapTypes' /\ ControlTypes' /\ Separate'
    BY <2>1, <2>2 DEF SpanInv, HeapTypes, ControlTypes, LargeMax, Separate, Some
  <2>4. Threads' /\ Emptied' /\ GlobalReserveUsed' /\ Masters'
    BY <2>1, <2>2 DEF SpanInv, Threads, LargeMax, Emptied, GlobalReserveUsed, IsMaster, Masters
  <2>. QED BY <2>1, <2>2, <2>3, <2>4 DEF SpanInv
<1>2. CASE Next
  <2>1. UNCHANGED config
    BY <1>2 DEF Next
  <2>2. ASSUME NEW h \in Heap, Run(h) \/ FreeLate(h) \/ CloseHeap(h) PROVE SpanInv' /\ Masters'
    BY <2>1, <2>2, RunInv, FreeLateInv, CloseHeapInv
  <2>3. CASE Finalize
    <3>1. CASE FinalizeReserve
      BY <2>1, <3>1, FinalizeReserveInv
    <3>2. CASE FinalizeCaches \/ FinalizeEnd
      BY <2>1, <3>2, FinalizeOnInv
    <3>3. CASE FinalizeCached
      BY <2>1, <3>3, FinalizeCachedInv
    <3>4. ASSUME NEW h \in Heap, FinalizeReserved(h) \/ FinalizeThreadCache(h) \/ FinalizeHeap(h) PROVE SpanInv' /\ Masters'
      BY <2>1, <3>4, FinalizeSpansInv, FinalizeHeapInv
    <3>. QED BY <2>3, <3>1, <3>2, <3>3, <3>4 DEF Finalize
  <2>. QED BY <1>2, <2>2, <2>3 DEF Next
<1>. QED BY <1>1, <1>2

\* The variables keep to their types whatever threads and rpmalloc_finalize do
THEOREM SpanTypes == Spec => []TypeOK
<1>1. SpanInv => TypeOK
  BY DEF SpanInv, HeapTypes, ControlTypes, Regular, TypeOK
<1>. QED BY <1>1, InitSpans, NextSpans, PTL DEF Spec

\* Spans never share memory, are in one place each, and lie in a region that
\* is mapped and whose master their headers lead to: for all settings, even
\* where a piece of the global reserve may be lost
THEOREM SpansApart == Spec => []SpansDisjoint
<1>1. SpanInv => SpansDisjoint
  <2>. SUFFICES ASSUME SpanInv PROVE SpansDisjoint
    OBVIOUS
  <2>1. \A h \in Heap : /\ used[h] \cap cached[h] = {}
                        /\ (used[h] \cup cached[h]) \cap (slots \cup overflow) = {}
    BY Own DEF Disjoint
  <2>2. \A h \in Heap : \A g \in Heap \ {h} : used[h] \cap (used[g] \cup cached[g]) = {}
    BY DEF SpanInv, Separate, Mine
  <2>. QED BY <2>1, <2>2 DEF SpansDisjoint, SpanInv, Regular
<1>. QED BY <1>1, InitSpans, NextSpans, PTL DEF Spec

\* remaining_spans counts exactly the spans of a region somebody has, and a
\* region keeps its master until rpmalloc_finalize.  So it is with the global
\* cache, which holds masters back, and while no piece of the global reserve
\* is lost (_rpmalloc_heap_allocate_new)
THEOREM RegionsCounted ==
  ASSUME NoLoss, GlobalCache
  PROVE  Spec => []RegionsWhole
<1>1. SpanInv /\ Masters => RegionsWhole
  <2>. SUFFICES ASSUME SpanInv, Masters PROVE RegionsWhole
    OBVIOUS
  <2>1. \A r \in Region : UnitsHeld(r) = UnitsOf(Held, r)
    BY DEF UnitsHeld, UnitsOf
  <2>2. RemainingExact
    BY <2>1 DEF RemainingExact, SpanInv, Regular
  <2>3. MastersKept
    BY DEF MastersKept, Masters, MastersIn
  <2>. QED BY <2>2, <2>3 DEF RegionsWhole
<1>. QED BY <1>1, InitSpans, NextSpans, PTL DEF Spec

\* A program that has freed all its blocks leaves no region mapped after
\* rpmalloc_finalize, as the assertion at its end says
THEOREM AllUnmapped ==
  ASSUME NoLoss, GlobalCache
  PROVE  Spec => []NothingMappedAfterFinalize
<1>1. SpanInv /\ Masters => NothingMappedAfterFinalize
  <2>. SUFFICES ASSUME SpanInv, Masters, phase = "finalized", \A h \in Heap : used[h] = {},
                       NEW r \in Region
                PROVE  total[r] = 0
    BY DEF NothingMappedAfterFinalize
  <2>1. \A h \in Heap : Mine(h) = {}
    BY DEF SpanInv, Emptied, Threads, Mine, Some
  <2>2. Shared = {}
    BY DEF SpanInv, Emptied, Shared, Some
  <2>3. Held = {}
    BY <2>1, <2>2, HeldParts
  <2>4. UnitsOf(Held, r) = {}
    BY <2>3 DEF UnitsOf
  <2>5. remaining[r] = 0
    <3>1. remaining[r] = Cardinality(UnitsOf(Held, r))
      BY DEF SpanInv, Regular
    <3>. QED BY <2>4, <3>1, FS_EmptySet
  <2>. QED BY <2>5 DEF Masters, NoneLeft
<1>. QED BY <1>1, InitSpans, NextSpans, PTL DEF Spec
=============================================================================
