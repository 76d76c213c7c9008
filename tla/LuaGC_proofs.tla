---------------------------- MODULE LuaGC_proofs ----------------------------
(***************************************************************************)
(* Proofs about the collector of LuaGC, for any addresses, stacks and      *)
(* programs: the types, that a black object leads to no white one, that a  *)
(* gray object waits in one list, that nothing the program can reach is    *)
(* freed or has the mark of the dead, and that a finalizer runs once and   *)
(* before its userdata is freed.  The invariant says of every object that  *)
(* is not dead what its fields may hold: objects that are not dead either, *)
(* of the right kinds.                                                     *)
(***************************************************************************)
EXTENDS LuaGC, TLAPS

(* The invariant *)

Alive == {o \in Allocated : ~IsDead(o)}
\* What a field may hold: no upvalue, or only a table
Values == {x \in Alive : kind[x] # "upval"} \cup {None}
Tables == {x \in Alive : kind[x] = "table"} \cup {None}

\* The fields of an object that is not dead; a string has none
Sound(o) ==
  /\ kind[o] = "table" => a[o] \in Values /\ b[o] \in Values /\ (b[o] = None => a[o] = None)
  /\ kind[o] = "udata" => a[o] \in Tables /\ b[o] \in Tables
  /\ kind[o] = "func" => a[o] \in Alive /\ kind[a[o]] = "upval" /\ b[o] \in Tables
  /\ kind[o] = "upval" => Value(o) \in Values
  /\ kind[o] = "thread" => b[o] \in Tables /\ \A s \in Slot : stack[o][s] \in Values

RootsAlive == Main \in Alive /\ L \in Alive /\ tmudata \subseteq Alive
AliveSound == \A o \in Alive : Sound(o)

\* Only upvalues are open, for slots of threads; threads and open upvalues are
\* never black, for what they lead to changes without a barrier
OpenSound ==
  /\ \A u \in Obj : IsOpen(u) =>
       /\ kind[u] = "upval" /\ mark[u] # "black"
       /\ open[u] \in Obj \X Slot /\ kind[open[u][1]] = "thread"
  /\ \A t \in Are("thread") : mark[t] # "black"

\* An object the sweep has still to come by; the open upvalues of a thread go
\* with it, and what waits for its finalizer is left alone
Waits(o) ==
  \/ o \in tosweep \/ o \in tmudata
  \/ IsOpen(o) /\ open[o][1] \in tosweep

\* Outside the marking everything is white that the sweep has passed
SweepSound ==
  /\ \A o \in tosweep : kind[o] = "upval" => ~IsOpen(o)
  /\ gcstate \in {"pause", "propagate", "finalize"} => tosweep = {}
  /\ gcstate # "propagate" => \A o \in Allocated : Waits(o) \/ mark[o] = white

NotWhite(x) == x = None \/ ~IsWhite(x)

\* While the collector marks nothing is dead, and a black object leads to no
\* white one, weak references included
MarkSound ==
  gcstate = "propagate" =>
    /\ Allocated = Alive
    /\ mark[Main] = "gray"
    /\ \A o \in Allocated \ tmudata : mark[o] = "black" =>
         /\ kind[o] \in {"table", "udata", "func"} => NotWhite(a[o]) /\ NotWhite(b[o])
         /\ kind[o] = "upval" => NotWhite(b[o])

Inv ==
  /\ TypeOK /\ RootsAlive /\ AliveSound /\ OpenSound
  /\ SweepSound /\ MarkSound /\ GrayInOneList

\* Where the finalizer of a userdata stands
Finalizing ==
  \A u \in Are("udata") :
    /\ u \in tmudata => finalized[u] /\ hasgc[u] /\ calls[u] = 0
    /\ ~finalized[u] => calls[u] = 0
    /\ calls[u] <= 1
    /\ hasgc[u] /\ finalized[u] /\ u \notin tmudata => calls[u] = 1
    /\ hasgc[u] /\ IsDead(u) => finalized[u]

---------------------------------------------------------------------------
(* Colours, values and operands *)

\* The two whites are the current one and the other
LEMMA WhitesTwo ==
  ASSUME TypeOK
  PROVE  /\ white # Otherwhite /\ Otherwhite \in Whites /\ Whites = {white, Otherwhite}
         /\ "gray" \notin Whites /\ "black" \notin Whites
BY DEF TypeOK, Whites, Otherwhite

\* None is no address
LEMMA NoneNoObject == None \notin Obj
BY LuaGCParams

\* While the collector marks, before and after, nothing is dead
LEMMA NoneDead ==
  ASSUME Inv, gcstate \in {"pause", "propagate", "finalize"}
  PROVE  Allocated = Alive
<1>. USE DEF Inv
<1>1. CASE gcstate = "propagate"
  BY <1>1 DEF MarkSound
<1>2. CASE gcstate # "propagate"
  <2>. SUFFICES ASSUME NEW o \in Allocated PROVE o \in Alive
    BY DEF Alive
  <2>1. o \in Obj /\ tosweep = {}
    BY <1>2 DEF Allocated, SweepSound
  <2>2. CASE o \in tmudata
    BY <2>2 DEF RootsAlive
  <2>3. CASE mark[o] = white
    BY <2>3, WhitesTwo DEF Alive, IsDead
  <2>. QED BY <1>2, <2>1, <2>2, <2>3 DEF SweepSound, Waits
<1>. QED BY <1>1, <1>2

\* What is on the stack of the running thread is not dead, nor an upvalue
LEMMA Operand ==
  ASSUME Inv, NEW v \in OnStack(L) \cup {None}
  PROVE  /\ v \in Values /\ v \in Obj \cup {None}
         /\ v # None => v \in Alive /\ v \in Obj /\ kind[v] # "upval"
<1>1. kind[L] = "thread" /\ L \in Alive
  BY DEF Inv, TypeOK, RootsAlive
<1>2. \A s \in Slot : stack[L][s] \in Values
  BY <1>1 DEF Inv, AliveSound, Sound
<1>3. v \in Values
  BY <1>2 DEF OnStack, Values
<1>. QED BY <1>3 DEF Values, Alive, Allocated

LEMMA TableOperand ==
  ASSUME Inv, NEW t \in TablesOnStack \cup {None}
  PROVE  t \in Tables /\ t \in OnStack(L) \cup {None}
BY Operand DEF TablesOnStack, Are, Tables, Alive, Values

---------------------------------------------------------------------------
(* The program: steps that leave the marks alone *)

\* Fields and marks stay, the values on the stacks change
LEMMA StackInv ==
  ASSUME Inv, TypeOK',
         UNCHANGED <<kind, mark, a, b, open, white, gcstate, tmudata, tosweep,
                     gray, grayagain, weak>>,
         L' \in Alive,
         \A t \in Obj, s \in Slot : stack'[t][s] = stack[t][s] \/ stack'[t][s] \in Values
  PROVE  Inv'
<1>. USE DEF Inv
<1>1. Alive' = Alive /\ Values' = Values /\ Tables' = Tables
  BY DEF Alive, Values, Tables, Allocated, IsDead, Otherwhite
<1>2. RootsAlive'
  BY <1>1 DEF RootsAlive
<1>3. AliveSound'
  <2>. SUFFICES ASSUME NEW o \in Alive PROVE Sound(o)'
    BY <1>1 DEF AliveSound
  <2>1. Sound(o) /\ o \in Obj
    BY DEF AliveSound, Alive, Allocated
  <2>2. kind[o] = "upval" => Value(o)' \in Values
    <3>1. CASE open[o] = None
      BY <2>1, <3>1 DEF Sound, Value, IsOpen
    <3>2. CASE open[o] # None
      BY <2>1, <3>2 DEF Sound, Value, IsOpen, OpenSound
    <3>. QED BY <3>1, <3>2
  <2>3. kind[o] = "thread" => \A s \in Slot : stack'[o][s] \in Values
    BY <2>1 DEF Sound
  <2>. QED BY <1>1, <2>1, <2>2, <2>3 DEF Sound
<1>4. OpenSound'
  BY DEF OpenSound, Are, IsOpen
<1>5. SweepSound'
  BY DEF SweepSound, Waits, IsOpen, Allocated
<1>6. MarkSound'
  BY <1>1 DEF MarkSound, Allocated, NotWhite, IsWhite
<1>7. GrayInOneList'
  BY DEF GrayInOneList, Listed, Allocated
<1>. QED BY <1>2, <1>3, <1>4, <1>5, <1>6, <1>7

\* What the program reads is not dead
LEMMA ReadableAlive ==
  ASSUME Inv, NEW v \in Readable
  PROVE  v \in Values /\ v \in Obj
<1>. USE DEF Inv
<1>1. PICK o \in OnStack(L) \cup {L} :
        v \in (IF kind[o] = "func" THEN {b[o], Value(a[o])} \ {None} ELSE Refs(o))
  BY DEF Readable
<1>2. o \in Alive /\ kind[o] # "upval" /\ Sound(o) /\ o \in Obj
  <2>1. CASE o = L
    BY <2>1 DEF RootsAlive, AliveSound, TypeOK, Alive, Allocated
  <2>2. CASE o \in OnStack(L)
    BY <2>2, Operand DEF AliveSound, OnStack
  <2>. QED BY <2>1, <2>2
<1>3. Tables \subseteq Values /\ Values \subseteq Obj \cup {None}
  BY DEF Tables, Values, Alive, Allocated
<1>4. CASE kind[o] = "func"
  <2>1. a[o] \in Alive /\ kind[a[o]] = "upval" /\ b[o] \in Tables
    BY <1>2, <1>4 DEF Sound
  <2>2. Value(a[o]) \in Values
    BY <2>1 DEF AliveSound, Sound
  <2>3. v \in {b[o], Value(a[o])} \ {None}
    BY <1>1, <1>4
  <2>. QED BY <1>3, <2>1, <2>2, <2>3
<1>5. CASE kind[o] = "table"
  <2>1. v \in {a[o], b[o]} \ {None}
    BY <1>1, <1>5 DEF Refs
  <2>. QED BY <1>2, <1>3, <1>5, <2>1 DEF Sound
<1>6. CASE kind[o] = "udata"
  <2>1. v \in {a[o], b[o]} \ {None}
    BY <1>1, <1>6 DEF Refs, Strong
  <2>. QED BY <1>2, <1>3, <1>6, <2>1 DEF Sound
<1>7. CASE kind[o] = "thread"
  <2>1. v \in (OnStack(o) \cup {b[o]}) \ {None}
    BY <1>1, <1>7 DEF Refs, Strong
  <2>. QED BY <1>2, <1>3, <1>7, <2>1 DEF Sound, OnStack
<1>8. CASE kind[o] \notin {"func", "table", "udata", "thread"}
  BY <1>1, <1>2, <1>8 DEF Refs, Strong
<1>. QED BY <1>4, <1>5, <1>6, <1>7, <1>8

\* Slots of any thread are slots of the main thread
LEMMA SlotsAreSlots == ASSUME NEW t PROVE SlotsOf(t) \subseteq Slot
BY LuaGCParams DEF SlotsOf

\* lua_setlocal, a load, a resume and a yield write values or nothing
LEMMA LoadInv ==
  ASSUME Inv, UNCHANGED program, NEW s \in SlotsOf(L), Load(s)
  PROVE  Inv'
<1>. USE DEF Inv
<1>1. PICK v \in Readable : stack' = [stack EXCEPT ![L][s] = v]
  BY DEF Load
<1>2. v \in Values /\ v \in Obj /\ s \in Slot
  BY ReadableAlive, SlotsAreSlots
<1>3. stack' \in [Obj -> [Slot -> Obj \cup {None}]] /\ L \in Obj
  BY <1>1, <1>2 DEF TypeOK
<1>4. TypeOK'
  BY <1>3 DEF TypeOK, Load, heapVars, udataVars, listVars, sweepVars, Are, Allocated
<1>5. \A t \in Obj, x \in Slot : stack'[t][x] = stack[t][x] \/ stack'[t][x] \in Values
  BY <1>1, <1>2 DEF TypeOK
<1>6. L' \in Alive
  BY DEF Load, RootsAlive
<1>. QED BY <1>4, <1>5, <1>6, StackInv DEF Load, heapVars, listVars, sweepVars

LEMMA SetLocalInv ==
  ASSUME Inv, UNCHANGED program, NEW t \in OnStack(L) \cup {L}, NEW s \in SlotsOf(t),
         NEW v \in OnStack(L) \cup {None}, SetLocal(t, s, v)
  PROVE  Inv'
<1>. USE DEF Inv
<1>2. v \in Values /\ v \in Obj \cup {None} /\ s \in Slot /\ t \in Obj
  BY Operand, SlotsAreSlots DEF OnStack, TypeOK
<1>3. stack' \in [Obj -> [Slot -> Obj \cup {None}]]
  BY <1>2 DEF TypeOK, SetLocal
<1>4. TypeOK'
  BY <1>3 DEF TypeOK, SetLocal, heapVars, udataVars, listVars, sweepVars, Are, Allocated
<1>5. \A r \in Obj, x \in Slot : stack'[r][x] = stack[r][x] \/ stack'[r][x] \in Values
  BY <1>2 DEF TypeOK, SetLocal
<1>6. L' \in Alive
  BY DEF SetLocal, RootsAlive
<1>. QED BY <1>4, <1>5, <1>6, StackInv DEF SetLocal, heapVars, listVars, sweepVars

LEMMA SwitchInv ==
  ASSUME Inv, UNCHANGED program, (\E t \in Obj : Resume(t)) \/ Yield
  PROVE  Inv'
<1>. USE DEF Inv
<1>1. L' \in Alive /\ L' \in Obj /\ kind[L'] = "thread"
  <2>1. CASE Yield
    BY <2>1 DEF Yield, RootsAlive, TypeOK, Alive, Allocated
  <2>2. ASSUME NEW t \in Obj, Resume(t) PROVE L' \in Alive /\ L' \in Obj /\ kind[L'] = "thread"
    BY <2>2, Operand DEF Resume, OnStack
  <2>. QED BY <2>1, <2>2
<1>2. UNCHANGED <<heapVars, stack, udataVars, mark, white, gcstate, listVars, sweepVars>>
  BY DEF Resume, Yield
<1>3. TypeOK'
  BY <1>1, <1>2 DEF TypeOK, heapVars, udataVars, listVars, sweepVars, Are, Allocated
<1>. QED BY <1>1, <1>2, <1>3, StackInv DEF heapVars, listVars, sweepVars

LEMMA SetModeInv ==
  ASSUME Inv, UNCHANGED program, NEW t \in OnStack(L), NEW m \in AllModes, SetMode(t, m)
  PROVE  Inv'
<1>. USE DEF Inv
<1>1. TypeOK'
  BY DEF TypeOK, SetMode, threadVars, udataVars, listVars, sweepVars, Are, Allocated
<1>. QED BY <1>1, StackInv DEF SetMode, threadVars, udataVars, listVars, sweepVars, RootsAlive

---------------------------------------------------------------------------
(* The program: new objects *)

\* The fields of an object that is not dead are no free address
LEMMA FieldsAllocated ==
  ASSUME Inv, NEW x \in Alive, NEW o \in Obj, o \notin Alive
  PROVE  /\ kind[x] \in {"table", "udata", "func"} => a[x] # o /\ b[x] # o
         /\ kind[x] = "upval" /\ ~IsOpen(x) => b[x] # o
<1>1. Sound(x) /\ o # None
  BY NoneNoObject DEF Inv, AliveSound
<1>2. Tables \subseteq Values /\ o \notin Values
  BY <1>1 DEF Tables, Values
<1>. QED BY <1>1, <1>2 DEF Sound, Value

\* The string found is not dead any more
LEMMA FindStringInv ==
  ASSUME Inv, UNCHANGED program, NEW o \in Obj, NEW s \in SlotsOf(L), FindString(o, s)
  PROVE  Inv'
<1>. USE DEF Inv
<1>1. s \in Slot /\ kind[o] = "string" /\ L \in Obj /\ o \in Allocated
  BY SlotsAreSlots DEF FindString, TypeOK, Allocated
<1>2. /\ UNCHANGED <<heapVars, L, udataVars, white, gcstate, listVars, sweepVars>>
      /\ mark' = [mark EXCEPT ![o] = IF IsDead(o) THEN white ELSE @]
      /\ stack' = [stack EXCEPT ![L][s] = o]
  BY DEF FindString
<1>u. UNCHANGED <<kind, a, b, mode, open, hasgc, L, finalized, calls, white, gcstate,
                  gray, grayagain, weak, tmudata, tosweep, full>>
  BY <1>2 DEF heapVars, udataVars, listVars, sweepVars
<1>3. stack' \in [Obj -> [Slot -> Obj \cup {None}]] /\ mark' \in [Obj -> Whites \cup {"gray", "black"}]
  BY <1>1, <1>2 DEF TypeOK
<1>4. TypeOK'
  BY <1>3, <1>u DEF TypeOK, Are, Allocated
<1>5. Alive' = Alive \cup {o} /\ mark'[o] \in {mark[o], white}
  BY <1>1, <1>2, <1>u, WhitesTwo DEF Alive, Allocated, IsDead, Otherwhite, TypeOK
<1>6. Values \cup {o} \subseteq Values' /\ Tables \subseteq Tables'
  BY <1>1, <1>5, <1>u DEF Values, Tables
<1>7. RootsAlive'
  BY <1>5, <1>u DEF RootsAlive
<1>8. AliveSound'
  <2>. SUFFICES ASSUME NEW x \in Alive \cup {o} PROVE Sound(x)'
    BY <1>5 DEF AliveSound
  <2>1. CASE x = o
    BY <2>1, <1>1, <1>u DEF Sound
  <2>2. CASE x \in Alive
    <3>1. Sound(x) /\ x \in Obj
      BY <2>2 DEF AliveSound, Alive, Allocated
    <3>2. \A t \in Obj, y \in Slot : stack'[t][y] = stack[t][y] \/ stack'[t][y] = o
      BY <1>1, <1>2 DEF TypeOK
    <3>3. kind[x] = "upval" => Value(x)' \in Values \cup {o}
      <4>1. CASE open[x] = None
        BY <3>1, <4>1, <1>u DEF Sound, Value, IsOpen
      <4>2. CASE open[x] # None
        BY <3>1, <3>2, <4>2, <1>u DEF Sound, Value, IsOpen, OpenSound
      <4>. QED BY <4>1, <4>2
    <3>4. kind[x] = "thread" => \A y \in Slot : stack'[x][y] \in Values \cup {o}
      BY <3>1, <3>2 DEF Sound
    <3>5. kind[x] = "func" => a[x] \in Alive'
      BY <3>1, <1>5 DEF Sound
    <3>. QED BY <3>1, <3>3, <3>4, <3>5, <1>6, <1>u DEF Sound
  <2>. QED BY <2>1, <2>2
<1>9. OpenSound'
  <2>1. \A u \in Obj : mark'[u] = mark[u] \/ mark'[u] = white
    BY <1>2, <1>5 DEF TypeOK
  <2>2. white # "black"
    BY WhitesTwo
  <2>. QED BY <2>1, <2>2, <1>u DEF OpenSound, Are, IsOpen
<1>10. SweepSound'
  <2>1. \A u \in Obj : mark'[u] = mark[u] \/ mark'[u] = white
    BY <1>2, <1>5 DEF TypeOK
  <2>. QED BY <2>1, <1>u DEF SweepSound, Waits, IsOpen, Allocated
<1>11. ASSUME gcstate = "propagate" PROVE mark' = mark
  BY <1>11, <1>1, <1>2, NoneDead DEF TypeOK, Alive
<1>12. MarkSound'
  <2>. SUFFICES ASSUME gcstate = "propagate" PROVE MarkSound'
    BY <1>u DEF MarkSound
  <2>1. mark' = mark /\ Allocated' = Allocated /\ Allocated = Alive
    BY <1>11, <1>u, NoneDead DEF Allocated
  <2>. QED BY <2>1, <1>1, <1>5, <1>u DEF MarkSound, NotWhite, IsWhite
<1>13. GrayInOneList'
  BY <1>11, <1>u DEF GrayInOneList, Listed, Allocated
<1>. QED BY <1>4, <1>7, <1>8, <1>9, <1>10, <1>12, <1>13

\* What a new object may hold
MayHold(k, key, val) ==
  /\ k = "table" => key = None /\ val = None
  /\ k = "udata" => key \in Tables /\ val \in Tables
  /\ k = "func" => key \in Alive /\ kind[key] = "upval" /\ val \in Tables
  /\ k = "thread" => val \in Tables

\* A new object is white and what it holds is alive: it may be used at once
LEMMA CreateInv ==
  ASSUME Inv, UNCHANGED program, NEW o \in Obj, NEW k \in AllKinds \ {"upval"},
         NEW s \in SlotsOf(L), NEW key \in Obj \cup {None}, NEW val \in Obj \cup {None},
         NEW gc \in BOOLEAN, MayHold(k, key, val), Create(o, k, s, key, val, gc)
  PROVE  Inv'
<1>. USE DEF Inv
<1>1. s \in Slot /\ kind[o] = "free" /\ L \in Obj /\ o # L /\ o # Main /\ o \notin Allocated
      /\ k # "free" /\ k # "upval" /\ o # None
  BY SlotsAreSlots, NoneNoObject DEF Create, TypeOK, Allocated, AllKinds
<1>u. UNCHANGED <<L, white, gcstate, gray, grayagain, weak, tmudata, tosweep, full>>
  BY DEF Create, listVars, sweepVars
<1>2. /\ kind' = [kind EXCEPT ![o] = k] /\ mark' = [mark EXCEPT ![o] = white]
      /\ a' = [a EXCEPT ![o] = key] /\ b' = [b EXCEPT ![o] = val]
      /\ mode' = [mode EXCEPT ![o] = "strong"] /\ open' = [open EXCEPT ![o] = None]
      /\ hasgc' = [hasgc EXCEPT ![o] = gc] /\ finalized' = [finalized EXCEPT ![o] = FALSE]
      /\ calls' = [calls EXCEPT ![o] = 0]
  BY DEF Create
<1>3. stack' = [stack EXCEPT ![o] = [x \in Slot |-> None], ![L][s] = o]
  BY DEF Create
<1>4. stack' \in [Obj -> [Slot -> Obj \cup {None}]]
  BY <1>1, <1>3 DEF TypeOK
<1>5. kind'[o] = k /\ \A x \in Obj : x # o => kind'[x] = kind[x]
  BY <1>2 DEF TypeOK
<1>6. Allocated' = Allocated \cup {o}
  BY <1>1, <1>5 DEF Allocated
<1>7. o \notin tmudata /\ o \notin tosweep
  BY <1>1 DEF TypeOK, Are
<1>8. TypeOK'
  <2>1. kind' \in [Obj -> AllKinds \cup {"free"}] /\ kind'[Main] = "thread"
    BY <1>1, <1>2 DEF TypeOK
  <2>2. mark' \in [Obj -> Whites \cup {"gray", "black"}]
    BY <1>2 DEF TypeOK
  <2>3. a' \in [Obj -> Obj \cup {None}] /\ b' \in [Obj -> Obj \cup {None}]
    BY <1>2 DEF TypeOK
  <2>4. mode' \in [Obj -> AllModes] /\ open' \in [Obj -> (Obj \X Slot) \cup {None}]
    BY <1>2 DEF TypeOK, AllModes
  <2>5. hasgc' \in [Obj -> BOOLEAN] /\ finalized' \in [Obj -> BOOLEAN] /\ calls' \in [Obj -> Nat]
    BY <1>2 DEF TypeOK
  <2>6. L' \in Obj /\ kind'[L'] = "thread"
    BY <1>1, <1>5, <1>u DEF TypeOK
  <2>7. tmudata' \subseteq Are("udata")' /\ tosweep' \subseteq Allocated'
    BY <1>5, <1>6, <1>7, <1>u DEF TypeOK, Are
  <2>. QED BY <1>4, <1>u, <2>1, <2>2, <2>3, <2>4, <2>5, <2>6, <2>7 DEF TypeOK
<1>9. Alive' = Alive \cup {o} /\ o \notin Alive
  <2>1. \A x \in Obj : x # o => mark'[x] = mark[x]
    BY <1>2 DEF TypeOK
  <2>2. mark'[o] = white /\ white # Otherwhite /\ Otherwhite' = Otherwhite
    BY <1>2, <1>u, WhitesTwo DEF TypeOK, Otherwhite
  <2>. QED BY <1>1, <1>6, <2>1, <2>2 DEF Alive, IsDead, Allocated
<1>10. Values \cup {o} \subseteq Values' /\ Tables \subseteq Tables'
  <2>1. \A x \in Alive : kind'[x] = kind[x]
    BY <1>5, <1>9 DEF Alive, Allocated
  <2>. QED BY <1>1, <1>5, <1>9, <2>1 DEF Values, Tables
<1>11. RootsAlive'
  BY <1>9, <1>u DEF RootsAlive
<1>12. AliveSound'
  <2>. SUFFICES ASSUME NEW x \in Alive \cup {o} PROVE Sound(x)'
    BY <1>9 DEF AliveSound
  <2>1. \A t \in Obj, y \in Slot : stack'[t][y] \in {stack[t][y], o, None}
    BY <1>1, <1>3 DEF TypeOK
  <2>2. CASE x = o
    <3>1. a'[o] = key /\ b'[o] = val
      BY <1>2 DEF TypeOK
    <3>2. \A y \in Slot : stack'[o][y] = None
      BY <1>1, <1>3 DEF TypeOK
    <3>3. None \in Values' /\ None \in Tables'
      BY DEF Values, Tables
    <3>4. k = "func" => key \in Alive' /\ kind'[key] = "upval"
      BY <1>5, <1>9 DEF MayHold, Alive, Allocated
    <3>5. kind'[o] = k /\ k # "upval"
      BY <1>1, <1>5
    <3>6. /\ k = "table" => key \in Values' /\ val \in Values' /\ (val = None => key = None)
          /\ k = "udata" => key \in Tables' /\ val \in Tables'
          /\ k = "func" => val \in Tables'
          /\ k = "thread" => val \in Tables'
      BY <3>3, <1>10 DEF MayHold
    <3>. QED BY <2>2, <3>1, <3>2, <3>3, <3>4, <3>5, <3>6 DEF Sound
  <2>3. CASE x \in Alive
    <3>1. Sound(x) /\ x \in Obj /\ x # o /\ kind'[x] = kind[x] /\ open'[x] = open[x]
          /\ a'[x] = a[x] /\ b'[x] = b[x]
      BY <2>3, <1>2, <1>5, <1>9 DEF AliveSound, Alive, Allocated, TypeOK
    <3>2. None \in Values' /\ None \in Tables'
      BY DEF Values, Tables
    <3>3. kind[x] = "upval" => Value(x)' \in Values'
      <4>1. CASE open[x] = None
        BY <3>1, <4>1, <1>10 DEF Sound, Value, IsOpen
      <4>2. CASE open[x] # None
        BY <2>1, <3>1, <3>2, <4>2, <1>10 DEF Sound, Value, IsOpen, OpenSound
      <4>. QED BY <4>1, <4>2
    <3>4. kind[x] = "thread" => \A y \in Slot : stack'[x][y] \in Values'
      BY <2>1, <3>1, <3>2, <1>10 DEF Sound
    <3>5. kind[x] = "func" => a[x] \in Alive' /\ kind'[a[x]] = "upval"
      BY <3>1, <1>5, <1>9 DEF Sound, Alive, Allocated
    <3>. QED BY <3>1, <3>3, <3>4, <3>5, <1>10 DEF Sound
  <2>. QED BY <2>2, <2>3
<1>13. OpenSound'
  <2>1. \A x \in Obj : x # o => mark'[x] = mark[x] /\ open'[x] = open[x]
    BY <1>2 DEF TypeOK
  <2>2. mark'[o] # "black" /\ open'[o] = None
    BY <1>2, WhitesTwo DEF TypeOK
  <2>3. ASSUME NEW u \in Obj, open'[u] # None
        PROVE  /\ kind'[u] = "upval" /\ mark'[u] # "black"
               /\ open'[u] \in Obj \X Slot /\ kind'[open'[u][1]] = "thread"
    <3>1. u # o /\ kind[u] = "upval" /\ mark[u] # "black" /\ open[u] \in Obj \X Slot
          /\ kind[open[u][1]] = "thread"
      BY <2>1, <2>2, <2>3 DEF OpenSound, IsOpen
    <3>2. open[u][1] \in Obj /\ open[u][1] # o
      BY <1>1, <3>1
    <3>. QED BY <2>1, <3>1, <3>2, <1>5
  <2>4. \A t \in Are("thread")' : mark'[t] # "black"
    BY <2>1, <2>2, <1>5 DEF OpenSound, Are
  <2>. QED BY <2>3, <2>4 DEF OpenSound, IsOpen
<1>14. SweepSound'
  <2>1. \A x \in Obj : x # o => mark'[x] = mark[x] /\ open'[x] = open[x]
    BY <1>2 DEF TypeOK
  <2>2. mark'[o] = white
    BY <1>2 DEF TypeOK
  <2>3. \A x \in tosweep : x \in Obj /\ x # o
    BY <1>7 DEF TypeOK, Allocated
  <2>4. \A x \in Allocated : x \in Obj /\ x # o
    BY <1>1 DEF Allocated
  <2>. QED BY <1>5, <1>6, <1>u, <2>1, <2>2, <2>3, <2>4 DEF SweepSound, Waits, IsOpen
<1>15. \A x \in Obj : x # o => mark'[x] = mark[x]
  BY <1>2 DEF TypeOK
<1>16. MarkSound'
  <2>. SUFFICES ASSUME gcstate = "propagate" PROVE MarkSound'
    BY <1>u DEF MarkSound
  <2>1. Allocated' = Alive' /\ Allocated = Alive
    BY <1>6, <1>9, NoneDead
  <2>2. mark'[Main] = "gray"
    BY <1>1, <1>15, LuaGCParams DEF MarkSound
  <2>3. ASSUME NEW x \in Allocated' \ tmudata, mark'[x] = "black"
        PROVE  /\ kind'[x] \in {"table", "udata", "func"} => NotWhite(a[x])' /\ NotWhite(b[x])'
               /\ kind'[x] = "upval" => NotWhite(b[x])'
    <3>1. mark'[o] # "black"
      BY <1>2, WhitesTwo DEF TypeOK
    <3>2. x \in Alive /\ x \in Obj /\ x # o /\ mark[x] = "black" /\ kind'[x] = kind[x]
          /\ a'[x] = a[x] /\ b'[x] = b[x] /\ ~IsOpen(x)
      BY <2>1, <2>3, <3>1, <1>2, <1>5, <1>6, <1>15 DEF TypeOK, Allocated, OpenSound
    <3>3. kind[x] \in {"table", "udata", "func"} => a[x] # o /\ b[x] # o
      BY <3>2, <1>1, <1>9, FieldsAllocated
    <3>4. kind[x] = "upval" => b[x] # o
      BY <3>2, <1>1, <1>9, FieldsAllocated
    <3>5. a[x] \in Obj \cup {None} /\ b[x] \in Obj \cup {None}
      BY <3>2 DEF TypeOK
    <3>. QED BY <2>1, <2>3, <3>2, <3>3, <3>4, <3>5, <1>15 DEF MarkSound, NotWhite, IsWhite
  <2>. QED BY <2>1, <2>2, <2>3, <1>u DEF MarkSound
<1>17. GrayInOneList'
  <2>. SUFFICES ASSUME gcstate = "propagate" PROVE GrayInOneList'
    BY <1>u DEF GrayInOneList
  <2>1. mark'[o] # "gray"
    BY <1>2, WhitesTwo DEF TypeOK
  <2>2. {x \in Listed(Allocated)' : mark'[x] = "gray"} = {x \in Listed(Allocated) : mark[x] = "gray"}
    BY <1>1, <1>5, <1>6, <1>15, <2>1 DEF Listed, Allocated
  <2>. QED BY <2>2, <1>u DEF GrayInOneList
<1>. QED BY <1>8, <1>11, <1>12, <1>13, <1>14, <1>16, <1>17

LEMMA NewInv ==
  ASSUME Inv, UNCHANGED program, NEW o \in Obj, NEW s \in SlotsOf(L), New(o, s)
  PROVE  Inv'
<1>1. L \in Alive /\ Sound(L) /\ kind[L] = "thread"
  BY DEF Inv, RootsAlive, AliveSound, TypeOK
<1>2. b[L] \in Tables /\ b[L] \in Obj \cup {None} /\ None \in Tables
  BY <1>1 DEF Sound, Tables, Alive, Allocated
<1>3. CASE Create(o, "string", s, None, None, FALSE)
  BY <1>3, CreateInv DEF MayHold, AllKinds
<1>4. CASE Create(o, "table", s, None, None, FALSE)
  BY <1>4, CreateInv DEF MayHold, AllKinds
<1>5. CASE Create(o, "thread", s, None, b[L], FALSE)
  BY <1>2, <1>5, CreateInv DEF MayHold, AllKinds
<1>6. ASSUME NEW gc \in BOOLEAN, NEW mt \in TablesOnStack \cup {None},
             Create(o, "udata", s, mt, b[L], gc)
      PROVE  Inv'
  <2>1. mt \in Tables /\ mt \in Obj \cup {None}
    BY TableOperand, Operand
  <2>2. MayHold("udata", mt, b[L]) /\ "udata" \in AllKinds \ {"upval"}
    BY <1>2, <2>1 DEF MayHold, AllKinds
  <2>. QED BY <1>2, <1>6, <2>1, <2>2, CreateInv
<1>. QED BY <1>3, <1>4, <1>5, <1>6 DEF New, NewString, NewTable, NewThread, NewUdata

LEMMA ShareUpvalueInv ==
  ASSUME Inv, UNCHANGED program, NEW o \in Obj, NEW s \in SlotsOf(L), ShareUpvalue(o, s)
  PROVE  Inv'
<1>1. PICK f \in OnStack(L) \cap Are("func") : Create(o, "func", s, a[f], b[f], FALSE)
  BY DEF ShareUpvalue
<1>2. f \in Alive /\ Sound(f) /\ kind[f] = "func"
  BY Operand, LuaGCParams DEF Are, Inv, AliveSound
<1>3. a[f] \in Obj \cup {None} /\ b[f] \in Obj \cup {None}
  BY <1>2 DEF Inv, TypeOK, Alive, Allocated
<1>4. MayHold("func", a[f], b[f]) /\ "func" \in AllKinds \ {"upval"}
  BY <1>2 DEF Sound, MayHold, AllKinds
<1>. QED BY <1>1, <1>3, <1>4, CreateInv

\* A function and its upvalue: new, or found among the open ones and not dead
\* any more
LEMMA NewClosureInv ==
  ASSUME Inv, UNCHANGED program, NEW o \in Obj, NEW u \in Obj, NEW s \in SlotsOf(L),
         NEW x \in SlotsOf(L), NewClosure(o, u, s, x)
  PROVE  Inv'
<1>. USE DEF Inv
<1>1. /\ s \in Slot /\ x \in Slot /\ kind[o] = "free" /\ L \in Obj /\ o # L /\ o # Main
      /\ o \notin Allocated /\ o # None /\ u # None /\ <<L, x>> # None /\ o # u /\ kind[L] = "thread" /\ L \in Alive
  BY SlotsAreSlots, LuaGCParams DEF NewClosure, TypeOK, Allocated, RootsAlive
<1>u. UNCHANGED <<mode, hasgc, L, finalized, calls, white, gcstate, gray, grayagain, weak,
                  tmudata, tosweep, full>>
  BY DEF NewClosure, udataVars, listVars, sweepVars
<1>2. /\ a' = [a EXCEPT ![o] = u] /\ b' = [b EXCEPT ![o] = b[L]]
      /\ stack' = [stack EXCEPT ![L][s] = o]
  BY DEF NewClosure
\* The upvalue, found or new
<1>3. /\ kind[u] = "free" \/ (kind[u] = "upval" /\ open[u] = <<L, x>>)
      /\ kind' = [kind EXCEPT ![o] = "func", ![u] = "upval"]
      /\ open' = [open EXCEPT ![u] = <<L, x>>]
      /\ \/ mark' = [mark EXCEPT ![o] = white, ![u] = white]
         \/ kind[u] = "upval" /\ ~IsDead(u) /\ mark' = [mark EXCEPT ![o] = white]
  <2>. DEFINE found == {p \in Are("upval") : open[p] = <<L, x>>}
  <2>1. CASE found # {}
    <3>1. /\ u \in found /\ kind' = [kind EXCEPT ![o] = "func"] /\ open' = open
          /\ mark' = [mark EXCEPT ![o] = white, ![u] = IF IsDead(u) THEN white ELSE @]
      BY <2>1 DEF NewClosure
    <3>2. kind[u] = "upval" /\ open[u] = <<L, x>>
      BY <3>1 DEF Are
    <3>3. /\ kind' = [kind EXCEPT ![o] = "func", ![u] = "upval"]
          /\ open' = [open EXCEPT ![u] = <<L, x>>]
      BY <1>1, <3>1, <3>2 DEF TypeOK
    <3>4. CASE IsDead(u)
      BY <1>1, <3>1, <3>2, <3>3, <3>4 DEF TypeOK
    <3>5. CASE ~IsDead(u)
      <4>1. mark' = [mark EXCEPT ![o] = white]
        BY <1>1, <3>1, <3>5 DEF TypeOK
      <4>. QED BY <3>2, <3>3, <3>5, <4>1
    <3>. QED BY <3>4, <3>5
  <2>2. CASE found = {}
    BY <2>2 DEF NewClosure
  <2>. QED BY <2>1, <2>2
<1>4. stack' \in [Obj -> [Slot -> Obj \cup {None}]]
  BY <1>1, <1>2 DEF TypeOK
<1>5. /\ kind'[o] = "func" /\ kind'[u] = "upval"
      /\ \A y \in Obj \ {o, u} : kind'[y] = kind[y] /\ mark'[y] = mark[y]
      /\ \A y \in Obj : y # o => a'[y] = a[y] /\ b'[y] = b[y]
      /\ \A y \in Obj : y # u => open'[y] = open[y]
      /\ open'[u] = <<L, x>> /\ mark'[o] = white
      /\ mark'[u] = white \/ (kind[u] = "upval" /\ ~IsDead(u) /\ mark'[u] = mark[u])
      /\ a'[o] = u /\ b'[o] = b[L]
  BY <1>1, <1>2, <1>3 DEF TypeOK
<1>6. Allocated' = Allocated \cup {o, u} /\ \A y \in Alive : kind'[y] = kind[y]
  <2>1. kind[u] \in {"free", "upval"}
    BY <1>3
  <2>2. \A y \in Alive : kind'[y] = kind[y]
    BY <2>1, <1>1, <1>5 DEF Allocated, Alive
  <2>3. \A y \in Obj : y \in Allocated' <=> y \in Allocated \cup {o, u}
    BY <1>5 DEF Allocated
  <2>. QED BY <2>2, <2>3 DEF Allocated
<1>7. /\ o \notin tmudata /\ o \notin tosweep /\ u \notin tmudata
      /\ u \notin tosweep /\ open[o] = None
  BY <1>1, <1>3, NoneNoObject DEF TypeOK, Are, Allocated, SweepSound, OpenSound, IsOpen
<1>8. TypeOK'
  <2>1. kind' \in [Obj -> AllKinds \cup {"free"}] /\ kind'[Main] = "thread"
    BY <1>1, <1>3, LuaGCParams DEF TypeOK, AllKinds
  <2>2. mark' \in [Obj -> Whites \cup {"gray", "black"}]
    BY <1>3 DEF TypeOK
  <2>3. a' \in [Obj -> Obj \cup {None}] /\ b' \in [Obj -> Obj \cup {None}]
    BY <1>1, <1>2 DEF TypeOK
  <2>4. open' \in [Obj -> (Obj \X Slot) \cup {None}]
    BY <1>1, <1>3 DEF TypeOK
  <2>5. L' \in Obj /\ kind'[L'] = "thread"
    BY <1>1, <1>3, <1>5, <1>u DEF TypeOK
  <2>6. tmudata' \subseteq Are("udata")' /\ tosweep' \subseteq Allocated'
    BY <1>5, <1>6, <1>7, <1>u DEF TypeOK, Are
  <2>. QED BY <1>4, <1>u, <2>1, <2>2, <2>3, <2>4, <2>5, <2>6 DEF TypeOK
<1>9. Alive' = Alive \cup {o, u} /\ o \notin Alive
  <2>1. white # Otherwhite /\ Otherwhite' = Otherwhite
    BY <1>u, WhitesTwo DEF Otherwhite
  <2>2. mark'[o] # Otherwhite /\ mark'[u] # Otherwhite
    BY <1>5, <2>1 DEF IsDead
  <2>. QED BY <1>1, <1>5, <1>6, <2>1, <2>2 DEF Alive, IsDead, Allocated
<1>10. Values \cup {o} \subseteq Values' /\ Tables \subseteq Tables'
  BY <1>1, <1>5, <1>6, <1>9 DEF Values, Tables
<1>11. RootsAlive'
  BY <1>9, <1>u DEF RootsAlive
<1>s. \A t \in Obj, y \in Slot : stack'[t][y] \in {stack[t][y], o}
  BY <1>1, <1>2 DEF TypeOK
<1>12. AliveSound'
  <2>. SUFFICES ASSUME NEW y \in Alive \cup {o, u} PROVE Sound(y)'
    BY <1>9 DEF AliveSound
  <2>0. Sound(L)
    BY <1>1 DEF AliveSound
  <2>1. CASE y = o
    <3>1. b[L] \in Tables'
      BY <2>0, <1>1, <1>10 DEF Sound
    <3>. QED BY <2>1, <3>1, <1>5, <1>9 DEF Sound
  <2>2. CASE y = u
    <3>1. stack[L][x] \in Values
      BY <2>0, <1>1 DEF Sound
    <3>2. stack'[L][x] \in Values'
      BY <3>1, <1>s, <1>1, <1>10
    <3>3. Value(u)' = stack'[L][x]
      BY <1>1, <1>5 DEF Value, IsOpen
    <3>. QED BY <2>2, <3>2, <3>3, <1>5 DEF Sound
  <2>3. CASE y \in Alive /\ y # u
    <3>1. Sound(y) /\ y \in Obj /\ y # o /\ kind'[y] = kind[y] /\ open'[y] = open[y]
          /\ a'[y] = a[y] /\ b'[y] = b[y]
      BY <2>3, <1>5, <1>9 DEF AliveSound, Alive, Allocated
    <3>3. kind[y] = "upval" => Value(y)' \in Values'
      <4>1. CASE open[y] = None
        BY <3>1, <4>1, <1>10 DEF Sound, Value, IsOpen
      <4>2. CASE open[y] # None
        BY <1>s, <3>1, <4>2, <1>10 DEF Sound, Value, IsOpen, OpenSound
      <4>. QED BY <4>1, <4>2
    <3>4. kind[y] = "thread" => \A z \in Slot : stack'[y][z] \in Values'
      BY <1>s, <3>1, <1>10 DEF Sound
    <3>5. kind[y] = "func" => a[y] \in Alive' /\ kind'[a[y]] = "upval"
      BY <3>1, <1>6, <1>9 DEF Sound
    <3>. QED BY <3>1, <3>3, <3>4, <3>5, <1>10 DEF Sound
  <2>. QED BY <2>1, <2>2, <2>3
<1>13. OpenSound'
  <2>1. mark'[o] # "black" /\ mark'[u] # "black"
    <3>1. mark[u] # "black" \/ kind[u] # "upval"
      BY <1>1, <1>3 DEF OpenSound, IsOpen
    <3>. QED BY <3>1, <1>5, WhitesTwo
  <2>2. ASSUME NEW p \in Obj, open'[p] # None
        PROVE  /\ kind'[p] = "upval" /\ mark'[p] # "black"
               /\ open'[p] \in Obj \X Slot /\ kind'[open'[p][1]] = "thread"
    <3>1. CASE p = u
      <4>1. open'[p] = <<L, x>> /\ kind'[p] = "upval"
        BY <3>1, <1>5
      <4>2. L # u /\ kind'[L] = "thread"
        BY <1>1, <1>3, <1>5
      <4>3. open'[p] \in Obj \X Slot /\ open'[p][1] = L
        BY <4>1, <1>1
      <4>. QED BY <3>1, <4>1, <4>2, <4>3, <2>1
    <3>2. CASE p # u
      <4>1. p # o /\ kind[p] = "upval" /\ mark[p] # "black" /\ open[p] \in Obj \X Slot
            /\ kind[open[p][1]] = "thread" /\ open'[p] = open[p]
        BY <3>2, <2>2, <1>5, <1>7 DEF OpenSound, IsOpen
      <4>2. open[p][1] \in Obj \ {o, u}
        BY <1>1, <1>3, <4>1
      <4>. QED BY <4>1, <4>2, <3>2, <1>5
    <3>. QED BY <3>1, <3>2
  <2>3. \A t \in Are("thread")' : mark'[t] # "black"
    BY <2>1, <1>5 DEF OpenSound, Are
  <2>. QED BY <2>2, <2>3 DEF OpenSound, IsOpen
<1>14. SweepSound'
  <2>1. \A y \in tosweep : y \in Obj \ {o, u} /\ open'[y] = open[y] /\ kind'[y] = kind[y]
    BY <1>5, <1>7 DEF TypeOK, Allocated
  <2>2. ASSUME gcstate # "propagate", NEW y \in Allocated' PROVE Waits(y)' \/ mark'[y] = white
    <3>1. CASE y = o
      BY <3>1, <1>5
    <3>2. CASE y = u
      BY <3>2, <2>2, <1>3, <1>5, <1>u DEF SweepSound, Waits, IsOpen, Allocated
    <3>3. CASE y \in Allocated /\ y # o /\ y # u
      BY <3>3, <2>2, <1>5, <1>u DEF SweepSound, Waits, IsOpen, Allocated
    <3>. QED BY <3>1, <3>2, <3>3, <1>6
  <2>. QED BY <2>1, <2>2, <1>u DEF SweepSound, IsOpen
<1>15. ASSUME gcstate = "propagate", NEW y \in Alive
       PROVE  y \in Obj /\ y # o /\ mark'[y] = mark[y]
  <2>1. y \in Obj /\ y # o
    BY <1>9, <1>15 DEF Alive, Allocated
  <2>2. y = u => mark'[y] = mark[y]
    <3>. SUFFICES ASSUME y = u PROVE mark'[u] = mark[u]
      OBVIOUS
    <3>1. kind[u] = "upval" /\ ~IsDead(u) /\ u \in Alive
      BY <1>3, <1>15 DEF Alive, Allocated
    <3>2. {p \in Are("upval") : open[p] = <<L, x>>} # {}
      BY <3>1, <1>3 DEF Are
    <3>3. mark' = [mark EXCEPT ![o] = white, ![u] = IF IsDead(u) THEN white ELSE @]
      BY <3>2 DEF NewClosure
    <3>. QED BY <3>1, <3>3, <1>1 DEF TypeOK
  <2>. QED BY <2>1, <2>2, <1>5
<1>16. MarkSound'
  <2>. SUFFICES ASSUME gcstate = "propagate" PROVE MarkSound'
    BY <1>u DEF MarkSound
  <2>1. Allocated' = Alive' /\ Allocated = Alive
    BY <1>6, <1>9, NoneDead
  <2>2. mark'[Main] = "gray"
    BY <1>15 DEF MarkSound, RootsAlive
  <2>3. ASSUME NEW y \in Allocated' \ tmudata, mark'[y] = "black"
        PROVE  /\ kind'[y] \in {"table", "udata", "func"} => NotWhite(a[y])' /\ NotWhite(b[y])'
               /\ kind'[y] = "upval" => NotWhite(b[y])'
    <3>1. y # o /\ y \in Obj
      BY <2>3, <1>5, WhitesTwo DEF Allocated
    <3>2. y # u
      BY <2>3, <1>13, <1>1, <1>5 DEF OpenSound, IsOpen
    <3>3. y \in Alive /\ mark[y] = "black" /\ kind'[y] = kind[y] /\ a'[y] = a[y] /\ b'[y] = b[y]
          /\ ~IsOpen(y)
      BY <2>1, <2>3, <3>1, <3>2, <1>5, <1>6, <1>15 DEF OpenSound
    <3>4. \A z \in {o, u} : z \notin Alive =>
            /\ kind[y] \in {"table", "udata", "func"} => a[y] # z /\ b[y] # z
            /\ kind[y] = "upval" => b[y] # z
      BY <3>3, FieldsAllocated
    <3>5. \A z \in Obj : NotWhite(z) /\ (z \in {o, u} => z \in Alive) => NotWhite(z)'
      BY <1>5, <1>15 DEF NotWhite, IsWhite
    <3>6. NotWhite(None)'
      BY DEF NotWhite
    <3>7. a[y] \in Obj \cup {None} /\ b[y] \in Obj \cup {None}
      BY <3>1 DEF TypeOK
    <3>8. /\ kind[y] \in {"table", "udata", "func"} => NotWhite(a[y]) /\ NotWhite(b[y])
          /\ kind[y] = "upval" => NotWhite(b[y])
      BY <2>1, <2>3, <3>3 DEF MarkSound
    <3>9. kind[y] \in {"table", "udata", "func"} => NotWhite(a[y])' /\ NotWhite(b[y])'
      BY <3>3, <3>4, <3>5, <3>6, <3>7, <3>8 DEF NotWhite
    <3>10. kind[y] = "upval" => NotWhite(b[y])'
      BY <3>3, <3>4, <3>5, <3>6, <3>7, <3>8 DEF NotWhite
    <3>. QED BY <3>3, <3>9, <3>10 DEF NotWhite
  <2>. QED BY <2>1, <2>2, <2>3, <1>u DEF MarkSound
<1>17. GrayInOneList'
  <2>. SUFFICES ASSUME gcstate = "propagate" PROVE GrayInOneList'
    BY <1>u DEF GrayInOneList
  <2>0. Allocated = Alive
    BY NoneDead
  <2>1. mark'[o] # "gray"
    BY <1>5, WhitesTwo
  <2>2. {y \in Listed(Allocated)' : mark'[y] = "gray"} = {y \in Listed(Allocated) : mark[y] = "gray"}
    <3>1. ASSUME NEW y \in Listed(Allocated)', mark'[y] = "gray"
          PROVE  y \in Listed(Allocated) /\ mark[y] = "gray"
      BY <3>1, <2>0, <2>1, <1>5, <1>6, <1>15 DEF Listed
    <3>2. ASSUME NEW y \in Listed(Allocated), mark[y] = "gray"
          PROVE  y \in Listed(Allocated)' /\ mark'[y] = "gray"
      BY <3>2, <2>0, <1>6, <1>15 DEF Listed
    <3>. QED BY <3>1, <3>2
  <2>. QED BY <2>2, <1>u DEF GrayInOneList
<1>. QED BY <1>8, <1>11, <1>12, <1>13, <1>14, <1>16, <1>17

---------------------------------------------------------------------------
(* Marking *)

\* What reallymarkobject marks is white, and what it blackens leads to nothing
\* it leaves white: a userdata has two tables, an upvalue's value is none
LEMMA ReachedSettled ==
  ASSUME Inv, Allocated = Alive, NEW S
  PROVE  /\ Reached(S) \subseteq WhiteObjects /\ S \cap WhiteObjects \subseteq Reached(S)
         /\ \A o \in Reached(S) : MarkOf(o) = "black" =>
              /\ kind[o] = "udata" \/ (kind[o] = "upval" /\ ~IsOpen(o))
              /\ kind[o] = "udata" => /\ NotWhite(a[o]) \/ a[o] \in Reached(S)
                                      /\ NotWhite(b[o]) \/ b[o] \in Reached(S)
              /\ kind[o] = "upval" => NotWhite(b[o]) \/ b[o] \in Reached(S)
<1>. DEFINE direct == S \cap WhiteObjects
            values == {Value(u) : u \in direct \cap Are("upval")}
            through == direct \cup (values \cap WhiteObjects)
            tables == UNION {Strong(u) : u \in through \cap Are("udata")}
<1>1. Reached(S) = through \cup (tables \cap WhiteObjects)
  BY DEF Reached
<1>2. WhiteObjects \subseteq Alive /\ WhiteObjects \subseteq Obj
  BY DEF WhiteObjects, Allocated
<1>3. \A x : NotWhite(x) \/ x \in WhiteObjects \/ x \notin Alive
  BY DEF NotWhite, WhiteObjects, Alive
<1>4. ASSUME NEW u \in through \cap Are("udata")
      PROVE  /\ Strong(u) \subseteq Tables
             /\ NotWhite(a[u]) \/ a[u] \in Reached(S)
             /\ NotWhite(b[u]) \/ b[u] \in Reached(S)
  <2>1. u \in Alive /\ kind[u] = "udata"
    BY <1>2, <1>4 DEF Are
  <2>2. a[u] \in Tables /\ b[u] \in Tables
    BY <2>1 DEF Inv, AliveSound, Sound
  <2>3. Strong(u) = {a[u], b[u]} \ {None}
    BY <2>1 DEF Strong
  <2>4. \A x \in {a[u], b[u]} : x = None \/ x \in tables
    BY <1>4, <2>3
  <2>5. \A x \in Tables : NotWhite(x) \/ (x # None /\ x \in WhiteObjects)
    BY <1>3 DEF Tables, NotWhite
  <2>6. \A x \in {a[u], b[u]} : NotWhite(x) \/ x \in tables \cap WhiteObjects
    BY <2>2, <2>4, <2>5
  <2>. QED BY <1>1, <2>2, <2>3, <2>6
<1>5. ASSUME NEW u \in direct \cap Are("upval")
      PROVE  /\ Value(u) \in Values
             /\ NotWhite(Value(u)) \/ Value(u) \in Reached(S)
  <2>1. Value(u) \in Values
    BY <1>2, <1>5 DEF Inv, AliveSound, Sound, Are
  <2>2. NotWhite(Value(u)) \/ Value(u) \in WhiteObjects
    BY <1>3, <2>1 DEF Values, NotWhite
  <2>. QED BY <1>1, <1>5, <2>1, <2>2
<1>6. ASSUME NEW o \in Reached(S), MarkOf(o) = "black"
      PROVE  /\ kind[o] = "udata" \/ (kind[o] = "upval" /\ ~IsOpen(o))
             /\ kind[o] = "udata" => /\ NotWhite(a[o]) \/ a[o] \in Reached(S)
                                     /\ NotWhite(b[o]) \/ b[o] \in Reached(S)
             /\ kind[o] = "upval" => NotWhite(b[o]) \/ b[o] \in Reached(S)
  <2>1. kind[o] = "udata" \/ (kind[o] = "upval" /\ ~IsOpen(o))
    BY <1>6 DEF MarkOf
  <2>2. CASE o \in tables \cap WhiteObjects
    <3>1. PICK u \in through \cap Are("udata") : o \in Strong(u)
      BY <2>2
    <3>2. o \in Tables
      BY <1>4, <3>1
    <3>3. kind[o] = "table"
      BY <1>2, <2>2, <3>2, NoneNoObject DEF Tables
    <3>. QED BY <2>1, <3>3
  <2>3. CASE o \in through
    <3>1. CASE kind[o] = "udata"
      BY <1>2, <1>4, <2>3, <3>1 DEF Are
    <3>2. CASE kind[o] = "upval" /\ ~IsOpen(o)
      <4>1. o \in direct
        <5>1. SUFFICES ASSUME o \in values PROVE FALSE
          BY <2>3
        <5>2. PICK u \in direct \cap Are("upval") : o = Value(u)
          BY <5>1
        <5>3. o \in Values /\ o \in Obj
          BY <1>2, <1>5, <2>3, <5>2
        <5>. QED BY <3>2, <5>3, NoneNoObject DEF Values
      <4>2. o \in direct \cap Are("upval")
        BY <1>2, <3>2, <4>1 DEF Are
      <4>3. Value(o) = b[o]
        BY <3>2 DEF Value
      <4>. QED BY <1>5, <3>2, <4>2, <4>3
    <3>. QED BY <2>1, <3>1, <3>2
  <2>. QED BY <1>1, <1>6, <2>2, <2>3
<1>7. Reached(S) \subseteq WhiteObjects
  BY <1>1
<1>8. S \cap WhiteObjects \subseteq Reached(S)
  BY <1>1
<1>. QED BY <1>6, <1>7, <1>8

\* The marks after the objects of S are marked
Marked(S) == [o \in Obj |-> IF o \in Reached(S) THEN MarkOf(o) ELSE mark[o]]

LEMMA MarkingSettles ==
  ASSUME Inv, Allocated = Alive, NEW S
  PROVE  /\ Marked(S) \in [Obj -> Whites \cup {"gray", "black"}]
         /\ \A x \in Obj : IsWhite(x) \/ Marked(S)[x] = mark[x]
         /\ \A x \in Obj : Marked(S)[x] \in {mark[x], "gray", "black"}
         /\ \A x \in Obj : Marked(S)[x] = "black" /\ mark[x] # "black" =>
              /\ x \in Alive /\ x \in Reached(S)
              /\ kind[x] = "udata" \/ (kind[x] = "upval" /\ ~IsOpen(x))
         /\ \A x \in Obj : Marked(S)[x] = "gray" /\ mark[x] # "gray" => x \in Reached(S)
         /\ \A x \in Obj : kind[x] \in {"table", "func", "thread"} /\ x \in Reached(S) =>
              Marked(S)[x] = "gray" /\ IsWhite(x)
<1>1. Reached(S) \subseteq WhiteObjects /\ WhiteObjects \subseteq Alive
  BY ReachedSettled DEF WhiteObjects
<1>2. \A x \in Obj : Marked(S)[x] = IF x \in Reached(S) THEN MarkOf(x) ELSE mark[x]
  BY DEF Marked
<1>3. \A x \in Obj : MarkOf(x) \in {"gray", "black"}
  BY DEF MarkOf
<1>4. Marked(S) \in [Obj -> Whites \cup {"gray", "black"}]
  BY <1>3 DEF Marked, Inv, TypeOK
<1>5. \A x \in Reached(S) : IsWhite(x)
  BY <1>1 DEF WhiteObjects
<1>6. \A x \in Obj : MarkOf(x) = "black" => kind[x] = "udata" \/ (kind[x] = "upval" /\ ~IsOpen(x))
  BY DEF MarkOf
<1>7. \A x \in Obj : kind[x] \in {"table", "func", "thread"} => MarkOf(x) = "gray"
  BY DEF MarkOf
<1>. QED BY <1>1, <1>2, <1>3, <1>4, <1>5, <1>6, <1>7

\* What was not white, or is marked, is not white after
LEMMA MarkingDarkens ==
  ASSUME Inv, Allocated = Alive, NEW S, NEW x, NotWhite(x) \/ x \in Reached(S)
  PROVE  x = None \/ x \notin Obj \/ Marked(S)[x] \notin Whites
<1>1. SUFFICES ASSUME x \in Obj, x # None PROVE Marked(S)[x] \notin Whites
  OBVIOUS
<1>2. CASE x \in Reached(S)
  BY <1>1, <1>2 DEF Marked, MarkOf, Whites
<1>3. CASE x \notin Reached(S)
  BY <1>1, <1>3 DEF Marked, NotWhite, IsWhite
<1>. QED BY <1>2, <1>3

---------------------------------------------------------------------------
(* The program: what an object leads to is changed behind a barrier *)

\* The steps with a barrier that moves the mark forward, together
LEMMA ForwardInv ==
  ASSUME Inv, TypeOK', NEW o \in Alive, NEW v \in Values, BarrierForward(o, v),
         UNCHANGED <<kind, open, white, gcstate, grayagain, weak, tmudata, tosweep, L>>,
         \A x \in Obj : x # o => a'[x] = a[x] /\ b'[x] = b[x],
         a'[o] \in {a[o], v}, b'[o] \in {b[o], v},
         kind[o] # "table",
         kind[o] \in {"udata", "thread"} => v \in Tables,
         kind[o] = "func" => v \in Tables /\ a'[o] = a[o],
         \A t \in Obj, s \in Slot : stack'[t][s] = stack[t][s] \/ stack'[t][s] \in Values
  PROVE  Inv'
<1>. USE DEF Inv
<1>1. o \in Obj /\ v \in Obj \cup {None}
  BY DEF Alive, Values, Allocated
<1>2. Allocated' = Allocated /\ Otherwhite' = Otherwhite /\ white' = white
  BY DEF Allocated, Otherwhite
<1>3. \/ /\ gcstate = "propagate" /\ mark[o] = "black" /\ v # None
         /\ mark' = Marked({v}) /\ gray' = gray \cup Listed(Reached({v}))
         /\ Allocated = Alive
      \/ /\ gcstate # "propagate" /\ mark' = [mark EXCEPT ![o] = white] /\ gray' = gray
      \/ mark' = mark /\ gray' = gray /\ (v = None \/ mark[o] # "black" \/ ~IsWhite(v))
  BY NoneDead DEF BarrierForward, MarkObjects, Marked
<1>4. \A x \in Obj : mark'[x] \in {mark[x], "gray", "black", white}
  BY <1>1, <1>3, MarkingSettles DEF TypeOK
<1>5. Alive' = Alive
  <2>1. "gray" # Otherwhite /\ "black" # Otherwhite /\ white # Otherwhite
    BY WhitesTwo
  <2>2. \A x \in Alive : mark'[x] # Otherwhite
    BY <1>4, <2>1 DEF Alive, IsDead, Allocated
  <2>3. \A x \in Allocated : x \notin Alive => mark'[x] = mark[x]
    BY <1>1, <1>3 DEF TypeOK, Allocated
  <2>. QED BY <1>2, <2>2, <2>3 DEF Alive, IsDead
<1>6. Values' = Values /\ Tables' = Tables
  BY <1>5 DEF Values, Tables
<1>7. RootsAlive'
  BY <1>5 DEF RootsAlive
<1>8. AliveSound'
  <2>. SUFFICES ASSUME NEW x \in Alive PROVE Sound(x)'
    BY <1>5 DEF AliveSound
  <2>1. Sound(x) /\ x \in Obj
    BY DEF AliveSound, Alive, Allocated
  <2>2. kind[x] = "upval" => Value(x)' \in Values
    <3>1. CASE open[x] = None
      <4>1. b'[x] \in {b[x], v}
        BY <2>1
      <4>. QED BY <2>1, <3>1, <4>1 DEF Sound, Value, IsOpen
    <3>2. CASE open[x] # None
      BY <2>1, <3>2 DEF Sound, Value, IsOpen, OpenSound
    <3>. QED BY <3>1, <3>2
  <2>3. kind[x] = "thread" => \A s \in Slot : stack'[x][s] \in Values
    BY <2>1 DEF Sound
  <2>4. CASE x # o
    BY <1>5, <1>6, <2>1, <2>2, <2>3, <2>4 DEF Sound
  <2>5. CASE x = o
    BY <1>5, <1>6, <2>1, <2>2, <2>3, <2>5 DEF Sound
  <2>. QED BY <2>4, <2>5
<1>9. \A x \in Obj : mark'[x] = "black" => mark[x] = "black" \/ (kind[x] # "thread" /\ ~IsOpen(x))
  <2>1. CASE /\ gcstate = "propagate" /\ mark' = Marked({v}) /\ Allocated = Alive
    BY <2>1, MarkingSettles DEF OpenSound
  <2>2. CASE \A x \in Obj : mark'[x] = mark[x] \/ mark'[x] = white
    BY <2>2, WhitesTwo
  <2>. QED BY <1>1, <1>3, <2>1, <2>2 DEF TypeOK
<1>10. OpenSound'
  BY <1>9 DEF OpenSound, Are, IsOpen
<1>11. SweepSound'
  <2>1. gcstate # "propagate" => \A x \in Obj : mark'[x] = mark[x] \/ mark'[x] = white
    BY <1>1, <1>3 DEF TypeOK
  <2>. QED BY <2>1, <1>2 DEF SweepSound, Waits, IsOpen, Allocated
<1>12. ASSUME gcstate = "propagate"
       PROVE  /\ MarkSound'
              /\ GrayInOneList'
  <2>0. Allocated = Alive
    BY <1>12, NoneDead
  <2>1. CASE mark' = mark /\ gray' = gray /\ (v = None \/ mark[o] # "black" \/ ~IsWhite(v))
    <3>1. ASSUME NEW x \in Allocated \ tmudata, mark[x] = "black"
          PROVE  /\ kind[x] \in {"table", "udata", "func"} => NotWhite(a[x])' /\ NotWhite(b[x])'
                 /\ kind[x] = "upval" => NotWhite(b[x])'
      <4>1. /\ kind[x] \in {"table", "udata", "func"} => NotWhite(a[x]) /\ NotWhite(b[x])
            /\ kind[x] = "upval" => NotWhite(b[x])
        BY <1>12, <3>1 DEF MarkSound
      <4>2. a'[x] \in {a[x]} \cup (IF x = o THEN {v} ELSE {})
            /\ b'[x] \in {b[x]} \cup (IF x = o THEN {v} ELSE {})
        BY <3>1 DEF Allocated
      <4>3. x = o => NotWhite(v)
        BY <2>1, <3>1 DEF NotWhite
      <4>. QED BY <2>1, <4>1, <4>2, <4>3 DEF NotWhite, IsWhite
    <3>2. MarkSound'
      BY <1>2, <1>5, <1>12, <2>0, <2>1, <3>1 DEF MarkSound
    <3>3. GrayInOneList'
      BY <1>2, <2>1 DEF GrayInOneList, Listed, Allocated
    <3>. QED BY <3>2, <3>3
  <2>2. CASE /\ mark[o] = "black" /\ mark' = Marked({v}) /\ v # None
             /\ gray' = gray \cup Listed(Reached({v}))
    <3>1. \A x : NotWhite(x) \/ x \in Reached({v}) => x = None \/ x \notin Obj \/ mark'[x] \notin Whites
      BY <2>0, <2>2, MarkingDarkens
    <3>2. NotWhite(v) \/ v \in Reached({v})
      BY <2>0, <2>2, ReachedSettled DEF NotWhite, Values, WhiteObjects
    <3>3. ASSUME NEW x \in Allocated \ tmudata, mark'[x] = "black"
          PROVE  /\ kind[x] \in {"table", "udata", "func"} => NotWhite(a[x])' /\ NotWhite(b[x])'
                 /\ kind[x] = "upval" => NotWhite(b[x])'
      <4>0. x \in Obj
        BY DEF Allocated
      <4>1. CASE mark[x] = "black"
        <5>1. /\ kind[x] \in {"table", "udata", "func"} => NotWhite(a[x]) /\ NotWhite(b[x])
              /\ kind[x] = "upval" => NotWhite(b[x])
          BY <1>12, <3>3, <4>1 DEF MarkSound
        <5>2. a'[x] \in {a[x], v} /\ b'[x] \in {b[x], v} /\ a'[x] \in Obj \cup {None}
              /\ b'[x] \in Obj \cup {None}
          BY <4>0 DEF TypeOK
        <5>. QED BY <3>1, <3>2, <5>1, <5>2 DEF NotWhite, IsWhite
      <4>2. CASE mark[x] # "black"
        <5>1. x # o /\ x \in Reached({v}) /\ (kind[x] = "udata" \/ (kind[x] = "upval" /\ ~IsOpen(x)))
          BY <2>0, <2>2, <3>3, <4>0, <4>2, MarkingSettles
        <5>2. MarkOf(x) = "black" /\ a'[x] = a[x] /\ b'[x] = b[x]
          BY <4>0, <5>1 DEF MarkOf
        <5>3. /\ kind[x] = "udata" => /\ NotWhite(a[x]) \/ a[x] \in Reached({v})
                                      /\ NotWhite(b[x]) \/ b[x] \in Reached({v})
              /\ kind[x] = "upval" => NotWhite(b[x]) \/ b[x] \in Reached({v})
          BY <2>0, <5>1, <5>2, ReachedSettled
        <5>4. a[x] \in Obj \cup {None} /\ b[x] \in Obj \cup {None}
          BY <4>0 DEF TypeOK
        <5>. QED BY <3>1, <5>1, <5>2, <5>3, <5>4 DEF NotWhite, IsWhite
      <4>. QED BY <4>1, <4>2
    <3>4. mark'[Main] = "gray"
      BY <1>12, <2>0, <2>2, MarkingSettles, LuaGCParams, WhitesTwo DEF MarkSound, IsWhite
    <3>5. MarkSound'
      BY <1>2, <1>5, <1>12, <2>0, <3>3, <3>4 DEF MarkSound
    <3>6. GrayInOneList'
      <4>1. \A x \in Listed(Reached({v})) : x \in Listed(Allocated) /\ IsWhite(x) /\ mark'[x] = "gray"
        BY <2>0, <2>2, ReachedSettled, MarkingSettles DEF Listed, WhiteObjects, Allocated
      <4>2. \A x \in Obj : mark'[x] = "gray" => mark[x] = "gray" \/ x \in Reached({v})
        BY <2>0, <2>2, MarkingSettles
      <4>3. \A x \in Obj : mark[x] = "gray" => mark'[x] = "gray"
        BY <2>0, <2>2, MarkingSettles, WhitesTwo DEF IsWhite
      <4>4. Listed(Allocated)' = Listed(Allocated) /\ Listed(Allocated) \subseteq Obj
        BY <1>2 DEF Listed, Allocated
      <4>5. {x \in Listed(Allocated) : mark'[x] = "gray"}
            = {x \in Listed(Allocated) : mark[x] = "gray"} \cup Listed(Reached({v}))
        BY <4>1, <4>2, <4>3, <4>4 DEF Listed
      <4>6. \A x \in Listed(Reached({v})) : x \notin {y \in Listed(Allocated) : mark[y] = "gray"}
        BY <4>1, WhitesTwo DEF IsWhite
      <4>. QED BY <1>12, <2>2, <4>4, <4>5, <4>6 DEF GrayInOneList
    <3>. QED BY <3>5, <3>6
  <2>. QED BY <1>3, <1>12, <2>1, <2>2
<1>13. MarkSound' /\ GrayInOneList'
  BY <1>12 DEF MarkSound, GrayInOneList
<1>. QED BY <1>7, <1>8, <1>10, <1>11, <1>13

LEMMA ForwardTypes ==
  ASSUME Inv, NEW o, NEW v, BarrierForward(o, v)
  PROVE  mark' \in [Obj -> Whites \cup {"gray", "black"}] /\ gray' \subseteq Obj
<1>1. CASE mark' = mark /\ gray' = gray
  BY <1>1 DEF Inv, TypeOK
<1>2. CASE gcstate = "propagate" /\ MarkObjects({v})
  <2>1. Allocated = Alive /\ mark' = Marked({v})
    BY <1>2, NoneDead DEF MarkObjects, Marked
  <2>2. Listed(Reached({v})) \subseteq Obj
    BY <2>1, ReachedSettled DEF Listed, WhiteObjects, Allocated
  <2>3. Marked({v}) \in [Obj -> Whites \cup {"gray", "black"}]
    BY <2>1, MarkingSettles
  <2>4. gray' = gray \cup Listed(Reached({v})) /\ gray \subseteq Obj
    BY <1>2 DEF MarkObjects, Inv, TypeOK
  <2>. QED BY <2>1, <2>2, <2>3, <2>4
<1>3. CASE mark' = [mark EXCEPT ![o] = white] /\ gray' = gray
  BY <1>3 DEF Inv, TypeOK
<1>. QED BY <1>1, <1>2, <1>3 DEF BarrierForward

\* OP_SETUPVAL: the value of a closed upvalue, or a slot of some thread
LEMMA SetUpvalueInv ==
  ASSUME Inv, UNCHANGED program, NEW f \in OnStack(L), NEW v \in OnStack(L) \cup {None},
         SetUpvalue(f, v)
  PROVE  Inv'
<1>. USE DEF Inv
<1>. DEFINE u == a[f]
<1>1. f \in Alive /\ kind[f] = "func" /\ v \in Values /\ v \in Obj \cup {None}
  BY Operand DEF SetUpvalue, OnStack
<1>2. u \in Alive /\ kind[u] = "upval" /\ u \in Obj
  BY <1>1 DEF AliveSound, Sound, Alive, Allocated
<1>3. /\ UNCHANGED <<kind, a, mode, open, hasgc, L, finalized, calls, white, gcstate,
                     grayagain, weak, tmudata, tosweep, full>>
      /\ BarrierForward(u, v)
      /\ \/ /\ IsOpen(u) /\ b' = b
            /\ stack' = [stack EXCEPT ![open[u][1]][open[u][2]] = v]
         \/ ~IsOpen(u) /\ b' = [b EXCEPT ![u] = v] /\ stack' = stack
  BY DEF SetUpvalue, udataVars, sweepVars
<1>4. IsOpen(u) => open[u][1] \in Obj /\ open[u][2] \in Slot
  <2>1. IsOpen(u) => open[u] \in Obj \X Slot
    BY <1>2 DEF OpenSound
  <2>. QED BY <2>1
<1>5. stack' \in [Obj -> [Slot -> Obj \cup {None}]] /\ b' \in [Obj -> Obj \cup {None}]
  <2>1. CASE IsOpen(u)
    <3>1. PICK t \in Obj, s \in Slot : stack' = [stack EXCEPT ![t][s] = v]
      BY <1>3, <1>4, <2>1
    <3>2. b' = b
      BY <1>3, <2>1
    <3>. QED BY <1>1, <3>1, <3>2 DEF TypeOK
  <2>2. CASE ~IsOpen(u)
    <3>1. stack' = stack /\ b' = [b EXCEPT ![u] = v]
      BY <1>3, <2>2
    <3>. QED BY <1>1, <3>1 DEF TypeOK
  <2>. QED BY <2>1, <2>2
<1>6. TypeOK'
  BY <1>3, <1>5, ForwardTypes DEF TypeOK, Are, Allocated
<1>7. \A t \in Obj, s \in Slot : stack'[t][s] = stack[t][s] \/ stack'[t][s] \in Values
  <2>1. stack' = stack \/ \E t \in Obj, s \in Slot : stack' = [stack EXCEPT ![t][s] = v]
    BY <1>3, <1>4
  <2>. QED BY <1>1, <2>1 DEF TypeOK
<1>8. /\ \A x \in Obj : x # u => a'[x] = a[x] /\ b'[x] = b[x]
      /\ a'[u] = a[u] /\ b'[u] \in {b[u], v}
  BY <1>2, <1>3 DEF TypeOK
<1>. QED BY <1>1, <1>2, <1>3, <1>6, <1>7, <1>8, ForwardInv

LEMMA SetMetatableInv ==
  ASSUME Inv, UNCHANGED program, NEW u \in OnStack(L), NEW t \in TablesOnStack \cup {None},
         NEW gc \in BOOLEAN, SetMetatable(u, t, gc)
  PROVE  Inv'
<1>. USE DEF Inv
<1>1. u \in Alive /\ kind[u] = "udata" /\ u \in Obj
  BY Operand DEF SetMetatable, OnStack
<1>2. t \in Tables /\ t \in Obj \cup {None} /\ t \in Values
  BY TableOperand, Operand
<1>3. /\ UNCHANGED <<kind, b, mode, open, stack, L, finalized, calls, white, gcstate,
                     grayagain, weak, tmudata, tosweep, full>>
      /\ a' = [a EXCEPT ![u] = t] /\ hasgc' = [hasgc EXCEPT ![u] = gc]
      /\ BarrierForward(u, t)
  BY DEF SetMetatable, udataVars, sweepVars, threadVars
<1>4. a' \in [Obj -> Obj \cup {None}] /\ hasgc' \in [Obj -> BOOLEAN]
  BY <1>2, <1>3 DEF TypeOK
<1>5. TypeOK'
  BY <1>3, <1>4, ForwardTypes DEF TypeOK, Are, Allocated
<1>6. (\A x \in Obj : x # u => a'[x] = a[x]) /\ a'[u] = t
  BY <1>1, <1>3 DEF TypeOK
<1>. QED BY <1>1, <1>2, <1>3, <1>5, <1>6, ForwardInv

LEMMA SetFenvInv ==
  ASSUME Inv, UNCHANGED program, NEW o \in OnStack(L), NEW t \in TablesOnStack, SetFenv(o, t)
  PROVE  Inv'
<1>. USE DEF Inv
<1>1. o \in Alive /\ kind[o] \in {"udata", "func", "thread"} /\ o \in Obj
  BY Operand DEF SetFenv, OnStack
<1>2. t \in Tables /\ t \in Obj \cup {None} /\ t \in Values
  BY TableOperand, Operand
<1>3. /\ UNCHANGED <<kind, a, mode, open, hasgc, stack, L, finalized, calls, white, gcstate,
                     grayagain, weak, tmudata, tosweep, full>>
      /\ b' = [b EXCEPT ![o] = t] /\ BarrierForward(o, t)
  BY DEF SetFenv, udataVars, sweepVars, threadVars
<1>4. b' \in [Obj -> Obj \cup {None}]
  BY <1>2, <1>3 DEF TypeOK
<1>5. TypeOK'
  BY <1>3, <1>4, ForwardTypes DEF TypeOK, Are, Allocated
<1>6. (\A x \in Obj : x # o => b'[x] = b[x]) /\ b'[o] = t
  BY <1>1, <1>3 DEF TypeOK
<1>. QED BY <1>1, <1>2, <1>3, <1>5, <1>6, ForwardInv

\* t[k] = v: a black table that takes a white value is gray again, and is
\* traversed again before the sweep
LEMMA SetTableInv ==
  ASSUME Inv, UNCHANGED program, NEW t \in OnStack(L), NEW k \in OnStack(L) \cup {None},
         NEW v \in OnStack(L) \cup {None}, SetTable(t, k, v)
  PROVE  Inv'
<1>. USE DEF Inv
<1>. DEFINE stored == IF k = a[t] THEN {v} ELSE {k, v}
            hit == mark[t] = "black" /\ \E x \in stored \ {None} : IsWhite(x)
<1>1. t \in Alive /\ kind[t] = "table" /\ t \in Obj
  BY Operand DEF SetTable, OnStack
<1>2. v \in Values /\ v \in Obj \cup {None} /\ k \in Values /\ k \in Obj \cup {None}
      /\ (v = None => k = None)
  BY Operand DEF SetTable
<1>3. /\ UNCHANGED <<kind, mode, open, hasgc, stack, L, finalized, calls, white, gcstate,
                     gray, weak, tmudata, tosweep, full>>
      /\ a' = [a EXCEPT ![t] = k] /\ b' = [b EXCEPT ![t] = v]
      /\ \/ /\ hit /\ mark' = [mark EXCEPT ![t] = "gray"]
            /\ grayagain' = IF gcstate = "propagate" THEN grayagain \cup {t} ELSE grayagain
         \/ ~hit /\ mark' = mark /\ grayagain' = grayagain
  BY DEF SetTable, BarrierBack, udataVars, sweepVars, threadVars
<1>4. a' \in [Obj -> Obj \cup {None}] /\ b' \in [Obj -> Obj \cup {None}]
      /\ mark' \in [Obj -> Whites \cup {"gray", "black"}] /\ grayagain' \subseteq Obj
  BY <1>1, <1>2, <1>3 DEF TypeOK
<1>5. TypeOK'
  BY <1>3, <1>4 DEF TypeOK, Are, Allocated
<1>6. /\ \A x \in Obj : x # t => a'[x] = a[x] /\ b'[x] = b[x] /\ mark'[x] = mark[x]
      /\ a'[t] = k /\ b'[t] = v
      /\ mark'[t] = mark[t] \/ (mark[t] = "black" /\ mark'[t] = "gray")
  BY <1>1, <1>3 DEF TypeOK
<1>7. Alive' = Alive /\ Values' = Values /\ Tables' = Tables /\ Allocated' = Allocated
  <2>1. Allocated' = Allocated /\ Otherwhite' = Otherwhite
    BY <1>3 DEF Allocated, Otherwhite
  <2>2. "gray" # Otherwhite /\ "black" # Otherwhite
    BY WhitesTwo
  <2>3. \A x \in Obj : mark'[x] = Otherwhite <=> mark[x] = Otherwhite
    BY <1>6, <2>2
  <2>4. Alive' = Alive
    BY <2>1, <2>3 DEF Alive, IsDead, Allocated
  <2>. QED BY <1>3, <2>1, <2>4 DEF Values, Tables
<1>8. RootsAlive'
  BY <1>3, <1>7 DEF RootsAlive
<1>9. AliveSound'
  <2>. SUFFICES ASSUME NEW x \in Alive PROVE Sound(x)'
    BY <1>7 DEF AliveSound
  <2>1. Sound(x) /\ x \in Obj
    BY DEF AliveSound, Alive, Allocated
  <2>2. CASE x = t
    BY <1>1, <1>2, <1>3, <1>6, <1>7, <2>2 DEF Sound
  <2>3. CASE x # t
    <3>1. kind[x] = "upval" => Value(x)' = Value(x)
      BY <1>3, <1>6, <2>1, <2>3 DEF Value, IsOpen
    <3>. QED BY <1>3, <1>6, <1>7, <2>1, <2>3, <3>1 DEF Sound
  <2>. QED BY <2>2, <2>3
<1>10. OpenSound'
  BY <1>3, <1>6 DEF OpenSound, Are, IsOpen
<1>11. SweepSound'
  <2>1. ASSUME gcstate # "propagate", NEW x \in Allocated PROVE Waits(x)' \/ mark'[x] = white
    <3>1. Waits(x) \/ mark[x] = white
      BY <2>1 DEF SweepSound
    <3>2. Waits(x)' = Waits(x)
      BY <1>3 DEF Waits, IsOpen
    <3>3. mark[x] = white => mark'[x] = white
      BY <1>6, WhitesTwo DEF Allocated
    <3>. QED BY <3>1, <3>2, <3>3
  <2>. QED BY <1>3, <1>7, <2>1 DEF SweepSound, IsOpen
<1>12. ASSUME gcstate = "propagate" PROVE MarkSound' /\ GrayInOneList'
  <2>0. Allocated = Alive
    BY <1>12, NoneDead
  <2>1. \A x : NotWhite(x) /\ x \in Obj \cup {None} => NotWhite(x)'
    BY <1>6, WhitesTwo DEF NotWhite, IsWhite
  <2>2. ASSUME NEW x \in Allocated \ tmudata, mark'[x] = "black"
        PROVE  /\ kind[x] \in {"table", "udata", "func"} => NotWhite(a[x])' /\ NotWhite(b[x])'
               /\ kind[x] = "upval" => NotWhite(b[x])'
    <3>0. x \in Obj /\ mark[x] = "black"
      BY <1>6, <2>2 DEF Allocated
    <3>1. /\ kind[x] \in {"table", "udata", "func"} => NotWhite(a[x]) /\ NotWhite(b[x])
          /\ kind[x] = "upval" => NotWhite(b[x])
      BY <1>12, <2>2, <3>0 DEF MarkSound
    <3>2. CASE x # t
      <4>1. a'[x] = a[x] /\ b'[x] = b[x] /\ a[x] \in Obj \cup {None} /\ b[x] \in Obj \cup {None}
        BY <1>6, <3>0, <3>2 DEF TypeOK
      <4>. QED BY <2>1, <3>1, <4>1 DEF NotWhite, IsWhite
    <3>3. CASE x = t
      <4>1. ~hit
        BY <1>1, <1>3, <2>2, <3>3 DEF TypeOK
      <4>2. \A y \in stored : NotWhite(y)
        BY <3>0, <3>3, <4>1 DEF NotWhite
      <4>3. NotWhite(v) /\ NotWhite(k)
        BY <1>1, <3>1, <3>3, <4>2
      <4>. QED BY <1>1, <1>2, <1>6, <2>1, <3>3, <4>3 DEF NotWhite, IsWhite
    <3>. QED BY <3>2, <3>3
  <2>3. mark'[Main] = "gray"
    BY <1>6, <1>12, LuaGCParams DEF MarkSound
  <2>4. MarkSound'
    BY <1>3, <1>7, <1>12, <2>0, <2>2, <2>3 DEF MarkSound
  <2>5. GrayInOneList'
    <3>1. Listed(Allocated)' = Listed(Allocated) /\ t \in Listed(Allocated)
          /\ Listed(Allocated) \subseteq Obj
      BY <1>1, <1>3, <1>7 DEF Listed, Alive, Allocated
    <3>2. CASE ~hit
      BY <1>3, <3>1, <3>2 DEF GrayInOneList
    <3>3. CASE hit
      <4>1. grayagain' = grayagain \cup {t} /\ mark'[t] = "gray" /\ mark[t] = "black"
        BY <1>1, <1>3, <1>12, <3>3 DEF TypeOK
      <4>2. {x \in Listed(Allocated) : mark'[x] = "gray"}
            = {x \in Listed(Allocated) : mark[x] = "gray"} \cup {t}
        BY <1>6, <3>1, <4>1
      <4>3. t \notin {x \in Listed(Allocated) : mark[x] = "gray"}
        BY <4>1
      <4>. QED BY <1>3, <1>12, <3>1, <4>1, <4>2, <4>3 DEF GrayInOneList
    <3>. QED BY <3>2, <3>3
  <2>. QED BY <2>4, <2>5
<1>13. MarkSound' /\ GrayInOneList'
  BY <1>3, <1>12 DEF MarkSound, GrayInOneList
<1>. QED BY <1>5, <1>8, <1>9, <1>10, <1>11, <1>13

\* luaF_close: the open upvalues from s on become closed, or are freed if they
\* are dead; a gray one is black with its value marked
LEMMA CloseInv ==
  ASSUME Inv, UNCHANGED program, NEW s \in SlotsOf(L), Close(s)
  PROVE  Inv'
<1>. USE DEF Inv
<1>. DEFINE level == {x \in Slot : x >= s}
            gone == {u \in OpenFrom(L, s) : IsDead(u)}
            closed == OpenFrom(L, s) \ gone
            seen == {u \in closed : mark[u] = "gray"}
            V == {Value(u) : u \in seen}
            values == IF gcstate = "propagate" THEN Reached(V) ELSE {}
<1>u. UNCHANGED <<mode, hasgc, L, finalized, calls, white, gcstate, grayagain, weak,
                  tmudata, tosweep, full>>
  BY DEF Close, udataVars, sweepVars
<1>1. /\ Free(gone, closed)
      /\ mark' = [o \in Obj |->
                    IF o \in seen THEN IF gcstate = "propagate" THEN "black" ELSE white
                    ELSE IF o \in values THEN MarkOf(o) ELSE mark[o]]
      /\ gray' = gray \cup Listed(values)
      /\ stack' = [stack EXCEPT ![L] = [x \in Slot |-> IF x \in level THEN None ELSE @[x]]]
  BY DEF Close
<1>. HIDE DEF level, V, values, seen
<1>2. /\ \A u \in gone \cup closed : u \in Obj /\ kind[u] = "upval" /\ IsOpen(u) /\ mark[u] # "black"
      /\ \A u \in closed : u \in Alive
      /\ \A u \in gone : u \notin Alive /\ u \notin tosweep
      /\ seen \subseteq closed /\ (\A u \in closed : u \in seen <=> mark[u] = "gray")
      /\ (\A u \in closed : u \notin gone)
  BY DEF OpenFrom, Are, Alive, Allocated, OpenSound, SweepSound, seen
<1>. HIDE DEF gone, closed
<1>3. /\ kind' = [o \in Obj |-> IF o \in gone THEN "free" ELSE kind[o]]
      /\ a' = [o \in Obj |-> IF o \in gone THEN None ELSE a[o]]
      /\ b' = [o \in Obj |-> IF o \in gone THEN None ELSE IF o \in closed THEN Value(o) ELSE b[o]]
      /\ open' = [o \in Obj |-> IF o \in gone \cup closed THEN None ELSE open[o]]
  BY <1>1 DEF Free
<1>4. L \in Obj /\ kind[L] = "thread" /\ L \in Alive /\ None \in Values
  BY DEF TypeOK, RootsAlive, Values
<1>5. gcstate = "propagate" => gone = {} /\ Allocated = Alive
  BY <1>2, NoneDead DEF Alive, Allocated
<1>6. values \subseteq WhiteObjects /\ values \subseteq Alive /\ values \subseteq Obj
  BY <1>5, ReachedSettled DEF values, WhiteObjects, Allocated
<1>7. \A u \in closed : Value(u) \in Values /\ Value(u) \in Obj \cup {None}
  BY <1>2 DEF AliveSound, Sound, Values, Alive, Allocated
<1>8. \A t \in Obj, x \in Slot : stack'[t][x] = stack[t][x] \/ stack'[t][x] = None
  BY <1>1, <1>4 DEF TypeOK
<1>9. TypeOK'
  <2>1. kind' \in [Obj -> AllKinds \cup {"free"}]
        /\ kind'[Main] = "thread" /\ kind'[L'] = "thread" /\ L' \in Obj
    BY <1>2, <1>3, <1>4, <1>u, LuaGCParams DEF TypeOK
  <2>2. mark' \in [Obj -> Whites \cup {"gray", "black"}]
    <3>1. \A o \in Obj : MarkOf(o) \in {"gray", "black"}
      BY DEF MarkOf
    <3>. QED BY <1>1, <3>1 DEF TypeOK
  <2>3. a' \in [Obj -> Obj \cup {None}] /\ b' \in [Obj -> Obj \cup {None}]
    BY <1>3, <1>7 DEF TypeOK
  <2>4. open' \in [Obj -> (Obj \X Slot) \cup {None}]
    BY <1>3 DEF TypeOK
  <2>5. stack' \in [Obj -> [Slot -> Obj \cup {None}]]
    BY <1>1, <1>4 DEF TypeOK
  <2>6. gray' \subseteq Obj
    BY <1>1, <1>6 DEF TypeOK, Listed
  <2>7. tmudata' \subseteq Are("udata")'
    BY <1>2, <1>3, <1>u DEF TypeOK, Are
  <2>8. tosweep' \subseteq Allocated'
    BY <1>2, <1>3, <1>u DEF TypeOK, Allocated
  <2>. QED BY <1>u, <2>1, <2>2, <2>3, <2>4, <2>5, <2>6, <2>7, <2>8 DEF TypeOK
<1>10. \A x \in Obj : kind'[x] = kind[x] \/ (x \in gone /\ kind'[x] = "free")
  BY <1>3
<1>11. Alive' = Alive
  <2>1. "gray" # Otherwhite /\ "black" # Otherwhite /\ white # Otherwhite /\ Otherwhite' = Otherwhite
    BY <1>u, WhitesTwo DEF Otherwhite
  <2>2. ASSUME NEW x \in Alive PROVE x \in Alive'
    <3>1. x \in Obj /\ x \notin gone /\ mark[x] # Otherwhite /\ kind[x] # "free"
      BY <1>2 DEF Alive, Allocated, IsDead
    <3>2. mark'[x] # Otherwhite
      BY <1>1, <2>1, <3>1 DEF MarkOf
    <3>. QED BY <1>10, <2>1, <3>1, <3>2 DEF Alive, Allocated, IsDead
  <2>3. ASSUME NEW x \in Alive' PROVE x \in Alive
    <3>1. x \in Obj /\ x \notin gone /\ kind[x] # "free" /\ mark'[x] # Otherwhite
      BY <1>3, <2>1 DEF Alive, Allocated, IsDead
    <3>2. x \in seen \/ x \in values => x \in Alive
      BY <1>2, <1>6
    <3>3. x \notin seen /\ x \notin values => mark'[x] = mark[x]
      BY <1>1, <3>1
    <3>. QED BY <3>1, <3>2, <3>3 DEF Alive, Allocated, IsDead
  <2>. QED BY <2>2, <2>3
<1>12. (\A x \in Alive : kind'[x] = kind[x]) /\ Values' = Values /\ Tables' = Tables
  <2>1. \A x \in Alive : kind'[x] = kind[x]
    BY <1>2, <1>10 DEF Alive, Allocated
  <2>. QED BY <2>1, <1>11 DEF Values, Tables
<1>13. RootsAlive'
  BY <1>11, <1>u DEF RootsAlive
<1>14. AliveSound'
  <2>. SUFFICES ASSUME NEW x \in Alive PROVE Sound(x)'
    BY <1>11 DEF AliveSound
  <2>1. Sound(x) /\ x \in Obj /\ x \notin gone /\ kind'[x] = kind[x]
    BY <1>2, <1>12 DEF AliveSound, Alive, Allocated
  <2>2. a'[x] = a[x] /\ (kind[x] # "upval" => b'[x] = b[x])
    BY <1>2, <1>3, <2>1
  <2>3. kind[x] = "upval" => Value(x)' \in Values
    <3>1. CASE x \in closed
      <4>1. open'[x] = None /\ b'[x] = Value(x)
        BY <1>3, <2>1, <3>1
      <4>. QED BY <1>7, <3>1, <4>1 DEF Value, IsOpen
    <3>2. CASE x \notin closed
      <4>1. open'[x] = open[x] /\ b'[x] = b[x]
        BY <1>3, <2>1, <3>2
      <4>2. CASE open[x] = None
        BY <2>1, <4>1, <4>2 DEF Sound, Value, IsOpen
      <4>3. CASE open[x] # None
        BY <1>4, <1>8, <2>1, <4>1, <4>3 DEF Sound, Value, IsOpen, OpenSound
      <4>. QED BY <4>2, <4>3
    <3>. QED BY <3>1, <3>2
  <2>4. kind[x] = "thread" => \A y \in Slot : stack'[x][y] \in Values
    BY <1>4, <1>8, <2>1 DEF Sound
  <2>5. kind[x] = "func" => kind'[a[x]] = "upval"
    BY <1>12, <2>1 DEF Sound
  <2>. QED BY <1>11, <1>12, <2>1, <2>2, <2>3, <2>4, <2>5 DEF Sound
<1>15. OpenSound'
  <2>1. ASSUME NEW u \in Obj, open'[u] # None
        PROVE  /\ kind'[u] = "upval" /\ mark'[u] # "black"
               /\ open'[u] \in Obj \X Slot /\ kind'[open'[u][1]] = "thread"
    <3>1. u \notin gone /\ u \notin closed /\ open'[u] = open[u] /\ open[u] # None
      BY <1>3, <2>1
    <3>2. kind[u] = "upval" /\ mark[u] # "black" /\ open[u] \in Obj \X Slot
          /\ kind[open[u][1]] = "thread"
      BY <3>1 DEF OpenSound, IsOpen
    <3>3. open[u][1] \in Obj /\ open[u][1] \notin gone
      BY <1>2, <3>2
    <3>4. u \notin seen
      BY <1>2, <3>1
    <3>5. MarkOf(u) # "black"
      BY <3>1, <3>2 DEF MarkOf, IsOpen
    <3>6. mark'[u] # "black"
      BY <1>1, <3>2, <3>4, <3>5
    <3>. QED BY <1>3, <3>1, <3>2, <3>3, <3>6
  <2>2. ASSUME NEW t \in Obj, kind'[t] = "thread" PROVE mark'[t] # "black"
    <3>1. kind[t] = "thread" /\ mark[t] # "black"
      BY <1>3, <2>2 DEF OpenSound, Are
    <3>2. t \notin seen /\ MarkOf(t) # "black"
      BY <1>2, <3>1 DEF MarkOf
    <3>. QED BY <1>1, <3>1, <3>2
  <2>. QED BY <2>1, <2>2 DEF OpenSound, IsOpen, Are
<1>16. SweepSound'
  <2>1. \A o \in tosweep : kind'[o] = "upval" => open'[o] = None
    BY <1>3 DEF SweepSound, IsOpen, TypeOK, Allocated
  <2>2. ASSUME gcstate # "propagate", NEW x \in Allocated' PROVE Waits(x)' \/ mark'[x] = white
    <3>1. x \in Allocated /\ x \notin gone /\ x \in Obj
      BY <1>3 DEF Allocated
    <3>2. Waits(x) \/ mark[x] = white
      BY <2>2, <3>1 DEF SweepSound
    <3>3. CASE x \in closed
      <4>1. x \in seen => mark'[x] = white
        BY <1>1, <2>2, <3>1
      <4>2. x \notin seen => mark[x] = white
        BY <1>2, <3>1, <3>3, WhitesTwo DEF Alive, IsDead, TypeOK
      <4>3. x \notin seen => mark'[x] = mark[x]
        BY <1>1, <2>2, <3>1 DEF values
      <4>. QED BY <4>1, <4>2, <4>3
    <3>4. CASE x \notin closed
      <4>1. mark'[x] = mark[x] /\ open'[x] = open[x]
        BY <1>1, <1>2, <1>3, <2>2, <3>1, <3>4 DEF values
      <4>. QED BY <1>u, <3>2, <4>1 DEF Waits, IsOpen
    <3>. QED BY <3>3, <3>4
  <2>. QED BY <1>u, <2>1, <2>2 DEF SweepSound, IsOpen
<1>17. ASSUME gcstate = "propagate" PROVE MarkSound' /\ GrayInOneList'
  <2>0. Allocated = Alive /\ Allocated' = Allocated /\ kind' = kind /\ values = Reached(V)
    BY <1>3, <1>5, <1>17 DEF Allocated, values, TypeOK
  <2>1. \A x \in Obj : mark'[x] = IF x \in seen THEN "black" ELSE Marked(V)[x]
    BY <1>1, <1>17, <2>0 DEF Marked
  <2>2. \A x : NotWhite(x) \/ x \in Reached(V) => NotWhite(x)' \/ x \notin Obj
    BY <2>0, <2>1, MarkingDarkens, WhitesTwo DEF NotWhite, IsWhite
  <2>3. ASSUME NEW x \in Allocated \ tmudata, mark'[x] = "black"
        PROVE  /\ kind[x] \in {"table", "udata", "func"} => NotWhite(a[x])' /\ NotWhite(b[x])'
               /\ kind[x] = "upval" => NotWhite(b[x])'
    <3>0. x \in Obj /\ a[x] \in Obj \cup {None} /\ b[x] \in Obj \cup {None} /\ NotWhite(None)'
      BY DEF Allocated, TypeOK, NotWhite
    <3>1. CASE x \in seen
      <4>1. b'[x] = Value(x) /\ kind[x] = "upval" /\ Value(x) \in V /\ x \in closed
        BY <1>2, <1>3, <3>0, <3>1 DEF V
      <4>2. Value(x) \in Obj \cup {None} /\ Value(x) \in Values
        BY <1>7, <4>1
      <4>3. NotWhite(Value(x)) \/ Value(x) \in WhiteObjects
        BY <2>0, <4>2 DEF NotWhite, Values, WhiteObjects
      <4>4. NotWhite(Value(x)) \/ Value(x) \in Reached(V)
        BY <2>0, <4>1, <4>3, ReachedSettled
      <4>5. Value(x) = None \/ mark'[Value(x)] \notin Whites
        BY <2>2, <4>2, <4>4 DEF NotWhite, IsWhite
      <4>. QED BY <4>1, <4>5 DEF NotWhite, IsWhite
    <3>2. CASE x \notin seen /\ mark[x] = "black"
      <4>1. x \notin closed /\ x \notin gone /\ a'[x] = a[x] /\ b'[x] = b[x]
        BY <1>2, <1>3, <3>0, <3>2
      <4>2. /\ kind[x] \in {"table", "udata", "func"} => NotWhite(a[x]) /\ NotWhite(b[x])
            /\ kind[x] = "upval" => NotWhite(b[x])
        BY <1>17, <2>3, <3>2 DEF MarkSound
      <4>. QED BY <2>2, <3>0, <4>1, <4>2 DEF NotWhite, IsWhite
    <3>3. CASE x \notin seen /\ mark[x] # "black"
      <4>1. x \in Reached(V) /\ (kind[x] = "udata" \/ (kind[x] = "upval" /\ ~IsOpen(x)))
        BY <2>0, <2>1, <2>3, <3>0, <3>3, MarkingSettles
      <4>2. x \notin closed /\ x \notin gone /\ a'[x] = a[x] /\ b'[x] = b[x]
        BY <1>2, <1>3, <3>0, <4>1
      <4>3. MarkOf(x) = "black"
        BY <4>1 DEF MarkOf
      <4>4. /\ kind[x] = "udata" => /\ NotWhite(a[x]) \/ a[x] \in Reached(V)
                                    /\ NotWhite(b[x]) \/ b[x] \in Reached(V)
            /\ kind[x] = "upval" => NotWhite(b[x]) \/ b[x] \in Reached(V)
        BY <2>0, <4>1, <4>3, ReachedSettled
      <4>. QED BY <2>2, <3>0, <4>1, <4>2, <4>4 DEF NotWhite, IsWhite
    <3>. QED BY <3>1, <3>2, <3>3
  <2>4. mark'[Main] = "gray"
    <3>1. Main \notin seen /\ mark[Main] = "gray"
      BY <1>2, <1>17 DEF MarkSound, TypeOK
    <3>. QED BY <2>0, <2>1, <3>1, MarkingSettles, LuaGCParams, WhitesTwo DEF IsWhite
  <2>5. MarkSound'
    BY <1>u, <1>11, <1>17, <2>0, <2>3, <2>4 DEF MarkSound
  <2>6. GrayInOneList'
    <3>0. \A x \in Listed(Allocated) : x \in Obj /\ x \notin seen
      BY <1>2 DEF Listed, Allocated
    <3>1. \A x \in Listed(Reached(V)) : x \in Listed(Allocated) /\ IsWhite(x)
      BY <2>0, ReachedSettled DEF Listed, WhiteObjects
    <3>2. \A x \in Listed(Allocated) : mark'[x] = Marked(V)[x]
      BY <2>1, <3>0
    <3>3. \A x \in Listed(Allocated) : mark'[x] = "gray" => mark[x] = "gray" \/ x \in Reached(V)
      BY <2>0, <3>0, <3>2, MarkingSettles
    <3>4. \A x \in Listed(Allocated) : mark[x] = "gray" => mark'[x] = "gray"
      BY <2>0, <3>0, <3>2, MarkingSettles, WhitesTwo DEF IsWhite
    <3>5. \A x \in Listed(Allocated) : x \in Reached(V) => mark'[x] = "gray"
      BY <2>0, <3>0, <3>2, MarkingSettles DEF Listed
    <3>6. Listed(Allocated)' = Listed(Allocated)
      BY <2>0 DEF Listed
    <3>7. {x \in Listed(Allocated) : mark'[x] = "gray"}
          = {x \in Listed(Allocated) : mark[x] = "gray"} \cup Listed(Reached(V))
      BY <3>1, <3>3, <3>4, <3>5 DEF Listed
    <3>8. \A x \in Listed(Reached(V)) : x \notin {y \in Listed(Allocated) : mark[y] = "gray"}
      BY <3>1, WhitesTwo DEF IsWhite
    <3>. QED BY <1>1, <1>u, <1>17, <2>0, <3>6, <3>7, <3>8 DEF GrayInOneList
  <2>. QED BY <2>5, <2>6
<1>18. MarkSound' /\ GrayInOneList'
  BY <1>u, <1>17 DEF MarkSound, GrayInOneList
<1>. QED BY <1>9, <1>13, <1>14, <1>15, <1>16, <1>18

LEMMA ProgramInv ==
  ASSUME Inv, UNCHANGED program, Program
  PROVE  Inv'
<1>. DEFINE operands == OnStack(L) \cup {None}
            keys == IF program.modes = {"strong"} THEN {None} ELSE operands
<1>1. keys \subseteq operands
  OBVIOUS
<1>2. CASE \E o \in Obj, s \in SlotsOf(L) : New(o, s) \/ ShareUpvalue(o, s) \/ FindString(o, s)
  BY <1>2, NewInv, ShareUpvalueInv, FindStringInv
<1>3. CASE \E o, u \in Obj, s, x \in SlotsOf(L) : NewClosure(o, u, s, x)
  BY <1>3, NewClosureInv
<1>4. CASE \E s \in SlotsOf(L) : Load(s) \/ Close(s)
  BY <1>4, LoadInv, CloseInv
<1>5. CASE \E t \in OnStack(L) \cup {L} : \E s \in SlotsOf(t), v \in operands : SetLocal(t, s, v)
  BY <1>5, SetLocalInv
<1>6. CASE \E t \in OnStack(L), k \in keys, v \in operands : SetTable(t, k, v)
  BY <1>1, <1>6, SetTableInv
<1>7. CASE \E f \in OnStack(L), v \in operands : SetUpvalue(f, v)
  BY <1>7, SetUpvalueInv
<1>8. CASE \E u \in OnStack(L), t \in TablesOnStack \cup {None}, gc \in BOOLEAN :
             SetMetatable(u, t, gc)
  BY <1>8, SetMetatableInv
<1>9. CASE \E o \in OnStack(L), t \in TablesOnStack : SetFenv(o, t)
  BY <1>9, SetFenvInv
<1>10. CASE \E t \in OnStack(L), m \in AllModes : SetMode(t, m)
  BY <1>10, SetModeInv
<1>11. CASE (\E t \in Obj : Resume(t)) \/ Yield
  BY <1>11, SwitchInv
<1>. QED BY <1>2, <1>3, <1>4, <1>5, <1>6, <1>7, <1>8, <1>9, <1>10, <1>11 DEF Program

---------------------------------------------------------------------------
(* The collector: marking *)

\* What is not dead stays so and nothing is changed in it
LEMMA HeapSame ==
  ASSUME AliveSound, UNCHANGED <<kind, a, b, open, stack>>, Alive' = Alive
  PROVE  AliveSound'
<1>1. Values' = Values /\ Tables' = Tables
  BY DEF Values, Tables
<1>2. \A x \in Alive : kind[x] = "upval" => Value(x)' = Value(x)
  BY DEF Value, IsOpen
<1>. QED BY <1>1, <1>2 DEF AliveSound, Sound

LEMMA MarkRootInv ==
  ASSUME Inv, UNCHANGED program, MarkRoot
  PROVE  Inv'
<1>. USE DEF Inv
<1>. DEFINE S == {Main, b[Main]} \ {None}
<1>1. gcstate \in {"pause", "finalize"} /\ Allocated = Alive /\ tosweep = {}
  BY NoneDead DEF MarkRoot, SweepSound
<1>2. /\ mark' = Marked(S) /\ gray' = Listed(Reached(S)) /\ grayagain' = {} /\ weak' = {}
      /\ gcstate' = "propagate" /\ full' = IF full = "sweep" THEN "cycle" ELSE full
      /\ UNCHANGED <<kind, a, b, mode, open, hasgc, stack, L, finalized, calls, white,
                     tmudata, tosweep>>
  BY DEF MarkRoot, Marked, heapVars, threadVars, udataVars
<1>. HIDE DEF S
<1>3. Reached(S) \subseteq WhiteObjects /\ S \cap WhiteObjects \subseteq Reached(S)
      /\ WhiteObjects \subseteq Obj
  BY <1>1, ReachedSettled DEF WhiteObjects, Allocated
<1>4. TypeOK'
  <2>1. gray' \subseteq Obj /\ full' \in {"no", "sweep", "cycle"}
    BY <1>2, <1>3 DEF Listed, TypeOK
  <2>2. mark' \in [Obj -> Whites \cup {"gray", "black"}]
    BY <1>1, <1>2, MarkingSettles
  <2>. QED BY <1>2, <2>1, <2>2 DEF TypeOK, Are, Allocated
<1>5. \A x \in Allocated : x \in tmudata \/ mark[x] = white
  BY <1>1 DEF SweepSound, Waits
<1>6. Alive' = Alive
  <2>1. "gray" # Otherwhite /\ "black" # Otherwhite /\ Otherwhite' = Otherwhite
    BY <1>2, WhitesTwo DEF Otherwhite
  <2>2. Allocated' = Allocated /\ \A x \in Obj : mark'[x] \in {mark[x], "gray", "black"}
    BY <1>1, <1>2, MarkingSettles DEF Allocated
  <2>. QED BY <1>1, <2>1, <2>2 DEF Alive, IsDead, Allocated
<1>7. RootsAlive' /\ AliveSound'
  BY <1>2, <1>6, HeapSame DEF RootsAlive
<1>8. OpenSound'
  BY <1>1, <1>2, MarkingSettles DEF OpenSound, Are, IsOpen
<1>9. SweepSound'
  BY <1>1, <1>2 DEF SweepSound
<1>10. MarkSound'
  <2>1. mark'[Main] = "gray"
    <3>1. Main \in Alive /\ kind[Main] = "thread" /\ Main \notin tmudata /\ Main \in Obj
      BY LuaGCParams DEF RootsAlive, TypeOK, Are
    <3>2. Main \in WhiteObjects /\ Main \in S
      BY <1>1, <1>5, <3>1, WhitesTwo, NoneNoObject DEF WhiteObjects, IsWhite, S
    <3>. QED BY <1>1, <1>2, <1>3, <3>1, <3>2, MarkingSettles
  <2>2. ASSUME NEW x \in Allocated \ tmudata, mark'[x] = "black"
        PROVE  /\ kind[x] \in {"table", "udata", "func"} => NotWhite(a[x])' /\ NotWhite(b[x])'
               /\ kind[x] = "upval" => NotWhite(b[x])'
    <3>1. x \in Obj /\ mark[x] # "black"
      BY <1>5, WhitesTwo DEF Allocated
    <3>2. x \in Reached(S) /\ (kind[x] = "udata" \/ (kind[x] = "upval" /\ ~IsOpen(x)))
      BY <1>1, <1>2, <2>2, <3>1, MarkingSettles
    <3>3. MarkOf(x) = "black"
      BY <3>2 DEF MarkOf
    <3>4. /\ kind[x] = "udata" => /\ NotWhite(a[x]) \/ a[x] \in Reached(S)
                                  /\ NotWhite(b[x]) \/ b[x] \in Reached(S)
          /\ kind[x] = "upval" => NotWhite(b[x]) \/ b[x] \in Reached(S)
      BY <1>1, <3>2, <3>3, ReachedSettled
    <3>5. \A y : NotWhite(y) \/ y \in Reached(S) => y = None \/ y \notin Obj \/ mark'[y] \notin Whites
      BY <1>1, <1>2, MarkingDarkens
    <3>6. a[x] \in Obj \cup {None} /\ b[x] \in Obj \cup {None}
      BY <3>1 DEF TypeOK
    <3>. QED BY <1>2, <3>2, <3>4, <3>5, <3>6 DEF NotWhite, IsWhite
  <2>3. Allocated' = Alive'
    BY <1>1, <1>2, <1>6 DEF Allocated
  <2>. QED BY <1>2, <2>1, <2>2, <2>3 DEF MarkSound, Allocated
<1>11. GrayInOneList'
  <2>1. \A x \in Listed(Reached(S)) : x \in Listed(Allocated) /\ mark'[x] = "gray"
    BY <1>1, <1>2, <1>3, MarkingSettles DEF Listed, WhiteObjects
  <2>2. ASSUME NEW x \in Listed(Allocated), mark'[x] = "gray" PROVE x \in Listed(Reached(S))
    <3>1. x \in Obj /\ x \in Allocated /\ kind[x] \in {"table", "func", "thread"}
      BY DEF Listed, Allocated
    <3>2. mark[x] # "gray"
      BY <1>5, <3>1, WhitesTwo DEF TypeOK, Are
    <3>. QED BY <1>1, <1>2, <2>2, <3>1, <3>2, MarkingSettles DEF Listed
  <2>3. Listed(Allocated)' = Listed(Allocated)
    BY <1>2 DEF Listed, Allocated
  <2>. QED BY <1>2, <2>1, <2>2, <2>3 DEF GrayInOneList
<1>. QED BY <1>4, <1>7, <1>8, <1>9, <1>10, <1>11

\* What is traversed leads to nothing white after; threads and weak tables wait
\* to be traversed once more
LEMMA PropagateInv ==
  ASSUME Inv, UNCHANGED program, NEW o \in Obj, Propagate(o)
  PROVE  Inv'
<1>. USE DEF Inv
<1>. DEFINE S == Strong(o)
            again == kind[o] = "thread" \/ WeakTable(o)
<1>1. gcstate = "propagate" /\ o \in gray /\ Allocated = Alive
  BY NoneDead DEF Propagate
<1>2. /\ o \in Alive /\ kind[o] \in {"table", "func", "thread"} /\ mark[o] = "gray"
      /\ o \notin grayagain /\ o \notin weak
  BY <1>1 DEF GrayInOneList, Listed
<1>3. /\ mark' = [x \in Obj |-> IF x = o THEN IF again THEN "gray" ELSE "black"
                                ELSE IF x \in Reached(S) THEN MarkOf(x) ELSE mark[x]]
      /\ gray' = (gray \ {o}) \cup Listed(Reached(S))
      /\ grayagain' = IF kind[o] = "thread" THEN grayagain \cup {o} ELSE grayagain
      /\ weak' = IF WeakTable(o) THEN weak \cup {o} ELSE weak
      /\ UNCHANGED <<kind, a, b, mode, open, hasgc, stack, L, finalized, calls, white,
                     gcstate, tmudata, tosweep, full>>
  BY DEF Propagate, heapVars, threadVars, udataVars, sweepVars
<1>. HIDE DEF S
<1>4. Reached(S) \subseteq WhiteObjects /\ S \cap WhiteObjects \subseteq Reached(S)
      /\ WhiteObjects \subseteq Obj /\ o \notin Reached(S)
  BY <1>1, <1>2, ReachedSettled, WhitesTwo DEF WhiteObjects, Allocated, IsWhite
<1>5. \A x \in Obj : x # o => mark'[x] = Marked(S)[x]
  BY <1>3 DEF Marked
<1>6. mark'[o] = IF again THEN "gray" ELSE "black"
  BY <1>3
<1>7. TypeOK'
  <2>1. gray' \subseteq Obj /\ grayagain' \subseteq Obj /\ weak' \subseteq Obj
    BY <1>3, <1>4 DEF Listed, TypeOK
  <2>2. mark' \in [Obj -> Whites \cup {"gray", "black"}]
    <3>1. \A x \in Obj : MarkOf(x) \in {"gray", "black"}
      BY DEF MarkOf
    <3>. QED BY <1>3, <3>1 DEF TypeOK
  <2>. QED BY <1>3, <2>1, <2>2 DEF TypeOK, Are, Allocated
<1>8. Alive' = Alive
  <2>1. "gray" # Otherwhite /\ "black" # Otherwhite /\ Otherwhite' = Otherwhite
    BY <1>3, WhitesTwo DEF Otherwhite
  <2>2. Allocated' = Allocated
    BY <1>3 DEF Allocated
  <2>3. \A x \in Obj : mark'[x] \in {mark[x], "gray", "black"}
    BY <1>1, <1>5, <1>6, MarkingSettles
  <2>. QED BY <1>1, <2>1, <2>2, <2>3 DEF Alive, IsDead, Allocated
<1>9. RootsAlive' /\ AliveSound'
  BY <1>3, <1>8, HeapSame DEF RootsAlive
<1>10. OpenSound'
  <2>1. ASSUME NEW x \in Obj, mark'[x] = "black", mark[x] # "black"
        PROVE  kind[x] # "thread" /\ ~IsOpen(x)
    <3>1. CASE x = o
      <4>1. ~again
        BY <1>6, <2>1, <3>1
      <4>2. ~IsOpen(o)
        BY <1>2 DEF OpenSound
      <4>. QED BY <3>1, <4>1, <4>2
    <3>2. CASE x # o
      BY <1>1, <1>5, <2>1, <3>2, MarkingSettles DEF OpenSound
    <3>. QED BY <3>1, <3>2
  <2>. QED BY <1>3, <2>1 DEF OpenSound, Are, IsOpen
<1>11. SweepSound'
  BY <1>1, <1>3 DEF SweepSound
<1>12. \A y : NotWhite(y) \/ y \in Reached(S) => y = None \/ y \notin Obj \/ mark'[y] \notin Whites
  BY <1>1, <1>5, <1>6, MarkingDarkens, WhitesTwo
<1>13. MarkSound'
  <2>1. mark'[Main] = "gray"
    <3>1. mark[Main] = "gray" /\ kind[Main] = "thread" /\ Main \in Obj
      BY <1>1, LuaGCParams DEF MarkSound, TypeOK
    <3>. QED BY <1>1, <1>5, <1>6, <3>1, MarkingSettles, WhitesTwo DEF IsWhite
  <2>2. ASSUME NEW x \in Allocated \ tmudata, mark'[x] = "black"
        PROVE  /\ kind[x] \in {"table", "udata", "func"} => NotWhite(a[x])' /\ NotWhite(b[x])'
               /\ kind[x] = "upval" => NotWhite(b[x])'
    <3>0. x \in Obj /\ a[x] \in Obj \cup {None} /\ b[x] \in Obj \cup {None}
      BY DEF Allocated, TypeOK
    <3>1. CASE x = o
      <4>1. ~again
        BY <1>6, <2>2, <3>1
      <4>2. S = {a[o], b[o]} \ {None}
        BY <1>2, <4>1 DEF S, Strong, WeakTable
      <4>3. a[o] \in Alive \cup {None} /\ b[o] \in Alive \cup {None}
        BY <1>2, <4>1 DEF AliveSound, Sound, Values, Tables
      <4>4. \A y \in {a[o], b[o]} : NotWhite(y) \/ y \in Reached(S)
        BY <1>1, <1>4, <4>2, <4>3 DEF NotWhite, WhiteObjects
      <4>. QED BY <1>2, <1>3, <1>12, <3>0, <3>1, <4>4 DEF NotWhite, IsWhite
    <3>2. CASE x # o /\ mark[x] = "black"
      <4>1. /\ kind[x] \in {"table", "udata", "func"} => NotWhite(a[x]) /\ NotWhite(b[x])
            /\ kind[x] = "upval" => NotWhite(b[x])
        BY <1>1, <2>2, <3>2 DEF MarkSound
      <4>. QED BY <1>3, <1>12, <3>0, <4>1 DEF NotWhite, IsWhite
    <3>3. CASE x # o /\ mark[x] # "black"
      <4>1. x \in Reached(S) /\ (kind[x] = "udata" \/ (kind[x] = "upval" /\ ~IsOpen(x)))
        BY <1>1, <1>5, <2>2, <3>0, <3>3, MarkingSettles
      <4>2. MarkOf(x) = "black"
        BY <4>1 DEF MarkOf
      <4>3. /\ kind[x] = "udata" => /\ NotWhite(a[x]) \/ a[x] \in Reached(S)
                                    /\ NotWhite(b[x]) \/ b[x] \in Reached(S)
            /\ kind[x] = "upval" => NotWhite(b[x]) \/ b[x] \in Reached(S)
        BY <1>1, <4>1, <4>2, ReachedSettled
      <4>. QED BY <1>3, <1>12, <3>0, <4>1, <4>3 DEF NotWhite, IsWhite
    <3>. QED BY <3>1, <3>2, <3>3
  <2>3. Allocated' = Alive'
    BY <1>1, <1>3, <1>8 DEF Allocated
  <2>. QED BY <1>3, <2>1, <2>2, <2>3 DEF MarkSound, Allocated
<1>14. GrayInOneList'
  <2>1. \A x \in Listed(Reached(S)) : x \in Listed(Allocated) /\ mark'[x] = "gray" /\ mark[x] # "gray" /\ x # o
    BY <1>1, <1>4, <1>5, MarkingSettles, WhitesTwo DEF Listed, WhiteObjects, IsWhite
  <2>2. ASSUME NEW x \in Listed(Allocated), x # o
        PROVE  mark'[x] = "gray" <=> mark[x] = "gray" \/ x \in Listed(Reached(S))
    <3>1. x \in Obj /\ kind[x] \in {"table", "func", "thread"} /\ mark'[x] = Marked(S)[x]
      BY <1>5, <2>2 DEF Listed, Allocated
    <3>2. x \in Listed(Reached(S)) <=> x \in Reached(S)
      BY <3>1 DEF Listed
    <3>. QED BY <1>1, <3>1, <3>2, MarkingSettles, WhitesTwo DEF IsWhite
  <2>3. Listed(Allocated)' = Listed(Allocated) /\ o \in Listed(Allocated)
    BY <1>1, <1>2, <1>3 DEF Listed, Allocated
  <2>4. gray \cup grayagain \cup weak = {x \in Listed(Allocated) : mark[x] = "gray"}
        /\ gray \cap grayagain = {} /\ gray \cap weak = {} /\ grayagain \cap weak = {}
    BY <1>1 DEF GrayInOneList
  <2>5. kind[o] = "thread" => ~WeakTable(o)
    BY DEF WeakTable
  <2>6. gray' \cap grayagain' = {} /\ gray' \cap weak' = {} /\ grayagain' \cap weak' = {}
    BY <1>2, <1>3, <2>1, <2>4, <2>5
  <2>7. \A x : x \in gray' \cup grayagain' \cup weak' <=> x \in Listed(Allocated) /\ mark'[x] = "gray"
    <3>1. CASE again
      BY <1>3, <1>6, <2>1, <2>2, <2>3, <2>4, <3>1
    <3>2. CASE ~again
      BY <1>2, <1>3, <1>6, <2>1, <2>2, <2>3, <2>4, <3>2
    <3>. QED BY <3>1, <3>2
  <2>. QED BY <2>3, <2>6, <2>7 DEF GrayInOneList
<1>. QED BY <1>7, <1>9, <1>10, <1>11, <1>13, <1>14

---------------------------------------------------------------------------
(* The collector: sweeping and finalizing *)

\* The part of Z that is to be freed
Doomed(dead, Z) == dead = {x \in Z : IsDead(x)}

\* The sweep comes by the objects of Z, those of Y in the lists: the dead of Z
\* are freed, the others are white, and upvalues of dead threads are closed
LEMMA SweptInv ==
  ASSUME Inv, TypeOK', gcstate \in {"sweepstring", "sweep"},
         gcstate' \in {"sweepstring", "sweep", "finalize"},
         gcstate' = "finalize" => tosweep' = {},
         NEW Z \in SUBSET Allocated, NEW Y \in SUBSET Z, NEW dead, NEW closed,
         Doomed(dead, Z),
         closed \subseteq Z \ dead, \A u \in closed : kind[u] = "upval",
         tosweep' = tosweep \ Y,
         \A u \in Obj : IsOpen(u) /\ open[u][1] \in Y => u \in Z,
         \A u \in Obj : IsOpen(u) /\ open[u][1] \in dead => u \in dead \cup closed,
         Free(dead, closed),
         mark' = [x \in Obj |-> IF x \in Z THEN white ELSE mark[x]],
         \A t \in Obj, s \in Slot : stack'[t][s] \in {stack[t][s], None},
         UNCHANGED <<L, white, tmudata>>
  PROVE  Inv'
<1>. USE DEF Inv
<1>1. /\ kind' = [o \in Obj |-> IF o \in dead THEN "free" ELSE kind[o]]
      /\ a' = [o \in Obj |-> IF o \in dead THEN None ELSE a[o]]
      /\ b' = [o \in Obj |-> IF o \in dead THEN None ELSE IF o \in closed THEN Value(o) ELSE b[o]]
      /\ open' = [o \in Obj |-> IF o \in dead \cup closed THEN None ELSE open[o]]
  BY DEF Free
<1>2. /\ \A x \in dead : x \notin Alive /\ x \in Allocated /\ x \in Z
      /\ \A x \in closed : x \in Alive /\ x \in Z /\ x \notin dead
      /\ \A x \in Z : x \in Allocated /\ x \in Obj
      /\ \A x \in Alive : x \notin dead
      /\ \A x \in dead : IsDead(x)
  BY DEF Doomed, Alive, Allocated
<1>3. \A x \in Z : x \in dead <=> IsDead(x)
  BY DEF Doomed
<1>4. white # Otherwhite /\ Otherwhite' = Otherwhite /\ white # "black"
  BY WhitesTwo DEF Otherwhite
<1>5. Alive' = Alive
  <2>1. ASSUME NEW x \in Alive PROVE x \in Alive'
    <3>1. x \in Obj /\ x \notin dead /\ mark[x] # Otherwhite /\ kind[x] # "free"
      BY <1>2 DEF Alive, Allocated, IsDead
    <3>. QED BY <1>1, <1>4, <3>1 DEF Alive, Allocated, IsDead
  <2>2. ASSUME NEW x \in Alive' PROVE x \in Alive
    <3>1. x \in Obj /\ x \notin dead /\ kind[x] # "free" /\ mark'[x] # Otherwhite
      BY <1>1, <1>4, <2>2 DEF Alive, Allocated, IsDead
    <3>2. ~IsDead(x)
      BY <1>3, <3>1 DEF IsDead
    <3>. QED BY <3>1, <3>2 DEF Alive, Allocated
  <2>. QED BY <2>1, <2>2
<1>6. (\A x \in Alive : kind'[x] = kind[x]) /\ Values' = Values /\ Tables' = Tables
      /\ None \in Values
  <2>1. \A x \in Alive : kind'[x] = kind[x]
    BY <1>1, <1>2 DEF Alive, Allocated
  <2>. QED BY <2>1, <1>5 DEF Values, Tables
<1>7. RootsAlive'
  BY <1>5 DEF RootsAlive
<1>8. AliveSound'
  <2>. SUFFICES ASSUME NEW x \in Alive PROVE Sound(x)'
    BY <1>5 DEF AliveSound
  <2>1. Sound(x) /\ x \in Obj /\ x \notin dead /\ kind'[x] = kind[x]
    BY <1>2, <1>6 DEF AliveSound, Alive, Allocated
  <2>2. a'[x] = a[x] /\ (kind[x] # "upval" => b'[x] = b[x])
    BY <1>1, <2>1
  <2>3. kind[x] = "upval" => Value(x)' \in Values
    <3>1. CASE x \in closed
      <4>1. open'[x] = None /\ b'[x] = Value(x)
        BY <1>1, <2>1, <3>1
      <4>. QED BY <2>1, <4>1 DEF Value, IsOpen, Sound
    <3>2. CASE x \notin closed
      <4>1. open'[x] = open[x] /\ b'[x] = b[x]
        BY <1>1, <2>1, <3>2
      <4>2. CASE open[x] = None
        BY <2>1, <4>1, <4>2 DEF Sound, Value, IsOpen
      <4>3. CASE open[x] # None
        <5>1. open[x] \in Obj \X Slot
          BY <2>1, <4>3 DEF OpenSound, IsOpen
        <5>. QED BY <1>6, <2>1, <4>1, <4>3, <5>1 DEF Sound, Value, IsOpen
      <4>. QED BY <4>2, <4>3
    <3>. QED BY <3>1, <3>2
  <2>4. kind[x] = "thread" => \A y \in Slot : stack'[x][y] \in Values
    BY <1>6, <2>1 DEF Sound
  <2>5. kind[x] = "func" => kind'[a[x]] = "upval"
    BY <1>6, <2>1 DEF Sound
  <2>. QED BY <1>5, <1>6, <2>1, <2>2, <2>3, <2>4, <2>5 DEF Sound
<1>9. OpenSound'
  <2>1. ASSUME NEW u \in Obj, open'[u] # None
        PROVE  /\ kind'[u] = "upval" /\ mark'[u] # "black"
               /\ open'[u] \in Obj \X Slot /\ kind'[open'[u][1]] = "thread"
    <3>1. u \notin dead /\ u \notin closed /\ open'[u] = open[u] /\ IsOpen(u)
      BY <1>1, <2>1 DEF IsOpen
    <3>2. kind[u] = "upval" /\ mark[u] # "black" /\ open[u] \in Obj \X Slot
          /\ kind[open[u][1]] = "thread"
      BY <3>1 DEF OpenSound
    <3>3. open[u][1] \in Obj /\ open[u][1] \notin dead
      BY <3>1, <3>2
    <3>. QED BY <1>1, <1>4, <3>1, <3>2, <3>3
  <2>2. ASSUME NEW t \in Obj, kind'[t] = "thread" PROVE mark'[t] # "black"
    BY <1>1, <1>4, <2>2 DEF OpenSound, Are
  <2>. QED BY <2>1, <2>2 DEF OpenSound, IsOpen, Are
<1>10. SweepSound'
  <2>1. \A o \in tosweep' : kind'[o] = "upval" => open'[o] = None
    BY <1>1 DEF SweepSound, IsOpen, TypeOK, Allocated
  <2>2. ASSUME NEW x \in Allocated' PROVE Waits(x)' \/ mark'[x] = white
    <3>1. x \in Allocated /\ x \notin dead /\ x \in Obj
      BY <1>1 DEF Allocated
    <3>2. Waits(x) \/ mark[x] = white
      BY <3>1 DEF SweepSound
    <3>3. CASE x \in Z
      BY <3>1, <3>3
    <3>4. CASE x \notin Z
      <4>1. mark'[x] = mark[x] /\ open'[x] = open[x] /\ x \notin Y
        BY <1>1, <1>2, <3>1, <3>4
      <4>2. IsOpen(x) => open[x][1] \notin Y
        BY <3>1, <3>4
      <4>. QED BY <3>2, <4>1, <4>2 DEF Waits, IsOpen
    <3>. QED BY <3>3, <3>4
  <2>. QED BY <2>1, <2>2 DEF SweepSound, IsOpen
<1>. QED BY <1>7, <1>8, <1>9, <1>10 DEF MarkSound, GrayInOneList

\* sweepwholelist on the strings: a dead string is freed
LEMMA SweepStringInv ==
  ASSUME Inv, UNCHANGED program, SweepString
  PROVE  Inv'
<1>. USE DEF Inv
<1>1. PICK swept \in {{o} : o \in tosweep \cap Are("string")} \cup
                     (IF tosweep \cap Are("string") = {} THEN {{}} ELSE {}) :
        /\ Free({o \in swept : IsDead(o)}, {})
        /\ mark' = [o \in Obj |-> IF o \in swept THEN white ELSE mark[o]]
        /\ tosweep' = tosweep \ swept
        /\ gcstate' = IF tosweep' \cap Are("string") = {} THEN "sweep" ELSE gcstate
  BY DEF SweepString
<1>2. gcstate = "sweepstring"
      /\ UNCHANGED <<mode, hasgc, stack, L, finalized, calls, white, gray, grayagain, weak,
                     tmudata, full>>
  BY DEF SweepString, threadVars, udataVars, listVars
<1>3. swept \subseteq tosweep \cap Are("string")
  BY <1>1
<1>4. swept \subseteq Allocated /\ \A x \in swept : kind[x] = "string" /\ x \in Obj
  BY <1>3 DEF Are, Allocated, TypeOK
<1>. DEFINE dead == {o \in swept : IsDead(o)}
<1>5. \A x \in dead : x \in swept /\ x \notin Alive
  BY DEF Alive
<1>6. /\ kind' = [o \in Obj |-> IF o \in dead THEN "free" ELSE kind[o]]
      /\ a' = [o \in Obj |-> IF o \in dead THEN None ELSE a[o]]
      /\ b' = [o \in Obj |-> IF o \in dead THEN None ELSE b[o]]
      /\ open' = [o \in Obj |-> IF o \in dead THEN None ELSE open[o]]
  BY <1>1 DEF Free
<1>. HIDE DEF dead
<1>7. TypeOK'
  <2>1. kind' \in [Obj -> AllKinds \cup {"free"}] /\ a' \in [Obj -> Obj \cup {None}]
        /\ b' \in [Obj -> Obj \cup {None}] /\ open' \in [Obj -> (Obj \X Slot) \cup {None}]
    BY <1>6 DEF TypeOK
  <2>2. kind'[Main] = "thread" /\ L' \in Obj /\ kind'[L'] = "thread"
    BY <1>2, <1>4, <1>5, <1>6, LuaGCParams DEF TypeOK
  <2>3. mark' \in [Obj -> Whites \cup {"gray", "black"}]
    BY <1>1 DEF TypeOK
  <2>4. tmudata' \subseteq Are("udata")'
    BY <1>2, <1>5, <1>6 DEF TypeOK, Are, RootsAlive
  <2>5. tosweep' \subseteq Allocated'
    BY <1>1, <1>5, <1>6 DEF TypeOK, Allocated
  <2>6. gcstate' \in {"sweepstring", "sweep"}
    BY <1>1, <1>2
  <2>. QED BY <1>2, <2>1, <2>2, <2>3, <2>4, <2>5, <2>6 DEF TypeOK
<1>8. gcstate' \in {"sweepstring", "sweep"}
  BY <1>1, <1>2
<1>9. \A u \in Obj : IsOpen(u) => open[u][1] \notin swept
  BY <1>4 DEF OpenSound
<1>10. \A t \in Obj, s \in Slot : stack'[t][s] \in {stack[t][s], None}
  BY <1>2
<1>11. Free(dead, {})
  BY <1>1 DEF dead
<1>12. dead = {o \in swept : IsDead(o)}
  BY DEF dead
<1>. QED BY <1>1, <1>2, <1>4, <1>5, <1>7, <1>8, <1>9, <1>10, <1>11, <1>12, SweptInv DEF Doomed

\* sweeplist: a dead object is freed, and with a thread its open upvalues are
\* swept
LEMMA SweepInv ==
  ASSUME Inv, UNCHANGED program, NEW o \in Obj, Sweep(o)
  PROVE  Inv'
<1>. USE DEF Inv
<1>. DEFINE upvals == IF kind[o] = "thread" THEN OpenFrom(o, 0) ELSE {}
            Z == {o} \cup upvals
            dead == {x \in Z : IsDead(x)}
            closed == IF IsDead(o) THEN upvals \ dead ELSE {}
<1>1. /\ gcstate = "sweep" /\ o \in tosweep
      /\ Free(dead, closed)
      /\ mark' = [x \in Obj |-> IF x \in Z THEN white ELSE mark[x]]
      /\ stack' = [stack EXCEPT ![o] = IF o \in dead THEN [s \in Slot |-> None] ELSE @]
      /\ tosweep' = tosweep \ {o}
      /\ gcstate' = IF tosweep' = {} THEN "finalize" ELSE gcstate
      /\ UNCHANGED <<mode, hasgc, L, finalized, calls, white, gray, grayagain, weak, tmudata, full>>
  BY DEF Sweep, udataVars, listVars
<1>2. \A u \in upvals : u \in Obj /\ kind[u] = "upval" /\ IsOpen(u)
  BY DEF OpenFrom, Are
<1>3. \A u \in Obj : IsOpen(u) /\ open[u][1] = o => u \in upvals
  BY LuaGCParams DEF OpenFrom, Are, OpenSound
<1>4. o \in Allocated /\ Z \subseteq Allocated /\ Z \subseteq Obj
  BY <1>1, <1>2 DEF TypeOK, Allocated
<1>5. /\ \A x \in dead : x \in Z /\ x \notin Alive
      /\ \A x \in dead : x = o \/ x \notin tosweep
      /\ \A x \in dead : x = o \/ kind[x] = "upval"
  BY <1>2 DEF Alive, SweepSound
<1>6. closed \subseteq Z \ dead /\ \A u \in closed : kind[u] = "upval"
  BY <1>2
<1>7. \A u \in Obj : IsOpen(u) /\ open[u][1] \in dead => u \in dead \cup closed
  <2>. SUFFICES ASSUME NEW u \in Obj, IsOpen(u), open[u][1] \in dead PROVE u \in dead \cup closed
    OBVIOUS
  <2>1. open[u][1] = o
    BY <1>5 DEF OpenSound
  <2>2. IsDead(o) /\ u \in upvals
    BY <1>3, <2>1
  <2>. QED BY <2>2
<1>. HIDE DEF dead, closed
<1>8. /\ kind' = [x \in Obj |-> IF x \in dead THEN "free" ELSE kind[x]]
      /\ a' = [x \in Obj |-> IF x \in dead THEN None ELSE a[x]]
      /\ b' = [x \in Obj |-> IF x \in dead THEN None ELSE IF x \in closed THEN Value(x) ELSE b[x]]
      /\ open' = [x \in Obj |-> IF x \in dead \cup closed THEN None ELSE open[x]]
  BY <1>1 DEF Free
<1>9. TypeOK'
  <2>1. \A u \in closed : Value(u) \in Obj \cup {None}
    <3>. SUFFICES ASSUME NEW u \in closed PROVE Value(u) \in Obj \cup {None}
      OBVIOUS
    <3>1. u \in Alive
      BY <1>4, <1>6 DEF Alive, dead
    <3>. QED BY <1>6, <3>1 DEF AliveSound, Sound, Values, Alive, Allocated
  <2>2. kind' \in [Obj -> AllKinds \cup {"free"}] /\ a' \in [Obj -> Obj \cup {None}]
        /\ b' \in [Obj -> Obj \cup {None}] /\ open' \in [Obj -> (Obj \X Slot) \cup {None}]
    BY <1>8, <2>1 DEF TypeOK
  <2>3. kind'[Main] = "thread" /\ L' \in Obj /\ kind'[L'] = "thread"
    BY <1>1, <1>5, <1>8, LuaGCParams DEF TypeOK, RootsAlive
  <2>4. mark' \in [Obj -> Whites \cup {"gray", "black"}]
    BY <1>1 DEF TypeOK
  <2>5. tmudata' \subseteq Are("udata")'
    BY <1>1, <1>5, <1>8 DEF TypeOK, Are, RootsAlive
  <2>6. tosweep' \subseteq Allocated'
    BY <1>1, <1>5, <1>8 DEF TypeOK, Allocated
  <2>7. stack' \in [Obj -> [Slot -> Obj \cup {None}]]
    BY <1>1 DEF TypeOK
  <2>8. gcstate' \in {"sweep", "finalize"}
    BY <1>1
  <2>. QED BY <1>1, <2>2, <2>3, <2>4, <2>5, <2>6, <2>7, <2>8 DEF TypeOK
<1>10. \A t \in Obj, s \in Slot : stack'[t][s] \in {stack[t][s], None}
  BY <1>1 DEF TypeOK
<1>11. \A u \in Obj : IsOpen(u) /\ open[u][1] \in {o} => u \in Z
  BY <1>3
<1>12. gcstate' \in {"sweep", "finalize"} /\ (gcstate' = "finalize" => tosweep' = {})
  BY <1>1
<1>13. dead = {x \in Z : IsDead(x)}
  BY DEF dead
<1>14. {o} \subseteq Z
  OBVIOUS
<1>. HIDE DEF Z
<1>. QED BY <1>1, <1>4, <1>6, <1>7, <1>9, <1>10, <1>11, <1>12, <1>13, <1>14, SweptInv DEF Doomed

LEMMA CallFinalizerInv ==
  ASSUME Inv, UNCHANGED program, NEW u \in Obj, CallFinalizer(u)
  PROVE  Inv'
<1>. USE DEF Inv
<1>1. /\ gcstate = "finalize" /\ u \in tmudata /\ tmudata' = tmudata \ {u}
      /\ mark' = [mark EXCEPT ![u] = white]
      /\ UNCHANGED <<kind, a, b, mode, open, hasgc, L, finalized, white, gcstate,
                     gray, grayagain, weak, tosweep, full>>
      /\ calls' = calls \/ calls' = [calls EXCEPT ![u] = @ + 1]
      /\ stack' = stack \/ \E s \in SlotsOf(L) : stack' = [stack EXCEPT ![L][s] = u]
  BY DEF CallFinalizer, heapVars, listVars
<1>2. u \in Alive /\ kind[u] = "udata" /\ u \in Values /\ L \in Obj
  BY <1>1 DEF RootsAlive, TypeOK, Are, Values
<1>3. stack' = stack \/ \E s \in Slot : stack' = [stack EXCEPT ![L][s] = u]
  BY <1>1, SlotsAreSlots
<1>8. /\ stack' \in [Obj -> [Slot -> Obj \cup {None}]]
      /\ \A t \in Obj, s \in Slot : stack'[t][s] \in {stack[t][s], u}
  <2>1. stack \in [Obj -> [Slot -> Obj \cup {None}]] /\ L \in Obj
    BY DEF TypeOK
  <2>2. CASE stack' = stack
    BY <2>1, <2>2
  <2>3. ASSUME NEW s \in Slot, stack' = [stack EXCEPT ![L][s] = u]
        PROVE  /\ stack' \in [Obj -> [Slot -> Obj \cup {None}]]
               /\ \A t \in Obj, x \in Slot : stack'[t][x] \in {stack[t][x], u}
    BY <2>1, <2>3
  <2>. QED BY <1>3, <2>2, <2>3
<1>4. TypeOK'
  <2>1. stack' \in [Obj -> [Slot -> Obj \cup {None}]]
    BY <1>8
  <2>2. calls' \in [Obj -> Nat]
    BY <1>1 DEF TypeOK
  <2>3. mark' \in [Obj -> Whites \cup {"gray", "black"}]
    BY <1>1 DEF TypeOK
  <2>. QED BY <1>1, <2>1, <2>2, <2>3 DEF TypeOK, Are, Allocated
<1>5. \A x \in Obj : mark'[x] = IF x = u THEN white ELSE mark[x]
  BY <1>1 DEF TypeOK
<1>6. Alive' = Alive /\ Values' = Values /\ Tables' = Tables
  <2>1. white # Otherwhite /\ Otherwhite' = Otherwhite
    BY <1>1, WhitesTwo DEF Otherwhite
  <2>2. Alive' = Alive
    BY <1>1, <1>2, <1>5, <2>1 DEF Alive, IsDead, Allocated
  <2>. QED BY <1>1, <2>2 DEF Values, Tables
<1>7. RootsAlive'
  BY <1>1, <1>6 DEF RootsAlive
<1>9. AliveSound'
  <2>. SUFFICES ASSUME NEW x \in Alive PROVE Sound(x)'
    BY <1>6 DEF AliveSound
  <2>1. Sound(x) /\ x \in Obj
    BY DEF AliveSound, Alive, Allocated
  <2>2. kind[x] = "upval" => Value(x)' \in Values
    <3>1. CASE open[x] = None
      BY <1>1, <2>1, <3>1 DEF Sound, Value, IsOpen
    <3>2. CASE open[x] # None
      <4>1. open[x] \in Obj \X Slot
        BY <2>1, <3>2 DEF OpenSound, IsOpen
      <4>. QED BY <1>1, <1>2, <1>8, <2>1, <3>2, <4>1 DEF Sound, Value, IsOpen
    <3>. QED BY <3>1, <3>2
  <2>3. kind[x] = "thread" => \A s \in Slot : stack'[x][s] \in Values
    BY <1>2, <1>8, <2>1 DEF Sound
  <2>. QED BY <1>1, <1>6, <2>1, <2>2, <2>3 DEF Sound
<1>10. OpenSound'
  BY <1>1, <1>5, WhitesTwo DEF OpenSound, Are, IsOpen
<1>11. SweepSound'
  BY <1>1, <1>5 DEF SweepSound, Waits, IsOpen, Allocated
<1>. QED BY <1>1, <1>4, <1>7, <1>9, <1>10, <1>11 DEF MarkSound, GrayInOneList

LEMMA EndCycleInv ==
  ASSUME Inv, UNCHANGED program, EndCycle
  PROVE  Inv'
<1>. USE DEF Inv
<1>1. /\ gcstate = "finalize" /\ gcstate' = "pause" /\ full' = "no"
      /\ UNCHANGED <<kind, a, b, mode, open, hasgc, stack, L, finalized, calls, mark, white,
                     gray, grayagain, weak, tmudata, tosweep>>
  BY DEF EndCycle, heapVars, threadVars, udataVars, listVars
<1>2. TypeOK'
  BY <1>1 DEF TypeOK, Are, Allocated
<1>3. Alive' = Alive
  BY <1>1 DEF Alive, Allocated, IsDead, Otherwhite
<1>4. RootsAlive' /\ AliveSound'
  BY <1>1, <1>3, HeapSame DEF RootsAlive
<1>5. OpenSound' /\ SweepSound'
  BY <1>1 DEF OpenSound, Are, IsOpen, SweepSound, Waits, Allocated
<1>. QED BY <1>1, <1>2, <1>4, <1>5 DEF MarkSound, GrayInOneList

\* luaC_fullgc: every object but those that wait for a finalizer will be swept
LEMMA FullGCInv ==
  ASSUME Inv, UNCHANGED program, FullGC
  PROVE  Inv'
<1>. USE DEF Inv
<1>1. /\ full' = "sweep"
      /\ UNCHANGED <<kind, a, b, mode, open, hasgc, stack, L, finalized, calls, mark, white, tmudata>>
      /\ \/ /\ gcstate \in {"pause", "propagate"} /\ gcstate' = "sweepstring"
            /\ tosweep' = {o \in Allocated \ tmudata : kind[o] = "upval" => ~IsOpen(o)}
            /\ gray' = {} /\ grayagain' = {} /\ weak' = {}
         \/ /\ gcstate \notin {"pause", "propagate"}
            /\ UNCHANGED <<tosweep, gray, grayagain, weak, gcstate>>
  BY DEF FullGC, heapVars, threadVars, udataVars, listVars
<1>2. TypeOK'
  BY <1>1 DEF TypeOK, Are, Allocated
<1>3. Alive' = Alive
  BY <1>1 DEF Alive, Allocated, IsDead, Otherwhite
<1>4. RootsAlive' /\ AliveSound' /\ OpenSound'
  BY <1>1, <1>3, HeapSame DEF RootsAlive, OpenSound, Are, IsOpen
<1>5. SweepSound'
  <2>1. CASE gcstate \notin {"pause", "propagate"}
    BY <1>1, <2>1 DEF SweepSound, Waits, IsOpen, Allocated
  <2>2. CASE gcstate \in {"pause", "propagate"}
    <3>1. ASSUME NEW x \in Allocated PROVE Waits(x)'
      <4>1. CASE x \in tmudata
        BY <1>1, <4>1 DEF Waits
      <4>2. CASE x \notin tmudata /\ ~IsOpen(x)
        BY <1>1, <2>2, <4>2 DEF Waits
      <4>3. CASE IsOpen(x)
        <5>1. open[x] \in Obj \X Slot /\ kind[open[x][1]] = "thread"
          BY <4>3 DEF OpenSound, Allocated
        <5>2. open[x][1] \in Allocated \ tmudata
          BY <5>1 DEF Allocated, TypeOK, Are
        <5>3. open[x][1] \in tosweep'
          BY <1>1, <2>2, <5>1, <5>2
        <5>. QED BY <1>1, <4>3, <5>3 DEF Waits, IsOpen
      <4>. QED BY <4>1, <4>2, <4>3
    <3>2. Allocated' = Allocated
      BY <1>1 DEF Allocated
    <3>. QED BY <1>1, <2>2, <3>1, <3>2 DEF SweepSound, IsOpen
  <2>. QED BY <2>1, <2>2
<1>6. MarkSound' /\ GrayInOneList'
  BY <1>1 DEF MarkSound, GrayInOneList
<1>. QED BY <1>2, <1>4, <1>5, <1>6

---------------------------------------------------------------------------
(* The collector: the atomic step *)

\* What is marked from S on holds what of W it leads to
LEMMA ClosureClosed ==
  ASSUME NEW S, NEW W
  PROVE  /\ Closure(S, W) \subseteq W /\ S \cap W \subseteq Closure(S, W)
         /\ \A y \in Closure(S, W) : Strong(y) \cap W \subseteq Closure(S, W)
<1>1. ASSUME NEW y \in Closure(S, W), NEW x \in Strong(y) \cap W
      PROVE  x \in Closure(S, W)
  <2>. SUFFICES ASSUME NEW C \in SUBSET W, S \cap W \subseteq C,
                       \A z \in C : Strong(z) \cap W \subseteq C
                PROVE  x \in C
    BY DEF Closure
  <2>1. y \in C
    BY DEF Closure
  <2>. QED BY <2>1
<1>. QED BY <1>1 DEF Closure

\* Only functions, tables, threads, open upvalues and strings are ever gray:
\* what is marked at once with all it leads to is black
GraySound ==
  \A o \in Allocated : mark[o] = "gray" => kind[o] # "udata" /\ (kind[o] = "upval" => IsOpen(o))

\* What a survivor leads to without weak references survives
LEMMA SurvivorsClosed ==
  ASSUME Inv, GraySound, gcstate = "propagate", NEW o \in Survivors, NEW x \in Strong(o)
  PROVE  x \in Survivors /\ x \in Allocated
<1>. USE DEF Inv
<1>1. Allocated = Alive /\ WhiteObjects \subseteq Allocated /\ ToFinalize \subseteq Allocated
  BY NoneDead DEF WhiteObjects, ToFinalize, Separated, Unmarked, RootsAlive
<1>2. \A S, W : Closure(S, W) \subseteq W
  BY ClosureClosed
<1>3. Remarked \subseteq WhiteObjects /\ Preserved \subseteq Allocated
  BY <1>1, <1>2 DEF Remarked, Preserved, Unmarked
<1>4. o \in Alive /\ o \in Obj /\ Sound(o)
  BY <1>1, <1>3 DEF Survivors, AliveSound, Allocated
<1>5. x \in Alive /\ x # None
  <2>1. x # None
    BY DEF Strong
  <2>2. Tables \subseteq Alive \cup {None} /\ Values \subseteq Alive \cup {None}
    BY DEF Tables, Values
  <2>3. CASE kind[o] = "table"
    BY <1>4, <2>1, <2>2, <2>3 DEF Strong, Sound
  <2>4. CASE kind[o] = "upval"
    BY <1>4, <2>1, <2>2, <2>4 DEF Strong, Sound
  <2>5. CASE kind[o] = "thread"
    BY <1>4, <2>1, <2>2, <2>5 DEF Strong, Sound, OnStack
  <2>6. CASE kind[o] \in {"udata", "func"}
    BY <1>4, <2>1, <2>2, <2>6 DEF Strong, Sound
  <2>7. CASE kind[o] \notin {"table", "upval", "thread", "udata", "func"}
    BY <2>7 DEF Strong
  <2>. QED BY <2>3, <2>4, <2>5, <2>6, <2>7
<1>6. x \in Allocated
  BY <1>1, <1>5
<1>7. SUFFICES ASSUME x \in WhiteObjects PROVE x \in Remarked \cup Preserved
  BY <1>6 DEF Survivors
<1>8. CASE o \in Remarked
  BY <1>7, <1>8, ClosureClosed DEF Remarked
<1>9. CASE o \in Preserved
  <2>. SUFFICES ASSUME x \in Unmarked, x \notin ToFinalize PROVE x \in Preserved
    BY <1>7 DEF Unmarked, Preserved
  <2>. DEFINE P == Closure(UNION {Strong(u) : u \in ToFinalize}, Unmarked \ ToFinalize)
  <2>1. Preserved = ToFinalize \cup P
    BY DEF Preserved
  <2>2. (UNION {Strong(u) : u \in ToFinalize}) \cap (Unmarked \ ToFinalize) \subseteq P
    BY ClosureClosed
  <2>3. \A y \in P : Strong(y) \cap (Unmarked \ ToFinalize) \subseteq P
    BY ClosureClosed
  <2>. HIDE DEF P
  <2>4. CASE o \in ToFinalize
    BY <2>1, <2>2, <2>4
  <2>5. CASE o \in P
    BY <2>1, <2>3, <2>5
  <2>. QED BY <1>9, <2>1, <2>4, <2>5
<1>10. CASE o \notin Remarked /\ o \notin Preserved
  <2>0. o \notin WhiteObjects /\ ~IsWhite(o) /\ o \notin tmudata
    BY <1>1, <1>4, <1>10 DEF Survivors, WhiteObjects, Preserved, ToFinalize
  <2>1. CASE mark[o] = "black"
    <3>1. /\ kind[o] \in {"table", "udata", "func"} => NotWhite(a[o]) /\ NotWhite(b[o])
          /\ kind[o] = "upval" => NotWhite(b[o])
      BY <1>1, <1>4, <2>0, <2>1 DEF MarkSound
    <3>2. NotWhite(x)
      <4>1. kind[o] # "thread" /\ ~IsOpen(o)
        BY <1>4, <2>1 DEF OpenSound, Are
      <4>2. CASE kind[o] \in {"table", "udata", "func"}
        BY <1>5, <3>1, <4>2 DEF Strong
      <4>3. CASE kind[o] = "upval"
        BY <1>5, <3>1, <4>1, <4>3 DEF Strong, Value
      <4>4. CASE kind[o] \notin {"table", "udata", "func", "upval"}
        BY <4>1, <4>4 DEF Strong
      <4>. QED BY <4>2, <4>3, <4>4
    <3>. QED BY <1>5, <1>7, <3>2 DEF NotWhite, WhiteObjects
  <2>2. CASE mark[o] = "gray"
    <3>. DEFINE retraced == UNION {Strong(y) : y \in Again}
                stood == {Value(u) : u \in {p \in Are("upval") : IsOpen(p) /\ mark[p] = "gray"}}
    <3>1. x \in retraced \/ x \in stood => x \in Remarked
      <4>1. Remarked = Closure({L} \cup retraced \cup stood, WhiteObjects)
        BY DEF Remarked
      <4>. HIDE DEF retraced, stood
      <4>2. ({L} \cup retraced \cup stood) \cap WhiteObjects \subseteq Remarked
        BY <4>1, ClosureClosed
      <4>. QED BY <1>7, <4>2
    <3>2. CASE kind[o] \in {"table", "func", "thread"}
      <4>1. o \in Again
        BY <1>1, <1>4, <2>2, <3>2 DEF GrayInOneList, Listed, Again
      <4>2. x \in retraced
        BY <4>1
      <4>. QED BY <3>1, <4>2
    <3>3. CASE kind[o] = "upval"
      <4>1. IsOpen(o) /\ o \in Are("upval")
        BY <1>1, <1>4, <2>2, <3>3 DEF GraySound, Are
      <4>2. x = Value(o)
        BY <3>3 DEF Strong
      <4>3. Value(o) \in stood
        BY <2>2, <4>1
      <4>. HIDE DEF retraced, stood
      <4>. QED BY <3>1, <4>2, <4>3
    <3>4. CASE kind[o] \notin {"table", "func", "thread", "upval"}
      <4>1. kind[o] # "udata"
        BY <1>1, <1>4, <2>2 DEF GraySound
      <4>. QED BY <3>4, <4>1 DEF Strong
    <3>. QED BY <3>2, <3>3, <3>4
  <2>. QED BY <1>4, <2>0, <2>1, <2>2 DEF IsWhite, TypeOK
<1>. QED BY <1>8, <1>9, <1>10

\* The atomic step: what is not white any more is alive, the entries of weak
\* tables that led elsewhere are cleared, and the rest is dead
LEMMA AtomicInv ==
  ASSUME Inv, GraySound, UNCHANGED program, Atomic
  PROVE  Inv'
<1>. USE DEF Inv
<1>. DEFINE marked == Again \cup Remarked \cup Preserved \cup WeakStrings
            MarkAfter(o) == IF kind[o] = "thread" \/ WeakTable(o) THEN "gray"
                            ELSE IF kind[o] \in {"table", "func"} THEN "black" ELSE MarkOf(o)
<1>1. gcstate = "propagate" /\ gray = {} /\ Allocated = Alive
  BY NoneDead DEF Atomic
<1>2. /\ mark' = [o \in Obj |-> IF o \in marked THEN MarkAfter(o) ELSE mark[o]]
      /\ finalized' = [o \in Obj |-> finalized[o] \/ (o \in Unmarked /\ kind[o] = "udata")]
      /\ a' = [o \in Obj |-> IF o \in ClearedTables THEN None ELSE a[o]]
      /\ b' = [o \in Obj |-> IF o \in ClearedTables THEN None ELSE b[o]]
      /\ tmudata' = ToFinalize
      /\ white' = Otherwhite
      /\ tosweep' = {o \in Allocated \ ToFinalize : kind[o] = "upval" => ~IsOpen(o)}
      /\ gray' = {} /\ grayagain' = {} /\ weak' = {}
      /\ gcstate' = "sweepstring"
      /\ UNCHANGED <<kind, mode, open, hasgc, stack, L, calls, full>>
  BY DEF Atomic, threadVars
<1>3. Again = {x \in Listed(Allocated) : mark[x] = "gray"}
  BY <1>1 DEF GrayInOneList, Again
<1>4. Remarked \subseteq WhiteObjects /\ WhiteObjects \subseteq Allocated
  BY ClosureClosed DEF Remarked, WhiteObjects
<1>5. ToFinalize \subseteq Are("udata") /\ Are("udata") \subseteq Allocated /\ Preserved \subseteq Allocated
      /\ ToFinalize \subseteq Preserved
  <2>1. ToFinalize \subseteq Are("udata")
    BY DEF ToFinalize, Separated, TypeOK
  <2>2. Closure(UNION {Strong(u) : u \in ToFinalize}, Unmarked \ ToFinalize) \subseteq Unmarked
    BY ClosureClosed
  <2>. QED BY <1>4, <2>1, <2>2 DEF Are, Allocated, Preserved, Unmarked
<1>6. Survivors \subseteq Allocated /\ Again \subseteq Survivors
  BY <1>3, <1>4, <1>5, WhitesTwo DEF Survivors, Listed, WhiteObjects, IsWhite
<1>7. \A x \in WeakStrings : kind[x] = "string" /\ x \in Allocated
  BY DEF WeakStrings, Are, Allocated
<1>8. marked \subseteq Survivors \cup WeakStrings
  BY <1>6 DEF Survivors
<1>9. \A o \in Obj : MarkAfter(o) \in {"gray", "black"}
  BY DEF MarkOf
<1>10. \A x \in Obj : mark'[x] = IF x \in marked THEN MarkAfter(x) ELSE mark[x]
  BY <1>2
<1>11. \A x \in Survivors : x \in marked \/ ~IsWhite(x)
  BY DEF Survivors, WhiteObjects
<1>w. \A x \in WeakStrings : x \in marked
  OBVIOUS
<1>. HIDE DEF marked, MarkAfter
<1>12. Alive' = Survivors \cup WeakStrings
  <2>1. Otherwhite' = white /\ "gray" # white /\ "black" # white /\ white # Otherwhite
        /\ Allocated' = Allocated /\ Whites = {white, Otherwhite}
    BY <1>2, WhitesTwo DEF Otherwhite, TypeOK, Whites, Allocated
  <2>2. ASSUME NEW x \in Survivors \cup WeakStrings PROVE x \in Alive'
    <3>1. x \in Obj /\ x \in Allocated
      BY <1>6, <1>7 DEF Allocated
    <3>2. mark'[x] # white
      BY <1>9, <1>10, <1>11, <1>w, <2>1, <3>1 DEF IsWhite
    <3>. QED BY <2>1, <3>1, <3>2 DEF Alive, IsDead
  <2>3. ASSUME NEW x \in Allocated, x \notin Survivors \cup WeakStrings PROVE x \notin Alive'
    <3>1. x \in Obj /\ x \notin marked /\ x \in WhiteObjects
      BY <1>8, <2>3 DEF Allocated, Survivors
    <3>2. mark[x] = white
      BY <1>1, <2>1, <3>1 DEF WhiteObjects, IsWhite, Alive, IsDead
    <3>. QED BY <1>10, <2>1, <3>1, <3>2 DEF Alive, IsDead
  <2>4. Alive' \subseteq Allocated
    BY <2>1 DEF Alive
  <2>. QED BY <2>2, <2>3, <2>4
<1>13. \A x \in ClearedTables : kind[x] = "table"
  BY DEF ClearedTables, WeakTables, WeakTable
<1>14. TypeOK'
  <2>1. mark' \in [Obj -> Whites \cup {"gray", "black"}]
    BY <1>2, <1>9 DEF TypeOK
  <2>2. a' \in [Obj -> Obj \cup {None}] /\ b' \in [Obj -> Obj \cup {None}]
    BY <1>2 DEF TypeOK
  <2>3. finalized' \in [Obj -> BOOLEAN]
    <3>1. \A o \in Obj : (finalized[o] \/ (o \in Unmarked /\ kind[o] = "udata")) \in BOOLEAN
      OBVIOUS
    <3>. QED BY <1>2, <3>1
  <2>4. white' \in Whites
    BY <1>2, WhitesTwo
  <2>5. tmudata' \subseteq Are("udata")' /\ tosweep' \subseteq Allocated'
    BY <1>2, <1>5 DEF Are, Allocated
  <2>. QED BY <1>2, <2>1, <2>2, <2>3, <2>4, <2>5 DEF TypeOK
<1>15. RootsAlive'
  <2>1. Main \in Survivors
    BY <1>1, LuaGCParams, WhitesTwo DEF MarkSound, RootsAlive, Survivors, WhiteObjects, IsWhite
  <2>2. L \in Survivors
    <3>1. L \in Allocated
      BY <1>1 DEF RootsAlive
    <3>2. L \in WhiteObjects => L \in Remarked
      BY ClosureClosed DEF Remarked
    <3>. QED BY <3>1, <3>2 DEF Survivors
  <2>3. tmudata' \subseteq Survivors
    BY <1>2, <1>5 DEF Survivors
  <2>. QED BY <1>2, <1>12, <2>1, <2>2, <2>3 DEF RootsAlive
<1>16. AliveSound'
  <2>. SUFFICES ASSUME NEW o \in Survivors \cup WeakStrings PROVE Sound(o)'
    BY <1>12 DEF AliveSound
  <2>1. CASE o \in WeakStrings
    BY <1>2, <1>7, <2>1 DEF Sound
  <2>2. CASE o \in Survivors
    <3>1. Sound(o) /\ o \in Obj /\ o \in Allocated
      BY <1>1, <1>6, <2>2 DEF AliveSound, Allocated
    <3>2. \A x \in Strong(o) : x \in Alive'
      BY <1>1, <1>12, <2>2, SurvivorsClosed
    <3>3. /\ \A x \in Alive' : x \in Values => x \in Values'
          /\ \A x \in Alive' : x \in Tables => x \in Tables'
          /\ None \in Values' /\ None \in Tables'
      BY <1>2, NoneNoObject DEF Values, Tables
    <3>4. kind[o] # "table" => a'[o] = a[o] /\ b'[o] = b[o]
      BY <1>2, <1>13, <3>1
    <3>5. CASE kind[o] = "udata"
      <4>1. Strong(o) = {a[o], b[o]} \ {None}
        BY <3>5 DEF Strong
      <4>. QED BY <1>2, <3>1, <3>2, <3>3, <3>4, <3>5, <4>1 DEF Sound
    <3>6. CASE kind[o] = "func"
      <4>1. Strong(o) = {a[o], b[o]} \ {None} /\ a[o] # None
        BY <3>1, <3>6, NoneNoObject DEF Strong, Sound, Alive, Allocated
      <4>. QED BY <1>2, <3>1, <3>2, <3>3, <3>4, <3>6, <4>1 DEF Sound
    <3>7. CASE kind[o] = "upval"
      <4>1. Strong(o) = {Value(o)} \ {None}
        BY <3>7 DEF Strong
      <4>2. Value(o)' = Value(o)
        BY <1>2, <3>4, <3>7 DEF Value, IsOpen
      <4>. QED BY <1>2, <3>1, <3>2, <3>3, <3>7, <4>1, <4>2 DEF Sound
    <3>8. CASE kind[o] = "thread"
      <4>1. Strong(o) = (OnStack(o) \cup {b[o]}) \ {None}
        BY <3>8 DEF Strong
      <4>2. \A s \in Slot : stack[o][s] = None \/ stack[o][s] \in Strong(o)
        BY <4>1 DEF OnStack
      <4>. QED BY <1>2, <3>1, <3>2, <3>3, <3>4, <3>8, <4>1, <4>2 DEF Sound
    <3>9. CASE kind[o] = "table"
      <4>1. CASE o \in ClearedTables
        <5>1. a'[o] = None /\ b'[o] = None
          BY <1>2, <3>1, <4>1
        <5>. QED BY <1>2, <3>3, <3>9, <5>1 DEF Sound
      <4>2. CASE o \notin ClearedTables
        <5>1. a'[o] = a[o] /\ b'[o] = b[o]
          BY <1>2, <3>1, <4>2
        <5>2. a[o] \in Values /\ b[o] \in Values /\ (b[o] = None => a[o] = None)
          BY <3>1, <3>9 DEF Sound
        <5>3. SUFFICES (a[o] = None \/ a[o] \in Alive') /\ (b[o] = None \/ b[o] \in Alive')
          BY <1>2, <3>3, <3>9, <5>1, <5>2 DEF Sound
        <5>4. CASE mode[o] = "strong"
          <6>1. Strong(o) = {a[o], b[o]} \ {None}
            BY <3>9, <5>4 DEF Strong
          <6>. QED BY <3>2, <6>1
        <5>5. CASE mode[o] # "strong" /\ o \notin WeakTables
          <6>1. WeakTable(o)
            BY <3>9, <5>5 DEF WeakTable
          <6>2. o \notin Again /\ o \notin Remarked /\ o \notin Preserved
            BY <5>5, <6>1 DEF WeakTables
          <6>3. o \notin WhiteObjects /\ o \notin tmudata
            BY <2>2, <6>2 DEF Survivors, Preserved, ToFinalize
          <6>4. mark[o] = "black"
            BY <1>3, <3>1, <3>9, <6>2, <6>3 DEF Listed, WhiteObjects, IsWhite, TypeOK
          <6>5. NotWhite(a[o]) /\ NotWhite(b[o])
            BY <1>1, <3>1, <3>9, <6>3, <6>4 DEF MarkSound
          <6>6. \A x \in Values : NotWhite(x) => x = None \/ x \in Survivors
            BY <1>1 DEF Values, NotWhite, Survivors, WhiteObjects
          <6>. QED BY <1>12, <5>2, <6>5, <6>6
        <5>6. CASE o \in WeakTables /\ b[o] = None
          BY <5>2, <5>6
        <5>7. CASE o \in WeakTables /\ b[o] # None
          <6>1. ~IsCleared(a[o], TRUE) /\ ~IsCleared(b[o], FALSE)
            BY <4>2, <5>7 DEF ClearedTables
          <6>2. a[o] = None \/ kind[a[o]] = "string" \/ a[o] \in Survivors
            BY <6>1 DEF IsCleared
          <6>3. b[o] = None \/ kind[b[o]] = "string" \/ b[o] \in Survivors
            BY <6>1 DEF IsCleared
          <6>4. a[o] # None /\ kind[a[o]] = "string" => a[o] \in WeakStrings
            BY <5>2, <5>7 DEF WeakStrings, Are, Values, Alive, Allocated
          <6>5. kind[b[o]] = "string" => b[o] \in WeakStrings
            BY <5>2, <5>7, <6>1 DEF WeakStrings, Are, Values, Alive, Allocated
          <6>. QED BY <1>12, <6>2, <6>3, <6>4, <6>5
        <5>. QED BY <5>4, <5>5, <5>6, <5>7
      <4>. QED BY <4>1, <4>2
    <3>10. CASE kind[o] \notin {"udata", "func", "upval", "thread", "table"}
      BY <1>2, <3>10 DEF Sound
    <3>. QED BY <3>5, <3>6, <3>7, <3>8, <3>9, <3>10
  <2>. QED BY <2>1, <2>2
<1>17. OpenSound'
  <2>1. \A x \in Obj : IsOpen(x) /\ kind[x] = "upval" => MarkAfter(x) # "black"
    BY DEF MarkAfter, MarkOf, WeakTable
  <2>2. \A x \in Obj : kind[x] = "thread" => MarkAfter(x) # "black"
    BY DEF MarkAfter
  <2>. QED BY <1>2, <1>10, <2>1, <2>2 DEF OpenSound, Are, IsOpen
<1>18. SweepSound'
  <2>1. ASSUME NEW x \in Allocated PROVE Waits(x)'
    <3>1. CASE x \in ToFinalize
      BY <1>2, <3>1 DEF Waits
    <3>2. CASE x \notin ToFinalize /\ ~IsOpen(x)
      BY <1>2, <3>2 DEF Waits
    <3>3. CASE IsOpen(x)
      <4>1. open[x] \in Obj \X Slot /\ kind[open[x][1]] = "thread"
        BY <3>3 DEF OpenSound, Allocated
      <4>2. open[x][1] \in Allocated \ ToFinalize
        BY <1>5, <4>1 DEF Allocated, Are
      <4>3. open[x][1] \in tosweep'
        BY <1>2, <4>1, <4>2
      <4>. QED BY <1>2, <3>3, <4>3 DEF Waits, IsOpen
    <3>. QED BY <3>1, <3>2, <3>3
  <2>. QED BY <1>2, <2>1 DEF SweepSound, IsOpen, Allocated
<1>19. MarkSound' /\ GrayInOneList'
  BY <1>2 DEF MarkSound, GrayInOneList
<1>. QED BY <1>14, <1>15, <1>16, <1>17, <1>18, <1>19

---------------------------------------------------------------------------
(* What is gray *)

LEMMA GrayKept ==
  ASSUME GraySound,
         \A x \in Allocated' : mark'[x] = "gray" =>
           \/ kind'[x] \notin {"udata", "upval"}
           \/ kind'[x] = "upval" /\ IsOpen(x)'
           \/ x \in Allocated /\ mark[x] = "gray" /\ kind'[x] = kind[x] /\ open'[x] = open[x]
  PROVE  GraySound'
BY DEF GraySound, IsOpen

\* Marking values of the program marks no upvalue
LEMMA NoUpvalueReached ==
  ASSUME Inv, Allocated = Alive, NEW S, S \cap WhiteObjects \subseteq Values, NEW x \in Reached(S)
  PROVE  kind[x] # "upval"
<1>. DEFINE direct == S \cap WhiteObjects
            values == {Value(u) : u \in direct \cap Are("upval")}
            through == direct \cup (values \cap WhiteObjects)
            tables == UNION {Strong(u) : u \in through \cap Are("udata")}
<1>1. WhiteObjects \subseteq Alive /\ None \notin WhiteObjects
  BY NoneNoObject DEF WhiteObjects, Allocated
<1>2. \A y \in direct : kind[y] # "upval"
  BY <1>1 DEF Values
<1>3. direct \cap Are("upval") = {}
  BY <1>2 DEF Are
<1>4. values = {}
  BY <1>3
<1>5. \A y \in tables \cap WhiteObjects : kind[y] # "upval"
  <2>. SUFFICES ASSUME NEW u \in through \cap Are("udata"), NEW y \in Strong(u)
                PROVE  y \notin WhiteObjects \/ kind[y] # "upval"
    OBVIOUS
  <2>1. u \in Alive /\ kind[u] = "udata"
    BY <1>1 DEF Are
  <2>2. y \in {a[u], b[u]}
    BY <2>1 DEF Strong
  <2>3. a[u] \in Tables /\ b[u] \in Tables
    BY <2>1 DEF Inv, AliveSound, Sound
  <2>. QED BY <1>1, <2>2, <2>3 DEF Tables
<1>6. Reached(S) = through \cup (tables \cap WhiteObjects)
  BY DEF Reached
<1>. QED BY <1>2, <1>4, <1>5, <1>6

\* What is marked gray in one go is open, or may be gray
LEMMA MarkOfGray ==
  ASSUME NEW x, MarkOf(x) = "gray"
  PROVE  kind[x] # "udata" /\ (kind[x] = "upval" => IsOpen(x))
BY DEF MarkOf

LEMMA ForwardGray ==
  ASSUME Inv, GraySound, NEW o \in Obj, NEW v, BarrierForward(o, v), kind' = kind, open' = open
  PROVE  GraySound'
<1>1. Allocated' = Allocated /\ Allocated \subseteq Obj
  BY DEF Allocated
<1>2. white # "gray"
  BY WhitesTwo DEF Inv
<1>3. ASSUME NEW x \in Obj, mark'[x] = "gray" PROVE mark[x] = "gray" \/ MarkOf(x) = "gray"
  BY <1>2, <1>3 DEF BarrierForward, MarkObjects, Inv, TypeOK
<1>. QED BY <1>1, <1>3, MarkOfGray DEF GraySound, IsOpen

LEMMA ProgramGray ==
  ASSUME Inv, GraySound, Program
  PROVE  GraySound'
<1>. USE DEF Inv
<1>0. white # "gray" /\ "black" # "gray"
  BY WhitesTwo
<1>1. ASSUME NEW o \in Obj, NEW k, NEW s, NEW key, NEW val, NEW gc, Create(o, k, s, key, val, gc)
      PROVE  GraySound'
  <2>1. \A x \in Obj : x # o => mark'[x] = mark[x] /\ kind'[x] = kind[x] /\ open'[x] = open[x]
    BY <1>1 DEF Create, TypeOK
  <2>2. mark'[o] = white
    BY <1>1 DEF Create, TypeOK
  <2>. QED BY <1>0, <2>1, <2>2, GrayKept DEF Allocated
<1>2. ASSUME NEW o \in Obj, NEW s, New(o, s) \/ ShareUpvalue(o, s) PROVE GraySound'
  BY <1>1, <1>2 DEF New, NewString, NewTable, NewThread, NewUdata, ShareUpvalue
<1>3. ASSUME NEW o \in Obj, NEW s, FindString(o, s) PROVE GraySound'
  <2>1. kind' = kind /\ open' = open /\ mark' = [mark EXCEPT ![o] = IF IsDead(o) THEN white ELSE @]
    BY <1>3 DEF FindString, heapVars
  <2>2. \A x \in Obj : mark'[x] = "gray" => mark[x] = "gray"
    BY <1>0, <2>1 DEF TypeOK
  <2>. QED BY <2>1, <2>2, GrayKept DEF Allocated
<1>4. ASSUME NEW o \in Obj, NEW u \in Obj, NEW s \in SlotsOf(L), NEW x \in SlotsOf(L),
             NewClosure(o, u, s, x)
      PROVE  GraySound'
  <2>1. \A y \in Obj : y # o /\ y # u => mark'[y] = mark[y] /\ kind'[y] = kind[y] /\ open'[y] = open[y]
    BY <1>4 DEF NewClosure, TypeOK
  <2>2. mark'[o] = white /\ (mark'[u] = white \/ (mark'[u] = mark[u] /\ open'[u] = open[u]
                              /\ kind[u] = "upval" /\ kind'[u] = kind[u]))
    BY <1>4 DEF NewClosure, TypeOK, Are
  <2>3. \A y \in Allocated' : y # o /\ y # u => y \in Allocated
    BY <2>1 DEF Allocated
  <2>4. kind[u] = "upval" => u \in Allocated
    BY DEF Allocated
  <2>. QED BY <1>0, <2>1, <2>2, <2>3, <2>4, GrayKept DEF Allocated
<1>5. ASSUME UNCHANGED <<kind, open, mark>> PROVE GraySound'
  BY <1>5, GrayKept DEF Allocated
<1>6. ASSUME NEW t, NEW k, NEW v, SetTable(t, k, v) PROVE GraySound'
  <2>1. kind' = kind /\ open' = open /\ kind[t] = "table"
        /\ (mark' = mark \/ mark' = [mark EXCEPT ![t] = "gray"])
    BY <1>6 DEF SetTable, BarrierBack
  <2>2. \A x \in Obj : mark'[x] = mark[x] \/ x = t
    BY <2>1 DEF TypeOK
  <2>. QED BY <2>1, <2>2, GrayKept DEF Allocated
<1>7. ASSUME NEW f \in OnStack(L), NEW v \in OnStack(L) \cup {None}, SetUpvalue(f, v)
      PROVE  GraySound'
  <2>1. f \in Alive /\ kind[f] = "func"
    BY <1>7, Operand DEF SetUpvalue, OnStack
  <2>2. a[f] \in Obj
    BY <2>1 DEF AliveSound, Sound, Alive, Allocated
  <2>. QED BY <1>7, <2>2, ForwardGray DEF SetUpvalue
<1>8. ASSUME NEW u \in OnStack(L), NEW t, NEW gc, SetMetatable(u, t, gc) PROVE GraySound'
  BY <1>8, Operand, ForwardGray DEF SetMetatable, OnStack
<1>9. ASSUME NEW o \in OnStack(L), NEW t, SetFenv(o, t) PROVE GraySound'
  BY <1>9, Operand, ForwardGray DEF SetFenv, OnStack
<1>10. ASSUME NEW s \in SlotsOf(L), Close(s) PROVE GraySound'
  <2>. DEFINE gone == {u \in OpenFrom(L, s) : IsDead(u)}
              closed == OpenFrom(L, s) \ gone
              seen == {u \in closed : mark[u] = "gray"}
              V == {Value(u) : u \in seen}
              values == IF gcstate = "propagate" THEN Reached(V) ELSE {}
  <2>1. /\ Free(gone, closed)
        /\ mark' = [o \in Obj |->
                      IF o \in seen THEN IF gcstate = "propagate" THEN "black" ELSE white
                      ELSE IF o \in values THEN MarkOf(o) ELSE mark[o]]
    BY <1>10 DEF Close
  <2>2. closed \subseteq Alive /\ \A u \in closed : kind[u] = "upval"
    BY DEF OpenFrom, Are, Alive, Allocated
  <2>3. \A u \in closed : u \notin values
    <3>1. CASE gcstate = "propagate"
      <4>1. V \subseteq Values
        BY <2>2 DEF AliveSound, Sound
      <4>2. Allocated = Alive
        BY <3>1, NoneDead
      <4>. HIDE DEF V
      <4>3. \A u \in Reached(V) : kind[u] # "upval"
        BY <4>1, <4>2, NoUpvalueReached
      <4>. QED BY <2>2, <3>1, <4>3
    <3>2. CASE gcstate # "propagate"
      BY <3>2
    <3>. QED BY <3>1, <3>2
  <2>4. \A u \in closed : u \in seen <=> mark[u] = "gray"
    OBVIOUS
  <2>. HIDE DEF values, seen, closed, gone
  <2>5. /\ kind' = [o \in Obj |-> IF o \in gone THEN "free" ELSE kind[o]]
        /\ open' = [o \in Obj |-> IF o \in gone \cup closed THEN None ELSE open[o]]
    BY <2>1 DEF Free
  <2>6. ASSUME NEW x \in Allocated', mark'[x] = "gray" PROVE kind'[x] \notin {"udata", "upval"}
          \/ (kind'[x] = "upval" /\ IsOpen(x)')
    <3>1. x \in Obj /\ x \notin gone /\ kind'[x] = kind[x] /\ x \in Allocated
      BY <2>5 DEF Allocated
    <3>2. x \notin seen
      BY <1>0, <2>1, <2>6, <3>1
    <3>3. x \notin closed
      BY <2>1, <2>3, <2>4, <2>6, <3>1, <3>2
    <3>4. open'[x] = open[x]
      BY <2>5, <3>1, <3>3
    <3>5. mark[x] = "gray" \/ MarkOf(x) = "gray"
      BY <2>1, <2>6, <3>1, <3>2
    <3>. QED BY <3>1, <3>4, <3>5, MarkOfGray DEF GraySound, IsOpen
  <2>. QED BY <2>6, GrayKept
<1>11. CASE \E s \in SlotsOf(L) : Load(s)
  BY <1>5, <1>11 DEF Load, heapVars
<1>12. CASE \E t \in OnStack(L) \cup {L} : \E s \in SlotsOf(t), v \in OnStack(L) \cup {None} : SetLocal(t, s, v)
  BY <1>5, <1>12 DEF SetLocal, heapVars
<1>13. CASE \E t \in OnStack(L), m \in AllModes : SetMode(t, m)
  BY <1>5, <1>13 DEF SetMode
<1>14. CASE (\E t \in Obj : Resume(t)) \/ Yield
  BY <1>5, <1>14 DEF Resume, Yield, heapVars
<1>. QED BY <1>2, <1>3, <1>4, <1>6, <1>7, <1>8, <1>9, <1>10, <1>11, <1>12, <1>13, <1>14 DEF Program

LEMMA CollectorGray ==
  ASSUME Inv, GraySound, Collector \/ FullGC
  PROVE  GraySound'
<1>. USE DEF Inv
<1>0. white # "gray" /\ "black" # "gray"
  BY WhitesTwo
<1>1. ASSUME kind' = kind, open' = open,
             \A x \in Obj : mark'[x] = "gray" =>
                mark[x] = "gray" \/ MarkOf(x) = "gray" \/ kind[x] \notin {"udata", "upval"}
      PROVE  GraySound'
  BY <1>1, MarkOfGray DEF GraySound, IsOpen, Allocated
<1>2. CASE MarkRoot
  <2>1. kind' = kind /\ open' = open
        /\ \E R : mark' = [o \in Obj |-> IF o \in R THEN MarkOf(o) ELSE mark[o]]
    BY <1>2 DEF MarkRoot, heapVars
  <2>. QED BY <1>1, <2>1
<1>3. ASSUME NEW o \in Obj, Propagate(o) PROVE GraySound'
  <2>1. kind' = kind /\ open' = open
    BY <1>3 DEF Propagate, heapVars
  <2>2. kind[o] \notin {"udata", "upval"}
    BY <1>3 DEF Propagate, GrayInOneList, Listed
  <2>3. \A x \in Obj : x # o /\ mark'[x] = "gray" => mark[x] = "gray" \/ MarkOf(x) = "gray"
    BY <1>3 DEF Propagate
  <2>. QED BY <1>1, <2>1, <2>2, <2>3
<1>4. CASE Atomic
  <2>. DEFINE MarkAfter(o) == IF kind[o] = "thread" \/ WeakTable(o) THEN "gray"
                              ELSE IF kind[o] \in {"table", "func"} THEN "black" ELSE MarkOf(o)
  <2>1. kind' = kind /\ open' = open
        /\ \E R : mark' = [o \in Obj |-> IF o \in R THEN MarkAfter(o) ELSE mark[o]]
    BY <1>4 DEF Atomic
  <2>2. \A x \in Obj : MarkAfter(x) = "gray" => MarkOf(x) = "gray" \/ kind[x] \notin {"udata", "upval"}
    BY DEF WeakTable
  <2>. HIDE DEF MarkAfter
  <2>. QED BY <1>1, <2>1, <2>2
<1>5. ASSUME NEW dead, NEW closed, NEW Z, closed \subseteq Z, Free(dead, closed),
             mark' = [x \in Obj |-> IF x \in Z THEN white ELSE mark[x]]
      PROVE  GraySound'
  <2>1. ASSUME NEW x \in Allocated', mark'[x] = "gray"
        PROVE  x \in Allocated /\ mark[x] = "gray" /\ kind'[x] = kind[x] /\ open'[x] = open[x]
    <3>1. x \in Obj /\ x \notin Z /\ mark[x] = "gray"
      BY <1>0, <1>5, <2>1 DEF Allocated
    <3>2. x \notin dead /\ x \notin closed
      BY <1>5, <3>1 DEF Free, Allocated
    <3>. QED BY <1>5, <3>1, <3>2 DEF Free, Allocated
  <2>. QED BY <2>1, GrayKept
<1>6. CASE SweepString
  BY <1>5, <1>6 DEF SweepString
<1>7. ASSUME NEW o \in Obj, Sweep(o) PROVE GraySound'
  <2>. DEFINE upvals == IF kind[o] = "thread" THEN OpenFrom(o, 0) ELSE {}
              Z == {o} \cup upvals
              dead == {x \in Z : IsDead(x)}
              closed == IF IsDead(o) THEN upvals \ dead ELSE {}
  <2>1. Free(dead, closed) /\ mark' = [x \in Obj |-> IF x \in Z THEN white ELSE mark[x]]
    BY <1>7 DEF Sweep
  <2>2. closed \subseteq Z
    OBVIOUS
  <2>. HIDE DEF Z, dead, closed
  <2>. QED BY <1>5, <2>1, <2>2
<1>8. ASSUME NEW u \in Obj, CallFinalizer(u) PROVE GraySound'
  <2>1. kind' = kind /\ open' = open /\ mark' = [mark EXCEPT ![u] = white]
    BY <1>8 DEF CallFinalizer, heapVars
  <2>. QED BY <1>0, <1>1, <2>1 DEF TypeOK
<1>9. CASE EndCycle \/ FullGC
  BY <1>1, <1>9 DEF EndCycle, FullGC, heapVars
<1>. QED BY <1>2, <1>3, <1>4, <1>6, <1>7, <1>8, <1>9 DEF Collector

---------------------------------------------------------------------------
(* The invariant holds, and what follows from it *)

LEMMA InitInv == Init => Inv /\ GraySound
<1>. SUFFICES ASSUME Init PROVE Inv /\ GraySound
  OBVIOUS
<1>1. TypeOK
  BY LuaGCParams DEF Init, TypeOK, AllKinds, AllModes, Whites, Are, Allocated
<1>2. Alive = {Main} /\ Allocated = {Main} /\ kind[Main] = "thread" /\ mark[Main] = "white0"
  BY LuaGCParams DEF Init, Alive, Allocated, IsDead, Otherwhite
<1>3. RootsAlive
  BY <1>2 DEF Init, RootsAlive
<1>4. AliveSound
  <2>1. b[Main] = None /\ \A s \in Slot : stack[Main][s] = None
    BY LuaGCParams DEF Init
  <2>. QED BY <1>2, <2>1 DEF AliveSound, Sound, Values, Tables
<1>5. OpenSound /\ SweepSound /\ MarkSound /\ GrayInOneList /\ GraySound
  <2>1. OpenSound
    BY DEF Init, OpenSound, IsOpen, Are
  <2>. QED BY <1>2, <2>1 DEF Init, SweepSound, MarkSound, GrayInOneList, GraySound
<1>. QED BY <1>1, <1>3, <1>4, <1>5 DEF Inv

LEMMA NextInv == Inv /\ GraySound /\ [Next]_vars => Inv' /\ GraySound'
<1>. SUFFICES ASSUME Inv, GraySound, [Next]_vars PROVE Inv' /\ GraySound'
  OBVIOUS
<1>1. CASE Program /\ UNCHANGED program
  BY <1>1, ProgramInv, ProgramGray
<1>2. CASE (Collector \/ FullGC) /\ UNCHANGED program
  <2>1. GraySound'
    BY <1>2, CollectorGray
  <2>2. Inv'
    BY <1>2, MarkRootInv, PropagateInv, SweepInv, CallFinalizerInv, AtomicInv, SweepStringInv,
       EndCycleInv, FullGCInv DEF Collector
  <2>. QED BY <2>1, <2>2
<1>3. CASE UNCHANGED vars
  <2>1. UNCHANGED <<program, kind, mark, a, b, mode, open, stack, L, hasgc, finalized, calls, white,
                    gcstate, gray, grayagain, weak, tmudata, tosweep, full>>
    BY <1>3 DEF vars, heapVars, threadVars, udataVars, listVars, sweepVars
  <2>2. TypeOK'
    BY <2>1 DEF Inv, TypeOK, Are, Allocated
  <2>3. Inv'
    BY <2>1, <2>2, StackInv DEF Inv, RootsAlive
  <2>4. GraySound'
    BY <2>1 DEF GraySound, Allocated, IsOpen
  <2>. QED BY <2>3, <2>4
<1>. QED BY <1>1, <1>2, <1>3 DEF Next

LEMMA InvAlways == Spec => [](Inv /\ GraySound)
BY InitInv, NextInv, PTL DEF Spec

\* The collector and the program keep the types: the running thread is a
\* thread, the finalizers wait for userdata, the sweep goes over what is there
THEOREM GCTypes == Spec => []TypeOK
BY InvAlways, PTL DEF Inv

\* A gray object waits in exactly one of the gray lists while the collector
\* marks, whatever barriers, weak tables and closed upvalues do to the marks
THEOREM GrayListed == Spec => []GrayInOneList
BY InvAlways, PTL DEF Inv

\* The tri-colour invariant: while the collector marks, what is black leads to
\* nothing white (luaC_barrierf, luaC_barrierback, remarkupvals)
THEOREM BlackSafe == Spec => []BlackNeverToWhite
<1>1. ASSUME Inv PROVE BlackNeverToWhite
  <2>. SUFFICES ASSUME gcstate = "propagate", NEW o \in Allocated \ tmudata, mark[o] = "black",
                       NEW x \in Strong(o)
                PROVE  ~IsWhite(x)
    BY DEF BlackNeverToWhite
  <2>1. /\ kind[o] \in {"table", "udata", "func"} => NotWhite(a[o]) /\ NotWhite(b[o])
        /\ kind[o] = "upval" => NotWhite(b[o])
    BY <1>1 DEF Inv, MarkSound
  <2>2. kind[o] # "thread" /\ ~IsOpen(o)
    BY <1>1 DEF Inv, OpenSound, Are, Allocated
  <2>3. x # None
    BY DEF Strong
  <2>4. NotWhite(x)
    <3>1. CASE kind[o] \in {"table", "udata", "func"}
      BY <2>1, <3>1 DEF Strong
    <3>2. CASE kind[o] = "upval"
      BY <2>1, <2>2, <3>2 DEF Strong, Value
    <3>3. CASE kind[o] \notin {"table", "udata", "func", "upval"}
      BY <2>2, <3>3 DEF Strong
    <3>. QED BY <3>1, <3>2, <3>3
  <2>. QED BY <2>3, <2>4 DEF NotWhite
<1>. QED BY <1>1, InvAlways, PTL

\* The references of an object that is not dead lead to objects that are not
LEMMA RefsAlive ==
  ASSUME Inv, NEW o \in Alive
  PROVE  Refs(o) \subseteq Alive
<1>1. Sound(o)
  BY DEF Inv, AliveSound
<1>2. Values \subseteq Alive \cup {None} /\ Tables \subseteq Alive \cup {None}
  BY DEF Values, Tables
<1>3. CASE kind[o] = "table"
  BY <1>1, <1>2, <1>3 DEF Refs, Sound
<1>4. CASE kind[o] = "upval"
  BY <1>1, <1>2, <1>4 DEF Refs, Strong, Sound
<1>5. CASE kind[o] = "thread"
  BY <1>1, <1>2, <1>5 DEF Refs, Strong, Sound, OnStack
<1>6. CASE kind[o] \in {"udata", "func"}
  BY <1>1, <1>2, <1>6 DEF Refs, Strong, Sound
<1>7. CASE kind[o] \notin {"table", "upval", "thread", "udata", "func"}
  BY <1>7 DEF Refs, Strong
<1>. QED BY <1>3, <1>4, <1>5, <1>6, <1>7

\* The collector frees nothing the program can reach, through weak references
\* either, and between the atomic step and the end of the sweep nothing
\* reachable has the mark of the dead
THEOREM CollectorSafe == Spec => []ReachableAlive
<1>1. ASSUME Inv PROVE ReachableAlive
  <2>1. Reachable \subseteq Alive
    <3>1. Alive \subseteq Obj /\ {Main, L} \cup tmudata \subseteq Alive
      BY <1>1 DEF Alive, Allocated, Inv, RootsAlive
    <3>2. \A y \in Alive : Refs(y) \subseteq Alive
      BY <1>1, RefsAlive
    <3>. QED BY <3>1, <3>2 DEF Reachable
  <2>. QED BY <2>1 DEF ReachableAlive, NothingReachableFreed, ReachableNotDead, Alive
<1>. QED BY <1>1, InvAlways, PTL

---------------------------------------------------------------------------
(* Finalizers *)

\* Every step but the atomic one
NotAtomic ==
  \/ Program
  \/ MarkRoot
  \/ \E o \in Obj : Propagate(o) \/ Sweep(o) \/ CallFinalizer(o)
  \/ SweepString \/ EndCycle \/ FullGC

\* Only the atomic step makes objects dead
LEMMA DeadKept ==
  ASSUME Inv, NotAtomic
  PROVE  white' = white /\ \A x \in Obj : mark'[x] \in {mark[x], "gray", "black", white}
<1>. USE DEF Inv
<1>1. \A x \in Obj : MarkOf(x) \in {"gray", "black"}
  BY DEF MarkOf
<1>2. ASSUME NEW o, NEW v, BarrierForward(o, v)
      PROVE  \A x \in Obj : mark'[x] \in {mark[x], "gray", "black", white}
  BY <1>1, <1>2 DEF BarrierForward, MarkObjects, TypeOK
<1>3. ASSUME NEW o, NEW k, NEW s, NEW key, NEW val, NEW gc, Create(o, k, s, key, val, gc)
      PROVE  white' = white /\ \A x \in Obj : mark'[x] \in {mark[x], "gray", "black", white}
  BY <1>3 DEF Create, TypeOK
<1>4. CASE Program
  <2>2. CASE \E o \in Obj, s \in SlotsOf(L) : New(o, s) \/ ShareUpvalue(o, s)
    BY <1>3, <2>2 DEF New, NewString, NewTable, NewThread, NewUdata, ShareUpvalue
  <2>3. CASE \E o \in Obj, s \in SlotsOf(L) : FindString(o, s)
    BY <2>3 DEF FindString, TypeOK
  <2>4. CASE \E o, u \in Obj, s, x \in SlotsOf(L) : NewClosure(o, u, s, x)
    <3>. PICK o \in Obj, u \in Obj, s \in SlotsOf(L), x \in SlotsOf(L) : NewClosure(o, u, s, x)
      BY <2>4
    <3>1. white' = white /\ \E w \in {white, mark[u]} :
                               mark' = [mark EXCEPT ![o] = white, ![u] = w]
      BY DEF NewClosure
    <3>. QED BY <3>1 DEF TypeOK
  <2>5. CASE \E s \in SlotsOf(L) : Load(s)
    BY <2>5 DEF Load
  <2>6. CASE \E s \in SlotsOf(L) : Close(s)
    BY <1>1, <2>6 DEF Close
  <2>7. CASE \E t, s, v : SetLocal(t, s, v)
    BY <2>7 DEF SetLocal
  <2>8. CASE \E t, k, v : SetTable(t, k, v)
    BY <2>8 DEF SetTable, BarrierBack, TypeOK
  <2>9. CASE \E f, v : SetUpvalue(f, v)
    BY <1>2, <2>9 DEF SetUpvalue
  <2>10. CASE \E u, t, gc : SetMetatable(u, t, gc)
    BY <1>2, <2>10 DEF SetMetatable
  <2>11. CASE \E o, t : SetFenv(o, t)
    BY <1>2, <2>11 DEF SetFenv
  <2>12. CASE (\E t, m : SetMode(t, m)) \/ (\E t : Resume(t)) \/ Yield
    BY <2>12 DEF SetMode, Resume, Yield
  <2>. QED BY <1>4, <2>2, <2>3, <2>4, <2>5, <2>6, <2>7, <2>8, <2>9, <2>10, <2>11, <2>12
           DEF Program
<1>5. CASE MarkRoot
  BY <1>1, <1>5 DEF MarkRoot
<1>6. CASE \E o \in Obj : Propagate(o)
  BY <1>1, <1>6 DEF Propagate
<1>7. CASE \E o \in Obj : Sweep(o)
  BY <1>7 DEF Sweep
<1>8. CASE \E o \in Obj : CallFinalizer(o)
  BY <1>8 DEF CallFinalizer, TypeOK
<1>9. CASE SweepString
  BY <1>9 DEF SweepString
<1>10. CASE EndCycle \/ FullGC
  BY <1>10 DEF EndCycle, FullGC
<1>. QED BY <1>4, <1>5, <1>6, <1>7, <1>8, <1>9, <1>10 DEF NotAtomic

\* Steps that make no userdata, run no finalizer and let nothing die
LEMMA FinalizingKept ==
  ASSUME Inv, Finalizing, NotAtomic,
         UNCHANGED <<finalized, calls, tmudata>>,
         \A u \in Are("udata")' : u \in Are("udata") /\ hasgc'[u] = hasgc[u]
  PROVE  Finalizing'
<1>1. \A u \in Are("udata")' : IsDead(u)' => IsDead(u)
  <2>1. white' = white /\ \A x \in Obj : mark'[x] \in {mark[x], "gray", "black", white}
    BY DeadKept
  <2>2. "gray" # Otherwhite /\ "black" # Otherwhite /\ white # Otherwhite /\ Otherwhite' = Otherwhite
    BY <2>1, WhitesTwo DEF Otherwhite, Inv
  <2>. QED BY <2>1, <2>2 DEF IsDead, Are
<1>. QED BY <1>1 DEF Finalizing


\* The program makes userdata that no finalizer has seen, and gives none a
\* finalizer later
LEMMA ProgramFinalizing ==
  ASSUME Inv, Finalizing, LateGC = FALSE, Program
  PROVE  Finalizing'
<1>. USE DEF Inv
<1>0. NotAtomic
  BY DEF NotAtomic
<1>1. ASSUME NEW o \in Obj, NEW k, NEW s, NEW key, NEW val, NEW gc, Create(o, k, s, key, val, gc)
      PROVE  Finalizing'
  <2>1. /\ kind[o] = "free" /\ tmudata' = tmudata
        /\ mark'[o] = white /\ finalized'[o] = FALSE /\ calls'[o] = 0
        /\ \A u \in Obj \ {o} : /\ kind'[u] = kind[u] /\ hasgc'[u] = hasgc[u]
                                /\ finalized'[u] = finalized[u] /\ calls'[u] = calls[u]
    BY <1>1 DEF Create, sweepVars, TypeOK
  <2>2. o \notin tmudata
    BY <2>1 DEF TypeOK, Are
  <2>3. ~IsDead(o)' /\ \A u \in Obj : IsDead(u)' => IsDead(u) \/ u = o
    <3>1. white' = white /\ Otherwhite' = Otherwhite /\ white # Otherwhite
      BY <1>0, DeadKept, WhitesTwo DEF Otherwhite
    <3>2. \A u \in Obj \ {o} : mark'[u] = mark[u]
      BY <1>1 DEF Create, TypeOK
    <3>. QED BY <2>1, <3>1, <3>2 DEF IsDead
  <2>. QED BY <2>1, <2>2, <2>3 DEF Finalizing, Are
<1>2. ASSUME UNCHANGED <<finalized, calls, tmudata, hasgc>>,
             \A u \in Are("udata")' : u \in Are("udata")
      PROVE  Finalizing'
  BY <1>0, <1>2, FinalizingKept
<1>3. ASSUME NEW o \in Obj, NEW u \in Obj, NEW s, NEW x, NewClosure(o, u, s, x) PROVE Finalizing'
  <2>1. \A y \in Obj : kind'[y] = kind[y] \/ kind'[y] \in {"func", "upval"}
    BY <1>3 DEF NewClosure, TypeOK
  <2>. QED BY <1>2, <1>3, <2>1 DEF NewClosure, udataVars, sweepVars, Are
<1>4. ASSUME NEW s, Close(s) PROVE Finalizing'
  <2>1. \A y \in Obj : kind'[y] = kind[y] \/ kind'[y] = "free"
    BY <1>4 DEF Close, Free
  <2>. QED BY <1>2, <1>4, <2>1 DEF Close, udataVars, sweepVars, Are
<1>5. ASSUME NEW u, NEW t, NEW gc \in BOOLEAN, SetMetatable(u, t, gc) PROVE Finalizing'
  <2>1. hasgc' = hasgc
    BY <1>5 DEF SetMetatable, TypeOK
  <2>. QED BY <1>2, <1>5, <2>1 DEF SetMetatable, udataVars, sweepVars, Are
<1>6. CASE UNCHANGED <<kind, finalized, calls, tmudata, hasgc>>
  BY <1>2, <1>6 DEF Are
<1>7. CASE \E o \in Obj, s \in SlotsOf(L) : New(o, s) \/ ShareUpvalue(o, s)
  BY <1>1, <1>7 DEF New, NewString, NewTable, NewThread, NewUdata, ShareUpvalue
<1>8. CASE \E o \in Obj, s \in SlotsOf(L) : FindString(o, s)
  BY <1>6, <1>8 DEF FindString, heapVars, udataVars, sweepVars
<1>9. CASE \E s \in SlotsOf(L) : Load(s)
  BY <1>6, <1>9 DEF Load, heapVars, udataVars, sweepVars
<1>10. CASE \E t, s, v : SetLocal(t, s, v)
  BY <1>6, <1>10 DEF SetLocal, heapVars, udataVars, sweepVars
<1>11. CASE (\E t, k, v : SetTable(t, k, v)) \/ (\E f, v : SetUpvalue(f, v)) \/ (\E o, t : SetFenv(o, t))
  BY <1>6, <1>11 DEF SetTable, SetUpvalue, SetFenv, udataVars, sweepVars
<1>12. CASE (\E t, m : SetMode(t, m)) \/ (\E t : Resume(t)) \/ Yield
  BY <1>6, <1>12 DEF SetMode, Resume, Yield, heapVars, udataVars, sweepVars
<1>. QED BY <1>3, <1>4, <1>5, <1>7, <1>8, <1>9, <1>10, <1>11, <1>12 DEF Program

\* The atomic step finds every userdata with a finalizer before it is dead, a
\* call of the finalizer takes it off the list
LEMMA CollectorFinalizing ==
  ASSUME Inv, Finalizing, Collector \/ FullGC
  PROVE  Finalizing'
<1>. USE DEF Inv
<1>1. CASE Atomic
  <2>. DEFINE marked == Again \cup Remarked \cup Preserved \cup WeakStrings
  <2>1. /\ finalized' = [o \in Obj |-> finalized[o] \/ (o \in Unmarked /\ kind[o] = "udata")]
        /\ tmudata' = tmudata \cup Separated /\ white' = Otherwhite
        /\ UNCHANGED <<kind, hasgc, calls>>
    BY <1>1 DEF Atomic, ToFinalize
  <2>2. \A u \in Separated : u \in Unmarked /\ kind[u] = "udata" /\ hasgc[u] /\ ~finalized[u]
    BY DEF Separated, Are
  <2>3. ASSUME NEW u \in Are("udata"), hasgc[u], IsDead(u)'
        PROVE  finalized[u] \/ u \in Unmarked
    <3>1. Otherwhite' = white
      BY <2>1 DEF Otherwhite, TypeOK, Whites
    <3>2. mark'[u] = white /\ u \in Obj
      BY <2>3, <3>1 DEF IsDead, Are
    <3>3. mark[u] = white \/ MarkOf(u) = white
      <4>1. mark'[u] \in {mark[u], MarkOf(u)}
        <5>1. kind[u] = "udata" /\ ~WeakTable(u)
          BY DEF Are, WeakTable
        <5>. QED BY <1>1, <3>2, <5>1 DEF Atomic
      <4>. QED BY <3>2, <4>1
    <3>4. MarkOf(u) # white
      BY WhitesTwo DEF MarkOf
    <3>5. u \in WhiteObjects
      BY <3>3, <3>4, WhitesTwo DEF WhiteObjects, IsWhite, Allocated, Are
    <3>6. u \notin Remarked
      <4>1. u \in marked => mark'[u] = "black"
        <5>1. kind[u] = "udata" /\ ~WeakTable(u)
          BY DEF Are, WeakTable
        <5>. QED BY <1>1, <3>2, <5>1 DEF Atomic, MarkOf
      <4>. QED BY <3>2, <4>1, WhitesTwo
    <3>. QED BY <3>5, <3>6 DEF Unmarked
  <2>4. ASSUME NEW u \in Are("udata"), u \in tmudata \cup Separated
        PROVE  finalized'[u] /\ hasgc[u] /\ calls[u] = 0
    BY <2>1, <2>2, <2>4 DEF Finalizing, Are
  <2>5. ASSUME NEW u \in Are("udata"), hasgc[u], finalized'[u], u \notin tmudata \cup Separated
        PROVE  finalized[u]
    BY <2>1, <2>5 DEF Separated, Are
  <2>6. \A u \in Are("udata") : finalized'[u] = (finalized[u] \/ u \in Unmarked)
    BY <2>1 DEF Are
  <2>7. Are("udata")' = Are("udata")
    BY <2>1 DEF Are
  <2>. QED BY <2>1, <2>3, <2>4, <2>5, <2>6, <2>7 DEF Finalizing
<1>2. ASSUME NEW o \in Obj, CallFinalizer(o) PROVE Finalizing'
  <2>0. o \in tmudata /\ kind[o] = "udata" /\ hasgc[o] /\ finalized[o] /\ calls[o] = 0
    BY <1>2 DEF CallFinalizer, Finalizing, TypeOK, Are
  <2>1. /\ tmudata' = tmudata \ {o} /\ mark' = [mark EXCEPT ![o] = white]
        /\ calls' = [calls EXCEPT ![o] = @ + 1]
        /\ UNCHANGED <<kind, hasgc, finalized, white>>
    BY <1>2, <2>0 DEF CallFinalizer, heapVars
  <2>2. calls'[o] = 1 /\ \A u \in Obj \ {o} : calls'[u] = calls[u]
    BY <2>0, <2>1 DEF TypeOK
  <2>3. \A u \in Obj : IsDead(u)' => IsDead(u)
    BY <2>1, WhitesTwo DEF IsDead, TypeOK, Otherwhite
  <2>. QED BY <2>0, <2>1, <2>2, <2>3 DEF Finalizing, Are
<1>3. ASSUME NotAtomic, UNCHANGED <<finalized, calls, tmudata, hasgc>>,
             \A u \in Obj : kind'[u] = kind[u] \/ kind'[u] = "free"
      PROVE  Finalizing'
  BY <1>3, FinalizingKept DEF Are
<1>4. CASE MarkRoot \/ EndCycle \/ FullGC
  <2>1. NotAtomic
    BY <1>4 DEF NotAtomic
  <2>. QED BY <1>3, <1>4, <2>1 DEF MarkRoot, EndCycle, FullGC, heapVars, udataVars
<1>5. CASE \E o \in Obj : Propagate(o)
  <2>1. NotAtomic
    BY <1>5 DEF NotAtomic
  <2>. QED BY <1>3, <1>5, <2>1 DEF Propagate, heapVars, udataVars, sweepVars
<1>6. CASE SweepString
  <2>1. NotAtomic
    BY <1>6 DEF NotAtomic
  <2>. QED BY <1>3, <1>6, <2>1 DEF SweepString, Free, udataVars
<1>7. CASE \E o \in Obj : Sweep(o)
  <2>1. NotAtomic
    BY <1>7 DEF NotAtomic
  <2>. QED BY <1>3, <1>7, <2>1 DEF Sweep, Free, udataVars
<1>. QED BY <1>1, <1>2, <1>4, <1>5, <1>6, <1>7 DEF Collector

\* A userdata is freed by the sweep, and dead
LEMMA FreedDead ==
  ASSUME Inv, Next, NEW u \in Are("udata"), kind'[u] = "free"
  PROVE  IsDead(u)
<1>. USE DEF Inv
<1>. u \in Obj /\ kind[u] = "udata"
  BY DEF Are
<1>1. ASSUME NEW gone, NEW closed, Free(gone, closed) PROVE u \in gone
  BY <1>1 DEF Free
<1>2. CASE UNCHANGED kind
  BY <1>2
<1>3. ASSUME NEW o, NEW k \in AllKinds, NEW s, NEW key, NEW val, NEW gc, Create(o, k, s, key, val, gc)
      PROVE  FALSE
  BY <1>3 DEF Create, TypeOK, AllKinds
<1>4. CASE Program
  <2>1. ASSUME NEW o, NEW s, New(o, s) \/ ShareUpvalue(o, s) PROVE FALSE
    BY <1>3, <2>1 DEF New, NewString, NewTable, NewThread, NewUdata, ShareUpvalue, AllKinds
  <2>2. ASSUME NEW o, NEW p, NEW s, NEW x, NewClosure(o, p, s, x) PROVE FALSE
    BY <2>2 DEF NewClosure, TypeOK
  <2>3. ASSUME NEW s, Close(s) PROVE FALSE
    BY <1>1, <2>3 DEF Close, OpenFrom, Are
  <2>4. CASE \E o, s : FindString(o, s) \/ Load(s)
    BY <1>2, <2>4 DEF FindString, Load, heapVars
  <2>5. CASE (\E t, s, v : SetLocal(t, s, v)) \/ (\E t : Resume(t)) \/ Yield
    BY <1>2, <2>5 DEF SetLocal, Resume, Yield, heapVars
  <2>6. CASE \E t, k, v : SetTable(t, k, v) \/ SetMetatable(t, k, v) \/ SetUpvalue(t, v)
                          \/ SetFenv(t, v) \/ SetMode(t, v)
    BY <1>2, <2>6 DEF SetTable, SetMetatable, SetUpvalue, SetFenv, SetMode
  <2>. QED BY <1>4, <2>1, <2>2, <2>3, <2>4, <2>5, <2>6 DEF Program
<1>5. CASE MarkRoot \/ Atomic \/ EndCycle \/ FullGC
  BY <1>2, <1>5 DEF MarkRoot, Atomic, EndCycle, FullGC, heapVars
<1>6. CASE \E o \in Obj : Propagate(o) \/ CallFinalizer(o)
  BY <1>2, <1>6 DEF Propagate, CallFinalizer, heapVars
<1>7. CASE SweepString
  BY <1>1, <1>7 DEF SweepString
<1>8. ASSUME NEW o, Sweep(o) PROVE IsDead(u)
  BY <1>1, <1>8 DEF Sweep
<1>. QED BY <1>4, <1>5, <1>6, <1>7, <1>8 DEF Next, Collector

\* GCTM: while programs set __gc before they make userdata of it, a finalizer
\* runs once at most, and has run when its userdata is freed
THEOREM FinalizersOnce == LateGC = FALSE => (Spec => FinalizedFirst)
<1>. SUFFICES ASSUME LateGC = FALSE PROVE Spec => FinalizedFirst
  OBVIOUS
<1>1. Init => Finalizing
  BY LuaGCParams DEF Init, Finalizing, Are, IsDead, Otherwhite
<1>2. Inv /\ Finalizing /\ [Next]_vars => Finalizing'
  <2>. SUFFICES ASSUME Inv, Finalizing, [Next]_vars PROVE Finalizing'
    OBVIOUS
  <2>1. CASE Program
    BY <2>1, ProgramFinalizing
  <2>2. CASE Collector \/ FullGC
    BY <2>2, CollectorFinalizing
  <2>3. CASE UNCHANGED vars
    <3>1. UNCHANGED <<kind, mark, hasgc, finalized, calls, white, tmudata>>
      BY <2>3 DEF vars, heapVars, udataVars, sweepVars
    <3>. QED BY <3>1 DEF Finalizing, Are, IsDead, Otherwhite
  <2>. QED BY <2>1, <2>2, <2>3 DEF Next
<1>3. ASSUME Inv, Finalizing, Finalizing', [Next]_vars
      PROVE  [\A u \in Are("udata") :
                /\ calls'[u] <= 1
                /\ kind'[u] = "free" /\ hasgc[u] => calls[u] = 1]_vars
  <2>. SUFFICES ASSUME Next, NEW u \in Are("udata")
                PROVE  /\ calls'[u] <= 1
                       /\ kind'[u] = "free" /\ hasgc[u] => calls[u] = 1
    BY <1>3
  <2>1. ASSUME kind'[u] = "free", hasgc[u] PROVE calls[u] = 1
    <3>1. IsDead(u)
      BY <1>3, <2>1, FreedDead
    <3>2. u \notin tmudata
      BY <1>3, <3>1 DEF Inv, RootsAlive, Alive
    <3>. QED BY <1>3, <2>1, <3>1, <3>2 DEF Finalizing
  <2>2. calls'[u] <= 1
    <3>1. CASE kind'[u] = "udata"
      BY <1>3, <3>1 DEF Finalizing, Are
    <3>2. CASE kind'[u] # "udata"
      <4>1. ASSUME NEW o, NEW k, NEW s, NEW key, NEW val, NEW gc, Create(o, k, s, key, val, gc)
            PROVE  calls'[u] = calls[u]
        BY <1>3, <4>1 DEF Create, Inv, TypeOK, Are
      <4>2. ASSUME Program PROVE calls'[u] = calls[u]
        <5>1. calls' = calls \/ \E o, s : New(o, s) \/ ShareUpvalue(o, s)
          BY <4>2 DEF Program, FindString, NewClosure, Load, Close, SetLocal, SetTable, SetUpvalue,
             SetMetatable, SetFenv, SetMode, Resume, Yield, udataVars
        <5>. QED BY <4>1, <5>1 DEF New, NewString, NewTable, NewThread, NewUdata, ShareUpvalue
      <4>3. ASSUME NEW o \in Obj, CallFinalizer(o) PROVE calls'[u] = calls[u]
        BY <3>2, <4>3 DEF CallFinalizer, heapVars, Are
      <4>4. ASSUME Collector \/ FullGC, ~\E o \in Obj : CallFinalizer(o) PROVE calls'[u] = calls[u]
        BY <4>4 DEF Collector, FullGC, MarkRoot, Propagate, Sweep, Atomic, SweepString, EndCycle,
           udataVars
      <4>5. calls'[u] = calls[u]
        BY <4>2, <4>3, <4>4 DEF Next
      <4>. QED BY <1>3, <4>5 DEF Finalizing
    <3>. QED BY <3>1, <3>2
  <2>. QED BY <2>1, <2>2
<1>. QED BY <1>1, <1>2, <1>3, InvAlways, PTL DEF Spec, FinalizedFirst

=============================================================================
