------------------------------- MODULE LuaGC -------------------------------
(***************************************************************************)
(* The incremental collector of Lua 5.1 (lgc.c, lfunc.c) and the program   *)
(* it runs beside.  The collector works in small steps; between two of     *)
(* them the running thread allocates, stores references and closes         *)
(* upvalues, and the barriers in those operations have to keep the marks   *)
(* of the collector right.                                                 *)
(*                                                                         *)
(* An address holds an object of any kind, and is used again after it was  *)
(* freed.  An operation of the program is one step: the collector runs     *)
(* only at luaC_checkGC, never inside one.  A table has one entry, a       *)
(* function one upvalue, and a value that is no object is None.  Lists of  *)
(* the collector are sets.                                                 *)
(***************************************************************************)
EXTENDS Integers, FiniteSets

CONSTANTS
  Obj,        \* addresses
  Main,       \* the main thread, one of them
  Slot,       \* stack slots of the main thread, a set of numbers
  CoSlot,     \* stack slots of a coroutine
  Programs,   \* programs: how many objects of each kind they use at once,
              \* which values of __mode ("strong" for no such field), and
              \* which of the rarer operations
  LateGC,     \* whether it gives userdata a __gc after making them: then one
              \* that a finalizer brought back may be freed without its own
  None

AllKinds == {"string", "table", "udata", "func", "upval", "thread"}
AllModes == {"strong", "weakkey", "weakvalue", "weak"}

Rare == {"setfenv", "setmetatable", "collect"}

ASSUME LuaGCParams ==
  /\ Main \in Obj /\ None \notin Obj /\ None \notin Obj \X Slot
  /\ Slot \subseteq Nat /\ CoSlot \subseteq Slot
  /\ Programs \subseteq [most : [AllKinds -> Nat], modes : SUBSET AllModes, ops : SUBSET Rare]
  /\ LateGC \in BOOLEAN

VARIABLES
  program,    \* the one that runs
  kind,       \* address -> kind of the object there, or "free"
  mark,       \* address -> marked: a white, "gray" or "black"
  a,          \* table: key; udata: metatable; function: upvalue
  b,          \* table: value; udata, function: env; closed upvalue: value;
              \* thread: its global table
  mode,       \* table -> mode its metatable gives it
  open,       \* upvalue -> stack slot it stands for, or None when closed
  stack,      \* thread -> slot -> value
  L,          \* the running thread
  hasgc,      \* udata -> its metatable has a __gc
  finalized,  \* udata -> FINALIZEDBIT
  calls,      \* udata -> calls of its finalizer
  white,      \* currentwhite
  gcstate,
  gray, grayagain, weak,   \* the gray lists
  tmudata,    \* udata that wait for their finalizer
  tosweep,    \* objects from sweepstrgc and sweepgc on
  full        \* what luaC_fullgc does: "no", "sweep" before it starts over,
              \* or "cycle"

heapVars == <<kind, a, b, mode, open, hasgc>>
threadVars == <<stack, L>>
udataVars == <<finalized, calls>>
listVars == <<gray, grayagain, weak>>
sweepVars == <<tmudata, tosweep, full>>
vars == <<program, heapVars, threadVars, udataVars, mark, white, gcstate, listVars, sweepVars>>

SlotsOf(t) == IF t = Main THEN Slot ELSE CoSlot

---------------------------------------------------------------------------
(* Colours and references *)

Whites == {"white0", "white1"}
Otherwhite == IF white = "white0" THEN "white1" ELSE "white0"

Allocated == {o \in Obj : kind[o] # "free"}
Are(k) == {o \in Obj : kind[o] = k}
IsWhite(o) == mark[o] \in Whites
WhiteObjects == {o \in Allocated : IsWhite(o)}
IsDead(o) == mark[o] = Otherwhite
IsOpen(u) == open[u] # None

\* What an upvalue stands for: a stack slot, or its own value once closed
Value(u) == IF IsOpen(u) THEN stack[open[u][1]][open[u][2]] ELSE b[u]

OnStack(t) == {stack[t][s] : s \in Slot} \ {None}

\* What the traversal of o marks
Strong(o) ==
  (CASE kind[o] = "table" ->
          (IF mode[o] \in {"weakkey", "weak"} THEN {} ELSE {a[o]}) \cup
          (IF mode[o] \in {"weakvalue", "weak"} THEN {} ELSE {b[o]})
     [] kind[o] = "upval" -> {Value(o)}
     [] kind[o] = "thread" -> OnStack(o) \cup {b[o]}
     [] kind[o] \in {"udata", "func"} -> {a[o], b[o]}
     [] OTHER -> {}) \ {None}

\* Everything the object leads to, weak references included
Refs(o) == IF kind[o] = "table" THEN {a[o], b[o]} \ {None} ELSE Strong(o)

WeakTable(o) == kind[o] = "table" /\ mode[o] # "strong"

\* The white objects reallymarkobject marks when it is given those of S: an
\* upvalue passes the mark on to its value, a userdata to its two tables
Reached(S) ==
  LET direct == S \cap WhiteObjects
      values == {Value(u) : u \in direct \cap Are("upval")}
      through == direct \cup (values \cap WhiteObjects)
      tables == UNION {Strong(u) : u \in through \cap Are("udata")}
  IN through \cup (tables \cap WhiteObjects)

\* The mark a white object gets, and whether it waits to be traversed
MarkOf(o) ==
  IF kind[o] = "udata" \/ (kind[o] = "upval" /\ ~IsOpen(o)) THEN "black" ELSE "gray"
Listed(S) == {o \in S : kind[o] \in {"table", "func", "thread"}}

MarkObjects(S) ==
  /\ mark' = [o \in Obj |-> IF o \in Reached(S) THEN MarkOf(o) ELSE mark[o]]
  /\ gray' = gray \cup Listed(Reached(S))

---------------------------------------------------------------------------
(* The barriers *)

\* Mutant: no barrier where an upvalue is set
BarrierForgetsUpvalues(o, v) ==
  IF v # None /\ mark[o] = "black" /\ IsWhite(v) /\ kind[o] # "upval"
  THEN IF gcstate = "propagate"
       THEN MarkObjects({v})
       ELSE mark' = [mark EXCEPT ![o] = white] /\ UNCHANGED gray
  ELSE UNCHANGED <<mark, gray>>

\* luaC_barrier and luaC_objbarrier, before o leads to v: the mark moves forward
BarrierForward(o, v) ==
  IF v # None /\ mark[o] = "black" /\ IsWhite(v)
  THEN IF gcstate = "propagate"
       THEN MarkObjects({v})
       ELSE mark' = [mark EXCEPT ![o] = white] /\ UNCHANGED gray
  ELSE UNCHANGED <<mark, gray>>

\* Mutant: the table turns gray and is put in no list
BarrierBackUnlinked(t, stored) ==
  IF mark[t] = "black" /\ \E v \in stored \ {None} : IsWhite(v)
  THEN mark' = [mark EXCEPT ![t] = "gray"] /\ UNCHANGED grayagain
  ELSE UNCHANGED <<mark, grayagain>>

\* luaC_barriert: the table t will be traversed again.  What grayagain holds
\* once the atomic step is over is never read
BarrierBack(t, stored) ==
  IF mark[t] = "black" /\ \E v \in stored \ {None} : IsWhite(v)
  THEN /\ mark' = [mark EXCEPT ![t] = "gray"]
       /\ grayagain' = IF gcstate = "propagate" THEN grayagain \cup {t} ELSE grayagain
  ELSE UNCHANGED <<mark, grayagain>>

---------------------------------------------------------------------------
(* The program *)

Running == full = "no"
\* Nothing tells addresses apart, so it does not matter which one malloc takes
FirstFree(among) == CHOOSE o \in among : kind[o] = "free"
MayMake(k) == Cardinality(Are(k)) < program.most[k]

\* A new object, white, in a slot of the running thread
Create(o, k, s, key, val, gc) ==
  /\ kind[o] = "free" /\ o = FirstFree(Obj) /\ MayMake(k)
  /\ kind' = [kind EXCEPT ![o] = k]
  /\ mark' = [mark EXCEPT ![o] = white]
  /\ a' = [a EXCEPT ![o] = key]
  /\ b' = [b EXCEPT ![o] = val]
  /\ mode' = [mode EXCEPT ![o] = "strong"]
  /\ open' = [open EXCEPT ![o] = None]
  /\ hasgc' = [hasgc EXCEPT ![o] = gc]
  /\ finalized' = [finalized EXCEPT ![o] = FALSE]
  /\ calls' = [calls EXCEPT ![o] = 0]
  /\ stack' = [stack EXCEPT ![o] = [x \in Slot |-> None], ![L][s] = o]
  /\ UNCHANGED <<L, white, gcstate, listVars, sweepVars>>

TablesOnStack == OnStack(L) \cap Are("table")

NewString(o, s) == Create(o, "string", s, None, None, FALSE)
NewTable(o, s) == Create(o, "table", s, None, None, FALSE)
NewThread(o, s) == Create(o, "thread", s, None, b[L], FALSE)
NewUdata(o, s) ==
  \E gc \in BOOLEAN : \E mt \in TablesOnStack \cup {None} :
    /\ gc => mt # None
    /\ Create(o, "udata", s, mt, b[L], gc)

New(o, s) == Running /\ (NewString(o, s) \/ NewTable(o, s) \/ NewThread(o, s) \/ NewUdata(o, s))

\* OP_CLOSURE: a function with an upvalue for slot x.  A dead upvalue that
\* still stands for the slot is used again
NewClosure(o, u, s, x) ==
  /\ Running /\ o # u
  /\ kind[o] = "free" /\ o = FirstFree(Obj) /\ MayMake("func")
  /\ LET found == {p \in Are("upval") : open[p] = <<L, x>>}
     IN IF found # {}
        THEN /\ u \in found
             /\ kind' = [kind EXCEPT ![o] = "func"]
             /\ mark' = [mark EXCEPT ![o] = white,
                                     ![u] = IF IsDead(u) THEN white ELSE @]
             /\ UNCHANGED open
        ELSE /\ kind[u] = "free" /\ u = FirstFree(Obj \ {o}) /\ MayMake("upval")
             /\ kind' = [kind EXCEPT ![o] = "func", ![u] = "upval"]
             /\ mark' = [mark EXCEPT ![o] = white, ![u] = white]
             /\ open' = [open EXCEPT ![u] = <<L, x>>]
  /\ a' = [a EXCEPT ![o] = u]
  /\ b' = [b EXCEPT ![o] = b[L]]
  /\ stack' = [stack EXCEPT ![L][s] = o]
  /\ UNCHANGED <<mode, hasgc, L, udataVars, white, gcstate, listVars, sweepVars>>

\* OP_CLOSURE in a function: share its upvalue
ShareUpvalue(o, s) ==
  /\ Running
  /\ \E f \in OnStack(L) \cap Are("func") : Create(o, "func", s, a[f], b[f], FALSE)

\* Read a value some object on the stack leads to; a function reads what its
\* upvalue stands for
Readable ==
  UNION {IF kind[o] = "func" THEN {b[o], Value(a[o])} \ {None}
         ELSE Refs(o) : o \in OnStack(L) \cup {L}}

Load(s) ==
  /\ Running
  /\ \E v \in Readable : stack' = [stack EXCEPT ![L][s] = v]
  /\ UNCHANGED <<heapVars, L, udataVars, mark, white, gcstate, listVars, sweepVars>>

\* luaS_newlstr finds the string, dead or not
FindString(o, s) ==
  /\ Running /\ kind[o] = "string"
  /\ mark' = [mark EXCEPT ![o] = IF IsDead(o) THEN white ELSE @]
  /\ stack' = [stack EXCEPT ![L][s] = o]
  /\ UNCHANGED <<heapVars, L, udataVars, white, gcstate, listVars, sweepVars>>

\* t[k] = v, through luaV_settable and luaH_newkey; k = None is a number
SetTable(t, k, v) ==
  /\ Running /\ kind[t] = "table"
  /\ v = None => k = None
  /\ a' = [a EXCEPT ![t] = k]
  /\ b' = [b EXCEPT ![t] = v]
  /\ BarrierBack(t, IF k = a[t] THEN {v} ELSE {k, v})
  /\ UNCHANGED <<kind, mode, open, hasgc, threadVars, udataVars, white, gcstate,
                 gray, weak, sweepVars>>

\* OP_SETUPVAL; the slot of an open upvalue is written without a barrier
SetUpvalue(f, v) ==
  /\ Running /\ kind[f] = "func"
  /\ LET u == a[f] IN
       /\ IF IsOpen(u)
          THEN /\ stack' = [stack EXCEPT ![open[u][1]][open[u][2]] = v]
               /\ UNCHANGED b
          ELSE b' = [b EXCEPT ![u] = v] /\ UNCHANGED stack
       /\ BarrierForward(u, v)
  /\ UNCHANGED <<kind, a, mode, open, hasgc, L, udataVars, white, gcstate,
                 grayagain, weak, sweepVars>>

\* lua_setmetatable on a userdata
SetMetatable(u, t, gc) ==
  /\ Running /\ "setmetatable" \in program.ops /\ kind[u] = "udata"
  /\ gc => t # None
  /\ LateGC \/ gc = hasgc[u]
  /\ a' = [a EXCEPT ![u] = t]
  /\ hasgc' = [hasgc EXCEPT ![u] = gc]
  /\ BarrierForward(u, t)
  /\ UNCHANGED <<kind, b, mode, open, threadVars, udataVars, white, gcstate,
                 grayagain, weak, sweepVars>>

\* lua_setfenv
SetFenv(o, t) ==
  /\ Running /\ "setfenv" \in program.ops
  /\ kind[o] \in {"udata", "func", "thread"}
  /\ b' = [b EXCEPT ![o] = t]
  /\ BarrierForward(o, t)
  /\ UNCHANGED <<kind, a, mode, open, hasgc, threadVars, udataVars, white, gcstate,
                 grayagain, weak, sweepVars>>

\* The program sets __mode in the metatable of t, a raw store of a string
SetMode(t, m) ==
  /\ Running /\ kind[t] = "table" /\ m \in program.modes
  /\ mode' = [mode EXCEPT ![t] = m]
  /\ UNCHANGED <<kind, a, b, open, hasgc, threadVars, udataVars, mark, white, gcstate,
                 listVars, sweepVars>>

\* A local variable of the running thread is assigned, or one of another
\* thread it knows (lua_setlocal, lua_xmove)
SetLocal(t, s, v) ==
  /\ Running /\ kind[t] = "thread"
  /\ stack' = [stack EXCEPT ![t][s] = v]
  /\ UNCHANGED <<heapVars, L, udataVars, mark, white, gcstate, listVars, sweepVars>>

OpenFrom(t, level) ==
  {u \in Are("upval") : IsOpen(u) /\ open[u][1] = t /\ open[u][2] >= level}

\* Objects that go, and open upvalues that become closed
Free(gone, closed) ==
  /\ kind' = [o \in Obj |-> IF o \in gone THEN "free" ELSE kind[o]]
  /\ a' = [o \in Obj |-> IF o \in gone THEN None ELSE a[o]]
  /\ b' = [o \in Obj |-> IF o \in gone THEN None
                         ELSE IF o \in closed THEN Value(o) ELSE b[o]]
  /\ open' = [o \in Obj |-> IF o \in gone \cup closed THEN None ELSE open[o]]

\* Slots from s on go out of scope: luaF_close, then the values are dropped.
\* A gray upvalue is now black if the collector marks, white if it sweeps
Close(s) ==
  LET level == {x \in Slot : x >= s}
      gone == {u \in OpenFrom(L, s) : IsDead(u)}
      closed == OpenFrom(L, s) \ gone
      seen == {u \in closed : mark[u] = "gray"}
      values == IF gcstate = "propagate" THEN Reached({Value(u) : u \in seen}) ELSE {}
  IN /\ Running
     /\ Free(gone, closed)
     /\ mark' = [o \in Obj |->
                   IF o \in seen
                   THEN IF gcstate = "propagate" THEN "black" ELSE white
                   ELSE IF o \in values THEN MarkOf(o) ELSE mark[o]]
     /\ gray' = gray \cup Listed(values)
     /\ stack' = [stack EXCEPT ![L] = [x \in Slot |-> IF x \in level THEN None ELSE @[x]]]
     /\ UNCHANGED <<mode, hasgc, L, udataVars, white, gcstate, grayagain, weak, sweepVars>>

\* lua_resume and lua_yield; one coroutine deep
Resume(t) ==
  /\ Running /\ L = Main /\ t # Main
  /\ t \in OnStack(Main) /\ kind[t] = "thread"
  /\ L' = t
  /\ UNCHANGED <<heapVars, stack, udataVars, mark, white, gcstate, listVars, sweepVars>>

Yield ==
  /\ Running /\ L # Main
  /\ L' = Main
  /\ UNCHANGED <<heapVars, stack, udataVars, mark, white, gcstate, listVars, sweepVars>>

Program ==
  LET operands == OnStack(L) \cup {None}
      keys == IF program.modes = {"strong"} THEN {None} ELSE operands
  IN
    \/ \E o \in Obj, s \in SlotsOf(L) : New(o, s) \/ ShareUpvalue(o, s) \/ FindString(o, s)
    \/ \E o, u \in Obj, s, x \in SlotsOf(L) : NewClosure(o, u, s, x)
    \/ \E s \in SlotsOf(L) : Load(s) \/ Close(s)
    \/ \E t \in OnStack(L) \cup {L} : \E s \in SlotsOf(t), v \in operands : SetLocal(t, s, v)
    \/ \E t \in OnStack(L), k \in keys, v \in operands : SetTable(t, k, v)
    \/ \E f \in OnStack(L), v \in operands : SetUpvalue(f, v)
    \/ \E u \in OnStack(L), t \in TablesOnStack \cup {None}, gc \in BOOLEAN :
         SetMetatable(u, t, gc)
    \/ \E o \in OnStack(L), t \in TablesOnStack : SetFenv(o, t)
    \/ \E t \in OnStack(L), m \in AllModes : SetMode(t, m)
    \/ \E t \in Obj : Resume(t)
    \/ Yield

---------------------------------------------------------------------------
(* The collector *)

\* Start a cycle: the lists are dropped, the main thread is marked
MarkRoot ==
  /\ gcstate = "pause" \/ (gcstate = "finalize" /\ full = "sweep")
  /\ LET roots == Reached({Main, b[Main]} \ {None}) IN
       /\ mark' = [o \in Obj |-> IF o \in roots THEN MarkOf(o) ELSE mark[o]]
       /\ gray' = Listed(roots)
  /\ grayagain' = {} /\ weak' = {}
  /\ gcstate' = "propagate"
  /\ full' = IF full = "sweep" THEN "cycle" ELSE full
  /\ UNCHANGED <<heapVars, threadVars, udataVars, white, tmudata, tosweep>>

\* propagatemark: traverse one gray object.  Threads will be traversed again,
\* and so will weak tables, both stay gray
Propagate(o) ==
  /\ gcstate = "propagate" /\ o \in gray
  /\ LET found == Reached(Strong(o))
         again == kind[o] = "thread" \/ WeakTable(o)
     IN /\ mark' = [x \in Obj |-> IF x = o THEN IF again THEN "gray" ELSE "black"
                                  ELSE IF x \in found THEN MarkOf(x) ELSE mark[x]]
        /\ gray' = (gray \ {o}) \cup Listed(found)
  /\ grayagain' = IF kind[o] = "thread" THEN grayagain \cup {o} ELSE grayagain
  /\ weak' = IF WeakTable(o) THEN weak \cup {o} ELSE weak
  /\ UNCHANGED <<heapVars, threadVars, udataVars, white, gcstate, sweepVars>>

\* What propagateall marks among the objects of W from those of S on
Closure(S, W) ==
  {x \in W : \A C \in SUBSET W :
     (S \cap W \subseteq C /\ \A y \in C : Strong(y) \cap W \subseteq C) => x \in C}

\* atomic: open upvalues of dead threads, the running thread, weak tables and
\* grayagain; then userdata to finalize and what they lead to
Again == gray \cup grayagain \cup weak
\* Mutants: the running thread, or what open upvalues stand for, is not remarked
RemarkedNotRunning ==
  Closure((UNION {Strong(o) : o \in Again})
            \cup {Value(u) : u \in {p \in Are("upval") : IsOpen(p) /\ mark[p] = "gray"}},
          WhiteObjects)
RemarkedNotUpvalues == Closure({L} \cup UNION {Strong(o) : o \in Again}, WhiteObjects)

Remarked ==
  Closure({L} \cup (UNION {Strong(o) : o \in Again})
              \cup {Value(u) : u \in {p \in Are("upval") : IsOpen(p) /\ mark[p] = "gray"}},
          WhiteObjects)
Unmarked == WhiteObjects \ Remarked

\* Mutant: a userdata whose metatable is garbage too has no __gc
SeparatedByMetatable ==
  {u \in Unmarked \cap Are("udata") : ~finalized[u] /\ hasgc[u] /\ a[u] \notin Unmarked}

\* luaC_separateudata: the ones to finalize
Separated == {u \in Unmarked \cap Are("udata") : ~finalized[u] /\ hasgc[u]}
ToFinalize == tmudata \cup Separated
Preserved ==
  ToFinalize \cup Closure(UNION {Strong(u) : u \in ToFinalize}, Unmarked \ ToFinalize)
Survivors == (Allocated \ WhiteObjects) \cup Remarked \cup Preserved

\* cleartable: entries of weak tables that hold collected objects
IsCleared(v, iskey) ==
  /\ v # None /\ kind[v] # "string"
  /\ \/ v \notin Survivors
     \/ ~iskey /\ kind[v] = "udata" /\ (finalized[v] \/ v \in Unmarked)
WeakTables == {t \in Again \cup Remarked \cup Preserved : WeakTable(t)}
ClearedTables ==
  {t \in WeakTables : b[t] # None /\ (IsCleared(a[t], TRUE) \/ IsCleared(b[t], FALSE))}
\* strings in weak tables are marked as they are met
WeakStrings ==
  ({a[t] : t \in {u \in WeakTables : b[u] # None}} \cup
   {b[t] : t \in {u \in WeakTables : ~IsCleared(a[u], TRUE)}}) \cap Are("string")

Atomic ==
  LET marked == (Again \cup Remarked \cup Preserved \cup WeakStrings)
      MarkAfter(o) == IF kind[o] = "thread" \/ WeakTable(o) THEN "gray"
                      ELSE IF kind[o] \in {"table", "func"} THEN "black" ELSE MarkOf(o)
  IN /\ gcstate = "propagate" /\ gray = {}
     /\ mark' = [o \in Obj |-> IF o \in marked THEN MarkAfter(o) ELSE mark[o]]
     /\ finalized' = [o \in Obj |-> finalized[o] \/ (o \in Unmarked /\ kind[o] = "udata")]
     /\ a' = [o \in Obj |-> IF o \in ClearedTables THEN None ELSE a[o]]
     /\ b' = [o \in Obj |-> IF o \in ClearedTables THEN None ELSE b[o]]
     /\ tmudata' = ToFinalize
     /\ white' = Otherwhite
     /\ tosweep' = {o \in Allocated \ ToFinalize : kind[o] = "upval" => ~IsOpen(o)}
     /\ gray' = {} /\ grayagain' = {} /\ weak' = {}
     /\ gcstate' = "sweepstring"
     /\ UNCHANGED <<kind, mode, open, hasgc, threadVars, calls, full>>

\* sweepwholelist on the strings: a bucket of the model holds one of them
SweepString ==
  /\ gcstate = "sweepstring"
  /\ \E swept \in {{o} : o \in tosweep \cap Are("string")} \cup
                  (IF tosweep \cap Are("string") = {} THEN {{}} ELSE {}) :
       /\ Free({o \in swept : IsDead(o)}, {})
       /\ mark' = [o \in Obj |-> IF o \in swept THEN white ELSE mark[o]]
       /\ tosweep' = tosweep \ swept
       /\ gcstate' = IF tosweep' \cap Are("string") = {} THEN "sweep" ELSE gcstate
  /\ UNCHANGED <<mode, hasgc, threadVars, udataVars, white, listVars, tmudata, full>>

\* Mutant: what survives keeps its mark
SweepKeepsMark(o) ==
  LET upvals == IF kind[o] = "thread" THEN OpenFrom(o, 0) ELSE {}
      dead == {x \in {o} \cup upvals : IsDead(x)}
      closed == IF IsDead(o) THEN upvals \ dead ELSE {}
  IN /\ gcstate = "sweep" /\ o \in tosweep
     /\ Free(dead, closed)
     /\ stack' = [stack EXCEPT ![o] = IF o \in dead THEN [s \in Slot |-> None] ELSE @]
     /\ tosweep' = tosweep \ {o}
     /\ gcstate' = IF tosweep' = {} THEN "finalize" ELSE gcstate
     /\ UNCHANGED <<mode, hasgc, mark, L, udataVars, white, listVars, tmudata, full>>

\* sweeplist, with GCSWEEPMAX 1: a thread's open upvalues go with it
Sweep(o) ==
  LET upvals == IF kind[o] = "thread" THEN OpenFrom(o, 0) ELSE {}
      dead == {x \in {o} \cup upvals : IsDead(x)}
      closed == IF IsDead(o) THEN upvals \ dead ELSE {}
  IN /\ gcstate = "sweep" /\ o \in tosweep
     /\ Free(dead, closed)
     /\ mark' = [x \in Obj |-> IF x \in {o} \cup upvals THEN white ELSE mark[x]]
     /\ stack' = [stack EXCEPT ![o] = IF o \in dead THEN [s \in Slot |-> None] ELSE @]
     /\ tosweep' = tosweep \ {o}
     /\ gcstate' = IF tosweep' = {} THEN "finalize" ELSE gcstate
     /\ UNCHANGED <<mode, hasgc, L, udataVars, white, listVars, tmudata, full>>

\* GCTM: the finalizer runs in the thread that made the step, and may keep its
\* userdata
CallFinalizer(u) ==
  /\ gcstate = "finalize" /\ full # "sweep" /\ u \in tmudata
  /\ tmudata' = tmudata \ {u}
  /\ mark' = [mark EXCEPT ![u] = white]
  /\ IF hasgc[u]
     THEN /\ calls' = [calls EXCEPT ![u] = @ + 1]
          /\ \/ \E s \in SlotsOf(L) : stack[L][s] = None /\ stack' = [stack EXCEPT ![L][s] = u]
             \/ UNCHANGED stack
     ELSE UNCHANGED <<calls, stack>>
  /\ UNCHANGED <<heapVars, L, finalized, white, gcstate, listVars, tosweep, full>>

EndCycle ==
  /\ gcstate = "finalize" /\ full # "sweep" /\ tmudata = {}
  /\ gcstate' = "pause"
  /\ full' = "no"
  /\ UNCHANGED <<heapVars, threadVars, udataVars, mark, white, listVars, tmudata, tosweep>>

\* luaC_fullgc: marks made so far are swept away, then a whole cycle is run
FullGC ==
  /\ Running /\ "collect" \in program.ops
  /\ IF gcstate \in {"pause", "propagate"}
     THEN /\ tosweep' = {o \in Allocated \ tmudata : kind[o] = "upval" => ~IsOpen(o)}
          /\ gray' = {} /\ grayagain' = {} /\ weak' = {}
          /\ gcstate' = "sweepstring"
     ELSE UNCHANGED <<tosweep, listVars, gcstate>>
  /\ full' = "sweep"
  /\ UNCHANGED <<heapVars, threadVars, udataVars, mark, white, tmudata>>

Collector ==
  \/ MarkRoot
  \/ \E o \in Obj : Propagate(o) \/ Sweep(o) \/ CallFinalizer(o)
  \/ Atomic \/ SweepString \/ EndCycle

Init ==
  /\ program \in Programs
  /\ kind = [o \in Obj |-> IF o = Main THEN "thread" ELSE "free"]
  /\ mark = [o \in Obj |-> "white0"]
  /\ a = [o \in Obj |-> None] /\ b = [o \in Obj |-> None]
  /\ mode = [o \in Obj |-> "strong"]
  /\ open = [o \in Obj |-> None]
  /\ stack = [o \in Obj |-> [s \in Slot |-> None]]
  /\ L = Main
  /\ hasgc = [o \in Obj |-> FALSE] /\ finalized = [o \in Obj |-> FALSE]
  /\ calls = [o \in Obj |-> 0]
  /\ white = "white0" /\ gcstate = "pause"
  /\ gray = {} /\ grayagain = {} /\ weak = {}
  /\ tmudata = {} /\ tosweep = {}
  /\ full = "no"

Next == (Program \/ Collector \/ FullGC) /\ UNCHANGED program
Spec == Init /\ [][Next]_vars
FairSpec == Spec /\ WF_vars(Collector /\ UNCHANGED program)

---------------------------------------------------------------------------
(* Properties *)

TypeOK ==
  /\ program \in Programs
  /\ kind \in [Obj -> AllKinds \cup {"free"}] /\ kind[Main] = "thread"
  /\ mark \in [Obj -> Whites \cup {"gray", "black"}]
  /\ a \in [Obj -> Obj \cup {None}] /\ b \in [Obj -> Obj \cup {None}]
  /\ mode \in [Obj -> AllModes]
  /\ open \in [Obj -> (Obj \X Slot) \cup {None}]
  /\ stack \in [Obj -> [Slot -> Obj \cup {None}]]
  /\ L \in Obj /\ kind[L] = "thread"
  /\ hasgc \in [Obj -> BOOLEAN] /\ finalized \in [Obj -> BOOLEAN]
  /\ calls \in [Obj -> Nat]
  /\ white \in Whites
  /\ gcstate \in {"pause", "propagate", "sweepstring", "sweep", "finalize"}
  /\ gray \subseteq Obj /\ grayagain \subseteq Obj /\ weak \subseteq Obj
  /\ tmudata \subseteq Are("udata") /\ tosweep \subseteq Allocated
  /\ full \in {"no", "sweep", "cycle"}

\* What the program can get at: objects the threads in use lead to, and
\* userdata whose finalizer is still to run
Reachable ==
  {x \in Obj : \A C \in SUBSET Obj :
     ({Main, L} \cup tmudata \subseteq C /\ \A y \in C : Refs(y) \subseteq C) => x \in C}

\* No reference the program can follow, weak ones included, leads to memory
\* that was freed
NothingReachableFreed == Reachable \subseteq Allocated

\* While the collector marks, a black object leads to no white one: what is
\* traversed is not looked at again
BlackNeverToWhite ==
  gcstate = "propagate" =>
    \A o \in Allocated \ tmudata : mark[o] = "black" => \A x \in Strong(o) : ~IsWhite(x)

\* A gray object waits in exactly one of the three lists (they share one link
\* in the object), strings and open upvalues in none; nothing else is in them
GrayInOneList ==
  gcstate = "propagate" =>
    /\ gray \cap grayagain = {} /\ gray \cap weak = {} /\ grayagain \cap weak = {}
    /\ gray \cup grayagain \cup weak = {o \in Listed(Allocated) : mark[o] = "gray"}

\* While the collector sweeps, nothing the program can reach has the mark of
\* the dead
ReachableNotDead ==
  gcstate \in {"sweepstring", "sweep", "finalize", "pause"} =>
    \A o \in Reachable : ~IsDead(o)

\* Together: what the program can reach is alive
ReachableAlive == NothingReachableFreed /\ ReachableNotDead

\* A finalizer runs once at most, and has run when its userdata is freed
FinalizedFirst ==
  [][\A u \in Are("udata") :
       /\ calls'[u] <= 1
       /\ kind'[u] = "free" /\ hasgc[u] => calls[u] = 1]_vars

\* What nobody can reach is freed, unless a finalizer or a search for its
\* text makes it reachable again
GarbageFreed ==
  \A o \in Obj : (o \in Allocated \ Reachable) ~> (kind[o] = "free" \/ o \in Reachable)
===========================================================================
