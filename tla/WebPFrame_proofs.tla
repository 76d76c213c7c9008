-------------------------- MODULE WebPFrame_proofs --------------------------
(***************************************************************************)
(* The row pipeline keeps its promises for pictures of any height: the     *)
(* worker finds the rows it needs, and rows are put out in order, each     *)
(* once.  The decoder's invariant is relative to the worker's: a step of   *)
(* the decoder is a step of the worker or leaves it alone.                 *)
(***************************************************************************)
EXTENDS WebPFrame, TLAPS

---------------------------------------------------------------------------
(* The worker: its promises hold whatever program uses it *)

\* The mutex is with the thread that is between its lock and its unlock
MutexHeld ==
  /\ mutex = "main" <=> main \in {"create", "hold"}
  /\ mutex = "worker" <=> worker \in {"hold", "run", "unlock", "quit"}

\* Where the main thread is says which operation it is in, and that there is a
\* thread to talk to
MainPlace ==
  /\ main # "client" => impl
  /\ main = "create" => call = "Reset" /\ worker = "lock" /\ status = "NOT_OK"
  /\ main = "signal" => call \in {"Launch", "End"}
  /\ main = "signal" /\ call = "End" => status = "NOT_OK"
  /\ main = "join" => call = "End" /\ status = "NOT_OK"

\* What a status says of the thread and of the operation
StatusMeans ==
  /\ ~impl => status = "NOT_OK"
  /\ impl /\ status = "NOT_OK" =>
       main = "create" \/ (call = "End" /\ main \in {"signal", "join"})
  /\ status = "WORK" /\ main = "client" => call = "Launch"
  /\ worker = "run" => status = "WORK"
  /\ worker \in {"quit", "last signal", "exited"} => status = "NOT_OK"

WorkerInv ==
  /\ WorkerTypeOK /\ MutexHeld /\ MainPlace /\ StatusMeans /\ ThreadWhileImpl

LEMMA WorkerInvInit == WorkerInit => WorkerInv
BY DEF WorkerInit, WorkerInv, WorkerTypeOK, MutexHeld, MainPlace, StatusMeans,
       ThreadWhileImpl, Operation

\* A signal only takes threads away from those that wait
LEMMA SignalWakes == WorkerTypeOK /\ Signal => waiting' \subseteq {"main", "worker"}
BY DEF WorkerTypeOK, Signal

LEMMA WorkerInvThread ==
  ASSUME WorkerInv, ThreadStep \/ (\E ok \in BOOLEAN : WorkerDone(ok))
  PROVE  WorkerInv'
<1> USE DEF WorkerInv, WorkerTypeOK, MutexHeld, MainPlace, StatusMeans,
            ThreadWhileImpl, Operation
<1>1. CASE WorkerLock BY <1>1 DEF WorkerLock
<1>2. CASE WorkerWait BY <1>2 DEF WorkerWait
<1>3. CASE WorkerRun BY <1>3 DEF WorkerRun
<1>4. CASE WorkerQuit BY <1>4 DEF WorkerQuit
<1>5. CASE WorkerUnlock BY <1>5 DEF WorkerUnlock
<1>6. CASE WorkerSignal BY <1>6, SignalWakes DEF WorkerSignal
<1>7. ASSUME NEW ok \in BOOLEAN, WorkerDone(ok) PROVE WorkerInv'
  BY <1>7 DEF WorkerDone
<1>8. QED BY <1>1, <1>2, <1>3, <1>4, <1>5, <1>6, <1>7 DEF ThreadStep

LEMMA WorkerInvCall ==
  ASSUME WorkerInv, CallStep
  PROVE  WorkerInv'
<1> USE DEF WorkerInv, WorkerTypeOK, MutexHeld, MainPlace, StatusMeans,
            ThreadWhileImpl, Operation
<1>1. CASE ResetCreated BY <1>1 DEF ResetCreated
<1>2. CASE MainLock BY <1>2 DEF MainLock
<1>3. CASE MainWait BY <1>3 DEF MainWait
<1>4. CASE MainChange BY <1>4 DEF MainChange, Wanted
<1>5. CASE MainSignal BY <1>5, SignalWakes DEF MainSignal
<1>6. CASE MainJoin BY <1>6 DEF MainJoin
<1>7. QED BY <1>1, <1>2, <1>3, <1>4, <1>5, <1>6 DEF CallStep

LEMMA WorkerInvClient ==
  ASSUME WorkerInv, Reset \/ (\E op \in {"Sync", "Launch", "End"} : Call(op))
  PROVE  WorkerInv'
<1> USE DEF WorkerInv, WorkerTypeOK, MutexHeld, MainPlace, StatusMeans,
            ThreadWhileImpl, Operation
<1>1. CASE Reset BY <1>1 DEF Reset
<1>2. ASSUME NEW op \in {"Sync", "Launch", "End"}, Call(op) PROVE WorkerInv'
  BY <1>2 DEF Call
<1>3. QED BY <1>1, <1>2

LEMMA WorkerInvNext == WorkerInv /\ [WorkerNext]_workerVars => WorkerInv'
<1> SUFFICES ASSUME WorkerInv, [WorkerNext]_workerVars PROVE WorkerInv' OBVIOUS
<1>1. CASE WakeSpuriously
  BY <1>1 DEF WakeSpuriously, WorkerInv, WorkerTypeOK, MutexHeld, MainPlace,
              StatusMeans, ThreadWhileImpl
<1>2. CASE UNCHANGED workerVars
  BY <1>2 DEF workerVars, WorkerInv, WorkerTypeOK, MutexHeld, MainPlace,
              StatusMeans, ThreadWhileImpl
<1>3. QED
  BY <1>1, <1>2, WorkerInvThread, WorkerInvCall, WorkerInvClient DEF WorkerNext

\* The worker's state is always one its invariant describes
THEOREM WorkerInvariant == WorkerSpec => []WorkerInv
<1>1. QED BY WorkerInvInit, WorkerInvNext, PTL DEF WorkerSpec

\* Sync, Reset and End return only when the hook has, and does not run again
THEOREM WorkerJobOnlyWhileLaunched == WorkerSpec => []JobOnlyWhileLaunched
<1>1. WorkerInv => JobOnlyWhileLaunched
  BY DEF WorkerInv, StatusMeans, JobOnlyWhileLaunched
<1>2. QED BY <1>1, WorkerInvariant, PTL

\* The thread lives from Reset to the join in End
THEOREM WorkerThreadWhileImpl == WorkerSpec => []ThreadWhileImpl
<1>1. WorkerInv => ThreadWhileImpl BY DEF WorkerInv
<1>2. QED BY <1>1, WorkerInvariant, PTL

---------------------------------------------------------------------------
(* The decoder uses the worker as its specification allows *)

LEMMA NextUsesWorker == [Next]_vars => [WorkerNext]_workerVars
<1> SUFFICES ASSUME [Next]_vars PROVE [WorkerNext]_workerVars OBVIOUS
<1> USE DEF WorkerNext, workerVars
<1>1. CASE Hook
  <2>1. CASE HookStart BY <2>1 DEF HookStart, ThreadStep
  <2>2. CASE HookReconstruct BY <2>2 DEF HookReconstruct
  <2>3. CASE HookEmit
    <3>1. PICK outcome \in Outcome(ctx) : WorkerDone(outcome = "taken")
      BY <2>3 DEF HookEmit
    <3>2. (outcome = "taken") \in BOOLEAN OBVIOUS
    <3>3. \E ok \in BOOLEAN : WorkerDone(ok) BY <3>1, <3>2
    <3>4. QED BY <3>3
  <2>4. QED BY <1>1, <2>1, <2>2, <2>3 DEF Hook
<1>2. CASE Thread BY <1>2 DEF Thread, ThreadStep
<1>3. CASE InCall BY <1>3 DEF InCall
<1>4. CASE Spurious BY <1>4 DEF Spurious
<1>5. CASE Decode
  BY <1>5 DEF Decode, Start, Allocate, ParseBegin, ParseEnd, ParseFails, Suspend,
     Resume, Process, ProcessFails, ProcessAlone, EmitAlone, Parsed, Finish, Exit,
     Teardown, Clear, Cleared, Do, vars
<1>6. CASE UNCHANGED vars BY <1>6 DEF vars
<1>7. QED BY <1>1, <1>2, <1>3, <1>4, <1>5, <1>6 DEF Next

LEMMA SpecUsesWorker == Spec => WorkerSpec
<1>1. Init => WorkerInit BY DEF Init
<1>2. QED BY <1>1, NextUsesWorker, PTL DEF Spec, WorkerSpec

\* In the decoder, too, Sync returns only when the row before is finished
THEOREM FrameJobOnlyWhileLaunched == Spec => []JobOnlyWhileLaunched
BY SpecUsesWorker, WorkerJobOnlyWhileLaunched, PTL

\* The decoder's worker thread lives until VP8Clear
THEOREM FrameThreadWhileImpl == Spec => []ThreadWhileImpl
BY SpecUsesWorker, WorkerThreadWhileImpl, PTL

---------------------------------------------------------------------------
(* The invariant *)

Least(a, b) == IF a <= b THEN a ELSE b

FrameTyped ==
  /\ mt \in BOOLEAN /\ incremental \in BOOLEAN
  /\ filtered \in {-1, 0, 1} /\ br \in Shown
  /\ mb_y \in Nat /\ mb_y <= LastRow
  /\ cache_id \in 0..(NumCaches - 1)
  /\ mb_data \in {0, 1} /\ f_info \in {0, 1}
  /\ data \in [{0, 1} -> Int] /\ info \in [{0, 1} -> Int]
  /\ ctx \in [id : 0..2, mb_y : Int, filter_row : BOOLEAN,
              mb_data : {0, 1}, f_info : {0, 1}]
  /\ ctx.id < NumCaches
  /\ line \in [0..2 -> Int] /\ above \in Int
  /\ hook \in {"none", "reconstruct", "emit"}
  /\ put \in Nat /\ aborted \in BOOLEAN
  /\ step \in {"start", "reset", "parse", "decode", "process", "suspend", "suspended",
               "parsed", "finish", "exit", "teardown", "clear", "cleared"}
  /\ result \in {"running", "failing", "ok", "failed"}

\* A row has been launched and the hook has not returned
Pending == mt /\ (status = "WORK" \/ (call = "Launch" /\ main # "client" /\ main # "signal"))
Busy == IF mt THEN Pending ELSE hook = "emit"

\* The operation a place in the decoder comes after
Calls ==
  /\ mt /\ step \in {"process", "suspend", "suspended", "finish", "teardown", "clear"} =>
       call = "Sync"
  /\ mt /\ step = "cleared" => call = "End"
  /\ call = "Launch" => step \in {"parse", "decode", "parsed", "exit"}
  /\ call = "Launch" /\ main # "client" /\ main # "signal" => status = "OK" 
  /\ step \in {"start", "reset", "clear", "cleared"} => status # "WORK"
  /\ step = "start" => call = "Init"
  /\ mt /\ step = "reset" => call = "Reset"
  /\ mt /\ step \in {"parse", "decode", "process", "suspend", "suspended", "parsed",
                     "finish"} => impl /\ main # "create" /\ status # "NOT_OK" /\ call # "End"
  /\ ~mt => status = "NOT_OK" /\ worker = "none" /\ main = "client" /\ ~had_error
            /\ call = "Init"
  /\ mt => (hook # "none" <=> worker = "run")
  /\ ~mt => hook # "reconstruct" /\ (hook # "none" => step = "process")

\* Each of the two threads has its own buffers, and the row just parsed is in
\* the main thread's
Buffers ==
  /\ mt => mb_data # ctx.mb_data /\ f_info # ctx.f_info
  /\ ~mt => mb_data = 0 /\ f_info = 0 /\ ctx.mb_data = 0 /\ ctx.f_info = 0
  /\ step = "process" => data[mb_data] = mb_y /\ info[f_info] = mb_y

\* The rows and the lines of the cache come in turn
InTurn ==
  /\ ctx.mb_y >= -1
  /\ step \in {"decode", "process", "suspend", "suspended"} => mb_y < LastRow
  /\ mt => mb_y = ctx.mb_y + 1
  /\ ~mt /\ ~aborted => mb_y = IF hook = "none" THEN ctx.mb_y + 1 ELSE ctx.mb_y
  /\ ctx.mb_y = -1 => cache_id = 0 /\ ~Busy
  /\ ctx.mb_y >= 0 => cache_id = IF ctx.id + 1 = NumCaches THEN 0 ELSE ctx.id + 1

\* What the hook is about to use, and what it left when it was done
Filled ==
  /\ Busy =>
       /\ hook = "emit" => line[ctx.id] = ctx.mb_y
       /\ hook # "emit" => data[ctx.mb_data] = ctx.mb_y
       /\ ctx.filter_row => info[ctx.f_info] = ctx.mb_y
       /\ filtered >= 0 /\ ctx.mb_y \in 1..(br - 1) => Over(ctx) = ctx.mb_y - 1
  /\ ~Busy /\ ~aborted /\ ctx.mb_y >= 0 =>
       /\ line[ctx.id] = ctx.mb_y
       /\ ctx.id + 1 = NumCaches /\ ctx.mb_y < br - 1 => above = ctx.mb_y

\* The rows put out, and when a failure is known
Counted ==
  /\ ~aborted => put = Least(br, IF Busy THEN ctx.mb_y ELSE ctx.mb_y + 1)
  /\ put <= br
  /\ Busy => ~aborted
  /\ mt /\ step # "start" => aborted = had_error
  /\ step \in {"start", "reset"} => ~aborted
  /\ ~mt /\ aborted => result \in {"failing", "failed"}
  /\ result \in {"ok", "failed"} <=> step \in {"clear", "cleared"}
  /\ result = "failing" => step \in {"exit", "teardown"}
  /\ result = "running" /\ step \in {"parsed", "finish", "exit", "teardown"} => mb_y = LastRow
  /\ result = "ok" => put = br /\ ~aborted

FrameInv == FrameTyped /\ Calls /\ Buffers /\ InTurn /\ Filled /\ Counted

\* The rows wanted are rows of the picture
LEMMA HeightOf == FrameInv => br \in Nat \ {0} /\ br <= Rows /\ Rows \in Nat \ {0}
BY FrameParams DEF FrameInv, FrameTyped

---------------------------------------------------------------------------
(* The worker's own steps *)

\* A step that leaves the decoder alone, and whether a row is pending
LEMMA WorkerAlone ==
  ASSUME FrameInv, UNCHANGED decoderVars, UNCHANGED had_error, Calls', Busy' = Busy
  PROVE  FrameInv'
BY DEF FrameInv, FrameTyped, Buffers, InTurn, Filled, Counted, decoderVars, configVars,
       parseVars, outVars, NumCaches, LastRow, Over, Busy

LEMMA ThreadKeeps ==
  ASSUME WorkerInv, FrameInv, Thread
  PROVE  FrameInv'
<1> USE DEF decoderVars, configVars, parseVars, outVars, FrameInv, Calls, Busy, Pending,
            WorkerInv, WorkerTypeOK, StatusMeans, MutexHeld, MainPlace, ThreadWhileImpl
<1>1. UNCHANGED had_error /\ Calls' /\ Busy' = Busy
  <2>1. CASE WorkerLock BY <2>1 DEF WorkerLock, Thread
  <2>2. CASE WorkerWait BY <2>2 DEF WorkerWait, Thread
  <2>3. CASE WorkerQuit BY <2>3 DEF WorkerQuit, Thread
  <2>4. CASE WorkerUnlock BY <2>4 DEF WorkerUnlock, Thread
  <2>5. CASE WorkerSignal BY <2>5 DEF WorkerSignal, Thread
  <2>6. QED BY <2>1, <2>2, <2>3, <2>4, <2>5 DEF Thread
<1>2. QED BY <1>1, WorkerAlone DEF Thread

LEMMA SpuriousKeeps ==
  ASSUME WorkerInv, FrameInv, Spurious
  PROVE  FrameInv'
<1>1. UNCHANGED had_error /\ Calls' /\ Busy' = Busy
  BY DEF Spurious, WakeSpuriously, decoderVars, configVars, parseVars, outVars, FrameInv,
         Calls, Busy, Pending
<1>2. QED BY <1>1, WorkerAlone DEF Spurious

LEMMA InCallKeeps ==
  ASSUME WorkerInv, FrameInv, InCall
  PROVE  FrameInv'
<1> USE DEF decoderVars, configVars, parseVars, outVars, FrameInv, Calls, Busy, Pending,
            WorkerInv, WorkerTypeOK, StatusMeans, MutexHeld, MainPlace, ThreadWhileImpl,
            FrameTyped
<1>1. UNCHANGED had_error /\ Calls' /\ Busy' = Busy
  <2>1. CASE ResetCreated BY <2>1 DEF ResetCreated, InCall
  <2>2. CASE MainLock BY <2>2 DEF MainLock, InCall
  <2>3. CASE MainWait BY <2>3 DEF MainWait, InCall
  <2>4. CASE MainChange BY <2>4 DEF MainChange, Wanted, InCall
  <2>5. CASE MainSignal BY <2>5 DEF MainSignal, InCall
  <2>6. CASE MainJoin BY <2>6 DEF MainJoin, InCall
  <2>7. QED BY <2>1, <2>2, <2>3, <2>4, <2>5, <2>6 DEF CallStep, InCall
<1>2. QED BY <1>1, WorkerAlone DEF InCall

---------------------------------------------------------------------------
(* The hook *)

\* What putting a row out changes, by what came of it
Emitted(outcome) ==
  /\ aborted' \in BOOLEAN /\ above' \in Int /\ put' \in Nat
  /\ outcome = "taken" => aborted' = aborted /\ above' = Rotated(ctx)
  /\ outcome # "taken" => aborted' = TRUE /\ ctx.mb_y < br
  /\ ctx.mb_y < br => put' = put + 1 \/ (put' = put /\ outcome # "taken")
  /\ ctx.mb_y >= br => put' = put

LEMMA Emits ==
  ASSUME FrameInv, NEW outcome \in Outcome(ctx), Emit(ctx, outcome)
  PROVE  Emitted(outcome)
<1>1. aborted' \in BOOLEAN BY DEF Emit
<1>2. above' \in Int BY HeightOf DEF Emit, Rotated, FrameInv, FrameTyped
<1>3. outcome = "taken" => aborted' = aborted /\ above' = Rotated(ctx)
  BY Zenon DEF Emit, FrameInv, FrameTyped
<1>4. outcome # "taken" => aborted' = TRUE BY Zenon DEF Emit
<1>5. outcome # "taken" => ctx.mb_y < br BY Zenon DEF Outcome
<1> DEFINE decoded == outcome # "no alpha"
           y == ctx.mb_y
<1>6. /\ put' \in Nat
      /\ y < br => put' = put + 1 \/ (put' = put /\ ~decoded)
      /\ y >= br => put' = put
  <2>1. put \in Nat /\ y \in Int /\ br \in Nat BY HeightOf DEF FrameInv, FrameTyped
  <2>2. put' = IF y < br /\ decoded THEN put + 1 ELSE put BY DEF Emit
  <2>3. decoded \in BOOLEAN OBVIOUS
  <2> HIDE DEF decoded, y
  <2>4. QED BY <2>1, <2>2, <2>3
<1>7. ~decoded => outcome # "taken" OBVIOUS
<1>8. QED BY <1>1, <1>2, <1>3, <1>4, <1>5, <1>6, <1>7, Zenon DEF Emitted

LEMMA HookKeeps ==
  ASSUME WorkerInv, FrameInv, Hook
  PROVE  FrameInv'
<1> USE DEF configVars, parseVars, FrameInv, FrameTyped, Calls, Buffers, InTurn, Filled,
            Counted, Busy, Pending, NumCaches, LastRow, Over, WorkerInv, StatusMeans,
            MainPlace, WorkerTypeOK
<1>1. CASE HookStart BY <1>1 DEF HookStart, WorkerRun
<1>2. CASE HookReconstruct BY <1>2 DEF HookReconstruct, workerVars, Reconstructed
<1>3. CASE HookEmit
  <2>1. PICK outcome \in Outcome(ctx) : Emit(ctx, outcome) /\ WorkerDone(outcome = "taken")
    BY <1>3 DEF HookEmit
  <2>2. Emitted(outcome) BY <2>1, Emits
  <2>3. (outcome = "taken" => had_error' = had_error) /\ (outcome # "taken" => had_error' = TRUE)
    BY <2>1, Zenon DEF WorkerDone
  <2>4. br \in Nat BY HeightOf
  <2> USE <1>3, <2>1, <2>2, <2>3, <2>4 DEF HookEmit, WorkerDone, Emitted
  <2>5. FrameTyped' OBVIOUS
  <2>6. Calls' /\ Buffers' OBVIOUS
  <2>7. InTurn' OBVIOUS
  <2>8. Filled' BY DEF Rotated
  <2>9. Counted'
    <3>1. Pending /\ ~Pending' OBVIOUS
    <3>2. ~aborted /\ put = Least(br, ctx.mb_y) BY <3>1
    <3>3. ctx.mb_y \in Nat BY <3>1
    <3>4. put' <= br BY <3>2, <3>3 DEF Least
    <3>5. ~aborted' => put' = Least(br, ctx.mb_y + 1) BY <3>2, <3>3 DEF Least
    <3>6. step \notin {"start", "reset", "clear", "cleared"} BY <3>1
    <3>7. aborted' = had_error' BY <3>1, <3>6
    <3>8. result' = result /\ result \in {"running", "failing"} BY <3>1, <3>6
    <3>9. QED BY <3>1, <3>2, <3>4, <3>5, <3>6, <3>7, <3>8
  <2>10. QED BY <2>5, <2>6, <2>7, <2>8, <2>9
<1>4. QED BY <1>1, <1>2, <1>3 DEF Hook
---------------------------------------------------------------------------
(* The main thread *)

\* The context of a row without threads
LEMMA ContextAlone ==
  ASSUME FrameInv, ProcessAlone
  PROVE  /\ ctx'.id = ctx.id /\ ctx'.mb_y = mb_y /\ ctx'.filter_row = FilterRow
         /\ ctx'.mb_data = ctx.mb_data /\ ctx'.f_info = ctx.f_info
         /\ ctx' \in [id : 0..2, mb_y : Int, filter_row : BOOLEAN,
                       mb_data : {0, 1}, f_info : {0, 1}]
<1> DEFINE filter == FilterRow
           Ctx == [id : 0..2, mb_y : Int, filter_row : BOOLEAN,
                   mb_data : {0, 1}, f_info : {0, 1}]
<1>1. filter \in BOOLEAN BY DEF FilterRow
<1>2. ctx \in Ctx /\ mb_y \in Int BY DEF FrameInv, FrameTyped
<1>3. ctx' = [ctx EXCEPT !.mb_y = mb_y, !.filter_row = filter] BY DEF ProcessAlone
<1> HIDE DEF filter
<1>4. ctx' = [id |-> ctx.id, mb_y |-> mb_y, filter_row |-> filter,
              mb_data |-> ctx.mb_data, f_info |-> ctx.f_info]
  BY <1>1, <1>2, <1>3
<1>5. QED BY <1>1, <1>2, <1>4 DEF filter

LEMMA DecodeKeeps ==
  ASSUME WorkerInv, FrameInv, Decode
  PROVE  FrameInv'
<1> USE DEF configVars, parseVars, outVars, workerVars, FrameInv, At, Do, Call
<1>1. CASE Start
  <2> USE <1>1 DEF Start, Reset
  <2>1. FrameTyped' BY HeightOf DEF FrameTyped, InTurn, NumCaches, LastRow, Counted, Least
  <2>2. Calls'
    BY DEF Calls, FrameTyped, WorkerInv, WorkerTypeOK, StatusMeans, MainPlace, Counted
  <2>3. Buffers' BY DEF Buffers, FrameTyped, Calls
  <2>4. InTurn'
    BY DEF InTurn, FrameTyped, NumCaches, LastRow, Busy, Pending, Calls, Counted
  <2>5. Filled'
    BY DEF Filled, FrameTyped, NumCaches, Over, Busy, Pending, Calls, InTurn, Counted,
           Buffers, LastRow
  <2>6. Counted'
    BY HeightOf
    DEF Counted, FrameTyped, LastRow, Busy, Pending, Calls, InTurn, Least, StatusMeans, WorkerInv
  <2>7. QED BY <2>1, <2>2, <2>3, <2>4, <2>5, <2>6
<1>2. CASE Allocate
  <2> USE <1>2 DEF Allocate
  <2>1. FrameTyped' BY HeightOf DEF FrameTyped, InTurn, NumCaches, LastRow, Counted, Least
  <2>2. Calls'
    BY DEF Calls, FrameTyped, WorkerInv, WorkerTypeOK, StatusMeans, MainPlace, Counted
  <2>3. Buffers' BY DEF Buffers, FrameTyped, Calls
  <2>4. InTurn'
    BY DEF InTurn, FrameTyped, NumCaches, LastRow, Busy, Pending, Calls, Counted
  <2>5. Filled'
    BY DEF Filled, FrameTyped, NumCaches, Over, Busy, Pending, Calls, InTurn, Counted,
           Buffers, LastRow
  <2>6. Counted'
    BY HeightOf
    DEF Counted, FrameTyped, LastRow, Busy, Pending, Calls, InTurn, Least, StatusMeans, WorkerInv
  <2>7. QED BY <2>1, <2>2, <2>3, <2>4, <2>5, <2>6
<1>3. CASE ParseBegin
  <2> USE <1>3 DEF ParseBegin
  <2>1. FrameTyped' BY HeightOf DEF FrameTyped, InTurn, NumCaches, LastRow, Counted, Least
  <2>2. Calls'
    BY DEF Calls, FrameTyped, WorkerInv, WorkerTypeOK, StatusMeans, MainPlace, Counted
  <2>3. Buffers' BY DEF Buffers, FrameTyped, Calls
  <2>4. InTurn'
    BY HeightOf
    DEF InTurn, FrameTyped, NumCaches, LastRow, Busy, Pending, Calls, Counted
  <2>5. Filled'
    BY DEF Filled, FrameTyped, NumCaches, Over, Busy, Pending, Calls, InTurn, Counted,
           Buffers, LastRow
  <2>6. Counted'
    BY HeightOf
    DEF Counted, FrameTyped, LastRow, Busy, Pending, Calls, InTurn, Least, StatusMeans, WorkerInv
  <2>7. QED BY <2>1, <2>2, <2>3, <2>4, <2>5, <2>6
<1>4. CASE ParseEnd
  <2> USE <1>4 DEF ParseEnd
  <2>1. FrameTyped' BY HeightOf DEF FrameTyped, InTurn, NumCaches, LastRow, Counted, Least
  <2>2. Calls'
    BY DEF Calls, FrameTyped, WorkerInv, WorkerTypeOK, StatusMeans, MainPlace, Counted
  <2>3. Buffers' BY DEF Buffers, FrameTyped, Calls
  <2>4. InTurn'
    BY DEF InTurn, FrameTyped, NumCaches, LastRow, Busy, Pending, Calls, Counted
  <2>5. Filled'
    BY DEF Filled, FrameTyped, NumCaches, Over, Busy, Pending, Calls, InTurn, Counted,
           Buffers, LastRow
  <2>6. Counted'
    BY HeightOf
    DEF Counted, FrameTyped, LastRow, Busy, Pending, Calls, InTurn, Least, StatusMeans, WorkerInv
  <2>7. QED BY <2>1, <2>2, <2>3, <2>4, <2>5, <2>6
<1>5. CASE ParseFails
  <2> USE <1>5 DEF ParseFails
  <2>1. FrameTyped' BY HeightOf DEF FrameTyped, InTurn, NumCaches, LastRow, Counted, Least
  <2>2. Calls'
    <3>1. CASE step' = "exit" /\ UNCHANGED workerVars BY <3>1 DEF Calls
    <3>2. CASE step' = "suspend" /\ mt /\ Call("Sync")
      BY <3>2 DEF Calls, FrameTyped
    <3>3. CASE step' = "suspend" /\ ~mt /\ UNCHANGED workerVars
      BY <3>3 DEF Calls
    <3>4. QED BY <3>1, <3>2, <3>3 DEF FrameTyped
  <2>3. Buffers' BY DEF Buffers, FrameTyped, Calls
  <2>4. InTurn'
    BY DEF InTurn, FrameTyped, NumCaches, LastRow, Busy, Pending, Calls, Counted
  <2>5. Filled'
    BY DEF Filled, FrameTyped, NumCaches, Over, Busy, Pending, Calls, InTurn, Counted,
           Buffers, LastRow
  <2>6. Counted'
    BY HeightOf
    DEF Counted, FrameTyped, LastRow, Busy, Pending, Calls, InTurn, Least, StatusMeans, WorkerInv
  <2>7. QED BY <2>1, <2>2, <2>3, <2>4, <2>5, <2>6
<1>6. CASE Suspend
  <2> USE <1>6 DEF Suspend
  <2>1. FrameTyped' BY HeightOf DEF FrameTyped, InTurn, NumCaches, LastRow, Counted, Least
  <2>2. Calls'
    BY DEF Calls, FrameTyped, WorkerInv, WorkerTypeOK, StatusMeans, MainPlace, Counted
  <2>3. Buffers' BY DEF Buffers, FrameTyped, Calls
  <2>4. InTurn'
    BY DEF InTurn, FrameTyped, NumCaches, LastRow, Busy, Pending, Calls, Counted
  <2>5. Filled'
    BY DEF Filled, FrameTyped, NumCaches, Over, Busy, Pending, Calls, InTurn, Counted,
           Buffers, LastRow
  <2>6. Counted'
    BY HeightOf
    DEF Counted, FrameTyped, LastRow, Busy, Pending, Calls, InTurn, Least, StatusMeans, WorkerInv
  <2>7. QED BY <2>1, <2>2, <2>3, <2>4, <2>5, <2>6
<1>7. CASE Resume
  <2> USE <1>7 DEF Resume
  <2>1. FrameTyped' BY HeightOf DEF FrameTyped, InTurn, NumCaches, LastRow, Counted, Least
  <2>2. Calls'
    BY DEF Calls, FrameTyped, WorkerInv, WorkerTypeOK, StatusMeans, MainPlace, Counted
  <2>3. Buffers' BY DEF Buffers, FrameTyped, Calls
  <2>4. InTurn'
    BY DEF InTurn, FrameTyped, NumCaches, LastRow, Busy, Pending, Calls, Counted
  <2>5. Filled'
    BY DEF Filled, FrameTyped, NumCaches, Over, Busy, Pending, Calls, InTurn, Counted,
           Buffers, LastRow
  <2>6. Counted'
    BY HeightOf
    DEF Counted, FrameTyped, LastRow, Busy, Pending, Calls, InTurn, Least, StatusMeans, WorkerInv
  <2>7. QED BY <2>1, <2>2, <2>3, <2>4, <2>5, <2>6
<1>8. CASE Process
  <2> USE <1>8 DEF Process, Context, FilterRow, NextCache
  <2>1. FrameTyped' BY HeightOf DEF FrameTyped, InTurn, NumCaches, LastRow, Counted, Least
  <2>2. Calls'
    BY DEF Calls, FrameTyped, WorkerInv, WorkerTypeOK, StatusMeans, MainPlace, Counted
  <2>3. Buffers' BY DEF Buffers, FrameTyped, Calls
  <2>4. InTurn'
    BY DEF InTurn, FrameTyped, NumCaches, LastRow, Busy, Pending, Calls, Counted
  <2>5. Filled'
    <3>1. ~Busy /\ ~aborted /\ mb_y = ctx.mb_y + 1 /\ ctx.mb_y \in Int /\ ctx.id \in 0..2
      BY DEF Busy, Pending, Calls, Counted, InTurn, FrameTyped, StatusMeans, WorkerInv
    <3>2. data[mb_data] = mb_y /\ (FilterRow => info[f_info] = mb_y)
      BY DEF Buffers
    <3>3. hook = "none" /\ hook' = "none" /\ line' = line /\ above' = above
      BY <3>1 DEF Calls, Busy, Pending, StatusMeans, WorkerInv
    <3>4. ctx'.mb_y = mb_y /\ ctx'.id = cache_id /\ ctx'.mb_data = mb_data
          /\ (ctx'.filter_row => FilterRow /\ ctx'.f_info = f_info)
      OBVIOUS
    <3>5. filtered >= 0 /\ mb_y \in 1..(br - 1) => Over(ctx') = mb_y - 1
      <4> SUFFICES ASSUME filtered >= 0, mb_y \in 1..(br - 1)
                   PROVE  Over(ctx') = mb_y - 1
        OBVIOUS
      <4>1. ctx.mb_y >= 0 /\ ctx.mb_y = mb_y - 1 /\ ctx.mb_y < br - 1
        BY <3>1, HeightOf DEF InTurn
      <4>2. CASE ctx.id + 1 = NumCaches
        BY <3>1, <3>4, <4>1, <4>2 DEF Over, InTurn, Filled
      <4>3. CASE ctx.id + 1 # NumCaches
        BY <3>1, <3>4, <4>1, <4>3 DEF Over, InTurn, Filled
      <4>4. QED BY <4>2, <4>3
    <3>6. Busy'
      BY DEF Busy, Pending, Calls, StatusMeans, MainPlace, WorkerInv
    <3>7. filtered' = filtered /\ br' = br /\ data' = data /\ info' = info OBVIOUS
    <3>8. Over(ctx)' = Over(ctx') BY <3>3 DEF Over
    <3>9. QED BY <3>2, <3>3, <3>4, <3>5, <3>6, <3>7, <3>8 DEF Filled
  <2>6. Counted'
    BY HeightOf
    DEF Counted, FrameTyped, LastRow, Busy, Pending, Calls, InTurn, Least, StatusMeans, WorkerInv
  <2>7. QED BY <2>1, <2>2, <2>3, <2>4, <2>5, <2>6
<1>9. CASE ProcessFails
  <2> USE <1>9 DEF ProcessFails
  <2>1. FrameTyped' BY HeightOf DEF FrameTyped, InTurn, NumCaches, LastRow, Counted, Least
  <2>2. Calls'
    BY DEF Calls, FrameTyped, WorkerInv, WorkerTypeOK, StatusMeans, MainPlace, Counted
  <2>3. Buffers' BY DEF Buffers, FrameTyped, Calls
  <2>4. InTurn'
    BY DEF InTurn, FrameTyped, NumCaches, LastRow, Busy, Pending, Calls, Counted
  <2>5. Filled'
    BY DEF Filled, FrameTyped, NumCaches, Over, Busy, Pending, Calls, InTurn, Counted,
           Buffers, LastRow
  <2>6. Counted'
    BY HeightOf
    DEF Counted, FrameTyped, LastRow, Busy, Pending, Calls, InTurn, Least, StatusMeans, WorkerInv
  <2>7. QED BY <2>1, <2>2, <2>3, <2>4, <2>5, <2>6
<1>10. CASE ProcessAlone
  <2> USE <1>10, ContextAlone DEF ProcessAlone, Reconstructed
  <2>1. FrameTyped' BY ContextAlone, HeightOf DEF FrameTyped, InTurn, NumCaches, LastRow, Counted, Least
  <2>2. Calls'
    BY DEF Calls, FrameTyped, WorkerInv, WorkerTypeOK, StatusMeans, MainPlace, Counted
  <2>3. Buffers' BY DEF Buffers, FrameTyped, Calls
  <2>4. InTurn'
    BY DEF InTurn, FrameTyped, NumCaches, LastRow, Busy, Pending, Calls, Counted
  <2>5. Filled'
    <3>1. ~Busy /\ ~aborted /\ mb_y = ctx.mb_y + 1 /\ ctx.mb_y \in Int /\ NumCaches = 1
      BY DEF Busy, Counted, InTurn, FrameTyped, NumCaches
    <3>2. ctx.id = 0 /\ mb_data = ctx.mb_data /\ f_info = ctx.f_info
      BY <3>1 DEF FrameTyped, Buffers
    <3>3. data[ctx.mb_data] = mb_y /\ info[ctx.f_info] = mb_y
      BY <3>2 DEF Buffers
    <3>4. line'[0] = mb_y BY <3>2, <3>3 DEF FrameTyped
    <3>5. mb_y \in 1..(br - 1) => above = mb_y - 1
      BY <3>1, <3>2, HeightOf DEF Filled
    <3>6. Over(ctx)' = above BY <3>2 DEF Over
    <3>7. QED BY <3>2, <3>3, <3>4, <3>5, <3>6 DEF Filled, Busy
  <2>6. Counted'
    BY HeightOf
    DEF Counted, FrameTyped, LastRow, Busy, Pending, Calls, InTurn, Least, StatusMeans, WorkerInv
  <2>7. QED BY <2>1, <2>2, <2>3, <2>4, <2>5, <2>6
<1>11. CASE EmitAlone
  <2> PICK outcome \in Outcome(ctx) :
        /\ Emit(ctx, outcome)
        /\ IF outcome = "taken"
           THEN step' = "parse" /\ mb_y' = mb_y + 1 /\ UNCHANGED result
           ELSE step' = "exit" /\ result' = "failing" /\ UNCHANGED mb_y
    BY <1>11 DEF EmitAlone
  <2>0. Emitted(outcome) BY Emits
  <2> USE <1>11, <2>0 DEF EmitAlone, Emitted
  <2>1. FrameTyped' BY HeightOf DEF FrameTyped, InTurn, NumCaches, LastRow, Counted, Least
  <2>2. Calls'
    BY DEF Calls, FrameTyped, WorkerInv, WorkerTypeOK, StatusMeans, MainPlace, Counted
  <2>3. Buffers' BY DEF Buffers, FrameTyped, Calls
  <2>4. InTurn'
    BY DEF InTurn, FrameTyped, NumCaches, LastRow, Busy, Pending, Calls, Counted
  <2>5. Filled'
    BY DEF Filled, FrameTyped, NumCaches, Over, Rotated, Busy, Pending, Calls, InTurn, Counted,
           Buffers, LastRow
  <2>6. Counted'
    BY HeightOf
    DEF Counted, FrameTyped, LastRow, Busy, Pending, Calls, InTurn, Least, StatusMeans, WorkerInv
  <2>7. QED BY <2>1, <2>2, <2>3, <2>4, <2>5, <2>6
<1>12. CASE Parsed
  <2> USE <1>12 DEF Parsed
  <2>1. FrameTyped' BY HeightOf DEF FrameTyped, InTurn, NumCaches, LastRow, Counted, Least
  <2>2. Calls'
    BY DEF Calls, FrameTyped, WorkerInv, WorkerTypeOK, StatusMeans, MainPlace, Counted
  <2>3. Buffers' BY DEF Buffers, FrameTyped, Calls
  <2>4. InTurn'
    BY DEF InTurn, FrameTyped, NumCaches, LastRow, Busy, Pending, Calls, Counted
  <2>5. Filled'
    BY DEF Filled, FrameTyped, NumCaches, Over, Busy, Pending, Calls, InTurn, Counted,
           Buffers, LastRow
  <2>6. Counted'
    BY HeightOf
    DEF Counted, FrameTyped, LastRow, Busy, Pending, Calls, InTurn, Least, StatusMeans, WorkerInv
  <2>7. QED BY <2>1, <2>2, <2>3, <2>4, <2>5, <2>6
<1>13. CASE Finish
  <2> USE <1>13 DEF Finish
  <2>1. FrameTyped' BY HeightOf DEF FrameTyped, InTurn, NumCaches, LastRow, Counted, Least
  <2>2. Calls'
    BY DEF Calls, FrameTyped, WorkerInv, WorkerTypeOK, StatusMeans, MainPlace, Counted
  <2>3. Buffers' BY DEF Buffers, FrameTyped, Calls
  <2>4. InTurn'
    BY DEF InTurn, FrameTyped, NumCaches, LastRow, Busy, Pending, Calls, Counted
  <2>5. Filled'
    BY DEF Filled, FrameTyped, NumCaches, Over, Busy, Pending, Calls, InTurn, Counted,
           Buffers, LastRow
  <2>6. Counted'
    BY HeightOf
    DEF Counted, FrameTyped, LastRow, Busy, Pending, Calls, InTurn, Least, StatusMeans, WorkerInv
  <2>7. QED BY <2>1, <2>2, <2>3, <2>4, <2>5, <2>6
<1>14. CASE Exit
  <2> USE <1>14 DEF Exit
  <2>1. FrameTyped' BY HeightOf DEF FrameTyped, InTurn, NumCaches, LastRow, Counted, Least
  <2>2. Calls'
    BY DEF Calls, FrameTyped, WorkerInv, WorkerTypeOK, StatusMeans, MainPlace, Counted
  <2>3. Buffers' BY DEF Buffers, FrameTyped, Calls
  <2>4. InTurn'
    BY DEF InTurn, FrameTyped, NumCaches, LastRow, Busy, Pending, Calls, Counted
  <2>5. Filled'
    BY DEF Filled, FrameTyped, NumCaches, Over, Busy, Pending, Calls, InTurn, Counted,
           Buffers, LastRow
  <2>6. Counted'
    BY HeightOf
    DEF Counted, FrameTyped, LastRow, Busy, Pending, Calls, InTurn, Least, StatusMeans, WorkerInv
  <2>7. QED BY <2>1, <2>2, <2>3, <2>4, <2>5, <2>6
<1>15. CASE Teardown
  <2> USE <1>15 DEF Teardown
  <2>1. FrameTyped' BY HeightOf DEF FrameTyped, InTurn, NumCaches, LastRow, Counted, Least
  <2>2. Calls'
    BY DEF Calls, FrameTyped, WorkerInv, WorkerTypeOK, StatusMeans, MainPlace, Counted
  <2>3. Buffers' BY DEF Buffers, FrameTyped, Calls
  <2>4. InTurn'
    BY DEF InTurn, FrameTyped, NumCaches, LastRow, Busy, Pending, Calls, Counted
  <2>5. Filled'
    BY DEF Filled, FrameTyped, NumCaches, Over, Busy, Pending, Calls, InTurn, Counted,
           Buffers, LastRow
  <2>6. Counted'
    BY HeightOf
    DEF Counted, FrameTyped, LastRow, Busy, Pending, Calls, InTurn, Least, StatusMeans, WorkerInv
  <2>7. QED BY <2>1, <2>2, <2>3, <2>4, <2>5, <2>6
<1>16. CASE Clear
  <2> USE <1>16 DEF Clear
  <2>1. FrameTyped' BY HeightOf DEF FrameTyped, InTurn, NumCaches, LastRow, Counted, Least
  <2>2. Calls'
    BY DEF Calls, FrameTyped, WorkerInv, WorkerTypeOK, StatusMeans, MainPlace, Counted
  <2>3. Buffers' BY DEF Buffers, FrameTyped, Calls
  <2>4. InTurn'
    BY DEF InTurn, FrameTyped, NumCaches, LastRow, Busy, Pending, Calls, Counted
  <2>5. Filled'
    BY DEF Filled, FrameTyped, NumCaches, Over, Busy, Pending, Calls, InTurn, Counted,
           Buffers, LastRow
  <2>6. Counted'
    BY HeightOf
    DEF Counted, FrameTyped, LastRow, Busy, Pending, Calls, InTurn, Least, StatusMeans, WorkerInv
  <2>7. QED BY <2>1, <2>2, <2>3, <2>4, <2>5, <2>6
<1>17. CASE Cleared
  <2> USE <1>17 DEF Cleared, vars
  <2>1. FrameTyped' BY HeightOf DEF FrameTyped, InTurn, NumCaches, LastRow, Counted, Least
  <2>2. Calls'
    BY DEF Calls, FrameTyped, WorkerInv, WorkerTypeOK, StatusMeans, MainPlace, Counted
  <2>3. Buffers' BY DEF Buffers, FrameTyped, Calls
  <2>4. InTurn'
    BY DEF InTurn, FrameTyped, NumCaches, LastRow, Busy, Pending, Calls, Counted
  <2>5. Filled'
    BY DEF Filled, FrameTyped, NumCaches, Over, Busy, Pending, Calls, InTurn, Counted,
           Buffers, LastRow
  <2>6. Counted'
    BY HeightOf
    DEF Counted, FrameTyped, LastRow, Busy, Pending, Calls, InTurn, Least, StatusMeans, WorkerInv
  <2>7. QED BY <2>1, <2>2, <2>3, <2>4, <2>5, <2>6
<1>18. QED
  BY <1>1, <1>2, <1>3, <1>4, <1>5, <1>6, <1>7, <1>8, <1>9, <1>10, <1>11, <1>12, <1>13, <1>14, <1>15, <1>16, <1>17
  DEF Decode
---------------------------------------------------------------------------
(* The decoder keeps its invariant, and with it its promises *)

LEMMA FrameInvInit == Init => FrameInv
<1> SUFFICES ASSUME Init PROVE FrameInv OBVIOUS
<1> USE FrameParams
    DEF Init, WorkerInit, FrameInv, FrameTyped, Calls, Buffers, InTurn, Filled, Counted,
        Busy, Pending, NumCaches, LastRow, Least
<1>1. FrameTyped
  <2>1. br \in Nat BY FrameParams
  <2>2. 0 <= LastRow BY <2>1, FrameParams
  <2>3. NumCaches \in 1..3 OBVIOUS
  <2>4. data \in [{0, 1} -> Int] /\ info \in [{0, 1} -> Int] /\ line \in [0..2 -> Int]
    OBVIOUS
  <2>5. ctx \in [id : 0..2, mb_y : Int, filter_row : BOOLEAN, mb_data : {0, 1}, f_info : {0, 1}]
    OBVIOUS
  <2>6. cache_id \in 0..(NumCaches - 1) /\ ctx.id < NumCaches BY <2>3
  <2>7. QED BY <2>2, <2>4, <2>5, <2>6
<1>2. Calls /\ Buffers OBVIOUS
<1>3. InTurn OBVIOUS
<1>4. Filled OBVIOUS
<1>5. Counted OBVIOUS
<1>6. QED BY <1>1, <1>2, <1>3, <1>4, <1>5

LEMMA FrameInvNext == WorkerInv /\ FrameInv /\ [Next]_vars => FrameInv'
<1> SUFFICES ASSUME WorkerInv, FrameInv, [Next]_vars PROVE FrameInv' OBVIOUS
<1>1. CASE UNCHANGED vars
  <2>1. UNCHANGED decoderVars /\ UNCHANGED had_error /\ Calls' /\ Busy' = Busy
    BY <1>1 DEF vars, decoderVars, configVars, parseVars, outVars, workerVars, FrameInv,
       Calls, Busy, Pending
  <2>2. QED BY <2>1, WorkerAlone
<1>2. QED
  BY <1>1, HookKeeps, ThreadKeeps, InCallKeeps, SpuriousKeeps, DecodeKeeps DEF Next

\* Worker and decoder are always as their invariants describe them
THEOREM FrameInvariant == Spec => [](WorkerInv /\ FrameInv)
<1>1. Spec => []WorkerInv BY SpecUsesWorker, WorkerInvariant, PTL
<1>2. QED BY <1>1, FrameInvInit, FrameInvNext, PTL DEF Spec

\* Row numbers stay in the picture
RowsKnown ==
  /\ data \in [{0, 1} -> -1..Rows] /\ info \in [{0, 1} -> -1..Rows]
  /\ line \in [0..2 -> -1..Rows] /\ above \in -1..Rows
  /\ ctx.mb_y <= Rows

LEMMA RowsKnownNext ==
  ASSUME WorkerInv, FrameInv, RowsKnown, [Next]_vars
  PROVE  RowsKnown'
<1>1. mb_y \in -1..Rows BY HeightOf DEF FrameInv, FrameTyped, LastRow
<1>2. -1 \in -1..Rows BY HeightOf
<1>3. /\ ctx.id \in 0..2 /\ ctx.mb_data \in {0, 1} /\ ctx.mb_y \in Int
      /\ mb_data \in {0, 1} /\ f_info \in {0, 1}
  BY DEF FrameInv, FrameTyped
<1>4. Rotated(ctx) \in -1..Rows /\ Reconstructed(ctx) \in [0..2 -> -1..Rows]
  BY <1>3 DEF RowsKnown, Rotated, Reconstructed
<1>5. CASE HookEmit \/ EmitAlone
  <2>1. PICK outcome \in Outcome(ctx) : Emit(ctx, outcome)
    BY <1>5 DEF HookEmit, EmitAlone
  <2>2. above' \in -1..Rows BY <2>1, <1>4 DEF Emit, RowsKnown
  <2>3. UNCHANGED <<data, info, line, ctx>>
    BY <1>5 DEF HookEmit, EmitAlone, parseVars
  <2>4. QED BY <2>2, <2>3 DEF RowsKnown
<1>6. CASE HookReconstruct
  BY <1>4, <1>6 DEF HookReconstruct, RowsKnown, parseVars
<1>7. CASE ParseBegin
  BY <1>2, <1>3, <1>7 DEF ParseBegin, RowsKnown, outVars
<1>8. CASE ParseEnd
  BY <1>1, <1>3, <1>8 DEF ParseEnd, RowsKnown, outVars
<1>9. CASE Process
  <2>1. ctx'.mb_y = mb_y BY <1>9 DEF Process, Context
  <2>2. QED BY <1>1, <1>9, <2>1 DEF Process, RowsKnown, outVars
<1>10. CASE ProcessAlone
  <2>1. ctx'.mb_y = mb_y /\ ctx'.id = ctx.id /\ ctx'.mb_data = ctx.mb_data
    BY <1>10, ContextAlone
  <2>2. line' \in [0..2 -> -1..Rows]
    BY <1>3, <1>10, <2>1 DEF ProcessAlone, Reconstructed, RowsKnown
  <2>3. QED BY <1>1, <1>10, <2>1, <2>2 DEF ProcessAlone, RowsKnown, parseVars
<1>11. CASE UNCHANGED <<data, info, line, above, ctx>>
  BY <1>11 DEF RowsKnown
<1>12. \/ HookEmit \/ EmitAlone \/ HookReconstruct \/ ParseBegin \/ ParseEnd \/ Process
       \/ ProcessAlone \/ UNCHANGED <<data, info, line, above, ctx>>
  BY DEF Next, vars, Hook, HookStart, Thread, InCall, Spurious, Decode, decoderVars,
         parseVars, outVars, Start, Allocate, ParseFails, Suspend, Resume, ProcessFails,
         Parsed, Finish, Exit, Teardown, Clear, Cleared
<1>13. QED BY <1>5, <1>6, <1>7, <1>8, <1>9, <1>10, <1>11, <1>12

\* Every variable keeps to its range for a picture of any height: only rows of
\* the picture are in the buffers, and no more are put out than it has
THEOREM FrameTypes == Spec => []TypeOK
<1>1. Init => RowsKnown
  BY FrameParams DEF Init, RowsKnown
<1>2. WorkerInv /\ FrameInv /\ RowsKnown => TypeOK
  <2> SUFFICES ASSUME WorkerInv, FrameInv, RowsKnown PROVE TypeOK OBVIOUS
  <2>1. mb_y \in 0..Rows BY HeightOf DEF FrameInv, FrameTyped, LastRow
  <2>2. put \in 0..Rows BY HeightOf DEF FrameInv, FrameTyped, Counted
  <2>3. ctx \in [id : 0..2, mb_y : -1..Rows, filter_row : BOOLEAN,
                 mb_data : {0, 1}, f_info : {0, 1}]
    BY HeightOf DEF FrameInv, FrameTyped, InTurn, RowsKnown
  <2>4. mt => (hook # "none" <=> worker = "run") BY DEF FrameInv, Calls
  <2>5. WorkerTypeOK BY DEF WorkerInv
  <2>6. QED BY <2>1, <2>2, <2>3, <2>4, <2>5 DEF TypeOK, FrameInv, FrameTyped, RowsKnown
<1>3. QED BY <1>1, <1>2, RowsKnownNext, FrameInvariant, PTL DEF Spec

\* However far the main thread has parsed on, the worker finds the row's own
\* coefficients and filter strengths and the row above it, for any height
THEOREM RowsIntact == Spec => []RowIntact
<1>1. WorkerInv /\ FrameInv => RowIntact
  <2> SUFFICES ASSUME WorkerInv, FrameInv, hook # "none"
               PROVE  RowIntact
    BY DEF RowIntact
  <2>1. Busy BY DEF Busy, Pending, FrameInv, FrameTyped, Calls, WorkerInv, StatusMeans
  <2>2. QED BY <2>1 DEF RowIntact, FrameInv, Filled
<1>2. QED BY <1>1, FrameInvariant, PTL

\* The caller of the incremental decoder, and io->teardown, find no row on
\* its way out
THEOREM NoneOutside == Spec => []IdleOutside
<1>1. WorkerInv /\ FrameInv => IdleOutside
  <2> SUFFICES ASSUME WorkerInv, FrameInv, main = "client",
                      step \in {"suspended", "teardown", "clear", "cleared"}
               PROVE  status # "WORK" /\ worker # "run"
    BY DEF IdleOutside
  <2>1. CASE mt
    BY <2>1 DEF WorkerInv, StatusMeans, FrameInv, Calls
  <2>2. CASE ~mt
    BY <2>2 DEF FrameInv, Calls
  <2>3. QED BY <2>1, <2>2
<1>2. QED BY <1>1, FrameInvariant, PTL

---------------------------------------------------------------------------
(* Decoding implements RowOutput *)

\* result as RowOutput has it
Shows == IF result = "failing" THEN "running" ELSE result
NothingOut == UNCHANGED <<br, put, aborted, Shows>>

LEMMA HookImplements ==
  ASSUME WorkerInv, FrameInv, HookEmit
  PROVE  Output!Put \/ NothingOut
<1>1. PICK outcome \in Outcome(ctx) : Emit(ctx, outcome)
  BY DEF HookEmit
<1>2. Emitted(outcome) BY <1>1, Emits
<1>3. Busy /\ ~aborted /\ result \in {"running", "failing"} /\ put = Least(br, ctx.mb_y)
      /\ ctx.mb_y \in Int /\ br \in Nat
  <2>1. Busy /\ status = "WORK"
    BY DEF Busy, Pending, FrameInv, FrameTyped, Calls, WorkerInv, StatusMeans, HookEmit,
           WorkerDone
  <2>2. QED BY <2>1, HeightOf DEF FrameInv, FrameTyped, Counted, Calls
<1>4. br' = br /\ result' = result BY DEF HookEmit, configVars
<1>5. CASE ctx.mb_y < br
  <2>1. put < br BY <1>3, <1>5 DEF Least
  <2>2. \/ put' = put + 1 /\ aborted' \in BOOLEAN
        \/ put' = put /\ aborted' = TRUE
    BY <1>2, <1>5 DEF Emitted
  <2>3. QED BY <1>3, <1>4, <2>1, <2>2 DEF Output!Put
<1>6. CASE ~(ctx.mb_y < br)
  <2>1. outcome = "taken" BY <1>2, <1>6 DEF Emitted
  <2>2. aborted' = aborted BY <1>2, <2>1 DEF Emitted
  <2>3. put' = put BY <1>2, <1>3, <1>6 DEF Emitted
  <2>4. QED BY <1>4, <2>2, <2>3 DEF NothingOut, Shows
<1>7. QED BY <1>5, <1>6

LEMMA AloneImplements ==
  ASSUME WorkerInv, FrameInv, EmitAlone
  PROVE  Output!Put \/ NothingOut
<1>1. PICK outcome \in Outcome(ctx) :
        /\ Emit(ctx, outcome)
        /\ outcome = "taken" => UNCHANGED result
        /\ outcome # "taken" => result' = "failing"
  BY DEF EmitAlone
<1>2. Emitted(outcome) BY <1>1, Emits
<1>3. Busy /\ ~aborted /\ result = "running" /\ put = Least(br, ctx.mb_y)
      /\ ctx.mb_y \in Int /\ br \in Nat
  <2>1. Busy /\ step = "process" BY DEF Busy, EmitAlone, At
  <2>2. QED BY <2>1, HeightOf DEF FrameInv, FrameTyped, Counted, EmitAlone
<1>4. br' = br BY DEF EmitAlone, configVars
<1>5. Shows' = Shows BY <1>1, <1>3 DEF Shows
<1>6. CASE ctx.mb_y < br
  <2>1. put < br BY <1>3, <1>6 DEF Least
  <2>2. \/ put' = put + 1 /\ aborted' \in BOOLEAN
        \/ put' = put /\ aborted' = TRUE
    BY <1>2, <1>6 DEF Emitted
  <2>3. QED BY <1>3, <1>4, <1>5, <2>1, <2>2 DEF Output!Put, Shows
<1>7. CASE ~(ctx.mb_y < br)
  <2>1. outcome = "taken" BY <1>2, <1>7 DEF Emitted
  <2>2. aborted' = aborted BY <1>2, <2>1 DEF Emitted
  <2>3. put' = put BY <1>2, <1>3, <1>7 DEF Emitted
  <2>4. QED BY <1>4, <1>5, <2>2, <2>3 DEF NothingOut
<1>8. QED BY <1>6, <1>7

LEMMA TeardownImplements ==
  ASSUME WorkerInv, FrameInv, Teardown
  PROVE  Output!End
<1>1. ~Busy
  BY DEF Busy, Pending, Teardown, At, FrameInv, FrameTyped, Calls, WorkerInv, StatusMeans
<1>2. result \in {"running", "failing"}
  BY DEF Teardown, At, FrameInv, FrameTyped, Counted
<1>3. result' \in {"ok", "failed"} BY DEF Teardown
<1>4. result' = "ok" => put = br /\ ~aborted
  <2> SUFFICES ASSUME result' = "ok" PROVE put = br /\ ~aborted OBVIOUS
  <2>1. result = "running" /\ ~(mt /\ had_error) BY <1>2 DEF Teardown
  <2>2. mb_y = LastRow BY <2>1 DEF Teardown, At, FrameInv, Counted
  <2>3. ~aborted BY <2>1 DEF Teardown, At, FrameInv, FrameTyped, Counted
  <2>4. ctx.mb_y + 1 = mb_y /\ ctx.mb_y \in Int
    BY <1>1, <2>3 DEF FrameInv, FrameTyped, InTurn, Busy, Calls
  <2>5. put = Least(br, mb_y) BY <1>1, <2>3, <2>4 DEF FrameInv, Counted
  <2>6. QED BY <2>2, <2>3, <2>5, HeightOf DEF Least, LastRow
<1>5. UNCHANGED <<br, put, aborted>> BY DEF Teardown, configVars, outVars
<1>6. QED BY <1>2, <1>3, <1>4, <1>5 DEF Output!End

LEMMA OthersImplement ==
  ASSUME WorkerInv, FrameInv, [Next]_vars, ~HookEmit, ~EmitAlone, ~Teardown
  PROVE  NothingOut
<1> USE DEF NothingOut, configVars, parseVars, outVars, decoderVars
<1>1. CASE Hook BY <1>1 DEF Hook, HookStart, HookReconstruct, Shows
<1>2. CASE Thread \/ InCall \/ Spurious BY <1>2 DEF Thread, InCall, Spurious, Shows
<1>3. CASE UNCHANGED vars BY <1>3 DEF vars, Shows
<1>4. CASE Decode
  <2>1. UNCHANGED <<br, put, aborted>>
    BY <1>4 DEF Decode, Start, Allocate, ParseBegin, ParseEnd, ParseFails, Suspend, Resume,
       Process, ProcessFails, ProcessAlone, Parsed, Finish, Exit, Clear, Cleared, vars
  <2>2. result' = result
        \/ (result' = "failing" /\ step \notin {"clear", "cleared"})
    BY <1>4 DEF Decode, Start, Allocate, ParseBegin, ParseEnd, ParseFails, Suspend, Resume,
       Process, ProcessFails, ProcessAlone, Parsed, Finish, Exit, Clear, Cleared, vars, At
  <2>3. result \in {"ok", "failed"} => step \in {"clear", "cleared"}
    BY DEF FrameInv, Counted
  <2>4. Shows' = Shows BY <2>2, <2>3 DEF Shows, FrameInv, FrameTyped
  <2>5. QED BY <2>1, <2>4
<1>5. QED BY <1>1, <1>2, <1>3, <1>4 DEF Next

\* Rows of a picture of any height go out in order, each once, none after a
\* refusal; decoding succeeds only when all of them did
THEOREM FrameImplementsRowOutput == Spec => ImplementsRowOutput
<1>1. Init => Output!Init
  BY FrameParams DEF Init, Output!Init
<1>2. WorkerInv /\ FrameInv /\ [Next]_vars => [Output!Next]_<<br, put, aborted, Shows>>
  <2> SUFFICES ASSUME WorkerInv, FrameInv, [Next]_vars
               PROVE  Output!Put \/ Output!End \/ NothingOut
    BY DEF Output!Next, NothingOut
  <2>1. CASE HookEmit BY <2>1, HookImplements
  <2>2. CASE EmitAlone BY <2>2, AloneImplements
  <2>3. CASE Teardown BY <2>3, TeardownImplements
  <2>4. CASE ~HookEmit /\ ~EmitAlone /\ ~Teardown BY <2>4, OthersImplement
  <2>5. QED BY <2>1, <2>2, <2>3, <2>4
<1>3. QED
  BY <1>1, <1>2, FrameInvariant, PTL DEF Spec, ImplementsRowOutput, Output!Spec, Shows
===========================================================================
