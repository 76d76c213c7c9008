----------------------------- MODULE WebPFrame -----------------------------
(***************************************************************************)
(* The row pipeline of libwebp's lossy decoder (dec/frame_dec.c), as run by *)
(* VP8Decode on a whole file (vp8_dec.c) and by the incremental decoder on  *)
(* data that arrives in pieces (idec_dec.c).  The main thread parses a row  *)
(* and hands it to the worker, which reconstructs, filters and puts it out  *)
(* while the next one is parsed.                                            *)
(*                                                                          *)
(* A row of macroblocks has no content here but its number: each buffer     *)
(* holds the number of the row it was last filled for.  The main thread's   *)
(* steps between two calls of the worker are one step, parsing a row is two.*)
(***************************************************************************)
EXTENDS WebPWorker, Integers

CONSTANTS
  Rows,      \* mb_h_
  Shown      \* values of br_mb_y_: rows of the picture the caller wants

ASSUME FrameParams == Rows \in Nat \ {0} /\ Shown \subseteq 1..Rows

VARIABLES
  mt,             \* whether mt_method_ is 2; else 0
  filtered,       \* first row to filter, or -1 when filter_type_ is 0
  incremental,    \* WebPIDecoder, else VP8Decode
  br,             \* br_mb_y_
  step,           \* where the main thread is in the decoder
  mb_y,           \* row it parses
  cache_id,       \* line of the cache for that row
  mb_data, f_info,           \* which of the two buffers it fills
  data, info,                \* row in each of them; -1 while it is filled
  ctx,            \* VP8ThreadContext: what the worker works on
  line,           \* cache line -> row in it
  above,          \* row whose last pixel rows lie over the first line
  hook,           \* where FinishRow is
  put,            \* rows put out
  aborted,        \* io->put returned false
  result          \* "running", "ok" or "failed"

configVars == <<mt, filtered, incremental, br>>
parseVars == <<mb_y, cache_id, mb_data, f_info, data, info>>
outVars == <<line, above, hook, put, aborted>>
vars == <<workerVars, configVars, step, parseVars, ctx, outVars, result>>

NumCaches == IF ~mt THEN 1 ELSE IF filtered >= 0 THEN 3 ELSE 2
LastRow == IF incremental THEN Rows ELSE br

Init ==
  /\ WorkerInit
  /\ mt \in BOOLEAN /\ incremental \in BOOLEAN
  /\ filtered \in {-1, 0, 1} /\ br \in Shown
  /\ step = "start"
  /\ mb_y = 0 /\ cache_id = 0
  /\ mb_data = 0 /\ f_info = 0
  /\ data = [i \in {0, 1} |-> -1] /\ info = [i \in {0, 1} |-> -1]
  /\ ctx = [id |-> 0, mb_y |-> -1, filter_row |-> FALSE, mb_data |-> IF mt THEN 1 ELSE 0, f_info |-> IF mt THEN 1 ELSE 0]
  /\ line = [i \in 0..2 |-> -1] /\ above = -1
  /\ hook = "none"
  /\ put = 0 /\ aborted = FALSE
  /\ result = "running"

---------------------------------------------------------------------------
(* FinishRow *)

FilterRow == filtered >= 0 /\ mb_y >= filtered /\ mb_y <= br

\* A context for the row just parsed
Context == [id |-> cache_id, mb_y |-> mb_y, filter_row |-> FilterRow,
            mb_data |-> mb_data, f_info |-> IF FilterRow THEN f_info ELSE ctx.f_info]

Reconstructed(c) == [line EXCEPT ![c.id] = data[c.mb_data]]
\* The row whose last pixels, held back for the filter, go out with c's
Over(c) == IF c.id = 0 THEN above ELSE line[c.id - 1]

\* Mutant: the rows held back are not saved when the cache wraps around
NotRotated(c) == above

\* rotate top samples
Rotated(c) == IF c.id + 1 = NumCaches /\ c.mb_y < br - 1 THEN line[c.id] ELSE above

\* What may come of a row: the caller took it or refused it, or its alpha rows
\* could not be decoded.  Rows below the wanted part are not put out
Outcome(c) == IF c.mb_y < br THEN {"taken", "refused", "no alpha"} ELSE {"taken"}

\* io->put with the row and the pixels held back
Emit(c, outcome) ==
  /\ put' = IF c.mb_y < br /\ outcome # "no alpha" THEN put + 1 ELSE put
  /\ aborted' = (aborted \/ outcome # "taken")
  /\ above' = IF outcome = "no alpha" THEN above ELSE Rotated(c)

---------------------------------------------------------------------------
(* The worker's hook *)

HookStart ==
  /\ WorkerRun
  /\ hook' = "reconstruct"
  /\ UNCHANGED <<configVars, step, parseVars, ctx, line, above, put, aborted, result>>

HookReconstruct ==
  /\ worker = "run" /\ hook = "reconstruct"
  /\ line' = Reconstructed(ctx)
  /\ hook' = "emit"
  /\ UNCHANGED <<workerVars, configVars, step, parseVars, ctx, above, put, aborted, result>>

HookEmit ==
  /\ hook = "emit"
  /\ \E outcome \in Outcome(ctx) :
       /\ Emit(ctx, outcome)
       /\ WorkerDone(outcome = "taken")
  /\ hook' = "none"
  /\ UNCHANGED <<configVars, step, parseVars, ctx, line, result>>

---------------------------------------------------------------------------
(* The main thread *)

decoderVars == <<configVars, step, parseVars, ctx, outVars, result>>

\* Go on at s after the worker did op, which needs no worker without threads
Do(op, s) ==
  /\ step' = s
  /\ IF mt THEN Call(op) ELSE UNCHANGED workerVars

At(s) == step = s /\ main = "client"

\* VP8InitFrame; memory for the buffers may be short too
Start ==
  /\ At("start")
  /\ IF mt THEN Reset ELSE UNCHANGED workerVars
  /\ step' = "reset"
  /\ UNCHANGED <<configVars, parseVars, ctx, outVars, result>>

Allocate ==
  /\ At("reset")
  /\ \/ (mt => status = "OK") /\ step' = "parse" /\ UNCHANGED result
     \/ step' = "exit" /\ result' = "failing"
  /\ UNCHANGED <<workerVars, configVars, parseVars, ctx, outVars>>

\* VP8ParseIntraModeRow and VP8DecodeMB fill the buffers
ParseBegin ==
  /\ At("parse")
  /\ IF mb_y = LastRow
     THEN step' = "parsed" /\ UNCHANGED <<data, info>>
     ELSE /\ step' = "decode"
          /\ data' = [data EXCEPT ![mb_data] = -1]
          /\ info' = [info EXCEPT ![f_info] = -1]
  /\ UNCHANGED <<workerVars, configVars, mb_y, cache_id, mb_data, f_info, ctx, outVars, result>>

\* ... and VP8ProcessRow starts by waiting for the row before
ParseEnd ==
  /\ At("decode")
  /\ data' = [data EXCEPT ![mb_data] = mb_y]
  /\ info' = [info EXCEPT ![f_info] = mb_y]
  /\ Do("Sync", "process")
  /\ UNCHANGED <<configVars, mb_y, cache_id, mb_data, f_info, ctx, outVars, result>>

\* The data ends in the row
ParseFails ==
  /\ At("decode")
  /\ \/ step' = "exit" /\ result' = "failing" /\ UNCHANGED workerVars
     \/ incremental /\ Do("Sync", "suspend") /\ UNCHANGED result
  /\ UNCHANGED <<configVars, parseVars, ctx, outVars>>

\* VP8_STATUS_SUSPENDED goes to the caller, who comes back with more data, or
\* deletes the decoder
Suspend ==
  /\ At("suspend")
  /\ IF mt /\ had_error THEN step' = "exit" /\ result' = "failing"
     ELSE step' = "suspended" /\ UNCHANGED result
  /\ UNCHANGED <<workerVars, configVars, parseVars, ctx, outVars>>

Resume ==
  /\ At("suspended")
  /\ \/ step' = "decode" /\ UNCHANGED result
     \/ step' = "exit" /\ result' = "failing"
  /\ UNCHANGED <<workerVars, configVars, parseVars, ctx, outVars>>

\* Mutant: the cache is not used in turn
CacheRunsOn == cache_id + 1

NextCache == (cache_id + 1) % NumCaches

\* VP8ProcessRow after Sync: swap buffers with the context, start the worker
Process ==
  /\ At("process") /\ mt /\ ~had_error
  /\ ctx' = Context
  /\ mb_data' = ctx.mb_data
  /\ f_info' = IF FilterRow THEN ctx.f_info ELSE f_info
  /\ Do("Launch", "parse")
  /\ cache_id' = NextCache
  /\ mb_y' = mb_y + 1
  /\ UNCHANGED <<configVars, data, info, outVars, result>>

ProcessFails ==
  /\ At("process") /\ mt /\ had_error
  /\ step' = "exit" /\ result' = "failing"
  /\ UNCHANGED <<workerVars, configVars, parseVars, ctx, outVars>>

\* Without threads the row is finished here
ProcessAlone ==
  /\ At("process") /\ ~mt /\ hook = "none"
  /\ ctx' = [ctx EXCEPT !.mb_y = mb_y, !.filter_row = FilterRow]
  /\ line' = Reconstructed(ctx')
  /\ hook' = "emit"
  /\ UNCHANGED <<workerVars, configVars, step, parseVars, above, put, aborted, result>>

EmitAlone ==
  /\ At("process") /\ ~mt /\ hook = "emit"
  /\ \E outcome \in Outcome(ctx) :
       /\ Emit(ctx, outcome)
       /\ IF outcome = "taken"
          THEN step' = "parse" /\ mb_y' = mb_y + 1 /\ UNCHANGED result
          ELSE step' = "exit" /\ result' = "failing" /\ UNCHANGED mb_y
  /\ hook' = "none"
  /\ UNCHANGED <<workerVars, configVars, cache_id, mb_data, f_info, data, info, ctx, line>>

\* All rows parsed: ParseFrame waits for the last, the incremental decoder
\* leaves that to VP8ExitCritical
Parsed ==
  /\ At("parsed")
  /\ IF incremental THEN step' = "exit" /\ UNCHANGED workerVars ELSE Do("Sync", "finish")
  /\ UNCHANGED <<configVars, parseVars, ctx, outVars, result>>

Finish ==
  /\ At("finish")
  /\ result' = IF mt /\ had_error THEN "failing" ELSE result
  /\ step' = "exit"
  /\ UNCHANGED <<workerVars, configVars, parseVars, ctx, outVars>>

\* Mutant: teardown without waiting for the worker
ExitAtOnce ==
  /\ At("exit")
  /\ step' = "teardown"
  /\ UNCHANGED <<workerVars, configVars, parseVars, ctx, outVars, result>>

\* VP8ExitCritical, then io->teardown; VP8Clear ends the worker and frees the
\* buffers
Exit ==
  /\ At("exit")
  /\ Do("Sync", "teardown")
  /\ UNCHANGED <<configVars, parseVars, ctx, outVars, result>>

Teardown ==
  /\ At("teardown")
  /\ result' = IF result = "failing" \/ (mt /\ had_error) THEN "failed" ELSE "ok"
  /\ step' = "clear"
  /\ UNCHANGED <<workerVars, configVars, parseVars, ctx, outVars>>

Clear ==
  /\ At("clear")
  /\ Do("End", "cleared")
  /\ UNCHANGED <<configVars, parseVars, ctx, outVars, result>>

Cleared == At("cleared") /\ UNCHANGED vars

Hook == HookStart \/ HookReconstruct \/ HookEmit
Thread ==
  /\ WorkerLock \/ WorkerWait \/ WorkerQuit \/ WorkerUnlock \/ WorkerSignal
  /\ UNCHANGED decoderVars
InCall == CallStep /\ UNCHANGED decoderVars
Decode ==
  \/ Start \/ Allocate \/ ParseBegin \/ ParseEnd \/ ParseFails \/ Suspend \/ Resume
  \/ Process \/ ProcessFails \/ ProcessAlone \/ EmitAlone
  \/ Parsed \/ Finish \/ Exit \/ Teardown \/ Clear \/ Cleared
Spurious == WakeSpuriously /\ UNCHANGED decoderVars

Next == Hook \/ Thread \/ InCall \/ Decode \/ Spurious
Spec == Init /\ [][Next]_vars

\* Each thread runs when it can; a caller of the incremental decoder goes on
\* or gives up
Fairness ==
  /\ WF_vars(Hook \/ Thread) /\ SF_vars(MainLock /\ UNCHANGED decoderVars)
  /\ SF_vars(WorkerLock /\ UNCHANGED decoderVars)
  /\ WF_vars(InCall) /\ WF_vars(Decode)
FairSpec == Spec /\ Fairness

---------------------------------------------------------------------------
(* Properties *)

TypeOK ==
  /\ WorkerTypeOK
  /\ mt \in BOOLEAN /\ incremental \in BOOLEAN
  /\ filtered \in {-1, 0, 1} /\ br \in Shown
  /\ mb_y \in 0..Rows /\ cache_id \in 0..(NumCaches - 1)
  /\ mb_data \in {0, 1} /\ f_info \in {0, 1}
  /\ data \in [{0, 1} -> -1..Rows] /\ info \in [{0, 1} -> -1..Rows]
  /\ ctx \in [id : 0..2, mb_y : -1..Rows, filter_row : BOOLEAN,
              mb_data : {0, 1}, f_info : {0, 1}]
  /\ line \in [0..2 -> -1..Rows] /\ above \in -1..Rows
  /\ hook \in {"none", "reconstruct", "emit"} /\ (mt => (hook # "none" <=> worker = "run"))
  /\ put \in 0..Rows /\ aborted \in BOOLEAN
  /\ result \in {"running", "failing", "ok", "failed"}

\* The worker finds the row's own coefficients and filter strengths in the
\* buffers it was given, and over the row in the cache the one before, however
\* far the main thread has parsed on
RowIntact ==
  hook # "none" =>
    /\ hook = "reconstruct" => data[ctx.mb_data] = ctx.mb_y
    /\ hook = "emit" => line[ctx.id] = ctx.mb_y
    /\ ctx.filter_row => info[ctx.f_info] = ctx.mb_y
    /\ filtered >= 0 /\ ctx.mb_y \in 1..(br - 1) => Over(ctx) = ctx.mb_y - 1

\* While the caller of the incremental decoder has its buffers back, and from
\* io->teardown on, no row is being put out, nor will one be
IdleOutside ==
  main = "client" /\ step \in {"suspended", "teardown", "clear", "cleared"} =>
    status # "WORK" /\ worker # "run"

\* Decoding implements the promise of RowOutput
Output == INSTANCE RowOutput WITH
  rows <- br, sent <- put, refused <- aborted,
  result <- IF result = "failing" THEN "running" ELSE result
ImplementsRowOutput == Output!Spec

\* Decoding ends and the worker thread with it: no wake-up is lost
DecodeEnds == (step # "suspended") ~> (step = "suspended" \/ (At("cleared") /\ worker = "none"))
===========================================================================
