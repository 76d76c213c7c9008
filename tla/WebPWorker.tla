----------------------------- MODULE WebPWorker -----------------------------
(***************************************************************************)
(* The worker of libwebp (utils/thread_utils.c): a thread that runs a hook *)
(* when told to.  The main thread and the worker hand over through         *)
(* status_, one mutex and one condition variable they both wait on.        *)
(*                                                                         *)
(* A step is what a thread does between two calls of the pthread library;  *)
(* the worker runs its hook holding the mutex.  Reset, Sync, Launch and    *)
(* End are called by the module that uses the worker.                      *)
(***************************************************************************)

VARIABLES
  status,     \* status_
  impl,       \* whether impl_ is there, and with it the thread
  mutex,      \* who holds it, or "none"
  waiting,    \* threads in pthread_cond_wait that no signal has woken
  main,       \* where the main thread is, "client" outside this module
  call,       \* the operation it is in, or was last in
  worker,     \* where the worker thread is
  had_error

workerVars == <<status, impl, mutex, waiting, main, call, worker, had_error>>

Operation == {"Init", "Reset", "Sync", "Launch", "End"}

\* The status ChangeState is asked for
Wanted == CASE call = "Launch" -> "WORK" [] call = "End" -> "NOT_OK" [] OTHER -> "OK"

WorkerInit ==
  /\ status = "NOT_OK" /\ impl = FALSE
  /\ mutex = "none" /\ waiting = {}
  /\ main = "client" /\ call = "Init"
  /\ worker = "none"
  /\ had_error = FALSE

---------------------------------------------------------------------------
(* The thread library *)

\* pthread_cond_signal wakes one of those that wait, if any does
Signal ==
  \/ waiting = {} /\ UNCHANGED waiting
  \/ \E t \in waiting : waiting' = waiting \ {t}

\* pthread_cond_wait may also return for no reason
WakeSpuriously ==
  /\ \E t \in waiting : waiting' = waiting \ {t}
  /\ UNCHANGED <<status, impl, mutex, main, call, worker, had_error>>

---------------------------------------------------------------------------
(* ThreadLoop *)

\* Take the mutex, at the top of the loop or when woken
WorkerLock ==
  /\ worker \in {"lock", "wait"} /\ "worker" \notin waiting
  /\ mutex = "none" /\ mutex' = "worker"
  /\ worker' = "hold"
  /\ UNCHANGED <<status, impl, waiting, main, call, had_error>>

\* Mutant: the first wait does not look at the status
WorkerWaitsFirst ==
  /\ worker = "hold" /\ status # "NOT_OK"
  /\ mutex' = "none" /\ waiting' = waiting \cup {"worker"}
  /\ worker' = "wait"
  /\ UNCHANGED <<status, impl, main, call, had_error>>

WorkerWait ==
  /\ worker = "hold" /\ status = "OK"
  /\ mutex' = "none" /\ waiting' = waiting \cup {"worker"}
  /\ worker' = "wait"
  /\ UNCHANGED <<status, impl, main, call, had_error>>

WorkerRun ==
  /\ worker = "hold" /\ status = "WORK"
  /\ worker' = "run"
  /\ UNCHANGED <<status, impl, mutex, waiting, main, call, had_error>>

\* The hook returns
WorkerDone(ok) ==
  /\ worker = "run"
  /\ had_error' = (had_error \/ ~ok)
  /\ status' = "OK"
  /\ worker' = "unlock"
  /\ UNCHANGED <<impl, mutex, waiting, main, call>>

WorkerQuit ==
  /\ worker = "hold" /\ status = "NOT_OK"
  /\ worker' = "quit"
  /\ UNCHANGED <<status, impl, mutex, waiting, main, call, had_error>>

WorkerUnlock ==
  /\ worker \in {"unlock", "quit"}
  /\ mutex' = "none"
  /\ worker' = IF worker = "quit" THEN "last signal" ELSE "signal"
  /\ UNCHANGED <<status, impl, waiting, main, call, had_error>>

WorkerSignal ==
  /\ worker \in {"signal", "last signal"}
  /\ Signal
  /\ worker' = IF worker = "last signal" THEN "exited" ELSE "lock"
  /\ UNCHANGED <<status, impl, mutex, main, call, had_error>>

---------------------------------------------------------------------------
(* The main thread *)

\* Sync, Launch and End; without a thread they do nothing.  A call of
\* ChangeState starts with the lock
Call(op) ==
  /\ main = "client"
  /\ call' = op
  /\ main' = IF impl THEN "lock" ELSE "client"
  /\ UNCHANGED <<status, impl, mutex, waiting, worker, had_error>>

\* Reset: Sync when the worker is at work, nothing when it is ready, else a
\* new thread, under the mutex; any of its parts may fail
Reset ==
  /\ main = "client"
  /\ call' = "Reset" /\ had_error' = FALSE
  /\ IF status = "NOT_OK"
     THEN \/ /\ impl' = TRUE /\ mutex' = "main"
             /\ worker' = "lock" /\ main' = "create"
          \/ UNCHANGED <<impl, mutex, worker, main>>
     ELSE /\ main' = IF status = "WORK" THEN "lock" ELSE "client"
          /\ UNCHANGED <<impl, mutex, worker>>
  /\ UNCHANGED <<status, waiting>>

ResetCreated ==
  /\ main = "create"
  /\ status' = "OK" /\ mutex' = "none"
  /\ main' = "client"
  /\ UNCHANGED <<impl, waiting, call, worker, had_error>>

\* ChangeState
MainLock ==
  /\ main \in {"lock", "wait"} /\ "main" \notin waiting
  /\ mutex = "none" /\ mutex' = "main"
  /\ main' = "hold"
  /\ UNCHANGED <<status, impl, waiting, call, worker, had_error>>

MainWait ==
  /\ main = "hold" /\ status = "WORK"
  /\ mutex' = "none" /\ waiting' = waiting \cup {"main"}
  /\ main' = "wait"
  /\ UNCHANGED <<status, impl, call, worker, had_error>>

\* Mutant: does not wait for the worker
MainChangesAtOnce ==
  /\ main = "hold"
  /\ IF status = "NOT_OK" \/ Wanted = "OK"
     THEN main' = "client" /\ UNCHANGED status
     ELSE main' = "signal" /\ status' = Wanted
  /\ mutex' = "none"
  /\ UNCHANGED <<impl, waiting, call, worker, had_error>>

\* The new status is set and the mutex released; a changed status is signalled
MainChange ==
  /\ main = "hold" /\ status # "WORK"
  /\ IF status = "NOT_OK" \/ Wanted = "OK"
     THEN main' = "client" /\ UNCHANGED status
     ELSE main' = "signal" /\ status' = Wanted
  /\ mutex' = "none"
  /\ UNCHANGED <<impl, waiting, call, worker, had_error>>

MainSignal ==
  /\ main = "signal"
  /\ Signal
  /\ main' = IF call = "End" THEN "join" ELSE "client"
  /\ UNCHANGED <<status, impl, mutex, call, worker, had_error>>

\* pthread_join in End
MainJoin ==
  /\ main = "join" /\ worker = "exited"
  /\ impl' = FALSE /\ worker' = "none"
  /\ main' = "client"
  /\ UNCHANGED <<status, mutex, waiting, call, had_error>>

---------------------------------------------------------------------------
(* The worker and any program that uses it *)

ThreadStep ==
  WorkerLock \/ WorkerWait \/ WorkerRun \/ WorkerQuit \/ WorkerUnlock \/ WorkerSignal
CallStep ==
  ResetCreated \/ MainLock \/ MainWait \/ MainChange \/ MainSignal \/ MainJoin

WorkerNext ==
  \/ ThreadStep \/ CallStep \/ WakeSpuriously
  \/ \E ok \in BOOLEAN : WorkerDone(ok)
  \/ Reset \/ \E op \in {"Sync", "Launch", "End"} : Call(op)

WorkerSpec == WorkerInit /\ [][WorkerNext]_workerVars

---------------------------------------------------------------------------
(* Properties *)

WorkerTypeOK ==
  /\ status \in {"NOT_OK", "OK", "WORK"}
  /\ impl \in BOOLEAN
  /\ mutex \in {"none", "main", "worker"}
  /\ waiting \subseteq {"main", "worker"}
  /\ main \in {"client", "create", "lock", "wait", "hold", "signal", "join"}
  /\ call \in Operation
  /\ worker \in {"none", "lock", "wait", "hold", "run", "unlock", "signal", "quit",
                 "last signal", "exited"}
  /\ had_error \in BOOLEAN

\* "Makes sure the previous work is finished": from the return of Sync, Reset
\* or End until the next Launch the hook does not run, nor will it
JobOnlyWhileLaunched ==
  main = "client" /\ call # "Launch" => status # "WORK" /\ worker # "run"

\* A thread that was created lives until End has joined it: it does not take
\* the status of before Reset for the order to finish
ThreadWhileImpl ==
  /\ impl <=> worker # "none"
  /\ worker \in {"quit", "last signal", "exited"} => call = "End"
===========================================================================
