---------------------------- MODULE SliceThread ----------------------------
(***************************************************************************)
(* libavutil/slicethread.c: a pool of worker threads that runs the jobs of *)
(* a call together with the caller, "main".  The users are libavfilter and *)
(* libswscale.                                                             *)
(*                                                                         *)
(* Workers and main meet in two ways.  Main wakes worker w through         *)
(* w->done and w->cond under w->mutex; a worker holds that mutex as long   *)
(* as it runs, and gives it up in pthread_cond_wait only.  The threads of  *)
(* a round share first_job and current_job, two atomic counters; the       *)
(* thread whose last fetch_add is the last of all ends the round: it       *)
(* returns, if it is main, or sets ctx->done under done_mutex.             *)
(*                                                                         *)
(* A critical section that cannot block inside is one action, and a        *)
(* pthread_cond_wait splits it.  A wait may end without a signal.          *)
(***************************************************************************)
EXTENDS Integers, FiniteSets

CONSTANTS MaxThreads,   \* nb_threads is up to this
          MaxJobs       \* nb_jobs of a call is up to this

ASSUME ThreadsAssumption == MaxThreads \in Nat \ {0}
ASSUME JobsAssumption == MaxJobs \in Nat \ {0}

VARIABLES
  main_func,        \* ctx->main_func # NULL, fixed
  nb_threads,       \* ctx->nb_threads; a failed creation lowers it
  nb_jobs, nb_active_threads, first_job, current_job,  \* of the running call
  ctx_done,         \* ctx->done: a worker ended the round
  finished,         \* ctx->finished: workers are to exit
  w_done,           \* w_done[w]: w->done, TRUE while w has nothing to do
  execute_main,     \* argument of the running call
  i,                \* main's loop variable
  pc,               \* where each thread is
  local,            \* the variables of run_jobs, per thread
  runs              \* history: how often this round started each job

vars == <<main_func, nb_threads, nb_jobs, nb_active_threads, first_job,
          current_job, ctx_done, finished, w_done, execute_main, i, pc,
          local, runs>>

ctx == <<main_func, nb_threads, nb_jobs, nb_active_threads, first_job,
         current_job, ctx_done, finished>>

Worker == 0 .. MaxThreads - 1
Main   == MaxThreads
Thread == Worker \cup {Main}
Job    == 0 .. MaxJobs - 1

Smaller(a, b) == IF a < b THEN a ELSE b

\* Inside run_jobs, and from there to the next wait.
Running  == {"first", "work", "next"}
Occupied == Running \cup {"report", "park"}

\* A worker holds its mutex from its wait to the next one.
MutexFree(w) == pc[w] \notin Occupied

\* How many workers a call uses (execute 199-201) and the context has
\* (create 111-113, free 236-238).
WorkersOf(n, with_main) == IF with_main THEN n ELSE n - 1
NbWorkers == WorkersOf(nb_threads, main_func)

Blank == [first |-> 0, job |-> 0, nb_jobs |-> 0, nb_active |-> 0]

Init ==
  /\ main_func \in BOOLEAN
  /\ nb_threads \in 1 .. MaxThreads
  /\ nb_jobs = 0 /\ nb_active_threads = 0 /\ first_job = 0 /\ current_job = 0
  /\ ctx_done = FALSE /\ finished = FALSE
  /\ w_done = [w \in Worker |-> FALSE]
  /\ execute_main = FALSE /\ i = 0
  /\ pc = [t \in Thread |-> IF t = Main THEN "create" ELSE "none"]
  /\ local = [t \in Thread |-> Blank]
  /\ runs = [j \in Job |-> 0]

Goto(t, place) == pc' = [pc EXCEPT ![t] = place]

\* Ends a wait on w->cond: of main when w starts, of w in a round.
Signal(t, asleep, awake) == IF pc[t] = asleep THEN [pc EXCEPT ![t] = awake] ELSE pc

-----------------------------------------------------------------------------
(* avpriv_slicethread_create, from the loop over the workers on.           *)

\* Lock w->mutex, w->done = 0, start the thread, wait for it to be ready.
CreateWorker ==
  /\ pc[Main] = "create" /\ i < NbWorkers
  /\ w_done' = [w_done EXCEPT ![i] = FALSE]
  /\ pc' = [pc EXCEPT ![Main] = "ready_wait", ![i] = "start"]
  /\ UNCHANGED <<ctx, execute_main, i, local, runs>>

\* pthread_create or an init fails: free what there is.
CreateFails ==
  /\ pc[Main] = "create" /\ i < NbWorkers
  /\ nb_threads' = IF main_func THEN i ELSE i + 1
  /\ i' = 0
  /\ Goto(Main, "free")
  /\ UNCHANGED <<main_func, nb_jobs, nb_active_threads, first_job, current_job,
                 ctx_done, finished, w_done, execute_main, local, runs>>

\* Main leaves pthread_cond_wait once the mutex is free, and tests again.
ReadyTest ==
  /\ pc[Main] = "ready" /\ MutexFree(i)
  /\ IF w_done[i] THEN Goto(Main, "create") /\ i' = i + 1
                  ELSE Goto(Main, "ready_wait") /\ UNCHANGED i
  /\ UNCHANGED <<ctx, w_done, execute_main, local, runs>>

Created == /\ pc[Main] = "create" /\ i >= NbWorkers
           /\ Goto(Main, "idle")
           /\ UNCHANGED <<ctx, w_done, execute_main, i, local, runs>>

-----------------------------------------------------------------------------
(* thread_worker.                                                          *)

\* Lock the mutex, signal the creator, w->done = 1, wait.
Start(w) ==
  /\ pc[w] = "start"
  /\ w_done' = [w_done EXCEPT ![w] = TRUE]
  /\ pc' = [Signal(Main, "ready_wait", "ready") EXCEPT ![w] = "wait"]
  /\ UNCHANGED <<ctx, execute_main, i, local, runs>>

\* Out of the wait, with the mutex: nothing to do, exit, or run jobs.
Woken(w) ==
  /\ pc[w] = "woken"
  /\ Goto(w, IF w_done[w] THEN "wait" ELSE IF finished THEN "exited" ELSE "first")
  /\ UNCHANGED <<ctx, w_done, execute_main, i, local, runs>>

\* The last thread of a round, a worker: ctx->done = 1 and signal.
ReportDone(w) ==
  /\ pc[w] = "report"
  /\ ctx_done' = TRUE
  /\ pc' = [Signal(Main, "done_wait", "done") EXCEPT ![w] = "park"]
  /\ UNCHANGED <<main_func, nb_threads, nb_jobs, nb_active_threads, first_job,
                 current_job, finished, w_done, execute_main, i, local, runs>>

\* w->done = 1, and wait.
Park(w) == /\ pc[w] = "park"
           /\ w_done' = [w_done EXCEPT ![w] = TRUE]
           /\ Goto(w, "wait")
           /\ UNCHANGED <<ctx, execute_main, i, local, runs>>

-----------------------------------------------------------------------------
(* run_jobs, by a worker or by main.                                       *)

\* Variant with a bug: reads first_job without incrementing it.
TakeFirstShared(t) ==
  /\ pc[t] = "first"
  /\ local' = [local EXCEPT ![t] = [first |-> first_job, job |-> first_job,
                        nb_jobs |-> nb_jobs, nb_active |-> nb_active_threads]]
  /\ runs' = [runs EXCEPT ![first_job] = @ + 1]
  /\ Goto(t, "work")
  /\ UNCHANGED <<ctx, w_done, execute_main, i>>

TakeFirst(t) ==
  /\ pc[t] = "first"
  /\ local' = [local EXCEPT ![t] = [first |-> first_job, job |-> first_job,
                        nb_jobs |-> nb_jobs, nb_active |-> nb_active_threads]]
  /\ first_job' = first_job + 1
  /\ runs' = [runs EXCEPT ![first_job] = @ + 1]
  /\ Goto(t, "work")
  /\ UNCHANGED <<main_func, nb_threads, nb_jobs, nb_active_threads, current_job,
                 ctx_done, finished, w_done, execute_main, i>>

\* worker_func returns.
JobDone(t) == /\ pc[t] = "work"
              /\ Goto(t, "next")
              /\ UNCHANGED <<ctx, w_done, execute_main, i, local, runs>>

\* Variants with a bug: off by one, in either direction.
IsLastEarly(t) == current_job = local[t].nb_jobs + local[t].nb_active - 2
IsLastLate(t) == current_job = local[t].nb_jobs + local[t].nb_active

\* Does this fetch_add end the round?
IsLast(t) == current_job = local[t].nb_jobs + local[t].nb_active - 1

TakeNext(t) ==
  /\ pc[t] = "next"
  /\ current_job' = current_job + 1
  /\ IF current_job < local[t].nb_jobs
       THEN /\ local' = [local EXCEPT ![t].job = current_job]
            /\ runs' = [runs EXCEPT ![current_job] = @ + 1]
            /\ Goto(t, "work")
       ELSE /\ Goto(t, CASE t = Main /\ IsLast(t)   -> "idle"
                        [] t = Main /\ ~IsLast(t)  -> "done"
                        [] t # Main /\ IsLast(t)   -> "report"
                        [] t # Main /\ ~IsLast(t)  -> "park")
            /\ local' = [local EXCEPT ![t] = Blank]
            /\ UNCHANGED runs
  /\ UNCHANGED <<main_func, nb_threads, nb_jobs, nb_active_threads, first_job,
                 ctx_done, finished, w_done, execute_main, i>>

-----------------------------------------------------------------------------
(* avpriv_slicethread_execute.                                             *)

\* The call sets the round up; no lock protects these fields.  execute_main
\* says nothing to a context without main_func.
Execute ==
  /\ pc[Main] = "idle"
  /\ \E n \in 1 .. MaxJobs, with_main \in {FALSE, main_func} :
       /\ nb_jobs' = n
       /\ nb_active_threads' = Smaller(n, nb_threads)
       /\ execute_main' = with_main
  /\ first_job' = 0
  /\ current_job' = nb_active_threads'
  /\ runs' = [j \in Job |-> 0]
  /\ i' = 0
  /\ Goto(Main, "wake")
  /\ UNCHANGED <<main_func, nb_threads, ctx_done, finished, w_done, local>>

\* Lock w->mutex, w->done = 0, signal, unlock: what execute and free share.
WakeWorker ==
  /\ MutexFree(i)
  /\ w_done' = [w_done EXCEPT ![i] = FALSE]
  /\ i' = i + 1
  /\ pc' = Signal(i, "wait", "woken")

MainRunsMainFunc == main_func /\ execute_main

Wake == /\ pc[Main] = "wake"
        /\ i < WorkersOf(nb_active_threads, MainRunsMainFunc)
        /\ WakeWorker
        /\ UNCHANGED <<ctx, execute_main, local, runs>>

AllWoken == /\ pc[Main] = "wake"
            /\ i >= WorkersOf(nb_active_threads, MainRunsMainFunc)
            /\ Goto(Main, IF MainRunsMainFunc THEN "main_func" ELSE "first")
            /\ UNCHANGED <<ctx, w_done, execute_main, i, local, runs>>

\* ctx->main_func returns; main was no runner, so a worker is last.
MainFuncDone == /\ pc[Main] = "main_func"
                /\ Goto(Main, "done")
                /\ UNCHANGED <<ctx, w_done, execute_main, i, local, runs>>

\* Under done_mutex: wait for ctx->done, reset it, return.
DoneTest ==
  /\ pc[Main] = "done"
  /\ ctx_done' = FALSE
  /\ Goto(Main, IF ctx_done THEN "idle" ELSE "done_wait")
  /\ UNCHANGED <<main_func, nb_threads, nb_jobs, nb_active_threads, first_job,
                 current_job, finished, w_done, execute_main, i, local, runs>>

-----------------------------------------------------------------------------
(* avpriv_slicethread_free.                                                *)

Free == /\ pc[Main] = "idle"
        /\ i' = 0
        /\ Goto(Main, "free")
        /\ UNCHANGED <<ctx, w_done, execute_main, local, runs>>

Finish == /\ pc[Main] = "free"
          /\ finished' = TRUE
          /\ Goto(Main, "dismiss")
          /\ UNCHANGED <<main_func, nb_threads, nb_jobs, nb_active_threads, first_job,
                         current_job, ctx_done, w_done, execute_main, i, local, runs>>

Dismiss == /\ pc[Main] = "dismiss" /\ i < NbWorkers
           /\ WakeWorker
           /\ UNCHANGED <<ctx, execute_main, local, runs>>

AllDismissed == /\ pc[Main] = "dismiss" /\ i >= NbWorkers
                /\ i' = 0
                /\ Goto(Main, "join")
                /\ UNCHANGED <<ctx, w_done, execute_main, local, runs>>

Join == /\ pc[Main] = "join" /\ i < NbWorkers
        /\ pc[i] = "exited"
        /\ i' = i + 1
        /\ UNCHANGED <<ctx, w_done, execute_main, pc, local, runs>>

Freed == /\ pc[Main] = "join" /\ i >= NbWorkers
         /\ Goto(Main, "gone")
         /\ UNCHANGED <<ctx, w_done, execute_main, i, local, runs>>

Over == pc[Main] = "gone" /\ UNCHANGED vars

-----------------------------------------------------------------------------
\* pthread_cond_wait returns without a signal.
Spurious ==
  /\ \/ \E w \in Worker : pc[w] = "wait" /\ Goto(w, "woken")
     \/ pc[Main] = "ready_wait" /\ Goto(Main, "ready")
     \/ pc[Main] = "done_wait" /\ Goto(Main, "done")
  /\ UNCHANGED <<ctx, w_done, execute_main, i, local, runs>>

RunJobs(t) == TakeFirst(t) \/ JobDone(t) \/ TakeNext(t)

WorkerStep(w) == Start(w) \/ Woken(w) \/ RunJobs(w) \/ ReportDone(w) \/ Park(w)

MainStep == \/ CreateWorker \/ ReadyTest \/ Created
            \/ Wake \/ AllWoken \/ RunJobs(Main) \/ MainFuncDone \/ DoneTest
            \/ Finish \/ Dismiss \/ AllDismissed \/ Join \/ Freed

Next == \/ \E w \in Worker : WorkerStep(w)
        \/ MainStep
        \/ CreateFails \/ Execute \/ Free
        \/ Spurious \/ Over

\* The scheduler runs every thread that can run; nobody owes the caller's
\* next call, an error or a spurious wake-up.
Spec == /\ Init /\ [][Next]_vars
        /\ WF_vars(MainStep)
        /\ \A w \in Worker : WF_vars(WorkerStep(w))

-----------------------------------------------------------------------------
(* Properties.                                                             *)

\* Between two calls nothing of a round is left: no thread still reads the
\* fields that the next call writes without a lock, ctx->done is down and
\* nobody is about to raise it - it would end the next round at its start.
Quiet ==
  pc[Main] \in {"idle", "create"} =>
    /\ ~ctx_done
    /\ \A w \in Worker : pc[w] \notin Running \cup {"report"}

\* A call returns, and the destruction of the context gets all threads to
\* exit: no wake-up is lost between the two condition variables.
Returns == /\ pc[Main] = "wake" ~> pc[Main] = "idle"
           /\ pc[Main] = "free" ~> pc[Main] = "gone"
           /\ pc[Main] = "create" ~> pc[Main] \in {"idle", "gone"}

\* Together the threads are a parallel for.
Phase == CASE pc[Main] \in {"create", "ready_wait", "ready", "idle", "free",
                            "dismiss", "join"} -> "idle"
           [] pc[Main] = "gone" -> "gone"
           [] OTHER -> "round"
Loop == INSTANCE ParallelFor WITH
          phase <- Phase,
          todo  <- {j \in 0 .. nb_jobs - 1 : runs[j] = 0},
          calls <- {[thread |-> local[t].first, job |-> local[t].job] :
                      t \in {u \in Thread : pc[u] = "work"}}
LoopSpec == Loop!Spec
=============================================================================
