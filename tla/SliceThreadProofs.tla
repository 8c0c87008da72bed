------------------------- MODULE SliceThreadProofs -------------------------
(***************************************************************************)
(* Theorems about SliceThread, for any number of threads and jobs.         *)
(*                                                                         *)
(* A round ends once, and only when all its threads are through: the two   *)
(* counters say nothing of who has ended, but from nb_jobs on current_job  *)
(* counts the threads that have.  CountInv relates it to Rest, the threads *)
(* that the round still has to wait for.  WakeInv says who may sleep on    *)
(* which condition: it carries the freedom from deadlock.                  *)
(***************************************************************************)
EXTENDS SliceThread, FiniteSetTheorems, TLAPS

Place == {"none", "create", "ready_wait", "ready", "start", "wait", "woken", "first",
          "work", "next", "report", "park", "exited", "idle", "wake", "main_func",
          "done", "done_wait", "free", "dismiss", "join", "gone"}

Creating == {"create", "ready_wait", "ready"}
Round    == {"wake", "main_func", "done", "done_wait"} \cup Running

\* The workers that the running call wakes.
NbWoken == WorkersOf(nb_active_threads, MainRunsMainFunc)

\* Worker w was told to run and has not ended its part.
Active(w) == pc[w] \in Running \/ (pc[w] \in {"wait", "woken"} /\ ~w_done[w])

\* Who the round waits for: threads that run or are about to, workers that
\* main still has to wake, and main as long as it may run jobs.
RestWorker == {w \in Worker : \/ Active(w)
                              \/ pc[Main] = "wake" /\ i <= w /\ w < NbWoken}
RestMain == IF \/ pc[Main] \in Running
               \/ pc[Main] = "wake" /\ ~MainRunsMainFunc
              THEN {Main} ELSE {}
Rest == RestWorker \cup RestMain

Reporting == {w \in Worker : pc[w] = "report"}

-----------------------------------------------------------------------------
(* The inductive invariant.                                                *)

TypeOK ==
  /\ pc \in [Thread -> Place]
  /\ w_done \in [Worker -> BOOLEAN]
  /\ local \in [Thread -> [first : Int, job : Int, nb_jobs : Int, nb_active : Int]]
  /\ nb_threads \in 0 .. MaxThreads /\ i \in Nat
  /\ nb_jobs \in Nat /\ nb_active_threads \in Nat
  /\ first_job \in Nat /\ current_job \in Nat
  /\ main_func \in BOOLEAN /\ execute_main \in BOOLEAN
  /\ ctx_done \in BOOLEAN /\ finished \in BOOLEAN

\* Workers start one after the other, and main goes on when one is ready.
CreateInv ==
  pc[Main] \in Creating =>
    /\ ~ctx_done /\ ~finished /\ nb_threads > 0 /\ i <= NbWorkers
    /\ pc[Main] # "create" => i < NbWorkers
    /\ \A w \in Worker :
         /\ w < i => pc[w] \in {"wait", "woken"} /\ w_done[w]
         /\ w = i /\ pc[Main] # "create" => \/ pc[w] = "start" /\ ~w_done[w]
                                            \/ pc[w] \in {"wait", "woken"} /\ w_done[w]
         /\ w > i \/ (w = i /\ pc[Main] = "create") => pc[w] = "none"

\* All workers of the context run, and main wakes each once in a round.
PoolInv ==
  pc[Main] \in Round \cup {"idle"} =>
    /\ ~finished /\ nb_threads > 0
    /\ \A w \in Worker : pc[w] \in IF w < NbWorkers THEN {"wait", "woken"} \cup Occupied
                                                    ELSE {"none"}
    /\ pc[Main] = "wake" => \A w \in Worker : Active(w) => w < i

\* How many threads have ended their part, told from current_job.
CountInv ==
  pc[Main] \in Round =>
    /\ nb_active_threads \in 1 .. nb_jobs /\ NbWoken <= NbWorkers
    /\ \A t \in Thread : pc[t] \in {"work", "next"} =>
         local[t].nb_jobs = nb_jobs /\ local[t].nb_active = nb_active_threads
    /\ IF current_job <= nb_jobs
         THEN Cardinality(Rest) = nb_active_threads
         ELSE Cardinality(Rest) + current_job = nb_jobs + nb_active_threads

\* The end of a round is announced once, after the last thread.
TokenInv ==
  pc[Main] \in Round \cup {"idle"} =>
    /\ pc[Main] = "idle" => Rest = {}
    /\ pc[Main] = "idle" \/ Rest # {} => Reporting = {} /\ ~ctx_done
    /\ ctx_done => Reporting = {}
    /\ \A v, w \in Reporting : v = w

IInv == TypeOK /\ CreateInv /\ PoolInv /\ CountInv /\ TokenInv

-----------------------------------------------------------------------------
LEMMA Threads ==
  /\ MaxThreads \in Nat /\ MaxThreads > 0 /\ MaxJobs \in Nat
  /\ Main \in Thread /\ Main \notin Worker /\ Worker \subseteq Thread
  /\ \A t \in Thread : t # Main => t \in Worker
  /\ IsFiniteSet(Thread)
<1>1. MaxThreads \in Nat /\ MaxThreads > 0 /\ MaxJobs \in Nat
  BY ThreadsAssumption, JobsAssumption
<1>2. IsFiniteSet(Worker)
  BY <1>1, FS_Interval DEF Worker
<1>3. IsFiniteSet(Thread)
  BY <1>2, FS_AddElement DEF Thread
<1> QED
  BY <1>1, <1>3 DEF Main, Worker, Thread

LEMMA RestFinite == IsFiniteSet(Rest) /\ Cardinality(Rest) \in Nat
<1>1. Rest \subseteq Thread
  BY Threads DEF Rest, RestWorker, RestMain
<1> QED
  BY <1>1, Threads, FS_Subset, FS_CardinalityType

LEMMA RestEmpty == Rest = {} <=> Cardinality(Rest) = 0
BY RestFinite, FS_EmptySet

LEMMA RestSmaller ==
  ASSUME NEW t \in Rest
  PROVE  /\ IsFiniteSet(Rest \ {t})
         /\ Cardinality(Rest \ {t}) = Cardinality(Rest) - 1
         /\ Cardinality(Rest) = 1 => Rest \ {t} = {}
<1>1. IsFiniteSet(Rest \ {t}) /\ Cardinality(Rest \ {t}) = Cardinality(Rest) - 1
  BY RestFinite, FS_RemoveElement
<1>2. Cardinality(Rest) = 1 => Rest \ {t} = {}
  BY <1>1, FS_EmptySet
<1> QED
  BY <1>1, <1>2

-----------------------------------------------------------------------------
\* The types.
LEMMA TypeInit == Init => TypeOK
<1> SUFFICES ASSUME Init PROVE TypeOK
  OBVIOUS
<1>1. pc \in [Thread -> Place] /\ w_done \in [Worker -> BOOLEAN]
  BY DEF Init, Place
<1>2. local \in [Thread -> [first : Int, job : Int, nb_jobs : Int, nb_active : Int]]
  BY DEF Init, Blank
<1>3. /\ nb_threads \in 0 .. MaxThreads /\ i \in Nat /\ nb_jobs \in Nat
      /\ nb_active_threads \in Nat /\ first_job \in Nat /\ current_job \in Nat
  BY Threads DEF Init
<1>4. main_func \in BOOLEAN /\ execute_main = FALSE /\ ctx_done = FALSE /\ finished = FALSE
  BY DEF Init
<1> QED
  BY <1>1, <1>2, <1>3, <1>4, Zenon DEF TypeOK

LEMMA TypeStep == TypeOK /\ [Next]_vars => TypeOK'
<1> SUFFICES ASSUME TypeOK, [Next]_vars PROVE TypeOK'
  OBVIOUS
<1> USE DEF TypeOK, ctx, Goto
<1>1. ASSUME pc' \in [Thread -> Place], w_done' \in [Worker -> BOOLEAN], i' \in Nat,
             UNCHANGED <<ctx, execute_main, local>>
      PROVE  TypeOK'
  BY <1>1
<1>2. \A t \in Thread : \A b \in Place : [pc EXCEPT ![t] = b] \in [Thread -> Place]
  OBVIOUS
<1>3. \A w \in Worker, b \in BOOLEAN : [w_done EXCEPT ![w] = b] \in [Worker -> BOOLEAN]
  OBVIOUS
<1>4. \A t \in Thread, a, b \in Place : Signal(t, a, b) \in [Thread -> Place]
  BY <1>2 DEF Signal
<1>5. ASSUME NEW t \in Thread, RunJobs(t) PROVE TypeOK'
  <2>1. CASE TakeFirst(t)
    <3>1. /\ pc' \in [Thread -> Place] /\ first_job' \in Nat
          /\ local' \in [Thread -> [first : Int, job : Int, nb_jobs : Int, nb_active : Int]]
      BY <2>1 DEF TakeFirst, Place
    <3> QED
      BY <2>1, <3>1 DEF TakeFirst
  <2>2. CASE JobDone(t)
    BY <1>1, <1>2, <2>2 DEF JobDone, Place
  <2>3. CASE TakeNext(t)
    <3>1. pc' \in [Thread -> Place]
      <4>1. \E b \in {"work", "idle", "done", "report", "park"} : pc' = [pc EXCEPT ![t] = b]
        BY <2>3 DEF TakeNext
      <4> QED
        BY <1>2, <4>1 DEF Place
    <3>2. local' \in [Thread -> [first : Int, job : Int, nb_jobs : Int, nb_active : Int]]
      BY <2>3 DEF TakeNext, Blank
    <3>3. current_job' \in Nat
      BY <2>3 DEF TakeNext
    <3> QED
      BY <2>3, <3>1, <3>2, <3>3 DEF TakeNext
  <2> QED
    BY <1>5, <2>1, <2>2, <2>3 DEF RunJobs
<1>6. ASSUME NEW w \in Worker, WorkerStep(w) PROVE TypeOK'
  <2>1. w \in Thread /\ Main \in Thread
    BY <1>6, Threads
  <2>2. CASE Start(w)
    <3>1. pc' = [Signal(Main, "ready_wait", "ready") EXCEPT ![w] = "wait"]
      BY <2>2 DEF Start
    <3>2. PICK q \in [Thread -> Place] : q = Signal(Main, "ready_wait", "ready")
      BY <1>4, <2>1 DEF Place
    <3>3. pc' \in [Thread -> Place]
      BY <2>1, <3>1, <3>2 DEF Place
    <3> QED
      BY <1>1, <1>3, <2>2, <3>3 DEF Start
  <2>3. CASE Woken(w)
    BY <1>1, <1>2, <2>1, <2>3 DEF Woken, Place
  <2>4. CASE ReportDone(w)
    <3>1. pc' = [Signal(Main, "done_wait", "done") EXCEPT ![w] = "park"]
      BY <2>4 DEF ReportDone
    <3>2. PICK q \in [Thread -> Place] : q = Signal(Main, "done_wait", "done")
      BY <1>4, <2>1 DEF Place
    <3>3. pc' \in [Thread -> Place]
      BY <2>1, <3>1, <3>2 DEF Place
    <3>4. ctx_done' = TRUE
      BY <2>4 DEF ReportDone
    <3> QED
      BY <2>4, <3>3, <3>4, Zenon DEF ReportDone
  <2>5. CASE Park(w)
    BY <1>1, <1>2, <1>3, <2>1, <2>5 DEF Park, Place
  <2> QED
    BY <1>5, <1>6, <2>1, <2>2, <2>3, <2>4, <2>5 DEF WorkerStep
<1>7. CASE CreateWorker
  <2>1. pc' \in [Thread -> Place]
    BY <1>7, Threads DEF CreateWorker, Place
  <2> QED
    BY <1>1, <1>7, <2>1 DEF CreateWorker
<1>8. CASE CreateFails
  <2>1. nb_threads' \in 0 .. MaxThreads
    BY <1>8, Threads DEF CreateFails, NbWorkers, WorkersOf
  <2>2. pc' \in [Thread -> Place] /\ i' \in Nat
    BY <1>2, <1>8, Threads DEF CreateFails, Place
  <2> QED
    BY <1>8, <2>1, <2>2 DEF CreateFails
<1>9. CASE ReadyTest \/ Created \/ AllWoken \/ MainFuncDone \/ Free \/ AllDismissed
           \/ Join \/ Freed
  <2>1. UNCHANGED <<ctx, w_done, execute_main, local>>
    BY <1>9 DEF ReadyTest, Created, AllWoken, MainFuncDone, Free, AllDismissed, Join, Freed
  <2>2. i' \in Nat
    BY <1>9 DEF ReadyTest, Created, AllWoken, MainFuncDone, Free, AllDismissed, Join, Freed
  <2>3. pc' = pc \/ \E b \in Place : pc' = [pc EXCEPT ![Main] = b]
    BY <1>9 DEF ReadyTest, Created, AllWoken, MainFuncDone, Free, AllDismissed, Join, Freed, Place
  <2>4. pc' \in [Thread -> Place]
    BY <1>2, <2>3, Threads
  <2> QED
    BY <1>1, <2>1, <2>2, <2>4
<1>10. CASE Execute
  <2>1. PICK n \in 1 .. MaxJobs : nb_jobs' = n /\ nb_active_threads' = Smaller(n, nb_threads)
    BY <1>10 DEF Execute
  <2>2. nb_jobs' \in Nat /\ nb_active_threads' \in Nat
    BY <2>1, Threads DEF Smaller
  <2>3. current_job' \in Nat /\ first_job' \in Nat /\ i' \in Nat
    BY <1>10, <2>2 DEF Execute
  <2>4. pc' \in [Thread -> Place]
    BY <1>2, <1>10, Threads DEF Execute, Place
  <2>5. execute_main' \in {FALSE, main_func}
    BY <1>10 DEF Execute
  <2>6. execute_main' \in BOOLEAN
    BY <2>5, Zenon
  <2> QED
    BY <1>10, <2>2, <2>3, <2>4, <2>6 DEF Execute
<1>11. CASE Wake \/ Dismiss
  <2>1. WakeWorker
    BY <1>11 DEF Wake, Dismiss
  <2>2. UNCHANGED <<ctx, execute_main, local>>
    BY <1>11 DEF Wake, Dismiss
  <2>3. w_done' = [w_done EXCEPT ![i] = FALSE] /\ i' = i + 1 /\ pc' = Signal(i, "wait", "woken")
    BY <2>1 DEF WakeWorker
  <2>4. pc' \in [Thread -> Place]
    BY <2>3 DEF Signal, Place
  <2>5. w_done' \in [Worker -> BOOLEAN]
    BY <2>3
  <2>6. i' \in Nat
    BY <2>3
  <2> QED
    BY <1>1, <2>2, <2>4, <2>5, <2>6
<1>12. CASE DoneTest
  <2>1. pc' \in [Thread -> Place]
    BY <1>2, <1>12, Threads DEF DoneTest, Place
  <2>2. ctx_done' = FALSE
    BY <1>12 DEF DoneTest
  <2> QED
    BY <1>12, <2>1, <2>2, Zenon DEF DoneTest
<1>13. CASE Finish
  <2>1. pc' \in [Thread -> Place]
    BY <1>2, <1>13, Threads DEF Finish, Place
  <2>2. finished' = TRUE
    BY <1>13 DEF Finish
  <2> QED
    BY <1>13, <2>1, <2>2, Zenon DEF Finish
<1>14. CASE Spurious
  <2>1. \E t \in Thread, b \in Place : pc' = [pc EXCEPT ![t] = b]
    BY <1>14, Threads DEF Spurious, Place
  <2>2. pc' \in [Thread -> Place]
    BY <1>2, <2>1
  <2> QED
    BY <1>1, <1>14, <2>2 DEF Spurious
<1>15. CASE UNCHANGED vars
  BY <1>15 DEF vars
<1> QED
  BY <1>5, <1>6, <1>7, <1>8, <1>9, <1>10, <1>11, <1>12, <1>13, <1>14, <1>15, Threads
  DEF Next, MainStep, Over

-----------------------------------------------------------------------------
(* Until the workers are created.                                          *)

\* Which steps there are while main is where it is.
LEMMA StepsOf ==
  ASSUME TypeOK, Next
  PROVE  /\ pc[Main] \in Creating =>
              \/ CreateWorker \/ CreateFails \/ ReadyTest \/ Created \/ Spurious
              \/ \E w \in Worker : WorkerStep(w)
         /\ pc[Main] \in Round \cup {"idle"} =>
              \/ Execute \/ Free \/ Wake \/ AllWoken \/ RunJobs(Main) \/ MainFuncDone
              \/ DoneTest \/ Spurious \/ \E w \in Worker : WorkerStep(w)
         /\ pc[Main] \notin Creating \cup Round \cup {"idle"} =>
              pc'[Main] \notin Creating \cup Round \cup {"idle"}
<1> USE DEF Next, MainStep, Creating, Round, Running
<1>1. pc[Main] \in Creating => ~RunJobs(Main)
  BY DEF RunJobs, TakeFirst, JobDone, TakeNext
<1>2. pc[Main] \in Creating => ~(Wake \/ AllWoken \/ MainFuncDone \/ DoneTest \/ Finish
                                  \/ Dismiss \/ AllDismissed \/ Join \/ Freed
                                  \/ Execute \/ Free \/ Over)
  BY DEF Wake, AllWoken, MainFuncDone, DoneTest, Finish, Dismiss, AllDismissed, Join, Freed,
         Execute, Free, Over
<1>3. pc[Main] \in Round \cup {"idle"} =>
        ~(CreateWorker \/ ReadyTest \/ Created \/ CreateFails \/ Finish \/ Dismiss
          \/ AllDismissed \/ Join \/ Freed \/ Over)
  BY DEF CreateWorker, ReadyTest, Created, CreateFails, Finish, Dismiss, AllDismissed,
         Join, Freed, Over
<1>4. ASSUME pc[Main] \notin Creating \cup Round \cup {"idle"}
      PROVE  pc'[Main] \notin Creating \cup Round \cup {"idle"}
  <2>1. ~(CreateWorker \/ ReadyTest \/ Created \/ CreateFails \/ Wake \/ AllWoken
          \/ MainFuncDone \/ DoneTest \/ Execute \/ Free)
    BY <1>4 DEF CreateWorker, ReadyTest, Created, CreateFails, Wake, AllWoken,
       MainFuncDone, DoneTest, Execute, Free
  <2>2. ~RunJobs(Main)
    BY <1>4 DEF RunJobs, TakeFirst, JobDone, TakeNext
  <2>3. CASE Finish \/ AllDismissed \/ Join \/ Freed \/ Over
    BY <1>4, <2>3, Threads DEF Finish, AllDismissed, Join, Freed, Over, Goto, TypeOK, vars
  <2>4. CASE Dismiss
    <3>1. pc' = pc \/ (pc[i] = "wait" /\ pc' = [pc EXCEPT ![i] = "woken"])
      BY <2>4 DEF Dismiss, WakeWorker, Signal
    <3> QED
      BY <1>4, <2>4, <3>1, Threads DEF TypeOK, Dismiss
  <2>5. CASE Spurious
    BY <1>4, <2>5, Threads DEF Spurious, Goto, TypeOK
  <2>6. ASSUME NEW w \in Worker, WorkerStep(w) PROVE pc'[Main] = pc[Main]
    <3>1. w # Main /\ w \in Thread /\ Main \in Thread
      BY Threads
    <3>2. CASE Start(w)
      BY <1>4, <3>1, <3>2 DEF Start, Signal, TypeOK
    <3>3. CASE ReportDone(w)
      BY <1>4, <3>1, <3>3 DEF ReportDone, Signal, TypeOK
    <3>4. CASE Woken(w) \/ Park(w) \/ RunJobs(w)
      <4>1. \E b : pc' = [pc EXCEPT ![w] = b]
        BY <3>4 DEF Woken, Park, RunJobs, TakeFirst, JobDone, TakeNext, Goto
      <4> QED
        BY <3>1, <4>1 DEF TypeOK
    <3> QED
      BY <2>6, <3>2, <3>3, <3>4 DEF WorkerStep
  <2> QED
    BY <1>4, <2>1, <2>2, <2>3, <2>4, <2>5, <2>6
<1> QED
  BY <1>1, <1>2, <1>3, <1>4

LEMMA Sizes ==
  ASSUME TypeOK
  PROVE  /\ NbWorkers \in Int /\ NbWorkers <= MaxThreads
         /\ i < NbWorkers => i \in Worker /\ i # Main
         /\ \A w \in Worker : w \in Nat /\ w < MaxThreads
BY Threads DEF TypeOK, NbWorkers, WorkersOf, Worker, Main

LEMMA CreateStep ==
  ASSUME TypeOK, CreateInv, pc[Main] \in Creating, Next, TypeOK'
  PROVE  CreateInv' /\ PoolInv' /\ CountInv' /\ TokenInv'
<1> DEFINE Same == UNCHANGED <<nb_threads, main_func, ctx_done, finished>>
<1>1. /\ ~ctx_done /\ ~finished /\ nb_threads > 0 /\ i <= NbWorkers /\ i \in Nat
      /\ pc[Main] # "create" => i < NbWorkers
      /\ \A w \in Worker :
           /\ w < i => pc[w] \in {"wait", "woken"} /\ w_done[w]
           /\ w = i /\ pc[Main] # "create" => \/ pc[w] = "start" /\ ~w_done[w]
                                              \/ pc[w] \in {"wait", "woken"} /\ w_done[w]
           /\ w > i \/ (w = i /\ pc[Main] = "create") => pc[w] = "none"
      /\ pc \in [Thread -> Place] /\ w_done \in [Worker -> BOOLEAN]
  BY DEF CreateInv, TypeOK
<1>2. \A w \in Worker : pc[w] \in {"none", "start", "wait", "woken"}
  BY <1>1, Sizes
<1>3. ASSUME pc'[Main] \in Creating, Same, CreateInv'
      PROVE  CreateInv' /\ PoolInv' /\ CountInv' /\ TokenInv'
  BY <1>3 DEF PoolInv, CountInv, TokenInv, Creating, Round, Running
<1>4. ASSUME Same PROVE NbWorkers' = NbWorkers
  BY <1>4 DEF NbWorkers, WorkersOf
<1>5. CASE CreateWorker
  <2>1. /\ pc[Main] = "create" /\ i < NbWorkers /\ i \in Worker /\ i # Main /\ Same
        /\ w_done' = [w_done EXCEPT ![i] = FALSE] /\ i' = i
        /\ pc' = [pc EXCEPT ![Main] = "ready_wait", ![i] = "start"]
    BY <1>5, Sizes DEF CreateWorker, ctx
  <2>2. /\ pc'[Main] = "ready_wait"
        /\ \A w \in Worker : pc'[w] = IF w = i THEN "start" ELSE pc[w]
        /\ \A w \in Worker : w_done'[w] = IF w = i THEN FALSE ELSE w_done[w]
    BY <1>1, <2>1, Threads
  <2>3. CreateInv'
    BY <1>1, <1>4, <2>1, <2>2, Sizes DEF CreateInv, Creating
  <2> QED
    BY <1>3, <2>1, <2>2, <2>3 DEF Creating
<1>6. CASE CreateFails
  <2>1. pc'[Main] = "free"
    BY <1>1, <1>6, Threads DEF CreateFails, Goto
  <2> QED
    BY <2>1 DEF CreateInv, PoolInv, CountInv, TokenInv, Creating, Round, Running
<1>7. CASE ReadyTest
  <2>1. /\ pc[Main] = "ready" /\ i < NbWorkers /\ i \in Worker /\ i # Main /\ Same
        /\ w_done' = w_done
        /\ \/ w_done[i] /\ pc' = [pc EXCEPT ![Main] = "create"] /\ i' = i + 1
           \/ ~w_done[i] /\ pc' = [pc EXCEPT ![Main] = "ready_wait"] /\ i' = i
    BY <1>1, <1>7, Sizes DEF ReadyTest, ctx, Goto
  <2>2. \A w \in Worker : pc'[w] = pc[w]
    BY <1>1, <2>1, Threads
  <2>3. pc'[Main] = IF w_done[i] THEN "create" ELSE "ready_wait"
    BY <1>1, <2>1, Threads
  <2>4. CreateInv'
    BY <1>1, <1>4, <2>1, <2>2, <2>3, Sizes DEF CreateInv, Creating
  <2> QED
    BY <1>3, <2>1, <2>3, <2>4 DEF Creating
<1>8. CASE Created
  <2>1. /\ i = NbWorkers /\ Same /\ w_done' = w_done /\ i' = i /\ pc[Main] = "create"
        /\ pc' = [pc EXCEPT ![Main] = "idle"]
    BY <1>1, <1>8, Sizes DEF Created, ctx, Goto
  <2>2. pc'[Main] = "idle" /\ \A w \in Worker : pc'[w] = pc[w]
    BY <1>1, <2>1, Threads
  <2>3. \A w \in Worker : IF w < NbWorkers THEN pc[w] \in {"wait", "woken"} /\ w_done[w]
                                           ELSE pc[w] = "none"
    BY <1>1, <2>1, Sizes
  <2>4. PoolInv'
    BY <1>1, <1>4, <2>1, <2>2, <2>3 DEF PoolInv
  <2>5. Reporting' = {} /\ RestWorker' = {} /\ RestMain' = {}
    BY <2>1, <2>2, <2>3 DEF Reporting, RestWorker, RestMain, Active, Running
  <2>6. TokenInv'
    BY <1>1, <2>1, <2>5 DEF TokenInv, Rest
  <2> QED
    BY <2>2, <2>4, <2>6 DEF CreateInv, CountInv, Creating, Round, Running
<1>9. CASE Spurious
  <2>1. Same /\ w_done' = w_done /\ i' = i
    BY <1>9 DEF Spurious, ctx
  <2>2. /\ \A w \in Worker : pc'[w] = pc[w] \/ (pc[w] = "wait" /\ pc'[w] = "woken")
        /\ pc'[Main] = pc[Main] \/ (pc[Main] = "ready_wait" /\ pc'[Main] = "ready")
    <3>1. \/ \E w \in Worker : pc[w] = "wait" /\ pc' = [pc EXCEPT ![w] = "woken"]
          \/ pc[Main] = "ready_wait" /\ pc' = [pc EXCEPT ![Main] = "ready"]
      BY <1>9 DEF Spurious, Goto, Creating
    <3> QED
      BY <1>1, <3>1, Threads
  <2>3. CreateInv'
    BY <1>1, <1>4, <2>1, <2>2, Sizes DEF CreateInv, Creating
  <2> QED
    BY <1>3, <2>1, <2>2, <2>3 DEF Creating
<1>10. ASSUME NEW w \in Worker, WorkerStep(w)
       PROVE  CreateInv' /\ PoolInv' /\ CountInv' /\ TokenInv'
  <2>0. w # Main /\ w \in Thread /\ Main \in Thread /\ w \in Nat
    BY Threads, Sizes
  <2>1. CASE Start(w)
    <3>1. /\ pc[w] = "start" /\ Same /\ i' = i
          /\ w_done' = [w_done EXCEPT ![w] = TRUE]
          /\ pc' = [Signal(Main, "ready_wait", "ready") EXCEPT ![w] = "wait"]
      BY <2>1 DEF Start, ctx
    <3>2. /\ \A v \in Worker : pc'[v] = IF v = w THEN "wait" ELSE pc[v]
          /\ \A v \in Worker : w_done'[v] = IF v = w THEN TRUE ELSE w_done[v]
          /\ pc'[Main] = pc[Main] \/ (pc[Main] = "ready_wait" /\ pc'[Main] = "ready")
      BY <1>1, <2>0, <3>1, Threads DEF Signal
    <3>3. w = i /\ pc[Main] # "create"
      BY <1>1, <2>0, <3>1
    <3>4. CreateInv'
      BY <1>1, <1>4, <3>1, <3>2, <3>3, Sizes DEF CreateInv, Creating
    <3> QED
      BY <1>3, <3>1, <3>2, <3>4 DEF Creating
  <2>2. CASE Woken(w)
    <3>1. pc[w] = "woken" /\ w_done[w]
      BY <1>1, <2>0, <2>2 DEF Woken
    <3>2. Same /\ w_done' = w_done /\ i' = i /\ pc' = [pc EXCEPT ![w] = "wait"]
      BY <2>2, <3>1 DEF Woken, ctx, Goto
    <3>3. /\ \A v \in Worker : pc'[v] = IF v = w THEN "wait" ELSE pc[v]
          /\ pc'[Main] = pc[Main]
      BY <1>1, <2>0, <3>2
    <3>4. CreateInv'
      BY <1>1, <1>4, <2>0, <3>1, <3>2, <3>3, Sizes DEF CreateInv, Creating
    <3> QED
      BY <1>3, <3>2, <3>3, <3>4 DEF Creating
  <2>3. ~(RunJobs(w) \/ ReportDone(w) \/ Park(w))
    BY <1>2 DEF RunJobs, TakeFirst, JobDone, TakeNext, ReportDone, Park
  <2> QED
    BY <1>10, <2>1, <2>2, <2>3 DEF WorkerStep
<1> QED
  BY <1>5, <1>6, <1>7, <1>8, <1>9, <1>10, StepsOf

-----------------------------------------------------------------------------
(* Steps of a round.                                                       *)

InRound == pc[Main] \in Round \cup {"idle"}
Settled(p) == p \in {"wait", "woken"} \cup Occupied

\* What a round takes from its context stays as it is.
Setup == <<main_func, nb_threads, nb_jobs, nb_active_threads, finished, execute_main>>

LEMMA SetupSame ==
  ASSUME UNCHANGED Setup
  PROVE  /\ NbWorkers' = NbWorkers /\ NbWoken' = NbWoken
         /\ MainRunsMainFunc' = MainRunsMainFunc
BY DEF Setup, NbWorkers, NbWoken, WorkersOf, MainRunsMainFunc

\* Steps after which the round waits for the same threads, and nothing is
\* announced or taken back.
LEMMA QuietStep ==
  ASSUME IInv, InRound, TypeOK', UNCHANGED Setup, pc'[Main] \in Round \cup {"idle"},
         pc'[Main] = "idle" <=> pc[Main] = "idle",
         pc'[Main] = "wake" => pc[Main] = "wake" /\ i <= i'
                               /\ \A w \in Worker : Active(w)' => Active(w) \/ w < i',
         \A w \in Worker : pc'[w] = pc[w] \/ (Settled(pc[w]) /\ Settled(pc'[w])),
         \A t \in Thread : pc'[t] \in {"work", "next"} =>
            local'[t].nb_jobs = nb_jobs /\ local'[t].nb_active = nb_active_threads,
         current_job' = current_job \/ (current_job' = current_job + 1 /\ current_job < nb_jobs),
         UNCHANGED <<ctx_done, Rest, Reporting>>
  PROVE  IInv' /\ Rest' = Rest
<1>1. /\ TypeOK /\ PoolInv /\ CountInv /\ TokenInv
      /\ NbWorkers' = NbWorkers /\ NbWoken' = NbWoken
      /\ UNCHANGED <<nb_threads, nb_jobs, nb_active_threads, finished>>
  BY SetupSame DEF IInv, Setup
<1>2. CreateInv'
  BY DEF CreateInv, Creating, Round, Running
<1>3. PoolInv'
  <2>1. \A w \in Worker : pc'[w] \in IF w < NbWorkers' THEN {"wait", "woken"} \cup Occupied
                                                      ELSE {"none"}
    BY <1>1 DEF PoolInv, InRound, Occupied, Running, Settled
  <2>2. pc'[Main] = "wake" => \A w \in Worker : Active(w)' => w < i'
    BY <1>1, Sizes DEF PoolInv, InRound, TypeOK
  <2> QED
    BY <1>1, <2>1, <2>2 DEF PoolInv, InRound
<1>4. CountInv'
  <2>1. SUFFICES ASSUME pc'[Main] \in Round PROVE CountInv'
    BY DEF CountInv
  <2>2. pc[Main] \in Round
    BY <2>1 DEF InRound, Round, Running
  <2>3. IF current_job' <= nb_jobs' THEN Cardinality(Rest') = nb_active_threads'
        ELSE Cardinality(Rest') + current_job' = nb_jobs' + nb_active_threads'
    <3>1. IF current_job <= nb_jobs
            THEN Cardinality(Rest) = nb_active_threads
            ELSE Cardinality(Rest) + current_job = nb_jobs + nb_active_threads
      BY <1>1, <2>2 DEF CountInv
    <3>2. current_job \in Nat /\ nb_jobs \in Nat /\ nb_active_threads \in Nat
      BY <1>1 DEF TypeOK
    <3> QED
      BY <1>1, <3>1, <3>2, RestFinite
  <2> QED
    BY <1>1, <2>2, <2>3 DEF CountInv
<1>5. TokenInv'
  BY <1>1 DEF TokenInv, InRound
<1> QED
  BY <1>2, <1>3, <1>4, <1>5 DEF IInv

\* Worker w moves and main stays.
LEMMA WorkerMoves ==
  ASSUME TypeOK, InRound, NEW w \in Worker, NEW b \in Place, pc' = [pc EXCEPT ![w] = b],
         UNCHANGED <<main_func, nb_active_threads, execute_main, i>>,
         w_done' \in [Worker -> BOOLEAN], \A v \in Worker \ {w} : w_done'[v] = w_done[v]
  PROVE  /\ \A t \in Thread : pc'[t] = IF t = w THEN b ELSE pc[t]
         /\ pc'[Main] = pc[Main] /\ RestMain' = RestMain
         /\ \A v \in Worker \ {w} : Active(v)' <=> Active(v)
         /\ Active(w)' <=> b \in Running \/ (b \in {"wait", "woken"} /\ ~w_done'[w])
         /\ (Active(w)' <=> Active(w)) => Rest' = Rest
         /\ Active(w) /\ ~Active(w)' /\ (pc[Main] = "wake" => w < i) =>
              Rest' = Rest \ {w} /\ w \in Rest
         /\ Reporting' = IF b = "report" THEN Reporting \cup {w} ELSE Reporting \ {w}
<1>1. /\ \A t \in Thread : pc'[t] = IF t = w THEN b ELSE pc[t]
      /\ pc'[Main] = pc[Main] /\ w # Main /\ w \in Thread
  BY Threads DEF TypeOK
<1>2. /\ MainRunsMainFunc' = MainRunsMainFunc /\ NbWoken' = NbWoken
  BY DEF MainRunsMainFunc, NbWoken, WorkersOf
<1>3. RestMain' = RestMain
  BY <1>1, <1>2 DEF RestMain
<1>4. \A v \in Worker \ {w} : Active(v)' <=> Active(v)
  BY <1>1, Threads DEF Active
<1>5. Active(w)' <=> b \in Running \/ (b \in {"wait", "woken"} /\ ~w_done'[w])
  BY <1>1 DEF Active
<1>6. ASSUME Active(w)' <=> Active(w) PROVE Rest' = Rest
  <2>1. RestWorker' = RestWorker
    BY <1>1, <1>2, <1>4, <1>6 DEF RestWorker
  <2> QED
    BY <1>3, <2>1 DEF Rest
<1>7. ASSUME Active(w), ~Active(w)', pc[Main] = "wake" => w < i
      PROVE  Rest' = Rest \ {w} /\ w \in Rest
  <2>1. ~(pc[Main] = "wake" /\ i <= w /\ w < NbWoken)
    BY <1>7, Sizes DEF TypeOK
  <2>2. RestWorker' = RestWorker \ {w} /\ w \in RestWorker
    BY <1>1, <1>2, <1>4, <1>7, <2>1 DEF RestWorker
  <2> QED
    BY <1>1, <1>3, <2>2 DEF Rest, RestMain
<1>8. Reporting' = IF b = "report" THEN Reporting \cup {w} ELSE Reporting \ {w}
  BY <1>1, Threads DEF Reporting
<1> QED
  BY <1>1, <1>3, <1>4, <1>5, <1>6, <1>7, <1>8

\* In a round: what the invariant says of a worker that runs jobs.
LEMMA WorkerFacts ==
  ASSUME IInv, InRound, NEW w \in Worker
  PROVE  /\ w \in Thread /\ w # Main /\ pc[w] \in Place /\ ~finished
         /\ w < NbWorkers => pc[w] \in {"wait", "woken"} \cup Occupied
         /\ pc[w] \in {"none", "wait", "woken"} \cup Occupied
         /\ pc[Main] = "wake" /\ Active(w) => w < i
         /\ Active(w) => w \in Rest /\ pc[Main] # "idle" /\ Reporting = {} /\ ~ctx_done
<1>1. /\ w \in Thread /\ w # Main /\ pc[w] \in Place
  BY Threads DEF IInv, TypeOK
<1>2. Active(w) => w \in Rest
  BY DEF Rest, RestWorker
<1>3. pc[w] \in IF w < NbWorkers THEN {"wait", "woken"} \cup Occupied ELSE {"none"}
  BY DEF IInv, PoolInv, InRound
<1> QED
  BY <1>1, <1>2, <1>3 DEF IInv, PoolInv, TokenInv, InRound

LEMMA FirstStep ==
  ASSUME IInv, InRound, TypeOK', NEW t \in Thread, TakeFirst(t) \/ JobDone(t)
  PROVE  IInv' /\ Rest' = Rest
<1>1. /\ UNCHANGED Setup /\ UNCHANGED <<i, w_done, ctx_done, current_job>>
      /\ \/ pc[t] = "first" /\ pc' = [pc EXCEPT ![t] = "work"]
            /\ local' = [local EXCEPT ![t] =
                 [first |-> first_job, job |-> first_job,
                  nb_jobs |-> nb_jobs, nb_active |-> nb_active_threads]]
         \/ pc[t] = "work" /\ pc' = [pc EXCEPT ![t] = "next"] /\ local' = local
  BY DEF TakeFirst, JobDone, Goto, Setup, ctx
<1>2. PICK b \in {"work", "next"} : pc' = [pc EXCEPT ![t] = b]
  BY <1>1
<1>3. TypeOK /\ b \in Place /\ pc[t] \in Running
  BY <1>1 DEF IInv, Place, Running
<1>4. \A u \in Thread : pc'[u] = IF u = t THEN b ELSE pc[u]
  BY <1>2, <1>3 DEF TypeOK
<1>5. pc[Main] \in Round
  <2>1. CASE t = Main
    BY <1>3, <2>1 DEF Round
  <2>2. CASE t # Main
    BY <1>3, <2>2, Threads, WorkerFacts DEF Active, InRound
  <2> QED
    BY <2>1, <2>2
<1>6. \A u \in Thread : pc'[u] \in {"work", "next"} =>
        local'[u].nb_jobs = nb_jobs /\ local'[u].nb_active = nb_active_threads
  <2>1. SUFFICES ASSUME NEW u \in Thread, pc'[u] \in {"work", "next"}
                 PROVE  local'[u].nb_jobs = nb_jobs /\ local'[u].nb_active = nb_active_threads
    OBVIOUS
  <2>2. pc[u] \in {"work", "next"} =>
          local[u].nb_jobs = nb_jobs /\ local[u].nb_active = nb_active_threads
    BY <1>5 DEF IInv, CountInv
  <2> QED
    BY <1>1, <1>3, <1>4, <2>1, <2>2 DEF TypeOK
<1>7. \A w \in Worker : pc'[w] = pc[w] \/ (Settled(pc[w]) /\ Settled(pc'[w]))
  BY <1>3, <1>4, Threads DEF Occupied, Running, Settled
<1>8. /\ pc'[Main] \in Round /\ (pc'[Main] = "wake" => pc[Main] = "wake")
      /\ UNCHANGED <<Rest, Reporting>>
      /\ \A w \in Worker : Active(w)' => Active(w)
  <2>1. CASE t = Main
    <3>1. pc'[Main] \in Running /\ pc[Main] \in Running /\ \A w \in Worker : pc'[w] = pc[w]
      BY <1>2, <1>3, <1>4, <2>1, Threads DEF Running
    <3>2. \A w \in Worker : Active(w)' <=> Active(w)
      BY <1>1, <3>1 DEF Active
    <3>3. RestMain' = RestMain /\ RestWorker' = RestWorker /\ Reporting' = Reporting
      BY <3>1, <3>2 DEF RestMain, RestWorker, Reporting, Running
    <3> QED
      BY <3>1, <3>2, <3>3 DEF Rest, Round, Running
  <2>2. CASE t # Main
    <3>1. t \in Worker /\ Active(t) /\ b \in Running /\ b # "report" /\ t \notin Reporting
      BY <1>2, <1>3, <2>2, Threads DEF Active, Running, Reporting
    <3>2. /\ UNCHANGED <<main_func, nb_active_threads, execute_main, i>>
          /\ w_done' = w_done /\ w_done \in [Worker -> BOOLEAN]
      BY <1>1 DEF Setup, IInv, TypeOK
    <3>3. /\ pc'[Main] = pc[Main] /\ \A v \in Worker \ {t} : Active(v)' <=> Active(v)
          /\ Active(t)' <=> b \in Running \/ (b \in {"wait", "woken"} /\ ~w_done'[t])
          /\ (Active(t)' <=> Active(t)) => Rest' = Rest
          /\ Reporting' = IF b = "report" THEN Reporting \cup {t} ELSE Reporting \ {t}
      BY <1>1, <1>2, <1>3, <3>1, <3>2, WorkerMoves
    <3>4. /\ pc'[Main] = pc[Main] /\ (Active(t)' <=> Active(t)) /\ Rest' = Rest
          /\ Reporting' = Reporting /\ \A v \in Worker \ {t} : Active(v)' <=> Active(v)
      BY <3>1, <3>3
    <3> QED
      BY <1>5, <3>4
  <2> QED
    BY <2>1, <2>2
<1>9. pc'[Main] # "idle" /\ pc[Main] # "idle" /\ i <= i' /\ pc'[Main] \in Round \cup {"idle"}
  <2>1. i' = i /\ i \in Nat
    BY <1>1, <1>3 DEF TypeOK
  <2> QED
    BY <1>5, <1>8, <2>1 DEF Round, Running
<1> QED
  BY <1>1, <1>6, <1>7, <1>8, <1>9, QuietStep

\* A thread that gets another job.
LEMMA AnotherJob ==
  ASSUME IInv, InRound, TypeOK', NEW t \in Thread, TakeNext(t), current_job < local[t].nb_jobs
  PROVE  IInv' /\ Rest' = Rest
<1>1. /\ UNCHANGED Setup /\ UNCHANGED <<i, w_done, ctx_done>>
      /\ current_job' = current_job + 1 /\ pc[t] = "next"
      /\ pc' = [pc EXCEPT ![t] = "work"] /\ local' = [local EXCEPT ![t].job = current_job]
  BY DEF TakeNext, Goto, Setup
<1>2. TypeOK /\ "work" \in Place /\ pc[t] \in Running
  BY <1>1 DEF IInv, Place, Running
<1>3. \A u \in Thread : pc'[u] = IF u = t THEN "work" ELSE pc[u]
  BY <1>1, <1>2 DEF TypeOK
<1>4. pc[Main] \in Round
  <2>1. CASE t = Main
    BY <1>2, <2>1 DEF Round
  <2>2. CASE t # Main
    BY <1>2, <2>2, Threads, WorkerFacts DEF Active, InRound
  <2> QED
    BY <2>1, <2>2
<1>5. \A u \in Thread : pc'[u] \in {"work", "next"} =>
        local'[u].nb_jobs = nb_jobs /\ local'[u].nb_active = nb_active_threads
  <2>1. SUFFICES ASSUME NEW u \in Thread, pc'[u] \in {"work", "next"}
                 PROVE  local'[u].nb_jobs = nb_jobs /\ local'[u].nb_active = nb_active_threads
    OBVIOUS
  <2>2. pc[u] \in {"work", "next"}
    BY <1>1, <1>3, <2>1
  <2>3. local[u].nb_jobs = nb_jobs /\ local[u].nb_active = nb_active_threads
    BY <1>4, <2>2 DEF IInv, CountInv
  <2>4. local'[u].nb_jobs = local[u].nb_jobs /\ local'[u].nb_active = local[u].nb_active
    BY <1>1, <1>2 DEF TypeOK
  <2> QED
    BY <2>3, <2>4
<1>6. current_job < nb_jobs
  BY <1>1, <1>4 DEF IInv, CountInv
<1>7. \A w \in Worker : pc'[w] = pc[w] \/ (Settled(pc[w]) /\ Settled(pc'[w]))
  BY <1>2, <1>3, Threads DEF Occupied, Running, Settled
<1>8. /\ pc'[Main] \in Round /\ (pc'[Main] = "wake" => pc[Main] = "wake")
      /\ UNCHANGED <<Rest, Reporting>>
      /\ \A w \in Worker : Active(w)' => Active(w)
  <2>1. CASE t = Main
    <3>1. pc'[Main] \in Running /\ pc[Main] \in Running /\ \A w \in Worker : pc'[w] = pc[w]
      BY <1>2, <1>3, <2>1, Threads DEF Running
    <3>2. \A w \in Worker : Active(w)' <=> Active(w)
      BY <1>1, <3>1 DEF Active
    <3>3. RestMain' = RestMain /\ RestWorker' = RestWorker /\ Reporting' = Reporting
      BY <3>1, <3>2 DEF RestMain, RestWorker, Reporting, Running
    <3> QED
      BY <3>1, <3>2, <3>3 DEF Rest, Round, Running
  <2>2. CASE t # Main
    <3>1. t \in Worker /\ Active(t) /\ "work" \in Running /\ t \notin Reporting
      BY <1>1, <1>2, <2>2, Threads DEF Active, Running, Reporting
    <3>2. /\ UNCHANGED <<main_func, nb_active_threads, execute_main, i>>
          /\ w_done' = w_done /\ w_done \in [Worker -> BOOLEAN]
      BY <1>1 DEF Setup, IInv, TypeOK
    <3>3. /\ pc'[Main] = pc[Main] /\ \A v \in Worker \ {t} : Active(v)' <=> Active(v)
          /\ Active(t)' <=> "work" \in Running \/ ("work" \in {"wait", "woken"} /\ ~w_done'[t])
          /\ (Active(t)' <=> Active(t)) => Rest' = Rest
          /\ Reporting' = IF "work" = "report" THEN Reporting \cup {t} ELSE Reporting \ {t}
      BY <1>1, <1>2, <3>1, <3>2, WorkerMoves
    <3>4. /\ pc'[Main] = pc[Main] /\ (Active(t)' <=> Active(t)) /\ Rest' = Rest
          /\ Reporting' = Reporting /\ \A v \in Worker \ {t} : Active(v)' <=> Active(v)
      BY <3>1, <3>3
    <3> QED
      BY <1>4, <3>4
  <2> QED
    BY <2>1, <2>2
<1>9. pc'[Main] # "idle" /\ pc[Main] # "idle" /\ i <= i' /\ pc'[Main] \in Round \cup {"idle"}
  <2>1. i' = i /\ i \in Nat
    BY <1>1, <1>2 DEF TypeOK
  <2> QED
    BY <1>4, <1>8, <2>1 DEF Round, Running
<1> QED
  BY <1>1, <1>5, <1>6, <1>7, <1>8, <1>9, QuietStep

\* A thread that gets no more job ends its part, and the last one says so.
LEMMA EndStep ==
  ASSUME IInv, InRound, TypeOK', NEW t \in Thread, TakeNext(t), ~(current_job < local[t].nb_jobs)
  PROVE  IInv' /\ t \in Rest /\ Rest' = Rest \ {t}
<1>1. /\ UNCHANGED Setup /\ UNCHANGED <<i, w_done, ctx_done>>
      /\ current_job' = current_job + 1 /\ pc[t] = "next"
      /\ local' = [local EXCEPT ![t] = Blank]
      /\ pc' = [pc EXCEPT ![t] = CASE t = Main /\ IsLast(t)   -> "idle"
                                   [] t = Main /\ ~IsLast(t)  -> "done"
                                   [] t # Main /\ IsLast(t)   -> "report"
                                   [] t # Main /\ ~IsLast(t)  -> "park"]
  BY DEF TakeNext, Goto, Setup
<1>2. PICK b \in {"idle", "done", "report", "park"} :
        /\ pc' = [pc EXCEPT ![t] = b]
        /\ b = "idle" <=> (t = Main /\ IsLast(t))
        /\ b = "done" <=> (t = Main /\ ~IsLast(t))
        /\ b = "report" <=> (t # Main /\ IsLast(t))
  BY <1>1, Zenon
<1>3. TypeOK /\ b \in Place /\ pc[t] \in Running
  BY <1>1 DEF IInv, Place, Running
<1>4. \A u \in Thread : pc'[u] = IF u = t THEN b ELSE pc[u]
  BY <1>2, <1>3 DEF TypeOK
<1>5. /\ pc[Main] \in Round /\ t \in Rest /\ Rest' = Rest \ {t}
      /\ Reporting' = IF b = "report" THEN Reporting \cup {t} ELSE Reporting
      /\ \A w \in Worker : Active(w)' => Active(w)
  <2>1. CASE t = Main
    <3>1. /\ pc'[Main] \in {"idle", "done"} /\ pc[Main] \in Running
          /\ \A w \in Worker : pc'[w] = pc[w]
      BY <1>2, <1>3, <1>4, <2>1, Threads
    <3>2. \A w \in Worker : Active(w)' <=> Active(w)
      BY <1>1, <3>1 DEF Active
    <3>3. /\ RestMain = {Main} /\ RestMain' = {} /\ RestWorker' = RestWorker
          /\ Reporting' = Reporting
      BY <3>1, <3>2 DEF RestMain, RestWorker, Reporting, Running
    <3>4. Main \notin RestWorker
      BY Threads DEF RestWorker
    <3> QED
      BY <1>2, <2>1, <3>1, <3>2, <3>3, <3>4 DEF Rest, Round
  <2>2. CASE t # Main
    <3>1. t \in Worker /\ Active(t) /\ b \in {"report", "park"} /\ t \notin Reporting
      BY <1>1, <1>2, <1>3, <2>2, Threads DEF Active, Reporting
    <3>2. /\ UNCHANGED <<main_func, nb_active_threads, execute_main, i>>
          /\ w_done' = w_done /\ w_done \in [Worker -> BOOLEAN]
      BY <1>1 DEF Setup, IInv, TypeOK
    <3>3. /\ \A v \in Worker \ {t} : Active(v)' <=> Active(v)
          /\ Active(t)' <=> b \in Running \/ (b \in {"wait", "woken"} /\ ~w_done'[t])
          /\ Active(t) /\ ~Active(t)' /\ (pc[Main] = "wake" => t < i) =>
               Rest' = Rest \ {t} /\ t \in Rest
          /\ Reporting' = IF b = "report" THEN Reporting \cup {t} ELSE Reporting \ {t}
      BY <1>2, <1>3, <3>1, <3>2, WorkerMoves
    <3>4. ~Active(t)'
      BY <3>1, <3>3 DEF Running
    <3>5. (pc[Main] = "wake" => t < i) /\ pc[Main] # "idle"
      BY <3>1, WorkerFacts
    <3> QED
      BY <3>1, <3>3, <3>4, <3>5 DEF InRound
  <2> QED
    BY <2>1, <2>2
<1>6. /\ local[t].nb_jobs = nb_jobs /\ local[t].nb_active = nb_active_threads
      /\ nb_active_threads \in 1 .. nb_jobs /\ current_job >= nb_jobs
      /\ Cardinality(Rest) + current_job = nb_jobs + nb_active_threads
  <2>1. /\ local[t].nb_jobs = nb_jobs /\ local[t].nb_active = nb_active_threads
        /\ nb_active_threads \in 1 .. nb_jobs
        /\ IF current_job <= nb_jobs
              THEN Cardinality(Rest) = nb_active_threads
              ELSE Cardinality(Rest) + current_job = nb_jobs + nb_active_threads
    BY <1>1, <1>5 DEF IInv, CountInv
  <2>2. current_job \in Nat /\ nb_jobs \in Nat /\ nb_active_threads \in Nat
    BY <1>3 DEF TypeOK
  <2> QED
    BY <2>1, <2>2, RestFinite
<1>7. /\ Cardinality(Rest') = Cardinality(Rest) - 1
      /\ IsLast(t) => Rest' = {}
  <2>1. current_job \in Nat /\ nb_jobs \in Nat /\ nb_active_threads \in Nat
    BY <1>3 DEF TypeOK
  <2>2. IsLast(t) => Cardinality(Rest) = 1
    BY <1>6, <2>1, RestFinite DEF IsLast
  <2> QED
    BY <1>5, <2>2, RestSmaller
<1>8. Reporting = {} /\ ~ctx_done
  BY <1>5 DEF IInv, TokenInv
<1>9. pc'[Main] \in Round \cup {"idle"} /\ (pc'[Main] = "wake" => pc[Main] = "wake")
  BY <1>2, <1>4, <1>5, Threads DEF Round
<1>10. CreateInv'
  BY <1>9 DEF CreateInv, Creating, Round, Running
<1>11. PoolInv'
  <2>1. /\ ~finished' /\ nb_threads' > 0 /\ NbWorkers' = NbWorkers /\ i' = i
    BY <1>1, SetupSame DEF Setup, IInv, PoolInv, InRound
  <2>2. \A w \in Worker : pc'[w] \in IF w < NbWorkers THEN {"wait", "woken"} \cup Occupied
                                                      ELSE {"none"}
    <3>1. SUFFICES ASSUME NEW w \in Worker
                   PROVE  pc'[w] \in IF w < NbWorkers THEN {"wait", "woken"} \cup Occupied
                                                      ELSE {"none"}
      OBVIOUS
    <3>2. pc[w] \in IF w < NbWorkers THEN {"wait", "woken"} \cup Occupied ELSE {"none"}
      BY DEF IInv, PoolInv, InRound
    <3>3. CASE w # t
      BY <1>4, <3>2, <3>3, Threads
    <3>4. CASE w = t
      <4>1. pc'[w] \in {"report", "park"} /\ pc[w] # "none"
        BY <1>1, <1>2, <1>4, <3>4, Threads
      <4> QED
        BY <3>2, <4>1 DEF Occupied
    <3> QED
      BY <3>3, <3>4
  <2>3. pc'[Main] = "wake" => \A w \in Worker : Active(w)' => w < i
    BY <1>5, <1>9 DEF IInv, PoolInv, InRound
  <2> QED
    BY <2>1, <2>2, <2>3 DEF PoolInv
<1>12. CountInv'
  <2>1. /\ NbWoken' = NbWoken /\ NbWorkers' = NbWorkers
        /\ nb_jobs' = nb_jobs /\ nb_active_threads' = nb_active_threads
    BY <1>1, SetupSame DEF Setup
  <2>2. \A u \in Thread : pc'[u] \in {"work", "next"} =>
          local'[u].nb_jobs = nb_jobs /\ local'[u].nb_active = nb_active_threads
    <3>1. SUFFICES ASSUME NEW u \in Thread, pc'[u] \in {"work", "next"}
                   PROVE  local'[u].nb_jobs = nb_jobs /\ local'[u].nb_active = nb_active_threads
      OBVIOUS
    <3>2. u # t /\ pc[u] \in {"work", "next"}
      BY <1>2, <1>4, <3>1
    <3>3. local'[u] = local[u]
      BY <1>1, <1>3, <3>2 DEF TypeOK
    <3> QED
      BY <1>5, <3>2, <3>3 DEF IInv, CountInv
  <2>3. current_job \in Nat /\ nb_jobs \in Nat /\ nb_active_threads \in Nat
    BY <1>3 DEF TypeOK
  <2>4. Cardinality(Rest') + current_job' = nb_jobs + nb_active_threads /\ current_job' > nb_jobs
    BY <1>1, <1>6, <1>7, <2>3, RestFinite
  <2>5. nb_active_threads \in 1 .. nb_jobs /\ NbWoken <= NbWorkers
    BY <1>5 DEF IInv, CountInv
  <2>6. ~(current_job' <= nb_jobs)
    BY <1>1, <2>3, <2>4
  <2> QED
    BY <2>1, <2>2, <2>4, <2>5, <2>6 DEF CountInv
<1>13. TokenInv'
  <2>1. ~ctx_done'
    BY <1>1, <1>8
  <2>2. Reporting' \subseteq {t} /\ (Reporting' # {} => b = "report")
    BY <1>5, <1>8
  <2>3. pc'[Main] = "idle" => Rest' = {} /\ b = "idle"
    <3>1. pc'[Main] = "idle" => b = "idle"
      BY <1>4, <1>5, Threads DEF Round, Running
    <3> QED
      BY <1>2, <1>7, <3>1
  <2>4. b = "report" => Rest' = {}
    BY <1>2, <1>7
  <2>5. pc'[Main] = "idle" \/ Rest' # {} => Reporting' = {}
    BY <2>2, <2>3, <2>4
  <2> QED
    BY <2>1, <2>2, <2>3, <2>5 DEF TokenInv
<1> QED
  BY <1>5, <1>10, <1>11, <1>12, <1>13 DEF IInv

\* In a round, the arguments of the threads at work, as long as none starts.
LEMMA SameLocal ==
  ASSUME IInv, InRound, UNCHANGED local,
         \A t \in Thread : pc'[t] \in {"work", "next"} => pc[t] = pc'[t]
  PROVE  \A t \in Thread : pc'[t] \in {"work", "next"} =>
           local'[t].nb_jobs = nb_jobs /\ local'[t].nb_active = nb_active_threads
<1> SUFFICES ASSUME NEW t \in Thread, pc[t] \in {"work", "next"}
             PROVE  local[t].nb_jobs = nb_jobs /\ local[t].nb_active = nb_active_threads
  OBVIOUS
<1>1. pc[Main] \in Round
  <2>1. CASE t = Main
    BY <2>1 DEF Round, Running
  <2>2. CASE t # Main
    BY <2>2, Threads, WorkerFacts DEF Active, InRound, Running
  <2> QED
    BY <2>1, <2>2
<1> QED
  BY <1>1 DEF IInv, CountInv

\* A worker that wakes up, parks or goes back to sleep.
LEMMA PassiveStep ==
  ASSUME IInv, InRound, TypeOK', NEW w \in Worker,
         Woken(w) \/ Park(w) \/ (pc[w] = "wait" /\ pc' = [pc EXCEPT ![w] = "woken"]
                                 /\ UNCHANGED <<ctx, w_done, execute_main, i, local>>)
  PROVE  IInv' /\ Rest' = Rest
<1>0. ~finished
  BY WorkerFacts
<1>1. PICK b \in {"wait", "first", "woken"} : pc' = [pc EXCEPT ![w] = b]
  BY <1>0 DEF Woken, Park, Goto
<1>2. /\ UNCHANGED Setup /\ UNCHANGED <<i, ctx_done, current_job, local>>
  BY DEF Woken, Park, Setup, ctx
<1>3. pc[w] \in {"wait", "woken", "park"} /\ (pc[w] = "park" <=> Park(w))
  BY DEF Woken, Park
<1>4. TypeOK /\ b \in Place /\ w \notin Reporting /\ ~finished
  BY <1>3, WorkerFacts DEF IInv, Place, Reporting
<1>5. /\ w_done' \in [Worker -> BOOLEAN] /\ \A v \in Worker \ {w} : w_done'[v] = w_done[v]
  BY <1>4 DEF Woken, Park, TypeOK
<1>6. /\ \A t \in Thread : pc'[t] = IF t = w THEN b ELSE pc[t]
      /\ pc'[Main] = pc[Main]
      /\ \A v \in Worker \ {w} : Active(v)' <=> Active(v)
      /\ Active(w)' <=> b \in Running \/ (b \in {"wait", "woken"} /\ ~w_done'[w])
      /\ (Active(w)' <=> Active(w)) => Rest' = Rest
      /\ Reporting' = IF b = "report" THEN Reporting \cup {w} ELSE Reporting \ {w}
  BY ZenonT(40), <1>1, <1>2, <1>4, <1>5, WorkerMoves DEF Setup
<1>7. Active(w)' <=> Active(w)
  <2>1. CASE Park(w)
    <3>1. w_done'[w] = TRUE /\ pc'[w] = "wait" /\ pc[w] = "park"
      BY <1>4, <2>1, Threads DEF Park, Goto, TypeOK
    <3> QED
      BY <3>1 DEF Active, Running
  <2>2. CASE Woken(w)
    <3>1. /\ w_done' = w_done /\ pc[w] = "woken"
          /\ IF w_done[w] THEN b = "wait" ELSE b = "first"
      <4>1. pc' = [pc EXCEPT ![w] = IF w_done[w] THEN "wait" ELSE "first"]
        BY <1>4, <2>2 DEF Woken, Goto
      <4>2. pc'[w] = IF w_done[w] THEN "wait" ELSE "first"
        BY <1>4, <4>1, Threads DEF TypeOK
      <4> QED
        BY <1>6, <2>2, <4>2, Threads DEF Woken
    <3> QED
      BY <1>6, <3>1 DEF Active, Running
  <2>3. CASE pc[w] = "wait" /\ pc' = [pc EXCEPT ![w] = "woken"] /\ w_done' = w_done
    <3>1. pc'[w] = "woken"
      BY <1>4, <2>3, Threads DEF TypeOK
    <3> QED
      BY <2>3, <3>1 DEF Active, Running
  <2> QED
    BY <2>1, <2>2, <2>3
<1>8. UNCHANGED <<Rest, Reporting>> /\ \A v \in Worker : Active(v)' => Active(v)
  BY <1>1, <1>4, <1>6, <1>7
<1>9. \A v \in Worker : pc'[v] = pc[v] \/ (Settled(pc[v]) /\ Settled(pc'[v]))
  BY <1>3, <1>6, Threads DEF Settled, Occupied, Running
<1>10. \A t \in Thread : pc'[t] \in {"work", "next"} =>
         local'[t].nb_jobs = nb_jobs /\ local'[t].nb_active = nb_active_threads
  <2>1. \A t \in Thread : pc'[t] \in {"work", "next"} => pc[t] = pc'[t]
    BY <1>6
  <2> QED
    BY <1>2, <2>1, SameLocal
<1>11. i <= i'
  BY <1>2, <1>4 DEF TypeOK
<1> QED
  BY <1>2, <1>6, <1>8, <1>9, <1>10, <1>11, QuietStep DEF InRound

\* The last worker announces the end of the round.
LEMMA ReportStep ==
  ASSUME IInv, InRound, TypeOK', NEW w \in Worker, ReportDone(w)
  PROVE  IInv' /\ Rest' = Rest
<1>1. /\ UNCHANGED Setup /\ UNCHANGED <<i, w_done, current_job, local>>
      /\ ctx_done' /\ pc[w] = "report"
      /\ pc' = [Signal(Main, "done_wait", "done") EXCEPT ![w] = "park"]
  BY DEF ReportDone, Setup
<1>2. TypeOK /\ w # Main /\ w \in Thread /\ Main \in Thread
  BY Threads DEF IInv
<1>3. /\ \A v \in Worker : pc'[v] = IF v = w THEN "park" ELSE pc[v]
      /\ pc'[Main] = pc[Main] \/ (pc[Main] = "done_wait" /\ pc'[Main] = "done")
  BY <1>1, <1>2, Threads DEF Signal, TypeOK
<1>4. /\ Rest = {} /\ pc[Main] # "idle" /\ w \in Reporting
  BY <1>1 DEF IInv, TokenInv, InRound, Reporting
<1>5. Reporting' = {}
  <2>1. \A v \in Reporting : v = w
    BY <1>4 DEF IInv, TokenInv, InRound
  <2> QED
    BY <1>3, <2>1 DEF Reporting
<1>6. /\ NbWorkers' = NbWorkers /\ NbWoken' = NbWoken
      /\ MainRunsMainFunc' = MainRunsMainFunc
  BY <1>1, SetupSame
<1>7. \A v \in Worker : Active(v)' <=> Active(v)
  BY <1>1, <1>3 DEF Active, Running
<1>8. Rest' = Rest
  <2>1. RestMain' = RestMain
    BY <1>3, <1>6 DEF RestMain, Running
  <2>2. RestWorker' = RestWorker
    BY <1>1, <1>3, <1>6, <1>7 DEF RestWorker
  <2> QED
    BY <2>1, <2>2 DEF Rest
<1>9. pc'[Main] \in Round /\ (pc'[Main] = "wake" => pc[Main] = "wake")
  BY <1>3, <1>4 DEF InRound, Round
<1>10. CreateInv'
  BY <1>9 DEF CreateInv, Creating, Round, Running
<1>11. PoolInv'
  <2>1. /\ ~finished' /\ nb_threads' > 0
        /\ \A v \in Worker : pc[v] \in IF v < NbWorkers THEN {"wait", "woken"} \cup Occupied
                                                        ELSE {"none"}
    BY <1>1 DEF Setup, IInv, PoolInv, InRound
  <2>2. \A v \in Worker : pc'[v] \in IF v < NbWorkers THEN {"wait", "woken"} \cup Occupied
                                                      ELSE {"none"}
    BY <1>1, <1>3, <2>1 DEF Occupied
  <2>3. pc'[Main] = "wake" => \A v \in Worker : Active(v)' => v < i'
    BY <1>1, <1>7, <1>9 DEF IInv, PoolInv, InRound
  <2> QED
    BY <1>6, <2>1, <2>2, <2>3 DEF PoolInv
<1>12. CountInv'
  <2>1. \A t \in Thread : pc'[t] \in {"work", "next"} => pc[t] = pc'[t]
    BY <1>3, Threads
  <2>2. \A t \in Thread : pc'[t] \in {"work", "next"} =>
          local'[t].nb_jobs = nb_jobs /\ local'[t].nb_active = nb_active_threads
    BY <1>1, <2>1, SameLocal
  <2>3. pc[Main] \in Round
    BY <1>4 DEF InRound
  <2>4. /\ nb_active_threads \in 1 .. nb_jobs /\ NbWoken <= NbWorkers
        /\ IF current_job <= nb_jobs
              THEN Cardinality(Rest) = nb_active_threads
              ELSE Cardinality(Rest) + current_job = nb_jobs + nb_active_threads
    BY <2>3 DEF IInv, CountInv
  <2>5. nb_jobs' = nb_jobs /\ nb_active_threads' = nb_active_threads
    BY <1>1 DEF Setup
  <2> QED
    BY <1>1, <1>6, <1>8, <2>2, <2>4, <2>5 DEF CountInv
<1>13. TokenInv'
  BY <1>4, <1>5, <1>8, <1>9 DEF TokenInv, Round, Running
<1> QED
  BY <1>8, <1>10, <1>11, <1>12, <1>13 DEF IInv

\* The steps of a worker in a round.
LEMMA WorkerRound ==
  ASSUME IInv, InRound, TypeOK', NEW w \in Worker, WorkerStep(w)
  PROVE  IInv'
<1>1. w \in Thread /\ ~Start(w)
  BY WorkerFacts DEF Start, Occupied, Running
<1> QED
  BY <1>1, FirstStep, AnotherJob, EndStep, PassiveStep, ReportStep DEF WorkerStep, RunJobs

\* Main moves and the workers stay.
LEMMA MainMoves ==
  ASSUME TypeOK, NEW b \in Place, pc' = [pc EXCEPT ![Main] = b], UNCHANGED w_done
  PROVE  /\ pc'[Main] = b /\ Reporting' = Reporting
         /\ \A w \in Worker : pc'[w] = pc[w] /\ (Active(w)' <=> Active(w))
<1>1. pc'[Main] = b /\ \A w \in Worker : pc'[w] = pc[w]
  BY Threads DEF TypeOK
<1> QED
  BY <1>1 DEF Reporting, Active

\* Main's steps that change nothing for the round: where main goes, and that
\* Rest is the same.
LEMMA MainQuiet ==
  ASSUME IInv, InRound, TypeOK', pc[Main] # "idle", NEW b \in Round \ {"wake", "work", "next"},
         pc' = [pc EXCEPT ![Main] = b],
         UNCHANGED <<Setup, i, w_done, ctx_done, current_job, local>>,
         RestMain' = RestMain, pc[Main] = "wake" => i >= NbWoken
  PROVE  IInv' /\ Rest' = Rest
<1>1. TypeOK /\ b \in Place /\ UNCHANGED Setup
  BY DEF IInv, Place, Round, Running
<1>2. /\ pc'[Main] = b /\ Reporting' = Reporting
      /\ \A w \in Worker : pc'[w] = pc[w] /\ (Active(w)' <=> Active(w))
  BY <1>1, MainMoves
<1>3. RestWorker' = RestWorker
  <2>1. NbWoken \in Int /\ i \in Nat
    BY <1>1 DEF TypeOK, NbWoken, WorkersOf
  <2>2. \A w \in Worker : ~(pc[Main] = "wake" /\ i <= w /\ w < NbWoken)
    BY <1>1, <2>1, Sizes
  <2>3. pc'[Main] # "wake"
    BY <1>2
  <2> QED
    BY <1>2, <2>2, <2>3 DEF RestWorker
<1>4. \A t \in Thread : pc'[t] \in {"work", "next"} =>
        local'[t].nb_jobs = nb_jobs /\ local'[t].nb_active = nb_active_threads
  <2>1. \A t \in Thread : pc'[t] \in {"work", "next"} => pc[t] = pc'[t]
    BY <1>2, Threads
  <2> QED
    BY <2>1, SameLocal
<1>5. Rest' = Rest
  BY <1>3 DEF Rest
<1>6. b # "idle" /\ b # "wake" /\ b \in Round
  BY DEF Round, Running
<1> QED
  BY <1>1, <1>2, <1>4, <1>5, <1>6, QuietStep

LEMMA WakeStep ==
  ASSUME IInv, InRound, TypeOK', Wake
  PROVE  IInv' /\ Rest' = Rest
<1>1. /\ pc[Main] = "wake" /\ i < NbWoken /\ MutexFree(i) /\ i' = i + 1
      /\ w_done' = [w_done EXCEPT ![i] = FALSE]
      /\ pc' = IF pc[i] = "wait" THEN [pc EXCEPT ![i] = "woken"] ELSE pc
      /\ UNCHANGED Setup /\ UNCHANGED <<ctx_done, current_job, local>>
  BY DEF Wake, WakeWorker, Signal, ctx, Setup, NbWoken
<1>2. TypeOK /\ pc[Main] \in Round /\ i \in Nat
  BY <1>1 DEF IInv, Round, TypeOK
<1>3. NbWoken <= NbWorkers /\ NbWoken \in Int
  BY <1>2 DEF IInv, CountInv, NbWoken, WorkersOf, TypeOK
<1>4. i \in Worker /\ i < NbWorkers
  BY <1>1, <1>2, <1>3, Sizes
<1>5. pc[i] \in {"wait", "woken"}
  BY <1>1, <1>4, WorkerFacts DEF MutexFree
<1>6. /\ pc'[Main] = pc[Main]
      /\ \A w \in Worker : pc'[w] = IF w = i THEN "woken" ELSE pc[w]
      /\ \A w \in Worker : w_done'[w] = IF w = i THEN FALSE ELSE w_done[w]
  BY <1>1, <1>2, <1>4, <1>5, Threads DEF TypeOK
<1>7. /\ \A w \in Worker : w = i => Active(w)'
      /\ \A w \in Worker : w # i => (Active(w)' <=> Active(w))
  BY <1>1, <1>4, <1>6 DEF Active
<1>8. Reporting' = Reporting
  BY <1>5, <1>6 DEF Reporting
<1>9. Rest' = Rest
  <2>1. NbWoken' = NbWoken /\ MainRunsMainFunc' = MainRunsMainFunc
    BY <1>1, SetupSame
  <2>2. RestMain' = RestMain
    BY <1>6, <2>1 DEF RestMain
  <2>3. ASSUME NEW w \in Worker PROVE w \in RestWorker' <=> w \in RestWorker
    <3>1. CASE w = i
      <4>1. w \in RestWorker'
        BY <1>7, <3>1 DEF RestWorker
      <4>2. w \in RestWorker
        BY <1>1, <1>2, <3>1 DEF RestWorker
      <4> QED
        BY <4>1, <4>2
    <3>2. CASE w # i
      <4>1. i' <= w <=> i <= w
        BY <1>1, <1>2, <3>2, Sizes
      <4> QED
        BY <1>6, <1>7, <2>1, <3>2, <4>1 DEF RestWorker
    <3> QED
      BY <3>1, <3>2
  <2>4. RestWorker' \subseteq Worker /\ RestWorker \subseteq Worker
    BY DEF RestWorker
  <2> QED
    BY <2>2, <2>3, <2>4 DEF Rest
<1>10. \A w \in Worker : pc'[w] = pc[w] \/ (Settled(pc[w]) /\ Settled(pc'[w]))
  BY <1>5, <1>6 DEF Settled
<1>11. \A t \in Thread : pc'[t] \in {"work", "next"} =>
         local'[t].nb_jobs = nb_jobs /\ local'[t].nb_active = nb_active_threads
  <2>1. \A t \in Thread : pc'[t] \in {"work", "next"} => pc[t] = pc'[t]
    BY <1>6, Threads
  <2> QED
    BY <1>1, <2>1, SameLocal
<1>12. \A w \in Worker : Active(w)' => Active(w) \/ w < i'
  BY <1>1, <1>2, <1>7
<1>13. i <= i' /\ pc'[Main] # "idle" /\ pc[Main] # "idle" /\ pc'[Main] \in Round \cup {"idle"}
  BY <1>1, <1>2, <1>6
<1> QED
  BY <1>1, <1>6, <1>8, <1>9, <1>10, <1>11, <1>12, <1>13, QuietStep

LEMMA DoneStep ==
  ASSUME IInv, InRound, TypeOK', DoneTest
  PROVE  IInv' /\ Rest' = Rest
<1>1. /\ pc[Main] = "done" /\ ctx_done' = FALSE
      /\ pc' = [pc EXCEPT ![Main] = IF ctx_done THEN "idle" ELSE "done_wait"]
      /\ UNCHANGED Setup /\ UNCHANGED <<i, w_done, current_job, local>>
  BY DEF DoneTest, Goto, Setup
<1>2. TypeOK
  BY DEF IInv
<1>3. CASE ~ctx_done
  <2>1. pc' = [pc EXCEPT ![Main] = "done_wait"] /\ "done_wait" \in Place
    BY <1>1, <1>3 DEF Place
  <2>2. pc'[Main] = "done_wait"
    BY <1>1, <1>2, <2>1, MainMoves
  <2>3. RestMain' = RestMain
    BY <1>1, <2>2 DEF RestMain, Running
  <2>4. ctx_done' = ctx_done
    BY <1>1, <1>2, <1>3, Zenon DEF TypeOK
  <2>5. "done_wait" \in Round \ {"wake", "work", "next"}
    BY DEF Round
  <2> QED
    BY <1>1, <2>1, <2>3, <2>4, <2>5, MainQuiet
<1>4. CASE ctx_done
  <2>1. pc' = [pc EXCEPT ![Main] = "idle"] /\ "idle" \in Place
    BY <1>1, <1>4 DEF Place
  <2>2. /\ pc'[Main] = "idle" /\ Reporting' = Reporting
        /\ \A w \in Worker : pc'[w] = pc[w] /\ (Active(w)' <=> Active(w))
    BY <1>1, <1>2, <2>1, MainMoves
  <2>3. Rest = {} /\ Reporting = {}
    BY <1>1, <1>4 DEF IInv, TokenInv, Round
  <2>4. RestWorker' = {} /\ RestMain' = {}
    <3>1. \A w \in Worker : ~Active(w)
      BY <2>3 DEF Rest, RestWorker
    <3> QED
      BY <2>2, <3>1 DEF RestWorker, RestMain, Running
  <2>5. NbWorkers' = NbWorkers /\ nb_threads' = nb_threads /\ finished' = finished
    BY <1>1, SetupSame DEF Setup
  <2>6. PoolInv'
    BY <2>2, <2>5 DEF IInv, PoolInv, InRound
  <2>7. TokenInv'
    BY <1>1, <2>2, <2>3, <2>4 DEF TokenInv, Rest
  <2> QED
    BY <2>2, <2>3, <2>4, <2>6, <2>7 DEF Rest, IInv, CreateInv, CountInv, Creating, Round, Running
<1> QED
  BY <1>3, <1>4

\* A call begins: it waits for as many threads as it has told current_job of.
LEMMA ExecuteStep ==
  ASSUME IInv, InRound, TypeOK', Execute
  PROVE  IInv' /\ Cardinality(Rest') = nb_active_threads'
<1>1. PICK n \in 1 .. MaxJobs : nb_jobs' = n /\ nb_active_threads' = Smaller(n, nb_threads)
  BY DEF Execute
<1>2. /\ pc[Main] = "idle" /\ pc' = [pc EXCEPT ![Main] = "wake"] /\ i' = 0
      /\ current_job' = nb_active_threads'
      /\ UNCHANGED <<main_func, nb_threads, ctx_done, finished, w_done, local>>
  BY DEF Execute, Goto
<1>3. /\ TypeOK /\ "wake" \in Place /\ ~finished /\ nb_threads \in 1 .. MaxThreads
      /\ \A w \in Worker : pc[w] \in IF w < NbWorkers THEN {"wait", "woken"} \cup Occupied
                                                      ELSE {"none"}
      /\ Rest = {} /\ Reporting = {} /\ ~ctx_done
  BY <1>2, Threads DEF IInv, PoolInv, TokenInv, InRound, Place, TypeOK
<1>4. /\ pc'[Main] = "wake" /\ Reporting' = {}
      /\ \A w \in Worker : pc'[w] = pc[w] /\ ~Active(w)'
  <2>1. \A w \in Worker : ~Active(w)
    BY <1>3 DEF Rest, RestWorker
  <2> QED
    BY <1>2, <1>3, <2>1, MainMoves
<1>5. nb_active_threads' \in 1 .. n /\ nb_active_threads' <= nb_threads
  BY <1>1, <1>3, Threads DEF Smaller
<1>6. NbWorkers' = NbWorkers
  BY <1>2 DEF NbWorkers, WorkersOf
<1>7. /\ MainRunsMainFunc' => NbWoken' = nb_active_threads'
      /\ ~MainRunsMainFunc' => NbWoken' = nb_active_threads' - 1
      /\ NbWoken' <= NbWorkers /\ NbWoken' \in Nat /\ NbWoken' <= MaxThreads
  <2>1. /\ MainRunsMainFunc' => NbWoken' = nb_active_threads'
        /\ ~MainRunsMainFunc' => NbWoken' = nb_active_threads' - 1
    BY DEF NbWoken, WorkersOf
  <2>2. MainRunsMainFunc' => NbWorkers = nb_threads
    BY <1>2 DEF MainRunsMainFunc, NbWorkers, WorkersOf
  <2>3. NbWorkers >= nb_threads - 1 /\ NbWorkers \in Int
    BY <1>3, Threads DEF NbWorkers, WorkersOf
  <2> QED
    BY <1>1, <1>3, <1>5, <2>1, <2>2, <2>3, Threads
<1>8. Cardinality(Rest') = nb_active_threads'
  <2> DEFINE k == NbWoken'
  <2>1. RestWorker' = 0 .. k - 1
    <3>1. \A w : w \in RestWorker' <=> w \in Worker /\ w < k
      BY <1>2, <1>4, Threads DEF RestWorker, Worker
    <3>2. \A w : w \in Worker /\ w < k <=> w \in 0 .. k - 1
      BY <1>7, Threads DEF Worker
    <3> QED
      BY <3>1, <3>2
  <2>2. k \in Nat
    BY <1>7
  <2> HIDE DEF k
  <2>3. IsFiniteSet(0 .. k - 1) /\ Cardinality(0 .. k - 1) = k
    BY <2>2, FS_Interval
  <2>4. CASE MainRunsMainFunc'
    <3>1. Rest' = 0 .. k - 1
      BY <1>4, <2>1, <2>4 DEF Rest, RestMain, Running
    <3> QED
      BY <1>7, <2>3, <2>4, <3>1 DEF k
  <2>5. CASE ~MainRunsMainFunc'
    <3>1. Rest' = (0 .. k - 1) \cup {Main}
      BY <1>4, <2>1, <2>5 DEF Rest, RestMain, Running
    <3>2. Main \notin 0 .. k - 1
      BY <2>1, Threads DEF RestWorker
    <3>3. Cardinality(Rest') = k + 1
      BY <2>3, <3>1, <3>2, FS_AddElement
    <3>4. k = nb_active_threads' - 1
      BY <1>7, <2>5 DEF k
    <3> QED
      BY <1>1, <1>5, <3>3, <3>4
  <2> QED
    BY <2>4, <2>5
<1>9. PoolInv'
  BY <1>2, <1>3, <1>4, <1>6, Threads DEF PoolInv
<1>10. \A t \in Thread : pc'[t] \notin {"work", "next"}
  BY <1>4, Threads DEF Active, Running
<1>11. CountInv'
  BY <1>1, <1>2, <1>5, <1>6, <1>7, <1>8, <1>10 DEF CountInv
<1>12. TokenInv'
  BY <1>2, <1>3, <1>4 DEF TokenInv
<1> QED
  BY <1>4, <1>8, <1>9, <1>11, <1>12 DEF IInv, CreateInv, Creating

\* Main goes on, and the workers do not notice.
LEMMA MainStays ==
  ASSUME IInv, InRound, TypeOK', AllWoken \/ MainFuncDone
  PROVE  IInv' /\ Rest' = Rest
<1>1. TypeOK /\ Main \in Thread
  BY Threads DEF IInv
<1>3. CASE AllWoken
  <2>1. /\ pc[Main] = "wake" /\ i >= NbWoken
        /\ UNCHANGED <<Setup, i, w_done, ctx_done, current_job, local>>
        /\ pc' = [pc EXCEPT ![Main] = IF MainRunsMainFunc THEN "main_func" ELSE "first"]
    BY <1>3 DEF AllWoken, Goto, ctx, Setup, NbWoken
  <2>2. PICK b \in {"main_func", "first"} :
          pc' = [pc EXCEPT ![Main] = b] /\ (b = "first" <=> ~MainRunsMainFunc)
    BY <2>1
  <2>3. pc'[Main] = b
    BY <1>1, <2>2 DEF TypeOK
  <2>4. MainRunsMainFunc' = MainRunsMainFunc
    BY <2>1, SetupSame
  <2>5. RestMain' = RestMain
    BY <2>1, <2>2, <2>3, <2>4 DEF RestMain, Running
  <2>6. b \in Round \ {"wake", "work", "next"}
    BY DEF Round, Running
  <2> QED
    BY <2>1, <2>2, <2>5, <2>6, MainQuiet
<1>4. CASE MainFuncDone
  <2>1. /\ pc[Main] = "main_func" /\ pc' = [pc EXCEPT ![Main] = "done"]
        /\ UNCHANGED <<Setup, i, w_done, ctx_done, current_job, local>>
    BY <1>4 DEF MainFuncDone, Goto, ctx, Setup
  <2>2. pc'[Main] = "done"
    BY <1>1, <2>1 DEF TypeOK
  <2>3. RestMain' = RestMain /\ "done" \in Round \ {"wake", "work", "next"}
    BY <2>1, <2>2 DEF RestMain, Running, Round
  <2> QED
    BY <2>1, <2>3, MainQuiet
<1> QED
  BY <1>3, <1>4

LEMMA MainRound ==
  ASSUME IInv, InRound, TypeOK',
         Free \/ Wake \/ AllWoken \/ RunJobs(Main) \/ MainFuncDone \/ DoneTest \/ Execute
  PROVE  IInv'
<1>1. TypeOK /\ Main \in Thread
  BY Threads DEF IInv
<1>2. CASE Free
  <2>1. pc'[Main] = "free"
    BY <1>1, <1>2 DEF Free, Goto, TypeOK
  <2> QED
    BY <2>1 DEF IInv, CreateInv, PoolInv, CountInv, TokenInv, Creating, Round, Running
<1>5. CASE RunJobs(Main)
  BY <1>1, <1>5, FirstStep, AnotherJob, EndStep DEF RunJobs
<1> QED
  BY <1>2, <1>5, MainStays, WakeStep, DoneStep, ExecuteStep

LEMMA SpuriousRound ==
  ASSUME IInv, InRound, TypeOK', Spurious
  PROVE  IInv' /\ Rest' = Rest
<1>1. UNCHANGED <<ctx, w_done, execute_main, i, local>>
  BY DEF Spurious
<1>2. TypeOK /\ Main \in Thread
  BY Threads DEF IInv
<1>3. ASSUME NEW w \in Worker, pc[w] = "wait", pc' = [pc EXCEPT ![w] = "woken"]
      PROVE  IInv' /\ Rest' = Rest
  BY <1>1, <1>3, PassiveStep
<1>4. CASE pc[Main] = "done_wait" /\ pc' = [pc EXCEPT ![Main] = "done"]
  <2>1. pc'[Main] = "done"
    BY <1>2, <1>4 DEF TypeOK
  <2>2. RestMain' = RestMain /\ "done" \in Round \ {"wake", "work", "next"}
    BY <1>4, <2>1 DEF RestMain, Running, Round
  <2>3. UNCHANGED <<Setup, i, w_done, ctx_done, current_job, local>>
    BY <1>1 DEF ctx, Setup
  <2> QED
    BY <1>4, <2>2, <2>3, MainQuiet
<1>5. pc[Main] # "ready_wait"
  BY DEF InRound, Round, Running
<1> QED
  BY <1>3, <1>4, <1>5 DEF Spurious, Goto

-----------------------------------------------------------------------------
LEMMA IInvInit == Init => IInv
<1> SUFFICES ASSUME Init PROVE IInv
  OBVIOUS
<1>1. TypeOK
  BY TypeInit
<1>2. pc[Main] = "create" /\ i = 0 /\ \A w \in Worker : pc[w] = "none"
  BY Threads DEF Init
<1>3. ~ctx_done /\ ~finished /\ nb_threads \in 1 .. MaxThreads
  BY DEF Init
<1>4. NbWorkers \in Nat
  BY <1>3, Threads DEF NbWorkers, WorkersOf
<1>5. CreateInv
  BY <1>2, <1>3, <1>4, Threads, Sizes, <1>1 DEF CreateInv
<1> QED
  BY <1>1, <1>2, <1>5 DEF IInv, PoolInv, CountInv, TokenInv, Round, Running

LEMMA IInvStep == IInv /\ [Next]_vars => IInv'
<1> SUFFICES ASSUME IInv, [Next]_vars PROVE IInv'
  OBVIOUS
<1>1. TypeOK /\ TypeOK' /\ CreateInv
  BY TypeStep DEF IInv
<1>2. CASE UNCHANGED vars
  BY <1>2 DEF vars, IInv, TypeOK, CreateInv, PoolInv, CountInv, TokenInv, NbWorkers, NbWoken,
     MainRunsMainFunc, Active, Rest, RestWorker, RestMain, Reporting
<1>3. CASE Next /\ pc[Main] \in Creating
  BY <1>1, <1>3, CreateStep DEF IInv
<1>4. CASE Next /\ InRound
  BY <1>1, <1>4, StepsOf, MainRound, SpuriousRound, WorkerRound DEF InRound
<1>5. CASE Next /\ pc[Main] \notin Creating \cup Round \cup {"idle"}
  <2>1. pc'[Main] \notin Creating \cup Round \cup {"idle"}
    BY <1>1, <1>5, StepsOf
  <2> QED
    BY <1>1, <2>1 DEF IInv, CreateInv, PoolInv, CountInv, TokenInv
<1> QED
  BY <1>2, <1>3, <1>4, <1>5 DEF InRound

\* The pool keeps count of its threads, in every round.
LEMMA IInvCorrect == Spec => []IInv
BY IInvInit, IInvStep, PTL DEF Spec

\* With any number of threads and jobs nothing of a round is left when the
\* call returns, so that the next call may set its fields without a lock.
THEOREM QuietCorrect == Spec => []Quiet
<1>1. IInv => Quiet
  <2> SUFFICES ASSUME IInv, pc[Main] \in {"idle", "create"}
               PROVE  ~ctx_done /\ \A w \in Worker : pc[w] \notin Running \cup {"report"}
    BY DEF Quiet
  <2>1. CASE pc[Main] = "create"
    <3>1. /\ ~ctx_done /\ i \in Nat
          /\ \A w \in Worker : /\ w < i => pc[w] \in {"wait", "woken"}
                               /\ w > i \/ w = i => pc[w] = "none"
      BY <2>1 DEF IInv, CreateInv, Creating, TypeOK
    <3>2. \A w \in Worker : pc[w] \in {"wait", "woken", "none"}
      BY <3>1, Sizes DEF IInv
    <3> QED
      BY <3>1, <3>2 DEF Running
  <2>2. CASE pc[Main] = "idle"
    <3>1. Rest = {} /\ Reporting = {} /\ ~ctx_done
      BY <2>2 DEF IInv, TokenInv
    <3> QED
      BY <3>1 DEF Rest, RestWorker, Active, Reporting
  <2> QED
    BY <2>1, <2>2
<1> QED
  BY <1>1, IInvCorrect, PTL

-----------------------------------------------------------------------------
(* The pool is a parallel for.  The counters tell which jobs are taken:    *)
(* those below first_job, and those from the number of threads up to       *)
(* current_job.  A thread takes its first job with its number, so that as  *)
(* many jobs are left below the number of threads as threads have still to *)
(* take their first.                                                       *)

Freeing == {"free", "dismiss", "join", "gone"}

\* Threads that have a thread number, and threads still to get one.
Busy     == {t \in Thread : pc[t] \in {"work", "next"}}
Starters == {t \in Rest : pc[t] \notin {"work", "next"}}

JobInv ==
  /\ runs \in [Job -> Nat] /\ nb_jobs <= MaxJobs
  /\ pc[Main] \in Round =>
       /\ nb_active_threads <= nb_threads /\ nb_active_threads <= current_job
       /\ first_job + Cardinality(Starters) = nb_active_threads
       /\ \A j \in 0 .. nb_jobs - 1 :
            runs[j] = 0 <=> first_job <= j /\ (j < nb_active_threads \/ current_job <= j)
       /\ \A t \in Busy : local[t].first \in 0 .. first_job - 1
       /\ \A t, u \in Busy : local[t].first = local[u].first => t = u

\* No job runs once the pool is being freed.
FreeInv ==
  pc[Main] \in Freeing =>
    /\ pc[Main] # "free" => finished
    /\ \A w \in Worker :
         /\ pc[w] \in {"none", "wait", "woken", "park", "exited"}
         /\ pc[Main] = "free" /\ pc[w] \in {"wait", "woken"} => w_done[w]

MainInv == pc[Main] \in Creating \cup Round \cup {"idle"} \cup Freeing

LoopInv == IInv /\ JobInv /\ FreeInv /\ MainInv

-----------------------------------------------------------------------------
(* How the state is mapped.                                                *)

Call(t) == [thread |-> local[t].first, job |-> local[t].job]
Calls   == {Call(t) : t \in {u \in Thread : pc[u] = "work"}}
Todo    == {j \in 0 .. nb_jobs - 1 : runs[j] = 0}

LEMMA Phases ==
  /\ pc[Main] \in Round => Phase = "round"
  /\ pc[Main] = "gone" => Phase = "gone"
  /\ pc[Main] \in Creating \cup {"idle", "free", "dismiss", "join"} => Phase = "idle"
BY DEF Phase, Round, Creating, Running

LEMMA MappedStutter ==
  ASSUME Phase' = Phase, Calls' = Calls, Todo' = Todo
  PROVE  UNCHANGED Loop!vars
BY DEF Loop!vars, Calls, Call, Todo

LEMMA MappedBegin ==
  ASSUME Phase = "round", Phase' = "round", NEW j \in Todo, NEW k \in 0 .. MaxThreads - 1,
         \A c \in Calls : c.thread # k,
         Calls' = Calls \cup {[thread |-> k, job |-> j]}, Todo' = Todo \ {j}
  PROVE  Loop!BeginJob
BY DEF Loop!BeginJob, Calls, Call, Todo

LEMMA MappedEnd ==
  ASSUME Phase' = Phase, Todo' = Todo, NEW c \in Calls, Calls' = Calls \ {c}
  PROVE  Loop!EndJob
BY DEF Loop!EndJob, Calls, Call, Todo

LEMMA MappedReturn ==
  ASSUME Phase = "round", Phase' = "idle", Todo = {}, Calls = {}, Todo' = {}, Calls' = {}
  PROVE  Loop!Return
BY DEF Loop!Return, Calls, Call, Todo

LEMMA MappedExecute ==
  ASSUME Phase = "idle", Phase' = "round", Calls' = Calls,
         NEW n \in 1 .. MaxJobs, Todo' = 0 .. n - 1
  PROVE  Loop!Execute
BY DEF Loop!Execute, Calls, Call, Todo

LEMMA MappedFree ==
  ASSUME Phase = "idle", Phase' = "gone", Calls' = Calls, Todo' = Todo
  PROVE  Loop!Free
BY DEF Loop!Free, Calls, Call, Todo

\* One thread enters or leaves a job.
LEMMA CallAdded ==
  ASSUME NEW t \in Thread, pc[t] # "work", pc'[t] = "work",
         \A u \in Thread \ {t} : (pc'[u] = "work" <=> pc[u] = "work") /\ local'[u] = local[u]
  PROVE  Calls' = Calls \cup {[thread |-> local'[t].first, job |-> local'[t].job]}
<1>1. \A u \in Thread : Call(u)' = [thread |-> local'[u].first, job |-> local'[u].job]
  BY DEF Call
<1>2. \A u \in Thread \ {t} : Call(u)' = Call(u)
  BY DEF Call
<1>3. Call(t)' = [thread |-> local'[t].first, job |-> local'[t].job]
  BY DEF Call
<1>4. ASSUME NEW c PROVE c \in Calls' <=> c \in Calls \/ c = Call(t)'
  <2>1. c \in Calls' <=> \E u \in Thread : pc'[u] = "work" /\ c = Call(u)'
    BY DEF Calls
  <2>2. c \in Calls <=> \E u \in Thread : pc[u] = "work" /\ c = Call(u)
    BY DEF Calls
  <2> QED
    BY <1>2, <2>1, <2>2
<1> QED
  BY <1>3, <1>4

LEMMA CallRemoved ==
  ASSUME NEW t \in Thread, pc[t] = "work", pc'[t] # "work",
         \A u \in Thread \ {t} : (pc'[u] = "work" <=> pc[u] = "work") /\ local'[u] = local[u],
         \A u \in Thread \ {t} : pc[u] = "work" => local[u].first # local[t].first
  PROVE  Call(t) \in Calls /\ Calls' = Calls \ {Call(t)}
<1>1. \A u \in Thread \ {t} : Call(u)' = Call(u)
  BY DEF Call
<1>2. \A u \in Thread \ {t} : pc[u] = "work" => Call(u) # Call(t)
  <2>1. \A u \in Thread : Call(u).thread = local[u].first
    BY DEF Call
  <2> QED
    BY <2>1
<1>3. ASSUME NEW c PROVE c \in Calls' <=> c \in Calls /\ c # Call(t)
  <2>1. c \in Calls' <=> \E u \in Thread : pc'[u] = "work" /\ c = Call(u)'
    BY DEF Calls
  <2>2. c \in Calls <=> \E u \in Thread : pc[u] = "work" /\ c = Call(u)
    BY DEF Calls
  <2> QED
    BY <1>1, <1>2, <2>1, <2>2
<1> QED
  BY <1>3 DEF Calls

LEMMA CallsSame ==
  ASSUME \A u \in Thread : /\ pc'[u] = "work" <=> pc[u] = "work"
                           /\ pc[u] = "work" => local'[u] = local[u]
  PROVE  Calls' = Calls
<1>1. ASSUME NEW c PROVE c \in Calls' <=> c \in Calls
  <2>1. c \in Calls' <=> \E u \in Thread : pc'[u] = "work" /\ c = Call(u)'
    BY DEF Calls
  <2>2. c \in Calls <=> \E u \in Thread : pc[u] = "work" /\ c = Call(u)
    BY DEF Calls
  <2>3. \A u \in Thread : pc[u] = "work" => Call(u)' = Call(u)
    BY DEF Call
  <2> QED
    BY <2>1, <2>2, <2>3
<1> QED
  BY <1>1

-----------------------------------------------------------------------------
(* Where main goes.                                                        *)

LEMMA WorkerLeavesMain ==
  ASSUME TypeOK, NEW w \in Worker, WorkerStep(w)
  PROVE  \/ pc'[Main] = pc[Main]
         \/ pc[Main] = "ready_wait" /\ pc'[Main] = "ready"
         \/ pc[Main] = "done_wait" /\ pc'[Main] = "done"
<1>1. w # Main /\ w \in Thread /\ Main \in Thread
  BY Threads
<1>2. CASE Start(w)
  BY <1>1, <1>2 DEF Start, Signal, TypeOK
<1>3. CASE ReportDone(w)
  BY <1>1, <1>3 DEF ReportDone, Signal, TypeOK
<1>4. CASE Woken(w) \/ Park(w) \/ RunJobs(w)
  <2>1. \E b : pc' = [pc EXCEPT ![w] = b]
    BY <1>4 DEF Woken, Park, RunJobs, TakeFirst, JobDone, TakeNext, Goto
  <2> QED
    BY <1>1, <2>1 DEF TypeOK
<1> QED
  BY <1>2, <1>3, <1>4 DEF WorkerStep

LEMMA WakeLeavesMain ==
  ASSUME TypeOK, i < NbWorkers, WakeWorker
  PROVE  pc'[Main] = pc[Main]
<1>1. pc' = pc \/ pc' = [pc EXCEPT ![i] = "woken"]
  BY DEF WakeWorker, Signal
<1> QED
  BY <1>1, Sizes, Threads DEF TypeOK

LEMMA MainGoes ==
  ASSUME TypeOK, MainInv, Next
  PROVE  /\ pc[Main] \in Creating => \/ pc'[Main] \in Creating \cup {"idle"}
                                     \/ CreateFails /\ pc'[Main] = "free"
         /\ pc[Main] = "idle" => \/ pc'[Main] = "idle"
                                 \/ Execute /\ pc'[Main] = "wake"
                                 \/ Free /\ pc'[Main] = "free"
         /\ pc[Main] \in Round => \/ pc'[Main] \in Round
                                  \/ (TakeNext(Main) \/ DoneTest) /\ pc'[Main] = "idle"
         /\ pc[Main] \in Freeing => \/ pc'[Main] \in Freeing /\ (pc'[Main] = "gone" <=> pc[Main] = "gone")
                                    \/ Freed /\ pc[Main] = "join" /\ pc'[Main] = "gone"
<1> DEFINE Goal ==
      /\ pc[Main] \in Creating => \/ pc'[Main] \in Creating \cup {"idle"}
                                  \/ CreateFails /\ pc'[Main] = "free"
      /\ pc[Main] = "idle" => \/ pc'[Main] = "idle"
                              \/ Execute /\ pc'[Main] = "wake"
                              \/ Free /\ pc'[Main] = "free"
      /\ pc[Main] \in Round => \/ pc'[Main] \in Round
                               \/ (TakeNext(Main) \/ DoneTest) /\ pc'[Main] = "idle"
      /\ pc[Main] \in Freeing => \/ pc'[Main] \in Freeing /\ (pc'[Main] = "gone" <=> pc[Main] = "gone")
                                 \/ Freed /\ pc[Main] = "join" /\ pc'[Main] = "gone"
<1> SUFFICES Goal
  OBVIOUS
<1> USE DEF Creating, Round, Running, Freeing
<1>1. Main \in Thread /\ pc \in [Thread -> Place]
  BY Threads DEF TypeOK
<1>2. ASSUME NEW w \in Worker, WorkerStep(w) PROVE Goal
  BY <1>2, WorkerLeavesMain
<1>3. CASE CreateWorker
  <2>1. i # Main
    BY <1>3, Sizes DEF CreateWorker
  <2>2. pc'[Main] = "ready_wait" /\ pc[Main] = "create"
    BY <1>1, <1>3, <2>1 DEF CreateWorker
  <2> QED
    BY <2>2
<1>4. CASE CreateFails
  BY <1>1, <1>4 DEF CreateFails, Goto
<1>5. CASE ReadyTest \/ Created
  BY <1>1, <1>5 DEF ReadyTest, Created, Goto
<1>6. CASE Wake \/ Dismiss
  <2>1. CASE Dismiss
    BY <2>1, WakeLeavesMain DEF Dismiss
  <2>2. CASE Wake
    <3>1. pc[Main] = "wake" /\ (pc' = pc \/ (pc[i] = "wait" /\ pc' = [pc EXCEPT ![i] = "woken"]))
      BY <2>2 DEF Wake, WakeWorker, Signal
    <3>2. pc'[Main] = "wake"
      BY <1>1, <3>1
    <3> QED
      BY <3>1, <3>2
  <2> QED
    BY <1>6, <2>1, <2>2
<1>7. CASE AllWoken \/ MainFuncDone
  BY <1>1, <1>7 DEF AllWoken, MainFuncDone, Goto
<1>8. CASE DoneTest
  BY <1>1, <1>8 DEF DoneTest, Goto
<1>9. CASE TakeFirst(Main) \/ JobDone(Main)
  BY <1>1, <1>9 DEF TakeFirst, JobDone, Goto
<1>10. CASE TakeNext(Main)
  <2>1. PICK b \in {"work", "idle", "done"} : pc' = [pc EXCEPT ![Main] = b]
    BY <1>10 DEF TakeNext, Goto
  <2>2. pc'[Main] = b /\ pc[Main] = "next"
    BY <1>1, <1>10, <2>1 DEF TakeNext
  <2> QED
    BY <1>10, <2>2
<1>11. CASE Finish \/ AllDismissed \/ Join \/ Freed \/ Over
  BY <1>1, <1>11 DEF Finish, AllDismissed, Join, Freed, Over, Goto, vars
<1>12. CASE Execute
  BY <1>1, <1>12 DEF Execute, Goto
<1>13. CASE Free
  BY <1>1, <1>13 DEF Free, Goto
<1>14. CASE Spurious
  <2>1. \/ \E w \in Worker : pc' = [pc EXCEPT ![w] = "woken"]
        \/ pc[Main] = "ready_wait" /\ pc' = [pc EXCEPT ![Main] = "ready"]
        \/ pc[Main] = "done_wait" /\ pc' = [pc EXCEPT ![Main] = "done"]
    BY <1>14 DEF Spurious, Goto
  <2>2. \/ pc'[Main] = pc[Main]
        \/ pc[Main] = "ready_wait" /\ pc'[Main] = "ready"
        \/ pc[Main] = "done_wait" /\ pc'[Main] = "done"
    BY <1>1, <2>1, Threads
  <2> QED
    BY <2>2
<1> HIDE DEF Goal
<1>15. CASE RunJobs(Main)
  BY <1>9, <1>10, <1>15 DEF RunJobs
<1> QED
  BY <1>2, <1>3, <1>4, <1>5, <1>6, <1>7, <1>8, <1>11, <1>12, <1>13, <1>14, <1>15
  DEF Next, MainStep

\* No worker runs a job while the pool is freed.
LEMMA FreeingWorker ==
  ASSUME LoopInv, pc[Main] \in Freeing, NEW w \in Worker, WorkerStep(w)
  PROVE  (Woken(w) \/ Park(w)) /\ pc'[Main] = pc[Main]
<1>1. pc[w] \in {"none", "wait", "woken", "park", "exited"}
  BY DEF LoopInv, FreeInv
<1>2. Woken(w) \/ Park(w)
  BY <1>1 DEF WorkerStep, Start, ReportDone, RunJobs, TakeFirst, JobDone, TakeNext
<1>3. pc'[Main] = pc[Main]
  BY WorkerLeavesMain DEF Freeing, LoopInv, IInv
<1> QED
  BY <1>2, <1>3

LEMMA FreeStep ==
  ASSUME LoopInv, Next
  PROVE  FreeInv'
<1> SUFFICES ASSUME pc'[Main] \in Freeing PROVE FreeInv'
  BY DEF FreeInv
<1>1. TypeOK /\ CreateInv /\ PoolInv /\ TokenInv /\ FreeInv /\ MainInv
  BY DEF LoopInv, IInv
<1>2. CASE pc[Main] \in Creating
  <2>1. CreateFails
    BY <1>1, <1>2, MainGoes DEF Creating, Freeing
  <2>2. /\ pc' = [pc EXCEPT ![Main] = "free"] /\ w_done' = w_done
        /\ pc[Main] = "create" /\ i \in Nat
    BY <1>1, <2>1 DEF CreateFails, Goto, TypeOK
  <2>3. pc'[Main] = "free" /\ \A w \in Worker : pc'[w] = pc[w]
    BY <1>1, <2>2, Threads DEF TypeOK
  <2>4. \A w \in Worker : /\ w < i => pc[w] \in {"wait", "woken"} /\ w_done[w]
                          /\ w > i \/ w = i => pc[w] = "none"
    BY <1>1, <1>2, <2>2 DEF CreateInv
  <2>5. \A w \in Worker : pc[w] = "none" \/ (pc[w] \in {"wait", "woken"} /\ w_done[w])
    BY <1>1, <2>2, <2>4, Sizes
  <2> QED
    BY <2>2, <2>3, <2>5 DEF FreeInv
<1>3. CASE pc[Main] \in Round \cup {"idle"}
  <2>1. Free /\ pc[Main] = "idle"
    BY <1>1, <1>3, MainGoes DEF Freeing, Round, Running
  <2>2. pc' = [pc EXCEPT ![Main] = "free"] /\ w_done' = w_done
    BY <2>1 DEF Free, Goto
  <2>3. pc'[Main] = "free" /\ \A w \in Worker : pc'[w] = pc[w]
    BY <1>1, <2>2, Threads DEF TypeOK
  <2>4. \A w \in Worker : ~Active(w) /\ pc[w] # "report"
    BY <1>1, <2>1 DEF TokenInv, Rest, RestWorker, Reporting
  <2>5. \A w \in Worker : pc[w] \in {"none", "wait", "woken"} \cup Occupied
    BY <1>1, <1>3 DEF PoolInv
  <2>6. \A w \in Worker : /\ pc[w] \in {"none", "wait", "woken", "park"}
                          /\ pc[w] \in {"wait", "woken"} => w_done[w]
    BY <2>4, <2>5 DEF Active, Occupied, Running
  <2> QED
    BY <2>2, <2>3, <2>6 DEF FreeInv
<1>4. CASE pc[Main] \in Freeing
  <2>1. /\ pc[Main] # "free" => finished
        /\ \A w \in Worker : /\ pc[w] \in {"none", "wait", "woken", "park", "exited"}
                             /\ pc[Main] = "free" /\ pc[w] \in {"wait", "woken"} => w_done[w]
    BY <1>1, <1>4 DEF FreeInv
  <2>2. ASSUME NEW w \in Worker, Woken(w) \/ Park(w), pc'[Main] = pc[Main] PROVE FreeInv'
    <3>1. /\ w \in Thread /\ finished' = finished
          /\ \A v \in Worker : v # w => pc'[v] = pc[v] /\ w_done'[v] = w_done[v]
      BY <1>1, <2>2, Threads DEF Woken, Park, Goto, ctx, TypeOK
    <3>2. /\ pc'[w] \in {"wait", "exited"}
          /\ pc[Main] = "free" /\ pc'[w] = "wait" => w_done'[w]
      <4>1. CASE Park(w)
        BY <1>1, <3>1, <4>1 DEF Park, Goto, TypeOK
      <4>2. CASE Woken(w)
        <5>1. pc'[w] = IF w_done[w] THEN "wait" ELSE IF finished THEN "exited" ELSE "first"
          BY <1>1, <3>1, <4>2 DEF Woken, Goto, TypeOK
        <5>2. w_done[w] \/ finished
          BY <2>1, <4>2 DEF Woken
        <5>3. w_done' = w_done
          BY <4>2 DEF Woken
        <5> QED
          BY <5>1, <5>2, <5>3, <2>1, <4>2 DEF Woken
      <4> QED
        BY <2>2, <4>1, <4>2
    <3>3. \A v \in Worker :
            /\ pc'[v] \in {"none", "wait", "woken", "park", "exited"}
            /\ pc'[Main] = "free" /\ pc'[v] \in {"wait", "woken"} => w_done'[v]
      BY <2>1, <2>2, <3>1, <3>2
    <3> QED
      BY <2>1, <2>2, <3>1, <3>3 DEF FreeInv
  <2>3. CASE Finish \/ AllDismissed \/ Join \/ Freed \/ Over
    <3>1. /\ w_done' = w_done /\ pc'[Main] # "free"
          /\ \A w \in Worker : pc'[w] = pc[w]
      BY <1>1, <2>3, Threads DEF Finish, AllDismissed, Join, Freed, Over, Goto, TypeOK, vars
    <3>2. finished'
      <4>1. CASE Finish
        BY <4>1, Zenon DEF Finish
      <4>2. CASE AllDismissed \/ Join \/ Freed \/ Over
        <5>1. pc[Main] # "free"
          BY <4>2 DEF AllDismissed, Join, Freed, Over
        <5>2. finished' = finished
          BY <4>2 DEF AllDismissed, Join, Freed, Over, ctx, vars
        <5> QED
          BY <2>1, <5>1, <5>2
      <4> QED
        BY <2>3, <4>1, <4>2
    <3> QED
      BY <2>1, <3>1, <3>2 DEF FreeInv
  <2>4. CASE Dismiss
    <3>1. /\ pc' = pc \/ (pc[i] = "wait" /\ pc' = [pc EXCEPT ![i] = "woken"])
          /\ finished' = finished /\ pc[Main] = "dismiss" /\ i < NbWorkers
      BY <2>4 DEF Dismiss, WakeWorker, Signal, ctx
    <3>2. pc'[Main] = "dismiss"
      BY <1>1, <2>4, <3>1, WakeLeavesMain DEF Dismiss
    <3>3. \A w \in Worker : pc'[w] \in {"none", "wait", "woken", "park", "exited"}
      BY <1>1, <2>1, <3>1, Sizes, Threads DEF TypeOK
    <3> QED
      BY <2>1, <3>1, <3>2, <3>3 DEF FreeInv
  <2>5. CASE Spurious
    <3>1. PICK w \in Worker : pc[w] = "wait" /\ pc' = [pc EXCEPT ![w] = "woken"]
      BY <1>4, <2>5 DEF Spurious, Goto, Freeing
    <3>2. finished' = finished /\ w_done' = w_done
      BY <2>5 DEF Spurious, ctx
    <3>3. pc'[Main] = pc[Main] /\ \A v \in Worker : pc'[v] = IF v = w THEN "woken" ELSE pc[v]
      BY <1>1, <3>1, Threads DEF TypeOK
    <3> QED
      BY <2>1, <3>1, <3>2, <3>3 DEF FreeInv
  <2>6. ~(CreateWorker \/ ReadyTest \/ Created \/ CreateFails \/ Wake \/ AllWoken
          \/ MainFuncDone \/ DoneTest \/ Execute \/ Free \/ RunJobs(Main))
    BY <1>4 DEF CreateWorker, ReadyTest, Created, CreateFails, Wake, AllWoken, MainFuncDone,
       DoneTest, Execute, Free, RunJobs, TakeFirst, JobDone, TakeNext, Freeing
  <2>7. CASE \E w \in Worker : WorkerStep(w)
    BY <1>4, <2>2, <2>7, FreeingWorker
  <2> QED
    BY <2>3, <2>4, <2>5, <2>6, <2>7 DEF Next, MainStep
<1> QED
  BY <1>1, <1>2, <1>3, <1>4 DEF MainInv

\* Whoever runs jobs does so in a round, which waits for it.
LEMMA RunsInRound ==
  ASSUME LoopInv, NEW t \in Thread, pc[t] \in Running
  PROVE  InRound /\ pc[Main] \in Round /\ t \in Rest
<1>1. CASE t = Main
  BY <1>1 DEF InRound, Round, Rest, RestMain
<1>2. CASE t # Main
  <2>1. t \in Worker
    BY <1>2, Threads
  <2>2. pc[Main] \notin Creating
    <3>1. pc[Main] \in Creating =>
            /\ i \in Nat
            /\ t < i => pc[t] \in {"wait", "woken"}
            /\ t = i /\ pc[Main] # "create" => pc[t] \in {"start", "wait", "woken"}
            /\ t > i \/ (t = i /\ pc[Main] = "create") => pc[t] = "none"
      BY <2>1 DEF LoopInv, IInv, CreateInv, TypeOK
    <3> QED
      BY <2>1, <3>1, Sizes DEF LoopInv, IInv, Running
  <2>3. pc[Main] \notin Freeing
    BY <2>1 DEF LoopInv, FreeInv, Running
  <2>4. InRound
    BY <2>2, <2>3 DEF LoopInv, MainInv, InRound
  <2>5. Active(t)
    BY DEF Active
  <2> QED
    BY <2>1, <2>4, <2>5, WorkerFacts DEF LoopInv, InRound
<1> QED
  BY <1>1, <1>2

-----------------------------------------------------------------------------
(* Steps that neither begin nor end a job.                                 *)

NoJobs == \A t \in Thread : /\ pc'[t] = "work" <=> pc[t] = "work"
                            /\ pc'[t] = "next" <=> pc[t] = "next"

LEMMA Hop ==
  ASSUME TypeOK, NEW t \in Thread, NEW b, pc' = [pc EXCEPT ![t] = b],
         pc[t] \notin {"work", "next"}, b \notin {"work", "next"}
  PROVE  NoJobs
BY DEF NoJobs, TypeOK

Counters == <<nb_jobs, nb_active_threads, first_job, current_job, runs, local>>

LEMMA OtherSteps ==
  ASSUME IInv, Next, ~Execute, \A t \in Thread : ~RunJobs(t)
  PROVE  /\ UNCHANGED Counters /\ NoJobs
         /\ nb_threads' = nb_threads \/ CreateFails
<1> DEFINE Goal == /\ UNCHANGED Counters /\ NoJobs
                   /\ nb_threads' = nb_threads \/ CreateFails
<1> SUFFICES Goal
  OBVIOUS
<1>1. /\ Main \in Thread /\ \A w \in Worker : w \in Thread /\ w # Main
      /\ pc \in [Thread -> Place] /\ TypeOK
  BY Threads DEF IInv, TypeOK
<1>2. pc' = pc => NoJobs
  BY DEF NoJobs
<1>3. CASE CreateWorker
  <2>1. PICK w \in Worker : w = i
    BY <1>1, <1>3, Sizes DEF CreateWorker
  <2>2. /\ pc' = [pc EXCEPT ![Main] = "ready_wait", ![w] = "start"] /\ pc[Main] = "create"
        /\ UNCHANGED Counters /\ nb_threads' = nb_threads
    BY <1>3, <2>1 DEF CreateWorker, Counters, ctx
  <2>3. pc[w] = "none"
    BY <2>1, <2>2 DEF IInv, CreateInv, Creating
  <2>4. \A t \in Thread : pc'[t] = IF t = w THEN "start" ELSE IF t = Main THEN "ready_wait" ELSE pc[t]
    BY <1>1, <2>2
  <2>5. NoJobs
    <3>1. pc[Main] = "create"
      BY <2>2
    <3> QED
      BY <2>3, <2>4, <3>1 DEF NoJobs
  <2> QED
    BY <2>2, <2>5
<1>4. CASE CreateFails
  <2>1. pc' = [pc EXCEPT ![Main] = "free"] /\ pc[Main] = "create" /\ UNCHANGED Counters
    BY <1>4 DEF CreateFails, Goto, Counters
  <2> QED
    BY <1>1, <1>4, <2>1, Hop
<1>5. CASE ReadyTest \/ AllWoken \/ DoneTest
  <2>1. /\ pc[Main] \notin {"work", "next"} /\ UNCHANGED Counters /\ nb_threads' = nb_threads
    BY <1>5 DEF ReadyTest, AllWoken, DoneTest, Counters, ctx
  <2>2. PICK b \in {"create", "ready_wait", "main_func", "first", "idle", "done_wait"} :
          pc' = [pc EXCEPT ![Main] = b]
    BY <1>5 DEF ReadyTest, AllWoken, DoneTest, Goto
  <2>3. NoJobs
    BY <1>1, <2>1, <2>2, Hop
  <2> QED
    BY <2>1, <2>3
<1>6. CASE Created \/ MainFuncDone \/ Free \/ Finish \/ AllDismissed \/ Freed
  <2>1. /\ pc[Main] \notin {"work", "next"} /\ UNCHANGED Counters /\ nb_threads' = nb_threads
    BY <1>6 DEF Created, MainFuncDone, Free, Finish, AllDismissed, Freed, Counters, ctx
  <2>2. PICK b \in {"idle", "done", "free", "dismiss", "join", "gone"} : pc' = [pc EXCEPT ![Main] = b]
    BY <1>6 DEF Created, MainFuncDone, Free, Finish, AllDismissed, Freed, Goto
  <2>3. NoJobs
    BY <1>1, <2>1, <2>2, Hop
  <2> QED
    BY <2>1, <2>3
<1>7. CASE Join \/ Over
  BY <1>2, <1>7 DEF Join, Over, Counters, ctx, vars
<1>8. CASE Wake \/ Dismiss
  <2>1. /\ pc' = pc \/ (pc[i] = "wait" /\ pc' = [pc EXCEPT ![i] = "woken"])
        /\ UNCHANGED Counters /\ nb_threads' = nb_threads
    BY <1>8 DEF Wake, Dismiss, WakeWorker, Signal, Counters, ctx
  <2>2. NoJobs
    BY <1>1, <1>2, <2>1 DEF NoJobs
  <2> QED
    BY <2>1, <2>2
<1>9. CASE Spurious
  <2>1. UNCHANGED Counters /\ nb_threads' = nb_threads
    BY <1>9 DEF Spurious, Counters, ctx
  <2>2. PICK t \in Thread, b \in {"woken", "ready", "done"} :
          pc[t] \in {"wait", "ready_wait", "done_wait"} /\ pc' = [pc EXCEPT ![t] = b]
    <3>1. CASE \E w \in Worker : pc[w] = "wait" /\ pc' = [pc EXCEPT ![w] = "woken"]
      BY <1>1, <3>1
    <3>2. CASE pc[Main] = "ready_wait" /\ pc' = [pc EXCEPT ![Main] = "ready"]
      BY <1>1, <3>2
    <3>3. CASE pc[Main] = "done_wait" /\ pc' = [pc EXCEPT ![Main] = "done"]
      BY <1>1, <3>3
    <3> QED
      BY <1>9, <3>1, <3>2, <3>3 DEF Spurious, Goto
  <2>3. NoJobs
    BY <1>1, <2>2, Hop
  <2> QED
    BY <2>1, <2>3
<1>10. ASSUME NEW w \in Worker, WorkerStep(w) PROVE Goal
  <2>1. w \in Thread /\ w # Main
    BY <1>1
  <2>2. CASE Start(w)
    <3>1. /\ UNCHANGED Counters /\ nb_threads' = nb_threads /\ pc[w] = "start"
          /\ pc' = [Signal(Main, "ready_wait", "ready") EXCEPT ![w] = "wait"]
      BY <2>2 DEF Start, Counters, ctx
    <3>2. \A t \in Thread : pc'[t] = IF t = w THEN "wait"
                                     ELSE IF t = Main /\ pc[Main] = "ready_wait" THEN "ready" ELSE pc[t]
      BY <1>1, <2>1, <3>1 DEF Signal
    <3> QED
      BY <3>1, <3>2 DEF NoJobs
  <2>3. CASE ReportDone(w)
    <3>1. /\ UNCHANGED Counters /\ nb_threads' = nb_threads /\ pc[w] = "report"
          /\ pc' = [Signal(Main, "done_wait", "done") EXCEPT ![w] = "park"]
      BY <2>3 DEF ReportDone, Counters
    <3>2. \A t \in Thread : pc'[t] = IF t = w THEN "park"
                                     ELSE IF t = Main /\ pc[Main] = "done_wait" THEN "done" ELSE pc[t]
      BY <1>1, <2>1, <3>1 DEF Signal
    <3> QED
      BY <3>1, <3>2 DEF NoJobs
  <2>4. CASE Woken(w) \/ Park(w)
    <3>1. UNCHANGED Counters /\ nb_threads' = nb_threads /\ pc[w] \in {"woken", "park"}
      BY <2>4 DEF Woken, Park, Counters, ctx
    <3>2. PICK b \in {"wait", "exited", "first"} : pc' = [pc EXCEPT ![w] = b]
      BY <2>4 DEF Woken, Park, Goto
    <3>3. NoJobs
      BY <1>1, <2>1, <3>1, <3>2, Hop
    <3> QED
      BY <3>1, <3>3
  <2> QED
    BY <1>10, <2>1, <2>2, <2>3, <2>4 DEF WorkerStep
<1> HIDE DEF Goal
<1> QED
  BY <1>1, <1>3, <1>4, <1>5, <1>6, <1>7, <1>8, <1>9, <1>10 DEF Next, MainStep

LEMMA RestSame ==
  ASSUME LoopInv, Next, pc[Main] \in Round, \A t \in Thread : ~RunJobs(t)
  PROVE  Rest' = Rest
<1>1. IInv /\ TypeOK /\ TypeOK' /\ InRound
  BY TypeStep DEF LoopInv, IInv, InRound
<1>2. ASSUME NEW w \in Worker, WorkerStep(w) PROVE Rest' = Rest
  <2>1. w \in Thread /\ ~Start(w)
    BY <1>1, WorkerFacts DEF Start, Occupied, Running
  <2> QED
    BY <1>1, <1>2, <2>1, PassiveStep, ReportStep DEF WorkerStep
<1>3. ~(Execute \/ Free)
  BY DEF Execute, Free, Round, Running
<1> QED
  BY <1>1, <1>2, <1>3, StepsOf, WakeStep, MainStays, DoneStep, SpuriousRound, Threads

LEMMA StartersSame ==
  ASSUME Rest' = Rest,
         \A t \in Thread : pc'[t] \in {"work", "next"} <=> pc[t] \in {"work", "next"}
  PROVE  Starters' = Starters /\ Busy' = Busy
<1>1. Rest \subseteq Thread
  BY Threads DEF Rest, RestWorker, RestMain
<1> QED
  BY <1>1 DEF Starters, Busy

LEMMA JobSame ==
  ASSUME LoopInv, UNCHANGED Counters, NoJobs,
         pc'[Main] \in Round => pc[Main] \in Round /\ Rest' = Rest /\ nb_threads' = nb_threads
  PROVE  JobInv'
<1>1. JobInv /\ UNCHANGED <<nb_jobs, nb_active_threads, first_job, current_job, runs, local>>
  BY DEF LoopInv, Counters
<1>2. CASE pc'[Main] \notin Round
  BY <1>1, <1>2 DEF JobInv
<1>3. CASE pc'[Main] \in Round
  <2>1. Starters' = Starters /\ Busy' = Busy
    BY <1>3, StartersSame DEF NoJobs
  <2> QED
    BY <1>1, <1>3, <2>1 DEF JobInv
<1> QED
  BY <1>2, <1>3

LEMMA StartersFinite == IsFiniteSet(Starters) /\ Cardinality(Starters) \in Nat
<1>1. Starters \subseteq Rest
  BY DEF Starters
<1> QED
  BY <1>1, RestFinite, FS_Subset, FS_CardinalityType

\* A thread takes its number, and the job of that number.
LEMMA FirstJob ==
  ASSUME LoopInv, Next, NEW t \in Thread, TakeFirst(t)
  PROVE  JobInv' /\ Loop!BeginJob
<1>1. /\ IInv /\ TypeOK /\ TypeOK' /\ JobInv /\ pc[t] = "first"
  BY TypeStep DEF LoopInv, IInv, TakeFirst
<1>2. InRound /\ pc[Main] \in Round /\ t \in Rest
  BY <1>1, RunsInRound DEF Running
<1>3. IInv' /\ Rest' = Rest
  BY <1>1, <1>2, FirstStep
<1>4. /\ UNCHANGED <<nb_threads, nb_jobs, nb_active_threads, current_job>>
      /\ first_job' = first_job + 1
      /\ runs' = [runs EXCEPT ![first_job] = @ + 1]
      /\ local' = [local EXCEPT ![t] = [first |-> first_job, job |-> first_job,
                        nb_jobs |-> nb_jobs, nb_active |-> nb_active_threads]]
      /\ pc' = [pc EXCEPT ![t] = "work"]
  BY DEF TakeFirst, Goto
<1>5. /\ runs \in [Job -> Nat] /\ nb_jobs <= MaxJobs
      /\ nb_active_threads <= nb_threads /\ nb_active_threads <= current_job
      /\ first_job + Cardinality(Starters) = nb_active_threads
      /\ \A j \in 0 .. nb_jobs - 1 :
           runs[j] = 0 <=> first_job <= j /\ (j < nb_active_threads \/ current_job <= j)
      /\ \A u \in Busy : local[u].first \in 0 .. first_job - 1
      /\ \A u, v \in Busy : local[u].first = local[v].first => u = v
  BY <1>1, <1>2 DEF JobInv
<1>6. /\ nb_active_threads \in 1 .. nb_jobs /\ nb_jobs \in Nat /\ first_job \in Nat
      /\ current_job \in Nat /\ nb_active_threads \in Nat /\ nb_threads <= MaxThreads
      /\ nb_threads \in Nat /\ MaxThreads \in Nat /\ MaxJobs \in Nat
  BY <1>1, <1>2, Threads DEF IInv, CountInv, TypeOK
<1>7. /\ \A u \in Thread : pc'[u] = IF u = t THEN "work" ELSE pc[u]
      /\ \A u \in Thread \ {t} : local'[u] = local[u]
      /\ local'[t].first = first_job /\ local'[t].job = first_job
  BY <1>1, <1>4 DEF TypeOK
<1>8. Busy' = Busy \cup {t} /\ t \notin Busy
  BY <1>1, <1>7 DEF Busy
<1>9. t \in Starters /\ Starters' = Starters \ {t}
  <2>1. Rest \subseteq Thread
    BY Threads DEF Rest, RestWorker, RestMain
  <2> QED
    BY <1>1, <1>2, <1>3, <1>7, <2>1 DEF Starters
<1>10. /\ Cardinality(Starters') = Cardinality(Starters) - 1
       /\ Cardinality(Starters') \in Nat /\ Cardinality(Starters) \in Nat
  <2>1. IsFiniteSet(Starters') /\ Cardinality(Starters') = Cardinality(Starters) - 1
    BY <1>9, StartersFinite, FS_RemoveElement
  <2> QED
    BY <2>1, StartersFinite, FS_CardinalityType
<1>11. first_job < nb_active_threads /\ first_job \in Job /\ first_job \in 0 .. nb_jobs - 1
  BY <1>5, <1>6, <1>10 DEF Job
<1>12. /\ runs' \in [Job -> Nat]
       /\ \A j \in Job : runs'[j] = IF j = first_job THEN runs[j] + 1 ELSE runs[j]
  BY <1>4, <1>5, <1>11
<1>13. \A j \in 0 .. nb_jobs - 1 : j \in Job /\ j \in Int
  BY <1>5, <1>6 DEF Job
<1>14. \A j \in 0 .. nb_jobs - 1 :
         runs'[j] = 0 <=> first_job' <= j /\ (j < nb_active_threads \/ current_job <= j)
  <2>1. SUFFICES ASSUME NEW j \in 0 .. nb_jobs - 1
                 PROVE  runs'[j] = 0 <=> first_job' <= j /\ (j < nb_active_threads \/ current_job <= j)
    OBVIOUS
  <2>2. CASE j = first_job
    BY <1>4, <1>5, <1>6, <1>12, <1>13, <2>2
  <2>3. CASE j # first_job
    BY <1>4, <1>5, <1>6, <1>12, <1>13, <2>3
  <2> QED
    BY <2>2, <2>3
<1>15. \A u \in Busy' : local'[u].first \in 0 .. first_job' - 1
  <2>1. \A u \in Busy : local[u].first \in Int
    BY <1>1 DEF TypeOK, Busy
  <2> QED
    BY <1>4, <1>5, <1>6, <1>7, <1>8, <2>1 DEF Busy
<1>16. \A u, v \in Busy' : local'[u].first = local'[v].first => u = v
  <2>1. \A u \in Busy : local'[u].first = local[u].first /\ local'[u].first # first_job
    <3>1. \A u \in Busy : local[u].first \in Int
      BY <1>1 DEF TypeOK, Busy
    <3> QED
      BY <1>5, <1>6, <1>7, <1>8, <3>1 DEF Busy
  <2> QED
    BY <1>5, <1>7, <1>8, <2>1
<1>17. JobInv'
  <2>1. first_job' + Cardinality(Starters') = nb_active_threads'
    BY <1>4, <1>5, <1>6, <1>10
  <2> QED
    BY <1>4, <1>5, <1>12, <1>14, <1>15, <1>16, <2>1 DEF JobInv
<1>18. Loop!BeginJob
  <2>1. Phase = "round" /\ Phase' = "round"
    <3>1. pc'[Main] \in Round
      BY <1>1, <1>2, <1>7, Threads DEF Round, Running
    <3> QED
      BY <1>2, <3>1, Phases DEF Phase, Round, Running
  <2>2. first_job \in Todo /\ Todo' = Todo \ {first_job}
    <3>1. first_job \in Todo
      BY <1>5, <1>6, <1>11 DEF Todo
    <3>2. \A j \in 0 .. nb_jobs - 1 : runs'[j] = 0 <=> runs[j] = 0 /\ j # first_job
      BY <1>5, <1>11, <1>12, <1>13
    <3> QED
      BY <1>4, <3>1, <3>2 DEF Todo
  <2>3. first_job \in 0 .. MaxThreads - 1
    BY <1>5, <1>6, <1>11
  <2>4. \A c \in Calls : c.thread # first_job
    <3>1. \A u \in Thread : pc[u] = "work" => local[u].first # first_job
      <4>1. \A u \in Busy : local[u].first \in Int
        BY <1>1 DEF TypeOK, Busy
      <4> QED
        BY <1>5, <1>6, <4>1 DEF Busy
    <3> QED
      BY <3>1 DEF Calls, Call
  <2>5. Calls' = Calls \cup {[thread |-> first_job, job |-> first_job]}
    <3>1. Calls' = Calls \cup {[thread |-> local'[t].first, job |-> local'[t].job]}
      BY <1>1, <1>7, CallAdded
    <3> QED
      BY <1>7, <3>1
  <2> QED
    BY <2>1, <2>2, <2>3, <2>4, <2>5, MappedBegin
<1> QED
  BY <1>17, <1>18

\* In a round, the phase before and after.
LEMMA StaysInRound ==
  ASSUME pc[Main] \in Round, pc'[Main] \in Round
  PROVE  Phase = "round" /\ Phase' = "round"
BY DEF Phase, Round, Running

\* The threads at work or about to ask for more have numbers of their own.
LEMMA Numbers ==
  ASSUME LoopInv, NEW t \in Thread, pc[t] \in {"work", "next"}
  PROVE  \A u \in Thread \ {t} : pc[u] = "work" => local[u].first # local[t].first
<1>1. pc[Main] \in Round
  BY RunsInRound DEF Running
<1>2. \A u, v \in Busy : local[u].first = local[v].first => u = v
  BY <1>1 DEF LoopInv, JobInv
<1> QED
  BY <1>2 DEF Busy

\* worker_func returns.
LEMMA JobEnds ==
  ASSUME LoopInv, Next, NEW t \in Thread, JobDone(t)
  PROVE  JobInv' /\ Loop!EndJob
<1>1. /\ IInv /\ TypeOK /\ TypeOK' /\ JobInv /\ pc[t] = "work"
  BY TypeStep DEF LoopInv, IInv, JobDone
<1>2. InRound /\ pc[Main] \in Round
  BY <1>1, RunsInRound DEF Running
<1>3. Rest' = Rest
  BY <1>1, <1>2, FirstStep
<1>4. /\ UNCHANGED <<nb_threads, nb_jobs, nb_active_threads, first_job, current_job, runs, local>>
      /\ pc' = [pc EXCEPT ![t] = "next"]
  BY DEF JobDone, Goto, ctx
<1>5. \A u \in Thread : pc'[u] = IF u = t THEN "next" ELSE pc[u]
  BY <1>1, <1>4 DEF TypeOK
<1>6. Starters' = Starters /\ Busy' = Busy
  BY <1>1, <1>3, <1>5, StartersSame
<1>7. pc'[Main] \in Round
  BY <1>2, <1>5, Threads DEF Round, Running
<1>8. JobInv'
  BY <1>1, <1>2, <1>4, <1>6 DEF JobInv
<1>9. Call(t) \in Calls /\ Calls' = Calls \ {Call(t)}
  <2>1. \A u \in Thread \ {t} : pc[u] = "work" => local[u].first # local[t].first
    BY <1>1, Numbers
  <2>2. \A u \in Thread \ {t} : (pc'[u] = "work" <=> pc[u] = "work") /\ local'[u] = local[u]
    BY <1>4, <1>5
  <2>3. pc'[t] # "work"
    BY <1>5
  <2> QED
    BY <1>1, <2>1, <2>2, <2>3, CallRemoved
<1>10. Todo' = Todo
  BY <1>4 DEF Todo
<1>11. Phase' = Phase
  BY <1>2, <1>7, StaysInRound
<1> QED
  BY <1>8, <1>9, <1>10, <1>11, MappedEnd

\* A thread that has done a job takes another one under the same number.
LEMMA NextJob ==
  ASSUME LoopInv, Next, NEW t \in Thread, TakeNext(t), current_job < local[t].nb_jobs
  PROVE  JobInv' /\ Loop!BeginJob
<1>1. /\ IInv /\ TypeOK /\ TypeOK' /\ JobInv /\ pc[t] = "next"
  BY TypeStep DEF LoopInv, IInv, TakeNext
<1>2. InRound /\ pc[Main] \in Round
  BY <1>1, RunsInRound DEF Running
<1>3. Rest' = Rest
  BY <1>1, <1>2, AnotherJob
<1>4. /\ UNCHANGED <<nb_threads, nb_jobs, nb_active_threads, first_job>>
      /\ current_job' = current_job + 1
      /\ runs' = [runs EXCEPT ![current_job] = @ + 1]
      /\ local' = [local EXCEPT ![t].job = current_job]
      /\ pc' = [pc EXCEPT ![t] = "work"]
  BY DEF TakeNext, Goto
<1>5. /\ runs \in [Job -> Nat] /\ nb_jobs <= MaxJobs
      /\ nb_active_threads <= nb_threads /\ nb_active_threads <= current_job
      /\ first_job + Cardinality(Starters) = nb_active_threads
      /\ \A j \in 0 .. nb_jobs - 1 :
           runs[j] = 0 <=> first_job <= j /\ (j < nb_active_threads \/ current_job <= j)
      /\ \A u \in Busy : local[u].first \in 0 .. first_job - 1
      /\ \A u, v \in Busy : local[u].first = local[v].first => u = v
  BY <1>1, <1>2 DEF JobInv
<1>6. /\ nb_active_threads \in 1 .. nb_jobs /\ nb_jobs \in Nat /\ first_job \in Nat
      /\ current_job \in Nat /\ nb_active_threads \in Nat /\ nb_threads <= MaxThreads
      /\ nb_threads \in Nat /\ MaxThreads \in Nat /\ MaxJobs \in Nat
      /\ local[t].nb_jobs = nb_jobs
  BY <1>1, <1>2, Threads DEF IInv, CountInv, TypeOK
<1>7. /\ \A u \in Thread : pc'[u] = IF u = t THEN "work" ELSE pc[u]
      /\ \A u \in Thread \ {t} : local'[u] = local[u]
      /\ local'[t].first = local[t].first /\ local'[t].job = current_job
  BY <1>1, <1>4 DEF TypeOK
<1>8. Starters' = Starters /\ Busy' = Busy /\ t \in Busy
  <2>1. \A u \in Thread : pc'[u] \in {"work", "next"} <=> pc[u] \in {"work", "next"}
    BY <1>1, <1>7
  <2> QED
    BY <1>1, <1>3, <2>1, StartersSame DEF Busy
<1>9. first_job <= current_job /\ current_job \in Job /\ current_job \in 0 .. nb_jobs - 1
  BY <1>5, <1>6, StartersFinite DEF Job
<1>10. /\ runs' \in [Job -> Nat]
       /\ \A j \in Job : runs'[j] = IF j = current_job THEN runs[j] + 1 ELSE runs[j]
  BY <1>4, <1>5, <1>9
<1>11. \A j \in 0 .. nb_jobs - 1 : j \in Job /\ j \in Int
  BY <1>5, <1>6 DEF Job
<1>12. \A j \in 0 .. nb_jobs - 1 :
         runs'[j] = 0 <=> first_job <= j /\ (j < nb_active_threads \/ current_job' <= j)
  <2>1. SUFFICES ASSUME NEW j \in 0 .. nb_jobs - 1
                 PROVE  runs'[j] = 0 <=> first_job <= j /\ (j < nb_active_threads \/ current_job' <= j)
    OBVIOUS
  <2>2. CASE j = current_job
    BY <1>4, <1>5, <1>6, <1>10, <1>11, <2>2
  <2>3. CASE j # current_job
    BY <1>4, <1>5, <1>6, <1>10, <1>11, <2>3
  <2> QED
    BY <2>2, <2>3
<1>13. \A u \in Busy : local'[u].first = local[u].first
  BY <1>7 DEF Busy
<1>14. JobInv'
  <2>1. nb_active_threads' <= nb_threads' /\ nb_active_threads' <= current_job'
    BY <1>4, <1>5, <1>6
  <2> QED
    BY <1>4, <1>5, <1>8, <1>10, <1>12, <1>13, <2>1 DEF JobInv
<1>15. Loop!BeginJob
  <2> DEFINE k == local[t].first
  <2>1. Phase = "round" /\ Phase' = "round"
    <3>1. pc'[Main] \in Round
      BY <1>2, <1>7, Threads DEF Round, Running
    <3> QED
      BY <1>2, <3>1, StaysInRound
  <2>2. current_job \in Todo /\ Todo' = Todo \ {current_job}
    <3>1. current_job \in Todo
      BY <1>5, <1>6, <1>9 DEF Todo
    <3>2. \A j \in 0 .. nb_jobs - 1 : runs'[j] = 0 <=> runs[j] = 0 /\ j # current_job
      BY <1>5, <1>9, <1>10, <1>11
    <3> QED
      BY <1>4, <3>1, <3>2 DEF Todo
  <2>3. k \in 0 .. MaxThreads - 1
    BY <1>5, <1>6, <1>8, StartersFinite
  <2>4. \A c \in Calls : c.thread # k
    <3>1. \A u \in Thread : pc[u] = "work" => local[u].first # k
      BY <1>1, Numbers
    <3> QED
      BY <3>1 DEF Calls, Call
  <2>5. Calls' = Calls \cup {[thread |-> k, job |-> current_job]}
    <3>1. \A u \in Thread \ {t} : (pc'[u] = "work" <=> pc[u] = "work") /\ local'[u] = local[u]
      BY <1>7
    <3>2. pc[t] # "work" /\ pc'[t] = "work"
      BY <1>1, <1>7
    <3>3. Calls' = Calls \cup {[thread |-> local'[t].first, job |-> local'[t].job]}
      BY <3>1, <3>2, CallAdded
    <3> QED
      BY <1>7, <3>3
  <2> HIDE DEF k
  <2> QED
    BY <2>1, <2>2, <2>3, <2>4, <2>5, MappedBegin
<1> QED
  BY <1>14, <1>15

\* When the round waits for nobody, or only for main, which has asked for
\* the last time, all jobs were taken and are done.
LEMMA RoundOver ==
  ASSUME LoopInv, pc[Main] \in Round, Starters = {}, current_job >= nb_jobs,
         \A t \in Thread : pc[t] # "work"
  PROVE  Todo = {} /\ Calls = {}
<1>1. /\ first_job \in Nat /\ current_job \in Nat /\ nb_jobs \in Nat /\ nb_active_threads \in Nat
      /\ first_job + Cardinality(Starters) = nb_active_threads
      /\ \A j \in 0 .. nb_jobs - 1 :
           runs[j] = 0 <=> first_job <= j /\ (j < nb_active_threads \/ current_job <= j)
  BY DEF LoopInv, IInv, TypeOK, JobInv
<1>2. Cardinality(Starters) = 0
  BY FS_EmptySet
<1>3. first_job = nb_active_threads
  BY <1>1, <1>2
<1>4. \A j \in 0 .. nb_jobs - 1 : runs[j] # 0
  BY <1>1, <1>3
<1> QED
  BY <1>4 DEF Todo, Calls

\* A thread that finds no more job; main may end the call.
LEMMA LastJob ==
  ASSUME LoopInv, Next, NEW t \in Thread, TakeNext(t), ~(current_job < local[t].nb_jobs)
  PROVE  JobInv' /\ (UNCHANGED Loop!vars \/ Loop!Return)
<1>1. /\ IInv /\ TypeOK /\ TypeOK' /\ JobInv /\ MainInv /\ pc[t] = "next"
  BY TypeStep DEF LoopInv, IInv, TakeNext
<1>2. InRound /\ pc[Main] \in Round
  BY <1>1, RunsInRound DEF Running
<1>3. IInv' /\ t \in Rest /\ Rest' = Rest \ {t}
  BY <1>1, <1>2, EndStep
<1>4. /\ UNCHANGED <<nb_threads, nb_jobs, nb_active_threads, first_job, runs>>
      /\ current_job' = current_job + 1
      /\ local' = [local EXCEPT ![t] = Blank]
      /\ pc' = [pc EXCEPT ![t] = CASE t = Main /\ IsLast(t)   -> "idle"
                                   [] t = Main /\ ~IsLast(t)  -> "done"
                                   [] t # Main /\ IsLast(t)   -> "report"
                                   [] t # Main /\ ~IsLast(t)  -> "park"]
  BY DEF TakeNext, Goto
<1>5. PICK b \in {"idle", "done", "report", "park"} : pc' = [pc EXCEPT ![t] = b]
  BY <1>4, Zenon
<1>6. /\ \A u \in Thread : pc'[u] = IF u = t THEN b ELSE pc[u]
      /\ \A u \in Thread \ {t} : local'[u] = local[u]
  BY <1>1, <1>4, <1>5 DEF TypeOK
<1>7. current_job \in Nat /\ nb_jobs \in Nat /\ local[t].nb_jobs = nb_jobs
  BY <1>1, <1>2 DEF IInv, TypeOK, CountInv
<1>8. Starters' = Starters
  <2>1. Rest \subseteq Thread
    BY Threads DEF Rest, RestWorker, RestMain
  <2> QED
    BY <1>1, <1>3, <1>6, <2>1 DEF Starters
<1>9. Busy' = Busy \ {t}
  BY <1>6 DEF Busy
<1>10. JobInv'
  <2>1. /\ runs \in [Job -> Nat] /\ nb_jobs <= MaxJobs
        /\ nb_active_threads <= nb_threads /\ nb_active_threads <= current_job
        /\ first_job + Cardinality(Starters) = nb_active_threads
        /\ \A j \in 0 .. nb_jobs - 1 :
             runs[j] = 0 <=> first_job <= j /\ (j < nb_active_threads \/ current_job <= j)
        /\ \A u \in Busy : local[u].first \in 0 .. first_job - 1
        /\ \A u, v \in Busy : local[u].first = local[v].first => u = v
    BY <1>1, <1>2 DEF JobInv
  <2>2. \A u \in Busy' : u \in Busy /\ local'[u].first = local[u].first
    BY <1>6, <1>9 DEF Busy
  <2>3. \A j \in 0 .. nb_jobs - 1 : ~(current_job <= j) /\ ~(current_job' <= j)
    BY <1>4, <1>7
  <2>4. nb_active_threads' <= current_job'
    BY <1>1, <1>4, <2>1 DEF TypeOK
  <2> QED
    BY <1>4, <1>8, <2>1, <2>2, <2>3, <2>4 DEF JobInv
<1>11. Todo' = Todo
  BY <1>4 DEF Todo
<1>12. Calls' = Calls
  BY <1>1, <1>6, CallsSame
<1>13. CASE pc'[Main] \in Round
  BY <1>2, <1>10, <1>11, <1>12, <1>13, StaysInRound, MappedStutter
<1>14. CASE pc'[Main] \notin Round
  <2>1. pc'[Main] = "idle" /\ t = Main
    <3>1. pc'[Main] = "idle"
      BY <1>1, <1>2, <1>14, MainGoes
    <3>2. pc[Main] # "idle"
      BY <1>2 DEF Round, Running
    <3> QED
      BY <1>6, <3>1, <3>2, Threads
  <2>2. Rest' = {}
    BY <1>3, <2>1 DEF IInv, TokenInv
  <2>3. Starters = {}
    BY <1>1, <1>3, <2>2 DEF Starters
  <2>4. \A u \in Thread : pc[u] # "work"
    <3>1. \A u \in Thread : pc[u] = "work" => u \in Rest
      BY RunsInRound DEF Running
    <3> QED
      BY <1>1, <1>3, <2>2, <3>1
  <2>5. current_job >= nb_jobs
    BY <1>7
  <2>6. Todo = {} /\ Calls = {}
    BY <1>2, <2>3, <2>4, <2>5, RoundOver
  <2>7. Phase = "round" /\ Phase' = "idle"
    BY <1>2, <2>1 DEF Phase, Round, Running
  <2> QED
    BY <1>10, <1>11, <1>12, <2>6, <2>7, MappedReturn
<1> QED
  BY <1>13, <1>14

\* A call begins.
LEMMA CallBegins ==
  ASSUME LoopInv, Next, Execute
  PROVE  JobInv' /\ Loop!Execute
<1>1. PICK n \in 1 .. MaxJobs : nb_jobs' = n /\ nb_active_threads' = Smaller(n, nb_threads)
  BY DEF Execute
<1>2. /\ pc[Main] = "idle" /\ pc' = [pc EXCEPT ![Main] = "wake"]
      /\ first_job' = 0 /\ current_job' = nb_active_threads'
      /\ runs' = [j \in Job |-> 0]
      /\ UNCHANGED <<nb_threads, local>>
  BY DEF Execute, Goto
<1>3. /\ IInv /\ TypeOK /\ TypeOK' /\ InRound /\ Main \in Thread
  BY <1>2, TypeStep, Threads DEF LoopInv, IInv, InRound
<1>4. IInv' /\ Cardinality(Rest') = nb_active_threads'
  BY <1>3, ExecuteStep
<1>5. pc'[Main] = "wake" /\ \A t \in Thread \ {Main} : pc'[t] = pc[t]
  BY <1>2, <1>3 DEF TypeOK
<1>6. \A t \in Thread : pc[t] \notin {"work", "next"} /\ pc'[t] \notin {"work", "next"}
  <2>1. ASSUME NEW t \in Thread, pc[t] \in {"work", "next"} PROVE FALSE
    <3>1. pc[Main] \in Round
      BY <2>1, RunsInRound DEF Running
    <3> QED
      BY <1>2, <3>1 DEF Round, Running
  <2> QED
    BY <1>5, <2>1
<1>7. Busy' = {} /\ Starters' = Rest'
  <2>1. Busy' = {}
    BY <1>6 DEF Busy
  <2>2. Rest' \subseteq Thread
    BY Threads DEF Rest, RestWorker, RestMain
  <2> QED
    BY <1>6, <2>1, <2>2 DEF Starters
<1>8. /\ nb_threads \in 0 .. MaxThreads /\ n \in Nat /\ n <= MaxJobs /\ n >= 1
      /\ nb_active_threads' \in Nat /\ nb_active_threads' <= nb_threads
      /\ nb_active_threads' <= n
  BY <1>1, <1>3, Threads DEF TypeOK, Smaller
<1>9. JobInv'
  <2>1. runs' \in [Job -> Nat] /\ \A j \in 0 .. n - 1 : j \in Job /\ runs'[j] = 0
    BY <1>2, <1>8, Threads DEF Job
  <2>2. \A j \in 0 .. n - 1 :
          runs'[j] = 0 <=> first_job' <= j /\ (j < nb_active_threads' \/ current_job' <= j)
    BY <1>2, <1>8, <2>1
  <2>3. first_job' + Cardinality(Starters') = nb_active_threads'
    <3>1. Cardinality(Starters') = nb_active_threads'
      BY <1>4, <1>7, Zenon
    <3>2. first_job' = 0 /\ nb_active_threads' \in Nat
      BY <1>2, <1>8
    <3>3. \A x \in Nat : 0 + x = x
      OBVIOUS
    <3> QED
      BY <3>1, <3>2, <3>3, Zenon
  <2>4. nb_active_threads' <= nb_threads' /\ nb_active_threads' <= current_job' /\ nb_jobs' <= MaxJobs
    BY <1>1, <1>2, <1>8
  <2> QED
    BY <1>1, <1>7, <2>1, <2>2, <2>3, <2>4 DEF JobInv
<1>10. Calls' = Calls
  BY <1>6, CallsSame
<1>11. Todo' = 0 .. n - 1
  <2>1. \A j \in 0 .. n - 1 : j \in Job
    BY <1>8, Threads DEF Job
  <2> QED
    BY <1>1, <1>2, <2>1 DEF Todo
<1>12. Phase = "idle" /\ Phase' = "round"
  BY <1>2, <1>5 DEF Phase
<1> QED
  BY <1>9, <1>10, <1>11, <1>12, MappedExecute

\* All other steps: only the end of a call and of the context show.
LEMMA OtherMapped ==
  ASSUME LoopInv, Next, ~Execute, \A t \in Thread : ~RunJobs(t)
  PROVE  JobInv' /\ (UNCHANGED Loop!vars \/ Loop!Return \/ Loop!Free)
<1>1. IInv /\ TypeOK /\ TypeOK' /\ MainInv
  BY TypeStep DEF LoopInv, IInv
<1>2. /\ UNCHANGED Counters /\ NoJobs
      /\ nb_threads' = nb_threads \/ CreateFails
  BY <1>1, OtherSteps
<1>3. pc'[Main] \in Round => pc[Main] \in Round
  BY <1>1, MainGoes DEF MainInv, Creating, Round, Running, Freeing
<1>4. pc[Main] \in Round => ~CreateFails
  BY DEF CreateFails, Round, Running
<1>5. pc[Main] \in Round => Rest' = Rest
  BY RestSame
<1>6. JobInv'
  BY <1>2, <1>3, <1>4, <1>5, JobSame
<1>7. Calls' = Calls /\ Todo' = Todo
  <2>1. UNCHANGED <<nb_jobs, runs, local>>
    BY <1>2 DEF Counters
  <2> QED
    BY <1>2, <2>1, CallsSame DEF NoJobs, Todo
<1>8. CASE Phase' = Phase
  BY <1>6, <1>7, <1>8, MappedStutter
<1>9. CASE pc[Main] \in Round /\ pc'[Main] = "idle"
  <2>1. DoneTest
    <3>1. TakeNext(Main) \/ DoneTest
      BY <1>1, <1>9, MainGoes DEF Round, Running
    <3> QED
      BY <3>1, Threads DEF RunJobs
  <2>2. InRound
    BY <1>9 DEF InRound
  <2>3. IInv' /\ Rest' = Rest
    BY <1>1, <2>1, <2>2, DoneStep
  <2>4. Rest = {}
    BY <1>9, <2>3 DEF IInv, TokenInv
  <2>5. Starters = {} /\ \A t \in Thread : pc[t] # "work"
    <3>1. \A t \in Thread : pc[t] = "work" => t \in Rest
      BY RunsInRound DEF Running
    <3> QED
      BY <2>4, <3>1 DEF Starters
  <2>6. current_job >= nb_jobs
    <3>1. Cardinality(Rest) = 0
      BY <2>4, FS_EmptySet
    <3>2. /\ nb_active_threads \in 1 .. nb_jobs
          /\ current_job <= nb_jobs => Cardinality(Rest) = nb_active_threads
      BY <1>1, <1>9 DEF IInv, CountInv
    <3>3. nb_jobs \in Nat /\ current_job \in Nat
      BY <1>1 DEF TypeOK
    <3> QED
      BY <3>1, <3>2, <3>3
  <2>7. Todo = {} /\ Calls = {}
    BY <1>9, <2>5, <2>6, RoundOver
  <2>8. Phase = "round" /\ Phase' = "idle"
    BY <1>9 DEF Phase, Round, Running
  <2> QED
    BY <1>6, <1>7, <2>7, <2>8, MappedReturn
<1>10. CASE pc[Main] = "join" /\ pc'[Main] = "gone"
  <2>1. Phase = "idle" /\ Phase' = "gone"
    BY <1>10 DEF Phase
  <2> QED
    BY <1>6, <1>7, <2>1, MappedFree
<1>11. \/ Phase' = Phase
       \/ pc[Main] \in Round /\ pc'[Main] = "idle"
       \/ pc[Main] = "join" /\ pc'[Main] = "gone"
  <2>1. CASE pc[Main] \in Creating
    <3>1. pc'[Main] \in Creating \cup {"idle", "free"}
      BY <1>1, <2>1, MainGoes
    <3> QED
      BY <2>1, <3>1 DEF Phase, Creating
  <2>2. CASE pc[Main] = "idle"
    <3>1. pc'[Main] \in {"idle", "free"}
      BY <1>1, <2>2, MainGoes
    <3> QED
      BY <2>2, <3>1 DEF Phase
  <2>3. CASE pc[Main] \in Round
    <3>1. pc'[Main] \in Round \/ pc'[Main] = "idle"
      BY <1>1, <2>3, MainGoes
    <3> QED
      BY <2>3, <3>1, StaysInRound
  <2>4. CASE pc[Main] \in Freeing
    <3>1. \/ pc'[Main] \in Freeing /\ (pc'[Main] = "gone" <=> pc[Main] = "gone")
          \/ pc[Main] = "join" /\ pc'[Main] = "gone"
      BY <1>1, <2>4, MainGoes
    <3> QED
      BY <2>4, <3>1 DEF Phase, Freeing
  <2> QED
    BY <1>1, <2>1, <2>2, <2>3, <2>4 DEF MainInv
<1> QED
  BY <1>8, <1>9, <1>10, <1>11

LEMMA LoopInit == Init => LoopInv /\ Loop!Init
<1> SUFFICES ASSUME Init PROVE LoopInv /\ Loop!Init
  OBVIOUS
<1>1. IInv
  BY IInvInit
<1>2. /\ pc[Main] = "create" /\ nb_jobs = 0 /\ runs \in [Job -> Nat]
      /\ \A t \in Thread : pc[t] # "work"
  BY Threads DEF Init
<1>3. JobInv
  BY <1>2, Threads DEF JobInv, Round, Running
<1>4. FreeInv /\ MainInv
  BY <1>2 DEF FreeInv, MainInv, Freeing, Creating
<1>5. Phase = "idle"
  BY <1>2 DEF Phase
<1>6. Todo = {} /\ Calls = {}
  BY <1>2 DEF Todo, Calls
<1>7. Loop!Init
  BY <1>5, <1>6 DEF Loop!Init, Todo, Calls, Call
<1> QED
  BY <1>1, <1>3, <1>4, <1>7 DEF LoopInv

LEMMA LoopStep == LoopInv /\ [Next]_vars => LoopInv' /\ [Loop!Next]_(Loop!vars)
<1> SUFFICES ASSUME LoopInv, [Next]_vars PROVE LoopInv' /\ [Loop!Next]_(Loop!vars)
  OBVIOUS
<1>1. IInv'
  BY IInvStep DEF LoopInv
<1>2. CASE UNCHANGED vars
  <2>1. JobInv' /\ FreeInv' /\ MainInv'
    BY <1>2 DEF LoopInv, vars, JobInv, FreeInv, MainInv, Starters, Busy, Rest, RestWorker,
       RestMain, Active, NbWoken, MainRunsMainFunc
  <2>2. Phase' = Phase /\ Calls' = Calls /\ Todo' = Todo
    BY <1>2 DEF vars, Phase, Calls, Call, Todo
  <2> QED
    BY <1>1, <2>1, <2>2, MappedStutter DEF LoopInv
<1>3. CASE Next
  <2>1. FreeInv'
    BY <1>3, FreeStep
  <2>2. MainInv'
    <3>1. TypeOK /\ MainInv
      BY DEF LoopInv, IInv
    <3>2. pc'[Main] \in Creating \cup Round \cup {"idle", "wake", "free"} \cup Freeing
      <4>1. pc[Main] \in Creating \/ pc[Main] = "idle" \/ pc[Main] \in Round \/ pc[Main] \in Freeing
        BY <3>1 DEF MainInv
      <4> QED
        BY <1>3, <3>1, <4>1, MainGoes DEF Freeing
    <3> QED
      BY <3>2 DEF MainInv, Round, Freeing
  <2>3. JobInv' /\ (UNCHANGED Loop!vars \/ Loop!Next)
    <3>1. ASSUME NEW t \in Thread, RunJobs(t)
          PROVE  JobInv' /\ (UNCHANGED Loop!vars \/ Loop!BeginJob \/ Loop!EndJob \/ Loop!Return)
      BY <1>3, <3>1, FirstJob, JobEnds, NextJob, LastJob DEF RunJobs
    <3>2. CASE Execute
      BY <1>3, <3>2, CallBegins DEF Loop!Next
    <3>3. CASE ~Execute /\ \A t \in Thread : ~RunJobs(t)
      BY <1>3, <3>3, OtherMapped DEF Loop!Next
    <3> QED
      BY <3>1, <3>2, <3>3 DEF Loop!Next
  <2> QED
    BY <1>1, <2>1, <2>2, <2>3 DEF LoopInv
<1> QED
  BY <1>2, <1>3

\* For any number of threads and jobs a call runs every job once, each under
\* a thread number of its own, and returns when all are done and not before.
THEOREM PoolIsParallelFor == Spec => Loop!Init /\ [][Loop!Next]_(Loop!vars)
BY LoopInit, LoopStep, PTL DEF Spec

-----------------------------------------------------------------------------
(* Nobody waits for ever for somebody who waits: some thread can always go *)
(* on while the library is busy.                                           *)

\* Told to exit, and about to, or it did.
Leaving(w) == pc[w] = "exited" \/ (pc[w] = "woken" /\ ~w_done[w])

\* Nobody sleeps who was told to go on: a worker only when it has nothing to
\* do, main only until its new worker has started or until the thread that
\* ends the round has reported it; who is dismissed leaves.
AsleepInv   == \A w \in Worker : pc[w] = "wait" => w_done[w]
ReadyInv    == pc[Main] = "ready_wait" => pc[i] = "start"
EndInv      == /\ pc[Main] \in Round /\ current_job = nb_jobs + nb_active_threads =>
                    Reporting # {} \/ ctx_done
               /\ pc[Main] = "done_wait" => ~ctx_done
DismissInv  == /\ pc[Main] = "free" => i = 0
               /\ pc[Main] \in {"free", "dismiss", "join"} =>
                    \A w \in Worker : w < NbWorkers => pc[w] # "none"
               /\ pc[Main] \in {"dismiss", "join"} =>
                    \A w \in Worker : w < NbWorkers /\ (pc[Main] = "dismiss" => w < i) => Leaving(w)
WakeInv == AsleepInv /\ ReadyInv /\ EndInv /\ DismissInv

\* A worker that is told to run is signalled under the mutex it waits with.
LEMMA AsleepStep ==
  ASSUME IInv, AsleepInv, Next
  PROVE  AsleepInv'
<1> USE DEF TypeOK, AsleepInv
<1>0. TypeOK
  BY DEF IInv
<1>1. Main \in Thread /\ Main \notin Worker /\ Worker \subseteq Thread
  BY Threads
<1>2. ASSUME NEW w \in Worker, Start(w) PROVE AsleepInv'
  BY <1>0, <1>1, <1>2 DEF Start, Signal
<1>3. ASSUME NEW w \in Worker, Woken(w) PROVE AsleepInv'
  BY <1>0, <1>1, <1>3 DEF Woken, Goto
<1>4. ASSUME NEW w \in Worker, ReportDone(w) PROVE AsleepInv'
  BY <1>0, <1>1, <1>4 DEF ReportDone, Signal
<1>5. ASSUME NEW w \in Worker, Park(w) PROVE AsleepInv'
  BY <1>0, <1>1, <1>5 DEF Park, Goto
<1>6. ASSUME NEW t \in Thread, RunJobs(t) PROVE AsleepInv'
  <2>1. w_done' = w_done /\ \E b : b # "wait" /\ pc' = [pc EXCEPT ![t] = b]
    BY <1>6 DEF RunJobs, TakeFirst, JobDone, TakeNext, Goto
  <2> QED
    BY <1>0, <1>1, <2>1
<1>7. CASE CreateWorker
  BY <1>0, <1>1, <1>7, Sizes DEF CreateWorker
<1>8. CASE Wake \/ Dismiss
  <2>1. i \in Worker
    <3>1. CASE Dismiss
      BY <1>0, <3>1, Sizes DEF Dismiss
    <3>2. CASE Wake
      <4>1. pc[Main] = "wake" /\ i < NbWoken
        BY <3>2 DEF Wake, NbWoken
      <4>2. NbWoken <= NbWorkers /\ NbWoken \in Int
        BY <1>0, <4>1 DEF IInv, CountInv, Round, NbWoken, WorkersOf
      <4> QED
        BY <1>0, <4>1, <4>2, Sizes
    <3> QED
      BY <1>8, <3>1, <3>2
  <2> QED
    BY <1>0, <1>1, <1>8, <2>1 DEF Wake, Dismiss, WakeWorker, Signal
<1>9. CASE Spurious
  BY <1>0, <1>1, <1>9 DEF Spurious, Goto
<1>10. CASE \/ ReadyTest \/ Created \/ CreateFails \/ AllWoken \/ MainFuncDone \/ DoneTest \/ Execute
            \/ Free \/ Finish \/ AllDismissed \/ Join \/ Freed \/ Over
  <2>1. w_done' = w_done /\ (pc' = pc \/ \E b : pc' = [pc EXCEPT ![Main] = b])
    BY <1>10 DEF ReadyTest, Created, CreateFails, AllWoken, MainFuncDone, DoneTest, Execute, Free,
       Finish, AllDismissed, Join, Freed, Over, Goto, vars
  <2> QED
    BY <1>0, <1>1, <2>1
<1> QED
  BY <1>0, <1>1, <1>2, <1>3, <1>4, <1>5, <1>6, <1>7, <1>8, <1>9, <1>10 DEF Next, MainStep,
      WorkerStep

\* Main waits for a worker that has yet to start, and no other is created
\* meanwhile.
LEMMA ReadyStep ==
  ASSUME IInv, MainInv, ReadyInv, Next, TypeOK'
  PROVE  ReadyInv'
<1> SUFFICES ASSUME pc'[Main] = "ready_wait" PROVE pc'[i'] = "start"
  BY DEF ReadyInv
<1>1. TypeOK /\ CreateInv
  BY DEF IInv
<1>2. Main \in Thread /\ Main \notin Worker /\ Worker \subseteq Thread
  BY Threads
<1>3. pc[Main] \in Creating
  BY <1>1, MainGoes DEF MainInv, Creating, Round, Running, Freeing
<1>4. CASE CreateWorker
  BY <1>1, <1>2, <1>4, Sizes DEF CreateWorker, TypeOK
<1>5. CASE ReadyTest
  <2>1. i \in Worker /\ pc[Main] = "ready" /\ pc' = [pc EXCEPT ![Main] = "ready_wait"]
        /\ ~w_done[i] /\ i' = i
    BY <1>1, <1>2, <1>5, Sizes DEF ReadyTest, Goto, TypeOK, CreateInv, Creating
  <2>2. pc[i] = "start"
    BY <1>1, <1>3, <2>1 DEF CreateInv
  <2> QED
    BY <1>1, <1>2, <2>1, <2>2 DEF TypeOK
<1>6. CASE Spurious
  <2>1. pc[Main] = "ready_wait" /\ i' = i
    BY <1>1, <1>2, <1>3, <1>6 DEF Spurious, Goto, TypeOK, Creating
  <2>2. PICK w \in Worker : pc[w] = "wait" /\ pc' = [pc EXCEPT ![w] = "woken"]
    BY <1>1, <1>2, <1>6, <2>1 DEF Spurious, Goto, TypeOK
  <2> QED
    BY <1>1, <2>1, <2>2 DEF ReadyInv, TypeOK
<1>7. ASSUME NEW w \in Worker, WorkerStep(w) PROVE pc'[i'] = "start"
  <2>1. pc[Main] = "ready_wait"
    BY <1>1, <1>3, <1>7, WorkerLeavesMain DEF Creating
  <2>2. pc[i] = "start" /\ i \in Worker
    BY <1>1, <2>1, Sizes DEF ReadyInv, CreateInv, Creating
  <2>3. ~Start(w)
    BY <1>1, <1>2, <1>7, <2>1 DEF Start, Signal, TypeOK
  <2>4. w # i
    BY <1>7, <2>2, <2>3 DEF WorkerStep, Woken, RunJobs, TakeFirst, JobDone, TakeNext, ReportDone,
        Park
  <2>5. i' = i
    BY <1>7 DEF WorkerStep, Start, Woken, RunJobs, TakeFirst, JobDone, TakeNext, ReportDone, Park
  <2>6. pc'[i] = pc[i]
    <3>1. CASE ReportDone(w)
      BY <1>1, <1>2, <2>1, <2>2, <2>4, <3>1 DEF ReportDone, Signal, TypeOK
    <3>2. CASE Woken(w) \/ RunJobs(w) \/ Park(w)
      <4>1. \E b : pc' = [pc EXCEPT ![w] = b]
        BY <3>2 DEF Woken, RunJobs, TakeFirst, JobDone, TakeNext, Park, Goto
      <4> QED
        BY <1>1, <1>2, <2>2, <2>4, <4>1 DEF TypeOK
    <3> QED
      BY <1>7, <2>3, <3>1, <3>2 DEF WorkerStep
  <2> QED
    BY <2>2, <2>5, <2>6
<1>8. CASE CreateFails \/ Created
  BY <1>1, <1>2, <1>8 DEF CreateFails, Created, Goto, TypeOK
<1> QED
  BY <1>1, <1>3, <1>4, <1>5, <1>6, <1>7, <1>8, StepsOf

\* The last fetch_add of a round is by the thread that reports it.
LEMMA EndNext ==
  ASSUME IInv, IInv', pc[Main] \in Round, pc'[Main] \in Round, EndInv,
         NEW t \in Thread, TakeNext(t)
  PROVE  EndInv'
<1>1. TypeOK /\ CountInv /\ CountInv' /\ Main \in Thread /\ Main \notin Worker /\ Worker \subseteq Thread
  BY Threads DEF IInv
<1>2. UNCHANGED <<nb_jobs, nb_active_threads, ctx_done>> /\ current_job' = current_job + 1
  BY DEF TakeNext
<1>3. nb_active_threads \in 1 .. nb_jobs /\ nb_jobs \in Nat /\ current_job \in Nat
  BY <1>1 DEF CountInv, TypeOK
<1>4. ASSUME current_job' = nb_jobs' + nb_active_threads' PROVE Reporting' # {}
  <2>1. current_job >= nb_jobs
    BY <1>2, <1>3, <1>4
  <2>2. local[t].nb_jobs = nb_jobs /\ local[t].nb_active = nb_active_threads
    BY <1>1 DEF CountInv, TakeNext
  <2>3. IsLast(t) /\ ~(current_job < local[t].nb_jobs)
    BY <1>2, <1>3, <1>4, <2>1, <2>2 DEF IsLast
  <2>4. t # Main
    BY <1>1, <2>3 DEF TakeNext, Goto, TypeOK, Round, Running
  <2>5. pc' = [pc EXCEPT ![t] = "report"]
    BY <2>3, <2>4 DEF TakeNext, Goto
  <2>6. t \in Worker /\ pc'[t] = "report"
    BY <1>1, <2>4, <2>5, Threads DEF TypeOK
  <2> QED
    BY <2>6 DEF Reporting
<1>5. pc'[Main] = "done_wait" => pc[Main] = "done_wait"
  <2>1. PICK b : pc' = [pc EXCEPT ![t] = b] /\ b # "done_wait"
    BY DEF TakeNext, Goto
  <2> QED
    BY <1>1, <2>1 DEF TypeOK
<1> QED
  BY <1>2, <1>4, <1>5 DEF EndInv

\* No step but the report of main's own round ends it, and main consumes the
\* flag when it leaves the wait.
LEMMA EndInvStep ==
  ASSUME IInv, IInv', MainInv, EndInv, Next
  PROVE  EndInv'
<1>1. TypeOK /\ TypeOK' /\ CountInv' /\ Main \in Thread /\ Main \notin Worker /\ Worker \subseteq Thread
  BY Threads DEF IInv
<1> SUFFICES ASSUME pc'[Main] \in Round PROVE EndInv'
  BY DEF EndInv, Round
<1>2. \/ Execute /\ pc'[Main] = "wake"
      \/ pc[Main] \in Round
  BY <1>1, MainGoes DEF MainInv, Creating, Round, Running, Freeing
<1>3. CASE Execute /\ pc'[Main] = "wake"
  <2>1. current_job' = nb_active_threads' /\ nb_jobs' \in 1 .. MaxJobs
    BY <1>3 DEF Execute
  <2>2. nb_jobs' > 0 /\ nb_jobs' \in Nat /\ nb_active_threads' \in Nat /\ current_job' \in Nat
    BY <1>1, <2>1, Threads DEF TypeOK
  <2>3. \A a, b, c \in Nat : a = b /\ c > 0 => a # c + b
    OBVIOUS
  <2>4. current_job' # nb_jobs' + nb_active_threads'
    BY <2>1, <2>2, <2>3, Zenon
  <2> QED
    BY <1>3, <2>4 DEF EndInv
<1>4. ASSUME pc[Main] \in Round, UNCHANGED <<nb_jobs, nb_active_threads, current_job, ctx_done>>,
             NEW t \in Thread, NEW b, pc' = [pc EXCEPT ![t] = b] \/ pc' = pc,
             b # "done_wait", pc[t] # "report"
      PROVE  EndInv'
  <2>1. Reporting \subseteq Reporting'
    BY <1>1, <1>4 DEF Reporting, TypeOK
  <2>2. pc'[Main] = "done_wait" => pc[Main] = "done_wait"
    BY <1>1, <1>4 DEF TypeOK
  <2> QED
    BY <1>4, <2>1, <2>2 DEF EndInv
<1>5. ASSUME pc[Main] \in Round, NEW w \in Worker, WorkerStep(w) PROVE EndInv'
  <2>1. CASE TakeNext(w)
    BY <1>1, <1>5, <2>1, EndNext
  <2>2. CASE TakeFirst(w) \/ JobDone(w) \/ Woken(w) \/ Park(w)
    <3>1. PICK b : pc' = [pc EXCEPT ![w] = b] /\ b # "done_wait" /\ pc[w] # "report"
      BY <2>2 DEF TakeFirst, JobDone, Woken, Park, Goto
    <3>2. UNCHANGED <<nb_jobs, nb_active_threads, current_job, ctx_done>>
      BY <2>2 DEF TakeFirst, JobDone, Woken, Park, ctx
    <3> QED
      BY <1>1, <1>4, <1>5, <3>1, <3>2
  <2>3. CASE ReportDone(w)
    <3>1. pc'[Main] # "done_wait"
      BY <1>1, <2>3 DEF ReportDone, Signal, TypeOK
    <3>2. ctx_done' = TRUE
      BY <2>3 DEF ReportDone
    <3> QED
      BY <3>1, <3>2, Zenon DEF EndInv
  <2>4. CASE Start(w)
    <3>1. pc[w] = "start" /\ pc[w] \in {"wait", "woken", "none"} \cup Occupied
      BY <1>1, <1>5, <2>4 DEF Start, IInv, PoolInv
    <3> QED
      BY <3>1 DEF Occupied, Running
  <2> QED
    BY <1>5, <2>1, <2>2, <2>3, <2>4 DEF WorkerStep, RunJobs
<1>6. ASSUME pc[Main] \in Round,
             AllWoken \/ MainFuncDone \/ TakeFirst(Main) \/ JobDone(Main) PROVE EndInv'
  <2>1. PICK b : pc' = [pc EXCEPT ![Main] = b] /\ b # "done_wait"
    BY <1>6 DEF AllWoken, MainFuncDone, TakeFirst, JobDone, Goto
  <2>2. UNCHANGED <<nb_jobs, nb_active_threads, current_job, ctx_done>>
    BY <1>6 DEF AllWoken, MainFuncDone, TakeFirst, JobDone, ctx
  <2>3. pc[Main] # "report"
    BY <1>6 DEF Round, Running
  <2> QED
    BY <1>1, <1>4, <1>6, <2>1, <2>2, <2>3
<1>7. ASSUME pc[Main] \in Round, Wake PROVE EndInv'
  <2>1. pc' = [pc EXCEPT ![i] = "woken"] \/ pc' = pc
    BY <1>7 DEF Wake, WakeWorker, Signal
  <2>2. i \in Thread /\ pc[i] # "report"
    <3>1. i < NbWoken /\ NbWoken <= NbWorkers /\ NbWoken \in Int
      BY <1>1, <1>7 DEF Wake, IInv, CountInv, NbWoken, WorkersOf, TypeOK
    <3>2. i \in Worker
      BY <1>1, <3>1, Sizes DEF TypeOK
    <3> QED
      BY <1>1, <1>7, <3>2 DEF Wake, WakeWorker, MutexFree, Occupied
  <2>3. UNCHANGED <<nb_jobs, nb_active_threads, current_job, ctx_done>>
    BY <1>7 DEF Wake, ctx
  <2> QED
    BY <1>4, <1>7, <2>1, <2>2, <2>3
<1>8. ASSUME pc[Main] \in Round, Spurious PROVE EndInv'
  <2>1. UNCHANGED <<nb_jobs, nb_active_threads, current_job, ctx_done>>
    BY <1>8 DEF Spurious, ctx
  <2>2. PICK t \in Thread : /\ pc[t] \in {"wait", "ready_wait", "done_wait"}
                           /\ \E b \in {"woken", "ready", "done"} : pc' = [pc EXCEPT ![t] = b]
    BY <1>1, <1>8 DEF Spurious, Goto
  <2>3. PICK b \in {"woken", "ready", "done"} : pc' = [pc EXCEPT ![t] = b]
    BY <2>2
  <2> QED
    BY <1>4, <1>8, <2>1, <2>2, <2>3
<1>9. ASSUME pc[Main] \in Round, DoneTest PROVE EndInv'
  <2>1. ~ctx_done /\ ctx_done' = FALSE /\ pc' = [pc EXCEPT ![Main] = "done_wait"]
        /\ UNCHANGED <<nb_jobs, nb_active_threads, current_job>>
    BY <1>1, <1>9 DEF DoneTest, Goto, TypeOK, Round, Running
  <2>2. Reporting' = Reporting
    BY <1>1, <2>1 DEF Reporting, TypeOK
  <2> QED
    BY <1>9, <2>1, <2>2, Zenon DEF EndInv
<1>10. CASE pc[Main] \in Round
  <2>1. ~(Free \/ Execute)
    BY <1>10 DEF Free, Execute, Round, Running
  <2> QED
    BY <1>1, <1>5, <1>6, <1>7, <1>8, <1>9, <1>10, <2>1, EndNext, StepsOf DEF RunJobs
<1> QED
  BY <1>2, <1>3, <1>10

\* Once a worker is dismissed nothing gives it work again.
LEMMA DismissStep ==
  ASSUME LoopInv, DismissInv, Next, TypeOK'
  PROVE  DismissInv'
<1>1. TypeOK /\ MainInv /\ FreeInv /\ CreateInv /\ PoolInv
      /\ Main \in Thread /\ Main \notin Worker /\ Worker \subseteq Thread
  BY Threads DEF LoopInv, IInv
<1> SUFFICES ASSUME pc'[Main] \in {"free", "dismiss", "join"} PROVE DismissInv'
  BY DEF DismissInv
<1>2. \/ CreateFails /\ pc'[Main] = "free" /\ pc[Main] \in Creating
      \/ Free /\ pc'[Main] = "free" /\ pc[Main] = "idle"
      \/ pc[Main] \in {"free", "dismiss", "join"}
  BY <1>1, MainGoes DEF MainInv, Creating, Round, Running, Freeing
<1>3. CASE CreateFails /\ pc'[Main] = "free" /\ pc[Main] \in Creating
  <2>1. i' = 0 /\ NbWorkers' = i /\ pc' = [pc EXCEPT ![Main] = "free"]
    BY <1>1, <1>3 DEF CreateFails, Goto, NbWorkers, WorkersOf, TypeOK
  <2>2. \A w \in Worker : w < i => pc'[w] # "none"
    BY <1>1, <1>3, <2>1 DEF CreateInv, TypeOK
  <2> QED
    BY <1>3, <2>1, <2>2 DEF DismissInv
<1>4. CASE Free /\ pc'[Main] = "free" /\ pc[Main] = "idle"
  <2>1. i' = 0 /\ NbWorkers' = NbWorkers /\ pc' = [pc EXCEPT ![Main] = "free"]
    BY <1>1, <1>4 DEF Free, Goto, NbWorkers, WorkersOf, ctx
  <2>2. \A w \in Worker : w < NbWorkers => pc'[w] # "none"
    BY <1>1, <1>4, <2>1 DEF PoolInv, TypeOK, Occupied, Running
  <2> QED
    BY <1>4, <2>1, <2>2 DEF DismissInv
<1>5. CASE pc[Main] \in {"free", "dismiss", "join"}
  <2>0. ASSUME NEW w \in Worker, w < NbWorkers PROVE pc[w] # "none"
    BY <1>5, <2>0 DEF DismissInv
  <2>1. CASE Finish
    <3>1. /\ pc[Main] = "free" /\ i = 0 /\ i' = i /\ NbWorkers' = NbWorkers
          /\ pc' = [pc EXCEPT ![Main] = "dismiss"]
      BY <2>1 DEF Finish, Goto, DismissInv, NbWorkers, WorkersOf
    <3>2. \A w \in Worker : ~(w < i')
      BY <1>1, <3>1, Sizes
    <3>3. pc'[Main] = "dismiss" /\ \A w \in Worker : pc'[w] = pc[w]
      BY <1>1, <3>1 DEF TypeOK
    <3> QED
      BY <2>0, <3>1, <3>2, <3>3 DEF DismissInv
  <2>2. CASE Dismiss
    <3>1. /\ pc[Main] = "dismiss" /\ i \in Worker /\ i < NbWorkers /\ NbWorkers' = NbWorkers
          /\ i' = i + 1 /\ pc[i] \notin Occupied
          /\ w_done' = [w_done EXCEPT ![i] = FALSE]
          /\ pc' = IF pc[i] = "wait" THEN [pc EXCEPT ![i] = "woken"] ELSE pc
      BY <1>1, <2>2, Sizes DEF Dismiss, WakeWorker, MutexFree, Signal, NbWorkers, WorkersOf, ctx
    <3>2. pc[i] \in {"wait", "woken", "exited"}
      BY <1>1, <1>5, <2>0, <3>1 DEF FreeInv, Freeing, Occupied
    <3>3. \A w \in Worker : w = i => Leaving(w)'
      BY <1>1, <3>1, <3>2 DEF Leaving, TypeOK
    <3>4. \A w \in Worker : w # i => pc'[w] = pc[w] /\ w_done'[w] = w_done[w]
      BY <1>1, <3>1 DEF TypeOK
    <3>5. \A w \in Worker : w < i + 1 => w = i \/ w < i
      BY <1>1, <3>1, Sizes
    <3>6. \A w \in Worker : w < i' => Leaving(w)'
      BY <1>1, <3>1, <3>3, <3>4, <3>5, Sizes DEF DismissInv, Leaving
    <3>7. \A w \in Worker : w < NbWorkers' => pc'[w] # "none"
      BY <1>1, <2>0, <3>1, <3>3, <3>4 DEF Leaving
    <3>8. pc'[Main] = "dismiss"
      BY <1>1, <3>1 DEF TypeOK
    <3> QED
      BY <3>6, <3>7, <3>8 DEF DismissInv
  <2>3. CASE AllDismissed
    <3>1. /\ pc[Main] = "dismiss" /\ i >= NbWorkers /\ NbWorkers' = NbWorkers
          /\ w_done' = w_done /\ pc' = [pc EXCEPT ![Main] = "join"]
      BY <2>3 DEF AllDismissed, Goto, NbWorkers, WorkersOf, ctx
    <3>2. pc'[Main] = "join" /\ \A w \in Worker : pc'[w] = pc[w]
      BY <1>1, <3>1 DEF TypeOK
    <3>3. \A w \in Worker : w < NbWorkers => w < i
      BY <1>1, <3>1, Sizes DEF TypeOK
    <3> QED
      BY <2>0, <3>1, <3>2, <3>3 DEF DismissInv, Leaving
  <2>4. CASE Join
    <3>1. /\ pc[Main] = "join" /\ NbWorkers' = NbWorkers /\ w_done' = w_done /\ pc' = pc
      BY <2>4 DEF Join, NbWorkers, WorkersOf, ctx
    <3> QED
      BY <2>0, <3>1 DEF DismissInv, Leaving
  <2>5. ASSUME NEW w \in Worker, pc'[Main] = pc[Main], i' = i, NbWorkers' = NbWorkers,
               \A v \in Worker : v # w => pc'[v] = pc[v] /\ w_done'[v] = w_done[v],
               pc'[w] # "none", pc[Main] \in {"dismiss", "join"} /\ Leaving(w) => Leaving(w)'
        PROVE  DismissInv'
    <3>1. \A v \in Worker : v < NbWorkers' => pc'[v] # "none"
      BY <2>0, <2>5
    <3>2. pc[Main] \in {"dismiss", "join"} => \A v \in Worker : Leaving(v) => Leaving(v)'
      BY <2>5 DEF Leaving
    <3> QED
      BY <2>5, <3>1, <3>2 DEF DismissInv
  <2>6. ASSUME NEW w \in Worker, WorkerStep(w) PROVE DismissInv'
    <3>1. (Woken(w) \/ Park(w)) /\ pc'[Main] = pc[Main]
      BY <1>5, <2>6, FreeingWorker DEF Freeing
    <3>2. i' = i /\ NbWorkers' = NbWorkers
      BY <3>1 DEF Woken, Park, NbWorkers, WorkersOf, ctx
    <3>3. \A v \in Worker : v # w => pc'[v] = pc[v] /\ w_done'[v] = w_done[v]
      BY <1>1, <3>1 DEF Woken, Park, Goto, TypeOK
    <3>4. pc'[w] # "none"
      BY <1>1, <3>1 DEF Woken, Park, Goto, TypeOK
    <3>5. pc[Main] \in {"dismiss", "join"} /\ Leaving(w) => Leaving(w)'
      <4>1. pc[Main] \in {"dismiss", "join"} => finished
        BY <1>1 DEF FreeInv, Freeing
      <4>2. ~Park(w) \/ ~Leaving(w)
        BY DEF Park, Leaving
      <4>3. Woken(w) /\ finished /\ Leaving(w) => pc'[w] = "exited"
        BY <1>1 DEF Woken, Goto, TypeOK, Leaving
      <4> QED
        BY <3>1, <4>1, <4>2, <4>3 DEF Leaving
    <3> QED
      BY <2>5, <3>1, <3>2, <3>3, <3>4, <3>5
  <2>7. CASE Spurious
    <3>1. PICK w \in Worker : pc[w] = "wait" /\ pc' = [pc EXCEPT ![w] = "woken"]
      BY <1>5, <2>7 DEF Spurious, Goto
    <3>2. i' = i /\ NbWorkers' = NbWorkers /\ w_done' = w_done
      BY <2>7 DEF Spurious, NbWorkers, WorkersOf, ctx
    <3>3. /\ pc'[w] = "woken" /\ pc'[Main] = pc[Main] /\ ~Leaving(w)
          /\ \A v \in Worker : v # w => pc'[v] = pc[v]
      BY <1>1, <3>1 DEF TypeOK, Leaving
    <3> QED
      BY <2>5, <3>2, <3>3
  <2>8. ~(CreateWorker \/ ReadyTest \/ Created \/ CreateFails \/ Wake \/ AllWoken
          \/ MainFuncDone \/ DoneTest \/ Execute \/ Free \/ RunJobs(Main) \/ Over)
    BY <1>5 DEF CreateWorker, ReadyTest, Created, CreateFails, Wake, AllWoken, MainFuncDone,
       DoneTest, Execute, Free, RunJobs, TakeFirst, JobDone, TakeNext, Over
  <2>9. ~Freed
    BY <1>1 DEF Freed, Goto, TypeOK
  <2> QED
    BY <2>1, <2>2, <2>3, <2>4, <2>6, <2>7, <2>8, <2>9 DEF Next, MainStep
<1> QED
  BY <1>2, <1>3, <1>4, <1>5

-----------------------------------------------------------------------------
\* Main, or worker w, can take a step that is more than a test of a condition
\* that sends it back to sleep.
MainGoesOn ==
  \/ pc[Main] \in {"create", "main_func", "free"} \cup Running
  \/ pc[Main] = "ready" /\ MutexFree(i) /\ w_done[i]
  \/ pc[Main] = "wake" /\ (i < NbWoken => MutexFree(i))
  \/ pc[Main] = "done" /\ ctx_done
  \/ pc[Main] = "dismiss" /\ (i < NbWorkers => MutexFree(i))
  \/ pc[Main] = "join" /\ (i < NbWorkers => pc[i] = "exited")
WorkerGoesOn(w) == \/ pc[w] \in {"start"} \cup Occupied
                   \/ pc[w] = "woken" /\ ~w_done[w]

\* Whenever the library is busy one of its threads goes on, no spurious
\* wake-up being needed.
SomeoneGoesOn == pc[Main] \notin {"idle", "gone"} => MainGoesOn \/ \E w \in Worker : WorkerGoesOn(w)

\* If main cannot go on, the one it waits for can.
LEMMA WakeInvGoesOn ==
  ASSUME LoopInv, WakeInv
  PROVE  SomeoneGoesOn
<1>1. TypeOK /\ MainInv /\ CreateInv /\ PoolInv /\ CountInv /\ FreeInv
  BY DEF LoopInv, IInv
<1> SUFFICES ASSUME pc[Main] \notin {"idle", "gone"},
    ~MainGoesOn PROVE \E w \in Worker : WorkerGoesOn(w)
  BY DEF SomeoneGoesOn
<1>2. CASE pc[Main] \in Creating
  <2>1. pc[Main] # "create" /\ i < NbWorkers /\ i \in Worker
    BY <1>1, <1>2, Sizes DEF MainGoesOn, CreateInv, Creating
  <2>2. pc[Main] = "ready_wait" => pc[i] = "start"
    BY DEF WakeInv, ReadyInv
  <2>3. pc[Main] = "ready" => pc[i] \in Occupied \/ pc[i] = "start"
    BY <1>1, <1>2, <2>1 DEF MainGoesOn, MutexFree, CreateInv
  <2> QED
    BY <1>2, <2>1, <2>2, <2>3 DEF WorkerGoesOn, Creating
<1>3. CASE pc[Main] = "wake"
  <2>1. i < NbWoken /\ pc[i] \in Occupied
    BY <1>3 DEF MainGoesOn, MutexFree
  <2>2. i \in Worker
    <3>1. NbWoken <= NbWorkers /\ NbWoken \in Int
      BY <1>1, <1>3 DEF CountInv, Round, NbWoken, WorkersOf, TypeOK
    <3> QED
      BY <1>1, <2>1, <3>1, Sizes DEF TypeOK
  <2> QED
    BY <2>1, <2>2 DEF WorkerGoesOn
<1>4. CASE pc[Main] \in {"done", "done_wait"}
  <2>1. ~ctx_done
    BY <1>4 DEF MainGoesOn, WakeInv, EndInv
  <2>2. CASE Reporting # {}
    BY <2>2 DEF Reporting, WorkerGoesOn, Occupied
  <2>3. CASE Reporting = {}
    <3>1. current_job # nb_jobs + nb_active_threads
      BY <1>4, <2>1, <2>3 DEF WakeInv, EndInv, Round
    <3>2. Cardinality(Rest) # 0
      BY <1>1, <1>4, <3>1, RestFinite DEF CountInv, Round, TypeOK
    <3>3. PICK t : t \in Rest
      BY <3>2, RestEmpty
    <3>4. t \in Worker /\ Active(t)
      BY <1>4, <3>3 DEF Rest, RestWorker, RestMain, Running
    <3> QED
      BY <3>4 DEF WakeInv, AsleepInv, Active, WorkerGoesOn, Occupied
  <2> QED
    BY <2>2, <2>3
<1>5. CASE pc[Main] = "dismiss"
  <2>1. i < NbWorkers /\ pc[i] \in Occupied /\ i \in Worker
    BY <1>1, <1>5, Sizes DEF MainGoesOn, MutexFree
  <2> QED
    BY <2>1 DEF WorkerGoesOn
<1>6. CASE pc[Main] = "join"
  <2>1. i < NbWorkers /\ pc[i] # "exited" /\ i \in Worker
    BY <1>1, <1>6, Sizes DEF MainGoesOn
  <2> QED
    BY <1>6, <2>1 DEF WakeInv, DismissInv, Leaving, WorkerGoesOn
<1>7. pc[Main] \in Creating \cup {"wake", "done", "done_wait", "dismiss", "join"}
  BY <1>1 DEF MainInv, MainGoesOn, Creating, Round, Running, Freeing
<1> QED
  BY <1>2, <1>3, <1>4, <1>5, <1>6, <1>7

\* It holds at first.
LEMMA WakeInit == Init => WakeInv
<1> SUFFICES ASSUME Init PROVE WakeInv
  OBVIOUS
<1>1. pc[Main] = "create" /\ \A w \in Worker : pc[w] = "none"
  BY Threads DEF Init
<1> QED
  BY <1>1 DEF WakeInv, AsleepInv, ReadyInv, EndInv, DismissInv, Round, Running

\* Every step keeps it.
LEMMA WakeInvStep == LoopInv /\ LoopInv' /\ WakeInv /\ [Next]_vars => WakeInv'
<1> SUFFICES ASSUME LoopInv, LoopInv', WakeInv, [Next]_vars PROVE WakeInv'
  OBVIOUS
<1>1. CASE UNCHANGED vars
  BY <1>1 DEF vars, WakeInv, AsleepInv, ReadyInv, EndInv, DismissInv, Reporting, Leaving,
     NbWorkers, WorkersOf
<1>2. CASE Next
  BY <1>2, AsleepStep, ReadyStep, EndInvStep, DismissStep DEF WakeInv, LoopInv, IInv
<1> QED
  BY <1>1, <1>2

\* No wake-up is lost and nobody waits for everybody: from the creation of the
\* workers until ff_slice_thread_free returns, for any number of threads and
\* jobs, whenever a call is under way main or a worker can take a step that
\* is more than a futile test of its condition (the safety half of Returns,
\* the other half being the fairness of the scheduler).
THEOREM SomeoneGoesOnCorrect == Spec => []SomeoneGoesOn
BY LoopInit, LoopStep, WakeInit, WakeInvStep, WakeInvGoesOn, PTL DEF Spec

=============================================================================
