---------------------------- MODULE ParallelFor ----------------------------
(***************************************************************************)
(* What avpriv_slicethread_execute promises its caller                     *)
(* (libavutil/slicethread.h): a parallel for.  A call runs every job       *)
(* exactly once, each under a thread number that no other running job has, *)
(* and returns when all of them are done - and not before.                 *)
(***************************************************************************)
EXTENDS Naturals

CONSTANTS MaxJobs,      \* nb_jobs a caller may ask for
          MaxThreads    \* bound of the thread numbers

VARIABLES phase,        \* "idle", "round" (a call is running), "gone" (freed)
          todo,         \* jobs that have not been started
          calls         \* running jobs: records [thread, job]

vars == <<phase, todo, calls>>

Init == phase = "idle" /\ todo = {} /\ calls = {}

Execute == /\ phase = "idle"
           /\ phase' = "round"
           /\ \E n \in 1 .. MaxJobs : todo' = 0 .. n - 1
           /\ UNCHANGED calls

BeginJob == /\ phase = "round"
            /\ \E j \in todo, k \in 0 .. MaxThreads - 1 :
                 /\ \A c \in calls : c.thread # k
                 /\ calls' = calls \cup {[thread |-> k, job |-> j]}
                 /\ todo' = todo \ {j}
            /\ UNCHANGED phase

EndJob == /\ \E c \in calls : calls' = calls \ {c}
          /\ UNCHANGED <<phase, todo>>

Return == /\ phase = "round" /\ todo = {} /\ calls = {}
          /\ phase' = "idle"
          /\ UNCHANGED <<todo, calls>>

Free == /\ phase = "idle"
        /\ phase' = "gone"
        /\ UNCHANGED <<todo, calls>>

Next == Execute \/ BeginJob \/ EndJob \/ Return \/ Free

\* A call that was made runs to its end.
Spec == Init /\ [][Next]_vars /\ WF_vars(BeginJob \/ EndJob \/ Return)
=============================================================================
