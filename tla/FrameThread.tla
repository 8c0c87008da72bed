---------------------------- MODULE FrameThread ----------------------------
(***************************************************************************)
(* libavcodec/pthread_frame.c: decoding with one thread per frame.  The    *)
(* user's thread hands packets to N workers in turn and collects what they *)
(* decoded in the same order, N - 1 packets later.  The context a worker   *)
(* starts with is copied from the worker before it once that one has       *)
(* finished its setup.  A hardware accelerator that is not thread-safe is  *)
(* passed along from worker to worker through the stash.                   *)
(*                                                                         *)
(* A section under a mutex that does not block inside is one action, and a *)
(* pthread_cond_wait splits it.  Every wait is in a loop on its condition:  *)
(* one that ended without a signal would test it and sleep again, so that  *)
(* these wake-ups are left out, and only the signals of the code wake.     *)
(* The codec's decode function is a client: it may or may not finish the   *)
(* setup itself, choose or drop the accelerator before that, and wait for  *)
(* the progress of the frame before its own.                               *)
(***************************************************************************)
EXTENDS Integers, Sequences, FiniteSets

CONSTANTS
  N,            \* thread_count
  Codecs,       \* the codecs to try: records of update (has
                \* update_thread_context), delay (CAP_DELAY), ffv1 (is FFV1), hw
                \* ("none", "safe" or "serial", its accelerator) and async_safe
  RefFailsWith, \* the values of hw with which av_packet_ref is made to fail
  MaxPackets    \* packets a user sends, and after which draining gives no more
                \* frames; N empty ones may follow

ASSUME ThreadAssumption == N \in Nat /\ N >= 2 /\ MaxPackets \in Nat

\* A decoder with accelerators implements update_thread_context: the comment
\* before the first assertion of frame_worker_thread.
ASSUME CodecsAssumption ==
  /\ Codecs \subseteq [update : BOOLEAN, delay : BOOLEAN, ffv1 : BOOLEAN,
                       hw : {"none", "safe", "serial"}, async_safe : BOOLEAN]
  /\ \A c \in Codecs : ~c.update => c.hw = "none"

VARIABLES
  codec,        \* one of Codecs, fixed
  threads,      \* fctx->threads, records like Thread
  next_decoding, next_finished, delaying, prev_thread,
  stash,        \* fctx->stash_hwaccel # NULL
  hwaccel_mutex,        \* the worker that holds it, or None
  async_lock,
  user,         \* where the user's thread is: at, and the locals of its call
  draining,     \* the user has sent an empty packet
  count,        \* history: packets handed to the workers so far
  ret           \* what the last call returned

fctx == <<next_decoding, next_finished, delaying, prev_thread>>
client == <<draining, count, ret>>
vars == <<codec, threads, next_decoding, next_finished, delaying, prev_thread,
          stash, hwaccel_mutex, async_lock, user, draining, count, ret>>

Worker == 0 .. N - 1
None   == -1
\* Contexts that hold no packet's: a copy failed, on submission or in a flush.
Torn   == -1
Forgot == -2

Thread == [pc |-> "lock", back |-> "serial", die |-> FALSE,
           state |-> "INPUT_READY", ctx |-> 0,
           job |-> 0,                \* number of its packet, 0: none or collected
           result |-> "none",        \* got_frame and result
           decoding |-> FALSE,       \* its frame has progress others wait for
           hw |-> FALSE, hwaccel_threadsafe |-> FALSE,
           hwaccel_serializing |-> FALSE, async_serializing |-> FALSE]

\* ff_frame_thread_init, when nothing fails.
Init == /\ codec \in Codecs
        /\ threads = [i \in Worker |-> Thread]
        /\ next_decoding = 0 /\ next_finished = 0
        /\ delaying = TRUE /\ prev_thread = None
        /\ stash = FALSE /\ hwaccel_mutex = None /\ async_lock = TRUE
        /\ user = [at |-> "idle"] /\ draining = FALSE
        /\ count = 0 /\ ret = <<"none">>

hwaccel_serial(p) == p.hw /\ codec.hw = "serial"

\* A worker holds its mutex from one wait for input to the next.
UserHolds(i) == user.at \in {"prev", "prev asleep", "update"} /\ next_decoding = i
WorkerHolds(i) == threads[i].pc \notin {"lock", "asleep", "exit"}

\* pthread_cond_broadcast of async_cond, together with what happens to worker
\* i; and of the progress_cond of i, which also those wait on that await i's frame.
WakeAsync(ts) == [k \in Worker |-> IF ts[k].pc = "async asleep"
                                     THEN [ts[k] EXCEPT !.pc = "async"] ELSE ts[k]]
WakeProgress(i, ts) ==
  [k \in Worker |-> IF ts[k].pc = "await" /\ ts[k].job - 1 = ts[i].job
                      THEN [ts[k] EXCEPT !.pc = "decode"] ELSE ts[k]]

-----------------------------------------------------------------------------
(* frame_worker_thread.                                                    *)

\* The loop that waits for a packet, with p->mutex just (re)acquired.
Input(i) ==
  LET p == threads[i]
  IN  /\ p.pc = "lock" /\ ~UserHolds(i)
      /\ threads' = [threads EXCEPT ![i].pc =
                       IF p.die THEN "exit"
                       ELSE IF p.state = "INPUT_READY" THEN "asleep" ELSE "begin"]
      /\ UNCHANGED <<codec, fctx, stash, hwaccel_mutex, async_lock, user, client>>

\* A codec that shares no context finishes the setup before it starts.
Begin(i) ==
  /\ threads[i].pc = "begin"
  /\ threads' = [threads EXCEPT ![i].pc = IF codec.update THEN "serial" ELSE "finish",
                                ![i].back = "serial"]
  /\ UNCHANGED <<codec, fctx, stash, hwaccel_mutex, async_lock, user, client>>

\* Variant with a bug: leaves the lock to ff_thread_finish_setup.
SerialLate(i) ==
  /\ threads[i].pc = "serial"
  /\ threads' = [threads EXCEPT ![i].pc = "decode", ![i].result = "none"]
  /\ UNCHANGED <<codec, fctx, stash, hwaccel_mutex, async_lock, user, client>>

\* A thread-unsafe accelerator came with the packet: one worker at a time.
Serial(i) ==
  LET lock == hwaccel_serial(threads[i])
  IN  /\ threads[i].pc = "serial"
      /\ lock => hwaccel_mutex = None
      /\ hwaccel_mutex' = IF lock THEN i ELSE hwaccel_mutex
      /\ threads' = [threads EXCEPT ![i].pc = "decode", ![i].result = "none",
                                    ![i].hwaccel_serializing = lock]
      /\ UNCHANGED <<codec, fctx, stash, async_lock, user, client>>

\* The codec, in its setup: chooses or drops the accelerator, gets its frame
\* and calls ff_thread_finish_setup.
Setup(i) ==
  /\ threads[i].pc = "decode" /\ threads[i].state = "SETTING_UP"
  /\ \E h \in (IF codec.hw = "none" THEN {FALSE} ELSE BOOLEAN), f \in BOOLEAN :
       threads' = [threads EXCEPT ![i].hw = h, ![i].decoding = f,
                                  ![i].pc = "finish", ![i].back = "decode"]
  /\ UNCHANGED <<codec, fctx, stash, hwaccel_mutex, async_lock, user, client>>

\* The frame before i's is not complete.
Before(i) == \E k \in Worker : /\ threads[k].job = threads[i].job - 1
                               /\ threads[k].decoding

\* ff_thread_await_progress on that frame.
Await(i) ==
  /\ threads[i].pc = "decode" /\ threads[i].decoding /\ Before(i)
  /\ threads' = [threads EXCEPT ![i].pc = "await"]
  /\ UNCHANGED <<codec, fctx, stash, hwaccel_mutex, async_lock, user, client>>

\* The codec reports what progress is left and returns; the frame is dropped
\* without got_frame or after an error.
Decoded(i) ==
  /\ threads[i].pc = "decode"
  /\ \E r \in {"none", "frame", "error"} :
       /\ r # "error" => ~(threads[i].decoding /\ Before(i))
       /\ threads[i].job > MaxPackets => r = "none"
       /\ threads' = LET done == [threads EXCEPT ![i].decoding = FALSE,
                                    ![i].result = r,  ![i].back = "unlock",
                                    ![i].pc = IF threads[i].state = "SETTING_UP"
                                                THEN "finish" ELSE "unlock"]
                     IN  IF threads[i].decoding THEN WakeProgress(i, done) ELSE done
  /\ UNCHANGED <<codec, fctx, stash, hwaccel_mutex, async_lock, user, client>>

\* Variant with a bug: the worker keeps the accelerator it passed on.
UnlockKeeps(i) ==
  LET unlock == threads[i].hwaccel_serializing
  IN  /\ threads[i].pc = "unlock"
      /\ hwaccel_mutex' = IF unlock THEN None ELSE hwaccel_mutex
      /\ threads' = [threads EXCEPT ![i].hwaccel_serializing = FALSE,
                                    ![i].pc = "async unlock"]
      /\ UNCHANGED <<codec, fctx, stash, async_lock, user, client>>

\* The accelerator has been stashed: wipe it, let the next worker in.
Unlock(i) ==
  LET unlock == threads[i].hwaccel_serializing
  IN  /\ threads[i].pc = "unlock"
      /\ hwaccel_mutex' = IF unlock THEN None ELSE hwaccel_mutex
      /\ threads' = [threads EXCEPT ![i].hw = @ /\ ~unlock,
                                    ![i].hwaccel_serializing = FALSE,
                                    ![i].pc = "async unlock"]
      /\ UNCHANGED <<codec, fctx, stash, async_lock, user, client>>

AsyncUnlock(i) ==
  LET unlock == threads[i].async_serializing
      next   == [threads EXCEPT ![i].async_serializing = FALSE, ![i].pc = "ready"]
  IN  /\ threads[i].pc = "async unlock"
      /\ async_lock' = (async_lock /\ ~unlock)
      /\ threads' = IF unlock THEN WakeAsync(next) ELSE next
      /\ user' = IF unlock /\ user.at = "finish asleep"
                   THEN [user EXCEPT !.at = "finish"] ELSE user
      /\ UNCHANGED <<codec, fctx, stash, hwaccel_mutex, client>>

\* What the user's thread does after a broadcast of i's progress_cond, and
\* after a signal of its output_cond.
Progressed(i) == IF user.at = "prev asleep" /\ prev_thread = i
                   THEN [user EXCEPT !.at = "prev"] ELSE user
Output(i) == IF user.at \in {"collect asleep", "park asleep"} /\ user.finished = i
               THEN [user EXCEPT !.at = IF @ = "park asleep" THEN "park" ELSE "collect"]
               ELSE Progressed(i)

\* The output is ready; wait for input again.
Ready(i) ==
  /\ threads[i].pc = "ready"
  /\ threads' = WakeProgress(i, [threads EXCEPT ![i].state = "INPUT_READY",
                                                ![i].pc = "asleep"])
  /\ user' = Output(i)
  /\ UNCHANGED <<codec, fctx, stash, hwaccel_mutex, async_lock, client>>

-----------------------------------------------------------------------------
(* ff_thread_finish_setup.                                                 *)

\* Takes the locks the accelerator needs.
Finish(i) ==
  LET p    == threads[i]
      lock == hwaccel_serial(p) /\ ~p.hwaccel_serializing
      async == p.hw /\ ~codec.async_safe
  IN  /\ p.pc = "finish"
      /\ lock => hwaccel_mutex = None
      /\ hwaccel_mutex' = IF lock THEN i ELSE hwaccel_mutex
      /\ threads' = [threads EXCEPT ![i].hwaccel_threadsafe = p.hw /\ codec.hw = "safe",
                                    ![i].hwaccel_serializing = @ \/ lock,
                                    ![i].async_serializing = @ \/ async,
                                    ![i].pc = IF async THEN "async" ELSE "stash"]
      /\ UNCHANGED <<codec, fctx, stash, async_lock, user, client>>

\* async_lock: wait until the user is in a call and no other worker has it.
AsyncLock(i) ==
  /\ threads[i].pc = "async"
  /\ async_lock' = TRUE
  /\ threads' = [threads EXCEPT ![i].pc = IF async_lock THEN "async asleep" ELSE "stash"]
  /\ UNCHANGED <<codec, fctx, stash, hwaccel_mutex, user, client>>

\* Stash the accelerator for the next worker, then let it take the context.
Stash(i) ==
  /\ threads[i].pc = "stash"
  /\ stash' = (stash \/ hwaccel_serial(threads[i]))
  /\ threads' = WakeProgress(i, [threads EXCEPT ![i].state = "SETUP_FINISHED",
                                   ![i].ctx = threads[i].job,
                                   ![i].pc = threads[i].back])
  /\ user' = Progressed(i)
  /\ UNCHANGED <<codec, fctx, hwaccel_mutex, async_lock, client>>

-----------------------------------------------------------------------------
(* ff_thread_decode_frame.                                                 *)

Goto(place) == user' = [user EXCEPT !.at = place]

\* The call ends with r, once it has the async lock back.
Return(r) == ret' = r /\ Goto("finish")

\* Every entry point opens with async_unlock: accelerators that only work
\* while the user is inside may go on.
Enter(call) == /\ user = [at |-> "idle"]
               /\ async_lock' = FALSE
               /\ threads' = WakeAsync(threads)
               /\ user' = call

\* With size = FALSE the packet is empty, and the user goes on draining until
\* the end of the stream.
Decode(size) ==
  /\ IF size THEN ~draining /\ count < MaxPackets
             ELSE ret # <<"eof">> /\ count < MaxPackets + N
  /\ Enter([at |-> "submit", size |-> size, finished |-> next_finished, then |-> "idle"])
  /\ draining' = ~size
  /\ UNCHANGED <<codec, fctx, stash, hwaccel_mutex, count, ret>>

\* What follows the submission: no output while the first packets come in.
Submitted(decoding) ==
  LET last == IF codec.ffv1 THEN N - 2 ELSE N - 1
  IN  /\ next_decoding' = decoding
      /\ delaying' = (delaying /\ decoding <= last)
      /\ IF delaying' /\ user.size THEN Return(<<"none">>)
                                   ELSE Goto("collect") /\ UNCHANGED ret

\* An empty packet is not submitted to a codec without delay.
NoSubmit ==
  /\ user.at = "submit" /\ ~user.size /\ ~codec.delay
  /\ Submitted(next_decoding)
  /\ UNCHANGED <<codec, threads, next_finished, prev_thread, stash, hwaccel_mutex,
                 async_lock, draining, count>>

\* submit_packet: take p->mutex and copy the user's part of the context.
Submit ==
  /\ user.at = "submit" /\ (user.size \/ codec.delay)
  /\ ~WorkerHolds(next_decoding)
  /\ Return(<<"refused">>) \/ (Goto("prev") /\ UNCHANGED ret)
  /\ UNCHANGED <<codec, threads, fctx, stash, hwaccel_mutex, async_lock, draining, count>>

\* Variant with a bug: does not wait for the setup of the packet before.
PrevEarly ==
  /\ user.at = "prev"
  /\ Goto("update")
  /\ UNCHANGED <<codec, threads, fctx, stash, hwaccel_mutex, async_lock, client>>

Prev ==
  /\ user.at = "prev"
  /\ Goto(IF prev_thread # None /\ threads[prev_thread].state = "SETTING_UP"
            THEN "prev asleep" ELSE "update")
  /\ UNCHANGED <<codec, threads, fctx, stash, hwaccel_mutex, async_lock, client>>

\* update_context_from_thread(dst, src, 0).
Updated(dst, src) ==
  [dst EXCEPT !.ctx = IF codec.update THEN src.ctx ELSE @,
              !.hw  = src.hwaccel_threadsafe \/ (@ /\ ~dst.hwaccel_threadsafe),
              !.hwaccel_threadsafe = src.hwaccel_threadsafe]

Source(p) == IF prev_thread = None THEN threads[p] ELSE Updated(threads[p], threads[prev_thread])

\* The same call failing: in the context, or in the accelerator, which is then
\* uninited.
Botched(dst, src) ==
  {dst} \cup (IF src.hwaccel_threadsafe
                THEN {[dst EXCEPT !.hw = FALSE, !.hwaccel_threadsafe = @ /\ dst.hw]}
                ELSE {})

UpdateFails ==
  /\ user.at = "update" /\ prev_thread # None
  /\ \E p \in Botched(threads[next_decoding], threads[prev_thread]) :
       threads' = [threads EXCEPT ![next_decoding] = [p EXCEPT !.ctx = Torn]]
  /\ Return(<<"refused">>)
  /\ UNCHANGED <<codec, fctx, stash, hwaccel_mutex, async_lock, draining, count>>

\* The accelerator changes places with the stash.
Swap(p) == IF p.hwaccel_threadsafe THEN [hw |-> p.hw, stash |-> stash]
                                   ELSE [hw |-> stash, stash |-> p.hw]

\* av_packet_ref fails when the accelerator has left the stash already.
RefFails ==
  LET p == Source(next_decoding)
  IN  /\ user.at = "update" /\ codec.hw \in RefFailsWith
      /\ threads' = [threads EXCEPT ![next_decoding] = [p EXCEPT !.hw = Swap(p).hw]]
      /\ stash' = Swap(p).stash
      /\ Return(<<"refused">>)
      /\ UNCHANGED <<codec, fctx, hwaccel_mutex, async_lock, draining, count>>

\* The rest of submit_packet, up to the unlock of p->mutex.
HandOver ==
  LET p == Source(next_decoding)
  IN  /\ user.at = "update"
      /\ threads' = [threads EXCEPT ![next_decoding] =
                       [p EXCEPT !.hw = Swap(p).hw, !.state = "SETTING_UP",
                                 !.job = count + 1, !.decoding = FALSE,
                                 !.pc = IF @ = "asleep" THEN "lock" ELSE @]]
      /\ stash' = Swap(p).stash
      /\ prev_thread' = next_decoding
      /\ count' = count + 1
      /\ Submitted(next_decoding + 1)
      /\ UNCHANGED <<codec, next_finished, hwaccel_mutex, async_lock, draining>>

\* Take the output of the oldest thread, and go on to the next one or return.
Oldest    == threads[user.finished]
Following == (user.finished + 1) % N

CollectThen(goes_on) ==
  /\ user.at = "collect" /\ Oldest.state = "INPUT_READY"
  /\ threads' = [threads EXCEPT ![user.finished].job = 0, ![user.finished].result = "none"]
  /\ IF goes_on
       THEN /\ user' = [user EXCEPT !.finished = Following]
            /\ UNCHANGED <<next_finished, next_decoding, ret>>
       ELSE /\ next_finished' = Following
            /\ next_decoding' = next_decoding % N
            /\ Return(IF Oldest.result # "none" THEN <<Oldest.result, Oldest.job>>
                      ELSE IF user.size THEN <<"none">> ELSE <<"eof">>)
  /\ UNCHANGED <<codec, delaying, prev_thread, stash, hwaccel_mutex, async_lock,
                 draining, count>>

\* Variants with a bug: a draining call that stops at the first thread, or
\* does not stop at the one it started with.
CollectOne     == CollectThen(FALSE)
CollectForever == CollectThen(~user.size /\ Oldest.result = "none")

\* Wait for the oldest thread and take its output.  A draining call goes on to
\* the next while there is neither frame nor error.
Collect == CollectThen(~user.size /\ Oldest.result = "none" /\ Following # next_finished)

\* pthread_cond_wait on the output_cond of a thread that is not ready.
Wait ==
  /\ user.at \in {"collect", "park"} /\ user.finished < N
  /\ threads[user.finished].state # "INPUT_READY"
  /\ Goto(IF user.at = "park" THEN "park asleep" ELSE "collect asleep")
  /\ UNCHANGED <<codec, threads, fctx, stash, hwaccel_mutex, async_lock, client>>

\* async_lock, and the return to the caller.
Lock ==
  /\ user.at = "finish"
  /\ async_lock' = TRUE
  /\ user' = IF async_lock THEN [user EXCEPT !.at = "finish asleep"]
             ELSE IF user.then = "kill" THEN [at |-> "kill", finished |-> 0]
             ELSE [at |-> user.then]
  /\ UNCHANGED <<codec, threads, fctx, stash, hwaccel_mutex, client>>

-----------------------------------------------------------------------------
(* ff_thread_flush and ff_frame_thread_free.                               *)

\* Both begin with park_frame_worker_threads.
Leave(then) ==
  /\ Enter([at |-> "park", finished |-> 0, then |-> then])
  /\ UNCHANGED <<codec, fctx, stash, hwaccel_mutex, client>>

Park ==
  /\ user.at = "park"
  /\ IF user.finished = N
       THEN Goto("finish") /\ UNCHANGED threads
       ELSE LET i == user.finished
            IN  /\ threads[i].state = "INPUT_READY"
                /\ threads' = [threads EXCEPT ![i].result = IF @ = "frame" THEN "none" ELSE @]
                /\ user' = [user EXCEPT !.finished = @ + 1]
  /\ UNCHANGED <<codec, fctx, stash, hwaccel_mutex, async_lock, client>>

\* Thread 0 will go on from where the last packet left the context, if the
\* copy succeeds: its result is not looked at.
Flush ==
  LET first == IF prev_thread \in {None, 0} THEN {threads[0]}
               ELSE {Updated(threads[0], threads[prev_thread])} \cup
                    {[p EXCEPT !.ctx = Forgot] : p \in Botched(threads[0], threads[prev_thread])}
  IN  /\ user.at = "flush"
      /\ \E p \in first :
           threads' = [i \in Worker |->
                         [(IF i = 0 THEN p ELSE threads[i])
                            EXCEPT !.job = 0, !.result = "none"]]
      /\ next_decoding' = 0 /\ next_finished' = 0
      /\ delaying' = TRUE /\ prev_thread' = None
      /\ draining' = FALSE /\ ret' = <<"none">>
      /\ user' = [at |-> "idle"]
      /\ UNCHANGED <<codec, stash, hwaccel_mutex, async_lock, count>>

\* Tell the threads to die, one by one, and join each.
Kill ==
  LET i == user.finished
  IN  /\ user.at = "kill" /\ i < N
      /\ ~WorkerHolds(i)
      /\ threads' = [threads EXCEPT ![i].die = TRUE,
                                    ![i].pc = IF @ = "asleep" THEN "lock" ELSE @]
      /\ Goto("join")
      /\ UNCHANGED <<codec, fctx, stash, hwaccel_mutex, async_lock, client>>

\* Joined: ff_hwaccel_uninit of the thread's context.
Join ==
  LET i == user.finished
  IN  /\ user.at = "join" /\ threads[i].pc = "exit"
      /\ threads' = [threads EXCEPT ![i].hw = FALSE]
      /\ user' = [user EXCEPT !.at = "kill", !.finished = i + 1]
      /\ UNCHANGED <<codec, fctx, stash, hwaccel_mutex, async_lock, client>>

\* A stashed accelerator goes to the user's context, for the codec's close.
Freed ==
  /\ user.at = "kill" /\ user.finished = N
  /\ user' = [at |-> "gone"]
  /\ stash' = FALSE
  /\ UNCHANGED <<codec, threads, fctx, hwaccel_mutex, async_lock, client>>

Gone == user.at = "gone" /\ UNCHANGED vars

-----------------------------------------------------------------------------
WorkerStep(i) ==
  \/ Input(i) \/ Begin(i) \/ Serial(i) \/ Setup(i) \/ Await(i) \/ Decoded(i)
  \/ Unlock(i) \/ AsyncUnlock(i) \/ Ready(i)
  \/ Finish(i) \/ AsyncLock(i) \/ Stash(i)

UserStep == \/ NoSubmit \/ Submit \/ Prev \/ UpdateFails \/ RefFails \/ HandOver
            \/ Collect \/ Wait \/ Lock \/ Park \/ Flush \/ Kill \/ Join \/ Freed

Call == \/ \E size \in BOOLEAN : Decode(size)
        \/ \E then \in {"flush", "kill"} : Leave(then)

Next == Call \/ UserStep \/ (\E i \in Worker : WorkerStep(i)) \/ Gone

Spec == /\ Init /\ [][Next]_vars
        /\ WF_vars(UserStep)
        /\ \A i \in Worker : WF_vars(WorkerStep(i))

-----------------------------------------------------------------------------
\* In the codec's decode function, with an accelerator; and past its setup.
HasHw(i) == threads[i].pc \in {"decode", "await"} /\ threads[i].hw
Using(i) == HasHw(i) /\ threads[i].state = "SETUP_FINISHED"

\* The assertions of the file hold where they stand: 212, 243, 644 and 164 in
\* the workers, 164, 348 and 463 in the user's thread.
NoAbort ==
  /\ \A i \in Worker : LET p == threads[i] IN
       /\ p.pc = "serial" => ~p.hwaccel_serializing
       /\ p.pc = "async unlock" => ~hwaccel_serial(p)
       /\ p.pc = "stash" => ~stash
       /\ p.pc = "async unlock" /\ p.async_serializing => async_lock
  /\ user.at \in {"idle", "kill", "join"} => async_lock
  /\ user.at = "update" =>
       LET p == threads[next_decoding]
       IN  p.hw => p.hwaccel_threadsafe
  /\ user.at = "flush" => (threads[0].hw => threads[0].hwaccel_threadsafe)

\* A codec that shares its context starts every packet from the context the
\* packet before it left behind when its setup was finished, whatever was
\* refused or failed in between; but a flush may lose it.
ContextInOrder ==
  \A i \in Worker :
    codec.update /\ threads[i].state = "SETTING_UP"
      => threads[i].ctx \in {threads[i].job - 1, Forgot}

\* One worker at a time has an accelerator that is not thread-safe, so that its
\* setup may drop it; and one that is not async-safe works only while the user
\* is inside a call.
HwExclusive ==
  /\ codec.hw = "serial" => \A i, k \in Worker : HasHw(i) /\ HasHw(k) => i = k
  /\ ~codec.async_safe /\ user.at = "idle" => \A i \in Worker : ~Using(i)

\* Results come out in the order of the packets, none is lost or repeated, and
\* the end of the stream is announced when nothing is left.
Busy == {i \in Worker : threads[i].job # 0}
Inside ==
  [k \in 1 .. Cardinality(Busy) |->
     LET older(i) == {j \in Busy : threads[j].job <= threads[i].job}
         p == threads[CHOOSE i \in Busy : Cardinality(older(i)) = k]
     IN  [number |-> p.job,
          outcome |-> IF p.state = "INPUT_READY" THEN p.result ELSE "pending"]]

\* The user is flushing or freeing.
Leaving == \/ user.at \in {"park", "park asleep", "flush", "kill", "join", "gone"}
           \/ user.at \in {"finish", "finish asleep"} /\ user.then # "idle"

Queue == INSTANCE FrameQueue WITH
           Capacity <- N, inside <- Inside, flushing <- Leaving

QueueSpec == Queue!Spec

\* Every call returns: no wait for a thread, a setup, a lock or a frame's
\* progress lasts for ever.
Returns == user.at # "idle" ~> user.at \in {"idle", "gone"}
=============================================================================
