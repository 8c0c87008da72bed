------------------------- MODULE FrameThreadProofs -------------------------
(***************************************************************************)
(* Proofs about FrameThread, for any number of workers and of packets and  *)
(* any set of codecs.                                                      *)
(*                                                                         *)
(* OrderInv carries ContextInOrder: only the worker that got the last      *)
(* packet can be setting up, the next one to get a packet is another, idle *)
(* one, and where a setup is finished the context is that of the last      *)
(* packet.  HwInv carries HwExclusive and NoAbort: who has an accelerator  *)
(* holds the locks it needs.  QueueInv carries the refinement of           *)
(* FrameQueue: the packets inside are with consecutive workers of the ring.*)
(* WakeInv carries the freedom from deadlock: who sleeps has somebody to   *)
(* wake it, and who holds a lock will give it back.                        *)
(***************************************************************************)
EXTENDS FrameThread, FiniteSetTheorems, SequenceTheorems, WellFoundedInduction, TLAPS

\* The places of a worker, by what holds there.
Waiting == {"lock", "asleep", "exit"}
Finishing == {"finish", "async", "async asleep", "stash"}
Decoding == {"decode", "await"}
Ending == {"unlock", "async unlock", "ready"}
Place == Waiting \cup Finishing \cup Decoding \cup Ending \cup {"begin", "serial"}

ThreadType ==
  [pc : Place, back : {"serial", "decode", "unlock"}, die : BOOLEAN,
   state : {"INPUT_READY", "SETTING_UP", "SETUP_FINISHED"}, ctx : Int, job : Nat,
   result : {"none", "frame", "error"}, decoding : BOOLEAN, hw : BOOLEAN,
   hwaccel_threadsafe : BOOLEAN, hwaccel_serializing : BOOLEAN,
   async_serializing : BOOLEAN]

\* The user's thread, by the locals it has at each place.
Calling == {"submit", "prev", "prev asleep", "update", "collect", "collect asleep"}
Submitting == {"prev", "prev asleep", "update"}
Collecting == {"collect", "collect asleep"}
Parking == {"park", "park asleep"}
Returning == {"finish", "finish asleep"}

UserType ==
  \/ user \in [at : {"idle", "flush", "gone"}]
  \/ user \in [at : Calling \cup Returning, size : BOOLEAN, finished : Worker,
               then : {"idle"}]
  \/ user \in [at : Parking \cup Returning, finished : 0 .. N, then : {"flush", "kill"}]
  \/ user \in [at : {"kill"}, finished : 0 .. N]
  \/ user \in [at : {"join"}, finished : Worker]

TypeOK ==
  /\ codec \in Codecs
  /\ threads \in [Worker -> ThreadType]
  /\ next_decoding \in 0 .. N
  /\ next_decoding = N => user.at \in Collecting
  /\ next_finished \in Worker
  /\ prev_thread \in Worker \cup {None}
  /\ delaying \in BOOLEAN /\ stash \in BOOLEAN /\ async_lock \in BOOLEAN
  /\ draining \in BOOLEAN
  /\ count \in Nat
  /\ UserType

\* Where a worker is, and what state it shows the others.
ThreadState(p) ==
  /\ p.state = "INPUT_READY" => p.pc \in Waiting
  /\ p.pc \in {"asleep", "exit"} => p.state = "INPUT_READY"
  /\ p.pc \in Waiting => p.state # "SETUP_FINISHED"
  /\ p.pc \in Finishing \cup {"begin"} => p.state = "SETTING_UP"
  /\ p.pc = "serial" =>
       p.state = IF codec.update THEN "SETTING_UP" ELSE "SETUP_FINISHED"
  /\ p.pc \in Finishing => (p.back = "serial" => ~codec.update)
  /\ p.pc \in Ending => p.state = "SETUP_FINISHED"
  /\ p.die => p.state = "INPUT_READY"
  /\ p.pc = "exit" => p.die
StateInv == \A i \in Worker : ThreadState(threads[i])

AllReady == \A i \in Worker : threads[i].state = "INPUT_READY"

\* What the user's thread has waited for.
UserInv ==
  /\ user.at \in Submitting => threads[next_decoding].pc \in Waiting
  /\ user.at = "update" /\ prev_thread # None
       => threads[prev_thread].state # "SETTING_UP"
  /\ user.at \in Parking
       => \A i \in Worker : i < user.finished => threads[i].state = "INPUT_READY"
  /\ user.at \in {"flush", "kill", "join", "gone"} => AllReady
  /\ user.at \in Returning /\ user.then # "idle" => AllReady

\* Workers are told to die at the end only.
Dying == user.at \in {"kill", "join", "gone"}
DieInv == \A i \in Worker : threads[i].die => Dying

\* The workers take turns.
TurnInv ==
  /\ IF prev_thread = None THEN next_decoding = 0
     ELSE \/ next_decoding = prev_thread + 1
          \/ prev_thread = N - 1 /\ next_decoding = 0
  /\ \A i \in Worker : threads[i].state = "SETTING_UP"
       => i = prev_thread /\ threads[i].job = count

\* Where the last packet left the context.
LastInv ==
  codec.update =>
    IF prev_thread = None THEN threads[0].ctx \in {count, Forgot}
    ELSE threads[prev_thread].state # "SETTING_UP" => threads[prev_thread].ctx = count

OrderInv == /\ TypeOK /\ StateInv /\ UserInv /\ DieInv /\ TurnInv /\ LastInv
            /\ ContextInOrder

\* What a broadcast does to a worker, and a broadcast or a signal to the user.
Woken(p, q) ==
  /\ \/ q.pc = p.pc
     \/ p.pc = "async asleep" /\ q.pc = "async"
     \/ p.pc = "await" /\ q.pc = "decode"
  /\ q.back = p.back /\ q.die = p.die /\ q.state = p.state /\ q.ctx = p.ctx
  /\ q.job = p.job /\ q.result = p.result /\ q.hw = p.hw
  /\ q.hwaccel_threadsafe = p.hwaccel_threadsafe
  /\ q.hwaccel_serializing = p.hwaccel_serializing
  /\ q.async_serializing = p.async_serializing
UserWoken ==
  \/ user' = user
  \/ \E place \in {"prev", "collect", "park", "finish"} :
       /\ user' = [user EXCEPT !.at = place]
       /\ place = "prev" => user.at = "prev asleep"
       /\ place = "collect" => user.at = "collect asleep"
       /\ place = "park" => user.at = "park asleep"
       /\ place = "finish" => user.at = "finish asleep"

-----------------------------------------------------------------------------
LEMMA WakeShape ==
  ASSUME NEW ts \in [Worker -> ThreadType], NEW i \in Worker
  PROVE  /\ WakeAsync(ts) \in [Worker -> ThreadType]
         /\ WakeProgress(i, ts) \in [Worker -> ThreadType]
         /\ \A k \in Worker : /\ Woken(ts[k], WakeAsync(ts)[k])
                              /\ Woken(ts[k], WakeProgress(i, ts)[k])
<1>1. ASSUME NEW p \in ThreadType
      PROVE  /\ [p EXCEPT !.pc = "async"] \in ThreadType
             /\ [p EXCEPT !.pc = "decode"] \in ThreadType
             /\ p.pc = "async asleep" => Woken(p, [p EXCEPT !.pc = "async"])
             /\ p.pc = "await" => Woken(p, [p EXCEPT !.pc = "decode"])
             /\ Woken(p, p)
  BY DEF Woken, ThreadType, Place, Waiting, Finishing, Decoding, Ending
<1>2. WakeAsync(ts) \in [Worker -> ThreadType]
  BY <1>1, Zenon DEF WakeAsync
<1>3. WakeProgress(i, ts) \in [Worker -> ThreadType]
  BY <1>1, Zenon DEF WakeProgress
<1>4. ASSUME NEW k \in Worker
      PROVE  Woken(ts[k], WakeAsync(ts)[k]) /\ Woken(ts[k], WakeProgress(i, ts)[k])
  <2>1. ts[k] \in ThreadType
    OBVIOUS
  <2>2. WakeAsync(ts)[k] = IF ts[k].pc = "async asleep" THEN [ts[k] EXCEPT !.pc = "async"]
                                                       ELSE ts[k]
    BY Zenon DEF WakeAsync
  <2>3. \/ WakeProgress(i, ts)[k] = ts[k]
        \/ ts[k].pc = "await" /\ WakeProgress(i, ts)[k] = [ts[k] EXCEPT !.pc = "decode"]
    BY Zenon DEF WakeProgress
  <2> QED
    BY <1>1, <2>1, <2>2, <2>3, Zenon
<1> QED
  BY <1>1, <1>2, <1>3, <1>4

LEMMA UserShape ==
  ASSUME UserType, UserWoken
  PROVE  /\ UserType'
         /\ \/ user'.at = user.at
            \/ user.at = "prev asleep" /\ user'.at = "prev"
            \/ user.at = "collect asleep" /\ user'.at = "collect"
            \/ user.at = "park asleep" /\ user'.at = "park"
            \/ user.at = "finish asleep" /\ user'.at = "finish"
         /\ user.at \in Parking => user'.finished = user.finished
         /\ user.at \in Returning => user'.then = user.then
<1> USE DEF UserWoken, UserType, Calling, Parking, Returning, Worker
<1>1. CASE user \in [at : {"idle", "flush", "gone"}]
  BY <1>1
<1>2. CASE user \in [at : Calling \cup Returning, size : BOOLEAN, finished : Worker,
                      then : {"idle"}]
  BY <1>2
<1>3. CASE user \in [at : Parking \cup Returning, finished : 0 .. N,
                      then : {"flush", "kill"}]
  BY <1>3
<1>4. CASE user \in [at : {"kill"}, finished : 0 .. N]
  BY <1>4
<1>5. CASE user \in [at : {"join"}, finished : Worker]
  BY <1>5
<1> QED
  BY <1>1, <1>2, <1>3, <1>4, <1>5

\* What every step of worker i has in common.
OthersMove(i) ==
  /\ threads' \in [Worker -> ThreadType]
  /\ \A k \in Worker \ {i} : Woken(threads[k], threads'[k])
  /\ UserWoken
  /\ stash' \in BOOLEAN /\ async_lock' \in BOOLEAN /\ draining' \in BOOLEAN
  /\ codec' = codec /\ next_decoding' = next_decoding
  /\ next_finished' = next_finished /\ delaying' \in BOOLEAN
  /\ prev_thread' = prev_thread /\ count' = count
OrderMove(i) ==
  /\ ThreadState(threads[i])'
  /\ threads'[i].die = threads[i].die
  /\ threads'[i].state = "SETTING_UP" =>
       /\ threads[i].state = "SETTING_UP"
       /\ threads'[i].job = threads[i].job /\ threads'[i].ctx = threads[i].ctx
  /\ threads[i].state = "INPUT_READY" => threads'[i].state = "INPUT_READY"
  /\ threads'[i].job = threads[i].job
  /\ threads'[i].state = "INPUT_READY" => threads'[i].result = threads[i].result
  /\ user.at \in Submitting /\ next_decoding = i => threads'[i].pc \in Waiting
  /\ threads'[i].state # "SETTING_UP" =>
       threads'[i].ctx = IF threads[i].state = "SETTING_UP" THEN threads[i].job
                                                            ELSE threads[i].ctx

LEMMA OrderByWorker ==
  ASSUME OrderInv, NEW i \in Worker, OthersMove(i), OrderMove(i)
  PROVE  OrderInv'
<1> USE DEF OrderInv, TypeOK, OthersMove, OrderMove
<1>0. /\ UserType'
      /\ \/ user'.at = user.at
         \/ user.at = "prev asleep" /\ user'.at = "prev"
         \/ user.at = "collect asleep" /\ user'.at = "collect"
         \/ user.at = "park asleep" /\ user'.at = "park"
         \/ user.at = "finish asleep" /\ user'.at = "finish"
      /\ user.at \in Parking => user'.finished = user.finished
      /\ user.at \in Returning => user'.then = user.then
  BY UserShape
<1>1. TypeOK'
  BY <1>0 DEF Collecting
<1>2. ASSUME NEW k \in Worker \ {i}
      PROVE  /\ threads'[k].state = threads[k].state
             /\ threads'[k].job = threads[k].job
             /\ threads'[k].ctx = threads[k].ctx
             /\ threads[k].pc \in Waiting => threads'[k].pc \in Waiting
  BY DEF Woken, Waiting
<1>3. StateInv'
  <2>1. ASSUME NEW k \in Worker \ {i} PROVE ThreadState(threads[k])'
    <3>1. ThreadState(threads[k]) /\ Woken(threads[k], threads'[k])
      BY <2>1 DEF StateInv
    <3>2. CASE threads'[k].pc = threads[k].pc
      BY <3>1, <3>2 DEF ThreadState, Woken
    <3>3. CASE threads[k].pc = "async asleep" /\ threads'[k].pc = "async"
      BY <3>1, <3>3 DEF ThreadState, Woken, Waiting, Finishing, Decoding, Ending
    <3>4. CASE threads[k].pc = "await" /\ threads'[k].pc = "decode"
      BY <3>1, <3>4 DEF ThreadState, Woken, Waiting, Finishing, Decoding, Ending
    <3> QED
      BY <3>1, <3>2, <3>3, <3>4 DEF Woken
  <2> QED
    BY <2>1 DEF StateInv
<1>4. UserInv'
  <2>1. user'.at \in Submitting => threads'[next_decoding'].pc \in Waiting
    <3> SUFFICES ASSUME user'.at \in Submitting
                 PROVE  threads'[next_decoding].pc \in Waiting
      OBVIOUS
    <3>1. user.at \in Submitting
      BY <1>0 DEF Submitting
    <3>2. next_decoding \in Worker
      <4>1. next_decoding # N /\ next_decoding \in 0 .. N
        BY <3>1 DEF Submitting, Collecting
      <4> QED
        BY <4>1, ThreadAssumption DEF Worker
    <3>3. threads[next_decoding].pc \in Waiting
      BY <3>1 DEF UserInv
    <3> QED
      BY <1>2, <3>1, <3>2, <3>3
  <2>2. user'.at = "update" /\ prev_thread' # None => threads'[prev_thread'].state # "SETTING_UP"
    BY <1>0, <1>2 DEF UserInv
  <2>3. \A k \in Worker : threads[k].state = "INPUT_READY" => threads'[k].state = "INPUT_READY"
    BY <1>2
  <2>4. user'.at \in Parking
         => \A k \in Worker : k < user'.finished => threads'[k].state = "INPUT_READY"
    BY <1>0, <2>3 DEF UserInv, Parking
  <2>5. user'.at \in {"flush", "kill", "join", "gone"} => AllReady'
    BY <1>0, <2>3 DEF UserInv, AllReady
  <2>6. user'.at \in Returning /\ user'.then # "idle" => AllReady'
    BY <1>0, <2>3 DEF UserInv, AllReady, Returning
  <2> QED
    BY <2>1, <2>2, <2>4, <2>5, <2>6 DEF UserInv
<1>5. TurnInv'
  BY <1>2 DEF TurnInv
<1>6. LastInv'
  BY <1>2, ThreadAssumption DEF LastInv, TurnInv, Worker, None, Forgot
<1>7. ContextInOrder'
  BY <1>2 DEF ContextInOrder, Forgot
<1>8. DieInv'
  <2>1. \A k \in Worker : threads'[k].die = threads[k].die
    BY DEF Woken
  <2> QED
    BY <1>0, <2>1 DEF DieInv, Dying
<1> QED
  BY <1>1, <1>3, <1>4, <1>5, <1>6, <1>7, <1>8

LEMMA OrderWorkerStep ==
  ASSUME OrderInv, NEW i \in Worker, WorkerStep(i)
  PROVE  OthersMove(i) /\ OrderMove(i)
<1>a. /\ threads \in [Worker -> ThreadType] /\ threads[i] \in ThreadType
      /\ ThreadState(threads[i])
      /\ stash \in BOOLEAN /\ async_lock \in BOOLEAN /\ draining \in BOOLEAN
      /\ delaying \in BOOLEAN
  BY DEF OrderInv, TypeOK, StateInv
<1>b. threads[i].state \in {"INPUT_READY", "SETTING_UP", "SETUP_FINISHED"}
  BY <1>a DEF ThreadType
<1>c. ASSUME NEW p PROVE Woken(p, p)
  BY DEF Woken
<1>d. user.at \in Submitting /\ next_decoding = i => threads[i].pc \in Waiting
  BY DEF OrderInv, UserInv
<1>e. codec.update \in BOOLEAN /\ codec.hw \in {"none", "safe", "serial"}
  BY CodecsAssumption DEF OrderInv, TypeOK
<1> USE DEF fctx, client, Place, Waiting, Finishing, Decoding, Ending
<1>1. CASE Input(i)
  <2>1. threads' \in [Worker -> ThreadType]
    BY <1>a, <1>1 DEF Input, ThreadType
  <2>2. \A k \in Worker \ {i} : Woken(threads[k], threads'[k])
    BY <1>a, <1>c, <1>1 DEF Input
  <2>3. OthersMove(i)
    BY <1>a, <1>1, <2>1, <2>2, Zenon DEF Input, OthersMove, UserWoken
  <2>4. /\ threads'[i].pc = IF threads[i].die THEN "exit"
                             ELSE IF threads[i].state = "INPUT_READY" THEN "asleep" ELSE "begin"
        /\ threads'[i].back = threads[i].back
        /\ threads'[i].die = threads[i].die
        /\ threads'[i].state = threads[i].state
        /\ threads'[i].ctx = threads[i].ctx
        /\ threads'[i].job = threads[i].job
        /\ threads'[i].result = threads[i].result
    BY <1>a, <1>1 DEF Input, ThreadType
  <2>5. ThreadState(threads[i])'
    BY <1>a, <1>b, <1>e, <1>1, <2>3, <2>4 DEF Input, ThreadState, OthersMove
  <2>6. ~(user.at \in Submitting /\ next_decoding = i)
    BY <1>1, Zenon DEF Input, UserHolds, Submitting
  <2> QED
    BY <1>1, <2>3, <2>4, <2>5, <2>6 DEF OrderMove
<1>2. CASE Begin(i)
  <2>1. threads' \in [Worker -> ThreadType]
    BY <1>a, <1>2 DEF Begin, ThreadType
  <2>2. \A k \in Worker \ {i} : Woken(threads[k], threads'[k])
    BY <1>a, <1>c, <1>2 DEF Begin
  <2>3. OthersMove(i)
    BY <1>a, <1>2, <2>1, <2>2, Zenon DEF Begin, OthersMove, UserWoken
  <2>4. /\ threads'[i].pc = IF codec.update THEN "serial" ELSE "finish"
        /\ threads'[i].back = "serial"
        /\ threads'[i].die = threads[i].die
        /\ threads'[i].state = threads[i].state
        /\ threads'[i].ctx = threads[i].ctx
        /\ threads'[i].job = threads[i].job
        /\ threads'[i].result = threads[i].result
    BY <1>a, <1>2 DEF Begin, ThreadType
  <2>5. ThreadState(threads[i])'
    BY <1>a, <1>b, <1>e, <1>2, <2>3, <2>4 DEF Begin, ThreadState, OthersMove
  <2>6. ~(user.at \in Submitting /\ next_decoding = i)
    BY <1>2, <1>d DEF Begin
  <2> QED
    BY <1>2, <2>3, <2>4, <2>5, <2>6 DEF OrderMove
<1>3. CASE Serial(i)
  <2>p. PICK lock \in BOOLEAN :
          threads' = [threads EXCEPT ![i].pc = "decode", ![i].result = "none",
                                     ![i].hwaccel_serializing = lock]
    <3>1. hwaccel_serial(threads[i]) \in BOOLEAN
      BY DEF hwaccel_serial
    <3> QED
      BY <1>3, <3>1, Zenon DEF Serial
  <2>1. threads' \in [Worker -> ThreadType]
    BY <1>a, <2>p DEF ThreadType
  <2>2. \A k \in Worker \ {i} : Woken(threads[k], threads'[k])
    BY <1>a, <1>c, <2>p
  <2>3. OthersMove(i)
    BY <1>a, <1>3, <2>1, <2>2, Zenon DEF Serial, OthersMove, UserWoken
  <2>4. /\ threads'[i].pc = "decode"
        /\ threads'[i].back = threads[i].back
        /\ threads'[i].die = threads[i].die
        /\ threads'[i].state = threads[i].state
        /\ threads'[i].ctx = threads[i].ctx
        /\ threads'[i].job = threads[i].job
    BY <1>a, <2>p DEF ThreadType
  <2>5. ThreadState(threads[i])'
    BY <1>a, <1>b, <1>e, <1>3, <2>3, <2>4 DEF Serial, ThreadState, OthersMove
  <2>6. ~(user.at \in Submitting /\ next_decoding = i)
    BY <1>3, <1>d DEF Serial
  <2> QED
    BY <1>3, <1>a, <2>3, <2>4, <2>5, <2>6 DEF OrderMove, Serial, ThreadState
<1>4. CASE Setup(i)
  <2>p. PICK h \in BOOLEAN, f \in BOOLEAN :
          threads' = [threads EXCEPT ![i].hw = h, ![i].decoding = f,
                                     ![i].pc = "finish", ![i].back = "decode"]
    BY <1>4, Zenon DEF Setup
  <2>1. threads' \in [Worker -> ThreadType]
    BY <1>a, <2>p DEF ThreadType
  <2>2. \A k \in Worker \ {i} : Woken(threads[k], threads'[k])
    BY <1>a, <1>c, <2>p
  <2>3. OthersMove(i)
    BY <1>a, <1>4, <2>1, <2>2, Zenon DEF Setup, OthersMove, UserWoken
  <2>4. /\ threads'[i].pc = "finish"
        /\ threads'[i].back = "decode"
        /\ threads'[i].die = threads[i].die
        /\ threads'[i].state = threads[i].state
        /\ threads'[i].ctx = threads[i].ctx
        /\ threads'[i].job = threads[i].job
        /\ threads'[i].result = threads[i].result
    BY <1>a, <2>p DEF ThreadType
  <2>5. ThreadState(threads[i])'
    BY <1>a, <1>b, <1>e, <1>4, <2>3, <2>4 DEF Setup, ThreadState, OthersMove
  <2>6. ~(user.at \in Submitting /\ next_decoding = i)
    BY <1>4, <1>d DEF Setup
  <2> QED
    BY <1>4, <2>3, <2>4, <2>5, <2>6 DEF OrderMove
<1>5. CASE Await(i)
  <2>1. threads' \in [Worker -> ThreadType]
    BY <1>a, <1>5 DEF Await, ThreadType
  <2>2. \A k \in Worker \ {i} : Woken(threads[k], threads'[k])
    BY <1>a, <1>c, <1>5 DEF Await
  <2>3. OthersMove(i)
    BY <1>a, <1>5, <2>1, <2>2, Zenon DEF Await, OthersMove, UserWoken
  <2>4. /\ threads'[i].pc = "await"
        /\ threads'[i].back = threads[i].back
        /\ threads'[i].die = threads[i].die
        /\ threads'[i].state = threads[i].state
        /\ threads'[i].ctx = threads[i].ctx
        /\ threads'[i].job = threads[i].job
        /\ threads'[i].result = threads[i].result
    BY <1>a, <1>5 DEF Await, ThreadType
  <2>5. ThreadState(threads[i])'
    BY <1>a, <1>b, <1>e, <1>5, <2>3, <2>4 DEF Await, ThreadState, OthersMove
  <2>6. ~(user.at \in Submitting /\ next_decoding = i)
    BY <1>5, <1>d DEF Await
  <2> QED
    BY <1>5, <2>3, <2>4, <2>5, <2>6 DEF OrderMove
<1>6. CASE Unlock(i)
  <2>1. threads' \in [Worker -> ThreadType]
    BY ZenonT(40), <1>a, <1>6 DEF Unlock, ThreadType
  <2>2. \A k \in Worker \ {i} : Woken(threads[k], threads'[k])
    BY <1>a, <1>c, <1>6 DEF Unlock
  <2>3. OthersMove(i)
    BY <1>a, <1>6, <2>1, <2>2, Zenon DEF Unlock, OthersMove, UserWoken
  <2>4. /\ threads'[i].pc = "async unlock"
        /\ threads'[i].back = threads[i].back
        /\ threads'[i].die = threads[i].die
        /\ threads'[i].state = threads[i].state
        /\ threads'[i].ctx = threads[i].ctx
        /\ threads'[i].job = threads[i].job
        /\ threads'[i].result = threads[i].result
    BY <1>a, <1>6 DEF Unlock, ThreadType
  <2>5. ThreadState(threads[i])'
    BY <1>a, <1>b, <1>e, <1>6, <2>3, <2>4 DEF Unlock, ThreadState, OthersMove
  <2>6. ~(user.at \in Submitting /\ next_decoding = i)
    BY <1>6, <1>d DEF Unlock
  <2> QED
    BY <1>6, <2>3, <2>4, <2>5, <2>6 DEF OrderMove
<1>7. CASE Finish(i)
  <2>p. PICK t, s, a \in BOOLEAN, place \in {"async", "stash"} :
          threads' = [threads EXCEPT ![i].hwaccel_threadsafe = t,
                                     ![i].hwaccel_serializing = s,
                                     ![i].async_serializing = a, ![i].pc = place]
    <3> DEFINE p == threads[i]
               lock == hwaccel_serial(p) /\ ~p.hwaccel_serializing
               async == p.hw /\ ~codec.async_safe
    <3>1. /\ (p.hw /\ codec.hw = "safe") \in BOOLEAN
          /\ (p.hwaccel_serializing \/ lock) \in BOOLEAN
          /\ (p.async_serializing \/ async) \in BOOLEAN
          /\ (IF async THEN "async" ELSE "stash") \in {"async", "stash"}
      OBVIOUS
    <3>2. threads' = [threads EXCEPT ![i].hwaccel_threadsafe = p.hw /\ codec.hw = "safe",
                                     ![i].hwaccel_serializing = @ \/ lock,
                                     ![i].async_serializing = @ \/ async,
                                     ![i].pc = IF async THEN "async" ELSE "stash"]
      BY <1>7, Zenon DEF Finish
    <3> QED
      BY <3>1, <3>2, Zenon
  <2>1. threads' \in [Worker -> ThreadType]
    BY ZenonT(40), <1>a, <2>p DEF ThreadType
  <2>2. \A k \in Worker \ {i} : Woken(threads[k], threads'[k])
    BY <1>a, <1>c, <2>p
  <2>3. OthersMove(i)
    BY <1>a, <1>7, <2>1, <2>2, Zenon DEF Finish, OthersMove, UserWoken
  <2>4. /\ threads'[i].pc \in {"async", "stash"}
        /\ threads'[i].back = threads[i].back
        /\ threads'[i].die = threads[i].die
        /\ threads'[i].state = threads[i].state
        /\ threads'[i].ctx = threads[i].ctx
        /\ threads'[i].job = threads[i].job
        /\ threads'[i].result = threads[i].result
    BY <1>a, <2>p DEF ThreadType
  <2>5. ThreadState(threads[i])'
    BY <1>a, <1>b, <1>e, <1>7, <2>3, <2>4 DEF Finish, ThreadState, OthersMove
  <2>6. ~(user.at \in Submitting /\ next_decoding = i)
    BY <1>7, <1>d DEF Finish
  <2> QED
    BY <1>7, <2>3, <2>4, <2>5, <2>6 DEF OrderMove
<1>8. CASE AsyncLock(i)
  <2>1. threads' \in [Worker -> ThreadType]
    BY <1>a, <1>8 DEF AsyncLock, ThreadType
  <2>2. \A k \in Worker \ {i} : Woken(threads[k], threads'[k])
    BY <1>a, <1>c, <1>8 DEF AsyncLock
  <2>3. OthersMove(i)
    BY <1>a, <1>8, <2>1, <2>2, Zenon DEF AsyncLock, OthersMove, UserWoken
  <2>4. /\ threads'[i].pc \in {"async asleep", "stash"}
        /\ threads'[i].back = threads[i].back
        /\ threads'[i].die = threads[i].die
        /\ threads'[i].state = threads[i].state
        /\ threads'[i].ctx = threads[i].ctx
        /\ threads'[i].job = threads[i].job
        /\ threads'[i].result = threads[i].result
    BY <1>a, <1>8 DEF AsyncLock, ThreadType
  <2>5. ThreadState(threads[i])'
    BY <1>a, <1>b, <1>e, <1>8, <2>3, <2>4 DEF AsyncLock, ThreadState, OthersMove
  <2>6. ~(user.at \in Submitting /\ next_decoding = i)
    BY <1>8, <1>d DEF AsyncLock
  <2> QED
    BY <1>8, <2>3, <2>4, <2>5, <2>6 DEF OrderMove
<1>9. CASE Decoded(i)
  <2>p. PICK r \in {"none", "frame", "error"} :
          threads' = LET done == [threads EXCEPT ![i].decoding = FALSE,
                                    ![i].result = r,  ![i].back = "unlock",
                                    ![i].pc = IF threads[i].state = "SETTING_UP"
                                                THEN "finish" ELSE "unlock"]
                     IN  IF threads[i].decoding THEN WakeProgress(i, done) ELSE done
    BY <1>9, Zenon DEF Decoded
  <2> DEFINE next == [threads EXCEPT ![i].decoding = FALSE, ![i].result = r,
                                ![i].back = "unlock",
                                ![i].pc = IF threads[i].state = "SETTING_UP"
                                            THEN "finish" ELSE "unlock"]
  <2>a. next \in [Worker -> ThreadType]
    BY ZenonT(40), <1>a DEF ThreadType
  <2>b. \A k \in Worker \ {i} : next[k] = threads[k]
    BY <1>a
  <2>c. /\ next[i].pc = IF threads[i].state = "SETTING_UP" THEN "finish" ELSE "unlock"
        /\ next[i].back = "unlock"
        /\ next[i].die = threads[i].die
        /\ next[i].state = threads[i].state
        /\ next[i].ctx = threads[i].ctx
        /\ next[i].job = threads[i].job
    BY <1>a DEF ThreadType
  <2>d. threads' = next \/ threads' = WakeProgress(i, next)
    BY <2>p, Zenon
  <2> HIDE DEF next
  <2>1. /\ threads' \in [Worker -> ThreadType]
        /\ \A k \in Worker : Woken(next[k], threads'[k])
    BY <1>c, <2>a, <2>d, WakeShape, Zenon
  <2>2. \A k \in Worker \ {i} : Woken(threads[k], threads'[k])
    BY <2>b, <2>1, Zenon
  <2>3. UserWoken
    BY <1>9, Zenon DEF Decoded, UserWoken
  <2>4. OthersMove(i)
    BY <1>a, <1>9, <2>1, <2>2, <2>3, Zenon DEF Decoded, OthersMove
  <2>5. /\ threads'[i].pc = IF threads[i].state = "SETTING_UP" THEN "finish" ELSE "unlock"
        /\ threads'[i].back = "unlock"
        /\ threads'[i].die = threads[i].die
        /\ threads'[i].state = threads[i].state
        /\ threads'[i].ctx = threads[i].ctx
        /\ threads'[i].job = threads[i].job
    BY <1>a, <1>b, <1>e, <1>9, <2>1, <2>c DEF Woken
  <2>6. ThreadState(threads[i])'
    BY <1>a, <1>b, <1>e, <1>9, <2>4, <2>5 DEF Decoded, ThreadState, OthersMove
  <2>7. ~(user.at \in Submitting /\ next_decoding = i)
    BY <1>9, <1>d DEF Decoded
  <2> QED
    BY <1>9, <1>a, <2>4, <2>5, <2>6, <2>7 DEF OrderMove, Decoded, ThreadState
<1>10. CASE AsyncUnlock(i)
  <2> DEFINE next == [threads EXCEPT ![i].async_serializing = FALSE, ![i].pc = "ready"]
  <2>a. next \in [Worker -> ThreadType]
    BY ZenonT(40), <1>a DEF ThreadType
  <2>b. \A k \in Worker \ {i} : next[k] = threads[k]
    BY <1>a
  <2>c. /\ next[i].pc = "ready"
        /\ next[i].back = threads[i].back
        /\ next[i].die = threads[i].die
        /\ next[i].state = threads[i].state
        /\ next[i].ctx = threads[i].ctx
        /\ next[i].job = threads[i].job
        /\ next[i].result = threads[i].result
    BY <1>a DEF ThreadType
  <2>d. threads' = next \/ threads' = WakeAsync(next)
    BY <1>10, Zenon DEF AsyncUnlock
  <2> HIDE DEF next
  <2>1. /\ threads' \in [Worker -> ThreadType]
        /\ \A k \in Worker : Woken(next[k], threads'[k])
    BY <1>c, <2>a, <2>d, WakeShape, Zenon
  <2>2. \A k \in Worker \ {i} : Woken(threads[k], threads'[k])
    BY <2>b, <2>1, Zenon
  <2>3. UserWoken
    BY <1>10, Zenon DEF AsyncUnlock, UserWoken
  <2>4. OthersMove(i)
    BY <1>a, <1>10, <2>1, <2>2, <2>3, Zenon DEF AsyncUnlock, OthersMove
  <2>5. /\ threads'[i].pc = "ready"
        /\ threads'[i].back = threads[i].back
        /\ threads'[i].die = threads[i].die
        /\ threads'[i].state = threads[i].state
        /\ threads'[i].ctx = threads[i].ctx
        /\ threads'[i].job = threads[i].job
        /\ threads'[i].result = threads[i].result
    BY <1>a, <1>b, <1>e, <1>10, <2>1, <2>c DEF Woken
  <2>6. ThreadState(threads[i])'
    BY <1>a, <1>b, <1>e, <1>10, <2>4, <2>5 DEF AsyncUnlock, ThreadState, OthersMove
  <2>7. ~(user.at \in Submitting /\ next_decoding = i)
    BY <1>10, <1>d DEF AsyncUnlock
  <2> QED
    BY <1>10, <1>a, <2>4, <2>5, <2>6, <2>7 DEF OrderMove, AsyncUnlock, ThreadState
<1>11. CASE Ready(i)
  <2> DEFINE next == [threads EXCEPT ![i].state = "INPUT_READY", ![i].pc = "asleep"]
  <2>a. next \in [Worker -> ThreadType]
    BY <1>a DEF ThreadType
  <2>b. \A k \in Worker \ {i} : next[k] = threads[k]
    BY <1>a
  <2>c. /\ next[i].pc = "asleep"
        /\ next[i].back = threads[i].back
        /\ next[i].die = threads[i].die
        /\ next[i].state = "INPUT_READY"
        /\ next[i].ctx = threads[i].ctx
        /\ next[i].job = threads[i].job
        /\ next[i].result = threads[i].result
    BY <1>a DEF ThreadType
  <2>d. threads' = WakeProgress(i, next)
    BY <1>11, Zenon DEF Ready
  <2> HIDE DEF next
  <2>1. /\ threads' \in [Worker -> ThreadType]
        /\ \A k \in Worker : Woken(next[k], threads'[k])
    BY <1>c, <2>a, <2>d, WakeShape, Zenon
  <2>2. \A k \in Worker \ {i} : Woken(threads[k], threads'[k])
    BY <2>b, <2>1, Zenon
  <2>3. UserWoken
    BY <1>11, Zenon DEF Ready, UserWoken, Output, Progressed
  <2>4. OthersMove(i)
    BY <1>a, <1>11, <2>1, <2>2, <2>3, Zenon DEF Ready, OthersMove
  <2>5. /\ threads'[i].pc = "asleep"
        /\ threads'[i].back = threads[i].back
        /\ threads'[i].die = threads[i].die
        /\ threads'[i].state = "INPUT_READY"
        /\ threads'[i].ctx = threads[i].ctx
        /\ threads'[i].job = threads[i].job
        /\ threads'[i].result = threads[i].result
    BY <1>a, <1>b, <1>e, <1>11, <2>1, <2>c DEF Woken
  <2>6. ThreadState(threads[i])'
    BY <1>a, <1>b, <1>e, <1>11, <2>4, <2>5 DEF Ready, ThreadState, OthersMove
  <2>7. ~(user.at \in Submitting /\ next_decoding = i)
    BY <1>11, <1>d DEF Ready
  <2> QED
    BY <1>11, <1>a, <2>4, <2>5, <2>6, <2>7 DEF OrderMove, Ready, ThreadState
<1>12. CASE Stash(i)
  <2>p. PICK place \in {"serial", "decode", "unlock"}, job \in Nat :
          /\ place = threads[i].back /\ job = threads[i].job
          /\ threads' = WakeProgress(i, [threads EXCEPT ![i].state = "SETUP_FINISHED",
                                            ![i].ctx = job, ![i].pc = place])
    <3>1. threads[i].back \in {"serial", "decode", "unlock"} /\ threads[i].job \in Nat
      BY <1>a DEF ThreadType
    <3> QED
      BY <1>12, <3>1, Zenon DEF Stash
  <2> DEFINE next == [threads EXCEPT ![i].state = "SETUP_FINISHED",
                                ![i].ctx = job, ![i].pc = place]
  <2>e. place \in {"serial", "decode", "unlock"} /\ job \in Nat
    BY <2>p
  <2>a. next \in [Worker -> ThreadType]
    <3>1. ASSUME NEW p \in ThreadType, NEW c \in Int, NEW q \in {"serial", "decode", "unlock"}
          PROVE  [p EXCEPT !.state = "SETUP_FINISHED", !.ctx = c, !.pc = q] \in ThreadType
      BY DEF ThreadType
    <3>2. job \in Int
      BY <2>e
    <3> QED
      BY <1>a, <2>e, <3>1, <3>2, Zenon
  <2>b. \A k \in Worker \ {i} : next[k] = threads[k]
    BY <1>a
  <2>g. job = threads[i].job
    BY <2>p
  <2>c. /\ next[i].pc = place
        /\ next[i].back = threads[i].back
        /\ next[i].die = threads[i].die
        /\ next[i].state = "SETUP_FINISHED"
        /\ next[i].ctx = threads[i].job
        /\ next[i].job = threads[i].job
        /\ next[i].result = threads[i].result
    BY <1>a, <2>e, <2>g DEF ThreadType
  <2>d. threads' = WakeProgress(i, next)
    BY <2>p, Zenon
  <2> HIDE DEF next
  <2>1. /\ threads' \in [Worker -> ThreadType]
        /\ \A k \in Worker : Woken(next[k], threads'[k])
    BY <1>c, <2>a, <2>d, WakeShape, Zenon
  <2>2. \A k \in Worker \ {i} : Woken(threads[k], threads'[k])
    BY <2>b, <2>1, Zenon
  <2>3. UserWoken
    BY <1>12, Zenon DEF Stash, UserWoken, Progressed
  <2>4. OthersMove(i)
    BY <1>a, <1>12, <2>1, <2>2, <2>3, Zenon DEF Stash, OthersMove
  <2>5. /\ threads'[i].pc = place
        /\ threads'[i].back = threads[i].back
        /\ threads'[i].die = threads[i].die
        /\ threads'[i].state = "SETUP_FINISHED"
        /\ threads'[i].ctx = threads[i].job
        /\ threads'[i].job = threads[i].job
        /\ threads'[i].result = threads[i].result
    BY ZenonT(40), <1>a, <1>b, <1>e, <1>12, <2>1, <2>c, <2>p DEF Woken
  <2>6. ThreadState(threads[i])'
    BY <1>a, <1>b, <1>e, <1>12, <2>4, <2>5, <2>p DEF Stash, ThreadState, OthersMove
  <2>7. ~(user.at \in Submitting /\ next_decoding = i)
    BY <1>12, <1>d DEF Stash
  <2> QED
    BY <1>12, <1>a, <2>4, <2>5, <2>6, <2>7 DEF OrderMove, Stash, ThreadState
<1> QED
  BY <1>1, <1>2, <1>3, <1>4, <1>5, <1>6, <1>7, <1>8, <1>9, <1>10, <1>11, <1>12
     DEF WorkerStep

\* A step of the user's thread that at most wakes workers.
UserMove ==
  /\ threads' \in [Worker -> ThreadType]
  /\ \A k \in Worker : Woken(threads[k], threads'[k])
  /\ codec' = codec /\ prev_thread' = prev_thread /\ count' = count
  /\ next_decoding' = next_decoding /\ next_finished' = next_finished
  /\ delaying' \in BOOLEAN /\ stash' \in BOOLEAN /\ async_lock' \in BOOLEAN
  /\ draining' \in BOOLEAN
  /\ UserType'
  /\ next_decoding = N => user'.at \in Collecting
  /\ Dying => Dying'

LEMMA OrderByUser ==
  ASSUME OrderInv, UserMove, UserInv'
  PROVE  OrderInv'
<1> USE DEF OrderInv, TypeOK, UserMove
<1>1. TypeOK'
  OBVIOUS
<1>2. ASSUME NEW k \in Worker
      PROVE  /\ threads'[k].state = threads[k].state
             /\ threads'[k].job = threads[k].job
             /\ threads'[k].ctx = threads[k].ctx
  BY DEF Woken
<1>3. StateInv'
  <2>1. ASSUME NEW k \in Worker PROVE ThreadState(threads[k])'
    <3>1. ThreadState(threads[k]) /\ Woken(threads[k], threads'[k])
      BY <2>1 DEF StateInv
    <3>2. CASE threads'[k].pc = threads[k].pc
      BY <3>1, <3>2 DEF ThreadState, Woken
    <3>3. CASE threads[k].pc = "async asleep" /\ threads'[k].pc = "async"
      BY <3>1, <3>3 DEF ThreadState, Woken, Waiting, Finishing, Decoding, Ending
    <3>4. CASE threads[k].pc = "await" /\ threads'[k].pc = "decode"
      BY <3>1, <3>4 DEF ThreadState, Woken, Waiting, Finishing, Decoding, Ending
    <3> QED
      BY <3>1, <3>2, <3>3, <3>4 DEF Woken
  <2> QED
    BY <2>1 DEF StateInv
<1>4. TurnInv'
  BY <1>2 DEF TurnInv
<1>5. LastInv'
  BY <1>2, ThreadAssumption DEF LastInv, Worker, None, Forgot
<1>6. ContextInOrder'
  BY <1>2 DEF ContextInOrder, Forgot
<1>7. DieInv'
  <2>1. \A k \in Worker : threads'[k].die = threads[k].die
    BY DEF Woken
  <2> QED
    BY <2>1 DEF DieInv
<1> QED
  BY <1>1, <1>3, <1>4, <1>5, <1>6, <1>7

\* Moves of the user's thread inside a call.
LEMMA GotoCalling ==
  ASSUME UserType, user.at \in Calling, NEW place \in Calling \cup Returning, Goto(place)
  PROVE  /\ UserType' /\ user'.at = place /\ user'.then = "idle"
         /\ user'.finished = user.finished /\ user.finished \in Worker
<1>1. user \in [at : Calling \cup Returning, size : BOOLEAN, finished : Worker,
                then : {"idle"}]
  BY DEF UserType, Calling, Parking, Returning
<1> QED
  BY <1>1 DEF Goto, UserType, Calling, Returning

LEMMA GotoParking ==
  ASSUME UserType, user.at \in Parking, NEW place \in Parking \cup Returning, Goto(place)
  PROVE  /\ UserType' /\ user'.at = place /\ user'.then \in {"flush", "kill"}
         /\ user'.finished = user.finished /\ user.finished \in 0 .. N
<1>1. user \in [at : Parking \cup Returning, finished : 0 .. N, then : {"flush", "kill"}]
  BY DEF UserType, Calling, Parking, Returning
<1> QED
  BY <1>1 DEF Goto, UserType, Parking, Returning

LEMMA OrderUserStep ==
  ASSUME OrderInv,
         \/ NoSubmit \/ Submit \/ Prev \/ Wait \/ Lock \/ Freed
         \/ \E size \in BOOLEAN : Decode(size)
         \/ \E then \in {"flush", "kill"} : Leave(then)
         \/ UNCHANGED vars
  PROVE  OrderInv'
<1> USE DEF OrderInv, TypeOK
<1>a. \A k \in Worker : Woken(threads[k], threads[k])
  BY DEF Woken
<1>b. /\ delaying \in BOOLEAN /\ stash \in BOOLEAN /\ async_lock \in BOOLEAN
      /\ draining \in BOOLEAN
  BY Zenon DEF OrderInv, TypeOK
<1>1. CASE NoSubmit
  <2>1. user.at = "submit" /\ Goto("collect")
    BY <1>1, Zenon DEF NoSubmit, Submitted
  <2>2. UserType' /\ user'.at = "collect"
    BY <2>1, GotoCalling DEF Calling
  <2>3. delaying' \in BOOLEAN
    <3>1. \A last : (delaying /\ next_decoding <= last) \in BOOLEAN
      OBVIOUS
    <3> QED
      BY <1>1, <3>1, Zenon DEF NoSubmit, Submitted
  <2>4. UserMove
    BY <1>1, <1>a, <2>1, <2>2, <2>3 DEF NoSubmit, Submitted, UserMove, Dying, Collecting
  <2>5. UserInv'
    BY <2>2 DEF UserInv, Submitting, Parking, Returning
  <2> QED
    BY <2>4, <2>5, OrderByUser
<1>2. CASE Submit
  <2>1. PICK place \in {"finish", "prev"} : user.at = "submit" /\ Goto(place)
    BY <1>2, Zenon DEF Submit, Return
  <2>2. UserType' /\ user'.at = place /\ user'.then = "idle"
    BY <2>1, GotoCalling DEF Calling, Returning
  <2>3. threads[next_decoding].pc \in Waiting
    BY <1>2 DEF Submit, WorkerHolds, Waiting
  <2>4. UserMove
    BY <1>2, <1>a, <1>b, <2>1, <2>2 DEF Dying, Submit, UserMove, Collecting, fctx
  <2>5. threads' = threads /\ next_decoding' = next_decoding
    BY <1>2 DEF Submit, fctx
  <2>6. UserInv'
    BY <2>1, <2>2, <2>3, <2>5 DEF UserInv, Submitting, Parking, Returning
  <2> QED
    BY <2>4, <2>6, OrderByUser
<1>3. CASE Prev
  <2>1. PICK place \in {"prev asleep", "update"} :
          /\ user.at = "prev" /\ Goto(place)
          /\ place = "update" /\ prev_thread # None
               => threads[prev_thread].state # "SETTING_UP"
    BY <1>3, Zenon DEF Prev
  <2>2. UserType' /\ user'.at = place
    BY <2>1, GotoCalling DEF Calling
  <2>3. threads[next_decoding].pc \in Waiting
    BY <2>1 DEF UserInv, Submitting
  <2>4. UserMove
    BY <1>3, <1>a, <1>b, <2>1, <2>2 DEF Dying, Prev, UserMove, Collecting, fctx, client
  <2>5. threads' = threads /\ next_decoding' = next_decoding /\ prev_thread' = prev_thread
    BY <1>3 DEF Prev, fctx
  <2>6. UserInv'
    BY <2>1, <2>2, <2>3, <2>5 DEF UserInv, Submitting, Parking, Returning
  <2> QED
    BY <2>4, <2>6, OrderByUser
<1>4. CASE Wait
  <2>0. threads' = threads /\ next_decoding' = next_decoding /\ prev_thread' = prev_thread
    BY <1>4 DEF Wait, fctx
  <2>1. CASE user.at = "collect"
    <3>1. Goto("collect asleep")
      BY <1>4, <2>1 DEF Wait
    <3>2. UserType' /\ user'.at = "collect asleep"
      BY <2>1, <3>1, GotoCalling DEF Calling
    <3>3. UserMove
      BY <1>4, <1>a, <1>b, <3>2 DEF Dying, Wait, UserMove, Collecting, fctx, client
    <3>4. UserInv'
      BY <3>2 DEF UserInv, Submitting, Parking, Returning
    <3> QED
      BY <3>3, <3>4, OrderByUser
  <2>2. CASE user.at = "park"
    <3>1. Goto("park asleep")
      BY <1>4, <2>2 DEF Wait
    <3>2. UserType' /\ user'.at = "park asleep" /\ user'.finished = user.finished
      BY <2>2, <3>1, GotoParking DEF Parking
    <3>3. UserMove
      BY <1>4, <1>a, <1>b, <2>2, <3>2 DEF Dying, Wait, UserMove, Collecting, fctx, client
    <3>4. UserInv'
      BY <2>0, <2>2, <3>2 DEF UserInv, Submitting, Parking, Returning
    <3> QED
      BY <3>3, <3>4, OrderByUser
  <2> QED
    BY <1>4, <2>1, <2>2 DEF Wait
<1>5. CASE Lock
  <2>0. /\ threads' = threads /\ user.at = "finish" /\ async_lock' = TRUE
        /\ user' = IF async_lock THEN [user EXCEPT !.at = "finish asleep"]
                   ELSE IF user.then = "kill" THEN [at |-> "kill", finished |-> 0]
                   ELSE [at |-> user.then]
    BY <1>5 DEF Lock
  <2>1. /\ user.then \in {"idle", "flush", "kill"}
        /\ user.then # "idle" => AllReady
    BY <2>0 DEF UserType, Calling, Parking, Returning, UserInv
  <2>2. /\ UserType'
        /\ \/ user'.at = "finish asleep" /\ user'.then = user.then
           \/ user'.at = "kill" /\ user.then = "kill"
           \/ user'.at \in {"idle", "flush"} /\ user'.at = user.then
    <3>1. CASE user \in [at : Calling \cup Returning, size : BOOLEAN, finished : Worker,
                         then : {"idle"}]
      BY <2>0, <3>1 DEF UserType, Calling, Returning
    <3>2. CASE user \in [at : Parking \cup Returning, finished : 0 .. N,
                         then : {"flush", "kill"}]
      <4>1. 0 \in 0 .. N
        BY ThreadAssumption
      <4>2. /\ user.then \in {"flush", "kill"}
            /\ [user EXCEPT !.at = "finish asleep"] \in
                 [at : Parking \cup Returning, finished : 0 .. N, then : {"flush", "kill"}]
            /\ [user EXCEPT !.at = "finish asleep"].at = "finish asleep"
            /\ [user EXCEPT !.at = "finish asleep"].then = user.then
        BY <3>2 DEF Parking, Returning
      <4>3. CASE async_lock
        BY <2>0, <4>2, <4>3, Zenon DEF UserType
      <4>4. CASE ~async_lock /\ user.then = "kill"
        BY <2>0, <4>1, <4>4 DEF UserType
      <4>5. CASE ~async_lock /\ user.then = "flush"
        BY <2>0, <4>5 DEF UserType
      <4> QED
        BY <4>2, <4>3, <4>4, <4>5
    <3> QED
      BY <2>0, <3>1, <3>2 DEF UserType
  <2>3. UserMove
    BY <1>5, <1>a, <1>b, <2>0, <2>2 DEF Dying, Lock, UserMove, Collecting, fctx, client
  <2>4. UserInv'
    BY <2>0, <2>1, <2>2 DEF UserInv, AllReady, Submitting, Parking, Returning
  <2> QED
    BY <2>3, <2>4, OrderByUser
<1>6. CASE Freed
  <2>1. user' = [at |-> "gone"] /\ user.at = "kill" /\ threads' = threads /\ stash' = FALSE
    BY <1>6 DEF Freed
  <2>2. UserType' /\ user'.at = "gone"
    BY <2>1 DEF UserType
  <2>3. UserMove
    BY <1>6, <1>a, <1>b, <2>1, <2>2 DEF Dying, Freed, UserMove, Collecting, fctx, client
  <2>4. UserInv'
    BY <2>1, <2>2 DEF UserInv, AllReady, Submitting, Parking, Returning
  <2> QED
    BY <2>3, <2>4, OrderByUser
<1>7. ASSUME NEW size \in BOOLEAN, Decode(size) PROVE OrderInv'
  <2>1. /\ user = [at |-> "idle"] /\ async_lock' = FALSE
        /\ threads' = WakeAsync(threads)
        /\ user' = [at |-> "submit", size |-> size, finished |-> next_finished,
                    then |-> "idle"]
    BY <1>7 DEF Decode, Enter
  <2>2. UserType' /\ user'.at = "submit"
    BY <2>1 DEF UserType, Calling
  <2>3. draining' \in BOOLEAN
    BY <1>7 DEF Decode
  <2>4. 0 \in Worker
    BY ThreadAssumption DEF Worker
  <2>5. UserMove
    BY <1>7, <1>b, <2>1, <2>2, <2>3, <2>4, WakeShape DEF Dying, Decode, UserMove, Collecting, fctx
  <2>6. UserInv'
    BY <2>2 DEF UserInv, Submitting, Parking, Returning
  <2> QED
    BY <2>5, <2>6, OrderByUser
<1>8. ASSUME NEW then \in {"flush", "kill"}, Leave(then) PROVE OrderInv'
  <2>1. /\ user = [at |-> "idle"] /\ async_lock' = FALSE
        /\ threads' = WakeAsync(threads)
        /\ user' = [at |-> "park", finished |-> 0, then |-> then]
    BY <1>8 DEF Leave, Enter
  <2>2. UserType' /\ user'.at = "park" /\ user'.finished = 0
    BY <2>1, ThreadAssumption DEF UserType, Parking
  <2>4. 0 \in Worker
    BY ThreadAssumption DEF Worker
  <2>5. UserMove
    BY <1>8, <1>b, <2>1, <2>2, <2>4, WakeShape DEF Dying, Leave, UserMove, Collecting, fctx, client
  <2>6. UserInv'
    <3>1. \A i \in Worker : ~(i < 0)
      BY ThreadAssumption DEF Worker
    <3>2. user'.at \in Parking
            => \A i \in Worker : i < user'.finished => threads'[i].state = "INPUT_READY"
      BY <2>2, <3>1, Zenon
    <3> QED
      BY <2>2, <3>2 DEF UserInv, Submitting, Parking, Returning
  <2> QED
    BY <2>5, <2>6, OrderByUser
<1>9. CASE UNCHANGED vars
  <2>1. UserMove
    BY <1>9, <1>a, <1>b DEF Dying, vars, UserMove, UserType
  <2>2. UserInv'
    BY <1>9 DEF vars, UserInv, AllReady
  <2> QED
    BY <2>1, <2>2, OrderByUser
<1> QED
  BY <1>1, <1>2, <1>3, <1>4, <1>5, <1>6, <1>7, <1>8, <1>9

\* What the user's thread leaves alone in a worker's record.
Kept(p, q) ==
  /\ q \in ThreadType /\ q.pc = p.pc /\ q.back = p.back /\ q.die = p.die
  /\ q.state = p.state /\ q.job = p.job /\ q.result = p.result
  /\ q.decoding = p.decoding

LEMMA Keeping ==
  ASSUME NEW p \in ThreadType, NEW c \in Int
  PROVE  Kept(p, [p EXCEPT !.ctx = c]) /\ [p EXCEPT !.ctx = c].ctx = c
BY DEF Kept, ThreadType

LEMMA KeepingTwo ==
  ASSUME NEW p \in ThreadType, NEW a \in BOOLEAN, NEW b \in BOOLEAN
  PROVE  /\ Kept(p, [p EXCEPT !.hw = a, !.hwaccel_threadsafe = b])
         /\ [p EXCEPT !.hw = a, !.hwaccel_threadsafe = b].ctx = p.ctx
BY DEF Kept, ThreadType

LEMMA UpdateShape ==
  ASSUME codec \in Codecs, NEW p \in ThreadType, NEW q \in ThreadType
  PROVE  /\ Kept(p, Updated(p, q))
         /\ Updated(p, q).ctx = IF codec.update THEN q.ctx ELSE p.ctx
         /\ \A r \in Botched(p, q) : Kept(p, r) /\ r.ctx = p.ctx
<1>1. /\ p.ctx \in Int /\ q.ctx \in Int
      /\ p.hw \in BOOLEAN /\ q.hw \in BOOLEAN /\ p.hwaccel_threadsafe \in BOOLEAN
      /\ q.hwaccel_threadsafe \in BOOLEAN
  BY DEF ThreadType
<1>2. PICK c \in Int : c = IF codec.update THEN q.ctx ELSE p.ctx
  BY <1>1
<1>3. PICK a \in BOOLEAN :
        a = (q.hwaccel_threadsafe \/ (p.hw /\ ~p.hwaccel_threadsafe))
  OBVIOUS
<1>4. Updated(p, q) = [p EXCEPT !.ctx = c, !.hw = a,
                                !.hwaccel_threadsafe = q.hwaccel_threadsafe]
  BY <1>2, <1>3, Zenon DEF Updated
<1>5. Kept(p, Updated(p, q)) /\ Updated(p, q).ctx = c
  <2>1. PICK b \in BOOLEAN : b = q.hwaccel_threadsafe
    BY <1>1
  <2>2. Updated(p, q) = [p EXCEPT !.ctx = c, !.hw = a, !.hwaccel_threadsafe = b]
    BY <1>4, <2>1, Zenon
  <2> DEFINE r == [p EXCEPT !.ctx = c, !.hw = a, !.hwaccel_threadsafe = b]
  <2>3. Kept(p, r) /\ r.ctx = c
    BY ZenonT(40), <1>2, <1>3, <2>1 DEF Kept, ThreadType
  <2> QED
    BY <2>2, <2>3, Zenon
<1>6. Kept(p, p)
  BY DEF Kept
<1>7. ASSUME NEW r \in Botched(p, q) PROVE Kept(p, r) /\ r.ctx = p.ctx
  <2>1. PICK b \in BOOLEAN : b = (p.hwaccel_threadsafe /\ p.hw)
    OBVIOUS
  <2>2. r = p \/ r = [p EXCEPT !.hw = FALSE, !.hwaccel_threadsafe = b]
    BY <1>7, <2>1, Zenon DEF Botched
  <2> QED
    BY <1>6, <2>2, KeepingTwo, Zenon
<1> QED
  BY <1>2, <1>5, <1>7

\* A step of the user's thread that touches worker n only, which waits.
TouchesOne(n) ==
  /\ threads[n].pc \in Waiting
  /\ threads' \in [Worker -> ThreadType]
  /\ \A k \in Worker \ {n} : threads'[k] = threads[k]
  /\ ThreadState(threads[n])'
  /\ threads'[n].state = threads[n].state
  /\ threads[n].state = "SETTING_UP"
       => threads'[n].job = threads[n].job /\ threads'[n].ctx = threads[n].ctx
  /\ prev_thread \in {None, n} => threads'[n].ctx = threads[n].ctx
  /\ codec' = codec /\ prev_thread' = prev_thread /\ count' = count
  /\ threads'[n].die => Dying'
  /\ Dying => Dying'

LEMMA OrderByOne ==
  ASSUME OrderInv, NEW n \in Worker, TouchesOne(n), TypeOK', UserInv',
         next_decoding' = next_decoding
           \/ next_decoding' = IF next_decoding = N THEN 0 ELSE next_decoding
  PROVE  OrderInv'
<1> USE DEF OrderInv, TouchesOne
<1>1. StateInv'
  <2>1. ASSUME NEW k \in Worker \ {n} PROVE ThreadState(threads[k])'
    <3>1. ThreadState(threads[k]) /\ threads'[k] = threads[k] /\ codec' = codec
      BY DEF StateInv
    <3> QED
      BY <3>1 DEF ThreadState
  <2> QED
    BY <2>1 DEF StateInv
<1>2. DieInv'
  BY DEF DieInv
<1>3. TurnInv'
  <2>1. /\ prev_thread \in Worker \cup {None} /\ next_decoding \in 0 .. N
    BY DEF TypeOK
  <2>2. \A k \in Worker : threads'[k].state = "SETTING_UP"
          => k = prev_thread' /\ threads'[k].job = count'
    BY DEF TurnInv
  <2>3. IF prev_thread' = None THEN next_decoding' = 0
        ELSE \/ next_decoding' = prev_thread' + 1
             \/ prev_thread' = N - 1 /\ next_decoding' = 0
    BY <2>1, ThreadAssumption DEF TurnInv, Worker, None
  <2> QED
    BY <2>2, <2>3, Zenon DEF TurnInv
<1>4. LastInv'
  <2>1. prev_thread \in Worker \cup {None} /\ 0 \in Worker
    BY ThreadAssumption DEF TypeOK, Worker
  <2>2. CASE prev_thread = None
    BY <2>1, <2>2 DEF LastInv
  <2>3. CASE prev_thread # None
    BY <2>1, <2>3 DEF LastInv
  <2> QED
    BY <2>2, <2>3
<1>5. ContextInOrder'
  BY DEF ContextInOrder, Forgot
<1> QED
  BY <1>1, <1>2, <1>3, <1>4, <1>5

\* The next worker to get a packet is not the one that got the last.
LEMMA NextDiffers ==
  ASSUME OrderInv, user.at \in Submitting
  PROVE  /\ next_decoding \in Worker
         /\ prev_thread # None => prev_thread \in Worker /\ prev_thread # next_decoding
         /\ threads[next_decoding].pc \in Waiting
         /\ threads[next_decoding] \in ThreadType
         /\ ThreadState(threads[next_decoding])
         /\ threads[next_decoding].state = "INPUT_READY"
<1>1. next_decoding \in Worker
  <2>1. next_decoding # N /\ next_decoding \in 0 .. N
    BY DEF Submitting, Collecting, OrderInv, TypeOK
  <2> QED
    BY <2>1, ThreadAssumption DEF Worker
<1>2. prev_thread # None => prev_thread \in Worker /\ prev_thread # next_decoding
  BY <1>1, ThreadAssumption DEF OrderInv, TypeOK, TurnInv, Worker
<1>3. /\ threads[next_decoding].pc \in Waiting
      /\ threads[next_decoding] \in ThreadType
      /\ ThreadState(threads[next_decoding])
  BY <1>1 DEF OrderInv, TypeOK, UserInv, StateInv
<1>4. threads[next_decoding].state # "SETTING_UP"
  BY <1>1, <1>2, ThreadAssumption DEF OrderInv, TurnInv, Worker, None
<1> QED
  BY <1>1, <1>2, <1>3, <1>4 DEF ThreadState, ThreadType

\* A packet that is refused leaves its worker's packet and result alone.
LEMMA RefusedShape ==
  ASSUME OrderInv, UpdateFails \/ RefFails, NEW n \in Worker, n = next_decoding
  PROVE  /\ \E q : /\ threads' = [threads EXCEPT ![n] = q] /\ Kept(threads[n], q)
                   /\ prev_thread = None => q.ctx = threads[n].ctx
         /\ stash' \in BOOLEAN
<1>1. user.at = "update" /\ n = next_decoding
  BY DEF UpdateFails, RefFails
<1>2. /\ n \in Worker
      /\ prev_thread # None => prev_thread \in Worker /\ prev_thread # n
      /\ threads[n] \in ThreadType
  BY <1>1, NextDiffers DEF Submitting
<1>3. /\ codec \in Codecs /\ threads \in [Worker -> ThreadType]
      /\ stash \in BOOLEAN
  BY DEF OrderInv, TypeOK
<1>4. CASE UpdateFails
  <2>1. PICK p \in Botched(threads[n], threads[prev_thread]) :
          threads' = [threads EXCEPT ![n] = [p EXCEPT !.ctx = Torn]]
    BY <1>1, <1>4 DEF UpdateFails
  <2>2. prev_thread # None /\ stash' = stash
    BY <1>4 DEF UpdateFails
  <2>3. threads[prev_thread] \in ThreadType
    BY <1>2, <1>3, <2>2
  <2>4. Kept(threads[n], p)
    BY <1>2, <1>3, <2>1, <2>3, UpdateShape, Zenon
  <2>5. p \in ThreadType /\ Torn \in Int
    BY <2>4 DEF Kept, Torn
  <2>6. Kept(p, [p EXCEPT !.ctx = Torn])
    BY <2>5, Keeping, Zenon
  <2>7. Kept(threads[n], [p EXCEPT !.ctx = Torn])
    BY <2>4, <2>6, Zenon DEF Kept
  <2> QED
    BY <1>3, <2>1, <2>2, <2>7, Zenon
<1>5. CASE RefFails
  <2> DEFINE p == Source(n)
  <2>1. Kept(threads[n], p) /\ (prev_thread = None => p.ctx = threads[n].ctx)
    <3>1. CASE prev_thread = None
      BY <1>2, <3>1 DEF Source, Kept
    <3>2. CASE prev_thread # None
      <4>1. threads[prev_thread] \in ThreadType
        BY <1>2, <1>3, <3>2
      <4> QED
        BY <1>2, <1>3, <3>2, <4>1, UpdateShape, Zenon DEF Source
    <3> QED
      BY <3>1, <3>2
  <2>2. /\ p \in ThreadType
    BY <2>1 DEF Kept
  <2>3. p.hw \in BOOLEAN
    BY <2>2 DEF ThreadType
  <2>4. Swap(p).hw \in BOOLEAN /\ Swap(p).stash \in BOOLEAN
    BY <1>3, <2>3 DEF Swap
  <2>5. PICK h \in BOOLEAN : h = Swap(p).hw
    BY <2>4
  <2>6. threads' = [threads EXCEPT ![n] = [p EXCEPT !.hw = h]]
    BY <1>1, <1>5, <2>5, Zenon DEF RefFails
  <2>7. stash' = Swap(p).stash
    BY <1>1, <1>5, Zenon DEF RefFails
  <2> HIDE DEF p
  <2>8. Kept(p, [p EXCEPT !.hw = h]) /\ [p EXCEPT !.hw = h].ctx = p.ctx
    BY <2>2, <2>5 DEF Kept, ThreadType
  <2>9. Kept(threads[n], [p EXCEPT !.hw = h])
    BY <2>1, <2>8, Zenon DEF Kept
  <2> QED
    BY <2>1, <2>4, <2>6, <2>7, <2>8, <2>9, Zenon
<1> QED
  BY <1>4, <1>5

LEMMA OrderRefused ==
  ASSUME OrderInv, UpdateFails \/ RefFails
  PROVE  OrderInv'
<1>1. user.at = "update" /\ Goto("finish")
  BY DEF UpdateFails, RefFails, Return
<1>0. PICK n \in Worker : n = next_decoding
  BY <1>1, NextDiffers DEF Submitting
<1>2. /\ n \in Worker
      /\ prev_thread # None => prev_thread \in Worker /\ prev_thread # n
      /\ threads[n].pc \in Waiting /\ threads[n] \in ThreadType
      /\ ThreadState(threads[n]) /\ threads[n].state = "INPUT_READY"
  BY <1>0, <1>1, NextDiffers DEF Submitting
<1>3. /\ UserType' /\ user'.at = "finish" /\ user'.then = "idle"
  BY <1>1, GotoCalling DEF OrderInv, TypeOK, Calling, Returning
<1>4. /\ codec \in Codecs /\ threads \in [Worker -> ThreadType]
      /\ stash \in BOOLEAN
  BY DEF OrderInv, TypeOK
<1>5. stash' \in BOOLEAN
  BY <1>0, RefusedShape
<1>6. PICK q : /\ threads' = [threads EXCEPT ![n] = q] /\ Kept(threads[n], q)
               /\ prev_thread = None => q.ctx = threads[n].ctx
  BY <1>0, RefusedShape
<1>7. /\ threads' \in [Worker -> ThreadType] /\ threads'[n] = q
      /\ \A k \in Worker \ {n} : threads'[k] = threads[k]
  BY <1>2, <1>4, <1>6, Zenon DEF Kept
<1>8. /\ codec' = codec /\ prev_thread' = prev_thread /\ count' = count
      /\ next_decoding' = next_decoding /\ next_finished' = next_finished
      /\ delaying' = delaying /\ async_lock' = async_lock /\ draining' = draining
  BY DEF UpdateFails, RefFails, fctx
<1>9. TypeOK'
  <2>1. next_decoding # N
    BY <1>1 DEF OrderInv, TypeOK, Collecting
  <2> QED
    BY <1>3, <1>5, <1>7, <1>8, <2>1 DEF OrderInv, TypeOK
<1>10. UserInv'
  BY <1>3 DEF UserInv, Submitting, Parking, Returning
<1>11. TouchesOne(n)
  <2>1. ThreadState(threads[n])'
    BY <1>2, <1>6, <1>7, <1>8 DEF ThreadState, Kept
  <2>2. ~Dying /\ ~threads[n].die
    BY <1>1, <1>2 DEF Dying, OrderInv, DieInv
  <2> QED
    BY <1>2, <1>6, <1>7, <1>8, <2>1, <2>2 DEF TouchesOne, Kept
<1> QED
  BY <1>2, <1>8, <1>9, <1>10, <1>11, OrderByOne

LEMMA Wrap ==
  ASSUME NEW d \in 0 .. N
  PROVE  d % N = IF d = N THEN 0 ELSE d
<1>1. N \in Nat /\ N > 0 /\ d \in Int
  BY ThreadAssumption
<1>2. CASE d = N
  <2>1. N % N = 0
    BY <1>1
  <2> QED
    BY <1>2, <2>1
<1>3. CASE d # N
  <2>1. 0 <= d /\ d < N
    BY <1>1, <1>3
  <2>2. d % N = d
    BY <1>1, <2>1
  <2> QED
    BY <1>3, <2>2
<1> QED
  BY <1>2, <1>3

LEMMA WrapNext ==
  ASSUME NEW d \in Worker
  PROVE  (d + 1) % N \in Worker
<1>1. d + 1 \in 0 .. N /\ 0 \in Worker
  BY ThreadAssumption DEF Worker
<1> QED
  BY <1>1, Wrap, ThreadAssumption DEF Worker

LEMMA OrderCollect ==
  ASSUME OrderInv, Collect
  PROVE  OrderInv'
<1>1. user.at = "collect" /\ Oldest.state = "INPUT_READY"
  BY DEF Collect, CollectThen
<1>2. user \in [at : Calling \cup Returning, size : BOOLEAN, finished : Worker,
                then : {"idle"}]
  BY <1>1 DEF OrderInv, TypeOK, UserType, Calling, Parking, Returning
<1>0. PICK n \in Worker : n = user.finished
  BY <1>2
<1>3. /\ threads[n].state = "INPUT_READY" /\ threads \in [Worker -> ThreadType]
      /\ threads[n] \in ThreadType /\ ThreadState(threads[n])
  BY <1>0, <1>1 DEF OrderInv, TypeOK, StateInv, Oldest
<1>4. /\ threads' = [threads EXCEPT ![n].job = 0, ![n].result = "none"]
      /\ codec' = codec /\ prev_thread' = prev_thread /\ count' = count
      /\ delaying' = delaying /\ stash' = stash /\ async_lock' = async_lock
      /\ draining' = draining
  BY <1>0, Zenon DEF Collect, CollectThen
<1>5. /\ threads' \in [Worker -> ThreadType]
      /\ \A k \in Worker \ {n} : threads'[k] = threads[k]
      /\ threads'[n].pc = threads[n].pc /\ threads'[n].back = threads[n].back
      /\ threads'[n].die = threads[n].die /\ threads'[n].state = threads[n].state
      /\ threads'[n].ctx = threads[n].ctx
  BY <1>3, <1>4 DEF ThreadType
<1>6. \/ /\ user' = [user EXCEPT !.finished = Following]
         /\ next_finished' = next_finished /\ next_decoding' = next_decoding
      \/ /\ next_finished' = Following /\ Goto("finish")
         /\ next_decoding' = next_decoding % N
  BY Zenon DEF Collect, CollectThen, Return
<1>7. Following \in Worker
  BY <1>0, WrapNext DEF Following
<1>8. next_decoding % N = IF next_decoding = N THEN 0 ELSE next_decoding
  BY Wrap DEF OrderInv, TypeOK
<1>9. /\ UserType' /\ user'.at \in {"collect", "finish"} /\ user'.then = "idle"
      /\ user'.at = "finish" => next_decoding' = next_decoding % N
      /\ user'.at = "collect" => next_decoding' = next_decoding
      /\ next_finished' \in Worker
  <2>1. CASE /\ user' = [user EXCEPT !.finished = Following]
             /\ next_finished' = next_finished /\ next_decoding' = next_decoding
    BY <1>1, <1>2, <1>7, <2>1 DEF UserType, OrderInv, TypeOK
  <2>2. CASE /\ next_finished' = Following /\ Goto("finish")
             /\ next_decoding' = next_decoding % N
    <3>1. UserType' /\ user'.at = "finish" /\ user'.then = "idle"
      BY <1>1, <2>2, GotoCalling DEF OrderInv, TypeOK, Calling, Returning
    <3> QED
      BY <1>7, <2>2, <3>1
  <2> QED
    BY <1>6, <2>1, <2>2
<1>10. TypeOK'
  <2>1. 0 # N /\ 0 \in 0 .. N
    BY ThreadAssumption
  <2>2. /\ next_decoding' \in 0 .. N
        /\ next_decoding' = N => user'.at \in Collecting
    BY <1>8, <1>9, <2>1 DEF OrderInv, TypeOK, Collecting
  <2> QED
    BY <1>4, <1>5, <1>9, <2>2 DEF OrderInv, TypeOK
<1>11. UserInv'
  BY <1>9 DEF UserInv, Submitting, Parking, Returning
<1>12. TouchesOne(n)
  <2>1. ThreadState(threads[n])'
    BY <1>3, <1>4, <1>5 DEF ThreadState
  <2>2. ~Dying /\ ~threads[n].die
    BY <1>1, <1>3 DEF Dying, OrderInv, DieInv
  <2>3. threads[n].pc \in Waiting
    BY <1>1, <1>3 DEF ThreadState
  <2> QED
    BY <1>3, <1>4, <1>5, <2>1, <2>2, <2>3 DEF TouchesOne
<1> QED
  BY <1>3, <1>8, <1>9, <1>10, <1>11, <1>12, OrderByOne

LEMMA OrderPark ==
  ASSUME OrderInv, Park
  PROVE  OrderInv'
<1>1. user.at = "park"
  BY DEF Park
<1>2. user \in [at : Parking \cup Returning, finished : 0 .. N, then : {"flush", "kill"}]
  BY <1>1 DEF OrderInv, TypeOK, UserType, Calling, Parking, Returning
<1>0. PICK n \in 0 .. N : n = user.finished
  BY <1>2
<1>3. /\ threads \in [Worker -> ThreadType] /\ next_decoding # N
      /\ \A k \in Worker : k < n => threads[k].state = "INPUT_READY"
  BY <1>0, <1>1, <1>2 DEF OrderInv, TypeOK, UserInv, Parking, Collecting
<1>4. /\ codec' = codec /\ prev_thread' = prev_thread /\ count' = count
      /\ delaying' = delaying /\ stash' = stash /\ async_lock' = async_lock
      /\ draining' = draining /\ next_decoding' = next_decoding
      /\ next_finished' = next_finished
  BY DEF Park, fctx, client
<1>5. CASE n = N
  <2>1. Goto("finish") /\ threads' = threads
    BY <1>0, <1>5, Zenon DEF Park
  <2>2. UserType' /\ user'.at = "finish"
    BY <1>1, <2>1, GotoParking DEF OrderInv, TypeOK, Parking, Returning
  <2>3. AllReady
    BY <1>3, <1>5, ThreadAssumption DEF AllReady, Worker
  <2>4. UserInv'
    BY <2>1, <2>2, <2>3 DEF UserInv, AllReady, Submitting, Parking, Returning
  <2>5. \A k \in Worker : Woken(threads[k], threads[k])
    BY DEF Woken
  <2>6. UserMove
    BY <1>1, <1>3, <1>4, <2>1, <2>2, <2>5 DEF UserMove, Dying, OrderInv, TypeOK
  <2> QED
    BY <2>4, <2>6, OrderByUser
<1>6. CASE n # N
  <2>1. n \in Worker
    BY <1>6, ThreadAssumption DEF Worker
  <2>2. /\ threads[n].state = "INPUT_READY"
        /\ threads' = [threads EXCEPT ![n].result = IF @ = "frame" THEN "none" ELSE @]
        /\ user' = [user EXCEPT !.finished = @ + 1]
    BY <1>0, <1>6, Zenon DEF Park
  <2>3. threads[n] \in ThreadType /\ ThreadState(threads[n])
    BY <1>3, <2>1 DEF OrderInv, StateInv
  <2>4. PICK r \in {"none", "frame", "error"} : threads' = [threads EXCEPT ![n].result = r]
    <3>1. threads[n].result \in {"none", "frame", "error"}
      BY <2>3 DEF ThreadType
    <3> QED
      BY <2>2, <3>1, Zenon
  <2>5. /\ threads' \in [Worker -> ThreadType]
        /\ \A k \in Worker \ {n} : threads'[k] = threads[k]
        /\ threads'[n].pc = threads[n].pc /\ threads'[n].back = threads[n].back
        /\ threads'[n].die = threads[n].die /\ threads'[n].state = threads[n].state
        /\ threads'[n].ctx = threads[n].ctx
    BY <1>3, <2>1, <2>3, <2>4 DEF ThreadType
  <2>6. n + 1 \in 0 .. N
    BY <2>1, ThreadAssumption DEF Worker
  <2>7. UserType' /\ user'.at = "park" /\ user'.finished = n + 1
    BY <1>0, <1>1, <1>2, <2>2, <2>6 DEF UserType
  <2>8. UserInv'
    <3>1. ASSUME NEW k \in Worker, k < n + 1 PROVE threads'[k].state = "INPUT_READY"
      <4>1. k < n \/ k = n
        BY <2>1, <3>1, ThreadAssumption DEF Worker
      <4> QED
        BY <1>3, <2>2, <2>5, <4>1
    <3> QED
      BY <2>7, <3>1 DEF UserInv, Submitting, Parking, Returning
  <2>9. TypeOK'
    BY <1>3, <1>4, <2>5, <2>7 DEF OrderInv, TypeOK
  <2>10. TouchesOne(n)
    <3>1. ThreadState(threads[n])'
      BY <1>4, <2>3, <2>5 DEF ThreadState
    <3>2. ~Dying /\ ~threads[n].die
      BY <1>1, <2>1 DEF Dying, OrderInv, DieInv
    <3>3. threads[n].pc \in Waiting
      BY <2>2, <2>3 DEF ThreadState
    <3> QED
      BY <1>4, <2>2, <2>5, <3>1, <3>2, <3>3 DEF TouchesOne
  <2> QED
    BY <1>4, <2>1, <2>8, <2>9, <2>10, OrderByOne
<1> QED
  BY <1>5, <1>6

LEMMA OrderDying ==
  ASSUME OrderInv, Kill \/ Join
  PROVE  OrderInv'
<1>1. /\ user.at \in {"kill", "join"} /\ AllReady
      /\ user \in [at : {"kill"}, finished : 0 .. N]
           \/ user \in [at : {"join"}, finished : Worker]
  BY DEF Kill, Join, OrderInv, TypeOK, UserInv, UserType, Calling, Parking, Returning
<1>2. threads \in [Worker -> ThreadType] /\ next_decoding # N
  BY <1>1 DEF OrderInv, TypeOK, Collecting
<1>3. /\ codec' = codec /\ prev_thread' = prev_thread /\ count' = count
      /\ delaying' = delaying /\ stash' = stash /\ async_lock' = async_lock
      /\ draining' = draining /\ next_decoding' = next_decoding
      /\ next_finished' = next_finished
  BY DEF Kill, Join, fctx, client
<1>4. PICK n \in Worker :
        /\ user.finished = n /\ threads[n].pc \in Waiting
        /\ \/ user.at = "kill" /\ Kill
           \/ user.at = "join" /\ threads[n].pc = "exit" /\ Join
  <2>1. CASE Kill
    <3>1. user.finished \in Worker
      BY <1>1, <2>1, ThreadAssumption DEF Kill, Worker
    <3>2. threads[user.finished].pc \in Waiting
      BY <2>1 DEF Kill, WorkerHolds, Waiting
    <3> QED
      BY <2>1, <3>1, <3>2 DEF Kill
  <2>2. CASE Join
    <3>1. user.finished \in Worker
      BY <1>1, <2>2 DEF Join
    <3> QED
      BY <2>2, <3>1 DEF Join, Waiting
  <2> QED
    BY <2>1, <2>2
<1>5. threads[n] \in ThreadType /\ ThreadState(threads[n]) /\ threads[n].state = "INPUT_READY"
  BY <1>1, <1>2 DEF OrderInv, StateInv, AllReady
<1>6. /\ threads' \in [Worker -> ThreadType]
      /\ \A k \in Worker \ {n} : threads'[k] = threads[k]
      /\ \/ threads'[n].pc = threads[n].pc
         \/ threads[n].pc = "asleep" /\ threads'[n].pc = "lock"
      /\ threads[n].die => threads'[n].die
      /\ threads'[n].back = threads[n].back
      /\ threads'[n].state = threads[n].state
      /\ threads'[n].ctx = threads[n].ctx
  <2> USE DEF ThreadType, Place, Waiting, Finishing, Decoding, Ending
  <2>1. CASE Kill
    <3>1. threads' = [threads EXCEPT ![n].die = TRUE,
                                     ![n].pc = IF @ = "asleep" THEN "lock" ELSE @]
      BY <1>4, <2>1, Zenon DEF Kill
    <3>2. threads' \in [Worker -> ThreadType]
      BY <1>2, <1>5, <3>1
    <3>3. \A k \in Worker \ {n} : threads'[k] = threads[k]
      BY <1>2, <3>1
    <3>4. /\ threads'[n].pc = IF threads[n].pc = "asleep" THEN "lock" ELSE threads[n].pc
          /\ threads'[n].die = TRUE
          /\ threads'[n].back = threads[n].back
          /\ threads'[n].state = threads[n].state
          /\ threads'[n].ctx = threads[n].ctx
      BY <1>2, <1>5, <3>1
    <3> QED
      BY <3>2, <3>3, <3>4, Zenon
  <2>2. CASE Join
    <3>1. threads' = [threads EXCEPT ![n].hw = FALSE]
      BY <1>4, <2>2, Zenon DEF Join
    <3>2. threads' \in [Worker -> ThreadType]
      BY <1>2, <1>5, <3>1
    <3>3. \A k \in Worker \ {n} : threads'[k] = threads[k]
      BY <1>2, <3>1
    <3>4. /\ threads'[n].pc = threads[n].pc
          /\ threads'[n].die = threads[n].die
          /\ threads'[n].back = threads[n].back
          /\ threads'[n].state = threads[n].state
          /\ threads'[n].ctx = threads[n].ctx
      BY <1>2, <1>5, <3>1
    <3> QED
      BY <3>2, <3>3, <3>4, Zenon
  <2> QED
    BY <1>4, <2>1, <2>2
<1>7. UserType' /\ user'.at \in {"kill", "join"}
  <2>1. CASE Kill
    <3>1. user \in [at : {"kill"}, finished : 0 .. N] /\ user.finished \in Worker
      BY <1>1, <1>4, <2>1 DEF Kill
    <3>2. user' = [user EXCEPT !.at = "join"]
      BY <2>1 DEF Kill, Goto
    <3>3. user' \in [at : {"join"}, finished : Worker]
      BY <3>1, <3>2
    <3> QED
      BY <3>3 DEF UserType
  <2>2. CASE Join
    <3>1. user.finished + 1 \in 0 .. N
      BY <1>4, ThreadAssumption DEF Worker
    <3> QED
      BY <1>1, <2>2, <3>1 DEF Join, UserType
  <2> QED
    BY <2>1, <2>2
<1>8. UserInv'
  <2>1. AllReady'
    BY <1>1, <1>6 DEF AllReady
  <2> QED
    BY <1>7, <2>1 DEF UserInv, Submitting, Parking, Returning
<1>9. TypeOK'
  BY <1>2, <1>3, <1>6, <1>7 DEF OrderInv, TypeOK
<1>10. TouchesOne(n)
  <2>1. ThreadState(threads[n])'
    BY <1>3, <1>5, <1>6 DEF ThreadState, Waiting, Finishing, Ending
  <2> QED
    BY <1>3, <1>4, <1>5, <1>6, <1>7, <2>1 DEF TouchesOne, Dying
<1> QED
  BY <1>3, <1>8, <1>9, <1>10, OrderByOne

\* A packet that is accepted is its worker's, and no setup before it is
\* running; the call returns when there are fewer packets than threads.
LEMMA HandOverShape ==
  ASSUME OrderInv, HandOver, NEW n \in Worker, n = next_decoding
  PROVE  /\ \E q \in ThreadType :
              /\ threads' = [threads EXCEPT ![n] = q]
              /\ q.pc = "lock" /\ q.die = threads[n].die /\ q.state = "SETTING_UP"
              /\ q.job = count + 1 /\ ~q.decoding /\ (codec.update => q.ctx \in {count, Forgot})
         /\ stash' \in BOOLEAN /\ prev_thread' = n /\ count' = count + 1
         /\ Submitted(n + 1)
         /\ codec' = codec /\ next_finished' = next_finished /\ async_lock' = async_lock
         /\ draining' = draining
         /\ next_decoding' = n + 1 /\ delaying' \in BOOLEAN
         /\ \/ Goto("finish") /\ n + 1 # N
            \/ Goto("collect")
<1>1. user.at = "update"
  BY DEF HandOver
<1>2. n = next_decoding
  OBVIOUS
<1>3. /\ prev_thread # None => prev_thread \in Worker /\ prev_thread # n
      /\ threads[n].pc \in Waiting /\ threads[n] \in ThreadType
      /\ ThreadState(threads[n]) /\ threads[n].state = "INPUT_READY"
  BY <1>1, <1>2, NextDiffers DEF Submitting
<1>4. ~threads[n].die /\ threads[n].pc \in {"lock", "asleep"}
  BY <1>1, <1>3 DEF OrderInv, DieInv, Dying, ThreadState, Waiting
<1>5. /\ codec \in Codecs /\ threads \in [Worker -> ThreadType]
      /\ stash \in BOOLEAN /\ count \in Nat /\ delaying \in BOOLEAN
  BY DEF OrderInv, TypeOK
\* The context of the worker before, or for the first packet its own.
<1>6. PICK p \in ThreadType :
        p = Source(n) /\ Kept(threads[n], p)
          /\ (codec.update => p.ctx \in {count, Forgot})
  <2>1. CASE prev_thread = None
    <3>1. n = 0
      BY <1>2, <2>1 DEF OrderInv, TurnInv
    <3> QED
      BY <1>3, <2>1, <3>1 DEF Source, Kept, OrderInv, LastInv
  <2>2. CASE prev_thread # None
    <3>1. threads[prev_thread] \in ThreadType
      BY <1>3, <1>5, <2>2
    <3>2. /\ Kept(threads[n], Updated(threads[n], threads[prev_thread]))
          /\ codec.update => Updated(threads[n], threads[prev_thread]).ctx
                               = threads[prev_thread].ctx
      BY <1>3, <1>5, <3>1, UpdateShape, Zenon
    <3>3. codec.update => threads[prev_thread].ctx = count
      BY <1>1, <2>2 DEF OrderInv, UserInv, LastInv
    <3>4. Source(n) = Updated(threads[n], threads[prev_thread])
      BY <2>2 DEF Source
    <3> QED
      BY <3>2, <3>3, <3>4, Zenon DEF Kept
  <2> QED
    BY <2>1, <2>2
<1>7. PICK h \in BOOLEAN : h = Swap(p).hw
  <2>1. p.hw \in BOOLEAN
    BY <1>6 DEF ThreadType
  <2> QED
    BY <1>5, <2>1 DEF Swap
<1>8. /\ threads' = [threads EXCEPT ![n] =
                       [p EXCEPT !.hw = h, !.state = "SETTING_UP", !.job = count + 1,
                                 !.decoding = FALSE,
                                 !.pc = IF @ = "asleep" THEN "lock" ELSE @]]
      /\ stash' = Swap(p).stash /\ prev_thread' = n /\ count' = count + 1
      /\ Submitted(n + 1)
      /\ codec' = codec /\ next_finished' = next_finished /\ async_lock' = async_lock
      /\ draining' = draining
  BY <1>2, <1>6, <1>7, Zenon DEF HandOver
<1>9. stash' \in BOOLEAN
  <2>1. p.hw \in BOOLEAN
    BY <1>6 DEF ThreadType
  <2> QED
    BY <1>5, <1>8, <2>1 DEF Swap
<1>10. p.pc = threads[n].pc /\ p.die = threads[n].die /\ p.ctx \in Int /\ count + 1 \in Nat
  BY <1>5, <1>6 DEF Kept, ThreadType
<1>11. PICK q \in ThreadType :
         /\ threads' = [threads EXCEPT ![n] = q]
         /\ q.pc = "lock" /\ q.die = threads[n].die /\ q.state = "SETTING_UP"
         /\ q.job = count + 1 /\ q.ctx = p.ctx /\ ~q.decoding
  <2>1. PICK c \in Nat : c = count + 1
    BY <1>10
  <2> DEFINE q == [p EXCEPT !.hw = h, !.state = "SETTING_UP", !.job = c,
                            !.decoding = FALSE, !.pc = "lock"]
  <2>2. p.pc \in {"lock", "asleep"} /\ h \in BOOLEAN /\ p \in ThreadType /\ c \in Nat
    BY <1>4, <1>6, <1>7, <1>10, <2>1
  <2>3. /\ q \in ThreadType /\ q.pc = "lock" /\ q.die = p.die /\ q.state = "SETTING_UP"
        /\ q.job = c /\ q.ctx = p.ctx /\ ~q.decoding
    BY <2>2 DEF ThreadType, Place, Waiting
  <2>4. threads' = [threads EXCEPT ![n] = q]
    BY <1>8, <2>1, <2>2, Zenon
  <2> QED
    BY <1>10, <2>1, <2>3, <2>4, Zenon
<1>13. /\ next_decoding' = n + 1 /\ delaying' \in BOOLEAN
       /\ \/ Goto("finish") /\ n + 1 # N
          \/ Goto("collect")
  <2>1. PICK last \in {N - 2, N - 1} : delaying' = (delaying /\ n + 1 <= last)
    BY <1>8, Zenon DEF Submitted
  <2>2. delaying' => n + 1 # N
    <3>1. last = N - 2 \/ last = N - 1
      BY <2>1
    <3>2. n + 1 = N => ~(n + 1 <= last)
      BY <3>1, ThreadAssumption
    <3> QED
      BY <2>1, <3>2, Zenon
  <2>3. (delaying /\ n + 1 <= last) \in BOOLEAN
    OBVIOUS
  <2> QED
    BY <1>8, <2>1, <2>2, <2>3, Zenon DEF Submitted, Return
<1> QED
  BY <1>6, <1>8, <1>9, <1>11, <1>13

LEMMA OrderHandOver ==
  ASSUME OrderInv, HandOver
  PROVE  OrderInv'
<1>1. user.at = "update"
  BY DEF HandOver
<1>2. PICK n \in Worker : n = next_decoding
  BY <1>1, NextDiffers DEF Submitting
<1>3. /\ threads[n].pc \in Waiting /\ threads[n] \in ThreadType
      /\ ThreadState(threads[n])
  BY <1>1, <1>2, NextDiffers DEF Submitting
<1>4. ~threads[n].die
  BY <1>1, <1>3 DEF OrderInv, DieInv, Dying
<1>5. threads \in [Worker -> ThreadType] /\ count \in Nat
  BY DEF OrderInv, TypeOK
<1>6. PICK q \in ThreadType :
        /\ threads' = [threads EXCEPT ![n] = q]
        /\ q.pc = "lock" /\ q.die = threads[n].die /\ q.state = "SETTING_UP"
        /\ q.job = count + 1 /\ (codec.update => q.ctx \in {count, Forgot})
  BY <1>2, HandOverShape
<1>7. /\ stash' \in BOOLEAN /\ prev_thread' = n /\ count' = count + 1
      /\ codec' = codec /\ next_finished' = next_finished /\ async_lock' = async_lock
      /\ draining' = draining
      /\ next_decoding' = n + 1 /\ delaying' \in BOOLEAN
      /\ \/ Goto("finish") /\ n + 1 # N
         \/ Goto("collect")
  BY <1>2, HandOverShape
<1>8. /\ threads' \in [Worker -> ThreadType] /\ threads'[n] = q
      /\ \A k \in Worker \ {n} : threads'[k] = threads[k]
  BY <1>5, <1>6, Zenon
<1>9. /\ UserType' /\ user'.at \in {"collect", "finish"} /\ user'.then = "idle"
      /\ n + 1 = N => user'.at = "collect"
  BY <1>1, <1>7, GotoCalling DEF OrderInv, TypeOK, Calling, Returning
<1>10. TypeOK'
  <2>1. n + 1 \in 0 .. N /\ count + 1 \in Nat
    BY <1>5, ThreadAssumption DEF Worker
  <2>2. draining \in BOOLEAN /\ async_lock \in BOOLEAN /\ next_finished \in Worker
    BY Zenon DEF OrderInv, TypeOK
  <2>3. codec \in Codecs
    BY DEF OrderInv, TypeOK
  <2> QED
    BY <1>7, <1>8, <1>9, <2>1, <2>2, <2>3 DEF TypeOK, Collecting
<1>11. StateInv'
  <2>1. ASSUME NEW k \in Worker \ {n} PROVE ThreadState(threads[k])'
    BY <1>7, <1>8 DEF OrderInv, StateInv, ThreadState
  <2>2. ThreadState(threads[n])'
    BY <1>4, <1>6, <1>8 DEF ThreadState, Waiting, Finishing, Ending
  <2> QED
    BY <2>1, <2>2 DEF StateInv
<1>12. UserInv'
  BY <1>9 DEF UserInv, Submitting, Parking, Returning
<1>13. DieInv'
  BY <1>1, <1>4, <1>6, <1>8 DEF OrderInv, DieInv, Dying
<1>14. \A k \in Worker \ {n} : threads'[k].state # "SETTING_UP"
  BY <1>1, <1>8, ThreadAssumption DEF OrderInv, TurnInv, UserInv, Worker, None
<1>15. TurnInv'
  BY <1>6, <1>7, <1>8, <1>14, ThreadAssumption DEF TurnInv, Worker, None
<1>16. LastInv'
  BY <1>6, <1>7, <1>8, ThreadAssumption DEF LastInv, Worker, None
<1>17. ContextInOrder'
  BY <1>5, <1>6, <1>7, <1>8, <1>14 DEF ContextInOrder
<1> QED
  BY <1>10, <1>11, <1>12, <1>13, <1>15, <1>16, <1>17 DEF OrderInv

\* A flush copies the last packet's context to thread 0, or forgets it.
LEMMA FlushedFirst ==
  ASSUME OrderInv, Flush
  PROVE  \E p \in ThreadType :
           /\ p.pc = threads[0].pc /\ p.back = threads[0].back
           /\ p.die = threads[0].die /\ p.state = threads[0].state
           /\ p.decoding = threads[0].decoding
           /\ codec.update => p.ctx \in {count, Forgot}
           /\ threads' = [i \in Worker |-> [(IF i = 0 THEN p ELSE threads[i])
                                              EXCEPT !.job = 0, !.result = "none"]]
<1>1. user.at = "flush" /\ AllReady /\ 0 \in Worker
  <2>1. user.at = "flush"
    BY Zenon DEF Flush
  <2> QED
    BY <2>1, ThreadAssumption DEF OrderInv, UserInv, Worker
<1>2. codec \in Codecs /\ threads[0] \in ThreadType
  BY <1>1 DEF OrderInv, TypeOK
<1>3. CASE prev_thread \in {None, 0}
  <2>1. threads' = [i \in Worker |-> [(IF i = 0 THEN threads[0] ELSE threads[i])
                                        EXCEPT !.job = 0, !.result = "none"]]
    BY <1>3, Zenon DEF Flush
  <2>2. codec.update => threads[0].ctx \in {count, Forgot}
    BY <1>1, <1>3, ThreadAssumption DEF OrderInv, LastInv, AllReady, None
  <2> QED
    BY <1>2, <2>1, <2>2, Zenon
<1>4. CASE prev_thread \notin {None, 0}
  <2>1. threads[prev_thread] \in ThreadType
    BY <1>4 DEF OrderInv, TypeOK
  <2>2. codec.update => threads[prev_thread].ctx = count
    BY <1>1, <1>4 DEF OrderInv, TypeOK, LastInv, AllReady
  <2>3. PICK p \in {Updated(threads[0], threads[prev_thread])} \cup
                   {[q EXCEPT !.ctx = Forgot] : q \in Botched(threads[0], threads[prev_thread])} :
          threads' = [i \in Worker |-> [(IF i = 0 THEN p ELSE threads[i])
                                          EXCEPT !.job = 0, !.result = "none"]]
    BY <1>4, Zenon DEF Flush
  <2>4. CASE p = Updated(threads[0], threads[prev_thread])
    <3>1. Kept(threads[0], p) /\ (codec.update => p.ctx = threads[prev_thread].ctx)
      BY <1>2, <2>1, <2>4, UpdateShape, Zenon
    <3> QED
      BY <2>2, <2>3, <3>1, Zenon DEF Kept
  <2>5. ASSUME NEW q \in Botched(threads[0], threads[prev_thread]),
               p = [q EXCEPT !.ctx = Forgot]
        PROVE  Kept(threads[0], p) /\ p.ctx = Forgot
    <3>1. Kept(threads[0], q)
      BY <1>2, <2>1, <2>5, UpdateShape, Zenon
    <3>2. q \in ThreadType /\ Forgot \in Int
      BY <3>1 DEF Kept, Forgot
    <3>3. Kept(q, p) /\ p.ctx = Forgot
      BY <2>5, <3>2, Keeping, Zenon
    <3> QED
      BY <3>1, <3>3, Zenon DEF Kept
  <2> QED
    BY <2>3, <2>4, <2>5, Zenon DEF Kept
<1> QED
  BY <1>3, <1>4

LEMMA OrderFlush ==
  ASSUME OrderInv, Flush
  PROVE  OrderInv'
<1>1. user.at = "flush" /\ AllReady /\ 0 \in Worker
  <2>1. user.at = "flush"
    BY Zenon DEF Flush
  <2> QED
    BY <2>1, ThreadAssumption DEF OrderInv, UserInv, Worker
<1>2. threads \in [Worker -> ThreadType]
  BY DEF OrderInv, TypeOK
<1>3. PICK p \in ThreadType :
        /\ p.pc = threads[0].pc /\ p.back = threads[0].back
        /\ p.die = threads[0].die /\ p.state = threads[0].state
        /\ codec.update => p.ctx \in {count, Forgot}
        /\ threads' = [i \in Worker |-> [(IF i = 0 THEN p ELSE threads[i])
                                           EXCEPT !.job = 0, !.result = "none"]]
  BY FlushedFirst
<1>4. /\ codec' = codec /\ count' = count /\ stash' = stash /\ async_lock' = async_lock
      /\ next_decoding' = 0 /\ next_finished' = 0 /\ delaying' = TRUE
      /\ prev_thread' = None /\ draining' = FALSE /\ user' = [at |-> "idle"]
  BY DEF Flush
<1>5. ASSUME NEW k \in Worker, NEW q \in ThreadType,
             q.pc = threads[k].pc /\ q.back = threads[k].back
               /\ q.die = threads[k].die /\ q.state = threads[k].state,
             threads'[k] = [q EXCEPT !.job = 0, !.result = "none"]
      PROVE  /\ threads'[k] \in ThreadType /\ threads'[k].pc = threads[k].pc
             /\ threads'[k].back = threads[k].back /\ threads'[k].die = threads[k].die
             /\ threads'[k].state = threads[k].state /\ threads'[k].ctx = q.ctx
  <2> DEFINE r == [q EXCEPT !.job = 0, !.result = "none"]
  <2>1. /\ r \in ThreadType /\ r.pc = q.pc /\ r.back = q.back /\ r.die = q.die
        /\ r.state = q.state /\ r.ctx = q.ctx
    BY DEF ThreadType
  <2> QED
    BY <1>5, <2>1, Zenon
<1>6. ASSUME NEW k \in Worker
      PROVE  /\ threads'[k] \in ThreadType /\ threads'[k].pc = threads[k].pc
             /\ threads'[k].back = threads[k].back /\ threads'[k].die = threads[k].die
             /\ threads'[k].state = threads[k].state
             /\ k = 0 => threads'[k].ctx = p.ctx
  <2>1. CASE k = 0
    <3>1. threads'[k] = [p EXCEPT !.job = 0, !.result = "none"]
      BY <1>3, <2>1, Zenon
    <3> QED
      BY ZenonT(40), <1>3, <1>5, <2>1, <3>1
  <2>2. CASE k # 0
    <3>1. threads'[k] = [threads[k] EXCEPT !.job = 0, !.result = "none"]
      BY <1>3, <2>2, Zenon
    <3> QED
      BY <1>2, <1>5, <2>2, <3>1, Zenon
  <2> QED
    BY <2>1, <2>2
<1>7. TypeOK'
  <2>1. threads' \in [Worker -> ThreadType]
    <3>1. threads' = [i \in Worker |-> threads'[i]]
      BY <1>3, Zenon
    <3> QED
      BY <1>6, <3>1, Zenon
  <2>2. 0 \in 0 .. N /\ 0 # N
    BY ThreadAssumption
  <2>3. UserType'
    BY <1>4 DEF UserType
  <2> QED
    BY <1>1, <1>4, <2>1, <2>2, <2>3 DEF OrderInv, TypeOK
<1>8. StateInv'
  BY <1>4, <1>6 DEF OrderInv, StateInv, ThreadState
<1>9. UserInv'
  BY <1>4 DEF UserInv, Submitting, Parking, Returning
<1>10. DieInv'
  BY <1>1, <1>6 DEF OrderInv, DieInv, Dying
<1>11. \A k \in Worker : threads'[k].state # "SETTING_UP"
  BY <1>1, <1>6 DEF AllReady
<1>12. TurnInv' /\ ContextInOrder'
  BY <1>4, <1>11 DEF TurnInv, ContextInOrder
<1>13. LastInv'
  BY <1>1, <1>3, <1>4, <1>6 DEF LastInv
<1> QED
  BY <1>7, <1>8, <1>9, <1>10, <1>12, <1>13 DEF OrderInv

LEMMA OrderInit == Init => OrderInv
<1> SUFFICES ASSUME Init PROVE OrderInv
  OBVIOUS
<1>1. 0 \in Worker /\ 0 \in 0 .. N /\ 0 # N
  BY ThreadAssumption DEF Worker
<1>2. \A i \in Worker : threads[i] = Thread
  BY DEF Init
<1>3. Thread \in ThreadType
  BY DEF Thread, ThreadType, Place, Waiting
<1>4. threads \in [Worker -> ThreadType]
  BY <1>3, Zenon DEF Init
<1>5. TypeOK
  BY <1>1, <1>4 DEF Init, TypeOK, UserType
<1>6. StateInv
  <2>1. ThreadState(Thread)
    BY DEF ThreadState, Thread, Waiting, Finishing, Ending
  <2> QED
    BY <1>2, <2>1, Zenon DEF StateInv
<1>7. UserInv
  BY DEF Init, UserInv, Submitting, Parking, Returning
<1>8. DieInv /\ TurnInv /\ ContextInOrder
  BY <1>2 DEF Init, DieInv, TurnInv, ContextInOrder, Thread
<1>9. LastInv
  BY <1>1, <1>2 DEF Init, LastInv, Thread
<1> QED
  BY <1>5, <1>6, <1>7, <1>8, <1>9 DEF OrderInv

LEMMA OrderStep == OrderInv /\ [Next]_vars => OrderInv'
<1> SUFFICES ASSUME OrderInv, [Next]_vars PROVE OrderInv'
  OBVIOUS
<1>1. CASE Call
  BY <1>1, OrderUserStep DEF Call
<1>2. CASE UserStep
  BY <1>2, OrderUserStep, OrderRefused, OrderHandOver, OrderCollect, OrderPark,
     OrderFlush, OrderDying DEF UserStep
<1>3. ASSUME NEW i \in Worker, WorkerStep(i) PROVE OrderInv'
  BY <1>3, OrderWorkerStep, OrderByWorker
<1>4. CASE Gone \/ UNCHANGED vars
  BY <1>4, OrderUserStep DEF Gone
<1> QED
  BY <1>1, <1>2, <1>3, <1>4 DEF Next

-----------------------------------------------------------------------------
\* Every variable keeps its type: the locals of the user's thread belong to
\* the place it is at, and next_decoding is past the last thread only between
\* a submission and the collection that follows it.
THEOREM FrameThreadTypeCorrect == Spec => []TypeOK
<1>1. Init => OrderInv
  BY OrderInit
<1>2. OrderInv /\ [Next]_vars => OrderInv'
  BY OrderStep
<1>3. OrderInv => TypeOK
  BY DEF OrderInv
<1> QED
  BY <1>1, <1>2, <1>3, PTL DEF Spec

\* submit_packet copies the context of the thread that got the packet before
\* only when that one has finished its setup: with any number of threads and
\* whatever is refused or fails, a packet is decoded from the context the one
\* before it left, or from the one a flush failed to copy.
THEOREM ContextInOrderCorrect == Spec => []ContextInOrder
<1>1. Init => OrderInv
  BY OrderInit
<1>2. OrderInv /\ [Next]_vars => OrderInv'
  BY OrderStep
<1>3. OrderInv => ContextInOrder
  BY DEF OrderInv
<1> QED
  BY <1>1, <1>2, <1>3, PTL DEF Spec

-----------------------------------------------------------------------------
(* Accelerators, for any number of workers and of packets and any set of   *)
(* codecs, as long as av_packet_ref does not fail with an accelerator that *)
(* is not thread-safe.                                                     *)
(*                                                                         *)
(* HwInv says which lock goes with the accelerator of a worker at each     *)
(* place, who holds the async lock, and that the stash is full only        *)
(* between the setups of two packets.                                      *)

\* What a worker's accelerator is, and where it must hold hwaccel_mutex.
HwThread(i) ==
  LET p == threads[i]
  IN  /\ p.hw => codec.hw # "none"
      /\ p.hwaccel_threadsafe => codec.hw = "safe"
      /\ p.hwaccel_serializing =>
           /\ p.pc \in Decoding \cup Finishing \cup {"unlock"}
           /\ codec.hw = "serial" /\ hwaccel_mutex = i
      /\ p.hw /\ codec.hw = "serial" =>
           /\ p.pc \in Decoding \cup {"async", "async asleep", "stash", "unlock"}
                => p.hwaccel_serializing
           /\ p.pc \notin {"async unlock", "ready"}
           /\ p.state # "INPUT_READY"
      /\ p.hw /\ codec.hw = "safe" /\ ~p.hwaccel_threadsafe =>
           /\ p.state = "SETTING_UP"
           /\ p.pc \notin {"async", "async asleep", "stash"}

\* Where a worker must hold the async lock, or wait for it.
AsyncThread(i) ==
  LET p == threads[i]
  IN  /\ p.async_serializing =>
           /\ p.pc \in Decoding \cup {"async", "async asleep", "stash", "unlock",
                                      "async unlock"}
           /\ codec.hw # "none"
           /\ p.pc \in Decoding => p.state = "SETUP_FINISHED"
      /\ p.pc \in {"async", "async asleep"} => p.async_serializing
      /\ /\ p.hw /\ ~codec.async_safe
         /\ p.pc = "stash" \/ (p.pc \in Decoding /\ p.state = "SETUP_FINISHED")
         => p.async_serializing

\* The async lock is held by the user's thread or by one worker.
AsyncOwner(i) ==
  threads[i].async_serializing /\ threads[i].pc \notin {"async", "async asleep"}
UserOwner == user.at \in {"idle", "flush", "kill", "join", "gone"}
OwnerInv ==
  /\ UserOwner => async_lock /\ \A i \in Worker : ~AsyncOwner(i)
  /\ \A i \in Worker : AsyncOwner(i) => async_lock
  /\ \A i, k \in Worker : AsyncOwner(i) /\ AsyncOwner(k) => i = k

StashInv ==
  stash => codec.hw = "serial" /\ \A i \in Worker : threads[i].state # "SETTING_UP"

HwInv == /\ OrderInv
         /\ \A i \in Worker : HwThread(i) /\ AsyncThread(i)
         /\ OwnerInv /\ StashInv

-----------------------------------------------------------------------------
\* A worker that a broadcast wakes stays where the same locks are needed.
LEMMA WokenKeeps ==
  ASSUME NEW k \in Worker, Woken(threads[k], threads'[k]), codec' = codec,
         HwThread(k), AsyncThread(k),
         threads[k].hwaccel_serializing => hwaccel_mutex' = hwaccel_mutex
  PROVE  /\ HwThread(k)' /\ AsyncThread(k)'
         /\ AsyncOwner(k)' <=> AsyncOwner(k)
<1>1. \/ threads'[k].pc = threads[k].pc
      \/ threads[k].pc = "async asleep" /\ threads'[k].pc = "async"
      \/ threads[k].pc = "await" /\ threads'[k].pc = "decode"
  BY DEF Woken
<1>2. /\ threads'[k].hw = threads[k].hw
      /\ threads'[k].hwaccel_threadsafe = threads[k].hwaccel_threadsafe
      /\ threads'[k].hwaccel_serializing = threads[k].hwaccel_serializing
      /\ threads'[k].async_serializing = threads[k].async_serializing
      /\ threads'[k].state = threads[k].state
  BY DEF Woken
<1>3. HwThread(k)'
  BY <1>1, <1>2 DEF HwThread, Decoding, Finishing
<1>4. AsyncThread(k)'
  BY <1>1, <1>2 DEF AsyncThread, Decoding
<1>5. AsyncOwner(k)' <=> AsyncOwner(k)
  BY <1>1, <1>2 DEF AsyncOwner
<1> QED
  BY <1>3, <1>4, <1>5

\* What a step of worker i does to the locks and the stash.
HwMove(i) ==
  /\ HwThread(i)' /\ AsyncThread(i)'
  /\ \/ hwaccel_mutex' = hwaccel_mutex
     \/ hwaccel_mutex = None
     \/ hwaccel_mutex = i
  /\ AsyncOwner(i)' => async_lock' /\ (AsyncOwner(i) \/ ~async_lock)
  /\ async_lock => async_lock' \/ AsyncOwner(i)
  /\ stash' /\ ~stash => /\ codec.hw = "serial" /\ threads[i].state = "SETTING_UP"
                         /\ threads'[i].state # "SETTING_UP"

LEMMA HwByWorker ==
  ASSUME HwInv, NEW i \in Worker, OthersMove(i), OrderMove(i), HwMove(i)
  PROVE  HwInv'
<1>1. OrderInv'
  BY OrderByWorker DEF HwInv
<1>2. ASSUME NEW k \in Worker, k # i
      PROVE  /\ HwThread(k)' /\ AsyncThread(k)'
             /\ AsyncOwner(k)' <=> AsyncOwner(k)
             /\ threads'[k].state = threads[k].state
  <2>1. Woken(threads[k], threads'[k]) /\ codec' = codec
    BY <1>2 DEF OthersMove
  <2>2. HwThread(k) /\ AsyncThread(k)
    BY DEF HwInv
  <2>3. threads[k].hwaccel_serializing => hwaccel_mutex' = hwaccel_mutex
    <3>1. k # None
      BY ThreadAssumption DEF Worker, None
    <3>2. threads[k].hwaccel_serializing => hwaccel_mutex = k
      BY <2>2 DEF HwThread
    <3> QED
      BY <1>2, <3>1, <3>2 DEF HwMove
  <2>4. threads'[k].state = threads[k].state
    BY <2>1 DEF Woken
  <2> QED
    BY <2>1, <2>2, <2>3, <2>4, WokenKeeps
<1>3. \A k \in Worker : HwThread(k)' /\ AsyncThread(k)'
  BY <1>2 DEF HwMove
<1>4. OwnerInv'
  <2>1. UserOwner' => UserOwner
    <3>1. \/ user'.at = user.at
          \/ user'.at \in {"prev", "collect", "park", "finish"}
      BY UserShape DEF HwInv, OrderInv, TypeOK, OthersMove
    <3> QED
      BY <3>1 DEF UserOwner
  <2>2. UserOwner => async_lock /\ \A k \in Worker : ~AsyncOwner(k)
    BY DEF HwInv, OwnerInv
  <2>3. UserOwner' => async_lock' /\ \A k \in Worker : ~AsyncOwner(k)'
    BY <1>2, <2>1, <2>2 DEF HwMove
  <2>4. ASSUME NEW k \in Worker, AsyncOwner(k)' PROVE async_lock'
    <3>1. CASE k = i
      BY <2>4, <3>1 DEF HwMove
    <3>2. CASE k # i
      <4>1. AsyncOwner(k)
        BY <1>2, <2>4, <3>2
      <4>2. async_lock /\ ~AsyncOwner(i)
        BY <3>2, <4>1 DEF HwInv, OwnerInv
      <4> QED
        BY <4>2 DEF HwMove
    <3> QED
      BY <3>1, <3>2
  <2>5. ASSUME NEW k \in Worker, NEW j \in Worker, AsyncOwner(k)', AsyncOwner(j)'
        PROVE  k = j
    <3>1. AsyncOwner(k) \/ (k = i /\ ~async_lock)
      BY <1>2, <2>5 DEF HwMove
    <3>2. AsyncOwner(j) \/ (j = i /\ ~async_lock)
      BY <1>2, <2>5 DEF HwMove
    <3> QED
      BY <3>1, <3>2 DEF HwInv, OwnerInv
  <2> QED
    BY <2>3, <2>4, <2>5 DEF OwnerInv
<1>5. StashInv'
  <2>0. codec' = codec
    BY DEF OthersMove
  <2>1. threads'[i].state = "SETTING_UP" => threads[i].state = "SETTING_UP"
    BY DEF OrderMove
  <2>2. CASE stash' /\ stash
    BY <1>2, <2>0, <2>1, <2>2 DEF HwInv, StashInv
  <2>3. CASE stash' /\ ~stash
    <3>1. /\ codec.hw = "serial" /\ threads[i].state = "SETTING_UP"
          /\ threads'[i].state # "SETTING_UP"
      BY <2>3 DEF HwMove
    <3>2. \A k \in Worker : k # i => threads[k].state # "SETTING_UP"
      BY <3>1 DEF HwInv, OrderInv, TurnInv
    <3> QED
      BY <1>2, <2>0, <3>1, <3>2 DEF StashInv
  <2> QED
    BY <2>2, <2>3 DEF StashInv
<1> QED
  BY <1>1, <1>3, <1>4, <1>5 DEF HwInv

LEMMA HwWorkerStep ==
  ASSUME HwInv, NEW i \in Worker, WorkerStep(i)
  PROVE  OthersMove(i) /\ OrderMove(i) /\ HwMove(i)
<1>a. OthersMove(i) /\ OrderMove(i)
  BY OrderWorkerStep DEF HwInv
<1> SUFFICES HwMove(i)
  BY <1>a
<1>t. /\ threads \in [Worker -> ThreadType] /\ threads[i] \in ThreadType
      /\ threads[i].state \in {"INPUT_READY", "SETTING_UP", "SETUP_FINISHED"}
  <2>1. threads \in [Worker -> ThreadType] /\ threads[i] \in ThreadType
    BY DEF HwInv, OrderInv, TypeOK
  <2> QED
    BY <2>1 DEF ThreadType
<1>b. /\ threads \in [Worker -> ThreadType] /\ threads[i] \in ThreadType
      /\ threads' \in [Worker -> ThreadType]
      /\ ThreadState(threads[i]) /\ HwThread(i) /\ AsyncThread(i) /\ codec' = codec
  BY <1>a DEF HwInv, OrderInv, TypeOK, StateInv, OthersMove
<1>c. ASSUME NEW p PROVE Woken(p, p)
  BY DEF Woken
<1>d. /\ codec.update \in BOOLEAN /\ codec.hw \in {"none", "safe", "serial"}
      /\ codec.async_safe \in BOOLEAN /\ (~codec.update => codec.hw = "none")
  BY CodecsAssumption DEF HwInv, OrderInv, TypeOK
<1>e. AsyncOwner(i) => async_lock
  BY DEF HwInv, OwnerInv
<1> USE DEF Waiting, Finishing, Decoding, Ending
<1>1. CASE Input(i)
  <2>1. /\ threads'[i].pc \in {"exit", "asleep", "begin"}
        /\ threads'[i].state = threads[i].state
        /\ threads'[i].hw = threads[i].hw
        /\ threads'[i].hwaccel_threadsafe = threads[i].hwaccel_threadsafe
        /\ threads'[i].hwaccel_serializing = threads[i].hwaccel_serializing
        /\ threads'[i].async_serializing = threads[i].async_serializing
    BY <1>b, <1>1 DEF Input, ThreadType
  <2>2. HwThread(i)'
    BY <1>b, <1>d, <1>1, <2>1 DEF Input, HwThread, ThreadState
  <2>3. AsyncThread(i)'
    BY <1>b, <1>d, <1>1, <2>1 DEF Input, HwThread, AsyncThread, ThreadState
  <2>4. /\ hwaccel_mutex' = hwaccel_mutex \/ hwaccel_mutex = None \/ hwaccel_mutex = i
        /\ stash' => stash
    BY <1>b, <1>1 DEF Input, HwThread
  <2>5. (AsyncOwner(i)' <=> AsyncOwner(i)) /\ async_lock' = async_lock
    BY <1>b, <1>1, <2>1 DEF Input, AsyncOwner, AsyncThread, ThreadState
  <2> QED
    BY <1>e, <2>2, <2>3, <2>4, <2>5 DEF HwMove
<1>2. CASE Begin(i)
  <2>1. /\ threads'[i].pc \in {"serial", "finish"}
        /\ threads'[i].state = threads[i].state
        /\ threads'[i].hw = threads[i].hw
        /\ threads'[i].hwaccel_threadsafe = threads[i].hwaccel_threadsafe
        /\ threads'[i].hwaccel_serializing = threads[i].hwaccel_serializing
        /\ threads'[i].async_serializing = threads[i].async_serializing
    BY <1>b, <1>2 DEF Begin, ThreadType
  <2>2. HwThread(i)'
    BY <1>b, <1>d, <1>2, <2>1 DEF Begin, HwThread, ThreadState
  <2>3. AsyncThread(i)'
    BY <1>b, <1>d, <1>2, <2>1 DEF Begin, HwThread, AsyncThread, ThreadState
  <2>4. /\ hwaccel_mutex' = hwaccel_mutex \/ hwaccel_mutex = None \/ hwaccel_mutex = i
        /\ stash' => stash
    BY <1>b, <1>2 DEF Begin, HwThread
  <2>5. (AsyncOwner(i)' <=> AsyncOwner(i)) /\ async_lock' = async_lock
    BY <1>b, <1>2, <2>1 DEF Begin, AsyncOwner, AsyncThread, ThreadState
  <2> QED
    BY <1>e, <2>2, <2>3, <2>4, <2>5 DEF HwMove
<1>3. CASE Serial(i)
  <2>p. PICK lock \in BOOLEAN :
          /\ threads' = [threads EXCEPT ![i].pc = "decode", ![i].result = "none",
                                        ![i].hwaccel_serializing = lock]
          /\ lock <=> hwaccel_serial(threads[i])
    <3>1. hwaccel_serial(threads[i]) \in BOOLEAN
      BY DEF hwaccel_serial
    <3> QED
      BY <1>3, <3>1, Zenon DEF Serial
  <2>1. /\ threads'[i].pc = "decode"
        /\ threads'[i].state = threads[i].state
        /\ threads'[i].hw = threads[i].hw
        /\ threads'[i].hwaccel_threadsafe = threads[i].hwaccel_threadsafe
        /\ threads'[i].hwaccel_serializing = lock
        /\ threads'[i].async_serializing = threads[i].async_serializing
    BY <1>b, <2>p DEF ThreadType
  <2>2. HwThread(i)'
    BY <1>b, <1>d, <1>3, <2>1, <2>p DEF Serial, hwaccel_serial, HwThread, ThreadState
  <2>3. AsyncThread(i)'
    BY <1>b, <1>d, <1>3, <2>1, <2>p DEF Serial, hwaccel_serial, HwThread, AsyncThread, ThreadState
  <2>4. /\ hwaccel_mutex' = hwaccel_mutex \/ hwaccel_mutex = None \/ hwaccel_mutex = i
        /\ stash' => stash
    BY <1>b, <1>3 DEF Serial, hwaccel_serial, HwThread
  <2>5. (AsyncOwner(i)' <=> AsyncOwner(i)) /\ async_lock' = async_lock
    BY <1>b, <1>3, <2>1, <2>p DEF Serial, AsyncOwner, AsyncThread, ThreadState
  <2> QED
    BY <1>e, <2>2, <2>3, <2>4, <2>5 DEF HwMove
<1>4. CASE Setup(i)
  <2>p. PICK h \in BOOLEAN, f \in BOOLEAN :
          /\ threads' = [threads EXCEPT ![i].hw = h, ![i].decoding = f,
                                        ![i].pc = "finish", ![i].back = "decode"]
          /\ codec.hw = "none" => ~h
    BY <1>4, Zenon DEF Setup
  <2>1. /\ threads'[i].pc = "finish"
        /\ threads'[i].state = threads[i].state
        /\ threads'[i].hw = h
        /\ threads'[i].hwaccel_threadsafe = threads[i].hwaccel_threadsafe
        /\ threads'[i].hwaccel_serializing = threads[i].hwaccel_serializing
        /\ threads'[i].async_serializing = threads[i].async_serializing
    BY <1>b, <2>p DEF ThreadType
  <2>2. HwThread(i)'
    BY <1>b, <1>d, <1>4, <2>1, <2>p DEF Setup, HwThread, ThreadState
  <2>3. AsyncThread(i)'
    BY <1>b, <1>d, <1>4, <2>1, <2>p DEF Setup, HwThread, AsyncThread, ThreadState
  <2>4. /\ hwaccel_mutex' = hwaccel_mutex \/ hwaccel_mutex = None \/ hwaccel_mutex = i
        /\ stash' => stash
    BY <1>b, <1>4 DEF Setup, HwThread
  <2>5. (AsyncOwner(i)' <=> AsyncOwner(i)) /\ async_lock' = async_lock
    BY <1>b, <1>4, <2>1, <2>p DEF Setup, AsyncOwner, AsyncThread, ThreadState
  <2> QED
    BY <1>e, <2>2, <2>3, <2>4, <2>5 DEF HwMove
<1>5. CASE Await(i)
  <2>1. /\ threads'[i].pc = "await"
        /\ threads'[i].state = threads[i].state
        /\ threads'[i].hw = threads[i].hw
        /\ threads'[i].hwaccel_threadsafe = threads[i].hwaccel_threadsafe
        /\ threads'[i].hwaccel_serializing = threads[i].hwaccel_serializing
        /\ threads'[i].async_serializing = threads[i].async_serializing
    BY <1>b, <1>5 DEF Await, ThreadType
  <2>2. HwThread(i)'
    BY <1>b, <1>d, <1>5, <2>1 DEF Await, HwThread, ThreadState
  <2>3. AsyncThread(i)'
    BY <1>b, <1>d, <1>5, <2>1 DEF Await, HwThread, AsyncThread, ThreadState
  <2>4. /\ hwaccel_mutex' = hwaccel_mutex \/ hwaccel_mutex = None \/ hwaccel_mutex = i
        /\ stash' => stash
    BY <1>b, <1>5 DEF Await, HwThread
  <2>5. (AsyncOwner(i)' <=> AsyncOwner(i)) /\ async_lock' = async_lock
    BY <1>b, <1>5, <2>1 DEF Await, AsyncOwner, AsyncThread, ThreadState
  <2> QED
    BY <1>e, <2>2, <2>3, <2>4, <2>5 DEF HwMove
<1>6. CASE Unlock(i)
  <2>p. PICK h \in BOOLEAN :
          /\ threads' = [threads EXCEPT ![i].hw = h, ![i].hwaccel_serializing = FALSE,
                                        ![i].pc = "async unlock"]
          /\ h <=> threads[i].hw /\ ~threads[i].hwaccel_serializing
    <3>1. (threads[i].hw /\ ~threads[i].hwaccel_serializing) \in BOOLEAN
      OBVIOUS
    <3> QED
      BY <1>6, <3>1, Zenon DEF Unlock
  <2>1. /\ threads'[i].pc = "async unlock"
        /\ threads'[i].state = threads[i].state
        /\ threads'[i].hw = h
        /\ threads'[i].hwaccel_threadsafe = threads[i].hwaccel_threadsafe
        /\ threads'[i].hwaccel_serializing = FALSE
        /\ threads'[i].async_serializing = threads[i].async_serializing
    BY <1>b, <2>p DEF ThreadType
  <2>2. HwThread(i)'
    BY <1>b, <1>d, <1>6, <2>1, <2>p DEF Unlock, HwThread, ThreadState
  <2>3. AsyncThread(i)'
    BY <1>b, <1>d, <1>6, <2>1, <2>p DEF Unlock, HwThread, AsyncThread, ThreadState
  <2>4. /\ hwaccel_mutex' = hwaccel_mutex \/ hwaccel_mutex = None \/ hwaccel_mutex = i
        /\ stash' => stash
    BY <1>b, <1>6 DEF Unlock, HwThread
  <2>5. (AsyncOwner(i)' <=> AsyncOwner(i)) /\ async_lock' = async_lock
    BY <1>b, <1>6, <2>1, <2>p DEF Unlock, AsyncOwner, AsyncThread, ThreadState
  <2> QED
    BY <1>e, <2>2, <2>3, <2>4, <2>5 DEF HwMove
<1>7. CASE Finish(i)
  <2>p. PICK t, s, a \in BOOLEAN, place \in {"async", "stash"} :
          /\ threads' = [threads EXCEPT ![i].hwaccel_threadsafe = t,
                                        ![i].hwaccel_serializing = s,
                                        ![i].async_serializing = a, ![i].pc = place]
          /\ t <=> threads[i].hw /\ codec.hw = "safe"
          /\ s <=> threads[i].hwaccel_serializing \/ hwaccel_serial(threads[i])
          /\ a <=> threads[i].async_serializing \/ (threads[i].hw /\ ~codec.async_safe)
          /\ place = IF threads[i].hw /\ ~codec.async_safe THEN "async" ELSE "stash"
    <3> DEFINE p == threads[i]
               lock == hwaccel_serial(p) /\ ~p.hwaccel_serializing
               async == p.hw /\ ~codec.async_safe
    <3>1. /\ (p.hw /\ codec.hw = "safe") \in BOOLEAN
          /\ (p.hwaccel_serializing \/ lock) \in BOOLEAN
          /\ (p.async_serializing \/ async) \in BOOLEAN
          /\ (IF async THEN "async" ELSE "stash") \in {"async", "stash"}
      OBVIOUS
    <3>2. threads' = [threads EXCEPT ![i].hwaccel_threadsafe = p.hw /\ codec.hw = "safe",
                                     ![i].hwaccel_serializing = @ \/ lock,
                                     ![i].async_serializing = @ \/ async,
                                     ![i].pc = IF async THEN "async" ELSE "stash"]
      BY <1>7, Zenon DEF Finish
    <3> QED
      BY <3>1, <3>2, Zenon
  <2>1. /\ threads'[i].pc = place
        /\ threads'[i].state = threads[i].state
        /\ threads'[i].hw = threads[i].hw
        /\ threads'[i].hwaccel_threadsafe = t
        /\ threads'[i].hwaccel_serializing = s
        /\ threads'[i].async_serializing = a
    BY <1>b, <2>p DEF ThreadType
  <2>2. HwThread(i)'
    <3>1. threads[i].hw /\ codec.hw = "serial" => s
      BY <2>p DEF hwaccel_serial
    <3>2. s => codec.hw = "serial" /\ hwaccel_mutex' = i
      BY <1>b, <1>7, <2>p DEF Finish, hwaccel_serial, HwThread
    <3> QED
      BY <1>b, <1>7, <2>p, <2>1, <3>1, <3>2 DEF Finish, HwThread, ThreadState
  <2>3. ~threads[i].async_serializing
    BY <1>b, <1>7 DEF Finish, AsyncThread
  <2>4. AsyncThread(i)'
    BY <1>b, <2>p, <2>1, <2>3 DEF AsyncThread, HwThread
  <2>5. /\ hwaccel_mutex' = hwaccel_mutex \/ hwaccel_mutex = None
        /\ stash' => stash
        /\ async_lock => async_lock'
    BY <1>7 DEF Finish
  <2>6. ~AsyncOwner(i)' /\ ~AsyncOwner(i)
    BY <2>p, <2>1, <2>3 DEF AsyncOwner
  <2> QED
    BY <2>2, <2>4, <2>5, <2>6 DEF HwMove
<1>8. CASE AsyncLock(i)
  <2>p. PICK place \in {"async asleep", "stash"} :
          /\ threads' = [threads EXCEPT ![i].pc = place]
          /\ async_lock => place = "async asleep"
    BY <1>8, Zenon DEF AsyncLock
  <2>q. /\ threads[i].pc = "async" /\ async_lock'
        /\ hwaccel_mutex' = hwaccel_mutex /\ (stash' => stash)
    BY <1>8 DEF AsyncLock
  <2>1. /\ threads'[i].pc = place
        /\ threads'[i].state = threads[i].state
        /\ threads'[i].hw = threads[i].hw
        /\ threads'[i].hwaccel_threadsafe = threads[i].hwaccel_threadsafe
        /\ threads'[i].hwaccel_serializing = threads[i].hwaccel_serializing
        /\ threads'[i].async_serializing = threads[i].async_serializing
    BY <1>b, <2>p DEF ThreadType
  <2>2. HwThread(i)'
    BY <1>b, <2>p, <2>q, <2>1 DEF HwThread
  <2>3. AsyncThread(i)'
    BY <1>b, <2>p, <2>q, <2>1 DEF AsyncThread
  <2>4. AsyncOwner(i)' => ~async_lock
    BY <2>p, <2>1 DEF AsyncOwner
  <2> QED
    BY <2>q, <2>2, <2>3, <2>4 DEF HwMove
<1>9. CASE Decoded(i)
  <2>p. PICK r \in {"none", "frame", "error"} :
          threads' = LET done == [threads EXCEPT ![i].decoding = FALSE,
                                    ![i].result = r,  ![i].back = "unlock",
                                    ![i].pc = IF threads[i].state = "SETTING_UP"
                                                THEN "finish" ELSE "unlock"]
                     IN  IF threads[i].decoding THEN WakeProgress(i, done) ELSE done
    BY <1>9, Zenon DEF Decoded
  <2> DEFINE next == [threads EXCEPT ![i].decoding = FALSE, ![i].result = r,
                                ![i].back = "unlock",
                                ![i].pc = IF threads[i].state = "SETTING_UP"
                                            THEN "finish" ELSE "unlock"]
  <2>a. next \in [Worker -> ThreadType]
    BY ZenonT(40), <1>t, <2>p DEF ThreadType, Place
  <2>b. /\ next[i].pc = IF threads[i].state = "SETTING_UP" THEN "finish" ELSE "unlock"
        /\ next[i].state = threads[i].state
        /\ next[i].hw = threads[i].hw
        /\ next[i].hwaccel_threadsafe = threads[i].hwaccel_threadsafe
        /\ next[i].hwaccel_serializing = threads[i].hwaccel_serializing
        /\ next[i].async_serializing = threads[i].async_serializing
    BY <1>b, <2>p DEF ThreadType
  <2>c. threads' = next \/ threads' = WakeProgress(i, next) \/ threads' = WakeAsync(next)
    BY <1>9, <2>p, Zenon DEF Decoded
  <2> HIDE DEF next
  <2>d. Woken(next[i], threads'[i])
    BY <1>c, <2>a, <2>c, WakeShape, Zenon
  <2>1. /\ threads'[i].pc = IF threads[i].state = "SETTING_UP" THEN "finish" ELSE "unlock"
        /\ threads'[i].state = threads[i].state
        /\ threads'[i].hw = threads[i].hw
        /\ threads'[i].hwaccel_threadsafe = threads[i].hwaccel_threadsafe
        /\ threads'[i].hwaccel_serializing = threads[i].hwaccel_serializing
        /\ threads'[i].async_serializing = threads[i].async_serializing
    BY <2>b, <2>d DEF Woken
  <2>2. HwThread(i)'
    BY <1>b, <1>9, <2>1 DEF Decoded, HwThread
  <2>3. AsyncThread(i)'
    BY <1>b, <1>9, <2>1 DEF Decoded, AsyncThread
  <2>4. AsyncOwner(i)' <=> AsyncOwner(i)
    BY <1>9, <2>1 DEF Decoded, AsyncOwner
  <2>5. /\ hwaccel_mutex' = hwaccel_mutex /\ (stash' => stash)
        /\ async_lock' <=> async_lock
    BY <1>9 DEF Decoded
  <2> QED
    BY <1>e, <2>2, <2>3, <2>4, <2>5 DEF HwMove
<1>10. CASE AsyncUnlock(i)
  <2> DEFINE next == [threads EXCEPT ![i].async_serializing = FALSE, ![i].pc = "ready"]
  <2>a. next \in [Worker -> ThreadType]
    BY ZenonT(40), <1>t DEF ThreadType, Place
  <2>b. /\ next[i].pc = "ready"
        /\ next[i].state = threads[i].state
        /\ next[i].hw = threads[i].hw
        /\ next[i].hwaccel_threadsafe = threads[i].hwaccel_threadsafe
        /\ next[i].hwaccel_serializing = threads[i].hwaccel_serializing
        /\ next[i].async_serializing = FALSE
    BY <1>b DEF ThreadType
  <2>c. threads' = next \/ threads' = WakeAsync(next)
    BY <1>10, Zenon DEF AsyncUnlock
  <2> HIDE DEF next
  <2>d. Woken(next[i], threads'[i])
    BY <1>c, <2>a, <2>c, WakeShape, Zenon
  <2>1. /\ threads'[i].pc = "ready"
        /\ threads'[i].state = threads[i].state
        /\ threads'[i].hw = threads[i].hw
        /\ threads'[i].hwaccel_threadsafe = threads[i].hwaccel_threadsafe
        /\ threads'[i].hwaccel_serializing = threads[i].hwaccel_serializing
        /\ threads'[i].async_serializing = FALSE
    BY <2>b, <2>d DEF Woken
  <2>2. HwThread(i)'
    BY <1>b, <1>10, <2>1 DEF AsyncUnlock, HwThread, ThreadState
  <2>3. AsyncThread(i)' /\ ~AsyncOwner(i)'
    BY <2>1 DEF AsyncThread, AsyncOwner
  <2>4. async_lock => async_lock' \/ AsyncOwner(i)
    BY <1>10 DEF AsyncUnlock, AsyncOwner
  <2>5. hwaccel_mutex' = hwaccel_mutex /\ (stash' => stash)
    BY <1>10 DEF AsyncUnlock
  <2> QED
    BY <2>2, <2>3, <2>4, <2>5 DEF HwMove
<1>11. CASE Ready(i)
  <2> DEFINE next == [threads EXCEPT ![i].state = "INPUT_READY", ![i].pc = "asleep"]
  <2>a. next \in [Worker -> ThreadType]
    BY <1>t DEF ThreadType, Place
  <2>b. /\ next[i].pc = "asleep"
        /\ next[i].state = "INPUT_READY"
        /\ next[i].hw = threads[i].hw
        /\ next[i].hwaccel_threadsafe = threads[i].hwaccel_threadsafe
        /\ next[i].hwaccel_serializing = threads[i].hwaccel_serializing
        /\ next[i].async_serializing = threads[i].async_serializing
    BY <1>b DEF ThreadType
  <2>c. threads' = next \/ threads' = WakeProgress(i, next) \/ threads' = WakeAsync(next)
    BY <1>11, Zenon DEF Ready
  <2> HIDE DEF next
  <2>d. Woken(next[i], threads'[i])
    BY <1>c, <2>a, <2>c, WakeShape, Zenon
  <2>1. /\ threads'[i].pc = "asleep"
        /\ threads'[i].state = "INPUT_READY"
        /\ threads'[i].hw = threads[i].hw
        /\ threads'[i].hwaccel_threadsafe = threads[i].hwaccel_threadsafe
        /\ threads'[i].hwaccel_serializing = threads[i].hwaccel_serializing
        /\ threads'[i].async_serializing = threads[i].async_serializing
    BY <2>b, <2>d DEF Woken
  <2>2. HwThread(i)'
    BY <1>b, <1>11, <2>1 DEF Ready, HwThread, ThreadState
  <2>3. AsyncThread(i)' /\ ~AsyncOwner(i)'
    BY <1>b, <1>11, <2>1 DEF Ready, AsyncThread, AsyncOwner
  <2>4. /\ hwaccel_mutex' = hwaccel_mutex /\ (stash' => stash)
        /\ async_lock' <=> async_lock
    BY <1>11 DEF Ready
  <2> QED
    BY <2>2, <2>3, <2>4 DEF HwMove
<1>12. CASE Stash(i)
  <2>p. PICK place \in {"serial", "decode", "unlock"}, job \in Int :
          /\ place = threads[i].back
          /\ threads' = WakeProgress(i, [threads EXCEPT ![i].state = "SETUP_FINISHED",
                                            ![i].ctx = job, ![i].pc = place])
    <3>1. threads[i].back \in {"serial", "decode", "unlock"} /\ threads[i].job \in Int
      BY <1>b DEF ThreadType
    <3> QED
      BY <1>12, <3>1, Zenon DEF Stash
  <2> DEFINE next == [threads EXCEPT ![i].state = "SETUP_FINISHED",
                                ![i].ctx = job, ![i].pc = place]
  <2>e. place \in {"serial", "decode", "unlock"} /\ job \in Int
    BY <2>p
  <2>a. next \in [Worker -> ThreadType]
    <3>1. ASSUME NEW p \in ThreadType, NEW c \in Int, NEW q \in {"serial", "decode", "unlock"}
          PROVE  [p EXCEPT !.state = "SETUP_FINISHED", !.ctx = c, !.pc = q] \in ThreadType
      BY DEF ThreadType, Place
    <3> QED
      BY <1>b, <2>e, <3>1, Zenon
  <2>b. /\ next[i].pc = place
        /\ next[i].state = "SETUP_FINISHED"
        /\ next[i].hw = threads[i].hw
        /\ next[i].hwaccel_threadsafe = threads[i].hwaccel_threadsafe
        /\ next[i].hwaccel_serializing = threads[i].hwaccel_serializing
        /\ next[i].async_serializing = threads[i].async_serializing
    BY <1>b, <2>e DEF ThreadType
  <2>c. threads' = WakeProgress(i, next)
    BY <2>p, Zenon
  <2> HIDE DEF next
  <2>d. Woken(next[i], threads'[i])
    BY <2>a, <2>c, WakeShape, Zenon
  <2>1. /\ threads'[i].pc = place
        /\ threads'[i].state = "SETUP_FINISHED"
        /\ threads'[i].hw = threads[i].hw
        /\ threads'[i].hwaccel_threadsafe = threads[i].hwaccel_threadsafe
        /\ threads'[i].hwaccel_serializing = threads[i].hwaccel_serializing
        /\ threads'[i].async_serializing = threads[i].async_serializing
    BY <2>b, <2>d, <2>e DEF Woken
  <2>2. place = "serial" => codec.hw = "none"
    BY <1>b, <1>d, <1>12, <2>p DEF Stash, ThreadState
  <2>3. HwThread(i)'
    BY <1>b, <1>12, <2>e, <2>1, <2>2 DEF Stash, HwThread
  <2>4. AsyncThread(i)'
    BY <1>b, <1>12, <2>e, <2>1, <2>2 DEF Stash, AsyncThread
  <2>5. AsyncOwner(i)' <=> AsyncOwner(i)
    BY <1>12, <2>e, <2>1 DEF Stash, AsyncOwner
  <2>6. stash' /\ ~stash => codec.hw = "serial" /\ threads[i].state = "SETTING_UP"
    BY <1>b, <1>12 DEF Stash, hwaccel_serial, ThreadState
  <2>7. hwaccel_mutex' = hwaccel_mutex /\ (async_lock' <=> async_lock)
    BY <1>12 DEF Stash
  <2> QED
    BY <1>e, <2>1, <2>3, <2>4, <2>5, <2>6, <2>7 DEF HwMove
<1> QED
  BY <1>1, <1>2, <1>3, <1>4, <1>5, <1>6, <1>7, <1>8, <1>9, <1>10, <1>11, <1>12
     DEF WorkerStep

-----------------------------------------------------------------------------
\* A step of the user's thread that at most wakes workers.
LEMMA HwByUser ==
  ASSUME HwInv, OrderInv', codec' = codec, hwaccel_mutex' = hwaccel_mutex,
         stash' => stash, \A k \in Worker : Woken(threads[k], threads'[k]),
         async_lock => async_lock' \/ UserOwner,
         UserOwner' => async_lock' /\ (UserOwner \/ ~async_lock)
  PROVE  HwInv'
<1>1. ASSUME NEW k \in Worker
      PROVE  /\ HwThread(k)' /\ AsyncThread(k)'
             /\ AsyncOwner(k)' <=> AsyncOwner(k)
             /\ threads'[k].state = threads[k].state
  <2>1. HwThread(k) /\ AsyncThread(k)
    BY DEF HwInv
  <2>2. threads'[k].state = threads[k].state
    BY DEF Woken
  <2> QED
    BY <2>1, <2>2, WokenKeeps
<1>2. OwnerInv'
  BY <1>1 DEF HwInv, OwnerInv
<1>3. StashInv'
  BY <1>1 DEF HwInv, StashInv
<1> QED
  BY <1>1, <1>2, <1>3 DEF HwInv

LEMMA HwUserStep ==
  ASSUME HwInv,
         \/ NoSubmit \/ Submit \/ Prev \/ Wait \/ Lock \/ Freed
         \/ \E size \in BOOLEAN : Decode(size)
         \/ \E then \in {"flush", "kill"} : Leave(then)
         \/ UNCHANGED vars
  PROVE  HwInv'
<1>a. OrderInv'
  BY OrderUserStep DEF HwInv
<1>b. UserType /\ threads \in [Worker -> ThreadType]
  BY DEF HwInv, OrderInv, TypeOK
<1>c. ASSUME threads' = threads PROVE \A k \in Worker : Woken(threads[k], threads'[k])
  BY <1>c DEF Woken
<1>d. UserOwner => async_lock
  BY DEF HwInv, OwnerInv
<1>1. CASE NoSubmit
  <2>1. user.at = "submit" /\ Goto("collect")
    BY <1>1, Zenon DEF NoSubmit, Submitted
  <2>2. user'.at = "collect"
    BY <1>b, <2>1, GotoCalling DEF Calling
  <2>3. /\ codec' = codec /\ threads' = threads /\ hwaccel_mutex' = hwaccel_mutex
        /\ stash' => stash
        /\ async_lock => async_lock'
    BY <1>1 DEF NoSubmit
  <2> QED
    BY <1>a, <1>c, <2>2, <2>3, HwByUser DEF UserOwner
<1>2. CASE Submit
  <2>1. PICK place \in {"finish", "prev"} : user.at = "submit" /\ Goto(place)
    BY <1>2, Zenon DEF Submit, Return
  <2>2. user'.at = place
    BY <1>b, <2>1, GotoCalling DEF Calling, Returning
  <2>3. /\ codec' = codec /\ threads' = threads /\ hwaccel_mutex' = hwaccel_mutex
        /\ stash' => stash
        /\ async_lock => async_lock'
    BY <1>2 DEF Submit
  <2> QED
    BY <1>a, <1>c, <2>1, <2>2, <2>3, HwByUser DEF UserOwner
<1>3. CASE Prev
  <2>1. PICK place \in {"prev asleep", "update"} : user.at = "prev" /\ Goto(place)
    BY <1>3, Zenon DEF Prev
  <2>2. user'.at = place
    BY <1>b, <2>1, GotoCalling DEF Calling
  <2>3. /\ codec' = codec /\ threads' = threads /\ hwaccel_mutex' = hwaccel_mutex
        /\ stash' => stash
        /\ async_lock => async_lock'
    BY <1>3 DEF Prev
  <2> QED
    BY <1>a, <1>c, <2>1, <2>2, <2>3, HwByUser DEF UserOwner
<1>4. CASE Wait
  <2>1. user'.at \in {"collect asleep", "park asleep"}
    <3>1. CASE user.at = "collect"
      <4>1. Goto("collect asleep")
        BY <1>4, <3>1 DEF Wait
      <4> QED
        BY <1>b, <3>1, <4>1, GotoCalling DEF Calling
    <3>2. CASE user.at = "park"
      <4>1. Goto("park asleep")
        BY <1>4, <3>2 DEF Wait
      <4> QED
        BY <1>b, <3>2, <4>1, GotoParking DEF Parking
    <3> QED
      BY <1>4, <3>1, <3>2 DEF Wait
  <2>2. /\ codec' = codec /\ threads' = threads /\ hwaccel_mutex' = hwaccel_mutex
        /\ stash' => stash
        /\ async_lock => async_lock'
    BY <1>4 DEF Wait
  <2> QED
    BY <1>a, <1>c, <2>1, <2>2, HwByUser DEF UserOwner
<1>5. CASE Lock
  <2>1. /\ codec' = codec /\ threads' = threads /\ hwaccel_mutex' = hwaccel_mutex
        /\ stash' => stash
        /\ async_lock'
        /\ user.at = "finish"
        /\ async_lock => user' = [user EXCEPT !.at = "finish asleep"]
    BY <1>5 DEF Lock
  <2>2. [user EXCEPT !.at = "finish asleep"].at = "finish asleep"
    BY <1>b, <2>1 DEF UserType, Calling, Parking, Returning
  <2>3. UserOwner' => ~async_lock
    BY <2>1, <2>2 DEF UserOwner
  <2> QED
    BY <1>a, <1>c, <2>1, <2>3, HwByUser
<1>6. CASE Freed
  <2>1. /\ codec' = codec /\ threads' = threads /\ hwaccel_mutex' = hwaccel_mutex
        /\ stash' => stash
        /\ async_lock => async_lock'
        /\ user.at = "kill"
    BY <1>6 DEF Freed
  <2>2. UserOwner /\ async_lock
    BY <1>d, <2>1 DEF UserOwner
  <2> QED
    BY <1>a, <1>c, <2>1, <2>2, HwByUser
<1>7. CASE \/ \E size \in BOOLEAN : Decode(size)
           \/ \E then \in {"flush", "kill"} : Leave(then)
  <2>1. /\ codec' = codec /\ threads' = WakeAsync(threads)
        /\ hwaccel_mutex' = hwaccel_mutex
        /\ stash' => stash
        /\ user = [at |-> "idle"]
        /\ user'.at \in {"submit", "park"}
    BY <1>7 DEF Decode, Leave, Enter
  <2>2. 0 \in Worker
    BY ThreadAssumption DEF Worker
  <2>3. \A k \in Worker : Woken(threads[k], threads'[k])
    BY <1>b, <2>1, <2>2, WakeShape, Zenon
  <2>4. UserOwner /\ ~UserOwner'
    BY <2>1 DEF UserOwner
  <2> QED
    BY <1>a, <2>1, <2>3, <2>4, HwByUser
<1>8. CASE UNCHANGED vars
  <2>1. /\ codec' = codec /\ threads' = threads /\ hwaccel_mutex' = hwaccel_mutex
        /\ stash' => stash
        /\ async_lock => async_lock'
        /\ user' = user
    BY <1>8 DEF vars
  <2>2. UserOwner' => UserOwner /\ async_lock
    BY <1>d, <2>1 DEF UserOwner
  <2> QED
    BY <1>a, <1>c, <2>1, <2>2, HwByUser
<1> QED
  BY <1>1, <1>2, <1>3, <1>4, <1>5, <1>6, <1>7, <1>8

-----------------------------------------------------------------------------
\* A worker without a packet, or with one it has not taken up.
Idle(p) ==
  /\ p.pc \in Waiting /\ p.state \in {"INPUT_READY", "SETTING_UP"}
  /\ ~p.hwaccel_serializing /\ ~p.async_serializing
  /\ p.hw => codec.hw # "none"
  /\ p.hwaccel_threadsafe => codec.hw = "safe"
  /\ p.hw => p.hwaccel_threadsafe \/ p.state = "SETTING_UP"

LEMMA IdleReady ==
  ASSUME HwInv, NEW i \in Worker, threads[i].state = "INPUT_READY"
  PROVE  Idle(threads[i])
<1>1. HwThread(i) /\ AsyncThread(i) /\ ThreadState(threads[i])
  BY DEF HwInv, OrderInv, StateInv
<1>2. codec.hw \in {"none", "safe", "serial"}
  BY CodecsAssumption DEF HwInv, OrderInv, TypeOK
<1>3. threads[i].pc \in Waiting
  BY <1>1 DEF ThreadState
<1> QED
  BY <1>1, <1>2, <1>3 DEF Idle, HwThread, AsyncThread, Waiting, Decoding, Finishing

LEMMA IdleHolds ==
  ASSUME NEW i \in Worker, Idle(threads[i])
  PROVE  HwThread(i) /\ AsyncThread(i) /\ ~AsyncOwner(i)
BY DEF Idle, HwThread, AsyncThread, AsyncOwner, Waiting, Decoding, Finishing

\* A step of the user's thread that touches idle workers only.
LEMMA HwByIdle ==
  ASSUME HwInv, OrderInv', codec' = codec, hwaccel_mutex' = hwaccel_mutex,
         \A k \in Worker : threads'[k] = threads[k]
                             \/ (Idle(threads[k]) /\ Idle(threads[k])'),
         async_lock => async_lock', UserOwner' => UserOwner, StashInv'
  PROVE  HwInv'
<1>1. ASSUME NEW k \in Worker
      PROVE  /\ HwThread(k)' /\ AsyncThread(k)'
             /\ AsyncOwner(k)' <=> AsyncOwner(k)
  <2>1. CASE threads'[k] = threads[k]
    <3>1. HwThread(k) /\ AsyncThread(k)
      BY DEF HwInv
    <3> QED
      BY <2>1, <3>1 DEF HwThread, AsyncThread, AsyncOwner
  <2>2. CASE Idle(threads[k]) /\ Idle(threads[k])'
    <3>1. ~AsyncOwner(k)
      BY <2>2 DEF Idle, AsyncOwner
    <3>2. HwThread(k)' /\ AsyncThread(k)' /\ ~AsyncOwner(k)'
      BY <2>2 DEF Idle, HwThread, AsyncThread, AsyncOwner, Waiting, Decoding, Finishing
    <3> QED
      BY <3>1, <3>2
  <2> QED
    BY <2>1, <2>2
<1>2. OwnerInv'
  BY <1>1 DEF HwInv, OwnerInv
<1> QED
  BY <1>1, <1>2 DEF HwInv

LEMMA IdleExcept ==
  ASSUME NEW p \in ThreadType, Idle(p), NEW c \in Int, NEW a \in BOOLEAN,
         NEW b \in BOOLEAN, a => b, b => codec.hw = "safe"
  PROVE  Idle([p EXCEPT !.ctx = c, !.hw = a, !.hwaccel_threadsafe = b])
BY DEF Idle, ThreadType

\* What update_context_from_thread leaves in an idle worker, whether it fails
\* or not.
LEMMA IdleUpdated ==
  ASSUME NEW p \in ThreadType, NEW q \in ThreadType, Idle(p), p.state = "INPUT_READY",
         q.hwaccel_threadsafe => codec.hw = "safe"
  PROVE  /\ Idle(Updated(p, q)) /\ Updated(p, q).state = "INPUT_READY"
         /\ \A r \in Botched(p, q), c \in Int : Idle([r EXCEPT !.ctx = c])
<1>1. /\ p.ctx \in Int /\ q.ctx \in Int
      /\ p.hw \in BOOLEAN /\ q.hw \in BOOLEAN /\ p.hwaccel_threadsafe \in BOOLEAN
      /\ q.hwaccel_threadsafe \in BOOLEAN
  BY DEF ThreadType
<1>2. PICK c \in Int : c = IF codec.update THEN q.ctx ELSE p.ctx
  BY <1>1
<1>3. PICK a \in BOOLEAN :
        a = (q.hwaccel_threadsafe \/ (p.hw /\ ~p.hwaccel_threadsafe))
  OBVIOUS
<1>4. PICK b \in BOOLEAN : b = q.hwaccel_threadsafe
  BY <1>1
<1>5. Updated(p, q) = [p EXCEPT !.ctx = c, !.hw = a, !.hwaccel_threadsafe = b]
  BY <1>2, <1>3, <1>4, Zenon DEF Updated
<1>6. (a => b) /\ (b => codec.hw = "safe")
  BY <1>3, <1>4 DEF Idle
<1>7. [p EXCEPT !.ctx = c, !.hw = a, !.hwaccel_threadsafe = b].state = "INPUT_READY"
  BY <1>2, <1>3, <1>4 DEF ThreadType
<1>8. ASSUME NEW r \in Botched(p, q), NEW d \in Int PROVE Idle([r EXCEPT !.ctx = d])
  <2>1. PICK e \in BOOLEAN : e = (p.hwaccel_threadsafe /\ p.hw)
    OBVIOUS
  <2>2. r = p \/ r = [p EXCEPT !.hw = FALSE, !.hwaccel_threadsafe = e]
    BY <1>8, <2>1, Zenon DEF Botched
  <2>3. CASE r = p
    <3>1. Idle([p EXCEPT !.ctx = d])
      BY DEF Idle, ThreadType
    <3> QED
      BY <2>3, <3>1
  <2>4. CASE r = [p EXCEPT !.hw = FALSE, !.hwaccel_threadsafe = e]
    <3>1. e => codec.hw = "safe"
      BY <2>1 DEF Idle
    <3>2. [[p EXCEPT !.hw = FALSE, !.hwaccel_threadsafe = e] EXCEPT !.ctx = d]
            = [p EXCEPT !.ctx = d, !.hw = FALSE, !.hwaccel_threadsafe = e]
      BY <2>1 DEF ThreadType
    <3>3. Idle([p EXCEPT !.ctx = d, !.hw = FALSE, !.hwaccel_threadsafe = e])
      BY <2>1, <3>1, IdleExcept
    <3> QED
      BY <2>4, <3>2, <3>3, Zenon
  <2> QED
    BY <2>2, <2>3, <2>4
<1>9. Idle([p EXCEPT !.ctx = c, !.hw = a, !.hwaccel_threadsafe = b])
  BY <1>2, <1>3, <1>4, <1>6, IdleExcept
<1> QED
  BY <1>5, <1>7, <1>8, <1>9, Zenon

\* Where submit_packet copies to, and from.
LEMMA HwSource ==
  ASSUME HwInv, user.at = "update", NEW n \in Worker, n = next_decoding
  PROVE  /\ threads[n] \in ThreadType /\ threads[n].state = "INPUT_READY"
         /\ Idle(threads[n])
         /\ prev_thread # None => /\ threads[prev_thread] \in ThreadType
                                  /\ threads[prev_thread].hwaccel_threadsafe
                                       => codec.hw = "safe"
         /\ Source(n) \in ThreadType /\ Idle(Source(n))
         /\ Source(n).state = "INPUT_READY"
<1>1. /\ threads[n] \in ThreadType /\ threads[n].state = "INPUT_READY"
      /\ prev_thread # None => prev_thread \in Worker
  BY NextDiffers DEF HwInv, Submitting
<1>2. Idle(threads[n])
  BY <1>1, IdleReady
<1>3. prev_thread # None => /\ threads[prev_thread] \in ThreadType
                            /\ threads[prev_thread].hwaccel_threadsafe => codec.hw = "safe"
  BY <1>1 DEF HwInv, OrderInv, TypeOK, HwThread
<1>4. codec \in Codecs
  BY DEF HwInv, OrderInv, TypeOK
<1>5. CASE prev_thread = None
  BY <1>1, <1>2, <1>5 DEF Source
<1>6. CASE prev_thread # None
  <2>1. Source(n) = Updated(threads[n], threads[prev_thread])
    BY <1>6 DEF Source
  <2>2. Updated(threads[n], threads[prev_thread]) \in ThreadType
    BY <1>1, <1>3, <1>4, <1>6, UpdateShape, Zenon DEF Kept
  <2>3. /\ Idle(Updated(threads[n], threads[prev_thread]))
        /\ Updated(threads[n], threads[prev_thread]).state = "INPUT_READY"
    BY <1>1, <1>2, <1>3, <1>6, IdleUpdated
  <2> QED
    BY <1>1, <1>2, <1>3, <2>1, <2>2, <2>3, Zenon
<1> QED
  BY <1>1, <1>2, <1>3, <1>5, <1>6

\* What the swap with the stash leaves: with an accelerator that is not
\* thread-safe the worker had none.
LEMMA HwSwap ==
  ASSUME HwInv, NEW p \in ThreadType, Idle(p), p.state = "INPUT_READY"
  PROVE  /\ Swap(p).hw \in BOOLEAN
         /\ Swap(p).stash => FALSE
         /\ Swap(p).hw => codec.hw # "none"
         /\ codec.hw # "serial" => (Swap(p).hw => p.hwaccel_threadsafe)
<1>1. p.hw \in BOOLEAN /\ stash \in BOOLEAN
  BY DEF ThreadType, HwInv, OrderInv, TypeOK
<1>2. stash => codec.hw = "serial"
  BY DEF HwInv, StashInv
<1>3. CASE p.hwaccel_threadsafe
  <2>1. Swap(p).hw = p.hw /\ Swap(p).stash = stash
    BY <1>3 DEF Swap
  <2> QED
    BY <1>1, <1>2, <1>3, <2>1 DEF Idle
<1>4. CASE ~p.hwaccel_threadsafe
  <2>1. Swap(p).hw = stash /\ Swap(p).stash = p.hw
    BY <1>4 DEF Swap
  <2>2. ~p.hw
    BY <1>4 DEF Idle
  <2> QED
    BY <1>1, <1>2, <2>1, <2>2
<1> QED
  BY <1>3, <1>4

LEMMA HwRefused ==
  ASSUME HwInv, "serial" \notin RefFailsWith, UpdateFails \/ RefFails
  PROVE  HwInv'
<1>a. OrderInv'
  BY OrderRefused DEF HwInv
<1>1. user.at = "update" /\ Goto("finish")
  BY DEF UpdateFails, RefFails, Return
<1>2. PICK n \in Worker : n = next_decoding
  BY <1>1, NextDiffers DEF HwInv, Submitting
<1>3. user'.at = "finish"
  BY <1>1, GotoCalling DEF HwInv, OrderInv, TypeOK, Calling, Returning
<1>4. /\ codec' = codec /\ hwaccel_mutex' = hwaccel_mutex
      /\ async_lock => async_lock'
  BY DEF UpdateFails, RefFails
<1>5. threads \in [Worker -> ThreadType] /\ codec \in Codecs
  BY DEF HwInv, OrderInv, TypeOK
<1>6. /\ \E q : /\ threads' = [threads EXCEPT ![n] = q] /\ Idle(q)
                /\ q.state = threads[n].state
      /\ stash' => stash
  <2>1. CASE UpdateFails
    <3>1. PICK p \in Botched(threads[n], threads[prev_thread]) :
            threads' = [threads EXCEPT ![n] = [p EXCEPT !.ctx = Torn]]
      BY <1>2, <2>1 DEF UpdateFails
    <3>2. prev_thread # None /\ (stash' => stash)
      BY <2>1 DEF UpdateFails
    <3>3. Idle([p EXCEPT !.ctx = Torn])
      <4>1. Torn \in Int
        BY DEF Torn
      <4> QED
        BY <1>1, <1>2, <3>1, <3>2, <4>1, HwSource, IdleUpdated
    <3>4. [p EXCEPT !.ctx = Torn].state = threads[n].state
      <4>1. Kept(threads[n], p)
        BY <1>1, <1>2, <1>5, <3>1, <3>2, HwSource, UpdateShape
      <4>2. p \in ThreadType /\ p.state = threads[n].state
        BY <4>1 DEF Kept
      <4>3. [p EXCEPT !.ctx = Torn].state = p.state
        BY <4>2 DEF ThreadType
      <4> QED
        BY <4>2, <4>3, Zenon
    <3> QED
      BY <3>1, <3>2, <3>3, <3>4, Zenon
  <2>2. CASE RefFails
    <3>1. PICK p \in ThreadType : p = Source(n)
      BY <1>1, <1>2, HwSource
    <3>2. Idle(p) /\ p.state = "INPUT_READY" /\ threads[n].state = "INPUT_READY"
      BY <1>1, <1>2, <3>1, HwSource
    <3>3. codec.hw # "serial"
      BY <2>2 DEF RefFails
    <3>4. PICK h \in BOOLEAN : h = Swap(p).hw
      BY <3>2, HwSwap
    <3>5. threads' = [threads EXCEPT ![n] = [p EXCEPT !.hw = h]] /\ stash' = Swap(p).stash
      BY <1>2, <2>2, <3>1, <3>4, Zenon DEF RefFails
    <3>6. ~stash'
      BY <3>2, <3>5, HwSwap
    <3>7. h => p.hwaccel_threadsafe /\ codec.hw # "none"
      BY <3>2, <3>3, <3>4, HwSwap
    <3>8. Idle([p EXCEPT !.hw = h]) /\ [p EXCEPT !.hw = h].state = threads[n].state
      BY <3>2, <3>4, <3>7 DEF Idle, ThreadType
    <3> QED
      BY <3>5, <3>6, <3>8, Zenon
  <2> QED
    BY <2>1, <2>2
<1>7. PICK q : /\ threads' = [threads EXCEPT ![n] = q] /\ Idle(q)
               /\ q.state = threads[n].state
  BY <1>6
<1>8. /\ threads'[n] = q
      /\ \A k \in Worker \ {n} : threads'[k] = threads[k]
  BY <1>5, <1>7, Zenon
<1>9. Idle(threads[n]) /\ Idle(threads[n])'
  <2>1. Idle(threads[n])
    BY <1>1, <1>2, HwSource
  <2>2. Idle(threads[n])'
    BY <1>4, <1>7, <1>8 DEF Idle
  <2> QED
    BY <2>1, <2>2
<1>10. StashInv'
  BY <1>4, <1>6, <1>7, <1>8 DEF HwInv, StashInv
<1> QED
  BY <1>a, <1>3, <1>4, <1>8, <1>9, <1>10, HwByIdle DEF UserOwner

LEMMA HwHandOver ==
  ASSUME HwInv, HandOver
  PROVE  HwInv'
<1>a. OrderInv'
  BY OrderHandOver DEF HwInv
<1>1. user.at = "update"
  BY DEF HandOver
<1>2. PICK n \in Worker : n = next_decoding
  BY <1>1, NextDiffers DEF HwInv, Submitting
<1>3. PICK p \in ThreadType : p = Source(n)
  BY <1>1, <1>2, HwSource
<1>4. Idle(p) /\ p.state = "INPUT_READY" /\ Idle(threads[n])
  BY <1>1, <1>2, <1>3, HwSource
<1>5. PICK h \in BOOLEAN : h = Swap(p).hw
  BY <1>4, HwSwap
<1>6. h => codec.hw # "none"
  BY <1>4, <1>5, HwSwap
<1>7. PICK place \in Waiting, job \in Nat :
        threads' = [threads EXCEPT ![n] =
                      [p EXCEPT !.hw = h, !.state = "SETTING_UP", !.job = job,
                                !.decoding = FALSE, !.pc = place]]
  <2>1. threads' = [threads EXCEPT ![n] =
                      [p EXCEPT !.hw = h, !.state = "SETTING_UP", !.job = count + 1,
                                !.decoding = FALSE,
                                !.pc = IF @ = "asleep" THEN "lock" ELSE @]]
    BY <1>2, <1>3, <1>5, Zenon DEF HandOver
  <2>2. count + 1 \in Nat
    BY DEF HwInv, OrderInv, TypeOK
  <2>3. (IF p.pc = "asleep" THEN "lock" ELSE p.pc) \in Waiting
    BY <1>4 DEF Idle, Waiting
  <2> QED
    BY <2>1, <2>2, <2>3, Zenon
<1>8. /\ codec' = codec /\ hwaccel_mutex' = hwaccel_mutex
      /\ async_lock => async_lock'
  BY DEF HandOver
<1>9. ~stash'
  <2>1. stash' = Swap(p).stash
    BY <1>2, <1>3, Zenon DEF HandOver
  <2> QED
    BY <1>4, <2>1, HwSwap
<1>10. ~UserOwner'
  <2>1. \/ Goto("finish")
        \/ Goto("collect")
    BY Zenon DEF HandOver, Submitted, Return
  <2>2. user'.at \in {"finish", "collect"}
    BY <1>1, <2>1, GotoCalling DEF HwInv, OrderInv, TypeOK, Calling, Returning
  <2> QED
    BY <2>2 DEF UserOwner
<1>11. threads \in [Worker -> ThreadType]
  BY DEF HwInv, OrderInv, TypeOK
<1> DEFINE q == [p EXCEPT !.hw = h, !.state = "SETTING_UP", !.job = job,
                          !.decoding = FALSE, !.pc = place]
<1>12. Idle(q)
  BY <1>4, <1>5, <1>6, <1>7 DEF Idle, ThreadType
<1>13. /\ threads'[n] = q
       /\ \A k \in Worker \ {n} : threads'[k] = threads[k]
  BY <1>7, <1>11, Zenon
<1> HIDE DEF q
<1>14. Idle(threads[n])'
  BY <1>8, <1>12, <1>13 DEF Idle
<1>15. StashInv'
  BY <1>9 DEF StashInv
<1> QED
  BY <1>a, <1>4, <1>8, <1>10, <1>13, <1>14, <1>15, HwByIdle

LEMMA IdleKept ==
  ASSUME HwInv, codec' = codec, hwaccel_mutex' = hwaccel_mutex, stash' => stash,
         async_lock => async_lock', UserOwner' => UserOwner, OrderInv',
         NEW n \in Worker, threads[n].state = "INPUT_READY",
         \A k \in Worker \ {n} : threads'[k] = threads[k],
         threads'[n].pc \in Waiting, threads'[n].state = "INPUT_READY",
         threads'[n].hw => threads[n].hw,
         threads'[n].hwaccel_threadsafe = threads[n].hwaccel_threadsafe,
         threads'[n].hwaccel_serializing = threads[n].hwaccel_serializing,
         threads'[n].async_serializing = threads[n].async_serializing
  PROVE  HwInv'
<1>1. Idle(threads[n])
  BY IdleReady
<1>2. Idle(threads[n])'
  BY <1>1 DEF Idle
<1>3. StashInv'
  BY DEF HwInv, StashInv
<1> QED
  BY <1>1, <1>2, <1>3, HwByIdle

LEMMA HwCollect ==
  ASSUME HwInv, Collect
  PROVE  HwInv'
<1>a. OrderInv'
  BY OrderCollect DEF HwInv
<1>1. user.at = "collect" /\ Oldest.state = "INPUT_READY"
  BY DEF Collect, CollectThen
<1>2. user \in [at : Calling \cup Returning, size : BOOLEAN, finished : Worker,
                then : {"idle"}]
  BY <1>1 DEF HwInv, OrderInv, TypeOK, UserType, Calling, Parking, Returning
<1>3. PICK n \in Worker : n = user.finished
  BY <1>2
<1>4. /\ threads[n].state = "INPUT_READY" /\ threads \in [Worker -> ThreadType]
      /\ threads[n] \in ThreadType /\ ThreadState(threads[n])
  BY <1>1, <1>3 DEF HwInv, OrderInv, TypeOK, StateInv, Oldest
<1>5. /\ threads' = [threads EXCEPT ![n].job = 0, ![n].result = "none"]
      /\ codec' = codec /\ hwaccel_mutex' = hwaccel_mutex
  BY <1>3, Zenon DEF Collect, CollectThen
<1>6. (stash' => stash) /\ (async_lock => async_lock')
  BY DEF Collect, CollectThen
<1>7. ~UserOwner'
  <2>1. \/ user' = [user EXCEPT !.finished = Following]
        \/ user' = [user EXCEPT !.at = "finish"]
    BY Zenon DEF Collect, CollectThen, Return, Goto
  <2>2. [user EXCEPT !.finished = Following].at = "collect"
    BY <1>1, <1>2
  <2>3. [user EXCEPT !.at = "finish"].at = "finish"
    BY <1>2
  <2> QED
    BY <2>1, <2>2, <2>3 DEF UserOwner
<1>8. /\ \A k \in Worker \ {n} : threads'[k] = threads[k]
      /\ threads'[n].pc = threads[n].pc /\ threads'[n].state = threads[n].state
      /\ threads'[n].hw = threads[n].hw
      /\ threads'[n].hwaccel_threadsafe = threads[n].hwaccel_threadsafe
      /\ threads'[n].hwaccel_serializing = threads[n].hwaccel_serializing
      /\ threads'[n].async_serializing = threads[n].async_serializing
  BY <1>4, <1>5 DEF ThreadType
<1>9. threads'[n].pc \in Waiting
  BY <1>4, <1>8 DEF ThreadState
<1> QED
  BY <1>a, <1>4, <1>5, <1>6, <1>7, <1>8, <1>9, IdleKept

LEMMA HwDying ==
  ASSUME HwInv, Kill \/ Join
  PROVE  HwInv'
<1>a. OrderInv'
  BY OrderDying DEF HwInv
<1>1. user.at \in {"kill", "join"} /\ user.finished \in Worker
  <2>1. CASE Kill
    <3>1. user \in [at : {"kill"}, finished : 0 .. N] /\ user.finished < N
      BY <2>1 DEF Kill, HwInv, OrderInv, TypeOK, UserType, Calling, Parking, Returning
    <3> QED
      BY <3>1, ThreadAssumption DEF Worker
  <2>2. CASE Join
    BY <2>2 DEF Join, HwInv, OrderInv, TypeOK, UserType, Calling, Parking, Returning
  <2> QED
    BY <2>1, <2>2
<1>2. PICK n \in Worker : n = user.finished
  BY <1>1
<1>3. /\ threads[n].state = "INPUT_READY" /\ threads \in [Worker -> ThreadType]
      /\ threads[n] \in ThreadType /\ ThreadState(threads[n])
  BY <1>1 DEF HwInv, OrderInv, TypeOK, StateInv, UserInv, AllReady
<1>4. /\ codec' = codec /\ hwaccel_mutex' = hwaccel_mutex
      /\ stash' => stash
      /\ async_lock => async_lock'
  BY DEF Kill, Join
<1>5. /\ \A k \in Worker \ {n} : threads'[k] = threads[k]
      /\ threads'[n].pc \in Waiting /\ threads'[n].state = threads[n].state
      /\ threads'[n].hw => threads[n].hw
      /\ threads'[n].hwaccel_threadsafe = threads[n].hwaccel_threadsafe
      /\ threads'[n].hwaccel_serializing = threads[n].hwaccel_serializing
      /\ threads'[n].async_serializing = threads[n].async_serializing
  <2>0. threads[n].pc \in Waiting
    BY <1>3 DEF ThreadState
  <2>1. CASE Kill
    <3>1. PICK place \in Waiting :
            threads' = [threads EXCEPT ![n].die = TRUE, ![n].pc = place]
      <4>1. (IF threads[n].pc = "asleep" THEN "lock" ELSE threads[n].pc) \in Waiting
        BY <2>0 DEF Waiting
      <4> QED
        BY <1>2, <2>1, <4>1, Zenon DEF Kill
    <3> QED
      BY <1>3, <3>1 DEF ThreadType
  <2>2. CASE Join
    <3>1. threads' = [threads EXCEPT ![n].hw = FALSE]
      BY <1>2, <2>2, Zenon DEF Join
    <3> QED
      BY <1>3, <2>0, <3>1 DEF ThreadType
  <2> QED
    BY <2>1, <2>2
<1>6. UserOwner
  BY <1>1 DEF UserOwner
<1> QED
  BY <1>a, <1>3, <1>4, <1>5, <1>6, IdleKept

LEMMA HwPark ==
  ASSUME HwInv, Park
  PROVE  HwInv'
<1>a. OrderInv'
  BY OrderPark DEF HwInv
<1>1. user.at = "park"
  BY DEF Park
<1>2. user \in [at : Parking \cup Returning, finished : 0 .. N, then : {"flush", "kill"}]
  BY <1>1 DEF HwInv, OrderInv, TypeOK, UserType, Calling, Parking, Returning
<1>3. /\ codec' = codec /\ hwaccel_mutex' = hwaccel_mutex
      /\ stash' => stash
      /\ async_lock => async_lock'
  BY DEF Park
<1>4. CASE user.finished = N
  <2>1. threads' = threads /\ user' = [user EXCEPT !.at = "finish"]
    BY <1>4 DEF Park, Goto
  <2>2. [user EXCEPT !.at = "finish"].at = "finish"
    BY <1>2
  <2>3. ~UserOwner'
    BY <2>1, <2>2 DEF UserOwner
  <2>4. StashInv'
    BY <1>3, <2>1 DEF HwInv, StashInv
  <2> QED
    BY <1>a, <1>3, <2>1, <2>3, <2>4, HwByIdle
<1>5. CASE user.finished # N
  <2>1. PICK n \in Worker : n = user.finished
    BY <1>2, <1>5, ThreadAssumption DEF Worker
  <2>2. /\ threads[n].state = "INPUT_READY" /\ threads \in [Worker -> ThreadType]
        /\ threads[n] \in ThreadType /\ ThreadState(threads[n])
    BY <1>5, <2>1 DEF Park, HwInv, OrderInv, TypeOK, StateInv
  <2>3. PICK r \in {"none", "frame", "error"} : threads' = [threads EXCEPT ![n].result = r]
    <3>1. (IF threads[n].result = "frame" THEN "none" ELSE threads[n].result)
            \in {"none", "frame", "error"}
      BY <2>2 DEF ThreadType
    <3> QED
      BY <1>5, <2>1, <3>1, Zenon DEF Park
  <2>4. /\ \A k \in Worker \ {n} : threads'[k] = threads[k]
        /\ threads'[n].pc = threads[n].pc /\ threads'[n].state = threads[n].state
        /\ threads'[n].hw = threads[n].hw
        /\ threads'[n].hwaccel_threadsafe = threads[n].hwaccel_threadsafe
        /\ threads'[n].hwaccel_serializing = threads[n].hwaccel_serializing
        /\ threads'[n].async_serializing = threads[n].async_serializing
    BY <2>2, <2>3 DEF ThreadType
  <2>5. threads'[n].pc \in Waiting
    BY <2>2, <2>4 DEF ThreadState
  <2>6. ~UserOwner'
    <3>1. PICK d : user' = [user EXCEPT !.finished = d]
      BY <1>5, <2>1, Zenon DEF Park
    <3>2. user'.at = "park"
      BY <1>1, <1>2, <3>1
    <3> QED
      BY <3>2 DEF UserOwner
  <2> QED
    BY <1>a, <1>3, <2>2, <2>4, <2>5, <2>6, IdleKept
<1> QED
  BY <1>4, <1>5

LEMMA HwFlush ==
  ASSUME HwInv, Flush
  PROVE  HwInv'
<1>a. OrderInv'
  BY OrderFlush DEF HwInv
<1>1. user.at = "flush" /\ AllReady /\ 0 \in Worker
  <2>1. user.at = "flush"
    BY Zenon DEF Flush
  <2> QED
    BY <2>1, ThreadAssumption DEF HwInv, OrderInv, UserInv, Worker
<1>2. threads \in [Worker -> ThreadType] /\ codec \in Codecs
  BY DEF HwInv, OrderInv, TypeOK
<1>3. \A k \in Worker : Idle(threads[k])
  BY <1>1, IdleReady DEF AllReady
<1>4. PICK p \in ThreadType :
        /\ Idle(p) /\ p.state = "INPUT_READY"
        /\ threads' = [i \in Worker |-> [(IF i = 0 THEN p ELSE threads[i])
                                           EXCEPT !.job = 0, !.result = "none"]]
  <2>1. CASE prev_thread \in {None, 0}
    <3>1. threads' = [i \in Worker |-> [(IF i = 0 THEN threads[0] ELSE threads[i])
                                          EXCEPT !.job = 0, !.result = "none"]]
      BY <2>1, Zenon DEF Flush
    <3>2. threads[0] \in ThreadType /\ Idle(threads[0]) /\ threads[0].state = "INPUT_READY"
      BY <1>1, <1>2, <1>3 DEF AllReady
    <3> QED
      BY <3>1, <3>2, Zenon
  <2>2. CASE prev_thread \notin {None, 0}
    <3> DEFINE src == threads[prev_thread]
               dst == threads[0]
    <3>1. /\ src \in ThreadType /\ dst \in ThreadType /\ Idle(dst)
          /\ dst.state = "INPUT_READY"
          /\ src.hwaccel_threadsafe => codec.hw = "safe"
      BY <1>1, <1>2, <1>3, <2>2 DEF HwInv, OrderInv, TypeOK, HwThread, AllReady
    <3>2. PICK p \in {Updated(dst, src)}
                      \cup {[q EXCEPT !.ctx = Forgot] : q \in Botched(dst, src)} :
            threads' = [i \in Worker |-> [(IF i = 0 THEN p ELSE threads[i])
                                            EXCEPT !.job = 0, !.result = "none"]]
      BY <2>2, Zenon DEF Flush
    <3> HIDE DEF src, dst
    <3>3. CASE p = Updated(dst, src)
      <4>1. Updated(dst, src) \in ThreadType
        BY <1>2, <3>1, UpdateShape, Zenon DEF Kept
      <4>2. Idle(Updated(dst, src)) /\ Updated(dst, src).state = "INPUT_READY"
        BY <3>1, IdleUpdated
      <4> QED
        BY <3>2, <3>3, <4>1, <4>2, Zenon
    <3>4. ASSUME NEW q \in Botched(dst, src), p = [q EXCEPT !.ctx = Forgot]
          PROVE  p \in ThreadType /\ Idle(p) /\ p.state = "INPUT_READY"
      <4>1. Forgot \in Int
        BY DEF Forgot
      <4>2. Kept(dst, q)
        BY <1>2, <3>1, UpdateShape, Zenon
      <4>3. q \in ThreadType
        BY <4>2 DEF Kept
      <4>4. Kept(q, p)
        BY <3>4, <4>1, <4>3, Keeping, Zenon
      <4>5. Idle([q EXCEPT !.ctx = Forgot])
        BY <3>1, <4>1, IdleUpdated
      <4> QED
        BY <3>1, <3>4, <4>2, <4>4, <4>5, Zenon DEF Kept
    <3> QED
      BY <3>2, <3>3, <3>4, Zenon
  <2> QED
    BY <2>1, <2>2
<1>5. ASSUME NEW k \in Worker, NEW q \in ThreadType, Idle(q), q.state = "INPUT_READY",
             threads'[k] = [q EXCEPT !.job = 0, !.result = "none"]
      PROVE  Idle(threads'[k]) /\ threads'[k].state = "INPUT_READY"
  <2> DEFINE r == [q EXCEPT !.job = 0, !.result = "none"]
  <2>1. Idle(r) /\ r.state = "INPUT_READY"
    BY <1>5 DEF Idle, ThreadType
  <2> QED
    BY <1>5, <2>1, Zenon
<1>6. ASSUME NEW k \in Worker
      PROVE  Idle(threads'[k]) /\ threads'[k].state = "INPUT_READY"
  <2>1. CASE k = 0
    <3>1. threads'[k] = [p EXCEPT !.job = 0, !.result = "none"]
      BY <1>4, <2>1, Zenon
    <3> QED
      BY <1>4, <1>5, <3>1, Zenon
  <2>2. CASE k # 0
    <3>1. threads'[k] = [threads[k] EXCEPT !.job = 0, !.result = "none"]
      BY <1>4, <2>2, Zenon
    <3>2. threads[k] \in ThreadType /\ threads[k].state = "INPUT_READY"
      BY <1>1, <1>2 DEF AllReady
    <3> QED
      BY <1>3, <1>5, <3>1, <3>2, Zenon
  <2> QED
    BY <2>1, <2>2
<1>7. /\ codec' = codec /\ hwaccel_mutex' = hwaccel_mutex
      /\ stash' => stash
      /\ async_lock => async_lock'
  BY DEF Flush
<1>8. \A k \in Worker : Idle(threads[k])'
  BY <1>6, <1>7 DEF Idle
<1>9. StashInv'
  BY <1>6, <1>7 DEF HwInv, StashInv
<1>10. UserOwner
  BY <1>1 DEF UserOwner
<1> QED
  BY <1>a, <1>3, <1>7, <1>8, <1>9, <1>10, HwByIdle

LEMMA HwInit == Init => HwInv
<1> SUFFICES ASSUME Init PROVE HwInv
  OBVIOUS
<1>1. OrderInv
  BY OrderInit
<1>2. \A i \in Worker : threads[i] = Thread
  BY DEF Init
<1>3. Idle(Thread)
  BY DEF Idle, Thread, Waiting
<1>4. \A i \in Worker : HwThread(i) /\ AsyncThread(i) /\ ~AsyncOwner(i)
  BY <1>2, <1>3, IdleHolds
<1> QED
  BY <1>1, <1>4 DEF HwInv, OwnerInv, StashInv, Init

LEMMA HwStep ==
  ASSUME "serial" \notin RefFailsWith
  PROVE  HwInv /\ [Next]_vars => HwInv'
<1> SUFFICES ASSUME HwInv, [Next]_vars PROVE HwInv'
  OBVIOUS
<1>1. CASE Call
  BY <1>1, HwUserStep DEF Call
<1>2. CASE UserStep
  BY <1>2, HwUserStep, HwRefused, HwHandOver, HwCollect, HwPark, HwFlush, HwDying
     DEF UserStep
<1>3. ASSUME NEW i \in Worker, WorkerStep(i) PROVE HwInv'
  BY <1>3, HwWorkerStep, HwByWorker
<1>4. CASE Gone \/ UNCHANGED vars
  BY <1>4, HwUserStep DEF Gone
<1> QED
  BY <1>1, <1>2, <1>3, <1>4 DEF Next

-----------------------------------------------------------------------------
LEMMA HwInvExclusive ==
  ASSUME HwInv
  PROVE  HwExclusive
<1>1. ASSUME codec.hw = "serial", NEW i \in Worker, NEW k \in Worker, HasHw(i), HasHw(k)
      PROVE  i = k
  <2>1. HwThread(i) /\ HwThread(k)
    BY DEF HwInv
  <2> QED
    BY <1>1, <2>1 DEF HwThread, HasHw, Decoding
<1>2. ASSUME ~codec.async_safe, user.at = "idle", NEW i \in Worker, Using(i)
      PROVE  FALSE
  <2>1. AsyncThread(i) /\ ~AsyncOwner(i)
    BY <1>2 DEF HwInv, OwnerInv, UserOwner
  <2> QED
    BY <1>2, <2>1 DEF AsyncThread, AsyncOwner, Using, HasHw, Decoding
<1> QED
  BY <1>1, <1>2 DEF HwExclusive

LEMMA HwInvNoAbort ==
  ASSUME HwInv
  PROVE  NoAbort
<1>1. ASSUME NEW i \in Worker
      PROVE  LET p == threads[i] IN
             /\ p.pc = "serial" => ~p.hwaccel_serializing
             /\ p.pc = "async unlock" => ~hwaccel_serial(p)
             /\ p.pc = "stash" => ~stash
             /\ p.pc = "async unlock" /\ p.async_serializing => async_lock
  <2>1. HwThread(i) /\ (AsyncOwner(i) => async_lock) /\ ThreadState(threads[i])
    BY DEF HwInv, OwnerInv, OrderInv, StateInv
  <2>2. threads[i].pc = "stash" => ~stash
    BY <2>1 DEF HwInv, StashInv, ThreadState, Finishing
  <2> QED
    BY <2>1, <2>2 DEF HwThread, AsyncOwner, hwaccel_serial, Decoding, Finishing
<1>2. user.at \in {"idle", "kill", "join"} => async_lock
  BY DEF HwInv, OwnerInv, UserOwner
<1>3. ASSUME user.at = "update"
      PROVE  threads[next_decoding].hw => threads[next_decoding].hwaccel_threadsafe
  <2>1. PICK n \in Worker : n = next_decoding
    BY <1>3, NextDiffers DEF HwInv, Submitting
  <2>2. Idle(threads[n]) /\ threads[n].state = "INPUT_READY"
    BY <1>3, <2>1, HwSource
  <2> QED
    BY <2>1, <2>2 DEF Idle
<1>4. ASSUME user.at = "flush"
      PROVE  threads[0].hw => threads[0].hwaccel_threadsafe
  <2>1. 0 \in Worker /\ threads[0].state = "INPUT_READY"
    BY <1>4, ThreadAssumption DEF HwInv, OrderInv, UserInv, AllReady, Worker
  <2>2. Idle(threads[0])
    BY <2>1, IdleReady
  <2> QED
    BY <2>1, <2>2 DEF Idle
<1> QED
  BY <1>1, <1>2, <1>3, <1>4 DEF NoAbort

\* hwaccel_mutex and the stash pass an accelerator that is not thread-safe from
\* one frame_worker_thread to the next, and async_lock keeps one that is not
\* async-safe inside the calls: with any number of threads no two of them have
\* it while they decode, and none uses it while the user is away.
THEOREM HwExclusiveCorrect ==
  ASSUME "serial" \notin RefFailsWith
  PROVE  Spec => []HwExclusive
<1>1. Init => HwInv
  BY HwInit
<1>2. HwInv /\ [Next]_vars => HwInv'
  BY HwStep
<1>3. HwInv => HwExclusive
  BY HwInvExclusive
<1> QED
  BY <1>1, <1>2, <1>3, PTL DEF Spec

\* The assertions of pthread_frame.c on the state of accelerators and locks
\* hold wherever they stand, with any number of threads.
THEOREM NoAbortCorrect ==
  ASSUME "serial" \notin RefFailsWith
  PROVE  Spec => []NoAbort
<1>1. Init => HwInv
  BY HwInit
<1>2. HwInv /\ [Next]_vars => HwInv'
  BY HwStep
<1>3. HwInv => NoAbort
  BY HwInvNoAbort
<1> QED
  BY <1>1, <1>2, <1>3, PTL DEF Spec

-----------------------------------------------------------------------------
(* The refinement of FrameQueue.                                           *)

\* How far worker i is behind worker f, and the worker d places behind f.
Dist(f, i) == IF i >= f THEN i - f ELSE i - f + N
Nth(f, d) == IF f + d < N THEN f + d ELSE f + d - N

LEMMA RingShape ==
  ASSUME NEW f \in Worker
  PROVE  /\ \A i \in Worker : Dist(f, i) \in Worker /\ Nth(f, Dist(f, i)) = i
         /\ \A d \in Worker : Nth(f, d) \in Worker /\ Dist(f, Nth(f, d)) = d
         /\ \A i \in Worker : Dist(f, i) = 0 <=> i = f
BY ThreadAssumption DEF Dist, Nth, Worker

LEMMA NextShape ==
  ASSUME NEW f \in Worker
  PROVE  /\ (f + 1) % N = IF f + 1 = N THEN 0 ELSE f + 1
         /\ (f + 1) % N \in Worker
         /\ \A i \in Worker : Dist((f + 1) % N, i) = IF i = f THEN N - 1 ELSE Dist(f, i) - 1
         /\ \A g \in Worker : g # (f + 1) % N => Dist(g, (f + 1) % N) = Dist(g, f) + 1
         /\ Dist((f + 1) % N, f) = N - 1
<1>1. f + 1 \in 0 .. N
  BY ThreadAssumption DEF Worker
<1>2. PICK h \in Worker : h = (f + 1) % N /\ h = IF f + 1 = N THEN 0 ELSE f + 1
  BY <1>1, Wrap, WrapNext
<1>3. /\ \A i \in Worker : Dist(h, i) = IF i = f THEN N - 1 ELSE Dist(f, i) - 1
      /\ \A g \in Worker : g # h => Dist(g, h) = Dist(g, f) + 1
      /\ Dist(h, f) = N - 1
  BY <1>2, ThreadAssumption DEF Dist, Worker
<1> QED
  BY <1>2, <1>3

LEMMA NearCount ==
  ASSUME NEW f \in Worker, NEW m \in 0 .. N
  PROVE  /\ IsFiniteSet({i \in Worker : Dist(f, i) < m})
         /\ Cardinality({i \in Worker : Dist(f, i) < m}) = m
<1> DEFINE Near == {i \in Worker : Dist(f, i) < m}
           g == [x \in 1 .. m |-> Nth(f, x - 1)]
<1>1. \A x \in 1 .. m : x - 1 \in Worker /\ x - 1 < m
  BY ThreadAssumption DEF Worker
<1>2. \A x \in 1 .. m : g[x] \in Near /\ Dist(f, g[x]) = x - 1
  BY <1>1, RingShape
<1>3. \A i \in Near : Dist(f, i) + 1 \in 1 .. m /\ g[Dist(f, i) + 1] = i
  <2> SUFFICES ASSUME NEW i \in Near
               PROVE  Dist(f, i) + 1 \in 1 .. m /\ g[Dist(f, i) + 1] = i
    OBVIOUS
  <2>1. PICK d \in Worker : d = Dist(f, i) /\ d < m /\ Nth(f, d) = i
    BY RingShape
  <2>2. d + 1 \in 1 .. m /\ (d + 1) - 1 = d
    BY <2>1, ThreadAssumption DEF Worker
  <2>3. g[d + 1] = i
    BY <2>1, <2>2
  <2> QED
    BY <2>1, <2>2, <2>3
<1>4. g \in [1 .. m -> Near]
  BY <1>2
<1> HIDE DEF g, Near
<1>5. \A x, y \in 1 .. m : g[x] = g[y] => x = y
  <2> SUFFICES ASSUME NEW x \in 1 .. m, NEW y \in 1 .. m, g[x] = g[y] PROVE x = y
    OBVIOUS
  <2>1. x - 1 = y - 1
    BY <1>2
  <2> QED
    BY <2>1
<1>6. g \in Bijection(1 .. m, Near)
  BY <1>3, <1>4, <1>5 DEF Bijection, Injection, Surjection, IsInjective
<1>7. ExistsBijection(1 .. m, Near)
  BY <1>6 DEF ExistsBijection
<1>8. IsFiniteSet(1 .. m) /\ Cardinality(1 .. m) = m
  <2>1. Cardinality(1 .. m) = (IF 1 > m THEN 0 ELSE m - 1 + 1) /\ IsFiniteSet(1 .. m)
    BY FS_Interval, ThreadAssumption
  <2> QED
    BY <2>1
<1>9. IsFiniteSet(Near) /\ Cardinality(Near) = m
  BY <1>7, <1>8, FS_Bijection
<1> QED
  BY <1>9 DEF Near

-----------------------------------------------------------------------------
\* The user of the queue sees of a worker no more than this.
Answer(p) == IF p.state = "INPUT_READY" THEN p.result ELSE "pending"

\* The n packets inside, c the last of them, are with the workers from f on.
HeldIn(ts, c, f, n) ==
  \A i \in Worker : ts[i].job = IF Dist(f, i) < n THEN c - n + 1 + Dist(f, i) ELSE 0
View(ts, c, f, n) ==
  [k \in 1 .. n |-> [number |-> c - n + k, outcome |-> Answer(ts[Nth(f, k - 1)])]]

\* Inside, by the threads it depends on.
BusyOf(ts) == {i \in Worker : ts[i].job # 0}
OlderOf(ts, i) == {j \in BusyOf(ts) : ts[j].job <= ts[i].job}
PickOf(ts, k) == CHOOSE i \in BusyOf(ts) : Cardinality(OlderOf(ts, i)) = k
InsideOf(ts) ==
  [k \in 1 .. Cardinality(BusyOf(ts)) |->
     [number |-> ts[PickOf(ts, k)].job, outcome |-> Answer(ts[PickOf(ts, k)])]]

LEMMA InsideStates == Inside = InsideOf(threads) /\ Inside' = InsideOf(threads')
BY DEF Inside, Busy, InsideOf, BusyOf, OlderOf, PickOf, Answer

LEMMA InsideView ==
  ASSUME NEW ts, NEW c \in Nat, NEW f \in Worker, NEW n \in 0 .. N, n <= c,
         HeldIn(ts, c, f, n)
  PROVE  InsideOf(ts) = View(ts, c, f, n)
<1>1. BusyOf(ts) = {i \in Worker : Dist(f, i) < n}
  <2>1. ASSUME NEW i \in Worker PROVE ts[i].job # 0 <=> Dist(f, i) < n
    <3>1. PICK d \in Worker : d = Dist(f, i)
      BY RingShape
    <3>2. ts[i].job = IF d < n THEN c - n + 1 + d ELSE 0
      BY <3>1 DEF HeldIn
    <3>3. d < n => c - n + 1 + d # 0
      BY ThreadAssumption DEF Worker
    <3> QED
      BY <3>1, <3>2, <3>3
  <2> QED
    BY <2>1 DEF BusyOf
<1>2. Cardinality(BusyOf(ts)) = n
  BY <1>1, NearCount
<1>3. ASSUME NEW i \in BusyOf(ts) PROVE Cardinality(OlderOf(ts, i)) = Dist(f, i) + 1
  <2>1. PICK d \in Worker : d = Dist(f, i) /\ d < n /\ i \in Worker
    BY <1>1, RingShape
  <2>2. ASSUME NEW j \in Worker PROVE j \in OlderOf(ts, i) <=> Dist(f, j) < d + 1
    <3>1. PICK e \in Worker : e = Dist(f, j)
      BY RingShape
    <3>2. j \in BusyOf(ts) <=> e < n
      BY <1>1, <3>1
    <3>3. /\ ts[i].job = c - n + 1 + d
          /\ e < n => ts[j].job = c - n + 1 + e
      BY <2>1, <3>1 DEF HeldIn
    <3>4. c - n + 1 + e <= c - n + 1 + d <=> e < d + 1
      BY ThreadAssumption DEF Worker
    <3>5. e < d + 1 => e < n
      BY <2>1, ThreadAssumption DEF Worker
    <3> QED
      BY <3>1, <3>2, <3>3, <3>4, <3>5 DEF OlderOf
  <2>3. OlderOf(ts, i) = {j \in Worker : Dist(f, j) < d + 1}
    BY <2>2 DEF OlderOf, BusyOf
  <2>4. d + 1 \in 0 .. N
    BY ThreadAssumption DEF Worker
  <2> QED
    BY <2>1, <2>3, <2>4, NearCount
<1>4. ASSUME NEW k \in 1 .. n
      PROVE  PickOf(ts, k) = Nth(f, k - 1) /\ ts[Nth(f, k - 1)].job = c - n + k
  <2>1. PICK d \in Worker : d = k - 1 /\ d < n /\ d + 1 = k
    BY ThreadAssumption DEF Worker
  <2>2. PICK h \in Worker : h = Nth(f, d) /\ Dist(f, h) = d
    <3>1. Nth(f, d) \in Worker /\ Dist(f, Nth(f, d)) = d
      BY RingShape
    <3> QED
      BY <3>1, Zenon
  <2>3. h \in BusyOf(ts) /\ Cardinality(OlderOf(ts, h)) = k
    BY <1>1, <1>3, <2>1, <2>2
  <2>4. ASSUME NEW i \in BusyOf(ts), Cardinality(OlderOf(ts, i)) = k PROVE i = h
    <3>1. PICK e \in Worker : e = Dist(f, i) /\ e + 1 = k /\ i = Nth(f, e)
      BY <1>1, <1>3, <2>4, RingShape
    <3>2. e = d
      BY <2>1, <3>1 DEF Worker
    <3> QED
      BY <2>2, <3>1, <3>2
  <2>5. PickOf(ts, k) = h
    BY <2>3, <2>4, Zenon DEF PickOf
  <2>6. ts[h].job = c - n + 1 + d
    BY <2>1, <2>2 DEF HeldIn
  <2>7. c - n + 1 + d = c - n + k
    BY <2>1 DEF Worker
  <2> QED
    BY <2>1, <2>2, <2>5, <2>6, <2>7
<1> QED
  BY <1>2, <1>4, Zenon DEF InsideOf, View

-----------------------------------------------------------------------------
\* The ring of workers: the packets inside are with n workers from First on,
\* and the next packet goes to the worker after them, unless the stream ends.
First == IF user.at \in Collecting THEN user.finished ELSE next_finished
Drained(n) == \/ ret = <<"eof">>
              \/ n = 0 /\ user.at \in Collecting /\ ~user.size
Ring(n) ==
  /\ n <= count /\ HeldIn(threads, count, First, n)
  /\ n = N => user.at \in Collecting
  /\ user.at \in Collecting => n + Dist(next_finished, user.finished) <= N
  /\ user.at \in Collecting /\ user.size => n > 0
  /\ \/ Drained(n)
     \/ next_decoding = First + n
     \/ next_decoding = First + n - N
  /\ delaying /\ ~draining
       => next_finished = 0 /\ next_decoding = n /\ user.at \notin Collecting
RingInv == \E n \in 0 .. N : Ring(n)

\* The locals of a call agree with what the user has been told.
CallInv ==
  /\ user.at \in Calling \ Collecting => user.finished = next_finished
  /\ user.at \in Calling => user.size = ~draining /\ ret # <<"eof">>
  /\ ret = <<"eof">> => draining

ResultInv ==
  \A i \in Worker : threads[i].job = 0
    => threads[i].state = "INPUT_READY" /\ threads[i].result = "none"

QueueInv == RingInv /\ CallInv /\ ResultInv

\* A step after which the user is in the same call.
SameCall ==
  /\ user'.at \in Collecting <=> user.at \in Collecting
  /\ user'.at \in Calling <=> user.at \in Calling
  /\ user.at \in Calling => user'.finished = user.finished /\ user'.size = user.size
  /\ Leaving' <=> Leaving
SameAnswer(i) == /\ threads'[i].job = threads[i].job
                 /\ Answer(threads'[i]) = Answer(threads[i])
SameRing ==
  UNCHANGED <<next_decoding, next_finished, delaying, draining, count, ret>>

LEMMA CallShape ==
  ASSUME OrderInv
  PROVE  /\ user.at \in Calling => user \in [at : Calling \cup Returning, size : BOOLEAN,
                                             finished : Worker, then : {"idle"}]
         /\ First \in Worker
<1>1. user.at \in Calling => user \in [at : Calling \cup Returning, size : BOOLEAN,
                                       finished : Worker, then : {"idle"}]
  BY DEF OrderInv, TypeOK, UserType, Calling, Parking, Returning
<1>2. user.at \in Collecting => user.finished \in Worker
  BY <1>1 DEF Collecting, Calling
<1> QED
  BY <1>1, <1>2 DEF First, OrderInv, TypeOK

LEMMA WokenCall ==
  ASSUME OrderInv, UserWoken
  PROVE  SameCall
<1> USE DEF UserWoken, SameCall, Leaving, UserType, Calling, Parking, Returning, Collecting
<1>1. CASE user \in [at : {"idle", "flush", "gone"}]
  BY <1>1
<1>2. CASE user \in [at : Calling \cup Returning, size : BOOLEAN, finished : Worker,
                      then : {"idle"}]
  BY <1>2
<1>3. CASE user \in [at : Parking \cup Returning, finished : 0 .. N,
                      then : {"flush", "kill"}]
  BY <1>3
<1>4. CASE user \in [at : {"kill"}, finished : 0 .. N]
  BY <1>4
<1>5. CASE user \in [at : {"join"}, finished : Worker]
  BY <1>5
<1> QED
  BY <1>1, <1>2, <1>3, <1>4, <1>5 DEF OrderInv, TypeOK

\* While the ring and the call stand still, only answers change.
LEMMA SteadyInv ==
  ASSUME OrderInv, CallInv, NEW n \in 0 .. N, Ring(n), SameCall, SameRing,
         \A i \in Worker : threads'[i].job = threads[i].job
  PROVE  Ring(n)' /\ CallInv' /\ First' = First
<1>1. Collecting \subseteq Calling
  BY DEF Collecting, Calling
<1>2. First' = First
  BY <1>1 DEF First, SameCall, SameRing
<1>3. HeldIn(threads, count, First, n)'
  BY <1>2 DEF Ring, HeldIn, SameRing
<1>4. Drained(n) => Drained(n)'
  BY <1>1 DEF Drained, SameCall, SameRing
<1>5. Ring(n)'
  BY <1>1, <1>2, <1>3, <1>4 DEF Ring, SameCall, SameRing
<1>6. CallInv'
  BY <1>1 DEF CallInv, SameCall, SameRing
<1> QED
  BY <1>2, <1>5, <1>6

LEMMA RingInside ==
  ASSUME OrderInv, NEW n \in 0 .. N, Ring(n)
  PROVE  Inside = View(threads, count, First, n)
<1>1. First \in Worker /\ count \in Nat /\ n <= count
  BY CallShape DEF OrderInv, TypeOK, Ring
<1> QED
  BY <1>1, InsideView, InsideStates DEF Ring

LEMMA RingInsideNext ==
  ASSUME OrderInv', NEW n \in 0 .. N, Ring(n)'
  PROVE  Inside' = View(threads', count', First', n)
<1>0. user'.at \in Collecting => user'.finished \in Worker
  BY DEF OrderInv, TypeOK, UserType, Calling, Parking, Returning, Collecting
<1>1. First' \in Worker /\ count' \in Nat /\ n <= count'
  BY <1>0 DEF OrderInv, TypeOK, Ring, First
<1>2. HeldIn(threads', count', First', n)
  BY DEF Ring
<1> DEFINE f == First'
           c == count'
<1>3. f \in Worker /\ c \in Nat /\ n <= c /\ HeldIn(threads', c, f, n)
  BY <1>1, <1>2
<1> HIDE DEF f, c
<1>4. InsideOf(threads') = View(threads', c, f, n)
  BY <1>3, InsideView
<1> QED
  BY <1>4, InsideStates DEF f, c

LEMMA Steady ==
  ASSUME OrderInv, OrderInv', QueueInv, SameCall, SameRing,
         \A i \in Worker : SameAnswer(i)
  PROVE  QueueInv' /\ UNCHANGED Queue!vars
<1>1. PICK n \in 0 .. N : Ring(n)
  BY DEF QueueInv, RingInv
<1>2. Ring(n)' /\ CallInv' /\ First' = First
  BY <1>1, SteadyInv DEF QueueInv, SameAnswer
<1>3. ResultInv'
  <2> SUFFICES ASSUME NEW i \in Worker, threads'[i].job = 0
               PROVE  threads'[i].state = "INPUT_READY" /\ threads'[i].result = "none"
    BY DEF ResultInv
  <2>1. threads[i].state = "INPUT_READY" /\ threads[i].result = "none"
    BY DEF QueueInv, ResultInv, SameAnswer
  <2> QED
    BY <2>1 DEF SameAnswer, Answer
<1>4. View(threads', count', First', n) = View(threads, count, First, n)
  <2>1. \A k \in 1 .. n : Nth(First, k - 1) \in Worker
    <3>1. First \in Worker
      BY CallShape
    <3>2. \A k \in 1 .. n : k - 1 \in Worker
      BY ThreadAssumption DEF Worker
    <3> QED
      BY <3>1, <3>2, RingShape
  <2>2. \A k \in 1 .. n : Answer(threads'[Nth(First, k - 1)]) = Answer(threads[Nth(First, k - 1)])
    BY <2>1 DEF SameAnswer
  <2> QED
    BY <1>2, <2>2 DEF View, SameRing
<1>5. Inside' = Inside
  BY <1>1, <1>2, <1>4, RingInside, RingInsideNext
<1>6. Leaving' = Leaving
  BY Zenon DEF SameCall, Leaving
<1>7. RingInv'
  BY <1>2 DEF RingInv
<1> QED
  BY <1>2, <1>3, <1>5, <1>6, <1>7 DEF QueueInv, Queue!vars, SameRing

-----------------------------------------------------------------------------
LEMMA OutcomeExcept ==
  ASSUME NEW S, NEW V, NEW W, NEW k \in S, NEW a, NEW b, NEW o,
         V = [j \in S |-> V[j]], W = [j \in S |-> W[j]],
         \A j \in S \ {k} : W[j] = V[j],
         V[k] = [number |-> a, outcome |-> b], W[k] = [number |-> a, outcome |-> o]
  PROVE  W = [V EXCEPT ![k].outcome = o]
<1>1. [V EXCEPT ![k].outcome = o][k] = [number |-> a, outcome |-> o]
  OBVIOUS
<1>2. \A j \in S : [V EXCEPT ![k].outcome = o][j] = W[j]
  BY <1>1
<1> QED
  BY <1>2

\* The answer of one worker changes: an outcome inside the queue does.
LEMMA OneAnswer ==
  ASSUME OrderInv, OrderInv', QueueInv, SameCall, SameRing, NEW i \in Worker,
         threads[i].job # 0, threads'[i].job = threads[i].job,
         \A k \in Worker \ {i} : SameAnswer(k)
  PROVE  /\ QueueInv'
         /\ \E k \in DOMAIN Inside :
              /\ Inside[k].outcome = Answer(threads[i])
              /\ Inside' = [Inside EXCEPT ![k].outcome = Answer(threads'[i])]
<1>1. PICK n \in 0 .. N : Ring(n)
  BY DEF QueueInv, RingInv
<1>2. Ring(n)' /\ CallInv' /\ First' = First
  BY <1>1, SteadyInv DEF QueueInv, SameAnswer
<1>3. ResultInv'
  <2> SUFFICES ASSUME NEW k \in Worker, threads'[k].job = 0
               PROVE  threads'[k].state = "INPUT_READY" /\ threads'[k].result = "none"
    BY DEF ResultInv
  <2>1. k # i /\ SameAnswer(k)
    OBVIOUS
  <2>2. threads[k].state = "INPUT_READY" /\ threads[k].result = "none"
    BY <2>1 DEF QueueInv, ResultInv, SameAnswer
  <2> QED
    BY <2>1, <2>2 DEF SameAnswer, Answer
<1>4. PICK f \in Worker : f = First
  BY CallShape
<1>5. PICK d \in Worker : d = Dist(f, i) /\ Nth(f, d) = i
  <2>1. Dist(f, i) \in Worker /\ Nth(f, Dist(f, i)) = i
    BY RingShape
  <2> QED
    BY <2>1, Zenon
<1>6. d < n
  BY <1>1, <1>4, <1>5 DEF Ring, HeldIn
<1>7. PICK k \in 1 .. n : k = d + 1 /\ k - 1 = d
  BY <1>6, ThreadAssumption DEF Worker
<1> DEFINE V == View(threads, count, f, n)
           W == View(threads', count, f, n)
<1>8. Inside = V /\ Inside' = W
  BY <1>1, <1>2, <1>4, RingInside, RingInsideNext DEF SameRing
<1>9. /\ V[k] = [number |-> count - n + k, outcome |-> Answer(threads[i])]
      /\ W[k] = [number |-> count - n + k, outcome |-> Answer(threads'[i])]
  BY <1>5, <1>7 DEF View
<1>10. \A j \in (1 .. n) \ {k} : W[j] = V[j]
  <2> SUFFICES ASSUME NEW j \in (1 .. n) \ {k} PROVE W[j] = V[j]
    OBVIOUS
  <2>1. PICK e \in Worker : e = j - 1 /\ e # d
    BY <1>7, ThreadAssumption DEF Worker
  <2>2. Nth(f, e) \in Worker /\ Dist(f, Nth(f, e)) = e
    BY RingShape
  <2>3. Nth(f, e) \in Worker \ {i}
    BY <1>5, <2>1, <2>2
  <2>4. Answer(threads'[Nth(f, e)]) = Answer(threads[Nth(f, e)])
    BY <2>3 DEF SameAnswer
  <2> QED
    BY <2>1, <2>4 DEF View
<1>11. /\ V = [j \in 1 .. n |-> V[j]] /\ W = [j \in 1 .. n |-> W[j]]
       /\ DOMAIN V = 1 .. n
  BY DEF View
<1> HIDE DEF V, W
<1>12. W = [V EXCEPT ![k].outcome = Answer(threads'[i])]
  <2> DEFINE S == 1 .. n
             a == count - n + k
             b == Answer(threads[i])
             o == Answer(threads'[i])
  <2>1. /\ k \in S /\ V = [j \in S |-> V[j]] /\ W = [j \in S |-> W[j]]
        /\ \A j \in S \ {k} : W[j] = V[j]
        /\ V[k] = [number |-> a, outcome |-> b] /\ W[k] = [number |-> a, outcome |-> o]
    BY <1>9, <1>10, <1>11
  <2> HIDE DEF S, a, b, o
  <2>2. W = [V EXCEPT ![k].outcome = o]
    BY <2>1, OutcomeExcept
  <2> QED
    BY <2>2 DEF o
<1>13. V[k].outcome = Answer(threads[i])
  BY <1>9
<1>14. \E x \in DOMAIN Inside : /\ Inside[x].outcome = Answer(threads[i])
                                /\ Inside' = [Inside EXCEPT ![x].outcome = Answer(threads'[i])]
  BY <1>8, <1>11, <1>12, <1>13, Zenon
<1>15. RingInv'
  BY <1>2 DEF RingInv
<1> QED
  BY <1>2, <1>3, <1>14, <1>15 DEF QueueInv

LEMMA QueueWorkerStep ==
  ASSUME OrderInv, OrderInv', QueueInv, NEW i \in Worker, WorkerStep(i)
  PROVE  QueueInv' /\ [Queue!Next]_Queue!vars
<1>1. OthersMove(i) /\ OrderMove(i)
  BY OrderWorkerStep
<1>2. SameCall
  BY <1>1, WokenCall DEF OthersMove
<1>3. SameRing
  <2>1. UNCHANGED client /\ UNCHANGED fctx
    BY DEF WorkerStep, Input, Begin, Serial, Setup, Await, Decoded, Unlock, AsyncUnlock,
           Ready, Finish, AsyncLock, Stash
  <2> QED
    BY <2>1 DEF SameRing, client, fctx
<1>4. \A k \in Worker \ {i} : SameAnswer(k)
  BY <1>1 DEF OthersMove, Woken, SameAnswer, Answer
<1>5. threads'[i].job = threads[i].job
  BY <1>1 DEF OrderMove
<1>6. CASE threads'[i].state # "INPUT_READY" \/ threads[i].state = "INPUT_READY"
  <2>1. SameAnswer(i)
    BY <1>1, <1>6 DEF OrderMove, SameAnswer, Answer
  <2> QED
    BY <1>2, <1>3, <1>4, <2>1, Steady
<1>7. CASE threads'[i].state = "INPUT_READY" /\ threads[i].state # "INPUT_READY"
  <2>1. /\ threads[i].job # 0
        /\ Answer(threads[i]) = "pending"
        /\ Answer(threads'[i]) \in {"none", "frame", "error"}
    <3>1. threads[i] \in ThreadType
      BY DEF OrderInv, TypeOK
    <3> QED
      BY <1>1, <1>7, <3>1 DEF QueueInv, ResultInv, OrderMove, Answer, ThreadType
  <2>2. /\ QueueInv'
        /\ \E k \in DOMAIN Inside :
             /\ Inside[k].outcome = "pending"
             /\ Inside' = [Inside EXCEPT ![k].outcome = Answer(threads'[i])]
    BY <1>2, <1>3, <1>4, <1>5, <2>1, OneAnswer
  <2>3. Leaving' = Leaving
    BY <1>2, Zenon DEF SameCall, Leaving
  <2>4. Queue!Decode
    BY <1>3, <2>1, <2>2, <2>3, Zenon DEF Queue!Decode, Queue!Outcome, SameRing
  <2> QED
    BY <2>2, <2>4, Zenon DEF Queue!Next
<1> QED
  BY <1>6, <1>7

-----------------------------------------------------------------------------
\* A step that leaves a worker's record to itself.
LEMMA SameRecord ==
  ASSUME NEW i \in Worker,
         threads'[i].job = threads[i].job /\ threads'[i].state = threads[i].state,
         threads'[i].result = threads[i].result
  PROVE  SameAnswer(i)
BY DEF SameAnswer, Answer

LEMMA QueueSteadyStep ==
  ASSUME OrderInv, OrderInv', QueueInv,
         Prev \/ Wait \/ Lock \/ Kill \/ Join \/ Freed \/ UNCHANGED vars
  PROVE  QueueInv' /\ UNCHANGED Queue!vars
<1>1. SameRing
  BY DEF Prev, Wait, Lock, Kill, Join, Freed, vars, SameRing, client, fctx
<1>2. ASSUME NEW i \in Worker PROVE SameAnswer(i)
  <2>0. threads \in [Worker -> ThreadType] /\ threads[i] \in ThreadType
    BY DEF OrderInv, TypeOK
  <2>1. CASE UNCHANGED threads
    BY <2>1 DEF SameAnswer, Answer
  <2>2. CASE Kill
    <3>1. PICK n, place :
            threads' = [threads EXCEPT ![n].die = TRUE, ![n].pc = place]
      BY <2>2, Zenon DEF Kill
    <3>2. /\ threads'[i].job = threads[i].job /\ threads'[i].state = threads[i].state
          /\ threads'[i].result = threads[i].result
      BY <2>0, <3>1 DEF ThreadType
    <3> QED
      BY <3>2, SameRecord
  <2>3. CASE Join
    <3>1. PICK n : threads' = [threads EXCEPT ![n].hw = FALSE]
      BY <2>3, Zenon DEF Join
    <3>2. /\ threads'[i].job = threads[i].job /\ threads'[i].state = threads[i].state
          /\ threads'[i].result = threads[i].result
      BY <2>0, <3>1 DEF ThreadType
    <3> QED
      BY <3>2, SameRecord
  <2> QED
    BY <2>1, <2>2, <2>3 DEF Prev, Wait, Lock, Freed, vars
<1>3. SameCall
  <2> USE DEF SameCall, Leaving, Calling, Parking, Returning, Collecting
  <2>0. UserType
    BY DEF OrderInv, TypeOK
  <2>1. CASE Prev
    <3>1. PICK place \in {"prev asleep", "update"} : user' = [user EXCEPT !.at = place]
      BY <2>1, Zenon DEF Prev, Goto
    <3>2. user \in [at : Calling \cup Returning, size : BOOLEAN, finished : Worker,
                    then : {"idle"}]
      BY <2>0, <2>1 DEF Prev, UserType
    <3> QED
      BY <2>1, <3>1, <3>2 DEF Prev
  <2>2. CASE Wait
    <3>1. \/ user.at = "collect" /\ user' = [user EXCEPT !.at = "collect asleep"]
          \/ user.at = "park" /\ user' = [user EXCEPT !.at = "park asleep"]
      BY <2>2, Zenon DEF Wait, Goto
    <3>2. \/ user \in [at : Calling \cup Returning, size : BOOLEAN, finished : Worker,
                       then : {"idle"}]
          \/ user \in [at : Parking \cup Returning, finished : 0 .. N,
                       then : {"flush", "kill"}]
      BY <2>0, <3>1 DEF UserType
    <3> QED
      BY <3>1, <3>2
  <2>3. CASE Lock
    <3>1. \/ user' = [user EXCEPT !.at = "finish asleep"]
          \/ user.then = "kill" /\ user' = [at |-> "kill", finished |-> 0]
          \/ user.then # "kill" /\ user' = [at |-> user.then]
      BY <2>3, Zenon DEF Lock
    <3>2. \/ user \in [at : Calling \cup Returning, size : BOOLEAN, finished : Worker,
                       then : {"idle"}]
          \/ user \in [at : Parking \cup Returning, finished : 0 .. N,
                       then : {"flush", "kill"}]
      BY <2>0, <2>3 DEF Lock, UserType
    <3> QED
      BY <2>3, <3>1, <3>2 DEF Lock
  <2>4. CASE Kill \/ Join
    <3>0. user.at \in {"kill", "join"}
      BY <2>4 DEF Kill, Join
    <3>1. \/ user \in [at : {"kill"}, finished : 0 .. N]
          \/ user \in [at : {"join"}, finished : Worker]
      BY <2>0, <3>0 DEF UserType
    <3>2. \/ user' = [user EXCEPT !.at = "join"]
          \/ \E d : user' = [user EXCEPT !.at = "kill", !.finished = d]
      BY <2>4, Zenon DEF Kill, Join, Goto
    <3> QED
      BY <3>1, <3>2
  <2>5. CASE Freed
    BY <2>5 DEF Freed
  <2>6. CASE UNCHANGED vars
    BY <2>6 DEF vars
  <2> QED
    BY <2>1, <2>2, <2>3, <2>4, <2>5, <2>6
<1> QED
  BY <1>1, <1>2, <1>3, Steady

\* Between two calls, and before a call collects: the ring keeps its packets.
LEMMA Aside ==
  ASSUME OrderInv, OrderInv', QueueInv, user.at \notin Collecting,
         \A i \in Worker : SameAnswer(i),
         UNCHANGED <<next_decoding, next_finished, count>>,
         ret = <<"eof">> => ret' = <<"eof">>,
         delaying' /\ ~draining' => delaying /\ ~draining /\ user'.at \notin Collecting,
         user'.at \in Collecting => user'.finished = next_finished /\ ~user'.size
  PROVE  RingInv' /\ ResultInv' /\ Inside' = Inside
<1>1. PICK n \in 0 .. N : Ring(n)
  BY DEF QueueInv, RingInv
<1>2. First = next_finished /\ First' = First /\ next_finished \in Worker
  BY DEF First, OrderInv, TypeOK
<1>3. HeldIn(threads, count, First, n)'
  BY <1>1, <1>2 DEF Ring, HeldIn, SameAnswer
<1>4. n # N
  BY <1>1 DEF Ring
<1>5. Dist(next_finished, next_finished) = 0
  BY <1>2, RingShape
<1>6. user'.at \in Collecting => n + Dist(next_finished', user'.finished) <= N
  <2> SUFFICES ASSUME user'.at \in Collecting
               PROVE  n + Dist(next_finished', user'.finished) <= N
    OBVIOUS
  <2>1. Dist(next_finished', user'.finished) = 0
    BY <1>5
  <2> QED
    BY <2>1, ThreadAssumption
<1>7. Drained(n) => Drained(n)'
  BY DEF Drained
<1>8. Ring(n)'
  BY <1>1, <1>2, <1>3, <1>4, <1>6, <1>7 DEF Ring
<1>9. ResultInv'
  <2> SUFFICES ASSUME NEW i \in Worker, threads'[i].job = 0
               PROVE  threads'[i].state = "INPUT_READY" /\ threads'[i].result = "none"
    BY DEF ResultInv
  <2>1. threads[i].state = "INPUT_READY" /\ threads[i].result = "none"
    BY DEF QueueInv, ResultInv, SameAnswer
  <2> QED
    BY <2>1 DEF SameAnswer, Answer
<1>10. View(threads', count', First', n) = View(threads, count, First, n)
  <2>1. \A k \in 1 .. n : Nth(First, k - 1) \in Worker
    <3>1. First \in Worker
      BY CallShape
    <3>2. \A k \in 1 .. n : k - 1 \in Worker
      BY ThreadAssumption DEF Worker
    <3> QED
      BY <3>1, <3>2, RingShape
  <2>2. \A k \in 1 .. n : Answer(threads'[Nth(First, k - 1)]) = Answer(threads[Nth(First, k - 1)])
    BY <2>1 DEF SameAnswer
  <2> QED
    BY <1>2, <2>2 DEF View
<1>11. Inside' = Inside
  BY <1>1, <1>8, <1>10, RingInside, RingInsideNext
<1> QED
  BY <1>8, <1>9, <1>11 DEF RingInv

\* A call opens.
LEMMA QueueCall ==
  ASSUME OrderInv, OrderInv', QueueInv, Call
  PROVE  QueueInv' /\ [Queue!Next]_Queue!vars
<1>1. /\ threads \in [Worker -> ThreadType] /\ user = [at |-> "idle"]
      /\ threads' = WakeAsync(threads)
  BY DEF Call, Decode, Leave, Enter, OrderInv, TypeOK
<1>2. ASSUME NEW i \in Worker PROVE SameAnswer(i)
  <2>1. Woken(threads[i], threads'[i])
    BY <1>1, WakeShape, ThreadAssumption, Zenon DEF Worker
  <2> QED
    BY <2>1, SameRecord DEF Woken
<1>3. UNCHANGED <<next_decoding, next_finished, count, ret, delaying>>
  BY DEF Call, Decode, Leave, Enter, client, fctx
<1>4. user.at \notin Collecting /\ user.at \notin Calling /\ ~Leaving
  BY <1>1 DEF Collecting, Calling, Leaving
<1>5. CASE \E size \in BOOLEAN : Decode(size)
  <2>1. PICK size \in BOOLEAN : Decode(size)
    BY <1>5
  <2>2. /\ user' = [at |-> "submit", size |-> size, finished |-> next_finished, then |-> "idle"]
        /\ draining' = ~size
        /\ size => ~draining
        /\ ~size => ret # <<"eof">>
    BY <2>1 DEF Decode, Enter
  <2>3. user'.at = "submit" /\ user'.size = size /\ user'.finished = next_finished
    BY <2>2
  <2>4. user'.at \notin Collecting /\ ~Leaving'
    BY <2>3 DEF Collecting, Leaving
  <2>5. RingInv' /\ ResultInv' /\ Inside' = Inside
    BY <1>2, <1>3, <1>4, <2>2, <2>4, Aside
  <2>6. CallInv'
    BY <1>3, <2>2, <2>3 DEF QueueInv, CallInv
  <2>7. Leaving' = Leaving
    BY <1>4, <2>4, Zenon DEF Leaving
  <2> QED
    BY <1>3, <2>5, <2>6, <2>7 DEF QueueInv, Queue!vars
<1>6. CASE \E then \in {"flush", "kill"} : Leave(then)
  <2>1. PICK then \in {"flush", "kill"} : Leave(then)
    BY <1>6
  <2>2. user' = [at |-> "park", finished |-> 0, then |-> then] /\ draining' = draining
    BY <2>1 DEF Leave, Enter, client
  <2>3. user'.at = "park"
    BY <2>2
  <2>4. user'.at \notin Collecting /\ user'.at \notin Calling /\ Leaving'
    BY <2>3 DEF Collecting, Calling, Leaving
  <2>5. RingInv' /\ ResultInv' /\ Inside' = Inside
    BY <1>2, <1>3, <1>4, <2>2, <2>4, Aside
  <2>6. CallInv'
    BY <1>3, <2>2, <2>4 DEF QueueInv, CallInv
  <2>7. Leaving' = TRUE
    BY <2>4, Zenon DEF Leaving
  <2>8. Queue!BeginFlush
    BY <1>3, <2>5, <2>7 DEF Queue!BeginFlush
  <2> QED
    BY <2>5, <2>6, <2>8 DEF QueueInv, Queue!Next
<1> QED
  BY <1>5, <1>6 DEF Call

\* A packet that is refused.
LEMMA QueueRefuse ==
  ASSUME OrderInv, OrderInv', QueueInv, user.at \in Calling \ Collecting,
         \A i \in Worker : SameAnswer(i), Return(<<"refused">>),
         UNCHANGED <<fctx, draining, count>>
  PROVE  QueueInv' /\ [Queue!Next]_Queue!vars
<1>1. user \in [at : Calling \cup Returning, size : BOOLEAN, finished : Worker,
                then : {"idle"}]
  BY CallShape
<1>2. ret' = <<"refused">> /\ user' = [user EXCEPT !.at = "finish"] /\ ret # <<"eof">>
  BY DEF Return, Goto, QueueInv, CallInv
<1>3. user'.at = "finish" /\ user'.then = "idle" /\ user.then = "idle"
  BY <1>1, <1>2
<1>4. /\ user'.at \notin Collecting /\ user'.at \notin Calling /\ ~Leaving' /\ ~Leaving
  BY <1>3 DEF Collecting, Calling, Leaving
<1>5. RingInv' /\ ResultInv' /\ Inside' = Inside
  BY <1>2, <1>4, Aside DEF fctx
<1>6. CallInv'
  BY <1>2, <1>4 DEF CallInv
<1>7. Leaving' = Leaving
  BY <1>4, Zenon DEF Leaving
<1>8. Queue!Refuse
  BY <1>2, <1>5, <1>7 DEF Queue!Refuse
<1> QED
  BY <1>5, <1>6, <1>8 DEF QueueInv, Queue!Next

LEMMA QueueSubmit ==
  ASSUME OrderInv, OrderInv', QueueInv, NoSubmit \/ Submit \/ UpdateFails \/ RefFails
  PROVE  QueueInv' /\ [Queue!Next]_Queue!vars
<1>1. user.at \in {"submit", "update"}
  BY DEF NoSubmit, Submit, UpdateFails, RefFails
<1>2. user.at \in Calling \ Collecting
  BY <1>1 DEF Calling, Collecting
<1>3. user \in [at : Calling \cup Returning, size : BOOLEAN, finished : Worker,
                then : {"idle"}]
  BY <1>2, CallShape
<1>4. CASE NoSubmit
  <2>1. \A i \in Worker : SameAnswer(i)
    BY <1>4 DEF NoSubmit, SameAnswer, Answer
  <2>2. /\ user' = [user EXCEPT !.at = "collect"] /\ ~user.size
        /\ delaying' => delaying
        /\ UNCHANGED <<next_decoding, next_finished, count, ret, draining>>
    BY <1>4 DEF NoSubmit, Submitted, Goto
  <2>3. user'.at = "collect" /\ user'.size = user.size /\ user'.finished = user.finished
    BY <1>3, <2>2
  <2>4. /\ user.finished = next_finished /\ draining /\ ret # <<"eof">>
        /\ user.size = ~draining
    BY <1>2, <2>2 DEF QueueInv, CallInv
  <2>5. RingInv' /\ ResultInv' /\ Inside' = Inside
    BY <1>2, <2>1, <2>2, <2>3, <2>4, Aside
  <2>6. CallInv'
    BY <2>2, <2>3, <2>4 DEF CallInv, Collecting
  <2>7. Leaving' = Leaving
    BY <1>1, <2>3, Zenon DEF Leaving
  <2> QED
    BY <2>2, <2>5, <2>6, <2>7 DEF QueueInv, Queue!vars
<1>5. CASE Submit
  <2>1. \A i \in Worker : SameAnswer(i)
    BY <1>5 DEF Submit, SameAnswer, Answer
  <2>2. CASE Return(<<"refused">>)
    BY <1>2, <1>5, <2>1, <2>2, QueueRefuse DEF Submit
  <2>3. CASE Goto("prev") /\ UNCHANGED ret
    <3>1. user' = [user EXCEPT !.at = "prev"]
      BY <2>3 DEF Goto
    <3>2. SameCall
      BY <1>2, <1>3, <3>1 DEF SameCall, Calling, Collecting, Leaving
    <3>3. SameRing
      BY <1>5, <2>3 DEF Submit, SameRing, fctx
    <3> QED
      BY <2>1, <3>2, <3>3, Steady
  <2> QED
    BY <1>5, <2>2, <2>3, Zenon DEF Submit
<1>6. CASE UpdateFails \/ RefFails
  <2>1. user.at \in Submitting
    BY <1>6 DEF UpdateFails, RefFails, Submitting
  <2>2. PICK n \in Worker : n = next_decoding
    BY <2>1, NextDiffers
  <2>3. PICK q : threads' = [threads EXCEPT ![n] = q] /\ Kept(threads[n], q)
    BY <1>6, <2>2, RefusedShape, Zenon
  <2>4. \A i \in Worker : SameAnswer(i)
    BY <2>3 DEF OrderInv, TypeOK, Kept, SameAnswer, Answer
  <2>5. Return(<<"refused">>) /\ UNCHANGED <<fctx, draining, count>>
    BY <1>6 DEF UpdateFails, RefFails
  <2> QED
    BY <1>2, <2>4, <2>5, QueueRefuse
<1> QED
  BY <1>4, <1>5, <1>6

-----------------------------------------------------------------------------
\* W is V, of length m, with e behind it.
Longer(S, m, V, e, W) ==
  /\ m \in Nat /\ V \in [1 .. m -> S] /\ e \in S
  /\ W = [j \in 1 .. m + 1 |-> W[j]]
  /\ \A j \in 1 .. m : W[j] = V[j]
  /\ W[m + 1] = e

LEMMA AppendOne ==
  ASSUME NEW S, NEW m, NEW V, NEW e, NEW W, Longer(S, m, V, e, W)
  PROVE  Len(V) = m /\ W = Append(V, e)
<1> USE DEF Longer
<1>1. V \in Seq(S) /\ Len(V) = m
  OBVIOUS
<1>2. /\ Append(V, e) \in Seq(S) /\ Len(Append(V, e)) = m + 1
      /\ \A j \in 1 .. m : Append(V, e)[j] = V[j]
      /\ Append(V, e)[m + 1] = e
  BY <1>1, AppendProperties
<1>3. \A j \in 1 .. m + 1 : W[j] \in S /\ W[j] = Append(V, e)[j]
  <2> SUFFICES ASSUME NEW j \in 1 .. m + 1
               PROVE  W[j] \in S /\ W[j] = Append(V, e)[j]
    OBVIOUS
  <2>1. CASE j = m + 1
    BY <1>2, <2>1
  <2>2. CASE j # m + 1
    <3>1. j \in 1 .. m
      BY <2>2
    <3> QED
      BY <1>2, <3>1
  <2> QED
    BY <2>1, <2>2
<1>4. W \in Seq(S) /\ Len(W) = m + 1
  <2>1. W \in [1 .. m + 1 -> S]
    BY <1>3
  <2> QED
    BY <2>1
<1> QED
  BY <1>1, <1>2, <1>3, <1>4, SeqEqual

\* W is V, of length m, without its head.
Shorter(S, m, V, W) ==
  /\ m \in Nat /\ m > 0 /\ V \in [1 .. m -> S]
  /\ W = [j \in 1 .. m - 1 |-> V[j + 1]]

LEMMA TailOne ==
  ASSUME NEW S, NEW m, NEW V, NEW W, Shorter(S, m, V, W)
  PROVE  V # <<>> /\ Head(V) = V[1] /\ Tail(V) = W /\ (m = 1 => W = <<>>)
<1> USE DEF Shorter
<1>1. V \in Seq(S) /\ Len(V) = m
  OBVIOUS
<1>2. V # <<>> /\ Head(V) = V[1]
  BY <1>1
<1>3. /\ Tail(V) \in Seq(S) /\ Len(Tail(V)) = m - 1
      /\ \A j \in 1 .. m - 1 : Tail(V)[j] = V[j + 1]
  BY <1>1, <1>2, HeadTailProperties
<1>4. W \in Seq(S) /\ Len(W) = m - 1 /\ \A j \in 1 .. m - 1 : W[j] = V[j + 1]
  <2>1. W \in [1 .. m - 1 -> S] /\ m - 1 \in Nat
    OBVIOUS
  <2> QED
    BY <2>1
<1>5. Tail(V) = W
  BY <1>3, <1>4, SeqEqual
<1>6. m = 1 => W = <<>>
  BY <1>4
<1> QED
  BY <1>2, <1>5, <1>6

Packet == [number : Int, outcome : {"none", "frame", "error", "pending"}]

LEMMA ViewType ==
  ASSUME NEW ts \in [Worker -> ThreadType], NEW c \in Nat, NEW f \in Worker, NEW n \in 0 .. N
  PROVE  View(ts, c, f, n) \in [1 .. n -> Packet]
<1> SUFFICES ASSUME NEW k \in 1 .. n
             PROVE  [number |-> c - n + k, outcome |-> Answer(ts[Nth(f, k - 1)])] \in Packet
  BY DEF View
<1>1. k - 1 \in Worker
  BY ThreadAssumption DEF Worker
<1>2. Nth(f, k - 1) \in Worker
  BY <1>1, RingShape
<1>3. PICK w \in Worker : w = Nth(f, k - 1)
  BY <1>2
<1>4. Answer(ts[w]) \in {"none", "frame", "error", "pending"}
  BY DEF Answer, ThreadType
<1>5. c - n + k \in Int
  BY ThreadAssumption
<1> QED
  BY <1>3, <1>4, <1>5 DEF Packet

LEMMA QueueHandOver ==
  ASSUME OrderInv, OrderInv', QueueInv, HandOver
  PROVE  QueueInv' /\ [Queue!Next]_Queue!vars
<1>1. /\ user.at = "update" /\ user.at \in Submitting /\ user.at \in Calling
      /\ user.at \notin Collecting
  BY DEF HandOver, Submitting, Calling, Collecting
<1>2. user \in [at : Calling \cup Returning, size : BOOLEAN, finished : Worker,
                then : {"idle"}]
  BY <1>1, CallShape
<1>3. /\ user.finished = next_finished /\ user.size = ~draining /\ ret # <<"eof">>
      /\ count \in Nat /\ threads \in [Worker -> ThreadType]
  BY <1>1 DEF QueueInv, CallInv, OrderInv, TypeOK
<1>4. PICK m \in 0 .. N : Ring(m)
  BY DEF QueueInv, RingInv
<1>5. PICK f \in Worker : f = next_finished /\ f = First
  BY <1>1, CallShape DEF First
<1>6. PICK w \in Worker : w = next_decoding
  BY <1>1, NextDiffers
<1>7. m \in Worker /\ w = Nth(f, m) /\ Dist(f, w) = m
  <2>1. m # N
    BY <1>1, <1>4 DEF Ring
  <2>2. w = f + m \/ w = f + m - N
    BY <1>1, <1>3, <1>4, <1>5, <1>6 DEF Ring, Drained
  <2>3. m \in Worker
    BY <2>1, ThreadAssumption DEF Worker
  <2>4. w = Nth(f, m)
    BY <2>2, <2>3, ThreadAssumption DEF Worker, Nth
  <2> QED
    BY <2>3, <2>4, RingShape
<1>8. PICK q \in ThreadType :
        /\ threads' = [threads EXCEPT ![w] = q]
        /\ q.state = "SETTING_UP" /\ q.job = count + 1
  BY <1>6, HandOverShape, Zenon
<1>9. /\ count' = count + 1 /\ next_finished' = next_finished /\ draining' = draining
      /\ next_decoding' = w + 1 /\ delaying' \in BOOLEAN /\ Submitted(w + 1)
  BY <1>6, HandOverShape, Zenon
<1>10. /\ delaying' => delaying
       /\ \/ /\ delaying' /\ user.size /\ ret' = <<"none">>
             /\ user' = [user EXCEPT !.at = "finish"]
          \/ /\ ~(delaying' /\ user.size) /\ ret' = ret
             /\ user' = [user EXCEPT !.at = "collect"]
  BY <1>9 DEF Submitted, Return, Goto
<1>11. /\ user'.at \in {"finish", "collect"} /\ user'.finished = user.finished
       /\ user'.size = user.size /\ user'.then = "idle" /\ user.then = "idle"
       /\ user'.at = "finish" <=> (delaying' /\ user.size)
  BY <1>2, <1>10
<1>12. First' = f
  BY <1>3, <1>5, <1>9, <1>11 DEF First
<1>13. HeldIn(threads', count', f, m + 1)
  <2> SUFFICES ASSUME NEW i \in Worker
               PROVE  threads'[i].job = IF Dist(f, i) < m + 1
                                          THEN count' - (m + 1) + 1 + Dist(f, i) ELSE 0
    BY DEF HeldIn
  <2>1. PICK d \in Worker : d = Dist(f, i) /\ i = Nth(f, d)
    <3>1. Dist(f, i) \in Worker /\ i = Nth(f, Dist(f, i))
      BY RingShape
    <3> QED
      BY <3>1, Zenon
  <2>2. CASE i = w
    <3>1. threads'[i].job = count + 1 /\ d = m
      BY <1>3, <1>7, <1>8, <2>1, <2>2
    <3>2. count' - (m + 1) + 1 + d = count + 1 /\ d < m + 1
      BY <1>3, <1>9, <3>1, ThreadAssumption DEF Worker
    <3> QED
      BY <2>1, <3>1, <3>2
  <2>3. CASE i # w
    <3>1. threads'[i].job = IF d < m THEN count - m + 1 + d ELSE 0
      BY <1>3, <1>4, <1>5, <1>8, <2>1, <2>3 DEF Ring, HeldIn
    <3>2. d # m
      BY <1>7, <2>1, <2>3
    <3>3. /\ d < m <=> d < m + 1
          /\ count' - (m + 1) + 1 + d = count - m + 1 + d
      BY <1>3, <1>9, <3>2, ThreadAssumption DEF Worker
    <3> QED
      BY <2>1, <3>1, <3>3
  <2> QED
    BY <2>2, <2>3
<1>14. delaying' /\ ~draining' => user'.at = "finish" /\ next_finished = 0 /\ w = m
  BY <1>1, <1>3, <1>4, <1>6, <1>9, <1>10, <1>11 DEF Ring
<1>15. m + 1 = N => user'.at \in Collecting
  <2> SUFFICES ASSUME user'.at = "finish" PROVE m + 1 # N
    BY <1>11 DEF Collecting
  <2>1. w = m
    BY <1>3, <1>9, <1>11, <1>14
  <2>2. next_decoding' # N
    BY DEF OrderInv, TypeOK, Collecting
  <2> QED
    BY <1>9, <2>1, <2>2
<1>16. PICK k \in 0 .. N : k = m + 1
  BY <1>7, ThreadAssumption DEF Worker
<1>17. Ring(k)'
  <2>1. k <= count' /\ HeldIn(threads', count', First', k)
    BY <1>3, <1>4, <1>9, <1>12, <1>13, <1>16 DEF Ring
  <2>2. user'.at \in Collecting => k + Dist(next_finished', user'.finished) <= N
    <3>1. Dist(f, f) = 0
      BY RingShape
    <3>2. k + Dist(f, f) <= N
      BY <3>1, ThreadAssumption
    <3> QED
      BY <1>3, <1>5, <1>9, <1>11, <3>2
  <2>3. next_decoding' = First' + k \/ next_decoding' = First' + k - N
    <3>1. w = f + m \/ w = f + m - N
      BY <1>7 DEF Nth
    <3> QED
      BY <1>9, <1>12, <1>16, <3>1, ThreadAssumption DEF Worker
  <2>4. k > 0
    BY <1>16
  <2>5. delaying' /\ ~draining'
          => next_finished' = 0 /\ next_decoding' = k /\ user'.at \notin Collecting
    BY <1>9, <1>14, <1>16 DEF Collecting
  <2> QED
    BY <1>15, <1>16, <2>1, <2>2, <2>3, <2>4, <2>5 DEF Ring
<1>18. CallInv'
  <2>1. ret' # <<"eof">>
    BY <1>3, <1>10
  <2>2. user'.size = ~draining'
    BY <1>3, <1>9, <1>11
  <2> QED
    BY <1>11, <2>1, <2>2 DEF CallInv, Calling, Collecting
<1>19. ResultInv'
  BY <1>3, <1>8 DEF QueueInv, ResultInv
<1>20. Queue!Accept
  <2> DEFINE V == View(threads, count, f, m)
             W == View(threads', count', f, k)
             e == [number |-> count + 1, outcome |-> "pending"]
  <2>1. Inside = V /\ Inside' = W
    BY <1>4, <1>5, <1>12, <1>17, RingInside, RingInsideNext
  <2>2. V \in [1 .. m -> Packet] /\ e \in Packet
    BY SMTT(60), <1>3, ViewType DEF Packet
  <2>3. W = [j \in 1 .. m + 1 |-> W[j]]
    BY <1>16 DEF View
  <2>4. \A j \in 1 .. m : W[j] = V[j]
    <3> SUFFICES ASSUME NEW j \in 1 .. m PROVE W[j] = V[j]
      OBVIOUS
    <3>1. PICK d \in Worker : d = j - 1 /\ d # m
      BY ThreadAssumption DEF Worker
    <3>2. Nth(f, d) \in Worker /\ Nth(f, d) # w
      BY <1>7, <3>1, RingShape
    <3>3. threads'[Nth(f, d)] = threads[Nth(f, d)]
      BY <1>3, <1>8, <3>2
    <3>4. count' - k + j = count - m + j /\ j \in 1 .. k
      BY <1>3, <1>9, <1>16, ThreadAssumption
    <3> QED
      BY <3>1, <3>3, <3>4 DEF View
  <2>5. W[m + 1] = e
    <3>1. threads'[Nth(f, m)] = q
      BY <1>3, <1>7, <1>8
    <3>2. count' - k + (m + 1) = count + 1 /\ m + 1 \in 1 .. k /\ (m + 1) - 1 = m
      BY <1>3, <1>9, <1>16, ThreadAssumption
    <3>3. Answer(q) = "pending"
      BY <1>8 DEF Answer
    <3> QED
      BY <3>1, <3>2, <3>3 DEF View
  <2>6. m \in Nat /\ m < N
    BY <1>7, ThreadAssumption DEF Worker
  <2> HIDE DEF V, W, e
  <2>7. Len(V) = m /\ W = Append(V, e)
    <3>1. Longer(Packet, m, V, e, W)
      BY <2>2, <2>3, <2>4, <2>5, <2>6 DEF Longer
    <3> QED
      BY <3>1, AppendOne, Zenon
  <2>8. Leaving' = Leaving
    <3>1. ~Leaving /\ ~Leaving'
      BY <1>1, <1>11 DEF Leaving
    <3> QED
      BY <3>1, Zenon DEF Leaving
  <2>9. ret' \in {ret, <<"none">>}
    BY <1>10
  <2> QED
    BY <1>9, <2>1, <2>6, <2>7, <2>8, <2>9 DEF Queue!Accept, e
<1> QED
  BY <1>17, <1>18, <1>19, <1>20 DEF QueueInv, RingInv, Queue!Next

LEMMA EmptyView ==
  ASSUME NEW ts, NEW c, NEW f
  PROVE  View(ts, c, f, 0) = <<>>
<1>1. 1 .. 0 = {}
  OBVIOUS
<1>2. View(ts, c, f, 0) \in [{} -> {}]
  BY <1>1 DEF View
<1> QED
  BY <1>1, <1>2

LEMMA QueuePark ==
  ASSUME OrderInv, OrderInv', QueueInv, Park
  PROVE  QueueInv' /\ [Queue!Next]_Queue!vars
<1>1. /\ user.at = "park"
      /\ user \in [at : Parking \cup Returning, finished : 0 .. N, then : {"flush", "kill"}]
      /\ threads \in [Worker -> ThreadType]
  BY DEF Park, OrderInv, TypeOK, UserType, Calling, Parking, Returning
<1>2. SameRing
  BY DEF Park, SameRing, fctx, client
<1>3. CASE user.finished = N
  <2>1. user' = [user EXCEPT !.at = "finish"] /\ threads' = threads
    BY <1>3 DEF Park, Goto
  <2>2. user'.at = "finish" /\ user'.then \in {"flush", "kill"}
    BY <1>1, <2>1
  <2>3. SameCall
    BY <1>1, <2>2 DEF SameCall, Collecting, Calling, Leaving
  <2>4. \A i \in Worker : SameAnswer(i)
    BY <2>1 DEF SameAnswer, Answer
  <2> QED
    BY <1>2, <2>3, <2>4, Steady
<1>4. CASE user.finished # N
  <2>1. PICK i \in Worker : i = user.finished
    BY <1>1, <1>4, ThreadAssumption DEF Worker
  <2>2. /\ threads[i].state = "INPUT_READY"
        /\ threads' = [threads EXCEPT ![i].result = IF @ = "frame" THEN "none" ELSE @]
    BY <1>4, <2>1, Zenon DEF Park
  <2>3. SameCall
    <3>1. \E d : user' = [user EXCEPT !.finished = d]
      BY <1>4, Zenon DEF Park
    <3>2. user'.at = "park"
      BY <1>1, <3>1
    <3> QED
      BY <1>1, <3>2 DEF SameCall, Collecting, Calling, Leaving
  <2>4. \A k \in Worker \ {i} : SameAnswer(k)
    BY <1>1, <2>2 DEF SameAnswer, Answer
  <2>5. /\ threads'[i].job = threads[i].job /\ threads'[i].state = "INPUT_READY"
        /\ threads'[i].result = IF threads[i].result = "frame" THEN "none"
                                                               ELSE threads[i].result
    BY <1>1, <2>2 DEF ThreadType
  <2>6. CASE threads[i].result = "frame"
    <3>1. threads[i].job # 0
      BY <2>6 DEF QueueInv, ResultInv
    <3>2. Answer(threads'[i]) = "none"
      BY <2>5, <2>6 DEF Answer
    <3>3. /\ QueueInv'
          /\ \E k \in DOMAIN Inside : Inside' = [Inside EXCEPT ![k].outcome = "none"]
      BY <1>2, <2>3, <2>4, <2>5, <3>1, <3>2, OneAnswer
    <3>4. Leaving /\ Leaving' = Leaving
      <4>1. Leaving
        BY <1>1 DEF Leaving
      <4> QED
        BY <2>3, <4>1, Zenon DEF SameCall, Leaving
    <3>5. Queue!Forget
      BY <1>2, <3>3, <3>4, Zenon DEF Queue!Forget, SameRing
    <3> QED
      BY <3>3, <3>5, Zenon DEF Queue!Next
  <2>7. CASE threads[i].result # "frame"
    <3>1. SameAnswer(i)
      BY <2>2, <2>5, <2>7 DEF SameAnswer, Answer
    <3> QED
      BY <1>2, <2>3, <2>4, <3>1, Steady
  <2> QED
    BY <2>6, <2>7
<1> QED
  BY <1>3, <1>4

LEMMA QueueFlush ==
  ASSUME OrderInv, OrderInv', QueueInv, Flush
  PROVE  QueueInv' /\ [Queue!Next]_Queue!vars
<1>1. /\ user.at = "flush" /\ AllReady /\ 0 \in Worker
      /\ threads \in [Worker -> ThreadType] /\ count \in Nat
  <2>1. user.at = "flush"
    BY Zenon DEF Flush
  <2> QED
    BY <2>1, ThreadAssumption DEF OrderInv, TypeOK, UserInv, Worker
<1>2. /\ next_decoding' = 0 /\ next_finished' = 0 /\ draining' = FALSE
      /\ ret' = <<"none">> /\ user' = [at |-> "idle"] /\ count' = count
  BY DEF Flush
<1>3. user'.at = "idle"
  BY <1>2
<1>4. PICK p \in ThreadType :
        /\ p.state = threads[0].state
        /\ threads' = [i \in Worker |-> [(IF i = 0 THEN p ELSE threads[i])
                                           EXCEPT !.job = 0, !.result = "none"]]
  BY FlushedFirst, Zenon
<1>5. ASSUME NEW i \in Worker
      PROVE  /\ threads'[i].job = 0 /\ threads'[i].result = "none"
             /\ threads'[i].state = "INPUT_READY"
  <2>1. ASSUME NEW q \in ThreadType, q.state = "INPUT_READY",
               threads'[i] = [q EXCEPT !.job = 0, !.result = "none"]
        PROVE  /\ threads'[i].job = 0 /\ threads'[i].result = "none"
               /\ threads'[i].state = "INPUT_READY"
    <3> DEFINE r == [q EXCEPT !.job = 0, !.result = "none"]
    <3>1. r.job = 0 /\ r.result = "none" /\ r.state = "INPUT_READY"
      BY <2>1 DEF ThreadType
    <3> QED
      BY <2>1, <3>1, Zenon
  <2>2. CASE i = 0
    <3>1. threads'[i] = [p EXCEPT !.job = 0, !.result = "none"]
      BY <1>4, <2>2, Zenon
    <3>2. p.state = "INPUT_READY"
      BY <1>1, <1>4 DEF AllReady
    <3> QED
      BY <2>1, <3>1, <3>2, Zenon
  <2>3. CASE i # 0
    <3>1. threads'[i] = [threads[i] EXCEPT !.job = 0, !.result = "none"]
      BY <1>4, <2>3, Zenon
    <3>2. threads[i] \in ThreadType /\ threads[i].state = "INPUT_READY"
      BY <1>1 DEF AllReady
    <3> QED
      BY <2>1, <3>1, <3>2, Zenon
  <2> QED
    BY <2>2, <2>3
<1>6. First' = 0
  BY <1>2, <1>3 DEF First, Collecting
<1>7. HeldIn(threads', count', 0, 0)
  <2>1. \A i \in Worker : ~(Dist(0, i) < 0)
    BY <1>1, RingShape, ThreadAssumption DEF Worker
  <2> QED
    BY <1>5, <2>1 DEF HeldIn
<1>8. 0 \in 0 .. N /\ 0 # N /\ 0 <= count' /\ next_decoding' = First' + 0
  BY <1>1, <1>2, <1>6, ThreadAssumption
<1>9. Ring(0)'
  BY <1>2, <1>3, <1>6, <1>7, <1>8 DEF Ring, Collecting
<1>10. CallInv'
  BY <1>2, <1>3 DEF CallInv, Calling
<1>11. ResultInv'
  BY <1>5 DEF ResultInv
<1>12. Inside' = <<>>
  <2>1. Inside' = View(threads', count', First', 0)
    BY <1>8, <1>9, RingInsideNext
  <2> QED
    BY <2>1, EmptyView
<1>13. Leaving /\ Leaving' = FALSE
  <2>1. Leaving /\ ~Leaving'
    BY <1>1, <1>3 DEF Leaving
  <2> QED
    BY <2>1, Zenon DEF Leaving
<1>14. Queue!EndFlush
  BY <1>2, <1>12, <1>13 DEF Queue!EndFlush
<1>15. RingInv'
  BY <1>8, <1>9 DEF RingInv
<1> QED
  BY <1>10, <1>11, <1>14, <1>15 DEF QueueInv, Queue!Next

\* The oldest worker gives its packet up.
Collected(f, m, h, k) ==
  /\ f \in Worker /\ f = user.finished /\ m \in 0 .. N /\ Ring(m)
  /\ h \in Worker /\ h = (f + 1) % N
  /\ k \in 0 .. N /\ k = IF m = 0 THEN 0 ELSE m - 1

LEMMA CollectShape ==
  ASSUME OrderInv, QueueInv, Collect, NEW f, NEW m, NEW h, NEW k, Collected(f, m, h, k)
  PROVE  /\ threads[f].state = "INPUT_READY" /\ First = f /\ count \in Nat
         /\ threads[f].job = IF m = 0 THEN 0 ELSE count - m + 1
         /\ threads[f].job = 0 => threads[f].result = "none"
         /\ \A i \in Worker \ {f} : threads'[i] = threads[i]
         /\ HeldIn(threads', count, h, k) /\ ResultInv'
<1> USE DEF Collected
<1>1. user.at = "collect" /\ threads \in [Worker -> ThreadType] /\ count \in Nat
  BY DEF Collect, CollectThen, OrderInv, TypeOK
<1>2. First = f
  BY <1>1 DEF First, Collecting
<1>3. /\ threads[f].state = "INPUT_READY"
      /\ threads' = [threads EXCEPT ![f].job = 0, ![f].result = "none"]
  BY Zenon DEF Collect, CollectThen, Oldest
<1>4. \A i \in Worker \ {f} : threads'[i] = threads[i]
  BY <1>1, <1>3
<1>5. /\ threads'[f].job = 0 /\ threads'[f].result = "none"
      /\ threads'[f].state = "INPUT_READY"
  BY <1>1, <1>3 DEF ThreadType
<1>6. threads[f].job = IF m = 0 THEN 0 ELSE count - m + 1
  <2>1. Dist(f, f) = 0
    BY RingShape
  <2>2. threads[f].job = IF 0 < m THEN count - m + 1 + 0 ELSE 0
    BY <1>2, <2>1 DEF Ring, HeldIn
  <2> QED
    BY <1>1, <2>2, ThreadAssumption
<1>7. threads[f].job = 0 => threads[f].result = "none"
  BY DEF QueueInv, ResultInv
<1>8. ASSUME NEW i \in Worker
      PROVE  threads'[i].job = IF Dist(h, i) < k THEN count - k + 1 + Dist(h, i) ELSE 0
  <2>1. PICK d \in Worker : d = Dist(f, i)
    BY RingShape
  <2>2. Dist(h, i) = IF i = f THEN N - 1 ELSE d - 1
    BY <2>1, NextShape
  <2>3. CASE i = f
    <3>1. ~(N - 1 < k)
      BY ThreadAssumption
    <3> QED
      BY <1>5, <2>2, <2>3, <3>1
  <2>4. CASE i # f
    <3>1. threads'[i].job = IF d < m THEN count - m + 1 + d ELSE 0
      BY <1>2, <1>4, <2>1, <2>4 DEF Ring, HeldIn
    <3>2. d # 0
      BY <2>1, <2>4, RingShape
    <3>3. /\ d < m <=> d - 1 < k
          /\ d < m => count - m + 1 + d = count - k + 1 + (d - 1)
      BY <1>1, <3>2, ThreadAssumption DEF Worker
    <3> QED
      BY <2>2, <2>4, <3>1, <3>3
  <2> QED
    BY <2>3, <2>4
<1>9. HeldIn(threads', count, h, k)
  BY <1>8 DEF HeldIn
<1>10. ResultInv'
  BY <1>4, <1>5 DEF QueueInv, ResultInv
<1> QED
  BY <1>1, <1>2, <1>3, <1>4, <1>6, <1>7, <1>9, <1>10

LEMMA CollectView ==
  ASSUME OrderInv, QueueInv, Collect, NEW f, NEW m, NEW h, NEW k, Collected(f, m, h, k),
         m # 0
  PROVE  /\ Shorter(Packet, m, View(threads, count, f, m), View(threads', count, h, k))
         /\ View(threads, count, f, m)[1]
              = [number |-> threads[f].job, outcome |-> threads[f].result]
<1> DEFINE V == View(threads, count, f, m)
           W == View(threads', count, h, k)
<1> USE DEF Collected
<1>1. /\ threads[f].state = "INPUT_READY" /\ count \in Nat
      /\ threads[f].job = count - m + 1
      /\ \A i \in Worker \ {f} : threads'[i] = threads[i]
      /\ threads \in [Worker -> ThreadType]
  BY CollectShape DEF OrderInv, TypeOK
<1>2. m \in Nat /\ m > 0 /\ k = m - 1
  BY ThreadAssumption
<1>3. V \in [1 .. m -> Packet]
  BY <1>1, ViewType
<1>4. ASSUME NEW j \in 1 .. m - 1 PROVE W[j] = V[j + 1]
  <2>1. PICK d \in Worker : d = j /\ d # 0
    BY ThreadAssumption DEF Worker
  <2>2. PICK i \in Worker : i = Nth(f, d) /\ Dist(f, i) = d
    <3>1. Nth(f, d) \in Worker /\ Dist(f, Nth(f, d)) = d
      BY RingShape
    <3> QED
      BY <3>1, Zenon
  <2>3. i # f
    BY <2>1, <2>2, RingShape
  <2>4. Dist(h, i) = d - 1
    BY <2>2, <2>3, NextShape
  <2>5. Nth(h, d - 1) = i
    BY <2>4, RingShape
  <2>6. threads'[i] = threads[i]
    BY <1>1, <2>3
  <2>7. /\ j \in 1 .. k /\ j + 1 \in 1 .. m /\ (j + 1) - 1 = d /\ j - 1 = d - 1
        /\ count - k + j = count - m + (j + 1)
    BY <1>1, <1>2, <2>1, ThreadAssumption
  <2>8. W[j] = [number |-> count - k + j, outcome |-> Answer(threads'[Nth(h, j - 1)])]
    BY <2>7 DEF View
  <2>9. V[j + 1] = [number |-> count - m + (j + 1),
                    outcome |-> Answer(threads[Nth(f, (j + 1) - 1)])]
    BY <2>7 DEF View
  <2> QED
    BY <2>2, <2>5, <2>6, <2>7, <2>8, <2>9
<1>5. W = [j \in 1 .. m - 1 |-> V[j + 1]]
  <2>1. W = [j \in 1 .. m - 1 |-> W[j]]
    BY <1>2 DEF View
  <2> QED
    BY <1>4, <2>1, Zenon
<1>6. V[1] = [number |-> threads[f].job, outcome |-> threads[f].result]
  <2>1. 1 \in 1 .. m /\ 1 - 1 = 0 /\ count - m + 1 = threads[f].job
    BY <1>1, <1>2
  <2>2. Nth(f, 0) = f
    BY ThreadAssumption DEF Nth, Worker
  <2>3. Answer(threads[f]) = threads[f].result
    BY <1>1 DEF Answer
  <2>4. V[1] = [number |-> count - m + 1, outcome |-> Answer(threads[Nth(f, 1 - 1)])]
    BY <2>1 DEF View
  <2> QED
    BY <2>1, <2>2, <2>3, <2>4
<1> HIDE DEF V, W
<1>7. Shorter(Packet, m, V, W)
  BY <1>2, <1>3, <1>5 DEF Shorter
<1> QED
  BY <1>6, <1>7 DEF V, W

LEMMA CollectInside ==
  ASSUME OrderInv, OrderInv', QueueInv, Collect,
         NEW f, NEW m, NEW h, NEW k, Collected(f, m, h, k), First' = h, Ring(k)'
  PROVE  /\ m = 0 => Inside = <<>> /\ Inside' = <<>>
         /\ m # 0 => /\ Inside # <<>> /\ Inside' = Tail(Inside)
                     /\ Head(Inside) = [number |-> threads[f].job,
                                        outcome |-> threads[f].result]
         /\ k = 0 => Inside' = <<>>
<1> DEFINE V == View(threads, count, f, m)
           W == View(threads', count, h, k)
<1>1. m \in 0 .. N /\ k \in 0 .. N /\ Ring(m) /\ k = IF m = 0 THEN 0 ELSE m - 1
  BY DEF Collected
<1>2. Inside = V
  BY <1>1, CollectShape, RingInside
<1>3. count' = count
  BY DEF Collect, CollectThen
<1>4. Inside' = W
  BY <1>1, <1>3, RingInsideNext
<1>5. m = 0 => V = <<>>
  BY EmptyView
<1>6. k = 0 => W = <<>>
  BY EmptyView
<1>7. m # 0 => /\ Shorter(Packet, m, V, W)
               /\ V[1] = [number |-> threads[f].job, outcome |-> threads[f].result]
  BY CollectView
<1> HIDE DEF V, W
<1>8. m # 0 => V # <<>> /\ Head(V) = V[1] /\ Tail(V) = W
  BY <1>7, TailOne, Zenon
<1> QED
  BY <1>1, <1>2, <1>4, <1>5, <1>6, <1>7, <1>8

LEMMA NextPlace ==
  ASSUME NEW f \in Worker, NEW h \in Worker, h = IF f + 1 = N THEN 0 ELSE f + 1,
         NEW m \in 1 .. N, NEW d \in 0 .. N, d = f + m \/ d = f + m - N
  PROVE  /\ d = h + (m - 1) \/ d = h + (m - 1) - N \/ m - 1 = 0
         /\ d % N = h + (m - 1) \/ d % N = h + (m - 1) - N
<1>1. d % N = IF d = N THEN 0 ELSE d
  BY Wrap
<1> QED
  BY <1>1, ThreadAssumption DEF Worker

LEMMA QueueCollect ==
  ASSUME OrderInv, OrderInv', QueueInv, Collect
  PROVE  QueueInv' /\ [Queue!Next]_Queue!vars
<1>1. /\ user.at = "collect" /\ user.at \in Calling /\ user.at \in Collecting
      /\ next_finished \in Worker /\ next_decoding \in 0 .. N /\ count \in Nat
  BY DEF Collect, CollectThen, Calling, Collecting, OrderInv, TypeOK
<1>2. /\ user \in [at : Calling \cup Returning, size : BOOLEAN, finished : Worker,
                   then : {"idle"}]
      /\ user.size = ~draining /\ ret # <<"eof">>
  BY <1>1, CallShape DEF QueueInv, CallInv
<1>3. PICK f \in Worker : f = user.finished
  BY <1>2
<1>4. PICK m \in 0 .. N : Ring(m)
  BY DEF QueueInv, RingInv
<1>5. PICK h \in Worker : h = (f + 1) % N /\ h = IF f + 1 = N THEN 0 ELSE f + 1
  BY NextShape
<1>6. PICK k \in 0 .. N : k = IF m = 0 THEN 0 ELSE m - 1
  BY ThreadAssumption
<1>7. Collected(f, m, h, k)
  BY <1>3, <1>4, <1>5, <1>6 DEF Collected
<1>8. /\ First = f /\ HeldIn(threads', count, h, k) /\ ResultInv'
      /\ threads[f].job = IF m = 0 THEN 0 ELSE count - m + 1
      /\ threads[f].job = 0 => threads[f].result = "none"
  BY <1>7, CollectShape
<1>9. /\ m + Dist(next_finished, f) <= N
      /\ user.size => m > 0
      /\ ~(delaying /\ ~draining) /\ m <= count
      /\ \/ next_decoding = f + m \/ next_decoding = f + m - N
         \/ m = 0 /\ ~user.size
  BY <1>1, <1>2, <1>3, <1>4, <1>8 DEF Ring, Drained
<1>10. Following = h /\ Oldest = threads[f]
  BY <1>3, <1>5 DEF Following, Oldest
<1>11. count' = count /\ delaying' = delaying /\ draining' = draining
  BY DEF Collect, CollectThen
<1>12. k <= count' /\ k # N
  BY <1>1, <1>6, <1>9, <1>11, ThreadAssumption
<1>13. m # 0 =>
         /\ \/ next_decoding = h + k \/ next_decoding = h + k - N \/ k = 0
         /\ next_decoding % N = h + k \/ next_decoding % N = h + k - N
  <2> SUFFICES ASSUME m # 0
               PROVE  /\ \/ next_decoding = h + k \/ next_decoding = h + k - N \/ k = 0
                      /\ next_decoding % N = h + k \/ next_decoding % N = h + k - N
    OBVIOUS
  <2>1. m \in 1 .. N /\ k = m - 1
    BY <1>6
  <2>2. next_decoding = f + m \/ next_decoding = f + m - N
    BY <1>9
  <2> QED
    BY <1>1, <1>5, <2>1, <2>2, NextPlace
<1>14. CASE ~user.size /\ Oldest.result = "none" /\ Following # next_finished
  <2>1. /\ user' = [user EXCEPT !.finished = h]
        /\ UNCHANGED <<next_finished, next_decoding, ret>>
    BY <1>10, <1>14, Zenon DEF Collect, CollectThen
  <2>2. user'.at = "collect" /\ user'.finished = h /\ user'.size = user.size
    BY <1>1, <1>2, <2>1
  <2>3. First' = h
    BY <2>2 DEF First, Collecting
  <2>4. k + Dist(next_finished', user'.finished) <= N
    <3>1. PICK d \in Worker : d = Dist(next_finished, f)
      BY <1>1, RingShape
    <3>2. Dist(next_finished, h) = d + 1
      BY <1>1, <1>5, <1>10, <1>14, <3>1, NextShape
    <3>3. k + (d + 1) <= N
      BY <1>6, <1>9, <3>1, ThreadAssumption DEF Worker
    <3> QED
      BY <2>1, <2>2, <3>2, <3>3
  <2>5. Drained(k)' \/ next_decoding' = First' + k \/ next_decoding' = First' + k - N
    BY <1>6, <1>13, <1>14, <2>1, <2>2, <2>3 DEF Drained, Collecting
  <2>6. Ring(k)'
    BY <1>8, <1>9, <1>11, <1>12, <1>14, <2>2, <2>3, <2>4, <2>5 DEF Ring
  <2>7. CallInv'
    BY <1>2, <1>11, <2>1, <2>2 DEF CallInv, Calling, Collecting
  <2>8. Leaving' = Leaving
    <3>1. ~Leaving /\ ~Leaving'
      BY <1>1, <2>2 DEF Leaving
    <3> QED
      BY <3>1, Zenon DEF Leaving
  <2>9. CASE m = 0
    <3>1. Inside' = Inside
      BY <1>7, <2>3, <2>6, <2>9, CollectInside
    <3> QED
      BY <1>8, <1>11, <2>1, <2>6, <2>7, <2>8, <3>1 DEF QueueInv, RingInv, Queue!vars
  <2>10. CASE m # 0
    <3>1. /\ Inside # <<>> /\ Inside' = Tail(Inside)
          /\ Head(Inside) = [number |-> threads[f].job, outcome |-> threads[f].result]
      BY <1>7, <2>3, <2>6, <2>10, CollectInside
    <3>2. Head(Inside).outcome = "none"
      BY <1>10, <1>14, <3>1
    <3>3. Queue!Skip
      BY <1>11, <2>1, <2>8, <3>1, <3>2 DEF Queue!Skip
    <3> QED
      BY <1>8, <2>6, <2>7, <3>3 DEF QueueInv, RingInv, Queue!Next
  <2> QED
    BY <2>9, <2>10
<1>15. CASE ~(~user.size /\ Oldest.result = "none" /\ Following # next_finished)
  <2>1. /\ next_finished' = h /\ next_decoding' = next_decoding % N
        /\ user' = [user EXCEPT !.at = "finish"]
        /\ ret' = IF threads[f].result # "none" THEN <<threads[f].result, threads[f].job>>
                  ELSE IF user.size THEN <<"none">> ELSE <<"eof">>
    BY <1>10, <1>15, Zenon DEF Collect, CollectThen, Return, Goto
  <2>2. user'.at = "finish" /\ user'.then = "idle" /\ user.then = "idle"
    BY <1>2, <2>1
  <2>3. First' = h /\ user'.at \notin Collecting /\ user'.at \notin Calling
    BY <2>1, <2>2 DEF First, Collecting, Calling
  <2>4. CASE ret' = <<"eof">>
    <3>1. threads[f].result = "none" /\ ~user.size
      BY <2>1, <2>4
    <3>2. Following = next_finished
      BY <1>10, <1>15, <3>1
    <3>3. k = 0
      <4>1. Dist(next_finished, f) = N - 1
        BY <1>5, <1>10, <3>2, NextShape
      <4> QED
        BY <1>6, <1>9, <4>1, ThreadAssumption
    <3>4. Ring(k)'
      BY <1>8, <1>9, <1>11, <1>12, <2>3, <2>4 DEF Ring, Drained
    <3>5. CallInv'
      BY <1>2, <1>11, <2>3, <3>1 DEF CallInv
    <3>6. Leaving' = Leaving
      <4>1. ~Leaving /\ ~Leaving'
        BY <1>1, <2>2 DEF Leaving
      <4> QED
        BY <4>1, Zenon DEF Leaving
    <3>7. /\ Inside' = <<>>
          /\ Inside = <<>> \/ /\ Inside # <<>> /\ Inside' = Tail(Inside)
                              /\ Head(Inside).outcome = "none"
      BY <1>7, <2>3, <3>1, <3>3, <3>4, CollectInside
    <3>8. Queue!Starve \/ Queue!Skip
      BY <1>11, <2>4, <3>6, <3>7 DEF Queue!Starve, Queue!Skip
    <3> QED
      BY <1>8, <3>4, <3>5, <3>8 DEF QueueInv, RingInv, Queue!Next
  <2>5. CASE ret' # <<"eof">>
    <3>1. m # 0
      BY <1>8, <1>9, <2>1, <2>5
    <3>2. Ring(k)'
      BY <1>8, <1>9, <1>11, <1>12, <1>13, <2>1, <2>3, <3>1 DEF Ring
    <3>3. CallInv'
      BY <2>3, <2>5 DEF CallInv
    <3>4. Leaving' = Leaving
      <4>1. ~Leaving /\ ~Leaving'
        BY <1>1, <2>2 DEF Leaving
      <4> QED
        BY <4>1, Zenon DEF Leaving
    <3>5. /\ Inside # <<>> /\ Inside' = Tail(Inside)
          /\ Head(Inside).outcome = threads[f].result
          /\ Head(Inside).number = threads[f].job
      BY <1>7, <2>3, <3>1, <3>2, CollectInside
    <3>6. threads[f].result \in {"none", "frame", "error"}
      <4>1. threads[f] \in ThreadType
        BY DEF OrderInv, TypeOK
      <4> QED
        BY <4>1 DEF ThreadType
    <3>7. Queue!Deliver \/ Queue!Skip
      BY <1>11, <2>1, <2>5, <3>4, <3>5, <3>6 DEF Queue!Deliver, Queue!Skip
    <3> QED
      BY <1>8, <3>2, <3>3, <3>7 DEF QueueInv, RingInv, Queue!Next
  <2> QED
    BY <2>4, <2>5
<1> QED
  BY <1>14, <1>15

LEMMA QueueInit ==
  ASSUME Init
  PROVE  QueueInv /\ Queue!Init
<1>1. OrderInv
  BY OrderInit
<1>2. /\ user.at = "idle" /\ First = 0 /\ 0 \in Worker /\ 0 \in 0 .. N /\ 0 # N
      /\ next_decoding = 0 /\ count = 0 /\ ret = <<"none">>
  BY ThreadAssumption DEF Init, First, Collecting, Worker
<1>3. \A i \in Worker : /\ threads[i].job = 0 /\ threads[i].state = "INPUT_READY"
                        /\ threads[i].result = "none"
  BY DEF Init, Thread
<1>4. Ring(0)
  <2>1. HeldIn(threads, count, First, 0)
    <3>1. \A i \in Worker : ~(Dist(0, i) < 0)
      BY <1>2, RingShape, ThreadAssumption DEF Worker
    <3> QED
      BY <1>2, <1>3, <3>1 DEF HeldIn
  <2> QED
    BY <1>2, <2>1 DEF Ring, Collecting, Init
<1>5. CallInv
  BY <1>2 DEF CallInv, Calling
<1>6. Inside = <<>>
  BY <1>1, <1>2, <1>4, RingInside, EmptyView
<1>7. Leaving = FALSE
  <2>1. ~Leaving
    BY <1>2 DEF Leaving
  <2> QED
    BY <2>1, Zenon DEF Leaving
<1> QED
  BY <1>2, <1>3, <1>4, <1>5, <1>6, <1>7 DEF QueueInv, RingInv, ResultInv, Queue!Init

LEMMA QueueStep ==
  ASSUME OrderInv, OrderInv', QueueInv, [Next]_vars
  PROVE  QueueInv' /\ [Queue!Next]_Queue!vars
<1>1. CASE Call
  BY <1>1, QueueCall
<1>2. CASE UserStep
  BY <1>2, QueueSteadyStep, QueueSubmit, QueueHandOver, QueueCollect, QueuePark,
     QueueFlush DEF UserStep
<1>3. ASSUME NEW i \in Worker, WorkerStep(i)
      PROVE  QueueInv' /\ [Queue!Next]_Queue!vars
  BY <1>3, QueueWorkerStep
<1>4. CASE Gone \/ UNCHANGED vars
  BY <1>4, QueueSteadyStep DEF Gone
<1> QED
  BY <1>1, <1>2, <1>3, <1>4 DEF Next

\* pthread_frame.c keeps the promise of ff_thread_decode_frame, with any number
\* of threads: the results come out in the order of the packets, none is lost,
\* passed over or repeated, and a draining call announces the end only when
\* nothing is left in any thread.
THEOREM FrameThreadIsQueue == Spec => QueueSpec
<1> DEFINE Inv == OrderInv /\ QueueInv
<1>1. Init => Inv /\ Queue!Init
  BY OrderInit, QueueInit
<1>2. Inv /\ [Next]_vars => Inv' /\ [Queue!Next]_Queue!vars
  BY OrderStep, QueueStep
<1> QED
  BY <1>1, <1>2, PTL DEF Spec, QueueSpec, Queue!Spec

-----------------------------------------------------------------------------
(* Nobody waits for ever for somebody who waits: some thread can always go *)
(* on while the user is inside a call.                                     *)
(*                                                                         *)
(* Workers wait for frames of older packets only, so that the oldest one   *)
(* past its setup goes on; if there is none, the one that sets up finds    *)
(* its locks free; and if there is none of these either, all are ready and *)
(* the user's thread goes on.  WakeInv says that who sleeps has somebody   *)
(* to wake it.                                                             *)

\* A frame with progress to report is one that the codec still decodes, or asked
\* for when it finished its setup.
Framed(p) ==
  /\ p.decoding => \/ p.pc \in Finishing /\ p.back = "decode"
                   \/ p.pc \in Decoding /\ p.state = "SETUP_FINISHED"
  /\ p.pc = "await" => p.decoding

\* Who waits for the frame before its own has been told that it is not complete.
FrameInv == \A i \in Worker : /\ Framed(threads[i])
                              /\ threads[i].pc = "await" => Before(i)

\* A lock that is taken has an owner who will give it back.
HeldInv ==
  /\ \/ hwaccel_mutex = None
     \/ \E i \in Worker : hwaccel_mutex = i /\ threads[i].hwaccel_serializing
  /\ async_lock => UserOwner \/ \E i \in Worker : AsyncOwner(i)

\* Who sleeps does so on a condition that has not come about since, so that its
\* signal is still to come: the user's thread, and the workers on async_cond.
UserAsleepInv ==
  /\ user.at = "prev asleep" =>
       prev_thread # None /\ threads[prev_thread].state = "SETTING_UP"
  /\ user.at \in {"collect asleep", "park asleep"} =>
       user.finished \in Worker /\ threads[user.finished].state # "INPUT_READY"
  /\ user.at = "finish asleep" => async_lock
AsleepInv == \A i \in Worker : threads[i].pc = "async asleep" => async_lock

\* A worker to be joined has been told to die, and does not sleep.
JoinInv == user.at = "join" => /\ threads[user.finished].die
                               /\ threads[user.finished].pc \in {"lock", "exit"}

WakeInv == FrameInv /\ HeldInv /\ UserAsleepInv /\ AsleepInv /\ JoinInv

-----------------------------------------------------------------------------
\* A broadcast leaves nobody asleep on its condition, and frames as they are.
LEMMA WakeEffect ==
  ASSUME NEW ts \in [Worker -> ThreadType], NEW i \in Worker, NEW k \in Worker
  PROVE  /\ WakeAsync(ts)[k].decoding = ts[k].decoding
         /\ WakeAsync(ts)[k].pc # "async asleep"
         /\ WakeProgress(i, ts)[k].decoding = ts[k].decoding
         /\ ts[k].job - 1 = ts[i].job => WakeProgress(i, ts)[k].pc # "await"
<1>1. ts[k] \in ThreadType
  OBVIOUS
<1>2. ASSUME NEW p \in ThreadType, NEW c \in {"async", "decode"}
      PROVE  [p EXCEPT !.pc = c].decoding = p.decoding /\ [p EXCEPT !.pc = c].pc = c
  BY DEF ThreadType
<1>3. WakeAsync(ts)[k] = IF ts[k].pc = "async asleep" THEN [ts[k] EXCEPT !.pc = "async"]
                                                      ELSE ts[k]
  BY Zenon DEF WakeAsync
<1>4. WakeProgress(i, ts)[k] = IF ts[k].pc = "await" /\ ts[k].job - 1 = ts[i].job
                                 THEN [ts[k] EXCEPT !.pc = "decode"] ELSE ts[k]
  BY Zenon DEF WakeProgress
<1> QED
  BY <1>1, <1>2, <1>3, <1>4

\* Nor is the user's thread asleep on worker i after i's signal.
LEMMA UserEffect ==
  ASSUME UserType, NEW i \in Worker
  PROVE  /\ Progressed(i).at = "prev asleep" => prev_thread # i
         /\ Output(i).at = "prev asleep" => prev_thread # i
         /\ Output(i).at \in {"collect asleep", "park asleep"} => Output(i).finished # i
<1>1. ASSUME NEW c, user.at \in {"prev asleep", "collect asleep", "park asleep"}
      PROVE  [user EXCEPT !.at = c].at = c
  BY <1>1 DEF UserType, Calling, Returning, Parking
<1> QED
  BY <1>1 DEF Progressed, Output

\* What a step of worker i does to who sleeps and to who is waited for.
WakeMove(i) ==
  /\ \A k \in Worker \ {i} : threads'[k].decoding = threads[k].decoding
  /\ Framed(threads'[i])
  /\ threads[i].decoding /\ ~threads'[i].decoding =>
       \A k \in Worker \ {i} : threads[k].job - 1 = threads[i].job => threads'[k].pc # "await"
  /\ threads'[i].pc = "await" => Before(i)
  /\ \/ /\ hwaccel_mutex' = hwaccel_mutex
        /\ threads[i].hwaccel_serializing => threads'[i].hwaccel_serializing
     \/ hwaccel_mutex' = None
     \/ hwaccel_mutex' = i /\ threads'[i].hwaccel_serializing
  /\ async_lock' => AsyncOwner(i)' \/ (async_lock /\ ~AsyncOwner(i))
  /\ async_lock /\ ~async_lock' => /\ \A k \in Worker : threads'[k].pc # "async asleep"
                                   /\ user'.at # "finish asleep"
  /\ threads'[i].pc = "async asleep" => async_lock'
  /\ user'.at = "prev asleep" /\ prev_thread = i => threads'[i].state = threads[i].state
  /\ user'.at \in {"collect asleep", "park asleep"} /\ user'.finished = i =>
       threads'[i].state = threads[i].state \/ threads'[i].state # "INPUT_READY"
  /\ threads[i].die /\ threads[i].pc \in {"lock", "exit"} => threads'[i].pc \in {"lock", "exit"}

\* That is enough for WakeInv.
LEMMA WakeByWorker ==
  ASSUME HwInv, WakeInv, NEW i \in Worker, OthersMove(i), OrderMove(i), HwMove(i), WakeMove(i)
  PROVE  WakeInv'
<1>0. /\ threads \in [Worker -> ThreadType] /\ threads' \in [Worker -> ThreadType]
      /\ UserType /\ codec' = codec /\ prev_thread' = prev_thread
  BY DEF HwInv, OrderInv, TypeOK, OthersMove
<1>1. ASSUME NEW k \in Worker, k # i
      PROVE  /\ Woken(threads[k], threads'[k]) /\ threads'[k].decoding = threads[k].decoding
             /\ threads'[k].state = threads[k].state /\ threads'[k].job = threads[k].job
             /\ threads'[k].die = threads[k].die
             /\ threads'[k].hwaccel_serializing = threads[k].hwaccel_serializing
             /\ AsyncOwner(k) => AsyncOwner(k)'
  <2>1. Woken(threads[k], threads'[k]) /\ threads'[k].decoding = threads[k].decoding
    BY <1>1 DEF OthersMove, WakeMove
  <2> QED
    BY <2>1 DEF Woken, AsyncOwner
<1>2. threads'[i].job = threads[i].job /\ threads'[i].die = threads[i].die
  BY DEF OrderMove
<1>3. /\ \/ user'.at = user.at
         \/ user.at = "prev asleep" /\ user'.at = "prev"
         \/ user.at = "collect asleep" /\ user'.at = "collect"
         \/ user.at = "park asleep" /\ user'.at = "park"
         \/ user.at = "finish asleep" /\ user'.at = "finish"
      /\ user'.at = user.at => user' = user
  <2>1. UserWoken
    BY DEF OthersMove
  <2>2. ASSUME NEW place \in {"prev", "collect", "park", "finish"},
               user' = [user EXCEPT !.at = place],
               user.at \in {"prev asleep", "collect asleep", "park asleep", "finish asleep"}
        PROVE  user'.at = place
    BY <1>0, <2>2 DEF UserType, Calling, Returning, Parking
  <2>4. ASSUME NEW place \in {"prev", "collect", "park", "finish"},
               user' = [user EXCEPT !.at = place],
               place = "prev" => user.at = "prev asleep",
               place = "collect" => user.at = "collect asleep",
               place = "park" => user.at = "park asleep",
               place = "finish" => user.at = "finish asleep"
        PROVE  \/ user.at = "prev asleep" /\ user'.at = "prev"
               \/ user.at = "collect asleep" /\ user'.at = "collect"
               \/ user.at = "park asleep" /\ user'.at = "park"
               \/ user.at = "finish asleep" /\ user'.at = "finish"
    <3>1. user.at \in {"prev asleep", "collect asleep", "park asleep", "finish asleep"}
      BY <2>4
    <3>2. user'.at = place
      BY <2>2, <2>4, <3>1, Zenon
    <3> QED
      BY <2>4, <3>2, Zenon
  <2>5. \/ user' = user
        \/ user.at = "prev asleep" /\ user'.at = "prev"
        \/ user.at = "collect asleep" /\ user'.at = "collect"
        \/ user.at = "park asleep" /\ user'.at = "park"
        \/ user.at = "finish asleep" /\ user'.at = "finish"
    BY <2>1, <2>4, Zenon DEF UserWoken
  <2> QED
    BY <2>5
<1>4. FrameInv'
  <2>1. ASSUME NEW k \in Worker PROVE Framed(threads'[k])
    <3>1. CASE k = i
      BY <3>1 DEF WakeMove
    <3>2. CASE k # i
      <4>1. Framed(threads[k])
        BY DEF WakeInv, FrameInv
      <4> QED
        BY <1>1, <3>2, <4>1 DEF Framed, Woken, Finishing, Decoding
    <3> QED
      BY <3>1, <3>2
  <2>2. ASSUME NEW k \in Worker, threads'[k].pc = "await"
        PROVE  Before(k)'
    <3>1. Before(k) /\ threads'[k].job = threads[k].job
      <4>1. CASE k = i
        BY <1>2, <2>2, <4>1 DEF WakeMove
      <4>2. CASE k # i
        <5>1. threads[k].pc = "await"
          BY <1>1, <2>2, <4>2 DEF Woken
        <5> QED
          BY <1>1, <4>2, <5>1 DEF WakeInv, FrameInv
      <4> QED
        BY <4>1, <4>2
    <3>2. PICK j \in Worker : threads[j].job = threads[k].job - 1 /\ threads[j].decoding
      BY <3>1 DEF Before
    <3>3. threads'[j].job = threads[j].job
      BY <1>1, <1>2
    <3>4. threads'[j].decoding
      <4>1. CASE j # i
        BY <1>1, <3>2, <4>1
      <4>2. CASE j = i /\ k # i
        BY <2>2, <3>2, <4>2 DEF WakeMove
      <4>3. CASE j = i /\ k = i
        <5>1. threads[i].job \in Nat
          BY <1>0 DEF ThreadType
        <5> QED
          BY <3>2, <4>3, <5>1
      <4> QED
        BY <4>1, <4>2, <4>3
    <3> QED
      BY <3>1, <3>2, <3>3, <3>4 DEF Before
  <2> QED
    BY <2>1, <2>2 DEF FrameInv
<1>5. HeldInv'
  <2>1. \/ hwaccel_mutex' = None
        \/ \E k \in Worker : hwaccel_mutex' = k /\ threads'[k].hwaccel_serializing
    BY <1>1 DEF WakeMove, WakeInv, HeldInv
  <2>2. async_lock' => UserOwner' \/ \E k \in Worker : AsyncOwner(k)'
    <3>1. UserOwner => UserOwner'
      BY <1>3 DEF UserOwner
    <3> QED
      BY <1>1, <3>1 DEF WakeMove, WakeInv, HeldInv
  <2> QED
    BY <2>1, <2>2 DEF HeldInv
<1>6. UserAsleepInv' /\ AsleepInv'
  <2>1. user'.at = "prev asleep" => prev_thread # None /\ threads'[prev_thread].state = "SETTING_UP"
    <3> SUFFICES ASSUME user'.at = "prev asleep"
                 PROVE  prev_thread # None /\ threads'[prev_thread].state = "SETTING_UP"
      OBVIOUS
    <3>1. prev_thread # None /\ threads[prev_thread].state = "SETTING_UP"
      BY <1>3 DEF WakeInv, UserAsleepInv
    <3>2. prev_thread \in Worker
      BY <3>1 DEF HwInv, OrderInv, TypeOK
    <3> QED
      BY <1>1, <3>1, <3>2 DEF WakeMove
  <2>2. ASSUME user'.at \in {"collect asleep", "park asleep"}
        PROVE  user'.finished \in Worker /\ threads'[user'.finished].state # "INPUT_READY"
    <3>1. user' = user /\ user.finished \in Worker
          /\ threads[user.finished].state # "INPUT_READY"
      BY <1>3, <2>2 DEF WakeInv, UserAsleepInv
    <3> QED
      BY <1>1, <2>2, <3>1 DEF WakeMove
  <2>3. user'.at = "finish asleep" => async_lock'
    BY <1>3 DEF WakeInv, UserAsleepInv, AsleepInv, WakeMove
  <2>4. ASSUME NEW k \in Worker, threads'[k].pc = "async asleep" PROVE async_lock'
    <3>1. CASE k = i
      BY <2>4, <3>1 DEF WakeMove
    <3>2. CASE k # i
      <4>1. threads[k].pc = "async asleep"
        BY <1>1, <2>4, <3>2 DEF Woken
      <4> QED
        BY <2>4, <4>1 DEF WakeInv, UserAsleepInv, AsleepInv, WakeMove
    <3> QED
      BY <3>1, <3>2
  <2> QED
    BY <1>0, <2>1, <2>2, <2>3, <2>4 DEF UserAsleepInv, AsleepInv
<1>7. JoinInv'
  <2> SUFFICES ASSUME user'.at = "join"
               PROVE  /\ threads'[user'.finished].die
                      /\ threads'[user'.finished].pc \in {"lock", "exit"}
    BY DEF JoinInv
  <2>1. user.at = "join" /\ user' = user
    BY <1>3
  <2>2. user.finished \in Worker
    BY <1>0, <2>1 DEF UserType, Calling, Returning, Parking
  <2>3. threads[user.finished].die /\ threads[user.finished].pc \in {"lock", "exit"}
    BY <2>1 DEF WakeInv, JoinInv
  <2> QED
    BY <1>1, <1>2, <2>1, <2>2, <2>3 DEF WakeMove, Woken
<1> QED
  BY <1>4, <1>5, <1>6, <1>7 DEF WakeInv

\* Every step of a worker does no more.
LEMMA WakeWorkerStep ==
  ASSUME HwInv, WakeInv, NEW i \in Worker, WorkerStep(i)
  PROVE  WakeMove(i)
<1>b. /\ threads \in [Worker -> ThreadType] /\ threads[i] \in ThreadType
      /\ threads[i].state \in {"INPUT_READY", "SETTING_UP", "SETUP_FINISHED"}
      /\ threads[i].back \in {"serial", "decode", "unlock"}
      /\ ThreadState(threads[i]) /\ HwThread(i) /\ AsyncThread(i) /\ Framed(threads[i])
      /\ threads[i].pc = "async asleep" => async_lock
      /\ UserType
  <2>1. threads \in [Worker -> ThreadType] /\ threads[i] \in ThreadType
    BY DEF HwInv, OrderInv, TypeOK
  <2>2. /\ threads[i].state \in {"INPUT_READY", "SETTING_UP", "SETUP_FINISHED"}
        /\ threads[i].back \in {"serial", "decode", "unlock"}
    BY <2>1 DEF ThreadType
  <2> QED
    BY <2>1, <2>2 DEF HwInv, OrderInv, TypeOK, StateInv, WakeInv, FrameInv, AsleepInv
<1>c. ASSUME NEW p PROVE Woken(p, p)
  BY DEF Woken
<1>e. AsyncOwner(i) => async_lock
  BY DEF HwInv, OwnerInv
<1>d. /\ codec.update \in BOOLEAN /\ codec.hw \in {"none", "safe", "serial"}
      /\ codec.async_safe \in BOOLEAN /\ (~codec.update => codec.hw = "none")
  BY CodecsAssumption DEF HwInv, OrderInv, TypeOK
<1> USE DEF Waiting, Finishing, Decoding, Ending
<1>1. CASE Input(i)
  <2>1. /\ threads'[i].pc = IF threads[i].die THEN "exit"
                             ELSE IF threads[i].state = "INPUT_READY" THEN "asleep" ELSE "begin"
        /\ threads'[i].state = threads[i].state
        /\ threads'[i].decoding = threads[i].decoding
        /\ threads'[i].back = threads[i].back
        /\ threads'[i].hwaccel_serializing = threads[i].hwaccel_serializing
        /\ threads'[i].async_serializing = threads[i].async_serializing
        /\ threads'[i].die = threads[i].die
    BY <1>b, <1>1 DEF Input, ThreadType
  <2>2. \A k \in Worker \ {i} : threads'[k] = threads[k]
    BY <1>b, <1>1 DEF Input
  <2>3. /\ threads[i].pc = "lock" /\ user' = user
        /\ hwaccel_mutex' = hwaccel_mutex /\ async_lock' = async_lock
    BY <1>1 DEF Input
  <2>4. ~threads[i].decoding /\ ~AsyncOwner(i)
    BY <1>b, <2>3 DEF Framed, AsyncOwner, AsyncThread
  <2>5. Framed(threads'[i])
    BY <2>1, <2>4 DEF Framed
  <2>6. threads'[i].pc \notin {"await", "async asleep"}
    BY <2>1
  <2> QED
    BY <1>b, <2>1, <2>2, <2>3, <2>4, <2>5, <2>6 DEF WakeMove
<1>2. CASE Begin(i)
  <2>1. /\ threads'[i].pc = IF codec.update THEN "serial" ELSE "finish"
        /\ threads'[i].state = threads[i].state
        /\ threads'[i].decoding = threads[i].decoding
        /\ threads'[i].back = "serial"
        /\ threads'[i].hwaccel_serializing = threads[i].hwaccel_serializing
        /\ threads'[i].async_serializing = threads[i].async_serializing
        /\ threads'[i].die = threads[i].die
    BY <1>b, <1>2 DEF Begin, ThreadType
  <2>2. \A k \in Worker \ {i} : threads'[k] = threads[k]
    BY <1>b, <1>2 DEF Begin
  <2>3. /\ threads[i].pc = "begin" /\ user' = user
        /\ hwaccel_mutex' = hwaccel_mutex /\ async_lock' = async_lock
    BY <1>2 DEF Begin
  <2>4. ~threads[i].decoding /\ ~AsyncOwner(i)
    BY <1>b, <2>3 DEF Framed, AsyncOwner, AsyncThread
  <2>5. Framed(threads'[i])
    BY <2>1, <2>4 DEF Framed
  <2>6. threads'[i].pc \notin {"await", "async asleep"}
    BY <2>1
  <2> QED
    BY <1>b, <2>1, <2>2, <2>3, <2>4, <2>5, <2>6 DEF WakeMove
<1>3. CASE Serial(i)
  <2>p. PICK lock \in BOOLEAN :
          /\ threads' = [threads EXCEPT ![i].pc = "decode", ![i].result = "none",
                                        ![i].hwaccel_serializing = lock]
          /\ hwaccel_mutex' = IF lock THEN i ELSE hwaccel_mutex
    <3>1. hwaccel_serial(threads[i]) \in BOOLEAN
      BY DEF hwaccel_serial
    <3> QED
      BY <1>3, <3>1, Zenon DEF Serial
  <2>1. /\ threads'[i].pc = "decode"
        /\ threads'[i].state = threads[i].state
        /\ threads'[i].decoding = threads[i].decoding
        /\ threads'[i].back = threads[i].back
        /\ threads'[i].hwaccel_serializing = lock
        /\ threads'[i].async_serializing = threads[i].async_serializing
        /\ threads'[i].die = threads[i].die
    BY <1>b, <2>p DEF ThreadType
  <2>2. \A k \in Worker \ {i} : threads'[k] = threads[k]
    BY <1>b, <2>p
  <2>3. ~threads[i].hwaccel_serializing
    BY <1>b, <1>3 DEF Serial, HwThread
  <2> QED
    BY <1>b, <1>3, <2>p, <2>1, <2>2, <2>3 DEF Serial, WakeMove, Framed, AsyncOwner
<1>4. CASE Setup(i)
  <2>p. PICK h \in BOOLEAN, f \in BOOLEAN :
          threads' = [threads EXCEPT ![i].hw = h, ![i].decoding = f,
                                     ![i].pc = "finish", ![i].back = "decode"]
    <3>1. (IF codec.hw = "none" THEN {FALSE} ELSE BOOLEAN) \subseteq BOOLEAN
      OBVIOUS
    <3> QED
      BY <1>4, <3>1, Zenon DEF Setup
  <2>1. /\ threads'[i].pc = "finish"
        /\ threads'[i].state = threads[i].state
        /\ threads'[i].decoding = f
        /\ threads'[i].back = "decode"
        /\ threads'[i].hwaccel_serializing = threads[i].hwaccel_serializing
        /\ threads'[i].async_serializing = threads[i].async_serializing
        /\ threads'[i].die = threads[i].die
    BY <1>b, <2>p DEF ThreadType
  <2>2. \A k \in Worker \ {i} : threads'[k] = threads[k]
    BY <1>b, <2>p
  <2>3. ~threads[i].decoding /\ ~threads[i].async_serializing
    BY <1>b, <1>4 DEF Setup, Framed, AsyncThread
  <2> QED
    BY <1>b, <1>4, <2>1, <2>2, <2>3 DEF Setup, WakeMove, Framed, AsyncOwner
<1>5. CASE Await(i)
  <2>1. /\ threads'[i].pc = "await"
        /\ threads'[i].state = threads[i].state
        /\ threads'[i].decoding = threads[i].decoding
        /\ threads'[i].back = threads[i].back
        /\ threads'[i].hwaccel_serializing = threads[i].hwaccel_serializing
        /\ threads'[i].async_serializing = threads[i].async_serializing
        /\ threads'[i].die = threads[i].die
    BY <1>b, <1>5 DEF Await, ThreadType
  <2>2. \A k \in Worker \ {i} : threads'[k] = threads[k]
    BY <1>b, <1>5 DEF Await
  <2> QED
    BY <1>b, <1>5, <2>1, <2>2 DEF Await, WakeMove, Before, Framed, AsyncOwner, ThreadState
<1>6. CASE Unlock(i)
  <2>p. PICK h \in BOOLEAN :
          threads' = [threads EXCEPT ![i].hw = h, ![i].hwaccel_serializing = FALSE,
                                     ![i].pc = "async unlock"]
    <3>1. (threads[i].hw /\ ~threads[i].hwaccel_serializing) \in BOOLEAN
      OBVIOUS
    <3> QED
      BY <1>6, <3>1, Zenon DEF Unlock
  <2>1. /\ threads'[i].pc = "async unlock"
        /\ threads'[i].state = threads[i].state
        /\ threads'[i].decoding = threads[i].decoding
        /\ threads'[i].back = threads[i].back
        /\ threads'[i].hwaccel_serializing = FALSE
        /\ threads'[i].async_serializing = threads[i].async_serializing
        /\ threads'[i].die = threads[i].die
    BY <1>b, <2>p DEF ThreadType
  <2>2. \A k \in Worker \ {i} : threads'[k] = threads[k]
    BY <1>b, <2>p
  <2> QED
    BY <1>b, <1>6, <2>1, <2>2 DEF Unlock, WakeMove, Framed, AsyncOwner
<1>7. CASE Finish(i)
  <2>p. PICK t, s, a \in BOOLEAN, place \in {"async", "stash"} :
          /\ threads' = [threads EXCEPT ![i].hwaccel_threadsafe = t,
                                        ![i].hwaccel_serializing = s,
                                        ![i].async_serializing = a, ![i].pc = place]
          /\ (hwaccel_mutex' = i /\ s) \/ hwaccel_mutex' = hwaccel_mutex
          /\ threads[i].hwaccel_serializing => s
    <3> DEFINE p == threads[i]
               lock == hwaccel_serial(p) /\ ~p.hwaccel_serializing
               async == p.hw /\ ~codec.async_safe
    <3>1. /\ (p.hw /\ codec.hw = "safe") \in BOOLEAN
          /\ (p.hwaccel_serializing \/ lock) \in BOOLEAN
          /\ (p.async_serializing \/ async) \in BOOLEAN
          /\ (IF async THEN "async" ELSE "stash") \in {"async", "stash"}
      OBVIOUS
    <3>2. /\ threads' = [threads EXCEPT ![i].hwaccel_threadsafe = p.hw /\ codec.hw = "safe",
                                        ![i].hwaccel_serializing = @ \/ lock,
                                        ![i].async_serializing = @ \/ async,
                                        ![i].pc = IF async THEN "async" ELSE "stash"]
          /\ hwaccel_mutex' = IF lock THEN i ELSE hwaccel_mutex
      BY <1>7, Zenon DEF Finish
    <3> QED
      BY <3>1, <3>2, Zenon
  <2>1. /\ threads'[i].pc = place
        /\ threads'[i].state = threads[i].state
        /\ threads'[i].decoding = threads[i].decoding
        /\ threads'[i].back = threads[i].back
        /\ threads'[i].hwaccel_serializing = s
        /\ threads'[i].async_serializing = a
        /\ threads'[i].die = threads[i].die
    BY <1>b, <2>p DEF ThreadType
  <2>2. \A k \in Worker \ {i} : threads'[k] = threads[k]
    BY <1>b, <2>p
  <2>3. ~threads[i].async_serializing
    BY <1>b, <1>7 DEF Finish, AsyncThread
  <2> QED
    BY <1>b, <1>7, <2>p, <2>1, <2>2, <2>3 DEF Finish, WakeMove, Framed, AsyncOwner
<1>8. CASE AsyncLock(i)
  <2>p. PICK place \in {"async asleep", "stash"} :
          /\ threads' = [threads EXCEPT ![i].pc = place]
          /\ ~async_lock => place = "stash"
    BY <1>8, Zenon DEF AsyncLock
  <2>1. /\ threads'[i].pc = place
        /\ threads'[i].state = threads[i].state
        /\ threads'[i].decoding = threads[i].decoding
        /\ threads'[i].back = threads[i].back
        /\ threads'[i].hwaccel_serializing = threads[i].hwaccel_serializing
        /\ threads'[i].async_serializing = threads[i].async_serializing
        /\ threads'[i].die = threads[i].die
    BY <1>b, <2>p DEF ThreadType
  <2>2. \A k \in Worker \ {i} : threads'[k] = threads[k]
    BY <1>b, <2>p
  <2>3. threads[i].async_serializing
    BY <1>b, <1>8 DEF AsyncLock, AsyncThread
  <2> QED
    BY <1>b, <1>8, <2>p, <2>1, <2>2, <2>3 DEF AsyncLock, WakeMove, Framed, AsyncOwner
<1>9. CASE Decoded(i)
  <2>p. PICK r \in {"none", "frame", "error"} :
          threads' = LET done == [threads EXCEPT ![i].decoding = FALSE,
                                    ![i].result = r,  ![i].back = "unlock",
                                    ![i].pc = IF threads[i].state = "SETTING_UP"
                                                THEN "finish" ELSE "unlock"]
                     IN  IF threads[i].decoding THEN WakeProgress(i, done) ELSE done
    BY <1>9, Zenon DEF Decoded
  <2> DEFINE next == [threads EXCEPT ![i].decoding = FALSE, ![i].result = r,
                                ![i].back = "unlock",
                                ![i].pc = IF threads[i].state = "SETTING_UP"
                                            THEN "finish" ELSE "unlock"]
  <2>a. next \in [Worker -> ThreadType]
    BY ZenonT(40), <1>b, <2>p DEF ThreadType, Place
  <2>b. /\ next[i].pc = IF threads[i].state = "SETTING_UP" THEN "finish" ELSE "unlock"
        /\ next[i].state = threads[i].state
        /\ next[i].decoding = FALSE
        /\ next[i].back = "unlock"
        /\ next[i].hwaccel_serializing = threads[i].hwaccel_serializing
        /\ next[i].async_serializing = threads[i].async_serializing
        /\ next[i].die = threads[i].die
        /\ next[i].job = threads[i].job
        /\ \A k \in Worker \ {i} : next[k] = threads[k]
    BY <1>b, <2>p DEF ThreadType
  <2>c. threads' = IF threads[i].decoding THEN WakeProgress(i, next) ELSE next
    BY <2>p, Zenon
  <2> HIDE DEF next
  <2>d. \A k \in Worker : /\ Woken(next[k], threads'[k])
                          /\ threads'[k].decoding = next[k].decoding
                          /\ threads[i].decoding /\ next[k].job - 1 = next[i].job
                               => threads'[k].pc # "await"
    BY <1>c, <2>a, <2>c, WakeShape, WakeEffect, Zenon
  <2>1. /\ threads'[i].pc = IF threads[i].state = "SETTING_UP" THEN "finish" ELSE "unlock"
        /\ threads'[i].state = threads[i].state
        /\ threads'[i].decoding = FALSE
        /\ threads'[i].back = "unlock"
        /\ threads'[i].hwaccel_serializing = threads[i].hwaccel_serializing
        /\ threads'[i].async_serializing = threads[i].async_serializing
        /\ threads'[i].die = threads[i].die
    BY ZenonT(40), <2>b, <2>d DEF Woken
  <2>2. \A k \in Worker \ {i} :
          /\ threads'[k].decoding = threads[k].decoding
          /\ threads[i].decoding /\ threads[k].job - 1 = threads[i].job
               => threads'[k].pc # "await"
    BY <2>b, <2>d
  <2>3. async_lock' = async_lock /\ hwaccel_mutex' = hwaccel_mutex
    BY <1>9 DEF Decoded
  <2>4. AsyncOwner(i) => AsyncOwner(i)'
    BY <1>b, <1>9, <2>1 DEF Decoded, AsyncOwner, AsyncThread
  <2>5. threads[i].pc = "decode" /\ user' = user
    BY <1>9 DEF Decoded
  <2>6. Framed(threads'[i]) /\ threads'[i].pc \notin {"await", "async asleep"}
    BY <2>1 DEF Framed
  <2> QED
    BY <1>b, <2>1, <2>2, <2>3, <2>4, <2>5, <2>6 DEF WakeMove
<1>10. CASE AsyncUnlock(i)
  <2> DEFINE next == [threads EXCEPT ![i].async_serializing = FALSE, ![i].pc = "ready"]
  <2>a. next \in [Worker -> ThreadType]
    BY ZenonT(40), <1>b DEF ThreadType, Place
  <2>b. /\ next[i].pc = "ready"
        /\ next[i].state = threads[i].state
        /\ next[i].decoding = threads[i].decoding
        /\ next[i].back = threads[i].back
        /\ next[i].hwaccel_serializing = threads[i].hwaccel_serializing
        /\ next[i].async_serializing = FALSE
        /\ next[i].die = threads[i].die
        /\ \A k \in Worker \ {i} : next[k] = threads[k]
    BY <1>b DEF ThreadType
  <2>c. threads' = IF threads[i].async_serializing THEN WakeAsync(next) ELSE next
    BY <1>10, Zenon DEF AsyncUnlock
  <2> HIDE DEF next
  <2>d. \A k \in Worker : /\ Woken(next[k], threads'[k])
                          /\ threads'[k].decoding = next[k].decoding
                          /\ threads[i].async_serializing => threads'[k].pc # "async asleep"
    BY <1>c, <2>a, <2>c, WakeShape, WakeEffect, Zenon
  <2>1. /\ threads'[i].pc = "ready"
        /\ threads'[i].state = threads[i].state
        /\ threads'[i].decoding = threads[i].decoding
        /\ threads'[i].back = threads[i].back
        /\ threads'[i].hwaccel_serializing = threads[i].hwaccel_serializing
        /\ threads'[i].async_serializing = FALSE
        /\ threads'[i].die = threads[i].die
    BY <2>b, <2>d DEF Woken
  <2>2. \A k \in Worker \ {i} : threads'[k].decoding = threads[k].decoding
    BY <2>b, <2>d
  <2>3. /\ async_lock' <=> async_lock /\ ~threads[i].async_serializing
        /\ hwaccel_mutex' = hwaccel_mutex
    BY <1>10 DEF AsyncUnlock
  <2>4. threads[i].async_serializing => user'.at # "finish asleep"
    <3>1. user.at = "finish asleep" => [user EXCEPT !.at = "finish"].at = "finish"
      BY <1>b DEF UserType, Calling, Returning, Parking
    <3> QED
      BY <1>10, <3>1 DEF AsyncUnlock
  <2> QED
    BY <1>b, <1>10, <2>d, <2>1, <2>2, <2>3, <2>4 DEF AsyncUnlock, WakeMove, Framed, AsyncOwner
<1>11. CASE Ready(i)
  <2> DEFINE next == [threads EXCEPT ![i].state = "INPUT_READY", ![i].pc = "asleep"]
  <2>a. next \in [Worker -> ThreadType]
    BY <1>b DEF ThreadType, Place
  <2>b. /\ next[i].pc = "asleep"
        /\ next[i].state = "INPUT_READY"
        /\ next[i].decoding = threads[i].decoding
        /\ next[i].back = threads[i].back
        /\ next[i].hwaccel_serializing = threads[i].hwaccel_serializing
        /\ next[i].async_serializing = threads[i].async_serializing
        /\ next[i].die = threads[i].die
        /\ \A k \in Worker \ {i} : next[k] = threads[k]
    BY <1>b DEF ThreadType
  <2>c. threads' = WakeProgress(i, next)
    BY <1>11, Zenon DEF Ready
  <2> HIDE DEF next
  <2>d. \A k \in Worker : /\ Woken(next[k], threads'[k])
                          /\ threads'[k].decoding = next[k].decoding
    BY <1>c, <2>a, <2>c, WakeShape, WakeEffect, Zenon
  <2>1. /\ threads'[i].pc = "asleep"
        /\ threads'[i].state = "INPUT_READY"
        /\ threads'[i].decoding = threads[i].decoding
        /\ threads'[i].back = threads[i].back
        /\ threads'[i].hwaccel_serializing = threads[i].hwaccel_serializing
        /\ threads'[i].async_serializing = threads[i].async_serializing
        /\ threads'[i].die = threads[i].die
    BY <1>b, <2>b, <2>d DEF Woken
  <2>2. \A k \in Worker \ {i} : threads'[k].decoding = threads[k].decoding
    BY <2>b, <2>d
  <2>3. /\ hwaccel_mutex' = hwaccel_mutex /\ async_lock' = async_lock
        /\ user' = Output(i)
    BY <1>11 DEF Ready
  <2>4. /\ user'.at = "prev asleep" => prev_thread # i
        /\ threads'[i].state = "INPUT_READY" =>
             ~(user'.at \in {"collect asleep", "park asleep"} /\ user'.finished = i)
    BY <1>b, <2>1, <2>3, UserEffect
  <2>5. /\ threads[i].pc = "ready" /\ ~threads[i].decoding
    BY <1>b, <1>11 DEF Ready, Framed
  <2>6. AsyncOwner(i) <=> AsyncOwner(i)'
    BY <1>b, <2>1, <2>5 DEF AsyncOwner, AsyncThread
  <2>7. Framed(threads'[i])
    BY <1>b, <2>1, <2>5 DEF Framed
  <2> QED
    BY <1>b, <2>1, <2>2, <2>3, <2>4, <2>5, <2>6, <2>7 DEF WakeMove
<1>12. CASE Stash(i)
  <2> DEFINE next == [threads EXCEPT ![i].state = "SETUP_FINISHED",
                                ![i].ctx = threads[i].job, ![i].pc = threads[i].back]
  <2>a. next \in [Worker -> ThreadType]
    <3>0. threads[i].job \in Nat
      BY <1>b DEF ThreadType
    <3>1. threads[i].job \in Int
      BY <3>0
    <3>2. ASSUME NEW p \in ThreadType, NEW c \in Int, NEW q \in {"serial", "decode", "unlock"}
          PROVE  [p EXCEPT !.state = "SETUP_FINISHED", !.ctx = c, !.pc = q] \in ThreadType
      BY DEF ThreadType, Place
    <3> QED
      BY <1>b, <3>1, <3>2, Zenon
  <2>b. /\ next[i].pc = threads[i].back
        /\ next[i].state = "SETUP_FINISHED"
        /\ next[i].decoding = threads[i].decoding
        /\ next[i].back = threads[i].back
        /\ next[i].hwaccel_serializing = threads[i].hwaccel_serializing
        /\ next[i].async_serializing = threads[i].async_serializing
        /\ next[i].die = threads[i].die
        /\ \A k \in Worker \ {i} : next[k] = threads[k]
    BY <1>b DEF ThreadType
  <2>c. threads' = WakeProgress(i, next)
    BY <1>12, Zenon DEF Stash
  <2> HIDE DEF next
  <2>d. \A k \in Worker : /\ Woken(next[k], threads'[k])
                          /\ threads'[k].decoding = next[k].decoding
    BY <1>c, <2>a, <2>c, WakeShape, WakeEffect, Zenon
  <2>1. /\ threads'[i].pc = threads[i].back
        /\ threads'[i].state = "SETUP_FINISHED"
        /\ threads'[i].decoding = threads[i].decoding
        /\ threads'[i].back = threads[i].back
        /\ threads'[i].hwaccel_serializing = threads[i].hwaccel_serializing
        /\ threads'[i].async_serializing = threads[i].async_serializing
        /\ threads'[i].die = threads[i].die
    BY <1>b, <2>b, <2>d DEF Woken
  <2>2. \A k \in Worker \ {i} : threads'[k].decoding = threads[k].decoding
    BY <2>b, <2>d
  <2>3. /\ hwaccel_mutex' = hwaccel_mutex /\ async_lock' = async_lock
        /\ user' = Progressed(i)
    BY <1>12 DEF Stash
  <2>4. /\ user'.at = "prev asleep" => prev_thread # i
        /\ threads'[i].state = "INPUT_READY" =>
             ~(user'.at \in {"collect asleep", "park asleep"} /\ user'.finished = i)
    BY <1>b, <2>1, <2>3, UserEffect
  <2>5. /\ threads[i].pc = "stash"
    BY <1>b, <1>12 DEF Stash, Framed
  <2>6. AsyncOwner(i) <=> AsyncOwner(i)'
    BY <1>b, <2>1, <2>5 DEF AsyncOwner, AsyncThread
  <2>7. Framed(threads'[i])
    BY <1>b, <2>1, <2>5 DEF Framed
  <2> QED
    BY <1>b, <2>1, <2>2, <2>3, <2>4, <2>5, <2>6, <2>7 DEF WakeMove
<1> QED
  BY <1>1, <1>2, <1>3, <1>4, <1>5, <1>6, <1>7, <1>8, <1>9, <1>10, <1>11, <1>12
     DEF WorkerStep

\* What a step of the user's thread leaves of a worker: it waits for a packet
\* before and after, or its locks, its packet and its frame stay.
Rests(p, q) == p.pc \in Waiting /\ q.pc \in Waiting /\ ~q.decoding
Stays(p, q) ==
  /\ \/ q.pc = p.pc
     \/ p.pc = "async asleep" /\ q.pc = "async"
  /\ q.back = p.back /\ q.state = p.state /\ q.job = p.job
  /\ q.decoding = p.decoding
  /\ q.hwaccel_serializing = p.hwaccel_serializing
  /\ q.async_serializing = p.async_serializing

\* That is enough for WakeInv if the locks have owners and the user's thread is
\* asleep for a reason.
LEMMA WakeByUser ==
  ASSUME HwInv, WakeInv, hwaccel_mutex' = hwaccel_mutex,
         \A k \in Worker : \/ Rests(threads[k], threads'[k])
                           \/ Stays(threads[k], threads'[k]),
         async_lock' => UserOwner' \/ (async_lock /\ ~UserOwner),
         async_lock /\ ~async_lock' => \A k \in Worker : threads'[k].pc # "async asleep",
         UserAsleepInv', JoinInv'
  PROVE  WakeInv'
<1>1. ASSUME NEW k \in Worker
      PROVE  /\ HwThread(k) /\ AsyncThread(k) /\ Framed(threads[k])
             /\ threads[k].pc = "await" => Before(k)
             /\ threads[k].pc = "async asleep" => async_lock
  BY DEF HwInv, WakeInv, FrameInv, AsleepInv
<1>2. ASSUME NEW k \in Worker, threads[k].pc \notin Waiting
      PROVE  Stays(threads[k], threads'[k])
  BY <1>2 DEF Rests
<1>3. ASSUME NEW k \in Worker PROVE Framed(threads'[k])
  <2>1. CASE Rests(threads[k], threads'[k])
    BY <2>1 DEF Rests, Framed, Waiting
  <2>2. CASE Stays(threads[k], threads'[k])
    BY <1>1, <2>2 DEF Stays, Framed, Finishing, Decoding
  <2> QED
    BY <2>1, <2>2
<1>4. ASSUME NEW k \in Worker, threads'[k].pc = "await" PROVE Before(k)'
  <2>1. Stays(threads[k], threads'[k])
    BY <1>4 DEF Rests, Waiting
  <2>2. threads[k].pc = "await" /\ threads'[k].job = threads[k].job
    BY <1>4, <2>1 DEF Stays
  <2>3. PICK j \in Worker : threads[j].job = threads[k].job - 1 /\ threads[j].decoding
    BY <1>1, <2>2 DEF Before
  <2>4. threads[j].pc \notin Waiting
    BY <1>1, <2>3 DEF Framed, Waiting, Finishing, Decoding
  <2>5. threads'[j].job = threads[j].job /\ threads'[j].decoding
    BY <1>2, <2>3, <2>4 DEF Stays
  <2> QED
    BY <2>2, <2>3, <2>5 DEF Before
<1>5. HeldInv'
  <2>1. \/ hwaccel_mutex' = None
        \/ \E k \in Worker : hwaccel_mutex' = k /\ threads'[k].hwaccel_serializing
    <3>1. ASSUME NEW k \in Worker, threads[k].hwaccel_serializing
          PROVE  threads'[k].hwaccel_serializing
      <4>1. threads[k].pc \notin Waiting
        BY <1>1, <3>1 DEF HwThread, Waiting, Finishing, Decoding
      <4> QED
        BY <1>2, <3>1, <4>1 DEF Stays
    <3> QED
      BY <3>1 DEF WakeInv, HeldInv
  <2>2. async_lock' => UserOwner' \/ \E k \in Worker : AsyncOwner(k)'
    <3>1. ASSUME NEW k \in Worker, AsyncOwner(k) PROVE AsyncOwner(k)'
      <4>1. threads[k].pc \notin Waiting
        BY <1>1, <3>1 DEF AsyncThread, AsyncOwner, Waiting, Finishing, Decoding
      <4> QED
        BY <1>2, <3>1, <4>1 DEF Stays, AsyncOwner
    <3> QED
      BY <3>1 DEF WakeInv, HeldInv
  <2> QED
    BY <2>1, <2>2 DEF HeldInv
<1>6. AsleepInv'
  <2>1. ASSUME NEW k \in Worker, threads'[k].pc = "async asleep" PROVE async_lock'
    <3>1. threads[k].pc = "async asleep"
      BY <2>1 DEF Rests, Stays, Waiting
    <3> QED
      BY <1>1, <2>1, <3>1
  <2> QED
    BY <2>1 DEF AsleepInv
<1> QED
  BY <1>3, <1>4, <1>5, <1>6 DEF WakeInv, FrameInv

LEMMA StaysSame == ASSUME NEW p PROVE Stays(p, p)
BY DEF Stays

\* A call wakes the workers that sleep on async_cond.
LEMMA StaysAsync ==
  ASSUME threads \in [Worker -> ThreadType], NEW k \in Worker, threads' = WakeAsync(threads)
  PROVE  Stays(threads[k], threads'[k]) /\ threads'[k].pc # "async asleep"
<1>1. threads[k] \in ThreadType
  OBVIOUS
<1>2. ASSUME NEW p \in ThreadType, p.pc = "async asleep"
      PROVE  Stays(p, [p EXCEPT !.pc = "async"]) /\ [p EXCEPT !.pc = "async"].pc = "async"
  BY <1>2 DEF ThreadType, Stays
<1>3. threads'[k] = IF threads[k].pc = "async asleep" THEN [threads[k] EXCEPT !.pc = "async"]
                                                      ELSE threads[k]
  BY Zenon DEF WakeAsync
<1> QED
  BY <1>1, <1>2, <1>3, StaysSame

\* A step that leaves the workers alone.
LEMMA WakeByNone ==
  ASSUME HwInv, WakeInv, threads' = threads, hwaccel_mutex' = hwaccel_mutex,
         async_lock => async_lock',
         async_lock' => UserOwner' \/ (async_lock /\ ~UserOwner),
         UserAsleepInv', JoinInv'
  PROVE  WakeInv'
BY StaysSame, WakeByUser

\* A step that touches one waiting worker, outside the locks.
LEMMA WakeByOne ==
  ASSUME HwInv, WakeInv, NEW n \in Worker, threads[n].pc \in Waiting,
         threads'[n].pc \in Waiting, ~threads'[n].decoding,
         \A k \in Worker \ {n} : threads'[k] = threads[k],
         hwaccel_mutex' = hwaccel_mutex, async_lock' = async_lock,
         UserOwner => UserOwner', UserAsleepInv', JoinInv'
  PROVE  WakeInv'
<1>1. ASSUME NEW k \in Worker
      PROVE  Rests(threads[k], threads'[k]) \/ Stays(threads[k], threads'[k])
  <2>1. CASE k = n
    BY <2>1 DEF Rests
  <2>2. CASE k # n
    BY <2>2, StaysSame
  <2> QED
    BY <2>1, <2>2
<1> QED
  BY <1>1, WakeByUser

\* The steps of the user's thread, and the caller's, that touch no worker's packet.
LEMMA WakeUserStep ==
  ASSUME HwInv, WakeInv, 
         \/ NoSubmit \/ Submit \/ Prev \/ Wait \/ Lock \/ Freed
         \/ \E size \in BOOLEAN : Decode(size)
         \/ \E then \in {"flush", "kill"} : Leave(then)
         \/ UNCHANGED vars
  PROVE  WakeInv'
<1>b. UserType /\ threads \in [Worker -> ThreadType]
  BY DEF HwInv, OrderInv, TypeOK
<1>d. UserOwner => async_lock
  BY DEF HwInv, OwnerInv
<1>1. CASE NoSubmit
  <2>1. user.at = "submit" /\ Goto("collect")
    BY <1>1, Zenon DEF NoSubmit, Submitted
  <2>2. user'.at = "collect"
    BY <1>b, <2>1, GotoCalling DEF Calling
  <2>3. /\ threads' = threads /\ hwaccel_mutex' = hwaccel_mutex
        /\ async_lock' = async_lock
    BY <1>1 DEF NoSubmit
  <2>4. UserAsleepInv' /\ JoinInv'
    BY <2>2 DEF UserAsleepInv, JoinInv
  <2> QED
    BY <2>1, <2>3, <2>4, WakeByNone DEF UserOwner
<1>2. CASE Submit
  <2>1. PICK place \in {"finish", "prev"} : user.at = "submit" /\ Goto(place)
    BY <1>2, Zenon DEF Submit, Return
  <2>2. user'.at = place
    BY <1>b, <2>1, GotoCalling DEF Calling, Returning
  <2>3. /\ threads' = threads /\ hwaccel_mutex' = hwaccel_mutex
        /\ async_lock' = async_lock
    BY <1>2 DEF Submit
  <2>4. UserAsleepInv' /\ JoinInv'
    BY <2>2 DEF UserAsleepInv, JoinInv
  <2> QED
    BY <2>1, <2>3, <2>4, WakeByNone DEF UserOwner
<1>3. CASE Prev
  <2>1. PICK place \in {"prev asleep", "update"} :
          /\ user.at = "prev" /\ Goto(place)
          /\ place = "prev asleep" =>
               prev_thread # None /\ threads[prev_thread].state = "SETTING_UP"
    BY <1>3, Zenon DEF Prev
  <2>2. user'.at = place
    BY <1>b, <2>1, GotoCalling DEF Calling
  <2>3. /\ threads' = threads /\ hwaccel_mutex' = hwaccel_mutex
        /\ async_lock' = async_lock /\ prev_thread' = prev_thread
    BY <1>3 DEF Prev, fctx
  <2>4. UserAsleepInv' /\ JoinInv'
    BY <2>1, <2>2, <2>3 DEF UserAsleepInv, JoinInv
  <2> QED
    BY <2>1, <2>3, <2>4, WakeByNone DEF UserOwner
<1>4. CASE Wait
  <2>1. /\ user'.at \in {"collect asleep", "park asleep"}
        /\ user'.finished = user.finished /\ user.finished \in Worker
        /\ threads[user.finished].state # "INPUT_READY"
    <3>0. user.finished < N /\ threads[user.finished].state # "INPUT_READY"
      BY <1>4 DEF Wait
    <3>1. CASE user.at = "collect"
      <4>1. Goto("collect asleep")
        BY <1>4, <3>1 DEF Wait
      <4> QED
        BY <1>b, <3>0, <3>1, <4>1, GotoCalling DEF Calling
    <3>2. CASE user.at = "park"
      <4>1. Goto("park asleep")
        BY <1>4, <3>2 DEF Wait
      <4>2. user'.at = "park asleep" /\ user'.finished = user.finished
            /\ user.finished \in 0 .. N
        BY <1>b, <3>2, <4>1, GotoParking DEF Parking
      <4>3. user.finished \in 0 .. N
        BY <4>2
      <4>4. user.finished \in Worker
        BY <3>0, <4>3, ThreadAssumption DEF Worker
      <4> QED
        BY <3>0, <4>2, <4>4
    <3> QED
      BY <1>4, <3>1, <3>2 DEF Wait
  <2>2. /\ threads' = threads /\ hwaccel_mutex' = hwaccel_mutex
        /\ async_lock' = async_lock /\ user.at \in {"collect", "park"}
    BY <1>4 DEF Wait
  <2>3. UserAsleepInv' /\ JoinInv'
    BY <2>1, <2>2 DEF UserAsleepInv, JoinInv
  <2> QED
    BY <2>2, <2>3, WakeByNone DEF UserOwner
<1>5. CASE Lock
  <2>1. /\ threads' = threads /\ hwaccel_mutex' = hwaccel_mutex
        /\ async_lock' = TRUE /\ user.at = "finish"
        /\ user' = IF async_lock THEN [user EXCEPT !.at = "finish asleep"]
                   ELSE IF user.then = "kill" THEN [at |-> "kill", finished |-> 0]
                   ELSE [at |-> user.then]
    BY <1>5 DEF Lock
  <2>2. [user EXCEPT !.at = "finish asleep"].at = "finish asleep"
        /\ user.then \in {"idle", "flush", "kill"}
    BY <1>b, <2>1 DEF UserType, Calling, Parking, Returning
  <2>3. /\ user'.at = IF async_lock THEN "finish asleep" ELSE user.then
    BY <2>1, <2>2
  <2>4. UserAsleepInv' /\ JoinInv'
    BY <2>1, <2>2, <2>3 DEF UserAsleepInv, JoinInv
  <2>5. async_lock' => UserOwner' \/ (async_lock /\ ~UserOwner)
    BY <2>1, <2>2, <2>3 DEF UserOwner
  <2> QED
    BY <2>1, <2>4, <2>5, WakeByNone
<1>6. CASE Freed
  <2>1. /\ threads' = threads /\ hwaccel_mutex' = hwaccel_mutex
        /\ async_lock' = async_lock /\ user'.at = "gone"
    BY <1>6 DEF Freed
  <2>2. UserAsleepInv' /\ JoinInv'
    BY <2>1 DEF UserAsleepInv, JoinInv
  <2> QED
    BY <2>1, <2>2, WakeByNone DEF UserOwner
<1>7. CASE \/ \E size \in BOOLEAN : Decode(size)
           \/ \E then \in {"flush", "kill"} : Leave(then)
  <2>1. /\ threads' = WakeAsync(threads) /\ hwaccel_mutex' = hwaccel_mutex
        /\ ~async_lock' /\ user'.at \in {"submit", "park"}
    BY <1>7 DEF Decode, Leave, Enter
  <2>2. \A k \in Worker : Stays(threads[k], threads'[k]) /\ threads'[k].pc # "async asleep"
    BY <1>b, <2>1, StaysAsync
  <2>3. UserAsleepInv' /\ JoinInv'
    BY <2>1 DEF UserAsleepInv, JoinInv
  <2> QED
    BY <2>1, <2>2, <2>3, WakeByUser
<1>8. CASE UNCHANGED vars
  <2>1. UserAsleepInv' /\ JoinInv' /\ (UserOwner' <=> UserOwner)
    BY <1>8 DEF vars, WakeInv, UserAsleepInv, JoinInv, UserOwner
  <2>2. /\ threads' = threads /\ hwaccel_mutex' = hwaccel_mutex
        /\ async_lock' = async_lock
    BY <1>8 DEF vars
  <2> QED
    BY <2>1, <2>2, WakeByNone
<1> QED
  BY <1>1, <1>2, <1>3, <1>4, <1>5, <1>6, <1>7, <1>8

LEMMA WakeRefused ==
  ASSUME HwInv, WakeInv, UpdateFails \/ RefFails
  PROVE  WakeInv'
<1>1. user.at = "update" /\ Goto("finish")
  BY DEF UpdateFails, RefFails, Return
<1>2. PICK n \in Worker : n = next_decoding
  BY <1>1, NextDiffers DEF HwInv, Submitting
<1>3. user'.at = "finish"
  BY <1>1, GotoCalling DEF HwInv, OrderInv, TypeOK, Calling, Returning
<1>4. PICK q : threads' = [threads EXCEPT ![n] = q] /\ Kept(threads[n], q)
  BY <1>2, RefusedShape DEF HwInv
<1>5. threads \in [Worker -> ThreadType] /\ threads[n].pc \in Waiting
  BY <1>1, <1>2 DEF HwInv, OrderInv, TypeOK, UserInv, Submitting
<1>6. /\ threads'[n].pc = threads[n].pc /\ threads'[n].decoding = threads[n].decoding
      /\ \A k \in Worker \ {n} : threads'[k] = threads[k]
  BY <1>4, <1>5 DEF Kept
<1>7. ~threads[n].decoding
  BY <1>5 DEF WakeInv, FrameInv, Framed, Waiting, Finishing, Decoding
<1>8. hwaccel_mutex' = hwaccel_mutex /\ async_lock' = async_lock
  BY DEF UpdateFails, RefFails
<1>9. UserAsleepInv' /\ JoinInv'
  BY <1>3 DEF UserAsleepInv, JoinInv
<1> QED
  BY <1>1, <1>5, <1>6, <1>7, <1>8, <1>9, WakeByOne DEF UserOwner

LEMMA WakeHandOver ==
  ASSUME HwInv, WakeInv, HandOver
  PROVE  WakeInv'
<1>1. user.at = "update"
  BY DEF HandOver
<1>2. PICK n \in Worker : n = next_decoding
  BY <1>1, NextDiffers DEF HwInv, Submitting
<1>3. PICK q \in ThreadType :
        threads' = [threads EXCEPT ![n] = q] /\ q.pc = "lock" /\ ~q.decoding
  BY <1>2, HandOverShape DEF HwInv
<1>4. user'.at \in {"finish", "collect"}
  <2>1. \/ Goto("finish")
        \/ Goto("collect")
    BY Zenon DEF HandOver, Submitted, Return
  <2> QED
    BY <1>1, <2>1, GotoCalling DEF HwInv, OrderInv, TypeOK, Calling, Returning
<1>5. threads \in [Worker -> ThreadType] /\ threads[n].pc \in Waiting
  BY <1>1, <1>2 DEF HwInv, OrderInv, TypeOK, UserInv, Submitting
<1>6. /\ threads'[n].pc \in Waiting /\ ~threads'[n].decoding
      /\ \A k \in Worker \ {n} : threads'[k] = threads[k]
  BY <1>3, <1>5 DEF Waiting
<1>7. hwaccel_mutex' = hwaccel_mutex /\ async_lock' = async_lock
  BY DEF HandOver
<1>8. UserAsleepInv' /\ JoinInv'
  BY <1>4 DEF UserAsleepInv, JoinInv
<1> QED
  BY <1>1, <1>5, <1>6, <1>7, <1>8, WakeByOne DEF UserOwner

LEMMA WakeCollect ==
  ASSUME HwInv, WakeInv, Collect
  PROVE  WakeInv'
<1>1. user.at = "collect" /\ Oldest.state = "INPUT_READY"
  BY DEF Collect, CollectThen
<1>2. user \in [at : Calling \cup Returning, size : BOOLEAN, finished : Worker,
                then : {"idle"}]
  BY <1>1 DEF HwInv, OrderInv, TypeOK, UserType, Calling, Parking, Returning
<1>3. PICK n \in Worker : n = user.finished
  BY <1>2
<1>4. /\ threads \in [Worker -> ThreadType] /\ threads[n] \in ThreadType
      /\ threads[n].pc \in Waiting
  BY <1>1, <1>3 DEF HwInv, OrderInv, TypeOK, StateInv, ThreadState, Oldest
<1>5. /\ threads' = [threads EXCEPT ![n].job = 0, ![n].result = "none"]
      /\ hwaccel_mutex' = hwaccel_mutex /\ async_lock' = async_lock
  BY <1>3, Zenon DEF Collect, CollectThen
<1>6. user'.at \in {"collect", "finish"}
  <2>1. \/ user' = [user EXCEPT !.finished = Following]
        \/ user' = [user EXCEPT !.at = "finish"]
    BY Zenon DEF Collect, CollectThen, Return, Goto
  <2>2. [user EXCEPT !.finished = Following].at = "collect"
    BY <1>1, <1>2
  <2>3. [user EXCEPT !.at = "finish"].at = "finish"
    BY <1>2
  <2> QED
    BY <2>1, <2>2, <2>3
<1>7. ~threads[n].decoding
  BY <1>4 DEF WakeInv, FrameInv, Framed, Waiting, Finishing, Decoding
<1>8. /\ threads'[n].pc \in Waiting /\ ~threads'[n].decoding
      /\ \A k \in Worker \ {n} : threads'[k] = threads[k]
  BY <1>4, <1>5, <1>7 DEF ThreadType
<1>9. UserAsleepInv' /\ JoinInv'
  BY <1>6 DEF UserAsleepInv, JoinInv
<1> QED
  BY <1>1, <1>4, <1>5, <1>8, <1>9, WakeByOne DEF UserOwner

LEMMA WakePark ==
  ASSUME HwInv, WakeInv, Park
  PROVE  WakeInv'
<1>1. user.at = "park"
  BY DEF Park
<1>2. user \in [at : Parking \cup Returning, finished : 0 .. N, then : {"flush", "kill"}]
  BY <1>1 DEF HwInv, OrderInv, TypeOK, UserType, Calling, Parking, Returning
<1>3. hwaccel_mutex' = hwaccel_mutex /\ async_lock' = async_lock
  BY DEF Park
<1>4. CASE user.finished = N
  <2>1. threads' = threads /\ user' = [user EXCEPT !.at = "finish"]
    BY <1>4 DEF Park, Goto
  <2>2. user'.at = "finish"
    BY <1>2, <2>1
  <2>3. UserAsleepInv' /\ JoinInv'
    BY <2>2 DEF UserAsleepInv, JoinInv
  <2> QED
    BY <1>1, <1>3, <2>1, <2>3, WakeByNone DEF UserOwner
<1>5. CASE user.finished # N
  <2>1. PICK n \in Worker : n = user.finished
    BY <1>2, <1>5, ThreadAssumption DEF Worker
  <2>2. /\ threads \in [Worker -> ThreadType] /\ threads[n] \in ThreadType
        /\ threads[n].pc \in Waiting
    BY <1>5, <2>1 DEF Park, HwInv, OrderInv, TypeOK, StateInv, ThreadState
  <2>3. PICK r : threads' = [threads EXCEPT ![n].result = r]
    BY <1>5, <2>1, Zenon DEF Park
  <2>4. ~threads[n].decoding
    BY <2>2 DEF WakeInv, FrameInv, Framed, Waiting, Finishing, Decoding
  <2>5. /\ threads'[n].pc \in Waiting /\ ~threads'[n].decoding
        /\ \A k \in Worker \ {n} : threads'[k] = threads[k]
    BY <2>2, <2>3, <2>4 DEF ThreadType
  <2>6. user'.at = "park"
    <3>1. PICK d : user' = [user EXCEPT !.finished = d]
      BY <1>5, <2>1, Zenon DEF Park
    <3> QED
      BY <1>1, <1>2, <3>1
  <2>7. UserAsleepInv' /\ JoinInv'
    BY <2>6 DEF UserAsleepInv, JoinInv
  <2> QED
    BY <1>1, <1>3, <2>2, <2>5, <2>7, WakeByOne DEF UserOwner
<1> QED
  BY <1>4, <1>5

LEMMA WakeDying ==
  ASSUME HwInv, WakeInv, Kill \/ Join
  PROVE  WakeInv'
<1>1. /\ user.at \in {"kill", "join"} /\ user.finished \in Worker
      /\ user \in [at : {"kill"}, finished : 0 .. N]
           \/ user \in [at : {"join"}, finished : Worker]
  <2>1. CASE Kill
    <3>1. user \in [at : {"kill"}, finished : 0 .. N] /\ user.finished < N
      BY <2>1 DEF Kill, HwInv, OrderInv, TypeOK, UserType, Calling, Parking, Returning
    <3> QED
      BY <3>1, ThreadAssumption DEF Worker
  <2>2. CASE Join
    BY <2>2 DEF Join, HwInv, OrderInv, TypeOK, UserType, Calling, Parking, Returning
  <2> QED
    BY <2>1, <2>2
<1>2. PICK n \in Worker : n = user.finished
  BY <1>1
<1>3. /\ threads \in [Worker -> ThreadType] /\ threads[n] \in ThreadType
      /\ threads[n].pc \in Waiting
  BY <1>1 DEF HwInv, OrderInv, TypeOK, StateInv, ThreadState, UserInv, AllReady
<1>4. hwaccel_mutex' = hwaccel_mutex /\ async_lock' = async_lock
  BY DEF Kill, Join
<1>5. ~threads[n].decoding
  BY <1>3 DEF WakeInv, FrameInv, Framed, Waiting, Finishing, Decoding
<1>6. /\ threads'[n].pc \in Waiting /\ ~threads'[n].decoding
      /\ \A k \in Worker \ {n} : threads'[k] = threads[k]
      /\ user'.at \in {"join", "kill"} /\ UserAsleepInv' /\ JoinInv'
  <2>1. CASE Kill
    <3>1. PICK place \in {"lock", "exit"} :
            threads' = [threads EXCEPT ![n].die = TRUE, ![n].pc = place]
      <4>1. (IF threads[n].pc = "asleep" THEN "lock" ELSE threads[n].pc) \in {"lock", "exit"}
        BY <1>3 DEF Waiting
      <4> QED
        BY <1>2, <2>1, <4>1, Zenon DEF Kill
    <3>2. /\ threads'[n].pc = place /\ threads'[n].die /\ ~threads'[n].decoding
          /\ \A k \in Worker \ {n} : threads'[k] = threads[k]
      BY <1>3, <1>5, <3>1 DEF ThreadType
    <3>3. user'.at = "join" /\ user'.finished = n
      BY <1>1, <1>2, <2>1 DEF Kill, Goto
    <3> QED
      BY <3>2, <3>3 DEF Waiting, UserAsleepInv, JoinInv
  <2>2. CASE Join
    <3>1. threads' = [threads EXCEPT ![n].hw = FALSE]
      BY <1>2, <2>2, Zenon DEF Join
    <3>2. /\ threads'[n].pc \in Waiting /\ ~threads'[n].decoding
          /\ \A k \in Worker \ {n} : threads'[k] = threads[k]
      BY <1>3, <1>5, <3>1 DEF ThreadType
    <3>3. user'.at = "kill"
      BY <1>1, <2>2 DEF Join
    <3> QED
      BY <3>2, <3>3 DEF UserAsleepInv, JoinInv
  <2> QED
    BY <2>1, <2>2
<1> QED
  BY <1>3, <1>4, <1>6, WakeByOne DEF UserOwner

LEMMA WakeFlush ==
  ASSUME HwInv, WakeInv, Flush
  PROVE  WakeInv'
<1>1. user.at = "flush" /\ AllReady /\ 0 \in Worker
  <2>1. user.at = "flush"
    BY Zenon DEF Flush
  <2> QED
    BY <2>1, ThreadAssumption DEF HwInv, OrderInv, UserInv, Worker
<1>2. PICK p \in ThreadType :
        /\ p.pc = threads[0].pc /\ p.decoding = threads[0].decoding
        /\ threads' = [i \in Worker |-> [(IF i = 0 THEN p ELSE threads[i])
                                           EXCEPT !.job = 0, !.result = "none"]]
  BY FlushedFirst DEF HwInv
<1>3. ASSUME NEW k \in Worker
      PROVE  /\ threads[k] \in ThreadType /\ threads[k].pc \in Waiting
             /\ ~threads[k].decoding
  <2>1. threads[k] \in ThreadType /\ threads[k].pc \in Waiting
    BY <1>1 DEF HwInv, OrderInv, TypeOK, StateInv, ThreadState, AllReady
  <2> QED
    BY <2>1 DEF WakeInv, FrameInv, Framed, Waiting, Finishing, Decoding
<1>4. ASSUME NEW q \in ThreadType
      PROVE  /\ [q EXCEPT !.job = 0, !.result = "none"].pc = q.pc
             /\ [q EXCEPT !.job = 0, !.result = "none"].decoding = q.decoding
  BY DEF ThreadType
<1>5. ASSUME NEW k \in Worker PROVE Rests(threads[k], threads'[k])
  <2>1. PICK q \in ThreadType : /\ q.pc = threads[k].pc /\ q.decoding = threads[k].decoding
                                /\ threads'[k] = [q EXCEPT !.job = 0, !.result = "none"]
    <3>1. CASE k = 0
      BY <1>2, <3>1, Zenon
    <3>2. CASE k # 0
      BY <1>2, <1>3, <3>2, Zenon
    <3> QED
      BY <3>1, <3>2
  <2>2. threads'[k].pc = q.pc /\ threads'[k].decoding = q.decoding
    BY <1>4, <2>1, Zenon
  <2> QED
    BY <1>3, <2>1, <2>2 DEF Rests
<1>6. hwaccel_mutex' = hwaccel_mutex /\ async_lock' = async_lock /\ user'.at = "idle"
  BY DEF Flush
<1>7. UserAsleepInv' /\ JoinInv' /\ UserOwner'
  BY <1>6 DEF UserAsleepInv, JoinInv, UserOwner
<1> QED
  BY <1>5, <1>6, <1>7, WakeByUser

LEMMA WakeInit == Init => WakeInv
BY DEF Init, Thread, WakeInv, FrameInv, Framed, HeldInv, UserAsleepInv, AsleepInv, JoinInv,
       UserOwner

LEMMA WakeStep == HwInv /\ WakeInv /\ [Next]_vars => WakeInv'
<1> SUFFICES ASSUME HwInv, WakeInv, [Next]_vars PROVE WakeInv'
  OBVIOUS
<1>1. CASE Call
  BY <1>1, WakeUserStep DEF Call
<1>2. CASE UserStep
  BY <1>2, WakeUserStep, WakeRefused, WakeHandOver, WakeCollect, WakePark, WakeFlush, WakeDying
     DEF UserStep
<1>3. ASSUME NEW i \in Worker, WorkerStep(i) PROVE WakeInv'
  BY <1>3, OrderWorkerStep, HwWorkerStep, WakeWorkerStep, WakeByWorker
<1>4. CASE Gone \/ UNCHANGED vars
  BY <1>4, WakeUserStep DEF Gone
<1> QED
  BY <1>1, <1>2, <1>3, <1>4 DEF Next

-----------------------------------------------------------------------------
\* Worker i, and the user's thread inside a call, can take a step: the guards of
\* WorkerStep(i) and UserStep, without the steps that only fall asleep.
WorkerGoesOn(i) ==
  LET p == threads[i]
  IN  \/ p.pc \in {"begin", "stash", "unlock", "async unlock", "ready"}
      \/ p.pc = "lock" /\ ~UserHolds(i) /\ (p.die \/ p.state # "INPUT_READY")
      \/ p.pc = "serial" /\ (hwaccel_serial(p) => hwaccel_mutex = None)
      \/ p.pc = "finish" /\ (hwaccel_serial(p) /\ ~p.hwaccel_serializing
                               => hwaccel_mutex = None)
      \/ p.pc = "async" /\ ~async_lock
      \/ p.pc = "decode" /\ ~(p.decoding /\ Before(i))
UserGoesOn ==
  \/ user.at \in {"update", "flush"}
  \/ user.at = "submit" /\ (user.size \/ codec.delay => ~WorkerHolds(next_decoding))
  \/ user.at = "prev" /\ (prev_thread # None => threads[prev_thread].state # "SETTING_UP")
  \/ user.at = "collect" /\ threads[user.finished].state = "INPUT_READY"
  \/ user.at = "park" /\ (user.finished < N => threads[user.finished].state = "INPUT_READY")
  \/ user.at = "finish" /\ ~async_lock
  \/ user.at = "kill" /\ (user.finished < N => ~WorkerHolds(user.finished))
  \/ user.at = "join" /\ threads[user.finished].pc = "exit"
SomeoneGoesOn ==
  user.at \notin {"idle", "gone"} => UserGoesOn \/ \E i \in Worker : WorkerGoesOn(i)

\* A nonempty set of numbers has a least one.
LEMMA LeastNat ==
  ASSUME NEW T, T \subseteq Nat, T # {}
  PROVE  \E i \in T : \A j \in T : i <= j
<1>1. PICK x \in T : \A y \in T : ~(<<y, x>> \in OpToRel(<, Nat))
  BY NatLessThanWellFounded, WFMin
<1>2. \A y \in T : ~(y < x)
  BY <1>1 DEF OpToRel
<1> QED
  BY <1>2

\* Of the workers past their setup the one with the oldest packet goes on: the
\* frame it would wait for is complete.
LEMMA OldestGoesOn ==
  ASSUME HwInv, WakeInv, QueueInv, NEW w \in Worker, threads[w].state = "SETUP_FINISHED"
  PROVE  \E i \in Worker : WorkerGoesOn(i)
<1>1. ASSUME NEW i \in Worker
      PROVE  /\ threads[i] \in ThreadType /\ threads[i].job \in Nat /\ ThreadState(threads[i])
             /\ HwThread(i) /\ Framed(threads[i]) /\ (threads[i].pc = "await" => Before(i))
  <2>1. threads[i] \in ThreadType
    BY DEF HwInv, OrderInv, TypeOK
  <2>2. threads[i].job \in Nat
    BY <2>1 DEF ThreadType
  <2> QED
    BY <2>1, <2>2 DEF HwInv, OrderInv, StateInv, WakeInv, FrameInv
<1>2. PICK i \in Worker :
        /\ threads[i].state = "SETUP_FINISHED"
        /\ \A k \in Worker : threads[k].state = "SETUP_FINISHED"
                               => threads[i].job <= threads[k].job
  <2> DEFINE T == {threads[k].job : k \in {j \in Worker : threads[j].state = "SETUP_FINISHED"}}
  <2>1. T \subseteq Nat /\ threads[w].job \in T
    BY <1>1
  <2>2. PICK m \in T : \A n \in T : m <= n
    BY <2>1, LeastNat
  <2>3. PICK i \in Worker : threads[i].state = "SETUP_FINISHED" /\ m = threads[i].job
    BY <2>2
  <2> QED
    BY <2>2, <2>3
<1>3. CASE Before(i)
  <2>1. PICK k \in Worker : threads[k].job = threads[i].job - 1 /\ threads[k].decoding
    BY <1>3 DEF Before
  <2>2. threads[k].state # "SETUP_FINISHED"
    BY <1>1, <1>2, <2>1
  <2>3. threads[k].state = "SETTING_UP"
    BY <1>1, <2>1, <2>2 DEF Framed, ThreadState, Finishing
  <2>4. threads[k].job = count
    BY <2>3 DEF HwInv, OrderInv, TurnInv
  <2>5. threads[i].job <= count
    <3>1. PICK n \in 0 .. N : n <= count /\ HeldIn(threads, count, First, n)
      BY DEF QueueInv, RingInv, Ring
    <3>2. First \in Worker
      BY DEF HwInv, OrderInv, TypeOK, UserType, Calling, Collecting, Parking, Returning, First
    <3>3. Dist(First, i) \in Worker
      BY <3>2, RingShape, Zenon
    <3>4. Dist(First, i) \in Nat
      BY <3>3, ThreadAssumption DEF Worker
    <3>5. threads[i].job = IF Dist(First, i) < n THEN count - n + 1 + Dist(First, i) ELSE 0
      BY <3>1 DEF HeldIn
    <3>6. count \in Nat
      BY DEF HwInv, OrderInv, TypeOK
    <3> QED
      BY <3>1, <3>4, <3>5, <3>6
  <2>6. threads[i].job \in Nat /\ count \in Nat
    BY <1>1 DEF HwInv, OrderInv, TypeOK
  <2> QED
    BY <2>1, <2>4, <2>5, <2>6
<1>4. CASE ~Before(i)
  <2>1. threads[i].pc \in {"serial", "decode"} \cup Ending
    <3>1. threads[i].pc \in Place
      BY <1>1 DEF ThreadType
    <3> QED
      BY <1>1, <1>2, <1>4, <3>1 DEF ThreadState, Place, Waiting, Finishing, Decoding, Ending
  <2>2. threads[i].pc = "serial" => ~hwaccel_serial(threads[i])
    <3>1. ~codec.update => codec.hw = "none"
      BY CodecsAssumption DEF HwInv, OrderInv, TypeOK
    <3> QED
      BY <1>1, <1>2, <3>1 DEF ThreadState, hwaccel_serial
  <2> QED
    BY <1>4, <2>1, <2>2 DEF WorkerGoesOn, Ending
<1> QED
  BY <1>3, <1>4

\* When no worker is past its setup, the one that sets up goes on: nobody
\* keeps a lock from it.
LEMMA SetupGoesOn ==
  ASSUME HwInv, WakeInv, user.at # "idle",
         \A k \in Worker : threads[k].state # "SETUP_FINISHED",
         NEW i \in Worker, threads[i].state = "SETTING_UP"
  PROVE  WorkerGoesOn(i) \/ \E k \in Worker : WorkerGoesOn(k)
<1>1. ASSUME NEW k \in Worker
      PROVE  /\ threads[k].pc \in Place
             /\ threads[k].state \in {"INPUT_READY", "SETTING_UP"}
             /\ ThreadState(threads[k]) /\ HwThread(k) /\ AsyncThread(k)
             /\ Framed(threads[k])
             /\ threads[k].pc = "async asleep" => async_lock
             /\ threads[k].state = "SETTING_UP" => k = prev_thread
  <2>1. threads[k] \in ThreadType
    BY DEF HwInv, OrderInv, TypeOK
  <2>2. threads[k].pc \in Place /\ threads[k].state \in {"INPUT_READY", "SETTING_UP"}
    BY <2>1 DEF ThreadType
  <2> QED
    BY <2>2 DEF HwInv, OrderInv, StateInv, TurnInv, WakeInv, FrameInv, AsleepInv
<1>2. ~UserHolds(i)
  <2>1. i = prev_thread
    BY <1>1
  <2>2. i # None
    BY ThreadAssumption DEF Worker, None
  <2> QED
    BY <2>1, <2>2, NextDiffers DEF HwInv, UserHolds, Submitting
<1>3. \A k \in Worker : threads[k].pc \notin Ending
  BY <1>1 DEF ThreadState
<1>4. CASE \E k \in Worker : AsyncOwner(k)
  <2>1. PICK k \in Worker : AsyncOwner(k)
    BY <1>4
  <2>2. threads[k].pc = "stash"
    BY <1>1, <1>3, <2>1 DEF AsyncOwner, AsyncThread, Ending, Decoding
  <2> QED
    BY <2>2 DEF WorkerGoesOn
<1>5. CASE \A k \in Worker : ~AsyncOwner(k)
  <2>1. ~async_lock
    <3>1. ~UserOwner
      BY DEF UserOwner, HwInv, OrderInv, UserInv, AllReady
    <3> QED
      BY <1>5, <3>1 DEF WakeInv, HeldInv
  <2>2. hwaccel_mutex = None \/ threads[i].hwaccel_serializing
    <3>1. ASSUME NEW k \in Worker, threads[k].hwaccel_serializing PROVE k = i
      <4>1. threads[k].pc \notin Waiting
        BY <1>1, <3>1 DEF HwThread, Waiting, Finishing, Decoding
      <4>2. threads[k].state = "SETTING_UP"
        BY <1>1, <4>1 DEF ThreadState
      <4> QED
        BY <1>1, <4>2
    <3> QED
      BY <3>1 DEF WakeInv, HeldInv
  <2>3. threads[i].pc = "serial" => ~threads[i].hwaccel_serializing
    BY <1>1 DEF HwThread, Finishing, Decoding
  <2>4. threads[i].pc \in {"lock", "begin", "serial", "finish", "async", "stash", "decode"}
    BY <1>1, <1>3, <2>1 DEF Place, Waiting, Finishing, Decoding, Ending, ThreadState, Framed
  <2>5. threads[i].pc = "decode" => ~threads[i].decoding
    BY <1>1 DEF Framed, Finishing, Decoding
  <2> QED
    BY <1>2, <2>1, <2>2, <2>3, <2>4, <2>5 DEF WorkerGoesOn
<1> QED
  BY <1>4, <1>5

\* When every worker waits for a packet, the user's thread goes on, or the
\* worker that it joins does.
LEMMA UserGoesOnOrJoins ==
  ASSUME HwInv, WakeInv, user.at \notin {"idle", "gone"}, AllReady
  PROVE  UserGoesOn \/ \E k \in Worker : WorkerGoesOn(k)
<1>1. \A k \in Worker : threads[k].pc \in Waiting /\ ThreadState(threads[k]) /\ ~WorkerHolds(k)
  <2>1. \A k \in Worker : threads[k].pc \in Waiting /\ ThreadState(threads[k])
    BY DEF HwInv, OrderInv, StateInv, ThreadState, AllReady
  <2> QED
    BY <2>1 DEF WorkerHolds, Waiting
<1>2. async_lock => UserOwner
  <2>1. \A k \in Worker : ~AsyncOwner(k)
    BY <1>1 DEF HwInv, AsyncThread, AsyncOwner, Waiting, Decoding
  <2> QED
    BY <2>1 DEF WakeInv, HeldInv
<1>3. /\ user.at \in {"submit", "prev", "prev asleep", "collect", "collect asleep",
                      "finish", "finish asleep", "park", "park asleep", "kill", "join"}
           \cup {"update", "flush"}
      /\ user.at \in {"collect", "join"} => user.finished \in Worker
      /\ user.at \in {"kill", "park"} /\ user.finished < N => user.finished \in Worker
      /\ user.at = "submit" => next_decoding \in Worker
  <2>1. UserType /\ next_decoding \in 0 .. N /\ (next_decoding = N => user.at \in Collecting)
    BY DEF HwInv, OrderInv, TypeOK
  <2>2. user.at \in {"kill", "park"} /\ user.finished < N => user.finished \in Worker
    <3>1. user.at \in {"kill", "park"} => user.finished \in 0 .. N
      BY <2>1 DEF UserType, Calling, Parking, Returning
    <3> QED
      BY <3>1, ThreadAssumption DEF Worker
  <2>3. user.at = "submit" => next_decoding \in Worker
    <3>1. user.at = "submit" => next_decoding # N
      BY <2>1 DEF Collecting
    <3> QED
      BY <2>1, <3>1, ThreadAssumption DEF Worker
  <2>4. user.at \in {"collect", "join"} => user.finished \in Worker
    BY <2>1 DEF UserType, Calling, Parking, Returning
  <2>5. user.at \in {"submit", "prev", "prev asleep", "collect", "collect asleep",
                      "finish", "finish asleep", "park", "park asleep", "kill", "join"}
           \cup {"update", "flush"}
    BY <2>1 DEF UserType, Calling, Parking, Returning
  <2> QED
    BY <2>2, <2>3, <2>4, <2>5
<1>4. user.at \notin {"prev asleep", "collect asleep", "park asleep", "finish asleep"}
  <2>1. user.at # "prev asleep"
    <3> SUFFICES ASSUME user.at = "prev asleep" PROVE FALSE
      OBVIOUS
    <3>1. prev_thread \in Worker /\ threads[prev_thread].state = "SETTING_UP"
      BY DEF WakeInv, UserAsleepInv, HwInv, OrderInv, TypeOK
    <3> QED
      BY <3>1 DEF AllReady
  <2> QED
    BY <1>2, <2>1 DEF WakeInv, UserAsleepInv, AllReady, UserOwner
<1>5. CASE user.at = "join"
  <2>1. /\ threads[user.finished].die
        /\ threads[user.finished].pc \in {"lock", "exit"}
    BY <1>5 DEF WakeInv, JoinInv
  <2> QED
    BY <1>3, <1>5, <2>1 DEF UserGoesOn, WorkerGoesOn, UserHolds
<1>6. CASE user.at = "prev"
  <2>1. prev_thread # None => prev_thread \in Worker
    BY DEF HwInv, OrderInv, TypeOK
  <2> QED
    BY <1>6, <2>1 DEF UserGoesOn, AllReady
<1>7. CASE user.at \notin {"join", "prev"}
  BY <1>1, <1>2, <1>3, <1>4, <1>7 DEF UserGoesOn, AllReady, UserOwner
<1> QED
  BY <1>5, <1>6, <1>7

\* The three cases are all there are.
LEMMA NobodyStuck == HwInv /\ WakeInv /\ QueueInv => SomeoneGoesOn
<1> SUFFICES ASSUME HwInv, WakeInv, QueueInv, user.at \notin {"idle", "gone"}
             PROVE  UserGoesOn \/ \E i \in Worker : WorkerGoesOn(i)
  BY DEF SomeoneGoesOn
<1>1. CASE \E i \in Worker : threads[i].state = "SETUP_FINISHED"
  BY <1>1, OldestGoesOn
<1>2. CASE /\ \A k \in Worker : threads[k].state # "SETUP_FINISHED"
           /\ \E i \in Worker : threads[i].state = "SETTING_UP"
  BY <1>2, SetupGoesOn
<1>3. CASE AllReady
  BY <1>3, UserGoesOnOrJoins
<1>4. \A k \in Worker : threads[k].state \in {"INPUT_READY", "SETTING_UP", "SETUP_FINISHED"}
  BY DEF HwInv, OrderInv, TypeOK, ThreadType
<1> QED
  BY <1>1, <1>2, <1>3, <1>4 DEF AllReady

\* The threads of pthread_frame.c never all wait for each other, with any number
\* of them: while a call to ff_thread_decode_frame, ff_thread_flush or
\* ff_frame_thread_free has not returned, some thread can go on.  Every wait on
\* progress_cond, output_cond, async_cond, hwaccel_mutex and p->mutex ends with
\* some step that another thread can still take, so that no signal is missed and
\* no lock is kept; but a packet must not be lost with an accelerator that is not
\* thread-safe half way, as in HwExclusiveCorrect.
THEOREM FrameSomeoneGoesOnCorrect ==
  ASSUME "serial" \notin RefFailsWith
  PROVE  Spec => []SomeoneGoesOn
<1> DEFINE Inv == HwInv /\ WakeInv /\ QueueInv
<1>1. Init => Inv
  BY HwInit, WakeInit, QueueInit
<1>2. Inv /\ [Next]_vars => Inv'
  <2> SUFFICES ASSUME Inv, [Next]_vars PROVE Inv'
    OBVIOUS
  <2>1. HwInv' /\ WakeInv'
    BY HwStep, WakeStep
  <2> QED
    BY <2>1, QueueStep DEF HwInv
<1>3. Inv => SomeoneGoesOn
  BY NobodyStuck
<1> QED
  BY <1>1, <1>2, <1>3, PTL DEF Spec
=============================================================================
