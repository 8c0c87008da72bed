----------------------------- MODULE BufferPool -----------------------------
(***************************************************************************)
(* libavutil/buffer.c: reference-counted buffers and the pool that reuses  *)
(* their data.  Any number of threads ref, unref and write buffers, get    *)
(* them from the pool and hand them to each other; the pool is uninited    *)
(* while buffers of it are still out.                                      *)
(*                                                                         *)
(* A block stands for one piece of data with all that describes it: the    *)
(* AVBuffer, which is allocated apart the first time a block leaves the    *)
(* pool and is part of the BufferPoolEntry afterwards, and the entry.      *)
(* What is freed may be allocated again.  Atomic operations and sections   *)
(* under pool->mutex are one action each; between them other threads run.  *)
(***************************************************************************)
EXTENDS Integers, Sequences, FiniteSets

CONSTANTS Thread, Block,
          NoBlock,      \* the block of a thread that is busy with none
          MaxRefs       \* references a thread has to one block, at most

ASSUME FiniteAssumption == IsFiniteSet(Thread) /\ IsFiniteSet(Block)
ASSUME NoBlockAssumption == NoBlock \notin Block
ASSUME MaxRefsAssumption == MaxRefs \in Nat \ {0}

VARIABLES data,         \* data[b]: "none", "pool" (of the pool) or "plain"
          apart,        \* blocks with an AVBuffer allocated apart
          no_free,      \* blocks whose AVBuffer is flagged NO_FREE
          refcount,     \* refcount[b] of the AVBuffer
          refs,         \* refs[t][b]: AVBufferRefs of b that t holds
          ppool,        \* TRUE until av_buffer_pool_uninit
          pool_alive,   \* the AVBufferPool is not freed
          pool,         \* pool->pool, the list of blocks to reuse
          pool_refcount,
          pc            \* pc[t]: where t is in the library, with which block,
                        \* and whether it will free the AVBuffer

blocks == <<data, apart, no_free, refcount>>
pools  == <<ppool, pool_alive, pool, pool_refcount>>
vars == <<data, apart, no_free, refcount, refs, ppool, pool_alive, pool,
          pool_refcount, pc>>

Place(at, b, free) == [at |-> at, block |-> b, free_avbuffer |-> free]
Idle == Place("idle", NoBlock, FALSE)

Init == /\ data = [b \in Block |-> "none"]
        /\ apart = {} /\ no_free = {}
        /\ refcount = [b \in Block |-> 0]
        /\ refs = [t \in Thread |-> [b \in Block |-> 0]]
        /\ ppool = TRUE /\ pool_alive = TRUE
        /\ pool = <<>> /\ pool_refcount = 1
        /\ pc = [t \in Thread |-> Idle]

Goto(t, place) == pc' = [pc EXCEPT ![t] = place]
\* The same thread with the same block at another place.
Onto(t, at) == Place(at, pc[t].block, pc[t].free_avbuffer)
Holds(t, b) == refs[t][b] > 0
Holding(t, b, n) == refs' = [refs EXCEPT ![t][b] = @ + n]

\* A new block with its AVBuffer, one reference on it.
Allocate(b, kind) ==
  /\ data[b] = "none" /\ b \notin apart
  /\ data' = [data EXCEPT ![b] = kind]
  /\ apart' = apart \cup {b} /\ no_free' = no_free \ {b}

\* av_free of data and entry of the blocks bs.
FreeData(bs) == data' = [b \in Block |-> IF b \in bs THEN "none" ELSE data[b]]
Listed == {pool[k] : k \in 1 .. Len(pool)}

-----------------------------------------------------------------------------
(* References.                                                             *)

\* av_buffer_alloc.
Alloc(t) ==
  /\ pc[t] = Idle
  /\ \E b \in Block : /\ Allocate(b, "plain")
                      /\ refcount' = [refcount EXCEPT ![b] = 1]
                      /\ Holding(t, b, 1)
  /\ UNCHANGED <<pools, pc>>

\* av_buffer_ref.
Ref(t, b) ==
  /\ pc[t] = Idle /\ Holds(t, b) /\ refs[t][b] < MaxRefs
  /\ refcount' = [refcount EXCEPT ![b] = @ + 1]
  /\ Holding(t, b, 1)
  /\ UNCHANGED <<data, apart, no_free, pools, pc>>

\* A client hands one of its references to another thread.
Give(t, u, b) ==
  /\ t # u /\ pc[t] = Idle /\ Holds(t, b) /\ refs[u][b] < MaxRefs
  /\ refs' = [refs EXCEPT ![t][b] = @ - 1, ![u][b] = @ + 1]
  /\ UNCHANGED <<blocks, pools, pc>>

\* The decrement of buffer_replace.  The thread that takes the last reference
\* has to free the block; it reads the flag now, as the free callback may free
\* the AVBuffer.
Decrement(t, b, next) ==
  /\ refcount' = [refcount EXCEPT ![b] = @ - 1]
  /\ Goto(t, IF refcount[b] # 1 THEN next
             ELSE Place(IF data[b] = "pool" THEN "release" ELSE "free", b, b \notin no_free))

\* av_buffer_unref.
Unref(t, b) ==
  /\ pc[t] = Idle /\ Holds(t, b)
  /\ Holding(t, b, -1)
  /\ Decrement(t, b, Idle)
  /\ UNCHANGED <<data, apart, no_free, pools>>

\* av_buffer_default_free.
DefaultFree(t) ==
  /\ pc[t].at = "free"
  /\ FreeData({pc[t].block})
  /\ Goto(t, Onto(t, "avbuffer"))
  /\ UNCHANGED <<apart, no_free, refcount, refs, pools>>

\* Variant with a bug: reads the flag after the free callback.
FreeAVBufferLate(t) ==
  /\ pc[t].at = "avbuffer"
  /\ apart' = IF pc[t].block \notin no_free THEN apart \ {pc[t].block} ELSE apart
  /\ Goto(t, Idle)
  /\ UNCHANGED <<data, no_free, refcount, refs, pools>>

\* if (free_avbuffer) av_free(b).
FreeAVBuffer(t) ==
  /\ pc[t].at = "avbuffer"
  /\ apart' = IF pc[t].free_avbuffer THEN apart \ {pc[t].block} ELSE apart
  /\ Goto(t, Idle)
  /\ UNCHANGED <<data, no_free, refcount, refs, pools>>

-----------------------------------------------------------------------------
(* av_buffer_make_writable.                                                *)

\* Variant with a bug: takes two references for writable.
TestWritableLoose(t, b) ==
  /\ pc[t] = Idle /\ Holds(t, b)
  /\ Goto(t, Place(IF refcount[b] <= 2 THEN "write" ELSE "copy", b, FALSE))
  /\ UNCHANGED <<blocks, refs, pools>>

\* av_buffer_is_writable; a writable buffer is then written by the client.
TestWritable(t, b) ==
  /\ pc[t] = Idle /\ Holds(t, b)
  /\ Goto(t, Place(IF refcount[b] = 1 THEN "write" ELSE "copy", b, FALSE))
  /\ UNCHANGED <<blocks, refs, pools>>

\* A copy takes the place of the reference; the other references may have
\* gone since the test, and the block with this one.
Copy(t) ==
  /\ pc[t].at = "copy"
  /\ \E b \in Block :
       /\ Allocate(b, "plain")
       /\ LET old == pc[t].block
          IN  /\ refs' = [refs EXCEPT ![t][old] = @ - 1, ![t][b] = @ + 1]
              /\ refcount' = [refcount EXCEPT ![old] = @ - 1, ![b] = 1]
              /\ Goto(t, IF refcount[old] # 1 THEN Place("write", b, FALSE)
                         ELSE Place(IF data[old] = "pool" THEN "release" ELSE "free",
                                    old, old \notin no_free))
  /\ UNCHANGED pools

\* The copy cannot be allocated; the caller keeps what it had.
CopyFails(t) == /\ pc[t].at = "copy"
                /\ Goto(t, Idle)
                /\ UNCHANGED <<blocks, refs, pools>>

Written(t) == /\ pc[t].at = "write"
              /\ Goto(t, Idle)
              /\ UNCHANGED <<blocks, refs, pools>>

-----------------------------------------------------------------------------
(* The pool.                                                               *)

\* Variant with a bug: leaves the block it hands out in the list.
GetKeepsEntry(t) ==
  /\ pc[t] = Idle /\ ppool
  /\ IF pool # <<>>
       THEN /\ no_free' = no_free \cup {Head(pool)}
            /\ refcount' = [refcount EXCEPT ![Head(pool)] = 1]
            /\ Goto(t, Place("count", Head(pool), FALSE))
            /\ UNCHANGED <<data, apart>>
       ELSE \E b \in Block : /\ Allocate(b, "pool")
                             /\ refcount' = [refcount EXCEPT ![b] = 1]
                             /\ Goto(t, Place("count", b, FALSE))
  /\ UNCHANGED <<refs, pools>>

\* av_buffer_pool_get, under the mutex: reuse a block or allocate one.
\* A failing allocation changes nothing.
Get(t) ==
  /\ pc[t] = Idle /\ ppool
  /\ IF pool # <<>>
       THEN /\ pool' = Tail(pool)
            /\ no_free' = no_free \cup {Head(pool)}
            /\ refcount' = [refcount EXCEPT ![Head(pool)] = 1]
            /\ Goto(t, Place("count", Head(pool), FALSE))
            /\ UNCHANGED <<data, apart>>
       ELSE /\ \E b \in Block : /\ Allocate(b, "pool")
                                /\ refcount' = [refcount EXCEPT ![b] = 1]
                                /\ Goto(t, Place("count", b, FALSE))
            /\ UNCHANGED pool
  /\ UNCHANGED <<refs, ppool, pool_alive, pool_refcount>>

\* The pool counts the buffer after the mutex was released.
Count(t) ==
  /\ pc[t].at = "count"
  /\ pool_refcount' = pool_refcount + 1
  /\ Holding(t, pc[t].block, 1)
  /\ Goto(t, Idle)
  /\ UNCHANGED <<blocks, ppool, pool_alive, pool>>

\* pool_release_buffer: push the block under the mutex, then drop the count.
Release(t) ==
  /\ pc[t].at = "release"
  /\ pool' = <<pc[t].block>> \o pool
  /\ Goto(t, Onto(t, "drop"))
  /\ UNCHANGED <<blocks, refs, ppool, pool_alive, pool_refcount>>

Drop(t) ==
  /\ pc[t].at = "drop"
  /\ pool_refcount' = pool_refcount - 1
  /\ Goto(t, Onto(t, IF pool_refcount = 1 THEN "destroy" ELSE "avbuffer"))
  /\ UNCHANGED <<blocks, refs, ppool, pool_alive, pool>>

\* buffer_pool_flush: the data of every block in the list and its entry.
Flush == FreeData(Listed) /\ pool' = <<>>

\* av_buffer_pool_uninit, by the owner, while nobody gets from the pool: flush
\* under the mutex, then drop the owner's count.
Uninit(t) ==
  /\ pc[t] = Idle /\ ppool
  /\ \A u \in Thread : pc[u].at # "count"
  /\ ppool' = FALSE
  /\ Flush
  /\ Goto(t, Place("uninit", NoBlock, FALSE))
  /\ UNCHANGED <<apart, no_free, refcount, refs, pool_alive, pool_refcount>>

\* Variant with a bug: frees the pool however many buffers are out.
UninitDropDestroys(t) ==
  /\ pc[t].at = "uninit"
  /\ pool_refcount' = pool_refcount - 1
  /\ Goto(t, Place("destroy", NoBlock, FALSE))
  /\ UNCHANGED <<blocks, refs, ppool, pool_alive, pool>>

UninitDrop(t) ==
  /\ pc[t].at = "uninit"
  /\ pool_refcount' = pool_refcount - 1
  /\ Goto(t, IF pool_refcount = 1 THEN Place("destroy", NoBlock, FALSE) ELSE Idle)
  /\ UNCHANGED <<blocks, refs, ppool, pool_alive, pool>>

\* buffer_pool_free.
Destroy(t) ==
  /\ pc[t].at = "destroy"
  /\ Flush /\ pool_alive' = FALSE
  /\ Goto(t, IF pc[t].block # NoBlock THEN Onto(t, "avbuffer") ELSE Idle)
  /\ UNCHANGED <<apart, no_free, refcount, refs, ppool, pool_refcount>>

-----------------------------------------------------------------------------
Step(t) == \/ DefaultFree(t) \/ FreeAVBuffer(t) \/ Copy(t) \/ CopyFails(t)
           \/ Written(t) \/ Count(t) \/ Release(t) \/ Drop(t) \/ UninitDrop(t) \/ Destroy(t)

Next == \E t \in Thread :
          \/ Step(t) \/ Alloc(t) \/ Get(t) \/ Uninit(t)
          \/ \E b \in Block : Ref(t, b) \/ Unref(t, b) \/ TestWritable(t, b)
          \/ \E u \in Thread, b \in Block : Give(t, u, b)

Spec == Init /\ [][Next]_vars

-----------------------------------------------------------------------------
At(places) == {t \in Thread : pc[t].at \in places}
AtWith(places, b) == {t \in At(places) : pc[t].block = b}

\* References to b, <<t, 1>>, <<t, 2>>... those of client t, and <<t, 0>> the
\* one av_buffer_pool_get is about to give t.
References(b) ==
  {x \in Thread \X (0 .. MaxRefs) : IF x[2] = 0 THEN x[1] \in AtWith({"count"}, b)
                                                ELSE x[2] <= refs[x[1]][b]}
Refs(b) == Cardinality(References(b))

\* The count of a buffer is the number of its references, and while there is
\* one the data is neither freed, nor being freed, nor back in the pool.
CountsSound ==
  \A b \in Block : Refs(b) > 0 =>
    /\ refcount[b] = Refs(b)
    /\ data[b] # "none" /\ b \notin Listed
    /\ AtWith({"free", "release"}, b) = {}

\* av_buffer_make_writable: a client that writes to a buffer has the only
\* reference to it, whatever the other threads do since the count was read.
WriterAlone == \A t \in At({"write"}) : /\ Refs(pc[t].block) = 1
                                        /\ Holds(t, pc[t].block)

\* The pool lives while anyone will use it: its owner, a buffer that has to
\* come back, a thread inside one of its functions.  It is freed once.
PoolOutlives ==
  LET outs  == {b \in Block : data[b] = "pool" /\ \E t \in Thread : Holds(t, b)}
      going == Cardinality(outs) + Cardinality(At({"release", "drop", "uninit"}))
               + (IF ppool THEN 1 ELSE 0)
  IN  /\ pool_refcount = going
      /\ (going > 0 \/ At({"count", "destroy"}) # {}) => pool_alive
      /\ Cardinality(At({"destroy"})) <= 1

\* Nothing is lost: data that is not freed is referenced, in the pool once, or
\* with the thread that frees it; so is an AVBuffer allocated apart; and a
\* pool nobody counts on is being destroyed.
NothingLost ==
  /\ \A b \in Block : data[b] # "none" =>
       \/ Refs(b) > 0
       \/ AtWith({"free", "release"}, b) # {}
       \/ Cardinality({k \in 1 .. Len(pool) : pool[k] = b}) = 1 /\ data[b] = "pool"
  /\ \A b \in apart :
       \/ Refs(b) > 0 /\ b \notin no_free
       \/ \E t \in AtWith({"free", "release", "drop", "destroy", "avbuffer"}, b) :
            pc[t].free_avbuffer
  /\ pool_alive /\ pool_refcount = 0 => At({"destroy"}) # {}
  /\ ~pool_alive => pool = <<>>
=============================================================================
