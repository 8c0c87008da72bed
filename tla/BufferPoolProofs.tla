-------------------------- MODULE BufferPoolProofs --------------------------
(***************************************************************************)
(* Proofs about BufferPool, for any finite sets of threads and blocks and  *)
(* any number of references.                                               *)
(*                                                                         *)
(* Most steps touch one block: what holds of each block (BlockInv) and of  *)
(* each thread (ThreadInv) is kept for the others by BlockFrame and        *)
(* ThreadFrame.  The pool's count and its list are PoolInv.                *)
(***************************************************************************)
EXTENDS BufferPool, FiniteSetTheorems, TLAPS

Frees == {"free", "release", "drop", "destroy", "avbuffer"}

TypeOK ==
  /\ data \in [Block -> {"none", "pool", "plain"}]
  /\ apart \in SUBSET Block /\ no_free \in SUBSET Block
  /\ refcount \in [Block -> Int]
  /\ refs \in [Thread -> [Block -> 0 .. MaxRefs]]
  /\ ppool \in BOOLEAN /\ pool_alive \in BOOLEAN
  /\ pool \in Seq(Block)
  /\ pool_refcount \in Int
  /\ pc \in [Thread -> [at : {"idle", "write", "copy", "count", "uninit"} \cup Frees,
                        block : Block \cup {NoBlock}, free_avbuffer : BOOLEAN]]

-----------------------------------------------------------------------------
\* Thread t is at a place with b, will free or list b, will free its AVBuffer.
In(t, at, b)  == pc[t].at = at /\ pc[t].block = b
Ending(t, b)  == In(t, "free", b) \/ In(t, "release", b)
Freeing(t, b) == pc[t].free_avbuffer /\ pc[t].block = b

\* A block that has references is alive, and nobody's to free.
Sound(b) == References(b) # {} =>
  /\ refcount[b] = Refs(b)
  /\ data[b] # "none" /\ b \notin Listed
  /\ \A t \in Thread : ~Ending(t, b)

\* A block about to be handed out, freed or listed is in one thread's hands.
InHand(b) ==
  /\ \A t \in Thread :
       /\ In(t, "count", b) => data[b] = "pool" /\ ppool /\ \A u \in Thread : ~Holds(u, b)
       /\ In(t, "free", b) => data[b] = "plain" /\ b \notin Listed
       /\ In(t, "release", b) => data[b] = "pool" /\ b \notin Listed
  /\ \A t, u \in Thread : t # u => /\ ~(In(t, "count", b) /\ In(u, "count", b))
                                   /\ ~(Ending(t, b) /\ Ending(u, b))

\* What data there is has its place; what is in the list is the pool's.
Placed(b) ==
  /\ b \in Listed => data[b] = "pool"
  /\ data[b] # "none" => References(b) # {} \/ b \in Listed \/ \E t \in Thread : Ending(t, b)

\* An AVBuffer allocated apart goes with the references to its block until it
\* is flagged, and then with the one thread that will free it.
Apart(b) ==
  /\ References(b) # {} /\ b \notin no_free => b \in apart /\ \A t \in Thread : ~Freeing(t, b)
  /\ b \in apart => \/ References(b) # {} /\ b \notin no_free
                    \/ \E t \in Thread : Freeing(t, b)
  /\ \A t \in Thread : Freeing(t, b) => b \in apart
  /\ \A t, u \in Thread : Freeing(t, b) /\ Freeing(u, b) => t = u

BlockInv(b) == Sound(b) /\ InHand(b) /\ Placed(b) /\ Apart(b)

\* What each thread inside the library works on.
ThreadInv(t) ==
  /\ pc[t].at \in {"write", "copy", "count", "free", "release", "drop", "avbuffer"}
       => pc[t].block \in Block
  /\ pc[t].at \in {"write", "copy"} => Holds(t, pc[t].block)
  /\ pc[t].at = "write" => Refs(pc[t].block) = 1
  /\ pc[t].free_avbuffer => pc[t].at \in Frees /\ pc[t].block \in Block

Outs == {b \in Block : data[b] = "pool" /\ \E t \in Thread : Holds(t, b)}
Dropping == At({"release", "drop", "uninit"})
PoolCounted ==
  pool_refcount = Cardinality(Outs) + Cardinality(Dropping) + (IF ppool THEN 1 ELSE 0)

\* No block is in the list twice, and the pool's count is zero exactly from the
\* drop that destroys it.
PoolInv ==
  /\ \A i, j \in 1 .. Len(pool) : pool[i] = pool[j] => i = j
  /\ PoolCounted
  /\ \A t, u \in At({"destroy"}) : t = u
  /\ At({"destroy"}) # {} => pool_refcount = 0 /\ pool_alive
  /\ ~pool_alive => pool_refcount = 0 /\ pool = <<>>
  /\ pool_alive /\ pool_refcount = 0 => At({"destroy"}) # {}

IInv == /\ TypeOK
        /\ \A b \in Block : BlockInv(b)
        /\ \A t \in Thread : ThreadInv(t)
        /\ PoolInv

-----------------------------------------------------------------------------
\* What is known of a set of references: it is finite, it is empty when there
\* are none, and one reference alone is the only one.
LEMMA RefsFacts ==
  ASSUME TypeOK, NEW b \in Block
  PROVE  /\ IsFiniteSet(References(b)) /\ Refs(b) \in Nat
         /\ Refs(b) = 0 <=> References(b) = {}
         /\ Refs(b) = 1 => \A x, y \in References(b) : x = y
         /\ \A x \in References(b) : References(b) \subseteq {x} => Refs(b) = 1
<1>1. IsFiniteSet(0 .. MaxRefs)
  BY MaxRefsAssumption, FS_Interval
<1>2. IsFiniteSet(Thread \X (0 .. MaxRefs))
  BY <1>1, FiniteAssumption, FS_Product
<1>3. IsFiniteSet(References(b))
  BY <1>2, FS_Subset DEF References
<1>4. Refs(b) \in Nat /\ (Refs(b) = 0 <=> References(b) = {})
  BY <1>3, FS_CardinalityType, FS_EmptySet DEF Refs
<1>5. ASSUME Refs(b) = 1 PROVE \A x, y \in References(b) : x = y
  BY <1>3, <1>5, FS_Singleton DEF Refs
<1>6. ASSUME NEW x \in References(b), References(b) \subseteq {x} PROVE Refs(b) = 1
  <2>1. References(b) = {x}
    BY <1>6
  <2> QED
    BY <2>1, FS_Singleton DEF Refs
<1> QED
  BY <1>3, <1>4, <1>5, <1>6

\* Adding an element to a finite set and taking one out of it.
LEMMA Counting ==
  ASSUME NEW S, IsFiniteSet(S), NEW x
  PROVE  /\ IsFiniteSet(S \cup {x}) /\ IsFiniteSet(S \ {x})
         /\ Cardinality(S) \in Nat
         /\ x \notin S => Cardinality(S \cup {x}) = Cardinality(S) + 1
         /\ x \in S => Cardinality(S \ {x}) = Cardinality(S) - 1
BY FS_AddElement, FS_RemoveElement, FS_CardinalityType

\* A thread that goes from one place to another leaves the others alone.
LEMMA Going ==
  ASSUME TypeOK, NEW t \in Thread, NEW place, Goto(t, place)
  PROVE  pc'[t] = place /\ \A u \in Thread : u # t => pc'[u] = pc[u]
BY DEF TypeOK, Goto

LEMMA IInvInit == Init => IInv
<1> SUFFICES ASSUME Init PROVE IInv
  OBVIOUS
<1>1. TypeOK
  BY MaxRefsAssumption DEF Init, TypeOK, Idle, Place, Frees
<1>2. \A b \in Block : References(b) = {}
  BY MaxRefsAssumption DEF Init, References, AtWith, At, Idle, Place
<1>3. \A t \in Thread : pc[t].at = "idle" /\ ~pc[t].free_avbuffer
  BY DEF Init, Idle, Place
<1>4. Listed = {}
  BY DEF Init, Listed
<1>5. Outs = {} /\ Dropping = {} /\ At({"destroy"}) = {}
  BY <1>3 DEF Init, Outs, Dropping, At
<1>6. PoolCounted
  BY <1>5, FS_EmptySet DEF Init, PoolCounted
<1>7. \A b \in Block : BlockInv(b)
  BY <1>2, <1>3, <1>4 DEF Init, BlockInv, Sound, InHand, Placed, Apart, In, Ending, Freeing
<1>8. \A t \in Thread : ThreadInv(t)
  BY <1>3 DEF ThreadInv
<1>9. PoolInv
  BY <1>5, <1>6 DEF Init, PoolInv
<1> QED
  BY <1>1, <1>7, <1>8, <1>9 DEF IInv

-----------------------------------------------------------------------------
\* Every place a thread goes to is one.
LEMMA PlaceTyped ==
  ASSUME NEW at \in {"idle", "write", "copy", "count", "uninit"} \cup Frees,
         NEW b \in Block \cup {NoBlock}, NEW free \in BOOLEAN
  PROVE  Place(at, b, free) \in
           [at : {"idle", "write", "copy", "count", "uninit"} \cup Frees,
            block : Block \cup {NoBlock}, free_avbuffer : BOOLEAN]
BY DEF Place


\* A block is referred to by the clients that hold it and the threads about
\* to be given it, and by nobody else.
LEMMA Referred ==
  ASSUME TypeOK, NEW b \in Block
  PROVE  References(b) # {} <=>
           \E t \in Thread : Holds(t, b) \/ In(t, "count", b)
<1>1. ASSUME NEW x \in References(b)
      PROVE  Holds(x[1], b) \/ In(x[1], "count", b)
  BY <1>1 DEF TypeOK, References, AtWith, At, Holds, In
<1>2. ASSUME NEW t \in Thread, Holds(t, b) PROVE <<t, 1>> \in References(b)
  BY <1>2, MaxRefsAssumption DEF TypeOK, References, Holds
<1>3. ASSUME NEW t \in Thread, In(t, "count", b) PROVE <<t, 0>> \in References(b)
  BY <1>3, MaxRefsAssumption DEF TypeOK, References, AtWith, At, In
<1>4. \A x \in References(b) : x[1] \in Thread
  BY DEF References
<1> QED
  BY <1>1, <1>2, <1>3, <1>4

\* A block that can be allocated has no references.
LEMMA Fresh ==
  ASSUME TypeOK, NEW b \in Block, BlockInv(b), data[b] = "none"
  PROVE  References(b) = {} /\ \A t \in Thread : refs[t][b] = 0 /\ ~In(t, "count", b)
<1>1. References(b) = {}
  BY DEF BlockInv, Sound
<1>2. \A t \in Thread : ~Holds(t, b) /\ ~In(t, "count", b)
  BY <1>1, Referred
<1>3. \A t \in Thread : refs[t][b] \in 0 .. MaxRefs
  BY DEF TypeOK
<1> QED
  BY <1>1, <1>2, <1>3, MaxRefsAssumption DEF Holds

LEMMA TypeStep == IInv /\ [Next]_vars => TypeOK'
<1> SUFFICES ASSUME IInv, [Next]_vars PROVE TypeOK'
  OBVIOUS
<1>0. TypeOK /\ (\A b \in Block : BlockInv(b)) /\ \A t \in Thread : ThreadInv(t)
  BY DEF IInv
<1> DEFINE PlaceSet == [at : {"idle", "write", "copy", "count", "uninit"} \cup Frees,
                        block : Block \cup {NoBlock}, free_avbuffer : BOOLEAN]
<1>1. ASSUME NEW t \in Thread, NEW place \in PlaceSet, Goto(t, place)
      PROVE  pc' \in [Thread -> PlaceSet]
  BY <1>0, <1>1 DEF TypeOK, Goto
<1>2. Idle \in PlaceSet
  BY PlaceTyped DEF Idle
<1>3. \A t \in Thread : pc[t] \in PlaceSet
  BY <1>0 DEF TypeOK
<1>4. ASSUME NEW t \in Thread, NEW at \in {"drop", "destroy", "avbuffer"}
      PROVE  Onto(t, at) \in PlaceSet
  BY <1>3, PlaceTyped DEF Onto, Frees
<1>5. ASSUME NEW t \in Thread, NEW b \in Block, NEW n \in Int, Holding(t, b, n),
             refs[t][b] + n \in 0 .. MaxRefs
      PROVE  refs' \in [Thread -> [Block -> 0 .. MaxRefs]]
  BY <1>0, <1>5 DEF TypeOK, Holding
<1>6. ASSUME NEW b \in Block, NEW at \in {"write", "copy", "count"}
      PROVE  Place(at, b, FALSE) \in PlaceSet
  BY PlaceTyped
<1>7. ASSUME NEW t \in Thread, NEW b \in Block, NEW next \in PlaceSet, Decrement(t, b, next)
      PROVE  pc' \in [Thread -> PlaceSet] /\ refcount' \in [Block -> Int]
  <2>1. PICK at \in {"release", "free"} : at = IF data[b] = "pool" THEN "release" ELSE "free"
    OBVIOUS
  <2>2. Place(at, b, b \notin no_free) \in PlaceSet
    BY PlaceTyped DEF Frees
  <2> QED
    BY <1>0, <1>1, <1>7, <2>1, <2>2 DEF TypeOK, Decrement
<1>8. ASSUME NEW b \in Block, NEW kind \in {"pool", "plain"}, Allocate(b, kind)
      PROVE  /\ data' \in [Block -> {"none", "pool", "plain"}]
             /\ apart' \in SUBSET Block /\ no_free' \in SUBSET Block
  BY <1>0, <1>8 DEF TypeOK, Allocate
<1>9. ASSUME NEW bs, FreeData(bs) PROVE data' \in [Block -> {"none", "pool", "plain"}]
  BY <1>0, <1>9 DEF TypeOK, FreeData
<1> HIDE DEF PlaceSet
<1> DEFINE TypeNow == /\ data' \in [Block -> {"none", "pool", "plain"}]
                      /\ apart' \in SUBSET Block /\ no_free' \in SUBSET Block
                      /\ refcount' \in [Block -> Int]
                      /\ refs' \in [Thread -> [Block -> 0 .. MaxRefs]]
                      /\ ppool' \in BOOLEAN /\ pool_alive' \in BOOLEAN
                      /\ pool' \in Seq(Block) /\ pool_refcount' \in Int
                      /\ pc' \in [Thread -> PlaceSet]
<1>10. SUFFICES TypeNow
  BY DEF TypeOK, PlaceSet
<1>11. /\ data \in [Block -> {"none", "pool", "plain"}]
       /\ apart \in SUBSET Block /\ no_free \in SUBSET Block
       /\ refcount \in [Block -> Int]
       /\ refs \in [Thread -> [Block -> 0 .. MaxRefs]]
       /\ ppool \in BOOLEAN /\ pool_alive \in BOOLEAN
       /\ pool \in Seq(Block) /\ pool_refcount \in Int
       /\ pc \in [Thread -> PlaceSet]
  BY <1>0 DEF TypeOK, PlaceSet
<1>30. \A t \in Thread, b \in Block : refs[t][b] \in 0 .. MaxRefs
  BY <1>11
<1>12. ASSUME NEW t \in Thread, Alloc(t) PROVE TypeNow
  <2>1. PICK b \in Block : Allocate(b, "plain") /\ refcount' = [refcount EXCEPT ![b] = 1]
                           /\ Holding(t, b, 1)
    BY <1>12 DEF Alloc
  <2>2. refs[t][b] = 0
    BY <1>0, <2>1, Fresh DEF Allocate
  <2>3. refs' \in [Thread -> [Block -> 0 .. MaxRefs]]
    BY <1>5, <2>1, <2>2, MaxRefsAssumption
  <2> QED
    BY <1>8, <1>11, <1>12, <2>1, <2>3 DEF Alloc, pools
<1>13. ASSUME NEW t \in Thread, NEW b \in Block, Ref(t, b) PROVE TypeNow
  <2>1. refs' \in [Thread -> [Block -> 0 .. MaxRefs]]
    BY <1>5, <1>30, <1>13, MaxRefsAssumption DEF Ref, Holds
  <2> QED
    BY <1>11, <1>13, <2>1 DEF Ref, pools
<1>14. ASSUME NEW t \in Thread, NEW b \in Block, Unref(t, b) PROVE TypeNow
  <2>1. refs' \in [Thread -> [Block -> 0 .. MaxRefs]]
    BY <1>5, <1>30, <1>14, MaxRefsAssumption DEF Unref, Holds
  <2> QED
    BY <1>2, <1>7, <1>11, <1>14, <2>1 DEF Unref, pools
<1>15. ASSUME NEW t \in Thread, NEW u \in Thread, NEW b \in Block, Give(t, u, b) PROVE TypeNow
  <2>1. refs[t][b] - 1 \in 0 .. MaxRefs /\ refs[u][b] + 1 \in 0 .. MaxRefs
    BY <1>30, <1>15, MaxRefsAssumption DEF Give, Holds
  <2>2. refs' \in [Thread -> [Block -> 0 .. MaxRefs]]
    BY <1>11, <1>15, <2>1 DEF Give
  <2> QED
    BY <1>11, <1>15, <2>2 DEF Give, blocks, pools
<1>16. ASSUME NEW t \in Thread, NEW b \in Block, TestWritable(t, b) PROVE TypeNow
  <2>1. PICK at \in {"write", "copy"} : at = IF refcount[b] = 1 THEN "write" ELSE "copy"
    OBVIOUS
  <2>2. pc' \in [Thread -> PlaceSet]
    BY <1>1, <1>6, <1>16, <2>1 DEF TestWritable
  <2> QED
    BY <1>11, <1>16, <2>2 DEF TestWritable, blocks, pools
<1>17. ASSUME NEW t \in Thread, Copy(t) PROVE TypeNow
  <2>1. PICK b \in Block :
          /\ Allocate(b, "plain")
          /\ refs' = [refs EXCEPT ![t][pc[t].block] = @ - 1, ![t][b] = @ + 1]
          /\ refcount' = [refcount EXCEPT ![pc[t].block] = @ - 1, ![b] = 1]
          /\ Goto(t, IF refcount[pc[t].block] # 1 THEN Place("write", b, FALSE)
                     ELSE Place(IF data[pc[t].block] = "pool" THEN "release" ELSE "free",
                                pc[t].block, pc[t].block \notin no_free))
    BY <1>17 DEF Copy
  <2>2. PICK old \in Block : old = pc[t].block /\ Holds(t, old)
    BY <1>0, <1>17 DEF ThreadInv, Copy
  <2>3. refs[t][b] = 0 /\ old # b
    BY <1>0, <2>1, <2>2, Fresh DEF Allocate, Holds
  <2>4. refs[t][old] - 1 \in 0 .. MaxRefs /\ refs[t][b] + 1 \in 0 .. MaxRefs
    BY <1>11, <2>2, <2>3, MaxRefsAssumption DEF Holds
  <2>5. refs' \in [Thread -> [Block -> 0 .. MaxRefs]]
    BY <1>11, <2>1, <2>2, <2>3, <2>4
  <2>6. PICK at \in {"release", "free"} : at = IF data[old] = "pool" THEN "release" ELSE "free"
    OBVIOUS
  <2>7. Place(at, old, old \notin no_free) \in PlaceSet
    BY PlaceTyped DEF Frees, PlaceSet
  <2>8. pc' \in [Thread -> PlaceSet]
    BY <1>1, <1>6, <2>1, <2>2, <2>6, <2>7
  <2>9. refcount' \in [Block -> Int]
    BY <1>11, <2>1, <2>2
  <2> QED
    BY <1>8, <1>11, <1>17, <2>1, <2>5, <2>8, <2>9 DEF Copy, pools
<1>18. ASSUME NEW t \in Thread, DefaultFree(t) PROVE TypeNow
  BY <1>1, <1>4, <1>9, <1>11, <1>18 DEF DefaultFree, pools
<1>19. ASSUME NEW t \in Thread, FreeAVBuffer(t) PROVE TypeNow
  BY <1>1, <1>2, <1>11, <1>19 DEF FreeAVBuffer, pools
<1>20. ASSUME NEW t \in Thread, CopyFails(t) \/ Written(t) PROVE TypeNow
  BY <1>1, <1>2, <1>11, <1>20 DEF CopyFails, Written, pools, blocks
<1>21. ASSUME NEW t \in Thread, Get(t) PROVE TypeNow
  <2>1. CASE pool # <<>>
    <3>1. Head(pool) \in Block /\ Tail(pool) \in Seq(Block)
      BY <1>11, <2>1
    <3>2. pc' \in [Thread -> PlaceSet]
      BY <1>1, <1>6, <1>21, <2>1, <3>1 DEF Get
    <3>3. /\ data' = data /\ apart' = apart /\ refs' = refs /\ pool' = Tail(pool)
          /\ no_free' = no_free \cup {Head(pool)} /\ pool_refcount' = pool_refcount
          /\ refcount' = [refcount EXCEPT ![Head(pool)] = 1]
          /\ UNCHANGED <<ppool, pool_alive>>
      BY <1>21, <2>1 DEF Get
    <3> QED
      BY <1>11, <3>1, <3>2, <3>3
  <2>2. CASE pool = <<>>
    <3>1. PICK b \in Block : /\ Allocate(b, "pool") /\ refcount' = [refcount EXCEPT ![b] = 1]
                             /\ Goto(t, Place("count", b, FALSE))
      BY <1>21, <2>2 DEF Get
    <3>2. UNCHANGED <<refs, pool, pool_refcount, ppool, pool_alive>>
      BY <1>21, <2>2 DEF Get
    <3>3. pc' \in [Thread -> PlaceSet]
      BY <1>1, <1>6, <3>1
    <3>4. refcount' \in [Block -> Int]
      BY <1>11, <3>1
    <3> QED
      BY <1>8, <1>11, <3>1, <3>2, <3>3, <3>4
  <2> QED
    BY <2>1, <2>2
<1>22. ASSUME NEW t \in Thread, Count(t) PROVE TypeNow
  <2>1. PICK b \in Block : b = pc[t].block /\ ~Holds(t, b)
    BY <1>0, <1>22 DEF ThreadInv, BlockInv, InHand, In, Count
  <2>2. refs[t][b] + 1 \in 0 .. MaxRefs
    BY <1>11, <2>1, MaxRefsAssumption DEF Holds
  <2>3. refs' \in [Thread -> [Block -> 0 .. MaxRefs]]
    BY <1>5, <1>22, <2>1, <2>2 DEF Count
  <2> QED
    BY <1>1, <1>2, <1>11, <1>22, <2>3 DEF Count, blocks
<1>23. ASSUME NEW t \in Thread, Release(t) PROVE TypeNow
  <2>1. pc[t].block \in Block
    BY <1>0, <1>23 DEF ThreadInv, Release
  <2>2. <<pc[t].block>> \o pool \in Seq(Block)
    BY <1>11, <2>1
  <2> QED
    BY <1>1, <1>4, <1>11, <1>23, <2>2 DEF Release, blocks
<1>24. ASSUME NEW t \in Thread, Drop(t) PROVE TypeNow
  <2>1. PICK at \in {"destroy", "avbuffer"} :
          at = IF pool_refcount = 1 THEN "destroy" ELSE "avbuffer"
    OBVIOUS
  <2> QED
    BY <1>1, <1>4, <1>11, <1>24, <2>1 DEF Drop, blocks
<1>25. ASSUME NEW t \in Thread, Uninit(t) PROVE TypeNow
  <2>1. Place("uninit", NoBlock, FALSE) \in PlaceSet
    BY PlaceTyped DEF PlaceSet
  <2>2. <<>> \in Seq(Block)
    OBVIOUS
  <2> QED
    BY <1>1, <1>9, <1>11, <1>25, <2>1, <2>2 DEF Uninit, Flush
<1>26. ASSUME NEW t \in Thread, UninitDrop(t) PROVE TypeNow
  <2>1. Place("destroy", NoBlock, FALSE) \in PlaceSet
    BY PlaceTyped DEF PlaceSet, Frees
  <2>2. pc' \in [Thread -> PlaceSet]
    BY <1>1, <1>2, <1>26, <2>1 DEF UninitDrop
  <2> QED
    BY <1>11, <1>26, <2>2 DEF UninitDrop, blocks
<1>27. ASSUME NEW t \in Thread, Destroy(t) PROVE TypeNow
  <2>1. pc' \in [Thread -> PlaceSet]
    BY <1>1, <1>2, <1>4, <1>27 DEF Destroy
  <2>2. <<>> \in Seq(Block)
    OBVIOUS
  <2> QED
    BY <1>9, <1>11, <1>27, <2>1, <2>2 DEF Destroy, Flush
<1>28. CASE UNCHANGED vars
  BY <1>11, <1>28 DEF vars
<1> QED
  BY <1>12, <1>13, <1>14, <1>15, <1>16, <1>17, <1>18, <1>19, <1>20, <1>21, <1>22, <1>23,
     <1>24, <1>25, <1>26, <1>27, <1>28 DEF Next, Step


\* All this, as one fact of a state, and of the next one.
RefsKnown == \A b \in Block :
  /\ IsFiniteSet(References(b)) /\ Refs(b) \in Nat
  /\ Refs(b) = 0 <=> References(b) = {}
  /\ References(b) # {} <=> \E t \in Thread : Holds(t, b) \/ In(t, "count", b)
  /\ Refs(b) = 1 => \A t, u \in Thread : Holds(t, b) /\ Holds(u, b) => t = u

LEMMA Known == TypeOK => RefsKnown
<1> SUFFICES ASSUME TypeOK, NEW b \in Block
             PROVE  /\ IsFiniteSet(References(b)) /\ Refs(b) \in Nat
                    /\ Refs(b) = 0 <=> References(b) = {}
                    /\ References(b) # {} <=>
                         \E t \in Thread : Holds(t, b) \/ In(t, "count", b)
                    /\ Refs(b) = 1 =>
                         \A t, u \in Thread : Holds(t, b) /\ Holds(u, b) => t = u
  BY DEF RefsKnown
<1>1. ASSUME NEW t \in Thread, NEW u \in Thread, Refs(b) = 1, Holds(t, b), Holds(u, b)
      PROVE  t = u
  <2>1. <<t, 1>> \in References(b) /\ <<u, 1>> \in References(b)
    BY <1>1, MaxRefsAssumption DEF TypeOK, References, Holds
  <2>2. <<t, 1>> = <<u, 1>>
    BY <1>1, <2>1, RefsFacts
  <2> QED
    BY <2>2
<1> QED
  BY <1>1, RefsFacts, Referred

LEMMA KnownNext == TypeOK' => RefsKnown'
BY Known, PTL

-----------------------------------------------------------------------------
\* How the references to a block change.
LEMMA RefsSame ==
  ASSUME NEW b, \A u \in Thread : refs'[u][b] = refs[u][b],
         \A u \in Thread : In(u, "count", b)' <=> In(u, "count", b)
  PROVE  References(b)' = References(b) /\ Refs(b)' = Refs(b)
<1>1. AtWith({"count"}, b)' = AtWith({"count"}, b)
  BY DEF AtWith, At, In
<1>2. \A x \in Thread \X (0 .. MaxRefs) : refs'[x[1]][b] = refs[x[1]][b]
  OBVIOUS
<1>3. References(b)' = References(b)
  BY <1>1, <1>2 DEF References
<1> QED
  BY <1>3 DEF Refs

\* One reference more, one less, or one for another.
LEMMA RefsMore ==
  ASSUME TypeOK, TypeOK', NEW b \in Block, NEW t \in Thread,
         refs'[t][b] = refs[t][b] + 1,
         \A u \in Thread : u # t => refs'[u][b] = refs[u][b],
         \A u \in Thread : In(u, "count", b)' <=> In(u, "count", b)
  PROVE  Refs(b)' = Refs(b) + 1
<1>1. AtWith({"count"}, b)' = AtWith({"count"}, b)
  BY DEF AtWith, At, In
<1>2. refs[t][b] \in 0 .. MaxRefs /\ refs'[t][b] \in 0 .. MaxRefs
  BY DEF TypeOK
<1>3. <<t, refs'[t][b]>> \notin References(b)
  BY <1>2, MaxRefsAssumption DEF References
<1>4. References(b)' = References(b) \cup {<<t, refs'[t][b]>>}
  <2>1. ASSUME NEW x \in Thread \X (0 .. MaxRefs)
        PROVE  x \in References(b)' <=> x \in References(b) \/ x = <<t, refs'[t][b]>>
    <3>1. x[1] \in Thread /\ x[2] \in 0 .. MaxRefs /\ x = <<x[1], x[2]>>
      OBVIOUS
    <3>2. x \in References(b) <=> IF x[2] = 0 THEN x[1] \in AtWith({"count"}, b)
                                              ELSE x[2] <= refs[x[1]][b]
      BY DEF References
    <3>3. x \in References(b)' <=> IF x[2] = 0 THEN x[1] \in AtWith({"count"}, b)
                                               ELSE x[2] <= refs'[x[1]][b]
      BY <1>1 DEF References
    <3>4. CASE x[1] # t
      BY <3>1, <3>2, <3>3, <3>4
    <3>5. CASE x[1] = t
      BY <1>2, <3>1, <3>2, <3>3, <3>5, MaxRefsAssumption
    <3> QED
      BY <3>4, <3>5
  <2>2. <<t, refs'[t][b]>> \in Thread \X (0 .. MaxRefs)
    BY <1>2
  <2> QED
    BY <2>1, <2>2 DEF References
<1> QED
  BY <1>3, <1>4, RefsFacts, Counting DEF Refs

LEMMA RefsLess ==
  ASSUME TypeOK, TypeOK', NEW b \in Block, NEW t \in Thread,
         refs'[t][b] = refs[t][b] - 1,
         \A u \in Thread : u # t => refs'[u][b] = refs[u][b],
         \A u \in Thread : In(u, "count", b)' <=> In(u, "count", b)
  PROVE  Refs(b)' = Refs(b) - 1
<1>1. AtWith({"count"}, b)' = AtWith({"count"}, b)
  BY DEF AtWith, At, In
<1>2. refs[t][b] \in 0 .. MaxRefs /\ refs'[t][b] \in 0 .. MaxRefs
  BY DEF TypeOK
<1>3. <<t, refs[t][b]>> \in References(b)
  BY <1>2, MaxRefsAssumption DEF References
<1>4. References(b)' = References(b) \ {<<t, refs[t][b]>>}
  <2>1. ASSUME NEW x \in Thread \X (0 .. MaxRefs)
        PROVE  x \in References(b)' <=> x \in References(b) /\ x # <<t, refs[t][b]>>
    <3>1. x[1] \in Thread /\ x[2] \in 0 .. MaxRefs /\ x = <<x[1], x[2]>>
      OBVIOUS
    <3>2. x \in References(b) <=> IF x[2] = 0 THEN x[1] \in AtWith({"count"}, b)
                                              ELSE x[2] <= refs[x[1]][b]
      BY DEF References
    <3>3. x \in References(b)' <=> IF x[2] = 0 THEN x[1] \in AtWith({"count"}, b)
                                               ELSE x[2] <= refs'[x[1]][b]
      BY <1>1 DEF References
    <3>4. CASE x[1] # t
      BY <3>1, <3>2, <3>3, <3>4
    <3>5. CASE x[1] = t
      BY <1>2, <3>1, <3>2, <3>3, <3>5, MaxRefsAssumption
    <3> QED
      BY <3>4, <3>5
  <2> QED
    BY <2>1 DEF References
<1> QED
  BY <1>3, <1>4, RefsFacts, Counting DEF Refs

LEMMA Swapping ==
  ASSUME NEW S, IsFiniteSet(S), NEW x \in S, NEW y, y \notin S
  PROVE  Cardinality((S \ {x}) \cup {y}) = Cardinality(S)
<1>1. IsFiniteSet(S \ {x}) /\ Cardinality(S \ {x}) = Cardinality(S) - 1 /\ Cardinality(S) \in Nat
  BY Counting
<1>2. Cardinality((S \ {x}) \cup {y}) = Cardinality(S \ {x}) + 1
  BY <1>1, Counting
<1> QED
  BY <1>1, <1>2

-----------------------------------------------------------------------------
(* What a step leaves alone.                                               *)

\* A block nobody does anything with keeps its invariant.
LEMMA BlockFrame ==
  ASSUME NEW b \in Block, BlockInv(b),
         data'[b] = data[b], refcount'[b] = refcount[b],
         b \in apart' <=> b \in apart, b \in no_free' <=> b \in no_free,
         b \in Listed' <=> b \in Listed, ppool => ppool' \/ At({"count"}) = {},
         \A t \in Thread : refs'[t][b] = refs[t][b],
         \A t \in Thread, at \in {"count", "free", "release"} : In(t, at, b)' <=> In(t, at, b),
         \A t \in Thread : Freeing(t, b)' <=> Freeing(t, b)
  PROVE  BlockInv(b)' /\ References(b)' = References(b) /\ Refs(b)' = Refs(b)
<1>1. References(b)' = References(b) /\ Refs(b)' = Refs(b)
  BY RefsSame
<1>2. \A t \in Thread : (Ending(t, b)' <=> Ending(t, b)) /\ (Holds(t, b)' <=> Holds(t, b))
  BY DEF Ending, Holds
<1>3. \A t \in Thread : In(t, "count", b) => At({"count"}) # {}
  BY DEF In, At
<1>4. Sound(b)' /\ Placed(b)' /\ Apart(b)'
  BY <1>1, <1>2 DEF BlockInv, Sound, Placed, Apart
<1>5. InHand(b)'
  BY <1>2, <1>3 DEF BlockInv, InHand
<1> QED
  BY <1>1, <1>4, <1>5 DEF BlockInv

\* So does a thread that does nothing.
LEMMA ThreadFrame ==
  ASSUME NEW t \in Thread, ThreadInv(t), pc'[t] = pc[t],
         pc[t].at \in {"write", "copy"} => Holds(t, pc[t].block)',
         pc[t].at = "write" => Refs(pc[t].block)' = Refs(pc[t].block)
  PROVE  ThreadInv(t)'
BY DEF ThreadInv

\* The pool does not change.
LEMMA PoolSame ==
  ASSUME PoolInv, Outs' = Outs, Dropping' = Dropping, At({"destroy"})' = At({"destroy"}),
         UNCHANGED <<ppool, pool_alive, pool_refcount, pool>>
  PROVE  PoolInv'
BY DEF PoolInv, PoolCounted

\* Who is outside the library frees no AVBuffer.
Outside == {"idle", "write", "copy", "count", "uninit"}
LEMMA OutsideFrees ==
  ASSUME NEW t \in Thread, ThreadInv(t), pc[t].at \in Outside
  PROVE  \A b \in Block : ~Freeing(t, b)
BY DEF ThreadInv, Freeing, Outside, Frees

-----------------------------------------------------------------------------
(* The steps, one lemma for those that change alike.                       *)

\* CopyFails, Written and TestWritable: only where t is changes.
LEMMA QuietStep ==
  ASSUME IInv, TypeOK', NEW t \in Thread, NEW place, Goto(t, place),
         UNCHANGED <<blocks, refs, pools>>,
         pc[t].at \in {"idle", "write", "copy"}, place.at \in {"idle", "write", "copy"},
         place.free_avbuffer = FALSE,
         place.at \in {"write", "copy"} => place.block \in Block /\ Holds(t, place.block),
         place.at = "write" => Refs(place.block) = 1
  PROVE  IInv'
<1>0. TypeOK /\ (\A b \in Block : BlockInv(b)) /\ (\A u \in Thread : ThreadInv(u)) /\ PoolInv
  BY DEF IInv
<1>1. pc'[t] = place /\ \A u \in Thread : u # t => pc'[u] = pc[u]
  BY <1>0, Going
<1>2. /\ data' = data /\ apart' = apart /\ no_free' = no_free /\ refcount' = refcount
      /\ refs' = refs /\ ppool' = ppool /\ pool_alive' = pool_alive /\ pool' = pool
      /\ pool_refcount' = pool_refcount /\ Listed' = Listed
  BY DEF blocks, pools, Listed
<1>3. \A u \in Thread, b \in Block : Freeing(u, b)' <=> Freeing(u, b)
  BY <1>0, <1>1, OutsideFrees DEF Freeing, Outside
<1>4. \A u \in Thread, b \in Block, at \in {"count", "free", "release"} :
        In(u, at, b)' <=> In(u, at, b)
  BY <1>1 DEF In
<1>5. ASSUME NEW b \in Block
      PROVE  BlockInv(b)' /\ References(b)' = References(b) /\ Refs(b)' = Refs(b)
  BY <1>0, <1>2, <1>3, <1>4, BlockFrame
<1>6. \A u \in Thread, b \in Block : Holds(u, b)' <=> Holds(u, b)
  BY <1>2 DEF Holds
<1>7. ASSUME NEW u \in Thread PROVE ThreadInv(u)'
  <2>1. CASE u # t
    BY <1>0, <1>1, <1>5, <1>6, <2>1, ThreadFrame DEF ThreadInv
  <2>2. CASE u = t
    BY <1>1, <1>5, <1>6, <2>2 DEF ThreadInv
  <2> QED
    BY <2>1, <2>2
<1>8. Outs' = Outs
  BY <1>2, <1>6 DEF Outs
<1>9. At({"destroy"})' = At({"destroy"}) /\ Dropping' = Dropping
  BY <1>1 DEF At, Dropping
<1>10. PoolInv'
  BY <1>0, <1>2, <1>8, <1>9, PoolSame
<1> QED
  BY <1>5, <1>7, <1>10 DEF IInv

LEMMA ReadStep ==
  ASSUME IInv, TypeOK', NEW t \in Thread,
         CopyFails(t) \/ Written(t) \/ \E b \in Block : TestWritable(t, b)
  PROVE  IInv'
<1>0. TypeOK /\ \A b \in Block : BlockInv(b)
  BY DEF IInv
<1>1. Idle.at = "idle" /\ Idle.free_avbuffer = FALSE
  BY DEF Idle, Place
<1>2. CASE CopyFails(t) \/ Written(t)
  <2>1. Goto(t, Idle) /\ UNCHANGED <<blocks, refs, pools>> /\ pc[t].at \in {"write", "copy"}
    BY <1>2 DEF CopyFails, Written
  <2> QED
    BY <1>1, <2>1, QuietStep
<1>3. ASSUME NEW b \in Block, TestWritable(t, b) PROVE IInv'
  <2>1. PICK at : at = IF refcount[b] = 1 THEN "write" ELSE "copy"
    OBVIOUS
  <2>2. PICK place : place = Place(at, b, FALSE)
    OBVIOUS
  <2>3. place.at = at /\ place.block = b /\ place.free_avbuffer = FALSE
    BY <2>2 DEF Place
  <2>4. /\ Goto(t, place) /\ UNCHANGED <<blocks, refs, pools>> /\ pc[t].at = "idle"
        /\ Holds(t, b)
    BY <1>1, <1>3, <2>1, <2>2 DEF TestWritable
  <2>5. at = "write" => Refs(b) = 1
    BY <1>0, <2>1, <2>4, Referred DEF BlockInv, Sound
  <2> QED
    BY <2>1, <2>3, <2>4, <2>5, QuietStep
<1> QED
  BY <1>2, <1>3

\* Who writes to a block is the only one to hold it, and nobody is about to.
LEMMA WriterHolds ==
  ASSUME TypeOK, NEW u \in Thread, ThreadInv(u), pc[u].at = "write", NEW b, b = pc[u].block
  PROVE  b \in Block /\ Holds(u, b) /\ \A t \in Thread : Holds(t, b) => t = u
BY Known DEF ThreadInv, RefsKnown

\* av_buffer_alloc.
LEMMA AllocStep ==
  ASSUME IInv, TypeOK', NEW t \in Thread, Alloc(t)
  PROVE  IInv'
<1>0. /\ TypeOK /\ (\A c \in Block : BlockInv(c)) /\ (\A u \in Thread : ThreadInv(u)) /\ PoolInv
      /\ RefsKnown /\ RefsKnown'
  BY Known, KnownNext DEF IInv
<1>1. PICK b \in Block : Allocate(b, "plain") /\ refcount' = [refcount EXCEPT ![b] = 1]
                         /\ Holding(t, b, 1)
  BY DEF Alloc
<1>2. /\ ppool' = ppool /\ pool_alive' = pool_alive /\ pool' = pool
      /\ pool_refcount' = pool_refcount /\ pc' = pc /\ Listed' = Listed
  BY DEF Alloc, pools, Listed
<1>3. /\ data[b] = "none" /\ b \notin apart /\ data'[b] = "plain" /\ b \in apart'
      /\ b \notin no_free' /\ refcount'[b] = 1
      /\ \A c \in Block : c # b => /\ data'[c] = data[c] /\ refcount'[c] = refcount[c]
                                   /\ c \in apart' <=> c \in apart
                                   /\ c \in no_free' <=> c \in no_free
  BY <1>0, <1>1 DEF TypeOK, Allocate
<1>4. References(b) = {} /\ \A u \in Thread : refs[u][b] = 0 /\ ~In(u, "count", b)
  BY <1>0, <1>3, Fresh
<1>5. /\ refs'[t][b] = refs[t][b] + 1 /\ \A u \in Thread : u # t => refs'[u][b] = refs[u][b]
      /\ \A u \in Thread, c \in Block : c # b => refs'[u][c] = refs[u][c]
  BY <1>0, <1>1 DEF TypeOK, Holding
<1>6. /\ \A u \in Thread, c \in Block, at \in {"count", "free", "release"} :
           In(u, at, c)' <=> In(u, at, c)
      /\ \A u \in Thread, c \in Block : Freeing(u, c)' <=> Freeing(u, c)
  BY <1>2 DEF In, Freeing
<1>7. ASSUME NEW c \in Block, c # b
      PROVE  BlockInv(c)' /\ References(c)' = References(c) /\ Refs(c)' = Refs(c)
  BY <1>0, <1>2, <1>3, <1>5, <1>6, <1>7, BlockFrame
<1>8. Refs(b)' = 1 /\ References(b)' # {}
  BY <1>0, <1>4, <1>5, <1>6, RefsMore DEF RefsKnown
<1>9. BlockInv(b)'
  <2>1. \A u \in Thread : ~In(u, "free", b) /\ ~In(u, "release", b) /\ ~Freeing(u, b)
    BY <1>0, <1>3 DEF BlockInv, InHand, Apart
  <2>2. b \notin Listed
    BY <1>0, <1>3 DEF BlockInv, Placed
  <2>3. Sound(b)'
    BY <1>2, <1>3, <1>6, <1>8, <2>1, <2>2 DEF Sound, Ending
  <2>4. InHand(b)' /\ Placed(b)'
    BY <1>2, <1>4, <1>6, <1>8, <2>1, <2>2 DEF InHand, Placed, Ending
  <2>5. Apart(b)'
    BY <1>3, <1>6, <1>8, <2>1 DEF Apart
  <2> QED
    BY <2>3, <2>4, <2>5 DEF BlockInv
<1>10. \A u \in Thread, c \in Block : c # b => (Holds(u, c)' <=> Holds(u, c))
  BY <1>5 DEF Holds
<1>11. \A u \in Thread : ~Holds(u, b)
  BY <1>4 DEF Holds
<1>12. ASSUME NEW u \in Thread PROVE ThreadInv(u)'
  <2>1. pc[u].at \in {"write", "copy"} => pc[u].block \in Block \ {b}
    BY <1>0, <1>11 DEF ThreadInv
  <2> QED
    BY <1>0, <1>2, <1>7, <1>10, <2>1 DEF ThreadInv
<1>13. Outs' = Outs
  BY <1>3, <1>10 DEF Outs
<1>14. At({"destroy"})' = At({"destroy"}) /\ Dropping' = Dropping
  BY <1>2 DEF At, Dropping
<1>15. PoolInv'
  BY <1>0, <1>2, <1>13, <1>14, PoolSame
<1> QED
  BY <1>7, <1>9, <1>12, <1>15 DEF IInv

\* av_buffer_ref: one reference more to a block that has some.
LEMMA RefStep ==
  ASSUME IInv, TypeOK', NEW t \in Thread, NEW b \in Block, Ref(t, b)
  PROVE  IInv'
<1>0. /\ TypeOK /\ (\A c \in Block : BlockInv(c)) /\ (\A u \in Thread : ThreadInv(u)) /\ PoolInv
      /\ RefsKnown /\ RefsKnown'
  BY Known, KnownNext DEF IInv
<1>1. /\ ppool' = ppool /\ pool_alive' = pool_alive /\ pool' = pool
      /\ pool_refcount' = pool_refcount /\ pc' = pc /\ Listed' = Listed
      /\ data' = data /\ apart' = apart /\ no_free' = no_free
      /\ pc[t] = Idle /\ Holds(t, b)
  BY DEF Ref, pools, Listed
<1>2. /\ refcount'[b] = refcount[b] + 1 /\ refcount[b] \in Int
      /\ \A c \in Block : c # b => refcount'[c] = refcount[c]
  BY <1>0 DEF TypeOK, Ref
<1>3. /\ refs'[t][b] = refs[t][b] + 1 /\ refs[t][b] \in 0 .. MaxRefs
      /\ \A u \in Thread : u # t => refs'[u][b] = refs[u][b]
      /\ \A u \in Thread, c \in Block : c # b => refs'[u][c] = refs[u][c]
  BY <1>0 DEF TypeOK, Ref, Holding
<1>4. /\ \A u \in Thread, c \in Block, at \in {"count", "free", "release"} :
           In(u, at, c)' <=> In(u, at, c)
      /\ \A u \in Thread, c \in Block : Freeing(u, c)' <=> Freeing(u, c)
  BY <1>1 DEF In, Freeing
<1>5. ASSUME NEW c \in Block, c # b
      PROVE  BlockInv(c)' /\ References(c)' = References(c) /\ Refs(c)' = Refs(c)
  BY <1>0, <1>1, <1>2, <1>3, <1>4, <1>5, BlockFrame
<1>6. References(b) # {} /\ References(b)' # {} /\ Refs(b)' = Refs(b) + 1
  BY <1>0, <1>1, <1>3, <1>4, RefsMore DEF RefsKnown
<1>7. \A u \in Thread, c \in Block : Holds(u, c)' <=> Holds(u, c)
  BY <1>1, <1>3, MaxRefsAssumption DEF Holds
<1>8. BlockInv(b)'
  <2>1. Sound(b)'
    BY <1>0, <1>1, <1>2, <1>4, <1>6 DEF BlockInv, Sound, Ending
  <2>2. InHand(b)'
    BY <1>0, <1>1, <1>4, <1>7 DEF BlockInv, InHand, Ending
  <2>3. Placed(b)' /\ Apart(b)'
    BY <1>0, <1>1, <1>4, <1>6 DEF BlockInv, Placed, Apart, Ending
  <2> QED
    BY <2>1, <2>2, <2>3 DEF BlockInv
<1>9. ASSUME NEW u \in Thread PROVE ThreadInv(u)'
  <2>1. pc[u].at \in {"write", "copy"} => pc[u].block \in Block
    BY <1>0 DEF ThreadInv
  <2>2. pc[u].at = "write" => pc[u].block # b
    <3>1. pc[t].at = "idle"
      BY <1>1 DEF Idle, Place
    <3> QED
      BY <1>0, <1>1, <3>1, WriterHolds
  <2> QED
    BY <1>0, <1>1, <1>5, <1>7, <2>1, <2>2 DEF ThreadInv
<1>10. Outs' = Outs
  BY <1>1, <1>7 DEF Outs
<1>11. At({"destroy"})' = At({"destroy"}) /\ Dropping' = Dropping
  BY <1>1 DEF At, Dropping
<1>12. PoolInv'
  BY <1>0, <1>1, <1>10, <1>11, PoolSame
<1> QED
  BY <1>5, <1>8, <1>9, <1>12 DEF IInv

\* A client hands a reference to another one.
LEMMA GiveStep ==
  ASSUME IInv, TypeOK', NEW t \in Thread, NEW v \in Thread, NEW b \in Block, Give(t, v, b)
  PROVE  IInv'
<1>0. /\ TypeOK /\ (\A c \in Block : BlockInv(c)) /\ (\A u \in Thread : ThreadInv(u)) /\ PoolInv
      /\ RefsKnown /\ RefsKnown'
  BY Known, KnownNext DEF IInv
<1>1. /\ ppool' = ppool /\ pool_alive' = pool_alive /\ pool' = pool
      /\ pool_refcount' = pool_refcount /\ pc' = pc /\ Listed' = Listed
      /\ data' = data /\ apart' = apart /\ no_free' = no_free /\ refcount' = refcount
      /\ pc[t] = Idle /\ Holds(t, b) /\ t # v
  BY DEF Give, pools, blocks, Listed
<1>2. /\ refs'[t][b] = refs[t][b] - 1 /\ refs[t][b] \in 1 .. MaxRefs
      /\ refs'[v][b] = refs[v][b] + 1 /\ refs[v][b] \in 0 .. MaxRefs - 1
      /\ \A u \in Thread : u \notin {t, v} => refs'[u][b] = refs[u][b]
      /\ \A u \in Thread, c \in Block : c # b => refs'[u][c] = refs[u][c]
  <2>1. refs[t][b] \in 0 .. MaxRefs /\ refs[v][b] \in 0 .. MaxRefs
    BY <1>0 DEF TypeOK
  <2>2. refs[t][b] \in 1 .. MaxRefs /\ refs[v][b] \in 0 .. MaxRefs - 1
    BY <2>1, MaxRefsAssumption DEF Give, Holds
  <2> QED
    BY <1>0, <2>2 DEF TypeOK, Give
<1>3. /\ \A u \in Thread, c \in Block, at \in {"count", "free", "release"} :
           In(u, at, c)' <=> In(u, at, c)
      /\ \A u \in Thread, c \in Block : Freeing(u, c)' <=> Freeing(u, c)
  BY <1>1 DEF In, Freeing
<1>4. ASSUME NEW c \in Block, c # b
      PROVE  BlockInv(c)' /\ References(c)' = References(c) /\ Refs(c)' = Refs(c)
  BY <1>0, <1>1, <1>2, <1>3, <1>4, BlockFrame
<1>5. Refs(b)' = Refs(b)
  <2> DEFINE x == <<t, refs[t][b]>>
             y == <<v, refs[v][b] + 1>>
  <2>1. AtWith({"count"}, b)' = AtWith({"count"}, b)
    BY <1>1 DEF AtWith, At
  <2>2. x \in References(b) /\ y \notin References(b) /\ y \in Thread \X (0 .. MaxRefs)
    BY <1>2, MaxRefsAssumption DEF References
  <2>3. ASSUME NEW z \in Thread \X (0 .. MaxRefs)
        PROVE  z \in References(b)' <=> (z \in References(b) /\ z # x) \/ z = y
    <3>1. z[1] \in Thread /\ z[2] \in 0 .. MaxRefs /\ z = <<z[1], z[2]>>
      OBVIOUS
    <3>2. z \in References(b) <=> IF z[2] = 0 THEN z[1] \in AtWith({"count"}, b)
                                              ELSE z[2] <= refs[z[1]][b]
      BY DEF References
    <3>3. z \in References(b)' <=> IF z[2] = 0 THEN z[1] \in AtWith({"count"}, b)
                                               ELSE z[2] <= refs'[z[1]][b]
      BY <2>1 DEF References
    <3>4. CASE z[1] \notin {t, v}
      BY <1>2, <3>1, <3>2, <3>3, <3>4
    <3>5. CASE z[1] = t
      BY <1>1, <1>2, <3>1, <3>2, <3>3, <3>5, MaxRefsAssumption
    <3>6. CASE z[1] = v
      BY <1>1, <1>2, <3>1, <3>2, <3>3, <3>6, MaxRefsAssumption
    <3> QED
      BY <3>4, <3>5, <3>6
  <2>4. References(b)' = (References(b) \ {x}) \cup {y}
    BY <2>2, <2>3 DEF References
  <2> QED
    BY <1>0, <2>2, <2>4, Swapping DEF Refs, RefsKnown
<1>6. References(b) # {} /\ References(b)' # {}
  BY <1>0, <1>1, <1>5 DEF RefsKnown
<1>7. \A u \in Thread, c \in Block : u # t => (Holds(u, c) => Holds(u, c)')
  BY <1>1, <1>2 DEF Holds
<1>8. \A c \in Block : (\E u \in Thread : Holds(u, c)') <=> (\E u \in Thread : Holds(u, c))
  BY <1>1, <1>2 DEF Holds
<1>9. BlockInv(b)'
  <2>1. Sound(b)'
    BY <1>0, <1>1, <1>3, <1>5, <1>6 DEF BlockInv, Sound, Ending
  <2>2. InHand(b)'
    BY <1>0, <1>1, <1>3, <1>8 DEF BlockInv, InHand, Ending
  <2>3. Placed(b)' /\ Apart(b)'
    BY <1>0, <1>1, <1>3, <1>6 DEF BlockInv, Placed, Apart, Ending
  <2> QED
    BY <2>1, <2>2, <2>3 DEF BlockInv
<1>10. ASSUME NEW u \in Thread PROVE ThreadInv(u)'
  <2>1. pc[t].at = "idle"
    BY <1>1 DEF Idle, Place
  <2> QED
    BY <1>0, <1>1, <1>4, <1>5, <1>7, <2>1 DEF ThreadInv
<1>11. Outs' = Outs
  BY <1>1, <1>8 DEF Outs
<1>12. At({"destroy"})' = At({"destroy"}) /\ Dropping' = Dropping
  BY <1>1 DEF At, Dropping
<1>13. PoolInv'
  BY <1>0, <1>1, <1>11, <1>12, PoolSame
<1> QED
  BY <1>4, <1>9, <1>10, <1>13 DEF IInv

\* A block loses one reference of t, which frees it when that was the last.
LEMMA DecrementBlock ==
  ASSUME TypeOK, TypeOK', NEW b \in Block, BlockInv(b), NEW t \in Thread, ThreadInv(t),
         Holds(t, b), pc[t].at \in {"idle", "copy"},
         data'[b] = data[b], b \in apart' <=> b \in apart, b \in no_free' <=> b \in no_free,
         b \in Listed' <=> b \in Listed, ppool' = ppool,
         refcount'[b] = refcount[b] - 1, refs'[t][b] = refs[t][b] - 1,
         \A u \in Thread : u # t => refs'[u][b] = refs[u][b] /\ pc'[u] = pc[u],
         refcount[b] # 1 => /\ pc'[t].at \in {"idle", "write"} /\ pc'[t].free_avbuffer = FALSE,
         refcount[b] = 1 =>
           /\ pc'[t].at = IF data[b] = "pool" THEN "release" ELSE "free"
           /\ pc'[t].block = b /\ (pc'[t].free_avbuffer <=> b \notin no_free)
  PROVE  /\ BlockInv(b)' /\ refcount[b] = Refs(b) /\ Refs(b)' = Refs(b) - 1
         /\ References(b)' = {} <=> refcount[b] = 1
<1>0. RefsKnown /\ RefsKnown'
  BY Known, KnownNext
<1>1. \A u \in Thread : ~In(u, "count", b)
  BY DEF BlockInv, InHand
<1>2. \A u \in Thread : (u # t => In(u, "count", b)' = In(u, "count", b)) /\ ~In(t, "count", b)'
  BY DEF In
<1>3. \A u \in Thread : ~In(u, "count", b)'
  BY <1>1, <1>2
<1>4. Refs(b)' = Refs(b) - 1
  BY <1>1, <1>3, RefsLess
<1>5. References(b) # {} /\ refcount[b] = Refs(b) /\ Refs(b) \in Nat /\ Refs(b)' \in Nat
  BY <1>0 DEF RefsKnown, BlockInv, Sound
<1>6. References(b)' = {} <=> refcount[b] = 1
  BY <1>0, <1>4, <1>5 DEF RefsKnown
<1>7. \A u \in Thread : ~Ending(u, b) /\ ~Freeing(t, b)
  BY <1>5, OutsideFrees DEF BlockInv, Sound, Outside
<1>8. data[b] \in {"pool", "plain"} /\ b \notin Listed
  BY <1>5 DEF BlockInv, Sound, TypeOK
<1>9. \A u \in Thread : u # t => /\ ~Ending(u, b)'
                                 /\ Freeing(u, b)' <=> Freeing(u, b)
  BY <1>7 DEF Ending, In, Freeing
<1>10. CASE refcount[b] # 1
  <2>1. References(b)' # {}
    BY <1>6, <1>10
  <2>2. ~Ending(t, b)' /\ ~Freeing(t, b)'
    BY <1>10 DEF Ending, In, Freeing
  <2>3. Sound(b)'
    BY <1>4, <1>5, <1>8, <1>9, <2>2 DEF Sound
  <2>4. InHand(b)'
    BY <1>3, <1>9, <2>2 DEF InHand, Ending
  <2>5. Placed(b)'
    BY <1>8, <2>1 DEF Placed
  <2>6. Apart(b)'
    BY <1>5, <1>7, <1>9, <2>1, <2>2 DEF BlockInv, Apart
  <2> QED
    BY <1>4, <1>5, <1>6, <2>3, <2>4, <2>5, <2>6 DEF BlockInv
<1>11. CASE refcount[b] = 1
  <2>1. References(b)' = {}
    BY <1>6, <1>11
  <2>2. In(t, "free", b)' <=> data[b] = "plain"
    BY <1>8, <1>11 DEF In
  <2>3. In(t, "release", b)' <=> data[b] = "pool"
    BY <1>8, <1>11 DEF In
  <2>4. Freeing(t, b)' <=> b \notin no_free
    BY <1>11 DEF Freeing
  <2>5. Sound(b)'
    BY <2>1 DEF Sound
  <2>6. InHand(b)'
    BY <1>3, <1>8, <1>9, <2>2, <2>3 DEF InHand, Ending
  <2>7. Placed(b)'
    BY <1>8, <2>2, <2>3 DEF Placed, Ending
  <2>8. Apart(b)'
    BY <1>5, <1>7, <1>9, <2>1, <2>4 DEF BlockInv, Apart
  <2> QED
    BY <1>4, <1>5, <1>6, <2>5, <2>6, <2>7, <2>8 DEF BlockInv
<1> QED
  BY <1>10, <1>11

\* What the pool counts: a block that nobody holds any more goes over to the
\* thread that releases it.
LEMMA PoolOver ==
  ASSUME PoolInv, NEW b \in Outs, NEW t \in Thread, t \notin Dropping,
         Outs' = Outs \ {b}, Dropping' = Dropping \cup {t},
         At({"destroy"})' = At({"destroy"}),
         UNCHANGED <<ppool, pool_alive, pool_refcount, pool>>
  PROVE  PoolInv'
<1>1. IsFiniteSet(Outs) /\ IsFiniteSet(Dropping)
  BY FiniteAssumption, FS_Subset DEF Outs, Dropping, At
<1>2. /\ Cardinality(Outs') = Cardinality(Outs) - 1 /\ Cardinality(Outs) \in Nat
      /\ Cardinality(Dropping') = Cardinality(Dropping) + 1 /\ Cardinality(Dropping) \in Nat
  BY <1>1, Counting
<1>3. PoolCounted'
  BY <1>2 DEF PoolInv, PoolCounted
<1> QED
  BY <1>3 DEF PoolInv

\* av_buffer_unref.
LEMMA UnrefStep ==
  ASSUME IInv, TypeOK', NEW t \in Thread, NEW b \in Block, Unref(t, b)
  PROVE  IInv'
<1>0. /\ TypeOK /\ (\A c \in Block : BlockInv(c)) /\ (\A u \in Thread : ThreadInv(u)) /\ PoolInv
      /\ RefsKnown /\ RefsKnown'
  BY Known, KnownNext DEF IInv
<1>1. /\ ppool' = ppool /\ pool_alive' = pool_alive /\ pool' = pool
      /\ pool_refcount' = pool_refcount /\ Listed' = Listed
      /\ data' = data /\ apart' = apart /\ no_free' = no_free
      /\ pc[t] = Idle /\ Holds(t, b)
  BY DEF Unref, pools, Listed
<1>2. PICK next : next = IF refcount[b] # 1 THEN Idle
                         ELSE Place(IF data[b] = "pool" THEN "release" ELSE "free",
                                    b, b \notin no_free)
  OBVIOUS
<1>3. Goto(t, next)
  BY <1>2 DEF Unref, Decrement
<1>4. pc'[t] = next /\ \A u \in Thread : u # t => pc'[u] = pc[u]
  BY <1>0, <1>3, Going
<1>5. /\ refcount[b] # 1 => next.at = "idle" /\ next.free_avbuffer = FALSE
      /\ refcount[b] = 1 => /\ next.at = IF data[b] = "pool" THEN "release" ELSE "free"
                            /\ next.block = b /\ (next.free_avbuffer <=> b \notin no_free)
  BY <1>2 DEF Place, Idle
<1>6. /\ refcount'[b] = refcount[b] - 1
      /\ \A c \in Block : c # b => refcount'[c] = refcount[c]
  BY <1>0 DEF TypeOK, Unref, Decrement
<1>7. /\ refs'[t][b] = refs[t][b] - 1 /\ refs[t][b] \in 0 .. MaxRefs
      /\ \A u \in Thread : u # t => refs'[u][b] = refs[u][b]
      /\ \A u \in Thread, c \in Block : c # b => refs'[u][c] = refs[u][c]
  BY <1>0 DEF TypeOK, Unref, Holding
<1>8. pc[t].at = "idle" /\ \A c \in Block : ~Freeing(t, c)
  BY <1>0, <1>1, OutsideFrees DEF Idle, Place, Outside
<1>9. ASSUME NEW c \in Block, c # b
      PROVE  BlockInv(c)' /\ References(c)' = References(c) /\ Refs(c)' = Refs(c)
  <2>1. \A u \in Thread, at \in {"count", "free", "release"} : In(u, at, c)' <=> In(u, at, c)
    BY <1>4, <1>5, <1>8, <1>9 DEF In
  <2>2. \A u \in Thread : Freeing(u, c)' <=> Freeing(u, c)
    BY <1>4, <1>5, <1>8, <1>9 DEF Freeing
  <2> QED
    BY <1>0, <1>1, <1>6, <1>7, <1>9, <2>1, <2>2, BlockFrame
<1>10. /\ BlockInv(b)' /\ refcount[b] = Refs(b) /\ Refs(b)' = Refs(b) - 1
       /\ References(b)' = {} <=> refcount[b] = 1
  BY <1>0, <1>1, <1>4, <1>5, <1>6, <1>7, <1>8, DecrementBlock
<1>11. \A u \in Thread, c \in Block : u # t \/ c # b => (Holds(u, c)' <=> Holds(u, c))
  BY <1>7 DEF Holds
<1>12. ASSUME NEW u \in Thread PROVE ThreadInv(u)'
  <2>1. CASE u = t
    BY <1>4, <1>5, <2>1 DEF ThreadInv, Frees
  <2>2. CASE u # t
    <3>1. pc[u].at = "write" => pc[u].block # b
      BY <1>0, <1>1, <2>2, WriterHolds
    <3> QED
      BY <1>0, <1>4, <1>9, <1>11, <2>2, <3>1 DEF ThreadInv
  <2> QED
    BY <2>1, <2>2
<1>13. At({"destroy"})' = At({"destroy"})
  BY <1>4, <1>5, <1>8 DEF At
<1>14. \A u \in Thread : ~In(u, "count", b)
  BY <1>0, <1>1 DEF BlockInv, InHand
<1>15. \A u \in Thread : ~In(u, "count", b)'
  BY <1>4, <1>5, <1>14 DEF In
<1>16. (\E u \in Thread : Holds(u, b)') <=> refcount[b] # 1
  BY <1>0, <1>10, <1>15 DEF RefsKnown
<1>17. t \notin Dropping
  BY <1>8 DEF Dropping, At
<1>18. CASE refcount[b] = 1 /\ data[b] = "pool"
  <2>1. b \in Outs /\ Outs' = Outs \ {b}
    BY <1>1, <1>11, <1>16, <1>18 DEF Outs
  <2>2. Dropping' = Dropping \cup {t}
    BY <1>4, <1>5, <1>18 DEF Dropping, At
  <2>3. PoolInv'
    BY <1>0, <1>1, <1>13, <1>17, <2>1, <2>2, PoolOver
  <2> QED
    BY <1>9, <1>10, <1>12, <2>3 DEF IInv
<1>19. CASE ~(refcount[b] = 1 /\ data[b] = "pool")
  <2>1. Outs' = Outs
    BY <1>1, <1>11, <1>16, <1>19 DEF Outs
  <2>2. Dropping' = Dropping
    BY <1>4, <1>5, <1>8, <1>19 DEF Dropping, At
  <2>3. PoolInv'
    BY <1>0, <1>1, <1>13, <2>1, <2>2, PoolSame
  <2> QED
    BY <1>9, <1>10, <1>12, <2>3 DEF IInv
<1> QED
  BY <1>18, <1>19

\* A thread that goes on with its block.
LEMMA GoesOn ==
  ASSUME TypeOK, NEW t \in Thread, NEW at, Goto(t, Onto(t, at))
  PROVE  /\ pc'[t].at = at /\ pc'[t].block = pc[t].block
         /\ pc'[t].free_avbuffer <=> pc[t].free_avbuffer
         /\ \A u \in Thread : u # t => pc'[u] = pc[u]
         /\ \A u \in Thread, c \in Block : Freeing(u, c)' <=> Freeing(u, c)
<1>1. pc'[t] = Onto(t, at) /\ \A u \in Thread : u # t => pc'[u] = pc[u]
  BY Going
<1>2. /\ pc'[t].at = at /\ pc'[t].block = pc[t].block
      /\ pc'[t].free_avbuffer = pc[t].free_avbuffer
  BY <1>1 DEF Onto, Place
<1>3. ASSUME NEW u \in Thread, NEW c \in Block PROVE Freeing(u, c)' <=> Freeing(u, c)
  <2>1. CASE u = t
    BY <1>2, <2>1 DEF Freeing
  <2>2. CASE u # t
    BY <1>1, <2>2 DEF Freeing
  <2> QED
    BY <2>1, <2>2
<1> QED
  BY <1>1, <1>2, <1>3

\* A block that a thread frees or lists is not referenced, nor anybody else's.
LEMMA EndingAlone ==
  ASSUME NEW b \in Block, BlockInv(b), NEW t \in Thread, Ending(t, b)
  PROVE  /\ References(b) = {} /\ b \notin Listed
         /\ data[b] = IF In(t, "free", b) THEN "plain" ELSE "pool"
         /\ \A u \in Thread : u # t => ~Ending(u, b)
BY DEF BlockInv, Sound, InHand, Ending, In

\* av_buffer_default_free.
LEMMA DefaultFreeStep ==
  ASSUME IInv, TypeOK', NEW t \in Thread, DefaultFree(t)
  PROVE  IInv'
<1>0. /\ TypeOK /\ (\A c \in Block : BlockInv(c)) /\ (\A u \in Thread : ThreadInv(u)) /\ PoolInv
  BY DEF IInv
<1>1. /\ ppool' = ppool /\ pool_alive' = pool_alive /\ pool' = pool
      /\ pool_refcount' = pool_refcount /\ Listed' = Listed
      /\ refs' = refs /\ refcount' = refcount /\ apart' = apart /\ no_free' = no_free
      /\ pc[t].at = "free"
  BY DEF DefaultFree, pools, Listed
<1>2. PICK b \in Block : b = pc[t].block
  BY <1>0, <1>1 DEF ThreadInv
<1>3. /\ pc'[t].at = "avbuffer" /\ pc'[t].block = b
      /\ pc'[t].free_avbuffer <=> pc[t].free_avbuffer
      /\ \A u \in Thread : u # t => pc'[u] = pc[u]
      /\ \A u \in Thread, c \in Block : Freeing(u, c)' <=> Freeing(u, c)
  BY <1>0, <1>2, GoesOn DEF DefaultFree
<1>4. data'[b] = "none" /\ \A c \in Block : c # b => data'[c] = data[c]
  BY <1>0, <1>2 DEF TypeOK, DefaultFree, FreeData
<1>5. In(t, "free", b) /\ Ending(t, b)
  BY <1>1, <1>2 DEF In, Ending
<1>6. /\ References(b) = {} /\ b \notin Listed /\ data[b] = "plain"
      /\ \A u \in Thread : u # t => ~Ending(u, b)
  BY <1>0, <1>5, EndingAlone
<1>7. ASSUME NEW c \in Block, c # b
      PROVE  BlockInv(c)' /\ References(c)' = References(c) /\ Refs(c)' = Refs(c)
  <2>1. \A u \in Thread, at \in {"count", "free", "release"} : In(u, at, c)' <=> In(u, at, c)
    BY <1>2, <1>3, <1>7 DEF In
  <2> QED
    BY <1>0, <1>1, <1>3, <1>4, <1>7, <2>1, BlockFrame
<1>8. \A u \in Thread : In(u, "count", b)' <=> In(u, "count", b)
  BY <1>1, <1>3 DEF In
<1>9. References(b)' = References(b) /\ Refs(b)' = Refs(b)
  BY <1>1, <1>8, RefsSame
<1>10. \A u \in Thread : ~Ending(u, b)'
  BY <1>3, <1>6 DEF Ending, In
<1>11. \A u \in Thread, c \in Block : Holds(u, c)' <=> Holds(u, c)
  BY <1>1 DEF Holds
<1>12. BlockInv(b)'
  <2>1. \A u \in Thread : ~In(u, "count", b)
    BY <1>0, <1>6 DEF BlockInv, InHand
  <2>2. Sound(b)' /\ Placed(b)'
    BY <1>1, <1>4, <1>6, <1>9 DEF Sound, Placed
  <2>3. InHand(b)'
    BY <1>8, <1>10, <2>1 DEF InHand, Ending
  <2>4. Apart(b)'
    BY <1>0, <1>1, <1>3, <1>9 DEF BlockInv, Apart
  <2> QED
    BY <2>2, <2>3, <2>4 DEF BlockInv
<1>13. ASSUME NEW u \in Thread PROVE ThreadInv(u)'
  <2>1. CASE u = t
    BY <1>0, <1>3, <2>1 DEF ThreadInv, Frees
  <2>2. CASE u # t
    BY <1>0, <1>3, <1>7, <1>9, <1>11, <2>2 DEF ThreadInv
  <2> QED
    BY <2>1, <2>2
<1>14. Outs' = Outs
  BY <1>4, <1>6, <1>11 DEF Outs
<1>15. At({"destroy"})' = At({"destroy"}) /\ Dropping' = Dropping
  BY <1>1, <1>3 DEF At, Dropping
<1>16. PoolInv'
  BY <1>0, <1>1, <1>14, <1>15, PoolSame
<1> QED
  BY <1>7, <1>12, <1>13, <1>16 DEF IInv

\* if (free_avbuffer) av_free(b).
LEMMA FreeAVBufferStep ==
  ASSUME IInv, TypeOK', NEW t \in Thread, FreeAVBuffer(t)
  PROVE  IInv'
<1>0. /\ TypeOK /\ (\A c \in Block : BlockInv(c)) /\ (\A u \in Thread : ThreadInv(u)) /\ PoolInv
  BY DEF IInv
<1>1. /\ ppool' = ppool /\ pool_alive' = pool_alive /\ pool' = pool
      /\ pool_refcount' = pool_refcount /\ Listed' = Listed
      /\ refs' = refs /\ refcount' = refcount /\ data' = data /\ no_free' = no_free
      /\ pc[t].at = "avbuffer"
  BY DEF FreeAVBuffer, pools, Listed
<1>2. PICK b \in Block : b = pc[t].block
  BY <1>0, <1>1 DEF ThreadInv
<1>3. /\ pc'[t].at = "idle" /\ pc'[t].free_avbuffer = FALSE
      /\ \A u \in Thread : u # t => pc'[u] = pc[u]
  BY <1>0, Going DEF FreeAVBuffer, Idle, Place
<1>4. /\ b \in apart' <=> b \in apart /\ ~Freeing(t, b)
      /\ \A c \in Block : c # b => (c \in apart' <=> c \in apart)
  <2>1. CASE pc[t].free_avbuffer
    BY <1>2, <2>1 DEF FreeAVBuffer, Freeing
  <2>2. CASE ~pc[t].free_avbuffer
    BY <1>2, <2>2 DEF FreeAVBuffer, Freeing
  <2> QED
    BY <2>1, <2>2
<1>5. \A u \in Thread, c \in Block, at \in {"count", "free", "release"} :
        In(u, at, c)' <=> In(u, at, c)
  BY <1>1, <1>3 DEF In
<1>6. \A u \in Thread, c \in Block : u # t \/ c # b => (Freeing(u, c)' <=> Freeing(u, c))
  <2>1. \A u \in Thread, c \in Block : u # t => (Freeing(u, c)' <=> Freeing(u, c))
    BY <1>3 DEF Freeing
  <2>2. \A c \in Block : c # b => ~Freeing(t, c) /\ ~Freeing(t, c)'
    BY <1>2, <1>3 DEF Freeing
  <2> QED
    BY <2>1, <2>2
<1>7. ASSUME NEW c \in Block, c # b
      PROVE  BlockInv(c)' /\ References(c)' = References(c) /\ Refs(c)' = Refs(c)
  BY <1>0, <1>1, <1>4, <1>5, <1>6, <1>7, BlockFrame
<1>8. References(b)' = References(b) /\ Refs(b)' = Refs(b)
  BY <1>1, <1>5, RefsSame
<1>9. \A u \in Thread, c \in Block : Holds(u, c)' <=> Holds(u, c)
  BY <1>1 DEF Holds
<1>10. BlockInv(b)'
  <2>1. ~Freeing(t, b)'
    BY <1>3 DEF Freeing
  <2>2. Sound(b)' /\ Placed(b)'
    BY <1>0, <1>1, <1>5, <1>8 DEF BlockInv, Sound, Placed, Ending
  <2>3. InHand(b)'
    BY <1>0, <1>1, <1>5, <1>9 DEF BlockInv, InHand, Ending
  <2>4. Apart(b)'
    BY <1>0, <1>1, <1>4, <1>6, <1>8, <2>1 DEF BlockInv, Apart
  <2> QED
    BY <2>2, <2>3, <2>4 DEF BlockInv
<1>11. ASSUME NEW u \in Thread PROVE ThreadInv(u)'
  <2>1. CASE u = t
    BY <1>3, <2>1 DEF ThreadInv
  <2>2. CASE u # t
    BY <1>0, <1>3, <1>7, <1>8, <1>9, <2>2 DEF ThreadInv
  <2> QED
    BY <2>1, <2>2
<1>12. Outs' = Outs
  BY <1>1, <1>9 DEF Outs
<1>13. At({"destroy"})' = At({"destroy"}) /\ Dropping' = Dropping
  BY <1>1, <1>3 DEF At, Dropping
<1>14. PoolInv'
  BY <1>0, <1>1, <1>12, <1>13, PoolSame
<1> QED
  BY <1>7, <1>10, <1>11, <1>14 DEF IInv

\* Somebody counts on the pool: it is alive, and nobody destroys it.
LEMMA PoolNeeded ==
  ASSUME TypeOK, PoolInv, Outs # {} \/ Dropping # {} \/ ppool
  PROVE  pool_refcount > 0 /\ pool_alive /\ At({"destroy"}) = {}
<1>1. IsFiniteSet(Outs) /\ IsFiniteSet(Dropping)
  BY FiniteAssumption, FS_Subset DEF Outs, Dropping, At
<1>2. /\ Cardinality(Outs) \in Nat /\ (Outs # {} => Cardinality(Outs) > 0)
      /\ Cardinality(Dropping) \in Nat /\ (Dropping # {} => Cardinality(Dropping) > 0)
  BY <1>1, FS_CardinalityType, FS_EmptySet
<1>3. pool_refcount > 0
  BY <1>2 DEF PoolInv, PoolCounted
<1> QED
  BY <1>3 DEF PoolInv, TypeOK

\* pool_release_buffer pushes the block.
LEMMA ReleaseStep ==
  ASSUME IInv, TypeOK', NEW t \in Thread, Release(t)
  PROVE  IInv'
<1>0. /\ TypeOK /\ (\A c \in Block : BlockInv(c)) /\ (\A u \in Thread : ThreadInv(u)) /\ PoolInv
  BY DEF IInv
<1>1. /\ ppool' = ppool /\ pool_alive' = pool_alive
      /\ pool_refcount' = pool_refcount /\ data' = data
      /\ refs' = refs /\ refcount' = refcount /\ apart' = apart /\ no_free' = no_free
      /\ pc[t].at = "release"
  BY DEF Release, blocks
<1>2. PICK b \in Block : b = pc[t].block
  BY <1>0, <1>1 DEF ThreadInv
<1>3. /\ pc'[t].at = "drop" /\ pc'[t].block = b
      /\ pc'[t].free_avbuffer <=> pc[t].free_avbuffer
      /\ \A u \in Thread : u # t => pc'[u] = pc[u]
      /\ \A u \in Thread, c \in Block : Freeing(u, c)' <=> Freeing(u, c)
  BY <1>0, <1>2, GoesOn DEF Release
<1>4. In(t, "release", b) /\ ~In(t, "free", b) /\ Ending(t, b)
  BY <1>1, <1>2 DEF In, Ending
<1>5. /\ References(b) = {} /\ b \notin Listed /\ data[b] = "pool"
      /\ \A u \in Thread : u # t => ~Ending(u, b)
  BY <1>0, <1>4, EndingAlone
<1>6. /\ Len(pool') = Len(pool) + 1 /\ pool'[1] = b /\ Len(pool) \in Nat
      /\ \A i \in 1 .. Len(pool) : pool'[i + 1] = pool[i]
      /\ \A i \in 2 .. Len(pool') : i - 1 \in 1 .. Len(pool) /\ pool'[i] = pool[i - 1]
  <2>1. pool \in Seq(Block) /\ pool' = <<b>> \o pool
    BY <1>0, <1>2 DEF TypeOK, Release
  <2> QED
    BY <2>1
<1>7. Listed' = Listed \cup {b}
  <2>1. \A c : c \in Listed => c \in Listed'
    <3> SUFFICES ASSUME NEW i \in 1 .. Len(pool) PROVE pool[i] \in Listed'
      BY DEF Listed
    <3>1. i + 1 \in 1 .. Len(pool') /\ pool'[i + 1] = pool[i]
      BY <1>6
    <3> QED
      BY <3>1 DEF Listed
  <2>2. b \in Listed'
    <3>1. 1 \in 1 .. Len(pool')
      BY <1>6
    <3> QED
      BY <1>6, <3>1 DEF Listed
  <2>3. \A c : c \in Listed' => c \in Listed \cup {b}
    <3> SUFFICES ASSUME NEW i \in 1 .. Len(pool') PROVE pool'[i] \in Listed \cup {b}
      BY DEF Listed
    <3>1. CASE i = 1
      BY <1>6, <3>1
    <3>2. CASE i # 1
      <4>1. i \in 2 .. Len(pool')
        BY <1>6, <3>2
      <4> QED
        BY <1>6, <4>1 DEF Listed
    <3> QED
      BY <3>1, <3>2
  <2> QED
    BY <2>1, <2>2, <2>3
<1>8. \A i, j \in 1 .. Len(pool') : pool'[i] = pool'[j] => i = j
  <2>1. \A i \in 1 .. Len(pool) : pool[i] # b
    BY <1>5 DEF Listed
  <2>2. \A i, j \in 1 .. Len(pool) : pool[i] = pool[j] => i = j
    BY <1>0 DEF PoolInv
  <2> SUFFICES ASSUME NEW i \in 1 .. Len(pool'), NEW j \in 1 .. Len(pool'),
                      pool'[i] = pool'[j]
               PROVE  i = j
    OBVIOUS
  <2>3. i = 1 \/ i \in 2 .. Len(pool')
    BY <1>6
  <2>4. j = 1 \/ j \in 2 .. Len(pool')
    BY <1>6
  <2>5. CASE i = 1 /\ j = 1
    BY <2>5
  <2>6. CASE i = 1 /\ j \in 2 .. Len(pool')
    BY <1>6, <2>1, <2>6
  <2>7. CASE i \in 2 .. Len(pool') /\ j = 1
    BY <1>6, <2>1, <2>7
  <2>8. CASE i \in 2 .. Len(pool') /\ j \in 2 .. Len(pool')
    <3>1. i - 1 = j - 1
      BY <1>6, <2>2, <2>8
    <3> QED
      BY <1>6, <2>8, <3>1
  <2> QED
    BY <2>3, <2>4, <2>5, <2>6, <2>7, <2>8
<1>9. ASSUME NEW c \in Block, c # b
      PROVE  BlockInv(c)' /\ References(c)' = References(c) /\ Refs(c)' = Refs(c)
  <2>1. \A u \in Thread, at \in {"count", "free", "release"} : In(u, at, c)' <=> In(u, at, c)
    BY <1>2, <1>3, <1>9 DEF In
  <2> QED
    BY <1>0, <1>1, <1>3, <1>7, <1>9, <2>1, BlockFrame
<1>10. \A u \in Thread : In(u, "count", b)' <=> In(u, "count", b)
  BY <1>1, <1>3 DEF In
<1>11. References(b)' = References(b) /\ Refs(b)' = Refs(b)
  BY <1>1, <1>10, RefsSame
<1>12. \A u \in Thread : ~Ending(u, b)'
  BY <1>3, <1>5 DEF Ending, In
<1>13. \A u \in Thread, c \in Block : Holds(u, c)' <=> Holds(u, c)
  BY <1>1 DEF Holds
<1>14. BlockInv(b)'
  <2>1. Sound(b)' /\ Placed(b)'
    BY <1>1, <1>5, <1>7, <1>11 DEF Sound, Placed
  <2>2. InHand(b)'
    BY <1>0, <1>1, <1>10, <1>12, <1>13 DEF BlockInv, InHand, Ending
  <2>3. Apart(b)'
    BY <1>0, <1>1, <1>3, <1>11 DEF BlockInv, Apart
  <2> QED
    BY <2>1, <2>2, <2>3 DEF BlockInv
<1>15. ASSUME NEW u \in Thread PROVE ThreadInv(u)'
  <2>1. CASE u = t
    BY <1>0, <1>3, <2>1 DEF ThreadInv, Frees
  <2>2. CASE u # t
    BY <1>0, <1>3, <1>9, <1>11, <1>13, <2>2 DEF ThreadInv
  <2> QED
    BY <2>1, <2>2
<1>16. Outs' = Outs
  BY <1>1, <1>13 DEF Outs
<1>17. At({"destroy"})' = At({"destroy"}) /\ Dropping' = Dropping /\ Dropping # {}
  BY <1>1, <1>3 DEF At, Dropping
<1>18. pool_alive
  BY <1>0, <1>17, PoolNeeded
<1>19. PoolInv'
  BY <1>0, <1>1, <1>8, <1>16, <1>17, <1>18 DEF PoolInv, PoolCounted
<1> QED
  BY <1>9, <1>14, <1>15, <1>19 DEF IInv

\* A thread drops its count; the last one destroys the pool.
LEMMA PoolDrop ==
  ASSUME TypeOK, PoolInv, NEW t \in Dropping, pool_refcount' = pool_refcount - 1,
         Outs' = Outs, Dropping' = Dropping \ {t},
         UNCHANGED <<ppool, pool_alive, pool>>,
         \A u \in Thread : u # t => pc'[u] = pc[u],
         pc'[t].at = "destroy" <=> pool_refcount = 1
  PROVE  PoolInv'
<1>1. t \in Thread
  BY DEF Dropping, At
<1>2. IsFiniteSet(Dropping) /\ IsFiniteSet(Outs)
  BY FiniteAssumption, FS_Subset DEF Outs, Dropping, At
<1>3. /\ Cardinality(Dropping') = Cardinality(Dropping) - 1
      /\ Cardinality(Dropping) \in Nat /\ Cardinality(Outs) \in Nat
  BY <1>2, Counting
<1>4. PoolCounted'
  BY <1>3 DEF PoolInv, PoolCounted
<1>5. pool_refcount > 0 /\ pool_refcount \in Int /\ pool_alive /\ At({"destroy"}) = {}
  BY PoolNeeded DEF TypeOK
<1>6. At({"destroy"})' = IF pool_refcount = 1 THEN {t} ELSE {}
  BY <1>1, <1>5 DEF At
<1> QED
  BY <1>4, <1>5, <1>6 DEF PoolInv

\* Drop and UninitDrop.
LEMMA DropStep ==
  ASSUME IInv, TypeOK', NEW t \in Thread, Drop(t) \/ UninitDrop(t)
  PROVE  IInv'
<1>0. /\ TypeOK /\ (\A c \in Block : BlockInv(c)) /\ (\A u \in Thread : ThreadInv(u)) /\ PoolInv
  BY DEF IInv
<1>1. /\ ppool' = ppool /\ pool_alive' = pool_alive /\ pool' = pool /\ Listed' = Listed
      /\ pool_refcount' = pool_refcount - 1 /\ data' = data
      /\ refs' = refs /\ refcount' = refcount /\ apart' = apart /\ no_free' = no_free
      /\ pc[t].at \in {"drop", "uninit"}
  BY DEF Drop, UninitDrop, blocks, Listed
<1>2. /\ pc'[t].at \in {"destroy", "avbuffer", "idle"}
      /\ pc'[t].at = "destroy" <=> pool_refcount = 1
      /\ pc'[t].at = "avbuffer" => pc'[t].block \in Block
      /\ pc'[t].free_avbuffer => pc'[t].at # "idle" /\ pc'[t].block \in Block
      /\ \A u \in Thread : u # t => pc'[u] = pc[u]
      /\ \A u \in Thread, c \in Block : Freeing(u, c)' <=> Freeing(u, c)
  <2>1. CASE Drop(t)
    <3>1. PICK at : at = IF pool_refcount = 1 THEN "destroy" ELSE "avbuffer"
      OBVIOUS
    <3>2. Goto(t, Onto(t, at)) /\ pc[t].at = "drop"
      BY <2>1, <3>1 DEF Drop
    <3>3. /\ pc'[t].at = at /\ pc'[t].block = pc[t].block
          /\ \A u \in Thread : u # t => pc'[u] = pc[u]
          /\ \A u \in Thread, c \in Block : Freeing(u, c)' <=> Freeing(u, c)
      BY <1>0, <3>2, GoesOn
    <3>4. pc[t].block \in Block
      BY <1>0, <3>2 DEF ThreadInv
    <3> QED
      BY <3>1, <3>3, <3>4
  <2>2. CASE UninitDrop(t)
    <3>1. PICK place : place = IF pool_refcount = 1 THEN Place("destroy", NoBlock, FALSE) ELSE Idle
      OBVIOUS
    <3>2. Goto(t, place) /\ pc[t].at = "uninit"
      BY <2>2, <3>1 DEF UninitDrop
    <3>3. pc'[t] = place /\ \A u \in Thread : u # t => pc'[u] = pc[u]
      BY <1>0, <3>2, Going
    <3>4. place.at = (IF pool_refcount = 1 THEN "destroy" ELSE "idle")
          /\ place.free_avbuffer = FALSE
      BY <3>1 DEF Idle, Place
    <3>5. \A c \in Block : ~Freeing(t, c) /\ ~Freeing(t, c)'
      BY <1>0, <3>2, <3>3, <3>4, OutsideFrees DEF Freeing, Outside
    <3>6. \A u \in Thread, c \in Block : Freeing(u, c)' <=> Freeing(u, c)
      BY <3>3, <3>5 DEF Freeing
    <3> QED
      BY <3>3, <3>4, <3>6
  <2> QED
    BY <2>1, <2>2
<1>3. \A u \in Thread, c \in Block, at \in {"count", "free", "release"} :
        In(u, at, c)' <=> In(u, at, c)
  BY <1>1, <1>2 DEF In
<1>4. ASSUME NEW c \in Block
      PROVE  BlockInv(c)' /\ References(c)' = References(c) /\ Refs(c)' = Refs(c)
  BY <1>0, <1>1, <1>2, <1>3, BlockFrame
<1>5. \A u \in Thread, c \in Block : Holds(u, c)' <=> Holds(u, c)
  BY <1>1 DEF Holds
<1>6. ASSUME NEW u \in Thread PROVE ThreadInv(u)'
  <2>1. CASE u = t
    BY <1>2, <2>1 DEF ThreadInv, Frees
  <2>2. CASE u # t
    BY <1>0, <1>2, <1>4, <1>5, <2>2 DEF ThreadInv
  <2> QED
    BY <2>1, <2>2
<1>7. Outs' = Outs
  BY <1>1, <1>5 DEF Outs
<1>8. t \in Dropping /\ Dropping' = Dropping \ {t}
  BY <1>1, <1>2 DEF At, Dropping
<1>9. PoolInv'
  BY <1>0, <1>1, <1>2, <1>7, <1>8, PoolDrop
<1> QED
  BY <1>4, <1>6, <1>9 DEF IInv

\* buffer_pool_flush frees what nobody refers to.
LEMMA Flushes ==
  ASSUME TypeOK, \A b \in Block : BlockInv(b), PoolInv, Flush,
         refcount' = refcount, refs' = refs, apart' = apart, no_free' = no_free,
         ppool => ppool' \/ At({"count"}) = {},
         \A u \in Thread, c \in Block, at \in {"count", "free", "release"} :
           In(u, at, c)' <=> In(u, at, c),
         \A u \in Thread, c \in Block : Freeing(u, c)' <=> Freeing(u, c)
  PROVE  /\ pool' = <<>> /\ Outs' = Outs
         /\ \A b \in Block : /\ BlockInv(b)' /\ Refs(b)' = Refs(b)
                             /\ \A u \in Thread : Holds(u, b)' <=> Holds(u, b)
<1>1. \A b \in Block : data'[b] = IF b \in Listed THEN "none" ELSE data[b]
  BY DEF TypeOK, Flush, FreeData
<1>2. pool' = <<>> /\ Listed' = {}
  BY DEF Flush, Listed
<1>3. \A b \in Block : References(b)' = References(b) /\ Refs(b)' = Refs(b)
  BY RefsSame
<1>4. \A u \in Thread, b \in Block : Holds(u, b)' <=> Holds(u, b)
  BY DEF Holds
<1>5. \A b \in Listed \cap Block : References(b) = {}
  BY DEF BlockInv, Sound
<1>6. ASSUME NEW b \in Block PROVE BlockInv(b)'
  <2>1. CASE b \notin Listed
    BY <1>1, <1>2, <2>1, BlockFrame
  <2>2. CASE b \in Listed
    <3>1. \A u \in Thread : ~In(u, "free", b) /\ ~In(u, "release", b) /\ ~Holds(u, b)
      BY <1>5, <2>2, Referred DEF BlockInv, InHand
    <3>2. \A u \in Thread : ~In(u, "count", b)
      BY <1>5, <2>2, Referred
    <3>3. Sound(b)' /\ Placed(b)'
      BY <1>1, <1>2, <1>3, <1>5, <2>2 DEF Sound, Placed
    <3>4. InHand(b)'
      BY <3>1, <3>2 DEF InHand, Ending
    <3>5. Apart(b)'
      BY <1>3 DEF BlockInv, Apart
    <3> QED
      BY <3>3, <3>4, <3>5 DEF BlockInv
  <2> QED
    BY <2>1, <2>2
<1>7. Outs' = Outs
  <2>1. \A b \in Listed \cap Block, u \in Thread : ~Holds(u, b)
    BY <1>5, Referred
  <2> QED
    BY <1>1, <1>4, <2>1 DEF Outs
<1> QED
  BY <1>2, <1>3, <1>4, <1>6, <1>7

\* buffer_pool_free.
LEMMA DestroyStep ==
  ASSUME IInv, TypeOK', NEW t \in Thread, Destroy(t)
  PROVE  IInv'
<1>0. /\ TypeOK /\ (\A c \in Block : BlockInv(c)) /\ (\A u \in Thread : ThreadInv(u)) /\ PoolInv
  BY DEF IInv
<1>1. /\ ppool' = ppool /\ pool_alive' = FALSE /\ pool_refcount' = pool_refcount
      /\ refs' = refs /\ refcount' = refcount /\ apart' = apart /\ no_free' = no_free
      /\ pc[t].at = "destroy" /\ Flush
  BY DEF Destroy
<1>2. /\ pc'[t].at \in {"avbuffer", "idle"}
      /\ pc'[t].at = "avbuffer" => pc'[t].block \in Block
      /\ pc'[t].free_avbuffer => pc'[t].at = "avbuffer"
      /\ \A u \in Thread : u # t => pc'[u] = pc[u]
      /\ \A u \in Thread, c \in Block : Freeing(u, c)' <=> Freeing(u, c)
  <2>1. CASE pc[t].block # NoBlock
    <3>1. Goto(t, Onto(t, "avbuffer")) /\ pc[t].block \in Block
      BY <1>0, <2>1 DEF Destroy, TypeOK
    <3> QED
      BY <1>0, <3>1, GoesOn
  <2>2. CASE pc[t].block = NoBlock
    <3>1. Goto(t, Idle)
      BY <2>2 DEF Destroy
    <3>2. pc'[t] = Idle /\ \A u \in Thread : u # t => pc'[u] = pc[u]
      BY <1>0, <3>1, Going
    <3>3. Idle.at = "idle" /\ Idle.free_avbuffer = FALSE
      BY DEF Idle, Place
    <3>4. \A c \in Block : ~Freeing(t, c) /\ ~Freeing(t, c)'
      BY <2>2, <3>2, <3>3, NoBlockAssumption DEF Freeing
    <3>5. \A u \in Thread, c \in Block : Freeing(u, c)' <=> Freeing(u, c)
      BY <3>2, <3>4 DEF Freeing
    <3> QED
      BY <3>2, <3>3, <3>5
  <2> QED
    BY <2>1, <2>2
<1>3. \A u \in Thread, c \in Block, at \in {"count", "free", "release"} :
        In(u, at, c)' <=> In(u, at, c)
  BY <1>1, <1>2 DEF In
<1>4. /\ pool' = <<>> /\ Outs' = Outs
      /\ \A b \in Block : /\ BlockInv(b)' /\ Refs(b)' = Refs(b)
                          /\ \A u \in Thread : Holds(u, b)' <=> Holds(u, b)
  BY <1>0, <1>1, <1>2, <1>3, Flushes
<1>5. ASSUME NEW u \in Thread PROVE ThreadInv(u)'
  <2>1. CASE u = t
    BY <1>2, <2>1, <1>1 DEF ThreadInv, Frees, TypeOK
  <2>2. CASE u # t
    BY <1>0, <1>2, <1>4, <2>2 DEF ThreadInv
  <2> QED
    BY <2>1, <2>2
<1>6. Dropping' = Dropping
  BY <1>1, <1>2 DEF At, Dropping
<1>7. At({"destroy"})' = {}
  BY <1>0, <1>1, <1>2 DEF At, PoolInv
<1>8. t \in At({"destroy"})
  BY <1>1 DEF At
<1>9. PoolInv'
  BY <1>0, <1>1, <1>4, <1>6, <1>7, <1>8 DEF PoolInv, PoolCounted
<1> QED
  BY <1>4, <1>5, <1>9 DEF IInv

\* av_buffer_pool_uninit, under the mutex.
LEMMA UninitStep ==
  ASSUME IInv, TypeOK', NEW t \in Thread, Uninit(t)
  PROVE  IInv'
<1>0. /\ TypeOK /\ (\A c \in Block : BlockInv(c)) /\ (\A u \in Thread : ThreadInv(u)) /\ PoolInv
  BY DEF IInv
<1>1. /\ ppool /\ ppool' = FALSE /\ pool_alive' = pool_alive /\ pool_refcount' = pool_refcount
      /\ refs' = refs /\ refcount' = refcount /\ apart' = apart /\ no_free' = no_free
      /\ pc[t] = Idle /\ Flush /\ At({"count"}) = {}
  BY DEF Uninit, At
<1>2. PICK place : place = Place("uninit", NoBlock, FALSE)
  OBVIOUS
<1>3. place.at = "uninit" /\ place.free_avbuffer = FALSE /\ Goto(t, place)
  BY <1>2 DEF Place, Uninit
<1>4. pc'[t] = place /\ \A u \in Thread : u # t => pc'[u] = pc[u]
  BY <1>0, <1>3, Going
<1>5. pc[t].at = "idle"
  BY <1>1 DEF Idle, Place
<1>6. \A u \in Thread, c \in Block, at \in {"count", "free", "release"} :
        In(u, at, c)' <=> In(u, at, c)
  BY <1>3, <1>4, <1>5 DEF In
<1>7. \A u \in Thread, c \in Block : Freeing(u, c)' <=> Freeing(u, c)
  <2>1. \A c \in Block : ~Freeing(t, c) /\ ~Freeing(t, c)'
    BY <1>0, <1>3, <1>4, <1>5, OutsideFrees DEF Freeing, Outside
  <2> QED
    BY <1>4, <2>1 DEF Freeing
<1>8. /\ pool' = <<>> /\ Outs' = Outs
      /\ \A b \in Block : /\ BlockInv(b)' /\ Refs(b)' = Refs(b)
                          /\ \A u \in Thread : Holds(u, b)' <=> Holds(u, b)
  BY <1>0, <1>1, <1>6, <1>7, Flushes
<1>9. ASSUME NEW u \in Thread PROVE ThreadInv(u)'
  <2>1. CASE u = t
    BY <1>3, <1>4, <2>1 DEF ThreadInv
  <2>2. CASE u # t
    BY <1>0, <1>4, <1>8, <2>2 DEF ThreadInv
  <2> QED
    BY <2>1, <2>2
<1>10. pool_refcount > 0 /\ pool_alive /\ At({"destroy"}) = {}
  BY <1>0, <1>1, PoolNeeded
<1>11. At({"destroy"})' = {}
  BY <1>3, <1>4, <1>10 DEF At
<1>12. t \notin Dropping /\ Dropping' = Dropping \cup {t}
  BY <1>3, <1>4, <1>5 DEF Dropping, At
<1>13. PoolCounted'
  <2>1. IsFiniteSet(Outs) /\ IsFiniteSet(Dropping)
    BY FiniteAssumption, FS_Subset DEF Outs, Dropping, At
  <2>2. /\ Cardinality(Dropping') = Cardinality(Dropping) + 1
        /\ Cardinality(Dropping) \in Nat /\ Cardinality(Outs) \in Nat
    BY <1>12, <2>1, Counting
  <2> QED
    BY <1>0, <1>1, <1>8, <2>2 DEF PoolInv, PoolCounted
<1>14. PoolInv'
  BY <1>0, <1>1, <1>8, <1>10, <1>11, <1>13 DEF PoolInv
<1> QED
  BY <1>8, <1>9, <1>14 DEF IInv

\* A block that t is about to be given has one reference.
LEMMA RefsGot ==
  ASSUME TypeOK, NEW b \in Block, NEW t \in Thread, References(b) = {},
         \A u \in Thread : refs'[u][b] = refs[u][b],
         \A u \in Thread : In(u, "count", b)' <=> u = t
  PROVE  Refs(b)' = 1 /\ References(b)' # {}
<1>1. AtWith({"count"}, b)' = {t}
  BY DEF AtWith, At, In
<1>2. \A u \in Thread : refs'[u][b] = 0
  <2>1. \A u \in Thread : ~Holds(u, b) /\ refs[u][b] \in 0 .. MaxRefs
    BY ZenonT(40), Referred DEF TypeOK
  <2> QED
    BY <2>1, MaxRefsAssumption DEF Holds
<1>3. ASSUME NEW x \in Thread \X (0 .. MaxRefs)
      PROVE  x \in References(b)' <=> x = <<t, 0>>
  <2>1. x[1] \in Thread /\ x[2] \in 0 .. MaxRefs /\ x = <<x[1], x[2]>>
    OBVIOUS
  <2>2. x \in References(b)' <=> IF x[2] = 0 THEN x[1] \in {t} ELSE x[2] <= refs'[x[1]][b]
    BY <1>1 DEF References
  <2> QED
    BY <1>2, <2>1, <2>2, MaxRefsAssumption
<1>4. <<t, 0>> \in Thread \X (0 .. MaxRefs)
  BY MaxRefsAssumption
<1>5. References(b)' = {<<t, 0>>}
  BY <1>3, <1>4 DEF References
<1> QED
  BY <1>5, FS_Singleton DEF Refs

\* The pool hands out a block that nobody had.
LEMMA GotBlock ==
  ASSUME TypeOK, NEW b \in Block, NEW t \in Thread, BlockInv(b), References(b) = {},
         \A u \in Thread : ~Ending(u, b),
         data'[b] = "pool", b \notin Listed', refcount'[b] = 1, ppool',
         \A u \in Thread : refs'[u][b] = refs[u][b],
         \A u \in Thread : In(u, "count", b)' <=> u = t,
         \A u \in Thread : ~In(u, "free", b)' /\ ~In(u, "release", b)',
         \A u \in Thread : Freeing(u, b)' <=> Freeing(u, b),
         \/ b \in no_free' /\ (b \in apart' <=> b \in apart)
         \/ b \notin no_free' /\ b \in apart' /\ b \notin apart
  PROVE  BlockInv(b)' /\ Refs(b)' = 1
<1>1. Refs(b)' = 1 /\ References(b)' # {}
  BY RefsGot
<1>2. \A u \in Thread : ~Holds(u, b)'
  BY Referred DEF Holds
<1>3. Sound(b)' /\ Placed(b)'
  BY <1>1 DEF Sound, Placed, Ending
<1>4. InHand(b)'
  BY <1>2 DEF InHand, Ending
<1>5. Apart(b)'
  BY <1>1 DEF BlockInv, Apart
<1> QED
  BY <1>1, <1>3, <1>4, <1>5 DEF BlockInv

\* av_buffer_pool_get, under the mutex.
LEMMA GetStep ==
  ASSUME IInv, TypeOK', NEW t \in Thread, Get(t)
  PROVE  IInv'
<1>0. /\ TypeOK /\ (\A c \in Block : BlockInv(c)) /\ (\A u \in Thread : ThreadInv(u)) /\ PoolInv
  BY DEF IInv
<1>1. /\ ppool /\ ppool' = ppool /\ pool_alive' = pool_alive /\ pool_refcount' = pool_refcount
      /\ refs' = refs /\ pc[t] = Idle
  BY DEF Get
<1>2. pc[t].at = "idle" /\ \A c \in Block : ~Freeing(t, c)
  BY <1>0, <1>1, OutsideFrees DEF Idle, Place, Outside
<1>3. pool_alive
  BY <1>0, <1>1, PoolNeeded
\* The block: which one it is, and that nobody has it.
<1> DEFINE Chosen(b) ==
        /\ Goto(t, Place("count", b, FALSE))
        /\ References(b) = {} /\ \A u \in Thread : ~Ending(u, b)
        /\ data'[b] = "pool" /\ b \notin Listed' /\ refcount'[b] = 1
        /\ \/ b \in no_free' /\ (b \in apart' <=> b \in apart)
           \/ b \notin no_free' /\ b \in apart' /\ b \notin apart
        /\ \A c \in Block : c # b => /\ data'[c] = data[c] /\ refcount'[c] = refcount[c]
                                     /\ c \in apart' <=> c \in apart
                                     /\ c \in no_free' <=> c \in no_free
                                     /\ c \in Listed' <=> c \in Listed
        /\ \A i, j \in 1 .. Len(pool') : pool'[i] = pool'[j] => i = j
<1>4. \E b \in Block : Chosen(b)
  <2>1. CASE pool # <<>>
    <3>1. PICK b : b = Head(pool)
      OBVIOUS
    <3>2. /\ pool' = Tail(pool) /\ no_free' = no_free \cup {b} /\ data' = data /\ apart' = apart
          /\ refcount' = [refcount EXCEPT ![b] = 1] /\ Goto(t, Place("count", b, FALSE))
      BY <2>1, <3>1 DEF Get
    <3>3. /\ pool \in Seq(Block) /\ Len(pool) \in Nat /\ Len(pool) > 0 /\ b = pool[1]
          /\ Len(pool') = Len(pool) - 1
          /\ \A i \in 1 .. Len(pool') : pool'[i] = pool[i + 1] /\ i + 1 \in 2 .. Len(pool)
          /\ \A i \in 2 .. Len(pool) : pool[i] = pool'[i - 1] /\ i - 1 \in 1 .. Len(pool')
      <4>1. pool \in Seq(Block)
        BY <1>0 DEF TypeOK
      <4> QED
        BY <2>1, <3>1, <3>2, <4>1
    <3>4. \A i, j \in 1 .. Len(pool) : pool[i] = pool[j] => i = j
      BY <1>0 DEF PoolInv
    <3>5. b \in Block /\ b \in Listed
      <4>1. 1 \in 1 .. Len(pool)
        BY <3>3
      <4> QED
        BY <1>0, <3>3, <4>1 DEF Listed, TypeOK
    <3>6. Listed' = Listed \ {b}
      <4>1. ASSUME NEW i \in 1 .. Len(pool') PROVE pool'[i] \in Listed \ {b}
        <5>1. i + 1 \in 1 .. Len(pool) /\ 1 \in 1 .. Len(pool) /\ i + 1 # 1
          BY <3>3
        <5> QED
          BY <3>3, <3>4, <5>1 DEF Listed
      <4>2. ASSUME NEW i \in 1 .. Len(pool), pool[i] # b PROVE pool[i] \in Listed'
        <5>1. i \in 2 .. Len(pool)
          BY <3>3, <4>2
        <5> QED
          BY <3>3, <5>1 DEF Listed
      <4> QED
        BY <4>1, <4>2 DEF Listed
    <3>7. \A i, j \in 1 .. Len(pool') : pool'[i] = pool'[j] => i = j
      <4> SUFFICES ASSUME NEW i \in 1 .. Len(pool'), NEW j \in 1 .. Len(pool'),
                          pool'[i] = pool'[j]
                   PROVE  i = j
        OBVIOUS
      <4>1. i + 1 \in 1 .. Len(pool) /\ j + 1 \in 1 .. Len(pool) /\ pool[i + 1] = pool[j + 1]
        BY <3>3
      <4>2. i + 1 = j + 1
        BY <3>4, <4>1
      <4> QED
        BY <3>3, <4>2
    <3>8. References(b) = {} /\ data[b] = "pool" /\ \A u \in Thread : ~Ending(u, b)
      BY <1>0, <3>5 DEF BlockInv, Sound, Placed, InHand, Ending
    <3>9. refcount'[b] = 1 /\ \A c \in Block : c # b => refcount'[c] = refcount[c]
      BY <1>0, <3>2, <3>5 DEF TypeOK
    <3>10. Chosen(b)
      BY <3>2, <3>5, <3>6, <3>7, <3>8, <3>9
    <3> QED
      BY <3>5, <3>10
  <2>2. CASE pool = <<>>
    <3>1. PICK b \in Block : /\ Allocate(b, "pool") /\ refcount' = [refcount EXCEPT ![b] = 1]
                             /\ Goto(t, Place("count", b, FALSE))
      BY <2>2 DEF Get
    <3>2. pool' = pool /\ Listed' = Listed
      BY <2>2 DEF Get, Listed
    <3>3. /\ data[b] = "none" /\ b \notin apart /\ data'[b] = "pool" /\ b \in apart'
          /\ b \notin no_free' /\ refcount'[b] = 1
          /\ \A c \in Block : c # b => /\ data'[c] = data[c] /\ refcount'[c] = refcount[c]
                                       /\ c \in apart' <=> c \in apart
                                       /\ c \in no_free' <=> c \in no_free
      BY <1>0, <3>1 DEF TypeOK, Allocate
    <3>4. References(b) = {} /\ b \notin Listed /\ \A u \in Thread : ~Ending(u, b)
      BY <1>0, <3>3 DEF BlockInv, Sound, Placed, InHand, Ending
    <3>5. \A i, j \in 1 .. Len(pool') : pool'[i] = pool'[j] => i = j
      BY <1>0, <3>2 DEF PoolInv
    <3>6. Chosen(b)
      BY <3>1, <3>2, <3>3, <3>4, <3>5
    <3> QED
      BY <3>6
  <2> QED
    BY <2>1, <2>2
<1>5. PICK b \in Block : Chosen(b)
  BY <1>4
<1>6. /\ pc'[t].at = "count" /\ pc'[t].block = b /\ pc'[t].free_avbuffer = FALSE
      /\ \A u \in Thread : u # t => pc'[u] = pc[u]
  BY <1>0, <1>5, Going DEF Place
<1>7. \A u \in Thread : ~Holds(u, b) /\ ~In(u, "count", b)
  BY <1>0, <1>5, Referred
<1>8. \A u \in Thread, c \in Block : Freeing(u, c)' <=> Freeing(u, c)
  <2>1. \A c \in Block : ~Freeing(t, c)'
    BY <1>6 DEF Freeing
  <2> QED
    BY <1>2, <1>6, <2>1 DEF Freeing
<1>9. ASSUME NEW c \in Block, c # b
      PROVE  BlockInv(c)' /\ References(c)' = References(c) /\ Refs(c)' = Refs(c)
  <2>1. \A u \in Thread, at \in {"count", "free", "release"} : In(u, at, c)' <=> In(u, at, c)
    BY <1>2, <1>6, <1>9 DEF In
  <2> QED
    BY <1>0, <1>1, <1>5, <1>8, <1>9, <2>1, BlockFrame
<1>10. BlockInv(b)'
  <2>1. \A u \in Thread : In(u, "count", b)' <=> u = t
    BY <1>6, <1>7 DEF In
  <2>2. \A u \in Thread : ~In(u, "free", b)' /\ ~In(u, "release", b)'
    BY <1>5, <1>6 DEF In, Ending
  <2> QED
    BY <1>0, <1>1, <1>5, <1>8, <2>1, <2>2, GotBlock
<1>11. \A u \in Thread, c \in Block : Holds(u, c)' <=> Holds(u, c)
  BY <1>1 DEF Holds
<1>12. ASSUME NEW u \in Thread PROVE ThreadInv(u)'
  <2>1. CASE u = t
    BY <1>6, <2>1 DEF ThreadInv
  <2>2. CASE u # t
    <3>1. pc[u].at \in {"write", "copy"} => pc[u].block \in Block \ {b}
      BY <1>0, <1>7 DEF ThreadInv
    <3> QED
      BY <1>0, <1>6, <1>9, <1>11, <2>2, <3>1 DEF ThreadInv
  <2> QED
    BY <2>1, <2>2
<1>13. Outs' = Outs
  BY <1>5, <1>7, <1>11 DEF Outs
<1>14. At({"destroy"})' = At({"destroy"}) /\ Dropping' = Dropping
  BY <1>2, <1>6 DEF At, Dropping
<1>15. PoolInv'
  BY <1>0, <1>1, <1>3, <1>5, <1>13, <1>14 DEF PoolInv, PoolCounted
<1> QED
  BY <1>9, <1>10, <1>12, <1>15 DEF IInv

\* av_buffer_pool_get, after the mutex: the reference is given and counted.
LEMMA CountStep ==
  ASSUME IInv, TypeOK', NEW t \in Thread, Count(t)
  PROVE  IInv'
<1>0. /\ TypeOK /\ (\A c \in Block : BlockInv(c)) /\ (\A u \in Thread : ThreadInv(u)) /\ PoolInv
      /\ RefsKnown
  BY Known DEF IInv
<1>1. /\ ppool' = ppool /\ pool_alive' = pool_alive /\ pool_refcount' = pool_refcount + 1
      /\ pool' = pool /\ Listed' = Listed
      /\ data' = data /\ refcount' = refcount /\ apart' = apart /\ no_free' = no_free
      /\ pc[t].at = "count"
  BY DEF Count, blocks, Listed
<1>2. PICK b \in Block : b = pc[t].block
  BY <1>0, <1>1 DEF ThreadInv
<1>3. /\ pc'[t].at = "idle" /\ pc'[t].free_avbuffer = FALSE
      /\ \A u \in Thread : u # t => pc'[u] = pc[u]
  BY <1>0, Going DEF Count, Idle, Place
<1>4. In(t, "count", b) /\ \A c \in Block : ~Freeing(t, c)
  BY <1>0, <1>1, <1>2, OutsideFrees DEF In, Outside
<1>5. /\ data[b] = "pool" /\ ppool /\ \A u \in Thread : ~Holds(u, b)
      /\ \A u \in Thread : In(u, "count", b) => u = t
  BY <1>0, <1>4 DEF BlockInv, InHand
<1>6. \A u \in Thread : refs[u][b] = 0
  <2>1. \A u \in Thread : refs[u][b] \in 0 .. MaxRefs
    BY <1>0 DEF TypeOK
  <2> QED
    BY <1>5, <2>1, MaxRefsAssumption DEF Holds
<1>7. /\ refs'[t][b] = 1 /\ \A u \in Thread : u # t => refs'[u][b] = 0
      /\ \A u \in Thread, c \in Block : c # b => refs'[u][c] = refs[u][c]
  BY <1>0, <1>2, <1>6 DEF TypeOK, Count, Holding
<1>8. \A u \in Thread, c \in Block : Freeing(u, c)' <=> Freeing(u, c)
  <2>1. \A c \in Block : ~Freeing(t, c)'
    BY <1>3 DEF Freeing
  <2> QED
    BY <1>3, <1>4, <2>1 DEF Freeing
<1>9. ASSUME NEW c \in Block, c # b
      PROVE  BlockInv(c)' /\ References(c)' = References(c) /\ Refs(c)' = Refs(c)
  <2>1. \A u \in Thread, at \in {"count", "free", "release"} : In(u, at, c)' <=> In(u, at, c)
    BY <1>1, <1>2, <1>3, <1>9 DEF In
  <2> QED
    BY <1>0, <1>1, <1>5, <1>7, <1>8, <1>9, <2>1, BlockFrame
<1>10. Refs(b)' = Refs(b) /\ References(b)' # {} /\ References(b) # {}
  <2> DEFINE x == <<t, 0>>
             y == <<t, 1>>
  <2>1. AtWith({"count"}, b)' = {} /\ AtWith({"count"}, b) = {t}
    BY <1>3, <1>4, <1>5 DEF AtWith, At, In
  <2>2. x \in References(b) /\ y \notin References(b) /\ y \in Thread \X (0 .. MaxRefs)
    BY <1>6, <2>1, MaxRefsAssumption DEF References
  <2>3. ASSUME NEW z \in Thread \X (0 .. MaxRefs)
        PROVE  z \in References(b)' <=> (z \in References(b) /\ z # x) \/ z = y
    <3>1. z[1] \in Thread /\ z[2] \in 0 .. MaxRefs /\ z = <<z[1], z[2]>>
      OBVIOUS
    <3>2. z \in References(b) <=> IF z[2] = 0 THEN z[1] \in {t} ELSE z[2] <= refs[z[1]][b]
      BY <2>1 DEF References
    <3>3. z \in References(b)' <=> IF z[2] = 0 THEN FALSE ELSE z[2] <= refs'[z[1]][b]
      BY <2>1 DEF References
    <3> QED
      BY <1>6, <1>7, <3>1, <3>2, <3>3, MaxRefsAssumption
  <2>4. References(b)' = (References(b) \ {x}) \cup {y}
    BY <2>2, <2>3 DEF References
  <2> QED
    BY <1>0, <2>2, <2>4, Swapping DEF Refs, RefsKnown
<1>11. \A u \in Thread : ~In(u, "count", b)' /\ (Ending(u, b)' <=> Ending(u, b))
  BY <1>1, <1>3, <1>5 DEF In, Ending
<1>12. BlockInv(b)'
  <2>1. Sound(b)' /\ Placed(b)'
    BY <1>0, <1>1, <1>10, <1>11 DEF BlockInv, Sound, Placed
  <2>2. \A u \in Thread : ~Ending(u, b)'
    BY <1>0, <1>10, <1>11 DEF BlockInv, Sound
  <2>3. InHand(b)'
    BY <1>11, <2>2 DEF InHand, Ending
  <2>4. Apart(b)'
    BY <1>0, <1>1, <1>8, <1>10 DEF BlockInv, Apart
  <2> QED
    BY <2>1, <2>3, <2>4 DEF BlockInv
<1>13. \A u \in Thread, c \in Block : u # t \/ c # b => (Holds(u, c)' <=> Holds(u, c))
  BY <1>6, <1>7 DEF Holds
<1>14. Holds(t, b)'
  BY <1>7 DEF Holds
<1>15. ASSUME NEW u \in Thread PROVE ThreadInv(u)'
  <2>1. CASE u = t
    BY <1>3, <2>1 DEF ThreadInv
  <2>2. CASE u # t
    BY <1>0, <1>3, <1>9, <1>10, <1>13, <2>2 DEF ThreadInv
  <2> QED
    BY <2>1, <2>2
<1>16. b \notin Outs /\ Outs' = Outs \cup {b}
  BY <1>1, <1>5, <1>13, <1>14 DEF Outs
<1>17. At({"destroy"})' = At({"destroy"}) /\ Dropping' = Dropping
  BY <1>1, <1>3 DEF At, Dropping
<1>18. PoolCounted'
  <2>1. IsFiniteSet(Outs) /\ IsFiniteSet(Dropping)
    BY FiniteAssumption, FS_Subset DEF Outs, Dropping, At
  <2>2. /\ Cardinality(Outs') = Cardinality(Outs) + 1
        /\ Cardinality(Dropping) \in Nat /\ Cardinality(Outs) \in Nat
    BY <1>16, <2>1, Counting
  <2> QED
    BY <1>0, <1>1, <1>17, <2>2 DEF PoolInv, PoolCounted
<1>19. pool_refcount > 0 /\ pool_refcount \in Int /\ pool_alive /\ At({"destroy"}) = {}
  BY <1>0, <1>5, PoolNeeded DEF TypeOK
<1>20. PoolInv'
  BY <1>0, <1>1, <1>17, <1>18, <1>19 DEF PoolInv
<1> QED
  BY <1>9, <1>12, <1>15, <1>20 DEF IInv

\* The copy of av_buffer_make_writable.
LEMMA CopyStep ==
  ASSUME IInv, TypeOK', NEW t \in Thread, Copy(t)
  PROVE  IInv'
<1>0. /\ TypeOK /\ (\A c \in Block : BlockInv(c)) /\ (\A u \in Thread : ThreadInv(u)) /\ PoolInv
      /\ RefsKnown /\ RefsKnown'
  BY Known, KnownNext DEF IInv
<1>1. /\ ppool' = ppool /\ pool_alive' = pool_alive /\ pool' = pool
      /\ pool_refcount' = pool_refcount /\ Listed' = Listed /\ pc[t].at = "copy"
  BY DEF Copy, pools, Listed
<1>2. PICK old \in Block : old = pc[t].block /\ Holds(t, old)
  BY <1>0, <1>1 DEF ThreadInv
<1>3. PICK b \in Block :
        /\ Allocate(b, "plain")
        /\ refs' = [refs EXCEPT ![t][old] = @ - 1, ![t][b] = @ + 1]
        /\ refcount' = [refcount EXCEPT ![old] = @ - 1, ![b] = 1]
        /\ Goto(t, IF refcount[old] # 1 THEN Place("write", b, FALSE)
                   ELSE Place(IF data[old] = "pool" THEN "release" ELSE "free",
                              old, old \notin no_free))
  BY <1>2 DEF Copy
<1>4. PICK next : next = IF refcount[old] # 1 THEN Place("write", b, FALSE)
                         ELSE Place(IF data[old] = "pool" THEN "release" ELSE "free",
                                    old, old \notin no_free)
  OBVIOUS
<1>5. /\ refcount[old] # 1 => /\ next.at = "write" /\ next.block = b
                              /\ next.free_avbuffer = FALSE
      /\ refcount[old] = 1 => /\ next.at = IF data[old] = "pool" THEN "release" ELSE "free"
                              /\ next.block = old
                              /\ (next.free_avbuffer <=> old \notin no_free)
  BY <1>4 DEF Place
<1>6. pc'[t] = next /\ \A u \in Thread : u # t => pc'[u] = pc[u]
  BY <1>0, <1>3, <1>4, Going
<1>7. /\ data[b] = "none" /\ b \notin apart /\ data'[b] = "plain" /\ b \in apart'
      /\ b \notin no_free'
      /\ \A c \in Block : c # b => /\ data'[c] = data[c]
                                   /\ c \in apart' <=> c \in apart
                                   /\ c \in no_free' <=> c \in no_free
  BY <1>0, <1>3 DEF TypeOK, Allocate
<1>8. References(b) = {} /\ \A u \in Thread : refs[u][b] = 0 /\ ~In(u, "count", b)
  BY <1>0, <1>7, Fresh
<1>9. b # old
  BY <1>2, <1>8 DEF Holds
<1>10. /\ refcount'[old] = refcount[old] - 1 /\ refcount'[b] = 1
       /\ \A c \in Block : c \notin {old, b} => refcount'[c] = refcount[c]
  BY <1>0, <1>3, <1>9 DEF TypeOK
<1>11. /\ refs'[t][old] = refs[t][old] - 1 /\ refs'[t][b] = refs[t][b] + 1
       /\ \A u \in Thread, c \in Block : u # t \/ c \notin {old, b} => refs'[u][c] = refs[u][c]
  BY <1>0, <1>3, <1>9 DEF TypeOK
<1>12. \A c \in Block : ~Freeing(t, c)
  <2>1. ~pc[t].free_avbuffer
    BY <1>0, <1>1 DEF ThreadInv, Frees
  <2> QED
    BY <2>1 DEF Freeing
<1>13. \A c \in Block : c # old =>
         /\ \A u \in Thread, at \in {"count", "free", "release"} : In(u, at, c)' <=> In(u, at, c)
         /\ \A u \in Thread : Freeing(u, c)' <=> Freeing(u, c)
  <2> SUFFICES ASSUME NEW c \in Block, c # old, NEW u \in Thread
               PROVE  /\ \A at \in {"count", "free", "release"} : In(u, at, c)' <=> In(u, at, c)
                      /\ Freeing(u, c)' <=> Freeing(u, c)
    OBVIOUS
  <2>1. CASE u # t
    BY <1>6, <2>1 DEF In, Freeing
  <2>2. CASE u = t
    <3>1. \A at \in {"count", "free", "release"} : ~In(t, at, c) /\ ~In(t, at, c)'
      BY <1>1, <1>5, <1>6 DEF In
    <3>2. ~Freeing(t, c)'
      BY <1>5, <1>6 DEF Freeing
    <3> QED
      BY <1>12, <2>2, <3>1, <3>2
  <2> QED
    BY <2>1, <2>2
<1>14. ASSUME NEW c \in Block, c \notin {old, b}
       PROVE  BlockInv(c)' /\ References(c)' = References(c) /\ Refs(c)' = Refs(c)
  BY <1>0, <1>1, <1>7, <1>10, <1>11, <1>13, <1>14, BlockFrame
<1>15. /\ BlockInv(old)' /\ refcount[old] = Refs(old) /\ Refs(old)' = Refs(old) - 1
       /\ References(old)' = {} <=> refcount[old] = 1
  <2>1. /\ refcount[old] # 1 => pc'[t].at \in {"idle", "write"} /\ pc'[t].free_avbuffer = FALSE
        /\ refcount[old] = 1 =>
             /\ pc'[t].at = IF data[old] = "pool" THEN "release" ELSE "free"
             /\ pc'[t].block = old /\ (pc'[t].free_avbuffer <=> old \notin no_free)
    BY <1>5, <1>6
  <2>2. /\ data'[old] = data[old] /\ (old \in apart' <=> old \in apart)
        /\ refcount'[old] = refcount[old] - 1 /\ refs'[t][old] = refs[t][old] - 1
    BY <1>7, <1>9, <1>10, <1>11
  <2>3. \A u \in Thread : u # t => refs'[u][old] = refs[u][old] /\ pc'[u] = pc[u]
    BY <1>6, <1>11
  <2>4. old \in no_free' <=> old \in no_free
    BY <1>7, <1>9
  <2> QED
    BY <1>0, <1>1, <1>2, <2>1, <2>2, <2>3, <2>4, DecrementBlock
<1>16. Refs(b)' = 1 /\ References(b)' # {}
  BY <1>0, <1>8, <1>9, <1>11, <1>13, RefsMore DEF RefsKnown
<1>17. BlockInv(b)'
  <2>1. \A u \in Thread : ~In(u, "free", b) /\ ~In(u, "release", b) /\ ~Freeing(u, b)
    BY <1>0, <1>7 DEF BlockInv, InHand, Apart
  <2>2. b \notin Listed
    BY <1>0, <1>7 DEF BlockInv, Placed
  <2>3. \A u \in Thread : /\ ~In(u, "free", b)' /\ ~In(u, "release", b)' /\ ~Freeing(u, b)'
                          /\ ~In(u, "count", b)'
    BY <1>8, <1>9, <1>13, <2>1
  <2>4. Sound(b)' /\ InHand(b)' /\ Placed(b)' /\ Apart(b)'
    BY <1>1, <1>7, <1>10, <1>16, <2>2, <2>3 DEF Sound, InHand, Placed, Apart, Ending
  <2> QED
    BY <2>4 DEF BlockInv
<1>18. \A u \in Thread, c \in Block :
         u # t \/ c \notin {old, b} => (Holds(u, c)' <=> Holds(u, c))
  BY <1>11 DEF Holds
<1>19. Holds(t, b)' /\ \A u \in Thread : ~Holds(u, b)
  BY <1>8, <1>11 DEF Holds
<1>20. ASSUME NEW u \in Thread PROVE ThreadInv(u)'
  <2>1. CASE u = t
    BY <1>5, <1>6, <1>16, <1>19, <2>1 DEF ThreadInv, Frees
  <2>2. CASE u # t
    <3>1. pc[u].at = "write" => pc[u].block # old
      BY <1>0, <1>2, <2>2, WriterHolds
    <3>2. pc[u].at \in {"write", "copy"} => pc[u].block \in Block \ {b}
      BY <1>0, <1>19 DEF ThreadInv
    <3> QED
      BY <1>0, <1>6, <1>14, <1>18, <2>2, <3>1, <3>2 DEF ThreadInv
  <2> QED
    BY <2>1, <2>2
<1>21. \A u \in Thread : ~In(u, "count", old)'
  <2>1. \A u \in Thread : ~In(u, "count", old)
    BY <1>0, <1>2 DEF BlockInv, InHand
  <2> QED
    BY <1>5, <1>6, <2>1 DEF In
<1>22. (\E u \in Thread : Holds(u, old)') <=> refcount[old] # 1
  BY <1>0, <1>15, <1>21 DEF RefsKnown
<1>23. b \notin Outs /\ b \notin Outs' /\ t \notin Dropping /\ (data[old] = "pool" => old \in Outs)
  BY <1>1, <1>2, <1>7 DEF Outs, Dropping, At
<1>24. At({"destroy"})' = At({"destroy"})
  BY <1>1, <1>5, <1>6 DEF At
<1>25. \A c \in Block : c \notin {old, b} => (c \in Outs' <=> c \in Outs)
  BY <1>7, <1>18 DEF Outs
<1>26. old \in Outs' <=> data[old] = "pool" /\ refcount[old] # 1
  BY <1>7, <1>9, <1>22 DEF Outs
<1>27. Outs \subseteq Block /\ Outs' \subseteq Block
  BY DEF Outs
<1>28. CASE refcount[old] = 1 /\ data[old] = "pool"
  <2>1. old \in Outs /\ Outs' = Outs \ {old}
    BY <1>23, <1>25, <1>26, <1>27, <1>28
  <2>2. Dropping' = Dropping \cup {t}
    BY <1>5, <1>6, <1>28 DEF Dropping, At
  <2>3. PoolInv'
    BY <1>0, <1>1, <1>23, <1>24, <2>1, <2>2, PoolOver
  <2> QED
    BY <1>14, <1>15, <1>17, <1>20, <2>3 DEF IInv
<1>29. CASE ~(refcount[old] = 1 /\ data[old] = "pool")
  <2>1. old \in Outs' <=> old \in Outs
    BY <1>23, <1>26, <1>29 DEF Outs
  <2>2. Outs' = Outs
    BY <1>23, <1>25, <1>27, <2>1
  <2>3. Dropping' = Dropping
    BY <1>1, <1>5, <1>6, <1>29 DEF Dropping, At
  <2>4. PoolInv'
    BY <1>0, <1>1, <1>24, <2>2, <2>3, PoolSame
  <2> QED
    BY <1>14, <1>15, <1>17, <1>20, <2>4 DEF IInv
<1> QED
  BY <1>28, <1>29

-----------------------------------------------------------------------------
LEMMA IInvStep == IInv /\ [Next]_vars => IInv'
<1> SUFFICES ASSUME IInv, [Next]_vars PROVE IInv'
  OBVIOUS
<1>1. TypeOK'
  BY TypeStep
<1>2. ASSUME NEW t \in Thread, Step(t) PROVE IInv'
  <2>1. CASE DefaultFree(t)
    BY <1>1, <2>1, DefaultFreeStep
  <2>2. CASE FreeAVBuffer(t)
    BY <1>1, <2>2, FreeAVBufferStep
  <2>3. CASE Copy(t)
    BY <1>1, <2>3, CopyStep
  <2>4. CASE CopyFails(t) \/ Written(t)
    BY <1>1, <2>4, ReadStep
  <2>5. CASE Count(t)
    BY <1>1, <2>5, CountStep
  <2>6. CASE Release(t)
    BY <1>1, <2>6, ReleaseStep
  <2>7. CASE Drop(t) \/ UninitDrop(t)
    BY <1>1, <2>7, DropStep
  <2>8. CASE Destroy(t)
    BY <1>1, <2>8, DestroyStep
  <2> QED
    BY <1>2, <2>1, <2>2, <2>3, <2>4, <2>5, <2>6, <2>7, <2>8 DEF Step
<1>3. ASSUME NEW t \in Thread, Alloc(t) PROVE IInv'
  BY <1>1, <1>3, AllocStep
<1>4. ASSUME NEW t \in Thread, Get(t) PROVE IInv'
  BY <1>1, <1>4, GetStep
<1>5. ASSUME NEW t \in Thread, Uninit(t) PROVE IInv'
  BY <1>1, <1>5, UninitStep
<1>6. ASSUME NEW t \in Thread, NEW b \in Block, Ref(t, b) PROVE IInv'
  BY <1>1, <1>6, RefStep
<1>7. ASSUME NEW t \in Thread, NEW b \in Block, Unref(t, b) PROVE IInv'
  BY <1>1, <1>7, UnrefStep
<1>8. ASSUME NEW t \in Thread, NEW b \in Block, TestWritable(t, b) PROVE IInv'
  BY <1>1, <1>8, ReadStep
<1>9. ASSUME NEW t \in Thread, NEW u \in Thread, NEW b \in Block, Give(t, u, b) PROVE IInv'
  BY <1>1, <1>9, GiveStep
<1>10. CASE UNCHANGED vars
  <2>1. /\ data' = data /\ apart' = apart /\ no_free' = no_free /\ refcount' = refcount
        /\ refs' = refs /\ ppool' = ppool /\ pool_alive' = pool_alive /\ pool' = pool
        /\ pool_refcount' = pool_refcount /\ pc' = pc /\ Listed' = Listed
    BY <1>10 DEF vars, Listed
  <2>2. /\ \A t \in Thread, b \in Block, at \in {"count", "free", "release"} :
             In(t, at, b)' <=> In(t, at, b)
        /\ \A t \in Thread, b \in Block : Freeing(t, b)' <=> Freeing(t, b)
    BY <2>1 DEF In, Freeing
  <2>3. \A b \in Block : BlockInv(b)' /\ References(b)' = References(b) /\ Refs(b)' = Refs(b)
    BY <2>1, <2>2, BlockFrame DEF IInv
  <2>4. \A t \in Thread : ThreadInv(t)'
    BY <2>1, <2>3 DEF IInv, ThreadInv, Holds
  <2>5. Outs' = Outs /\ Dropping' = Dropping /\ At({"destroy"})' = At({"destroy"})
    BY <2>1 DEF Outs, Dropping, At, Holds
  <2>6. PoolInv'
    BY <2>1, <2>5, PoolSame DEF IInv
  <2> QED
    BY <1>1, <2>3, <2>4, <2>6 DEF IInv
<1> QED
  BY <1>2, <1>3, <1>4, <1>5, <1>6, <1>7, <1>8, <1>9, <1>10 DEF Next

\* Every reachable state is well typed.
THEOREM BufferTypeCorrect == Spec => []TypeOK
<1>1. IInv => TypeOK
  BY DEF IInv
<1> QED
  BY <1>1, IInvInit, IInvStep, PTL DEF Spec

\* For any threads and blocks, the count of a buffer is the number of its
\* references, and a buffer with references is alive and nobody's to free
\* (buffer_replace, av_buffer_ref, av_buffer_pool_get).
THEOREM CountsSoundCorrect == Spec => []CountsSound
<1>1. IInv => CountsSound
  <2> SUFFICES ASSUME IInv, NEW b \in Block, Refs(b) > 0
               PROVE  /\ refcount[b] = Refs(b)
                      /\ data[b] # "none" /\ b \notin Listed
                      /\ AtWith({"free", "release"}, b) = {}
    BY DEF CountsSound
  <2>1. References(b) # {}
    BY RefsFacts DEF IInv
  <2>2. Sound(b)
    BY DEF IInv, BlockInv
  <2> QED
    BY <2>1, <2>2 DEF Sound, AtWith, At, Ending, In
<1> QED
  BY <1>1, IInvInit, IInvStep, PTL DEF Spec

\* For any threads and blocks, a client that writes after av_buffer_is_writable
\* or the copy has the only reference.
THEOREM WriterAloneCorrect == Spec => []WriterAlone
<1>1. IInv => WriterAlone
  BY DEF IInv, ThreadInv, WriterAlone, At
<1> QED
  BY <1>1, IInvInit, IInvStep, PTL DEF Spec

\* For any threads and blocks, the pool's count is what it stands for, the pool
\* lives as long as any of it is there, and one thread destroys it.
THEOREM PoolOutlivesCorrect == Spec => []PoolOutlives
<1>1. IInv => PoolOutlives
  <2> SUFFICES ASSUME IInv PROVE PoolOutlives
    OBVIOUS
  <2>0. TypeOK /\ (\A b \in Block : BlockInv(b)) /\ (\A t \in Thread : ThreadInv(t)) /\ PoolInv
    BY DEF IInv
  <2>1. IsFiniteSet(At({"destroy"}))
    BY FiniteAssumption, FS_Subset DEF At
  <2>2. Cardinality(At({"destroy"})) <= 1
    <3>1. CASE At({"destroy"}) = {}
      BY <3>1, FS_EmptySet
    <3>2. CASE At({"destroy"}) # {}
      <4>1. PICK t \in At({"destroy"}) : At({"destroy"}) = {t}
        BY <2>0, <3>2 DEF PoolInv
      <4>2. Cardinality(At({"destroy"})) = 1
        BY <4>1, FS_Singleton
      <4> QED
        BY <4>2
    <3> QED
      BY <3>1, <3>2
  <2>3. At({"count"}) # {} => ppool
    <3>1. ASSUME NEW t \in At({"count"}) PROVE ppool
      <4>1. t \in Thread /\ pc[t].block \in Block /\ In(t, "count", pc[t].block)
        BY <2>0 DEF At, In, ThreadInv
      <4> QED
        BY <2>0, <4>1 DEF BlockInv, InHand
    <3> QED
      BY <3>1
  <2>4. pool_refcount > 0 => pool_alive
    BY <2>0 DEF PoolInv
  <2>5. At({"count", "destroy"}) = At({"count"}) \cup At({"destroy"})
    BY DEF At
  <2>6. At({"count", "destroy"}) # {} => pool_alive
    BY <2>0, <2>3, <2>5, PoolNeeded DEF PoolInv
  <2> QED
    BY <2>0, <2>2, <2>4, <2>6 DEF PoolOutlives, PoolInv, PoolCounted, Outs, Dropping
<1> QED
  BY <1>1, IInvInit, IInvStep, PTL DEF Spec

\* For any threads and blocks, no data, AVBuffer or pool is lost: each has
\* references, or its place in the list, or a thread that will free it.
THEOREM NothingLostCorrect == Spec => []NothingLost
<1>1. IInv => NothingLost
  <2> SUFFICES ASSUME IInv PROVE NothingLost
    OBVIOUS
  <2>0. TypeOK /\ (\A b \in Block : BlockInv(b)) /\ (\A t \in Thread : ThreadInv(t)) /\ PoolInv
    BY DEF IInv
  <2>1. \A b \in Block : References(b) # {} => Refs(b) > 0
    BY <2>0, RefsFacts
  <2>2. ASSUME NEW b \in Block, data[b] # "none"
        PROVE  \/ Refs(b) > 0
               \/ AtWith({"free", "release"}, b) # {}
               \/ Cardinality({k \in 1 .. Len(pool) : pool[k] = b}) = 1 /\ data[b] = "pool"
    <3>1. CASE b \in Listed
      <4>1. PICK k \in 1 .. Len(pool) : pool[k] = b
        BY <3>1 DEF Listed
      <4>2. {j \in 1 .. Len(pool) : pool[j] = b} = {k}
        BY <2>0, <4>1 DEF PoolInv
      <4>3. Cardinality({j \in 1 .. Len(pool) : pool[j] = b}) = 1
        BY <4>2, FS_Singleton
      <4> QED
        BY <2>0, <3>1, <4>3 DEF BlockInv, Placed
    <3>2. CASE \E t \in Thread : Ending(t, b)
      BY <3>2 DEF Ending, In, AtWith, At
    <3> QED
      BY <2>0, <2>1, <2>2, <3>1, <3>2 DEF BlockInv, Placed
  <2>3. ASSUME NEW b \in apart
        PROVE  \/ Refs(b) > 0 /\ b \notin no_free
               \/ \E t \in AtWith({"free", "release", "drop", "destroy", "avbuffer"}, b) :
                    pc[t].free_avbuffer
    <3>1. b \in Block
      BY <2>0 DEF TypeOK
    <3>2. CASE \E t \in Thread : Freeing(t, b)
      BY <2>0, <3>2 DEF Freeing, ThreadInv, AtWith, At, Frees
    <3> QED
      BY <2>0, <2>1, <3>1, <3>2 DEF BlockInv, Apart
  <2>4. (pool_alive /\ pool_refcount = 0 => At({"destroy"}) # {}) /\ (~pool_alive => pool = <<>>)
    BY <2>0 DEF PoolInv
  <2> QED
    BY <2>2, <2>3, <2>4 DEF NothingLost
<1> QED
  BY <1>1, IInvInit, IInvStep, PTL DEF Spec
=============================================================================
