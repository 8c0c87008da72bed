------------------------ MODULE MessageQueueProofs ------------------------
(***************************************************************************)
(* Theorems about MessageQueue, for any finite set of threads, any         *)
(* messages and any capacity.                                              *)
(*                                                                         *)
(* One signal for each message is enough, because the thread that is       *)
(* signalled is runnable before the caller is gone: as many threads of an  *)
(* end can run as there are messages, or places, to sleep through.  To     *)
(* count these the offsets of the ring buffer must agree with its flag.    *)
(***************************************************************************)
EXTENDS MessageQueue, FiniteSetTheorems, SequenceTheorems, TLAPS

Place == {"idle", "send", "send_wait", "recv", "recv_wait", "gone"}

\* The threads and errors are typed, and the offsets are inside the ring.
TypeOK ==
  /\ pc \in [Thread -> Place]
  /\ err_send \in BOOLEAN /\ err_recv \in BOOLEAN /\ is_empty \in BOOLEAN
  /\ offset_r \in 0 .. Capacity - 1 /\ offset_w \in 0 .. Capacity - 1

\* An empty ring has equal offsets; a full one has too.
RingOK == is_empty => offset_r = offset_w

IInv == TypeOK /\ RingOK /\ NoLostWakeup

-----------------------------------------------------------------------------
\* What the operations of the ring buffer do to its size.
LEMMA Sizes ==
  ASSUME TypeOK, RingOK
  PROVE  /\ CanRead \in 0 .. Capacity /\ CanWrite \in 0 .. Capacity
         /\ CanWrite = Capacity - CanRead
         /\ is_empty <=> CanRead = 0
BY CapacityAssumption DEF TypeOK, RingOK, CanRead, CanWrite

LEMMA WriteSize ==
  ASSUME TypeOK, RingOK, CanWrite > 0, NEW m, FifoWrite(m)
  PROVE  /\ CanRead' = CanRead + 1 /\ CanWrite' = CanWrite - 1
         /\ RingOK' /\ is_empty' \in BOOLEAN
         /\ offset_r' = offset_r /\ offset_w' \in 0 .. Capacity - 1
<1>1. /\ Capacity \in Nat /\ Capacity > 0
      /\ offset_r \in 0 .. Capacity - 1 /\ offset_w \in 0 .. Capacity - 1
      /\ is_empty \in BOOLEAN /\ (is_empty => offset_r = offset_w)
  BY CapacityAssumption DEF TypeOK, RingOK
<1>2. /\ ~is_empty' /\ offset_r' = offset_r
      /\ offset_w' = IF offset_w + 1 >= Capacity THEN 0 ELSE offset_w + 1
  BY DEF FifoWrite
<1>3. offset_w' \in 0 .. Capacity - 1 /\ RingOK' /\ is_empty' \in BOOLEAN
  <2>1. offset_w' \in 0 .. Capacity - 1
    BY <1>1, <1>2
  <2>2. is_empty' = FALSE
    BY DEF FifoWrite
  <2> QED
    BY <2>1, <2>2, Zenon DEF RingOK
<1>4. CanRead' = CanRead + 1
  <2>1. is_empty \/ offset_w # offset_r
    BY <1>1 DEF CanRead, CanWrite
  <2>2. CASE is_empty
    BY <1>1, <1>2, <2>2 DEF CanRead
  <2>3. CASE ~is_empty /\ offset_w < offset_r
    BY <1>1, <1>2, <2>3 DEF CanRead
  <2>4. CASE ~is_empty /\ offset_w > offset_r
    BY <1>1, <1>2, <2>4 DEF CanRead
  <2> QED
    BY <1>1, <2>1, <2>2, <2>3, <2>4
<1>5. CanRead \in Int
  BY <1>1 DEF CanRead
<1> QED
  BY <1>1, <1>2, <1>3, <1>4, <1>5 DEF CanWrite

LEMMA DrainSize ==
  ASSUME TypeOK, RingOK, NEW n \in 0 .. CanRead, Drain(n)
  PROVE  /\ CanRead' = CanRead - n /\ CanWrite' = CanWrite + n
         /\ RingOK' /\ is_empty' \in BOOLEAN
         /\ offset_w' = offset_w /\ offset_r' \in 0 .. Capacity - 1
<1>1. /\ Capacity \in Nat /\ Capacity > 0
      /\ offset_r \in 0 .. Capacity - 1 /\ offset_w \in 0 .. Capacity - 1
      /\ is_empty \in BOOLEAN /\ (is_empty => offset_r = offset_w)
      /\ n \in Nat /\ n <= CanRead /\ CanRead \in 0 .. Capacity
  BY CapacityAssumption, Sizes DEF TypeOK, RingOK
<1>2. /\ offset_w' = offset_w
      /\ offset_r' = IF offset_r >= Capacity - n THEN offset_r - (Capacity - n)
                                                 ELSE offset_r + n
  BY DEF Drain
<1>3. offset_r' \in 0 .. Capacity - 1
  BY <1>1, <1>2
<1>4. /\ n = CanRead => is_empty'
      /\ n # CanRead => (is_empty' <=> is_empty)
      /\ is_empty' \in BOOLEAN
  <2>1. is_empty' = IF CanRead = n THEN TRUE ELSE is_empty
    BY DEF Drain
  <2>2. is_empty \in BOOLEAN
    BY DEF TypeOK
  <2> QED
    BY <2>1, <2>2, Zenon
<1>5. CanRead' = CanRead - n /\ RingOK'
  <2>1. CASE n = CanRead
    <3>1. is_empty' /\ offset_r' = offset_w
      BY <1>1, <1>2, <1>4, <2>1 DEF CanRead
    <3> QED
      BY <1>1, <1>2, <2>1, <3>1 DEF CanRead, RingOK
  <2>2. CASE n < CanRead /\ offset_w > offset_r
    <3>1. CanRead = offset_w - offset_r /\ (is_empty' <=> is_empty)
      BY <1>1, <1>4, <2>2 DEF CanRead
    <3>2. offset_r' = offset_r + n
      BY <1>1, <1>2, <2>2, <3>1
    <3> QED
      BY <1>1, <1>2, <2>2, <3>1, <3>2 DEF CanRead, RingOK
  <2>3. CASE n < CanRead /\ offset_w <= offset_r
    <3>1. CanRead = Capacity - offset_r + offset_w /\ ~is_empty /\ (is_empty' <=> is_empty)
      BY <1>1, <1>4, <2>3 DEF CanRead
    <3>2. CASE offset_r >= Capacity - n
      <4>1. offset_r' = offset_r - (Capacity - n) /\ offset_r' < offset_w
        BY <1>1, <1>2, <2>3, <3>1, <3>2
      <4> QED
        BY <1>1, <1>2, <3>1, <4>1 DEF CanRead, RingOK
    <3>3. CASE offset_r < Capacity - n
      <4>1. offset_r' = offset_r + n /\ offset_r' >= offset_w
        BY <1>1, <1>2, <2>3, <3>1, <3>3
      <4> QED
        BY <1>1, <1>2, <3>1, <4>1 DEF CanRead, RingOK
    <3> QED
      BY <1>1, <3>2, <3>3
  <2> QED
    BY <1>1, <2>1, <2>2, <2>3
<1> QED
  BY <1>1, <1>2, <1>3, <1>4, <1>5 DEF CanWrite

LEMMA SameSize ==
  ASSUME UNCHANGED fifo
  PROVE  CanRead' = CanRead /\ CanWrite' = CanWrite
BY DEF fifo, CanRead, CanWrite

-----------------------------------------------------------------------------
\* Who is where, after one thread moved, and after it signalled another.
LEMMA Moved ==
  ASSUME NEW q \in [Thread -> Place], NEW t \in Thread, NEW b \in Place,
         NEW r, r = [q EXCEPT ![t] = b]
  PROVE  /\ r \in [Thread -> Place]
         /\ \A p \in Place : {u \in Thread : r[u] = p} =
              IF p = b THEN {u \in Thread : q[u] = p} \cup {t}
                       ELSE {u \in Thread : q[u] = p} \ {t}
OBVIOUS

LEMMA SignalledAt ==
  ASSUME TypeOK, NEW t \in Thread, NEW cond \in {"send_wait", "recv_wait"},
         NEW runnable \in {"send", "recv"}, pc[t] # cond, pc[t] # runnable,
         pc' \in Signalled(t, "idle", cond, runnable)
  PROVE  /\ pc' \in [Thread -> Place]
         /\ \A p \in Place \ {"idle", cond, runnable} : At(p)' = At(p) \ {t}
         /\ \/ /\ At(cond) = {} /\ At(cond)' = {}
               /\ At(runnable)' = At(runnable)
            \/ \E u \in At(cond) : /\ At(cond)' = At(cond) \ {u}
                                   /\ At(runnable)' = At(runnable) \cup {u}
<1>1. PICK q \in [Thread -> Place] : q = [pc EXCEPT ![t] = "idle"]
  BY DEF TypeOK, Place
<1>2. /\ {u \in Thread : q[u] = cond} = At(cond)
      /\ {u \in Thread : q[u] = runnable} = At(runnable)
      /\ \A p \in Place \ {"idle"} : {u \in Thread : q[u] = p} = At(p) \ {t}
  BY <1>1 DEF TypeOK, At, Place
<1>3. CASE At(cond) = {}
  <2>1. pc' = q
    BY <1>1, <1>2, <1>3 DEF Signalled
  <2> QED
    BY <1>1, <1>2, <1>3, <2>1 DEF At
<1>4. CASE At(cond) # {}
  <2>1. PICK u \in At(cond) : pc' = [q EXCEPT ![u] = runnable]
    BY <1>1, <1>2, <1>4 DEF Signalled
  <2>2. u \in Thread /\ runnable \in Place /\ q[u] = cond
    BY <1>2, <2>1 DEF At, Place
  <2>3. /\ pc' \in [Thread -> Place]
        /\ \A p \in Place : At(p)' =
             IF p = runnable THEN {v \in Thread : q[v] = p} \cup {u}
                             ELSE {v \in Thread : q[v] = p} \ {u}
    BY <2>1, <2>2 DEF At
  <2>4. At(cond)' = At(cond) \ {u} /\ At(runnable)' = At(runnable) \cup {u}
    BY <1>2, <2>3 DEF Place
  <2>5. \A p \in Place \ {"idle", cond, runnable} : At(p)' = At(p) \ {t}
    BY <1>2, <2>2, <2>3
  <2> QED
    BY <2>1, <2>3, <2>4, <2>5
<1> QED
  BY <1>3, <1>4

LEMMA Counts ==
  /\ \A p : IsFiniteSet(At(p)) /\ Cardinality(At(p)) \in Nat
  /\ \A p, u : u \in At(p) =>
       /\ Cardinality(At(p) \ {u}) = Cardinality(At(p)) - 1
       /\ Cardinality(At(p) \ {u}) \in Nat
  /\ \A p, u : u \notin At(p) => Cardinality(At(p) \cup {u}) = Cardinality(At(p)) + 1
<1>1. \A p : IsFiniteSet(At(p)) /\ Cardinality(At(p)) \in Nat
  BY ThreadAssumption, FS_Subset, FS_CardinalityType DEF At
<1>2. ASSUME NEW p, NEW u, u \in At(p)
      PROVE  /\ Cardinality(At(p) \ {u}) = Cardinality(At(p)) - 1
             /\ Cardinality(At(p) \ {u}) \in Nat
  BY <1>1, <1>2, FS_RemoveElement, FS_CardinalityType
<1>3. ASSUME NEW p, NEW u, u \notin At(p)
      PROVE  Cardinality(At(p) \cup {u}) = Cardinality(At(p)) + 1
  BY <1>1, <1>3, FS_AddElement
<1> QED
  BY <1>1, <1>2, <1>3

-----------------------------------------------------------------------------
\* Steps of one thread that leave the ring and the errors alone.
LEMMA MoveStep ==
  ASSUME IInv, NEW t \in Thread, NEW b \in Place, pc' = [pc EXCEPT ![t] = b],
         UNCHANGED <<fifo, err_send, err_recv>>,
         pc[t] = "send" => CanWrite = 0 \/ err_send,
         pc[t] = "recv" => CanRead = 0 \/ err_recv,
         b = "send_wait" => ~err_send /\ CanWrite = 0,
         b = "recv_wait" => ~err_recv /\ CanRead = 0
  PROVE  IInv'
<1>1. TypeOK /\ RingOK /\ NoLostWakeup
  BY DEF IInv
<1>2. /\ pc' \in [Thread -> Place]
      /\ \A p \in Place : At(p)' = IF p = b THEN At(p) \cup {t} ELSE At(p) \ {t}
  BY <1>1 DEF TypeOK, At
<1>3. TypeOK' /\ RingOK'
  BY <1>1, <1>2 DEF TypeOK, RingOK, fifo
<1>4. CanRead' = CanRead /\ CanWrite' = CanWrite /\ CanRead \in Nat /\ CanWrite \in Nat
  BY <1>1, Sizes, SameSize
<1>5. \A p \in {"send", "recv"} : Cardinality(At(p)') \in Nat
  BY ThreadAssumption, FS_Subset, FS_CardinalityType DEF At
<1>6. ASSUME NEW p \in {"send", "recv"}, pc[t] # p
      PROVE  Cardinality(At(p)) <= Cardinality(At(p)')
  <2>1. At(p) \subseteq At(p)'
    BY <1>1, <1>2, <1>6 DEF At, Place
  <2>2. IsFiniteSet(At(p)')
    BY ThreadAssumption, FS_Subset DEF At
  <2> QED
    BY <2>1, <2>2, FS_Subset
<1>7. At("send_wait")' # {} => ~err_send' /\ CanWrite' <= Cardinality(At("send"))'
  <2>1. SUFFICES ASSUME At("send_wait")' # {}
                 PROVE  ~err_send /\ CanWrite <= Cardinality(At("send")')
    BY <1>4
  <2>2. CASE b = "send_wait"
    BY <1>4, <1>5, <2>2
  <2>3. CASE b # "send_wait"
    <3>1. At("send_wait") # {}
      BY <1>2, <2>1, <2>3 DEF Place
    <3>2. ~err_send /\ CanWrite <= Cardinality(At("send"))
      BY <1>1, <3>1 DEF NoLostWakeup
    <3>3. CASE pc[t] = "send"
      BY <1>4, <1>5, <3>2, <3>3
    <3>4. CASE pc[t] # "send"
      BY <1>4, <1>5, <1>6, <3>2, <3>4, Counts
    <3> QED
      BY <3>3, <3>4
  <2> QED
    BY <2>2, <2>3
<1>8. At("recv_wait")' # {} => ~err_recv' /\ CanRead' <= Cardinality(At("recv"))'
  <2>1. SUFFICES ASSUME At("recv_wait")' # {}
                 PROVE  ~err_recv /\ CanRead <= Cardinality(At("recv")')
    BY <1>4
  <2>2. CASE b = "recv_wait"
    BY <1>4, <1>5, <2>2
  <2>3. CASE b # "recv_wait"
    <3>1. At("recv_wait") # {}
      BY <1>2, <2>1, <2>3 DEF Place
    <3>2. ~err_recv /\ CanRead <= Cardinality(At("recv"))
      BY <1>1, <3>1 DEF NoLostWakeup
    <3>3. CASE pc[t] = "recv"
      BY <1>4, <1>5, <3>2, <3>3
    <3>4. CASE pc[t] # "recv"
      BY <1>4, <1>5, <1>6, <3>2, <3>4, Counts
    <3> QED
      BY <3>3, <3>4
  <2> QED
    BY <2>2, <2>3
<1> QED
  BY <1>3, <1>7, <1>8 DEF IInv, NoLostWakeup

-----------------------------------------------------------------------------
\* A message goes in or out, and the other end is signalled.
LEMMA SentStep ==
  ASSUME IInv, NEW t \in Thread, pc[t] = "send", ~err_send, CanWrite > 0,
         NEW m, FifoWrite(m), pc' \in Signalled(t, "idle", "recv_wait", "recv"),
         UNCHANGED <<err_send, err_recv>>
  PROVE  IInv'
<1>1. TypeOK /\ RingOK /\ NoLostWakeup
  BY DEF IInv
<1>2. /\ CanRead' = CanRead + 1 /\ CanWrite' = CanWrite - 1
      /\ CanRead \in Nat /\ CanWrite \in Nat
  BY <1>1, Sizes, WriteSize
<1>3. /\ pc' \in [Thread -> Place]
      /\ At("send_wait")' = At("send_wait") \ {t} /\ At("send")' = At("send") \ {t}
      /\ \/ At("recv_wait")' = {}
         \/ \E u \in At("recv_wait") : At("recv")' = At("recv") \cup {u}
  BY <1>1, SignalledAt DEF Place
<1>4. TypeOK' /\ RingOK'
  BY <1>1, <1>3, WriteSize DEF TypeOK
<1>5. At("send_wait")' # {} => CanWrite' <= Cardinality(At("send"))'
  <2>1. At("send_wait")' # {} => CanWrite <= Cardinality(At("send"))
    BY <1>1, <1>3 DEF NoLostWakeup
  <2>2. t \in At("send")
    BY DEF At
  <2>3. /\ Cardinality(At("send")') = Cardinality(At("send")) - 1
        /\ Cardinality(At("send")) \in Nat
    BY <1>3, <2>2, Counts
  <2> QED
    BY <1>2, <2>1, <2>3
<1>6. At("recv_wait")' # {} => ~err_recv /\ CanRead' <= Cardinality(At("recv"))'
  <2>1. SUFFICES ASSUME NEW u \in At("recv_wait"), At("recv")' = At("recv") \cup {u}
                 PROVE  ~err_recv /\ CanRead' <= Cardinality(At("recv")')
    BY <1>3
  <2>2. ~err_recv /\ CanRead <= Cardinality(At("recv"))
    BY <1>1 DEF NoLostWakeup
  <2>3. u \notin At("recv")
    BY DEF At
  <2>4. /\ Cardinality(At("recv")') = Cardinality(At("recv")) + 1
        /\ Cardinality(At("recv")) \in Nat
    BY <2>1, <2>3, Counts
  <2> QED
    BY <1>2, <2>2, <2>4
<1> QED
  BY <1>4, <1>5, <1>6 DEF IInv, NoLostWakeup

LEMMA ReceivedStep ==
  ASSUME IInv, NEW t \in Thread, pc[t] = "recv", CanRead > 0, Drain(1),
         pc' \in Signalled(t, "idle", "send_wait", "send"),
         UNCHANGED <<err_send, err_recv>>
  PROVE  IInv'
<1>1. TypeOK /\ RingOK /\ NoLostWakeup
  BY DEF IInv
<1>2. 1 \in 0 .. CanRead /\ CanRead \in Nat /\ CanWrite \in Nat
  BY <1>1, Sizes
<1>3. CanRead' = CanRead - 1 /\ CanWrite' = CanWrite + 1
  BY <1>1, <1>2, DrainSize
<1>4. /\ pc' \in [Thread -> Place]
      /\ At("recv_wait")' = At("recv_wait") \ {t} /\ At("recv")' = At("recv") \ {t}
      /\ \/ At("send_wait")' = {}
         \/ \E u \in At("send_wait") : At("send")' = At("send") \cup {u}
  BY <1>1, SignalledAt DEF Place
<1>5. TypeOK' /\ RingOK'
  BY <1>1, <1>2, <1>4, DrainSize DEF TypeOK
<1>6. At("recv_wait")' # {} => ~err_recv /\ CanRead' <= Cardinality(At("recv"))'
  <2>1. At("recv_wait")' # {} => ~err_recv /\ CanRead <= Cardinality(At("recv"))
    BY <1>1, <1>4 DEF NoLostWakeup
  <2>2. t \in At("recv")
    BY DEF At
  <2>3. /\ Cardinality(At("recv")') = Cardinality(At("recv")) - 1
        /\ Cardinality(At("recv")) \in Nat
    BY <1>4, <2>2, Counts
  <2> QED
    BY <1>2, <1>3, <2>1, <2>3
<1>7. At("send_wait")' # {} => ~err_send /\ CanWrite' <= Cardinality(At("send"))'
  <2>1. SUFFICES ASSUME NEW u \in At("send_wait"), At("send")' = At("send") \cup {u}
                 PROVE  ~err_send /\ CanWrite' <= Cardinality(At("send")')
    BY <1>4
  <2>2. ~err_send /\ CanWrite <= Cardinality(At("send"))
    BY <1>1 DEF NoLostWakeup
  <2>3. u \notin At("send")
    BY DEF At
  <2>4. /\ Cardinality(At("send")') = Cardinality(At("send")) + 1
        /\ Cardinality(At("send")) \in Nat
    BY <2>1, <2>3, Counts
  <2> QED
    BY <1>2, <1>3, <2>2, <2>4
<1> QED
  BY <1>5, <1>6, <1>7 DEF IInv, NoLostWakeup

-----------------------------------------------------------------------------
\* The owner wakes all threads of an end, or none.
LEMMA OwnerStep ==
  ASSUME IInv, SetErrSend \/ SetErrRecv \/ Flush \/ Free
  PROVE  IInv'
<1>1. TypeOK /\ RingOK /\ NoLostWakeup /\ CanRead \in Nat /\ CanWrite \in Nat
  BY Sizes DEF IInv
<1>2. ASSUME NEW cond \in {"send_wait", "recv_wait"}, NEW runnable \in {"send", "recv"},
             pc' = Broadcast(cond, runnable)
      PROVE  /\ pc' \in [Thread -> Place] /\ At(cond)' = {}
             /\ \A p \in Place \ {cond, runnable} : At(p)' = At(p)
  BY <1>1, <1>2 DEF Broadcast, TypeOK, At, Place
<1>3. ASSUME GiveAll
      PROVE  /\ TypeOK => is_empty' \in BOOLEAN /\ offset_r' \in 0 .. Capacity - 1
                          /\ offset_w' \in 0 .. Capacity - 1
             /\ RingOK' /\ CanRead' \in Nat /\ CanRead' <= CanRead
  <2>1. CASE free_func
    <3>1. Drain(CanRead) /\ CanRead \in 0 .. CanRead
      BY <1>1, <1>3, <2>1 DEF GiveAll
    <3> QED
      BY <1>1, <3>1, DrainSize DEF TypeOK
  <2>2. CASE ~free_func
    <3>1. UNCHANGED fifo
      BY <1>3, <2>2 DEF GiveAll
    <3> QED
      BY <1>1, <3>1, SameSize DEF TypeOK, RingOK, fifo
  <2> QED
    BY <2>1, <2>2
<1>4. CASE SetErrSend
  <2>1. UNCHANGED <<fifo, err_recv>> /\ err_send' \in BOOLEAN
    BY <1>4 DEF SetErrSend
  <2>2. /\ pc' \in [Thread -> Place] /\ At("send_wait")' = {}
        /\ At("recv_wait")' = At("recv_wait") /\ At("recv")' = At("recv")
    BY <1>2, <1>4 DEF SetErrSend, Place
  <2>3. TypeOK' /\ RingOK'
    BY <1>1, <2>1, <2>2 DEF TypeOK, RingOK, fifo
  <2> QED
    BY <1>1, <2>1, <2>2, <2>3, SameSize DEF IInv, NoLostWakeup
<1>5. CASE SetErrRecv
  <2>1. UNCHANGED <<fifo, err_send>> /\ err_recv' \in BOOLEAN
    BY <1>5 DEF SetErrRecv
  <2>2. /\ pc' \in [Thread -> Place] /\ At("recv_wait")' = {}
        /\ At("send_wait")' = At("send_wait") /\ At("send")' = At("send")
    BY <1>2, <1>5 DEF SetErrRecv, Place
  <2>3. TypeOK' /\ RingOK'
    BY <1>1, <2>1, <2>2 DEF TypeOK, RingOK, fifo
  <2> QED
    BY <1>1, <2>1, <2>2, <2>3, SameSize DEF IInv, NoLostWakeup
<1>6. CASE Flush
  <2>1. GiveAll /\ UNCHANGED <<err_send, err_recv>>
    BY <1>6 DEF Flush
  <2>2. /\ pc' \in [Thread -> Place] /\ At("send_wait")' = {}
        /\ At("recv_wait")' = At("recv_wait") /\ At("recv")' = At("recv")
    BY <1>2, <1>6 DEF Flush, Place
  <2>3. TypeOK' /\ RingOK'
    BY <1>1, <1>3, <2>1, <2>2 DEF TypeOK
  <2>4. At("recv_wait") # {} => ~err_recv /\ CanRead' <= Cardinality(At("recv"))
    BY <1>1, <1>3, <2>1, Counts DEF NoLostWakeup
  <2> QED
    BY <2>1, <2>2, <2>3, <2>4 DEF IInv, NoLostWakeup
<1>7. CASE Free
  <2>1. GiveAll /\ UNCHANGED <<err_send, err_recv>> /\ pc' = [t \in Thread |-> "gone"]
    BY <1>7 DEF Free
  <2>2. TypeOK' /\ RingOK'
    BY <1>1, <1>3, <2>1 DEF TypeOK, Place
  <2>3. At("send_wait")' = {} /\ At("recv_wait")' = {}
    BY <2>1 DEF At
  <2> QED
    BY <2>2, <2>3 DEF IInv, NoLostWakeup
<1> QED
  BY <1>4, <1>5, <1>6, <1>7

-----------------------------------------------------------------------------
LEMMA IInvInit == Init => IInv
<1> SUFFICES ASSUME Init PROVE IInv
  OBVIOUS
<1>1. TypeOK /\ RingOK
  <2>1. pc \in [Thread -> Place] /\ offset_r = 0 /\ offset_w = 0
    BY DEF Init, Place
  <2>2. err_send = FALSE /\ err_recv = FALSE /\ is_empty = TRUE
    BY DEF Init
  <2>3. 0 \in 0 .. Capacity - 1
    BY CapacityAssumption
  <2> QED
    BY <2>1, <2>2, <2>3, Zenon DEF TypeOK, RingOK
<1>2. At("send_wait") = {} /\ At("recv_wait") = {}
  BY DEF Init, At
<1> QED
  BY <1>1, <1>2 DEF IInv, NoLostWakeup

LEMMA IInvStep == IInv /\ [Next]_vars => IInv'
<1> SUFFICES ASSUME IInv, [Next]_vars PROVE IInv'
  OBVIOUS
<1>0. TypeOK /\ RingOK /\ CanRead \in Nat /\ CanWrite \in Nat
  BY Sizes DEF IInv
<1>1. ASSUME NEW t \in Thread, CallSend(t) \/ CallRecv(t) \/ Spurious(t) PROVE IInv'
  <2>1. /\ UNCHANGED <<fifo, err_send, err_recv>> /\ pc[t] \notin {"send", "recv"}
        /\ \E b \in {"send", "recv"} : pc' = [pc EXCEPT ![t] = b]
    BY <1>1 DEF CallSend, CallRecv, Spurious
  <2> QED
    BY <2>1, MoveStep DEF Place
<1>2. ASSUME NEW t \in Thread, Send(t) PROVE IInv'
  <2>1. pc[t] = "send" /\ UNCHANGED <<err_send, err_recv>>
    BY <1>2 DEF Send
  <2>2. CASE err_send
    <3>1. pc' = [pc EXCEPT ![t] = "idle"] /\ UNCHANGED fifo
      BY <1>2, <2>2 DEF Send, ReturnsOnly
    <3> QED
      BY <2>1, <2>2, <3>1, MoveStep DEF Place
  <2>3. CASE ~err_send /\ CanWrite > 0
    <3>1. PICK m : FifoWrite(m) /\ pc' \in Signalled(t, "idle", "recv_wait", "recv")
      BY <1>2, <2>3 DEF Send
    <3> QED
      BY <2>1, <2>3, <3>1, SentStep
  <2>4. CASE ~err_send /\ ~(CanWrite > 0)
    <3>1. UNCHANGED fifo /\ \E b \in {"idle", "send_wait"} : pc' = [pc EXCEPT ![t] = b]
      BY <1>2, <2>4 DEF Send, ReturnsOnly
    <3>2. CanWrite = 0
      BY <1>0, <2>4
    <3> QED
      BY <2>1, <2>4, <3>1, <3>2, MoveStep DEF Place
  <2> QED
    BY <2>2, <2>3, <2>4
<1>3. ASSUME NEW t \in Thread, Recv(t) PROVE IInv'
  <2>1. pc[t] = "recv" /\ UNCHANGED <<err_send, err_recv>>
    BY <1>3 DEF Recv
  <2>2. CASE CanRead > 0
    <3>1. Drain(1) /\ pc' \in Signalled(t, "idle", "send_wait", "send")
      BY <1>3, <2>2 DEF Recv
    <3> QED
      BY <2>1, <2>2, <3>1, ReceivedStep
  <2>3. CASE CanRead = 0 /\ err_recv
    <3>1. pc' = [pc EXCEPT ![t] = "idle"] /\ UNCHANGED fifo
      BY <1>3, <2>3 DEF Recv, ReturnsOnly
    <3> QED
      BY <2>1, <2>3, <3>1, MoveStep DEF Place
  <2>4. CASE CanRead = 0 /\ ~err_recv
    <3>1. UNCHANGED fifo /\ \E b \in {"idle", "recv_wait"} : pc' = [pc EXCEPT ![t] = b]
      BY <1>3, <2>4 DEF Recv, ReturnsOnly
    <3> QED
      BY <2>1, <2>4, <3>1, MoveStep DEF Place
  <2> QED
    BY <1>0, <1>3, <2>2, <2>3, <2>4 DEF TypeOK, IInv
<1>4. CASE SetErrSend \/ SetErrRecv \/ Flush \/ Free
  BY <1>4, OwnerStep
<1>5. CASE UNCHANGED vars
  BY <1>5 DEF vars, IInv, TypeOK, RingOK, NoLostWakeup, At, CanRead, CanWrite
<1> QED
  BY <1>1, <1>2, <1>3, <1>4, <1>5 DEF Next, Over

\* The queue keeps its threads and its ring buffer in shape.
LEMMA IInvCorrect == Spec => []IInv
BY IInvInit, IInvStep, PTL DEF Spec

\* No thread sleeps through a message, a free place or an error, however many
\* threads use the queue and whatever the owner does to it.
THEOREM NoLostWakeupCorrect == Spec => []NoLostWakeup
<1>1. IInv => NoLostWakeup
  BY DEF IInv
<1> QED
  BY <1>1, IInvCorrect, PTL

-----------------------------------------------------------------------------
(* The queue implements Channel, but for its promises of progress.         *)

Elem == Msg \cup {NoMsg}
SendCall(m, nonblock) == [op |-> "send", msg |-> m, nonblock |-> nonblock]
RecvCall(nonblock) == [op |-> "recv", nonblock |-> nonblock]

\* A thread's place tells which call it is in.
Fits(p, a) ==
  \/ p = "idle" /\ a = <<>>
  \/ p \in {"send", "send_wait"} /\ \E m \in Msg, nb \in BOOLEAN : a = <<SendCall(m, nb)>>
  \/ p \in {"recv", "recv_wait"} /\ \E nb \in BOOLEAN : a = <<RecvCall(nb)>>
  \/ p = "gone" /\ a = Chan!Gone

Args == {<<>>, Chan!Gone} \cup {<<SendCall(m, nb)>> : m \in Msg, nb \in BOOLEAN}
                         \cup {<<RecvCall(nb)>> : nb \in BOOLEAN}

ChanInv == /\ IInv
           /\ buffer \in [0 .. Capacity - 1 -> Elem]
           /\ args \in [Thread -> Args]
           /\ \A t \in Thread : Fits(pc[t], args[t])

\* The slots of a ring: each element has one of its own.
LEMMA Slots ==
  ASSUME TypeOK
  PROVE  /\ \A d \in 0 .. Capacity - 1 : Slot(d) \in 0 .. Capacity - 1
         /\ \A d, e \in 0 .. Capacity - 1 : Slot(d) = Slot(e) => d = e
         /\ Slot(0) = offset_r
BY CapacityAssumption DEF TypeOK, Slot

\* What is in the ring, as a sequence.
LEMMA Contents ==
  ASSUME ChanInv
  PROVE  /\ Peek(CanRead) \in Seq(Elem) /\ Len(Peek(CanRead)) = CanRead
         /\ \A k \in 1 .. CanRead : Peek(CanRead)[k] = buffer[Slot(k - 1)]
         /\ CanRead = 0 <=> Peek(CanRead) = <<>>
<1>1. TypeOK /\ RingOK /\ CanRead \in 0 .. Capacity
  BY Sizes DEF ChanInv, IInv
<1>2. \A k \in 1 .. CanRead : buffer[Slot(k - 1)] \in Elem
  <2>1. ASSUME NEW k \in 1 .. CanRead PROVE buffer[Slot(k - 1)] \in Elem
    <3>1. k - 1 \in 0 .. Capacity - 1
      BY <1>1, CapacityAssumption
    <3>2. Slot(k - 1) \in 0 .. Capacity - 1
      BY <1>1, <3>1, Slots
    <3> QED
      BY <3>2 DEF ChanInv
  <2> QED
    BY <2>1
<1>3. CanRead \in Nat
  BY <1>1, CapacityAssumption
<1> DEFINE n == CanRead
           q == [k \in 1 .. n |-> buffer[Slot(k - 1)]]
<1> HIDE DEF n
<1>4. n \in Nat /\ \A k \in 1 .. n : buffer[Slot(k - 1)] \in Elem
  BY <1>2, <1>3 DEF n
<1>5. q \in Seq(Elem)
  BY <1>4
<1>6. Len(q) = n /\ \A k \in 1 .. n : q[k] = buffer[Slot(k - 1)]
  BY <1>4, <1>5
<1>7. n = 0 <=> q = <<>>
  BY <1>5, <1>6, EmptySeq
<1> QED
  BY <1>5, <1>6, <1>7 DEF n, Peek

\* A write appends.
LEMMA WriteAppends ==
  ASSUME ChanInv, CanWrite > 0, NEW m \in Msg, FifoWrite(m)
  PROVE  /\ Peek(CanRead)' = Append(Peek(CanRead), m)
         /\ buffer' \in [0 .. Capacity - 1 -> Elem]
<1> DEFINE n == CanRead
           q == Peek(CanRead)
           r == [k \in 1 .. n + 1 |-> buffer'[Slot(k - 1)]]
<1>1. /\ TypeOK /\ RingOK /\ n \in Nat /\ n < Capacity /\ Capacity \in Nat
      /\ buffer \in [0 .. Capacity - 1 -> Elem]
  BY Sizes, CapacityAssumption DEF ChanInv, IInv
<1>2. /\ q \in Seq(Elem) /\ Len(q) = n
      /\ \A k \in 1 .. n : q[k] = buffer[Slot(k - 1)]
  BY Contents
<1>3. offset_w = Slot(n)
  BY <1>1 DEF TypeOK, RingOK, CanRead, CanWrite, Slot
<1>4. buffer' = [buffer EXCEPT ![Slot(n)] = m] /\ offset_r' = offset_r
  BY <1>3 DEF FifoWrite
<1>5. CanRead' = n + 1
  BY <1>1, WriteSize
<1>6. Peek(CanRead)' = r
  BY <1>4, <1>5 DEF Peek, Slot
<1> HIDE DEF n, q
<1>7. \A k \in 1 .. n + 1 : buffer'[Slot(k - 1)] = IF k <= n THEN q[k] ELSE m
  <2>1. SUFFICES ASSUME NEW k \in 1 .. n + 1
                 PROVE  buffer'[Slot(k - 1)] = IF k <= n THEN q[k] ELSE m
    OBVIOUS
  <2>2. /\ k - 1 \in 0 .. Capacity - 1 /\ n \in 0 .. Capacity - 1
        /\ k <= n => k \in 1 .. n
        /\ ~(k <= n) => k - 1 = n
    BY <1>1
  <2>3. Slot(k - 1) \in 0 .. Capacity - 1 /\ (Slot(k - 1) = Slot(n) => k - 1 = n)
    BY <1>1, <2>2, Slots
  <2>4. CASE k <= n
    <3>1. k - 1 # n
      BY <1>1, <2>4
    <3>2. Slot(k - 1) # Slot(n)
      BY <2>3, <3>1
    <3>3. buffer'[Slot(k - 1)] = buffer[Slot(k - 1)]
      BY <1>1, <1>4, <2>3, <3>2
    <3> QED
      BY <1>2, <2>2, <2>4, <3>3
  <2>5. CASE ~(k <= n)
    <3>1. buffer'[Slot(n)] = m
      BY <1>1, <1>4, <2>2, <2>3, <2>5
    <3> QED
      BY <2>2, <2>5, <3>1
  <2> QED
    BY <2>4, <2>5
<1>8. /\ Append(q, m) \in Seq(Elem) /\ Len(Append(q, m)) = n + 1
      /\ \A k \in 1 .. n + 1 : Append(q, m)[k] = IF k <= n THEN q[k] ELSE m
  BY <1>1, <1>2, AppendProperties DEF Elem
<1>9. r \in Seq(Elem) /\ Len(r) = n + 1
      /\ \A k \in 1 .. n + 1 : r[k] = Append(q, m)[k]
  <2>1. n + 1 \in Nat /\ \A k \in 1 .. n + 1 : buffer'[Slot(k - 1)] \in Elem
    <3>1. \A k \in 1 .. n : q[k] \in Elem
      BY <1>2, ElementOfSeq
    <3>2. m \in Elem /\ n + 1 \in Nat
      BY <1>1 DEF Elem
    <3>3. ASSUME NEW k \in 1 .. n + 1 PROVE buffer'[Slot(k - 1)] \in Elem
      <4>1. k <= n => k \in 1 .. n
        BY <1>1
      <4>2. buffer'[Slot(k - 1)] = IF k <= n THEN q[k] ELSE m
        BY <1>7
      <4> QED
        BY <3>1, <3>2, <4>1, <4>2
    <3> QED
      BY <3>2, <3>3
  <2>2. r \in Seq(Elem)
    BY <2>1
  <2>3. Len(r) = n + 1
    BY <2>1, <2>2
  <2> QED
    BY <1>7, <1>8, <2>2, <2>3
<1>10. r = Append(q, m)
  BY <1>8, <1>9, SeqEqual
<1>11. buffer' \in [0 .. Capacity - 1 -> Elem]
  BY <1>1, <1>4 DEF Elem
<1> QED
  BY <1>6, <1>10, <1>11 DEF q

\* A read of one element takes the head.
LEMMA DrainsHead ==
  ASSUME ChanInv, CanRead > 0, Drain(1)
  PROVE  /\ Peek(CanRead)' = Tail(Peek(CanRead))
         /\ Peek(1)[1] = Head(Peek(CanRead))
         /\ buffer' \in [0 .. Capacity - 1 -> Elem]
<1> DEFINE n == CanRead
           q == Peek(CanRead)
           r == [k \in 1 .. n - 1 |-> buffer'[Slot(k - 1)']]
<1>1. /\ TypeOK /\ RingOK /\ n \in Nat /\ 1 <= n /\ n <= Capacity /\ Capacity \in Nat
      /\ buffer \in [0 .. Capacity - 1 -> Elem] /\ 1 \in 0 .. n
  BY Sizes, CapacityAssumption DEF ChanInv, IInv
<1>2. /\ q \in Seq(Elem) /\ Len(q) = n
      /\ \A k \in 1 .. n : q[k] = buffer[Slot(k - 1)]
  BY Contents
<1>3. CanRead' = n - 1
  BY <1>1, DrainSize
<1>4. Peek(CanRead)' = r
  BY <1>3 DEF Peek
<1>5. /\ buffer' = Emptied(1)
      /\ offset_r' = IF offset_r >= Capacity - 1 THEN offset_r - (Capacity - 1)
                                                 ELSE offset_r + 1
  BY DEF Drain
<1> HIDE DEF n, q
<1>6. /\ q # <<>> /\ Head(q) = q[1] /\ Tail(q) \in Seq(Elem) /\ Len(Tail(q)) = n - 1
      /\ \A k \in 1 .. n - 1 : Tail(q)[k] = q[k + 1]
  <2>1. q # <<>>
    BY <1>1, <1>2, EmptySeq
  <2> QED
    BY <1>2, <2>1, HeadTailProperties
<1>7. \A k \in 1 .. n - 1 : buffer'[Slot(k - 1)'] = q[k + 1]
  <2>1. SUFFICES ASSUME NEW k \in 1 .. n - 1
                 PROVE  buffer'[Slot(k - 1)'] = q[k + 1]
    OBVIOUS
  <2>2. k \in 0 .. Capacity - 1 /\ k # 0 /\ 0 \in 0 .. Capacity - 1 /\ k + 1 \in 1 .. n
    BY <1>1
  <2>3. Slot(k - 1)' = Slot(k)
    BY <1>1, <1>5, <2>2 DEF Slot, TypeOK
  <2>4. Slot(k) \in 0 .. Capacity - 1 /\ Slot(k) # Slot(0)
    BY <1>1, <2>2, Slots
  <2>5. Emptied(1)[Slot(k)] = buffer[Slot(k)]
    <3>1. ~ \E d \in 0 .. 1 - 1 : Slot(k) = Slot(d)
      BY <2>4
    <3> QED
      BY <2>4, <3>1 DEF Emptied
  <2>6. q[k + 1] = buffer[Slot(k + 1 - 1)] /\ k + 1 - 1 = k
    BY <1>2, <2>2
  <2> QED
    BY <1>5, <2>3, <2>5, <2>6
<1>8. r \in Seq(Elem) /\ Len(r) = n - 1 /\ \A k \in 1 .. n - 1 : r[k] = Tail(q)[k]
  <2>1. n - 1 \in Nat /\ \A k \in 1 .. n - 1 : buffer'[Slot(k - 1)'] \in Elem
    BY <1>1, <1>2, <1>7, ElementOfSeq
  <2>2. r \in Seq(Elem)
    BY <2>1
  <2>3. Len(r) = n - 1
    BY <2>1, <2>2
  <2> QED
    BY <1>6, <1>7, <2>2, <2>3
<1>9. r = Tail(q)
  BY <1>6, <1>8, SeqEqual
<1>10. Peek(1)[1] = Head(q)
  BY <1>1, <1>2, <1>6 DEF Peek
<1>11. buffer' \in [0 .. Capacity - 1 -> Elem]
  BY <1>1, <1>5 DEF Emptied, Elem
<1> QED
  BY <1>4, <1>9, <1>10, <1>11 DEF q

\* A drain of all leaves nothing.
LEMMA DrainsAll ==
  ASSUME ChanInv, Drain(CanRead)
  PROVE  Peek(CanRead)' = <<>> /\ buffer' \in [0 .. Capacity - 1 -> Elem]
<1>1. /\ TypeOK /\ RingOK /\ CanRead \in 0 .. CanRead /\ CanRead \in Nat
      /\ buffer \in [0 .. Capacity - 1 -> Elem]
  BY Sizes, CapacityAssumption DEF ChanInv, IInv
<1>2. CanRead' = 0
  BY <1>1, DrainSize
<1>3. Peek(CanRead)' = [k \in 1 .. 0 |-> buffer'[Slot(k - 1)']]
  BY <1>2 DEF Peek
<1>4. Peek(CanRead)' = <<>>
  <2> DEFINE r == [k \in 1 .. 0 |-> buffer'[Slot(k - 1)']]
  <2>1. \A k \in 1 .. 0 : buffer'[Slot(k - 1)'] \in Elem
    OBVIOUS
  <2>2. r \in Seq(Elem)
    BY <2>1
  <2>3. r = <<>>
    BY <2>2, EmptySeq
  <2> QED
    BY <1>3, <2>3
<1>5. buffer' \in [0 .. Capacity - 1 -> Elem]
  BY <1>1 DEF Drain, Emptied, Elem
<1> QED
  BY <1>4, <1>5

-----------------------------------------------------------------------------
\* Each step keeps ChanInv and is a step of the channel, or a stutter.
LEMMA FitsCases ==
  ASSUME NEW p, NEW a, Fits(p, a)
  PROVE  /\ p \in Place /\ a \in Args
         /\ p = "idle" <=> a = <<>>
         /\ p = "gone" => a = Chan!Gone
         /\ p \in {"send", "send_wait"} =>
              \E m \in Msg, nb \in BOOLEAN : a = <<SendCall(m, nb)>>
         /\ p \in {"recv", "recv_wait"} => \E nb \in BOOLEAN : a = <<RecvCall(nb)>>
         /\ a = Chan!Gone => p = "gone"
<1>1. <<>> # Chan!Gone /\ \A c : <<c>> # <<>>
  BY DEF Chan!Gone
<1>2. ASSUME NEW m, NEW nb PROVE <<SendCall(m, nb)>> # Chan!Gone
  <2>1. SendCall(m, nb).op = "send" /\ [op |-> "gone"].op = "gone"
    BY DEF SendCall
  <2> QED
    BY <2>1 DEF Chan!Gone
<1>3. ASSUME NEW nb PROVE <<RecvCall(nb)>> # Chan!Gone
  <2>1. RecvCall(nb).op = "recv" /\ [op |-> "gone"].op = "gone"
    BY DEF RecvCall
  <2> QED
    BY <2>1 DEF Chan!Gone
<1> QED
  BY <1>1, <1>2, <1>3 DEF Fits, Place, Args, Chan!Gone

\* A thread moved, with the arguments that its new place asks for.
LEMMA FitsStep ==
  ASSUME ChanInv, IInv', buffer' \in [0 .. Capacity - 1 -> Elem],
         NEW t \in Thread, NEW b \in Place, NEW a, Fits(b, a),
         pc' = [pc EXCEPT ![t] = b], args' = [args EXCEPT ![t] = a]
  PROVE  ChanInv'
<1>1. a \in Args
  BY FitsCases
<1>2. args' \in [Thread -> Args] /\ \A u \in Thread : args'[u] = IF u = t THEN a ELSE args[u]
  BY <1>1 DEF ChanInv
<1>3. \A u \in Thread : pc'[u] = IF u = t THEN b ELSE pc[u]
  BY DEF ChanInv, IInv, TypeOK
<1>4. \A u \in Thread : Fits(pc'[u], args'[u])
  BY <1>2, <1>3 DEF ChanInv
<1> QED
  BY <1>2, <1>4 DEF ChanInv

LEMMA FitsSignalled ==
  ASSUME ChanInv, IInv', buffer' \in [0 .. Capacity - 1 -> Elem], NEW t \in Thread,
         NEW cond \in {"send_wait", "recv_wait"}, NEW runnable \in {"send", "recv"},
         <<cond, runnable>> \in {<<"send_wait", "send">>, <<"recv_wait", "recv">>},
         pc' \in Signalled(t, "idle", cond, runnable),
         args' = [args EXCEPT ![t] = <<>>]
  PROVE  ChanInv'
<1>1. args' \in [Thread -> Args] /\ \A u \in Thread : args'[u] = IF u = t THEN <<>> ELSE args[u]
  BY DEF ChanInv, Args
<1>2. PICK q \in [Thread -> Place] : q = [pc EXCEPT ![t] = "idle"]
  BY DEF ChanInv, IInv, TypeOK, Place
<1>3. \A u \in Thread : q[u] = IF u = t THEN "idle" ELSE pc[u]
  BY <1>2 DEF ChanInv, IInv, TypeOK
<1>4. \A u \in Thread : Fits(q[u], args'[u])
  BY <1>1, <1>3 DEF ChanInv, Fits
<1>5. pc' = q \/ \E u \in Thread : q[u] = cond /\ pc' = [q EXCEPT ![u] = runnable]
  BY <1>2 DEF Signalled
<1>6. CASE pc' = q
  BY <1>1, <1>4, <1>6 DEF ChanInv
<1>7. ASSUME NEW u \in Thread, q[u] = cond, pc' = [q EXCEPT ![u] = runnable] PROVE ChanInv'
  <2>1. \A v \in Thread : pc'[v] = IF v = u THEN runnable ELSE q[v]
    BY <1>7
  <2>2. Fits(cond, args'[u]) => Fits(runnable, args'[u])
    BY DEF Fits
  <2>3. \A v \in Thread : Fits(pc'[v], args'[v])
    BY <1>4, <1>7, <2>1, <2>2
  <2> QED
    BY <1>1, <2>3 DEF ChanInv
<1> QED
  BY <1>5, <1>6, <1>7

LEMMA FitsBroadcast ==
  ASSUME ChanInv, IInv', buffer' \in [0 .. Capacity - 1 -> Elem], UNCHANGED args,
         NEW cond \in {"send_wait", "recv_wait"}, NEW runnable \in {"send", "recv"},
         <<cond, runnable>> \in {<<"send_wait", "send">>, <<"recv_wait", "recv">>},
         pc' = Broadcast(cond, runnable)
  PROVE  ChanInv'
<1>1. \A u \in Thread : pc'[u] = IF pc[u] = cond THEN runnable ELSE pc[u]
  BY DEF Broadcast
<1>2. \A a : Fits(cond, a) => Fits(runnable, a)
  BY DEF Fits
<1>3. \A u \in Thread : Fits(pc'[u], args'[u])
  BY <1>1, <1>2 DEF ChanInv
<1> QED
  BY <1>3 DEF ChanInv

\* The fields of the running call.
LEMMA CallOf ==
  ASSUME ChanInv, NEW t \in Thread
  PROVE  /\ pc[t] = "send" => /\ args[t] # <<>> /\ args[t][1].op = "send"
                              /\ args[t][1].msg \in Msg
         /\ pc[t] = "recv" => args[t] # <<>> /\ args[t][1].op = "recv"
         /\ pc[t] = "idle" <=> args[t] = <<>>
         /\ pc[t] = "gone" <=> args[t] = Chan!Gone
<1>1. Fits(pc[t], args[t])
  BY DEF ChanInv
<1>2. CASE pc[t] = "send"
  <2>1. PICK m \in Msg, nb \in BOOLEAN : args[t] = <<SendCall(m, nb)>>
    BY <1>1, <1>2, FitsCases
  <2>2. args[t] # <<>> /\ args[t][1] = SendCall(m, nb)
    BY <2>1
  <2>3. SendCall(m, nb).op = "send" /\ SendCall(m, nb).msg = m
    BY DEF SendCall
  <2> QED
    BY <1>1, <1>2, <2>2, <2>3, FitsCases
<1>3. CASE pc[t] = "recv"
  <2>1. PICK nb \in BOOLEAN : args[t] = <<RecvCall(nb)>>
    BY <1>1, <1>3, FitsCases
  <2>2. args[t] # <<>> /\ args[t][1] = RecvCall(nb)
    BY <2>1
  <2>3. RecvCall(nb).op = "recv"
    BY DEF RecvCall
  <2> QED
    BY <1>1, <1>3, <2>2, <2>3, FitsCases
<1>4. CASE pc[t] \notin {"send", "recv"}
  BY <1>1, <1>4, FitsCases
<1> QED
  BY <1>2, <1>3, <1>4

LEMMA SameQueue ==
  ASSUME ChanInv, UNCHANGED fifo
  PROVE  /\ Peek(CanRead)' = Peek(CanRead)
         /\ buffer' \in [0 .. Capacity - 1 -> Elem]
BY DEF ChanInv, fifo, Peek, CanRead, Slot

LEMMA ChanCalls ==
  ASSUME ChanInv, IInv', NEW t \in Thread, CallSend(t) \/ CallRecv(t) \/ Spurious(t)
  PROVE  ChanInv' /\ [Chan!Next]_(Chan!vars)
<1>1. /\ UNCHANGED <<fifo, free_func, err_send, err_recv, out>>
      /\ Peek(CanRead)' = Peek(CanRead) /\ buffer' \in [0 .. Capacity - 1 -> Elem]
  BY SameQueue DEF CallSend, CallRecv, Spurious
<1>2. CASE CallSend(t)
  <2>1. PICK m \in Msg, nb \in BOOLEAN : args' = [args EXCEPT ![t] = <<SendCall(m, nb)>>]
    BY <1>2 DEF CallSend, SendCall
  <2>2. Fits("send", <<SendCall(m, nb)>>) /\ SendCall(m, nb) \in Chan!Call
    BY DEF Fits, SendCall, Chan!Call
  <2>3. args[t] = <<>>
    BY <1>2, CallOf DEF CallSend
  <2>4. ChanInv'
    BY <1>1, <1>2, <2>1, <2>2, FitsStep DEF CallSend, Place
  <2>5. Chan!Begin(t)
    BY <1>1, <2>1, <2>2, <2>3 DEF Chan!Begin
  <2> QED
    BY <2>4, <2>5 DEF Chan!Next
<1>3. CASE CallRecv(t)
  <2>1. PICK nb \in BOOLEAN : args' = [args EXCEPT ![t] = <<RecvCall(nb)>>]
    BY <1>3 DEF CallRecv, RecvCall
  <2>2. Fits("recv", <<RecvCall(nb)>>) /\ RecvCall(nb) \in Chan!Call
    BY DEF Fits, RecvCall, Chan!Call
  <2>3. args[t] = <<>>
    BY <1>3, CallOf DEF CallRecv
  <2>4. ChanInv'
    BY <1>1, <1>3, <2>1, <2>2, FitsStep DEF CallRecv, Place
  <2>5. Chan!Begin(t)
    BY <1>1, <2>1, <2>2, <2>3 DEF Chan!Begin
  <2> QED
    BY <2>4, <2>5 DEF Chan!Next
<1>4. CASE Spurious(t)
  <2>1. UNCHANGED args
    BY <1>4 DEF Spurious
  <2>2. args' = [args EXCEPT ![t] = args[t]]
    BY <2>1 DEF ChanInv
  <2>3. PICK b \in Place : pc' = [pc EXCEPT ![t] = b] /\ Fits(b, args[t])
    BY <1>4 DEF Spurious, ChanInv, Fits, Place
  <2>4. PICK a : a = args[t]
    OBVIOUS
  <2>5. Fits(b, a) /\ args' = [args EXCEPT ![t] = a]
    BY <2>2, <2>3, <2>4
  <2>6. ChanInv'
    BY <1>1, <2>3, <2>5, FitsStep
  <2> QED
    BY <1>1, <2>1, <2>6 DEF Chan!vars
<1> QED
  BY <1>2, <1>3, <1>4

LEMMA ChanSend ==
  ASSUME ChanInv, IInv', NEW t \in Thread, Send(t)
  PROVE  ChanInv' /\ [Chan!Next]_(Chan!vars)
<1>1. /\ pc[t] = "send" /\ UNCHANGED <<free_func, err_send, err_recv>>
      /\ args[t] # <<>> /\ args[t][1].op = "send" /\ args[t][1].msg \in Msg
  BY CallOf DEF Send
<1>2. /\ CanWrite = Capacity - CanRead /\ CanWrite \in 0 .. Capacity
      /\ Capacity \in Nat /\ CanRead \in 0 .. Capacity
  BY Sizes, CapacityAssumption DEF ChanInv, IInv
<1>3. Len(Peek(CanRead)) = CanRead
  BY Contents
<1>4. ASSUME NEW ret, ReturnsOnly(t, ret)
      PROVE  /\ ChanInv' /\ Peek(CanRead)' = Peek(CanRead) /\ Chan!Ends(t, "send", ret)
  <2>1. /\ args' = [args EXCEPT ![t] = <<>>] /\ pc' = [pc EXCEPT ![t] = "idle"]
        /\ out' = ret /\ UNCHANGED fifo
    BY <1>4 DEF ReturnsOnly, Returns
  <2>2. Fits("idle", <<>>)
    BY DEF Fits
  <2>3. ChanInv'
    BY <2>1, <2>2, SameQueue, FitsStep DEF Place
  <2> QED
    BY <1>1, <2>1, <2>3, SameQueue DEF Chan!Ends
<1>5. CASE err_send
  <2>1. ReturnsOnly(t, <<"ERR">>)
    BY <1>5 DEF Send
  <2>2. Chan!Refuse(t)
    BY <1>1, <1>4, <1>5, <2>1 DEF Chan!Refuse
  <2> QED
    BY <1>4, <2>1, <2>2 DEF Chan!Next
<1>6. CASE ~err_send /\ CanWrite > 0
  <2>1. /\ FifoWrite(args[t][1].msg) /\ pc' \in Signalled(t, "idle", "recv_wait", "recv")
        /\ args' = [args EXCEPT ![t] = <<>>] /\ out' = <<"OK">>
    BY <1>6 DEF Send, Returns
  <2>2. /\ Peek(CanRead)' = Append(Peek(CanRead), args[t][1].msg)
        /\ buffer' \in [0 .. Capacity - 1 -> Elem]
    BY <1>1, <1>6, <2>1, WriteAppends
  <2>3. ChanInv'
    BY <2>1, <2>2, FitsSignalled
  <2>4. Chan!Accept(t)
    BY <1>1, <1>2, <1>3, <1>6, <2>1, <2>2 DEF Chan!Accept, Chan!Ends
  <2> QED
    BY <2>3, <2>4 DEF Chan!Next
<1>7. CASE ~err_send /\ ~(CanWrite > 0) /\ args[t][1].nonblock
  <2>1. ReturnsOnly(t, <<"EAGAIN">>)
    BY <1>7 DEF Send
  <2>2. Len(Peek(CanRead)) = Capacity
    BY <1>2, <1>3, <1>7
  <2>3. Chan!TryAgain(t)
    BY <1>1, <1>4, <1>7, <2>1, <2>2 DEF Chan!TryAgain
  <2> QED
    BY <1>4, <2>1, <2>3 DEF Chan!Next
<1>8. CASE ~err_send /\ ~(CanWrite > 0) /\ ~args[t][1].nonblock
  <2>1. pc' = [pc EXCEPT ![t] = "send_wait"] /\ UNCHANGED <<fifo, args, out>>
    BY <1>8 DEF Send
  <2>2. args' = [args EXCEPT ![t] = args[t]] /\ Fits("send_wait", args[t])
    BY <1>1, <2>1 DEF ChanInv, Fits
  <2>3. ChanInv'
    BY <2>1, <2>2, SameQueue, FitsStep DEF Place
  <2> QED
    BY <1>1, <2>1, <2>3, SameQueue DEF Chan!vars
<1> QED
  BY <1>5, <1>6, <1>7, <1>8

LEMMA ChanRecv ==
  ASSUME ChanInv, IInv', NEW t \in Thread, Recv(t)
  PROVE  ChanInv' /\ [Chan!Next]_(Chan!vars)
<1>1. /\ pc[t] = "recv" /\ UNCHANGED <<free_func, err_send, err_recv>>
      /\ args[t] # <<>> /\ args[t][1].op = "recv"
  BY CallOf DEF Recv
<1>2. CanRead \in 0 .. Capacity /\ (CanRead = 0 <=> Peek(CanRead) = <<>>)
  BY Sizes, Contents DEF ChanInv, IInv
<1>3. ASSUME NEW ret, ReturnsOnly(t, ret)
      PROVE  /\ ChanInv' /\ Peek(CanRead)' = Peek(CanRead) /\ Chan!Ends(t, "recv", ret)
  <2>1. /\ args' = [args EXCEPT ![t] = <<>>] /\ pc' = [pc EXCEPT ![t] = "idle"]
        /\ out' = ret /\ UNCHANGED fifo
    BY <1>3 DEF ReturnsOnly, Returns
  <2>2. Fits("idle", <<>>)
    BY DEF Fits
  <2>3. ChanInv'
    BY <2>1, <2>2, SameQueue, FitsStep DEF Place
  <2> QED
    BY <1>1, <2>1, <2>3, SameQueue DEF Chan!Ends
<1>4. CASE CanRead > 0
  <2>1. /\ Drain(1) /\ pc' \in Signalled(t, "idle", "send_wait", "send")
        /\ args' = [args EXCEPT ![t] = <<>>] /\ out' = <<"OK", Peek(1)[1]>>
    BY <1>4 DEF Recv, Returns
  <2>2. /\ Peek(CanRead)' = Tail(Peek(CanRead)) /\ Peek(1)[1] = Head(Peek(CanRead))
        /\ buffer' \in [0 .. Capacity - 1 -> Elem]
    BY <1>4, <2>1, DrainsHead
  <2>3. ChanInv'
    BY <2>1, <2>2, FitsSignalled
  <2>4. Peek(CanRead) # <<>>
    BY <1>2, <1>4
  <2>5. Chan!Deliver(t)
    BY <1>1, <2>1, <2>2, <2>4 DEF Chan!Deliver, Chan!Ends
  <2> QED
    BY <2>3, <2>5 DEF Chan!Next
<1>5. CASE CanRead = 0 /\ err_recv
  <2>1. ReturnsOnly(t, <<"ERR">>)
    BY <1>5 DEF Recv
  <2>2. Chan!Refuse(t)
    BY <1>1, <1>2, <1>3, <1>5, <2>1 DEF Chan!Refuse
  <2> QED
    BY <1>3, <2>1, <2>2 DEF Chan!Next
<1>6. CASE CanRead = 0 /\ ~err_recv /\ args[t][1].nonblock
  <2>1. ReturnsOnly(t, <<"EAGAIN">>)
    BY <1>6 DEF Recv
  <2>2. Chan!TryAgain(t)
    BY <1>1, <1>2, <1>3, <1>6, <2>1 DEF Chan!TryAgain
  <2> QED
    BY <1>3, <2>1, <2>2 DEF Chan!Next
<1>7. CASE CanRead = 0 /\ ~err_recv /\ ~args[t][1].nonblock
  <2>1. pc' = [pc EXCEPT ![t] = "recv_wait"] /\ UNCHANGED <<fifo, args, out>>
    BY <1>7 DEF Recv
  <2>2. args' = [args EXCEPT ![t] = args[t]] /\ Fits("recv_wait", args[t])
    BY <1>1, <2>1 DEF ChanInv, Fits
  <2>3. ChanInv'
    BY <2>1, <2>2, SameQueue, FitsStep DEF Place
  <2> QED
    BY <1>1, <2>1, <2>3, SameQueue DEF Chan!vars
<1>8. CanRead > 0 \/ CanRead = 0
  BY <1>2, CapacityAssumption
<1> QED
  BY <1>4, <1>5, <1>6, <1>7, <1>8

LEMMA ChanOwner ==
  ASSUME ChanInv, IInv', SetErrSend \/ SetErrRecv \/ Flush \/ Free
  PROVE  ChanInv' /\ [Chan!Next]_(Chan!vars)
<1>1. Alive => Chan!Alive
  BY CallOf DEF Alive, Chan!Alive
<1>2. ASSUME GiveAll
      PROVE  /\ out' = <<"freed", IF free_func THEN Peek(CanRead) ELSE <<>>>>
             /\ Peek(CanRead)' = IF free_func THEN <<>> ELSE Peek(CanRead)
             /\ buffer' \in [0 .. Capacity - 1 -> Elem]
  <2>1. CASE free_func
    BY <1>2, <2>1, DrainsAll DEF GiveAll
  <2>2. CASE ~free_func
    BY <1>2, <2>2, SameQueue DEF GiveAll
  <2> QED
    BY <2>1, <2>2
<1>3. CASE SetErrSend
  <2>1. /\ pc' = Broadcast("send_wait", "send") /\ UNCHANGED <<free_func, err_recv, args, out>>
        /\ err_send' \in BOOLEAN /\ Alive
        /\ Peek(CanRead)' = Peek(CanRead) /\ buffer' \in [0 .. Capacity - 1 -> Elem]
    BY <1>3, SameQueue DEF SetErrSend
  <2>2. ChanInv'
    BY <2>1, FitsBroadcast
  <2> QED
    BY <1>1, <2>1, <2>2 DEF Chan!SetErrSend, Chan!Next
<1>4. CASE SetErrRecv
  <2>1. /\ pc' = Broadcast("recv_wait", "recv") /\ UNCHANGED <<free_func, err_send, args, out>>
        /\ err_recv' \in BOOLEAN /\ Alive
        /\ Peek(CanRead)' = Peek(CanRead) /\ buffer' \in [0 .. Capacity - 1 -> Elem]
    BY <1>4, SameQueue DEF SetErrRecv
  <2>2. ChanInv'
    BY <2>1, FitsBroadcast
  <2> QED
    BY <1>1, <2>1, <2>2 DEF Chan!SetErrRecv, Chan!Next
<1>5. CASE Flush
  <2>1. /\ GiveAll /\ pc' = Broadcast("send_wait", "send") /\ Alive
        /\ UNCHANGED <<free_func, err_send, err_recv, args>>
    BY <1>5 DEF Flush
  <2>2. ChanInv'
    <3>1. buffer' \in [0 .. Capacity - 1 -> Elem]
      BY <1>2, <2>1
    <3> QED
      BY <2>1, <3>1, FitsBroadcast
  <2>3. CASE free_func
    BY <1>1, <1>2, <2>1, <2>2, <2>3 DEF Chan!RemoveAll, Chan!Flush, Chan!Next
  <2>4. CASE ~free_func
    BY <1>1, <1>2, <2>1, <2>2, <2>4 DEF Chan!FlushKeeps, Chan!Next
  <2> QED
    BY <2>3, <2>4
<1>6. CASE Free
  <2>1. /\ GiveAll /\ pc' = [t \in Thread |-> "gone"] /\ \A t \in Thread : pc[t] = "idle"
        /\ args' = [t \in Thread |-> Chan!Gone]
        /\ UNCHANGED <<free_func, err_send, err_recv>>
    BY <1>6 DEF Free, Chan!Gone
  <2>2. \A t \in Thread : args[t] = <<>>
    BY <2>1, CallOf
  <2>3. args' \in [Thread -> Args] /\ \A t \in Thread : Fits(pc'[t], args'[t])
    BY <2>1 DEF Args, Fits
  <2>4. ChanInv'
    BY <1>2, <2>1, <2>3 DEF ChanInv
  <2> QED
    BY <1>2, <2>1, <2>2, <2>4 DEF Chan!Free, Chan!Next
<1> QED
  BY <1>3, <1>4, <1>5, <1>6

LEMMA ChanInit == Init => ChanInv /\ Chan!Init
<1> SUFFICES ASSUME Init PROVE ChanInv /\ Chan!Init
  OBVIOUS
<1>1. IInv
  BY IInvInit
<1>2. buffer \in [0 .. Capacity - 1 -> Elem]
  BY DEF Init, Elem
<1>3. args \in [Thread -> Args] /\ \A t \in Thread : Fits(pc[t], args[t])
  BY DEF Init, Args, Fits
<1>4. ChanInv
  BY <1>1, <1>2, <1>3 DEF ChanInv
<1>5. CanRead = 0
  BY <1>1, Sizes DEF Init, IInv
<1>6. Peek(CanRead) = <<>>
  BY <1>4, <1>5, Contents
<1> QED
  BY <1>4, <1>6 DEF Init, Chan!Init

LEMMA ChanStep == ChanInv /\ [Next]_vars => ChanInv' /\ [Chan!Next]_(Chan!vars)
<1> SUFFICES ASSUME ChanInv, [Next]_vars
             PROVE  ChanInv' /\ [Chan!Next]_(Chan!vars)
  OBVIOUS
<1>1. IInv'
  BY IInvStep DEF ChanInv
<1>2. CASE UNCHANGED vars
  <2>1. UNCHANGED <<free_func, fifo, err_send, err_recv, pc, args, out>>
    BY <1>2 DEF vars, fifo
  <2>2. Peek(CanRead)' = Peek(CanRead) /\ buffer' \in [0 .. Capacity - 1 -> Elem]
    BY <2>1, SameQueue
  <2> QED
    BY <1>1, <2>1, <2>2 DEF ChanInv, Chan!vars
<1> QED
  BY <1>1, <1>2, ChanCalls, ChanSend, ChanRecv, ChanOwner DEF Next, Over

\* Whatever the threads, messages and capacity, the queue behaves as the
\* channel: nothing lost, repeated or reordered, and each answer is one that
\* the channel may give, where a flush may keep the messages of a queue
\* without a free_func only.  ChannelSpec promises progress on top.
THEOREM QueueIsChannel == Spec => Chan!Init /\ [][Chan!Next]_(Chan!vars)
<1>1. Spec => [](ChanInv)
  BY ChanInit, ChanStep, PTL DEF Spec
<1> QED
  BY <1>1, ChanInit, ChanStep, PTL DEF Spec
=============================================================================
