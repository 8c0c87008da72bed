---------------------------- MODULE MessageQueue ----------------------------
(***************************************************************************)
(* libavutil/threadmessage.c: a bounded queue between threads, over the    *)
(* ring buffer of libavutil/fifo.c, one mutex and two condition variables. *)
(*                                                                         *)
(* Everything under mq->lock up to a pthread_cond_wait or the unlock is    *)
(* one action.  A thread that leaves the wait tests again from the top of  *)
(* its loop, as a thread does that just took the lock: pc tells only the   *)
(* runnable ones ("send", "recv") from the waiting ones.  The ring buffer  *)
(* keeps the offsets and the flag of AVFifo; a slot that was read holds    *)
(* junk, NoMsg.                                                            *)
(***************************************************************************)
EXTENDS Naturals, Sequences, FiniteSets

CONSTANTS Thread,       \* the threads that use the queue
          Msg,          \* messages
          Capacity,     \* nelem of the allocation
          NoMsg         \* content of a slot without a message

ASSUME CapacityAssumption == Capacity \in Nat \ {0}
ASSUME ThreadAssumption == IsFiniteSet(Thread)

VARIABLES free_func,            \* TRUE: mq->free_func was set, fixed
          buffer, offset_r, offset_w, is_empty,     \* the AVFifo
          err_send, err_recv,   \* TRUE while the error is not 0
          pc,                   \* "idle", "send", "send_wait", "recv", "recv_wait",
                                \* "gone" once the queue is freed
          args,                 \* args[t]: the arguments of the running call
          out                   \* what came out last: <<return value, message>> or
                                \* <<"freed", messages given to free_func>> of a flush

fifo == <<buffer, offset_r, offset_w, is_empty>>
vars == <<free_func, buffer, offset_r, offset_w, is_empty, err_send, err_recv,
          pc, args, out>>

-----------------------------------------------------------------------------
(* libavutil/fifo.c.                                                       *)

\* Variant with a bug: forgets that equal offsets may mean a full ring.
CanReadAmbiguous ==
  IF offset_w < offset_r THEN Capacity - offset_r + offset_w
                         ELSE offset_w - offset_r

CanRead == IF offset_w <= offset_r /\ ~is_empty
             THEN Capacity - offset_r + offset_w
             ELSE offset_w - offset_r
CanWrite == Capacity - CanRead

\* av_fifo_write of one element.
FifoWrite(m) ==
  /\ buffer' = [buffer EXCEPT ![offset_w] = m]
  /\ offset_w' = IF offset_w + 1 >= Capacity THEN 0 ELSE offset_w + 1
  /\ is_empty' = FALSE
  /\ UNCHANGED offset_r

\* The slot of element d, counted from the oldest.
Slot(d) == LET o == offset_r + d
           IN  IF o >= Capacity THEN o - Capacity ELSE o

\* What a peek at n elements sees: the loop of fifo_peek_common.
Peek(n) == [k \in 1 .. n |-> buffer[Slot(k - 1)]]

\* The slots of the first n elements, emptied.
Emptied(n) ==
  [k \in 0 .. Capacity - 1 |->
     IF \E d \in 0 .. n - 1 : k = Slot(d) THEN NoMsg ELSE buffer[k]]

Drain(n) ==
  /\ is_empty' = IF CanRead = n THEN TRUE ELSE is_empty
  /\ offset_r' = IF offset_r >= Capacity - n THEN offset_r - (Capacity - n)
                                             ELSE offset_r + n
  /\ buffer' = Emptied(n)
  /\ UNCHANGED offset_w

-----------------------------------------------------------------------------
Init == /\ free_func \in BOOLEAN
        /\ buffer = [k \in 0 .. Capacity - 1 |-> NoMsg]
        /\ offset_r = 0 /\ offset_w = 0 /\ is_empty = TRUE
        /\ err_send = FALSE /\ err_recv = FALSE
        /\ pc = [t \in Thread |-> "idle"]
        /\ args = [t \in Thread |-> <<>>]
        /\ out = <<>>

\* pthread_cond_signal and pthread_cond_broadcast, after t moved to place.
Signalled(t, place, cond, runnable) ==
  LET moved == [pc EXCEPT ![t] = place]
      asleep == {u \in Thread : moved[u] = cond}
  IN  IF asleep = {} THEN {moved}
      ELSE {[moved EXCEPT ![u] = runnable] : u \in asleep}
Broadcast(cond, runnable) ==
  [t \in Thread |-> IF pc[t] = cond THEN runnable ELSE pc[t]]

Returns(t, ret) == /\ args' = [args EXCEPT ![t] = <<>>]
                   /\ out' = ret

\* A call that ends without a signal to anybody.
ReturnsOnly(t, ret) == /\ Returns(t, ret)
                       /\ pc' = [pc EXCEPT ![t] = "idle"]
                       /\ UNCHANGED fifo

-----------------------------------------------------------------------------
(* av_thread_message_queue_send.                                           *)

CallSend(t) ==
  /\ pc[t] = "idle"
  /\ pc' = [pc EXCEPT ![t] = "send"]
  /\ \E m \in Msg, nonblock \in BOOLEAN :
       args' = [args EXCEPT ![t] = <<[op |-> "send", msg |-> m, nonblock |-> nonblock]>>]
  /\ UNCHANGED <<free_func, fifo, err_send, err_recv, out>>

Send(t) ==
  /\ pc[t] = "send"
  /\ CASE err_send -> ReturnsOnly(t, <<"ERR">>)
       [] ~err_send /\ CanWrite > 0 ->
            /\ FifoWrite(args[t][1].msg)
            /\ pc' \in Signalled(t, "idle", "recv_wait", "recv")
            /\ Returns(t, <<"OK">>)
       [] OTHER -> IF args[t][1].nonblock
                     THEN ReturnsOnly(t, <<"EAGAIN">>)
                     ELSE /\ pc' = [pc EXCEPT ![t] = "send_wait"]
                          /\ UNCHANGED <<fifo, args, out>>
  /\ UNCHANGED <<free_func, err_send, err_recv>>

(* av_thread_message_queue_recv.                                           *)

CallRecv(t) ==
  /\ pc[t] = "idle"
  /\ pc' = [pc EXCEPT ![t] = "recv"]
  /\ \E nonblock \in BOOLEAN :
       args' = [args EXCEPT ![t] = <<[op |-> "recv", nonblock |-> nonblock]>>]
  /\ UNCHANGED <<free_func, fifo, err_send, err_recv, out>>

Recv(t) ==
  /\ pc[t] = "recv"
  /\ CASE CanRead > 0 ->
            /\ Drain(1)
            /\ pc' \in Signalled(t, "idle", "send_wait", "send")
            /\ Returns(t, <<"OK", Peek(1)[1]>>)
       [] CanRead = 0 /\ err_recv -> ReturnsOnly(t, <<"ERR">>)
       [] OTHER -> IF args[t][1].nonblock
                     THEN ReturnsOnly(t, <<"EAGAIN">>)
                     ELSE /\ pc' = [pc EXCEPT ![t] = "recv_wait"]
                          /\ UNCHANGED <<fifo, args, out>>
  /\ UNCHANGED <<free_func, err_send, err_recv>>

-----------------------------------------------------------------------------
(* The owner's calls.                                                      *)

Alive == \E t \in Thread : pc[t] # "gone"

\* av_thread_message_queue_set_err_send, _recv: an error is set or cleared.
SetErrSend == /\ Alive /\ err_send' \in BOOLEAN
              /\ pc' = Broadcast("send_wait", "send")
              /\ UNCHANGED <<free_func, fifo, err_recv, args, out>>

\* Variant with a bug: signals one receiver.
SetErrRecvSignals ==
  /\ Alive /\ err_recv' \in BOOLEAN
  /\ \/ \E t \in Thread : pc[t] = "recv_wait" /\ pc' = [pc EXCEPT ![t] = "recv"]
     \/ \A t \in Thread : pc[t] # "recv_wait" /\ UNCHANGED pc
  /\ UNCHANGED <<free_func, fifo, err_send, args, out>>

SetErrRecv == /\ Alive /\ err_recv' \in BOOLEAN
              /\ pc' = Broadcast("recv_wait", "recv")
              /\ UNCHANGED <<free_func, fifo, err_send, args, out>>

\* av_thread_message_flush: the messages are read to free_func; without one
\* they stay.  The senders are woken in any case.
GiveAll == IF free_func THEN Drain(CanRead) /\ out' = <<"freed", Peek(CanRead)>>
                        ELSE UNCHANGED fifo /\ out' = <<"freed", <<>>>>

Flush == /\ Alive /\ GiveAll
         /\ pc' = Broadcast("send_wait", "send")
         /\ UNCHANGED <<free_func, err_send, err_recv, args>>

\* av_thread_message_queue_free, by the last user: a flush, then the end.
Free == /\ \A t \in Thread : pc[t] = "idle"
        /\ GiveAll
        /\ pc' = [t \in Thread |-> "gone"]
        /\ args' = [t \in Thread |-> <<[op |-> "gone"]>>]
        /\ UNCHANGED <<free_func, err_send, err_recv>>

Over == ~Alive /\ UNCHANGED vars

\* pthread_cond_wait returns without a signal.
Spurious(t) ==
  /\ \/ pc[t] = "send_wait" /\ pc' = [pc EXCEPT ![t] = "send"]
     \/ pc[t] = "recv_wait" /\ pc' = [pc EXCEPT ![t] = "recv"]
  /\ UNCHANGED <<free_func, fifo, err_send, err_recv, args, out>>

Next == \/ \E t \in Thread : CallSend(t) \/ CallRecv(t) \/ Send(t) \/ Recv(t) \/ Spurious(t)
        \/ SetErrSend \/ SetErrRecv \/ Flush \/ Free \/ Over

\* A runnable thread gets the lock at last.  Nobody owes a call.
Spec == /\ Init /\ [][Next]_vars
        /\ \A t \in Thread : WF_vars(Send(t) \/ Recv(t))

-----------------------------------------------------------------------------
(* Properties.                                                             *)

At(place) == {t \in Thread : pc[t] = place}

\* No wake-up is lost.  A sender sleeps only while there is no error to tell
\* it and no more room than there are runnable senders to take it; the same
\* for receivers and messages.  One signal for each message is enough.
NoLostWakeup ==
  /\ At("send_wait") # {} => ~err_send /\ CanWrite <= Cardinality(At("send"))
  /\ At("recv_wait") # {} => ~err_recv /\ CanRead <= Cardinality(At("recv"))

\* Ring buffer, lock and condition variables together are a channel, with
\* its order, its bound and its promises of progress, but for the flush of a
\* queue without a free_func (Channel's FlushKeeps).
Chan == INSTANCE Channel WITH queue <- Peek(CanRead), calls <- args
ChannelSpec == Chan!Spec
=============================================================================
